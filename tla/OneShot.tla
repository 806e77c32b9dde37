------------------------------ MODULE OneShot ------------------------------
(***************************************************************************)
(* What a request/reply operation promises its holder, without tables or   *)
(* indexes: an identity is issued at most once, to an owner that is not    *)
(* retired; it gets exactly one outcome, keeps it until it is consumed or  *)
(* its owner retires, and never comes back.  Only with its owner may a     *)
(* pending operation disappear.  One step of the World may move many       *)
(* operations (a stop fence, a maintenance pass).                          *)
(***************************************************************************)
CONSTANTS Id, Outcome, Owner, NoOwner

VARIABLES
  status,   \* what the holder of an identity can learn about it
  holder,   \* the owner of an operation that is pending or answered
  retired   \* the owners that are gone

Statuses == {"Unissued", "Pending", "Gone"} \cup Outcome

Keep(id) == status'[id] = status[id] /\ holder'[id] = holder[id]

Issue(id) == /\ status[id] = "Unissued"
             /\ status'[id] = "Pending"
             /\ holder'[id] \in Owner

\* A request that is refused after it got a slot burns its identity unseen.
Burn(id) == /\ status[id] = "Unissued"
            /\ status'[id] = "Gone"
            /\ holder'[id] = NoOwner

Decide(id) == /\ status[id] = "Pending"
              /\ status'[id] \in Outcome
              /\ holder'[id] = holder[id]

Consume(id) == /\ status[id] \in Outcome
               /\ status'[id] = "Gone"
               /\ holder'[id] = NoOwner

Forget(id) == /\ status[id] = "Pending"
              /\ holder[id] \in retired'
              /\ status'[id] = "Gone"
              /\ holder'[id] = NoOwner

Init == /\ status = [id \in Id |-> "Unissued"]
        /\ holder = [id \in Id |-> NoOwner]
        /\ retired = {}

Next == /\ status' \in [Id -> Statuses]
        /\ holder' \in [Id -> Owner \cup {NoOwner}]
        /\ retired \subseteq retired' /\ retired' \subseteq Owner
        /\ \A id \in Id :
             /\ Keep(id) \/ Issue(id) \/ Burn(id) \/ Decide(id) \/ Consume(id) \/ Forget(id)
             /\ holder'[id] \notin retired'

Spec == Init /\ [][Next]_<<status, holder, retired>>
=============================================================================
