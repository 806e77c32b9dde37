--------------------------- MODULE OperationTable ---------------------------
(***************************************************************************)
(* The request/reply table of a World (runtime-core/src/operations.rs) as  *)
(* a value and the functions that update it.  An operation is one slot of  *)
(* a bounded table; its identity is the slot and the slot's generation.    *)
(* Beside the entries the table keeps counters, an owner index, a target   *)
(* index and an ordered set of deadlines, all maintained by hand.          *)
(*                                                                         *)
(* The code loops over sorted lists of identities; every iteration touches *)
(* a different slot, so the functions below take the whole set at once.    *)
(***************************************************************************)
EXTENDS Integers, FiniteSets

CONSTANTS
  OpSlot,     \* the slots of the table: max_operations of them
  LastGen,    \* the last generation of a slot (u64::MAX in the code)
  Actor,      \* actor references
  NoActor,    \* Option::None where an actor is expected
  MaxTime     \* bound on the clock

ASSUME OpSlotAssumption == IsFiniteSet(OpSlot)
ASSUME LastGenAssumption == LastGen \in Nat \ {0}
ASSUME ActorAssumption == IsFiniteSet(Actor) /\ NoActor \notin Actor
ASSUME OpTimeAssumption == MaxTime \in Nat

Time == 0..MaxTime
OpId == [slot : OpSlot, generation : 1..LastGen]

Outcomes == {"Completed", "Failed", "TimedOut", "Cancelled", "OwnerStopped",
             "TargetStopped"}
Phases == {"Empty", "Pending"} \cup Outcomes

\* PendingOperation, and what is left of it in a slot that is not pending.
Request == [owner : Actor, target : Actor, deadline : Time]
NoRequest == [owner |-> NoActor, target |-> NoActor, deadline |-> 0]

Table ==
  [phase : [OpSlot -> Phases],                     \* slots
   request : [OpSlot -> Request \cup {NoRequest}], \* Entry::Pending(p)
   generation : [OpSlot -> 0..LastGen],            \* generations; 0: no slot yet
   owners : [OpSlot -> Actor \cup {NoActor}],
   free : SUBSET OpSlot,
   live : Int,
   pending : Int,
   pendingOwners : [Actor -> Int],
   ownerIndex : [Actor -> SUBSET OpId],
   targetIndex : [Actor -> SUBSET OpId],
   deadlines : SUBSET (Time \X OpId)]

EmptyTable ==
  [phase |-> [s \in OpSlot |-> "Empty"],
   request |-> [s \in OpSlot |-> NoRequest],
   generation |-> [s \in OpSlot |-> 0],
   owners |-> [s \in OpSlot |-> NoActor],
   free |-> {},
   live |-> 0,
   pending |-> 0,
   pendingOwners |-> [a \in Actor |-> 0],
   ownerIndex |-> [a \in Actor |-> {}],
   targetIndex |-> [a \in Actor |-> {}],
   deadlines |-> {}]

IdAt(t, s) == [slot |-> s, generation |-> t.generation[s]]

\* locate: the identity names the entry its slot holds now.
Located(t, id) ==
  t.generation[id.slot] = id.generation /\ t.phase[id.slot] # "Empty"

IsPending(t, id) == Located(t, id) /\ t.phase[id.slot] = "Pending"

Slots(ids) == {id.slot : id \in ids}

Due(t, id, now) == IsPending(t, id) /\ t.request[id.slot].deadline <= now

-----------------------------------------------------------------------------
(* reserve takes a free slot, or a new one while the table may grow.       *)

ReservableSlots(t) ==
  IF t.live >= Cardinality(OpSlot) THEN {}
  ELSE IF t.free # {} THEN t.free
  ELSE {s \in OpSlot : t.generation[s] = 0}

ReservedId(t, s) ==
  [slot |-> s, generation |-> IF t.generation[s] = 0 THEN 1 ELSE t.generation[s]]

\* index_pending.
IndexPending(t, id, r) ==
  [t EXCEPT
     !.owners = [t.owners EXCEPT ![id.slot] = r.owner],
     !.pendingOwners = [t.pendingOwners EXCEPT ![r.owner] = @ + 1],
     !.ownerIndex = [t.ownerIndex EXCEPT ![r.owner] = @ \cup {id}],
     !.targetIndex = [t.targetIndex EXCEPT ![r.target] = @ \cup {id}],
     !.deadlines = t.deadlines \cup {<<r.deadline, id>>}]

Reserve(t, s, r) ==
  LET id == ReservedId(t, s) IN
  IndexPending([t EXCEPT
                  !.phase = [t.phase EXCEPT ![s] = "Pending"],
                  !.request = [t.request EXCEPT ![s] = r],
                  !.generation = [t.generation EXCEPT ![s] = id.generation],
                  !.free = t.free \ {s},
                  !.live = t.live + 1,
                  !.pending = t.pending + 1], id, r)

-----------------------------------------------------------------------------
(* Completion.                                                             *)

\* Wrong: the deadline entry of a completed operation stays.
DeadlineEntriesNone(t, ids) == {}

DeadlineEntries(t, ids) == {<<t.request[id.slot].deadline, id>> : id \in ids}

\* remove_pending_owner and remove_target_index, for pending identities.
UncountOwner(t, ids) ==
  [a \in Actor |-> t.pendingOwners[a]
                     - Cardinality({id \in ids : t.request[id.slot].owner = a})]

UnindexTarget(t, ids) ==
  [a \in Actor |-> t.targetIndex[a] \ {id \in ids : t.request[id.slot].target = a}]

\* complete for each identity: only a pending entry takes the outcome, and it
\* leaves the target index, the pending counters and the deadlines; its owner
\* index entry stays until the outcome is taken.
Complete(t, ids, outcome) ==
  LET won == {id \in ids : IsPending(t, id)}
  IN [t EXCEPT
        !.phase = [s \in OpSlot |-> IF s \in Slots(won) THEN outcome ELSE t.phase[s]],
        !.request = [s \in OpSlot |-> IF s \in Slots(won) THEN NoRequest ELSE t.request[s]],
        !.pending = t.pending - Cardinality(won),
        !.pendingOwners = UncountOwner(t, won),
        !.targetIndex = UnindexTarget(t, won),
        !.deadlines = t.deadlines \ DeadlineEntries(t, won)]

\* expire_ids: the due entries leave the deadlines whatever they name.
ExpireIds(t, now) ==
  LET due == {e \in t.deadlines : e[1] <= now}
  IN Complete([t EXCEPT !.deadlines = t.deadlines \ due],
              {e[2] : e \in {d \in due : Located(t, d[2])}}, "TimedOut")

\* The identities expire_ids reports, each counted as timed out.
ExpiredIds(t, now) ==
  {e[2] : e \in {d \in t.deadlines : d[1] <= now /\ Located(t, d[2])}}

\* expire_one at the boundary where one operation is claimed or completed.
ExpireOne(t, ids, now) == Complete(t, {id \in ids : Due(t, id, now)}, "TimedOut")

-----------------------------------------------------------------------------
(* Retirement of identities.                                               *)

\* Wrong: the slot goes back without a new generation.
RetireKeepsGeneration(t, slots) ==
  [t EXCEPT !.free = t.free \cup slots, !.live = t.live - Cardinality(slots)]

\* retire_generation and the live counter: a slot whose generations are used
\* up is never offered again.
RetireGeneration(t, slots) ==
  LET reusable == {s \in slots : t.generation[s] < LastGen}
  IN [t EXCEPT
        !.generation = [s \in OpSlot |-> IF s \in reusable THEN t.generation[s] + 1
                                         ELSE t.generation[s]],
        !.free = t.free \cup reusable,
        !.live = t.live - Cardinality(slots)]

\* remove_owner_index.
UnindexOwner(t, ids) ==
  [a \in Actor |-> t.ownerIndex[a] \ {id \in ids : t.owners[id.slot] = a}]

\* take for each identity: a terminal entry leaves the table.
Take(t, ids) ==
  LET taken == {id \in ids : Located(t, id) /\ ~IsPending(t, id)}
  IN RetireGeneration(
       [t EXCEPT
          !.phase = [s \in OpSlot |-> IF s \in Slots(taken) THEN "Empty" ELSE t.phase[s]],
          !.owners = [s \in OpSlot |-> IF s \in Slots(taken) THEN NoActor ELSE t.owners[s]],
          !.ownerIndex = UnindexOwner(t, taken)],
       Slots(taken))

\* remove_index of a pending operation.
RemoveIndex(t, id) ==
  [t EXCEPT
     !.owners = [t.owners EXCEPT ![id.slot] = NoActor],
     !.pendingOwners = UncountOwner(t, {id}),
     !.ownerIndex = UnindexOwner(t, {id}),
     !.targetIndex = UnindexTarget(t, {id}),
     !.deadlines = t.deadlines \ DeadlineEntries(t, {id})]

\* release_unsubmitted: the pending entry leaves unseen.
ReleaseUnsubmitted(t, id) ==
  LET s == id.slot
  IN RetireGeneration(
       [RemoveIndex(t, id) EXCEPT
          !.phase = [t.phase EXCEPT ![s] = "Empty"],
          !.request = [t.request EXCEPT ![s] = NoRequest],
          !.pending = t.pending - 1],
       {s})

\* retire_owner for each actor: what is left pending is completed, then all of
\* the actor's entries are taken.
RetireOwner(t, actors) ==
  LET ids == UNION {t.ownerIndex[a] : a \in actors}
  IN Take(Complete(t, ids, "OwnerStopped"), ids)

-----------------------------------------------------------------------------
(* The promise of the indexes.                                             *)

EntryIds(t) == {IdAt(t, s) : s \in {u \in OpSlot : t.phase[u] # "Empty"}}
PendingIds(t) == {IdAt(t, s) : s \in {u \in OpSlot : t.phase[u] = "Pending"}}

\* Every index and counter says what a scan of the slots would say, and a slot
\* without an entry is on the free list unless it is new or used up.
IndexExactOf(t) ==
  /\ \A s \in OpSlot :
       /\ t.phase[s] = "Pending" <=> t.request[s] # NoRequest
       /\ t.phase[s] = "Empty" <=> t.owners[s] = NoActor
       /\ t.phase[s] = "Pending" => t.owners[s] = t.request[s].owner
       /\ t.phase[s] # "Empty" => t.generation[s] > 0
       /\ s \in t.free => t.phase[s] = "Empty" /\ t.generation[s] > 0
       /\ t.phase[s] = "Empty" /\ s \notin t.free => t.generation[s] \in {0, LastGen}
  /\ t.live = Cardinality(EntryIds(t))
  /\ t.pending = Cardinality(PendingIds(t))
  /\ \A a \in Actor :
       /\ t.ownerIndex[a] = {id \in EntryIds(t) : t.owners[id.slot] = a}
       /\ t.targetIndex[a] = {id \in PendingIds(t) : t.request[id.slot].target = a}
       /\ t.pendingOwners[a] =
            Cardinality({id \in PendingIds(t) : t.request[id.slot].owner = a})
  /\ t.deadlines = {<<t.request[id.slot].deadline, id>> : id \in PendingIds(t)}
=============================================================================
