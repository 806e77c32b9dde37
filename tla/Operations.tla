----------------------------- MODULE Operations -----------------------------
(***************************************************************************)
(* Request/reply in a World: the calls of runtime-core/src/lib.rs that use *)
(* the operation table, with the request deliveries in the mailboxes of    *)
(* their targets and the leases on them.  Every call runs under the World  *)
(* mutex and is one action.  The ownership tree is the Lifecycle module:   *)
(* here a stop or a drain hits an arbitrary set of actors, and a stopping  *)
(* actor is retired with the call that releases it or at any time later.   *)
(***************************************************************************)
EXTENDS OperationTable, Sequences

CONSTANTS
  NoOp,             \* no operation in the lease slot of an actor
  MailboxCapacity,  \* request deliveries per mailbox
  MaxIssued         \* bound on the requests accepted

ASSUME NoOpAssumption == NoOp \notin OpId
ASSUME MailboxAssumption == MailboxCapacity \in Nat
ASSUME IssuedAssumption == MaxIssued \in Nat

VARIABLES
  table,        \* State.operations
  actorState,   \* the execution state of each actor
  queue,        \* the request deliveries of Actor.queue
  running,      \* the operation of the DeliveryLease on each actor
  now,          \* the World clock
  issued,       \* requests whose identity was returned to the caller
  settled       \* operation_completed + operation_timed_out + operation_cancelled

vars == <<table, actorState, queue, running, now, issued, settled>>

Delivery == [id : OpId, deadline : Time]

Serving(a) == actorState[a] \in {"Active", "Quiescing"}

\* How many of the operations a call decides: a loser changes nothing.
Count(t, ids) == Cardinality({id \in ids : IsPending(t, id)})

-----------------------------------------------------------------------------
(* Stopping, as far as operations are concerned.                           *)

\* fence_locked reaches the actors of S one after the other and cancels the
\* operations an actor owns before those it serves.
OwnerHitFirst(t, S, order, id) ==
  LET r == t.request[id.slot]
  IN r.owner \in S /\ (r.target \in S => order[r.owner] <= order[r.target])

FenceOwned(t, S, order) ==
  {id \in UNION {t.ownerIndex[a] : a \in S} :
     IsPending(t, id) /\ OwnerHitFirst(t, S, order, id)}

\* Wrong: the fence forgets the operations the stopped actors serve.
FenceServedNone(t, S, order) == {}

FenceServed(t, S, order) ==
  {id \in UNION {t.targetIndex[a] : a \in S} :
     IsPending(t, id) /\ ~OwnerHitFirst(t, S, order, id)}

Fenced(t, S, order) ==
  Complete(Complete(t, FenceOwned(t, S, order), "OwnerStopped"),
           FenceServed(t, S, order), "TargetStopped")

Orders(S) == {f \in [S -> 1..Cardinality(S)] : \A a, b \in S : f[a] = f[b] => a = b}

IdleActors == {a \in Actor : running[a] = NoOp}

\* The end of a call that may stop the actors of S (none, if S is empty): st is
\* the state of the actors, t the table and q the mailboxes so far, and n what
\* the call added to the metrics.  try_finalize retires what nothing holds.
StopAll(S, st, t, n, q) ==
  \E order \in Orders(S), gone \in SUBSET (S \cap IdleActors) :
  \E fenced \in {Fenced(t, S, order)} :
    /\ table' = RetireOwner(fenced, gone)
    /\ settled' = settled + n + Count(t, FenceOwned(t, S, order) \cup FenceServed(t, S, order))
    /\ queue' = [a \in Actor |-> IF a \in S THEN <<>> ELSE q[a]]
    /\ actorState' = [a \in Actor |-> IF a \in gone THEN "Stopped"
                                      ELSE IF a \in S THEN "Stopping" ELSE st[a]]

\* The scopes a call may stop: any set of actors that are not retired yet.
Scopes == SUBSET {a \in Actor : actorState[a] # "Stopped"}

-----------------------------------------------------------------------------
(* Requests and replies.                                                   *)

\* request_with_port: when the payload or the admission is refused, the
\* reserved slot is released before the caller sees its identity.
MakeRequest(owner, target, deadline) ==
  /\ actorState[owner] = "Active" /\ actorState[target] = "Active"
  /\ \E s \in ReservableSlots(table) :
       LET id == ReservedId(table, s)
           t == Reserve(table, s, [owner |-> owner, target |-> target,
                                   deadline |-> deadline])
       IN \/ /\ issued < MaxIssued
             /\ deadline > now
             /\ Len(queue[target]) < MailboxCapacity
             /\ table' = t
             /\ queue' = [queue EXCEPT ![target] =
                            Append(@, [id |-> id, deadline |-> deadline])]
             /\ issued' = issued + 1
          \/ /\ table' = ReleaseUnsubmitted(t, id)
             /\ UNCHANGED <<queue, issued>>
  /\ UNCHANGED <<actorState, running, now, settled>>

\* Wrong: the reply does not look at the deadline first.
ReplyWithoutExpiry(id) == table

\* complete_operation_with enforces the deadline before it looks at the entry.
ReplyTable(id) == ExpireOne(table, {id}, now)

\* complete_operation_with: a reply from the target, a result over budget, or
\* a reply whose own deadline has passed.  A late or foreign one changes nothing.
CompleteOperation(id, target, outcome) ==
  LET t == ReplyTable(id)
      r == table.request[id.slot]
      accepted == /\ IsPending(t, id)
                  /\ r.target = target
                  /\ Serving(r.owner) /\ Serving(target)
  IN /\ IsPending(table, id)
     /\ table' = IF accepted THEN Complete(t, {id}, outcome) ELSE t
     /\ settled' = settled + (IF accepted \/ Due(table, id, now) THEN 1 ELSE 0)
     /\ UNCHANGED <<actorState, queue, running, now, issued>>

CancelOperation(id) ==
  /\ IsPending(table, id)
  /\ table' = Complete(table, {id}, "Cancelled")
  /\ settled' = settled + 1
  /\ UNCHANGED <<actorState, queue, running, now, issued>>

\* take_operation on a terminal entry; on a pending one it returns None.
TakeOperation(id) ==
  /\ Located(table, id) /\ ~IsPending(table, id)
  /\ table' = Take(table, {id})
  /\ UNCHANGED <<actorState, queue, running, now, issued, settled>>

-----------------------------------------------------------------------------
(* Request deliveries.                                                     *)

\* What claim may lease: the operation is pending and in time.
Deliverable(d) == d.deadline > now /\ IsPending(table, d.id)

\* Wrong: the leased delivery stays at the front.
RestFrom(q, first) == SubSeq(q, first, Len(q))

RestAfter(q, first) == SubSeq(q, first + 1, Len(q))

\* Where claim stops in q: at the first good delivery, or at the end.
StopsAt(q, good) ==
  IF good = {} THEN Len(q) + 1 ELSE CHOOSE i \in good : \A j \in good : i <= j

\* claim pops deliveries until one is good, expiring the overdue ones.
Claim(a) ==
  LET q == queue[a]
      good == {i \in DOMAIN q : Deliverable(q[i])}
      first == StopsAt(q, good)
      passed == {q[i].id : i \in 1..(first - 1)}
  IN /\ Serving(a)
     /\ running[a] = NoOp
     /\ q # <<>>
     /\ table' = ExpireOne(table, passed, now)
     /\ settled' = settled + Cardinality({id \in passed : Due(table, id, now)})
     /\ queue' = [queue EXCEPT ![a] = RestAfter(q, first)]
     /\ running' = [running EXCEPT ![a] = IF good = {} THEN NoOp ELSE q[first].id]
     /\ UNCHANGED <<actorState, now, issued>>

\* DeliveryLease: finish(true) leaves the operation to its reply, finish(false)
\* fails it, Drop cancels it.  A stopping actor may be retired with it.
ReleaseDelivery(a, result) ==
  LET ids == IF result = "Done" THEN {} ELSE {running[a]}
      stopping == {a} \cap {b \in Actor : actorState[b] = "Stopping"}
  IN /\ running[a] # NoOp
     /\ running' = [running EXCEPT ![a] = NoOp]
     /\ settled' = settled + Count(table, ids)
     /\ \E gone \in SUBSET stopping :
          /\ table' = RetireOwner(IF result = "Done" THEN table
                                  ELSE Complete(table, ids, result), gone)
          /\ actorState' = [b \in Actor |-> IF b \in gone THEN "Stopped" ELSE actorState[b]]
     /\ UNCHANGED <<queue, now, issued>>

\* report_failure naming an operation: it times out or fails, then the failure
\* action may stop a scope.
ReportFailure(id, S) ==
  /\ IsPending(table, id)
  /\ StopAll(S, actorState, Complete(ExpireOne(table, {id}, now), {id}, "Failed"), 1, queue)
  /\ UNCHANGED <<running, now, issued>>

-----------------------------------------------------------------------------
(* Stops, drains and maintenance.                                          *)

Fence(S) ==
  /\ S # {}
  /\ StopAll(S, actorState, table, 0, queue)
  /\ UNCHANGED <<running, now, issued>>

\* The last hold on stopping actors that is not a delivery goes away.
Retire(gone) ==
  /\ gone # {}
  /\ gone \subseteq IdleActors
  /\ \A a \in gone : actorState[a] = "Stopping"
  /\ table' = RetireOwner(table, gone)
  /\ actorState' = [a \in Actor |-> IF a \in gone THEN "Stopped" ELSE actorState[a]]
  /\ UNCHANGED <<queue, running, now, issued, settled>>

\* The operations whose queued deliveries are overdue: expire_delivery_locked
\* expires those that are still pending.
OverdueIds ==
  UNION {{queue[a][i].id : i \in {j \in DOMAIN queue[a] : queue[a][j].deadline <= now}}
           : a \in Actor}

\* The elements of q at the positions in keep, in order.
Rank(keep, i) == Cardinality({j \in keep : j <= i})
AtRank(keep, k) == CHOOSE i \in keep : Rank(keep, i) = k
Retain(q, keep) == [k \in 1..Cardinality(keep) |-> q[AtRank(keep, k)]]

\* expire_events_locked: the deliveries a mailbox keeps.
InTime(q) == Retain(q, {i \in DOMAIN q : q[i].deadline > now})

\* maintain_locked: overdue deliveries go with their operations, then overdue
\* operations, then the drains that ended are stopped.
MaintainLocked(st, ended) ==
  /\ \A a \in ended : st[a] = "Quiescing"
  /\ \E t \in {ExpireOne(table, OverdueIds, now)} : \E u \in {ExpireIds(t, now)} :
       StopAll(ended, st, u,
               Cardinality({id \in OverdueIds : Due(table, id, now)})
                 + Cardinality(ExpiredIds(t, now)),
               [a \in Actor |-> InTime(queue[a])])
  /\ UNCHANGED <<running, now, issued>>

Maintain(ended) == MaintainLocked(actorState, ended)

\* request_drain and drain_all mark what is active in a scope, S, and run the
\* maintenance pass.  With nothing active this is Maintain.
Drain(S, ended) ==
  /\ S # {}
  /\ \A a \in S : actorState[a] = "Active"
  /\ MaintainLocked([a \in Actor |-> IF a \in S THEN "Quiescing" ELSE actorState[a]], ended)

Tick ==
  /\ now < MaxTime
  /\ now' = now + 1
  /\ UNCHANGED <<table, actorState, queue, running, issued, settled>>

-----------------------------------------------------------------------------
Init ==
  /\ table = EmptyTable
  /\ actorState = [a \in Actor |-> "Active"]
  /\ queue = [a \in Actor |-> <<>>]
  /\ running = [a \in Actor |-> NoOp]
  /\ now = 0
  /\ issued = 0
  /\ settled = 0

Next ==
  \/ \E o, g \in Actor, d \in Time : MakeRequest(o, g, d)
  \/ \E id \in OpId, a \in Actor, out \in {"Completed", "Failed", "TimedOut"} :
       CompleteOperation(id, a, out)
  \/ \E id \in OpId : CancelOperation(id)
  \/ \E id \in OpId : TakeOperation(id)
  \/ \E a \in Actor : Claim(a)
  \/ \E a \in Actor, result \in {"Done", "Failed", "Cancelled"} : ReleaseDelivery(a, result)
  \/ \E id \in OpId, S \in Scopes : ReportFailure(id, S)
  \/ \E S \in Scopes : Fence(S)
  \/ \E gone \in SUBSET Actor : Retire(gone)
  \/ \E S, ended \in SUBSET Actor : Drain(S, ended)
  \/ \E ended \in SUBSET Actor : Maintain(ended)
  \/ Tick

Spec == Init /\ [][Next]_vars

-----------------------------------------------------------------------------
(* Properties.                                                             *)

\* The hand-maintained indexes and counters of the table agree with its
\* entries after any sequence of requests, replies, fences and expiries:
\* reports, drains, fences and expiry all trust them instead of the entries.
\* And the metrics account for every operation once: whichever of reply,
\* failure, cancellation, expiry and fence wins is counted, and no loser is.
IndexExact == IndexExactOf(table) /\ issued = table.pending + settled

\* Nothing is pending behind a fence: both ends of a pending operation still
\* serve, so no reply can arrive for a stopped owner or target; and a retired
\* actor owns no slot, so its untaken results cannot use up the table.
PendingIsServed ==
  \A s \in OpSlot :
    /\ table.phase[s] = "Pending" =>
         Serving(table.request[s].owner) /\ Serving(table.request[s].target)
    /\ table.owners[s] # NoActor => actorState[table.owners[s]] # "Stopped"

QueuedAt(id) == {p \in Actor \X (1..MailboxCapacity) :
                   p[2] <= Len(queue[p[1]]) /\ queue[p[1]][p[2]].id = id}

\* A request reaches its handler at most once: an operation has one delivery,
\* queued or leased, and a delivery that outlived its operation never names
\* the operation that reuses the slot.
DeliveredOnce ==
  \A id \in OpId :
    Cardinality(QueuedAt(id)) + Cardinality({a \in Actor : running[a] = id}) <= 1

\* After its deadline an operation is no longer completed by a reply, also when
\* the reply comes before the maintenance pass that would have expired it.
LateReplyLoses ==
  [][\A id \in OpId : Due(table, id, now) /\ Located(table', id) =>
       table'.phase[id.slot] # "Completed"]_vars

\* What the holder of an identity can tell about it.
StatusOf(t, id) ==
  IF t.generation[id.slot] < id.generation THEN "Unissued"
  ELSE IF t.generation[id.slot] > id.generation THEN "Gone"
  ELSE IF t.phase[id.slot] # "Empty" THEN t.phase[id.slot]
  ELSE IF id.slot \in t.free THEN "Unissued" ELSE "Gone"

HolderOf(t, id) == IF Located(t, id) THEN t.owners[id.slot] ELSE NoActor

Promise == INSTANCE OneShot WITH
  Id <- OpId, Outcome <- Outcomes, Owner <- Actor, NoOwner <- NoActor,
  status <- [id \in OpId |-> StatusOf(table, id)],
  holder <- [id \in OpId |-> HolderOf(table, id)],
  retired <- {a \in Actor : actorState[a] = "Stopped"}

\* The table implements the one-shot promise: an identity is issued once, gets
\* one outcome that no later reply, cancellation or fence replaces, is never
\* pending or answered again after it was consumed, and disappears undecided
\* only with its owner.
KeepsPromise == Promise!Spec
=============================================================================
