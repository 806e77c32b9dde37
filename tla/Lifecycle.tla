----------------------------- MODULE Lifecycle -----------------------------
(***************************************************************************)
(* The ownership tree of one actorplane World (runtime-core/src/lib.rs,    *)
(* supervision.rs, callbacks.rs): actor slots with generations, lifecycle  *)
(* states, the leases callers hold on actors, failure notifications, the   *)
(* stop fence with deferred finalisation, and bounded drains.              *)
(*                                                                         *)
(* World keeps everything behind one mutex, so every public call is one    *)
(* action.  The interleavings are those of calls on different handles and  *)
(* of leases that are released long after they were taken.                 *)
(*                                                                         *)
(* Reading guide.  ancestors[s] is the walk along parent references from   *)
(* slot s; a live actor's children list holds exactly the live actors that *)
(* name it as parent.  The free list is the set of Stopped slots, and the  *)
(* live_actors limit is the size of Slot.  queue[s] counts deliveries;     *)
(* pending[s] counts the publications and operations that involve s, whose *)
(* own tables are other modules.                                           *)
(***************************************************************************)
EXTENDS Integers, FiniteSets

CONSTANTS
  Slot,             \* actor slots: max_actors of them
  Kinds,            \* the endpoint kinds in use: "Native", "Python"
  NoRef,            \* Option::None where an ActorRef is expected
  MaxGeneration,    \* bound on slot reuse
  MaxDepth,         \* ownership depth limit (128 in the code)
  MailboxCapacity,  \* deliveries per mailbox
  MaxPending,       \* bound on pending publications and operations per actor
  MaxTasks,         \* bound on tracked native tasks per actor
  MaxTime           \* bound on the clock

ASSUME SlotAssumption == IsFiniteSet(Slot)
ASSUME KindsAssumption == Kinds \subseteq {"Native", "Python"}
ASSUME GenerationAssumption == MaxGeneration \in Nat \ {0}
ASSUME DepthAssumption == MaxDepth \in Nat
ASSUME CapacityAssumption ==
  MailboxCapacity \in Nat /\ MaxPending \in Nat /\ MaxTasks \in Nat
ASSUME TimeAssumption == MaxTime \in Nat

ActorRef == [slot : Slot, generation : 1..MaxGeneration]

ASSUME NoRefAssumption == NoRef \notin ActorRef

Lifecycles == {"Absent", "Starting", "Active", "Quiescing", "Stopping", "Stopped"}
FailureActions == {"Continue", "StopActor", "StopWorld"}

Time == 0..MaxTime
NoDeadline == MaxTime + 1    \* later than every instant, as None is in min()

VARIABLES
  gen,              \* Actor.reference.generation of each slot; 0: never used
  state,            \* Actor.state
  kind,             \* Actor.kind
  parent,           \* Actor.parent
  ancestors,        \* the references met walking parent upwards
  inFlight,         \* Actor.in_flight
  controlInFlight,  \* Actor.control_in_flight
  nativeTasks,      \* Actor.native_tasks
  pythonDone,       \* Actor.python_done
  notification,     \* Actor.notification.is_some()
  pendingFailures,  \* Actor.pending_failures
  queue,            \* Actor.queue.len()
  pending,          \* publications and operations pending for the actor
  drainRoot,        \* Actor.drain_root
  drainDeadline,    \* Actor.drain_deadline
  drainTimedOut,    \* Actor.drain_timed_out
  drainRoots,       \* State.drain_roots
  closed,           \* State.closed
  now,              \* the World clock
  deliveryLeases,   \* DeliveryLease values held by executors
  taskLeases,       \* TaskRegistration values alive, per actor
  controlLeases     \* FailureLease and NativeCallbackLease values held

treeVars == <<gen, kind, parent, ancestors>>
busyVars == <<inFlight, controlInFlight, nativeTasks, pythonDone>>
failureVars == <<notification, pendingFailures>>
workVars == <<queue, pending>>
drainVars == <<drainRoot, drainDeadline, drainRoots>>
leaseVars == <<deliveryLeases, taskLeases, controlLeases>>
worldVars == <<closed, now>>
vars == <<treeVars, state, drainTimedOut, busyVars, failureVars, workVars,
          drainVars, leaseVars, worldVars>>

-----------------------------------------------------------------------------
(* References and the tree.                                                *)

Ref(s) == [slot |-> s, generation |-> gen[s]]

\* check_ref: a handle is good while its slot has its generation.
Current(r) == gen[r.slot] = r.generation

Live(s) == state[s] \notin {"Absent", "Stopped"}

Children(s) == {c \in Slot : Live(c) /\ parent[c] = Ref(s)}

\* The live actors of the scope rooted at s, s included.
Subtree(s) == {d \in Slot : Live(d) /\ (d = s \/ Ref(s) \in ancestors[d])}

\* execution_state_locked: what an actor may do is what its lineage allows.
ExecutionState(s) ==
  LET lineage == {state[s]} \cup {state[a.slot] : a \in ancestors[s]} IN
  IF lineage \cap {"Stopping", "Stopped"} # {} THEN "Stopping"
  ELSE IF "Quiescing" \in lineage THEN "Quiescing"
  ELSE IF "Starting" \in lineage THEN "Starting"
  ELSE "Active"

Admissible(s) == Live(s) /\ ExecutionState(s) \in {"Active", "Quiescing"}

Idle(s) == ~inFlight[s] /\ ~controlInFlight[s]

\* Wrong: a tracked task holds nothing.
QuietIgnoringTasks(s) ==
  ~inFlight[s] /\ ~controlInFlight[s] /\ ~notification[s] /\ pythonDone[s]

\* Nothing holds the actor any more: the local part of try_finalize's test.
Quiet(s) ==
  /\ ~inFlight[s]
  /\ ~controlInFlight[s]
  /\ ~notification[s]
  /\ nativeTasks[s] = 0
  /\ pythonDone[s]

-----------------------------------------------------------------------------
(* The parts every stop path shares.                                       *)

\* Wrong: an actor retires before its children.
FinalisedEarly(touched, st) ==
  {s \in touched : Live(s) /\ st[s] = "Stopping" /\ Quiet(s)'}

\* Wrong: the retirement of an actor does not reach its parent.
FinalisedTouchedOnly(touched, st) ==
  {s \in touched : Live(s) /\ \A d \in Subtree(s) :
                      d \in touched /\ st[d] = "Stopping" /\ Quiet(d)'}

\* try_finalize, called for each slot of touched after the rest of the step:
\* an actor retires when it is quiet and its children have retired, and its
\* retirement is what makes the code look at its parent.
Finalised(touched, st) ==
  LET reached == {s \in Slot : s \in touched
                                 \/ \E t \in touched : Ref(s) \in ancestors[t]}
  IN {s \in Slot : /\ Live(s)
                   /\ \A d \in Subtree(s) : /\ d \in reached
                                            /\ st[d] = "Stopping"
                                            /\ Quiet(d)'}

\* The state after the step: st is the state before finalisation.  A retiring
\* actor hands its timed-out mark to its parent.
TryFinalize(touched, st, timedOut) ==
  LET done == Finalised(touched, st) IN
  /\ state' = [s \in Slot |-> IF s \in done THEN "Stopped" ELSE st[s]]
  /\ drainTimedOut' =
       [s \in Slot |-> \/ timedOut[s]
                       \/ \E c \in done : /\ parent[c] = Ref(s)
                                          /\ \E d \in Subtree(c) : timedOut[d]]

\* Wrong: a fenced supervisor leaves its notifications, or their count, behind.
DiscardNoNotification(fenced, nt, pf) == notification' = nt /\ pendingFailures' = pf

DiscardWithoutCount(fenced, nt, pf) ==
  /\ notification' =
       [s \in Slot |-> nt[s] /\ ~\E p \in fenced : parent[s] = Ref(p)]
  /\ pendingFailures' = pf

\* discard_notifications_for each fenced supervisor.
DiscardNotifications(fenced, nt, pf) ==
  /\ notification' =
       [s \in Slot |-> nt[s] /\ ~\E p \in fenced : parent[s] = Ref(p)]
  /\ pendingFailures' =
       [s \in Slot |-> IF s \in fenced
                       THEN pf[s] - Cardinality({c \in Children(s) : nt[c]})
                       ELSE pf[s]]

\* Queued deliveries, publications and operations of a fenced scope are dropped.
DiscardWork(fenced, q, p) ==
  /\ queue' = [s \in Slot |-> IF s \in fenced THEN 0 ELSE q[s]]
  /\ pending' = [s \in Slot |-> IF s \in fenced THEN 0 ELSE p[s]]

Stopping(fenced, st) ==
  [s \in Slot |-> IF s \in fenced THEN "Stopping" ELSE st[s]]

\* Wrong: the fence leaves the drain index alone.
FenceKeepsIndex(fenced, touched, nt, pf) ==
  /\ DiscardNotifications(fenced, nt, pf)
  /\ DiscardWork(fenced, queue, pending)
  /\ TryFinalize(fenced \cup touched, Stopping(fenced, state), drainTimedOut)
  /\ UNCHANGED drainVars

\* fence_locked over a set of slots closed under Subtree; touched is what else
\* the caller passes to try_finalize.
FenceLocked(fenced, touched, nt, pf) ==
  /\ DiscardNotifications(fenced, nt, pf)
  /\ DiscardWork(fenced, queue, pending)
  /\ drainRoots' = {r \in drainRoots : r.slot \notin fenced}
  /\ TryFinalize(fenced \cup touched, Stopping(fenced, state), drainTimedOut)
  /\ UNCHANGED <<drainRoot, drainDeadline>>

\* close_locked fences every root, hence every live actor.
ScopeOf(action, r) ==
  CASE action = "StopWorld" -> {s \in Slot : Live(s)}
    [] action = "StopActor" /\ Current(r) -> Subtree(r.slot)
    [] OTHER -> {}

-----------------------------------------------------------------------------
(* Creation and activation.                                                *)

\* Wrong: a slot is reused as soon as its actor stops.
NextSlotsEarly == {s \in Slot : state[s] \in {"Absent", "Stopped", "Stopping"}}

\* free.pop() or a new slot at the end of the table.
NextSlots ==
  LET free == {s \in Slot : state[s] = "Stopped"} IN
  IF free # {} THEN free ELSE {s \in Slot : state[s] = "Absent"}

\* Wrong: a draining actor may still get children.
MayOwnDraining(p) == Current(p) /\ state[p.slot] \in {"Starting", "Active", "Quiescing"}

\* The owner of an actor being created or activated must not be winding down.
MayOwn(p) == Current(p) /\ state[p.slot] \in {"Starting", "Active"}

Allocate(p, k) ==
  /\ ~closed
  /\ p # NoRef => /\ MayOwn(p)
                  /\ Cardinality(ancestors[p.slot]) < MaxDepth
  /\ \E s \in NextSlots :
       /\ gen[s] < MaxGeneration
       /\ gen' = [gen EXCEPT ![s] = @ + 1]
       /\ state' = [state EXCEPT ![s] = "Starting"]
       /\ kind' = [kind EXCEPT ![s] = k]
       /\ parent' = [parent EXCEPT ![s] = p]
       /\ ancestors' = [ancestors EXCEPT ![s] =
                          IF p = NoRef THEN {} ELSE {p} \cup ancestors[p.slot]]
       /\ inFlight' = [inFlight EXCEPT ![s] = FALSE]
       /\ controlInFlight' = [controlInFlight EXCEPT ![s] = FALSE]
       /\ nativeTasks' = [nativeTasks EXCEPT ![s] = 0]
       /\ pythonDone' = [pythonDone EXCEPT ![s] = (k = "Native")]
       /\ notification' = [notification EXCEPT ![s] = FALSE]
       /\ pendingFailures' = [pendingFailures EXCEPT ![s] = 0]
       /\ queue' = [queue EXCEPT ![s] = 0]
       /\ pending' = [pending EXCEPT ![s] = 0]
       /\ drainRoot' = [drainRoot EXCEPT ![s] = NoRef]
       /\ drainDeadline' = [drainDeadline EXCEPT ![s] = NoDeadline]
       /\ drainTimedOut' = [drainTimedOut EXCEPT ![s] = FALSE]
  /\ UNCHANGED <<drainRoots, leaseVars, worldVars>>

Activate(r) ==
  /\ Current(r)
  /\ state[r.slot] = "Starting"
  /\ parent[r.slot] # NoRef => MayOwn(parent[r.slot])
  /\ state' = [state EXCEPT ![r.slot] = "Active"]
  /\ UNCHANGED <<treeVars, drainTimedOut, busyVars, failureVars, workVars,
                 drainVars, leaseVars, worldVars>>

-----------------------------------------------------------------------------
(* Work and the leases that carry it.                                      *)

\* Wrong: one delivery too many.
HasRoomOffByOne(s) == queue[s] <= MailboxCapacity

HasRoom(s) == queue[s] < MailboxCapacity

\* admit: a direct send needs an Active lineage; routed and completion
\* deliveries still enter a draining mailbox.
Admit(r) ==
  /\ Current(r)
  /\ Admissible(r.slot)
  /\ HasRoom(r.slot)
  /\ queue' = [queue EXCEPT ![r.slot] = @ + 1]
  /\ UNCHANGED <<treeVars, state, drainTimedOut, busyVars, failureVars, pending,
                 drainVars, leaseVars, worldVars>>

\* A publication or an operation that involves the actor begins.
BeginPending(r) ==
  /\ Current(r)
  /\ Live(r.slot)
  /\ ExecutionState(r.slot) # "Stopping"
  /\ pending[r.slot] < MaxPending
  /\ pending' = [pending EXCEPT ![r.slot] = @ + 1]
  /\ UNCHANGED <<treeVars, state, drainTimedOut, busyVars, failureVars, queue,
                 drainVars, leaseVars, worldVars>>

\* It reaches its terminal outcome.
EndPending(s) ==
  /\ pending[s] > 0
  /\ pending' = [pending EXCEPT ![s] = @ - 1]
  /\ UNCHANGED <<treeVars, state, drainTimedOut, busyVars, failureVars, queue,
                 drainVars, leaseVars, worldVars>>

\* claim pops deliveries, drops the expired and cancelled ones, and leases the
\* first good one; with none left it returns None.
Claim(r) ==
  /\ Current(r)
  /\ Admissible(r.slot)
  /\ Idle(r.slot)
  /\ \E left \in 0..MailboxCapacity :
       /\ left < queue[r.slot]
       /\ queue' = [queue EXCEPT ![r.slot] = left]
       /\ \/ /\ inFlight' = [inFlight EXCEPT ![r.slot] = TRUE]
             /\ deliveryLeases' = deliveryLeases \cup {r}
          \/ /\ left = 0
             /\ UNCHANGED <<inFlight, deliveryLeases>>
  /\ UNCHANGED <<treeVars, state, drainTimedOut, controlInFlight, nativeTasks,
                 pythonDone, failureVars, pending, drainVars, taskLeases,
                 controlLeases, worldVars>>

\* DeliveryLease::complete and Drop: the flag is cleared by slot alone.
ReleaseDelivery(r) ==
  /\ r \in deliveryLeases
  /\ deliveryLeases' = deliveryLeases \ {r}
  /\ inFlight' = [inFlight EXCEPT ![r.slot] = FALSE]
  /\ UNCHANGED <<treeVars, controlInFlight, nativeTasks, pythonDone, failureVars,
                 workVars, drainVars, taskLeases, controlLeases, worldVars>>
  /\ TryFinalize(IF Current(r) THEN {r.slot} ELSE {}, state, drainTimedOut)

TrackTask(r) ==
  /\ Current(r)
  /\ state[r.slot] \in {"Starting", "Active"}
  /\ nativeTasks[r.slot] < MaxTasks
  /\ nativeTasks' = [nativeTasks EXCEPT ![r.slot] = @ + 1]
  /\ taskLeases' = [taskLeases EXCEPT ![r] = @ + 1]
  /\ UNCHANGED <<treeVars, state, drainTimedOut, inFlight, controlInFlight,
                 pythonDone, failureVars, workVars, drainVars, deliveryLeases,
                 controlLeases, worldVars>>

\* Drop for TaskRegistration.
ReleaseTask(r) ==
  /\ taskLeases[r] > 0
  /\ taskLeases' = [taskLeases EXCEPT ![r] = @ - 1]
  /\ nativeTasks' = IF Current(r) /\ nativeTasks[r.slot] > 0
                    THEN [nativeTasks EXCEPT ![r.slot] = @ - 1]
                    ELSE nativeTasks
  /\ UNCHANGED <<treeVars, inFlight, controlInFlight, pythonDone, failureVars,
                 workVars, drainVars, deliveryLeases, controlLeases, worldVars>>
  /\ TryFinalize(IF Current(r) THEN {r.slot} ELSE {}, state, drainTimedOut)

\* finish_python: the Python side has released its registration.
FinishPython(r) ==
  /\ Current(r)
  /\ pythonDone' = [pythonDone EXCEPT ![r.slot] = TRUE]
  /\ UNCHANGED <<treeVars, inFlight, controlInFlight, nativeTasks, failureVars,
                 workVars, drainVars, leaseVars, worldVars>>
  /\ TryFinalize({r.slot}, state, drainTimedOut)

\* claim_native_hook for the startup, periodic and drain callbacks.
ClaimCallback(r, expected) ==
  /\ Current(r)
  /\ Live(r.slot)
  /\ kind[r.slot] = "Native"
  /\ ExecutionState(r.slot) = expected
  /\ expected = "Starting" => state[r.slot] = "Starting"
  /\ Idle(r.slot)
  /\ ~notification[r.slot]
  /\ controlInFlight' = [controlInFlight EXCEPT ![r.slot] = TRUE]
  /\ controlLeases' = controlLeases \cup {[owner |-> r, source |-> NoRef]}
  /\ UNCHANGED <<treeVars, state, drainTimedOut, inFlight, nativeTasks, pythonDone,
                 failureVars, workVars, drainVars, deliveryLeases, taskLeases,
                 worldVars>>

-----------------------------------------------------------------------------
(* Failures.                                                               *)

\* report_failure: the child's one notification slot coalesces repeats, then
\* the failure action runs.  quietPhase: the failure phase is Supervisor.
ReportFailure(r, quietPhase, action) ==
  LET p == parent[r.slot]
      notify == /\ ~quietPhase
                /\ p # NoRef
                /\ Current(p)
                /\ state[p.slot] \in {"Starting", "Active", "Quiescing"}
      new == notify /\ ~notification[r.slot]
      fenced == ScopeOf(action, r)
      nt == [notification EXCEPT ![r.slot] = @ \/ new]
      pf == IF new THEN [pendingFailures EXCEPT ![p.slot] = @ + 1] ELSE pendingFailures
  IN /\ Current(r)
     /\ Live(r.slot)
     /\ UNCHANGED <<treeVars, busyVars, leaseVars, now>>
     /\ closed' = (closed \/ action = "StopWorld")
     /\ FenceLocked(fenced, {}, nt, pf)

\* claim_failure: which pending child goes first is left open.
ClaimFailure(r) ==
  /\ Current(r)
  /\ Admissible(r.slot)
  /\ Idle(r.slot)
  /\ \E c \in Children(r.slot) :
       /\ notification[c]
       /\ notification' = [notification EXCEPT ![c] = FALSE]
       /\ pendingFailures' = [pendingFailures EXCEPT ![r.slot] = @ - 1]
       /\ controlInFlight' = [controlInFlight EXCEPT ![r.slot] = TRUE]
       /\ controlLeases' = controlLeases \cup {[owner |-> r, source |-> Ref(c)]}
       /\ UNCHANGED <<treeVars, inFlight, nativeTasks, pythonDone, workVars,
                      drainVars, deliveryLeases, taskLeases, worldVars>>
       /\ TryFinalize({c}, state, drainTimedOut)

\* FailureLease::finish and Drop, and Drop for NativeCallbackLease: a failure
\* lease may first apply an action to the actor that failed.
ReleaseControl(l, action) ==
  /\ l \in controlLeases
  /\ action # "Continue" => l.source # NoRef
  /\ controlLeases' = controlLeases \ {l}
  /\ controlInFlight' = IF Current(l.owner)
                        THEN [controlInFlight EXCEPT ![l.owner.slot] = FALSE]
                        ELSE controlInFlight
  /\ closed' = (closed \/ action = "StopWorld")
  /\ UNCHANGED <<treeVars, inFlight, nativeTasks, pythonDone, deliveryLeases,
                 taskLeases, now>>
  /\ FenceLocked(ScopeOf(action, l.source),
                 IF Current(l.owner) THEN {l.owner.slot} ELSE {},
                 notification, pendingFailures)

-----------------------------------------------------------------------------
(* Stopping and draining.                                                  *)

Stop(r) ==
  /\ Current(r)
  /\ UNCHANGED <<treeVars, busyVars, leaseVars, worldVars>>
  /\ FenceLocked(Subtree(r.slot), {}, notification, pendingFailures)

Close ==
  /\ closed' = TRUE
  /\ UNCHANGED <<treeVars, busyVars, leaseVars, now>>
  /\ FenceLocked(ScopeOf("StopWorld", NoRef), {}, notification, pendingFailures)

\* drained_locked for one actor, over the work that maintain leaves.
DrainedActor(s, q, p) ==
  q[s] = 0 /\ p[s] = 0 /\ Idle(s) /\ ~notification[s] /\ nativeTasks[s] = 0

\* What expiry may leave of a work counter.
Remaining(work, bound) == {f \in [Slot -> 0..bound] : \A s \in Slot : f[s] <= work[s]}

\* maintain_locked, after the caller changed the state to st and the drain
\* fields to root, dl and roots, and fenced the slots of scope.  Expiry comes
\* first; then a drain root that drained or whose deadline passed is stopped.
MaintainLocked(scope, st, root, dl, roots) ==
  \E q \in Remaining(queue, MailboxCapacity), p \in Remaining(pending, MaxPending) :
    LET open == {r \in roots : r.slot \notin scope}
        drained(r) == \A d \in Subtree(r.slot) : DrainedActor(d, q, p)
        overdue(r) == now >= dl[r.slot]
        ended == {r \in open : overdue(r) \/ drained(r)}
        fenced == scope \cup UNION {Subtree(r.slot) : r \in ended}
        late == {r.slot : r \in {e \in ended : overdue(e) /\ ~drained(e)}}
    IN /\ DiscardNotifications(fenced, notification, pendingFailures)
       /\ DiscardWork(fenced, q, p)
       /\ drainRoot' = root
       /\ drainDeadline' = dl
       /\ drainRoots' = open \ ended
       /\ TryFinalize(fenced, Stopping(fenced, st),
                      [s \in Slot |-> drainTimedOut[s] \/ s \in late])

\* Wrong: a wider drain takes the latest deadline.
LatestDeadline(times) == CHOOSE t \in times : \A u \in times : t >= u

Earliest(times) == CHOOSE t \in times : \A u \in times : t <= u

\* drain_locked for each slot of targets (whose scopes are disjoint), then
\* maintain_locked.  An actor that is still Starting is stopped, a draining one
\* may only lower the deadline of its root, an active one becomes a drain root
\* that absorbs the drains below it with their earliest deadline.
DrainLocked(targets, deadline) ==
  LET stopped == UNION {Subtree(s) : s \in {t \in targets : state[t] = "Starting"}}
      opened == {s \in targets : state[s] = "Active"}
      joined == {drainRoot[s].slot : s \in {t \in targets : state[t] = "Quiescing"}}
      marked(o) == {d \in Subtree(o) : state[d] # "Stopping"}
      allMarked == UNION {marked(o) : o \in opened}
      opener(d) == CHOOSE o \in opened : d \in marked(o)
      earliest(s) == Earliest({deadline} \cup {drainDeadline[d] : d \in marked(s)})
  IN MaintainLocked(
       stopped,
       [s \in Slot |-> IF s \in allMarked THEN "Quiescing" ELSE state[s]],
       [s \in Slot |-> IF s \in allMarked THEN Ref(opener(s)) ELSE drainRoot[s]],
       [s \in Slot |-> IF s \in opened THEN earliest(s)
                       ELSE IF s \in allMarked THEN NoDeadline
                       ELSE IF s \in joined /\ deadline < drainDeadline[s] THEN deadline
                       ELSE drainDeadline[s]],
       {r \in drainRoots : r.slot \notin allMarked} \cup {Ref(s) : s \in opened})

RequestDrain(r, deadline) ==
  /\ Current(r)
  /\ UNCHANGED <<treeVars, busyVars, leaseVars, worldVars>>
  /\ DrainLocked({r.slot}, deadline)

DrainAll(deadline) ==
  /\ closed' = TRUE
  /\ UNCHANGED <<treeVars, busyVars, leaseVars, now>>
  /\ DrainLocked({s \in Slot : Live(s) /\ parent[s] = NoRef}, deadline)

\* The native control service calls maintain periodically.
Maintain ==
  /\ UNCHANGED <<treeVars, busyVars, leaseVars, worldVars>>
  /\ MaintainLocked({}, state, drainRoot, drainDeadline, drainRoots)

Tick ==
  /\ now < MaxTime
  /\ now' = now + 1
  /\ UNCHANGED <<treeVars, state, drainTimedOut, busyVars, failureVars, workVars,
                 drainVars, leaseVars, closed>>

-----------------------------------------------------------------------------
Init ==
  /\ gen = [s \in Slot |-> 0]
  /\ state = [s \in Slot |-> "Absent"]
  /\ kind = [s \in Slot |-> "Native"]
  /\ parent = [s \in Slot |-> NoRef]
  /\ ancestors = [s \in Slot |-> {}]
  /\ inFlight = [s \in Slot |-> FALSE]
  /\ controlInFlight = [s \in Slot |-> FALSE]
  /\ nativeTasks = [s \in Slot |-> 0]
  /\ pythonDone = [s \in Slot |-> TRUE]
  /\ notification = [s \in Slot |-> FALSE]
  /\ pendingFailures = [s \in Slot |-> 0]
  /\ queue = [s \in Slot |-> 0]
  /\ pending = [s \in Slot |-> 0]
  /\ drainRoot = [s \in Slot |-> NoRef]
  /\ drainDeadline = [s \in Slot |-> NoDeadline]
  /\ drainTimedOut = [s \in Slot |-> FALSE]
  /\ drainRoots = {}
  /\ closed = FALSE
  /\ now = 0
  /\ deliveryLeases = {}
  /\ taskLeases = [r \in ActorRef |-> 0]
  /\ controlLeases = {}

Next ==
  \/ \E p \in ActorRef \cup {NoRef}, k \in Kinds : Allocate(p, k)
  \/ \E r \in ActorRef : Activate(r)
  \/ \E r \in ActorRef : Admit(r)
  \/ \E r \in ActorRef : BeginPending(r)
  \/ \E s \in Slot : EndPending(s)
  \/ \E r \in ActorRef : Claim(r)
  \/ \E r \in ActorRef : ReleaseDelivery(r)
  \/ \E r \in ActorRef : TrackTask(r)
  \/ \E r \in ActorRef : ReleaseTask(r)
  \/ \E r \in ActorRef : FinishPython(r)
  \/ \E r \in ActorRef, e \in {"Starting", "Active", "Quiescing"} : ClaimCallback(r, e)
  \/ \E r \in ActorRef, q \in BOOLEAN, a \in FailureActions : ReportFailure(r, q, a)
  \/ \E r \in ActorRef : ClaimFailure(r)
  \/ \E l \in controlLeases, a \in FailureActions : ReleaseControl(l, a)
  \/ \E r \in ActorRef : Stop(r)
  \/ Close
  \/ \E r \in ActorRef, d \in Time : RequestDrain(r, d)
  \/ \E d \in Time : DrainAll(d)
  \/ Maintain
  \/ Tick

Spec == Init /\ [][Next]_vars

\* What the drivers around the World keep doing: the clock runs and the control
\* service calls maintain every millisecond; executors return the leases they
\* took, by Drop if by nothing else; the Python pump cleans up stopping actors;
\* startup activates what it created; and both the pump and the native executor
\* look for a failure notification before any other work, so a supervisor that
\* is free again and again does claim one.
Fairness ==
  /\ WF_vars(Tick)
  /\ WF_vars(Maintain)
  /\ \A r \in ActorRef :
       /\ WF_vars(ReleaseDelivery(r))
       /\ WF_vars(ReleaseTask(r))
       /\ WF_vars(state[r.slot] = "Stopping" /\ FinishPython(r))
       /\ WF_vars(Activate(r))
       /\ SF_vars(ClaimFailure(r))
       /\ WF_vars(\E l \in controlLeases, a \in FailureActions :
                    l.owner = r /\ ReleaseControl(l, a))

FairSpec == Spec /\ Fairness

-----------------------------------------------------------------------------
(* Properties.                                                             *)

\* Every field keeps its type, a lease names an issued reference, and the
\* counters stay within their bounds.
TypeOK ==
  /\ gen \in [Slot -> 0..MaxGeneration]
  /\ state \in [Slot -> Lifecycles]
  /\ kind \in [Slot -> {"Native", "Python"}]
  /\ parent \in [Slot -> ActorRef \cup {NoRef}]
  /\ ancestors \in [Slot -> SUBSET ActorRef]
  /\ inFlight \in [Slot -> BOOLEAN]
  /\ controlInFlight \in [Slot -> BOOLEAN]
  /\ nativeTasks \in [Slot -> Nat]
  /\ pythonDone \in [Slot -> BOOLEAN]
  /\ notification \in [Slot -> BOOLEAN]
  /\ pendingFailures \in [Slot -> Int]
  /\ queue \in [Slot -> 0..MailboxCapacity]
  /\ pending \in [Slot -> 0..MaxPending]
  /\ drainRoot \in [Slot -> ActorRef \cup {NoRef}]
  /\ drainDeadline \in [Slot -> 0..NoDeadline]
  /\ drainTimedOut \in [Slot -> BOOLEAN]
  /\ drainRoots \in SUBSET ActorRef
  /\ closed \in BOOLEAN
  /\ now \in Time
  /\ deliveryLeases \in SUBSET ActorRef
  /\ taskLeases \in [ActorRef -> Nat]
  /\ controlLeases \in SUBSET [owner : ActorRef, source : ActorRef \cup {NoRef}]

\* A live actor's lineage is made of live actors of the generations it was
\* created under: walking parent references never meets a stale one, so the
\* check_ref in execution_state_locked and fence_locked cannot fail midway.
LineageLive ==
  \A s \in Slot : Live(s) =>
    /\ gen[s] > 0
    /\ parent[s] # NoRef => parent[s] \in ancestors[s]
    /\ parent[s] = NoRef => ancestors[s] = {}
    /\ \A a \in ancestors[s] : /\ Current(a)
                               /\ Live(a.slot)
                               /\ a.slot # s
                               /\ ancestors[a.slot] \subseteq ancestors[s]

\* A stop fence or a drain covers the whole scope below it, whatever was
\* created, activated or drained in between: below a Stopping actor everything
\* is Stopping, below a Quiescing one nothing is Starting or Active.
FenceClosed ==
  \A s \in Slot : Live(s) =>
    \A a \in ancestors[s] :
      /\ state[a.slot] = "Stopping" => state[s] = "Stopping"
      /\ state[a.slot] = "Quiescing" => state[s] \in {"Quiescing", "Stopping"}

\* A lease pins its slot: while an executor holds one, the slot keeps the
\* generation the lease was taken on, so DeliveryLease::complete, which clears
\* in_flight by slot number alone, can never clear it for a replacement actor.
\* And an actor runs at most one callback at a time: a delivery, a failure
\* notification or a native hook, never two of them.
LeasesPinSlot ==
  /\ \A r \in deliveryLeases : Current(r) /\ Live(r.slot) /\ inFlight[r.slot]
  /\ \A l \in controlLeases : /\ Current(l.owner)
                              /\ Live(l.owner.slot)
                              /\ controlInFlight[l.owner.slot]
  /\ \A r \in ActorRef :
       taskLeases[r] = IF Current(r) /\ Live(r.slot) THEN nativeTasks[r.slot] ELSE 0
  /\ \A s \in Slot :
       /\ ~(inFlight[s] /\ controlInFlight[s])
       /\ inFlight[s] => Ref(s) \in deliveryLeases
       /\ controlInFlight[s] => \E l \in controlLeases : l.owner = Ref(s)
  /\ \A l, m \in controlLeases : l.owner = m.owner => l = m

\* A pending failure notification has a supervisor that can still take it:
\* no order of failures, stops and closes leaves one that nobody will claim
\* or discard, which would keep its actor from ever being finalised.  And
\* pending_failures, from which Python readiness is derived, counts them.
NotificationReceivable ==
  /\ \A s \in Slot : notification[s] =>
       /\ Live(s)
       /\ parent[s] # NoRef
       /\ state[parent[s].slot] \in {"Starting", "Active", "Quiescing"}
  /\ \A s \in Slot : Live(s) =>
       pendingFailures[s] = Cardinality({c \in Children(s) : notification[c]})

\* Finalisation is never lost: whichever of the leases, tasks, notification,
\* Python registration and children goes last, its release retires the actor,
\* so a Stopping actor always has something left to wait for.
NoLostFinalisation ==
  \A s \in Slot : state[s] = "Stopping" => ~Quiet(s) \/ Children(s) # {}

\* drain_roots holds exactly the roots of the draining scopes: every draining
\* actor belongs to a root in the index that is itself or an ancestor, has the
\* deadline and still drains, so maintain sees every drain and no stale one.
DrainIndexExact ==
  /\ \A s \in Slot : state[s] = "Quiescing" =>
       /\ drainRoot[s] \in drainRoots
       /\ drainRoot[s] \in ancestors[s] \cup {Ref(s)}
  /\ \A r \in drainRoots :
       /\ Current(r)
       /\ state[r.slot] = "Quiescing"
       /\ drainRoot[r.slot] = r
       /\ drainDeadline[r.slot] \in Time

Rank(st) ==
  CASE st = "Starting" -> 1 [] st = "Active" -> 2 [] st = "Quiescing" -> 3
    [] st = "Stopping" -> 4 [] st = "Stopped" -> 5 [] OTHER -> 0

\* A generation only moves forward through the lifecycle, and a slot changes
\* generation only after Stopped: no late call revives a fenced actor.
NeverRevived ==
  [][\A s \in Slot : \/ gen'[s] = gen[s] /\ Rank(state'[s]) >= Rank(state[s])
                     \/ gen'[s] > gen[s] /\ ~Live(s)]_vars

\* The deadline that bounds a draining actor: that of its drain root.
EffectiveDeadline(s) == drainDeadline[drainRoot[s].slot]

\* What stop_report says of a scope: some actor in it, or retired from it,
\* hit its drain deadline with work left.
TimedOut(s) == drainTimedOut[s] \/ \E d \in Subtree(s) : drainTimedOut[d]

\* Asking again, draining a wider scope or draining the World may bring the
\* deadline of a drain forward but never put it off; and a drain timeout stays
\* in the report of every enclosing scope for as long as the scope exists, also
\* after the actor that timed out is retired.
DrainNeverExtended ==
  [][\A s \in Slot :
       /\ state[s] = "Quiescing" /\ state'[s] = "Quiescing" =>
            EffectiveDeadline(s)' <= EffectiveDeadline(s)
       /\ TimedOut(s) /\ gen'[s] = gen[s] => TimedOut(s)']_vars

\* Shutdown completes: once an actor drains or stops, it is eventually retired,
\* whatever failures, notifications and further stops arrive meanwhile.
WindsDown ==
  \A s \in Slot : state[s] \in {"Quiescing", "Stopping"} ~> state[s] = "Stopped"
=============================================================================
