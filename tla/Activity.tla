------------------------------ MODULE Activity ------------------------------
(***************************************************************************)
(* Activity versions and the observers that sleep on them (runtime-core/   *)
(* src/activity.rs).  A caller changes an actor and marks its registry     *)
(* slot under the World lock, releases the lock and then collects and      *)
(* fires the wakers of all marked slots.  An executor reads the version,   *)
(* inspects the actor under a later lock, and sleeps until the version is  *)
(* another one; its slot may be given to a new actor in between.           *)
(*                                                                         *)
(* An executor of the native SDK holds a task lease, which keeps its actor *)
(* from being retired; activity and poll_activity are public and ask for   *)
(* no lease, so here an actor may be retired under its observer.           *)
(*                                                                         *)
(* work[s] stands for everything an executor inspects of the actor in slot *)
(* s.  Which actors one change concerns (activity_dependencies.rs) is left *)
(* open: a change marks any set of live actors.                            *)
(***************************************************************************)
EXTENDS Integers

CONSTANTS
  Slot,             \* actor slots
  Thread,           \* callers of the World other than the observers
  NoRef,            \* no waker in a registry slot
  MaxGeneration,    \* bound on slot reuse
  MaxVersion        \* u64::MAX

ASSUME GenerationAssumption == MaxGeneration \in Nat \ {0}
ASSUME VersionAssumption == MaxVersion \in Nat \ {0}

ActorRef == [slot : Slot, generation : 1..MaxGeneration]

ASSUME NoRefAssumption == NoRef \notin ActorRef
ASSUME CallerAssumption == Thread \cap ActorRef = {}

Caller == Thread \cup ActorRef

VARIABLES
  gen,        \* generation of the actor in each slot
  life,       \* Actor.state: "Live" is Starting, Active or Quiescing
  work,       \* what an executor inspects of the actor
  slots,      \* ActivityRegistry.slots; generation 0: no entry
  dirty,      \* ActivityRegistry.dirty
  owing,      \* threads that released the World lock, touch_activity ahead
  hand,       \* wakers a caller has taken and not yet fired
  pc,         \* where the executor of an actor is
  observed,   \* the version it has read
  seen,       \* the work it has inspected
  woken       \* its waker has fired since it went to sleep

\* observed and seen are locals of one turn of the executor's loop: outside
\* of it they have their initial values.

worldVars == <<gen, life, work>>
registryVars == <<slots, dirty>>
observerVars == <<pc, observed, seen, woken>>
vars == <<worldVars, registryVars, owing, hand, observerVars>>

Entry == [generation : 0..MaxGeneration, version : 1..MaxVersion,
          overflow : BOOLEAN, waker : ActorRef \cup {NoRef}]

TypeOK ==
  /\ gen \in [Slot -> 1..MaxGeneration]
  /\ life \in [Slot -> {"Live", "Stopping", "Stopped"}]
  /\ work \in [Slot -> BOOLEAN]
  /\ slots \in [Slot -> Entry]
  /\ dirty \subseteq Slot
  /\ owing \subseteq Thread
  /\ hand \in [Caller -> SUBSET ActorRef]
  /\ pc \in [ActorRef -> {"none", "snapshot", "inspect", "poll", "parked", "ended"}]
  /\ observed \in [ActorRef -> 1..MaxVersion]
  /\ seen \in [ActorRef -> BOOLEAN]
  /\ woken \in [ActorRef -> BOOLEAN]

Fresh(g) == [generation |-> g, version |-> 1, overflow |-> FALSE, waker |-> NoRef]

Init ==
  /\ gen = [s \in Slot |-> 1]
  /\ life = [s \in Slot |-> "Live"]
  /\ work = [s \in Slot |-> FALSE]
  /\ slots = [s \in Slot |-> Fresh(0)]
  /\ dirty = {}
  /\ owing = {}
  /\ hand = [c \in Caller |-> {}]
  /\ pc = [r \in ActorRef |-> "none"]
  /\ observed = [r \in ActorRef |-> 1]
  /\ seen = [r \in ActorRef |-> FALSE]
  /\ woken = [r \in ActorRef |-> FALSE]

\* check_ref
Current(r) == gen[r.slot] = r.generation

-----------------------------------------------------------------------------
(* Changes to actors.                                                      *)

Call(t) ==
  /\ t \notin owing /\ hand[t] = {}
  /\ owing' = owing \cup {t}

\* Wrong: the version wraps around.
AdvancedWrapping(e) == [e EXCEPT !.version = (@ % MaxVersion) + 1]

\* A version that cannot grow any more becomes an error, for good.
Advanced(e) ==
  IF e.version = MaxVersion
    THEN [e EXCEPT !.overflow = TRUE]
    ELSE [e EXCEPT !.version = @ + 1]

\* mark, for the actors of generations g in the slots S: only entries exist
\* that somebody has asked for, and an entry of an earlier generation keeps
\* its version but is marked as well.
Mark(S, g) ==
  /\ slots' = [s \in Slot |-> IF s \in S /\ slots[s].generation = g[s]
                                THEN Advanced(slots[s]) ELSE slots[s]]
  /\ dirty' = dirty \cup {s \in S : slots[s].generation # 0}

Change(t, S) ==
  /\ Call(t)
  /\ S # {} /\ \A s \in S : life[s] = "Live"
  /\ work' = [s \in Slot |-> IF s \in S THEN ~work[s] ELSE work[s]]
  /\ Mark(S, gen)
  /\ UNCHANGED <<gen, life, hand, observerVars>>

\* Wrong: the fence does not mark the actor.
StopSilently(t, s) ==
  /\ Call(t)
  /\ life[s] = "Live"
  /\ life' = [life EXCEPT ![s] = "Stopping"]
  /\ UNCHANGED <<gen, work, registryVars, hand, observerVars>>

\* fence_locked: try_finalize retires the actor at once if nothing holds it,
\* or else when the last lease is returned.
Stop(t, s) ==
  /\ Call(t)
  /\ life[s] = "Live"
  /\ \E l \in {"Stopping", "Stopped"} : life' = [life EXCEPT ![s] = l]
  /\ Mark({s}, gen)
  /\ UNCHANGED <<gen, work, hand, observerVars>>

Finalise(t, s) ==
  /\ Call(t)
  /\ life[s] = "Stopping"
  /\ life' = [life EXCEPT ![s] = "Stopped"]
  /\ Mark({s}, gen)
  /\ UNCHANGED <<gen, work, hand, observerVars>>

\* allocate: the slot of a stopped actor gets a new one.
Allocate(t, s) ==
  /\ Call(t)
  /\ life[s] = "Stopped" /\ gen[s] < MaxGeneration
  /\ gen' = [gen EXCEPT ![s] = @ + 1]
  /\ life' = [life EXCEPT ![s] = "Live"]
  /\ work' = [work EXCEPT ![s] = FALSE]
  /\ Mark({s}, gen')
  /\ UNCHANGED <<hand, observerVars>>

-----------------------------------------------------------------------------
(* touch_activity, after the World lock is released.                       *)

Wakers(S) == {slots[s].waker : s \in S} \ {NoRef}

\* notify_marked: one caller collects the wakers for everybody's marks.
NotifyMarked(t) ==
  /\ hand' = [hand EXCEPT ![t] = Wakers(dirty)]
  /\ slots' = [s \in Slot |-> IF s \in dirty
                                THEN [slots[s] EXCEPT !.waker = NoRef] ELSE slots[s]]
  /\ dirty' = {}

Touch(t) ==
  /\ t \in owing
  /\ owing' = owing \ {t}
  /\ NotifyMarked(t)
  /\ UNCHANGED <<worldVars, observerVars>>

\* A taken waker is fired.  One that panics does not keep the next from it.
\* A task that is not asleep gains a poll it would have made anyway.
Fire(c, r) ==
  /\ r \in hand[c]
  /\ hand' = [hand EXCEPT ![c] = @ \ {r}]
  /\ woken' = [woken EXCEPT ![r] = (pc[r] = "parked")]
  /\ UNCHANGED <<worldVars, registryVars, owing, pc, observed, seen>>

-----------------------------------------------------------------------------
(* The executor of actor r: snapshot, inspect, poll (run_component).       *)

Turn(r, from, to) ==
  /\ hand[r] = {}
  /\ pc[r] \in from
  /\ pc' = [pc EXCEPT ![r] = to]

EndTurn(r) ==
  /\ observed' = [observed EXCEPT ![r] = 1]
  /\ seen' = [seen EXCEPT ![r] = FALSE]
  /\ woken' = [woken EXCEPT ![r] = FALSE]

Begin(r) ==
  /\ Turn(r, {"none"}, "snapshot")
  /\ Current(r) /\ life[r.slot] = "Live"
  /\ UNCHANGED <<worldVars, registryVars, owing, hand, observed, seen, woken>>

\* Wrong: the observer of an earlier generation is dropped without a wake.
RegisterDropping(r) ==
  LET old == slots[r.slot] IN
  IF old.generation = r.generation
    THEN UNCHANGED <<registryVars, hand>>
    ELSE /\ slots' = [slots EXCEPT ![r.slot] = Fresh(r.generation)]
         /\ dirty' = dirty \ {r.slot}
         /\ UNCHANGED hand

\* version: the entry of r, made if there is none.  The observer of an
\* earlier generation is retired and has to be woken by this caller.
Register(r) ==
  LET old == slots[r.slot] IN
  IF old.generation = r.generation
    THEN UNCHANGED <<registryVars, hand>>
    ELSE /\ slots' = [slots EXCEPT ![r.slot] = Fresh(r.generation)]
         /\ dirty' = dirty \ {r.slot}
         /\ hand' = [hand EXCEPT ![r] = {old.waker} \ {NoRef}]

\* activity
Snapshot(r) ==
  /\ Current(r)
  /\ Turn(r, {"snapshot"}, "inspect")
  /\ Register(r)
  /\ ~slots'[r.slot].overflow
  /\ observed' = [observed EXCEPT ![r] = slots'[r.slot].version]
  /\ UNCHANGED <<worldVars, owing, seen, woken>>

\* activity fails: the actor is gone, or its version is exhausted.
SnapshotFails(r) ==
  /\ Turn(r, {"snapshot"}, "ended")
  /\ \/ ~Current(r)
     \/ slots[r.slot].generation = r.generation /\ slots[r.slot].overflow
  /\ UNCHANGED <<worldVars, registryVars, owing, hand, observed, seen, woken>>

\* The executor looks at its actor: lifecycle, mailbox, failures, upstream.
Inspect(r) ==
  /\ Current(r) /\ life[r.slot] = "Live"
  /\ Turn(r, {"inspect"}, "poll")
  /\ seen' = [seen EXCEPT ![r] = work[r.slot]]
  /\ UNCHANGED <<worldVars, registryVars, owing, hand, observed, woken>>

\* It finds the actor stopping or gone, and leaves its loop.
InspectStopped(r) ==
  /\ ~Current(r) \/ life[r.slot] # "Live"
  /\ Turn(r, {"inspect"}, "ended")
  /\ EndTurn(r)
  /\ UNCHANGED <<worldVars, registryVars, owing, hand>>

\* poll returns Pending: the version is still the one the executor has read.
Pending(r) ==
  /\ life[r.slot] = "Live"
  /\ slots[r.slot].generation = r.generation
  /\ ~slots[r.slot].overflow
  /\ slots[r.slot].version = observed[r]

Asleep(r) == pc[r] = "parked" /\ ~woken[r]

Due(r) == pc[r] = "poll" \/ (pc[r] = "parked" /\ woken[r])

\* poll_activity leaves the waker, in the critical section of the comparison.
PollPending(r) ==
  /\ Due(r) /\ Current(r) /\ Pending(r)
  /\ Turn(r, {"poll", "parked"}, "parked")
  /\ slots' = [slots EXCEPT ![r.slot].waker = r]
  /\ woken' = [woken EXCEPT ![r] = FALSE]
  /\ UNCHANGED <<worldVars, dirty, owing, hand, observed, seen>>

\* poll_activity returns: a new version, a stopping actor or an error.
PollReady(r) ==
  /\ Due(r)
  /\ Turn(r, {"poll", "parked"}, "snapshot")
  /\ \/ ~Current(r) /\ UNCHANGED <<registryVars, hand>>
     \/ Current(r) /\ ~Pending(r) /\ Register(r)
  /\ EndTurn(r)
  /\ UNCHANGED <<worldVars, owing>>

\* The sleep is selected against a timer: the loop goes round and the waker
\* stays where it was left.
Timer(r) ==
  /\ Turn(r, {"parked"}, "snapshot")
  /\ EndTurn(r)
  /\ UNCHANGED <<worldVars, registryVars, owing, hand>>

ExecutorStep(r) ==
  \/ Snapshot(r)
  \/ SnapshotFails(r)
  \/ Inspect(r)
  \/ InspectStopped(r)
  \/ PollPending(r)
  \/ PollReady(r)

Next ==
  \/ \E t \in Thread :
       \/ \E S \in SUBSET Slot : Change(t, S)
       \/ \E s \in Slot : Stop(t, s) \/ Finalise(t, s) \/ Allocate(t, s)
       \/ Touch(t)
  \/ \E c \in Caller, r \in ActorRef : Fire(c, r)
  \/ \E r \in ActorRef : Begin(r) \/ ExecutorStep(r) \/ Timer(r)

\* A thread inside a call runs on to its end, taken wakers are fired, and the
\* executor runs a task that was scheduled.  Nobody has to change anything,
\* and no timer has to fire.
Fairness ==
  /\ \A t \in Thread : WF_vars(Touch(t))
  /\ \A c \in Caller : WF_vars(\E r \in ActorRef : Fire(c, r))
  /\ \A r \in ActorRef : WF_vars(ExecutorStep(r))

Spec == Init /\ [][Next]_vars /\ Fairness

-----------------------------------------------------------------------------
(* Properties.                                                             *)

\* What r acted on is not how things are: its actor was replaced, is being
\* stopped, or has work r has not inspected.
Outdated(r) ==
  \/ ~Current(r)
  \/ life[r.slot] # "Live"
  \/ seen[r] # work[r.slot]

\* An executor that sleeps in poll_activity on an outdated view is about to
\* be woken: its waker is in a marked slot and some caller is still to run
\* touch_activity, or a caller has taken the waker and is about to fire it.
NoLostWakeup ==
  \A r \in ActorRef :
    Asleep(r) /\ Outdated(r) =>
      \/ \E c \in Caller : r \in hand[c]
      \/ slots[r.slot].waker = r /\ r.slot \in dirty /\ owing # {}

\* An executor that has not been outrun knows its actor: with an unchanged
\* version, what it inspected after reading the version is still the case
\* (u64 versions that wrapped would break this).
UnchangedMeansUnchanged ==
  \A r \in ActorRef :
    /\ pc[r] \in {"poll", "parked"} /\ Current(r) /\ Pending(r)
    => seen[r] = work[r.slot]

\* The executor of an actor that is stopped or replaced comes to its end.
StoppedExecutorEnds ==
  \A r \in ActorRef :
    (pc[r] # "none" /\ (~Current(r) \/ life[r.slot] # "Live")) ~> pc[r] = "ended"
=============================================================================
