------------------------------- MODULE Driver -------------------------------
(***************************************************************************)
(* The foreground driver of Python actors (python/actorplane/authoring.py) *)
(* and the readiness index it works from (runtime-core/src/readiness.rs).  *)
(*                                                                         *)
(* One thread pumps: failure notifications, cleanup, start, deliveries,    *)
(* cleanup again.  Each phase asks the World for one hint after another,   *)
(* and every hook it calls may spawn, stop, send or raise.  Meanwhile      *)
(* other threads send, publications are routed, drains end, and            *)
(* request_stop may come from anywhere.                                    *)
(*                                                                         *)
(* An actor is its ready_order: the order of allocation, never used again. *)
(* Fenced and retired actors are not told apart; what else retirement      *)
(* needs is in Lifecycle.  Component children are left out.                *)
(***************************************************************************)
EXTENDS Integers, FiniteSets, FiniteSetsExt

CONSTANTS
  LastOrder,   \* bound on the actors allocated
  Capacity,    \* mailbox_capacity
  Policies     \* the failure policies in use

ASSUME DriverAssumption ==
  LastOrder \in Nat /\ Capacity \in Nat
  /\ Policies \subseteq {"Continue", "StopActor", "StopWorld"}

Order == 1..LastOrder

VARIABLES
  life, parent,    \* Actor.state ("none": not allocated) and Actor.parent (0: a root)
  queue,           \* Actor.queue.len()
  routed,          \* targets of a publication that waits to be routed
  failed,          \* actors whose failure notification is pending
  busy,            \* actors with a delivery or control lease held
  done,            \* Actor.python_done
  closed,          \* State.closed
  ready,           \* PythonReadyIndex: the actors listed for each phase
  actors,          \* World._actors
  built, started,  \* registrations that got an instance, and their started flag
  pump,            \* where the driver is: see Idle
  call,            \* the hook that runs: hook, actor, and the child it is about
  stopRequested, draining, worldClosed,   \* World._stop_requested, _draining, _closed
  request          \* how far a request_stop of another thread is

core == <<life, parent, queue, routed, failed, busy, done, closed, ready>>
python == <<actors, built, started, stopRequested, draining, worldClosed, request>>
vars == <<core, python, pump, call>>

Phases == {"start", "failure", "delivery", "cleanup"}
Lives == {"none", "Starting", "Active", "Quiescing", "Stopping"}

\* mode: what was called; phase: where it is; cursor and cutoff as in
\* _ready_registrations; hint: what ready_next returned; error: a hook of this cleanup raised; back: the phase
\* a nested cleanup returns to, or "raise".
Idle == [mode |-> "none", phase |-> "none", cursor |-> 0, cutoff |-> 0,
         hint |-> 0, error |-> FALSE, back |-> "none", mark |-> 0]
NoCall == [hook |-> "none", actor |-> 0, child |-> 0]

Init ==
  /\ life = [o \in Order |-> "none"] /\ parent = [o \in Order |-> 0]
  /\ queue = [o \in Order |-> 0] /\ routed = {} /\ failed = {} /\ busy = {} /\ done = {}
  /\ closed = FALSE /\ ready = [p \in Phases |-> {}]
  /\ actors = {} /\ built = {} /\ started = {} /\ pump = Idle /\ call = NoCall
  /\ stopRequested = FALSE /\ draining = FALSE /\ worldClosed = FALSE /\ request = "none"

-----------------------------------------------------------------------------
(* The World as the driver sees it.                                        *)

Allocated == {o \in Order : life[o] # "none"}
Lineage(o) == LET up[k \in 0..LastOrder] == IF k = 0 THEN {} ELSE {k} \cup up[parent[k]]
              IN up[o]
Tree(o) == {d \in Allocated : o \in Lineage(d)}

\* execution_state_locked.
Execution(o) ==
  LET lives == {life[a] : a \in Lineage(o)} IN
  IF "Stopping" \in lives THEN "Stopping"
  ELSE IF "Quiescing" \in lives THEN "Quiescing"
  ELSE IF "Starting" \in lives THEN "Starting" ELSE "Active"

Executable(o) ==
  o \notin done /\ o \notin busy /\ Execution(o) \in {"Active", "Quiescing"}

\* What refresh_python_ready_locked works out for one actor.
Eligible(p, o) ==
  CASE p = "start" -> o \notin done /\ life[o] = "Starting"
    [] p = "cleanup" -> o \notin done /\ life[o] = "Stopping"
    [] p = "failure" -> Executable(o) /\ \E c \in failed : parent[c] = o
    [] p = "delivery" -> Executable(o) /\ queue[o] > 0

\* set_entry, for each actor of S: listed if it is present, else removed.
SetEntry(entries, S, present) == (entries \ S) \cup (S \cap present)

\* refresh_python_ready_locked for each actor of S, after the rest of the step.
Refresh(S) ==
  ready' = [p \in Phases |-> SetEntry(ready[p], S, {o \in S : Eligible(p, o)'})]

\* fence_locked for the trees of S: mailboxes, routes and the notifications
\* they were to receive are dropped.
FencedLife(S) ==
  [o \in Order |-> IF \E s \in S : o \in Tree(s) THEN "Stopping" ELSE life[o]]

Fence(S) ==
  LET fenced == UNION {Tree(s) : s \in S} IN
  /\ life' = FencedLife(S)
  /\ queue' = [o \in Order |-> IF o \in fenced THEN 0 ELSE queue[o]]
  /\ routed' = routed \ fenced

Roots == {o \in Allocated : parent[o] = 0}

\* The supervisor can still be told of the failure of o.
Supervised(o) == parent[o] # 0 /\ life[parent[o]] \in {"Starting", "Active", "Quiescing"}

\* report_failure with its action, which fences nothing, the actor or the World.
ReportFailure(o, action, supervisor) ==
  LET fencedRoots == CASE action = "Continue" -> {}
                       [] action = "StopActor" -> {o}
                       [] action = "StopWorld" -> Roots
      notified == failed \cup {c \in {o} : Supervised(c) /\ ~supervisor}
  IN /\ Fence(fencedRoots)
     /\ failed' = {c \in notified : parent[c] = 0 \/ FencedLife(fencedRoots)[parent[c]] # "Stopping"}
     /\ closed' = (closed \/ action = "StopWorld")

FailureTouches(o, action) ==
  CASE action = "Continue" -> {parent[o]} \ {0}
    [] action = "StopActor" -> Tree(o) \cup ({parent[o]} \ {0})
    [] action = "StopWorld" -> Allocated

\* drain_locked for the roots S.
Drain(S) ==
  LET starting == {s \in S : life[s] = "Starting"}
      marked == UNION {Tree(s) : s \in {s \in S : life[s] = "Active"}}
      gone == FencedLife(starting)
      fenced == UNION {Tree(s) : s \in starting}
  IN /\ life' = [o \in Order |-> IF o \in marked /\ gone[o] # "Stopping"
                                 THEN "Quiescing" ELSE gone[o]]
     /\ queue' = [o \in Order |-> IF o \in fenced THEN 0 ELSE queue[o]]
     /\ routed' = routed \ fenced
     /\ failed' = {c \in failed : parent[c] \notin fenced}

\* World::close, after which nothing can be allocated.
CloseWorld == Fence(Roots) /\ failed' = {c \in failed : parent[c] = 0} /\ closed' = TRUE

-----------------------------------------------------------------------------
(* Other threads.                                                          *)

Admit(o, lives) ==
  /\ Execution(o) \in lives /\ queue[o] < Capacity
  /\ queue' = [queue EXCEPT ![o] = @ + 1]

Send(o) ==
  /\ ~worldClosed /\ ~stopRequested /\ Admit(o, {"Active"})
  /\ UNCHANGED <<life, parent, routed, failed, busy, done, closed, python, pump, call>>
  /\ Refresh({o})

\* A publication for a subscribed actor; an actor may be subscribed while it
\* is still Starting.
Publish(o) ==
  /\ life[o] \in {"Starting", "Active"} /\ routed' = routed \cup {o}
  /\ UNCHANGED <<life, parent, queue, failed, busy, done, closed, ready, python, pump, call>>

\* route_publications: what was published before a drain still enters a
\* draining mailbox; a Starting or full target refuses it.
Route(o) ==
  /\ o \in routed /\ routed' = routed \ {o}
  /\ \/ Admit(o, {"Active", "Quiescing"})
     \/ (Execution(o) = "Starting" \/ queue[o] = Capacity) /\ UNCHANGED queue
  /\ UNCHANGED <<life, parent, failed, busy, done, closed, python, pump, call>>
  /\ Refresh({o})

\* maintain: the drain of o and what it has absorbed completes or expires.
DrainEnds(o) ==
  /\ life[o] = "Quiescing" /\ (parent[o] # 0 => life[parent[o]] # "Quiescing")
  /\ Fence({o}) /\ failed' = {c \in failed : parent[c] \notin Tree(o)}
  /\ UNCHANGED <<parent, busy, done, closed, python, pump, call>>
  /\ Refresh(Tree(o))

\* request_stop, one assignment or native call at a time.
RequestDrain ==
  /\ request = "none" /\ ~worldClosed /\ ~(stopRequested /\ ~draining)
  /\ draining' = TRUE /\ request' = "drain"
  /\ UNCHANGED <<core, actors, built, started, stopRequested, worldClosed, pump, call>>

RequestCancel ==
  /\ request = "none" /\ ~worldClosed
  /\ draining' = FALSE /\ request' = "cancel"
  /\ UNCHANGED <<core, actors, built, started, stopRequested, worldClosed, pump, call>>

RequestReachesWorld ==
  /\ \/ request = "drain" /\ Drain(Roots) /\ closed' = TRUE
     \/ request = "cancel" /\ CloseWorld
  /\ request' = "told"
  /\ UNCHANGED <<parent, busy, done, actors, built, started, stopRequested, draining, worldClosed,
                 pump, call>>
  /\ Refresh(Allocated)

RequestEnds ==
  /\ request = "told" /\ request' = "none" /\ stopRequested' = TRUE
  /\ UNCHANGED <<core, actors, built, started, draining, worldClosed, pump, call>>

-----------------------------------------------------------------------------
(* What user code does on the driver thread, in a hook or between calls.   *)

UserCode == call.hook \notin {"none", "missing"} \/ pump = Idle

Spawn(o, p) ==
  /\ UserCode /\ ~worldClosed /\ ~stopRequested /\ ~closed
  /\ o \notin Allocated /\ o = Cardinality(Allocated) + 1
  /\ p # 0 => p \in actors /\ life[p] \in {"Starting", "Active"}
  /\ life' = [life EXCEPT ![o] = "Starting"] /\ parent' = [parent EXCEPT ![o] = p]
  /\ actors' = actors \cup {o}
  /\ UNCHANGED <<queue, routed, failed, busy, done, closed, built, started, stopRequested,
                 draining, worldClosed, request, pump, call>>
  /\ Refresh({o})

\* stop, which also cleans up unless a hook is running.
Cleaning(p) ==
  [p EXCEPT !.phase = "final", !.cursor = 0, !.cutoff = Cardinality(Allocated), !.error = FALSE]

Stop(o) ==
  /\ UserCode /\ ~worldClosed /\ life[o] \in Lives \ {"none", "Stopping"}
  /\ \/ Fence({o}) /\ failed' = {c \in failed : parent[c] \notin Tree(o)}
     \/ Drain({o})
  /\ pump' = IF call = NoCall THEN [Cleaning(pump) EXCEPT !.mode = "stop"] ELSE pump
  /\ UNCHANGED <<parent, busy, done, closed, python, call>>
  /\ Refresh(Tree(o))

-----------------------------------------------------------------------------
(* The pump.                                                               *)

Enter(phase) ==
  pump' = [pump EXCEPT !.phase = phase, !.cursor = 0, !.cutoff = Cardinality(Allocated),
                       !.error = FALSE]

\* step and run.
Begin ==
  /\ pump = Idle /\ ~worldClosed
  /\ \E mode \in {"step", "run"} :
       pump' = [Idle EXCEPT !.mode = mode, !.phase = "failure",
                            !.cutoff = Cardinality(Allocated)]
  /\ UNCHANGED <<core, python, call>>

Raised == IF pump.mode = "close" THEN [Idle EXCEPT !.mode = "close", !.phase = "closing"] ELSE Idle

\* A hook failed: clean up, and then go on with the phase or raise.
CleanThen(back) ==
  pump' = [pump EXCEPT !.phase = "nested", !.back = back, !.error = FALSE,
                       !.mark = pump.cutoff, !.cutoff = Cardinality(Allocated)]

Hints == {o \in ready[pump.phase] : pump.cursor < o /\ o <= pump.cutoff}

\* Wrong: cleanup visits registrations in their order.
EarliestHint == {o \in ready["cleanup"] :
                   o <= pump.cutoff /\ \A x \in ready["cleanup"] : o <= x}

\* python_ready_next for cleanup: the latest one.
LatestHint == {o \in ready["cleanup"] :
                 o <= pump.cutoff /\ \A x \in ready["cleanup"] : x <= pump.cutoff => x <= o}

\* ready_next: the first hint after the cursor.  The World is unlocked before
\* the hint is used.
NextHint ==
  /\ call = NoCall /\ pump.phase \in {"failure", "start", "delivery"}
  /\ pump.hint = 0 /\ Hints # {}
  /\ pump' = [pump EXCEPT !.hint = Min(Hints), !.cursor = Min(Hints)]
  /\ UNCHANGED <<core, python, call>>

At(phase, o) == call = NoCall /\ pump.phase = phase /\ pump.hint = o

Used == pump' = [pump EXCEPT !.hint = 0]

Skip == Used /\ UNCHANGED <<core, python, call>>

Run(hook, o, child) == Used /\ call' = [hook |-> hook, actor |-> o, child |-> child]

\* A phase without another hint is over.
PhaseEnds ==
  /\ call = NoCall /\ pump.phase \in {"failure", "start", "delivery"}
  /\ pump.hint = 0 /\ Hints = {}
  /\ Enter(CASE pump.phase = "failure" -> "cleanup"
             [] pump.phase = "start" -> "delivery"
             [] pump.phase = "delivery" -> "sweep")
  /\ UNCHANGED <<core, python, call>>

CleanupPhases == {"cleanup", "sweep", "nested", "final"}

\* _cleanup: on_stop if there is an instance, and then finish_python.
Cleanup(o) ==
  /\ call = NoCall /\ pump.phase \in CleanupPhases /\ o \in LatestHint
  /\ actors' = actors \ {o}
  /\ IF o \in built
     THEN /\ call' = [hook |-> "on_stop", actor |-> o, child |-> 0]
          /\ UNCHANGED core
     ELSE /\ done' = done \cup {o}
          /\ UNCHANGED <<life, parent, queue, routed, failed, busy, closed, call>>
          /\ Refresh({o})
  /\ UNCHANGED <<built, started, stopRequested, draining, worldClosed, request, pump>>

\* Wrong: the first hook that raises ends the cleanup.
CleanedUpAtOnce == IF pump.phase = "final" THEN [pump EXCEPT !.cutoff = 0] ELSE Raised

\* An error of on_stop is kept until the cleanup is over.
CleanedUp == [pump EXCEPT !.error = TRUE]

OnStopEnds ==
  /\ call.hook = "on_stop" /\ call' = NoCall
  /\ done' = done \cup {call.actor}
  /\ UNCHANGED <<life, parent, queue, routed, busy, closed, python>>
  /\ \/ UNCHANGED <<failed, pump>>
     \/ /\ pump' = CleanedUp
        /\ failed' = failed \cup {c \in {call.actor} : Supervised(c)}
  /\ Refresh({call.actor, parent[call.actor]} \ {0})

\* The cleanup is over; its error ends the pump, unless it is a nested one.
CleanupEnds ==
  /\ call = NoCall /\ pump.phase \in CleanupPhases /\ LatestHint = {}
  /\ \/ pump.phase = "nested" /\ pump.back = "raise" /\ pump' = Raised
     \/ pump.phase = "nested" /\ pump.back # "raise"
          /\ pump' = [pump EXCEPT !.phase = pump.back, !.back = "none",
                                  !.cutoff = pump.mark, !.mark = 0, !.error = FALSE]
     \/ pump.phase = "cleanup" /\ (IF pump.error THEN pump' = Raised ELSE Enter("start"))
     \/ pump.phase = "sweep"
          /\ pump' = (IF pump.error THEN Raised ELSE [pump EXCEPT !.phase = "check"])
     \/ pump.phase = "final" /\ pump.mode # "close" /\ pump' = Idle
  /\ UNCHANGED <<core, python, call>>

\* _pump_failures: the first notification among the children of o.
SuperviseOne(o) ==
  /\ At("failure", o)
  /\ IF o \notin actors \cap built \/ ~Eligible("failure", o) THEN Skip
     ELSE \E c \in {c \in failed : parent[c] = o} :
            /\ failed' = failed \ {c} /\ busy' = busy \cup {o} /\ Run("on_failure", o, c)
            /\ UNCHANGED <<life, parent, queue, routed, done, closed, python>>
            /\ Refresh({o})

\* finish_failure applies the action to the child that failed.  A hook that
\* raises stops the World.
OnFailureEnds ==
  /\ call.hook = "on_failure" /\ call' = NoCall /\ busy' = busy \ {call.actor}
  /\ UNCHANGED <<parent, done, actors, built, started, worldClosed, request>>
  /\ \/ \E action \in {"Continue", "StopActor"} :
          /\ ReportFailure(call.child, action, TRUE)
          /\ Refresh((IF action = "StopActor" THEN Tree(call.child) ELSE {}) \cup {call.actor})
          /\ UNCHANGED <<pump, stopRequested, draining>>
     \/ /\ CloseWorld /\ Refresh(Allocated) /\ stopRequested' = TRUE /\ draining' = FALSE
        /\ \/ Enter("cleanup")          \* it returned STOP_WORLD
           \/ CleanThen("raise")        \* it raised

\* _start_pending: the instance is made, configured and started; user code runs
\* in each of the three, and other threads beside it.
StartOne(o) ==
  /\ At("start", o)
  /\ IF o \notin actors \/ life[o] # "Starting" THEN Skip
     ELSE Run("__init__", o, 0) /\ UNCHANGED <<core, python>>

Constructed ==
  /\ call.hook = "__init__" /\ call' = [call EXCEPT !.hook = "configure"]
  /\ built' = built \cup {call.actor}
  /\ UNCHANGED <<core, actors, started, stopRequested, draining, worldClosed, request, pump>>

\* on_start is skipped when the actor has left Starting meanwhile.
Configured ==
  /\ call.hook = "configure"
  /\ call' = IF life[call.actor] = "Starting" THEN [call EXCEPT !.hook = "on_start"] ELSE NoCall
  /\ UNCHANGED <<core, python, pump>>

\* The actor is activated unless it was stopped meanwhile.
Started ==
  LET o == call.actor IN
  /\ call.hook = "on_start" /\ call' = NoCall
  /\ IF life[o] # "Starting" THEN UNCHANGED <<core, started>>
     ELSE /\ life' = [life EXCEPT ![o] = "Active"] /\ started' = started \cup {o}
          /\ UNCHANGED <<parent, queue, routed, failed, busy, done, closed>>
          /\ Refresh(Tree(o))
  /\ UNCHANGED <<actors, built, stopRequested, draining, worldClosed, request, pump>>

\* A hook raised, or activate found the actor stopped.  For a root, and for
\* what is not an Exception, the pump ends.
StartFails ==
  LET o == call.actor IN
  /\ call.hook \in {"__init__", "configure", "on_start"} /\ call' = NoCall
  /\ ReportFailure(o, "StopActor", FALSE)
  /\ CleanThen("raise") \/ (parent[o] # 0 /\ CleanThen("start"))
  /\ UNCHANGED <<parent, busy, done, python>>
  /\ Refresh(FailureTouches(o, "StopActor"))

\* _pump: at most one delivery of each actor.  One that was never constructed has
\* no instance to find the handler on: the claim is lost in an AttributeError.
DeliverOne(o) ==
  /\ At("delivery", o)
  /\ IF o \notin actors \/ ~Eligible("delivery", o) THEN Skip
     ELSE /\ queue' = [queue EXCEPT ![o] = @ - 1]
          /\ UNCHANGED <<life, parent, routed, failed, done, closed, python>>
          /\ \/ busy' = busy \cup {o} /\ Run(IF o \in built THEN "handler" ELSE "missing", o, 0)
             \/ queue[o] = 1 /\ UNCHANGED <<busy, call>>    \* expired or cancelled
                  /\ Used
          /\ Refresh({o})

\* Wrong: the end of a callback does not look at the queue again.
ReleasedUnseen(o) == ready' = ready

\* The lease is finished, and the actor looked at again.
Released(o) == Refresh({o})

HandlerReturns ==
  /\ call.hook = "handler" /\ call' = NoCall /\ busy' = busy \ {call.actor}
  /\ UNCHANGED <<life, parent, queue, routed, failed, done, closed, python, pump>>
  /\ Released(call.actor)

HandlerRaises ==
  LET o == call.actor IN
  /\ call.hook \in {"handler", "missing"} /\ call' = NoCall /\ busy' = busy \ {o}
  /\ UNCHANGED <<parent, done, actors, built, started, worldClosed, request>>
  /\ \E policy \in Policies :
       /\ ReportFailure(o, policy, FALSE)
       /\ IF policy = "StopWorld" THEN stopRequested' = TRUE /\ draining' = FALSE
          ELSE UNCHANGED <<stopRequested, draining>>
       /\ CASE policy = "Continue" -> UNCHANGED pump
            [] policy = "StopActor" -> CleanThen("raise") \/ (parent[o] # 0 /\ CleanThen("delivery"))
            [] policy = "StopWorld" -> CleanThen("raise")
       /\ Refresh(FailureTouches(o, policy) \cup {o})

\* The loops of run and close, between two pumps.  Either may run out of time.
Check ==
  /\ call = NoCall /\ pump.phase = "check"
  /\ \/ pump.mode = "step" /\ pump' = Idle
     \/ /\ pump.mode = "run" /\ actors # {} /\ (~stopRequested \/ draining) /\ Enter("failure")
     \/ pump.mode = "run" /\ Enter("final")
     \/ pump.mode = "close" /\ actors # {} /\ Enter("failure")
     \/ pump.mode = "close" /\ Enter("closing")
  /\ UNCHANGED <<core, python, call>>

\* close: request_stop first, in the mode asked for or the one under way.
Close ==
  /\ pump = Idle /\ ~worldClosed /\ stopRequested' = TRUE
  /\ \/ /\ ~(stopRequested /\ ~draining) /\ Drain(Roots) /\ closed' = TRUE /\ draining' = TRUE
        /\ pump' = [Idle EXCEPT !.mode = "close", !.phase = "check"]
     \/ /\ CloseWorld /\ draining' = FALSE
        /\ pump' = [Idle EXCEPT !.mode = "close", !.phase = "closing"]
  /\ UNCHANGED <<parent, busy, done, actors, built, started, worldClosed, request, call>>
  /\ Refresh(Allocated)

\* NativeWorld::close fences what is left.
CloseNative ==
  /\ pump.phase = "closing" /\ CloseWorld /\ pump' = Cleaning(pump)
  /\ UNCHANGED <<parent, busy, done, python, call>>
  /\ Refresh(Allocated)

CloseEnds ==
  /\ call = NoCall /\ pump.mode = "close" /\ pump.phase = "final" /\ LatestHint = {}
  /\ worldClosed' = TRUE /\ pump' = Idle
  /\ UNCHANGED <<core, actors, built, started, stopRequested, draining, request, call>>

Threads ==
  \/ \E o \in Allocated : Send(o) \/ Publish(o) \/ Route(o) \/ DrainEnds(o)
  \/ RequestDrain \/ RequestCancel \/ RequestReachesWorld \/ RequestEnds

User ==
  \/ \E o \in Order, p \in 0..LastOrder : Spawn(o, p)
  \/ \E o \in Allocated : Stop(o)
  \/ Begin \/ Close

Pump ==
  \/ NextHint \/ PhaseEnds \/ CleanupEnds \/ Check \/ CloseNative \/ CloseEnds
  \/ \E o \in Allocated : Cleanup(o) \/ SuperviseOne(o) \/ StartOne(o) \/ DeliverOne(o)
  \/ OnStopEnds \/ OnFailureEnds \/ HandlerReturns \/ HandlerRaises
  \/ Constructed \/ Configured \/ Started \/ StartFails

Next == Threads \/ User \/ Pump

Spec == Init /\ [][Next]_vars

-----------------------------------------------------------------------------
(* Properties.                                                             *)

\* The index always says what the actors' states say, ancestors included: no
\* actor with work is left out (nothing would bring the driver to it), and
\* none is listed for work it no longer has.
ReadyExact == \A p \in Phases : ready[p] = {o \in Allocated : Eligible(p, o)}

\* "on_stop(ctx) runs after fencing, once, on the driver, with children before
\* parents" (docs/contracts/api.md): when it runs, the actor is fenced, and no
\* descendant that was ever constructed is still to have its own, whichever
\* thread fenced what between two steps of the cleanup.
ChildrenFirst ==
  call.hook = "on_stop" =>
    /\ life[call.actor] = "Stopping" /\ call.actor \notin done
    /\ \A d \in Tree(call.actor) \ {call.actor} : d \in built => d \in done

\* A World that has closed has no registration left, and every actor is
\* finished and idle, although hooks raised, the drain ran out of time or
\* another thread's request_stop was half-way.
CloseFinishesAll == worldClosed => actors = {} /\ Allocated \subseteq done /\ busy = {}

\* "activate business ingress only after required startup has succeeded" and
\* "must not expose a half-initialized Python handler to native traffic"
\* (actorplane.md, the design contract): a handler is called only on an actor
\* whose startup has succeeded.
StartedFirst == call.hook = "handler" => call.actor \in started

=============================================================================
