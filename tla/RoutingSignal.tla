--------------------------- MODULE RoutingSignal ---------------------------
(***************************************************************************)
(* How the routing service of the native runtime sleeps and is woken       *)
(* (runtime-core/src/publications.rs, RoutingSignal; runtime-native/src/   *)
(* lib.rs, routing_service).  A publisher changes the queues and sets the  *)
(* dirty flag under the World lock, releases the lock, and only then takes *)
(* the waker and fires it; the router checks the queues and leaves its     *)
(* waker under the World lock.  Between those steps anything may happen.   *)
(*                                                                         *)
(* The queues are counters: queued[s] publications of source s, held back  *)
(* while s is still Starting.  Ready is State.publications.ready, whose    *)
(* agreement with the queues is the subject of module Publications.        *)
(***************************************************************************)
EXTENDS Integers

CONSTANTS
  Source,      \* actors that publish
  Thread,      \* callers of the World other than the router
  MaxQueued    \* bound on the publications pending per source

ASSUME QueuedAssumption == MaxQueued \in Nat \ {0}

VARIABLES
  queued,      \* publications pending per source
  started,     \* sources that have left Starting
  dirty,       \* RoutingSignal.dirty
  waker,       \* RoutingSignal.waker holds the router's waker
  closed,      \* RoutingSignal.closed, set with State.closed
  owing,       \* threads that released the World lock, touch_activity ahead
  router,      \* where the routing service is
  scheduled    \* a fired waker has scheduled the router task

worldVars == <<queued, started, closed>>
routerVars == <<router, scheduled>>
vars == <<worldVars, dirty, waker, owing, routerVars>>

Ready == {s \in started : queued[s] > 0}

TypeOK ==
  /\ queued \in [Source -> 0..MaxQueued]
  /\ started \subseteq Source
  /\ dirty \in BOOLEAN /\ waker \in BOOLEAN /\ closed \in BOOLEAN
  /\ owing \subseteq Thread
  /\ router \in {"polling", "parked", "routing", "touching", "done"}
  /\ scheduled \in BOOLEAN

Init ==
  /\ queued = [s \in Source |-> 0]
  /\ started = {}
  /\ dirty = FALSE /\ waker = FALSE /\ closed = FALSE
  /\ owing = {}
  /\ router = "polling"
  /\ scheduled = FALSE

-----------------------------------------------------------------------------
(* Calls on the World.  Each one ends by owing a touch_activity.           *)

Call(t) == t \notin owing /\ owing' = owing \cup {t}

\* submit_publication_locked: output of a Starting source is staged, and
\* staged output is nothing the router could route.
Submit(t, s) ==
  /\ Call(t)
  /\ ~closed
  /\ queued[s] < MaxQueued
  /\ queued' = [queued EXCEPT ![s] = @ + 1]
  /\ dirty' = (dirty \/ s \in started)
  /\ UNCHANGED <<started, closed, waker, routerVars>>

\* Wrong: releasing staged output is not announced to the router.
ActivateSilently(t, s) ==
  /\ Call(t)
  /\ ~closed /\ s \notin started
  /\ started' = started \cup {s}
  /\ UNCHANGED <<queued, closed, dirty, waker, routerVars>>

\* activate with flush_staged_locked: the source's staged output is queued,
\* and each publication queued marks the signal.
Activate(t, s) ==
  /\ Call(t)
  /\ ~closed /\ s \notin started
  /\ started' = started \cup {s}
  /\ dirty' = (dirty \/ queued[s] > 0)
  /\ UNCHANGED <<queued, closed, waker, routerVars>>

\* finish_publication_locked: one publication of s less.
FinishOne(s) ==
  /\ queued[s] > 0
  /\ queued' = [queued EXCEPT ![s] = @ - 1]
  /\ dirty' = (dirty \/ \E r \in started : queued'[r] > 0)

\* A publication is cancelled or expires.
Cancel(t, s) ==
  /\ Call(t)
  /\ FinishOne(s)
  /\ UNCHANGED <<started, closed, waker, routerVars>>

\* Wrong: closing is not announced to the router.
CloseSilently(t) ==
  /\ Call(t)
  /\ closed' = TRUE
  /\ queued' = [s \in Source |-> 0]
  /\ UNCHANGED <<started, dirty, waker, routerVars>>

\* close: every root is fenced, which cancels what its scope has published.
Close(t) ==
  /\ Call(t)
  /\ closed' = TRUE
  /\ queued' = [s \in Source |-> 0]
  /\ dirty' = TRUE
  /\ UNCHANGED <<started, waker, routerVars>>

\* route_batch: the publication at hand ends, or some of its destinations
\* are left for a later turn, or there was nothing to route.
RouteOne ==
  \/ \E s \in Ready : FinishOne(s)
  \/ UNCHANGED <<queued, dirty>>

\* route_batch is public: callers other than the service use it too.
RouteBy(t) ==
  /\ Call(t)
  /\ Ready # {}
  /\ RouteOne
  /\ UNCHANGED <<started, closed, waker, routerVars>>

-----------------------------------------------------------------------------
(* touch_activity, after the World lock is released.                       *)

\* Wrong: the waker is dropped instead of fired.
DropWaker ==
  IF dirty
    THEN dirty' = FALSE /\ waker' = FALSE /\ UNCHANGED scheduled
    ELSE UNCHANGED <<dirty, waker, scheduled>>

\* wake_routing: whoever finds the flag set takes the waker with it.
WakeRouting ==
  IF dirty
    THEN dirty' = FALSE /\ waker' = FALSE /\ scheduled' = (scheduled \/ waker)
    ELSE UNCHANGED <<dirty, waker, scheduled>>

Touch(t) ==
  /\ t \in owing
  /\ owing' = owing \ {t}
  /\ WakeRouting
  /\ UNCHANGED <<worldVars, router>>

-----------------------------------------------------------------------------
(* The routing service.                                                    *)

\* poll_routing_ready, one critical section of both locks.
PollRoutingReady ==
  /\ scheduled' = FALSE
  /\ \/ closed /\ router' = "done" /\ waker' = FALSE
     \/ ~closed /\ Ready # {} /\ router' = "routing" /\ UNCHANGED waker
     \/ ~closed /\ Ready = {} /\ router' = "parked" /\ waker' = TRUE
  /\ UNCHANGED <<worldVars, dirty, owing>>

Poll ==
  /\ router = "polling" \/ (router = "parked" /\ scheduled)
  /\ PollRoutingReady

\* An executor may poll a task nobody has woken.
SpuriousPoll ==
  /\ router = "parked" /\ ~scheduled
  /\ PollRoutingReady

RouteBatch ==
  /\ router = "routing"
  /\ router' = "touching"
  /\ RouteOne
  /\ UNCHANGED <<started, closed, waker, owing, scheduled>>

\* The ActivityChange of route_batch is dropped, then the task yields.
RouterTouch ==
  /\ router = "touching"
  /\ router' = "polling"
  /\ WakeRouting
  /\ UNCHANGED <<worldVars, owing>>

CallNext ==
  \E t \in Thread :
    \/ \E s \in Source : Submit(t, s) \/ Activate(t, s) \/ Cancel(t, s)
    \/ Close(t)
    \/ RouteBy(t)

Next ==
  \/ CallNext
  \/ \E t \in Thread : Touch(t)
  \/ Poll
  \/ SpuriousPoll
  \/ RouteBatch
  \/ RouterTouch

\* A thread inside a call runs on to its end, and the executor polls a task
\* that was scheduled.  Nobody has to publish, activate or close.
Fairness ==
  /\ \A t \in Thread : WF_vars(Touch(t))
  /\ WF_vars(Poll)
  /\ WF_vars(RouteBatch)
  /\ WF_vars(RouterTouch)

Spec == Init /\ [][Next]_vars /\ Fairness

-----------------------------------------------------------------------------
(* Properties.                                                             *)

\* While the routing service sleeps (poll_routing_ready returned Pending and
\* no waker has fired since), a World that has something to route, or that
\* was closed, still has a caller on its way to wake_routing that will find
\* the dirty flag set and the service's waker in place.
NoLostWakeup ==
  router = "parked" /\ ~scheduled /\ (Ready # {} \/ closed) =>
    /\ waker /\ dirty
    /\ owing # {}

\* "A terminal poll never retains the incoming observer": once the routing
\* service has seen the close, the signal holds no waker of it.
TerminalPollKeepsNoWaker == router = "done" => ~waker

\* Closing the World ends the routing service, wherever it was.
CloseEndsRouter == closed ~> router = "done"

\* What can be routed gets a turn of the routing service, unless it is
\* routed, cancelled or closed before that.
ReadyGetsTurn == Ready # {} ~> (router = "routing" \/ Ready = {})
=============================================================================
