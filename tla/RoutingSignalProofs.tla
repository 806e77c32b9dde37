------------------------ MODULE RoutingSignalProofs ------------------------
(***************************************************************************)
(* Theorems about RoutingSignal, for every set of sources and threads.     *)
(* NoLostWakeup is not inductive: it has to be known that a set dirty flag *)
(* always has somebody on the way to clear it, and that a sleeping service *)
(* has its waker in place until that waker schedules it.                   *)
(***************************************************************************)
EXTENDS RoutingSignal, TLAPS

\* A set flag is somebody's debt: a thread's, or the service's own.
DirtyIsOwed == dirty => owing # {} \/ router = "touching"

\* The service sleeps with its waker in place, and with nothing to do unless
\* the flag says otherwise.
SleeperIsArmed ==
  router = "parked" /\ ~scheduled =>
    /\ waker
    /\ (Ready # {} \/ closed) => dirty

SignalInv ==
  /\ TypeOK
  /\ DirtyIsOwed
  /\ SleeperIsArmed
  /\ TerminalPollKeepsNoWaker

LEMMA InitInv == Init => SignalInv
<1> SUFFICES ASSUME Init PROVE SignalInv
  OBVIOUS
<1>1. TypeOK
  <2>1. queued \in [Source -> 0..MaxQueued]
    BY QueuedAssumption DEF Init
  <2>2. dirty \in BOOLEAN /\ waker \in BOOLEAN /\ closed \in BOOLEAN /\ scheduled \in BOOLEAN
    BY Zenon DEF Init
  <2> QED BY <2>1, <2>2 DEF Init, TypeOK
<1>2. ~dirty /\ router = "polling"
  BY DEF Init
<1> QED BY <1>1, <1>2 DEF SignalInv, DirtyIsOwed, SleeperIsArmed, TerminalPollKeepsNoWaker

\* What the calls have in common: they put their thread in debt, leave the
\* service and its waker alone, and mark whatever can be routed.
LEMMA CallKeepsInv ==
  ASSUME SignalInv, TypeOK', NEW t \in Thread, Call(t),
         UNCHANGED <<waker, router, scheduled>>,
         dirty => dirty',
         Ready' # {} \/ closed' => Ready # {} \/ closed \/ dirty'
  PROVE  SignalInv'
<1>1. owing' # {}
  BY DEF Call
<1>2. DirtyIsOwed'
  BY <1>1 DEF DirtyIsOwed
<1>3. SleeperIsArmed'
  BY DEF SignalInv, SleeperIsArmed
<1>4. TerminalPollKeepsNoWaker'
  BY DEF SignalInv, TerminalPollKeepsNoWaker
<1> QED BY <1>2, <1>3, <1>4 DEF SignalInv

\* One publication less makes nothing ready that was not.
LEMMA FinishKeepsReady ==
  ASSUME TypeOK, NEW s \in Source, FinishOne(s), UNCHANGED started
  PROVE  /\ queued' \in [Source -> 0..MaxQueued]
         /\ dirty' \in BOOLEAN
         /\ dirty => dirty'
         /\ Ready' # {} => Ready # {}
<1>1. queued' \in [Source -> 0..MaxQueued]
  BY QueuedAssumption DEF FinishOne, TypeOK
<1>2. Ready' \subseteq Ready
  BY QueuedAssumption DEF FinishOne, TypeOK, Ready
<1>3. dirty' \in BOOLEAN /\ (dirty => dirty')
  BY DEF FinishOne, TypeOK
<1> QED BY <1>1, <1>2, <1>3

LEMMA RouteKeepsReady ==
  ASSUME TypeOK, RouteOne, UNCHANGED started
  PROVE  /\ queued' \in [Source -> 0..MaxQueued]
         /\ dirty' \in BOOLEAN
         /\ dirty => dirty'
         /\ Ready' # {} => Ready # {}
<1>1. CASE \E s \in Ready : FinishOne(s)
  <2>1. PICK s \in Ready : FinishOne(s)
    BY <1>1
  <2>2. s \in Source
    BY DEF Ready, TypeOK
  <2> QED BY <2>1, <2>2, FinishKeepsReady
<1>2. CASE UNCHANGED <<queued, dirty>>
  BY <1>2 DEF TypeOK, Ready
<1> QED BY <1>1, <1>2 DEF RouteOne

\* Taking the flag takes the waker with it, and schedules the service.
LEMMA WakeKeepsInv ==
  ASSUME SignalInv, WakeRouting, UNCHANGED worldVars,
         owing' \subseteq owing,
         router' = router \/ (router = "touching" /\ router' = "polling")
  PROVE  SignalInv'
<1>1. TypeOK'
  BY DEF SignalInv, TypeOK, WakeRouting, worldVars
<1>2. ~dirty'
  BY DEF WakeRouting
<1>3. SleeperIsArmed'
  BY DEF SignalInv, SleeperIsArmed, WakeRouting, worldVars, Ready, TypeOK
<1>4. TerminalPollKeepsNoWaker'
  BY DEF SignalInv, TerminalPollKeepsNoWaker, WakeRouting
<1> QED BY <1>1, <1>2, <1>3, <1>4 DEF SignalInv, DirtyIsOwed

\* Every poll looks at the queues and leaves the waker in one critical section.
LEMMA PollKeepsInv ==
  ASSUME SignalInv, PollRoutingReady, router \in {"polling", "parked"}
  PROVE  SignalInv'
<1>1. TypeOK'
  BY DEF SignalInv, TypeOK, PollRoutingReady, worldVars
<1>2. DirtyIsOwed'
  BY DEF SignalInv, DirtyIsOwed, PollRoutingReady
<1>3. SleeperIsArmed'
  BY DEF SleeperIsArmed, PollRoutingReady, worldVars, Ready
<1>4. TerminalPollKeepsNoWaker'
  BY DEF TerminalPollKeepsNoWaker, PollRoutingReady
<1> QED BY <1>1, <1>2, <1>3, <1>4 DEF SignalInv

LEMMA StepInv == SignalInv /\ [Next]_vars => SignalInv'
<1> SUFFICES ASSUME SignalInv, [Next]_vars PROVE SignalInv'
  OBVIOUS
<1>0. TypeOK
  BY DEF SignalInv
<1>1. ASSUME NEW t \in Thread, NEW s \in Source, Submit(t, s) PROVE SignalInv'
  <2>1. TypeOK'
    BY <1>0, <1>1, QueuedAssumption DEF Submit, Call, TypeOK, routerVars
  <2>2. Ready' # {} => Ready # {} \/ dirty'
    <3>1. CASE s \in started
      BY <1>1, <3>1 DEF Submit
    <3>2. CASE s \notin started
      <4>1. Ready' = Ready
        BY <1>0, <1>1, <3>2 DEF Submit, Ready, TypeOK
      <4> QED BY <4>1
    <3> QED BY <3>1, <3>2
  <2> QED BY <1>1, <2>1, <2>2, CallKeepsInv DEF Submit, routerVars
<1>2. ASSUME NEW t \in Thread, NEW s \in Source, Activate(t, s) PROVE SignalInv'
  <2>1. TypeOK'
    BY <1>0, <1>2 DEF Activate, Call, TypeOK, routerVars
  <2>2. Ready' # {} => Ready # {} \/ dirty'
    BY <1>0, <1>2 DEF Activate, Ready, TypeOK
  <2> QED BY <1>2, <2>1, <2>2, CallKeepsInv DEF Activate, routerVars
<1>3. ASSUME NEW t \in Thread, NEW s \in Source, Cancel(t, s) PROVE SignalInv'
  <2>1. FinishOne(s) /\ UNCHANGED started
    BY <1>3 DEF Cancel
  <2>2. /\ queued' \in [Source -> 0..MaxQueued] /\ dirty' \in BOOLEAN
        /\ dirty => dirty'
        /\ Ready' # {} => Ready # {}
    BY <1>0, <2>1, FinishKeepsReady
  <2>3. TypeOK'
    BY <1>0, <1>3, <2>2 DEF Cancel, Call, TypeOK, routerVars
  <2> QED BY <1>3, <2>2, <2>3, CallKeepsInv DEF Cancel, routerVars
<1>4. ASSUME NEW t \in Thread, Close(t) PROVE SignalInv'
  <2>1. TypeOK'
    BY <1>0, <1>4, QueuedAssumption DEF Close, Call, TypeOK, routerVars
  <2> QED BY <1>4, <2>1, CallKeepsInv DEF Close, routerVars
<1>5. ASSUME NEW t \in Thread, RouteBy(t) PROVE SignalInv'
  <2>1. RouteOne /\ UNCHANGED started
    BY <1>5 DEF RouteBy
  <2>2. /\ queued' \in [Source -> 0..MaxQueued] /\ dirty' \in BOOLEAN
        /\ dirty => dirty'
        /\ Ready' # {} => Ready # {}
    BY <1>0, <2>1, RouteKeepsReady
  <2>3. TypeOK'
    BY <1>0, <1>5, <2>2 DEF RouteBy, Call, TypeOK, routerVars
  <2> QED BY <1>5, <2>2, <2>3, CallKeepsInv DEF RouteBy, routerVars
<1>6. ASSUME NEW t \in Thread, Touch(t) PROVE SignalInv'
  BY <1>6, WakeKeepsInv DEF Touch
<1>7. CASE Poll
  BY <1>7, PollKeepsInv DEF Poll
<1>8. CASE SpuriousPoll
  BY <1>8, PollKeepsInv DEF SpuriousPoll
<1>9. CASE RouteBatch
  <2>1. RouteOne /\ UNCHANGED started
    BY <1>9 DEF RouteBatch
  <2>2. queued' \in [Source -> 0..MaxQueued] /\ dirty' \in BOOLEAN
    BY <1>0, <2>1, RouteKeepsReady
  <2>3. TypeOK'
    BY <1>0, <1>9, <2>2 DEF RouteBatch, TypeOK
  <2> QED BY <1>9, <2>3
          DEF RouteBatch, SignalInv, DirtyIsOwed, SleeperIsArmed, TerminalPollKeepsNoWaker
<1>10. CASE RouterTouch
  BY <1>10, WakeKeepsInv DEF RouterTouch
<1>11. CASE UNCHANGED vars
  BY <1>11 DEF vars, worldVars, routerVars, SignalInv, TypeOK, DirtyIsOwed,
               SleeperIsArmed, TerminalPollKeepsNoWaker, Ready
<1> QED BY <1>1, <1>2, <1>3, <1>4, <1>5, <1>6, <1>7, <1>8, <1>9, <1>10, <1>11
        DEF Next, CallNext

LEMMA SpecInv == Spec => []SignalInv
<1>1. Init => SignalInv
  BY InitInv
<1>2. SignalInv /\ [Next]_vars => SignalInv'
  BY StepInv
<1> QED BY <1>1, <1>2, PTL DEF Spec

\* The routing service never sleeps on work or on a close that nobody is
\* about to tell it of, whatever the interleaving of publishers, other
\* routers, closers and spurious polls.
THEOREM RouterNeverMissesWork == Spec => []NoLostWakeup
<1>1. SignalInv => NoLostWakeup
  BY DEF SignalInv, NoLostWakeup, SleeperIsArmed, DirtyIsOwed
<1> QED BY <1>1, SpecInv, PTL

\* The last poll of the routing service leaves no waker in the signal, and
\* nothing puts one there afterwards.
THEOREM RouterLeavesNoWaker == Spec => []TerminalPollKeepsNoWaker
<1>1. SignalInv => TerminalPollKeepsNoWaker
  BY DEF SignalInv
<1> QED BY <1>1, SpecInv, PTL
=============================================================================
