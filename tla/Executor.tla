------------------------------ MODULE Executor ------------------------------
(***************************************************************************)
(* One native component: the task that runs its callbacks (runtime-native/ *)
(* src/sdk.rs), the deferred jobs and timers it starts (tasks.rs, cpu.rs)  *)
(* and the close of the native runtime under both (lib.rs).                *)
(*                                                                         *)
(* The executor reads the World through separate calls, so anything may    *)
(* happen between two of them, and it sleeps until the activity version it *)
(* took at the top of its turn has moved.  A job holds up to five things   *)
(* (component permit, CPU job and worker permits, task lease, runtime      *)
(* permit) and gives them back one by one: only the lease is visible to    *)
(* the World, and only its release marks activity.                         *)
(*                                                                         *)
(* The actor itself is modules Lifecycle and Operations seen from outside: *)
(* a life, a mailbox of requests and their outcomes.  `changed' is the     *)
(* comparison of poll_activity (module Activity): the version has moved    *)
(* since the snapshot of this turn.                                        *)
(***************************************************************************)
EXTENDS Integers, Sequences, FiniteSets

CONSTANTS
  Op,             \* requests that may be made of the component
  EventsPerTurn,  \* limits.events_per_turn
  MaxJobs,        \* limits.max_jobs
  Slots,          \* max_tasks of the runtime, the executor's included
  CpuJobs,        \* CpuConfig.max_jobs
  Workers,        \* CpuConfig.workers
  Faults,         \* what a callback may do wrong: "error", "panic"
  DrainPolicies,  \* the DrainPolicy a component may have
  FailureActions  \* the failure_action a component may have

ASSUME LimitAssumption ==
  /\ EventsPerTurn \in Nat \ {0} /\ Slots \in Nat \ {0} /\ MaxJobs \in Nat
  /\ CpuJobs \in Nat \ {0} /\ Workers \in Nat \ {0}
ASSUME OpAssumption == IsFiniteSet(Op) /\ "none" \notin Op
ASSUME PolicyAssumption ==
  /\ Faults \subseteq {"error", "panic"}
  /\ DrainPolicies \subseteq {"Producer", "Consumer"}
  /\ FailureActions \subseteq {"Continue", "StopActor"}

None == "none"

VARIABLES
  owner,      \* the actor: life, queue, op, own and children's failure notices
  upstream,   \* a linked producer still has work
  changed,    \* the activity version is not the one observed
  exec,       \* the executor: where it is and its local variables
  job,        \* what each request has deferred: kind and progress
  runtime,    \* the NativeRuntime: "open", "closing" or "closed"
  late        \* shutdown_timed_out

vars == <<owner, upstream, changed, exec, job, runtime, late>>

\* A reply, a failure, an expiry and a cancellation all decide a request.  The
\* World does not notice that a deadline has passed before it looks.
Undecided == {"pending", "overdue"}
Hooks == {"prepare", "supervise", "quiescing", "event", "draining", "tick"}
Steps == {"top", "inspect", "failures", "quiesce", "claim", "settle", "timer",
          "asleep", "ticking", "cleanup", "release", "untracked", "done"}

(* What a job still holds at each point of its life. *)
Busy == {"waiting", "running", "returned"}
Reserved == Busy \cup {"ended"}                  \* the CPU permits
Leased == Reserved \cup {"freed"}                \* the task lease

\* Wrong: the component permit outlives the task lease.
LocalLast == Leased \cup {"untracked"}

\* The component permit is a local of the work itself.
Local == Busy

\* Wrong: the runtime permit is given back with the work, before the lease.
PermitFirst == Busy

\* The runtime permit is the last field to go.
Held == Leased \cup {"untracked"}

TypeOK ==
  /\ owner \in [life : {"Starting", "Active", "Quiescing", "Stopping", "Stopped"},
                queue : UNION {[1..n -> Op] : n \in 0..Cardinality(Op)},
                op : [Op -> {"idle", "decided"} \cup Undecided],
                note : BOOLEAN, kids : BOOLEAN, supervised : BOOLEAN]
  /\ upstream \in BOOLEAN /\ changed \in BOOLEAN /\ late \in BOOLEAN
  /\ exec \in [at : Hooks \cup Steps, seen : {"Starting", "Active", "Quiescing"},
               quiescing : BOOLEAN, panicked : BOOLEAN,
               consumed : 0..EventsPerTurn, current : Op \cup {None}]
  /\ job \in [Op -> [kind : {None, "async", "cpu", "timer"},
                     at : Held \cup {"none"}]]
  /\ runtime \in {"open", "closing", "closed"}

\* prepare_native up to the startup callback: permit, actor, lease and claim
\* are taken, nobody else knows the actor's reference yet.
Init ==
  /\ owner = [life |-> "Starting", queue |-> <<>>, op |-> [o \in Op |-> "idle"],
              note |-> FALSE, kids |-> FALSE, supervised |-> TRUE]
  /\ upstream = TRUE
  /\ changed = FALSE
  /\ exec = [at |-> "prepare", seen |-> "Starting", quiescing |-> FALSE,
             panicked |-> FALSE, consumed |-> 0, current |-> None]
  /\ job = [o \in Op |-> [kind |-> None, at |-> "none"]]
  /\ runtime = "open" /\ late = FALSE

-----------------------------------------------------------------------------
(* The World, as the component and its jobs see it.                        *)

Live(c) == c.life \in {"Active", "Quiescing"}

Decide(c, o) ==
  IF o # None /\ c.op[o] \in Undecided THEN [c EXCEPT !.op[o] = "decided"] ELSE c

\* The mailbox without the delivery of a request.
Without(queue, o) ==
  LET at == CHOOSE i \in DOMAIN queue : queue[i] = o
  IN  IF \E i \in DOMAIN queue : queue[i] = o
      THEN SubSeq(queue, 1, at - 1) \o SubSeq(queue, at + 1, Len(queue)) ELSE queue

\* stop_locked: the mailbox is discarded, requests of the actor are cancelled.
Fence(c) ==
  IF c.life = "Stopped" THEN c
  ELSE [c EXCEPT !.life = "Stopping", !.queue = <<>>, !.kids = FALSE,
                 !.op = [o \in Op |-> IF @[o] \in Undecided THEN "decided" ELSE @[o]]]

\* stop of an ancestor, or close: the notice of the actor is discarded too.
FenceWithParent(c) == Fence([c EXCEPT !.note = FALSE, !.supervised = FALSE])

\* report_failure: the request fails, the supervisor is told, the action applies.
Report(c, o, action) ==
  LET told == [Decide(c, o) EXCEPT !.note = @ \/ c.supervised]
  IN  IF action = "StopActor" THEN Fence(told) ELSE told

Leases(e, j) ==
  Cardinality({o \in Op : j[o].at \in Leased})
    + (IF e.at \in {"untracked", "done"} THEN 0 ELSE 1)

\* try_finalize after a lease or a notice has gone.
Settle(c, leases) ==
  IF c.life = "Stopping" /\ leases = 0 /\ ~c.note
  THEN [c EXCEPT !.life = "Stopped"] ELSE c

\* upstream_done: nothing queued or in flight here, every producer finished.
UpstreamDone == owner.queue = <<>> /\ ~upstream

Permits(held, kinds) == Cardinality({o \in Op : job[o].kind \in kinds /\ job[o].at \in held})
AnyKind == {"async", "cpu", "timer"}

\* active_tasks: runtime permits in use, which is all that close looks at.
ActiveTasks == Permits(Held, AnyKind) + (IF exec.at = "done" THEN 0 ELSE 1)

-----------------------------------------------------------------------------
(* Everyone else: callers, the parent, children, producers, maintenance.   *)

Others(c) ==
  /\ owner' = c /\ changed' = TRUE
  /\ UNCHANGED <<exec, job, runtime, late>>

Prepared == exec.at # "prepare"

Activate ==
  /\ Prepared /\ owner.life = "Starting"
  /\ Others([owner EXCEPT !.life = "Active"]) /\ UNCHANGED upstream

Request(o) ==
  /\ owner.life = "Active" /\ owner.op[o] = "idle"
  /\ Others([owner EXCEPT !.op[o] = "pending", !.queue = Append(@, o)])
  /\ UNCHANGED upstream

\* The deadline of a request passes: its delivery and its jobs have the same.
OpOverdue(o) ==
  /\ owner.op[o] = "pending" /\ owner' = [owner EXCEPT !.op[o] = "overdue"]
  /\ UNCHANGED <<upstream, changed, exec, job, runtime, late>>

\* maintain finds it so: what still waits in the mailbox is dropped.
OpExpires(o) ==
  /\ owner.op[o] = "overdue"
  /\ Others([Decide(owner, o) EXCEPT !.queue = Without(@, o)]) /\ UNCHANGED upstream

\* cancel_operation, or a stop of the requester; the delivery stays.
OpCancelled(o) ==
  /\ owner.op[o] \in Undecided
  /\ Others(Decide(owner, o)) /\ UNCHANGED upstream

ChildFails ==
  /\ Prepared /\ Live(owner) /\ ~owner.kids
  /\ Others([owner EXCEPT !.kids = TRUE]) /\ UNCHANGED upstream

\* claim_failure by the supervisor.
ParentClaims ==
  /\ owner.note
  /\ Others(Settle([owner EXCEPT !.note = FALSE], Leases(exec, job)))
  /\ UNCHANGED upstream

\* drain_locked: a Starting actor is stopped, an Active one begins to drain.
RequestDrain ==
  /\ Prepared /\ owner.life \in {"Starting", "Active"}
  /\ Others(IF owner.life = "Starting" THEN Fence(owner)
            ELSE [owner EXCEPT !.life = "Quiescing"])
  /\ UNCHANGED upstream

\* maintain: the scope has drained, or its deadline has passed.  It has expired
\* what is overdue before it looks.
Drained ==
  /\ owner.queue = <<>> /\ ~owner.note /\ Leases(exec, job) = 0
  /\ \A o \in Op : owner.op[o] \notin Undecided

DrainCompletes ==
  /\ owner.life = "Quiescing" /\ Drained
  /\ Others(Settle(Fence(owner), Leases(exec, job))) /\ UNCHANGED upstream

DrainExpires ==
  /\ owner.life = "Quiescing" /\ \A o \in Op : owner.op[o] # "overdue"
  /\ Others(Settle(Fence(owner), Leases(exec, job))) /\ UNCHANGED upstream

\* stop of the actor or of an ancestor.
Stop ==
  /\ owner.life \notin {"Stopping", "Stopped"}
  /\ \E c \in {Fence(owner), FenceWithParent(owner)} :
       Others(Settle(c, Leases(exec, job)))
  /\ UNCHANGED upstream

\* A stopping parent discards the notice of a child that has already stopped.
ParentStops ==
  /\ owner.life = "Stopping" /\ owner.supervised
  /\ Others(Settle([owner EXCEPT !.note = FALSE, !.supervised = FALSE],
                   Leases(exec, job)))
  /\ UNCHANGED upstream

\* mark_activity_dependents_locked: a producer's progress marks the consumers
\* that are Quiescing; the others will look when they begin to drain.
UpstreamEnds ==
  /\ upstream /\ upstream' = FALSE
  /\ changed' = (changed \/ owner.life = "Quiescing")
  /\ UNCHANGED <<owner, exec, job, runtime, late>>

-----------------------------------------------------------------------------
(* prepare_native and the turns of run_component.                          *)

Exec(at, c) ==
  /\ exec' = [exec EXCEPT !.at = at]
  /\ owner' = c
  /\ UNCHANGED <<upstream, job, runtime, late>>

\* The calls that mark the actor; a refused claim and a plain read do not.
Marked == changed' = TRUE
Unmarked == UNCHANGED changed

Fault(f) == f \in Faults

\* Construction or on_start fails: the actor is stopped; on_stop runs unless
\* the component does not exist or has panicked.
PrepareFails ==
  /\ exec.at = "prepare" /\ Faults # {}
  /\ \E next \in {"cleanup", "release"} :
       Exec(next, Report(owner, None, "StopActor"))
  /\ Marked

PrepareSucceeds ==
  /\ exec.at = "prepare"
  /\ Exec(IF owner.life = "Starting" THEN "top" ELSE "cleanup", owner)
  /\ Marked

\* world.activity(owner): the version this turn compares with.
Snapshot ==
  /\ exec.at = "top"
  /\ exec' = [exec EXCEPT !.at = "inspect", !.consumed = 0]
  /\ changed' = FALSE
  /\ UNCHANGED <<owner, upstream, job, runtime, late>>

Inspect ==
  /\ exec.at = "inspect" /\ Unmarked
  /\ exec' = IF owner.life \in {"Stopping", "Stopped"} THEN [exec EXCEPT !.at = "cleanup"]
             ELSE [exec EXCEPT !.seen = owner.life,
                               !.at = IF owner.life = "Starting" THEN "asleep" ELSE "failures"]
  /\ UNCHANGED <<owner, upstream, job, runtime, late>>

ClaimFailure ==
  /\ exec.at = "failures"
  /\ IF owner.kids /\ Live(owner)
     THEN Exec("supervise", [owner EXCEPT !.kids = FALSE]) /\ Marked
     ELSE Exec("quiesce", owner) /\ Unmarked

\* on_failure: an error or a panic in it stops the World.
Supervise ==
  /\ exec.at = "supervise" /\ Marked
  /\ \/ \E stop \in BOOLEAN :
          LET c == IF stop THEN FenceWithParent(owner) ELSE owner
          IN  Exec(IF Live(c) THEN "quiesce" ELSE "cleanup", c)
     \/ Fault("error") /\ Exec("cleanup", FenceWithParent(owner))
     \/ /\ Fault("panic")
        /\ exec' = [exec EXCEPT !.at = "cleanup", !.panicked = TRUE]
        /\ owner' = FenceWithParent(owner) /\ UNCHANGED <<upstream, job, runtime, late>>

\* claim_native_hook for a drain callback.
DrainHookFree == owner.life = "Quiescing" /\ ~owner.note

Quiesce ==
  /\ exec.at = "quiesce"
  /\ LET begin == exec.seen = "Quiescing" /\ ~exec.quiescing
         Goes(at) == exec' = [exec EXCEPT !.at = at, !.seen = "Starting",
                                          !.quiescing = @ \/ at = "quiescing"]
     IN  \/ ~begin /\ Goes("claim") /\ Unmarked
         \/ begin /\ ~DrainHookFree /\ Goes("asleep") /\ Unmarked
         \/ begin /\ DrainHookFree /\ Goes("quiescing") /\ Marked
  /\ UNCHANGED <<owner, upstream, job, runtime, late>>

\* A hook ends badly: the failure stops the actor, a panic skips on_stop.
HookFails ==
  \E f \in Faults :
    /\ exec' = [exec EXCEPT !.at = "cleanup", !.panicked = (f = "panic")]
    /\ owner' = Report(owner, None, "StopActor")
    /\ UNCHANGED <<upstream, job, runtime, late>>

OnQuiesce ==
  /\ exec.at = "quiescing" /\ Marked
  /\ \/ \E policy \in DrainPolicies :
          Exec(IF policy = "Producer" THEN "cleanup" ELSE "claim", owner)
     \/ HookFails

\* world.claim: requests that were decided meanwhile are skipped, and those
\* that are overdue are expired.
Claim ==
  /\ exec.at = "claim"
  /\ IF exec.consumed < EventsPerTurn /\ Live(owner) /\ owner.queue # <<>>
     THEN /\ LET o == Head(owner.queue)
                claimed == [owner EXCEPT !.queue = Tail(@)]
            IN  IF owner.op[o] = "pending"
                THEN owner' = claimed /\ exec' = [exec EXCEPT !.at = "event", !.current = o]
                ELSE owner' = Decide(claimed, o) /\ exec' = exec
          /\ Marked /\ UNCHANGED <<upstream, job, runtime, late>>
     ELSE Exec("settle", owner) /\ Unmarked

EventEnds(c, panic, j) ==
  /\ owner' = c /\ job' = j /\ Marked
  /\ exec' = [exec EXCEPT !.at = IF panic THEN "cleanup" ELSE "claim", !.panicked = panic,
                          !.current = None, !.consumed = @ + 1]
  /\ UNCHANGED <<upstream, runtime, late>>

\* Wrong: a panic in a handler follows the component's failure action.
HandlerFailsByPolicy(panic) ==
  \E action \in FailureActions :
    EventEnds(Report(owner, exec.current, action), panic, job)

\* Execution::failure in a handler: a panic always stops the actor.
HandlerFails(panic) ==
  \E action \in IF panic THEN {"StopActor"} ELSE FailureActions :
    EventEnds(Report(owner, exec.current, action), panic, job)

Reply ==
  /\ exec.at = "event"
  /\ \/ EventEnds(Decide(owner, exec.current), FALSE, job)
     \/ EventEnds(owner, FALSE, job)          \* neither answered nor deferred
     \/ \E f \in Faults : HandlerFails(f = "panic")

\* The reservations of a deferral: new_work, the input (which takes on the
\* deadline of the request, and is refused past it), the component's permit, the
\* runtime's (refused once close has closed the semaphore), the CPU queue's.
NewWork == owner.life = "Active"
SlotFree == runtime = "open" /\ ActiveTasks < Slots
CpuFree == Permits(Reserved, {"cpu"}) < CpuJobs
Timely == owner.op[exec.current] # "overdue"
Admissible == NewWork /\ Timely /\ Permits(Local, AnyKind) < MaxJobs /\ SlotFree

\* What is not admitted is an error of the handler.  A computation waits for a
\* worker; any other work runs once it is spawned.
Admit(kind, admissible) ==
  IF admissible
  THEN EventEnds(owner, FALSE,
                 [job EXCEPT ![exec.current] =
                    [kind |-> kind, at |-> IF kind = "cpu" THEN "waiting" ELSE "running"]])
  ELSE HandlerFails(FALSE)

\* A request decided meanwhile is dropped quietly, its factory not invoked; one
\* that is only overdue is not.
Retired == owner.op[exec.current] = "decided"

DeferReply ==
  /\ exec.at = "event"
  /\ IF Retired THEN EventEnds(owner, FALSE, job) ELSE Admit("async", Admissible)

DeferCpuReply ==
  /\ exec.at = "event"
  /\ IF Retired THEN EventEnds(owner, FALSE, job) ELSE Admit("cpu", Admissible /\ CpuFree)

After ==
  /\ exec.at = "event"
  /\ Admit("timer", Admissible)

\* The three reads before the drain callback: upstream, permits, claim.
AfterEvents ==
  /\ exec.at = "settle" /\ Unmarked
  /\ Exec(CASE ~Live(owner) -> "cleanup"
            [] Live(owner) /\ exec.quiescing /\ UpstreamDone
                 /\ Permits(Local, AnyKind) = 0 ->
                 IF DrainHookFree THEN "draining" ELSE "asleep"
            [] OTHER -> "timer", owner)

OnDrain ==
  /\ exec.at = "draining" /\ Marked
  /\ Exec("cleanup", owner) \/ HookFails

\* Where a turn ends: at once in the next one, or asleep.
Rest(sleep) ==
  exec' = [exec EXCEPT !.at = IF exec.consumed = EventsPerTurn THEN "top" ELSE sleep,
                       !.consumed = 0]

\* A due tick runs if the hook is free; a blocked one waits for activity.
Timer ==
  /\ exec.at = "timer"
  /\ \/ Rest(IF exec.quiescing THEN "asleep" ELSE "ticking") /\ Unmarked    \* not due
     \/ /\ ~exec.quiescing /\ owner.life = "Active" /\ ~owner.note
        /\ exec' = [exec EXCEPT !.at = "tick"] /\ Marked
     \/ /\ ~exec.quiescing /\ (owner.life # "Active" \/ owner.note)
        /\ Rest("asleep") /\ Unmarked
  /\ UNCHANGED <<owner, upstream, job, runtime, late>>

OnTick ==
  /\ exec.at = "tick" /\ Marked /\ UNCHANGED <<upstream, job, runtime, late>>
  /\ \/ Rest("ticking") /\ UNCHANGED owner
     \/ /\ Fault("error") /\ Rest("ticking")
        /\ \E action \in FailureActions : owner' = Report(owner, None, action)
     \/ /\ Fault("panic")
        /\ exec' = [exec EXCEPT !.at = "cleanup", !.panicked = TRUE]
        /\ owner' = Report(owner, None, "StopActor")

\* poll_activity is ready.
Wake ==
  /\ exec.at \in {"asleep", "ticking"} /\ changed /\ Unmarked
  /\ Exec("top", owner)

\* The next tick is due.  A component without a period never takes this step.
TickDue ==
  /\ exec.at = "ticking" /\ Unmarked
  /\ Exec("top", owner)

\* cleanup and dispose: on_stop, then the destructor, under the task lease.
Cleanup ==
  /\ exec.at = "cleanup" /\ Marked
  /\ \/ Exec("release", owner)
     \/ Faults # {} /\ Exec("release", Report(owner, None, "StopActor"))

\* TaskRegistration::drop.
ReleaseLease ==
  /\ exec.at = "release" /\ Marked
  /\ exec' = [exec EXCEPT !.at = "untracked", !.seen = "Starting", !.quiescing = FALSE,
                          !.panicked = FALSE, !.consumed = 0]
  /\ owner' = Settle(owner, Leases(exec', job))
  /\ UNCHANGED <<upstream, job, runtime, late>>

\* The runtime permit goes last; the World does not see it.
ReleasePermit ==
  /\ exec.at = "untracked" /\ Unmarked
  /\ Exec("done", owner)

ExecutorStep ==
  \/ PrepareFails \/ PrepareSucceeds \/ Snapshot \/ Inspect \/ ClaimFailure
  \/ Supervise \/ Quiesce \/ OnQuiesce \/ Claim \/ Reply
  \/ DeferReply \/ DeferCpuReply \/ After
  \/ AfterEvents \/ OnDrain \/ Timer \/ OnTick \/ Wake
  \/ Cleanup \/ ReleaseLease \/ ReleasePermit

-----------------------------------------------------------------------------
(* Deferred jobs and timers.                                               *)

JobMoves(o, at) ==
  /\ job' = [job EXCEPT ![o] = [kind |-> IF at = "none" THEN None ELSE @.kind, at |-> at]]
  /\ UNCHANGED <<upstream, exec, runtime, late>>

\* CpuJob::run has got a worker; from here on the blocking pool owns the job.
CpuStarts(o) ==
  /\ job[o].at = "waiting"
  /\ Permits({"running", "returned", "ended"}, {"cpu"}) < Workers
  /\ JobMoves(o, "running") /\ UNCHANGED <<owner, changed>>

\* JobContext::is_cancelled: past the deadline, whether or not the World has
\* expired the request; the owner fenced; or the request decided.
IsCancelled(o) == ~Live(owner) \/ owner.op[o] # "pending"

\* Seen while waiting, between polls, or after the computation, the job ends
\* without a word; a timer ends when its owner is no longer Active.
JobCancelled(o) ==
  /\ job[o].at \in {"waiting", "running"}
  /\ IF job[o].kind = "timer" THEN owner.life # "Active" ELSE IsCancelled(o)
  /\ JobMoves(o, "ended") /\ UNCHANGED <<owner, changed>>

\* Wrong: the failure of a job is reported without its operation.
JobFailsNamelessly(o, f) ==
  \E action \in IF f = "panic" THEN {"StopActor"} ELSE FailureActions :
    owner' = Report(owner, None, action)

\* run_job and run_cpu_job: the failure names the request it fails.
JobFails(o, f) ==
  \E action \in IF f = "panic" THEN {"StopActor"} ELSE FailureActions :
    owner' = Report(owner, o, action)

JobResult(o) ==
  \/ owner' = Decide(owner, o)
  \/ \E f \in Faults : JobFails(o, f)

RunJob(o) ==
  /\ job[o].at = "running" /\ job[o].kind = "async"
  /\ JobResult(o) /\ Marked /\ JobMoves(o, "ended")

\* The computation has returned: cancelled meanwhile, only a panic counts.
RunCpuJob(o) ==
  /\ job[o].at = "running" /\ job[o].kind = "cpu"
  /\ \/ ~IsCancelled(o) /\ JobMoves(o, "returned") /\ UNCHANGED <<owner, changed>>
     \/ Fault("panic") /\ JobFails(o, "panic") /\ Marked /\ JobMoves(o, "ended")

\* Its result is given, whatever has happened since the test.
CpuResult(o) ==
  /\ job[o].at = "returned" /\ JobResult(o) /\ Marked /\ JobMoves(o, "ended")

\* A timer sends its payload; the send is the target's business.
TimerFires(o) ==
  /\ job[o].at = "running" /\ job[o].kind = "timer" /\ owner.life = "Active"
  /\ JobMoves(o, "ended") /\ UNCHANGED <<owner, changed>>

\* What a task gives back after its work, in the order of its fields.
NextHold(o) ==
  CASE job[o].at = "ended" -> IF job[o].kind = "cpu" THEN "freed" ELSE "untracked"
    [] job[o].at = "freed" -> "untracked"
    [] job[o].at = "untracked" -> "none"

JobReleases(o) ==
  /\ job[o].at \in {"ended", "freed", "untracked"}
  /\ JobMoves(o, NextHold(o))
  /\ IF NextHold(o) = "untracked"
     THEN owner' = Settle(owner, Leases(exec, job')) /\ Marked
     ELSE UNCHANGED <<owner, changed>>

JobStep(o) ==
  \/ CpuStarts(o) \/ JobCancelled(o)
  \/ RunJob(o) \/ RunCpuJob(o) \/ CpuResult(o) \/ TimerFires(o) \/ JobReleases(o)

-----------------------------------------------------------------------------
(* NativeRuntime::close.                                                   *)

\* World::close and the closing of the slots: every root is fenced.
CloseBegins ==
  /\ Prepared /\ runtime = "open" /\ runtime' = "closing"
  /\ owner' = Settle(FenceWithParent(owner), Leases(exec, job))
  /\ Marked /\ UNCHANGED <<upstream, exec, job, late>>

\* The wait ends when no runtime permit is in use, or at the deadline.
CloseEnds ==
  /\ runtime = "closing" /\ runtime' = "closed"
  /\ late' = (ActiveTasks > 0)
  /\ UNCHANGED <<owner, upstream, changed, exec, job>>

\* After a timeout the tasks left are aborted at their next await: a future is
\* dropped with what it holds.  A computation on a worker is not.
Abort ==
  /\ runtime = "closed" /\ late /\ UNCHANGED <<owner, upstream, changed, runtime, late>>
  /\ \/ /\ exec.at \in {"top", "asleep", "ticking"}
        /\ exec' = [exec EXCEPT !.at = "release"] /\ UNCHANGED job
     \/ \E o \in Op :
          /\ job[o].at = "waiting" \/ (job[o].at = "running" /\ job[o].kind # "cpu")
          /\ job' = [job EXCEPT ![o].at = "ended"] /\ UNCHANGED exec

-----------------------------------------------------------------------------
Next ==
  \/ ExecutorStep \/ TickDue
  \/ \E o \in Op : JobStep(o) \/ Request(o) \/ OpOverdue(o) \/ OpExpires(o) \/ OpCancelled(o)
  \/ Activate \/ ChildFails \/ ParentClaims \/ ParentStops \/ UpstreamEnds
  \/ RequestDrain \/ DrainCompletes \/ DrainExpires \/ Stop
  \/ CloseBegins \/ CloseEnds \/ Abort

\* The Tokio workers run every task that can move, callbacks and jobs return,
\* producers finish and supervisors take their notices.  No deadline, stop or
\* close is ever relied on.
Fairness ==
  /\ WF_vars(ExecutorStep)
  /\ \A o \in Op : WF_vars(JobStep(o))
  /\ WF_vars(UpstreamEnds) /\ WF_vars(ParentClaims)

Spec == Init /\ [][Next]_vars /\ Fairness

-----------------------------------------------------------------------------
(* Properties.                                                             *)

\* An actor that accepts requests has a task to serve them: however the
\* executor leaves its loop (error, panic, stop, drain), the actor has left
\* Starting and Active before the component is cleaned up.
NoZombie ==
  exec.at \in {"cleanup", "release", "untracked", "done"} =>
    owner.life \notin {"Starting", "Active"}

\* A close that reports no timeout leaves nothing behind: permits are given
\* back after leases, so no permit in use means that the actor was finalised.
CleanClose ==
  runtime = "closed" /\ ~late => owner.life = "Stopped" /\ Leases(exec, job) = 0

\* A component that drains or stops ends without its deadline: no permit is
\* returned after the last event the executor would be woken by.
ExecutorEnds ==
  /\ (owner.life = "Quiescing") ~> (exec.at = "done")
  /\ (owner.life = "Stopping") ~> (owner.life = "Stopped")

\* When the work of a deferred job is over, nobody is left waiting for it: its
\* request is decided (by the job, or by what cancelled it), or its deadline has
\* passed and the next maintenance decides it.  However the job ended (reply,
\* error, panic, cancellation, abort), a request that has time left is never
\* forgotten.
DeferredDecided ==
  \A o \in Op :
    job[o].at \in Held \ Busy /\ job[o].kind # "timer" =>
      owner.op[o] \in {"decided", "overdue"}
=============================================================================
