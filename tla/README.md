# A TLA+ model of actorplane

actorplane is an event runtime: actors own a tree of native and Python
components, exchange messages through bounded mailboxes, publish events along
routes, and call each other with requests that have deadlines. This directory
holds a model of its core, the TLC configurations that check it, and proofs that
TLAPS checks. `PROJECT.json` maps every definition to the lines it models.

## Contents

1. Inventory of the system
2. Modules, and how they correspond to the code
3. Runs: what is checked, with which bounds
4. Fairness
5. Proofs
6. Abstraction
7. Findings and observations
8. Not modelled
9. Plan

## 1. Inventory

Everything a `World` (`crates/runtime-core`) knows is behind one mutex, so a call
on a `World` is atomic. What interleaves is: calls made on different handles by
native tasks, CPU workers, TCP connections and the Python pump; leases that are
taken in one call and released in a much later one (or by `Drop`); wakers that
fire after the lock is released; and the periodic `maintain` of the control
service.

| Component | State | Operations | Hard part | Correct when |
|---|---|---|---|---|
| actor lifecycle (`lib.rs`, `callbacks.rs`) | slots with generations, lifecycle state, owner, leases, drain fields | allocate, activate, admit, claim, complete, track_task, stop, close, request_drain, drain_all, maintain | deferred finalisation from eight release paths; overlapping drains; slot reuse under late releases | a fence covers its scope, a lease pins its slot, finalisation is not lost, shutdown completes |
| supervision (`supervision.rs`) | one notification per child, a count per supervisor | report_failure, claim_failure, FailureLease::finish/Drop | a failure reported around the stop of its supervisor; actions applied late | a notification can be received or is discarded; the count is exact |
| operations (`operations.rs`) | table of slots with generations, owner, target and deadline indexes, counters | reserve, complete, take, expire, retire_owner, release_unsubmitted | reply, cancel, failure, expiry and two fences race to decide; identities are reused | one outcome per identity, indexes exact, every request decided |
| publications (`publications.rs`) | tickets, per-source FIFO, ready deque, snapshot quota | reserve, submit, route_batch, expire, cancel, fence | bounded batches interleaved with stops and unsubscribes; cutoffs | a subscriber gets each routed publication once and in order; quota returns |
| routes (`routing.rs`) | routes with four indexes | insert, remove, actor_route_ids | four indexes maintained by hand | indexes agree with routes |
| components (`components.rs`) | descriptors, links, staged output | register_component, link, send_port, flush | output staged before activation | staged output is delivered once or discarded with the actor |
| services (`services.rs`) | records, leases, two reverse indexes | register, acquire, release, detach, request, link | the lock is dropped between validation and use; the end of a service fences scopes in other trees | the tables agree; no work outlives its lease |
| readiness (`readiness.rs`) | index of Python actors with work, condition variable | refresh, claim_next, wait | an update between the check and the wait | no lost wakeup |
| activity (`activity.rs`, `activity_dependencies.rs`) | version counters, dirty set, wakers | observe, changed, wait | registration races a change | an observer sees every change of its version |
| expiry (`expiry.rs`, `envelope_runtime.rs`) | deadline indexes per actor and world | insert, remove, due | indexes of mailboxes that change under claims and fences | an overdue delivery is never leased |
| budgets (`buffers.rs`, ticket budget) | counters | reserve, release | release by Drop in any order | the sum never exceeds the limit and returns to zero |
| diagnostics (`diagnostics.rs`, `failures.rs`) | bounded ring | record, read | the ring overtakes a reader | a reader is told what it missed |
| clock, envelopes, schemas | one instant; message metadata; codec | | | data without interleavings |
| native runtime (`runtime-native/src/lib.rs`) | control and routing tasks, pipeline | start, close with deadline | close races the loops | close returns by its deadline and leaves nothing running |
| tasks, CPU pool (`tasks.rs`, `cpu.rs`, `computation.rs`) | permits, queue, job state | spawn, submit, cancel | cancellation races completion; permits on panic | permits return; a job has one result |
| component executor (`sdk.rs`, `controls.rs`) | run loop, timers, requests | hooks | hooks interleave with stop | cleanup runs once |
| framing and TCP (`io/`) | connection state, buffers | accept, read, write, close | half-closed peers, backpressure | one terminal event per connection |
| Python bridge and driver (`runtime-python`, `python/actorplane`) | claim tokens; registrations, pump | pump, start, cleanup, stop, close | callbacks that call back in; cleanup after failure | every registration is finished once |
| test harnesses, fuzz, examples, scripts | | | | not modelled |

## 2. Modules

`Lifecycle` - the ownership tree (`lib.rs`, `supervision.rs`, `callbacks.rs`,
`shutdown.rs`). A slot carries the fields of `Actor`; `gen` is the generation in
its reference. Every public call is one action and contains what the code does
after it under the same lock: `TryFinalize` is the loop of `try_finalize` up the
parents, `FenceLocked` is `fence_locked`, `MaintainLocked` is `maintain_locked`.
`Finalised` computes in one step the set of actors the loop retires; because a
retirement depends only on the actor and its retired children, the order of the
loop does not matter. `deliveryLeases`, `taskLeases` and `controlLeases` are the
handles outside the World: `DeliveryLease`, `TaskRegistration`, and `FailureLease`
with `NativeCallbackLease`. Their releases are actions of their own, which is
where the interleavings come from.

`OperationTable` - the table of `operations.rs` as a record and the functions on
it. `Operations` - the calls of `lib.rs` that use it: requests, replies,
cancellation, taking, claiming and releasing request deliveries, failures, fences,
retirement, maintenance. Stops and drains hit arbitrary sets of actors here, which
is more than the tree allows; what is proved of them in `Lifecycle` is not needed.
`OneShot` - the promise to a holder of an operation, without a table: issued once,
decided once, never back. `Operations!KeepsPromise` says the table implements it,
with `StatusOf` and `HolderOf` as the refinement mapping.

`RouteTable` - the routes of `routing.rs` with their four indexes, as a record.
`PublicationTable` - the table of `publications.rs`: pending publications, the queue
of identities of every source, the deque of ready sources, the deadline set, the
snapshot charge, and the tickets with their budget. A ticket is charged until the
publication has ended and the handles of its callers are dropped (`held`); `Finish`
and `DropHandle` release it in either order.
`Publications` - the calls that use both: `subscribe`, `link` and `unsubscribe`,
`activate` with the flush of staged output, `publish_internal`, `route_batch`,
`claim`, `stop`, `request_drain` and `maintain`, with the mailboxes and the deadline
indexes of `expiry.rs`. A call is one action; `Box` is what its steps hand on to
each other. `RouteBatch` is one turn: `Refusal` its early outcomes, `Captured` the
snapshot, `Attempt` one destination, `Deliver` the batch with the clock read twice
for every destination.

`RoutingSignal` - how the routing service sleeps (`publications.rs`,
`routing_service` of the native runtime). Here a call on the World is two steps: what
it does under the lock, with `dirty`, and `Touch`, where `touch_activity` takes the
waker after the lock is released; `owing` holds the callers in between. The queues of
`Publications` are reduced to counters, `PollRoutingReady` is one critical section.
`Activity` - the same for the executors of actors (`activity.rs`, and the loop
`run_component` of `sdk.rs`). A version per registry slot, advanced by `Mark` under
the lock; `NotifyMarked` collects the wakers of all marked slots for one caller, who
fires them one at a time (`hand`, `Fire`). An executor reads the version, inspects
its actor, and sleeps, in three steps; `Register` gives the entry of an earlier
generation to a new actor and hands the old observer to the caller to wake.

`Executor` - one native component (`sdk.rs`) with its jobs and timers (`tasks.rs`,
`cpu.rs`) and the close of the runtime (`lib.rs`). `exec.at` is the point in
`run_component` at which the executor may be interrupted: between two of its calls on
the World, in a callback, or asleep. A callback ends by returning, by an error or by a
panic; which `failure_action` applies and what the drain policy says is left open each
time they are consulted. A request whose deadline has passed is `overdue` until a call on
the World notices and expires it; a job looks at the clock itself (`IsCancelled`) and may
end before that. `job[o]` is how far a deferred reply or a timer is, and what it still
holds: the component permit and the CPU permits, then the task lease, then the runtime
permit (`Local`, `Reserved`, `Leased`, `Held`), given back in that order. A computation
waits for a worker, runs, is tested for cancellation when it has returned, and gives its
result in a later step. `changed` is what `Activity` shows `poll_activity` to report. The
actor is `Lifecycle` and `Operations` seen from outside.
`Connections` - the TCP listener and its connections (`io/transport.rs`,
`io/framing.rs`, `buffers.rs`). A connection is a child actor with a task of its own;
`conn[s].at` is its point in the read, request, write loop. `BufferBudget::reserve` is two
steps, the listener's charge (`ReadHeader`, `ReserveScratch`) and the World's
(`WorldGrants`, `WorldRefuses`), and so is every drop (`DropPermit`, `DropNativePermit`);
a refused buffer is a permit without a native one, dropped like any other. In between, the
other connections see a charge that is about to go.
`Services` - the registry (`services.rs`): four tables, and a fence that follows the
leases of a service into other trees. `service_request` and `service_link` are two
steps, `call` is the lease that was validated in the first.
`Driver` - the foreground driver of Python actors (`authoring.py`) on the readiness
index (`readiness.rs`). Each hint, claim, callback end and completion is a step; in
between other threads send, publications are routed, drains end and `request_stop`
goes its two steps (its flags, then the World). `call` is the hook that runs (a start runs
three: `__init__`, `configure`, `on_start`), and user code may spawn, stop and raise in it. `pump.mode` separates an ordinary turn from the
turns of `close`.

`MCLifecycle`, `MCOperations`, `MCPublications` - symmetry sets and
inputs for TLC. `LifecycleProofs`, `OperationsProofs`, `PublicationsProofs`,
`RoutingSignalProofs`, `ActivityProofs`, `ServicesProofs`, `ExecutorProofs`,
`ConnectionsProofs` - section 5.

An operator whose comment begins with *Wrong* is not part of the model: it is the
form a plausible slip in the code would take, kept to show which property notices.
`\E x \in {e} : ...` binds an intermediate value once per step.

## 3. Runs

| Run | Instance | Shows |
|---|---|---|
| `lifecycle_reuse` | 2 slots, 2 generations, native and Python, one mailbox entry, one task, no clock | leases pin their slot and exclude each other (`LeasesPinSlot`), notifications are receivable and counted (`NotificationReceivable`), finalisation is not lost (`NoLostFinalisation`), nothing is revived (`NeverRevived`) |
| `lifecycle_winddown` | 2 slots, an owner with a child or two roots, one pending piece of work each, 2 instants, fairness | the fence is closed downwards, the drain index is exact, no request puts a drain off and no timeout is forgotten (`DrainNeverExtended`), every draining or stopping actor is retired |
| `operations_oneshot` | 2 slots, 2 generations, 2 actors, mailbox of 2, 2 instants, 2 requests | indexes, counters and metrics agree with the entries; nothing pends behind a fence and a retired actor owns nothing (`PendingIsServed`); a request is delivered at most once (`DeliveredOnce`); a late reply loses (`LateReplyLoses`); the table implements `OneShot` (`KeepsPromise`) |
| `publications_order` | one source that is still starting, 2 destinations, one a turn; 2 identities and the limit, 2 routes of one port, 2 instants | the route indexes (`RouteIndexExact`); the publication table with its budget, snapshots, deadlines and staging (`TableIndexExact`); a stopped actor has no routes; order per source and at most once per route (`SourceFifo`); the drain cutoff (`DrainCutoff`); exact reports (`ReportExact`) |
| `publications_ends` | the same source with one route, fairness | every accepted publication of a source that runs ends (`EveryPublicationEnds`) |
| `routing_wake` | 2 sources, 2 callers, 2 publications each, fairness | the routing service is not left asleep on work or on a close (`NoLostWakeup`, `CloseEndsRouter`), and gets its turn (`ReadyGetsTurn`) |
| `activity_wake` | 1 slot, 2 generations, 2 callers, versions up to 3, fairness | no executor sleeps on an outdated view, also across a replacement; an unchanged version means unchanged work, also at the limit; the executor of a stopped or replaced actor ends (`StoppedExecutorEnds`) |
| `executor_native` | 2 requests, one job permit, one CPU job and worker, 2 runtime slots, both drain policies, both failure actions, errors and panics, fairness | no accepting actor is without an executor (`NoZombie`); when its job is over a deferred request is decided or past its deadline (`DeferredDecided`); a component that drains or stops ends without its deadline (`ExecutorEnds`); a close without timeout leaves nothing (`CleanClose`) |
| `connections_tcp` | 3 slots, 2 generations, 2 connections, 3 frames to read, 1 to write, 3 in the World, fairness | the table of connections names who holds the slot (`TableExact`); each budget holds what the connections hold of it, between the two halves of a reservation or a drop too (`BudgetExact`); a drained or stopped listener ends (`ListenerEnds`) |
| `services_leases` | 4 slots, 2 generations, 5 allocations, one name, 2 leases, 1 per holder | the four tables agree and name what is there (`RegistryExact`); no request or link outlives its lease (`WorkIsLeased`) |
| `driver_pump` | 2 Python actors, roots or parent and child, mailbox of 1, all failure policies | the readiness index is exact (`ReadyExact`); `on_stop` runs once, fenced, children first (`ChildrenFirst`); a closed World has finished every actor (`CloseFinishesAll`) |
| `driver_unstarted` | the same, `StopActor` only | violation of `StartedFirst`, see section 7 |

Why these bounds: two slots and two generations give a lease that outlives its
actor a replacement to hit; a parent and a child are the smallest tree in which a
drain absorbs another, a retirement climbs and a notification crosses; two instants
separate before and after a deadline, and are enough for one drain to have an earlier
deadline than another. What deeper trees add to the fence and to the lineage, the
proofs cover. Two slots of the operation table with a last generation of two give a
delivery a later operation to be mistaken for and show a slot going out of service.

For publications, two destinations with one a turn make a publication that is partly
routed when something else happens, and `LastId = 3` allows one publication before a drain
or an expiry, one after, and the refusal of a third: `LastId` stands for `u64::MAX` of `next_id`, where
the code refuses. `LastRoute` caps the routes ever made. The runs have one output port and no plain
subscription (`NoPort` in `Port`): with one, `publications_order` takes twice as long. The theorems about
routes and publications cover plain subscriptions, since they hold for every `Port`. The source starts, so that its
first output is staged.

For the executor, two requests are one that runs as a job and one that meets it: in the
mailbox, at the limit of jobs, or at the limit of runtime slots, of which the executor
itself takes one. For connections, three slots for two connections let a slot be used
again while its table entry may still be there; three frames are room for one request
being built and not for a second frame beside it, and the World, which gets its charges later
and keeps them longer, refuses what the listener has granted. For services, a registered service, its holder, a scope
and one more actor fill four slots, and the fifth allocation uses one of them again. Two
Python actors are a parent and a child or two roots; a third makes the run too long.

For the wakeups, two callers are one that marks and one that takes the wakers for
it, or clears the flag the other relies on. One registry slot with two generations has
two executors that can be mistaken for each other; what several slots add, marks of
one caller collected by another for a different actor, the proofs cover. Three
versions are a change seen, a change missed and the limit: `MaxVersion` stands for
`u64::MAX`.

`MaxGeneration`, `MaxPending`, `MaxTasks`, `MaxTime`, `MaxIssued` (requests accepted),
`Allocations`, `LastOrder` and the `LastGen` of `Connections` and `Services` cap what
the code leaves unbounded. `LastGen` in `OperationTable` is different: it stands for
`u64::MAX`, at which the code really takes a slot out of service.

A deadlock is tolerated only where a system that has been closed or has used up its
bounds really is at rest (`Executor`, `Connections`, `Services`, `Driver`).

## 4. Fairness

`FairSpec` of `Lifecycle` assumes: the clock runs; the control task of the native
runtime calls `maintain` every millisecond; a lease that was taken is released,
since its `Drop` does it when the executor ends; the Python pump finishes the
registration of a stopping actor; startup activates what it created; and a
supervisor that is again and again free takes a notification (strong fairness:
both the pump and the native executor look for a failure before any other work).
`Operations` has no fairness: that every request is decided needs only that a pending
one is in the deadline index (`IndexExact`), that the clock runs and that `maintain` is
called.
`FairSpec` of `Publications` assumes that the routing service takes a turn while a
source is ready, that `maintain` is called while something is overdue, that the clock
runs and that a drain ends in a stop (its deadline, `WindsDown`). Nobody is assumed
to claim a delivery, to drop a ticket or to activate a starting source. The turn of
the routing service is what `RoutingSignal` establishes (`ReadyGetsTurn`).
`Spec` of `RoutingSignal` and of `Activity` assumes that a thread inside a call runs
on to its end and fires what it has taken, and that tokio polls a task whose waker
has fired. Nobody has to publish, change or close anything, and a sleeping task is
never assumed to be polled without a wake or to have a timer.
`Spec` of `Executor` assumes that Tokio runs every task that can move, that callbacks and
jobs return, that producers upstream end and that supervisors take their notices. No
deadline, stop or close is relied on: the
point of `ExecutorEnds` is that none is needed. `Spec` of `Connections` assumes that
Tokio polls what is woken and that a request is decided (its deadline); each wait of a
connection has a timeout in the code, so a peer need not send anything. `Services` and
`Driver` are checked for safety only: user code need not return.

## 5. Proofs

`LifecycleProofs` proves, for every set of slots and all bounds, everything the runs check
of `Lifecycle` but `WindsDown`:

* `TypeCorrect`, `LineageAlwaysLive`, `FenceAlwaysClosed`: the types; the ancestors of a
  live actor are live and of the generations it was created under; below a stopping
  actor all is stopping, below a draining one nothing is starting or active;
* `NoRevival`: `Spec => NeverRevived`;
* `LeasesAlwaysPin`: `Spec => []LeasesPinSlot`;
* `FinalisationNeverLost`: `Spec => []NoLostFinalisation`;
* `DrainIndexAlwaysExact`: `Spec => []DrainIndexExact`;
* `NotificationsReceivable`: `Spec => []NotificationReceivable`;
* `DrainsNeverExtended`: `Spec => DrainNeverExtended`.

The core is `CoreInv == TypeOK /\ LineageLive /\ FenceClosed`. `FenceClosed` alone is not
inductive: that a fence covers everything below an actor uses that `Subtree` is closed
downwards, which needs the transitivity of `ancestors` in `LineageLive`; and
`LineageLive` needs that retirement is downward closed (`FinalisedDownClosed`). The
argument is organised by the shape of a step rather than by action: `StepShape` shows
that every action is an `Allocate`, keeps the tree and the states but for one activation
(`Keeps`), or settles a fence, a drain and a finalisation (`Settles`); the lineage, fence
and order proofs have one case for each. `TypeStep` has one step per action.

On top of the core:

* *Leases.* A release whose reference is no longer current touches nobody, so the
  invariant is about the leases that are held: `LeasesPinSlot` is inductive with the core,
  because `Finalised` retires no actor that is not `Quiet` (`LeasesFrame`).
* *Finalisation.* `TreeInv` adds `Linked` and `Waiting`. `Waiting` says that a
  stopping actor has something left to wait for. `Finalised` retires the actors it is
  handed and what becomes quiet above them; that this is enough needs the lineage of a
  retired child to name the parent that is still there, and a live actor below another to
  be below one of its children (`Linked`). `Winds` and `Rests` are the steps that can and
  cannot make an actor quiet.
* *Drains.* `DrainInv`: every draining actor has its root in the index, every entry is its
  own root, and no entry is above another. Without the last part, a stop that takes out one
  entry could leave an actor below it pointing at nothing.
* *Deadlines.* That a drain is not put off across a step uses that the lineage of an
  actor is a chain (`Ordered`), so that of two drains over it one is over the other; the
  timed-out mark is followed from a root to the root that absorbs it.
* *Notifications.* `NotesWith` counts the children with something to report; each of
  the steps that fence, retire or create changes flags and counts together.

`OperationsProofs` proves, for every table size, every set of actors and all bounds,
everything the run checks of `Operations`: `IndexesExact`, `NothingPendingBehindFence`,
`DeliveredAtMostOnce`, `LateReplyRefused`, and `TableKeepsPromise`, the refinement of
`OneShot`. The first part of the module shows that each function of the table keeps its
five indexes and counters exact (`TableInv`), and that its effect is one of three shapes:
an operation is added (`Adds`), some are decided (`Decides`), some decided ones leave
(`Leaves`). The second part shows that a step of the World issues, burns an identity, or
settles (`TableStep`). In `OpInv` the indexes and `Served` need each other:
`retire_owner` takes out operations without counting an outcome, which is exact only if
none of them is pending any more; and the fence finds the operations of an actor
through the indexes. `AllKnown` - every identity in a mailbox or a lease has been issued -
is what makes a new identity different from those of old deliveries. The
refinement takes `StatusOf` and `HolderOf` as its mapping: a slot that is used again changes
its generation, so no step moves an identity backwards.

`PublicationsProofs` proves, for every set of actors, ports and links and all bounds,
every invariant the runs check of `Publications`:

* `RoutesIndexed`: `Spec => []RouteIndexExact` - the four route indexes agree with
  the routes;
* `StoppedLeaveNoRoutes`: `Spec => []StoppedHasNoRoutes` - no route has a stopped
  owner, source or target;
* `TableIndexed`: `Spec => []TableIndexExact` - queues, rotation, deadlines, snapshot
  charge, budget, mailbox deadlines and staging queues agree with the publications;
* `DeliveriesInOrder`: `Spec => []SourceFifo`;
* `DrainHoldsBack`: `Spec => []DrainCutoff`;
* `ReportsExact`: `Spec => []ReportExact`.

`RouteIndexExact` becomes inductive with the types of the table and the fact that no
route has an identity that was not issued (`RouteInv`): an insertion over a live
route would leave its old index entries behind. `StepShape` shows that a step makes
a route, cancels one, stops actors with the routes the indexes name for them, or
leaves the routes alone. Exact indexes are then what lets a stop find every route
(`FenceFindsRoutes`), and that `link` and `subscribe` refuse a stopped participant
keeps it that way.

The other four follow from one inductive invariant, `PubInv`, whose parts need each
other:

* `TableOk`: the queues, the rotation, the deadlines, the snapshot charge and the budget
  are those of the pending publications, which have kept their cursor within the snapshot.
  Between two steps of a call it holds with one source left out of the rotation:
  that is the state `route_batch` is in after taking its source off the deque, and
  `remove_indexes` before `ready_source`.
* `BoxOk` and `StagedLinked`: the counted deadlines of an actor are those of what it has
  queued and staged, the index has the earliest of each, and a staging queue holds the
  staged publications of its actor with their deadlines. This is why the overdue
  publications may go after the overdue mailbox entries (`OverdueIsDue`,
  `ExpireWorldKeeps`): nothing still staged is among them.
* `DeliveredBehind`: whatever a target has received from a source is no later than any
  publication of that source still pending, and of the one at the head only what its
  cursor has passed. `SourceFifo` alone says nothing of what is still to come. It
  needs the queues in the order of acceptance and a source with a turn to have its
  oldest publication at the front, which is `TableOk`.
* `CutoffsHold`: a publication accepted while a target drained has an identity above its
  cutoff for as long as the target drains, and the target never runs freely again.
* `Counted`: the report of every ticket that is pending or held counts what entered the
  mailboxes, in the middle of a snapshot too.

A call that neither delivers nor accepts is shown to be `Quiet`: it takes publications
out of the table or out of staging (`Shrinks`) and fixes cutoffs no later than the last
identity issued. A turn is followed destination by destination (`Going`), and its end is a
replacement of the entry or a `Finish` (`Turns`). Every loop of the code is a fold over
a sequence (`FoldLeft`). `RunOfFold` turns a fold into the run of its intermediate values,
which are then followed by an induction on the length of the sequence; the induction
hypothesis is a set of numbers (`InductionUpTo`), because the library's induction
theorems take an operator and cannot be instantiated. The folds of the model take one
named step each for this (`CancelOne`, `EnqueueOne`, `ExpireActor`, `FlushActor`,
`Attempt`), and `Without` and `InTime` are folds where the community modules have
recursive definitions.

`RoutingSignalProofs` proves, for every number of sources, callers and publications,

* `RouterNeverMissesWork`: `Spec => []NoLostWakeup` - the routing service does not
  sleep on something to route, or on a close, that nobody is about to announce;
* `RouterLeavesNoWaker`: `Spec => []TerminalPollKeepsNoWaker`.

`ActivityProofs` proves, for all slots, callers, generations and version limits,

* `ExecutorNeverMissesChange`: `Spec => []NoLostWakeup`;
* `VersionsNeverLie`: `Spec => []UnchangedMeansUnchanged`.

Neither form of `NoLostWakeup` is inductive. A sleeper must be known to have its
waker somewhere even when nothing has changed for it: in the signal, or (`ArmedInv`)
in its registry slot or in a caller's hand. A mark must be known to have a caller
behind it who will collect it (`DirtyIsOwed`). A waker left in a slot whose actor was
replaced, is stopping or has another version must be marked (`MarkedInv`), and with
the version observed the work must be the work seen (`SeenInv`); that needs versions
that only grow (`TurnInv`) and entries that belong to an actor there was (`EntryInv`).

`ServicesProofs` proves, for all slots, names and limits, `RegistryAlwaysExact`
(`Spec => []RegistryExact`) and `WorkAlwaysLeased` (`Spec => []WorkIsLeased`).
`RegistryInv` adds `Rooted` - services are roots, so that only a fence on the service
itself reaches it, and a scope lies below its holder, so that the fence on a holder
reaches the scope - and `CallCovered`: between the two halves of `service_request` and
`service_link` the lease is still there, or its scope is behind a fence. `Gone`
references never come back, so the second half is refused or its work ends with the
scope.

`ExecutorProofs` proves, for any requests and all limits and policies, `NeverAZombie`
(`Spec => []NoZombie`), `CloseIsClean` (`Spec => []CleanClose`) and
`DeferredAlwaysDecided` (`Spec => []DeferredDecided`). All calls on the actor only move it
on (`MovesOn`): no life, outcome or notice comes back. `Position` bounds the actor's life by
where the executor is. The request of a job that has nothing left to do is decided, by the
job or by the fence that cancelled it, or its deadline has passed and the World has yet to
notice (`JobSound`, `Answered`); that a fence decides everything is in `Sound`. For the close: permits go back after leases, and a stopping actor
is held by a lease or by its notice (`Pinned`), so a close that finds no permit in use
and has taken the notice away finds the actor finalised.

`ConnectionsProofs` proves, for all slots, generations and budgets, `TableAlwaysExact`
(`Spec => []TableExact`) and `BudgetsAlwaysExact` (`Spec => []BudgetExact`). `Listed` says at
which points of its life a connection is in the table. A budget is a sum over all
connections of what each holds at its point, and the listener's and the World's are different
sums; `CountMoves` shows what the move of one connection does to the number of those at given
points, and `BudgetMoves` that a step which charges each budget the difference keeps the sums.

The assumptions are the named `ASSUME`s on the constants: the sets of slots, actors,
operation slots and requests are finite, the bounds are natural numbers, a generation starts
at 1, `NoSub`, `NoActor`, `NoRef`, `NoOp` and `"none"` are no value of the set they stand
outside of, `NoPublication` is no publication, links and scopes are made of actors, and
publishers give deadlines of the clock or none. No theorem uses fairness.

Model-checked only:

* everything temporal but the action properties (`WindsDown`, `EveryPublicationEnds`,
  `CloseEndsRouter`, `ReadyGetsTurn`, `StoppedExecutorEnds`, `ExecutorEnds`,
  `ListenerEnds`): liveness under fairness is out of the prover's reach;
* `ReadyExact`, `ChildrenFirst` and `CloseFinishesAll` of `Driver`: the lineage of a
  registration is a recursive function along its parents. That it takes the values its
  equation says would have to be shown first, by a construction like the one behind
  `RunOfFold` over the order of allocation; this has not been done.

## 6. Abstraction

*Lifecycle.* `ancestors` is the walk along `parent`; `Children` is the children
list, which the code keeps equal to it. Publications and operations of an actor are
one counter, whose tables are other modules; what expiry removes from the counters
in a maintenance pass is any amount (`Remaining`). Which of several pending
notifications a supervisor claims first (the code: the oldest) is left open, and so
is the order of the free list, which lets slots be symmetric. The fence that the
loss of a service sends into other trees is part of the services component.
Metrics, diagnostics, error texts and the Python ready index have no influence on
these transitions.

*Operations.* A stop hits any set of actors in any order. A payload is nothing but
its acceptance; an over-budget result, a codec failure and an expired reply context
are the outcomes `Failed` and `TimedOut` that `CompleteOperation` may store.

*Publications.* Actors have the execution state that `execution_state_locked`
computes along the owners; what starts, drains and stops together is a set of
`Scope`. A mailbox holds the routed deliveries only and claims are not leased here
(both are in `Lifecycle`). When a drain ends is left open (`Ends`). Sizes in bytes,
schemas and target ports are left out: a refusal for one of them looks like a full
mailbox, or burns an identity (`PublishRefused`). `delivered` and `barred` are
history: what entered each mailbox, and who was draining when a publication was
accepted. The clock is read once in a call except in `route_batch`, where it may
pass the deadline between any two reads.

*Wakeups.* `RoutingSignal` counts publications; that `ready` agrees with the queues is
`TableIndexExact` of `Publications`. `Activity` leaves open which actors a change marks
(any set of live ones) and has every caller that marks also run `touch_activity`.
Actors may be retired under their observers: the SDK's executor holds a lease against
that, the public `poll_activity` does not ask for one. Waker identity (`will_wake`) is
the observer; a waker that panics is caught and counts as fired.

*Executor.* One component and one World. `AfterEvents` makes its three reads (upstream,
permits, the claim of the drain hook) in one step: each of them, once true while the
actor is draining, stays true until it stops, so reading them apart gives the same
outcomes. What the executor does in a callback is one of the calls of its context that
change state; the sizes of inputs and results are a refusal like any other. The deadline of a
request is not an instant but the step `OpOverdue`, possible at any time while it is pending;
nothing says when `maintain` comes after it. An asynchronous job that is polled to its result
gives it in the same step.

*Connections.* Buffers are counted in frames, all of one size; the length prefix is not
charged, and a buffer never has to grow. What else is charged to the World's payload budget is
left out: `WorldBudget` is what remains. The atomic steps of two budgets are separate, what a
compare-and-exchange loop retries is not. A timeout,
a broken frame and a peer that closed all end the loop (`ReadEnds`). The request is a
state of its own; `Operations` has the table behind it.

*Services.* Of the actors only generation, state, ancestors and a pinning task are kept.
A request and a link stand for whatever the scope owns.

*Driver.* An actor is its `ready_order`. Fenced and retired are one state. The end of a
handler that raised (report, finish, request_stop) is one step, and one `request_stop`
of another thread is under way at a time. Component children, whose construction happens
inside `_start`, are left out.

## 7. Findings and observations

*A handler before startup* (`driver_unstarted`). The design contract says "activate
business ingress only after required startup has succeeded" (`actorplane.md:495`) and "New
subscriptions must not expose a half-initialized Python handler to native traffic"
(`actorplane.md:499`). Draining an actor's scope while its `__init__` or `configure` runs sets
it from `Starting` to `Quiescing` (`mark_quiescing`). `_start_pending` then finds it no longer
starting and returns without `on_start` and without activating it. But `Quiescing` is a state
in which neither the admission of a publication accepted before the drain nor `claim` refuses
it: the publication enters its mailbox, and the next phase of the pump calls the handler of
an instance that is built and was never started. In the trace the child's own `__init__` stops
its parent with a drain; the parent is an active actor and the child an ordinary one, no
component child. If the drain comes before the child was built at all, the pump claims the
delivery and finds no instance: the handler lookup raises `AttributeError`, no handler runs,
and the delivery is lost as a handler failure (hook `missing`). That case is not what
`StartedFirst` is about and does not violate it.

Three more things the code does that its documents do not lead one to expect, without a run
of their own:

*A drain that cancels an admitted CPU request.* `docs/architecture/0011-bounded-cpu.md`
says "Drain allows admitted CPU requests to finish under the shared shutdown deadline."
When a component drains with one request running as a job and a second one in its mailbox, the
second is still delivered, its `defer_cpu_reply` is refused by `new_work` (the actor is no longer
active), the handler returns that error, and the default failure action stops the
actor: the fence cancels the first request, before the deadline. `Executor` has these
steps (`DeferCpuReply`, `HandlerFails`).

*Turns of sources.* `docs/architecture/0017-publication-tickets.md` promises
"round-robin turns between ready sources". `remove_indexes` takes the source of any
publication that ends out of the ready deque and lets it join again at the back, also
when the publication expired or was cancelled while the source waited. So such a source
is passed by one that has already had its turn. Order per source is not affected, and
`EveryPublicationEnds` holds.

*A deferral just past its deadline.* `hold_with` takes on the deadline of the request and
refuses an input whose deadline has passed. If it passes after the claim and before
`maintain` has expired the request, `defer_reply` and `defer_cpu_reply` do not see the request
as retired (it is still pending), so the refusal comes back as an error of the handler: with
the default failure action a request that was merely late stops the component. The same
request a maintenance pass later is dropped quietly. `Executor` has both (`Timely`, `Retired`).

## 8. Not modelled

The codec of `schema.rs` and the layout of a frame (byte strings without state); the
virtual clock (an instant behind a lock); diagnostics (a ring under one lock that nothing
else reads); which actors a change marks (`activity_dependencies.rs`, left open in
`Activity`); the condition variable of an idle pump (`readiness.rs`); the shutdown
counts; configuration, factories and the ready-made components of `controls.rs` and
`computation.rs`; component children of Python actors; PyO3 conversions and the declarative
wrappers of the Python package; test harnesses, fuzz targets, examples and scripts.

## 9. Plan

Done: the modules of section 2 and the proofs of section 5. What is left:

1. An abstract log per subscriber as a specification of `Publications`.
2. The lineage of `Driver` as state that is kept, as in `Lifecycle`, which would bring its
   properties within reach of a proof.
3. `activity_dependencies.rs`: which actors a change marks, against what the executors
   read.
