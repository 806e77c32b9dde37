---------------------------- MODULE Publications ----------------------------
(***************************************************************************)
(* Publishing in a World: the calls of runtime-core/src/lib.rs,            *)
(* publications.rs, components.rs and envelope_runtime.rs that accept,     *)
(* stage, route, expire and fence publications, with the mailboxes they    *)
(* fill and the index of the earliest deadline of every mailbox            *)
(* (expiry.rs).  Every call runs under the World mutex and is one action.  *)
(*                                                                         *)
(* The ownership tree is the Lifecycle module: here actorState is the      *)
(* execution state of an actor, and a stop, a drain or an activation       *)
(* reaches a scope.  The mailboxes hold routed deliveries only.            *)
(***************************************************************************)
EXTENDS PublicationTable

CONSTANTS
  Links,             \* the routes callers make
  Publishers,        \* the actors that publish
  Deadlines,         \* the deadlines publishers give
  Activated,         \* the actors that run at the beginning; the others start
  Scope,             \* the sets of actors that start, drain and stop together
  MaxSubscriptions,  \* max_subscriptions
  MailboxCapacity,   \* mailbox_capacity, also for staged output
  BatchSize,         \* routing_batch_size
  MaxFanout,         \* max_publication_fanout
  MaxSnapshot        \* max_routing_snapshot_entries

ASSUME InputsAssumption ==
  /\ Links \subseteq Sub /\ Deadlines \subseteq 1..NoDeadline
  /\ Publishers \subseteq Actor /\ Activated \subseteq Actor /\ Scope \subseteq SUBSET Actor
ASSUME PublicationBoundsAssumption ==
  /\ BatchSize \in Nat \ {0}
  /\ {MaxSubscriptions, MailboxCapacity, MaxFanout, MaxSnapshot} \subseteq Nat

VARIABLES
  pubs,         \* State.publications
  subs,         \* State.subs
  nextSub,      \* Inner.next_sub
  actorState,   \* the execution state of each actor
  cutoff,       \* Actor.publication_cutoff
  queue,        \* the routed deliveries of Actor.queue
  staged,       \* Actor.staged
  counts,       \* Actor.deadlines: how many entries have each deadline
  due,          \* State.event_deadlines
  stagedActors, \* State.staged_actors
  now,          \* the World clock
  delivered,    \* history: what entered each mailbox, in order
  barred        \* history: the actors draining when a publication was accepted

actorVars == <<actorState, cutoff>>
boxVars == <<queue, staged, counts, due, stagedActors>>
historyVars == <<delivered, barred>>
vars == <<pubs, subs, nextSub, actorVars, boxVars, now, historyVars>>

NoCutoff == -1
Publication ==
  [source : Actor, port : Port, deadline : 1..NoDeadline, staged : BOOLEAN,
   completion : BOOLEAN, routes : Seq(RouteId \X Actor), cursor : Nat,
   matched : Nat, admitted : Nat, rejected : Nat]

ASSUME NoPublicationAssumption == NoPublication \notin Publication

Delivery == [pub : PubId, source : Actor, route : RouteId, deadline : 1..NoDeadline]

Running(a) == actorState[a] \in {"Active", "Quiescing"}

-----------------------------------------------------------------------------
(* The mailboxes and the deadline indexes of expiry.rs.  Box is the part   *)
(* of the state that the steps of one call hand on to each other.          *)

Box == [queue |-> queue, staged |-> staged, counts |-> counts, due |-> due,
        stagedActors |-> stagedActors]

SetBox(b) ==
  /\ queue' = b.queue /\ staged' = b.staged /\ counts' = b.counts
  /\ due' = b.due /\ stagedActors' = b.stagedActors

NoCounts == [t \in Time |-> 0]

\* ActorDeadlines::add, remove and first
Bump(c, deadline, n) ==
  IF deadline = NoDeadline THEN c ELSE [c EXCEPT ![deadline] = @ + n]

First(c) ==
  LET used == {t \in Time : c[t] > 0}
  IN IF used = {} THEN NoDeadline ELSE CHOOSE t \in used : \A u \in used : t <= u

NoDue == [actors |-> [a \in Actor |-> NoDeadline], ordered |-> {}]

\* DeadlineIndex::remove and set
RemoveDue(d, a) ==
  [actors |-> [d.actors EXCEPT ![a] = NoDeadline],
   ordered |-> d.ordered \ {<<d.actors[a], a>>}]

SetDue(d, a, deadline) ==
  LET u == RemoveDue(d, a) IN
  IF deadline = NoDeadline THEN u
  ELSE [actors |-> [u.actors EXCEPT ![a] = deadline],
        ordered |-> u.ordered \cup {<<deadline, a>>}]

\* The last lines of every path that touches the deadlines of an actor.
Refresh(b, a, c) ==
  [b EXCEPT !.counts = [b.counts EXCEPT ![a] = c],
            !.due = SetDue(b.due, a, First(c))]

InTime(q) == FoldLeft(LAMBDA m, e : IF e.deadline > now THEN Append(m, e) ELSE m, <<>>, q)
Late(q) == FoldLeft(LAMBDA m, e : IF e.deadline > now THEN m ELSE Append(m, e), <<>>, q)

\* The deadlines of the entries of q are taken back.
Uncounted(c, q) == FoldLeft(LAMBDA m, e : Bump(m, e.deadline, -1), c, q)

PubsOf(q) == [i \in DOMAIN q |-> q[i].pub]

\* expire_events_locked for one actor: overdue deliveries and staged entries
\* go, and the publications of the latter expire.
ExpireActor(w, a) ==
  LET box == w.box
      gone == Late(box.staged[a])
      kept == InTime(box.staged[a])
  IN [pubs |-> Cancel(w.pubs, PubsOf(gone), "Expired"),
      box |-> Refresh([box EXCEPT
                !.queue = [box.queue EXCEPT ![a] = InTime(box.queue[a])],
                !.staged = [box.staged EXCEPT ![a] = kept],
                !.stagedActors = IF kept = <<>> THEN @ \ {a} ELSE @],
                a, Uncounted(Uncounted(box.counts[a], Late(box.queue[a])), gone))]

\* The same for the due actors in slot order.
ExpireEvents(w) ==
  FoldLeft(ExpireActor, w,
       Sorted({e[2] : e \in {d \in w.box.due.ordered : d[1] <= now}}, LAMBDA a, b : a < b))

World == [pubs |-> pubs, box |-> Box]

-----------------------------------------------------------------------------
(* Stopping, as far as publications are concerned.                         *)

\* Wrong: the routes a stopped actor owns between others stay.
FenceRoutesOfEnds(S) == UNION {subs.bySourceActor[a] \cup subs.byTarget[a] : a \in S}

FenceRoutes(S) == UNION {ActorRouteIds(subs, a) : a \in S}

\* What fence_locked does to the mailboxes of the actors of S.
FenceBox(b, S) ==
  [queue |-> [a \in Actor |-> IF a \in S THEN <<>> ELSE b.queue[a]],
   staged |-> [a \in Actor |-> IF a \in S THEN <<>> ELSE b.staged[a]],
   counts |-> [a \in Actor |-> IF a \in S THEN NoCounts ELSE b.counts[a]],
   due |-> [actors |-> [a \in Actor |-> IF a \in S THEN NoDeadline ELSE b.due.actors[a]],
            ordered |-> {e \in b.due.ordered : e[2] \notin S}],
   stagedActors |-> b.stagedActors \ S]

\* fence_locked for the actors of S, in a call that has changed the states to
\* st and the publications and mailboxes to w.
FenceLocked(S, st, w) ==
  /\ pubs' = FoldLeft(CancelSource, w.pubs, Sorted(S, LAMBDA a, b : a < b))
  /\ SetBox(FenceBox(w.box, S))
  /\ subs' = RemoveRoutes(subs, FenceRoutes(S))
  /\ actorState' = [a \in Actor |-> IF a \in S THEN "Stopping" ELSE st[a]]

Stop(S) ==
  /\ FenceLocked(S, actorState, World)
  /\ UNCHANGED <<nextSub, cutoff, now, historyVars>>

\* The drains one call of maintain may end: a drain ends at its deadline, or
\* when its scope holds no work, deliveries being handled included (Lifecycle).
Ends == {UNION T : T \in SUBSET Scope}

\* maintain_locked: overdue mailbox entries, then overdue publications, then
\* the drains that ended are stopped.
MaintainLocked(st, ended) ==
  \E w \in {ExpireEvents(World)} :
    /\ \A a \in ended : st[a] = "Quiescing"
    /\ FenceLocked(ended, st, [w EXCEPT !.pubs = ExpirePublications(@, now)])

Maintain(ended) ==
  /\ MaintainLocked(actorState, ended)
  /\ UNCHANGED <<nextSub, cutoff, now, historyVars>>

\* Wrong: the cutoff lets the next publication in.
LastIssuedOffByOne == pubs.nextId

\* last_issued
LastIssued == pubs.nextId - 1

\* drain_locked and mark_quiescing: the first drain of an actor fixes its
\* cutoff.  A root that was never activated is stopped instead; an activated
\* one whose owner still starts drains, with what it has staged.  A second
\* drain of the same scope is a Maintain.
Drain(S, ended) ==
  LET live == {a \in S : actorState[a] # "Stopping"} IN
  /\ \E a \in live : actorState[a] # "Quiescing"
  /\ cutoff' = [a \in Actor |-> IF a \in live /\ cutoff[a] = NoCutoff THEN LastIssued
                                ELSE cutoff[a]]
  /\ MaintainLocked([a \in Actor |-> IF a \in live THEN "Quiescing" ELSE actorState[a]], ended)
  /\ UNCHANGED <<nextSub, now, historyVars>>

-----------------------------------------------------------------------------
(* Routes and activation.                                                  *)

\* subscribe and link; a plain subscription belongs to its source.
Subscribe(r) ==
  /\ nextSub \in RouteId
  /\ {actorState[r.owner], actorState[r.source], actorState[r.target]}
       \subseteq {"Starting", "Active"}
  /\ Cardinality(ActiveRoutes(subs)) < MaxSubscriptions
  /\ IF r.port = NoPort
     THEN r.owner = r.source /\ ~SourceTargetExists(subs, r.source, r.target)
     ELSE ~TypedDuplicate(subs, r.source, r.port, r.target)
  /\ subs' = InsertRoute(subs, nextSub, r)
  /\ nextSub' = nextSub + 1
  /\ UNCHANGED <<pubs, actorVars, boxVars, now, historyVars>>

Unsubscribe(id) ==
  /\ id \in ActiveRoutes(subs)
  /\ subs' = RemoveRoutes(subs, {id})
  /\ UNCHANGED <<pubs, nextSub, actorVars, boxVars, now, historyVars>>

\* flush_staged_locked for one source: its staged output is queued.
FlushActor(w, a) ==
  [pubs |-> Enqueue(w.pubs, PubsOf(w.box.staged[a])),
   box |-> Refresh([w.box EXCEPT !.staged = [w.box.staged EXCEPT ![a] = <<>>],
                                 !.stagedActors = @ \ {a}],
                   a, Uncounted(w.box.counts[a], w.box.staged[a]))]

\* The same for the sources that run now.
FlushStaged(w, st) ==
  FoldLeft(FlushActor, w, Sorted({a \in w.box.stagedActors : st[a] = "Active"},
                             LAMBDA a, b : a < b))

\* activate: the scope of the last starting ancestor starts to run.
Activate(S) ==
  LET st == [a \in Actor |-> IF a \in S THEN "Active" ELSE actorState[a]] IN
  /\ \A a \in S : actorState[a] = "Starting"
  /\ actorState' = st
  /\ \E w \in {FlushStaged(ExpireEvents(World), st)} : pubs' = w.pubs /\ SetBox(w.box)
  /\ UNCHANGED <<subs, nextSub, cutoff, now, historyVars>>

-----------------------------------------------------------------------------
(* Publishing.                                                             *)

\* The execution states from which publish_internal accepts work.
MaySubmit(source, port, completion) ==
  \/ actorState[source] = "Active"
  \/ actorState[source] = "Starting" /\ ~completion /\ port # NoPort
  \/ actorState[source] = "Quiescing" /\ completion

\* publish_internal with submit_publication_locked.  A starting source stages
\* output of its ports; a completion is accepted from a draining source too.
Publish(source, port, deadline, completion) ==
  LET stage == actorState[source] = "Starting"
      p == [source |-> source, port |-> port, deadline |-> deadline, staged |-> stage,
            completion |-> completion, routes |-> <<>>, cursor |-> 0,
            matched |-> 0, admitted |-> 0, rejected |-> 0]
      entry == [pub |-> pubs.nextId, deadline |-> deadline]
      stagedBox == Refresh([Box EXCEPT !.staged = [staged EXCEPT ![source] = Append(@, entry)],
                                       !.stagedActors = @ \cup {source}],
                           source, Bump(counts[source], deadline, 1))
  IN /\ deadline > now
     /\ MaySubmit(source, port, completion)
     /\ MayReserve(pubs, source)
     /\ stage => Len(staged[source]) < MailboxCapacity
     /\ pubs' = InsertPublication(pubs, p)
     /\ SetBox(IF stage THEN stagedBox ELSE Box)
     /\ barred' = [barred EXCEPT ![pubs.nextId] =
                     IF completion THEN {} ELSE {a \in Actor : actorState[a] = "Quiescing"}]
     /\ UNCHANGED <<subs, nextSub, actorVars, now, delivered>>

\* The payload or the staging queue refuses after the ticket was reserved.
PublishRefused(source) ==
  /\ \E port \in Port, completion \in BOOLEAN : MaySubmit(source, port, completion)
  /\ MayReserve(pubs, source)
  /\ pubs' = BurnId(pubs)
  /\ UNCHANGED <<subs, nextSub, actorVars, boxVars, now, historyVars>>

\* A caller drops its ticket.
DropTicket(id) ==
  /\ id \in pubs.held
  /\ pubs' = DropHandle(pubs, id)
  /\ UNCHANGED <<subs, nextSub, actorVars, boxVars, now, historyVars>>

-----------------------------------------------------------------------------
(* Routing.                                                                *)

\* What a destination of the snapshot is revalidated against, up to the room in
\* the mailbox (admit).
Accepts(id, p, route, target, box) ==
  /\ subs.entries[route] # NoSub
  /\ Running(subs.entries[route].owner)
  /\ Running(target)
  /\ actorState[target] = "Quiescing" =>
       p.completion \/ (cutoff[target] # NoCutoff /\ id <= cutoff[target])
  /\ Len(box.queue[target]) < MailboxCapacity

\* One destination of a batch: v is the publication and the mailboxes so far.
Attempt(id, v, dest) ==
  LET route == dest[1]
      target == dest[2]
      d == [pub |-> id, source |-> v.p.source, route |-> route, deadline |-> v.p.deadline]
      next == [v.p EXCEPT !.cursor = @ + 1]
  IN IF Accepts(id, v.p, route, target, v.box)
     THEN [p |-> [next EXCEPT !.admitted = @ + 1],
           box |-> Refresh([v.box EXCEPT
                      !.queue = [v.box.queue EXCEPT ![target] = Append(@, d)]],
                      target, Bump(v.box.counts[target], v.p.deadline, 1)),
           log |-> [v.log EXCEPT ![target] =
                      Append(@, [pub |-> id, source |-> v.p.source, route |-> route])]]
     ELSE [v EXCEPT !.p = [next EXCEPT !.rejected = @ + 1]]

\* Wrong: every batch starts from the beginning of the snapshot.
BatchFromStart(p) == SubSeq(p.routes, 1, IF BatchSize < Len(p.routes) THEN BatchSize
                                         ELSE Len(p.routes))

\* The next destinations of a publication.
Batch(p) ==
  SubSeq(p.routes, p.cursor + 1,
         IF p.cursor + BatchSize < Len(p.routes) THEN p.cursor + BatchSize
         ELSE Len(p.routes))

\* Why the publication at the front gets no turn; t is the table without it.
Refusal(p, t, matching) ==
  IF ~Running(p.source) THEN "Cancelled"
  ELSE IF p.deadline <= now THEN "Expired"
  ELSE IF p.routes # <<>> THEN "None"
  ELSE IF Cardinality(matching) > MaxFanout THEN "FanoutLimit"
  ELSE IF Cardinality(matching) > MaxSnapshot - t.snapshotEntries THEN "SnapshotFull"
  ELSE "None"

\* The first batch of a publication captures the routes of its port.
Captured(p, matching) ==
  LET ids == Sorted(matching, LAMBDA a, b : a < b) IN
  IF p.routes # <<>> THEN p
  ELSE [p EXCEPT !.routes = [i \in DOMAIN ids |-> <<ids[i], subs.entries[ids[i]].target>>],
                 !.matched = Len(ids)]

\* One batch of the captured publication p.  Every destination reads the clock
\* twice, in the loop and in admit: the first `reads` of these find p in time.
Deliver(id, p, t, reads) ==
  LET batch == Batch(p)
      start == [p |-> p, box |-> Box, log |-> delivered]
      good == FoldLeft(LAMBDA w, dest : Attempt(id, w, dest), start,
                   SubSeq(batch, 1, reads \div 2))
      v == IF reads % 2 = 0 THEN good
           ELSE [good EXCEPT !.p = [good.p EXCEPT !.cursor = @ + 1, !.rejected = @ + 1]]
      outcome == IF (reads + 1) \div 2 < Len(batch) THEN "Expired"
                 ELSE IF v.p.cursor = Len(v.p.routes) THEN "Routed" ELSE "None"
      report == [t.tickets[id] EXCEPT !.status = "Routing", !.matched = v.p.matched,
                                      !.admitted = v.p.admitted, !.rejected = v.p.rejected]
  IN [pubs |-> IF outcome # "None" THEN Finish(t, id, v.p, outcome)
               ELSE ReadySource([t EXCEPT !.entries = [t.entries EXCEPT ![id] = v.p],
                                          !.tickets = [t.tickets EXCEPT ![id] = report]],
                                p.source),
      box |-> v.box, log |-> v.log]

\* route_batch: a turn of the source at the front.  The clock may reach the
\* deadline of its publication during the turn.
RouteBatch(reads) ==
  /\ pubs.ready # <<>>
  /\ LET source == Head(pubs.ready)
         id == Head(pubs.bySource[source])
         p == pubs.entries[id]
         t == [pubs EXCEPT !.ready = Tail(@), !.readySet = @ \ {source}]
         matching == subs.bySource[<<source, p.port>>]
         refusal == Refusal(p, t, matching)
         q == Captured(p, matching)
         charged == [t EXCEPT !.snapshotEntries = @ + Len(q.routes) - Len(p.routes)]
         all == IF refusal = "None" THEN 2 * Len(Batch(q)) ELSE 0
     IN /\ reads <= all
        /\ reads < all => p.deadline = now + 1 /\ now < MaxTime
        /\ now' = IF reads < all THEN now + 1 ELSE now
        /\ \E v \in {IF refusal = "None" THEN Deliver(id, q, charged, reads)
                     ELSE [pubs |-> Finish(t, id, p, refusal), box |-> Box, log |-> delivered]} :
             pubs' = v.pubs /\ SetBox(v.box) /\ delivered' = v.log
  /\ UNCHANGED <<subs, nextSub, actorVars, barred>>

\* claim pops deliveries until one is in time and its route is still there.
Claim(a) ==
  LET q == queue[a]
      good == {i \in DOMAIN q : q[i].deadline > now /\ subs.entries[q[i].route] # NoSub}
      last == IF good = {} THEN Len(q) ELSE CHOOSE i \in good : \A j \in good : i <= j
      c == Uncounted(counts[a], SubSeq(q, 1, last))
  IN /\ Running(a)
     /\ q # <<>>
     /\ SetBox(Refresh([Box EXCEPT !.queue = [queue EXCEPT ![a] = SubSeq(q, last + 1, Len(q))]],
                       a, c))
     /\ UNCHANGED <<pubs, subs, nextSub, actorVars, now, historyVars>>

Tick ==
  /\ now < MaxTime
  /\ now' = now + 1
  /\ UNCHANGED <<pubs, subs, nextSub, actorVars, boxVars, historyVars>>

-----------------------------------------------------------------------------
Init ==
  /\ pubs = EmptyPublications
  /\ subs = EmptyRoutes
  /\ nextSub = 1
  /\ actorState = [a \in Actor |-> IF a \in Activated THEN "Active" ELSE "Starting"]
  /\ cutoff = [a \in Actor |-> NoCutoff]
  /\ queue = [a \in Actor |-> <<>>]
  /\ staged = [a \in Actor |-> <<>>]
  /\ counts = [a \in Actor |-> NoCounts]
  /\ due = NoDue
  /\ stagedActors = {}
  /\ now = 0
  /\ delivered = [a \in Actor |-> <<>>]
  /\ barred = [id \in PubId |-> {}]

Routing == \E reads \in 0..(2 * BatchSize) : RouteBatch(reads)

\* Every call but route_batch.
Calls ==
  \/ \E r \in Links : Subscribe(r)
  \/ \E id \in RouteId : Unsubscribe(id)
  \/ \E S \in Scope : Activate(S)
  \/ \E a \in Publishers, p \in Port, d \in Deadlines, c \in BOOLEAN : Publish(a, p, d, c)
  \/ \E a \in Publishers : PublishRefused(a)
  \/ \E id \in PubId : DropTicket(id)
  \/ \E a \in Actor : Claim(a)
  \/ \E S \in Scope : Stop(S)
  \/ \E S \in Scope, ended \in Ends : Drain(S, ended)
  \/ \E ended \in Ends : Maintain(ended)
  \/ Tick

Next == Routing \/ Calls

Spec == Init /\ [][Next]_vars

\* Something in a mailbox, a staging queue or the table is past its deadline.
Overdue == \E e \in due.ordered \cup pubs.deadlines : e[1] <= now

\* The routing service takes a turn while a source is ready, the control service
\* calls maintain, the clock runs, and a drain ends in a stop (the Lifecycle
\* module's WindsDown).  Weak fairness, with the condition under which each call
\* has something to do in place of ENABLED.
Fairness ==
  /\ []<>(pubs.ready = <<>>) \/ []<><<Routing>>_vars
  /\ []<>~Overdue \/ []<><<\E ended \in Ends : Maintain(ended)>>_vars
  /\ WF_vars(Tick)
  /\ \A S \in Scope :
       []<>(\A a \in S : actorState[a] # "Quiescing") \/ []<><<Stop(S)>>_vars

FairSpec == Spec /\ Fairness

-----------------------------------------------------------------------------
(* Properties.                                                             *)

\* The four route indexes agree with the routes after every mix of links,
\* cancellations and stops: routing and fencing look only at the indexes.
RouteIndexExact == RouteIndexExactOf(subs)

\* The earliest deadline of what an actor has queued or staged.
EarliestOf(a) ==
  LET dates == {queue[a][i].deadline : i \in DOMAIN queue[a]}
                 \cup {staged[a][i].deadline : i \in DOMAIN staged[a]}
  IN CHOOSE t \in dates \cup {NoDeadline} : \A u \in dates \cup {NoDeadline} : t <= u

\* What the services look at instead of the publications themselves agrees
\* with them.  A source with routable work is never left out of the rotation
\* and route_batch never meets a stale identity; the ticket budget is neither
\* leaked nor given back twice, whichever of the caller's handle and the
\* publication goes first, and snapshots stay within their limit; expiry finds
\* every deadline and activation all staged output, which is kept twice, in the
\* actor's staging queue and as staged publications.
TableIndexExact ==
  /\ TableIndexExactOf(pubs) /\ BudgetExactOf(pubs) /\ pubs.snapshotEntries <= MaxSnapshot
  /\ due.actors = [a \in Actor |-> EarliestOf(a)]
  /\ due.ordered = {<<due.actors[a], a>> : a \in {b \in Actor : due.actors[b] # NoDeadline}}
  /\ stagedActors = {a \in Actor : staged[a] # <<>>}
  /\ \A a \in Actor :
       {staged[a][i].pub : i \in DOMAIN staged[a]} =
         {id \in PendingPubs(pubs) : pubs.entries[id].source = a /\ pubs.entries[id].staged}

\* A target sees the publications of one source in the order they were
\* accepted, and none of them twice over one route, however batches, stops,
\* expiries and route changes interleave.
SourceFifo ==
  \A a \in Actor : \A i, j \in DOMAIN delivered[a] :
    i < j /\ delivered[a][i].source = delivered[a][j].source =>
      /\ delivered[a][i].pub <= delivered[a][j].pub
      /\ delivered[a][i] # delivered[a][j]

\* An ordinary publication accepted while a target was draining never enters
\* its mailbox, whenever it is routed.
DrainCutoff ==
  \A a \in Actor : \A i \in DOMAIN delivered[a] : a \notin barred[delivered[a][i].pub]

\* The report of a ticket counts what really entered the mailboxes, and a
\* terminal one accounts for every destination of the snapshot.
ReportExact ==
  \A id \in PendingPubs(pubs) \cup pubs.held :
    LET t == pubs.tickets[id]
        entered == UNION {{<<a, i>> : i \in {j \in DOMAIN delivered[a] : delivered[a][j].pub = id}} :
                            a \in Actor}
    IN /\ t.admitted = Cardinality(entered)
       /\ t.status \in Outcomes => t.matched = t.admitted + t.rejected

\* No route has a stopped owner, source or target, whatever was linked before,
\* during or after the stop: a partly routed publication cannot reach a stopped
\* actor from its snapshot, and the next actor in the slot inherits no route.
StoppedHasNoRoutes ==
  \A id \in ActiveRoutes(subs) :
    \A a \in {subs.entries[id].owner, subs.entries[id].source, subs.entries[id].target} :
      actorState[a] # "Stopping"

\* Every accepted publication ends, unless its source never gets to run.
EveryPublicationEnds ==
  \A id \in PubId :
    pubs.entries[id] # NoPublication ~>
      (pubs.entries[id] = NoPublication \/ actorState[pubs.entries[id].source] = "Starting")
=============================================================================
