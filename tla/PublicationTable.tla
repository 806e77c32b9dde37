-------------------------- MODULE PublicationTable --------------------------
(***************************************************************************)
(* The publications of a World (runtime-core/src/publications.rs) as a     *)
(* value: accepted routing work by identity, a queue of identities for     *)
(* every source, the deque of sources with a turn to come, an ordered set  *)
(* of deadlines, and the tickets with the budget they are charged to.      *)
(*                                                                         *)
(* A ticket is shared by the table and by handles of callers; it is        *)
(* charged until the publication is finished and the handles are dropped.  *)
(***************************************************************************)
EXTENDS RouteTable, Sequences, SequencesExt

CONSTANTS
  NoActor,       \* the source of no ticket
  NoPublication, \* no publication under an identity
  LastId,        \* the last value of next_id (u64::MAX in the code)
  MaxTime,       \* bound on the clock
  TicketLimit,   \* max_publications
  PerSource      \* max_publications_per_source

ASSUME LastIdAssumption == LastId \in Nat \ {0}
ASSUME PublicationTimeAssumption == MaxTime \in Nat
ASSUME TicketBoundsAssumption == {TicketLimit, PerSource} \subseteq Nat

PubId == 1..(LastId - 1)
Time == 0..MaxTime
NoDeadline == MaxTime + 1    \* None: later than every instant

Outcomes == {"Routed", "Cancelled", "Expired", "FanoutLimit", "SnapshotFull"}

\* TicketState: status with the counts of the report, and the permit's source.
Ticket == [source : Actor \cup {NoActor},
           status : {"Unissued", "Staged", "Queued", "Routing"} \cup Outcomes,
           matched : Nat, admitted : Nat, rejected : Nat]
NoTicket == [source |-> NoActor, status |-> "Unissued",
             matched |-> 0, admitted |-> 0, rejected |-> 0]

EmptyPublications ==
  [entries |-> [id \in PubId |-> NoPublication],
   tickets |-> [id \in PubId |-> NoTicket],
   held |-> {},                              \* tickets with a caller's handle
   bySource |-> [a \in Actor |-> <<>>],
   ready |-> <<>>,
   readySet |-> {},
   deadlines |-> {},
   nextId |-> 1,
   total |-> 0,                              \* TicketBudget.counts.0
   counts |-> [a \in Actor |-> 0],           \* TicketBudget.counts.1
   snapshotEntries |-> 0]

-----------------------------------------------------------------------------
(* Sequences.                                                              *)

\* retain, for all elements but one.
Without(seq, e) == FoldLeft(LAMBDA kept, x : IF x = e THEN kept ELSE Append(kept, x), <<>>, seq)

\* The elements of a finite set in an order.
Sorted(S, before(_, _)) ==
  CHOOSE seq \in [1..Cardinality(S) -> S] :
    \A i, j \in 1..Cardinality(S) : i < j => before(seq[i], seq[j])

PendingPubs(t) == {id \in PubId : t.entries[id] # NoPublication}

-----------------------------------------------------------------------------
(* The budget.                                                             *)

\* reserve's early returns.
MayReserve(t, source) ==
  t.nextId < LastId /\ t.total < TicketLimit /\ t.counts[source] < PerSource

\* A refusal after the reservation gives the permit back and burns the identity.
BurnId(t) == [t EXCEPT !.nextId = @ + 1]

\* Drop for TicketPermit: the last handle of a ticket goes.
ReleasePermit(t, id) ==
  LET source == t.tickets[id].source IN
  [t EXCEPT !.total = @ - 1,
            !.counts = [t.counts EXCEPT ![source] = @ - 1],
            !.tickets = [t.tickets EXCEPT ![id] = NoTicket]]

\* A caller drops the last handle it has.
DropHandle(t, id) ==
  LET u == [t EXCEPT !.held = @ \ {id}]
  IN IF t.entries[id] = NoPublication THEN ReleasePermit(u, id) ELSE u

-----------------------------------------------------------------------------
(* The indexes.                                                            *)

\* ready_source
ReadySource(t, source) ==
  LET ids == t.bySource[source]
      ready == /\ ids # <<>>
               /\ t.entries[Head(ids)] # NoPublication
               /\ ~t.entries[Head(ids)].staged
  IN IF ready /\ source \notin t.readySet
     THEN [t EXCEPT !.readySet = @ \cup {source}, !.ready = Append(@, source)]
     ELSE t

\* reserve's ticket and insert
InsertPublication(t, p) ==
  LET id == t.nextId
      u == [t EXCEPT
              !.entries = [t.entries EXCEPT ![id] = p],
              !.tickets = [t.tickets EXCEPT ![id] =
                             [NoTicket EXCEPT
                                !.source = p.source,
                                !.status = IF p.staged THEN "Staged" ELSE "Queued"]],
              !.held = @ \cup {id},
              !.bySource = [t.bySource EXCEPT ![p.source] = Append(@, id)],
              !.deadlines = IF p.deadline = NoDeadline THEN @
                            ELSE @ \cup {<<p.deadline, id>>},
              !.nextId = @ + 1,
              !.total = @ + 1,
              !.counts = [t.counts EXCEPT ![p.source] = @ + 1]]
  IN ReadySource(u, p.source)

\* Wrong: the next publication of the source gets no turn.
RemoveIndexesUnready(t, id, p) ==
  [t EXCEPT !.deadlines = @ \ {<<p.deadline, id>>},
            !.snapshotEntries = @ - Len(p.routes),
            !.bySource = [t.bySource EXCEPT ![p.source] = Without(@, id)],
            !.readySet = @ \ {p.source},
            !.ready = Without(@, p.source)]

\* Wrong: the snapshot of a finished publication stays charged.
RemoveIndexesKeepSnapshot(t, id, p) ==
  ReadySource(
    [t EXCEPT !.deadlines = @ \ {<<p.deadline, id>>},
              !.bySource = [t.bySource EXCEPT ![p.source] = Without(@, id)],
              !.readySet = @ \ {p.source},
              !.ready = Without(@, p.source)],
    p.source)

\* remove_indexes, after the entry is gone: whichever publication goes, its
\* source leaves the ready deque and joins it again at the back.
RemoveIndexes(t, id, p) ==
  ReadySource(
    [t EXCEPT !.deadlines = @ \ {<<p.deadline, id>>},
              !.snapshotEntries = @ - Len(p.routes),
              !.bySource = [t.bySource EXCEPT ![p.source] = Without(@, id)],
              !.readySet = @ \ {p.source},
              !.ready = Without(@, p.source)],
    p.source)

\* Wrong: the tail that was never attempted is not accounted for.
UnattemptedNone(p) == 0

\* The destinations of a captured snapshot that were not attempted.
Unattempted(p) == Len(p.routes) - p.cursor

\* finish_publication_locked: p is the publication, its entry already removed.
Finish(t, id, p, outcome) ==
  LET u == RemoveIndexes([t EXCEPT !.entries = [t.entries EXCEPT ![id] = NoPublication]], id, p)
      done == [u EXCEPT !.tickets = [u.tickets EXCEPT ![id] =
                 [source |-> p.source, status |-> outcome, matched |-> p.matched,
                  admitted |-> p.admitted, rejected |-> p.rejected + Unattempted(p)]]]
  IN IF id \in t.held THEN done ELSE ReleasePermit(done, id)

\* cancel_publication_locked, which skips what is absent.
CancelOne(t, id, outcome) ==
  IF t.entries[id] = NoPublication THEN t ELSE Finish(t, id, t.entries[id], outcome)

\* The same for a sequence of identities.
Cancel(t, ids, outcome) == FoldLeft(LAMBDA u, id : CancelOne(u, id, outcome), t, ids)

\* cancel_source_publications_locked
CancelSource(t, source) == Cancel(t, t.bySource[source], "Cancelled")

\* expire_publications_locked, in the order of the deadline set.
ExpirePublications(t, now) ==
  LET before(d, e) == d[1] < e[1] \/ (d[1] = e[1] /\ d[2] < e[2])
      due == Sorted({d \in t.deadlines : d[1] <= now}, before)
  IN Cancel(t, [i \in DOMAIN due |-> due[i][2]], "Expired")

\* enqueue_publication_locked
EnqueueOne(t, id) ==
  IF t.entries[id] = NoPublication THEN t
  ELSE ReadySource([t EXCEPT
         !.entries = [t.entries EXCEPT ![id] = [@ EXCEPT !.staged = FALSE]],
         !.tickets = [t.tickets EXCEPT ![id] = [@ EXCEPT !.status = "Queued"]]],
         t.entries[id].source)

\* The same for a sequence of staged identities.
Enqueue(t, ids) == FoldLeft(EnqueueOne, t, ids)

-----------------------------------------------------------------------------
(* The promise of the indexes (the tests' assert_indexes).                 *)

\* Every pending publication is in the queue of its source, in the order of
\* acceptance; a source is ready exactly when the head of its queue may be
\* routed; deadlines and snapshot charges are those of the pending entries.
TableIndexExactOf(t) ==
  /\ \A a \in Actor :
       /\ ToSet(t.bySource[a]) = {id \in PendingPubs(t) : t.entries[id].source = a}
       /\ \A i, j \in DOMAIN t.bySource[a] : i < j => t.bySource[a][i] < t.bySource[a][j]
       /\ a \in t.readySet <=> /\ t.bySource[a] # <<>>
                               /\ ~t.entries[Head(t.bySource[a])].staged
  /\ ToSet(t.ready) = t.readySet
  /\ Len(t.ready) = Cardinality(t.readySet)
  /\ t.deadlines = {<<t.entries[id].deadline, id>> :
                      id \in {i \in PendingPubs(t) : t.entries[i].deadline # NoDeadline}}
  /\ t.snapshotEntries =
       Cardinality({e \in PubId \X RouteId : /\ t.entries[e[1]] # NoPublication
                                             /\ e[2] <= Len(t.entries[e[1]].routes)})

\* The budget charges exactly the tickets that are pending or held, each to its
\* source, and never more than a source or the World may have.
BudgetExactOf(t) ==
  LET charged == PendingPubs(t) \cup t.held IN
  /\ t.total = Cardinality(charged)
  /\ t.total <= TicketLimit
  /\ \A a \in Actor :
       /\ t.counts[a] = Cardinality({id \in charged : t.tickets[id].source = a})
       /\ t.counts[a] <= PerSource
=============================================================================
