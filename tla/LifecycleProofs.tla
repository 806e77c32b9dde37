-------------------------- MODULE LifecycleProofs --------------------------
(* Proofs of the Lifecycle properties for every number of slots,           *)
(* generations, tasks, deliveries and instants.                            *)
EXTENDS Lifecycle, FiniteSetTheorems, WellFoundedInduction, TLAPS

(* A non-empty set of naturals has a least element.                        *)
LEMMA SmallestExists ==
  ASSUME NEW T \in SUBSET Nat, T # {}
  PROVE  \E x \in T : \A y \in T : x <= y
<1> DEFINE R == OpToRel(<, Nat)
<1>1. IsWellFoundedOn(R, Nat)
  BY NatLessThanWellFounded
<1>2. PICK x \in T : \A y \in T : ~(<<y, x>> \in R)
  <2> HIDE DEF R
  <2> QED BY <1>1, WFMin
<1>3. \A y \in T : <<y, x>> \in Nat \X Nat /\ <<y, x>>[1] = y /\ <<y, x>>[2] = x
  OBVIOUS
<1>4. \A y \in T : y < x => <<y, x>> \in R
  BY <1>3 DEF OpToRel
<1> HIDE DEF R
<1>5. \A y \in T : ~(y < x)
  BY <1>2, <1>4
<1>6. \A y \in T : y \in Int /\ x \in Int
  OBVIOUS
<1>7. \A y \in T : x <= y
  BY <1>5, <1>6
<1> QED
  BY <1>7

(* Earliest picks a member that is no later than any other.                *)
LEMMA EarliestIsLeast ==
  ASSUME NEW T \in SUBSET Nat, T # {}
  PROVE  Earliest(T) \in T /\ \A u \in T : Earliest(T) <= u
BY SmallestExists DEF Earliest

-----------------------------------------------------------------------------
(* Type correctness.                                                       *)

(* The reference of a live slot is an issued reference.                    *)
LEMMA RefType ==
  ASSUME TypeOK, NEW s \in Slot, Live(s), LineageLive
  PROVE  Ref(s) \in ActorRef
BY GenerationAssumption DEF TypeOK, Ref, ActorRef, LineageLive

(* try_finalize yields lifecycle states and Boolean marks.                 *)
LEMMA TryFinalizeType ==
  ASSUME NEW touched, NEW st \in [Slot -> Lifecycles], NEW to \in [Slot -> BOOLEAN],
         TryFinalize(touched, st, to)
  PROVE  state' \in [Slot -> Lifecycles] /\ drainTimedOut' \in [Slot -> BOOLEAN]
<1>1. \A s \in Slot : st[s] \in Lifecycles
  OBVIOUS
<1>2. state' \in [Slot -> Lifecycles]
  BY <1>1 DEF TryFinalize, Lifecycles
<1>3. drainTimedOut' \in [Slot -> BOOLEAN]
  BY DEF TryFinalize
<1> QED
  BY <1>2, <1>3

(* A fence assigns lifecycle states.                                       *)
LEMMA StoppingType ==
  ASSUME NEW fenced, NEW st \in [Slot -> Lifecycles]
  PROVE  Stopping(fenced, st) \in [Slot -> Lifecycles]
<1>1. \A s \in Slot : st[s] \in Lifecycles
  OBVIOUS
<1> QED
  BY <1>1 DEF Stopping, Lifecycles

(* Discarding notifications keeps the flags Boolean and the counts integral. *)
LEMMA DiscardNotificationsType ==
  ASSUME NEW fenced, NEW nt \in [Slot -> BOOLEAN], NEW pf \in [Slot -> Int],
         DiscardNotifications(fenced, nt, pf)
  PROVE  notification' \in [Slot -> BOOLEAN] /\ pendingFailures' \in [Slot -> Int]
<1>1. \A s \in Slot : Cardinality({c \in Children(s) : nt[c]}) \in Int
  <2> SUFFICES ASSUME NEW s \in Slot
               PROVE  Cardinality({c \in Children(s) : nt[c]}) \in Int
    OBVIOUS
  <2>1. {c \in Children(s) : nt[c]} \subseteq Slot
    BY DEF Children
  <2>2. IsFiniteSet({c \in Children(s) : nt[c]})
    BY <2>1, SlotAssumption, FS_Subset
  <2> QED
    BY <2>2, FS_CardinalityType
<1>2. \A s \in Slot : pf[s] - Cardinality({c \in Children(s) : nt[c]}) \in Int
  BY <1>1
<1>3. notification' \in [Slot -> BOOLEAN]
  BY DEF DiscardNotifications
<1>4. pendingFailures' \in [Slot -> Int]
  BY <1>2 DEF DiscardNotifications
<1> QED
  BY <1>3, <1>4

(* Discarding work keeps both counters within their bounds.                *)
LEMMA DiscardWorkType ==
  ASSUME NEW fenced, NEW q \in [Slot -> 0..MailboxCapacity],
         NEW p \in [Slot -> 0..MaxPending], DiscardWork(fenced, q, p)
  PROVE  queue' \in [Slot -> 0..MailboxCapacity] /\ pending' \in [Slot -> 0..MaxPending]
BY CapacityAssumption DEF DiscardWork

(* A fence leaves every variable it assigns well typed.                    *)
LEMMA FenceLockedType ==
  ASSUME TypeOK, NEW fenced, NEW touched,
         NEW nt \in [Slot -> BOOLEAN], NEW pf \in [Slot -> Int],
         FenceLocked(fenced, touched, nt, pf)
  PROVE  /\ state' \in [Slot -> Lifecycles]
         /\ drainTimedOut' \in [Slot -> BOOLEAN]
         /\ notification' \in [Slot -> BOOLEAN]
         /\ pendingFailures' \in [Slot -> Int]
         /\ queue' \in [Slot -> 0..MailboxCapacity]
         /\ pending' \in [Slot -> 0..MaxPending]
         /\ drainRoots' \in SUBSET ActorRef
         /\ drainRoot' = drainRoot
         /\ drainDeadline' = drainDeadline
<1>1. Stopping(fenced, state) \in [Slot -> Lifecycles]
  BY StoppingType DEF TypeOK
<1>2. TryFinalize(fenced \cup touched, Stopping(fenced, state), drainTimedOut)
  BY DEF FenceLocked
<1>3. state' \in [Slot -> Lifecycles] /\ drainTimedOut' \in [Slot -> BOOLEAN]
  BY <1>1, <1>2, TryFinalizeType DEF TypeOK
<1>4. DiscardNotifications(fenced, nt, pf) /\ DiscardWork(fenced, queue, pending)
  BY DEF FenceLocked
<1>5. notification' \in [Slot -> BOOLEAN] /\ pendingFailures' \in [Slot -> Int]
  BY <1>4, DiscardNotificationsType
<1>6. queue' \in [Slot -> 0..MailboxCapacity] /\ pending' \in [Slot -> 0..MaxPending]
  BY <1>4, DiscardWorkType DEF TypeOK
<1>7. drainRoots' \in SUBSET ActorRef /\ drainRoot' = drainRoot
        /\ drainDeadline' = drainDeadline
  BY DEF FenceLocked, TypeOK
<1> QED
  BY <1>3, <1>5, <1>6, <1>7

(* So does a maintenance pass over well-typed drain fields.                *)
LEMMA MaintainLockedType ==
  ASSUME TypeOK, NEW scope, NEW st \in [Slot -> Lifecycles],
         NEW root \in [Slot -> ActorRef \cup {NoRef}],
         NEW dl \in [Slot -> 0..NoDeadline], NEW roots \in SUBSET ActorRef,
         MaintainLocked(scope, st, root, dl, roots)
  PROVE  /\ state' \in [Slot -> Lifecycles]
         /\ drainTimedOut' \in [Slot -> BOOLEAN]
         /\ notification' \in [Slot -> BOOLEAN]
         /\ pendingFailures' \in [Slot -> Int]
         /\ queue' \in [Slot -> 0..MailboxCapacity]
         /\ pending' \in [Slot -> 0..MaxPending]
         /\ drainRoots' \in SUBSET ActorRef
         /\ drainRoot' \in [Slot -> ActorRef \cup {NoRef}]
         /\ drainDeadline' \in [Slot -> 0..NoDeadline]
<1>0. PICK q \in Remaining(queue, MailboxCapacity), p \in Remaining(pending, MaxPending) :
        \E fenced, late :
          /\ DiscardNotifications(fenced, notification, pendingFailures)
          /\ DiscardWork(fenced, q, p)
          /\ drainRoot' = root
          /\ drainDeadline' = dl
          /\ drainRoots' \subseteq roots
          /\ TryFinalize(fenced, Stopping(fenced, st),
                         [s \in Slot |-> drainTimedOut[s] \/ s \in late])
  BY DEF MaintainLocked
<1>1. PICK fenced, late :
        /\ DiscardNotifications(fenced, notification, pendingFailures)
        /\ DiscardWork(fenced, q, p)
        /\ drainRoot' = root
        /\ drainDeadline' = dl
        /\ drainRoots' \subseteq roots
        /\ TryFinalize(fenced, Stopping(fenced, st),
                       [s \in Slot |-> drainTimedOut[s] \/ s \in late])
  BY <1>0
<1>2. q \in [Slot -> 0..MailboxCapacity] /\ p \in [Slot -> 0..MaxPending]
  BY DEF Remaining
<1>3. [s \in Slot |-> drainTimedOut[s] \/ s \in late] \in [Slot -> BOOLEAN]
  OBVIOUS
<1>4. Stopping(fenced, st) \in [Slot -> Lifecycles]
  BY StoppingType
<1>5. state' \in [Slot -> Lifecycles] /\ drainTimedOut' \in [Slot -> BOOLEAN]
  BY <1>1, <1>3, <1>4, TryFinalizeType
<1>6. notification' \in [Slot -> BOOLEAN] /\ pendingFailures' \in [Slot -> Int]
  BY <1>1, DiscardNotificationsType DEF TypeOK
<1>7. queue' \in [Slot -> 0..MailboxCapacity] /\ pending' \in [Slot -> 0..MaxPending]
  BY <1>1, <1>2, DiscardWorkType
<1> QED
  BY <1>1, <1>5, <1>6, <1>7

-----------------------------------------------------------------------------
(* The ownership tree.                                                     *)

(* A set of slots that holds, with a slot, the live actors below it.       *)
DownClosed(S) == \A s \in S : Subtree(s) \subseteq S

(* Subtrees are nested.                                                    *)
LEMMA SubtreeNested ==
  ASSUME TypeOK, LineageLive, NEW s \in Slot, NEW d \in Subtree(s)
  PROVE  Live(d) /\ d \in Slot /\ Subtree(d) \subseteq Subtree(s)
<1>1. Live(d) /\ d \in Slot
  BY DEF Subtree
<1>2. CASE d = s
  BY <1>1, <1>2
<1>3. CASE d # s
  <2>1. Ref(s) \in ancestors[d]
    BY <1>3 DEF Subtree
  <2> SUFFICES ASSUME NEW e \in Subtree(d)
               PROVE  e \in Subtree(s)
    BY <1>1
  <2>2. CASE e = d
    BY <2>2
  <2>3. CASE e # d
    <3>1. e \in Slot /\ Live(e) /\ Ref(d) \in ancestors[e]
      BY <2>3 DEF Subtree
    <3>2. ancestors[Ref(d).slot] \subseteq ancestors[e]
      BY <3>1 DEF LineageLive
    <3>3. Ref(d).slot = d
      BY DEF Ref
    <3> QED
      BY <2>1, <3>1, <3>2, <3>3 DEF Subtree
  <2> QED
    BY <2>2, <2>3
<1> QED
  BY <1>2, <1>3

(* A scope holds everything below each of its actors.                      *)
LEMMA SubtreeDownClosed ==
  ASSUME TypeOK, LineageLive, NEW s \in Slot
  PROVE  Subtree(s) \subseteq Slot /\ DownClosed(Subtree(s))
BY SubtreeNested DEF DownClosed, Subtree

(* So does a union of scopes.                                              *)
LEMMA UnionDownClosed ==
  ASSUME TypeOK, LineageLive, NEW S \in SUBSET Slot
  PROVE  /\ UNION {Subtree(s) : s \in S} \subseteq Slot
         /\ DownClosed(UNION {Subtree(s) : s \in S})
BY SubtreeDownClosed DEF DownClosed

(* What an actor owns is retired with it or before it.                     *)
LEMMA FinalisedDownClosed ==
  ASSUME TypeOK, LineageLive, NEW touched, NEW st, NEW s \in Finalised(touched, st)
  PROVE  /\ s \in Slot /\ Live(s) /\ st[s] = "Stopping" /\ Quiet(s)'
         /\ Subtree(s) \subseteq Finalised(touched, st)
<1>1. s \in Slot /\ Live(s)
  BY DEF Finalised
<1>2. s \in Subtree(s)
  BY <1>1 DEF Subtree
<1>3. st[s] = "Stopping" /\ Quiet(s)'
  BY <1>2 DEF Finalised
<1>4. ASSUME NEW d \in Subtree(s)
      PROVE  d \in Finalised(touched, st)
  <2>1. Live(d) /\ d \in Slot /\ Subtree(d) \subseteq Subtree(s)
    BY <1>1, <1>4, SubtreeNested
  <2> QED
    BY <2>1 DEF Finalised
<1> QED
  BY <1>1, <1>3, <1>4

(* A step that keeps the tree and retires actors only through try_finalize *)
(* keeps every remaining lineage live.                                     *)
LEMMA FinalisePreservesLineage ==
  ASSUME TypeOK, LineageLive, UNCHANGED treeVars,
         NEW touched, NEW st \in [Slot -> Lifecycles], NEW to,
         \A s \in Slot : Live(s) <=> st[s] \notin {"Absent", "Stopped"},
         TryFinalize(touched, st, to)
  PROVE  LineageLive'
<1> DEFINE done == Finalised(touched, st)
<1>1. \A s \in Slot : state'[s] = IF s \in done THEN "Stopped" ELSE st[s]
  BY DEF TryFinalize
<1>2. \A s \in Slot : Live(s)' <=> Live(s) /\ s \notin done
  BY <1>1 DEF Live
<1>3. UNCHANGED <<gen, parent, ancestors>>
  BY DEF treeVars
<1>4. ASSUME NEW s \in Slot, Live(s)', NEW a \in ancestors[s]
      PROVE  Live(a.slot)'
  <2>1. Live(s) /\ s \notin done
    BY <1>2, <1>4
  <2>2. a \in ActorRef /\ Current(a) /\ Live(a.slot)
    BY <2>1 DEF LineageLive, TypeOK
  <2>3. a.slot \in Slot /\ a = Ref(a.slot)
    BY <2>2 DEF ActorRef, Current, Ref
  <2>4. s \in Subtree(a.slot)
    BY <2>1, <2>3 DEF Subtree
  <2>5. a.slot \notin done
    BY <2>1, <2>4, FinalisedDownClosed
  <2> QED
    BY <1>2, <2>2, <2>3, <2>5
<1> HIDE DEF done
<1>5. \A s \in Slot : Live(s)' => Live(s)
  BY <1>2
<1> QED
  BY <1>3, <1>4, <1>5 DEF LineageLive, Current

(* What drain_locked hands to maintain_locked: a scope to stop, closed     *)
(* downwards, and a state in which some live scopes have become Quiescing. *)
LEMMA DrainLockedShape ==
  ASSUME TypeOK, LineageLive, NEW targets \in SUBSET Slot, NEW deadline \in Time,
         DrainLocked(targets, deadline)
  PROVE  \E scope \in SUBSET Slot, marked \in SUBSET Slot,
            root \in [Slot -> ActorRef \cup {NoRef}], dl \in [Slot -> 0..NoDeadline],
            roots \in SUBSET ActorRef :
           /\ DownClosed(scope)
           /\ \A s \in scope : Live(s)
           /\ \A s \in marked : Live(s) /\ state[s] # "Stopping"
           /\ \A s \in marked : \A d \in Subtree(s) : d \in marked \/ state[d] = "Stopping"
           /\ \A s \in targets : Live(s) /\ state[s] # "Quiescing" =>
                                 s \in scope \/ s \in marked \/ state[s] = "Stopping"
           /\ MaintainLocked(scope,
                [s \in Slot |-> IF s \in marked THEN "Quiescing" ELSE state[s]],
                root, dl, roots)
<1> DEFINE stopped == UNION {Subtree(s) : s \in {t \in targets : state[t] = "Starting"}}
           opened == {s \in targets : state[s] = "Active"}
           joined == {drainRoot[s].slot : s \in {t \in targets : state[t] = "Quiescing"}}
           markedBy(o) == {d \in Subtree(o) : state[d] # "Stopping"}
           allMarked == UNION {markedBy(o) : o \in opened}
           opener(d) == CHOOSE o \in opened : d \in markedBy(o)
           earliest(s) == Earliest({deadline} \cup {drainDeadline[d] : d \in markedBy(s)})
           root == [s \in Slot |-> IF s \in allMarked THEN Ref(opener(s)) ELSE drainRoot[s]]
           dl == [s \in Slot |-> IF s \in opened THEN earliest(s)
                       ELSE IF s \in allMarked THEN NoDeadline
                       ELSE IF s \in joined /\ deadline < drainDeadline[s] THEN deadline
                       ELSE drainDeadline[s]]
           roots == {r \in drainRoots : r.slot \notin allMarked} \cup {Ref(s) : s \in opened}
<1>1. stopped \in SUBSET Slot /\ DownClosed(stopped)
  BY UnionDownClosed
<1>2. \A s \in stopped : Live(s)
  BY DEF Subtree
<1>3. \A o \in opened : o \in Slot /\ Live(o) /\ Ref(o) \in ActorRef
  BY RefType DEF Live
<1>4. allMarked \in SUBSET Slot
  BY DEF Subtree
<1>5. \A s \in allMarked : Live(s) /\ state[s] # "Stopping"
  BY DEF Subtree
<1>6. \A s \in allMarked : \A d \in Subtree(s) : d \in allMarked \/ state[d] = "Stopping"
  BY <1>3, SubtreeNested
<1>7. \A s \in allMarked : opener(s) \in opened
  OBVIOUS
<1>8. root \in [Slot -> ActorRef \cup {NoRef}]
  BY <1>3, <1>7 DEF TypeOK
<1>9. \A s \in opened : earliest(s) \in 0..NoDeadline
  <2> SUFFICES ASSUME NEW s \in opened
               PROVE  earliest(s) \in 0..NoDeadline
    OBVIOUS
  <2> DEFINE times == {deadline} \cup {drainDeadline[d] : d \in markedBy(s)}
  <2>1. markedBy(s) \subseteq Slot
    BY DEF Subtree
  <2>2. times \subseteq 0..NoDeadline
    BY <2>1, TimeAssumption DEF TypeOK, Time, NoDeadline
  <2>3. times \in SUBSET Nat /\ times # {}
    BY <2>2
  <2>4. Earliest(times) \in times
    BY <2>3, EarliestIsLeast
  <2> QED
    BY <2>2, <2>4
<1>10. dl \in [Slot -> 0..NoDeadline]
  <2>1. NoDeadline \in 0..NoDeadline /\ deadline \in 0..NoDeadline
    BY TimeAssumption DEF NoDeadline, Time
  <2> HIDE DEF earliest, allMarked, opened, joined
  <2> QED
    BY <1>9, <2>1 DEF TypeOK
<1>11. roots \in SUBSET ActorRef
  BY <1>3 DEF TypeOK
<1>12. MaintainLocked(stopped,
         [s \in Slot |-> IF s \in allMarked THEN "Quiescing" ELSE state[s]], root, dl, roots)
  BY DEF DrainLocked
<1>13. \A s \in targets : Live(s) /\ state[s] # "Quiescing" =>
                           s \in stopped \/ s \in allMarked \/ state[s] = "Stopping"
  <2> SUFFICES ASSUME NEW s \in targets, Live(s), state[s] # "Quiescing",
                      state[s] # "Stopping"
               PROVE  s \in stopped \/ s \in allMarked
    OBVIOUS
  <2>1. s \in Subtree(s)
    BY DEF Subtree
  <2>2. state[s] \in {"Starting", "Active"}
    BY DEF Live, TypeOK, Lifecycles
  <2> QED
    BY <2>1, <2>2
<1> HIDE DEF stopped, allMarked, root, dl, roots
<1> QED
  BY <1>1, <1>2, <1>4, <1>5, <1>6, <1>8, <1>10, <1>11, <1>12, <1>13

(* The state before finalisation of a step that fences one set of slots    *)
(* and marks another as draining.                                          *)
SettleState(fenced, marked) ==
  [s \in Slot |-> IF s \in fenced THEN "Stopping"
                  ELSE IF s \in marked THEN "Quiescing" ELSE state[s]]

(* The shape of every step that may retire an actor.                       *)
SettleShape(fenced, marked, touched, to) ==
  /\ UNCHANGED treeVars
  /\ DownClosed(fenced)
  /\ \A s \in fenced : Live(s)
  /\ \A s \in marked : Live(s) /\ state[s] # "Stopping"
  /\ \A s \in marked : \A d \in Subtree(s) : d \in marked \/ state[d] = "Stopping"
  /\ \A s \in Slot : drainTimedOut[s] => to[s]
  /\ TryFinalize(touched, SettleState(fenced, marked), to)

Settles == \E fenced, marked \in SUBSET Slot, touched \in SUBSET Slot,
              to \in [Slot -> BOOLEAN] : SettleShape(fenced, marked, touched, to)

(* Settling without a fence or a drain keeps the states.                   *)
LEMMA SettleNothing ==
  ASSUME TypeOK
  PROVE  SettleState({}, {}) = state
BY DEF TypeOK, SettleState

(* Settling a fence alone is the fence.                                    *)
LEMMA SettleFence ==
  ASSUME NEW fenced
  PROVE  SettleState(fenced, {}) = Stopping(fenced, state)
BY DEF SettleState, Stopping

(* A fence or a drain of live actors retires nobody by itself.             *)
LEMMA SettleStateFacts ==
  ASSUME TypeOK, NEW fenced \in SUBSET Slot, NEW marked \in SUBSET Slot,
         \A s \in fenced \cup marked : Live(s)
  PROVE  /\ SettleState(fenced, marked) \in [Slot -> Lifecycles]
         /\ \A s \in Slot : Live(s) <=> SettleState(fenced, marked)[s]
                                            \notin {"Absent", "Stopped"}
<1>1. \A s \in Slot : state[s] \in Lifecycles
  BY DEF TypeOK
<1>2. SettleState(fenced, marked) \in [Slot -> Lifecycles]
  BY <1>1 DEF SettleState, Lifecycles
<1>3. \A s \in Slot : Live(s) <=> SettleState(fenced, marked)[s] \notin {"Absent", "Stopped"}
  BY DEF SettleState, Live
<1> QED
  BY <1>2, <1>3

(* try_finalize alone, on a slot or on none.                               *)
LEMMA TouchSettles ==
  ASSUME TypeOK, NEW touched \in SUBSET Slot, UNCHANGED treeVars,
         TryFinalize(touched, state, drainTimedOut)
  PROVE  Settles
<1>1. drainTimedOut \in [Slot -> BOOLEAN]
  BY DEF TypeOK
<1>2. TryFinalize(touched, SettleState({}, {}), drainTimedOut)
  BY SettleNothing
<1>3. SettleShape({}, {}, touched, drainTimedOut)
  BY <1>2 DEF SettleShape, DownClosed
<1> QED
  BY <1>1, <1>3 DEF Settles

(* fence_locked on a downward closed set settles.                          *)
LEMMA FenceSettles ==
  ASSUME TypeOK, LineageLive, UNCHANGED treeVars,
         NEW fenced \in SUBSET Slot, DownClosed(fenced), \A s \in fenced : Live(s),
         NEW touched \in SUBSET Slot, NEW nt, NEW pf,
         FenceLocked(fenced, touched, nt, pf)
  PROVE  Settles
<1>1. drainTimedOut \in [Slot -> BOOLEAN] /\ fenced \cup touched \in SUBSET Slot
  BY DEF TypeOK
<1>2. TryFinalize(fenced \cup touched, SettleState(fenced, {}), drainTimedOut)
  BY SettleFence DEF FenceLocked
<1>3. SettleShape(fenced, {}, fenced \cup touched, drainTimedOut)
  BY <1>2 DEF SettleShape
<1> QED
  BY <1>1, <1>3 DEF Settles

(* The scopes that failure actions fence are closed downwards.             *)
LEMMA ScopeFacts ==
  ASSUME TypeOK, LineageLive, NEW a \in FailureActions, NEW r \in ActorRef \cup {NoRef},
         a = "StopActor" => r \in ActorRef
  PROVE  /\ ScopeOf(a, r) \in SUBSET Slot
         /\ DownClosed(ScopeOf(a, r))
         /\ \A s \in ScopeOf(a, r) : Live(s)
<1>1. CASE a = "StopWorld"
  BY <1>1 DEF ScopeOf, DownClosed, Subtree
<1>2. CASE a = "StopActor" /\ Current(r)
  <2>1. ScopeOf(a, r) = Subtree(r.slot) /\ r.slot \in Slot
    BY <1>2 DEF ScopeOf, ActorRef
  <2> QED
    BY <2>1, SubtreeDownClosed DEF Subtree
<1>3. CASE a # "StopWorld" /\ ~(a = "StopActor" /\ Current(r))
  <2>1. ScopeOf(a, r) = {}
    BY <1>3 DEF ScopeOf
  <2> QED
    BY <2>1 DEF DownClosed
<1> QED
  BY <1>1, <1>2, <1>3

(* maintain_locked on a downward closed scope settles.                     *)
LEMMA MaintainSettles ==
  ASSUME TypeOK, LineageLive, UNCHANGED treeVars,
         NEW scope \in SUBSET Slot, NEW marked \in SUBSET Slot,
         DownClosed(scope), \A s \in scope : Live(s),
         \A s \in marked : Live(s) /\ state[s] # "Stopping",
         \A s \in marked : \A d \in Subtree(s) : d \in marked \/ state[d] = "Stopping",
         NEW root, NEW dl, NEW roots \in SUBSET ActorRef,
         MaintainLocked(scope,
           [s \in Slot |-> IF s \in marked THEN "Quiescing" ELSE state[s]], root, dl, roots)
  PROVE  Settles
<1> DEFINE st == [s \in Slot |-> IF s \in marked THEN "Quiescing" ELSE state[s]]
<1>1. PICK ended, late :
        /\ ended \in SUBSET roots
        /\ LET fenced == scope \cup UNION {Subtree(r.slot) : r \in ended} IN
           TryFinalize(fenced, Stopping(fenced, st),
                       [s \in Slot |-> drainTimedOut[s] \/ s \in late])
  BY DEF MaintainLocked
<1> DEFINE slots == {r.slot : r \in ended}
           fenced == scope \cup UNION {Subtree(s) : s \in slots}
           to == [s \in Slot |-> drainTimedOut[s] \/ s \in late]
<1>2. slots \in SUBSET Slot
  BY <1>1 DEF ActorRef
<1>3. fenced \in SUBSET Slot /\ DownClosed(fenced) /\ \A s \in fenced : Live(s)
  <2>1. UNION {Subtree(s) : s \in slots} \subseteq Slot
          /\ DownClosed(UNION {Subtree(s) : s \in slots})
    BY <1>2, UnionDownClosed
  <2>2. \A s \in UNION {Subtree(t) : t \in slots} : Live(s)
    BY DEF Subtree
  <2> QED
    BY <2>1, <2>2 DEF DownClosed
<1>4. UNION {Subtree(r.slot) : r \in ended} = UNION {Subtree(s) : s \in slots}
  OBVIOUS
<1>5. Stopping(fenced, st) = SettleState(fenced, marked)
  BY DEF Stopping, SettleState
<1>6. TryFinalize(fenced, SettleState(fenced, marked), to)
  BY <1>1, <1>4, <1>5
<1>7. to \in [Slot -> BOOLEAN] /\ \A s \in Slot : drainTimedOut[s] => to[s]
  OBVIOUS
<1> HIDE DEF fenced, to
<1>8. SettleShape(fenced, marked, fenced, to)
  BY <1>3, <1>6, <1>7 DEF SettleShape
<1> QED
  BY <1>3, <1>7, <1>8 DEF Settles

(* drain_locked settles.                                                   *)
LEMMA DrainSettles ==
  ASSUME TypeOK, LineageLive, UNCHANGED treeVars, NEW targets \in SUBSET Slot,
         NEW deadline \in Time, DrainLocked(targets, deadline)
  PROVE  Settles
BY DrainLockedShape, MaintainSettles

(* The steps that change no lifecycle state, or only activate an actor.    *)
Keeps ==
  /\ UNCHANGED <<gen, parent, ancestors>>
  /\ \/ UNCHANGED state
     \/ \E s \in Slot : state[s] = "Starting" /\ state' = [state EXCEPT ![s] = "Active"]

(* Every step allocates, keeps the tree as it is, or settles.              *)
LEMMA StepShape ==
  ASSUME TypeOK, LineageLive, [Next]_vars
  PROVE  \/ \E p \in ActorRef \cup {NoRef}, k \in Kinds : Allocate(p, k)
         \/ Keeps
         \/ Settles
<1>1. CASE \E p \in ActorRef \cup {NoRef}, k \in Kinds : Allocate(p, k)
  BY <1>1
<1>2. ASSUME NEW r \in ActorRef, Activate(r)
      PROVE  Keeps
  BY <1>2 DEF Activate, Keeps, treeVars, ActorRef
<1>3. ASSUME NEW r \in ActorRef, Admit(r) \/ BeginPending(r) \/ Claim(r) \/ TrackTask(r)
      PROVE  Keeps
  BY <1>3 DEF Admit, BeginPending, Claim, TrackTask, Keeps, treeVars
<1>4. ASSUME NEW s \in Slot, EndPending(s)
      PROVE  Keeps
  BY <1>4 DEF EndPending, Keeps, treeVars
<1>5. ASSUME NEW r \in ActorRef, NEW e, ClaimCallback(r, e)
      PROVE  Keeps
  BY <1>5 DEF ClaimCallback, Keeps, treeVars
<1>6. ASSUME NEW r \in ActorRef, ReleaseDelivery(r)
      PROVE  Settles
  BY <1>6, TouchSettles DEF ReleaseDelivery, ActorRef
<1>7. ASSUME NEW r \in ActorRef, ReleaseTask(r)
      PROVE  Settles
  BY <1>7, TouchSettles DEF ReleaseTask, ActorRef
<1>8. ASSUME NEW r \in ActorRef, FinishPython(r)
      PROVE  Settles
  BY <1>8, TouchSettles DEF FinishPython, ActorRef
<1>9. ASSUME NEW r \in ActorRef, NEW q \in BOOLEAN, NEW a \in FailureActions,
             ReportFailure(r, q, a)
      PROVE  Settles
  <2>1. PICK nt, pf : UNCHANGED treeVars /\ FenceLocked(ScopeOf(a, r), {}, nt, pf)
    BY <1>9 DEF ReportFailure
  <2> QED
    BY <2>1, ScopeFacts, FenceSettles
<1>10. ASSUME NEW r \in ActorRef, ClaimFailure(r)
       PROVE  Settles
  <2>1. PICK c \in Slot : UNCHANGED treeVars /\ TryFinalize({c}, state, drainTimedOut)
    BY <1>10 DEF ClaimFailure, Children
  <2> QED
    BY <2>1, TouchSettles
<1>11. ASSUME NEW l \in controlLeases, NEW a \in FailureActions, ReleaseControl(l, a)
       PROVE  Settles
  <2>1. l.owner \in ActorRef /\ l.source \in ActorRef \cup {NoRef}
    BY <1>11 DEF TypeOK
  <2>2. a = "StopActor" => l.source \in ActorRef
    BY <1>11, <2>1 DEF ReleaseControl
  <2>3. UNCHANGED treeVars
          /\ \E touched \in SUBSET Slot : FenceLocked(ScopeOf(a, l.source), touched,
                                                     notification, pendingFailures)
    BY <1>11, <2>1 DEF ReleaseControl, ActorRef
  <2> QED
    BY <2>1, <2>2, <2>3, ScopeFacts, FenceSettles
<1>12. ASSUME NEW r \in ActorRef, Stop(r)
       PROVE  Settles
  <2>1. r.slot \in Slot /\ UNCHANGED treeVars
          /\ FenceLocked(Subtree(r.slot), {}, notification, pendingFailures)
    BY <1>12 DEF Stop, ActorRef
  <2>2. \A s \in Subtree(r.slot) : Live(s)
    BY DEF Subtree
  <2> QED
    BY <2>1, <2>2, SubtreeDownClosed, FenceSettles
<1>13. CASE Close
  <2>1. UNCHANGED treeVars
          /\ FenceLocked(ScopeOf("StopWorld", NoRef), {}, notification, pendingFailures)
    BY <1>13 DEF Close
  <2>2. "StopWorld" \in FailureActions
    BY DEF FailureActions
  <2> QED
    BY <2>1, <2>2, ScopeFacts, FenceSettles
<1>14. ASSUME NEW r \in ActorRef, NEW d \in Time, RequestDrain(r, d)
       PROVE  Settles
  BY <1>14, DrainSettles DEF RequestDrain, ActorRef
<1>15. ASSUME NEW d \in Time, DrainAll(d)
       PROVE  Settles
  BY <1>15, DrainSettles DEF DrainAll
<1>16. CASE Maintain
  <2>1. [s \in Slot |-> IF s \in {} THEN "Quiescing" ELSE state[s]] = state
    BY DEF TypeOK
  <2>2. UNCHANGED treeVars /\ MaintainLocked({}, state, drainRoot, drainDeadline, drainRoots)
    BY <1>16 DEF Maintain
  <2>3. drainRoots \in SUBSET ActorRef /\ DownClosed({})
    BY DEF TypeOK, DownClosed
  <2> QED
    BY <2>1, <2>2, <2>3, MaintainSettles
<1>17. CASE Tick
  BY <1>17 DEF Tick, Keeps, treeVars
<1>18. CASE UNCHANGED vars
  BY <1>18 DEF vars, Keeps, treeVars
<1> QED
  BY <1>1, <1>2, <1>3, <1>4, <1>5, <1>6, <1>7, <1>8, <1>9, <1>10, <1>11, <1>12,
     <1>13, <1>14, <1>15, <1>16, <1>17, <1>18 DEF Next

(* Allocation resets one slot that no lineage mentions.                    *)
LEMMA AllocateFacts ==
  ASSUME TypeOK, LineageLive, NEW p \in ActorRef \cup {NoRef}, NEW k \in Kinds,
         Allocate(p, k)
  PROVE  \E s \in Slot :
           /\ ~Live(s)
           /\ gen' = [gen EXCEPT ![s] = gen[s] + 1]
           /\ gen[s] + 1 \in 1..MaxGeneration
           /\ state' = [state EXCEPT ![s] = "Starting"]
           /\ parent' = [parent EXCEPT ![s] = p]
           /\ ancestors' = [ancestors EXCEPT ![s] =
                              IF p = NoRef THEN {} ELSE {p} \cup ancestors[p.slot]]
           /\ p # NoRef => /\ p.slot \in Slot
                           /\ p.slot # s
                           /\ Current(p)
                           /\ state[p.slot] \in {"Starting", "Active"}
           /\ \A t \in Slot : Live(t) => \A a \in ancestors[t] : a.slot # s
<1>1. PICK s \in NextSlots :
           /\ gen[s] < MaxGeneration
           /\ gen' = [gen EXCEPT ![s] = @ + 1]
           /\ state' = [state EXCEPT ![s] = "Starting"]
           /\ parent' = [parent EXCEPT ![s] = p]
           /\ ancestors' = [ancestors EXCEPT ![s] =
                              IF p = NoRef THEN {} ELSE {p} \cup ancestors[p.slot]]
  BY DEF Allocate
<1>2. s \in Slot /\ ~Live(s)
  BY DEF NextSlots, Live
<1>3. gen[s] + 1 \in 1..MaxGeneration
  BY <1>1, <1>2, GenerationAssumption DEF TypeOK
<1>4. p # NoRef => p.slot \in Slot /\ Current(p) /\ state[p.slot] \in {"Starting", "Active"}
  BY DEF Allocate, MayOwn, ActorRef
<1>5. p # NoRef => p.slot # s
  BY <1>2, <1>4 DEF Live
<1>6. \A t \in Slot : Live(t) => \A a \in ancestors[t] : a.slot # s
  BY <1>2 DEF LineageLive
<1> QED
  BY <1>1, <1>2, <1>3, <1>4, <1>5, <1>6

(* The empty World satisfies the type and lineage invariants.              *)
LEMMA InitTypeOK == Init => TypeOK /\ LineageLive
<1> SUFFICES ASSUME Init PROVE TypeOK /\ LineageLive
  OBVIOUS
<1>1. LineageLive
  BY DEF Init, LineageLive, Live
<1>2. /\ 0 \in 0..MaxGeneration /\ 0 \in 0..MailboxCapacity /\ 0 \in 0..MaxPending
      /\ 0 \in Time /\ NoDeadline \in 0..NoDeadline
  BY GenerationAssumption, CapacityAssumption, TimeAssumption DEF NoDeadline, Time
<1>3. /\ inFlight \in [Slot -> BOOLEAN]
      /\ controlInFlight \in [Slot -> BOOLEAN]
      /\ pythonDone \in [Slot -> BOOLEAN]
      /\ notification \in [Slot -> BOOLEAN]
      /\ drainTimedOut \in [Slot -> BOOLEAN]
      /\ closed \in BOOLEAN
  BY DEF Init
<1>4. /\ drainRoots \in SUBSET ActorRef
      /\ deliveryLeases \in SUBSET ActorRef
      /\ controlLeases \in SUBSET [owner : ActorRef, source : ActorRef \cup {NoRef}]
  BY DEF Init
<1>5. TypeOK
  BY <1>2, <1>3, <1>4 DEF Init, TypeOK, Lifecycles
<1> QED
  BY <1>1, <1>5

(* Every step keeps the lineages of live actors live.                      *)
LEMMA LineageStep ==
  ASSUME TypeOK, LineageLive, [Next]_vars
  PROVE  LineageLive'
<1>1. CASE Keeps
  <2>1. \A s \in Slot : Live(s)' <=> Live(s)
    BY <1>1 DEF Keeps, Live, TypeOK
  <2>2. UNCHANGED <<gen, parent, ancestors>>
    BY <1>1 DEF Keeps
  <2>3. \A s \in Slot : \A a \in ancestors[s] : a.slot \in Slot
    BY DEF TypeOK, ActorRef
  <2> QED
    BY <2>1, <2>2, <2>3 DEF LineageLive, Current
<1>2. CASE Settles
  <2>1. PICK fenced, marked \in SUBSET Slot, touched \in SUBSET Slot,
             to \in [Slot -> BOOLEAN] : SettleShape(fenced, marked, touched, to)
    BY <1>2 DEF Settles
  <2>2. \A s \in fenced \cup marked : Live(s)
    BY <2>1 DEF SettleShape
  <2>3. UNCHANGED treeVars /\ TryFinalize(touched, SettleState(fenced, marked), to)
    BY <2>1 DEF SettleShape
  <2> QED
    BY <2>2, <2>3, SettleStateFacts, FinalisePreservesLineage
<1>3. ASSUME NEW p \in ActorRef \cup {NoRef}, NEW k \in Kinds, Allocate(p, k)
      PROVE  LineageLive'
  <2>1. PICK s \in Slot :
           /\ ~Live(s)
           /\ gen' = [gen EXCEPT ![s] = gen[s] + 1]
           /\ gen[s] + 1 \in 1..MaxGeneration
           /\ state' = [state EXCEPT ![s] = "Starting"]
           /\ parent' = [parent EXCEPT ![s] = p]
           /\ ancestors' = [ancestors EXCEPT ![s] =
                              IF p = NoRef THEN {} ELSE {p} \cup ancestors[p.slot]]
           /\ p # NoRef => /\ p.slot \in Slot
                           /\ p.slot # s
                           /\ Current(p)
                           /\ state[p.slot] \in {"Starting", "Active"}
           /\ \A t \in Slot : Live(t) => \A a \in ancestors[t] : a.slot # s
    BY <1>3, AllocateFacts
  <2>2. ASSUME NEW t \in Slot, t # s, Live(t)'
        PROVE  /\ Live(t) /\ gen'[t] = gen[t] /\ parent'[t] = parent[t]
               /\ ancestors'[t] = ancestors[t]
               /\ \A a \in ancestors[t] : /\ a \in ActorRef /\ a.slot # s
                                          /\ Current(a)' /\ Live(a.slot)'
                                          /\ ancestors'[a.slot] = ancestors[a.slot]
    <3>1. Live(t) /\ gen'[t] = gen[t] /\ parent'[t] = parent[t]
            /\ ancestors'[t] = ancestors[t]
      BY <2>1, <2>2 DEF TypeOK, Live
    <3>2. \A a \in ancestors[t] : a \in ActorRef /\ a.slot \in Slot /\ a.slot # s
                                   /\ Current(a) /\ Live(a.slot)
      BY <2>1, <3>1 DEF LineageLive, TypeOK, ActorRef
    <3>3. \A a \in ancestors[t] : Current(a)' /\ Live(a.slot)'
                                   /\ ancestors'[a.slot] = ancestors[a.slot]
      BY <2>1, <3>2 DEF TypeOK, Live, Current
    <3> QED
      BY <3>1, <3>2, <3>3
  <2>3. \A t \in Slot : t # s /\ Live(t)' =>
          /\ gen'[t] > 0
          /\ parent'[t] # NoRef => parent'[t] \in ancestors'[t]
          /\ parent'[t] = NoRef => ancestors'[t] = {}
          /\ \A a \in ancestors'[t] : /\ Current(a)'
                                      /\ Live(a.slot)'
                                      /\ a.slot # t
                                      /\ ancestors'[a.slot] \subseteq ancestors'[t]
    BY <2>2 DEF LineageLive
  <2>4. /\ gen'[s] > 0 /\ parent'[s] = p
        /\ ancestors'[s] = IF p = NoRef THEN {} ELSE {p} \cup ancestors[p.slot]
    BY <2>1 DEF TypeOK
  <2>5. CASE p = NoRef
    BY <2>3, <2>4, <2>5 DEF LineageLive
  <2>6. CASE p # NoRef
    <3>1. Live(p.slot) /\ Live(p.slot)' /\ p \in ActorRef
      BY <2>1, <2>6 DEF Live, TypeOK
    <3>2. Current(p)' /\ ancestors'[p.slot] = ancestors[p.slot]
      BY <2>1, <2>6 DEF Current, TypeOK
    <3>3. \A a \in ancestors[p.slot] :
            /\ Current(a)' /\ Live(a.slot)' /\ a.slot # s
            /\ ancestors'[a.slot] = ancestors[a.slot]
            /\ ancestors[a.slot] \subseteq ancestors[p.slot]
      BY <2>1, <2>2, <2>6, <3>1 DEF LineageLive
    <3>4. \A a \in ancestors'[s] : /\ Current(a)' /\ Live(a.slot)' /\ a.slot # s
                                    /\ ancestors'[a.slot] \subseteq ancestors'[s]
      BY <2>1, <2>4, <2>6, <3>1, <3>2, <3>3
    <3> QED
      BY <2>3, <2>4, <2>6, <3>4 DEF LineageLive
  <2> QED
    BY <2>5, <2>6
<1> QED
  BY <1>1, <1>2, <1>3, StepShape

(* Every action keeps the types; one step per action.                      *)
LEMMA TypeStep ==
  ASSUME TypeOK, LineageLive, [Next]_vars
  PROVE  TypeOK'
<1> USE DEF treeVars, busyVars, failureVars, workVars, drainVars, leaseVars, worldVars
<1>1. ASSUME NEW p \in ActorRef \cup {NoRef}, NEW k \in Kinds, Allocate(p, k)
      PROVE  TypeOK'
  <2>1. PICK s \in NextSlots :
       /\ gen[s] < MaxGeneration
       /\ gen' = [gen EXCEPT ![s] = @ + 1]
       /\ state' = [state EXCEPT ![s] = "Starting"]
       /\ kind' = [kind EXCEPT ![s] = k]
       /\ parent' = [parent EXCEPT ![s] = p]
       /\ ancestors' = [ancestors EXCEPT ![s] =
                          IF p = NoRef THEN {} ELSE {p} \cup ancestors[p.slot]]
       /\ inFlight' = [inFlight EXCEPT ![s] = FALSE]
       /\ controlInFlight' = [controlInFlight EXCEPT ![s] = FALSE]
       /\ nativeTasks' = [nativeTasks EXCEPT ![s] = 0]
       /\ pythonDone' = [pythonDone EXCEPT ![s] = (k = "Native")]
       /\ notification' = [notification EXCEPT ![s] = FALSE]
       /\ pendingFailures' = [pendingFailures EXCEPT ![s] = 0]
       /\ queue' = [queue EXCEPT ![s] = 0]
       /\ pending' = [pending EXCEPT ![s] = 0]
       /\ drainRoot' = [drainRoot EXCEPT ![s] = NoRef]
       /\ drainDeadline' = [drainDeadline EXCEPT ![s] = NoDeadline]
       /\ drainTimedOut' = [drainTimedOut EXCEPT ![s] = FALSE]
    BY <1>1 DEF Allocate
  <2>2. s \in Slot
    BY DEF NextSlots
  <2>3. gen' \in [Slot -> 0..MaxGeneration]
    BY <2>1, <2>2, GenerationAssumption DEF TypeOK
  <2>4. /\ 0 \in 0..MailboxCapacity /\ 0 \in 0..MaxPending
        /\ NoDeadline \in 0..NoDeadline
    BY CapacityAssumption, TimeAssumption DEF NoDeadline
  <2>5. (IF p = NoRef THEN {} ELSE {p} \cup ancestors[p.slot]) \in SUBSET ActorRef
    BY DEF TypeOK, ActorRef
  <2>6. /\ ancestors' \in [Slot -> SUBSET ActorRef]
        /\ parent' \in [Slot -> ActorRef \cup {NoRef}]
        /\ drainRoot' \in [Slot -> ActorRef \cup {NoRef}]
    BY <2>1, <2>2, <2>5 DEF TypeOK
  <2>7. /\ pythonDone' \in [Slot -> BOOLEAN]
        /\ inFlight' \in [Slot -> BOOLEAN]
        /\ controlInFlight' \in [Slot -> BOOLEAN]
        /\ notification' \in [Slot -> BOOLEAN]
        /\ drainTimedOut' \in [Slot -> BOOLEAN]
    BY <2>1, <2>2 DEF TypeOK
  <2>8. state' \in [Slot -> Lifecycles] /\ kind' \in [Slot -> {"Native", "Python"}]
    BY <2>1, <2>2, KindsAssumption DEF TypeOK, Lifecycles
  <2>9. UNCHANGED <<drainRoots, leaseVars, worldVars>>
    BY <1>1 DEF Allocate
  <2> QED
    BY <2>1, <2>2, <2>3, <2>4, <2>6, <2>7, <2>8, <2>9 DEF TypeOK
<1>2. ASSUME NEW r \in ActorRef, Activate(r)
      PROVE  TypeOK'
  BY <1>2 DEF Activate, TypeOK, Lifecycles, ActorRef
<1>3. ASSUME NEW r \in ActorRef, Admit(r)
      PROVE  TypeOK'
  BY <1>3, CapacityAssumption DEF Admit, HasRoom, TypeOK, ActorRef
<1>4. ASSUME NEW r \in ActorRef, BeginPending(r)
      PROVE  TypeOK'
  BY <1>4, CapacityAssumption DEF BeginPending, TypeOK, ActorRef
<1>5. ASSUME NEW s \in Slot, EndPending(s)
      PROVE  TypeOK'
  BY <1>5, CapacityAssumption DEF EndPending, TypeOK
<1>6. ASSUME NEW r \in ActorRef, Claim(r)
      PROVE  TypeOK'
  <2>1. PICK left \in 0..MailboxCapacity :
          /\ queue' = [queue EXCEPT ![r.slot] = left]
          /\ \/ /\ inFlight' = [inFlight EXCEPT ![r.slot] = TRUE]
                /\ deliveryLeases' = deliveryLeases \cup {r}
             \/ UNCHANGED <<inFlight, deliveryLeases>>
    BY <1>6 DEF Claim
  <2>2. queue' \in [Slot -> 0..MailboxCapacity]
    BY <2>1 DEF TypeOK
  <2>3. inFlight' \in [Slot -> BOOLEAN] /\ deliveryLeases' \in SUBSET ActorRef
    BY <2>1 DEF TypeOK
  <2>4. UNCHANGED <<treeVars, state, drainTimedOut, controlInFlight, nativeTasks,
                    pythonDone, failureVars, pending, drainVars, taskLeases,
                    controlLeases, worldVars>>
    BY <1>6 DEF Claim
  <2> QED
    BY <2>2, <2>3, <2>4 DEF TypeOK
<1>7. ASSUME NEW r \in ActorRef, ReleaseDelivery(r)
      PROVE  TypeOK'
  <2>1. TryFinalize(IF Current(r) THEN {r.slot} ELSE {}, state, drainTimedOut)
    BY <1>7 DEF ReleaseDelivery
  <2>2. state' \in [Slot -> Lifecycles] /\ drainTimedOut' \in [Slot -> BOOLEAN]
    BY <2>1, TryFinalizeType DEF TypeOK
  <2> QED
    BY <1>7, <2>2 DEF ReleaseDelivery, TypeOK
<1>8. ASSUME NEW r \in ActorRef, TrackTask(r)
      PROVE  TypeOK'
  <2>1. /\ nativeTasks' = [nativeTasks EXCEPT ![r.slot] = @ + 1]
        /\ taskLeases' = [taskLeases EXCEPT ![r] = @ + 1]
        /\ UNCHANGED <<treeVars, state, drainTimedOut, inFlight, controlInFlight,
                       pythonDone, failureVars, workVars, drainVars, deliveryLeases,
                       controlLeases, worldVars>>
    BY <1>8 DEF TrackTask
  <2>2. nativeTasks' \in [Slot -> Nat]
    BY <2>1 DEF TypeOK, ActorRef
  <2>3. taskLeases' \in [ActorRef -> Nat]
    BY <2>1 DEF TypeOK
  <2> QED
    BY <2>1, <2>2, <2>3 DEF TypeOK
<1>9. ASSUME NEW r \in ActorRef, ReleaseTask(r)
      PROVE  TypeOK'
  <2>1. TryFinalize(IF Current(r) THEN {r.slot} ELSE {}, state, drainTimedOut)
    BY <1>9 DEF ReleaseTask
  <2>2. state' \in [Slot -> Lifecycles] /\ drainTimedOut' \in [Slot -> BOOLEAN]
    BY <2>1, TryFinalizeType DEF TypeOK
  <2>3. nativeTasks' \in [Slot -> Nat] /\ taskLeases' \in [ActorRef -> Nat]
    <3>1. /\ taskLeases[r] > 0
          /\ taskLeases' = [taskLeases EXCEPT ![r] = @ - 1]
          /\ nativeTasks' = IF Current(r) /\ nativeTasks[r.slot] > 0
                            THEN [nativeTasks EXCEPT ![r.slot] = @ - 1]
                            ELSE nativeTasks
      BY <1>9 DEF ReleaseTask
    <3>2. taskLeases' \in [ActorRef -> Nat]
      BY <3>1 DEF TypeOK
    <3>3. nativeTasks' \in [Slot -> Nat]
      BY <3>1 DEF TypeOK, ActorRef
    <3> QED
      BY <3>2, <3>3
  <2> QED
    BY <1>9, <2>2, <2>3 DEF ReleaseTask, TypeOK
<1>10. ASSUME NEW r \in ActorRef, FinishPython(r)
       PROVE  TypeOK'
  <2>1. TryFinalize({r.slot}, state, drainTimedOut)
    BY <1>10 DEF FinishPython
  <2>2. state' \in [Slot -> Lifecycles] /\ drainTimedOut' \in [Slot -> BOOLEAN]
    BY <2>1, TryFinalizeType DEF TypeOK
  <2> QED
    BY <1>10, <2>2 DEF FinishPython, TypeOK
<1>11. ASSUME NEW r \in ActorRef, NEW e \in {"Starting", "Active", "Quiescing"},
              ClaimCallback(r, e)
       PROVE  TypeOK'
  <2>1. controlLeases' \in SUBSET [owner : ActorRef, source : ActorRef \cup {NoRef}]
    BY <1>11 DEF ClaimCallback, TypeOK
  <2> QED
    BY <1>11, <2>1 DEF ClaimCallback, TypeOK
<1>12. ASSUME NEW r \in ActorRef, NEW q \in BOOLEAN, NEW a \in FailureActions,
              ReportFailure(r, q, a)
       PROVE  TypeOK'
  <2>1. PICK new \in BOOLEAN :
          FenceLocked(ScopeOf(a, r), {}, [notification EXCEPT ![r.slot] = @ \/ new],
            IF new THEN [pendingFailures EXCEPT ![parent[r.slot].slot] = @ + 1]
                   ELSE pendingFailures)
    BY <1>12 DEF ReportFailure
  <2> DEFINE nt == [notification EXCEPT ![r.slot] = @ \/ new]
             pf == IF new THEN [pendingFailures EXCEPT ![parent[r.slot].slot] = @ + 1]
                   ELSE pendingFailures
  <2>2. nt \in [Slot -> BOOLEAN]
    BY DEF TypeOK
  <2>3. pf \in [Slot -> Int]
    <3>1. ASSUME NEW x PROVE [pendingFailures EXCEPT ![x] = @ + 1] \in [Slot -> Int]
      <4>1. CASE x \in Slot
        BY <4>1 DEF TypeOK
      <4>2. CASE x \notin Slot
        BY <4>2 DEF TypeOK
      <4> QED
        BY <4>1, <4>2
    <3> QED
      BY <3>1 DEF TypeOK
  <2>4. FenceLocked(ScopeOf(a, r), {}, nt, pf)
    BY <2>1
  <2>5. UNCHANGED <<treeVars, busyVars, leaseVars, now>> /\ closed' \in BOOLEAN
    BY <1>12 DEF ReportFailure
  <2> HIDE DEF nt, pf
  <2> QED
    BY <2>2, <2>3, <2>4, <2>5, FenceLockedType DEF TypeOK
<1>13. ASSUME NEW r \in ActorRef, ClaimFailure(r)
       PROVE  TypeOK'
  <2>1. PICK c \in Children(r.slot) :
       /\ notification' = [notification EXCEPT ![c] = FALSE]
       /\ pendingFailures' = [pendingFailures EXCEPT ![r.slot] = @ - 1]
       /\ controlInFlight' = [controlInFlight EXCEPT ![r.slot] = TRUE]
       /\ controlLeases' = controlLeases \cup {[owner |-> r, source |-> Ref(c)]}
       /\ UNCHANGED <<treeVars, inFlight, nativeTasks, pythonDone, workVars,
                      drainVars, deliveryLeases, taskLeases, worldVars>>
       /\ TryFinalize({c}, state, drainTimedOut)
    BY <1>13 DEF ClaimFailure
  <2>2. c \in Slot /\ Ref(c) \in ActorRef
    BY RefType DEF Children
  <2>3. state' \in [Slot -> Lifecycles] /\ drainTimedOut' \in [Slot -> BOOLEAN]
    BY <2>1, TryFinalizeType DEF TypeOK
  <2>4. controlLeases' \in SUBSET [owner : ActorRef, source : ActorRef \cup {NoRef}]
    BY <2>1, <2>2 DEF TypeOK
  <2>5. notification' \in [Slot -> BOOLEAN] /\ controlInFlight' \in [Slot -> BOOLEAN]
    BY <2>1, <2>2 DEF TypeOK
  <2>6. pendingFailures' \in [Slot -> Int]
    BY <2>1, <2>2 DEF TypeOK, ActorRef
  <2> QED
    BY <2>1, <2>3, <2>4, <2>5, <2>6 DEF TypeOK
<1>14. ASSUME NEW l \in controlLeases, NEW a \in FailureActions, ReleaseControl(l, a)
       PROVE  TypeOK'
  <2>1. PICK touched : FenceLocked(ScopeOf(a, l.source), touched, notification, pendingFailures)
    BY <1>14 DEF ReleaseControl
  <2>2. controlInFlight' \in [Slot -> BOOLEAN]
    BY <1>14 DEF ReleaseControl, TypeOK
  <2>3. controlLeases' \in SUBSET [owner : ActorRef, source : ActorRef \cup {NoRef}]
    BY <1>14 DEF ReleaseControl, TypeOK
  <2>4. closed' \in BOOLEAN
    BY <1>14 DEF ReleaseControl
  <2>5. UNCHANGED <<treeVars, inFlight, nativeTasks, pythonDone, deliveryLeases,
                    taskLeases, now>>
    BY <1>14 DEF ReleaseControl
  <2> QED
    BY <2>1, <2>2, <2>3, <2>4, <2>5, FenceLockedType DEF TypeOK
<1>15. ASSUME NEW r \in ActorRef, Stop(r)
       PROVE  TypeOK'
  <2>1. FenceLocked(Subtree(r.slot), {}, notification, pendingFailures)
    BY <1>15 DEF Stop
  <2> QED
    BY <1>15, <2>1, FenceLockedType DEF Stop, TypeOK
<1>16. CASE Close
  <2>1. FenceLocked(ScopeOf("StopWorld", NoRef), {}, notification, pendingFailures)
    BY <1>16 DEF Close
  <2> QED
    BY <1>16, <2>1, FenceLockedType DEF Close, TypeOK
<1>17. ASSUME NEW targets \in SUBSET Slot, NEW d \in Time, DrainLocked(targets, d),
              UNCHANGED <<treeVars, busyVars, leaseVars, now>>, closed' \in BOOLEAN
       PROVE  TypeOK'
  <2>1. PICK scope \in SUBSET Slot, marked \in SUBSET Slot,
             root \in [Slot -> ActorRef \cup {NoRef}], dl \in [Slot -> 0..NoDeadline], roots \in SUBSET ActorRef :
          MaintainLocked(scope,
            [s \in Slot |-> IF s \in marked THEN "Quiescing" ELSE state[s]], root, dl, roots)
    BY <1>17, DrainLockedShape
  <2>2. [s \in Slot |-> IF s \in marked THEN "Quiescing" ELSE state[s]]
          \in [Slot -> Lifecycles]
    BY DEF TypeOK, Lifecycles
  <2> QED
    BY <1>17, <2>1, <2>2, MaintainLockedType DEF TypeOK
<1>18. ASSUME NEW r \in ActorRef, NEW d \in Time, RequestDrain(r, d)
       PROVE  TypeOK'
  <2>1. {r.slot} \in SUBSET Slot /\ closed' \in BOOLEAN
    BY <1>18 DEF RequestDrain, ActorRef, TypeOK
  <2> QED
    BY <1>17, <1>18, <2>1 DEF RequestDrain
<1>19. ASSUME NEW d \in Time, DrainAll(d)
       PROVE  TypeOK'
  <2>1. {s \in Slot : Live(s) /\ parent[s] = NoRef} \in SUBSET Slot
    OBVIOUS
  <2> QED
    BY <1>17, <1>19, <2>1 DEF DrainAll
<1>20. CASE Maintain
  <2>1. MaintainLocked({}, state, drainRoot, drainDeadline, drainRoots)
    BY <1>20 DEF Maintain
  <2> QED
    BY <1>20, <2>1, MaintainLockedType DEF Maintain, TypeOK
<1>21. CASE Tick
  BY <1>21, TimeAssumption DEF Tick, TypeOK, Time
<1>22. CASE UNCHANGED vars
  BY <1>22 DEF vars, TypeOK
<1> QED
  BY <1>1, <1>2, <1>3, <1>4, <1>5, <1>6, <1>7, <1>8, <1>9, <1>10, <1>11, <1>12,
     <1>13, <1>14, <1>15, <1>16, <1>18, <1>19, <1>20, <1>21, <1>22 DEF Next

(* A slot leaves the lifecycle in a settling step only if it is quiet after *)
(* the step, and otherwise has the state the fence or the drain gave it.    *)
LEMMA SettleKeeps ==
  ASSUME TypeOK, NEW fenced, NEW marked, NEW touched, NEW to,
         SettleShape(fenced, marked, touched, to), NEW s \in Slot
  PROVE  /\ Live(s)' => Live(s) /\ state'[s] = SettleState(fenced, marked)[s]
         /\ ~Live(s) => state'[s] = SettleState(fenced, marked)[s]
         /\ Live(s) /\ ~Live(s)' => state'[s] = "Stopped" /\ Quiet(s)'
<1>1. state'[s] = IF s \in Finalised(touched, SettleState(fenced, marked))
                  THEN "Stopped" ELSE SettleState(fenced, marked)[s]
  BY DEF SettleShape, TryFinalize
<1>2. s \in Finalised(touched, SettleState(fenced, marked)) => Live(s) /\ Quiet(s)'
  BY DEF Finalised, Subtree
<1>3. Live(s) <=> SettleState(fenced, marked)[s] \notin {"Absent", "Stopped"}
  BY DEF SettleShape, SettleState, Live
<1> QED
  BY <1>1, <1>2, <1>3 DEF Live

(* The fence stays closed downwards through every step.                    *)
LEMMA FenceStep ==
  ASSUME TypeOK, LineageLive, FenceClosed, [Next]_vars
  PROVE  FenceClosed'
<1>0. \A s \in Slot : \A a \in ancestors[s] : a.slot \in Slot
  BY DEF TypeOK, ActorRef
<1>1. CASE Keeps
  <2>1. UNCHANGED <<gen, parent, ancestors>>
    BY <1>1 DEF Keeps
  <2>2. CASE UNCHANGED state
    BY <2>1, <2>2 DEF FenceClosed, Live
  <2>3. ASSUME NEW t \in Slot, state[t] = "Starting",
               state' = [state EXCEPT ![t] = "Active"]
        PROVE  FenceClosed'
    <3>1. \A s \in Slot : state'[s] = IF s = t THEN "Active" ELSE state[s]
      BY <2>3 DEF TypeOK
    <3>2. \A a \in ancestors[t] : state[a.slot] \notin {"Stopping", "Quiescing"}
      BY <2>3 DEF FenceClosed, Live
    <3> QED
      BY <1>0, <2>1, <2>3, <3>1, <3>2 DEF FenceClosed, Live
  <2> QED
    BY <1>1, <2>2, <2>3 DEF Keeps
<1>2. CASE Settles
  <2>1. PICK fenced, marked \in SUBSET Slot, touched \in SUBSET Slot,
             to \in [Slot -> BOOLEAN] : SettleShape(fenced, marked, touched, to)
    BY <1>2 DEF Settles
  <2> DEFINE ss == SettleState(fenced, marked)
  <2>2. UNCHANGED ancestors
    BY <2>1 DEF SettleShape, treeVars
  <2> SUFFICES ASSUME NEW s \in Slot, Live(s)', NEW a \in ancestors[s]
               PROVE  /\ state'[a.slot] = "Stopping" => state'[s] = "Stopping"
                      /\ state'[a.slot] = "Quiescing" => state'[s] \in {"Quiescing", "Stopping"}
    BY <2>2 DEF FenceClosed
  <2>3. Live(s) /\ state'[s] = ss[s]
    BY <2>1, SettleKeeps
  <2>4. a.slot \in Slot /\ Live(a.slot)' /\ state'[a.slot] = ss[a.slot]
    <3>1. a.slot \in Slot /\ Live(a.slot)'
      BY <1>0, <2>2, LineageStep DEF LineageLive
    <3> QED
      BY <2>1, <3>1, SettleKeeps
  <2>5. s \in Subtree(a.slot)
    <3>1. Current(a) /\ a \in ActorRef
      BY <2>3 DEF LineageLive, TypeOK
    <3>2. a = Ref(a.slot)
      BY <3>1 DEF Current, Ref, ActorRef
    <3> QED
      BY <2>3, <3>2 DEF Subtree
  <2>6. a.slot \in fenced => s \in fenced
    BY <2>1, <2>5 DEF SettleShape, DownClosed
  <2>7. a.slot \in marked => s \in marked \/ state[s] = "Stopping"
    BY <2>1, <2>5 DEF SettleShape
  <2>8. \A t \in marked : state[t] # "Stopping"
    BY <2>1 DEF SettleShape
  <2>9. /\ state[a.slot] = "Stopping" => state[s] = "Stopping"
        /\ state[a.slot] = "Quiescing" => state[s] \in {"Quiescing", "Stopping"}
    BY <2>3 DEF FenceClosed
  <2> QED
    BY <2>3, <2>4, <2>6, <2>7, <2>8, <2>9 DEF SettleState
<1>3. ASSUME NEW p \in ActorRef \cup {NoRef}, NEW k \in Kinds, Allocate(p, k)
      PROVE  FenceClosed'
  <2>1. PICK s \in Slot :
           /\ ~Live(s)
           /\ state' = [state EXCEPT ![s] = "Starting"]
           /\ ancestors' = [ancestors EXCEPT ![s] =
                              IF p = NoRef THEN {} ELSE {p} \cup ancestors[p.slot]]
           /\ p # NoRef => /\ p.slot \in Slot
                           /\ p.slot # s
                           /\ state[p.slot] \in {"Starting", "Active"}
           /\ \A t \in Slot : Live(t) => \A a \in ancestors[t] : a.slot # s
    BY <1>3, AllocateFacts
  <2>2. \A t \in Slot : state'[t] = IF t = s THEN "Starting" ELSE state[t]
    BY <2>1 DEF TypeOK
  <2>3. \A t \in Slot : ancestors'[t] =
          IF t = s THEN IF p = NoRef THEN {} ELSE {p} \cup ancestors[p.slot]
          ELSE ancestors[t]
    BY <2>1 DEF TypeOK
  <2>4. \A a \in ancestors'[s] : /\ a.slot \in Slot /\ a.slot # s
                                 /\ state[a.slot] \notin {"Stopping", "Quiescing"}
    BY <1>0, <2>1, <2>3 DEF FenceClosed, Live
  <2>5. ASSUME NEW t \in Slot, t # s, Live(t)', NEW a \in ancestors'[t]
        PROVE  /\ state'[a.slot] = "Stopping" => state'[t] = "Stopping"
               /\ state'[a.slot] = "Quiescing" => state'[t] \in {"Quiescing", "Stopping"}
    <3>1. Live(t) /\ a \in ancestors[t] /\ a.slot # s /\ a.slot \in Slot
      BY <1>0, <2>1, <2>2, <2>3, <2>5 DEF Live
    <3> QED
      BY <2>2, <2>5, <3>1 DEF FenceClosed
  <2> QED
    BY <2>2, <2>4, <2>5 DEF FenceClosed
<1> QED
  BY <1>1, <1>2, <1>3, StepShape

(* The safety core: types, lineages and the closure of every fence, with   *)
(* what the fence of a stop or of a drain guarantees below it.             *)
CoreInv == TypeOK /\ LineageLive /\ FenceClosed

(* The core invariant is inductive.                                        *)
LEMMA CoreStep == CoreInv /\ [Next]_vars => CoreInv'
  BY TypeStep, LineageStep, FenceStep DEF CoreInv

(* The core invariant holds in every behaviour of the World.               *)
THEOREM CoreInvariant == Spec => []CoreInv
<1>1. Init => CoreInv
  BY InitTypeOK DEF CoreInv, Init, FenceClosed, Live
<1> QED
  BY <1>1, CoreStep, PTL DEF Spec

(* Every field keeps its type in every behaviour (the World's actor table  *)
(* and the lease handles of lib.rs, supervision.rs and callbacks.rs).      *)
THEOREM TypeCorrect == Spec => []TypeOK
BY CoreInvariant, PTL DEF CoreInv

(* execution_state_locked and fence_locked walk lineages that are alive.   *)
THEOREM LineageAlwaysLive == Spec => []LineageLive
BY CoreInvariant, PTL DEF CoreInv

(* A stop or a drain covers its whole scope, whatever allocate and activate *)
(* do around it.                                                           *)
THEOREM FenceAlwaysClosed == Spec => []FenceClosed
BY CoreInvariant, PTL DEF CoreInv

(* One step never moves a generation back through the lifecycle.           *)
LEMMA ForwardStep ==
  ASSUME TypeOK, LineageLive, [Next]_vars, NEW s \in Slot
  PROVE  \/ gen'[s] = gen[s] /\ Rank(state'[s]) >= Rank(state[s])
         \/ gen'[s] > gen[s] /\ ~Live(s)
<1>0. state[s] \in Lifecycles /\ gen[s] \in Int
  BY DEF TypeOK
<1>1. CASE Keeps
  <2>1. gen'[s] = gen[s]
    BY <1>1 DEF Keeps
  <2>2. state'[s] = state[s] \/ (state[s] = "Starting" /\ state'[s] = "Active")
    BY <1>1 DEF Keeps, TypeOK
  <2> QED
    BY <1>0, <2>1, <2>2 DEF Rank, Lifecycles
<1>2. CASE Settles
  <2>1. PICK fenced, marked \in SUBSET Slot, touched \in SUBSET Slot,
             to \in [Slot -> BOOLEAN] : SettleShape(fenced, marked, touched, to)
    BY <1>2 DEF Settles
  <2>2. gen'[s] = gen[s]
    BY <2>1 DEF SettleShape, treeVars
  <2>3. \/ state'[s] = SettleState(fenced, marked)[s]
        \/ Live(s) /\ state'[s] = "Stopped"
    BY <2>1, SettleKeeps
  <2>4. \/ SettleState(fenced, marked)[s] = state[s]
        \/ Live(s) /\ SettleState(fenced, marked)[s] = "Stopping"
        \/ /\ Live(s) /\ state[s] # "Stopping"
           /\ SettleState(fenced, marked)[s] = "Quiescing"
    BY <2>1 DEF SettleShape, SettleState
  <2> QED
    BY <1>0, <2>2, <2>3, <2>4 DEF Rank, Lifecycles, Live
<1>3. ASSUME NEW p \in ActorRef \cup {NoRef}, NEW k \in Kinds, Allocate(p, k)
      PROVE  \/ gen'[s] = gen[s] /\ Rank(state'[s]) >= Rank(state[s])
             \/ gen'[s] > gen[s] /\ ~Live(s)
  <2>1. PICK t \in Slot : /\ ~Live(t)
                          /\ gen' = [gen EXCEPT ![t] = gen[t] + 1]
                          /\ state' = [state EXCEPT ![t] = "Starting"]
    BY <1>3, AllocateFacts
  <2>2. CASE s = t
    BY <1>0, <2>1, <2>2 DEF TypeOK
  <2>3. CASE s # t
    <3>1. gen'[s] = gen[s] /\ state'[s] = state[s]
      BY <2>1, <2>3 DEF TypeOK
    <3> QED
      BY <1>0, <3>1 DEF Rank, Lifecycles
  <2> QED
    BY <2>2, <2>3
<1> QED
  BY <1>1, <1>2, <1>3, StepShape

(* No call, however late, revives a fenced actor or reuses a slot whose    *)
(* actor has not retired.                                                  *)
THEOREM NoRevival == Spec => NeverRevived
<1>1. CoreInv /\ [Next]_vars =>
        [\A s \in Slot : \/ gen'[s] = gen[s] /\ Rank(state'[s]) >= Rank(state[s])
                         \/ gen'[s] > gen[s] /\ ~Live(s)]_vars
  BY ForwardStep DEF CoreInv
<1> QED
  BY <1>1, CoreInvariant, PTL DEF Spec, NeverRevived

-----------------------------------------------------------------------------
(* Leases.                                                                 *)

(* A step that allocates nothing keeps every generation, revives no slot   *)
(* and retires only quiet ones.                                            *)
LEMMA RetiresQuiet ==
  ASSUME TypeOK, Keeps \/ Settles
  PROVE  /\ UNCHANGED <<gen, parent, ancestors>>
         /\ \A s \in Slot : /\ Live(s)' => Live(s)
                            /\ Live(s) /\ ~Live(s)' => Quiet(s)'
<1>1. CASE Keeps
  <2>1. \A s \in Slot : Live(s)' <=> Live(s)
    BY <1>1 DEF Keeps, Live, TypeOK
  <2> QED
    BY <1>1, <2>1 DEF Keeps
<1>2. CASE Settles
  <2>1. PICK fenced, marked \in SUBSET Slot, touched \in SUBSET Slot,
             to \in [Slot -> BOOLEAN] : SettleShape(fenced, marked, touched, to)
    BY <1>2 DEF Settles
  <2>2. UNCHANGED <<gen, parent, ancestors>>
    BY <2>1 DEF SettleShape, treeVars
  <2>3. \A s \in Slot : /\ Live(s)' => Live(s)
                        /\ Live(s) /\ ~Live(s)' => Quiet(s)'
    BY <2>1, SettleKeeps
  <2> QED
    BY <2>2, <2>3
<1> QED
  BY <1>1, <1>2

(* The lease invariant over the flags and leases after a step, before the  *)
(* step's finalisation.                                                    *)
LeasesBefore ==
  /\ \A r \in deliveryLeases' : Current(r) /\ Live(r.slot) /\ inFlight'[r.slot]
  /\ \A l \in controlLeases' : /\ Current(l.owner)
                               /\ Live(l.owner.slot)
                               /\ controlInFlight'[l.owner.slot]
  /\ \A r \in ActorRef :
       taskLeases'[r] = IF Current(r) /\ Live(r.slot) THEN nativeTasks'[r.slot] ELSE 0
  /\ \A s \in Slot :
       /\ ~(inFlight'[s] /\ controlInFlight'[s])
       /\ inFlight'[s] => Ref(s) \in deliveryLeases'
       /\ controlInFlight'[s] => \E l \in controlLeases' : l.owner = Ref(s)
  /\ \A l, m \in controlLeases' : l.owner = m.owner => l = m

(* Finalisation keeps it: it retires no slot that a lease pins.            *)
LEMMA LeasesFrame ==
  ASSUME TypeOK', LeasesBefore, gen' = gen,
         \A s \in Slot : Live(s)' => Live(s),
         \A s \in Slot : Live(s) /\ ~Live(s)' => Quiet(s)'
  PROVE  LeasesPinSlot'
<1>1. /\ \A r \in ActorRef : r.slot \in Slot
      /\ \A r \in deliveryLeases' : r \in ActorRef
      /\ \A l \in controlLeases' : l.owner \in ActorRef
  BY DEF TypeOK, ActorRef
<1>2. \A r \in ActorRef : Current(r)' <=> Current(r)
  BY DEF Current
<1>3. \A s \in Slot : Ref(s)' = Ref(s)
  BY DEF Ref
<1>4. \A r \in deliveryLeases' : Current(r)' /\ Live(r.slot)' /\ inFlight'[r.slot]
  BY <1>1, <1>2 DEF LeasesBefore, Quiet
<1>5. \A l \in controlLeases' : /\ Current(l.owner)'
                                /\ Live(l.owner.slot)'
                                /\ controlInFlight'[l.owner.slot]
  BY <1>1, <1>2 DEF LeasesBefore, Quiet
<1>6. ASSUME NEW r \in ActorRef
      PROVE  taskLeases'[r] = IF Current(r)' /\ Live(r.slot)' THEN nativeTasks'[r.slot] ELSE 0
  <2>1. r.slot \in Slot /\ (Current(r)' <=> Current(r))
    BY <1>1, <1>2
  <2>2. CASE Live(r.slot)'
    BY <2>1, <2>2 DEF LeasesBefore
  <2>3. CASE ~Live(r.slot)' /\ Live(r.slot)
    <3>1. nativeTasks'[r.slot] = 0
      BY <2>1, <2>3 DEF Quiet
    <3> QED
      BY <2>1, <2>3, <3>1 DEF LeasesBefore
  <2>4. CASE ~Live(r.slot)' /\ ~Live(r.slot)
    BY <2>1, <2>4 DEF LeasesBefore
  <2> QED
    BY <2>2, <2>3, <2>4
<1>7. \A s \in Slot :
       /\ ~(inFlight'[s] /\ controlInFlight'[s])
       /\ inFlight'[s] => Ref(s)' \in deliveryLeases'
       /\ controlInFlight'[s] => \E l \in controlLeases' : l.owner = Ref(s)'
  BY <1>3 DEF LeasesBefore
<1> QED
  BY <1>4, <1>5, <1>6, <1>7 DEF LeasesPinSlot, LeasesBefore

(* A step that leaves leases and flags alone.                              *)
LEMMA LeasesUntouched ==
  ASSUME LeasesPinSlot, UNCHANGED <<inFlight, controlInFlight, nativeTasks, leaseVars>>
  PROVE  LeasesBefore
BY DEF LeasesPinSlot, LeasesBefore, leaseVars

(* What a lease says of its slot, as references.                           *)
LEMMA LeaseRefs ==
  ASSUME TypeOK
  PROVE  /\ \A r \in ActorRef : r.slot \in Slot /\ (Current(r) <=> r = Ref(r.slot))
         /\ \A s \in Slot : Ref(s).slot = s
         /\ \A r \in deliveryLeases : r \in ActorRef
         /\ \A l \in controlLeases : l.owner \in ActorRef
BY DEF TypeOK, ActorRef, Current, Ref

(* claim on an idle actor.                                                 *)
LEMMA ClaimLeases ==
  ASSUME TypeOK, LeasesPinSlot, NEW r \in ActorRef, Claim(r)
  PROVE  LeasesBefore
<1>1. /\ Current(r) /\ Live(r.slot) /\ Idle(r.slot)
      /\ UNCHANGED <<controlInFlight, nativeTasks, taskLeases, controlLeases>>
      /\ \/ /\ inFlight' = [inFlight EXCEPT ![r.slot] = TRUE]
            /\ deliveryLeases' = deliveryLeases \cup {r}
         \/ UNCHANGED <<inFlight, deliveryLeases>>
  BY DEF Claim, Admissible
<1>2. CASE UNCHANGED <<inFlight, deliveryLeases>>
  BY <1>1, <1>2 DEF LeasesPinSlot, LeasesBefore
<1>3. CASE /\ inFlight' = [inFlight EXCEPT ![r.slot] = TRUE]
           /\ deliveryLeases' = deliveryLeases \cup {r}
  <2>1. r.slot \in Slot /\ r = Ref(r.slot)
    BY <1>1, LeaseRefs
  <2>2. inFlight'[r.slot] /\ \A s \in Slot : s # r.slot => (inFlight'[s] <=> inFlight[s])
    BY <1>3, <2>1 DEF TypeOK
  <2>3. ~controlInFlight[r.slot]
    BY <1>1 DEF Idle
  <2>4. \A q \in deliveryLeases' : Current(q) /\ Live(q.slot) /\ inFlight'[q.slot]
    BY <1>1, <1>3, <2>1, <2>2, LeaseRefs DEF LeasesPinSlot
  <2>5. \A s \in Slot : /\ ~(inFlight'[s] /\ controlInFlight[s])
                        /\ inFlight'[s] => Ref(s) \in deliveryLeases'
    BY <1>3, <2>1, <2>2, <2>3 DEF LeasesPinSlot
  <2> QED
    BY <1>1, <2>4, <2>5 DEF LeasesPinSlot, LeasesBefore
<1> QED
  BY <1>1, <1>2, <1>3

(* Giving a delivery lease back.                                           *)
LEMMA ReleaseDeliveryLeases ==
  ASSUME TypeOK, LeasesPinSlot, NEW r \in ActorRef, ReleaseDelivery(r)
  PROVE  LeasesBefore
<1>1. /\ r \in deliveryLeases
      /\ deliveryLeases' = deliveryLeases \ {r}
      /\ inFlight' = [inFlight EXCEPT ![r.slot] = FALSE]
      /\ UNCHANGED <<controlInFlight, nativeTasks, taskLeases, controlLeases>>
  BY DEF ReleaseDelivery
<1>2. r.slot \in Slot /\ r = Ref(r.slot)
  BY <1>1, LeaseRefs DEF LeasesPinSlot
<1>3. ~inFlight'[r.slot] /\ \A s \in Slot : s # r.slot => (inFlight'[s] <=> inFlight[s])
  BY <1>1, <1>2 DEF TypeOK
<1>4. \A q \in deliveryLeases' : q.slot \in Slot /\ q.slot # r.slot
  BY <1>1, <1>2, LeaseRefs DEF LeasesPinSlot
<1>5. \A q \in deliveryLeases' : Current(q) /\ Live(q.slot) /\ inFlight'[q.slot]
  BY <1>1, <1>3, <1>4 DEF LeasesPinSlot
<1>6. \A s \in Slot : /\ ~(inFlight'[s] /\ controlInFlight[s])
                      /\ inFlight'[s] => Ref(s) \in deliveryLeases'
  BY <1>1, <1>2, <1>3, LeaseRefs DEF LeasesPinSlot
<1> QED
  BY <1>1, <1>5, <1>6 DEF LeasesPinSlot, LeasesBefore

(* Registering a task on an actor that is not winding down.                *)
LEMMA TrackTaskLeases ==
  ASSUME TypeOK, LeasesPinSlot, NEW r \in ActorRef, TrackTask(r)
  PROVE  LeasesBefore
<1>1. /\ Current(r) /\ Live(r.slot)
      /\ nativeTasks' = [nativeTasks EXCEPT ![r.slot] = @ + 1]
      /\ taskLeases' = [taskLeases EXCEPT ![r] = @ + 1]
      /\ UNCHANGED <<inFlight, controlInFlight, deliveryLeases, controlLeases>>
  BY DEF TrackTask, Live
<1>2. r.slot \in Slot /\ r = Ref(r.slot)
  BY <1>1, LeaseRefs
<1>3. ASSUME NEW q \in ActorRef
      PROVE  taskLeases'[q] = IF Current(q) /\ Live(q.slot) THEN nativeTasks'[q.slot] ELSE 0
  <2>1. q.slot \in Slot /\ (Current(q) <=> q = Ref(q.slot))
    BY LeaseRefs
  <2>2. taskLeases[q] = IF Current(q) /\ Live(q.slot) THEN nativeTasks[q.slot] ELSE 0
    BY DEF LeasesPinSlot
  <2>3. CASE q = r
    BY <1>1, <1>2, <2>2, <2>3 DEF TypeOK
  <2>4. CASE q # r
    <3>1. taskLeases'[q] = taskLeases[q]
      BY <1>1, <2>4 DEF TypeOK
    <3>2. Current(q) => q.slot # r.slot
      BY <1>2, <2>1, <2>4
    <3>3. Current(q) => nativeTasks'[q.slot] = nativeTasks[q.slot]
      BY <1>1, <2>1, <3>2 DEF TypeOK
    <3> QED
      BY <2>2, <3>1, <3>3
  <2> QED
    BY <2>3, <2>4
<1> QED
  BY <1>1, <1>3 DEF LeasesPinSlot, LeasesBefore

(* Dropping a task registration.                                           *)
LEMMA ReleaseTaskLeases ==
  ASSUME TypeOK, LeasesPinSlot, NEW r \in ActorRef, ReleaseTask(r)
  PROVE  LeasesBefore
<1>1. /\ taskLeases[r] > 0
      /\ taskLeases' = [taskLeases EXCEPT ![r] = @ - 1]
      /\ nativeTasks' = IF Current(r) /\ nativeTasks[r.slot] > 0
                        THEN [nativeTasks EXCEPT ![r.slot] = @ - 1]
                        ELSE nativeTasks
      /\ UNCHANGED <<inFlight, controlInFlight, deliveryLeases, controlLeases>>
  BY DEF ReleaseTask
<1>2. taskLeases[r] = IF Current(r) /\ Live(r.slot) THEN nativeTasks[r.slot] ELSE 0
  BY DEF LeasesPinSlot
<1>3. Current(r) /\ Live(r.slot) /\ nativeTasks[r.slot] = taskLeases[r]
  BY <1>1, <1>2
<1>4. nativeTasks' = [nativeTasks EXCEPT ![r.slot] = @ - 1]
  BY <1>1, <1>3
<1>5. r.slot \in Slot /\ r = Ref(r.slot)
  BY <1>3, LeaseRefs
<1>6. ASSUME NEW q \in ActorRef
      PROVE  taskLeases'[q] = IF Current(q) /\ Live(q.slot) THEN nativeTasks'[q.slot] ELSE 0
  <2>1. q.slot \in Slot /\ (Current(q) <=> q = Ref(q.slot))
    BY LeaseRefs
  <2>2. taskLeases[q] = IF Current(q) /\ Live(q.slot) THEN nativeTasks[q.slot] ELSE 0
    BY DEF LeasesPinSlot
  <2>3. CASE q = r
    BY <1>1, <1>3, <1>4, <1>5, <2>2, <2>3 DEF TypeOK
  <2>4. CASE q # r
    <3>1. taskLeases'[q] = taskLeases[q]
      BY <1>1, <2>4 DEF TypeOK
    <3>2. Current(q) => q.slot # r.slot
      BY <1>5, <2>1, <2>4
    <3>3. Current(q) => nativeTasks'[q.slot] = nativeTasks[q.slot]
      BY <1>4, <2>1, <3>2 DEF TypeOK
    <3> QED
      BY <2>2, <3>1, <3>3
  <2> QED
    BY <2>3, <2>4
<1> QED
  BY <1>1, <1>6 DEF LeasesPinSlot, LeasesBefore

(* Taking a control lease, for a notification or a native hook.            *)
LEMMA ClaimControlLeases ==
  ASSUME TypeOK, LeasesPinSlot, NEW r \in ActorRef, NEW src,
         Current(r), Live(r.slot), Idle(r.slot),
         controlInFlight' = [controlInFlight EXCEPT ![r.slot] = TRUE],
         controlLeases' = controlLeases \cup {[owner |-> r, source |-> src]},
         UNCHANGED <<inFlight, nativeTasks, deliveryLeases, taskLeases>>
  PROVE  LeasesBefore
<1> DEFINE lease == [owner |-> r, source |-> src]
<1>1. r.slot \in Slot /\ r = Ref(r.slot) /\ lease.owner = r
  BY LeaseRefs
<1>2. controlLeases' = controlLeases \cup {lease}
  OBVIOUS
<1> HIDE DEF lease
<1>3. /\ controlInFlight'[r.slot]
      /\ \A s \in Slot : s # r.slot => (controlInFlight'[s] <=> controlInFlight[s])
  BY <1>1 DEF TypeOK
<1>4. ~inFlight[r.slot] /\ ~controlInFlight[r.slot]
  BY DEF Idle
<1>5. \A l \in controlLeases : l.owner # r
  BY <1>4 DEF LeasesPinSlot
<1>6. \A l \in controlLeases' : /\ Current(l.owner)
                                /\ Live(l.owner.slot)
                                /\ controlInFlight'[l.owner.slot]
  BY <1>1, <1>2, <1>3, LeaseRefs DEF LeasesPinSlot
<1>7. \A s \in Slot :
        /\ ~(inFlight[s] /\ controlInFlight'[s])
        /\ controlInFlight'[s] => \E l \in controlLeases' : l.owner = Ref(s)
  BY <1>1, <1>2, <1>3, <1>4 DEF LeasesPinSlot
<1>8. \A l, m \in controlLeases' : l.owner = m.owner => l = m
  BY <1>1, <1>2, <1>5 DEF LeasesPinSlot
<1> QED
  BY <1>6, <1>7, <1>8 DEF LeasesPinSlot, LeasesBefore

(* Giving a control lease back.                                            *)
LEMMA ReleaseControlLeases ==
  ASSUME TypeOK, LeasesPinSlot, NEW l \in controlLeases, NEW a, ReleaseControl(l, a)
  PROVE  LeasesBefore
<1>1. /\ controlLeases' = controlLeases \ {l}
      /\ UNCHANGED <<inFlight, nativeTasks, deliveryLeases, taskLeases>>
      /\ controlInFlight' = IF Current(l.owner)
                            THEN [controlInFlight EXCEPT ![l.owner.slot] = FALSE]
                            ELSE controlInFlight
  BY DEF ReleaseControl
<1>2. Current(l.owner) /\ l.owner \in ActorRef
  BY LeaseRefs DEF LeasesPinSlot
<1>3. l.owner.slot \in Slot /\ l.owner = Ref(l.owner.slot)
  BY <1>2, LeaseRefs
<1>4. controlInFlight' = [controlInFlight EXCEPT ![l.owner.slot] = FALSE]
  BY <1>1, <1>2
<1>5. /\ ~controlInFlight'[l.owner.slot]
      /\ \A s \in Slot : s # l.owner.slot => (controlInFlight'[s] <=> controlInFlight[s])
  BY <1>3, <1>4 DEF TypeOK
<1>6. \A m \in controlLeases' : m \in controlLeases /\ m.owner # l.owner
  BY <1>1 DEF LeasesPinSlot
<1>7. \A m \in controlLeases' : m.owner.slot \in Slot /\ m.owner.slot # l.owner.slot
  BY <1>3, <1>6, LeaseRefs DEF LeasesPinSlot
<1>8. \A m \in controlLeases' : /\ Current(m.owner)
                                /\ Live(m.owner.slot)
                                /\ controlInFlight'[m.owner.slot]
  BY <1>5, <1>6, <1>7 DEF LeasesPinSlot
<1>9. \A s \in Slot :
        /\ ~(inFlight[s] /\ controlInFlight'[s])
        /\ controlInFlight'[s] => \E m \in controlLeases' : m.owner = Ref(s)
  BY <1>1, <1>3, <1>5, LeaseRefs DEF LeasesPinSlot
<1> QED
  BY <1>1, <1>6, <1>8, <1>9 DEF LeasesPinSlot, LeasesBefore

(* allocate takes a slot that no lease pins.                               *)
LEMMA AllocateLeases ==
  ASSUME TypeOK, LeasesPinSlot, NEW p, NEW k, Allocate(p, k)
  PROVE  LeasesPinSlot'
<1>1. PICK s \in Slot :
        /\ ~Live(s)
        /\ gen' = [gen EXCEPT ![s] = @ + 1]
        /\ state' = [state EXCEPT ![s] = "Starting"]
        /\ inFlight' = [inFlight EXCEPT ![s] = FALSE]
        /\ controlInFlight' = [controlInFlight EXCEPT ![s] = FALSE]
        /\ nativeTasks' = [nativeTasks EXCEPT ![s] = 0]
  BY DEF Allocate, NextSlots, Live
<1>2. UNCHANGED <<deliveryLeases, taskLeases, controlLeases>>
  BY DEF Allocate, leaseVars
<1>3. /\ gen[s] \in Int /\ gen'[s] = gen[s] + 1
      /\ state'[s] = "Starting" /\ ~inFlight'[s] /\ ~controlInFlight'[s]
      /\ nativeTasks'[s] = 0
      /\ \A t \in Slot : t # s => /\ gen'[t] = gen[t] /\ state'[t] = state[t]
                                  /\ inFlight'[t] <=> inFlight[t]
                                  /\ controlInFlight'[t] <=> controlInFlight[t]
                                  /\ nativeTasks'[t] = nativeTasks[t]
  BY <1>1 DEF TypeOK
<1>4. \A t \in Slot : t # s => Ref(t)' = Ref(t) /\ (Live(t)' <=> Live(t))
  BY <1>3 DEF Ref, Live
<1>5. \A r \in ActorRef : r.slot \in Slot /\ (r.slot # s => (Current(r)' <=> Current(r)))
  BY <1>3, LeaseRefs DEF Current
<1>6. \A r \in deliveryLeases : r \in ActorRef /\ r.slot # s
  BY <1>1, LeaseRefs DEF LeasesPinSlot
<1>7. \A l \in controlLeases : l.owner \in ActorRef /\ l.owner.slot # s
  BY <1>1, LeaseRefs DEF LeasesPinSlot
<1>8. \A r \in deliveryLeases : Current(r)' /\ Live(r.slot)' /\ inFlight'[r.slot]
  BY <1>3, <1>4, <1>5, <1>6 DEF LeasesPinSlot
<1>9. \A l \in controlLeases : /\ Current(l.owner)'
                               /\ Live(l.owner.slot)'
                               /\ controlInFlight'[l.owner.slot]
  BY <1>3, <1>4, <1>5, <1>7 DEF LeasesPinSlot
<1>10. ASSUME NEW r \in ActorRef
       PROVE  taskLeases[r] = IF Current(r)' /\ Live(r.slot)' THEN nativeTasks'[r.slot] ELSE 0
  <2>1. CASE r.slot = s
    <3>1. taskLeases[r] = 0
      BY <1>1, <2>1 DEF LeasesPinSlot
    <3> QED
      BY <1>3, <2>1, <3>1
  <2>2. CASE r.slot # s
    BY <1>3, <1>4, <1>5, <2>2 DEF LeasesPinSlot
  <2> QED
    BY <2>1, <2>2
<1>11. \A t \in Slot :
         /\ ~(inFlight'[t] /\ controlInFlight'[t])
         /\ inFlight'[t] => Ref(t)' \in deliveryLeases
         /\ controlInFlight'[t] => \E l \in controlLeases : l.owner = Ref(t)'
  BY <1>3, <1>4 DEF LeasesPinSlot
<1> QED
  BY <1>2, <1>8, <1>9, <1>10, <1>11 DEF LeasesPinSlot

(* Every step keeps every lease on a live actor of its own generation.     *)
LEMMA LeaseStep ==
  ASSUME CoreInv, LeasesPinSlot, [Next]_vars
  PROVE  LeasesPinSlot'
<1> USE DEF CoreInv
<1>0. TypeOK'
  BY CoreStep
<1>1. CASE \E p \in ActorRef \cup {NoRef}, k \in Kinds : Allocate(p, k)
  BY <1>1, AllocateLeases
<1>2. CASE ~\E p \in ActorRef \cup {NoRef}, k \in Kinds : Allocate(p, k)
  <2>1. Keeps \/ Settles
    BY <1>2, StepShape
  <2> SUFFICES LeasesBefore
    BY <1>0, <2>1, RetiresQuiet, LeasesFrame
  <2>2. CASE UNCHANGED <<inFlight, controlInFlight, nativeTasks, leaseVars>>
    BY <2>2, LeasesUntouched
  <2>3. ASSUME NEW r \in ActorRef, Claim(r)
        PROVE  LeasesBefore
    BY <2>3, ClaimLeases
  <2>4. ASSUME NEW r \in ActorRef, ReleaseDelivery(r)
        PROVE  LeasesBefore
    BY <2>4, ReleaseDeliveryLeases
  <2>5. ASSUME NEW r \in ActorRef, TrackTask(r)
        PROVE  LeasesBefore
    BY <2>5, TrackTaskLeases
  <2>6. ASSUME NEW r \in ActorRef, ReleaseTask(r)
        PROVE  LeasesBefore
    BY <2>6, ReleaseTaskLeases
  <2>7. ASSUME NEW r \in ActorRef, NEW e, ClaimCallback(r, e)
        PROVE  LeasesBefore
    BY <2>7, ClaimControlLeases DEF ClaimCallback
  <2>8. ASSUME NEW r \in ActorRef, ClaimFailure(r)
        PROVE  LeasesBefore
    BY <2>8, ClaimControlLeases DEF ClaimFailure, Admissible
  <2>9. ASSUME NEW l \in controlLeases, NEW a, ReleaseControl(l, a)
        PROVE  LeasesBefore
    BY <2>9, ReleaseControlLeases
  <2>10. ASSUME NEW r \in ActorRef,
                \/ Activate(r) \/ Admit(r) \/ BeginPending(r) \/ FinishPython(r)
                \/ Stop(r)
                \/ \E q \in BOOLEAN, a \in FailureActions : ReportFailure(r, q, a)
                \/ \E d \in Time : RequestDrain(r, d)
         PROVE  LeasesBefore
    BY <2>2, <2>10 DEF Activate, Admit, BeginPending, FinishPython, Stop, ReportFailure,
                       RequestDrain, busyVars
  <2>11. CASE \/ \E s \in Slot : EndPending(s)
              \/ Close \/ Maintain \/ Tick
              \/ \E d \in Time : DrainAll(d)
    BY <2>2, <2>11 DEF EndPending, Close, Maintain, Tick, DrainAll, busyVars
  <2>12. CASE UNCHANGED vars
    BY <2>2, <2>12 DEF vars, busyVars
  <2> QED
    BY <1>2, <2>3, <2>4, <2>5, <2>6, <2>7, <2>8, <2>9, <2>10, <2>11, <2>12 DEF Next
<1> QED
  BY <1>1, <1>2

(* A lease pins its slot, an actor runs one callback at a time, and every  *)
(* flag and task count has the leases it stands for (DeliveryLease,        *)
(* FailureLease, NativeCallbackLease and TaskRegistration, whose drops     *)
(* clear in_flight by slot alone).                                         *)
THEOREM LeasesAlwaysPin == Spec => []LeasesPinSlot
<1>1. ASSUME Init PROVE LeasesPinSlot
  <2>1. \A r \in ActorRef : taskLeases[r] = 0 /\ r.slot \in Slot /\ ~Live(r.slot)
    BY <1>1 DEF Init, Live, ActorRef
  <2>2. \A s \in Slot : ~inFlight[s] /\ ~controlInFlight[s]
    BY <1>1 DEF Init
  <2>3. deliveryLeases = {} /\ controlLeases = {}
    BY <1>1 DEF Init
  <2> QED
    BY <2>1, <2>2, <2>3 DEF LeasesPinSlot
<1>2. CoreInv /\ LeasesPinSlot /\ [Next]_vars => LeasesPinSlot'
  BY LeaseStep
<1> QED
  BY <1>1, <1>2, CoreInvariant, PTL DEF Spec

-----------------------------------------------------------------------------
(* Finalisation.                                                           *)

(* How lineages hang together: a lineage names only issued references, it  *)
(* contains the lineage of each of its live members even when its own slot *)
(* is retired, and a live actor below another is, or is below, one of that *)
(* actor's children.                                                       *)
Linked ==
  \A s \in Slot : \A a \in ancestors[s] :
    /\ a.generation <= gen[a.slot]
    /\ Current(a) /\ Live(a.slot) => ancestors[a.slot] \subseteq ancestors[s]
    /\ Live(s) => \E c \in Slot : /\ Live(c) /\ parent[c] = a
                                  /\ c = s \/ Ref(c) \in ancestors[s]

(* Every step keeps lineages linked.                                       *)
LEMMA LinkedStep ==
  ASSUME TypeOK, LineageLive, Linked, [Next]_vars
  PROVE  Linked'
<1>0. LineageLive'
  BY LineageStep
<1>t. \A s \in Slot : \A a \in ancestors[s] : a \in ActorRef /\ a.slot \in Slot
                                               /\ a.generation \in Int
  BY DEF TypeOK, ActorRef
<1>1. CASE Keeps \/ Settles
  <2>1. UNCHANGED <<gen, parent, ancestors>> /\ \A s \in Slot : Live(s)' => Live(s)
    BY <1>1, RetiresQuiet
  <2> SUFFICES ASSUME NEW s \in Slot, NEW a \in ancestors[s]
               PROVE  /\ a.generation <= gen[a.slot]
                      /\ Current(a)' /\ Live(a.slot)' => ancestors[a.slot] \subseteq ancestors[s]
                      /\ Live(s)' => \E c \in Slot : /\ Live(c)' /\ parent[c] = a
                                                     /\ c = s \/ Ref(c)' \in ancestors[s]
    BY <2>1 DEF Linked
  <2>2. a.slot \in Slot /\ (Current(a)' <=> Current(a))
    BY <1>t, <2>1 DEF Current
  <2>3. a.generation <= gen[a.slot]
    BY DEF Linked
  <2>4. Current(a)' /\ Live(a.slot)' => ancestors[a.slot] \subseteq ancestors[s]
    BY <2>1, <2>2 DEF Linked
  <2>5. ASSUME Live(s)'
        PROVE  \E c \in Slot : /\ Live(c)' /\ parent[c] = a
                               /\ c = s \/ Ref(c)' \in ancestors[s]
    <3>1. PICK c \in Slot : Live(c) /\ parent[c] = a /\ (c = s \/ Ref(c) \in ancestors[s])
      BY <2>1, <2>5 DEF Linked
    <3>2. Ref(c)' = Ref(c) /\ Ref(c).slot = c
      BY <2>1 DEF Ref
    <3>3. Live(c)'
      BY <1>0, <2>1, <2>5, <3>1, <3>2 DEF LineageLive
    <3> QED
      BY <3>1, <3>2, <3>3
  <2> QED
    BY <2>3, <2>4, <2>5
<1>2. ASSUME NEW p \in ActorRef \cup {NoRef}, NEW k \in Kinds, Allocate(p, k)
      PROVE  Linked'
  <2>1. PICK s \in Slot :
           /\ ~Live(s)
           /\ gen' = [gen EXCEPT ![s] = gen[s] + 1]
           /\ state' = [state EXCEPT ![s] = "Starting"]
           /\ parent' = [parent EXCEPT ![s] = p]
           /\ ancestors' = [ancestors EXCEPT ![s] =
                              IF p = NoRef THEN {} ELSE {p} \cup ancestors[p.slot]]
           /\ p # NoRef => /\ p.slot \in Slot
                           /\ p.slot # s
                           /\ Current(p)
                           /\ state[p.slot] \in {"Starting", "Active"}
           /\ \A t \in Slot : Live(t) => \A a \in ancestors[t] : a.slot # s
    BY <1>2, AllocateFacts
  <2>2. /\ gen[s] \in Int /\ gen'[s] = gen[s] + 1 /\ parent'[s] = p /\ Live(s)'
        /\ ancestors'[s] = IF p = NoRef THEN {} ELSE {p} \cup ancestors[p.slot]
    BY <2>1 DEF TypeOK, Live
  <2>3. \A t \in Slot : t # s =>
          /\ gen'[t] = gen[t] /\ parent'[t] = parent[t] /\ ancestors'[t] = ancestors[t]
          /\ Live(t)' <=> Live(t)
          /\ Ref(t)' = Ref(t)
    BY <2>1 DEF TypeOK, Live, Ref
  <2>4. ASSUME NEW t \in Slot, t # s, NEW a \in ancestors[t]
        PROVE  /\ a.generation <= gen'[a.slot]
               /\ Current(a)' /\ Live(a.slot)' => a.slot # s /\ ancestors'[a.slot] \subseteq ancestors[t]
    <3>1. a.slot \in Slot /\ a.generation \in Int /\ a.generation <= gen[a.slot]
            /\ gen[a.slot] \in Int
      BY <1>t DEF Linked, TypeOK
    <3>2. CASE a.slot = s
      BY <2>2, <3>1, <3>2 DEF Current
    <3>3. CASE a.slot # s
      <4>1. Current(a)' <=> Current(a)
        BY <2>3, <3>1, <3>3 DEF Current
      <4> QED
        BY <2>3, <3>1, <3>3, <4>1 DEF Linked
    <3> QED
      BY <3>2, <3>3
  <2>5. ASSUME NEW t \in Slot, t # s, NEW a \in ancestors[t], Live(t)'
        PROVE  \E c \in Slot : /\ Live(c)' /\ parent'[c] = a
                               /\ c = t \/ Ref(c)' \in ancestors[t]
    <3>1. PICK c \in Slot : Live(c) /\ parent[c] = a /\ (c = t \/ Ref(c) \in ancestors[t])
      BY <2>3, <2>5 DEF Linked
    <3>2. c # s
      BY <2>1, <3>1
    <3> QED
      BY <2>3, <3>1, <3>2
  <2>6. ASSUME p # NoRef, NEW a \in ancestors'[s]
        PROVE  /\ a.generation <= gen'[a.slot]
               /\ ancestors'[a.slot] \subseteq ancestors'[s]
               /\ \E c \in Slot : /\ Live(c)' /\ parent'[c] = a
                                  /\ c = s \/ Ref(c)' \in ancestors'[s]
    <3>1. p \in ActorRef /\ p.slot \in Slot /\ p.slot # s /\ Live(p.slot) /\ Current(p)
      BY <2>1, <2>6 DEF Live
    <3>2. Ref(p.slot) = p
      BY <3>1 DEF Current, Ref, ActorRef
    <3>3. CASE a = p
      BY <2>2, <2>3, <2>6, <3>1, <3>3 DEF Current, TypeOK, ActorRef
    <3>4. CASE a # p
      <4>1. a \in ancestors[p.slot]
        BY <2>2, <2>6, <3>4
      <4>2. a.slot \in Slot /\ a.slot # s /\ Current(a) /\ Live(a.slot)
        BY <1>t, <2>1, <3>1, <4>1 DEF LineageLive
      <4>3. a.generation <= gen'[a.slot] /\ ancestors'[a.slot] \subseteq ancestors[p.slot]
        BY <2>3, <3>1, <4>1, <4>2, <1>t DEF LineageLive, Linked
      <4>4. PICK c \in Slot : /\ Live(c) /\ parent[c] = a
                              /\ c = p.slot \/ Ref(c) \in ancestors[p.slot]
        BY <3>1, <4>1 DEF Linked
      <4>5. c # s /\ Ref(c) \in {p} \cup ancestors[p.slot]
        BY <2>1, <3>2, <4>4
      <4> QED
        BY <2>2, <2>3, <2>6, <4>3, <4>4, <4>5
    <3> QED
      BY <3>3, <3>4
  <2>7. ASSUME NEW t \in Slot, NEW a \in ancestors'[t]
        PROVE  /\ a.generation <= gen'[a.slot]
               /\ Current(a)' /\ Live(a.slot)' => ancestors'[a.slot] \subseteq ancestors'[t]
               /\ Live(t)' => \E c \in Slot : /\ Live(c)' /\ parent'[c] = a
                                              /\ c = t \/ Ref(c)' \in ancestors'[t]
    <3>1. CASE t = s
      BY <2>2, <2>6, <2>7, <3>1
    <3>2. CASE t # s
      BY <2>3, <2>4, <2>5, <2>7, <3>2
    <3> QED
      BY <3>1, <3>2
  <2> QED
    BY <2>7 DEF Linked
<1> QED
  BY <1>1, <1>2, StepShape

(* A stopping actor has something left to wait for, and nothing to run.    *)
Waiting ==
  \A s \in Slot : state[s] = "Stopping" =>
    /\ ~Quiet(s) \/ Children(s) # {}
    /\ queue[s] = 0 /\ pending[s] = 0

(* The steps that may retire actors, seen from the actors that wait: only  *)
(* a slot handed to try_finalize becomes quiet, and the fence leaves no    *)
(* work behind.                                                            *)
WindShape(fenced, marked, touched) ==
  /\ \E to \in [Slot -> BOOLEAN] : SettleShape(fenced, marked, touched, to)
  /\ touched \subseteq Slot
  /\ fenced \subseteq touched
  /\ \A s \in Slot : Live(s) /\ Quiet(s)' => Quiet(s) \/ s \in touched
  /\ \A s \in fenced : queue'[s] = 0 /\ pending'[s] = 0
  /\ \A s \in Slot : queue'[s] <= queue[s] /\ pending'[s] <= pending[s]

(* A live actor that names another as its parent is below it.              *)
LEMMA ChildBelow ==
  ASSUME TypeOK, LineageLive, NEW c \in Slot, Live(c), NEW s \in Slot, parent[c] = Ref(s),
         Live(s)
  PROVE  Ref(s) \in ancestors[c] /\ c \in Subtree(s)
<1>1. parent[c] # NoRef
  BY RefType, NoRefAssumption
<1>2. Ref(s) \in ancestors[c]
  BY <1>1 DEF LineageLive
<1> QED
  BY <1>2 DEF Subtree

(* Actors whose children are all retired by a step have no one left below. *)
LEMMA RetiredBelow ==
  ASSUME TypeOK, LineageLive, Linked, NEW touched, NEW st, NEW s \in Slot,
         \A c \in Children(s) : c \in Finalised(touched, st)
  PROVE  \A d \in Subtree(s) : d = s \/ d \in Finalised(touched, st)
<1> SUFFICES ASSUME NEW d \in Subtree(s), d # s
             PROVE  d \in Finalised(touched, st)
  OBVIOUS
<1>1. d \in Slot /\ Live(d) /\ Ref(s) \in ancestors[d]
  BY DEF Subtree
<1>2. PICK c \in Slot : Live(c) /\ parent[c] = Ref(s) /\ (c = d \/ Ref(c) \in ancestors[d])
  BY <1>1 DEF Linked
<1>3. c \in Children(s) /\ d \in Subtree(c)
  BY <1>1, <1>2 DEF Children, Subtree
<1> QED
  BY <1>3, FinalisedDownClosed

(* The last of an actor's children to retire makes the code look at it.    *)
LEMMA RetiredChildReaches ==
  ASSUME TypeOK, LineageLive, Linked, NEW touched \in SUBSET Slot, NEW st,
         NEW s \in Slot, Live(s), NEW c \in Children(s), c \in Finalised(touched, st)
  PROVE  \E t \in touched : Ref(s) \in ancestors[t]
<1>1. c \in Slot /\ Live(c) /\ parent[c] = Ref(s)
  BY DEF Children
<1>2. c \in Subtree(c)
  BY <1>1 DEF Subtree
<1>3. c \in touched \/ \E t \in touched : Ref(c) \in ancestors[t]
  BY <1>2 DEF Finalised
<1>4. Ref(s) \in ancestors[c]
  BY <1>1, ChildBelow
<1>5. CASE c \in touched
  BY <1>4, <1>5
<1>6. ASSUME NEW t \in touched, Ref(c) \in ancestors[t]
      PROVE  Ref(s) \in ancestors[t]
  <2>1. Ref(c).slot = c /\ Current(Ref(c))
    BY DEF Ref, Current
  <2> QED
    BY <1>1, <1>4, <1>6, <2>1 DEF Linked
<1> QED
  BY <1>3, <1>5, <1>6

(* A step that may retire actors leaves none behind that could have        *)
(* retired: whatever went last, its release reached the actor.             *)
LEMMA WindKeepsWaiting ==
  ASSUME CoreInv, TypeOK', Linked, Waiting, NEW fenced \in SUBSET Slot,
         NEW marked \in SUBSET Slot, NEW touched \in SUBSET Slot,
         WindShape(fenced, marked, touched)
  PROVE  Waiting'
<1> USE DEF CoreInv
<1> SUFFICES ASSUME NEW s \in Slot, state'[s] = "Stopping"
             PROVE  /\ ~Quiet(s)' \/ Children(s)' # {}
                    /\ queue'[s] = 0 /\ pending'[s] = 0
  BY DEF Waiting
<1> DEFINE ss == SettleState(fenced, marked)
           done == Finalised(touched, ss)
<1>1. PICK to \in [Slot -> BOOLEAN] : SettleShape(fenced, marked, touched, to)
  BY DEF WindShape
<1>2. UNCHANGED <<gen, parent, ancestors>>
  BY <1>1 DEF SettleShape, treeVars
<1>3. \A t \in Slot : state'[t] = IF t \in done THEN "Stopped" ELSE ss[t]
  BY <1>1 DEF SettleShape, TryFinalize
<1>4. Live(s) /\ ss[s] = "Stopping" /\ s \notin done
  <2>1. Live(s)'
    BY DEF Live
  <2> QED
    BY <1>1, <1>3, <2>1, SettleKeeps
<1>5. s \in fenced \/ state[s] = "Stopping"
  BY <1>4 DEF SettleState
<1>6. queue'[s] = 0 /\ pending'[s] = 0
  <2>1. CASE s \in fenced
    BY <2>1 DEF WindShape
  <2>2. CASE state[s] = "Stopping"
    <3>1. queue'[s] <= 0 /\ pending'[s] <= 0
      BY <2>2 DEF WindShape, Waiting
    <3>2. queue'[s] \in 0..MailboxCapacity /\ pending'[s] \in 0..MaxPending
      BY DEF TypeOK
    <3> QED
      BY <3>1, <3>2, CapacityAssumption
  <2> QED
    BY <1>5, <2>1, <2>2
<1>7. ASSUME Quiet(s)', Children(s)' = {}
      PROVE  FALSE
  <2>1. \A c \in Children(s) : c \in done
    <3> SUFFICES ASSUME NEW c \in Children(s), c \notin done
                 PROVE  FALSE
      OBVIOUS
    <3>1. c \in Slot /\ Live(c) /\ parent[c] = Ref(s)
      BY DEF Children
    <3>2. Live(c)'
      <4>1. state'[c] = ss[c]
        BY <1>3, <3>1
      <4>2. ss[c] \notin {"Absent", "Stopped"}
        BY <3>1 DEF SettleState, Live
      <4> QED
        BY <4>1, <4>2 DEF Live
    <3>3. parent'[c] = Ref(s)'
      BY <1>2, <3>1 DEF Ref
    <3>4. c \in Children(s)'
      BY <3>1, <3>2, <3>3 DEF Children
    <3> QED
      BY <1>7, <3>4
  <2>2. \A d \in Subtree(s) : d = s \/ d \in done
    BY <2>1, RetiredBelow
  <2>3. s \notin touched /\ ~\E t \in touched : Ref(s) \in ancestors[t]
    <3> SUFFICES ASSUME s \in touched \/ \E t \in touched : Ref(s) \in ancestors[t]
                 PROVE  s \in done
      BY <1>4
    <3> DEFINE reached == {x \in Slot : x \in touched
                                          \/ \E t \in touched : Ref(x) \in ancestors[t]}
    <3>1. \A d \in Subtree(s) : d # s => d \in reached /\ ss[d] = "Stopping" /\ Quiet(d)'
      <4> SUFFICES ASSUME NEW d \in Subtree(s), d # s
                   PROVE  d \in reached /\ ss[d] = "Stopping" /\ Quiet(d)'
        OBVIOUS
      <4>1. d \in done /\ d \in Subtree(d)
        BY <2>2 DEF Subtree
      <4> QED
        BY <4>1 DEF Finalised
    <3>2. s \in reached /\ ss[s] = "Stopping" /\ Quiet(s)'
      BY <1>4, <1>7
    <3>3. \A d \in Subtree(s) : d \in reached /\ ss[d] = "Stopping" /\ Quiet(d)'
      BY <3>1, <3>2
    <3> HIDE DEF ss
    <3> QED
      BY <1>4, <3>3 DEF Finalised
  <2>4. Children(s) = {}
    BY <1>4, <2>1, <2>3, RetiredChildReaches
  <2>5. state[s] = "Stopping"
    BY <1>5, <2>3 DEF WindShape
  <2>6. ~Quiet(s)
    BY <2>4, <2>5 DEF Waiting
  <2> QED
    BY <1>4, <1>7, <2>3, <2>6 DEF WindShape
<1> QED
  BY <1>6, <1>7

(* try_finalize after a release.                                           *)
LEMMA TouchWinds ==
  ASSUME TypeOK, NEW touched \in SUBSET Slot, UNCHANGED treeVars, UNCHANGED workVars,
         TryFinalize(touched, state, drainTimedOut),
         \A s \in Slot : Live(s) /\ Quiet(s)' => Quiet(s) \/ s \in touched
  PROVE  WindShape({}, {}, touched)
<1>1. drainTimedOut \in [Slot -> BOOLEAN]
  BY DEF TypeOK
<1>2. TryFinalize(touched, SettleState({}, {}), drainTimedOut)
  BY SettleNothing
<1>3. SettleShape({}, {}, touched, drainTimedOut)
  BY <1>2 DEF SettleShape, DownClosed
<1>4. \A s \in Slot : queue'[s] <= queue[s] /\ pending'[s] <= pending[s]
  BY CapacityAssumption DEF workVars, TypeOK
<1> QED
  BY <1>1, <1>3, <1>4 DEF WindShape

(* The flags that keep an actor from retiring, outside a set of slots.     *)
SameBusy(touched) ==
  \A s \in Slot : s \in touched \/ /\ inFlight'[s] <=> inFlight[s]
                                   /\ controlInFlight'[s] <=> controlInFlight[s]
                                   /\ nativeTasks'[s] = nativeTasks[s]
                                   /\ pythonDone'[s] <=> pythonDone[s]

(* Discarding notifications makes only fenced actors quiet.                *)
LEMMA DiscardQuiets ==
  ASSUME TypeOK, LineageLive, NEW fenced \in SUBSET Slot, DownClosed(fenced),
         \A s \in fenced : Live(s), NEW touched, SameBusy(touched), NEW nt, NEW pf,
         \A s \in Slot : notification[s] => nt[s],
         DiscardNotifications(fenced, nt, pf),
         NEW s \in Slot, Live(s), Quiet(s)'
  PROVE  Quiet(s) \/ s \in fenced \cup touched
<1> SUFFICES ASSUME s \notin fenced, s \notin touched
             PROVE  Quiet(s)
  OBVIOUS
<1>1. ~\E p \in fenced : parent[s] = Ref(p)
  BY ChildBelow DEF DownClosed
<1>2. ~notification'[s] /\ notification'[s] = (nt[s] /\ ~\E p \in fenced : parent[s] = Ref(p))
  BY DEF DiscardNotifications, Quiet
<1>3. ~notification[s]
  BY <1>1, <1>2
<1> QED
  BY <1>3 DEF SameBusy, Quiet

(* fence_locked.                                                           *)
LEMMA FenceWinds ==
  ASSUME TypeOK, LineageLive, UNCHANGED treeVars,
         NEW fenced \in SUBSET Slot, DownClosed(fenced), \A s \in fenced : Live(s),
         NEW touched \in SUBSET Slot, SameBusy(touched), NEW nt, NEW pf,
         \A s \in Slot : notification[s] => nt[s],
         FenceLocked(fenced, touched, nt, pf)
  PROVE  WindShape(fenced, {}, fenced \cup touched)
<1>1. drainTimedOut \in [Slot -> BOOLEAN] /\ fenced \cup touched \in SUBSET Slot
  BY DEF TypeOK
<1>2. TryFinalize(fenced \cup touched, SettleState(fenced, {}), drainTimedOut)
  BY SettleFence DEF FenceLocked
<1>3. SettleShape(fenced, {}, fenced \cup touched, drainTimedOut)
  BY <1>2 DEF SettleShape
<1>4. /\ \A s \in fenced : queue'[s] = 0 /\ pending'[s] = 0
      /\ \A s \in Slot : queue'[s] <= queue[s] /\ pending'[s] <= pending[s]
  BY CapacityAssumption DEF FenceLocked, DiscardWork, TypeOK
<1>5. \A s \in Slot : Live(s) /\ Quiet(s)' => Quiet(s) \/ s \in fenced \cup touched
  BY DiscardQuiets DEF FenceLocked
<1> QED
  BY <1>1, <1>3, <1>4, <1>5 DEF WindShape

(* The scope a maintenance pass fences: what its caller fenced and the     *)
(* subtrees of the drains that ended.                                      *)
LEMMA EndedScopes ==
  ASSUME TypeOK, LineageLive, NEW scope \in SUBSET Slot, DownClosed(scope),
         \A s \in scope : Live(s), NEW ended \in SUBSET ActorRef
  PROVE  LET fenced == scope \cup UNION {Subtree(r.slot) : r \in ended} IN
         fenced \in SUBSET Slot /\ DownClosed(fenced) /\ \A s \in fenced : Live(s)
<1> DEFINE slots == {r.slot : r \in ended}
<1>1. slots \in SUBSET Slot
  BY DEF ActorRef
<1>2. UNION {Subtree(s) : s \in slots} \subseteq Slot
        /\ DownClosed(UNION {Subtree(s) : s \in slots})
  BY <1>1, UnionDownClosed
<1>3. \A s \in UNION {Subtree(t) : t \in slots} : Live(s)
  BY DEF Subtree
<1>4. UNION {Subtree(r.slot) : r \in ended} = UNION {Subtree(s) : s \in slots}
  OBVIOUS
<1> HIDE DEF slots
<1> QED
  BY <1>2, <1>3, <1>4 DEF DownClosed

(* A maintenance pass, with what expiry left, the drains that ended and    *)
(* those of them that were late.                                           *)
MaintainPass(scope, st, root, dl, roots, q, p, ended, late) ==
  LET fenced == scope \cup UNION {Subtree(r.slot) : r \in ended} IN
  /\ \A r \in ended : r \in roots /\ r.slot \notin scope
  /\ DiscardNotifications(fenced, notification, pendingFailures)
  /\ DiscardWork(fenced, q, p)
  /\ drainRoot' = root
  /\ drainDeadline' = dl
  /\ drainRoots' = {r \in roots : r.slot \notin scope} \ ended
  /\ TryFinalize(fenced, Stopping(fenced, st),
                 [s \in Slot |-> drainTimedOut[s] \/ s \in late])

(* maintain_locked is one.                                                 *)
LEMMA MaintainOpens ==
  ASSUME NEW scope, NEW st, NEW root, NEW dl, NEW roots,
         MaintainLocked(scope, st, root, dl, roots)
  PROVE  \E q \in Remaining(queue, MailboxCapacity), p \in Remaining(pending, MaxPending) :
           \E ended, late : MaintainPass(scope, st, root, dl, roots, q, p, ended, late)
<1>1. PICK q \in Remaining(queue, MailboxCapacity), p \in Remaining(pending, MaxPending) :
        LET open == {r \in roots : r.slot \notin scope}
            drained(r) == \A d \in Subtree(r.slot) : DrainedActor(d, q, p)
            overdue(r) == now >= dl[r.slot]
            ended == {r \in open : overdue(r) \/ drained(r)}
            fenced == scope \cup UNION {Subtree(r.slot) : r \in ended}
            late == {r.slot : r \in {e \in ended : overdue(e) /\ ~drained(e)}}
        IN /\ DiscardNotifications(fenced, notification, pendingFailures)
           /\ DiscardWork(fenced, q, p)
           /\ drainRoot' = root
           /\ drainDeadline' = dl
           /\ drainRoots' = open \ ended
           /\ TryFinalize(fenced, Stopping(fenced, st),
                          [s \in Slot |-> drainTimedOut[s] \/ s \in late])
  BY DEF MaintainLocked
<1> DEFINE open == {r \in roots : r.slot \notin scope}
           drained(r) == \A d \in Subtree(r.slot) : DrainedActor(d, q, p)
           overdue(r) == now >= dl[r.slot]
           ended == {r \in open : overdue(r) \/ drained(r)}
           late == {r.slot : r \in {e \in ended : overdue(e) /\ ~drained(e)}}
<1>2. \A r \in ended : r \in roots /\ r.slot \notin scope
  OBVIOUS
<1>3. MaintainPass(scope, st, root, dl, roots, q, p, ended, late)
  BY <1>1, <1>2 DEF MaintainPass
<1> HIDE DEF ended, late
<1> QED
  BY <1>3

(* maintain_locked.                                                        *)
LEMMA MaintainWinds ==
  ASSUME TypeOK, LineageLive, UNCHANGED treeVars, UNCHANGED busyVars,
         NEW scope \in SUBSET Slot, NEW marked \in SUBSET Slot,
         DownClosed(scope), \A s \in scope : Live(s),
         \A s \in marked : Live(s) /\ state[s] # "Stopping",
         \A s \in marked : \A d \in Subtree(s) : d \in marked \/ state[d] = "Stopping",
         NEW root, NEW dl, NEW roots \in SUBSET ActorRef,
         MaintainLocked(scope,
           [s \in Slot |-> IF s \in marked THEN "Quiescing" ELSE state[s]], root, dl, roots)
  PROVE  \E fenced \in SUBSET Slot : WindShape(fenced, marked, fenced)
<1> DEFINE st == [s \in Slot |-> IF s \in marked THEN "Quiescing" ELSE state[s]]
<1>0. PICK q \in Remaining(queue, MailboxCapacity), p \in Remaining(pending, MaxPending) :
        \E ended, late : MaintainPass(scope, st, root, dl, roots, q, p, ended, late)
  BY MaintainOpens
<1>1. PICK ended, late : MaintainPass(scope, st, root, dl, roots, q, p, ended, late)
  BY <1>0
<1>2. ended \in SUBSET ActorRef
  BY <1>1 DEF MaintainPass
<1> DEFINE fenced == scope \cup UNION {Subtree(r.slot) : r \in ended}
           to == [s \in Slot |-> drainTimedOut[s] \/ s \in late]
<1>3. fenced \in SUBSET Slot /\ DownClosed(fenced) /\ \A s \in fenced : Live(s)
  BY <1>2, EndedScopes
<1>4. Stopping(fenced, st) = SettleState(fenced, marked)
  BY DEF Stopping, SettleState
<1>5. to \in [Slot -> BOOLEAN] /\ \A s \in Slot : drainTimedOut[s] => to[s]
  OBVIOUS
<1>6. /\ DiscardNotifications(fenced, notification, pendingFailures)
      /\ DiscardWork(fenced, q, p)
      /\ TryFinalize(fenced, SettleState(fenced, marked), to)
  BY <1>1, <1>4 DEF MaintainPass
<1> HIDE DEF fenced, to
<1>7. SettleShape(fenced, marked, fenced, to)
  BY <1>3, <1>5, <1>6 DEF SettleShape
<1>8. /\ \A s \in fenced : queue'[s] = 0 /\ pending'[s] = 0
      /\ \A s \in Slot : queue'[s] <= queue[s] /\ pending'[s] <= pending[s]
  <2>1. \A s \in Slot : /\ q[s] \in Nat /\ q[s] <= queue[s] /\ queue[s] \in Nat
                        /\ p[s] \in Nat /\ p[s] <= pending[s] /\ pending[s] \in Nat
    BY CapacityAssumption DEF Remaining, TypeOK
  <2>2. \A s \in Slot : /\ queue'[s] = IF s \in fenced THEN 0 ELSE q[s]
                        /\ pending'[s] = IF s \in fenced THEN 0 ELSE p[s]
    BY <1>6 DEF DiscardWork
  <2> QED
    BY <1>3, <2>1, <2>2
<1>9. SameBusy({})
  BY DEF SameBusy, busyVars
<1>10. \A s \in Slot : Live(s) /\ Quiet(s)' => Quiet(s) \/ s \in fenced
  BY <1>3, <1>6, <1>9, DiscardQuiets
<1>11. WindShape(fenced, marked, fenced)
  BY <1>3, <1>5, <1>7, <1>8, <1>10 DEF WindShape
<1> QED
  BY <1>3, <1>11

(* The steps that may retire an actor.                                     *)
Winds == \E fenced, marked, touched \in SUBSET Slot : WindShape(fenced, marked, touched)

(* The steps that neither retire nor create one: none of them makes a      *)
(* stopping actor quiet or gives it work.                                  *)
Rests ==
  /\ Keeps
  /\ \A s \in Slot : state[s] = "Stopping" =>
       /\ Quiet(s)' => Quiet(s)
       /\ queue'[s] <= queue[s] /\ pending'[s] <= pending[s]

(* What the guards of admission and claims say of the actor itself.        *)
LEMMA AdmissibleState ==
  ASSUME NEW s
  PROVE  /\ Admissible(s) => Live(s) /\ state[s] # "Stopping"
         /\ ExecutionState(s) # "Stopping" => state[s] # "Stopping"
BY DEF Admissible, ExecutionState

(* The steps that do not call try_finalize.                                *)
Resting ==
  \/ \E r \in ActorRef : \/ Activate(r) \/ Admit(r) \/ BeginPending(r)
                         \/ Claim(r) \/ TrackTask(r)
  \/ \E r \in ActorRef, e \in {"Starting", "Active", "Quiescing"} : ClaimCallback(r, e)
  \/ \E s \in Slot : EndPending(s)
  \/ Tick
  \/ UNCHANGED vars

(* The actions without try_finalize rest.                                  *)
LEMMA RestingActions ==
  ASSUME TypeOK, [Next]_vars,
         Resting
  PROVE  Rests
<1> USE DEF treeVars, busyVars, failureVars, workVars
<1>0. \A s \in Slot : queue[s] \in Nat /\ pending[s] \in Nat
  BY CapacityAssumption DEF TypeOK
<1>1. ASSUME UNCHANGED <<inFlight, controlInFlight, nativeTasks, pythonDone, notification>>,
             Keeps, \A s \in Slot : state[s] = "Stopping" =>
                      queue'[s] <= queue[s] /\ pending'[s] <= pending[s]
      PROVE  Rests
  <2>1. \A s \in Slot : Quiet(s)' => Quiet(s)
    BY <1>1 DEF Quiet
  <2> QED
    BY <1>1, <2>1 DEF Rests
<1>2. ASSUME NEW r \in ActorRef, Activate(r)
      PROVE  Rests
  <2>1. Keeps
    BY <1>2 DEF Activate, Keeps, ActorRef
  <2> QED
    BY <1>0, <1>1, <1>2, <2>1 DEF Activate
<1>3. ASSUME NEW r \in ActorRef, Admit(r)
      PROVE  Rests
  <2>1. Keeps
    BY <1>3 DEF Admit, Keeps
  <2>2. \A s \in Slot : state[s] = "Stopping" => queue'[s] = queue[s]
    BY <1>3, AdmissibleState DEF Admit, TypeOK
  <2> QED
    BY <1>0, <1>1, <1>3, <2>1, <2>2 DEF Admit
<1>4. ASSUME NEW r \in ActorRef, BeginPending(r)
      PROVE  Rests
  <2>1. Keeps
    BY <1>4 DEF BeginPending, Keeps
  <2>2. \A s \in Slot : state[s] = "Stopping" => pending'[s] = pending[s]
    BY <1>4, AdmissibleState DEF BeginPending, TypeOK
  <2> QED
    BY <1>0, <1>1, <1>4, <2>1, <2>2 DEF BeginPending
<1>5. ASSUME NEW s \in Slot, EndPending(s)
      PROVE  Rests
  <2>1. Keeps
    BY <1>5 DEF EndPending, Keeps
  <2>2. \A t \in Slot : pending'[t] <= pending[t]
    BY <1>0, <1>5 DEF EndPending, TypeOK
  <2> QED
    BY <1>0, <1>1, <1>5, <2>1, <2>2 DEF EndPending
<1>6. ASSUME NEW r \in ActorRef, Claim(r)
      PROVE  Rests
  <2>1. Keeps
    BY <1>6 DEF Claim, Keeps
  <2>2. PICK left \in 0..MailboxCapacity : queue' = [queue EXCEPT ![r.slot] = left]
    BY <1>6 DEF Claim
  <2>3. \A s \in Slot : state[s] = "Stopping" => queue'[s] = queue[s]
    BY <1>6, <2>2, AdmissibleState DEF Claim, TypeOK
  <2>4. /\ inFlight' = [inFlight EXCEPT ![r.slot] = TRUE] \/ UNCHANGED inFlight
        /\ UNCHANGED <<controlInFlight, nativeTasks, pythonDone, notification, pending>>
    BY <1>6 DEF Claim
  <2>5. \A s \in Slot : inFlight[s] => inFlight'[s]
    BY <2>4 DEF TypeOK
  <2>6. \A s \in Slot : Quiet(s)' => Quiet(s)
    BY <2>4, <2>5 DEF Quiet
  <2> QED
    BY <1>0, <2>1, <2>3, <2>4, <2>6 DEF Rests
<1>7. ASSUME NEW r \in ActorRef, TrackTask(r)
      PROVE  Rests
  <2>1. Keeps
    BY <1>7 DEF TrackTask, Keeps
  <2>2. /\ nativeTasks' = [nativeTasks EXCEPT ![r.slot] = @ + 1]
        /\ UNCHANGED <<inFlight, controlInFlight, pythonDone, notification, queue, pending>>
    BY <1>7 DEF TrackTask
  <2>3. \A s \in Slot : nativeTasks'[s] = 0 => nativeTasks[s] = 0
    BY <2>2 DEF TypeOK
  <2>4. \A s \in Slot : Quiet(s)' => Quiet(s)
    BY <2>2, <2>3 DEF Quiet
  <2> QED
    BY <1>0, <2>1, <2>2, <2>4 DEF Rests
<1>8. ASSUME NEW r \in ActorRef, NEW e, ClaimCallback(r, e)
      PROVE  Rests
  <2>1. Keeps
    BY <1>8 DEF ClaimCallback, Keeps
  <2>2. /\ controlInFlight' = [controlInFlight EXCEPT ![r.slot] = TRUE]
        /\ UNCHANGED <<inFlight, nativeTasks, pythonDone, notification, queue, pending>>
    BY <1>8 DEF ClaimCallback
  <2>3. \A s \in Slot : controlInFlight[s] => controlInFlight'[s]
    BY <2>2 DEF TypeOK
  <2>4. \A s \in Slot : Quiet(s)' => Quiet(s)
    BY <2>2, <2>3 DEF Quiet
  <2> QED
    BY <1>0, <2>1, <2>2, <2>4 DEF Rests
<1>9. CASE Tick
  BY <1>0, <1>1, <1>9 DEF Tick, Keeps
<1>10. CASE UNCHANGED vars
  BY <1>0, <1>1, <1>10 DEF vars, Keeps
<1> QED
  BY <1>2, <1>3, <1>4, <1>5, <1>6, <1>7, <1>8, <1>9, <1>10 DEF Resting

(* The releases that end in try_finalize.                                  *)
LEMMA TouchingActions ==
  ASSUME CoreInv, LeasesPinSlot, NEW r \in ActorRef,
         ReleaseDelivery(r) \/ ReleaseTask(r) \/ FinishPython(r) \/ ClaimFailure(r)
  PROVE  \E touched \in SUBSET Slot : WindShape({}, {}, touched)
<1> USE DEF CoreInv
<1>0. r.slot \in Slot /\ {r.slot} \in SUBSET Slot
  BY DEF ActorRef
<1>1. CASE ReleaseDelivery(r)
  <2>1. Current(r)
    BY <1>1 DEF ReleaseDelivery, LeasesPinSlot
  <2>2. /\ TryFinalize({r.slot}, state, drainTimedOut) /\ UNCHANGED treeVars
        /\ UNCHANGED workVars
        /\ inFlight' = [inFlight EXCEPT ![r.slot] = FALSE]
        /\ UNCHANGED <<controlInFlight, nativeTasks, pythonDone, notification>>
    BY <1>1, <2>1 DEF ReleaseDelivery, failureVars
  <2>3. \A s \in Slot : s # r.slot => (inFlight'[s] <=> inFlight[s])
    BY <2>2 DEF TypeOK
  <2>4. \A s \in Slot : Live(s) /\ Quiet(s)' => Quiet(s) \/ s \in {r.slot}
    BY <2>2, <2>3 DEF Quiet
  <2> QED
    BY <1>0, <2>2, <2>4, TouchWinds
<1>2. CASE ReleaseTask(r)
  <2>1. taskLeases[r] > 0 /\ taskLeases[r] = IF Current(r) /\ Live(r.slot)
                                             THEN nativeTasks[r.slot] ELSE 0
    BY <1>2 DEF ReleaseTask, LeasesPinSlot
  <2>2. Current(r)
    BY <2>1
  <2>3. /\ TryFinalize({r.slot}, state, drainTimedOut) /\ UNCHANGED treeVars
        /\ UNCHANGED workVars
        /\ \/ nativeTasks' = [nativeTasks EXCEPT ![r.slot] = @ - 1]
           \/ UNCHANGED nativeTasks
        /\ UNCHANGED <<controlInFlight, inFlight, pythonDone, notification>>
    BY <1>2, <2>2 DEF ReleaseTask, failureVars
  <2>4. \A s \in Slot : s # r.slot => nativeTasks'[s] = nativeTasks[s]
    BY <2>3 DEF TypeOK
  <2>5. \A s \in Slot : Live(s) /\ Quiet(s)' => Quiet(s) \/ s \in {r.slot}
    BY <2>3, <2>4 DEF Quiet
  <2> QED
    BY <1>0, <2>3, <2>5, TouchWinds
<1>3. CASE FinishPython(r)
  <2>1. /\ TryFinalize({r.slot}, state, drainTimedOut) /\ UNCHANGED treeVars
        /\ UNCHANGED workVars
        /\ pythonDone' = [pythonDone EXCEPT ![r.slot] = TRUE]
        /\ UNCHANGED <<controlInFlight, inFlight, nativeTasks, notification>>
    BY <1>3 DEF FinishPython, failureVars
  <2>2. \A s \in Slot : s # r.slot => (pythonDone'[s] <=> pythonDone[s])
    BY <2>1 DEF TypeOK
  <2>3. \A s \in Slot : Live(s) /\ Quiet(s)' => Quiet(s) \/ s \in {r.slot}
    BY <2>1, <2>2 DEF Quiet
  <2> QED
    BY <1>0, <2>1, <2>3, TouchWinds
<1>4. CASE ClaimFailure(r)
  <2>1. PICK c \in Slot :
          /\ notification' = [notification EXCEPT ![c] = FALSE]
          /\ controlInFlight' = [controlInFlight EXCEPT ![r.slot] = TRUE]
          /\ UNCHANGED treeVars /\ UNCHANGED workVars
          /\ UNCHANGED <<inFlight, nativeTasks, pythonDone>>
          /\ TryFinalize({c}, state, drainTimedOut)
    BY <1>4 DEF ClaimFailure, Children
  <2>2. \A s \in Slot : /\ s # c => (notification'[s] <=> notification[s])
                        /\ controlInFlight[s] => controlInFlight'[s]
    BY <2>1 DEF TypeOK
  <2>3. \A s \in Slot : Live(s) /\ Quiet(s)' => Quiet(s) \/ s \in {c}
    BY <2>1, <2>2 DEF Quiet
  <2>4. {c} \in SUBSET Slot
    OBVIOUS
  <2> QED
    BY <2>1, <2>3, <2>4, TouchWinds
<1> QED
  BY <1>1, <1>2, <1>3, <1>4

(* The calls that fence a scope.                                           *)
LEMMA FencingActions ==
  ASSUME CoreInv, LeasesPinSlot,
         \/ \E r \in ActorRef, q \in BOOLEAN, a \in FailureActions : ReportFailure(r, q, a)
         \/ \E l \in controlLeases, a \in FailureActions : ReleaseControl(l, a)
         \/ \E r \in ActorRef : Stop(r)
         \/ Close
  PROVE  Winds
<1> USE DEF CoreInv
<1>1. ASSUME UNCHANGED busyVars PROVE SameBusy({})
  BY <1>1 DEF SameBusy, busyVars
<1>2. ASSUME NEW r \in ActorRef, NEW q \in BOOLEAN, NEW a \in FailureActions,
             ReportFailure(r, q, a)
      PROVE  Winds
  <2>0. PICK new \in BOOLEAN :
           \E pf : /\ UNCHANGED treeVars /\ UNCHANGED busyVars
                   /\ FenceLocked(ScopeOf(a, r), {},
                                  [notification EXCEPT ![r.slot] = @ \/ new], pf)
    BY <1>2 DEF ReportFailure
  <2>1. PICK pf : /\ UNCHANGED treeVars /\ UNCHANGED busyVars
                  /\ FenceLocked(ScopeOf(a, r), {},
                                 [notification EXCEPT ![r.slot] = @ \/ new], pf)
    BY <2>0
  <2> DEFINE nt == [notification EXCEPT ![r.slot] = @ \/ new]
  <2>2. \A s \in Slot : notification[s] => nt[s]
    BY DEF TypeOK
  <2>3. FenceLocked(ScopeOf(a, r), {}, nt, pf)
    BY <2>1
  <2> HIDE DEF nt
  <2>4. /\ ScopeOf(a, r) \in SUBSET Slot /\ DownClosed(ScopeOf(a, r))
        /\ \A s \in ScopeOf(a, r) : Live(s)
    BY ScopeFacts
  <2>5. WindShape(ScopeOf(a, r), {}, ScopeOf(a, r) \cup {})
    BY <1>1, <2>1, <2>2, <2>3, <2>4, FenceWinds
  <2> QED
    BY <2>4, <2>5 DEF Winds
<1>3. ASSUME NEW l \in controlLeases, NEW a \in FailureActions, ReleaseControl(l, a)
      PROVE  Winds
  <2>1. l.owner \in ActorRef /\ l.source \in ActorRef \cup {NoRef} /\ Current(l.owner)
          /\ l.owner.slot \in Slot
    BY DEF TypeOK, LeasesPinSlot, ActorRef
  <2>2. a = "StopActor" => l.source \in ActorRef
    BY <1>3, <2>1 DEF ReleaseControl
  <2> DEFINE scope == ScopeOf(a, l.source)
             own == {l.owner.slot}
  <2>3. /\ UNCHANGED treeVars
        /\ FenceLocked(scope, own, notification, pendingFailures)
        /\ controlInFlight' = [controlInFlight EXCEPT ![l.owner.slot] = FALSE]
        /\ UNCHANGED <<inFlight, nativeTasks, pythonDone>>
    BY <1>3, <2>1 DEF ReleaseControl
  <2>4. \A s \in Slot : s # l.owner.slot => (controlInFlight'[s] <=> controlInFlight[s])
    BY <2>3 DEF TypeOK
  <2>5. SameBusy(own)
    BY <2>3, <2>4 DEF SameBusy
  <2>6. scope \in SUBSET Slot /\ DownClosed(scope) /\ \A s \in scope : Live(s)
    BY <2>1, <2>2, ScopeFacts
  <2>7. own \in SUBSET Slot
    BY <2>1
  <2> HIDE DEF scope, own
  <2>8. WindShape(scope, {}, scope \cup own)
    BY <2>3, <2>5, <2>6, <2>7, FenceWinds
  <2> QED
    BY <2>6, <2>7, <2>8 DEF Winds
<1>4. ASSUME NEW r \in ActorRef, Stop(r)
      PROVE  Winds
  <2>1. /\ r.slot \in Slot /\ UNCHANGED treeVars /\ UNCHANGED busyVars
        /\ FenceLocked(Subtree(r.slot), {}, notification, pendingFailures)
    BY <1>4 DEF Stop, ActorRef
  <2>2. /\ Subtree(r.slot) \in SUBSET Slot /\ DownClosed(Subtree(r.slot))
        /\ \A s \in Subtree(r.slot) : Live(s)
    BY <2>1, SubtreeDownClosed DEF Subtree
  <2>3. WindShape(Subtree(r.slot), {}, Subtree(r.slot) \cup {})
    BY <1>1, <2>1, <2>2, FenceWinds
  <2> QED
    BY <2>2, <2>3 DEF Winds
<1>5. CASE Close
  <2> DEFINE scope == ScopeOf("StopWorld", NoRef)
  <2>1. /\ UNCHANGED treeVars /\ UNCHANGED busyVars
        /\ FenceLocked(scope, {}, notification, pendingFailures)
    BY <1>5 DEF Close
  <2>2. "StopWorld" \in FailureActions
    BY DEF FailureActions
  <2>3. scope \in SUBSET Slot /\ DownClosed(scope) /\ \A s \in scope : Live(s)
    BY <2>2, ScopeFacts
  <2> HIDE DEF scope
  <2>4. WindShape(scope, {}, scope \cup {})
    BY <1>1, <2>1, <2>3, FenceWinds
  <2> QED
    BY <2>3, <2>4 DEF Winds
<1> QED
  BY <1>2, <1>3, <1>4, <1>5

(* The drains and the maintenance pass.                                    *)
LEMMA DrainingActions ==
  ASSUME CoreInv,
         \/ \E r \in ActorRef, d \in Time : RequestDrain(r, d)
         \/ \E d \in Time : DrainAll(d)
         \/ Maintain
  PROVE  Winds
<1> USE DEF CoreInv
<1>1. ASSUME NEW targets \in SUBSET Slot, NEW d \in Time, DrainLocked(targets, d),
             UNCHANGED treeVars, UNCHANGED busyVars
      PROVE  Winds
  <2>1. PICK scope \in SUBSET Slot, marked \in SUBSET Slot,
            root \in [Slot -> ActorRef \cup {NoRef}], dl \in [Slot -> 0..NoDeadline],
            roots \in SUBSET ActorRef :
           /\ DownClosed(scope)
           /\ \A s \in scope : Live(s)
           /\ \A s \in marked : Live(s) /\ state[s] # "Stopping"
           /\ \A s \in marked : \A e \in Subtree(s) : e \in marked \/ state[e] = "Stopping"
           /\ MaintainLocked(scope,
                [s \in Slot |-> IF s \in marked THEN "Quiescing" ELSE state[s]],
                root, dl, roots)
    BY <1>1, DrainLockedShape
  <2>2. \E fenced \in SUBSET Slot : WindShape(fenced, marked, fenced)
    BY <1>1, <2>1, MaintainWinds
  <2> QED
    BY <2>2 DEF Winds
<1>2. ASSUME NEW r \in ActorRef, NEW d \in Time, RequestDrain(r, d)
      PROVE  Winds
  <2>1. {r.slot} \in SUBSET Slot
    BY DEF ActorRef
  <2> QED
    BY <1>1, <1>2, <2>1 DEF RequestDrain
<1>3. ASSUME NEW d \in Time, DrainAll(d)
      PROVE  Winds
  <2>1. {s \in Slot : Live(s) /\ parent[s] = NoRef} \in SUBSET Slot
    OBVIOUS
  <2> QED
    BY <1>1, <1>3, <2>1 DEF DrainAll
<1>4. CASE Maintain
  <2>1. [s \in Slot |-> IF s \in {} THEN "Quiescing" ELSE state[s]] = state
    BY DEF TypeOK
  <2>2. /\ UNCHANGED treeVars /\ UNCHANGED busyVars
        /\ MaintainLocked({}, state, drainRoot, drainDeadline, drainRoots)
    BY <1>4 DEF Maintain
  <2>3. drainRoots \in SUBSET ActorRef /\ DownClosed({})
    BY DEF TypeOK, DownClosed
  <2>4. \E fenced \in SUBSET Slot : WindShape(fenced, {}, fenced)
    BY <2>1, <2>2, <2>3, MaintainWinds
  <2> QED
    BY <2>4 DEF Winds
<1> QED
  BY <1>2, <1>3, <1>4

(* Every step creates an actor, rests, or winds actors down.               *)
LEMMA StepKinds ==
  ASSUME CoreInv, LeasesPinSlot, [Next]_vars
  PROVE  \/ \E p \in ActorRef \cup {NoRef}, k \in Kinds : Allocate(p, k)
         \/ Resting
         \/ Winds
<1>1. ASSUME NEW r \in ActorRef,
             ReleaseDelivery(r) \/ ReleaseTask(r) \/ FinishPython(r) \/ ClaimFailure(r)
      PROVE  Winds
  BY <1>1, TouchingActions DEF Winds
<1> QED
  BY <1>1, FencingActions, DrainingActions DEF Next, Resting

LEMMA StepWinds ==
  ASSUME CoreInv, LeasesPinSlot, [Next]_vars
  PROVE  \/ \E p \in ActorRef \cup {NoRef}, k \in Kinds : Allocate(p, k)
         \/ Rests
         \/ Winds
BY StepKinds, RestingActions DEF CoreInv

(* Every step leaves a stopping actor something to wait for.               *)
LEMMA WaitingStep ==
  ASSUME CoreInv, LeasesPinSlot, Linked, Waiting, [Next]_vars
  PROVE  Waiting'
<1>0. TypeOK /\ TypeOK'
  BY CoreStep DEF CoreInv
<1>1. CASE Winds
  BY <1>0, <1>1, WindKeepsWaiting DEF Winds
<1>2. CASE Rests
  <2>1. UNCHANGED <<gen, parent>> /\ \A s \in Slot : Live(s)' <=> Live(s)
    BY <1>0, <1>2 DEF Rests, Keeps, Live, TypeOK
  <2>2. \A s \in Slot : Children(s)' = Children(s)
    BY <2>1 DEF Children, Ref
  <2>3. \A s \in Slot : state'[s] = "Stopping" => state[s] = "Stopping"
    BY <1>0, <1>2 DEF Rests, Keeps, TypeOK
  <2>4. \A s \in Slot : queue'[s] \in Nat /\ pending'[s] \in Nat
    BY <1>0, CapacityAssumption DEF TypeOK
  <2>5. \A s \in Slot : state[s] = "Stopping" => queue'[s] = 0 /\ pending'[s] = 0
    BY <1>2, <2>4 DEF Rests, Waiting
  <2>6. \A s \in Slot : state[s] = "Stopping" => ~Quiet(s)' \/ Children(s)' # {}
    BY <1>2, <2>2 DEF Rests, Waiting
  <2> QED
    BY <2>3, <2>5, <2>6 DEF Waiting
<1>3. ASSUME NEW p \in ActorRef \cup {NoRef}, NEW k \in Kinds, Allocate(p, k)
      PROVE  Waiting'
  <2>1. PICK s \in Slot :
          /\ ~Live(s)
          /\ gen' = [gen EXCEPT ![s] = @ + 1]
          /\ state' = [state EXCEPT ![s] = "Starting"]
          /\ parent' = [parent EXCEPT ![s] = p]
          /\ inFlight' = [inFlight EXCEPT ![s] = FALSE]
          /\ controlInFlight' = [controlInFlight EXCEPT ![s] = FALSE]
          /\ nativeTasks' = [nativeTasks EXCEPT ![s] = 0]
          /\ pythonDone' = [pythonDone EXCEPT ![s] = (k = "Native")]
          /\ notification' = [notification EXCEPT ![s] = FALSE]
          /\ queue' = [queue EXCEPT ![s] = 0]
          /\ pending' = [pending EXCEPT ![s] = 0]
    BY <1>3 DEF Allocate, NextSlots, Live
  <2>2. state'[s] = "Starting"
    BY <1>0, <2>1 DEF TypeOK
  <2>3. \A t \in Slot : t # s =>
          /\ gen'[t] = gen[t] /\ state'[t] = state[t] /\ parent'[t] = parent[t]
          /\ queue'[t] = queue[t] /\ pending'[t] = pending[t]
          /\ nativeTasks'[t] = nativeTasks[t]
    BY <1>0, <2>1 DEF TypeOK
  <2>4. \A t \in Slot : t # s => /\ inFlight'[t] <=> inFlight[t]
                                 /\ controlInFlight'[t] <=> controlInFlight[t]
                                 /\ notification'[t] <=> notification[t]
                                 /\ pythonDone'[t] <=> pythonDone[t]
    BY <1>0, <2>1 DEF TypeOK
  <2>5. ASSUME NEW t \in Slot, state'[t] = "Stopping"
        PROVE  /\ ~Quiet(t)' \/ Children(t)' # {}
               /\ queue'[t] = 0 /\ pending'[t] = 0
    <3>1. t # s /\ state[t] = "Stopping"
      BY <2>2, <2>3, <2>5
    <3>2. Quiet(t)' => Quiet(t)
      BY <2>3, <2>4, <3>1 DEF Quiet
    <3>3. Children(t) \subseteq Children(t)'
      <4> SUFFICES ASSUME NEW c \in Children(t) PROVE c \in Children(t)'
        OBVIOUS
      <4>1. c \in Slot /\ Live(c) /\ parent[c] = Ref(t) /\ c # s
        BY <2>1 DEF Children
      <4>2. Live(c)' /\ parent'[c] = Ref(t)'
        BY <2>3, <3>1, <4>1 DEF Live, Ref
      <4> QED
        BY <4>1, <4>2 DEF Children
    <3> QED
      BY <2>3, <3>1, <3>2, <3>3 DEF Waiting
  <2> QED
    BY <2>5 DEF Waiting
<1> QED
  BY <1>1, <1>2, <1>3, StepWinds

(* The core, with the leases and the way lineages hang together.           *)
TreeInv == CoreInv /\ LeasesPinSlot /\ Linked /\ Waiting

(* It is an inductive invariant of the World.                              *)
THEOREM TreeInvariant == Spec => []TreeInv
<1>1. ASSUME Init PROVE Linked /\ Waiting
  BY <1>1 DEF Init, Linked, Waiting
<1>2. CoreInv /\ LeasesPinSlot /\ Linked /\ Waiting /\ [Next]_vars => Linked' /\ Waiting'
  BY LinkedStep, WaitingStep DEF CoreInv
<1> QED
  BY <1>1, <1>2, CoreInvariant, LeasesAlwaysPin, PTL DEF Spec, TreeInv

(* Finalisation is never lost: a stopping actor always waits for something *)
(* that is still held, because whichever release goes last calls           *)
(* try_finalize on it or on what it owns.                                  *)
THEOREM FinalisationNeverLost == Spec => []NoLostFinalisation
<1>1. TreeInv => NoLostFinalisation
  BY DEF TreeInv, Waiting, NoLostFinalisation
<1> QED
  BY <1>1, TreeInvariant, PTL

-----------------------------------------------------------------------------
(* Drains.                                                                 *)

(* The drain index over given states and drain fields: every draining      *)
(* actor has its root in the index, every entry is a draining actor with a *)
(* deadline that is its own root, and no entry is above another.           *)
DrainIndexed(st, root, dl, roots) ==
  /\ \A s \in Slot : st[s] = "Quiescing" => /\ root[s] \in roots
                                            /\ root[s] \in ancestors[s] \cup {Ref(s)}
  /\ \A r \in roots : /\ Current(r)
                      /\ st[r.slot] = "Quiescing"
                      /\ root[r.slot] = r
                      /\ dl[r.slot] \in Time
  /\ \A r, e \in roots : e \notin ancestors[r.slot]

DrainInv == DrainIndexed(state, drainRoot, drainDeadline, drainRoots)

(* Fencing a downward closed set, with the entries it covers removed, and  *)
(* finalising keep the index exact.                                        *)
LEMMA FenceKeepsIndexed ==
  ASSUME TypeOK, LineageLive, UNCHANGED treeVars,
         NEW fenced \in SUBSET Slot, DownClosed(fenced),
         NEW st, NEW root, NEW dl, NEW roots \in SUBSET ActorRef,
         DrainIndexed(st, root, dl, roots),
         \A s \in Slot : st[s] = "Quiescing" => Live(s),
         NEW touched, NEW to, TryFinalize(touched, Stopping(fenced, st), to),
         drainRoot' = root, drainDeadline' = dl,
         drainRoots' = {r \in roots : r.slot \notin fenced}
  PROVE  DrainInv'
<1>1. \A s \in Slot : state'[s] = "Quiescing" <=> s \notin fenced /\ st[s] = "Quiescing"
  <2> SUFFICES ASSUME NEW s \in Slot
               PROVE  state'[s] = "Quiescing" <=> s \notin fenced /\ st[s] = "Quiescing"
    OBVIOUS
  <2>1. state'[s] = IF s \in Finalised(touched, Stopping(fenced, st)) THEN "Stopped"
                    ELSE IF s \in fenced THEN "Stopping" ELSE st[s]
    BY DEF TryFinalize, Stopping
  <2>2. s \in Finalised(touched, Stopping(fenced, st)) => s \in fenced \/ st[s] = "Stopping"
    BY FinalisedDownClosed DEF Stopping
  <2> QED
    BY <2>1, <2>2
<1>2. UNCHANGED <<gen, ancestors>> /\ \A s : Ref(s)' = Ref(s)
  BY DEF treeVars, Ref
<1>3. \A r \in roots : r.slot \in Slot /\ r = Ref(r.slot) /\ Current(r)
  BY DEF DrainIndexed, ActorRef, Current, Ref
<1>4. ASSUME NEW s \in Slot, state'[s] = "Quiescing"
      PROVE  root[s] \in drainRoots' /\ root[s] \in ancestors[s] \cup {Ref(s)}
  <2>1. s \notin fenced /\ st[s] = "Quiescing" /\ Live(s)
    BY <1>1, <1>4
  <2>2. root[s] \in roots /\ root[s] \in ancestors[s] \cup {Ref(s)}
    BY <2>1 DEF DrainIndexed
  <2>3. s \in Subtree(root[s].slot)
    <3>1. CASE root[s] \in ancestors[s]
      BY <1>3, <2>1, <2>2, <3>1 DEF Subtree
    <3>2. CASE root[s] = Ref(s)
      BY <2>1, <3>2 DEF Subtree, Ref
    <3> QED
      BY <2>2, <3>1, <3>2
  <2>4. root[s].slot \notin fenced
    BY <2>1, <2>3 DEF DownClosed
  <2> QED
    BY <2>2, <2>4
<1>5. ASSUME NEW r \in drainRoots'
      PROVE  /\ Current(r)' /\ state'[r.slot] = "Quiescing"
             /\ root[r.slot] = r /\ dl[r.slot] \in Time
  <2>1. r \in roots /\ r.slot \notin fenced /\ r.slot \in Slot
    BY <1>3
  <2>2. Current(r) /\ st[r.slot] = "Quiescing" /\ root[r.slot] = r /\ dl[r.slot] \in Time
    BY <2>1 DEF DrainIndexed
  <2>3. Current(r)'
    BY <1>2, <2>2 DEF Current
  <2> QED
    BY <1>1, <2>1, <2>2, <2>3
<1>6. \A r, e \in drainRoots' : e \notin ancestors[r.slot]
  BY DEF DrainIndexed
<1> QED
  BY <1>2, <1>4, <1>5, <1>6 DEF DrainInv, DrainIndexed

(* A maintenance pass over an exact index: no drain is above another, so   *)
(* fencing the drains that ended removes exactly their entries.            *)
LEMMA MaintainKeepsIndexed ==
  ASSUME TypeOK, LineageLive, UNCHANGED treeVars,
         NEW scope \in SUBSET Slot, DownClosed(scope), \A s \in scope : Live(s),
         NEW st, NEW root, NEW dl, NEW roots \in SUBSET ActorRef,
         DrainIndexed(st, root, dl, roots),
         \A s \in Slot : st[s] = "Quiescing" => Live(s),
         MaintainLocked(scope, st, root, dl, roots)
  PROVE  DrainInv'
<1>0. PICK q \in Remaining(queue, MailboxCapacity), p \in Remaining(pending, MaxPending) :
        \E ended, late : MaintainPass(scope, st, root, dl, roots, q, p, ended, late)
  BY MaintainOpens
<1>1. PICK ended, late : MaintainPass(scope, st, root, dl, roots, q, p, ended, late)
  BY <1>0
<1> DEFINE fenced == scope \cup UNION {Subtree(r.slot) : r \in ended}
           to == [s \in Slot |-> drainTimedOut[s] \/ s \in late]
<1>2. ended \in SUBSET roots /\ ended \in SUBSET ActorRef
  BY <1>1 DEF MaintainPass
<1>3. fenced \in SUBSET Slot /\ DownClosed(fenced) /\ \A s \in fenced : Live(s)
  BY <1>2, EndedScopes
<1>4. /\ drainRoot' = root /\ drainDeadline' = dl
      /\ drainRoots' = {r \in roots : r.slot \notin scope} \ ended
      /\ TryFinalize(fenced, Stopping(fenced, st), to)
  BY <1>1 DEF MaintainPass
<1>5. \A r \in roots : r.slot \in Slot /\ r = Ref(r.slot) /\ Live(r.slot)
  BY DEF DrainIndexed, ActorRef, Current, Ref
<1>6. \A r \in roots : r.slot \in fenced <=> r.slot \in scope \/ r \in ended
  <2> SUFFICES ASSUME NEW r \in roots
               PROVE  r.slot \in fenced <=> r.slot \in scope \/ r \in ended
    OBVIOUS
  <2>1. ASSUME r \in ended PROVE r.slot \in fenced
    BY <1>5, <2>1 DEF Subtree
  <2>2. ASSUME NEW e \in ended, r.slot \in Subtree(e.slot) PROVE r = e
    <3>1. e \in roots /\ e \notin ancestors[r.slot]
      BY <1>2 DEF DrainIndexed
    <3>2. r.slot = e.slot \/ Ref(e.slot) \in ancestors[r.slot]
      BY <2>2 DEF Subtree
    <3> QED
      BY <1>5, <3>1, <3>2
  <2> QED
    BY <2>1, <2>2
<1> HIDE DEF fenced, to
<1>7. drainRoots' = {r \in roots : r.slot \notin fenced}
  BY <1>4, <1>6
<1> QED
  BY <1>3, <1>4, <1>7, FenceKeepsIndexed

(* What drain_locked hands to maintain_locked has an exact index.          *)
LEMMA DrainLockedIndexes ==
  ASSUME CoreInv, DrainInv, NEW targets \in SUBSET Slot, NEW deadline \in Time,
         \A s, t \in targets : state[s] = "Active" /\ state[t] = "Active" =>
                                 Ref(t) \notin ancestors[s],
         DrainLocked(targets, deadline)
  PROVE  \E scope \in SUBSET Slot, roots \in SUBSET ActorRef : \E st, root, dl :
           /\ DownClosed(scope) /\ \A s \in scope : Live(s)
           /\ \A s \in Slot : st[s] = "Quiescing" => Live(s)
           /\ DrainIndexed(st, root, dl, roots)
           /\ MaintainLocked(scope, st, root, dl, roots)
<1> USE DEF CoreInv
<1> DEFINE stopped == UNION {Subtree(s) : s \in {t \in targets : state[t] = "Starting"}}
           opened == {s \in targets : state[s] = "Active"}
           joined == {drainRoot[s].slot : s \in {t \in targets : state[t] = "Quiescing"}}
           marked(o) == {d \in Subtree(o) : state[d] # "Stopping"}
           allMarked == UNION {marked(o) : o \in opened}
           opener(d) == CHOOSE o \in opened : d \in marked(o)
           earliest(s) == Earliest({deadline} \cup {drainDeadline[d] : d \in marked(s)})
           st == [s \in Slot |-> IF s \in allMarked THEN "Quiescing" ELSE state[s]]
           root == [s \in Slot |-> IF s \in allMarked THEN Ref(opener(s)) ELSE drainRoot[s]]
           dl == [s \in Slot |-> IF s \in opened THEN earliest(s)
                       ELSE IF s \in allMarked THEN NoDeadline
                       ELSE IF s \in joined /\ deadline < drainDeadline[s] THEN deadline
                       ELSE drainDeadline[s]]
           roots == {r \in drainRoots : r.slot \notin allMarked} \cup {Ref(s) : s \in opened}
<1>1. stopped \in SUBSET Slot /\ DownClosed(stopped) /\ \A s \in stopped : Live(s)
  <2>1. stopped \in SUBSET Slot /\ DownClosed(stopped)
    BY UnionDownClosed
  <2>2. \A s \in stopped : Live(s)
    BY DEF Subtree
  <2> QED
    BY <2>1, <2>2
<1>2. \A o \in opened : o \in Slot /\ Live(o) /\ Ref(o) \in ActorRef /\ Ref(o).slot = o
  BY RefType DEF Live, Ref
<1>3. allMarked \in SUBSET Slot /\ \A s \in allMarked : Live(s) /\ state[s] # "Stopping"
  BY DEF Subtree
<1>4. \A s \in allMarked : \A d \in Subtree(s) : d \in allMarked \/ state[d] = "Stopping"
  BY <1>2, SubtreeNested
<1>5. opened \subseteq allMarked
  <2>1. \A o \in opened : o \in marked(o)
    BY <1>2 DEF Subtree
  <2> QED
    BY <2>1
<1>6. \A s \in allMarked : opener(s) \in opened /\ s \in Subtree(opener(s))
  OBVIOUS
<1>7. \A o \in opened : opener(o) = o
  <2> SUFFICES ASSUME NEW o \in opened PROVE opener(o) = o
    OBVIOUS
  <2>1. opener(o) \in opened /\ o \in Subtree(opener(o))
    BY <1>5, <1>6
  <2>2. Ref(opener(o)) \notin ancestors[o]
    <3> HIDE DEF opener
    <3> QED
      BY <2>1
  <2> HIDE DEF opener
  <2> QED
    BY <2>1, <2>2 DEF Subtree
<1>8. \A r \in drainRoots : /\ r \in ActorRef /\ r.slot \in Slot /\ r = Ref(r.slot)
                            /\ Current(r) /\ state[r.slot] = "Quiescing"
                            /\ drainRoot[r.slot] = r /\ drainDeadline[r.slot] \in Time
  BY DEF DrainInv, DrainIndexed, TypeOK, ActorRef, Current, Ref
<1>9. \A o \in opened : earliest(o) \in Time
  <2> SUFFICES ASSUME NEW s \in opened
               PROVE  earliest(s) \in Time
    OBVIOUS
  <2> DEFINE times == {deadline} \cup {drainDeadline[d] : d \in marked(s)}
  <2>1. marked(s) \subseteq Slot
    BY DEF Subtree
  <2>2. times \subseteq 0..NoDeadline /\ deadline \in times
    BY <2>1, TimeAssumption DEF TypeOK, Time, NoDeadline
  <2>3. times \in SUBSET Nat /\ times # {}
    BY <2>2
  <2>4. Earliest(times) \in times /\ Earliest(times) <= deadline
    BY <2>2, <2>3, EarliestIsLeast
  <2> HIDE DEF times
  <2>5. Earliest(times) \in Time
    BY <2>2, <2>4, TimeAssumption DEF Time, NoDeadline
  <2> QED
    BY <2>5 DEF times
<1>10. MaintainLocked(stopped, st, root, dl, roots)
  BY DEF DrainLocked
<1>11. roots \in SUBSET ActorRef
  BY <1>2, <1>8
<1>12. \A s \in Slot : /\ st[s] = IF s \in allMarked THEN "Quiescing" ELSE state[s]
                       /\ s \in allMarked => root[s] = Ref(opener(s))
                       /\ s \notin allMarked => root[s] = drainRoot[s]
                       /\ s \in opened => dl[s] = earliest(s)
                       /\ s \notin allMarked =>
                            dl[s] = deadline \/ dl[s] = drainDeadline[s]
  <2> HIDE DEF allMarked, opened, joined, opener, earliest
  <2> QED
    BY <1>5
<1> HIDE DEF stopped, opened, joined, opener, earliest, st, root, dl, allMarked
<1>13. \A s \in Slot : st[s] = "Quiescing" => Live(s)
  BY <1>3, <1>12 DEF Live
<1>14. ASSUME NEW s \in Slot, st[s] = "Quiescing"
       PROVE  root[s] \in roots /\ root[s] \in ancestors[s] \cup {Ref(s)}
  <2>1. CASE s \in allMarked
    BY <1>6, <1>12, <2>1 DEF Subtree
  <2>2. CASE s \notin allMarked
    <3>1. state[s] = "Quiescing" /\ root[s] = drainRoot[s]
      BY <1>12, <1>14, <2>2
    <3>2. drainRoot[s] \in drainRoots /\ drainRoot[s] \in ancestors[s] \cup {Ref(s)}
      BY <3>1 DEF DrainInv, DrainIndexed
    <3>3. s \in Subtree(drainRoot[s].slot)
      <4>1. CASE drainRoot[s] \in ancestors[s]
        BY <1>8, <3>1, <3>2, <4>1 DEF Subtree, Live
      <4>2. CASE drainRoot[s] = Ref(s)
        BY <3>1, <4>2 DEF Subtree, Ref, Live
      <4> QED
        BY <3>2, <4>1, <4>2
    <3>4. drainRoot[s].slot \notin allMarked
      BY <1>4, <2>2, <3>1, <3>3
    <3> QED
      BY <3>1, <3>2, <3>4
  <2> QED
    BY <2>1, <2>2
<1>15. ASSUME NEW r \in roots
       PROVE  /\ Current(r) /\ st[r.slot] = "Quiescing"
              /\ root[r.slot] = r /\ dl[r.slot] \in Time
  <2>1. CASE r \in drainRoots /\ r.slot \notin allMarked
    BY <1>8, <1>12, <2>1
  <2>2. ASSUME NEW o \in opened, r = Ref(o)
        PROVE  /\ Current(r) /\ st[r.slot] = "Quiescing"
               /\ root[r.slot] = r /\ dl[r.slot] \in Time
    BY <1>2, <1>5, <1>7, <1>9, <1>12, <2>2 DEF Current, Ref
  <2> QED
    BY <2>1, <2>2
<1>16. ASSUME NEW r \in roots, NEW e \in roots, e \in ancestors[r.slot]
       PROVE  FALSE
  <2>1. \A o \in opened : state[o] = "Active" /\ o \in targets
    BY DEF opened
  <2>2. CASE r \in drainRoots /\ e \in drainRoots
    BY <1>16, <2>2 DEF DrainInv, DrainIndexed
  <2>3. CASE /\ r \in drainRoots /\ r.slot \notin allMarked
             /\ \E o \in opened : e = Ref(o)
    <3>1. PICK o \in opened : e = Ref(o)
      BY <2>3
    <3>2. r.slot \in Subtree(o) /\ state[r.slot] = "Quiescing"
      BY <1>8, <1>16, <2>3, <3>1 DEF Subtree, Live
    <3> QED
      BY <1>4, <1>5, <2>3, <3>1, <3>2
  <2>4. CASE e \in drainRoots /\ \E o \in opened : r = Ref(o)
    <3>1. PICK o \in opened : r = Ref(o)
      BY <2>4
    <3>2. state[e.slot] = "Quiescing" /\ e \in ancestors[o] /\ Live(o) /\ o \in Slot
      BY <1>2, <1>8, <1>16, <2>4, <3>1
    <3> QED
      BY <2>1, <3>2 DEF FenceClosed
  <2>5. CASE (\E o \in opened : r = Ref(o)) /\ (\E o \in opened : e = Ref(o))
    BY <1>2, <1>16, <2>1, <2>5
  <2> QED
    BY <2>2, <2>3, <2>4, <2>5
<1>17. DrainIndexed(st, root, dl, roots)
  BY <1>14, <1>15, <1>16 DEF DrainIndexed
<1> HIDE DEF roots
<1> QED
  BY <1>1, <1>10, <1>11, <1>13, <1>17

(* A step that moves no actor into or out of Quiescing and leaves the      *)
(* drain fields alone.                                                     *)
LEMMA IndexUntouched ==
  ASSUME DrainInv, UNCHANGED drainVars, UNCHANGED <<gen, ancestors>>, TypeOK,
         \A s \in Slot : state'[s] = "Quiescing" <=> state[s] = "Quiescing"
  PROVE  DrainInv'
<1>1. \A r \in drainRoots : r.slot \in Slot
  BY DEF TypeOK, ActorRef
<1> QED
  BY <1>1 DEF DrainInv, DrainIndexed, drainVars, Ref, Current

(* Every step keeps the drain index exact.                                 *)
LEMMA DrainStep ==
  ASSUME CoreInv, DrainInv, [Next]_vars
  PROVE  DrainInv'
<1> USE DEF CoreInv
<1>0. /\ drainRoots \in SUBSET ActorRef
      /\ \A s \in Slot : state[s] = "Quiescing" => Live(s)
  BY DEF TypeOK, Live
<1>1. ASSUME NEW p \in ActorRef \cup {NoRef}, NEW k \in Kinds, Allocate(p, k)
      PROVE  DrainInv'
  <2>1. PICK s \in Slot :
           /\ ~Live(s)
           /\ gen' = [gen EXCEPT ![s] = @ + 1]
           /\ state' = [state EXCEPT ![s] = "Starting"]
           /\ ancestors' = [ancestors EXCEPT ![s] =
                              IF p = NoRef THEN {} ELSE {p} \cup ancestors[p.slot]]
           /\ drainRoot' = [drainRoot EXCEPT ![s] = NoRef]
           /\ drainDeadline' = [drainDeadline EXCEPT ![s] = NoDeadline]
    BY <1>1 DEF Allocate, NextSlots, Live
  <2>2. drainRoots' = drainRoots
    BY <1>1 DEF Allocate
  <2>3. state'[s] = "Starting"
    BY <2>1 DEF TypeOK
  <2>4. \A t \in Slot : t # s =>
          /\ gen'[t] = gen[t] /\ state'[t] = state[t] /\ ancestors'[t] = ancestors[t]
          /\ drainRoot'[t] = drainRoot[t] /\ drainDeadline'[t] = drainDeadline[t]
    BY <2>1 DEF TypeOK
  <2>5. \A r \in drainRoots : r.slot \in Slot /\ r.slot # s
    BY <1>0, <2>1 DEF DrainInv, DrainIndexed, ActorRef
  <2>6. \A r \in drainRoots : /\ Current(r)' /\ state'[r.slot] = "Quiescing"
                              /\ drainRoot'[r.slot] = r /\ drainDeadline'[r.slot] \in Time
    BY <2>4, <2>5 DEF DrainInv, DrainIndexed, Current
  <2>7. \A r, e \in drainRoots : e \notin ancestors'[r.slot]
    BY <2>4, <2>5 DEF DrainInv, DrainIndexed
  <2>8. \A t \in Slot : state'[t] = "Quiescing" =>
          drainRoot'[t] \in drainRoots /\ drainRoot'[t] \in ancestors'[t] \cup {Ref(t)'}
    BY <2>3, <2>4 DEF DrainInv, DrainIndexed, Ref
  <2> QED
    BY <2>2, <2>6, <2>7, <2>8 DEF DrainInv, DrainIndexed
<1>2. CASE Resting
  <2>1. Keeps
    BY <1>2, RestingActions DEF Rests
  <2>2. UNCHANGED drainVars
    BY <1>2 DEF Resting, Activate, Admit, BeginPending, Claim, TrackTask, ClaimCallback,
                EndPending, Tick, vars
  <2>3. \A s \in Slot : state'[s] = "Quiescing" <=> state[s] = "Quiescing"
    BY <2>1 DEF Keeps, TypeOK
  <2> QED
    BY <2>1, <2>2, <2>3, IndexUntouched DEF Keeps
<1>3. ASSUME NEW touched, TryFinalize(touched, state, drainTimedOut), UNCHANGED treeVars,
             UNCHANGED drainVars
      PROVE  DrainInv'
  <2>1. \A s \in Finalised(touched, state) : state[s] = "Stopping"
    BY FinalisedDownClosed
  <2>2. \A s \in Slot : state'[s] = "Quiescing" <=> state[s] = "Quiescing"
    BY <1>3, <2>1 DEF TryFinalize
  <2> QED
    BY <1>3, <2>2, IndexUntouched DEF treeVars
<1>4. ASSUME NEW r \in ActorRef,
             ReleaseDelivery(r) \/ ReleaseTask(r) \/ FinishPython(r) \/ ClaimFailure(r)
      PROVE  DrainInv'
  BY <1>3, <1>4 DEF ReleaseDelivery, ReleaseTask, FinishPython, ClaimFailure
<1>5. ASSUME NEW fenced \in SUBSET Slot, DownClosed(fenced), NEW touched, NEW nt, NEW pf,
             FenceLocked(fenced, touched, nt, pf), UNCHANGED treeVars
      PROVE  DrainInv'
  BY <1>0, <1>5, FenceKeepsIndexed DEF FenceLocked, DrainInv
<1>6. ASSUME NEW r \in ActorRef, NEW q \in BOOLEAN, NEW a \in FailureActions,
             ReportFailure(r, q, a)
      PROVE  DrainInv'
  <2>1. PICK nt, pf : UNCHANGED treeVars /\ FenceLocked(ScopeOf(a, r), {}, nt, pf)
    BY <1>6 DEF ReportFailure
  <2> QED
    BY <1>5, <2>1, ScopeFacts
<1>7. ASSUME NEW l \in controlLeases, NEW a \in FailureActions, ReleaseControl(l, a)
      PROVE  DrainInv'
  <2>1. l.owner \in ActorRef /\ l.source \in ActorRef \cup {NoRef}
    BY DEF TypeOK
  <2>2. a = "StopActor" => l.source \in ActorRef
    BY <1>7, <2>1 DEF ReleaseControl
  <2>3. PICK touched : FenceLocked(ScopeOf(a, l.source), touched, notification,
                                   pendingFailures) /\ UNCHANGED treeVars
    BY <1>7 DEF ReleaseControl
  <2> QED
    BY <1>5, <2>1, <2>2, <2>3, ScopeFacts
<1>8. ASSUME NEW r \in ActorRef, Stop(r)
      PROVE  DrainInv'
  <2>1. /\ r.slot \in Slot /\ UNCHANGED treeVars
        /\ FenceLocked(Subtree(r.slot), {}, notification, pendingFailures)
    BY <1>8 DEF Stop, ActorRef
  <2> QED
    BY <1>5, <2>1, SubtreeDownClosed
<1>9. CASE Close
  <2>1. UNCHANGED treeVars
          /\ FenceLocked(ScopeOf("StopWorld", NoRef), {}, notification, pendingFailures)
    BY <1>9 DEF Close
  <2>2. "StopWorld" \in FailureActions
    BY DEF FailureActions
  <2> QED
    BY <1>5, <2>1, <2>2, ScopeFacts
<1>10. ASSUME NEW targets \in SUBSET Slot, NEW d \in Time, DrainLocked(targets, d),
              \A s, t \in targets : state[s] = "Active" /\ state[t] = "Active" =>
                                      Ref(t) \notin ancestors[s],
              UNCHANGED treeVars
       PROVE  DrainInv'
  <2>1. PICK scope \in SUBSET Slot, roots \in SUBSET ActorRef : \E st, root, dl :
           /\ DownClosed(scope) /\ \A s \in scope : Live(s)
           /\ \A s \in Slot : st[s] = "Quiescing" => Live(s)
           /\ DrainIndexed(st, root, dl, roots)
           /\ MaintainLocked(scope, st, root, dl, roots)
    BY <1>10, DrainLockedIndexes
  <2>2. PICK st, root, dl :
           /\ DownClosed(scope) /\ \A s \in scope : Live(s)
           /\ \A s \in Slot : st[s] = "Quiescing" => Live(s)
           /\ DrainIndexed(st, root, dl, roots)
           /\ MaintainLocked(scope, st, root, dl, roots)
    BY <2>1
  <2> QED
    BY <1>10, <2>2, MaintainKeepsIndexed
<1>11. ASSUME NEW r \in ActorRef, NEW d \in Time, RequestDrain(r, d)
       PROVE  DrainInv'
  <2>1. {r.slot} \in SUBSET Slot /\ r.slot \in Slot
    BY DEF ActorRef
  <2>2. state[r.slot] = "Active" => Ref(r.slot) \notin ancestors[r.slot]
    BY <2>1 DEF LineageLive, Live, Ref
  <2> QED
    BY <1>10, <1>11, <2>1, <2>2 DEF RequestDrain
<1>12. ASSUME NEW d \in Time, DrainAll(d)
       PROVE  DrainInv'
  <2> DEFINE targets == {s \in Slot : Live(s) /\ parent[s] = NoRef}
  <2>1. targets \in SUBSET Slot /\ \A s \in targets : ancestors[s] = {}
    BY DEF LineageLive
  <2>2. DrainLocked(targets, d) /\ UNCHANGED treeVars
    BY <1>12 DEF DrainAll
  <2> HIDE DEF targets
  <2> QED
    BY <1>10, <2>1, <2>2
<1>13. CASE Maintain
  <2>1. UNCHANGED treeVars /\ MaintainLocked({}, state, drainRoot, drainDeadline, drainRoots)
    BY <1>13 DEF Maintain
  <2>2. {} \in SUBSET Slot /\ DownClosed({}) /\ \A s \in {} : Live(s)
    BY DEF DownClosed
  <2> QED
    BY <1>0, <2>1, <2>2, MaintainKeepsIndexed DEF DrainInv
<1> QED
  BY <1>1, <1>2, <1>4, <1>6, <1>7, <1>8, <1>9, <1>11, <1>12, <1>13 DEF Next, Resting

(* The drain index is an invariant of the World.                           *)
THEOREM DrainInvariant == Spec => []DrainInv
<1>1. Init => DrainInv
  BY DEF Init, DrainInv, DrainIndexed
<1>2. CoreInv /\ DrainInv /\ [Next]_vars => DrainInv'
  BY DrainStep
<1> QED
  BY <1>1, <1>2, CoreInvariant, PTL DEF Spec

(* drain_roots holds exactly the roots of the draining scopes, through     *)
(* nested drains, absorbed drains, stops and deadlines.                    *)
THEOREM DrainIndexAlwaysExact == Spec => []DrainIndexExact
<1>1. DrainInv => DrainIndexExact
  BY DEF DrainInv, DrainIndexed, DrainIndexExact
<1> QED
  BY <1>1, DrainInvariant, PTL

-----------------------------------------------------------------------------
(* Failure notifications.                                                  *)

(* The children of an actor that have a failure to report.                 *)
Reporting(s, nt) == {c \in Children(s) : nt[c]}

(* The notification invariant over given flags and counts.                 *)
NotesWith(nt, pf) ==
  /\ \A s \in Slot : nt[s] => /\ Live(s)
                              /\ parent[s] # NoRef
                              /\ state[parent[s].slot] \in {"Starting", "Active", "Quiescing"}
  /\ \A s \in Slot : Live(s) => pf[s] = Cardinality(Reporting(s, nt))

(* It is the property, over the flags and counts of the World.             *)
LEMMA NotesAreReceivable ==
  NotificationReceivable <=> NotesWith(notification, pendingFailures)
BY DEF NotificationReceivable, NotesWith, Reporting

(* Sets of reporting children are finite.                                  *)
LEMMA ReportingFinite ==
  ASSUME NEW s, NEW nt
  PROVE  /\ IsFiniteSet(Reporting(s, nt))
         /\ Cardinality(Reporting(s, nt)) \in Nat
<1>1. Reporting(s, nt) \subseteq Slot
  BY DEF Reporting, Children
<1>2. IsFiniteSet(Reporting(s, nt))
  BY <1>1, SlotAssumption, FS_Subset
<1> QED
  BY <1>2, FS_CardinalityType

(* A step that leaves the notifications alone discards those of nobody.    *)
LEMMA DiscardNothing ==
  ASSUME NEW nt \in [Slot -> BOOLEAN], NEW pf \in [Slot -> Int],
         notification' = nt, pendingFailures' = pf
  PROVE  DiscardNotifications({}, nt, pf)
<1>1. nt = [s \in Slot |-> nt[s] /\ ~\E p \in {} : parent[s] = Ref(p)]
  OBVIOUS
<1>2. pf = [s \in Slot |-> IF s \in {}
                           THEN pf[s] - Cardinality({c \in Children(s) : nt[c]})
                           ELSE pf[s]]
  OBVIOUS
<1> QED
  BY <1>1, <1>2 DEF DiscardNotifications

(* Discarding the notifications of what a step fences keeps the rest       *)
(* receivable and counted, through the finalisation that follows.          *)
LEMMA DiscardKeepsNotes ==
  ASSUME CoreInv, LineageLive', NEW fenced, NEW marked, NEW touched, NEW to,
         SettleShape(fenced, marked, touched, to),
         NEW nt \in [Slot -> BOOLEAN], NEW pf \in [Slot -> Int],
         NotesWith(nt, pf), DiscardNotifications(fenced, nt, pf)
  PROVE  NotificationReceivable'
<1> USE DEF CoreInv
<1>1. UNCHANGED <<gen, parent, ancestors>> /\ \A s : Ref(s)' = Ref(s)
  BY DEF SettleShape, treeVars, Ref
<1>2. \A s \in Slot : /\ Live(s)' => Live(s) /\ state'[s] = SettleState(fenced, marked)[s]
                      /\ Live(s) /\ ~Live(s)' => Quiet(s)'
  BY SettleKeeps
<1>3. \A s \in Slot : notification'[s] <=> nt[s] /\ ~\E p \in fenced : parent[s] = Ref(p)
  BY DEF DiscardNotifications
<1>4. \A s \in Slot : notification'[s] => Live(s)'
  BY <1>2, <1>3 DEF NotesWith, Quiet
<1>5. ASSUME NEW s \in Slot, notification'[s]
      PROVE  /\ Live(s)' /\ parent[s] # NoRef
             /\ state'[parent[s].slot] \in {"Starting", "Active", "Quiescing"}
  <2>1. /\ nt[s] /\ Live(s)' /\ parent[s] # NoRef
        /\ state[parent[s].slot] \in {"Starting", "Active", "Quiescing"}
    BY <1>3, <1>4, <1>5 DEF NotesWith
  <2>2. parent[s] \in ActorRef /\ parent[s].slot \in Slot
    BY <2>1 DEF TypeOK, ActorRef
  <2>3. parent[s] \in ancestors[s]
    BY <1>2, <2>1 DEF LineageLive
  <2>4. PICK x \in Slot : x = parent[s].slot
    BY <2>2
  <2>5. Live(x)' /\ Current(parent[s])
    BY <1>1, <1>2, <2>1, <2>3, <2>4 DEF LineageLive
  <2>6. x \notin fenced
    BY <1>3, <1>5, <2>2, <2>4, <2>5 DEF Current, Ref, ActorRef
  <2>7. state'[x] = SettleState(fenced, marked)[x]
    BY <1>2, <2>5
  <2> QED
    BY <2>1, <2>4, <2>6, <2>7 DEF SettleState
<1>6. ASSUME NEW s \in Slot, Live(s)'
      PROVE  pendingFailures'[s] = Cardinality(Reporting(s, notification)')
  <2>1. Live(s) /\ pf[s] = Cardinality(Reporting(s, nt))
    BY <1>2, <1>6 DEF NotesWith
  <2>2. CASE s \in fenced
    <3>1. pendingFailures'[s] = pf[s] - Cardinality(Reporting(s, nt))
      BY <2>2 DEF DiscardNotifications, Reporting
    <3>2. pendingFailures'[s] = 0
      BY <2>1, <3>1, ReportingFinite
    <3>3. Reporting(s, notification)' = {}
      BY <1>1, <1>3, <2>2 DEF Reporting, Children
    <3> QED
      BY <3>2, <3>3, FS_EmptySet
  <2>3. CASE s \notin fenced
    <3>1. pendingFailures'[s] = pf[s]
      BY <2>3 DEF DiscardNotifications
    <3>2. ASSUME NEW c \in Slot
          PROVE  c \in Reporting(s, notification)' <=> c \in Reporting(s, nt)
      <4>1. parent[c] = Ref(s) => ~\E p \in fenced : parent[c] = Ref(p)
        <5>1. \A x : Ref(x).slot = x
          BY DEF Ref
        <5> QED
          BY <2>3, <5>1
      <4>2. c \in Children(s)' <=> Live(c)' /\ parent[c] = Ref(s)
        BY <1>1 DEF Children
      <4>3. c \in Children(s) <=> Live(c) /\ parent[c] = Ref(s)
        BY DEF Children
      <4>4. c \in Reporting(s, notification)' <=> c \in Children(s)' /\ notification'[c]
        BY DEF Reporting
      <4>5. c \in Reporting(s, nt) <=> c \in Children(s) /\ nt[c]
        BY DEF Reporting
      <4> QED
        BY <1>2, <1>3, <1>4, <4>1, <4>2, <4>3, <4>4, <4>5
    <3>3. Reporting(s, notification)' = Reporting(s, nt)
      <4>1. /\ Reporting(s, notification)' \subseteq Slot
            /\ Reporting(s, nt) \subseteq Slot
        BY DEF Reporting, Children
      <4> QED
        BY <3>2, <4>1
    <3> QED
      BY <2>1, <3>1, <3>3
  <2> QED
    BY <2>2, <2>3
<1>7. NotesWith(notification, pendingFailures)'
  BY <1>1, <1>5, <1>6 DEF NotesWith
<1> QED
  BY <1>7, NotesAreReceivable, PTL

(* A release, with the notifications as they are after it.                 *)
LEMMA TouchKeepsNotes ==
  ASSUME CoreInv, LineageLive', NEW touched, UNCHANGED treeVars,
         TryFinalize(touched, state, drainTimedOut),
         NEW nt \in [Slot -> BOOLEAN], NEW pf \in [Slot -> Int], NotesWith(nt, pf),
         notification' = nt, pendingFailures' = pf
  PROVE  NotificationReceivable'
<1>1. TryFinalize(touched, SettleState({}, {}), drainTimedOut)
  BY SettleNothing DEF CoreInv
<1>2. SettleShape({}, {}, touched, drainTimedOut)
  BY <1>1 DEF SettleShape, DownClosed
<1> QED
  BY <1>2, DiscardNothing, DiscardKeepsNotes

(* fence_locked.                                                           *)
LEMMA FenceKeepsNotes ==
  ASSUME CoreInv, LineageLive', UNCHANGED treeVars, NEW fenced \in SUBSET Slot,
         DownClosed(fenced), \A s \in fenced : Live(s), NEW touched,
         NEW nt \in [Slot -> BOOLEAN], NEW pf \in [Slot -> Int], NotesWith(nt, pf),
         FenceLocked(fenced, touched, nt, pf)
  PROVE  NotificationReceivable'
<1>1. TryFinalize(fenced \cup touched, SettleState(fenced, {}), drainTimedOut)
        /\ DiscardNotifications(fenced, nt, pf)
  BY SettleFence DEF FenceLocked
<1>2. SettleShape(fenced, {}, fenced \cup touched, drainTimedOut)
  BY <1>1 DEF SettleShape
<1> QED
  BY <1>1, <1>2, DiscardKeepsNotes

(* maintain_locked.                                                        *)
LEMMA MaintainKeepsNotes ==
  ASSUME CoreInv, LineageLive', UNCHANGED treeVars, NotificationReceivable,
         NEW scope \in SUBSET Slot, NEW marked \in SUBSET Slot,
         DownClosed(scope), \A s \in scope : Live(s),
         \A s \in marked : Live(s) /\ state[s] # "Stopping",
         \A s \in marked : \A d \in Subtree(s) : d \in marked \/ state[d] = "Stopping",
         NEW root, NEW dl, NEW roots \in SUBSET ActorRef,
         MaintainLocked(scope,
           [s \in Slot |-> IF s \in marked THEN "Quiescing" ELSE state[s]], root, dl, roots)
  PROVE  NotificationReceivable'
<1> USE DEF CoreInv
<1> DEFINE st == [s \in Slot |-> IF s \in marked THEN "Quiescing" ELSE state[s]]
<1>0. PICK q \in Remaining(queue, MailboxCapacity), p \in Remaining(pending, MaxPending) :
        \E ended, late : MaintainPass(scope, st, root, dl, roots, q, p, ended, late)
  BY MaintainOpens
<1>1. PICK ended, late : MaintainPass(scope, st, root, dl, roots, q, p, ended, late)
  BY <1>0
<1>2. ended \in SUBSET ActorRef
  BY <1>1 DEF MaintainPass
<1> DEFINE fenced == scope \cup UNION {Subtree(r.slot) : r \in ended}
           to == [s \in Slot |-> drainTimedOut[s] \/ s \in late]
<1>3. fenced \in SUBSET Slot /\ DownClosed(fenced) /\ \A s \in fenced : Live(s)
  BY <1>2, EndedScopes
<1>4. Stopping(fenced, st) = SettleState(fenced, marked)
  BY DEF Stopping, SettleState
<1>5. /\ DiscardNotifications(fenced, notification, pendingFailures)
      /\ TryFinalize(fenced, SettleState(fenced, marked), to)
  BY <1>1, <1>4 DEF MaintainPass
<1>6. \A s \in Slot : drainTimedOut[s] => to[s]
  OBVIOUS
<1> HIDE DEF fenced, to
<1>7. SettleShape(fenced, marked, fenced, to)
  BY <1>3, <1>5, <1>6 DEF SettleShape
<1>8. /\ NotesWith(notification, pendingFailures)
      /\ notification \in [Slot -> BOOLEAN] /\ pendingFailures \in [Slot -> Int]
  BY NotesAreReceivable DEF TypeOK
<1> QED
  BY <1>5, <1>7, <1>8, DiscardKeepsNotes

(* report_failure sets the one notification of the actor that failed, if   *)
(* its supervisor can take it, and counts it there.                        *)
LEMMA ReportKeepsNotes ==
  ASSUME CoreInv, NotificationReceivable, NEW r \in ActorRef, Current(r), Live(r.slot),
         NEW p, p = parent[r.slot], NEW nt, NEW pf,
         \/ nt = notification /\ pf = pendingFailures
         \/ /\ ~notification[r.slot]
            /\ p # NoRef /\ Current(p)
            /\ state[p.slot] \in {"Starting", "Active", "Quiescing"}
            /\ nt = [notification EXCEPT ![r.slot] = TRUE]
            /\ pf = [pendingFailures EXCEPT ![p.slot] = @ + 1]
  PROVE  nt \in [Slot -> BOOLEAN] /\ pf \in [Slot -> Int] /\ NotesWith(nt, pf)
<1> USE DEF CoreInv
<1>0. /\ NotesWith(notification, pendingFailures)
      /\ notification \in [Slot -> BOOLEAN] /\ pendingFailures \in [Slot -> Int]
  BY NotesAreReceivable DEF TypeOK
<1>1. CASE nt = notification /\ pf = pendingFailures
  BY <1>0, <1>1
<1>2. CASE /\ ~notification[r.slot]
           /\ p # NoRef /\ Current(p)
           /\ state[p.slot] \in {"Starting", "Active", "Quiescing"}
           /\ nt = [notification EXCEPT ![r.slot] = TRUE]
           /\ pf = [pendingFailures EXCEPT ![p.slot] = @ + 1]
  <2>1. /\ r.slot \in Slot /\ p.slot \in Slot /\ p = Ref(p.slot)
        /\ \A s \in Slot : Ref(s).slot = s
    BY <1>2 DEF TypeOK, ActorRef, Current, Ref
  <2>2. /\ nt \in [Slot -> BOOLEAN] /\ nt[r.slot]
        /\ \A s \in Slot : s # r.slot => (nt[s] <=> notification[s])
    BY <1>0, <1>2, <2>1
  <2>3. /\ pf \in [Slot -> Int] /\ pf[p.slot] = pendingFailures[p.slot] + 1
        /\ \A s \in Slot : s # p.slot => pf[s] = pendingFailures[s]
    BY <1>0, <1>2, <2>1
  <2>4. \A s \in Slot : nt[s] => /\ Live(s)
                                 /\ parent[s] # NoRef
                                 /\ state[parent[s].slot] \in {"Starting", "Active", "Quiescing"}
    BY <1>0, <1>2, <2>2 DEF NotesWith
  <2>5. ASSUME NEW s \in Slot, Live(s)
        PROVE  pf[s] = Cardinality(Reporting(s, nt))
    <3>1. pendingFailures[s] = Cardinality(Reporting(s, notification))
      BY <1>0, <2>5 DEF NotesWith
    <3>2. \A c \in Slot : /\ c \in Reporting(s, nt) <=> c \in Children(s) /\ nt[c]
                          /\ c \in Reporting(s, notification) <=> c \in Children(s) /\ notification[c]
      BY DEF Reporting
    <3>3. Reporting(s, nt) \subseteq Slot /\ Reporting(s, notification) \subseteq Slot
      BY DEF Reporting, Children
    <3>4. r.slot \in Children(s) <=> s = p.slot
      BY <2>1 DEF Children
    <3>5. CASE s = p.slot
      <4> DEFINE x == r.slot
                 S == Reporting(s, notification)
      <4>1. x \notin S /\ IsFiniteSet(S)
        BY <1>2, <2>1, <3>2, ReportingFinite
      <4>2. Reporting(s, nt) = S \cup {x}
        <5>1. \A c \in Slot : c \in Reporting(s, nt) <=> c \in S \/ c = x
          BY <2>2, <3>2, <3>4, <3>5
        <5> QED
          BY <2>1, <3>3, <5>1
      <4> HIDE DEF x, S
      <4>3. Cardinality(S \cup {x}) = Cardinality(S) + 1
        BY <4>1, FS_AddElement
      <4> QED
        BY <2>3, <3>1, <3>5, <4>2, <4>3 DEF S
    <3>6. CASE s # p.slot
      <4>1. \A c \in Slot : c \in Reporting(s, nt) <=> c \in Reporting(s, notification)
        BY <2>2, <3>2, <3>4, <3>6
      <4>2. Reporting(s, nt) = Reporting(s, notification)
        BY <3>3, <4>1
      <4> QED
        BY <2>3, <3>1, <3>6, <4>2
    <3> QED
      BY <3>5, <3>6
  <2> QED
    BY <2>2, <2>3, <2>4, <2>5 DEF NotesWith
<1> QED
  BY <1>1, <1>2

(* claim_failure takes one notification and its count.                     *)
LEMMA ClaimKeepsNotes ==
  ASSUME CoreInv, NotificationReceivable, NEW r \in ActorRef, Current(r), Live(r.slot),
         NEW c \in Children(r.slot), notification[c], NEW nt, NEW pf,
         nt = [notification EXCEPT ![c] = FALSE],
         pf = [pendingFailures EXCEPT ![r.slot] = @ - 1]
  PROVE  nt \in [Slot -> BOOLEAN] /\ pf \in [Slot -> Int] /\ NotesWith(nt, pf)
<1> USE DEF CoreInv
<1>0. /\ NotesWith(notification, pendingFailures)
      /\ notification \in [Slot -> BOOLEAN] /\ pendingFailures \in [Slot -> Int]
  BY NotesAreReceivable DEF TypeOK
<1>1. /\ r.slot \in Slot /\ c \in Slot /\ parent[c] = Ref(r.slot)
      /\ \A s \in Slot : Ref(s).slot = s
  BY DEF ActorRef, Ref, Children
<1>2. /\ nt \in [Slot -> BOOLEAN] /\ ~nt[c]
      /\ \A s \in Slot : s # c => (nt[s] <=> notification[s])
  BY <1>0, <1>1
<1>3. /\ pf \in [Slot -> Int] /\ pf[r.slot] = pendingFailures[r.slot] - 1
      /\ \A s \in Slot : s # r.slot => pf[s] = pendingFailures[s]
  BY <1>0, <1>1
<1>4. \A s \in Slot : nt[s] => /\ Live(s)
                               /\ parent[s] # NoRef
                               /\ state[parent[s].slot] \in {"Starting", "Active", "Quiescing"}
  BY <1>0, <1>2 DEF NotesWith
<1>5. ASSUME NEW s \in Slot, Live(s)
      PROVE  pf[s] = Cardinality(Reporting(s, nt))
  <2>1. pendingFailures[s] = Cardinality(Reporting(s, notification))
    BY <1>0, <1>5 DEF NotesWith
  <2>2. \A d \in Slot : /\ d \in Reporting(s, nt) <=> d \in Children(s) /\ nt[d]
                        /\ d \in Reporting(s, notification) <=> d \in Children(s) /\ notification[d]
    BY DEF Reporting
  <2>3. Reporting(s, nt) \subseteq Slot /\ Reporting(s, notification) \subseteq Slot
    BY DEF Reporting, Children
  <2>4. c \in Children(s) <=> s = r.slot
    BY <1>1 DEF Children
  <2>5. CASE s = r.slot
    <3> DEFINE S == Reporting(s, notification)
    <3>1. c \in S /\ IsFiniteSet(S)
      BY <1>1, <2>2, <2>4, <2>5, ReportingFinite
    <3>2. Reporting(s, nt) = S \ {c}
      <4>1. \A d \in Slot : d \in Reporting(s, nt) <=> d \in S /\ d # c
        BY <1>2, <2>2
      <4> QED
        BY <2>3, <4>1
    <3> HIDE DEF S
    <3>3. Cardinality(S \ {c}) = Cardinality(S) - 1
      BY <3>1, FS_RemoveElement
    <3> QED
      BY <1>3, <2>1, <2>5, <3>2, <3>3 DEF S
  <2>6. CASE s # r.slot
    <3>1. \A d \in Slot : d \in Reporting(s, nt) <=> d \in Reporting(s, notification)
      BY <1>2, <2>2, <2>4, <2>6
    <3>2. Reporting(s, nt) = Reporting(s, notification)
      BY <2>3, <3>1
    <3> QED
      BY <1>3, <2>1, <2>6, <3>2
  <2> QED
    BY <2>5, <2>6
<1> QED
  BY <1>2, <1>3, <1>4, <1>5 DEF NotesWith

(* allocate adds an actor with nothing to report.                          *)
LEMMA AllocateKeepsNotes ==
  ASSUME CoreInv, NotificationReceivable, NEW p \in ActorRef \cup {NoRef}, NEW k \in Kinds,
         Allocate(p, k)
  PROVE  NotificationReceivable'
<1> USE DEF CoreInv
<1>0. NotesWith(notification, pendingFailures)
  BY NotesAreReceivable
<1>1. PICK s \in Slot :
        /\ ~Live(s)
        /\ gen' = [gen EXCEPT ![s] = @ + 1]
        /\ state' = [state EXCEPT ![s] = "Starting"]
        /\ parent' = [parent EXCEPT ![s] = p]
        /\ notification' = [notification EXCEPT ![s] = FALSE]
        /\ pendingFailures' = [pendingFailures EXCEPT ![s] = 0]
  BY DEF Allocate, NextSlots, Live
<1>2. /\ state'[s] = "Starting" /\ ~notification'[s] /\ pendingFailures'[s] = 0
      /\ gen'[s] = gen[s] + 1 /\ gen[s] \in Int /\ parent'[s] = p
      /\ \A t \in Slot : t # s =>
           /\ gen'[t] = gen[t] /\ state'[t] = state[t] /\ parent'[t] = parent[t]
           /\ pendingFailures'[t] = pendingFailures[t]
           /\ notification'[t] <=> notification[t]
  BY <1>1 DEF TypeOK
<1>3. \A t \in Slot : t # s => Ref(t)' = Ref(t) /\ (Live(t)' <=> Live(t))
  BY <1>2 DEF Ref, Live
<1>4. \A t \in Slot : Live(t) /\ parent[t] # NoRef =>
        /\ parent[t] \in ActorRef /\ parent[t].slot \in Slot
        /\ Current(parent[t]) /\ Live(parent[t].slot)
        /\ parent[t].slot # s
  BY <1>1 DEF LineageLive, TypeOK, ActorRef
<1>5. \A t \in Slot : notification'[t] =>
        /\ Live(t)' /\ parent'[t] # NoRef
        /\ state'[parent'[t].slot] \in {"Starting", "Active", "Quiescing"}
  BY <1>0, <1>2, <1>3, <1>4 DEF NotesWith
<1>6. ASSUME NEW t \in Slot, Live(t)'
      PROVE  pendingFailures'[t] = Cardinality(Reporting(t, notification)')
  <2>1. CASE t = s
    <3>1. \A c \in Slot : Live(c)' /\ notification'[c] => parent'[c] # Ref(s)'
      <4> SUFFICES ASSUME NEW c \in Slot, Live(c)', notification'[c], parent'[c] = Ref(s)'
                   PROVE  FALSE
        OBVIOUS
      <4>1. c # s /\ Live(c) /\ parent[c] = Ref(s)'
        BY <1>2, <1>3
      <4>2. Ref(s)'.slot = s
        BY DEF Ref
      <4>3. parent[c] # NoRef
        BY <1>0, <1>2, <4>1 DEF NotesWith
      <4> QED
        BY <1>4, <4>1, <4>2, <4>3
    <3>2. Reporting(s, notification)' = {}
      BY <3>1 DEF Reporting, Children
    <3> QED
      BY <1>2, <2>1, <3>2, FS_EmptySet
  <2>2. CASE t # s
    <3>1. pendingFailures'[t] = Cardinality(Reporting(t, notification))
      BY <1>0, <1>2, <1>3, <1>6, <2>2 DEF NotesWith
    <3>2. \A c \in Slot : c \in Reporting(t, notification)' <=> c \in Reporting(t, notification)
      <4> SUFFICES ASSUME NEW c \in Slot
                   PROVE  c \in Reporting(t, notification)' <=> c \in Reporting(t, notification)
        OBVIOUS
      <4>1. c \in Reporting(t, notification)' <=>
              Live(c)' /\ parent'[c] = Ref(t)' /\ notification'[c]
        BY DEF Reporting, Children
      <4>2. c \in Reporting(t, notification) <=>
              Live(c) /\ parent[c] = Ref(t) /\ notification[c]
        BY DEF Reporting, Children
      <4>3. CASE c = s
        BY <1>1, <1>2, <4>1, <4>2, <4>3
      <4>4. CASE c # s
        BY <1>2, <1>3, <2>2, <4>1, <4>2, <4>4
      <4> QED
        BY <4>3, <4>4
    <3>3. Reporting(t, notification)' = Reporting(t, notification)
      <4>1. /\ Reporting(t, notification)' \subseteq Slot
            /\ Reporting(t, notification) \subseteq Slot
        BY DEF Reporting, Children
      <4> QED
        BY <3>2, <4>1
    <3> QED
      BY <3>1, <3>3
  <2> QED
    BY <2>1, <2>2
<1>7. NotesWith(notification, pendingFailures)'
  BY <1>5, <1>6 DEF NotesWith
<1> QED
  BY <1>7, NotesAreReceivable, PTL

(* Every step keeps the notifications receivable and counted.              *)
LEMMA NotesStep ==
  ASSUME CoreInv, NotificationReceivable, [Next]_vars
  PROVE  NotificationReceivable'
<1> USE DEF CoreInv
<1>0. /\ NotesWith(notification, pendingFailures)
      /\ notification \in [Slot -> BOOLEAN] /\ pendingFailures \in [Slot -> Int]
      /\ LineageLive'
  BY NotesAreReceivable, LineageStep DEF TypeOK
<1>1. ASSUME NEW p \in ActorRef \cup {NoRef}, NEW k \in Kinds, Allocate(p, k)
      PROVE  NotificationReceivable'
  BY <1>1, AllocateKeepsNotes
<1>2. CASE Resting
  <2>1. Keeps
    BY <1>2, RestingActions DEF Rests
  <2>2. UNCHANGED failureVars /\ UNCHANGED parent
    BY <1>2 DEF Resting, Activate, Admit, BeginPending, Claim, TrackTask, ClaimCallback,
                EndPending, Tick, vars, treeVars
  <2>3. \A s \in Slot : /\ Live(s)' <=> Live(s)
                        /\ state'[s] = state[s] \/ state'[s] = "Active"
    BY <2>1 DEF Keeps, TypeOK, Live
  <2>4. \A s \in Slot : Reporting(s, notification)' = Reporting(s, notification)
    BY <2>1, <2>2, <2>3 DEF Reporting, Children, Keeps, Ref, failureVars
  <2>5. \A s \in Slot : parent[s] # NoRef => parent[s].slot \in Slot
    BY DEF TypeOK, ActorRef
  <2>6. \A s \in Slot : notification'[s] =>
          /\ Live(s)' /\ parent'[s] # NoRef
          /\ state'[parent'[s].slot] \in {"Starting", "Active", "Quiescing"}
    BY <1>0, <2>2, <2>3, <2>5 DEF NotesWith, failureVars
  <2>7. \A s \in Slot : Live(s)' => pendingFailures'[s] = Cardinality(Reporting(s, notification)')
    BY <1>0, <2>2, <2>3, <2>4 DEF NotesWith, failureVars
  <2>8. NotesWith(notification, pendingFailures)'
    BY <2>6, <2>7 DEF NotesWith
  <2> QED
    BY <2>8, NotesAreReceivable, PTL
<1>3. ASSUME NEW r \in ActorRef, ReleaseDelivery(r) \/ ReleaseTask(r) \/ FinishPython(r)
      PROVE  NotificationReceivable'
  <2>1. /\ UNCHANGED treeVars /\ UNCHANGED failureVars
        /\ \E touched : TryFinalize(touched, state, drainTimedOut)
    BY <1>3 DEF ReleaseDelivery, ReleaseTask, FinishPython
  <2> QED
    BY <1>0, <2>1, TouchKeepsNotes DEF failureVars
<1>4. ASSUME NEW r \in ActorRef, ClaimFailure(r)
      PROVE  NotificationReceivable'
  <2>1. Current(r) /\ Live(r.slot) /\ UNCHANGED treeVars
    BY <1>4, AdmissibleState DEF ClaimFailure
  <2>2. PICK c \in Children(r.slot) :
          /\ notification[c]
          /\ notification' = [notification EXCEPT ![c] = FALSE]
          /\ pendingFailures' = [pendingFailures EXCEPT ![r.slot] = @ - 1]
          /\ TryFinalize({c}, state, drainTimedOut)
    BY <1>4 DEF ClaimFailure
  <2> DEFINE nt == [notification EXCEPT ![c] = FALSE]
             pf == [pendingFailures EXCEPT ![r.slot] = @ - 1]
  <2>3. nt \in [Slot -> BOOLEAN] /\ pf \in [Slot -> Int] /\ NotesWith(nt, pf)
    BY <2>1, <2>2, ClaimKeepsNotes
  <2>4. notification' = nt /\ pendingFailures' = pf
    BY <2>2
  <2> HIDE DEF nt, pf
  <2> QED
    BY <1>0, <2>1, <2>2, <2>3, <2>4, TouchKeepsNotes
<1>5. ASSUME NEW r \in ActorRef, NEW q \in BOOLEAN, NEW a \in FailureActions,
             ReportFailure(r, q, a)
      PROVE  NotificationReceivable'
  <2> DEFINE p == parent[r.slot]
             notify == /\ ~q
                       /\ p # NoRef
                       /\ Current(p)
                       /\ state[p.slot] \in {"Starting", "Active", "Quiescing"}
             new == notify /\ ~notification[r.slot]
             nt == [notification EXCEPT ![r.slot] = @ \/ new]
             pf == IF new THEN [pendingFailures EXCEPT ![p.slot] = @ + 1]
                          ELSE pendingFailures
  <2>1. /\ Current(r) /\ Live(r.slot) /\ UNCHANGED treeVars
        /\ FenceLocked(ScopeOf(a, r), {}, nt, pf)
    BY <1>5 DEF ReportFailure
  <2>2. r.slot \in Slot
    BY DEF ActorRef
  <2>3. \/ nt = notification /\ pf = pendingFailures
        \/ /\ ~notification[r.slot]
           /\ p # NoRef /\ Current(p)
           /\ state[p.slot] \in {"Starting", "Active", "Quiescing"}
           /\ nt = [notification EXCEPT ![r.slot] = TRUE]
           /\ pf = [pendingFailures EXCEPT ![p.slot] = @ + 1]
    <3>1. CASE new
      <4>1. nt = [notification EXCEPT ![r.slot] = TRUE]
        BY <1>0, <2>2, <3>1
      <4> QED
        BY <3>1, <4>1
    <3>2. CASE ~new
      <4>1. nt = notification
        <5> HIDE DEF new
        <5> QED
          BY <1>0, <2>2, <3>2
      <4> QED
        BY <3>2, <4>1
    <3> QED
      BY <3>1, <3>2
  <2> HIDE DEF p, new, nt, pf
  <2>4. nt \in [Slot -> BOOLEAN] /\ pf \in [Slot -> Int] /\ NotesWith(nt, pf)
    BY <2>1, <2>3, ReportKeepsNotes DEF p
  <2> QED
    BY <1>0, <2>1, <2>4, ScopeFacts, FenceKeepsNotes
<1>6. ASSUME NEW fenced \in SUBSET Slot, DownClosed(fenced), \A s \in fenced : Live(s),
             NEW touched, FenceLocked(fenced, touched, notification, pendingFailures),
             UNCHANGED treeVars
      PROVE  NotificationReceivable'
  BY <1>0, <1>6, FenceKeepsNotes
<1>7. ASSUME NEW l \in controlLeases, NEW a \in FailureActions, ReleaseControl(l, a)
      PROVE  NotificationReceivable'
  <2>1. l.owner \in ActorRef /\ l.source \in ActorRef \cup {NoRef}
    BY DEF TypeOK
  <2>2. a = "StopActor" => l.source \in ActorRef
    BY <1>7, <2>1 DEF ReleaseControl
  <2>3. PICK touched : FenceLocked(ScopeOf(a, l.source), touched, notification,
                                   pendingFailures) /\ UNCHANGED treeVars
    BY <1>7 DEF ReleaseControl
  <2> QED
    BY <1>6, <2>1, <2>2, <2>3, ScopeFacts
<1>8. ASSUME NEW r \in ActorRef, Stop(r)
      PROVE  NotificationReceivable'
  <2>1. /\ r.slot \in Slot /\ UNCHANGED treeVars
        /\ FenceLocked(Subtree(r.slot), {}, notification, pendingFailures)
    BY <1>8 DEF Stop, ActorRef
  <2>2. \A s \in Subtree(r.slot) : Live(s)
    BY DEF Subtree
  <2> QED
    BY <1>6, <2>1, <2>2, SubtreeDownClosed
<1>9. CASE Close
  <2>1. UNCHANGED treeVars
          /\ FenceLocked(ScopeOf("StopWorld", NoRef), {}, notification, pendingFailures)
    BY <1>9 DEF Close
  <2>2. "StopWorld" \in FailureActions
    BY DEF FailureActions
  <2> QED
    BY <1>6, <2>1, <2>2, ScopeFacts
<1>10. ASSUME NEW targets \in SUBSET Slot, NEW d \in Time, DrainLocked(targets, d),
              UNCHANGED treeVars
       PROVE  NotificationReceivable'
  BY <1>0, <1>10, DrainLockedShape, MaintainKeepsNotes
<1>11. ASSUME NEW r \in ActorRef, NEW d \in Time, RequestDrain(r, d)
       PROVE  NotificationReceivable'
  <2>1. {r.slot} \in SUBSET Slot
    BY DEF ActorRef
  <2> QED
    BY <1>10, <1>11, <2>1 DEF RequestDrain
<1>12. ASSUME NEW d \in Time, DrainAll(d)
       PROVE  NotificationReceivable'
  <2>1. {s \in Slot : Live(s) /\ parent[s] = NoRef} \in SUBSET Slot
    OBVIOUS
  <2> QED
    BY <1>10, <1>12, <2>1 DEF DrainAll
<1>13. CASE Maintain
  <2> DEFINE none == {}
  <2>1. [s \in Slot |-> IF s \in none THEN "Quiescing" ELSE state[s]] = state
    BY DEF TypeOK
  <2>2. UNCHANGED treeVars /\ MaintainLocked(none, state, drainRoot, drainDeadline, drainRoots)
    BY <1>13 DEF Maintain
  <2>3. drainRoots \in SUBSET ActorRef /\ DownClosed(none) /\ none \in SUBSET Slot
    BY DEF TypeOK, DownClosed
  <2>4. \A s \in none : FALSE
    OBVIOUS
  <2> HIDE DEF none
  <2>5. MaintainLocked(none, [s \in Slot |-> IF s \in none THEN "Quiescing" ELSE state[s]],
                       drainRoot, drainDeadline, drainRoots)
    BY <2>1, <2>2
  <2> QED
    BY <1>0, <2>2, <2>3, <2>4, <2>5, MaintainKeepsNotes
<1> QED
  BY <1>1, <1>2, <1>3, <1>4, <1>5, <1>7, <1>8, <1>9, <1>11, <1>12, <1>13 DEF Next, Resting

(* A pending failure notification always has a supervisor that can take    *)
(* it, and pending_failures counts them (report_failure, claim_failure,    *)
(* discard_notifications_for).                                             *)
THEOREM NotificationsReceivable == Spec => []NotificationReceivable
<1>1. ASSUME Init PROVE NotificationReceivable
  <2>1. \A s \in Slot : ~notification[s] /\ ~Live(s)
    BY <1>1 DEF Init, Live
  <2> QED
    BY <2>1 DEF NotificationReceivable
<1>2. CoreInv /\ NotificationReceivable /\ [Next]_vars => NotificationReceivable'
  BY NotesStep
<1> QED
  BY <1>1, <1>2, CoreInvariant, PTL DEF Spec

-----------------------------------------------------------------------------
(* Drain deadlines and timeouts over time.                                 *)

(* Any two members of a live actor's lineage are one above the other.      *)
Ordered ==
  \A s \in Slot : Live(s) =>
    \A a, b \in ancestors[s] : \/ a = b
                               \/ a \in ancestors[b.slot]
                               \/ b \in ancestors[a.slot]

(* Every step keeps lineages ordered.                                      *)
LEMMA OrderedStep ==
  ASSUME TypeOK, LineageLive, Ordered, [Next]_vars
  PROVE  Ordered'
<1>1. CASE Keeps \/ Settles
  BY <1>1, RetiresQuiet DEF Ordered
<1>2. ASSUME NEW p \in ActorRef \cup {NoRef}, NEW k \in Kinds, Allocate(p, k)
      PROVE  Ordered'
  <2>1. PICK s \in Slot :
           /\ ~Live(s)
           /\ state' = [state EXCEPT ![s] = "Starting"]
           /\ ancestors' = [ancestors EXCEPT ![s] =
                              IF p = NoRef THEN {} ELSE {p} \cup ancestors[p.slot]]
           /\ p # NoRef => /\ p.slot \in Slot
                           /\ p.slot # s
                           /\ state[p.slot] \in {"Starting", "Active"}
           /\ \A t \in Slot : Live(t) => \A a \in ancestors[t] : a.slot # s
    BY <1>2, AllocateFacts
  <2>2. /\ \A t \in Slot : t # s => ancestors'[t] = ancestors[t] /\ (Live(t)' <=> Live(t))
        /\ ancestors'[s] = IF p = NoRef THEN {} ELSE {p} \cup ancestors[p.slot]
    BY <2>1 DEF TypeOK, Live
  <2>3. ASSUME NEW t \in Slot, Live(t), NEW a \in ancestors[t], NEW b \in ancestors[t]
        PROVE  a = b \/ a \in ancestors'[b.slot] \/ b \in ancestors'[a.slot]
    <3>1. a.slot \in Slot /\ b.slot \in Slot /\ a.slot # s /\ b.slot # s
      BY <2>1, <2>3 DEF TypeOK, ActorRef
    <3> QED
      BY <2>2, <2>3, <3>1 DEF Ordered
  <2>4. ASSUME NEW a \in ancestors'[s], NEW b \in ancestors'[s]
        PROVE  a = b \/ a \in ancestors'[b.slot] \/ b \in ancestors'[a.slot]
    <3>1. p # NoRef /\ a \in {p} \cup ancestors[p.slot] /\ b \in {p} \cup ancestors[p.slot]
      BY <2>2, <2>4
    <3>2. p.slot \in Slot /\ Live(p.slot) /\ ancestors'[p.slot] = ancestors[p.slot]
      BY <2>1, <2>2, <3>1 DEF Live
    <3>3. CASE a \in ancestors[p.slot] /\ b \in ancestors[p.slot]
      BY <2>3, <3>2, <3>3
    <3>4. CASE a = p \/ b = p
      BY <3>1, <3>2, <3>4
    <3> QED
      BY <3>1, <3>3, <3>4
  <2> QED
    BY <2>2, <2>3, <2>4 DEF Ordered
<1> QED
  BY <1>1, <1>2, StepShape

(* drain_locked brings the deadline of a drain forward or leaves it: the   *)
(* drain that absorbs it takes the earliest deadline below it.             *)
LEMMA DrainLockedDeadlines ==
  ASSUME CoreInv, Ordered, DrainInv, NEW targets \in SUBSET Slot, NEW deadline \in Time,
         DrainLocked(targets, deadline),
         NEW s \in Slot, state[s] = "Quiescing"
  PROVE  EffectiveDeadline(s)' <= EffectiveDeadline(s)
<1> USE DEF CoreInv
<1> DEFINE stopped == UNION {Subtree(t) : t \in {u \in targets : state[u] = "Starting"}}
           opened == {t \in targets : state[t] = "Active"}
           joined == {drainRoot[t].slot : t \in {u \in targets : state[u] = "Quiescing"}}
           marked(o) == {d \in Subtree(o) : state[d] # "Stopping"}
           allMarked == UNION {marked(o) : o \in opened}
           opener(d) == CHOOSE o \in opened : d \in marked(o)
           earliest(t) == Earliest({deadline} \cup {drainDeadline[d] : d \in marked(t)})
           st == [t \in Slot |-> IF t \in allMarked THEN "Quiescing" ELSE state[t]]
           root == [t \in Slot |-> IF t \in allMarked THEN Ref(opener(t)) ELSE drainRoot[t]]
           dl == [t \in Slot |-> IF t \in opened THEN earliest(t)
                       ELSE IF t \in allMarked THEN NoDeadline
                       ELSE IF t \in joined /\ deadline < drainDeadline[t] THEN deadline
                       ELSE drainDeadline[t]]
           roots == {r \in drainRoots : r.slot \notin allMarked} \cup {Ref(t) : t \in opened}
           r == drainRoot[s]
<1>1. MaintainLocked(stopped, st, root, dl, roots)
  BY DEF DrainLocked
<1>2. drainRoot' = root /\ drainDeadline' = dl
  <2> HIDE DEF stopped, st, root, dl, roots
  <2> QED
    BY <1>1, MaintainOpens DEF MaintainPass
<1>3. /\ r \in ActorRef /\ r.slot \in Slot /\ r = Ref(r.slot)
      /\ state[r.slot] = "Quiescing" /\ r \in ancestors[s] \cup {Ref(s)}
  <2>1. r \in drainRoots /\ r \in ancestors[s] \cup {Ref(s)}
    BY DEF DrainInv, DrainIndexed
  <2> HIDE DEF r
  <2> QED
    BY <2>1 DEF DrainInv, DrainIndexed, TypeOK, ActorRef, Current, Ref
<1>4. \A t \in Slot : drainDeadline[t] \in Nat
  BY TimeAssumption DEF TypeOK, NoDeadline
<1>5. deadline \in Nat
  BY TimeAssumption DEF Time
<1>6. Live(s) /\ Live(r.slot)
  BY <1>3 DEF Live
<1>7. \A o \in opened : o \in Slot /\ state[o] = "Active" /\ Live(o)
  BY DEF Live
<1>8. CASE s \in allMarked
  <2>1. opener(s) \in opened /\ s \in Subtree(opener(s))
    BY <1>8
  <2> DEFINE o == opener(s)
  <2>2. o \in Slot /\ state[o] = "Active" /\ Live(o) /\ s \in Subtree(o)
    BY <1>7, <2>1
  <2> HIDE DEF o
  <2>3. Ref(o) \in ancestors[s]
    BY <2>2 DEF Subtree
  <2>4. Ref(o).slot = o
    BY DEF Ref
  <2>5. r.slot \in Subtree(o)
    <3>1. CASE r = Ref(s)
      <4>1. r.slot = s
        BY <3>1 DEF Ref
      <4> QED
        BY <2>2, <4>1
    <3>2. CASE r \in ancestors[s]
      <4> HIDE DEF r
      <4>1. r = Ref(o) \/ r \in ancestors[o] \/ Ref(o) \in ancestors[r.slot]
        BY <1>6, <2>3, <2>4, <3>2 DEF Ordered
      <4>2. r # Ref(o)
        BY <1>3, <2>2, <2>4
      <4>3. r \notin ancestors[o]
        BY <1>3, <2>2 DEF FenceClosed
      <4> QED
        BY <1>3, <1>6, <4>1, <4>2, <4>3 DEF Subtree
    <3> QED
      BY <1>3, <3>1, <3>2
  <2>6. r.slot \in marked(o)
    BY <1>3, <2>5
  <2>7. earliest(o) <= drainDeadline[r.slot]
    <3> DEFINE times == {deadline} \cup {drainDeadline[d] : d \in marked(o)}
    <3>1. marked(o) \subseteq Slot
      BY DEF Subtree
    <3>2. times \in SUBSET Nat /\ times # {}
      BY <1>4, <1>5, <3>1
    <3>3. drainDeadline[r.slot] \in times
      BY <2>6
    <3> HIDE DEF times
    <3>4. Earliest(times) <= drainDeadline[r.slot]
      BY <3>2, <3>3, EarliestIsLeast
    <3> QED
      BY <3>4 DEF times
  <2>8. root[s] = Ref(o) /\ dl[o] = earliest(o)
    <3>1. o \in opened
      BY <2>1 DEF o
    <3> HIDE DEF opened, joined, earliest, allMarked, opener
    <3> QED
      BY <1>8, <2>2, <3>1 DEF o
  <2>9. EffectiveDeadline(s)' = earliest(o)
    <3> HIDE DEF root, dl, earliest
    <3> QED
      BY <1>2, <2>4, <2>8 DEF EffectiveDeadline
  <2> HIDE DEF earliest
  <2> QED
    BY <2>7, <2>9 DEF EffectiveDeadline
<1>9. CASE s \notin allMarked
  <2>1. r.slot \notin allMarked
    <3> SUFFICES ASSUME NEW o \in opened, r.slot \in Subtree(o)
                 PROVE  FALSE
      OBVIOUS
    <3>1. s \in Subtree(r.slot)
      <4> HIDE DEF r
      <4>1. Ref(s).slot = s
        BY DEF Ref
      <4>2. r = Ref(s) => r.slot = s
        BY <4>1
      <4> QED
        BY <1>3, <1>6, <4>2 DEF Subtree
    <3>2. s \in Subtree(o)
      BY <1>7, <3>1, SubtreeNested
    <3> QED
      BY <1>9, <3>2
  <2>2. r.slot \notin opened
    BY <1>3
  <2>3. /\ root[s] = r
        /\ \/ dl[r.slot] = deadline /\ deadline < drainDeadline[r.slot]
           \/ dl[r.slot] = drainDeadline[r.slot]
    <3> HIDE DEF opened, joined, earliest, allMarked, opener
    <3> QED
      BY <1>3, <1>9, <2>1, <2>2
  <2>4. dl[r.slot] <= drainDeadline[r.slot]
    <3> HIDE DEF dl, r
    <3> QED
      BY <1>3, <1>4, <1>5, <2>3
  <2>5. EffectiveDeadline(s)' = dl[r.slot]
    <3> HIDE DEF root, dl, r
    <3> QED
      BY <1>2, <2>3 DEF EffectiveDeadline
  <2> HIDE DEF dl
  <2> QED
    BY <2>4, <2>5 DEF EffectiveDeadline
<1> QED
  BY <1>8, <1>9

(* A smaller scope has fewer actors.                                       *)
LEMMA ScopeShrinks ==
  ASSUME TypeOK, LineageLive, NEW x \in Slot, Live(x), NEW c \in Children(x)
  PROVE  /\ Subtree(c) \subseteq Subtree(x)
         /\ Cardinality(Subtree(c)) < Cardinality(Subtree(x))
         /\ Cardinality(Subtree(c)) \in Nat /\ Cardinality(Subtree(x)) \in Nat
<1>1. c \in Slot /\ Live(c) /\ parent[c] = Ref(x)
  BY DEF Children
<1>2. Ref(x) \in ancestors[c] /\ c \in Subtree(x)
  BY <1>1, ChildBelow
<1>3. Subtree(c) \subseteq Subtree(x)
  BY <1>2, SubtreeNested
<1>4. x \in Subtree(x) /\ x \notin Subtree(c)
  <2>1. Ref(x).slot = x /\ Ref(c).slot = c
    BY DEF Ref
  <2>2. x # c
    BY <1>1, <1>2, <2>1 DEF LineageLive
  <2>3. Ref(c) \notin ancestors[x]
    <3> SUFFICES ASSUME Ref(c) \in ancestors[x] PROVE FALSE
      OBVIOUS
    <3>1. ancestors[c] \subseteq ancestors[x]
      BY <2>1 DEF LineageLive
    <3>2. Ref(x) \in ancestors[x]
      BY <1>2, <3>1
    <3> QED
      BY <2>1, <3>2 DEF LineageLive
  <2> QED
    BY <2>2, <2>3 DEF Subtree
<1>5. IsFiniteSet(Subtree(x)) /\ IsFiniteSet(Subtree(c))
  <2>1. Subtree(x) \subseteq Slot /\ Subtree(c) \subseteq Slot
    BY DEF Subtree
  <2> QED
    BY <2>1, SlotAssumption, FS_Subset
<1>6. Cardinality(Subtree(x)) \in Nat /\ Cardinality(Subtree(c)) \in Nat
  BY <1>5, FS_CardinalityType
<1>7. /\ Cardinality(Subtree(c)) <= Cardinality(Subtree(x))
      /\ Cardinality(Subtree(x)) = Cardinality(Subtree(c)) => Subtree(x) = Subtree(c)
  BY <1>3, <1>5, FS_Subset
<1> QED
  BY <1>3, <1>4, <1>6, <1>7

(* A retiring actor's timed-out mark ends on an actor of the scope that    *)
(* does not retire, or on the root of the scope.                           *)
LEMMA MarkHandedUp ==
  ASSUME TypeOK, LineageLive, Linked, NEW touched, NEW st, NEW to \in [Slot -> BOOLEAN],
         TryFinalize(touched, st, to),
         NEW s \in Slot, NEW d \in Subtree(s), to[d]
  PROVE  \/ drainTimedOut'[s]
         \/ \E x \in Subtree(s) : x \notin Finalised(touched, st) /\ drainTimedOut'[x]
<1> DEFINE done == Finalised(touched, st)
           over(x) == {c \in done : parent[c] = Ref(x) /\ \E e \in Subtree(c) : to[e]}
<1>0. d \in Slot /\ Live(d) /\ done \subseteq Slot
  BY DEF Subtree, Finalised
<1>1. \A x \in Slot : drainTimedOut'[x] <=> to[x] \/ over(x) # {}
  BY DEF TryFinalize
<1>2. ASSUME NEW x \in Slot, Live(x), d \in Subtree(x), d # x
      PROVE  \E c \in Children(x) : c \in Slot /\ Live(c) /\ d \in Subtree(c)
                                    /\ (c \in done => c \in over(x))
  <2>1. Ref(x) \in ancestors[d]
    BY <1>2 DEF Subtree
  <2>2. PICK c \in Slot : Live(c) /\ parent[c] = Ref(x) /\ (c = d \/ Ref(c) \in ancestors[d])
    BY <1>0, <2>1 DEF Linked
  <2>3. c \in Children(x) /\ d \in Subtree(c)
    BY <1>0, <2>2 DEF Children, Subtree
  <2> QED
    BY <2>2, <2>3
<1>3. CASE d = s
  BY <1>1, <1>3
<1>4. CASE d \notin done
  BY <1>0, <1>1, <1>4
<1>5. CASE d # s /\ d \in done
  <2>1. Ref(s) \in ancestors[d]
    BY <1>5 DEF Subtree
  <2>2. Live(s)
    <3>1. Live(Ref(s).slot)
      BY <1>0, <2>1 DEF LineageLive
    <3> QED
      BY <3>1 DEF Ref
  <2> DEFINE X == {x \in Subtree(s) : d \in Subtree(x) /\ x \notin done}
             sizes == {Cardinality(Subtree(x)) : x \in X}
  <2>3. CASE X = {}
    <3>1. s \in Subtree(s) /\ s \in done
      BY <2>2, <2>3 DEF Subtree
    <3>2. PICK c \in Children(s) : c \in Slot /\ Live(c) /\ d \in Subtree(c)
                                    /\ (c \in done => c \in over(s))
      BY <1>2, <1>5, <2>2
    <3>3. c \in Subtree(s)
      BY <2>2, <3>2, ChildBelow DEF Children
    <3>4. c \in done
      BY <2>3, <3>2, <3>3
    <3> QED
      BY <1>1, <3>2, <3>4
  <2>4. CASE X # {}
    <3>1. \A x \in X : x \in Slot /\ Live(x) /\ IsFiniteSet(Subtree(x))
      <4>1. \A x \in X : x \in Slot /\ Live(x) /\ Subtree(x) \subseteq Slot
        BY DEF Subtree
      <4> QED
        BY <4>1, SlotAssumption, FS_Subset
    <3>2. sizes \in SUBSET Nat /\ sizes # {}
      BY <2>4, <3>1, FS_CardinalityType
    <3>3. PICK n \in sizes : \A m \in sizes : n <= m
      BY <3>2, SmallestExists
    <3>4. PICK x \in X : \A y \in X : Cardinality(Subtree(x)) <= Cardinality(Subtree(y))
      BY <3>3
    <3>5. x \in Subtree(s) /\ d \in Subtree(x) /\ x \notin done /\ x \in Slot /\ Live(x)
            /\ d # x
      BY <1>5, <3>1
    <3>6. PICK c \in Children(x) : c \in Slot /\ Live(c) /\ d \in Subtree(c)
                                    /\ (c \in done => c \in over(x))
      BY <1>2, <3>5
    <3>7. c \in Subtree(s)
      <4>1. c \in Subtree(x)
        BY <3>5, <3>6, ChildBelow DEF Children
      <4> QED
        BY <3>5, <4>1, SubtreeNested
    <3>8. c \notin X
      <4>1. /\ Cardinality(Subtree(c)) < Cardinality(Subtree(x))
            /\ Cardinality(Subtree(c)) \in Nat /\ Cardinality(Subtree(x)) \in Nat
        BY <3>5, ScopeShrinks
      <4>2. ~(Cardinality(Subtree(x)) <= Cardinality(Subtree(c)))
        BY <4>1
      <4> QED
        BY <3>4, <4>2
    <3>9. c \in done
      BY <3>6, <3>7, <3>8
    <3> QED
      BY <1>1, <3>5, <3>6, <3>9
  <2> QED
    BY <2>3, <2>4
<1> QED
  BY <1>3, <1>4, <1>5

(* A scope that reports a timeout keeps reporting it while it exists.      *)
LEMMA TimedOutStays ==
  ASSUME CoreInv, LeasesPinSlot, Linked, [Next]_vars, NEW s \in Slot, TimedOut(s),
         gen'[s] = gen[s]
  PROVE  TimedOut(s)'
<1> USE DEF CoreInv
<1>t. drainTimedOut \in [Slot -> BOOLEAN]
  BY DEF TypeOK
<1>1. ASSUME NEW p \in ActorRef \cup {NoRef}, NEW k \in Kinds, Allocate(p, k)
      PROVE  TimedOut(s)'
  <2>1. PICK n \in Slot :
           /\ ~Live(n)
           /\ gen' = [gen EXCEPT ![n] = @ + 1]
           /\ state' = [state EXCEPT ![n] = "Starting"]
           /\ ancestors' = [ancestors EXCEPT ![n] =
                              IF p = NoRef THEN {} ELSE {p} \cup ancestors[p.slot]]
           /\ drainTimedOut' = [drainTimedOut EXCEPT ![n] = FALSE]
    BY <1>1 DEF Allocate, NextSlots, Live
  <2>2. /\ gen'[n] = gen[n] + 1 /\ gen[n] \in Int
        /\ \A t \in Slot : t # n => /\ gen'[t] = gen[t] /\ ancestors'[t] = ancestors[t]
                                    /\ Live(t)' <=> Live(t)
                                    /\ drainTimedOut'[t] <=> drainTimedOut[t]
    BY <2>1 DEF TypeOK, Live
  <2>3. s # n /\ Ref(s)' = Ref(s)
    BY <2>2 DEF Ref
  <2>4. \A d \in Subtree(s) : d \in Slot /\ d # n /\ d \in Subtree(s)'
    BY <2>1, <2>2, <2>3 DEF Subtree
  <2> QED
    BY <2>2, <2>3, <2>4 DEF TimedOut
<1>2. CASE Settles
  <2>1. PICK fenced, marked \in SUBSET Slot, touched \in SUBSET Slot,
             to \in [Slot -> BOOLEAN] : SettleShape(fenced, marked, touched, to)
    BY <1>2 DEF Settles
  <2> DEFINE ss == SettleState(fenced, marked)
             done == Finalised(touched, ss)
  <2>2. TryFinalize(touched, ss, to) /\ \A t \in Slot : drainTimedOut[t] => to[t]
    BY <2>1 DEF SettleShape
  <2>3. \A t \in Slot : to[t] => drainTimedOut'[t]
    BY <2>2 DEF TryFinalize
  <2>4. CASE drainTimedOut[s]
    BY <2>2, <2>3, <2>4 DEF TimedOut
  <2>5. ASSUME NEW d \in Subtree(s), drainTimedOut[d]
        PROVE  TimedOut(s)'
    <3>1. to[d]
      BY <2>2, <2>5 DEF Subtree
    <3>2. \/ drainTimedOut'[s]
          \/ \E x \in Subtree(s) : x \notin done /\ drainTimedOut'[x]
      BY <2>2, <3>1, MarkHandedUp
    <3>3. ASSUME NEW x \in Subtree(s), x \notin done
          PROVE  x \in Subtree(s)'
      <4>1. x \in Slot /\ Live(x) /\ state'[x] = ss[x]
        BY <2>2, <3>3 DEF Subtree, TryFinalize
      <4>2. ss[x] \notin {"Absent", "Stopped"}
        BY <4>1 DEF SettleState, Live
      <4>3. Live(x)'
        BY <4>1, <4>2 DEF Live
      <4>4. UNCHANGED ancestors /\ Ref(s)' = Ref(s)
        BY <2>1 DEF SettleShape, treeVars, Ref
      <4> QED
        BY <3>3, <4>1, <4>3, <4>4 DEF Subtree
    <3> QED
      BY <3>2, <3>3 DEF TimedOut
  <2> QED
    BY <2>4, <2>5 DEF TimedOut
<1>3. CASE Resting
  <2>1. Keeps
    BY <1>3, RestingActions DEF Rests
  <2>2. UNCHANGED drainTimedOut
    BY <1>3 DEF Resting, Activate, Admit, BeginPending, Claim, TrackTask, ClaimCallback,
                EndPending, Tick, vars
  <2>3. \A t \in Slot : Live(t)' <=> Live(t)
    BY <2>1 DEF Keeps, TypeOK, Live
  <2>4. Subtree(s)' = Subtree(s)
    BY <2>1, <2>3 DEF Keeps, Subtree, Ref
  <2> QED
    BY <2>2, <2>4 DEF TimedOut
<1>4. ASSUME Winds PROVE Settles
  BY <1>4 DEF Winds, WindShape, Settles
<1> QED
  BY <1>1, <1>2, <1>3, <1>4, StepKinds

(* No step puts off the deadline that bounds a draining actor.             *)
LEMMA DeadlineStep ==
  ASSUME CoreInv, Ordered, DrainInv, [Next]_vars, NEW s \in Slot, state[s] = "Quiescing"
  PROVE  EffectiveDeadline(s)' <= EffectiveDeadline(s)
<1> USE DEF CoreInv
<1>0. /\ drainRoot[s] \in drainRoots /\ drainRoot[s] \in ActorRef
      /\ drainRoot[s].slot \in Slot /\ state[drainRoot[s].slot] = "Quiescing"
      /\ drainDeadline[drainRoot[s].slot] \in Nat
  <2> DEFINE r == drainRoot[s]
  <2>1. r \in drainRoots /\ r \in ActorRef
    BY DEF DrainInv, DrainIndexed, TypeOK
  <2> HIDE DEF r
  <2>2. /\ r.slot \in Slot /\ state[r.slot] = "Quiescing"
        /\ drainDeadline[r.slot] \in Nat
    BY <2>1, TimeAssumption DEF DrainInv, DrainIndexed, TypeOK, ActorRef, NoDeadline
  <2> QED
    BY <2>1, <2>2 DEF r
<1>u. ASSUME UNCHANGED <<drainRoot, drainDeadline>>
      PROVE  EffectiveDeadline(s)' <= EffectiveDeadline(s)
  BY <1>0, <1>u DEF EffectiveDeadline
<1>1. ASSUME NEW p \in ActorRef \cup {NoRef}, NEW k \in Kinds, Allocate(p, k)
      PROVE  EffectiveDeadline(s)' <= EffectiveDeadline(s)
  <2>1. PICK n \in Slot : /\ ~Live(n)
                          /\ drainRoot' = [drainRoot EXCEPT ![n] = NoRef]
                          /\ drainDeadline' = [drainDeadline EXCEPT ![n] = NoDeadline]
    BY <1>1 DEF Allocate, NextSlots, Live
  <2>2. s # n /\ drainRoot[s].slot # n
    BY <1>0, <2>1 DEF Live
  <2>3. drainRoot'[s] = drainRoot[s]
          /\ drainDeadline'[drainRoot[s].slot] = drainDeadline[drainRoot[s].slot]
    BY <1>0, <2>1, <2>2 DEF TypeOK
  <2> QED
    BY <1>0, <2>3 DEF EffectiveDeadline
<1>2. CASE Resting
  <2>1. UNCHANGED drainVars
    BY <1>2 DEF Resting, Activate, Admit, BeginPending, Claim, TrackTask, ClaimCallback,
                EndPending, Tick, vars
  <2> QED
    BY <1>u, <2>1 DEF drainVars
<1>3. ASSUME NEW r \in ActorRef,
             \/ ReleaseDelivery(r) \/ ReleaseTask(r) \/ FinishPython(r) \/ ClaimFailure(r)
             \/ Stop(r)
             \/ \E q \in BOOLEAN, a \in FailureActions : ReportFailure(r, q, a)
      PROVE  EffectiveDeadline(s)' <= EffectiveDeadline(s)
  BY <1>u, <1>3 DEF ReleaseDelivery, ReleaseTask, FinishPython, ClaimFailure, Stop,
                    ReportFailure, FenceLocked, drainVars
<1>4. ASSUME Close \/ \E l \in controlLeases, a \in FailureActions : ReleaseControl(l, a)
      PROVE  EffectiveDeadline(s)' <= EffectiveDeadline(s)
  BY <1>u, <1>4 DEF Close, ReleaseControl, FenceLocked
<1>5. ASSUME NEW r \in ActorRef, NEW d \in Time, RequestDrain(r, d)
      PROVE  EffectiveDeadline(s)' <= EffectiveDeadline(s)
  <2>1. {r.slot} \in SUBSET Slot
    BY DEF ActorRef
  <2>2. DrainLocked({r.slot}, d)
    BY <1>5 DEF RequestDrain
  <2> DEFINE own == {r.slot}
  <2> HIDE DEF own
  <2>3. own \in SUBSET Slot /\ DrainLocked(own, d)
    BY <2>1, <2>2 DEF own
  <2> QED
    BY <2>3, DrainLockedDeadlines
<1>6. ASSUME NEW d \in Time, DrainAll(d)
      PROVE  EffectiveDeadline(s)' <= EffectiveDeadline(s)
  <2> DEFINE targets == {t \in Slot : Live(t) /\ parent[t] = NoRef}
  <2>1. targets \in SUBSET Slot /\ DrainLocked(targets, d)
    BY <1>6 DEF DrainAll
  <2> HIDE DEF targets
  <2> QED
    BY <2>1, DrainLockedDeadlines
<1>7. CASE Maintain
  <2>1. MaintainLocked({}, state, drainRoot, drainDeadline, drainRoots)
    BY <1>7 DEF Maintain
  <2>2. UNCHANGED <<drainRoot, drainDeadline>>
    BY <2>1 DEF MaintainLocked
  <2> QED
    BY <1>u, <2>2
<1> QED
  BY <1>1, <1>2, <1>3, <1>4, <1>5, <1>6, <1>7 DEF Next, Resting

(* Asking again, draining a wider scope or draining the World never puts   *)
(* off the deadline of a drain, and a drain timeout stays in the report of *)
(* every enclosing scope (drain_locked, maintain_locked, try_finalize).    *)
THEOREM DrainsNeverExtended == Spec => DrainNeverExtended
<1>1. Init => Ordered
  BY DEF Init, Ordered, Live
<1>2. CoreInv /\ Ordered /\ [Next]_vars => Ordered'
  BY OrderedStep DEF CoreInv
<1>3. TreeInv /\ DrainInv /\ Ordered /\ [Next]_vars =>
        [\A s \in Slot :
           /\ state[s] = "Quiescing" /\ state'[s] = "Quiescing" =>
                EffectiveDeadline(s)' <= EffectiveDeadline(s)
           /\ TimedOut(s) /\ gen'[s] = gen[s] => TimedOut(s)']_vars
  BY DeadlineStep, TimedOutStays DEF TreeInv
<1> QED
  BY <1>1, <1>2, <1>3, CoreInvariant, TreeInvariant, DrainInvariant, PTL
     DEF Spec, DrainNeverExtended
=============================================================================
