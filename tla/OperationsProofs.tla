-------------------------- MODULE OperationsProofs --------------------------
(***************************************************************************)
(* Theorems about Operations, for every table size, every set of actors    *)
(* and all bounds.  The first part is about the functions of               *)
(* OperationTable: each keeps the indexes and counters exact, and its      *)
(* effect on the slots is one of three shapes: an operation is added       *)
(* (Adds), some pending operations are decided (Decides), some decided     *)
(* ones leave (Leaves).  The second part shows that every step of the      *)
(* World is made of those, and draws the theorems from that.               *)
(***************************************************************************)
EXTENDS Operations, FiniteSetTheorems, SequenceTheorems, WellFoundedInduction, TLAPS

\* What every function of the table keeps.
TableInv(t) == t \in Table /\ IndexExactOf(t)

\* u is t with one more operation, pending under an identity that no entry
\* had: its slot was free, or new.
Adds(t, u, id, r) ==
  /\ id.slot \in OpSlot /\ t.phase[id.slot] = "Empty"
  /\ \/ id.slot \in t.free /\ id.generation = t.generation[id.slot]
     \/ t.generation[id.slot] = 0 /\ id.generation = 1
  /\ u.generation = [t.generation EXCEPT ![id.slot] = id.generation]
  /\ u.phase = [t.phase EXCEPT ![id.slot] = "Pending"]
  /\ u.request = [t.request EXCEPT ![id.slot] = r]
  /\ u.owners = [t.owners EXCEPT ![id.slot] = r.owner]
  /\ u.free = t.free \ {id.slot}
  /\ u.pending = t.pending + 1

\* u is t with the operations of won, all pending, decided with one of outs.
Decides(t, u, won, outs) ==
  /\ won \subseteq PendingIds(t)
  /\ u.generation = t.generation /\ u.owners = t.owners /\ u.free = t.free
  /\ \A s \in OpSlot :
       IF IdAt(t, s) \in won THEN u.phase[s] \in outs
       ELSE u.phase[s] = t.phase[s] /\ u.request[s] = t.request[s]
  /\ u.pending = t.pending - Cardinality(won)

\* The outcomes that are not a reply in time.
Unanswered == Outcomes \ {"Completed"}

\* u is t without the operations of gone, all decided: their slots are empty,
\* and free with a new generation or used up.
Leaves(t, u, gone) ==
  /\ gone \subseteq EntryIds(t) \ PendingIds(t)
  /\ \A s \in OpSlot :
       IF IdAt(t, s) \in gone
       THEN /\ u.phase[s] = "Empty" /\ u.owners[s] = NoActor
            /\ IF t.generation[s] < LastGen
               THEN u.generation[s] = t.generation[s] + 1 /\ s \in u.free
               ELSE u.generation[s] = t.generation[s] /\ s \notin u.free
       ELSE /\ u.phase[s] = t.phase[s] /\ u.owners[s] = t.owners[s]
            /\ u.generation[s] = t.generation[s] /\ (s \in u.free <=> s \in t.free)
  /\ u.request = t.request /\ u.pending = t.pending

\* u is t without the pending operation id, which nobody has seen.
Withdraws(t, u, id) ==
  /\ id \in PendingIds(t)
  /\ \A s \in OpSlot :
       IF s = id.slot
       THEN /\ u.phase[s] = "Empty" /\ u.owners[s] = NoActor /\ u.request[s] = NoRequest
            /\ IF t.generation[s] < LastGen
               THEN u.generation[s] = t.generation[s] + 1 /\ s \in u.free
               ELSE u.generation[s] = t.generation[s] /\ s \notin u.free
       ELSE /\ u.phase[s] = t.phase[s] /\ u.owners[s] = t.owners[s]
            /\ u.request[s] = t.request[s]
            /\ u.generation[s] = t.generation[s] /\ (s \in u.free <=> s \in t.free)
  /\ u.pending = t.pending - 1

-----------------------------------------------------------------------------
(* Identities and their slots.                                             *)

\* The identities of the entries are finitely many, and those that are pending
\* are entries.
LEMMA IdsFinite ==
  ASSUME NEW t \in Table
  PROVE  /\ IsFiniteSet(EntryIds(t)) /\ IsFiniteSet(PendingIds(t))
         /\ PendingIds(t) \subseteq EntryIds(t)
<1>1. PendingIds(t) \subseteq EntryIds(t)
  BY DEF PendingIds, EntryIds
<1>2. IsFiniteSet(EntryIds(t))
  <2> DEFINE T == {s \in OpSlot : t.phase[s] # "Empty"}
             f == [s \in T |-> IdAt(t, s)]
  <2>1. IsFiniteSet(T)
    BY OpSlotAssumption, FS_Subset
  <2>2. f \in Surjection(T, EntryIds(t))
    BY DEF Surjection, EntryIds
  <2> QED BY <2>1, <2>2, FS_Surjection
<1>3. IsFiniteSet(PendingIds(t))
  BY <1>1, <1>2, FS_Subset
<1> QED BY <1>1, <1>2, <1>3

\* An entry is named by the slot it is in, under the slot's generation.
LEMMA EntryOf ==
  ASSUME NEW t \in Table, IndexExactOf(t)
  PROVE  /\ EntryIds(t) \subseteq OpId
         /\ \A id \in EntryIds(t) : /\ id.slot \in OpSlot /\ id = IdAt(t, id.slot)
                                    /\ t.phase[id.slot] # "Empty"
         /\ \A id \in PendingIds(t) : t.phase[id.slot] = "Pending"
         /\ \A s \in OpSlot : /\ IdAt(t, s).slot = s
                              /\ IdAt(t, s).generation = t.generation[s]
                              /\ t.phase[s] # "Empty" <=> IdAt(t, s) \in EntryIds(t)
                              /\ t.phase[s] = "Pending" <=> IdAt(t, s) \in PendingIds(t)
<1>1. \A s \in OpSlot : IdAt(t, s).slot = s /\ IdAt(t, s).generation = t.generation[s]
  BY DEF IdAt
<1>2. \A s \in OpSlot : t.phase[s] # "Empty" <=> IdAt(t, s) \in EntryIds(t)
  BY <1>1 DEF EntryIds
<1>3. \A s \in OpSlot : t.phase[s] = "Pending" <=> IdAt(t, s) \in PendingIds(t)
  BY <1>1 DEF PendingIds
<1>4. \A s \in OpSlot : t.phase[s] # "Empty" => IdAt(t, s) \in OpId
  BY DEF IndexExactOf, Table, IdAt, OpId
<1>5. EntryIds(t) \subseteq OpId
  BY <1>4 DEF EntryIds
<1>6. \A id \in EntryIds(t) : /\ id.slot \in OpSlot /\ id = IdAt(t, id.slot)
                              /\ t.phase[id.slot] # "Empty"
  BY <1>1 DEF EntryIds
<1>7. \A id \in PendingIds(t) : t.phase[id.slot] = "Pending"
  BY <1>1 DEF PendingIds
<1> QED BY <1>1, <1>2, <1>3, <1>5, <1>6, <1>7

\* Located and IsPending are what the two sets of identities say.
LEMMA LocatedIsEntry ==
  ASSUME NEW t \in Table, IndexExactOf(t), NEW id \in OpId
  PROVE  /\ Located(t, id) <=> id \in EntryIds(t)
         /\ IsPending(t, id) <=> id \in PendingIds(t)
<1>1. id.slot \in OpSlot /\ id = [slot |-> id.slot, generation |-> id.generation]
  BY DEF OpId
<1>2. t.generation[id.slot] = id.generation => id = IdAt(t, id.slot)
  BY <1>1 DEF IdAt
<1>3. Located(t, id) <=> id \in EntryIds(t)
  BY <1>1, <1>2, EntryOf DEF Located
<1>4. IsPending(t, id) <=> id \in PendingIds(t)
  BY <1>1, <1>2, <1>3, EntryOf, IdsFinite DEF IsPending
<1> QED BY <1>3, <1>4

\* Entries occupy as many slots as there are entries.
LEMMA SlotsCounted ==
  ASSUME NEW t \in Table, IndexExactOf(t), NEW ids \in SUBSET EntryIds(t)
  PROVE  /\ IsFiniteSet(ids) /\ Slots(ids) \subseteq OpSlot
         /\ IsFiniteSet(Slots(ids)) /\ Cardinality(Slots(ids)) = Cardinality(ids)
         /\ \A s \in OpSlot : s \in Slots(ids) <=> IdAt(t, s) \in ids
<1>1. IsFiniteSet(ids)
  BY IdsFinite, FS_Subset
<1>2. \A id \in ids : id.slot \in OpSlot /\ id = IdAt(t, id.slot)
  BY EntryOf
<1>3. Slots(ids) \subseteq OpSlot
  BY <1>2 DEF Slots
<1>4. \A s \in OpSlot : s \in Slots(ids) <=> IdAt(t, s) \in ids
  BY <1>2, EntryOf DEF Slots
<1> DEFINE f == [id \in ids |-> id.slot]
<1>5. f \in Surjection(ids, Slots(ids))
  BY DEF Surjection, Slots
<1>6. f \in Injection(ids, Slots(ids))
  BY <1>2, <1>5 DEF Injection, IsInjective, Surjection
<1>7. IsFiniteSet(Slots(ids)) /\ Cardinality(Slots(ids)) = Cardinality(ids)
  BY <1>1, <1>5, <1>6, FS_Surjection
<1> QED BY <1>1, <1>3, <1>4, <1>7

-----------------------------------------------------------------------------
(* The functions of the table.                                             *)

\* OperationTable::new.
LEMMA EmptyTableInv == TableInv(EmptyTable)
<1>1. EmptyTable \in Table
  BY LastGenAssumption DEF EmptyTable, Table, Phases
<1>2. EntryIds(EmptyTable) = {} /\ PendingIds(EmptyTable) = {}
  BY DEF EntryIds, PendingIds, EmptyTable
<1>3. Cardinality({}) = 0
  BY FS_EmptySet
<1>4. \A s \in OpSlot : /\ EmptyTable.phase[s] = "Empty" /\ EmptyTable.request[s] = NoRequest
                        /\ EmptyTable.owners[s] = NoActor /\ EmptyTable.generation[s] = 0
  BY DEF EmptyTable
<1>5. \A a \in Actor : /\ EmptyTable.ownerIndex[a] = {} /\ EmptyTable.targetIndex[a] = {}
                       /\ EmptyTable.pendingOwners[a] = 0
  BY DEF EmptyTable
<1>6. /\ EmptyTable.live = 0 /\ EmptyTable.pending = 0 /\ EmptyTable.deadlines = {}
      /\ EmptyTable.free = {}
  BY DEF EmptyTable
<1>7. {id \in EmptyTable.free : FALSE} = {}
  OBVIOUS
<1>8. IndexExactOf(EmptyTable)
  BY <1>2, <1>3, <1>4, <1>5, <1>6 DEF IndexExactOf
<1> QED BY <1>1, <1>8 DEF TableInv

\* complete, for any set of identities: the pending ones among them are
\* decided, and every index and counter follows.
LEMMA CompleteFacts ==
  ASSUME NEW t, TableInv(t), NEW ids \in SUBSET OpId, NEW out \in Outcomes
  PROVE  /\ TableInv(Complete(t, ids, out))
         /\ Decides(t, Complete(t, ids, out), ids \cap PendingIds(t), {out})
         /\ PendingIds(Complete(t, ids, out)) = PendingIds(t) \ ids
<1> DEFINE won == {id \in ids : IsPending(t, id)}
           u == Complete(t, ids, out)
<1>1. t \in Table /\ IndexExactOf(t)
  BY DEF TableInv
<1>2. won = ids \cap PendingIds(t)
  BY <1>1, LocatedIsEntry
<1>3. /\ IsFiniteSet(PendingIds(t)) /\ PendingIds(t) \subseteq EntryIds(t)
      /\ won \in SUBSET EntryIds(t)
  BY <1>1, <1>2, IdsFinite
<1>4. /\ IsFiniteSet(won) /\ \A s \in OpSlot : s \in Slots(won) <=> IdAt(t, s) \in won
  BY <1>1, <1>3, SlotsCounted
<1>5. /\ u.phase = [s \in OpSlot |-> IF s \in Slots(won) THEN out ELSE t.phase[s]]
      /\ u.request = [s \in OpSlot |-> IF s \in Slots(won) THEN NoRequest ELSE t.request[s]]
      /\ u.pending = t.pending - Cardinality(won)
      /\ u.pendingOwners = UncountOwner(t, won)
      /\ u.targetIndex = UnindexTarget(t, won)
      /\ u.deadlines = t.deadlines \ DeadlineEntries(t, won)
      /\ u.generation = t.generation /\ u.owners = t.owners /\ u.free = t.free
      /\ u.live = t.live /\ u.ownerIndex = t.ownerIndex
  BY <1>1 DEF Complete, Table
<1>6. out # "Empty" /\ out # "Pending" /\ out \in Phases
  BY DEF Outcomes, Phases
<1>7. \A S : S \subseteq PendingIds(t) => IsFiniteSet(S) /\ Cardinality(S) \in Nat
  BY <1>3, FS_Subset, FS_CardinalityType
<1>8. u \in Table
  <2>1. Cardinality(won) \in Int
    BY <1>2, <1>7
  <2>2. \A a \in Actor :
          Cardinality({id \in won : t.request[id.slot].owner = a}) \in Int
    BY <1>2, <1>7
  <2>3. UncountOwner(t, won) \in [Actor -> Int]
    BY <1>1, <2>2 DEF UncountOwner, Table
  <2>4. UnindexTarget(t, won) \in [Actor -> SUBSET OpId]
    BY <1>1 DEF UnindexTarget, Table
  <2>5. u = [t EXCEPT !.phase = u.phase, !.request = u.request, !.pending = u.pending,
                      !.pendingOwners = u.pendingOwners, !.targetIndex = u.targetIndex,
                      !.deadlines = u.deadlines]
    BY <1>1 DEF Complete, Table
  <2>6. u.phase \in [OpSlot -> Phases]
    BY <1>1, <1>5, <1>6 DEF Table
  <2>7. u.request \in [OpSlot -> Request \cup {NoRequest}]
    BY <1>1, <1>5 DEF Table
  <2>8. u.pending \in Int /\ u.deadlines \in SUBSET (Time \X OpId)
    BY <1>1, <1>5, <2>1 DEF Table
  <2> HIDE DEF u, won
  <2> QED BY <1>1, <1>5, <2>3, <2>4, <2>5, <2>6, <2>7, <2>8 DEF Table
<1> HIDE DEF u, won
<1>9. \A s \in OpSlot : IdAt(u, s) = IdAt(t, s)
  BY <1>5 DEF IdAt
<1>10. EntryIds(u) = EntryIds(t)
  <2>1. \A s \in OpSlot : u.phase[s] # "Empty" <=> t.phase[s] # "Empty"
    BY <1>1, <1>3, <1>4, <1>5, <1>6, EntryOf
  <2> QED BY <1>9, <2>1 DEF EntryIds
<1>11. PendingIds(u) = PendingIds(t) \ won
  <2>1. \A s \in OpSlot : u.phase[s] = "Pending" <=> t.phase[s] = "Pending" /\ IdAt(t, s) \notin won
    BY <1>4, <1>5, <1>6
  <2> QED BY <1>9, <2>1 DEF PendingIds
<1>12. \A id \in PendingIds(u) : u.request[id.slot] = t.request[id.slot]
  BY <1>1, <1>3, <1>4, <1>5, <1>11, EntryOf
<1>13. IndexExactOf(u)
  <2>1. ASSUME NEW s \in OpSlot
        PROVE  /\ u.phase[s] = "Pending" <=> u.request[s] # NoRequest
               /\ u.phase[s] = "Empty" <=> u.owners[s] = NoActor
               /\ u.phase[s] = "Pending" => u.owners[s] = u.request[s].owner
               /\ u.phase[s] # "Empty" => u.generation[s] > 0
               /\ s \in u.free => u.phase[s] = "Empty" /\ u.generation[s] > 0
               /\ u.phase[s] = "Empty" /\ s \notin u.free => u.generation[s] \in {0, LastGen}
    <3>1. CASE IdAt(t, s) \in won
      <4>1. t.phase[s] = "Pending"
        BY <1>1, <1>2, <3>1, EntryOf
      <4>2. u.phase[s] = out /\ u.request[s] = NoRequest
        BY <1>4, <1>5, <3>1
      <4> QED BY <1>1, <1>5, <1>6, <4>1, <4>2 DEF IndexExactOf
    <3>2. CASE IdAt(t, s) \notin won
      <4>1. u.phase[s] = t.phase[s] /\ u.request[s] = t.request[s]
        BY <1>4, <1>5, <3>2
      <4> QED BY <1>1, <1>5, <4>1 DEF IndexExactOf
    <3> QED BY <3>1, <3>2
  <2>2. u.live = Cardinality(EntryIds(u))
    BY <1>1, <1>5, <1>10 DEF IndexExactOf
  <2>3. u.pending = Cardinality(PendingIds(u))
    <3>1. PendingIds(t) \cap won = won
      BY <1>2
    <3>2. Cardinality(PendingIds(t) \ won) = Cardinality(PendingIds(t)) - Cardinality(won)
      BY <1>3, <3>1, FS_Difference
    <3> QED BY <1>1, <1>5, <1>11, <3>2 DEF IndexExactOf
  <2>4. ASSUME NEW a \in Actor
        PROVE  u.ownerIndex[a] = {id \in EntryIds(u) : u.owners[id.slot] = a}
    <3>1. t.ownerIndex[a] = {id \in EntryIds(t) : t.owners[id.slot] = a}
      BY <1>1 DEF IndexExactOf
    <3> QED BY <1>5, <1>10, <3>1
  <2>5. ASSUME NEW a \in Actor
        PROVE  u.targetIndex[a] = {id \in PendingIds(u) : u.request[id.slot].target = a}
    <3>1. t.targetIndex[a] = {id \in PendingIds(t) : t.request[id.slot].target = a}
      BY <1>1 DEF IndexExactOf
    <3>2. u.targetIndex[a] = t.targetIndex[a] \ {id \in won : t.request[id.slot].target = a}
      BY <1>5 DEF UnindexTarget
    <3> QED BY <1>11, <1>12, <3>1, <3>2
  <2>6. ASSUME NEW a \in Actor
        PROVE  u.pendingOwners[a] =
                 Cardinality({id \in PendingIds(u) : u.request[id.slot].owner = a})
    <3> DEFINE had == {id \in PendingIds(t) : t.request[id.slot].owner = a}
               lost == {id \in won : t.request[id.slot].owner = a}
    <3>1. t.pendingOwners[a] = Cardinality(had)
      BY <1>1 DEF IndexExactOf
    <3>2. u.pendingOwners[a] = t.pendingOwners[a] - Cardinality(lost)
      BY <1>5 DEF UncountOwner
    <3>3. {id \in PendingIds(u) : u.request[id.slot].owner = a} = had \ lost
      BY <1>11, <1>12
    <3>4. had \cap lost = lost /\ had \subseteq PendingIds(t)
      BY <1>2
    <3>5. IsFiniteSet(had)
      BY <1>7, <3>4
    <3>6. Cardinality(had \ lost) = Cardinality(had) - Cardinality(lost)
      BY <3>4, <3>5, FS_Difference
    <3> QED BY <3>1, <3>2, <3>3, <3>6
  <2>7. u.deadlines = {<<u.request[id.slot].deadline, id>> : id \in PendingIds(u)}
    <3>1. t.deadlines = {<<t.request[id.slot].deadline, id>> : id \in PendingIds(t)}
      BY <1>1 DEF IndexExactOf
    <3>2. u.deadlines = t.deadlines \ {<<t.request[id.slot].deadline, id>> : id \in won}
      BY <1>5 DEF DeadlineEntries
    <3> QED BY <1>2, <1>11, <1>12, <3>1, <3>2
  <2> QED BY <2>1, <2>2, <2>3, <2>4, <2>5, <2>6, <2>7 DEF IndexExactOf
<1>14. Decides(t, u, won, {out})
  <2>1. won \subseteq PendingIds(t)
    BY <1>2
  <2> QED BY <2>1, <1>4, <1>5 DEF Decides
<1>15. PendingIds(t) \ won = PendingIds(t) \ ids
  BY <1>2
<1> QED BY <1>2, <1>8, <1>11, <1>13, <1>14, <1>15 DEF TableInv, u

\* take, for any set of identities: the decided ones among them leave, and
\* their slots are offered again under a new generation, or never.
LEMMA TakeFacts ==
  ASSUME NEW t, TableInv(t), NEW ids \in SUBSET OpId
  PROVE  /\ TableInv(Take(t, ids))
         /\ Leaves(t, Take(t, ids), ids \cap (EntryIds(t) \ PendingIds(t)))
         /\ PendingIds(Take(t, ids)) = PendingIds(t)
<1> DEFINE taken == {id \in ids : Located(t, id) /\ ~IsPending(t, id)}
           reusable == {s \in Slots(taken) : t.generation[s] < LastGen}
           u == Take(t, ids)
<1>1. t \in Table /\ IndexExactOf(t)
  BY DEF TableInv
<1>2. taken = ids \cap (EntryIds(t) \ PendingIds(t))
  BY <1>1, LocatedIsEntry
<1>3. /\ IsFiniteSet(EntryIds(t)) /\ PendingIds(t) \subseteq EntryIds(t)
      /\ taken \in SUBSET EntryIds(t)
  BY <1>1, <1>2, IdsFinite
<1>4. /\ IsFiniteSet(taken) /\ Slots(taken) \subseteq OpSlot
      /\ Cardinality(Slots(taken)) = Cardinality(taken)
      /\ \A s \in OpSlot : s \in Slots(taken) <=> IdAt(t, s) \in taken
  BY <1>1, <1>3, SlotsCounted
<1>5. /\ u.phase = [s \in OpSlot |-> IF s \in Slots(taken) THEN "Empty" ELSE t.phase[s]]
      /\ u.owners = [s \in OpSlot |-> IF s \in Slots(taken) THEN NoActor ELSE t.owners[s]]
      /\ u.ownerIndex = UnindexOwner(t, taken)
      /\ u.generation = [s \in OpSlot |-> IF s \in reusable THEN t.generation[s] + 1
                                          ELSE t.generation[s]]
      /\ u.free = t.free \cup reusable
      /\ u.live = t.live - Cardinality(Slots(taken))
      /\ u.request = t.request /\ u.pending = t.pending
      /\ u.pendingOwners = t.pendingOwners /\ u.targetIndex = t.targetIndex
      /\ u.deadlines = t.deadlines
  BY <1>1 DEF Take, RetireGeneration, Table
<1>6. u \in Table
  <2>1. u = [t EXCEPT !.phase = u.phase, !.owners = u.owners, !.ownerIndex = u.ownerIndex,
                      !.generation = u.generation, !.free = u.free, !.live = u.live]
    BY <1>1 DEF Take, RetireGeneration, Table
  <2>2. u.phase \in [OpSlot -> Phases]
    BY <1>1, <1>5 DEF Table, Phases
  <2>3. u.owners \in [OpSlot -> Actor \cup {NoActor}]
    BY <1>1, <1>5 DEF Table
  <2>4. u.ownerIndex \in [Actor -> SUBSET OpId]
    BY <1>1, <1>5 DEF Table, UnindexOwner
  <2>5. u.generation \in [OpSlot -> 0..LastGen]
    BY <1>1, <1>5, LastGenAssumption DEF Table
  <2>6. u.free \in SUBSET OpSlot
    BY <1>1, <1>4, <1>5 DEF Table
  <2>7. u.live \in Int
    <3>1. Cardinality(taken) \in Int
      BY <1>4, FS_CardinalityType
    <3> QED BY <1>1, <1>4, <1>5, <3>1 DEF Table
  <2> HIDE DEF u, taken
  <2> QED BY <1>1, <2>1, <2>2, <2>3, <2>4, <2>5, <2>6, <2>7 DEF Table
<1> HIDE DEF u, taken
<1>7. \A s \in OpSlot : IF IdAt(t, s) \in taken
                        THEN /\ u.phase[s] = "Empty" /\ u.owners[s] = NoActor
                             /\ t.phase[s] # "Empty" /\ t.phase[s] # "Pending"
                        ELSE /\ u.phase[s] = t.phase[s] /\ u.owners[s] = t.owners[s]
                             /\ IdAt(u, s) = IdAt(t, s)
  <2>1. \A s \in OpSlot : IdAt(t, s) \in taken => t.phase[s] # "Empty" /\ t.phase[s] # "Pending"
    BY <1>1, <1>2, EntryOf
  <2> QED BY <1>4, <1>5, <2>1 DEF IdAt
<1>8. EntryIds(u) = EntryIds(t) \ taken
  <2>1. \A s \in OpSlot : u.phase[s] # "Empty" <=> t.phase[s] # "Empty" /\ IdAt(t, s) \notin taken
    BY <1>7
  <2> QED BY <1>7, <2>1 DEF EntryIds
<1>9. PendingIds(u) = PendingIds(t)
  <2>1. \A s \in OpSlot : u.phase[s] = "Pending" <=> t.phase[s] = "Pending"
    BY <1>7
  <2>2. \A s \in OpSlot : t.phase[s] = "Pending" => IdAt(u, s) = IdAt(t, s)
    BY <1>7
  <2> QED BY <2>1, <2>2 DEF PendingIds
<1>10. \A s \in OpSlot :
         IF IdAt(t, s) \in taken
         THEN IF t.generation[s] < LastGen
              THEN u.generation[s] = t.generation[s] + 1 /\ s \in u.free
              ELSE u.generation[s] = t.generation[s] /\ s \notin u.free
         ELSE u.generation[s] = t.generation[s] /\ (s \in u.free <=> s \in t.free)
  <2>1. \A s \in OpSlot : IdAt(t, s) \in taken => s \notin t.free
    BY <1>1, <1>7 DEF IndexExactOf
  <2> QED BY <1>4, <1>5, <2>1
<1>11. IndexExactOf(u)
  <2>1. ASSUME NEW s \in OpSlot
        PROVE  /\ u.phase[s] = "Pending" <=> u.request[s] # NoRequest
               /\ u.phase[s] = "Empty" <=> u.owners[s] = NoActor
               /\ u.phase[s] = "Pending" => u.owners[s] = u.request[s].owner
               /\ u.phase[s] # "Empty" => u.generation[s] > 0
               /\ s \in u.free => u.phase[s] = "Empty" /\ u.generation[s] > 0
               /\ u.phase[s] = "Empty" /\ s \notin u.free => u.generation[s] \in {0, LastGen}
    <3>0. t.generation[s] \in 0..LastGen
      BY <1>1 DEF Table
    <3>1. CASE IdAt(t, s) \in taken
      <4>1. /\ t.phase[s] # "Pending" /\ u.phase[s] = "Empty" /\ u.owners[s] = NoActor
            /\ t.phase[s] # "Empty"
        BY <1>7, <3>1
      <4> QED BY <1>1, <1>5, <1>10, <3>0, <3>1, <4>1, LastGenAssumption DEF IndexExactOf
    <3>2. CASE IdAt(t, s) \notin taken
      BY <1>1, <1>5, <1>7, <1>10, <3>2 DEF IndexExactOf
    <3> QED BY <3>1, <3>2
  <2>2. u.live = Cardinality(EntryIds(u))
    <3>1. EntryIds(t) \cap taken = taken
      BY <1>3
    <3>2. Cardinality(EntryIds(t) \ taken) = Cardinality(EntryIds(t)) - Cardinality(taken)
      BY <1>3, <3>1, FS_Difference
    <3> QED BY <1>1, <1>4, <1>5, <1>8, <3>2 DEF IndexExactOf
  <2>3. u.pending = Cardinality(PendingIds(u))
    BY <1>1, <1>5, <1>9 DEF IndexExactOf
  <2>4. ASSUME NEW a \in Actor
        PROVE  u.ownerIndex[a] = {id \in EntryIds(u) : u.owners[id.slot] = a}
    <3>1. t.ownerIndex[a] = {id \in EntryIds(t) : t.owners[id.slot] = a}
      BY <1>1 DEF IndexExactOf
    <3>2. u.ownerIndex[a] = t.ownerIndex[a] \ {id \in taken : t.owners[id.slot] = a}
      BY <1>5 DEF UnindexOwner
    <3>3. \A id \in EntryIds(u) : u.owners[id.slot] = t.owners[id.slot]
      BY <1>1, <1>7, <1>8, EntryOf
    <3> QED BY <1>8, <3>1, <3>2, <3>3
  <2>5. ASSUME NEW a \in Actor
        PROVE  /\ u.targetIndex[a] = {id \in PendingIds(u) : u.request[id.slot].target = a}
               /\ u.pendingOwners[a] =
                    Cardinality({id \in PendingIds(u) : u.request[id.slot].owner = a})
    <3>1. /\ t.targetIndex[a] = {id \in PendingIds(t) : t.request[id.slot].target = a}
          /\ t.pendingOwners[a] =
                    Cardinality({id \in PendingIds(t) : t.request[id.slot].owner = a})
      BY <1>1 DEF IndexExactOf
    <3> QED BY <1>5, <1>9, <3>1
  <2>6. u.deadlines = {<<u.request[id.slot].deadline, id>> : id \in PendingIds(u)}
    <3>1. t.deadlines = {<<t.request[id.slot].deadline, id>> : id \in PendingIds(t)}
      BY <1>1 DEF IndexExactOf
    <3> QED BY <1>5, <1>9, <3>1
  <2> QED BY <2>1, <2>2, <2>3, <2>4, <2>5, <2>6 DEF IndexExactOf
<1>12. Leaves(t, u, taken)
  BY <1>2, <1>5, <1>7, <1>10 DEF Leaves
<1> QED BY <1>2, <1>6, <1>9, <1>11, <1>12 DEF TableInv, u

\* reserve: the identity is new, and the operation enters every index.
LEMMA ReserveFacts ==
  ASSUME NEW t, TableInv(t), NEW s \in ReservableSlots(t), NEW r \in Request
  PROVE  /\ ReservedId(t, s) \in OpId /\ ReservedId(t, s).slot = s
         /\ TableInv(Reserve(t, s, r))
         /\ Adds(t, Reserve(t, s, r), ReservedId(t, s), r)
         /\ PendingIds(Reserve(t, s, r)) = PendingIds(t) \cup {ReservedId(t, s)}
<1> DEFINE id == ReservedId(t, s)
           u == Reserve(t, s, r)
<1>1. t \in Table /\ IndexExactOf(t)
  BY DEF TableInv
<1>2. s \in OpSlot /\ (s \in t.free \/ t.generation[s] = 0)
  BY <1>1 DEF ReservableSlots, Table
<1>3. t.phase[s] = "Empty" /\ t.request[s] = NoRequest /\ t.generation[s] \in 0..LastGen
  BY <1>1, <1>2 DEF IndexExactOf, Table
<1>4. /\ id \in OpId /\ id.slot = s
      /\ id.generation = IF t.generation[s] = 0 THEN 1 ELSE t.generation[s]
  BY <1>2, <1>3, LastGenAssumption DEF ReservedId, OpId
<1>5. /\ r.owner \in Actor /\ r.target \in Actor /\ r.deadline \in Time
      /\ r.owner # NoActor /\ r # NoRequest
  <2>1. r.owner \in Actor /\ r.target \in Actor /\ r.deadline \in Time
    BY DEF Request
  <2>2. r.owner # NoActor
    BY <2>1, ActorAssumption
  <2> QED BY <2>1, <2>2 DEF NoRequest
<1>6. /\ u.phase = [t.phase EXCEPT ![s] = "Pending"]
      /\ u.request = [t.request EXCEPT ![s] = r]
      /\ u.generation = [t.generation EXCEPT ![s] = id.generation]
      /\ u.free = t.free \ {s} /\ u.live = t.live + 1 /\ u.pending = t.pending + 1
      /\ u.owners = [t.owners EXCEPT ![id.slot] = r.owner]
      /\ u.pendingOwners = [t.pendingOwners EXCEPT ![r.owner] = @ + 1]
      /\ u.ownerIndex = [t.ownerIndex EXCEPT ![r.owner] = @ \cup {id}]
      /\ u.targetIndex = [t.targetIndex EXCEPT ![r.target] = @ \cup {id}]
      /\ u.deadlines = t.deadlines \cup {<<r.deadline, id>>}
  BY <1>1 DEF Reserve, IndexPending, Table
<1>7. u \in Table
  <2>1. u = [t EXCEPT !.phase = u.phase, !.request = u.request, !.generation = u.generation,
                      !.free = u.free, !.live = u.live, !.pending = u.pending,
                      !.owners = u.owners, !.pendingOwners = u.pendingOwners,
                      !.ownerIndex = u.ownerIndex, !.targetIndex = u.targetIndex,
                      !.deadlines = u.deadlines]
    BY <1>1 DEF Reserve, IndexPending, Table
  <2> HIDE DEF u, id
  <2>0. /\ t.phase \in [OpSlot -> Phases] /\ t.request \in [OpSlot -> Request \cup {NoRequest}]
        /\ t.generation \in [OpSlot -> 0..LastGen] /\ t.owners \in [OpSlot -> Actor \cup {NoActor}]
        /\ t.free \in SUBSET OpSlot /\ t.live \in Int /\ t.pending \in Int
        /\ t.pendingOwners \in [Actor -> Int]
        /\ t.ownerIndex \in [Actor -> SUBSET OpId] /\ t.targetIndex \in [Actor -> SUBSET OpId]
        /\ t.deadlines \in SUBSET (Time \X OpId)
    BY <1>1 DEF Table
  <2>2. u.phase \in [OpSlot -> Phases] /\ u.request \in [OpSlot -> Request \cup {NoRequest}]
    BY <1>2, <1>6, <2>0 DEF Phases
  <2>3. u.generation \in [OpSlot -> 0..LastGen]
    BY <1>2, <1>3, <1>4, <1>6, <2>0, LastGenAssumption
  <2>4. u.owners \in [OpSlot -> Actor \cup {NoActor}]
    BY <1>2, <1>4, <1>5, <1>6, <2>0
  <2>5. u.free \in SUBSET OpSlot /\ u.live \in Int /\ u.pending \in Int
    BY <1>6, <2>0
  <2>6. u.pendingOwners \in [Actor -> Int]
    BY <1>5, <1>6, <2>0
  <2>7. u.ownerIndex \in [Actor -> SUBSET OpId] /\ u.targetIndex \in [Actor -> SUBSET OpId]
    BY <1>4, <1>5, <1>6, <2>0
  <2>8. u.deadlines \in SUBSET (Time \X OpId)
    BY <1>4, <1>5, <1>6, <2>0
  <2> QED BY <1>1, <2>1, <2>2, <2>3, <2>4, <2>5, <2>6, <2>7, <2>8 DEF Table
<1> HIDE DEF u, id
<1>8. /\ \A x \in OpSlot : IF x = s
                           THEN /\ u.phase[x] = "Pending" /\ u.request[x] = r
                                /\ u.owners[x] = r.owner /\ u.generation[x] = id.generation
                                /\ IdAt(u, x) = id
                           ELSE /\ u.phase[x] = t.phase[x] /\ u.request[x] = t.request[x]
                                /\ u.owners[x] = t.owners[x] /\ IdAt(u, x) = IdAt(t, x)
                                /\ u.generation[x] = t.generation[x]
      /\ id = [slot |-> s, generation |-> id.generation]
  <2>1. id = [slot |-> s, generation |-> id.generation]
    BY <1>4 DEF OpId
  <2> QED BY <1>1, <1>2, <1>4, <1>6, <2>1 DEF IdAt, Table
<1>9. EntryIds(u) = EntryIds(t) \cup {id}
  <2>1. \A x \in OpSlot : u.phase[x] # "Empty" <=> x = s \/ t.phase[x] # "Empty"
    BY <1>8
  <2> QED BY <1>2, <1>3, <1>8, <2>1 DEF EntryIds
<1>10. PendingIds(u) = PendingIds(t) \cup {id}
  <2>1. \A x \in OpSlot : u.phase[x] = "Pending" <=> x = s \/ t.phase[x] = "Pending"
    BY <1>8
  <2> QED BY <1>2, <1>3, <1>8, <2>1 DEF PendingIds
<1>11. id \notin EntryIds(t) /\ id \notin PendingIds(t)
  BY <1>1, <1>3, <1>4, EntryOf, IdsFinite
<1>12. \A i \in EntryIds(t) : i.slot \in OpSlot /\ i.slot # s
  BY <1>1, <1>3, EntryOf
<1>13. IsFiniteSet(EntryIds(t)) /\ IsFiniteSet(PendingIds(t)) /\ PendingIds(t) \subseteq EntryIds(t)
  BY <1>1, IdsFinite
<1>14. IndexExactOf(u)
  <2>1. ASSUME NEW x \in OpSlot
        PROVE  /\ u.phase[x] = "Pending" <=> u.request[x] # NoRequest
               /\ u.phase[x] = "Empty" <=> u.owners[x] = NoActor
               /\ u.phase[x] = "Pending" => u.owners[x] = u.request[x].owner
               /\ u.phase[x] # "Empty" => u.generation[x] > 0
               /\ x \in u.free => u.phase[x] = "Empty" /\ u.generation[x] > 0
               /\ u.phase[x] = "Empty" /\ x \notin u.free => u.generation[x] \in {0, LastGen}
    <3>1. CASE x = s
      BY <1>3, <1>4, <1>5, <1>6, <1>8, <3>1
    <3>2. CASE x # s
      BY <1>1, <1>6, <1>8, <3>2 DEF IndexExactOf
    <3> QED BY <3>1, <3>2
  <2>2. u.live = Cardinality(EntryIds(u))
    <3>1. Cardinality(EntryIds(t) \cup {id}) = Cardinality(EntryIds(t)) + 1
      BY <1>11, <1>13, FS_AddElement
    <3> QED BY <1>1, <1>6, <1>9, <3>1 DEF IndexExactOf
  <2>3. u.pending = Cardinality(PendingIds(u))
    <3>1. Cardinality(PendingIds(t) \cup {id}) = Cardinality(PendingIds(t)) + 1
      BY <1>11, <1>13, FS_AddElement
    <3> QED BY <1>1, <1>6, <1>10, <3>1 DEF IndexExactOf
  <2>4. ASSUME NEW a \in Actor
        PROVE  u.ownerIndex[a] = {i \in EntryIds(u) : u.owners[i.slot] = a}
    <3>1. t.ownerIndex[a] = {i \in EntryIds(t) : t.owners[i.slot] = a}
      BY <1>1 DEF IndexExactOf
    <3>2. u.ownerIndex[a] = IF a = r.owner THEN t.ownerIndex[a] \cup {id} ELSE t.ownerIndex[a]
      BY <1>1, <1>5, <1>6 DEF Table
    <3>3. \A i \in EntryIds(t) : u.owners[i.slot] = t.owners[i.slot]
      BY <1>8, <1>12
    <3>4. u.owners[id.slot] = r.owner
      BY <1>2, <1>4, <1>8
    <3> QED BY <1>9, <3>1, <3>2, <3>3, <3>4
  <2>5. ASSUME NEW a \in Actor
        PROVE  u.targetIndex[a] = {i \in PendingIds(u) : u.request[i.slot].target = a}
    <3>1. t.targetIndex[a] = {i \in PendingIds(t) : t.request[i.slot].target = a}
      BY <1>1 DEF IndexExactOf
    <3>2. u.targetIndex[a] = IF a = r.target THEN t.targetIndex[a] \cup {id} ELSE t.targetIndex[a]
      BY <1>1, <1>5, <1>6 DEF Table
    <3>3. \A i \in PendingIds(t) : u.request[i.slot] = t.request[i.slot]
      BY <1>8, <1>12, <1>13
    <3>4. u.request[id.slot] = r
      BY <1>2, <1>4, <1>8
    <3> QED BY <1>10, <3>1, <3>2, <3>3, <3>4
  <2>6. ASSUME NEW a \in Actor
        PROVE  u.pendingOwners[a] =
                 Cardinality({i \in PendingIds(u) : u.request[i.slot].owner = a})
    <3> DEFINE had == {i \in PendingIds(t) : t.request[i.slot].owner = a}
               has == {i \in PendingIds(u) : u.request[i.slot].owner = a}
    <3>1. t.pendingOwners[a] = Cardinality(had)
      BY <1>1 DEF IndexExactOf
    <3>2. u.pendingOwners[a] = IF a = r.owner THEN t.pendingOwners[a] + 1 ELSE t.pendingOwners[a]
      BY <1>1, <1>5, <1>6 DEF Table
    <3>3. \A i \in PendingIds(t) : u.request[i.slot] = t.request[i.slot]
      BY <1>8, <1>12, <1>13
    <3>4. u.request[id.slot] = r
      BY <1>2, <1>4, <1>8
    <3>5. has = IF a = r.owner THEN had \cup {id} ELSE had
      BY <1>10, <3>3, <3>4
    <3>6. IsFiniteSet(had) /\ id \notin had
      <4>1. had \subseteq PendingIds(t)
        OBVIOUS
      <4> QED BY <1>11, <1>13, <4>1, FS_Subset
    <3>7. Cardinality(had \cup {id}) = Cardinality(had) + 1
      BY <3>6, FS_AddElement
    <3> QED BY <3>1, <3>2, <3>5, <3>7
  <2>7. u.deadlines = {<<u.request[i.slot].deadline, i>> : i \in PendingIds(u)}
    <3>1. t.deadlines = {<<t.request[i.slot].deadline, i>> : i \in PendingIds(t)}
      BY <1>1 DEF IndexExactOf
    <3>3. \A i \in PendingIds(t) : u.request[i.slot] = t.request[i.slot]
      BY <1>8, <1>12, <1>13
    <3>4. u.request[id.slot] = r
      BY <1>2, <1>4, <1>8
    <3> QED BY <1>6, <1>10, <3>1, <3>3, <3>4
  <2> QED BY <2>1, <2>2, <2>3, <2>4, <2>5, <2>6, <2>7 DEF IndexExactOf
<1>15. Adds(t, u, id, r)
  BY <1>2, <1>3, <1>4, <1>6 DEF Adds
<1> QED BY <1>4, <1>7, <1>10, <1>14, <1>15 DEF TableInv, u, id

\* release_unsubmitted: the operation leaves every index again.
LEMMA ReleaseFacts ==
  ASSUME NEW t, TableInv(t), NEW id \in PendingIds(t)
  PROVE  /\ TableInv(ReleaseUnsubmitted(t, id))
         /\ Withdraws(t, ReleaseUnsubmitted(t, id), id)
         /\ PendingIds(ReleaseUnsubmitted(t, id)) = PendingIds(t) \ {id}
<1> DEFINE s == id.slot
           u == ReleaseUnsubmitted(t, id)
           reusable == {x \in {s} : t.generation[x] < LastGen}
<1>1. t \in Table /\ IndexExactOf(t)
  BY DEF TableInv
<1>2. /\ s \in OpSlot /\ id \in OpId /\ id = IdAt(t, s) /\ t.phase[s] = "Pending"
      /\ id \in EntryIds(t)
  BY <1>1, EntryOf, IdsFinite
<1>3. /\ IsFiniteSet(EntryIds(t)) /\ IsFiniteSet(PendingIds(t))
      /\ PendingIds(t) \subseteq EntryIds(t)
  BY <1>1, IdsFinite
<1>4. /\ t.phase \in [OpSlot -> Phases] /\ t.request \in [OpSlot -> Request \cup {NoRequest}]
      /\ t.generation \in [OpSlot -> 0..LastGen] /\ t.owners \in [OpSlot -> Actor \cup {NoActor}]
      /\ t.free \in SUBSET OpSlot /\ t.live \in Int /\ t.pending \in Int
      /\ t.pendingOwners \in [Actor -> Int]
      /\ t.ownerIndex \in [Actor -> SUBSET OpId] /\ t.targetIndex \in [Actor -> SUBSET OpId]
      /\ t.deadlines \in SUBSET (Time \X OpId)
  BY <1>1 DEF Table
<1>5. /\ u.phase = [t.phase EXCEPT ![s] = "Empty"]
      /\ u.request = [t.request EXCEPT ![s] = NoRequest]
      /\ u.generation = [x \in OpSlot |-> IF x \in reusable THEN t.generation[x] + 1
                                          ELSE t.generation[x]]
      /\ u.free = t.free \cup reusable /\ u.live = t.live - Cardinality({s})
      /\ u.pending = t.pending - 1
      /\ u.owners = [t.owners EXCEPT ![s] = NoActor]
      /\ u.pendingOwners = UncountOwner(t, {id})
      /\ u.ownerIndex = UnindexOwner(t, {id})
      /\ u.targetIndex = UnindexTarget(t, {id})
      /\ u.deadlines = t.deadlines \ DeadlineEntries(t, {id})
  BY <1>1 DEF ReleaseUnsubmitted, RemoveIndex, RetireGeneration, Table
<1>6. \A a \in Actor : {i \in {id} : t.request[i.slot].owner = a} =
                         IF t.request[s].owner = a THEN {id} ELSE {}
  OBVIOUS
<1>7. Cardinality({id}) = 1 /\ Cardinality({s}) = 1 /\ Cardinality({}) = 0
  BY FS_Singleton, FS_EmptySet
<1>8. u \in Table
  <2>1. u = [t EXCEPT !.phase = u.phase, !.request = u.request, !.generation = u.generation,
                      !.free = u.free, !.live = u.live, !.pending = u.pending,
                      !.owners = u.owners, !.pendingOwners = u.pendingOwners,
                      !.ownerIndex = u.ownerIndex, !.targetIndex = u.targetIndex,
                      !.deadlines = u.deadlines]
    <3> DEFINE v == RemoveIndex(t, id)
               w == [v EXCEPT !.phase = [t.phase EXCEPT ![s] = "Empty"],
                              !.request = [t.request EXCEPT ![s] = NoRequest],
                              !.pending = t.pending - 1]
    <3>1. v = [t EXCEPT !.owners = v.owners, !.pendingOwners = v.pendingOwners,
                        !.ownerIndex = v.ownerIndex, !.targetIndex = v.targetIndex,
                        !.deadlines = v.deadlines]
      BY <1>1 DEF RemoveIndex, Table
    <3>2. u = [w EXCEPT !.generation = u.generation, !.free = u.free, !.live = u.live]
      BY <1>1 DEF ReleaseUnsubmitted, RemoveIndex, RetireGeneration, Table
    <3>3. /\ u.owners = v.owners /\ u.pendingOwners = v.pendingOwners
          /\ u.ownerIndex = v.ownerIndex /\ u.targetIndex = v.targetIndex
          /\ u.deadlines = v.deadlines
      BY <1>1, <1>5 DEF RemoveIndex, Table
    <3> HIDE DEF u, v
    <3> QED BY <1>1, <1>5, <3>1, <3>2, <3>3 DEF Table
  <2> HIDE DEF u, s
  <2>2. u.phase \in [OpSlot -> Phases] /\ u.request \in [OpSlot -> Request \cup {NoRequest}]
    BY <1>2, <1>4, <1>5 DEF Phases
  <2>3. u.generation \in [OpSlot -> 0..LastGen]
    BY <1>2, <1>4, <1>5, LastGenAssumption
  <2>4. u.owners \in [OpSlot -> Actor \cup {NoActor}]
    BY <1>2, <1>4, <1>5
  <2>5. u.free \in SUBSET OpSlot
    BY <1>2, <1>4, <1>5
  <2>9. u.live \in Int /\ u.pending \in Int
    BY <1>4, <1>5, <1>7
  <2>6. u.pendingOwners \in [Actor -> Int]
    <3>1. \A a \in Actor : Cardinality({i \in {id} : t.request[i.slot].owner = a}) \in Int
      BY <1>6, <1>7
    <3> QED BY <1>4, <1>5, <3>1 DEF UncountOwner
  <2>7. u.ownerIndex \in [Actor -> SUBSET OpId] /\ u.targetIndex \in [Actor -> SUBSET OpId]
    BY <1>4, <1>5 DEF UnindexOwner, UnindexTarget
  <2>8. u.deadlines \in SUBSET (Time \X OpId)
    BY <1>4, <1>5
  <2> QED BY <1>1, <2>1, <2>2, <2>3, <2>4, <2>5, <2>6, <2>7, <2>8, <2>9 DEF Table
<1> HIDE DEF u
<1>9. \A x \in OpSlot : IF x = s
                        THEN /\ u.phase[x] = "Empty" /\ u.request[x] = NoRequest
                             /\ u.owners[x] = NoActor
                             /\ IF t.generation[x] < LastGen
                                THEN u.generation[x] = t.generation[x] + 1 /\ x \in u.free
                                ELSE u.generation[x] = t.generation[x] /\ x \notin u.free
                        ELSE /\ u.phase[x] = t.phase[x] /\ u.request[x] = t.request[x]
                             /\ u.owners[x] = t.owners[x] /\ IdAt(u, x) = IdAt(t, x)
                             /\ u.generation[x] = t.generation[x]
                             /\ (x \in u.free <=> x \in t.free)
  <2>1. s \notin t.free
    BY <1>1, <1>2 DEF IndexExactOf
  <2> QED BY <1>2, <1>4, <1>5, <2>1 DEF IdAt
<1>10. EntryIds(u) = EntryIds(t) \ {id}
  <2>1. \A x \in OpSlot : u.phase[x] # "Empty" <=> x # s /\ t.phase[x] # "Empty"
    BY <1>9
  <2>2. \A x \in OpSlot : x # s <=> IdAt(t, x) # id
    BY <1>1, <1>2, EntryOf
  <2> QED BY <1>9, <2>1, <2>2 DEF EntryIds
<1>11. PendingIds(u) = PendingIds(t) \ {id}
  <2>1. \A x \in OpSlot : u.phase[x] = "Pending" <=> x # s /\ t.phase[x] = "Pending"
    BY <1>9
  <2>2. \A x \in OpSlot : x # s <=> IdAt(t, x) # id
    BY <1>1, <1>2, EntryOf
  <2> QED BY <1>9, <2>1, <2>2 DEF PendingIds
<1>12. \A i \in EntryIds(u) : i.slot \in OpSlot /\ i.slot # s
  BY <1>1, <1>2, <1>10, EntryOf
<1>13. \A i \in PendingIds(u) : u.request[i.slot] = t.request[i.slot]
  BY <1>3, <1>9, <1>10, <1>11, <1>12
<1>14. t.request[s].owner \in Actor /\ t.owners[s] = t.request[s].owner
  BY <1>1, <1>2, <1>4 DEF IndexExactOf, Request
<1>15. IndexExactOf(u)
  <2>1. ASSUME NEW x \in OpSlot
        PROVE  /\ u.phase[x] = "Pending" <=> u.request[x] # NoRequest
               /\ u.phase[x] = "Empty" <=> u.owners[x] = NoActor
               /\ u.phase[x] = "Pending" => u.owners[x] = u.request[x].owner
               /\ u.phase[x] # "Empty" => u.generation[x] > 0
               /\ x \in u.free => u.phase[x] = "Empty" /\ u.generation[x] > 0
               /\ u.phase[x] = "Empty" /\ x \notin u.free => u.generation[x] \in {0, LastGen}
    <3>1. CASE x = s
      BY <1>4, <1>9, <3>1, LastGenAssumption
    <3>2. CASE x # s
      BY <1>1, <1>9, <3>2 DEF IndexExactOf
    <3> QED BY <3>1, <3>2
  <2>2. u.live = Cardinality(EntryIds(u))
    <3>1. Cardinality(EntryIds(t) \ {id}) = Cardinality(EntryIds(t)) - 1
      BY <1>2, <1>3, FS_RemoveElement
    <3> QED BY <1>1, <1>5, <1>7, <1>10, <3>1 DEF IndexExactOf
  <2>3. u.pending = Cardinality(PendingIds(u))
    <3>1. Cardinality(PendingIds(t) \ {id}) = Cardinality(PendingIds(t)) - 1
      BY <1>2, <1>3, FS_RemoveElement
    <3> QED BY <1>1, <1>5, <1>11, <3>1 DEF IndexExactOf
  <2>4. ASSUME NEW a \in Actor
        PROVE  u.ownerIndex[a] = {i \in EntryIds(u) : u.owners[i.slot] = a}
    <3>1. t.ownerIndex[a] = {i \in EntryIds(t) : t.owners[i.slot] = a}
      BY <1>1 DEF IndexExactOf
    <3>2. u.ownerIndex[a] = t.ownerIndex[a] \ {i \in {id} : t.owners[i.slot] = a}
      BY <1>5 DEF UnindexOwner
    <3>3. \A i \in EntryIds(u) : u.owners[i.slot] = t.owners[i.slot]
      BY <1>9, <1>12
    <3> QED BY <1>10, <3>1, <3>2, <3>3
  <2>5. ASSUME NEW a \in Actor
        PROVE  u.targetIndex[a] = {i \in PendingIds(u) : u.request[i.slot].target = a}
    <3>1. t.targetIndex[a] = {i \in PendingIds(t) : t.request[i.slot].target = a}
      BY <1>1 DEF IndexExactOf
    <3>2. u.targetIndex[a] = t.targetIndex[a] \ {i \in {id} : t.request[i.slot].target = a}
      BY <1>5 DEF UnindexTarget
    <3> QED BY <1>11, <1>13, <3>1, <3>2
  <2>6. ASSUME NEW a \in Actor
        PROVE  u.pendingOwners[a] =
                 Cardinality({i \in PendingIds(u) : u.request[i.slot].owner = a})
    <3> DEFINE had == {i \in PendingIds(t) : t.request[i.slot].owner = a}
               has == {i \in PendingIds(u) : u.request[i.slot].owner = a}
    <3>1. t.pendingOwners[a] = Cardinality(had)
      BY <1>1 DEF IndexExactOf
    <3>2. u.pendingOwners[a] =
            t.pendingOwners[a] - Cardinality({i \in {id} : t.request[i.slot].owner = a})
      BY <1>5 DEF UncountOwner
    <3>3. IsFiniteSet(had)
      <4>1. had \subseteq PendingIds(t)
        OBVIOUS
      <4> QED BY <1>3, <4>1, FS_Subset
    <3>4. CASE t.request[s].owner = a
      <4>1. has = had \ {id} /\ id \in had
        BY <1>11, <1>13, <3>4
      <4>2. Cardinality(had \ {id}) = Cardinality(had) - 1
        BY <3>3, <4>1, FS_RemoveElement
      <4>3. {i \in {id} : t.request[i.slot].owner = a} = {id}
        BY <3>4
      <4> QED BY <1>7, <3>1, <3>2, <4>1, <4>2, <4>3
    <3>5. CASE t.request[s].owner # a
      <4>1. has = had
        BY <1>11, <1>13, <3>5
      <4>2. Cardinality({i \in {id} : t.request[i.slot].owner = a}) = 0
        BY <1>6, <1>7, <3>5
      <4>3. t.pendingOwners[a] \in Int
        BY <1>4
      <4>4. u.pendingOwners[a] = t.pendingOwners[a]
        BY <3>2, <4>2, <4>3
      <4> QED BY <3>1, <4>1, <4>4
    <3> QED BY <3>4, <3>5
  <2>7. u.deadlines = {<<u.request[i.slot].deadline, i>> : i \in PendingIds(u)}
    <3>1. t.deadlines = {<<t.request[i.slot].deadline, i>> : i \in PendingIds(t)}
      BY <1>1 DEF IndexExactOf
    <3>2. u.deadlines = t.deadlines \ {<<t.request[id.slot].deadline, id>>}
      BY <1>5 DEF DeadlineEntries
    <3> QED BY <1>11, <1>13, <3>1, <3>2
  <2> QED BY <2>1, <2>2, <2>3, <2>4, <2>5, <2>6, <2>7 DEF IndexExactOf
<1>16. Withdraws(t, u, id)
  BY <1>5, <1>9 DEF Withdraws
<1> QED BY <1>8, <1>11, <1>15, <1>16 DEF TableInv, u

-----------------------------------------------------------------------------
(* What the functions add up to.                                           *)

\* complete of identities that are all pending decides them all.
LEMMA CompletePending ==
  ASSUME NEW t, TableInv(t), NEW ids \in SUBSET PendingIds(t), NEW out \in Outcomes
  PROVE  /\ TableInv(Complete(t, ids, out))
         /\ Decides(t, Complete(t, ids, out), ids, {out})
         /\ PendingIds(Complete(t, ids, out)) = PendingIds(t) \ ids
<1>1. PendingIds(t) \subseteq EntryIds(t) /\ EntryIds(t) \subseteq OpId
  BY IdsFinite, EntryOf DEF TableInv
<1>2. ids \in SUBSET OpId
  BY <1>1
<1>3. /\ TableInv(Complete(t, ids, out))
      /\ Decides(t, Complete(t, ids, out), ids \cap PendingIds(t), {out})
      /\ PendingIds(Complete(t, ids, out)) = PendingIds(t) \ ids
  BY <1>2, CompleteFacts
<1>4. ids \cap PendingIds(t) = ids
  OBVIOUS
<1> QED BY <1>3, <1>4

\* Deciding operations takes them from the pending ones and leaves their
\* entries.
LEMMA DecidesPending ==
  ASSUME NEW t, TableInv(t), NEW u, NEW won, NEW outs \in SUBSET Outcomes,
         Decides(t, u, won, outs)
  PROVE  /\ PendingIds(u) = PendingIds(t) \ won
         /\ EntryIds(u) = EntryIds(t)
         /\ \A s \in OpSlot : IdAt(u, s) = IdAt(t, s)
<1>1. t \in Table /\ IndexExactOf(t)
  BY DEF TableInv
<1>2. "Empty" \notin outs /\ "Pending" \notin outs
  BY DEF Outcomes
<1>3. \A s \in OpSlot : IdAt(u, s) = IdAt(t, s)
  BY DEF Decides, IdAt
<1>4. \A s \in OpSlot : IdAt(t, s) \in won => t.phase[s] = "Pending"
  BY <1>1, EntryOf DEF Decides
<1>5. \A s \in OpSlot : u.phase[s] # "Empty" <=> t.phase[s] # "Empty"
  BY <1>2, <1>4 DEF Decides
<1>6. \A s \in OpSlot : u.phase[s] = "Pending" <=> t.phase[s] = "Pending" /\ IdAt(t, s) \notin won
  BY <1>2 DEF Decides
<1>7. EntryIds(u) = EntryIds(t)
  BY <1>3, <1>5 DEF EntryIds
<1>8. PendingIds(u) = PendingIds(t) \ won
  BY <1>3, <1>6 DEF PendingIds
<1> QED BY <1>3, <1>7, <1>8

\* A set of outcomes may be enlarged.
LEMMA DecidesMore ==
  ASSUME NEW t, NEW u, NEW won, NEW X, NEW Y, X \subseteq Y, Decides(t, u, won, X)
  PROVE  Decides(t, u, won, Y)
BY DEF Decides

\* Two rounds of decisions are one: nothing is decided twice.
LEMMA DecidesTwice ==
  ASSUME NEW t, TableInv(t), NEW u, NEW v, NEW first, NEW second,
         NEW X \in SUBSET Outcomes, Decides(t, u, first, X), Decides(u, v, second, X)
  PROVE  /\ Decides(t, v, first \cup second, X)
         /\ Cardinality(first \cup second) = Cardinality(first) + Cardinality(second)
<1>1. t \in Table /\ IndexExactOf(t) /\ IsFiniteSet(PendingIds(t))
  BY IdsFinite DEF TableInv
<1>2. /\ PendingIds(u) = PendingIds(t) \ first
      /\ \A s \in OpSlot : IdAt(u, s) = IdAt(t, s)
  BY DecidesPending
<1>3. /\ first \subseteq PendingIds(t) /\ second \subseteq PendingIds(t)
      /\ first \cap second = {}
  BY <1>2 DEF Decides
<1>4. IsFiniteSet(first) /\ IsFiniteSet(second)
  BY <1>1, <1>3, FS_Subset
<1>5. Cardinality(first) \in Int /\ Cardinality(second) \in Int
  BY <1>4, FS_CardinalityType
<1>6. Cardinality(first \cup second) = Cardinality(first) + Cardinality(second)
  <2>1. Cardinality(first \cap second) = 0
    BY <1>3, FS_EmptySet
  <2>2. Cardinality(first \cup second) =
          Cardinality(first) + Cardinality(second) - Cardinality(first \cap second)
    BY <1>4, FS_Union
  <2> QED BY <1>5, <2>1, <2>2
<1>7. v.pending = t.pending - Cardinality(first \cup second)
  <2>1. u.pending = t.pending - Cardinality(first) /\ v.pending = u.pending - Cardinality(second)
    BY DEF Decides
  <2>2. t.pending \in Int
    BY <1>1 DEF Table
  <2> QED BY <1>5, <1>6, <2>1, <2>2
<1>8. \A s \in OpSlot :
        IF IdAt(t, s) \in first \cup second THEN v.phase[s] \in X
        ELSE v.phase[s] = t.phase[s] /\ v.request[s] = t.request[s]
  BY <1>2, <1>3 DEF Decides
<1> QED BY <1>3, <1>6, <1>7, <1>8 DEF Decides

\* expire_ids decides the operations whose deadline has come, and those only.
LEMMA ExpireFacts ==
  ASSUME NEW t, TableInv(t), NEW at \in Time
  PROVE  /\ ExpiredIds(t, at) = {id \in PendingIds(t) : t.request[id.slot].deadline <= at}
         /\ TableInv(ExpireIds(t, at))
         /\ Decides(t, ExpireIds(t, at), ExpiredIds(t, at), {"TimedOut"})
<1> DEFINE ids == ExpiredIds(t, at)
           due == {e \in t.deadlines : e[1] <= at}
<1>1. t \in Table /\ IndexExactOf(t)
  BY DEF TableInv
<1>2. t.deadlines = {<<t.request[id.slot].deadline, id>> : id \in PendingIds(t)}
  BY <1>1 DEF IndexExactOf
<1>3. PendingIds(t) \subseteq EntryIds(t) /\ EntryIds(t) \subseteq OpId
  BY <1>1, IdsFinite, EntryOf
<1>4. \A id \in PendingIds(t) : Located(t, id) /\ IsPending(t, id)
  BY <1>1, <1>3, LocatedIsEntry
<1>5. ids = {id \in PendingIds(t) : t.request[id.slot].deadline <= at}
  <2>1. ids = {e[2] : e \in {d \in t.deadlines : d[1] <= at /\ Located(t, d[2])}}
    BY DEF ExpiredIds
  <2>2. ASSUME NEW id \in PendingIds(t), t.request[id.slot].deadline <= at
        PROVE  id \in ids
    <3>1. <<t.request[id.slot].deadline, id>> \in t.deadlines
      BY <1>2
    <3> QED BY <1>4, <2>1, <2>2, <3>1
  <2>3. ASSUME NEW id \in ids
        PROVE  id \in PendingIds(t) /\ t.request[id.slot].deadline <= at
    <3>1. PICK e \in t.deadlines : e[1] <= at /\ id = e[2]
      BY <2>1
    <3>2. PICK i \in PendingIds(t) : e = <<t.request[i.slot].deadline, i>>
      BY <1>2
    <3> QED BY <3>1, <3>2
  <2> QED BY <2>2, <2>3
<1>6. due = DeadlineEntries(t, ids)
  BY <1>2, <1>5 DEF DeadlineEntries
<1>7. ExpireIds(t, at) = Complete(t, ids, "TimedOut")
  <2> DEFINE w == [t EXCEPT !.deadlines = t.deadlines \ due]
  <2>1. {e[2] : e \in {d \in due : Located(t, d[2])}} = ids
    BY DEF ExpiredIds
  <2>2. \A id : IsPending(w, id) <=> IsPending(t, id)
    BY <1>1 DEF IsPending, Located, Table
  <2>3. {id \in ids : IsPending(t, id)} = ids /\ {id \in ids : IsPending(w, id)} = ids
    BY <1>4, <1>5, <2>2
  <2>4. ExpireIds(t, at) = Complete(w, ids, "TimedOut")
    BY <2>1 DEF ExpireIds
  <2>5. /\ w.deadlines = t.deadlines \ due /\ w.request = t.request /\ w.phase = t.phase
        /\ w.pending = t.pending /\ w.pendingOwners = t.pendingOwners
        /\ w.targetIndex = t.targetIndex
    BY <1>1 DEF Table
  <2>6. /\ UncountOwner(w, ids) = UncountOwner(t, ids)
        /\ UnindexTarget(w, ids) = UnindexTarget(t, ids)
        /\ DeadlineEntries(w, ids) = DeadlineEntries(t, ids)
    BY <2>5 DEF UncountOwner, UnindexTarget, DeadlineEntries
  <2>7. w.deadlines \ DeadlineEntries(w, ids) = t.deadlines \ DeadlineEntries(t, ids)
    BY <1>6, <2>5, <2>6
  <2> HIDE DEF ids, due
  <2>8. Complete(w, ids, "TimedOut") =
          [w EXCEPT
             !.phase = [s \in OpSlot |-> IF s \in Slots(ids) THEN "TimedOut" ELSE t.phase[s]],
             !.request = [s \in OpSlot |-> IF s \in Slots(ids) THEN NoRequest ELSE t.request[s]],
             !.pending = t.pending - Cardinality(ids),
             !.pendingOwners = UncountOwner(t, ids),
             !.targetIndex = UnindexTarget(t, ids),
             !.deadlines = t.deadlines \ DeadlineEntries(t, ids)]
    BY <2>3, <2>5, <2>6, <2>7 DEF Complete
  <2>9. Complete(t, ids, "TimedOut") =
          [t EXCEPT
             !.phase = [s \in OpSlot |-> IF s \in Slots(ids) THEN "TimedOut" ELSE t.phase[s]],
             !.request = [s \in OpSlot |-> IF s \in Slots(ids) THEN NoRequest ELSE t.request[s]],
             !.pending = t.pending - Cardinality(ids),
             !.pendingOwners = UncountOwner(t, ids),
             !.targetIndex = UnindexTarget(t, ids),
             !.deadlines = t.deadlines \ DeadlineEntries(t, ids)]
    BY <2>3 DEF Complete
  <2> QED BY <1>1, <2>4, <2>8, <2>9 DEF Table
<1>8. ids \in SUBSET PendingIds(t) /\ "TimedOut" \in Outcomes
  BY <1>5 DEF Outcomes
<1> HIDE DEF ids
<1>9. TableInv(Complete(t, ids, "TimedOut")) /\ Decides(t, Complete(t, ids, "TimedOut"), ids, {"TimedOut"})
  BY <1>8, CompletePending
<1> QED BY <1>5, <1>7, <1>9 DEF ids

\* retire_owner of actors that own nothing pending takes all they own.
LEMMA RetireFacts ==
  ASSUME NEW t, TableInv(t), NEW actors \in SUBSET Actor,
         \A id \in PendingIds(t) : t.owners[id.slot] \notin actors
  PROVE  /\ TableInv(RetireOwner(t, actors))
         /\ Leaves(t, RetireOwner(t, actors), {id \in EntryIds(t) : t.owners[id.slot] \in actors})
         /\ PendingIds(RetireOwner(t, actors)) = PendingIds(t)
<1> DEFINE ids == UNION {t.ownerIndex[a] : a \in actors}
           u == Complete(t, ids, "OwnerStopped")
           v == RetireOwner(t, actors)
<1>1. t \in Table /\ IndexExactOf(t)
  BY DEF TableInv
<1>2. ids = {id \in EntryIds(t) : t.owners[id.slot] \in actors}
  <2>1. \A a \in Actor : t.ownerIndex[a] = {id \in EntryIds(t) : t.owners[id.slot] = a}
    BY <1>1 DEF IndexExactOf
  <2> QED BY <2>1
<1>3. PendingIds(t) \subseteq EntryIds(t) /\ EntryIds(t) \subseteq OpId
  BY <1>1, IdsFinite, EntryOf
<1>4. ids \in SUBSET OpId /\ ids \cap PendingIds(t) = {} /\ "OwnerStopped" \in Outcomes
  BY <1>2, <1>3 DEF Outcomes
<1>5. TableInv(u) /\ Decides(t, u, {}, {"OwnerStopped"})
  <2> HIDE DEF ids
  <2>1. TableInv(u) /\ Decides(t, u, ids \cap PendingIds(t), {"OwnerStopped"})
    BY <1>4, CompleteFacts
  <2> QED BY <1>4, <2>1
<1>6. v = Take(u, ids)
  BY DEF RetireOwner
<1> HIDE DEF u, v, ids
<1>7. PendingIds(u) = PendingIds(t) /\ EntryIds(u) = EntryIds(t)
      /\ \A s \in OpSlot : IdAt(u, s) = IdAt(t, s)
  <2>1. {"OwnerStopped"} \in SUBSET Outcomes
    BY <1>4
  <2>2. PendingIds(u) = PendingIds(t) \ {} /\ EntryIds(u) = EntryIds(t)
        /\ \A s \in OpSlot : IdAt(u, s) = IdAt(t, s)
    BY <1>5, <2>1, DecidesPending
  <2> QED BY <2>2
<1>8. TableInv(v) /\ Leaves(u, v, ids) /\ PendingIds(v) = PendingIds(t)
  <2>1. ids \cap (EntryIds(u) \ PendingIds(u)) = ids
    BY <1>2, <1>4, <1>7
  <2> QED BY <1>4, <1>5, <1>6, <1>7, <2>1, TakeFacts
<1>9. /\ \A s \in OpSlot : u.phase[s] = t.phase[s] /\ u.request[s] = t.request[s]
      /\ u.generation = t.generation /\ u.owners = t.owners /\ u.free = t.free
      /\ u.pending = t.pending
  <2>1. Cardinality({}) = 0 /\ t.pending \in Int
    BY <1>1, FS_EmptySet DEF Table
  <2> QED BY <1>5, <2>1 DEF Decides
<1>10. u.request = t.request
  <2>1. u.request \in [OpSlot -> Request \cup {NoRequest}] /\ t.request \in [OpSlot -> Request \cup {NoRequest}]
    BY <1>1, <1>5 DEF TableInv, Table
  <2> QED BY <1>9, <2>1
<1>11. Leaves(t, v, ids)
  BY <1>7, <1>8, <1>9, <1>10 DEF Leaves
<1> QED BY <1>2, <1>8, <1>11 DEF v

\* The fence of a set of actors decides every operation that one of them owns
\* or serves, each once.
LEMMA FencedFacts ==
  ASSUME NEW t, TableInv(t), NEW S \in SUBSET Actor, NEW order
  PROVE  LET won == FenceOwned(t, S, order) \cup FenceServed(t, S, order) IN
         /\ TableInv(Fenced(t, S, order))
         /\ Decides(t, Fenced(t, S, order), won, Unanswered)
         /\ Count(t, won) = Cardinality(won)
         /\ \A id \in PendingIds(Fenced(t, S, order)) :
              t.request[id.slot].owner \notin S /\ t.request[id.slot].target \notin S
<1> DEFINE owned == FenceOwned(t, S, order)
           served == FenceServed(t, S, order)
           u == Complete(t, owned, "OwnerStopped")
           v == Fenced(t, S, order)
<1>1. t \in Table /\ IndexExactOf(t) /\ PendingIds(t) \subseteq EntryIds(t) /\ EntryIds(t) \subseteq OpId
  BY IdsFinite, EntryOf DEF TableInv
<1>2. /\ \A id \in PendingIds(t) : t.owners[id.slot] = t.request[id.slot].owner
      /\ \A id \in PendingIds(t) : /\ t.request[id.slot].owner \in Actor
                                   /\ t.request[id.slot].target \in Actor
  <2>1. \A id \in PendingIds(t) : id.slot \in OpSlot /\ t.phase[id.slot] = "Pending"
    BY <1>1, EntryOf
  <2>2. \A s \in OpSlot : t.phase[s] = "Pending" =>
                            t.owners[s] = t.request[s].owner /\ t.request[s] \in Request
    BY <1>1 DEF IndexExactOf, Table
  <2> QED BY <2>1, <2>2 DEF Request
<1>3. owned = {id \in PendingIds(t) : OwnerHitFirst(t, S, order, id)}
  <2>1. \A a \in Actor : t.ownerIndex[a] = {id \in EntryIds(t) : t.owners[id.slot] = a}
    BY <1>1 DEF IndexExactOf
  <2>2. UNION {t.ownerIndex[a] : a \in S} = {id \in EntryIds(t) : t.owners[id.slot] \in S}
    BY <2>1
  <2>3. \A id \in EntryIds(t) : IsPending(t, id) <=> id \in PendingIds(t)
    BY <1>1, LocatedIsEntry
  <2>4. \A id : OwnerHitFirst(t, S, order, id) => t.request[id.slot].owner \in S
    BY DEF OwnerHitFirst
  <2> QED BY <1>1, <1>2, <2>2, <2>3, <2>4 DEF FenceOwned
<1>4. served = {id \in PendingIds(t) : t.request[id.slot].target \in S /\ ~OwnerHitFirst(t, S, order, id)}
  <2>1. \A a \in Actor : t.targetIndex[a] = {id \in PendingIds(t) : t.request[id.slot].target = a}
    BY <1>1 DEF IndexExactOf
  <2>2. UNION {t.targetIndex[a] : a \in S} = {id \in PendingIds(t) : t.request[id.slot].target \in S}
    BY <2>1
  <2>3. \A id \in PendingIds(t) : IsPending(t, id)
    BY <1>1, LocatedIsEntry
  <2> QED BY <2>2, <2>3 DEF FenceServed
<1>5. v = Complete(u, served, "TargetStopped")
  BY DEF Fenced
<1> HIDE DEF owned, served, u, v
<1>6. /\ owned \in SUBSET PendingIds(t)
      /\ "OwnerStopped" \in Outcomes /\ "TargetStopped" \in Outcomes
  BY <1>1, <1>3, <1>4 DEF Outcomes
<1>7. TableInv(u) /\ Decides(t, u, owned, {"OwnerStopped"}) /\ PendingIds(u) = PendingIds(t) \ owned
  BY <1>6, CompletePending DEF u
<1>8. served \in SUBSET PendingIds(u)
  BY <1>3, <1>4, <1>7
<1>9. /\ TableInv(v) /\ Decides(u, v, served, {"TargetStopped"})
      /\ PendingIds(v) = PendingIds(u) \ served
  BY <1>5, <1>6, <1>7, <1>8, CompletePending
<1>10. Decides(t, v, owned \cup served, Unanswered)
  <2>1. /\ {"OwnerStopped"} \subseteq Unanswered /\ {"TargetStopped"} \subseteq Unanswered
        /\ Unanswered \in SUBSET Outcomes
    BY DEF Unanswered, Outcomes
  <2>2. Decides(t, u, owned, Unanswered) /\ Decides(u, v, served, Unanswered)
    BY <1>7, <1>9, <2>1, DecidesMore
  <2> QED BY <2>1, <2>2, DecidesTwice
<1>11. Count(t, owned \cup served) = Cardinality(owned \cup served)
  <2>1. \A id \in owned \cup served : IsPending(t, id)
    BY <1>1, <1>3, <1>4, LocatedIsEntry
  <2>2. {id \in owned \cup served : IsPending(t, id)} = owned \cup served
    BY <2>1
  <2> QED BY <2>2 DEF Count
<1>12. \A id \in PendingIds(v) :
         t.request[id.slot].owner \notin S /\ t.request[id.slot].target \notin S
  BY <1>3, <1>4, <1>7, <1>9 DEF OwnerHitFirst
<1> QED BY <1>9, <1>10, <1>11, <1>12 DEF owned, served, v

-----------------------------------------------------------------------------
(* The World.                                                              *)

States == {"Active", "Quiescing", "Stopping", "Stopped"}

VarsType ==
  /\ actorState \in [Actor -> States]
  /\ queue \in [Actor -> Seq(Delivery)]
  /\ running \in [Actor -> OpId \cup {NoOp}]
  /\ now \in Time /\ issued \in Int /\ settled \in Int

\* PendingIsServed of a table and the states of the actors.
Served(t, st) ==
  \A s \in OpSlot :
    /\ t.phase[s] = "Pending" => /\ st[t.request[s].owner] \in {"Active", "Quiescing"}
                                 /\ st[t.request[s].target] \in {"Active", "Quiescing"}
    /\ t.owners[s] # NoActor => st[t.owners[s]] # "Stopped"

\* The identity has been given to an operation.
Known(t, id) ==
  \/ id.generation < t.generation[id.slot]
  \/ id.generation = t.generation[id.slot] /\ id.slot \notin t.free

\* No identity is in two places of the mailboxes and leases.
Once(q, run) ==
  /\ \A a, b \in Actor : \A i \in 1..Len(q[a]), j \in 1..Len(q[b]) :
       q[a][i].id = q[b][j].id => a = b /\ i = j
  /\ \A a, b \in Actor : run[a] = run[b] /\ run[a] # NoOp => a = b
  /\ \A a, b \in Actor : \A i \in 1..Len(q[a]) : q[a][i].id # run[b]

\* Every identity in the mailboxes and leases has been given.
AllKnown(t, q, run) ==
  /\ \A a \in Actor : \A i \in 1..Len(q[a]) : Known(t, q[a][i].id)
  /\ \A a \in Actor : run[a] # NoOp => Known(t, run[a])

\* The inductive invariant.  IndexExact needs Served, because retire_owner
\* counts nothing it decides; Served needs IndexExact, because the fence finds
\* operations by the indexes.
OpInv ==
  /\ VarsType
  /\ TableInv(table)
  /\ issued = table.pending + settled
  /\ Served(table, actorState)
  /\ AllKnown(table, queue, running)
  /\ Once(queue, running)

-----------------------------------------------------------------------------
(* What a step does to the table.                                          *)

\* What leaves goes with its owner.
GoneWith(t, gone, st) == \A id \in gone : st[t.owners[id.slot]] = "Stopped"

Issuing ==
  \E id \in OpId, r \in Request :
    /\ Adds(table, table', id, r)
    /\ actorState[r.owner] = "Active" /\ actorState[r.target] = "Active"
    /\ issued' = issued + 1 /\ settled' = settled

Burning ==
  \E id \in OpId, r \in Request : \E u :
    /\ TableInv(u) /\ Adds(table, u, id, r) /\ Withdraws(u, table', id)
    /\ issued' = issued /\ settled' = settled

Settling ==
  \E won, gone, u :
    /\ TableInv(u) /\ Decides(table, u, won, Outcomes) /\ Leaves(u, table', gone)
    /\ \A id \in won : Due(table, id, now) => u.phase[id.slot] # "Completed"
    /\ \A id \in gone : id \in PendingIds(table) =>
                          actorState'[table.owners[id.slot]] = "Stopped"
    /\ issued' = issued /\ settled' = settled + Cardinality(won)

\* The part of a step that is not about deliveries.
TableStep ==
  /\ TableInv(table') /\ Served(table', actorState')
  /\ actorState' \in [Actor -> States]
  /\ \A a \in Actor : actorState[a] = "Stopped" => actorState'[a] = "Stopped"
  /\ Issuing \/ Burning \/ Settling

\* Nothing decided, nothing gone.
LEMMA NothingDecided ==
  ASSUME NEW t, TableInv(t)
  PROVE  Decides(t, t, {}, Outcomes) /\ Leaves(t, t, {}) /\ Cardinality({}) = 0
<1>1. Cardinality({}) = 0 /\ t.pending \in Int
  BY FS_EmptySet DEF TableInv, Table
<1> QED BY <1>1 DEF Decides, Leaves

\* Decisions and departures leave no operation behind that is not served.
LEMMA DecidesServed ==
  ASSUME NEW t, TableInv(t), NEW u, NEW won, NEW st, Served(t, st), Decides(t, u, won, Outcomes)
  PROVE  Served(u, st)
<1>1. "Pending" \notin Outcomes
  BY DEF Outcomes
<1> QED BY <1>1 DEF Decides, Served

LEMMA LeavesServed ==
  ASSUME NEW t, TableInv(t), NEW u, NEW gone, NEW st, Served(t, st), Leaves(t, u, gone)
  PROVE  Served(u, st)
BY DEF Leaves, Served

\* What the fence of the actors of S decides, and their states after a call that
\* stops them and retires those of out.
FencedIds(t, S, order) == FenceOwned(t, S, order) \cup FenceServed(t, S, order)
StoppedFrom(st, S, out) ==
  [a \in Actor |-> IF a \in out THEN "Stopped" ELSE IF a \in S THEN "Stopping" ELSE st[a]]
NoneStopped(S, st) == \A a \in S : st[a] # "Stopped"

\* The end of a call that stops the actors of S: what the fence decides is
\* counted, and what leaves with a retired owner was owned by it.
LEMMA StopFacts ==
  ASSUME NEW S \in SUBSET Actor, NEW st \in [Actor -> States], NEW t, TableInv(t),
         Served(t, st), NoneStopped(S, st), NEW order, NEW out \in SUBSET S,
         NEW u, u = Fenced(t, S, order), NEW v, v = RetireOwner(u, out),
         NEW won, won = FencedIds(t, S, order),
         NEW after, after = StoppedFrom(st, S, out)
  PROVE  /\ TableInv(u) /\ Decides(t, u, won, Unanswered)
         /\ Count(t, won) = Cardinality(won)
         /\ TableInv(v) /\ Served(v, after) /\ after \in [Actor -> States]
         /\ \E gone : Leaves(u, v, gone) /\ GoneWith(t, gone, after)
<1> DEFINE gone == {id \in EntryIds(u) : u.owners[id.slot] \in out}
<1>3. /\ TableInv(u) /\ Decides(t, u, won, Unanswered)
      /\ Count(t, won) = Cardinality(won)
      /\ \A id \in PendingIds(u) :
           t.request[id.slot].owner \notin S /\ t.request[id.slot].target \notin S
  BY FencedFacts DEF FencedIds
<1>13. /\ after = [a \in Actor |-> IF a \in out THEN "Stopped"
                                   ELSE IF a \in S THEN "Stopping" ELSE st[a]]
       /\ \A a \in S : st[a] # "Stopped"
  BY DEF StoppedFrom, NoneStopped
<1>4. t \in Table /\ IndexExactOf(t) /\ u \in Table /\ IndexExactOf(u) /\ out \subseteq S
  BY <1>3 DEF TableInv
<1>5. Unanswered \subseteq Outcomes
  BY DEF Unanswered
<1>6. Decides(t, u, won, Outcomes)
  BY <1>3, <1>5, DecidesMore
<1>7. /\ PendingIds(u) = PendingIds(t) \ won /\ EntryIds(u) = EntryIds(t)
      /\ \A s \in OpSlot : IdAt(u, s) = IdAt(t, s)
  BY <1>6, DecidesPending
<1>8. \A id \in PendingIds(u) : /\ u.owners[id.slot] = t.request[id.slot].owner
                                /\ u.request[id.slot] = t.request[id.slot]
  <2>1. \A id \in PendingIds(u) : /\ id.slot \in OpSlot /\ id = IdAt(t, id.slot)
                                  /\ u.phase[id.slot] = "Pending" /\ id \notin won
    BY <1>4, <1>7, EntryOf, IdsFinite
  <2>2. \A id \in PendingIds(u) : u.request[id.slot] = t.request[id.slot]
    BY <1>6, <2>1 DEF Decides
  <2> QED BY <1>4, <2>1, <2>2 DEF IndexExactOf
<1>9. /\ TableInv(v) /\ Leaves(u, v, gone) /\ PendingIds(v) = PendingIds(u)
  <2>1. \A id \in PendingIds(u) : u.owners[id.slot] \notin out
    BY <1>3, <1>4, <1>8
  <2>2. out \in SUBSET Actor
    BY <1>4
  <2>3. /\ TableInv(RetireOwner(u, out)) /\ Leaves(u, RetireOwner(u, out), gone)
        /\ PendingIds(RetireOwner(u, out)) = PendingIds(u)
    BY <1>3, <2>1, <2>2, RetireFacts
  <2> HIDE DEF gone
  <2> QED BY <2>3
<1>10. GoneWith(t, gone, after)
  <2>1. u.owners = t.owners
    BY <1>6 DEF Decides
  <2> QED BY <1>4, <1>13, <2>1 DEF GoneWith
<1>11. after \in [Actor -> States]
  BY <1>13 DEF States
<1>12. Served(v, after)
  <2>1. Served(u, st)
    BY <1>6, DecidesServed
  <2>2. ASSUME NEW s \in OpSlot
        PROVE  /\ v.phase[s] = "Pending" =>
                    /\ after[v.request[s].owner] \in {"Active", "Quiescing"}
                    /\ after[v.request[s].target] \in {"Active", "Quiescing"}
               /\ v.owners[s] # NoActor => after[v.owners[s]] # "Stopped"
    <3>1. ASSUME v.phase[s] = "Pending"
          PROVE  /\ after[v.request[s].owner] \in {"Active", "Quiescing"}
                 /\ after[v.request[s].target] \in {"Active", "Quiescing"}
      <4>1. u.phase[s] = "Pending" /\ v.request = u.request
        BY <1>9, <3>1 DEF Leaves
      <4>2. IdAt(u, s) \in PendingIds(u) /\ IdAt(u, s).slot = s
        BY <1>4, <4>1, EntryOf
      <4>3. u.request[s] = t.request[s] /\ u.request[s].owner \notin S /\ u.request[s].target \notin S
        BY <1>3, <1>8, <4>2
      <4>4. u.request[s] \in Request
        BY <1>4, <4>1 DEF IndexExactOf, Table
      <4>5. u.request[s].owner \in Actor /\ u.request[s].target \in Actor
        BY <4>4 DEF Request
      <4> QED BY <1>4, <1>13, <2>1, <4>1, <4>3, <4>5 DEF Served
    <3>2. ASSUME v.owners[s] # NoActor
          PROVE  after[v.owners[s]] # "Stopped"
      <4>1. IdAt(u, s) \notin gone /\ v.owners[s] = u.owners[s]
        BY <1>9, <3>2 DEF Leaves
      <4>2. u.owners[s] \in Actor
        BY <1>4, <3>2, <4>1 DEF Table
      <4>3. u.phase[s] # "Empty"
        BY <1>4, <3>2, <4>1 DEF IndexExactOf
      <4>4. IdAt(u, s) \in EntryIds(u) /\ IdAt(u, s).slot = s
        BY <1>4, <4>3, EntryOf
      <4>5. u.owners[s] \notin out
        BY <4>1, <4>4
      <4>6. st[u.owners[s]] # "Stopped"
        BY <2>1, <3>2, <4>1 DEF Served
      <4> QED BY <1>13, <4>1, <4>2, <4>5, <4>6
    <3> QED BY <3>1, <3>2
  <2> QED BY <2>2 DEF Served
<1> HIDE DEF gone
<1> QED BY <1>3, <1>9, <1>10, <1>11, <1>12

\* A call that decides operations and stops nobody.
LEMMA DecideStep ==
  ASSUME OpInv, NEW won, TableInv(table'), Decides(table, table', won, Outcomes),
         \A id \in won : Due(table, id, now) => table'.phase[id.slot] # "Completed",
         actorState' = actorState, issued' = issued, settled' = settled + Cardinality(won)
  PROVE  TableStep
<1>1. Served(table', actorState')
  BY DecidesServed DEF OpInv
<1>2. Leaves(table', table', {})
  BY NothingDecided
<1>3. Settling
  BY <1>2 DEF Settling
<1> QED BY <1>1, <1>3 DEF TableStep, OpInv, VarsType

\* A call that decides the operations of first, then stops the actors of S.
LEMMA StopStep ==
  ASSUME OpInv, NEW S \in SUBSET Actor, NEW st \in [Actor -> States], NEW t, TableInv(t),
         NEW first, Decides(table, t, first, Unanswered),
         Served(table, st), NoneStopped(S, st),
         \A a \in Actor : actorState[a] = "Stopped" => st[a] = "Stopped",
         NEW order, NEW out \in SUBSET S,
         table' = RetireOwner(Fenced(t, S, order), out),
         settled' = settled + Cardinality(first) + Count(t, FencedIds(t, S, order)),
         actorState' = StoppedFrom(st, S, out), issued' = issued
  PROVE  TableStep
<1> DEFINE u == Fenced(t, S, order)
           won == FencedIds(t, S, order)
<1>0. TableInv(table) /\ settled \in Int /\ Unanswered \in SUBSET Outcomes
  BY DEF OpInv, VarsType, Unanswered
<1>1. Served(t, st)
  <2>1. Decides(table, t, first, Outcomes)
    BY <1>0, DecidesMore
  <2> QED BY <1>0, <2>1, DecidesServed
<1>2. /\ TableInv(u) /\ Decides(t, u, won, Unanswered)
      /\ Count(t, won) = Cardinality(won)
      /\ TableInv(table') /\ Served(table', actorState') /\ actorState' \in [Actor -> States]
      /\ \E gone : Leaves(u, table', gone) /\ GoneWith(t, gone, actorState')
  <2> DEFINE v == table'
             after == actorState'
  <2>1. /\ u = Fenced(t, S, order) /\ won = FencedIds(t, S, order)
        /\ v = RetireOwner(u, out) /\ after = StoppedFrom(st, S, out)
    OBVIOUS
  <2> HIDE DEF u, won, v, after
  <2>2. /\ TableInv(u) /\ Decides(t, u, won, Unanswered)
        /\ Count(t, won) = Cardinality(won)
        /\ TableInv(v) /\ Served(v, after) /\ after \in [Actor -> States]
        /\ \E gone : Leaves(u, v, gone) /\ GoneWith(t, gone, after)
    BY <1>1, <2>1, StopFacts
  <2> QED BY <2>2 DEF v, after
<1>3. settled' = settled + Cardinality(first) + Cardinality(won)
  BY <1>2
<1>4. \A a \in Actor : st[a] = "Stopped" => actorState'[a] = "Stopped"
  BY DEF StoppedFrom, NoneStopped
<1> HIDE DEF u, won
<1>11. PICK gone : Leaves(u, table', gone) /\ GoneWith(t, gone, actorState')
  BY <1>2
<1>5. /\ Decides(table, u, first \cup won, Unanswered)
      /\ Cardinality(first \cup won) = Cardinality(first) + Cardinality(won)
  BY <1>0, <1>2, DecidesTwice
<1>6. Decides(table, u, first \cup won, Outcomes)
  BY <1>0, <1>5, DecidesMore
<1>7. \A id \in first \cup won : u.phase[id.slot] # "Completed"
  <2>1. \A id \in first \cup won : id.slot \in OpSlot /\ id = IdAt(table, id.slot)
    BY <1>0, <1>5, EntryOf, IdsFinite DEF Decides, TableInv
  <2> QED BY <1>5, <2>1 DEF Decides, Unanswered
<1>8. \A id \in gone : actorState'[table.owners[id.slot]] = "Stopped"
  <2>1. t.owners = table.owners
    BY DEF Decides
  <2> QED BY <1>11, <2>1 DEF GoneWith
<1>9. settled' = settled + Cardinality(first \cup won)
  <2>1. Cardinality(first) \in Int /\ Cardinality(won) \in Int
    <3>1. first \subseteq PendingIds(table) /\ won \subseteq PendingIds(t)
      BY <1>2 DEF Decides
    <3>2. IsFiniteSet(PendingIds(table)) /\ IsFiniteSet(PendingIds(t))
      BY <1>0, IdsFinite DEF TableInv
    <3>3. IsFiniteSet(first) /\ IsFiniteSet(won)
      BY <3>1, <3>2, FS_Subset
    <3> QED BY <3>3, FS_CardinalityType
  <2> QED BY <1>0, <1>3, <1>5, <2>1
<1>10. Settling
  BY <1>2, <1>6, <1>7, <1>8, <1>9, <1>11 DEF Settling
<1> QED BY <1>2, <1>4, <1>10 DEF TableStep

\* A call that decides the operations of first, then retires stopping actors.
LEMMA RetireStep ==
  ASSUME OpInv, NEW out \in SUBSET Actor, \A a \in out : actorState[a] = "Stopping",
         NEW t, TableInv(t), NEW first, Decides(table, t, first, Unanswered),
         table' = RetireOwner(t, out),
         actorState' = [a \in Actor |-> IF a \in out THEN "Stopped" ELSE actorState[a]],
         issued' = issued, settled' = settled + Cardinality(first)
  PROVE  TableStep
<1> DEFINE gone == {id \in EntryIds(t) : t.owners[id.slot] \in out}
<1>0. TableInv(table) /\ Served(table, actorState) /\ actorState \in [Actor -> States]
  BY DEF OpInv, VarsType
<1>1. Decides(table, t, first, Outcomes)
  <2>1. Unanswered \subseteq Outcomes
    BY DEF Unanswered
  <2> QED BY <2>1, DecidesMore
<1>2. Served(t, actorState)
  BY <1>0, <1>1, DecidesServed
<1>3. t \in Table /\ IndexExactOf(t)
  BY DEF TableInv
<1>4. \A id \in PendingIds(t) : t.owners[id.slot] \notin out
  <2>1. \A id \in PendingIds(t) : id.slot \in OpSlot /\ t.phase[id.slot] = "Pending"
    BY <1>3, EntryOf, IdsFinite
  <2>2. \A id \in PendingIds(t) : t.owners[id.slot] = t.request[id.slot].owner
    BY <1>3, <2>1 DEF IndexExactOf
  <2> QED BY <1>2, <2>1, <2>2 DEF Served
<1>5. TableInv(table') /\ Leaves(t, table', gone)
  BY <1>4, RetireFacts
<1>6. \A id \in gone : actorState'[table.owners[id.slot]] = "Stopped"
  <2>1. t.owners = table.owners
    BY DEF Decides
  <2> QED BY <2>1
<1>7. \A id \in first : t.phase[id.slot] # "Completed"
  <2>1. \A id \in first : id.slot \in OpSlot /\ id = IdAt(table, id.slot)
    BY <1>0, EntryOf, IdsFinite DEF Decides, TableInv
  <2> QED BY <2>1 DEF Decides, Unanswered
<1>8. Settling
  <2> HIDE DEF gone
  <2> QED BY <1>1, <1>5, <1>6, <1>7 DEF Settling
<1>9. Served(table', actorState')
  <2>1. Served(table', actorState)
    BY <1>2, <1>5, LeavesServed
  <2>2. ASSUME NEW s \in OpSlot, table'.phase[s] = "Pending"
        PROVE  /\ actorState'[table'.request[s].owner] \in {"Active", "Quiescing"}
               /\ actorState'[table'.request[s].target] \in {"Active", "Quiescing"}
    <3>1. table'.request[s] \in Request
      BY <1>5, <2>2 DEF TableInv, IndexExactOf, Table
    <3>2. table'.request[s].owner \in Actor /\ table'.request[s].target \in Actor
      BY <3>1 DEF Request
    <3> QED BY <2>1, <2>2, <3>2 DEF Served
  <2>3. ASSUME NEW s \in OpSlot, table'.owners[s] # NoActor
        PROVE  actorState'[table'.owners[s]] # "Stopped"
    <3>1. IdAt(t, s) \notin gone /\ table'.owners[s] = t.owners[s]
      BY <1>5, <2>3 DEF Leaves
    <3>2. t.owners[s] \in Actor /\ t.phase[s] # "Empty"
      BY <1>3, <2>3, <3>1 DEF Table, IndexExactOf
    <3>3. IdAt(t, s) \in EntryIds(t) /\ IdAt(t, s).slot = s
      BY <1>3, <3>2, EntryOf
    <3>4. t.owners[s] \notin out
      BY <3>1, <3>3
    <3> QED BY <1>2, <2>3, <3>1, <3>2, <3>4 DEF Served
  <2> QED BY <2>2, <2>3 DEF Served
<1>10. /\ actorState' \in [Actor -> States]
       /\ \A a \in Actor : actorState[a] = "Stopped" => actorState'[a] = "Stopped"
  BY <1>0 DEF States
<1> QED BY <1>5, <1>8, <1>9, <1>10 DEF TableStep

\* request_with_port: the operation is issued, or its identity is burnt.
LEMMA RequestStep ==
  ASSUME OpInv, NEW owner \in Actor, NEW target \in Actor, NEW deadline \in Time,
         MakeRequest(owner, target, deadline)
  PROVE  TableStep
<1> DEFINE r == [owner |-> owner, target |-> target, deadline |-> deadline]
<1>1. /\ TableInv(table) /\ Served(table, actorState) /\ actorState \in [Actor -> States]
      /\ actorState' = actorState /\ settled' = settled
      /\ actorState[owner] = "Active" /\ actorState[target] = "Active"
  BY DEF OpInv, VarsType, MakeRequest
<1>2. r \in Request /\ r.owner = owner /\ r.target = target
  BY DEF Request
<1>3. PICK s \in ReservableSlots(table) :
        \/ table' = Reserve(table, s, r) /\ issued' = issued + 1
        \/ /\ table' = ReleaseUnsubmitted(Reserve(table, s, r), ReservedId(table, s))
           /\ issued' = issued
  BY DEF MakeRequest
<1> DEFINE id == ReservedId(table, s)
           u == Reserve(table, s, r)
<1> HIDE DEF r, id, u
<1>4. /\ id \in OpId /\ TableInv(u) /\ Adds(table, u, id, r)
      /\ PendingIds(u) = PendingIds(table) \cup {id}
  BY <1>1, <1>2, ReserveFacts DEF id, u
<1>5. Served(u, actorState)
  <2>1. u.phase \in [OpSlot -> Phases] /\ table.phase \in [OpSlot -> Phases]
        /\ table.request \in [OpSlot -> Request \cup {NoRequest}]
        /\ table.owners \in [OpSlot -> Actor \cup {NoActor}]
    BY <1>1, <1>4 DEF TableInv, Table
  <2> QED BY <1>1, <1>2, <1>4, <2>1 DEF Served, Adds
<1>6. CASE table' = u /\ issued' = issued + 1
  <2>1. Issuing
    BY <1>1, <1>2, <1>4, <1>6 DEF Issuing
  <2> QED BY <1>1, <1>4, <1>5, <1>6, <2>1 DEF TableStep
<1>7. CASE table' = ReleaseUnsubmitted(u, id) /\ issued' = issued
  <2>1. TableInv(table') /\ Withdraws(u, table', id)
    BY <1>4, <1>7, ReleaseFacts
  <2>2. Burning
    BY <1>1, <1>2, <1>4, <1>7, <2>1 DEF Burning
  <2>3. Served(table', actorState)
    BY <1>5, <2>1 DEF Served, Withdraws
  <2> QED BY <1>1, <2>1, <2>2, <2>3 DEF TableStep
<1> QED BY <1>3, <1>6, <1>7 DEF u, id

\* The operations of ids that are due.
DueIn(t, ids, at) == {id \in ids : Due(t, id, at)}

\* What is due is pending, and expire_one decides just that.
LEMMA ExpireOneFacts ==
  ASSUME NEW t, TableInv(t), NEW ids \in SUBSET OpId, NEW at,
         NEW due, due = DueIn(t, ids, at)
  PROVE  /\ due \subseteq PendingIds(t) /\ TableInv(ExpireOne(t, ids, at))
         /\ Decides(t, ExpireOne(t, ids, at), due, {"TimedOut"})
         /\ PendingIds(ExpireOne(t, ids, at)) = PendingIds(t) \ due
<1>1. due \subseteq PendingIds(t)
  BY LocatedIsEntry DEF Due, DueIn, TableInv
<1>2. ExpireOne(t, ids, at) = Complete(t, due, "TimedOut") /\ "TimedOut" \in Outcomes
  BY DEF ExpireOne, DueIn, Outcomes
<1>3. due \in SUBSET PendingIds(t)
  BY <1>1
<1>4. /\ TableInv(Complete(t, due, "TimedOut"))
      /\ Decides(t, Complete(t, due, "TimedOut"), due, {"TimedOut"})
      /\ PendingIds(Complete(t, due, "TimedOut")) = PendingIds(t) \ due
  BY <1>2, <1>3, CompletePending
<1> QED BY <1>1, <1>2, <1>4

\* complete_operation_with: the deadline goes first, so what is due is not
\* completed by the reply.
LEMMA ReplyStep ==
  ASSUME OpInv, NEW id \in OpId, NEW target \in Actor,
         NEW outcome \in {"Completed", "Failed", "TimedOut"},
         CompleteOperation(id, target, outcome)
  PROVE  TableStep
<1> DEFINE t == ExpireOne(table, {id}, now)
           due == DueIn(table, {id}, now)
<1>1. /\ TableInv(table) /\ settled \in Int /\ issued' = issued /\ actorState' = actorState
      /\ IsPending(table, id) /\ {id} \in SUBSET OpId
      /\ outcome \in Outcomes /\ {outcome} \subseteq Outcomes /\ {"TimedOut"} \subseteq Outcomes
      /\ Outcomes \in SUBSET Outcomes
  BY DEF OpInv, VarsType, CompleteOperation, Outcomes
<1>2. \/ /\ IsPending(t, id) /\ table' = Complete(t, {id}, outcome) /\ settled' = settled + 1
      \/ table' = t /\ settled' = settled + (IF Due(table, id, now) THEN 1 ELSE 0)
  BY DEF CompleteOperation, ReplyTable
<1>3. id \in PendingIds(table)
  BY <1>1, LocatedIsEntry DEF TableInv
<1>4. Cardinality({}) = 0 /\ Cardinality({id}) = 1
  BY FS_EmptySet, FS_Singleton
<1>5. due = IF Due(table, id, now) THEN {id} ELSE {}
  BY DEF DueIn
<1> HIDE DEF t, due
<1>6. /\ TableInv(t) /\ Decides(table, t, due, {"TimedOut"}) /\ PendingIds(t) = PendingIds(table) \ due
  <2> DEFINE one == {id}
  <2>1. t = ExpireOne(table, one, now) /\ due = DueIn(table, one, now) /\ one \in SUBSET OpId
    BY DEF t, due
  <2> HIDE DEF one
  <2>2. /\ TableInv(ExpireOne(table, one, now))
        /\ Decides(table, ExpireOne(table, one, now), due, {"TimedOut"})
        /\ PendingIds(ExpireOne(table, one, now)) = PendingIds(table) \ due
    <3>1. TableInv(table)
      BY <1>1
    <3> QED BY <2>1, <3>1, ExpireOneFacts
  <2> QED BY <2>1, <2>2
<1>7. Decides(table, t, due, Outcomes)
  BY <1>1, <1>6, DecidesMore
<1>8. CASE table' = t /\ settled' = settled + (IF Due(table, id, now) THEN 1 ELSE 0)
  <2>1. settled' = settled + Cardinality(due)
    BY <1>4, <1>5, <1>8
  <2>2. ASSUME NEW i \in due
        PROVE  t.phase[i.slot] # "Completed"
    <3>1. i.slot \in OpSlot /\ i = IdAt(table, i.slot)
      BY <1>1, <1>3, <1>5, EntryOf, IdsFinite DEF TableInv
    <3> QED BY <1>6, <3>1 DEF Decides
  <2> QED BY <1>1, <1>6, <1>7, <1>8, <2>1, <2>2, DecideStep
<1>9. CASE IsPending(t, id) /\ table' = Complete(t, {id}, outcome) /\ settled' = settled + 1
  <2>1. id \in PendingIds(t)
    BY <1>6, <1>9, LocatedIsEntry DEF TableInv
  <2>2. due = {} /\ ~Due(table, id, now)
    BY <1>5, <1>6, <2>1
  <2>3. TableInv(table') /\ Decides(t, table', {id}, {outcome})
    BY <1>1, <1>6, <1>9, <2>1, CompletePending
  <2>4. Decides(t, table', {id}, Outcomes)
    BY <1>1, <2>3, DecidesMore
  <2>5. Decides(table, table', due \cup {id}, Outcomes)
    BY <1>1, <1>7, <2>4, DecidesTwice
  <2>6. due \cup {id} = {id}
    BY <2>2
  <2>7. Decides(table, table', {id}, Outcomes)
    BY <2>5, <2>6
  <2>8. settled' = settled + Cardinality({id})
    BY <1>4, <1>9
  <2>9. \A i \in {id} : Due(table, i, now) => table'.phase[i.slot] # "Completed"
    BY <2>2
  <2> QED BY <1>1, <2>3, <2>7, <2>8, <2>9, DecideStep
<1> QED BY <1>2, <1>8, <1>9

\* cancel_operation.
LEMMA CancelStep ==
  ASSUME OpInv, NEW id \in OpId, CancelOperation(id)
  PROVE  TableStep
<1>1. /\ TableInv(table) /\ issued' = issued /\ actorState' = actorState
      /\ IsPending(table, id) /\ "Cancelled" \in Outcomes /\ {"Cancelled"} \subseteq Outcomes
      /\ table' = Complete(table, {id}, "Cancelled") /\ settled' = settled + 1
  BY DEF OpInv, CancelOperation, Outcomes
<1>2. id \in PendingIds(table)
  BY <1>1, LocatedIsEntry DEF TableInv
<1>3. TableInv(table') /\ Decides(table, table', {id}, {"Cancelled"})
  BY <1>1, <1>2, CompletePending
<1>4. Decides(table, table', {id}, Outcomes)
  BY <1>1, <1>3, DecidesMore
<1>5. settled' = settled + Cardinality({id})
  BY <1>1, FS_Singleton
<1>6. \A i \in {id} : Due(table, i, now) => table'.phase[i.slot] # "Completed"
  <2>1. id.slot \in OpSlot /\ id = IdAt(table, id.slot)
    BY <1>1, <1>2, EntryOf, IdsFinite DEF TableInv
  <2> QED BY <1>3, <2>1 DEF Decides
<1> QED BY <1>1, <1>3, <1>4, <1>5, <1>6, DecideStep

\* take_operation: what leaves was decided, so its owner need not be gone.
LEMMA TakeStep ==
  ASSUME OpInv, NEW id \in OpId, TakeOperation(id)
  PROVE  TableStep
<1> DEFINE gone == {id} \cap (EntryIds(table) \ PendingIds(table))
<1>1. /\ TableInv(table) /\ Served(table, actorState) /\ actorState \in [Actor -> States]
      /\ issued' = issued /\ settled' = settled /\ settled \in Int /\ actorState' = actorState
      /\ table' = Take(table, {id}) /\ {id} \in SUBSET OpId
  BY DEF OpInv, VarsType, TakeOperation
<1>2. TableInv(table') /\ Leaves(table, table', gone)
  BY <1>1, TakeFacts
<1>3. Decides(table, table, {}, Outcomes) /\ Cardinality({}) = 0
  BY <1>1, NothingDecided
<1>4. gone \cap PendingIds(table) = {}
  OBVIOUS
<1> HIDE DEF gone
<1>5. Settling
  <2>1. settled' = settled + Cardinality({})
    BY <1>1, <1>3
  <2> QED BY <1>1, <1>2, <1>3, <1>4, <2>1 DEF Settling
<1>6. Served(table', actorState')
  BY <1>1, <1>2, LeavesServed
<1> QED BY <1>1, <1>2, <1>5, <1>6 DEF TableStep

\* A non-empty set of positions has a first one.
LEMMA FirstExists ==
  ASSUME NEW T \in SUBSET Nat, T # {}
  PROVE  \E x \in T : \A y \in T : x <= y
<1> DEFINE R == OpToRel(<, Nat)
<1>1. IsWellFoundedOn(R, Nat)
  BY NatLessThanWellFounded
<1>2. PICK x \in T : \A y \in T : ~(<<y, x>> \in R)
  <2> HIDE DEF R
  <2> QED BY <1>1, WFMin
<1>3. \A y \in T : /\ <<y, x>> \in Nat \X Nat /\ <<y, x>>[1] = y /\ <<y, x>>[2] = x
                  /\ y \in Int /\ x \in Int
  OBVIOUS
<1>4. \A y \in T : y < x => <<y, x>> \in R
  BY <1>3 DEF OpToRel
<1> HIDE DEF R
<1>5. \A y \in T : ~(y < x)
  BY <1>2, <1>4
<1>6. \A y \in T : x <= y
  BY <1>3, <1>5
<1> QED BY <1>6

\* The rest of a mailbox is its deliveries behind a position.
LEMMA RestFacts ==
  ASSUME NEW q \in Seq(Delivery), NEW first \in 1..(Len(q) + 1)
  PROVE  /\ RestAfter(q, first) \in Seq(Delivery)
         /\ Len(RestAfter(q, first)) <= Len(q)
         /\ \A i \in 1..Len(RestAfter(q, first)) :
              first + i \in 1..Len(q) /\ RestAfter(q, first)[i] = q[first + i]
<1>1. RestAfter(q, first) \in Seq(Delivery)
  BY DEF RestAfter
<1>2. Len(RestAfter(q, first)) = IF first + 1 <= Len(q) THEN Len(q) - first ELSE 0
  BY DEF RestAfter
<1>3. \A i \in 1..(Len(q) - first) : RestAfter(q, first)[i] = q[first + i]
  BY DEF RestAfter
<1>4. Len(q) \in Nat
  OBVIOUS
<1>5. \A i \in 1..Len(RestAfter(q, first)) : i \in 1..(Len(q) - first) /\ first + i \in 1..Len(q)
  BY <1>2, <1>4
<1>6. Len(RestAfter(q, first)) <= Len(q)
  BY <1>2, <1>4
<1> QED BY <1>1, <1>3, <1>5, <1>6

\* claim stops at a delivery it may lease, or behind all of them.
LEMMA StopsFacts ==
  ASSUME NEW q \in Seq(Delivery), NEW good \in SUBSET DOMAIN q
  PROVE  /\ StopsAt(q, good) \in 1..(Len(q) + 1)
         /\ good # {} => StopsAt(q, good) \in good /\ StopsAt(q, good) \in 1..Len(q)
<1>1. Len(q) \in Nat /\ DOMAIN q = 1..Len(q)
  OBVIOUS
<1>2. good # {} => StopsAt(q, good) \in good
  <2>1. good \in SUBSET Nat
    BY <1>1
  <2>2. good # {} => \E x \in good : \A y \in good : x <= y
    BY <2>1, FirstExists
  <2> QED BY <2>2 DEF StopsAt
<1>3. good = {} => StopsAt(q, good) = Len(q) + 1
  BY DEF StopsAt
<1> QED BY <1>1, <1>2, <1>3

\* claim expires what it passes.
LEMMA ClaimStep ==
  ASSUME OpInv, NEW a \in Actor, Claim(a)
  PROVE  TableStep
<1> DEFINE q == queue[a]
           good == {i \in DOMAIN q : Deliverable(q[i])}
           first == StopsAt(q, good)
           passed == {q[i].id : i \in 1..(first - 1)}
           due == DueIn(table, passed, now)
<1>1. /\ TableInv(table) /\ issued' = issued /\ actorState' = actorState
      /\ table' = ExpireOne(table, passed, now) /\ settled' = settled + Cardinality(due)
      /\ q \in Seq(Delivery) /\ good \in SUBSET DOMAIN q
  BY DEF OpInv, VarsType, Claim, DueIn
<1>2. {"TimedOut"} \subseteq Outcomes
  BY DEF Outcomes
<1>3. passed \in SUBSET OpId
  <2> HIDE DEF q, good
  <2>1. first \in 1..(Len(q) + 1)
    BY <1>1, StopsFacts
  <2>2. Len(q) \in Nat /\ \A i \in 1..Len(q) : q[i] \in Delivery
    BY <1>1
  <2> HIDE DEF first
  <2>3. \A i \in 1..(first - 1) : i \in 1..Len(q)
    BY <2>1, <2>2
  <2> QED BY <2>2, <2>3 DEF Delivery
<1> HIDE DEF passed, due, q, good, first
<1>5. /\ due \subseteq PendingIds(table) /\ TableInv(table')
      /\ Decides(table, table', due, {"TimedOut"})
  <2>1. /\ due \subseteq PendingIds(table) /\ TableInv(ExpireOne(table, passed, now))
        /\ Decides(table, ExpireOne(table, passed, now), due, {"TimedOut"})
    BY <1>1, <1>3, ExpireOneFacts DEF due
  <2> QED BY <1>1, <2>1
<1>6. Decides(table, table', due, Outcomes)
  BY <1>2, <1>5, DecidesMore
<1>7. \A id \in due : table'.phase[id.slot] # "Completed"
  <2>1. \A id \in due : id.slot \in OpSlot /\ id = IdAt(table, id.slot)
    BY <1>1, <1>5, EntryOf, IdsFinite DEF TableInv
  <2> QED BY <1>5, <2>1 DEF Decides
<1> QED BY <1>1, <1>5, <1>6, <1>7, DecideStep

\* What a call counts is what it decides.
LEMMA CountFacts ==
  ASSUME NEW t, TableInv(t), NEW ids \in SUBSET OpId
  PROVE  Count(t, ids) = Cardinality(ids \cap PendingIds(t))
<1>1. {id \in ids : IsPending(t, id)} = ids \cap PendingIds(t)
  BY LocatedIsEntry DEF TableInv
<1> QED BY <1>1 DEF Count

\* DeliveryLease: finish and Drop.
LEMMA ReleaseStep ==
  ASSUME OpInv, NEW a \in Actor, NEW result \in {"Done", "Failed", "Cancelled"},
         ReleaseDelivery(a, result)
  PROVE  TableStep
<1>1. /\ TableInv(table) /\ settled \in Int /\ issued' = issued /\ running[a] \in OpId
  BY DEF OpInv, VarsType, ReleaseDelivery
<1>2. PICK out \in SUBSET ({a} \cap {b \in Actor : actorState[b] = "Stopping"}) :
        /\ table' = RetireOwner(IF result = "Done" THEN table
                                ELSE Complete(table, {running[a]}, result), out)
        /\ actorState' = [b \in Actor |-> IF b \in out THEN "Stopped" ELSE actorState[b]]
  BY DEF ReleaseDelivery
<1>3. out \in SUBSET Actor /\ \A b \in out : actorState[b] = "Stopping"
  OBVIOUS
<1>4. Unanswered \subseteq Outcomes
  BY DEF Unanswered
<1>5. CASE result = "Done"
  <2>1. Decides(table, table, {}, Outcomes) /\ Cardinality({}) = 0
    BY <1>1, NothingDecided
  <2>2. Decides(table, table, {}, Unanswered)
    BY <2>1 DEF Decides
  <2>3. settled' = settled + Count(table, {})
    BY <1>5 DEF ReleaseDelivery
  <2>4. Count(table, {}) = Cardinality({})
    BY DEF Count
  <2>5. settled' = settled + Cardinality({})
    BY <2>3, <2>4
  <2>6. table' = RetireOwner(table, out)
    BY <1>2, <1>5
  <2> QED BY <1>1, <1>2, <1>3, <2>2, <2>5, <2>6, RetireStep
<1>6. CASE result # "Done"
  <2> DEFINE ids == {running[a]}
             t == Complete(table, ids, result)
             first == ids \cap PendingIds(table)
  <2>1. ids \in SUBSET OpId /\ result \in Outcomes /\ {result} \subseteq Unanswered
    BY <1>1, <1>6 DEF Outcomes, Unanswered
  <2>2. settled' = settled + Count(table, ids) /\ table' = RetireOwner(t, out)
    BY <1>2, <1>6 DEF ReleaseDelivery
  <2> HIDE DEF ids
  <2>3. Count(table, ids) = Cardinality(first)
    BY <1>1, <2>1, CountFacts
  <2>4. TableInv(t) /\ Decides(table, t, first, {result})
    BY <1>1, <2>1, CompleteFacts
  <2> HIDE DEF t, first
  <2>5. Decides(table, t, first, Unanswered)
    BY <2>1, <2>4, DecidesMore
  <2>6. settled' = settled + Cardinality(first)
    BY <2>2, <2>3
  <2> QED BY <1>1, <1>2, <1>3, <2>2, <2>4, <2>5, <2>6, RetireStep
<1> QED BY <1>5, <1>6

\* The last hold on stopping actors goes.
LEMMA RetireOnlyStep ==
  ASSUME OpInv, NEW out \in SUBSET Actor, Retire(out)
  PROVE  TableStep
<1>1. /\ TableInv(table) /\ settled \in Int /\ issued' = issued /\ settled' = settled
      /\ \A a \in out : actorState[a] = "Stopping"
      /\ table' = RetireOwner(table, out)
      /\ actorState' = [a \in Actor |-> IF a \in out THEN "Stopped" ELSE actorState[a]]
  BY DEF OpInv, VarsType, Retire
<1>2. Decides(table, table, {}, Outcomes) /\ Cardinality({}) = 0
  BY <1>1, NothingDecided
<1>3. Decides(table, table, {}, Unanswered)
  BY <1>2 DEF Decides
<1>4. settled' = settled + Cardinality({})
  BY <1>1, <1>2
<1> QED BY <1>1, <1>3, <1>4, RetireStep

\* fence_locked of a scope.
LEMMA FenceStep ==
  ASSUME OpInv, NEW S \in Scopes, Fence(S)
  PROVE  TableStep
<1>1. /\ TableInv(table) /\ settled \in Int /\ issued' = issued /\ S \in SUBSET Actor
      /\ actorState \in [Actor -> States] /\ Served(table, actorState)
  BY DEF OpInv, VarsType, Fence, Scopes
<1>2. NoneStopped(S, actorState)
  BY DEF Scopes, NoneStopped
<1>3. PICK order \in Orders(S), out \in SUBSET S :
        /\ table' = RetireOwner(Fenced(table, S, order), out)
        /\ settled' = settled + 0 + Count(table, FencedIds(table, S, order))
        /\ actorState' = StoppedFrom(actorState, S, out)
  <2>1. PICK order \in Orders(S), out \in SUBSET (S \cap IdleActors) :
          /\ table' = RetireOwner(Fenced(table, S, order), out)
          /\ settled' = settled + 0 + Count(table, FencedIds(table, S, order))
          /\ actorState' = StoppedFrom(actorState, S, out)
    BY DEF Fence, StopAll, FencedIds, StoppedFrom
  <2> QED BY <2>1
<1>4. Decides(table, table, {}, Outcomes) /\ Cardinality({}) = 0
  BY <1>1, NothingDecided
<1>5. Decides(table, table, {}, Unanswered)
  BY <1>4 DEF Decides
<1>6. settled' = settled + Cardinality({}) + Count(table, FencedIds(table, S, order))
  BY <1>3, <1>4
<1> QED BY <1>1, <1>2, <1>3, <1>5, <1>6, StopStep

\* report_failure: the operation times out or fails, then a scope may stop.
LEMMA FailureStep ==
  ASSUME OpInv, NEW id \in OpId, NEW S \in Scopes, ReportFailure(id, S)
  PROVE  TableStep
<1> DEFINE one == {id}
           t == ExpireOne(table, one, now)
           u == Complete(t, one, "Failed")
           due == DueIn(table, one, now)
<1>1. /\ TableInv(table) /\ settled \in Int /\ issued' = issued /\ S \in SUBSET Actor
      /\ actorState \in [Actor -> States] /\ Served(table, actorState) /\ IsPending(table, id)
  BY DEF OpInv, VarsType, ReportFailure, Scopes
<1>2. NoneStopped(S, actorState)
  BY DEF Scopes, NoneStopped
<1>3. PICK order \in Orders(S), out \in SUBSET S :
        /\ table' = RetireOwner(Fenced(u, S, order), out)
        /\ settled' = settled + 1 + Count(u, FencedIds(u, S, order))
        /\ actorState' = StoppedFrom(actorState, S, out)
  <2>1. PICK order \in Orders(S), out \in SUBSET (S \cap IdleActors) :
          /\ table' = RetireOwner(Fenced(u, S, order), out)
          /\ settled' = settled + 1 + Count(u, FencedIds(u, S, order))
          /\ actorState' = StoppedFrom(actorState, S, out)
    BY DEF ReportFailure, StopAll, FencedIds, StoppedFrom
  <2> QED BY <2>1
<1>4. /\ one \in SUBSET OpId /\ Cardinality(one) = 1
      /\ due \subseteq one
  BY FS_Singleton DEF DueIn
<1>5. one \subseteq PendingIds(table)
  BY <1>1, LocatedIsEntry DEF TableInv
<1>6. TableInv(table)
  BY <1>1
<1> HIDE DEF one, due
<1>7. /\ TableInv(t) /\ Decides(table, t, due, {"TimedOut"}) /\ PendingIds(t) = PendingIds(table) \ due
  BY <1>4, <1>6, ExpireOneFacts DEF due
<1> HIDE DEF t
<1>8. /\ "Failed" \in Outcomes /\ {"Failed"} \subseteq Unanswered /\ {"TimedOut"} \subseteq Unanswered
      /\ Unanswered \in SUBSET Outcomes
  BY DEF Outcomes, Unanswered
<1>9. TableInv(u) /\ Decides(t, u, one \cap PendingIds(t), {"Failed"})
  BY <1>4, <1>7, <1>8, CompleteFacts
<1>10. Decides(table, t, due, Unanswered) /\ Decides(t, u, one \cap PendingIds(t), Unanswered)
  BY <1>7, <1>8, <1>9, DecidesMore
<1> HIDE DEF u
<1>11. Decides(table, u, due \cup (one \cap PendingIds(t)), Unanswered)
  BY <1>6, <1>8, <1>10, DecidesTwice
<1>12. due \cup (one \cap PendingIds(t)) = one
  BY <1>4, <1>5, <1>7
<1>13. Decides(table, u, one, Unanswered)
  BY <1>11, <1>12
<1>14. settled' = settled + Cardinality(one) + Count(u, FencedIds(u, S, order))
  BY <1>3, <1>4
<1> QED BY <1>1, <1>2, <1>3, <1>9, <1>13, <1>14, StopStep

\* The two passes of maintain_locked over what is overdue.
LEMMA ExpireTwice ==
  ASSUME NEW s, TableInv(s), NEW at \in Time, NEW overdue \in SUBSET OpId,
         NEW t, t = ExpireOne(s, overdue, at), NEW u, u = ExpireIds(t, at),
         NEW due, due = DueIn(s, overdue, at), NEW late, late = ExpiredIds(t, at)
  PROVE  /\ TableInv(u) /\ Decides(s, u, due \cup late, Unanswered)
         /\ Cardinality(due \cup late) = Cardinality(due) + Cardinality(late)
<1>1. TableInv(t) /\ Decides(s, t, due, {"TimedOut"})
  <2>1. /\ TableInv(ExpireOne(s, overdue, at))
        /\ Decides(s, ExpireOne(s, overdue, at), due, {"TimedOut"})
    BY ExpireOneFacts
  <2> QED BY <2>1
<1>2. TableInv(u) /\ Decides(t, u, late, {"TimedOut"})
  BY <1>1, ExpireFacts
<1>3. {"TimedOut"} \subseteq Unanswered /\ Unanswered \in SUBSET Outcomes
  BY DEF Outcomes, Unanswered
<1>4. Decides(s, t, due, Unanswered) /\ Decides(t, u, late, Unanswered)
  BY <1>1, <1>2, <1>3, DecidesMore
<1>5. /\ Decides(s, u, due \cup late, Unanswered)
      /\ Cardinality(due \cup late) = Cardinality(due) + Cardinality(late)
  BY <1>3, <1>4, DecidesTwice
<1> QED BY <1>2, <1>5

\* maintain_locked, from the states st in which it finds the actors.
LEMMA MaintainStep ==
  ASSUME OpInv, NEW ended \in SUBSET Actor, NEW st \in [Actor -> States], Served(table, st),
         NoneStopped(ended, st),
         \A a \in Actor : actorState[a] = "Stopped" => st[a] = "Stopped",
         NEW overdue \in SUBSET OpId, NEW order, NEW out \in SUBSET ended,
         NEW t, t = ExpireOne(table, overdue, now), NEW u, u = ExpireIds(t, now),
         table' = RetireOwner(Fenced(u, ended, order), out),
         settled' = settled + (Cardinality(DueIn(table, overdue, now)) + Cardinality(ExpiredIds(t, now)))
                      + Count(u, FencedIds(u, ended, order)),
         actorState' = StoppedFrom(st, ended, out), issued' = issued
  PROVE  TableStep
<1> DEFINE due == DueIn(table, overdue, now)
           late == ExpiredIds(t, now)
           first == due \cup late
<1>1. TableInv(table) /\ now \in Time
  BY DEF OpInv, VarsType
<1> HIDE DEF due, late
<1>2. /\ TableInv(u) /\ Decides(table, u, due \cup late, Unanswered)
      /\ Cardinality(due \cup late) = Cardinality(due) + Cardinality(late)
  BY <1>1, ExpireTwice DEF due, late
<1>3. settled' = settled + (Cardinality(due) + Cardinality(late)) + Count(u, FencedIds(u, ended, order))
  BY DEF due, late
<1>4. /\ Decides(table, u, first, Unanswered)
      /\ settled' = settled + Cardinality(first) + Count(u, FencedIds(u, ended, order))
  BY <1>2, <1>3
<1> HIDE DEF first
<1> QED BY <1>2, <1>4, StopStep

\* The overdue deliveries name operations.
LEMMA OverdueOps ==
  ASSUME OpInv
  PROVE  OverdueIds \in SUBSET OpId
<1>1. \A a \in Actor : queue[a] \in Seq(Delivery)
  BY DEF OpInv, VarsType
<1>2. \A a \in Actor : \A i \in DOMAIN queue[a] : queue[a][i] \in Delivery
  BY <1>1
<1> QED BY <1>2 DEF OverdueIds, Delivery

\* maintain.
LEMMA MaintainOnlyStep ==
  ASSUME OpInv, NEW ended \in SUBSET Actor, Maintain(ended)
  PROVE  TableStep
<1> DEFINE overdue == OverdueIds
           t == ExpireOne(table, overdue, now)
           u == ExpireIds(t, now)
<1>1. /\ actorState \in [Actor -> States] /\ Served(table, actorState) /\ issued' = issued
      /\ NoneStopped(ended, actorState)
  BY DEF OpInv, VarsType, Maintain, MaintainLocked, NoneStopped
<1>2. PICK order \in Orders(ended), out \in SUBSET (ended \cap IdleActors) :
        /\ table' = RetireOwner(Fenced(u, ended, order), out)
        /\ settled' = settled + (Cardinality(DueIn(table, overdue, now)) + Cardinality(ExpiredIds(t, now)))
                        + Count(u, FencedIds(u, ended, order))
        /\ actorState' = StoppedFrom(actorState, ended, out)
  <2>1. StopAll(ended, actorState, u, Cardinality({id \in overdue : Due(table, id, now)})
                                  + Cardinality(ExpiredIds(t, now)),
                [a \in Actor |-> InTime(queue[a])])
    BY DEF Maintain, MaintainLocked
  <2> HIDE DEF overdue, t, u
  <2> QED BY <2>1 DEF StopAll, FencedIds, StoppedFrom, DueIn
<1>3. overdue \in SUBSET OpId /\ out \in SUBSET ended
  BY OverdueOps
<1>4. t = ExpireOne(table, overdue, now) /\ u = ExpireIds(t, now)
  OBVIOUS
<1> HIDE DEF overdue, t, u
<1> QED BY <1>1, <1>2, <1>3, <1>4, MaintainStep

\* request_drain and drain_all: what becomes quiescing still serves.
LEMMA DrainStep ==
  ASSUME OpInv, NEW S \in SUBSET Actor, NEW ended \in SUBSET Actor, Drain(S, ended)
  PROVE  TableStep
<1> DEFINE st == [a \in Actor |-> IF a \in S THEN "Quiescing" ELSE actorState[a]]
           overdue == OverdueIds
           t == ExpireOne(table, overdue, now)
           u == ExpireIds(t, now)
<1>1. /\ actorState \in [Actor -> States] /\ Served(table, actorState) /\ issued' = issued
      /\ NoneStopped(ended, st) /\ TableInv(table)
      /\ \A a \in S : actorState[a] = "Active"
  BY DEF OpInv, VarsType, Drain, MaintainLocked, NoneStopped
<1>2. PICK order \in Orders(ended), out \in SUBSET (ended \cap IdleActors) :
        /\ table' = RetireOwner(Fenced(u, ended, order), out)
        /\ settled' = settled + (Cardinality(DueIn(table, overdue, now)) + Cardinality(ExpiredIds(t, now)))
                        + Count(u, FencedIds(u, ended, order))
        /\ actorState' = StoppedFrom(st, ended, out)
  <2>1. StopAll(ended, st, u, Cardinality({id \in overdue : Due(table, id, now)})
                                  + Cardinality(ExpiredIds(t, now)),
                [a \in Actor |-> InTime(queue[a])])
    BY DEF Drain, MaintainLocked
  <2> HIDE DEF st, overdue, t, u
  <2> QED BY <2>1 DEF StopAll, FencedIds, StoppedFrom, DueIn
<1>3. overdue \in SUBSET OpId /\ out \in SUBSET ended
  BY OverdueOps
<1>4. t = ExpireOne(table, overdue, now) /\ u = ExpireIds(t, now)
  OBVIOUS
<1>5. /\ st \in [Actor -> States]
      /\ \A a \in Actor : actorState[a] = "Stopped" => st[a] = "Stopped"
  BY <1>1 DEF States
<1>7. TableInv(table) /\ Served(table, actorState)
  BY <1>1
<1>6. Served(table, st)
  <2>1. ASSUME NEW s \in OpSlot, table.phase[s] = "Pending"
        PROVE  /\ st[table.request[s].owner] \in {"Active", "Quiescing"}
               /\ st[table.request[s].target] \in {"Active", "Quiescing"}
    <3>1. table.request[s] \in Request
      <4> HIDE DEF st
      <4> QED BY <1>7, <2>1 DEF TableInv, IndexExactOf, Table
    <3>2. table.request[s].owner \in Actor /\ table.request[s].target \in Actor
      BY <3>1 DEF Request
    <3> QED BY <1>7, <2>1, <3>2 DEF Served
  <2>2. ASSUME NEW s \in OpSlot, table.owners[s] # NoActor
        PROVE  st[table.owners[s]] # "Stopped"
    <3>1. table.owners[s] \in Actor
      <4> HIDE DEF st
      <4> QED BY <1>7, <2>2 DEF TableInv, Table
    <3> QED BY <1>7, <2>2, <3>1 DEF Served
  <2> QED BY <2>1, <2>2 DEF Served
<1> HIDE DEF st, overdue, t, u
<1> QED BY <1>1, <1>2, <1>3, <1>4, <1>5, <1>6, MaintainStep

\* Every step is a step of the table.
LEMMA EveryTableStep ==
  ASSUME OpInv, [Next]_vars
  PROVE  TableStep
<1>1. ASSUME table' = table, actorState' = actorState, issued' = issued, settled' = settled
      PROVE  TableStep
  <2>1. TableInv(table) /\ settled \in Int
    BY DEF OpInv, VarsType
  <2>2. Decides(table, table, {}, Outcomes) /\ Cardinality({}) = 0
    BY <2>1, NothingDecided
  <2>3. Decides(table, table', {}, Outcomes) /\ TableInv(table') /\ settled' = settled + Cardinality({})
    BY <1>1, <2>1, <2>2
  <2> QED BY <1>1, <2>3, DecideStep
<1>2. CASE Tick
  BY <1>1, <1>2 DEF Tick
<1>3. CASE UNCHANGED vars
  BY <1>1, <1>3 DEF vars
<1>4. ASSUME NEW o \in Actor, NEW g \in Actor, NEW d \in Time, MakeRequest(o, g, d)
      PROVE  TableStep
  BY <1>4, RequestStep
<1>5. ASSUME NEW id \in OpId, NEW a \in Actor, NEW out \in {"Completed", "Failed", "TimedOut"},
             CompleteOperation(id, a, out)
      PROVE  TableStep
  BY <1>5, ReplyStep
<1>6. ASSUME NEW id \in OpId, CancelOperation(id) \/ TakeOperation(id)
      PROVE  TableStep
  BY <1>6, CancelStep, TakeStep
<1>7. ASSUME NEW a \in Actor, Claim(a)
      PROVE  TableStep
  BY <1>7, ClaimStep
<1>8. ASSUME NEW a \in Actor, NEW result \in {"Done", "Failed", "Cancelled"}, ReleaseDelivery(a, result)
      PROVE  TableStep
  BY <1>8, ReleaseStep
<1>9. ASSUME NEW id \in OpId, NEW S \in Scopes, ReportFailure(id, S)
      PROVE  TableStep
  BY <1>9, FailureStep
<1>10. ASSUME NEW S \in Scopes, Fence(S)
       PROVE  TableStep
  BY <1>10, FenceStep
<1>11. ASSUME NEW gone \in SUBSET Actor, Retire(gone)
       PROVE  TableStep
  BY <1>11, RetireOnlyStep
<1>12. ASSUME NEW S \in SUBSET Actor, NEW ended \in SUBSET Actor, Drain(S, ended)
       PROVE  TableStep
  BY <1>12, DrainStep
<1>13. ASSUME NEW ended \in SUBSET Actor, Maintain(ended)
       PROVE  TableStep
  BY <1>13, MaintainOnlyStep
<1> QED
  BY <1>2, <1>3, <1>4, <1>5, <1>6, <1>7, <1>8, <1>9, <1>10, <1>11, <1>12, <1>13 DEF Next

-----------------------------------------------------------------------------
(* Deliveries.                                                             *)

\* Every delivery of p was one of q, and no two of them the same one.
Thins(q, p) ==
  \E f \in [1..Len(p) -> 1..Len(q)] :
    /\ \A i, j \in 1..Len(p) : f[i] = f[j] => i = j
    /\ \A i \in 1..Len(p) : p[i] = q[f[i]]

LEMMA ThinsSame ==
  ASSUME NEW q \in Seq(Delivery)
  PROVE  Thins(q, q) /\ Thins(q, <<>>) /\ <<>> \in Seq(Delivery)
<1>1. Thins(q, q)
  <2> DEFINE f == [i \in 1..Len(q) |-> i]
  <2>1. f \in [1..Len(q) -> 1..Len(q)] /\ \A i \in 1..Len(q) : f[i] = i
    OBVIOUS
  <2> HIDE DEF f
  <2> QED BY <2>1 DEF Thins
<1>2. Thins(q, <<>>)
  <2> DEFINE f == [i \in {} |-> 1]
  <2>1. 1..Len(<<>>) = {}
    OBVIOUS
  <2>2. f \in [1..Len(<<>>) -> 1..Len(q)]
    BY <2>1
  <2> QED BY <2>1, <2>2 DEF Thins
<1> QED BY <1>1, <1>2

LEMMA ThinsRest ==
  ASSUME NEW q \in Seq(Delivery), NEW first \in 1..(Len(q) + 1)
  PROVE  Thins(q, RestAfter(q, first))
<1> DEFINE p == RestAfter(q, first)
           f == [i \in 1..Len(p) |-> first + i]
<1>1. \A i \in 1..Len(p) : first + i \in 1..Len(q) /\ p[i] = q[first + i]
  BY RestFacts
<1>2. Len(p) \in Nat
  BY RestFacts
<1> HIDE DEF p
<1>3. f \in [1..Len(p) -> 1..Len(q)] /\ \A i \in 1..Len(p) : f[i] = first + i
  BY <1>1
<1> HIDE DEF f
<1>4. \A i, j \in 1..Len(p) : f[i] = f[j] => i = j
  BY <1>2, <1>3
<1> QED BY <1>1, <1>3, <1>4 DEF Thins, p

\* The position of rank k exists: ranks are distinct, and there are as many of
\* them as positions.
LEMMA RankFacts ==
  ASSUME NEW keep, IsFiniteSet(keep), keep \in SUBSET Nat
  PROVE  \A k \in 1..Cardinality(keep) : AtRank(keep, k) \in keep /\ Rank(keep, AtRank(keep, k)) = k
<1> DEFINE n == Cardinality(keep)
           upto(i) == {j \in keep : j <= i}
           f == [i \in keep |-> Rank(keep, i)]
<1>1. n \in Nat
  BY FS_CardinalityType
<1>2. \A i \in keep : /\ upto(i) \in SUBSET keep /\ i \in upto(i)
  OBVIOUS
<1>3. ASSUME NEW i \in keep
      PROVE  /\ IsFiniteSet(upto(i)) /\ Cardinality(upto(i)) \in Nat
             /\ Cardinality(upto(i)) <= n /\ Cardinality(upto(i)) # 0
  <2>1. upto(i) \in SUBSET keep /\ upto(i) # {}
    BY <1>2
  <2> HIDE DEF upto
  <2>2. IsFiniteSet(upto(i)) /\ Cardinality(upto(i)) <= n
    BY <2>1, FS_Subset
  <2>3. Cardinality(upto(i)) \in Nat
    BY <2>2, FS_CardinalityType
  <2>4. Cardinality(upto(i)) # 0
    BY <2>1, <2>2, FS_EmptySet
  <2> QED BY <2>2, <2>3, <2>4
<1>4. \A i \in keep : f[i] = Cardinality(upto(i)) /\ f[i] \in 1..n
  BY <1>1, <1>3 DEF Rank
<1>5. ASSUME NEW i \in keep, NEW j \in keep, f[i] = f[j], i < j
      PROVE  FALSE
  <2>1. upto(i) \in SUBSET upto(j) /\ j \notin upto(i) /\ j \in upto(j)
    <3>1. i < j /\ \A k \in keep : k \in Int
      BY <1>5
    <3>2. \A k \in keep : k <= i => k <= j
      BY <3>1
    <3>3. ~(j <= i) /\ j <= j
      BY <3>1
    <3> QED BY <3>2, <3>3
  <2>2. IsFiniteSet(upto(j)) /\ Cardinality(upto(i)) = Cardinality(upto(j))
    BY <1>3, <1>4, <1>5
  <2> HIDE DEF upto
  <2>3. upto(j) = upto(i)
    BY <2>1, <2>2, FS_Subset
  <2> QED BY <2>1, <2>3
<1>6. f \in Injection(keep, 1..n)
  <2>1. \A i, j \in keep : f[i] = f[j] => i = j
    <3>1. \A i, j \in keep : i \in Int /\ j \in Int
      OBVIOUS
    <3>2. \A i, j \in keep : ~(f[i] = f[j] /\ i < j)
      BY <1>5
    <3> HIDE DEF f
    <3> QED BY <3>1, <3>2
  <2>2. f \in [keep -> 1..n]
    BY <1>4
  <2> HIDE DEF f, n
  <2> QED BY <2>1, <2>2 DEF Injection, IsInjective
<1>7. IsFiniteSet(1..n) /\ Cardinality(1..n) = n
  BY <1>1, FS_Interval
<1>8. f \in Surjection(keep, 1..n)
  <2> HIDE DEF f, n
  <2>1. Cardinality(keep) = Cardinality(1..n)
    BY <1>7 DEF n
  <2> QED BY <1>6, <1>7, <2>1, FS_Injection
<1>9. ASSUME NEW k \in 1..n
      PROVE  AtRank(keep, k) \in keep /\ Rank(keep, AtRank(keep, k)) = k
  <2>1. \E i \in keep : f[i] = k
    BY <1>8 DEF Surjection
  <2>2. \E i \in keep : Rank(keep, i) = k
    BY <2>1
  <2> QED BY <2>2 DEF AtRank
<1> QED BY <1>9

\* A mailbox that keeps some positions.
LEMMA RetainFacts ==
  ASSUME NEW q \in Seq(Delivery), NEW keep \in SUBSET DOMAIN q
  PROVE  Retain(q, keep) \in Seq(Delivery) /\ Thins(q, Retain(q, keep))
<1> DEFINE n == Cardinality(keep)
           p == Retain(q, keep)
           f == [k \in 1..n |-> AtRank(keep, k)]
<1>1. Len(q) \in Nat /\ DOMAIN q = 1..Len(q) /\ \A i \in 1..Len(q) : q[i] \in Delivery
  OBVIOUS
<1>2. IsFiniteSet(1..Len(q))
  BY <1>1, FS_Interval
<1>3. IsFiniteSet(keep) /\ keep \in SUBSET (1..Len(q)) /\ keep \in SUBSET Nat
  BY <1>1, <1>2, FS_Subset
<1>4. n \in Nat
  BY <1>3, FS_CardinalityType
<1>5. \A k \in 1..n : AtRank(keep, k) \in keep /\ Rank(keep, AtRank(keep, k)) = k
  BY <1>3, RankFacts
<1> HIDE DEF n
<1>6. p = [k \in 1..n |-> q[AtRank(keep, k)]]
  BY DEF Retain, n
<1>7. \A k \in 1..n : q[AtRank(keep, k)] \in Delivery
  BY <1>1, <1>3, <1>5
<1>8. p \in Seq(Delivery) /\ Len(p) = n /\ \A k \in 1..n : p[k] = q[AtRank(keep, k)]
  BY <1>4, <1>6, <1>7
<1>9. f \in [1..n -> 1..Len(q)] /\ \A k \in 1..n : f[k] = AtRank(keep, k)
  BY <1>3, <1>5
<1> HIDE DEF f, p
<1>10. \A i, j \in 1..n : f[i] = f[j] => i = j
  BY <1>5, <1>9
<1>11. Thins(q, p)
  BY <1>8, <1>9, <1>10 DEF Thins
<1> QED BY <1>8, <1>11 DEF p

Mailboxes == [Actor -> Seq(Delivery)]
Leases == [Actor -> OpId \cup {NoOp}]

\* Deliveries that leave, from mailboxes or leases, disturb no other.
LEMMA ThinDeliveries ==
  ASSUME NEW q \in Mailboxes, NEW p \in Mailboxes, \A a \in Actor : Thins(q[a], p[a]),
         NEW run \in Leases, NEW left \in Leases,
         \A a \in Actor : left[a] = run[a] \/ left[a] = NoOp,
         NEW t, AllKnown(t, q, run), Once(q, run)
  PROVE  AllKnown(t, p, left) /\ Once(p, left)
<1>1. \A a \in Actor : q[a] \in Seq(Delivery) /\ p[a] \in Seq(Delivery)
  BY DEF Mailboxes
<1>2. ASSUME NEW a \in Actor, NEW i \in 1..Len(p[a])
      PROVE  p[a][i].id \in OpId
  <2>1. p[a][i] \in Delivery
    BY <1>1
  <2> QED BY <2>1 DEF Delivery
<1>3. ASSUME NEW a \in Actor, NEW b \in Actor, NEW i \in 1..Len(p[a]), NEW j \in 1..Len(p[b]),
             p[a][i].id = p[b][j].id
      PROVE  a = b /\ i = j
  <2>1. PICK f \in [1..Len(p[a]) -> 1..Len(q[a])] :
          /\ \A k, l \in 1..Len(p[a]) : f[k] = f[l] => k = l
          /\ \A k \in 1..Len(p[a]) : p[a][k] = q[a][f[k]]
    BY DEF Thins
  <2>2. PICK g \in [1..Len(p[b]) -> 1..Len(q[b])] :
          /\ \A k \in 1..Len(p[b]) : p[b][k] = q[b][g[k]]
    BY DEF Thins
  <2>3. f[i] \in 1..Len(q[a]) /\ g[j] \in 1..Len(q[b]) /\ q[a][f[i]].id = q[b][g[j]].id
    BY <1>3, <2>1, <2>2
  <2>4. a = b
    BY <2>3 DEF Once
  <2>5. j \in 1..Len(p[a]) /\ f[j] \in 1..Len(q[a]) /\ q[a][f[i]].id = q[a][f[j]].id
    BY <1>3, <2>1, <2>4
  <2>6. f[i] = f[j]
    BY <2>3, <2>5 DEF Once
  <2> QED BY <2>1, <2>4, <2>5, <2>6
<1>4. ASSUME NEW a \in Actor, NEW i \in 1..Len(p[a])
      PROVE  Known(t, p[a][i].id) /\ \A b \in Actor : p[a][i].id # left[b]
  <2>1. PICK f \in [1..Len(p[a]) -> 1..Len(q[a])] : \A k \in 1..Len(p[a]) : p[a][k] = q[a][f[k]]
    BY DEF Thins
  <2>2. f[i] \in 1..Len(q[a]) /\ p[a][i] = q[a][f[i]]
    BY <2>1
  <2>3. Known(t, p[a][i].id) /\ \A b \in Actor : p[a][i].id # run[b]
    BY <2>2 DEF AllKnown, Once
  <2> QED BY <1>2, <2>3, NoOpAssumption
<1>5. \A a \in Actor : left[a] # NoOp => Known(t, left[a])
  BY DEF AllKnown
<1>6. \A a, b \in Actor : left[a] = left[b] /\ left[a] # NoOp => a = b
  BY DEF Once
<1>7. AllKnown(t, p, left)
  BY <1>4, <1>5 DEF AllKnown
<1>8. Once(p, left)
  BY <1>3, <1>4, <1>6 DEF Once
<1> QED BY <1>7, <1>8

\* An identity that was given stays given, whatever becomes of its slot.
LEMMA KnownStays ==
  ASSUME OpInv, TableStep, NEW id \in OpId, Known(table, id)
  PROVE  Known(table', id)
<1>1. id.slot \in OpSlot /\ id.generation \in 1..LastGen
  BY DEF OpId
<1>2. /\ TableInv(table) /\ table.generation \in [OpSlot -> 0..LastGen]
      /\ TableInv(table') /\ table'.generation \in [OpSlot -> 0..LastGen]
      /\ LastGen \in Nat
  BY LastGenAssumption DEF OpInv, TableStep, TableInv, Table
<1>3. ASSUME NEW new \in OpId, NEW r \in Request, NEW u, Adds(table, u, new, r)
      PROVE  Known(u, id) /\ (new.slot = id.slot => id.generation < u.generation[id.slot])
  <2>1. new.slot \in OpSlot
    BY DEF OpId
  <2>2. CASE new.slot = id.slot
    <3>1. id.generation < table.generation[id.slot]
      BY <1>1, <1>2, <2>2, <1>3 DEF Known, Adds
    <3>2. u.generation[id.slot] = table.generation[id.slot]
      BY <1>1, <1>2, <1>3, <2>2, <3>1 DEF Adds
    <3> QED BY <3>1, <3>2 DEF Known
  <2>3. CASE new.slot # id.slot
    <3>1. u.generation[id.slot] = table.generation[id.slot] /\ (id.slot \in u.free <=> id.slot \in table.free)
      BY <1>1, <1>2, <1>3, <2>3 DEF Adds
    <3> QED BY <2>3, <3>1 DEF Known
  <2> QED BY <2>2, <2>3
<1>4. CASE Issuing
  BY <1>3, <1>4 DEF Issuing
<1>5. CASE Burning
  <2>1. PICK new \in OpId, r \in Request : \E u :
          TableInv(u) /\ Adds(table, u, new, r) /\ Withdraws(u, table', new)
    BY <1>5 DEF Burning
  <2>2. PICK u : TableInv(u) /\ Adds(table, u, new, r) /\ Withdraws(u, table', new)
    BY <2>1
  <2>3. Known(u, id) /\ (new.slot = id.slot => id.generation < u.generation[id.slot])
    BY <1>3, <2>2
  <2>4. u.generation[id.slot] \in Int /\ id.generation \in Int
    BY <1>1, <1>2, <2>2 DEF TableInv, Table
  <2> QED BY <1>1, <2>2, <2>3, <2>4 DEF Withdraws, Known
<1>6. CASE Settling
  <2>1. PICK won, gone, u : Decides(table, u, won, Outcomes) /\ Leaves(u, table', gone)
    BY <1>6 DEF Settling
  <2>2. u.generation = table.generation /\ u.free = table.free
    BY <2>1 DEF Decides
  <2>3. table.generation[id.slot] \in Int /\ id.generation \in Int
    BY <1>1, <1>2
  <2> QED BY <1>1, <2>1, <2>2, <2>3 DEF Leaves, Known
<1> QED BY <1>4, <1>5, <1>6 DEF TableStep

\* The identity of a new operation is new.
LEMMA FreshId ==
  ASSUME NEW t, TableInv(t), NEW u, NEW id \in OpId, NEW r, Adds(t, u, id, r)
  PROVE  ~Known(t, id) /\ Known(u, id)
<1>1. id.slot \in OpSlot /\ t.generation \in [OpSlot -> 0..LastGen]
  BY DEF TableInv, Table, OpId
<1>2. u.generation[id.slot] = id.generation /\ id.slot \notin u.free
  BY <1>1 DEF Adds
<1>3. id.generation \in Int /\ t.generation[id.slot] \in Int
  BY <1>1 DEF OpId
<1> QED BY <1>1, <1>2, <1>3 DEF Adds, Known

\* The part of a step that is about deliveries.
DeliveryStep ==
  /\ queue' \in Mailboxes /\ running' \in Leases /\ now' \in Time
  /\ AllKnown(table', queue', running') /\ Once(queue', running')

\* What a step that only drops deliveries gives.
LEMMA DropStep ==
  ASSUME OpInv, TableStep, queue' \in Mailboxes, running' \in Leases, now' \in Time,
         AllKnown(table, queue', running'), Once(queue', running')
  PROVE  DeliveryStep
<1>1. ASSUME NEW a \in Actor, NEW i \in 1..Len(queue'[a])
      PROVE  Known(table', queue'[a][i].id)
  <2>1. queue'[a][i] \in Delivery
    BY DEF Mailboxes
  <2>2. queue'[a][i].id \in OpId /\ Known(table, queue'[a][i].id)
    BY <2>1 DEF Delivery, AllKnown
  <2> QED BY <2>2, KnownStays
<1>2. ASSUME NEW a \in Actor, running'[a] # NoOp
      PROVE  Known(table', running'[a])
  <2>1. running'[a] \in OpId /\ Known(table, running'[a])
    BY <1>2 DEF Leases, AllKnown
  <2> QED BY <2>1, KnownStays
<1>3. AllKnown(table', queue', running')
  BY <1>1, <1>2 DEF AllKnown
<1> QED BY <1>3 DEF DeliveryStep

\* The mailboxes after a call that stops S: theirs are emptied.
LEMMA StopDeliveries ==
  ASSUME OpInv, TableStep, NEW S, NEW q \in Mailboxes, \A a \in Actor : Thins(queue[a], q[a]),
         queue' = [a \in Actor |-> IF a \in S THEN <<>> ELSE q[a]],
         running' \in Leases, \A a \in Actor : running'[a] = running[a] \/ running'[a] = NoOp,
         now' = now
  PROVE  DeliveryStep
<1>1. /\ queue \in Mailboxes /\ running \in Leases /\ now \in Time
      /\ AllKnown(table, queue, running) /\ Once(queue, running)
  BY DEF OpInv, VarsType, Mailboxes, Leases
<1>2. ASSUME NEW a \in Actor
      PROVE  queue'[a] \in Seq(Delivery) /\ Thins(queue[a], queue'[a])
  <2>1. queue[a] \in Seq(Delivery) /\ q[a] \in Seq(Delivery)
    BY <1>1 DEF Mailboxes
  <2>2. Thins(queue[a], <<>>) /\ <<>> \in Seq(Delivery)
    BY <2>1, ThinsSame
  <2> QED BY <2>1, <2>2
<1>3. queue' \in Mailboxes
  BY <1>2 DEF Mailboxes
<1>4. AllKnown(table, queue', running') /\ Once(queue', running')
  BY <1>1, <1>2, <1>3, ThinDeliveries
<1> QED BY <1>1, <1>3, <1>4, DropStep

\* A call that leaves the mailboxes, and at most ends leases.
LEMMA KeepDeliveries ==
  ASSUME OpInv, TableStep, queue' = queue, running' \in Leases,
         \A a \in Actor : running'[a] = running[a] \/ running'[a] = NoOp, now' \in Time
  PROVE  DeliveryStep
<1>1. /\ queue \in Mailboxes /\ running \in Leases
      /\ AllKnown(table, queue, running) /\ Once(queue, running)
  BY DEF OpInv, VarsType, Mailboxes, Leases
<1>2. \A a \in Actor : Thins(queue[a], queue'[a])
  BY <1>1, ThinsSame DEF Mailboxes
<1>3. queue' \in Mailboxes
  BY <1>1
<1>4. AllKnown(table, queue', running') /\ Once(queue', running')
  BY <1>1, <1>2, <1>3, ThinDeliveries
<1> QED BY <1>3, <1>4, DropStep

\* request_with_port: the one delivery that is added has a new identity.
LEMMA RequestDelivery ==
  ASSUME OpInv, TableStep, NEW owner \in Actor, NEW target \in Actor, NEW deadline \in Time,
         MakeRequest(owner, target, deadline)
  PROVE  DeliveryStep
<1> DEFINE r == [owner |-> owner, target |-> target, deadline |-> deadline]
<1>1. /\ TableInv(table) /\ queue \in Mailboxes /\ running \in Leases /\ now \in Time
      /\ AllKnown(table, queue, running) /\ Once(queue, running)
      /\ running' = running /\ now' = now
  BY DEF OpInv, VarsType, MakeRequest, Mailboxes, Leases
<1>2. PICK s \in ReservableSlots(table) :
        \/ /\ table' = Reserve(table, s, r)
           /\ queue' = [queue EXCEPT ![target] =
                          Append(@, [id |-> ReservedId(table, s), deadline |-> deadline])]
        \/ queue' = queue
  BY DEF MakeRequest
<1>3. CASE queue' = queue
  BY <1>1, <1>3, KeepDeliveries
<1>4. CASE /\ table' = Reserve(table, s, r)
           /\ queue' = [queue EXCEPT ![target] =
                          Append(@, [id |-> ReservedId(table, s), deadline |-> deadline])]
  <2> DEFINE id == ReservedId(table, s)
             d == [id |-> id, deadline |-> deadline]
             n == Len(queue[target])
  <2>1. r \in Request
    BY DEF Request
  <2>2. id \in OpId /\ Adds(table, table', id, r)
    <3> HIDE DEF r
    <3> QED BY <1>1, <1>4, <2>1, ReserveFacts
  <2> HIDE DEF r, id
  <2>3. ~Known(table, id) /\ Known(table', id)
    BY <1>1, <2>2, FreshId
  <2>4. d \in Delivery /\ d.id = id
    BY <2>2 DEF Delivery
  <2>5. queue' = [queue EXCEPT ![target] = Append(queue[target], d)]
    BY <1>4 DEF id
  <2> HIDE DEF d
  <2>6. queue[target] \in Seq(Delivery) /\ n \in Nat
    BY <1>1 DEF Mailboxes
  <2>7. /\ Append(queue[target], d) \in Seq(Delivery)
        /\ Len(Append(queue[target], d)) = n + 1
        /\ \A i \in 1..n : Append(queue[target], d)[i] = queue[target][i]
        /\ Append(queue[target], d)[n + 1] = d
    BY <2>4, <2>6, AppendProperties
  <2>8. /\ queue' \in Mailboxes /\ queue'[target] = Append(queue[target], d)
        /\ \A a \in Actor : a # target => queue'[a] = queue[a]
    BY <1>1, <2>5, <2>7 DEF Mailboxes
  <2>9. ASSUME NEW a \in Actor, NEW i \in 1..Len(queue'[a])
        PROVE  \/ a = target /\ i = n + 1 /\ queue'[a][i].id = id
               \/ i \in 1..Len(queue[a]) /\ queue'[a][i] = queue[a][i]
    <3>1. CASE a # target
      BY <2>8, <3>1
    <3>2. CASE a = target
      <4>1. i \in 1..(n + 1)
        BY <2>7, <2>8, <3>2
      <4>2. CASE i = n + 1
        BY <2>4, <2>7, <2>8, <3>2, <4>2
      <4>3. CASE i # n + 1
        <5>1. i \in 1..n
          BY <2>6, <4>1, <4>3
        <5> QED BY <2>7, <2>8, <3>2, <5>1
      <4> QED BY <4>2, <4>3
    <3> QED BY <3>1, <3>2
  <2>10. ASSUME NEW a \in Actor, NEW i \in 1..Len(queue[a])
         PROVE  /\ queue[a][i].id \in OpId /\ queue[a][i].id # id
                /\ Known(table', queue[a][i].id)
    <3>1. queue[a][i] \in Delivery
      BY <1>1 DEF Mailboxes
    <3>2. queue[a][i].id \in OpId /\ Known(table, queue[a][i].id)
      BY <1>1, <3>1 DEF Delivery, AllKnown
    <3> QED BY <2>3, <3>2, KnownStays
  <2>11. ASSUME NEW a \in Actor, running[a] # NoOp
         PROVE  Known(table', running[a]) /\ running[a] # id
    <3>1. running[a] \in OpId /\ Known(table, running[a])
      BY <1>1, <2>11 DEF Leases, AllKnown
    <3> QED BY <2>3, <3>1, KnownStays
  <2> HIDE DEF n
  <2>12. AllKnown(table', queue', running')
    <3>1. ASSUME NEW a \in Actor, NEW i \in 1..Len(queue'[a])
          PROVE  Known(table', queue'[a][i].id)
      BY <2>3, <2>9, <2>10
    <3> QED BY <1>1, <2>11, <3>1 DEF AllKnown
  <2>13. Once(queue', running')
    <3>1. ASSUME NEW a \in Actor, NEW b \in Actor,
                 NEW i \in 1..Len(queue'[a]), NEW j \in 1..Len(queue'[b]),
                 queue'[a][i].id = queue'[b][j].id
          PROVE  a = b /\ i = j
      <4>1. CASE a = target /\ i = n + 1 /\ queue'[a][i].id = id
        BY <2>9, <2>10, <3>1, <4>1
      <4>2. CASE b = target /\ j = n + 1 /\ queue'[b][j].id = id
        <5>1. CASE i \in 1..Len(queue[a]) /\ queue'[a][i] = queue[a][i]
          <6>1. queue[a][i].id # id
            BY <2>10, <5>1
          <6> QED BY <3>1, <4>2, <5>1, <6>1
        <5>2. CASE a = target /\ i = n + 1 /\ queue'[a][i].id = id
          BY <4>2, <5>2
        <5> QED BY <2>9, <5>1, <5>2
      <4>3. CASE /\ i \in 1..Len(queue[a]) /\ queue'[a][i] = queue[a][i]
                 /\ j \in 1..Len(queue[b]) /\ queue'[b][j] = queue[b][j]
        <5>1. queue[a][i].id = queue[b][j].id
          BY <3>1, <4>3
        <5>2. \A c, e \in Actor : \A k \in 1..Len(queue[c]), l \in 1..Len(queue[e]) :
                queue[c][k].id = queue[e][l].id => c = e /\ k = l
          BY <1>1 DEF Once
        <5> QED BY <4>3, <5>1, <5>2
      <4> QED BY <2>9, <4>1, <4>2, <4>3
    <3>2. ASSUME NEW a \in Actor, NEW b \in Actor, NEW i \in 1..Len(queue'[a])
          PROVE  queue'[a][i].id # running'[b]
      <4>1. CASE queue'[a][i].id = id
        BY <1>1, <2>2, <2>11, <4>1, NoOpAssumption
      <4>2. CASE i \in 1..Len(queue[a]) /\ queue'[a][i] = queue[a][i]
        BY <1>1, <4>2 DEF Once
      <4> QED BY <2>9, <4>1, <4>2
    <3>3. \A a, b \in Actor : running'[a] = running'[b] /\ running'[a] # NoOp => a = b
      BY <1>1 DEF Once
    <3> QED BY <3>1, <3>2, <3>3 DEF Once
  <2> QED BY <1>1, <2>8, <2>12, <2>13 DEF DeliveryStep
<1> QED BY <1>2, <1>3, <1>4

\* claim: the leased delivery leaves its mailbox.
LEMMA ClaimDelivery ==
  ASSUME OpInv, TableStep, NEW a \in Actor, Claim(a)
  PROVE  DeliveryStep
<1> DEFINE q == queue[a]
           good == {i \in DOMAIN q : Deliverable(q[i])}
           first == StopsAt(q, good)
           rest == RestAfter(q, first)
<1>1. /\ queue \in Mailboxes /\ running \in Leases /\ now \in Time
      /\ AllKnown(table, queue, running) /\ Once(queue, running)
      /\ q \in Seq(Delivery) /\ good \in SUBSET DOMAIN q
  BY DEF OpInv, VarsType, Mailboxes, Leases
<1>2. /\ now' = now
      /\ queue' = [queue EXCEPT ![a] = rest]
      /\ running' = [running EXCEPT ![a] = IF good = {} THEN NoOp ELSE q[first].id]
  BY DEF Claim
<1> HIDE DEF q, good
<1>3. first \in 1..(Len(q) + 1) /\ (good # {} => first \in 1..Len(q))
  BY <1>1, StopsFacts
<1> HIDE DEF first
<1>4. /\ rest \in Seq(Delivery) /\ Thins(q, rest)
      /\ \A i \in 1..Len(rest) : first + i \in 1..Len(q) /\ rest[i] = q[first + i]
  BY <1>1, <1>3, RestFacts, ThinsRest
<1> HIDE DEF rest
<1>5. queue' \in Mailboxes /\ queue'[a] = rest /\ \A b \in Actor : b # a => queue'[b] = queue[b]
  BY <1>1, <1>2, <1>4 DEF Mailboxes
<1>6. \A b \in Actor : Thins(queue[b], queue'[b])
  <2>1. \A b \in Actor : queue[b] \in Seq(Delivery)
    BY <1>1 DEF Mailboxes
  <2> QED BY <1>4, <1>5, <2>1, ThinsSame DEF q
<1>7. CASE good = {}
  <2>1. running' \in Leases /\ \A b \in Actor : running'[b] = running[b] \/ running'[b] = NoOp
    BY <1>1, <1>2, <1>7 DEF Leases
  <2>2. AllKnown(table, queue', running') /\ Once(queue', running')
    BY <1>1, <1>5, <1>6, <2>1, ThinDeliveries
  <2> QED BY <1>1, <1>2, <1>5, <2>1, <2>2, DropStep
<1>8. CASE good # {}
  <2> DEFINE id == q[first].id
  <2>1. first \in 1..Len(q) /\ q[first] \in Delivery
    BY <1>1, <1>3, <1>8
  <2>2. id \in OpId /\ id # NoOp
    BY <2>1, NoOpAssumption DEF Delivery
  <2>3. /\ running' \in Leases /\ running'[a] = id
        /\ \A b \in Actor : b # a => running'[b] = running[b]
    BY <1>1, <1>2, <1>8, <2>2 DEF Leases
  <2>4. AllKnown(table, queue', running) /\ Once(queue', running)
    BY <1>1, <1>5, <1>6, ThinDeliveries
  <2>5. Known(table, id) /\ \A b \in Actor : id # running[b]
    BY <1>1, <2>1 DEF AllKnown, Once, q
  <2>6. ASSUME NEW b \in Actor, NEW i \in 1..Len(queue'[b])
        PROVE  queue'[b][i].id # id
    <3>1. CASE b # a
      <4>1. i \in 1..Len(queue[b]) /\ queue'[b][i] = queue[b][i]
        BY <1>5, <3>1
      <4>2. queue[b][i].id = queue[a][first].id => b = a
        BY <1>1, <2>1, <4>1 DEF Once, q
      <4> QED BY <3>1, <4>1, <4>2 DEF q
    <3>2. CASE b = a
      <4>1. first + i \in 1..Len(q) /\ queue'[b][i] = q[first + i]
        <5>1. i \in 1..Len(rest) /\ queue'[b] = rest
          BY <1>5, <3>2
        <5> QED BY <1>4, <5>1
      <4>2. first + i # first
        <5>1. Len(queue'[b]) \in Nat /\ Len(q) \in Nat
          BY <1>1, <1>5 DEF Mailboxes
        <5>2. i \in Nat /\ i # 0 /\ first \in Int
          BY <2>1, <5>1
        <5> QED BY <5>2
      <4>3. queue[a][first + i].id = queue[a][first].id => first + i = first
        BY <1>1, <2>1, <4>1 DEF Once, q
      <4> QED BY <4>1, <4>2, <4>3 DEF q
    <3> QED BY <3>1, <3>2
  <2> HIDE DEF id
  <2>7. AllKnown(table, queue', running')
    BY <2>3, <2>4, <2>5 DEF AllKnown
  <2>8. Once(queue', running')
    <3>1. \A b, c \in Actor : running'[b] = running'[c] /\ running'[b] # NoOp => b = c
      BY <2>3, <2>4, <2>5 DEF Once
    <3>2. \A b, c \in Actor : \A i \in 1..Len(queue'[b]) : queue'[b][i].id # running'[c]
      BY <2>3, <2>4, <2>6 DEF Once
    <3> QED BY <2>4, <3>1, <3>2 DEF Once
  <2> QED BY <1>1, <1>2, <1>5, <2>3, <2>7, <2>8, DropStep
<1> QED BY <1>7, <1>8

\* maintain_locked: each mailbox keeps what is in time.
LEMMA InTimeThins ==
  ASSUME OpInv
  PROVE  /\ [a \in Actor |-> InTime(queue[a])] \in Mailboxes
         /\ \A a \in Actor : Thins(queue[a], InTime(queue[a]))
<1>1. ASSUME NEW a \in Actor
      PROVE  InTime(queue[a]) \in Seq(Delivery) /\ Thins(queue[a], InTime(queue[a]))
  <2> DEFINE q == queue[a]
             keep == {i \in DOMAIN q : q[i].deadline > now}
  <2>1. q \in Seq(Delivery) /\ keep \in SUBSET DOMAIN q /\ InTime(q) = Retain(q, keep)
    BY DEF OpInv, VarsType, InTime
  <2> HIDE DEF q, keep
  <2>2. Retain(q, keep) \in Seq(Delivery) /\ Thins(q, Retain(q, keep))
    BY <2>1, RetainFacts
  <2> QED BY <2>1, <2>2 DEF q
<1> QED BY <1>1 DEF Mailboxes

\* Every step keeps the deliveries in order.
LEMMA EveryDeliveryStep ==
  ASSUME OpInv, TableStep, [Next]_vars
  PROVE  DeliveryStep
<1>1. queue \in Mailboxes /\ running \in Leases /\ now \in Time
  BY DEF OpInv, VarsType, Mailboxes, Leases
<1>2. ASSUME queue' = queue, running' = running, now' \in Time
      PROVE  DeliveryStep
  BY <1>1, <1>2, KeepDeliveries
<1>3. ASSUME running' = running, now' = now, NEW S,
             queue' = [a \in Actor |-> IF a \in S THEN <<>> ELSE queue[a]]
      PROVE  DeliveryStep
  <2>1. \A a \in Actor : Thins(queue[a], queue[a])
    BY <1>1, ThinsSame DEF Mailboxes
  <2>2. running' \in Leases /\ \A a \in Actor : running'[a] = running[a] \/ running'[a] = NoOp
    BY <1>1, <1>3
  <2> QED BY <1>1, <1>3, <2>1, <2>2, StopDeliveries
<1>4. ASSUME running' = running, now' = now, NEW S,
             queue' = [a \in Actor |-> IF a \in S THEN <<>> ELSE InTime(queue[a])]
      PROVE  DeliveryStep
  <2> DEFINE q == [a \in Actor |-> InTime(queue[a])]
  <2>1. q \in Mailboxes /\ (\A a \in Actor : Thins(queue[a], q[a]))
        /\ queue' = [a \in Actor |-> IF a \in S THEN <<>> ELSE q[a]]
    BY <1>4, InTimeThins
  <2> HIDE DEF q
  <2>2. running' \in Leases /\ \A a \in Actor : running'[a] = running[a] \/ running'[a] = NoOp
    BY <1>1, <1>4
  <2> QED BY <1>1, <1>4, <2>1, <2>2, StopDeliveries
<1>5. ASSUME NEW o \in Actor, NEW g \in Actor, NEW d \in Time, MakeRequest(o, g, d)
      PROVE  DeliveryStep
  BY <1>5, RequestDelivery
<1>6. ASSUME NEW id \in OpId, NEW a \in Actor, NEW out, CompleteOperation(id, a, out)
      PROVE  DeliveryStep
  BY <1>1, <1>2, <1>6 DEF CompleteOperation
<1>7. ASSUME NEW id \in OpId, CancelOperation(id) \/ TakeOperation(id)
      PROVE  DeliveryStep
  BY <1>1, <1>2, <1>7 DEF CancelOperation, TakeOperation
<1>8. ASSUME NEW a \in Actor, Claim(a)
      PROVE  DeliveryStep
  BY <1>8, ClaimDelivery
<1>9. ASSUME NEW a \in Actor, NEW result, ReleaseDelivery(a, result)
      PROVE  DeliveryStep
  <2>1. queue' = queue /\ now' = now /\ running' = [running EXCEPT ![a] = NoOp]
    BY <1>9 DEF ReleaseDelivery
  <2>2. running' \in Leases /\ \A b \in Actor : running'[b] = running[b] \/ running'[b] = NoOp
    BY <1>1, <2>1 DEF Leases
  <2> QED BY <1>1, <2>1, <2>2, KeepDeliveries
<1>10. ASSUME NEW id \in OpId, NEW S \in Scopes, ReportFailure(id, S)
       PROVE  DeliveryStep
  BY <1>3, <1>10 DEF ReportFailure, StopAll
<1>11. ASSUME NEW S \in Scopes, Fence(S)
       PROVE  DeliveryStep
  BY <1>3, <1>11 DEF Fence, StopAll
<1>12. ASSUME NEW gone \in SUBSET Actor, Retire(gone)
       PROVE  DeliveryStep
  BY <1>1, <1>2, <1>12 DEF Retire
<1>13. ASSUME NEW S \in SUBSET Actor, NEW ended \in SUBSET Actor, Drain(S, ended)
       PROVE  DeliveryStep
  <2>1. /\ queue' = [a \in Actor |-> IF a \in ended THEN <<>> ELSE InTime(queue[a])]
        /\ running' = running /\ now' = now
    BY <1>13 DEF Drain, MaintainLocked, StopAll
  <2> QED BY <1>4, <2>1
<1>14. ASSUME NEW ended \in SUBSET Actor, Maintain(ended)
       PROVE  DeliveryStep
  <2>1. /\ queue' = [a \in Actor |-> IF a \in ended THEN <<>> ELSE InTime(queue[a])]
        /\ running' = running /\ now' = now
    BY <1>14 DEF Maintain, MaintainLocked, StopAll
  <2> QED BY <1>4, <2>1
<1>15. CASE Tick
  <2>1. now' \in Time
    BY <1>1, <1>15, OpTimeAssumption DEF Tick, Time
  <2> QED BY <1>2, <1>15, <2>1 DEF Tick
<1>16. CASE UNCHANGED vars
  BY <1>1, <1>2, <1>16 DEF vars
<1> QED
  BY <1>5, <1>6, <1>7, <1>8, <1>9, <1>10, <1>11, <1>12, <1>13, <1>14, <1>15, <1>16 DEF Next

-----------------------------------------------------------------------------
(* The theorems.                                                           *)

\* The metrics follow the table.
LEMMA Accounted ==
  ASSUME OpInv, TableStep
  PROVE  issued' \in Int /\ settled' \in Int /\ issued' = table'.pending + settled'
<1>1. /\ TableInv(table) /\ issued \in Int /\ settled \in Int /\ issued = table.pending + settled
      /\ table.pending \in Int
  BY DEF OpInv, VarsType, TableInv, Table
<1>2. CASE Issuing
  <2>1. table'.pending = table.pending + 1 /\ issued' = issued + 1 /\ settled' = settled
    BY <1>2 DEF Issuing, Adds
  <2> QED BY <1>1, <2>1
<1>3. CASE Burning
  <2>1. PICK u : u.pending = table.pending + 1 /\ table'.pending = u.pending - 1
    BY <1>3 DEF Burning, Adds, Withdraws
  <2>2. issued' = issued /\ settled' = settled
    BY <1>3 DEF Burning
  <2> QED BY <1>1, <2>1, <2>2
<1>4. CASE Settling
  <2>1. PICK won, gone, u :
          /\ won \subseteq PendingIds(table) /\ u.pending = table.pending - Cardinality(won)
          /\ table'.pending = u.pending
          /\ issued' = issued /\ settled' = settled + Cardinality(won)
    BY <1>4 DEF Settling, Decides, Leaves
  <2>2. IsFiniteSet(won)
    BY <1>1, <2>1, IdsFinite, FS_Subset DEF TableInv
  <2>3. Cardinality(won) \in Int
    BY <2>2, FS_CardinalityType
  <2> QED BY <1>1, <2>1, <2>3
<1> QED BY <1>2, <1>3, <1>4 DEF TableStep

\* The inductive invariant, for every table size, every set of actors and all
\* bounds.
THEOREM OpInvariant == Spec => []OpInv
<1>1. Init => OpInv
  <2> SUFFICES ASSUME Init PROVE OpInv
    OBVIOUS
  <2>1. VarsType
    <3>1. <<>> \in Seq(Delivery)
      OBVIOUS
    <3> QED BY <3>1, OpTimeAssumption DEF Init, VarsType, States, Time
  <2>2. TableInv(table)
    BY EmptyTableInv DEF Init
  <2>3. issued = table.pending + settled
    BY DEF Init, EmptyTable
  <2>4. Served(table, actorState)
    BY DEF Init, EmptyTable, Served
  <2>5. \A a \in Actor : Len(queue[a]) = 0 /\ running[a] = NoOp
    BY DEF Init
  <2>6. \A a \in Actor : 1..Len(queue[a]) = {}
    BY <2>5
  <2>7. AllKnown(table, queue, running) /\ Once(queue, running)
    BY <2>5, <2>6 DEF AllKnown, Once
  <2> QED BY <2>1, <2>2, <2>3, <2>4, <2>7 DEF OpInv
<1>2. OpInv /\ [Next]_vars => OpInv'
  <2> SUFFICES ASSUME OpInv, [Next]_vars PROVE OpInv'
    OBVIOUS
  <2>1. TableStep
    BY EveryTableStep
  <2>2. DeliveryStep
    BY <2>1, EveryDeliveryStep
  <2>3. issued' \in Int /\ settled' \in Int /\ issued' = table'.pending + settled'
    BY <2>1, Accounted
  <2> QED BY <2>1, <2>2, <2>3 DEF OpInv, VarsType, TableStep, DeliveryStep, Mailboxes, Leases
<1> QED BY <1>1, <1>2, PTL DEF Spec

\* The indexes and counters of the operation table agree with its entries after
\* any sequence of calls, and issued operations are pending or settled, once.
THEOREM IndexesExact == Spec => []IndexExact
<1>1. OpInv => IndexExact
  BY DEF OpInv, TableInv, IndexExact
<1> QED BY <1>1, OpInvariant, PTL

\* Nothing is pending behind a stop fence, and a retired actor owns no slot.
THEOREM NothingPendingBehindFence == Spec => []PendingIsServed
<1>1. OpInv => PendingIsServed
  BY DEF OpInv, Served, PendingIsServed, Serving
<1> QED BY <1>1, OpInvariant, PTL

\* A set without two different elements has at most one.
LEMMA AtMostOne ==
  ASSUME NEW S, \A x, y \in S : x = y
  PROVE  Cardinality(S) = IF S = {} THEN 0 ELSE 1
<1>1. CASE S = {}
  BY <1>1, FS_EmptySet
<1>2. CASE S # {}
  <2>1. PICK x : x \in S
    BY <1>2
  <2>2. S = {x}
    BY <2>1
  <2>3. Cardinality({x}) = 1
    BY FS_Singleton
  <2> QED BY <1>2, <2>2, <2>3
<1> QED BY <1>1, <1>2

\* A request has at most one delivery, queued or leased, under its identity.
THEOREM DeliveredAtMostOnce == Spec => []DeliveredOnce
<1>1. ASSUME OpInv, NEW id \in OpId
      PROVE  Cardinality(QueuedAt(id)) + Cardinality({a \in Actor : running[a] = id}) <= 1
  <2> DEFINE held == {a \in Actor : running[a] = id}
  <2>1. Once(queue, running) /\ id # NoOp /\ \A a \in Actor : Len(queue[a]) \in Nat
    BY <1>1, NoOpAssumption DEF OpInv, VarsType
  <2>2. ASSUME NEW x \in QueuedAt(id)
        PROVE  /\ x[1] \in Actor /\ x[2] \in 1..Len(queue[x[1]])
               /\ queue[x[1]][x[2]].id = id /\ x = <<x[1], x[2]>>
    <3>1. /\ x \in Actor \X (1..MailboxCapacity) /\ x[2] <= Len(queue[x[1]])
          /\ queue[x[1]][x[2]].id = id
      BY DEF QueuedAt
    <3>2. x[1] \in Actor /\ x[2] \in 1..MailboxCapacity /\ x = <<x[1], x[2]>>
      BY <3>1
    <3> QED BY <2>1, <3>1, <3>2, MailboxAssumption
  <2>3. ASSUME NEW x \in QueuedAt(id), NEW y \in QueuedAt(id)
        PROVE  x = y
    <3>1. /\ x[1] \in Actor /\ x[2] \in 1..Len(queue[x[1]]) /\ queue[x[1]][x[2]].id = id
          /\ y[1] \in Actor /\ y[2] \in 1..Len(queue[y[1]]) /\ queue[y[1]][y[2]].id = id
          /\ x = <<x[1], x[2]>> /\ y = <<y[1], y[2]>>
      BY <2>2
    <3>2. x[1] = y[1] /\ x[2] = y[2]
      BY <2>1, <3>1 DEF Once
    <3> QED BY <3>1, <3>2
  <2>4. \A a, b \in held : a = b
    BY <2>1 DEF Once
  <2>5. ASSUME NEW x \in QueuedAt(id), NEW a \in held
        PROVE  FALSE
    <3>1. x[1] \in Actor /\ x[2] \in 1..Len(queue[x[1]]) /\ queue[x[1]][x[2]].id = running[a]
      BY <2>2
    <3> QED BY <2>1, <3>1 DEF Once
  <2> HIDE DEF held
  <2>6. Cardinality(QueuedAt(id)) = IF QueuedAt(id) = {} THEN 0 ELSE 1
    BY <2>3, AtMostOne
  <2>7. Cardinality(held) = IF held = {} THEN 0 ELSE 1
    BY <2>4, AtMostOne
  <2>8. QueuedAt(id) = {} \/ held = {}
    BY <2>5
  <2>9. Cardinality(QueuedAt(id)) + Cardinality(held) <= 1
    BY <2>6, <2>7, <2>8
  <2> QED BY <2>9 DEF held
<1>2. OpInv => DeliveredOnce
  BY <1>1 DEF DeliveredOnce
<1> QED BY <1>2, OpInvariant, PTL

\* After its deadline an operation is not completed by a reply, also when the
\* reply comes before the maintenance pass that would have expired it.
THEOREM LateReplyRefused == Spec => LateReplyLoses
<1>1. ASSUME OpInv, TableStep, NEW id \in OpId, Due(table, id, now), Located(table', id)
      PROVE  table'.phase[id.slot] # "Completed"
  <2>1. TableInv(table) /\ id.slot \in OpSlot /\ IsPending(table, id)
    BY <1>1 DEF OpInv, OpId, Due
  <2>2. id \in PendingIds(table) /\ id = IdAt(table, id.slot) /\ table.phase[id.slot] = "Pending"
    BY <2>1, LocatedIsEntry, EntryOf, IdsFinite DEF TableInv
  <2>3. table'.phase[id.slot] # "Empty"
    BY <1>1 DEF Located
  <2>4. ASSUME NEW new \in OpId, NEW r \in Request, NEW u, Adds(table, u, new, r)
        PROVE  u.phase[id.slot] = "Pending" /\ new.slot # id.slot
    <3>1. table.phase \in [OpSlot -> Phases]
      BY <2>1 DEF TableInv, Table
    <3>2. new.slot # id.slot
      BY <2>2, <2>4 DEF Adds
    <3> QED BY <2>1, <2>2, <2>4, <3>1, <3>2 DEF Adds
  <2>5. CASE Issuing
    BY <2>4, <2>5 DEF Issuing
  <2>6. CASE Burning
    <3>1. PICK new \in OpId, r \in Request : \E u :
            Adds(table, u, new, r) /\ Withdraws(u, table', new)
      BY <2>6 DEF Burning
    <3>2. PICK u : Adds(table, u, new, r) /\ Withdraws(u, table', new)
      BY <3>1
    <3> QED BY <2>1, <2>4, <3>2 DEF Withdraws
  <2>7. CASE Settling
    <3>1. PICK won, gone, u :
            /\ Decides(table, u, won, Outcomes) /\ Leaves(u, table', gone)
            /\ \A i \in won : Due(table, i, now) => u.phase[i.slot] # "Completed"
      BY <2>7 DEF Settling
    <3>2. table'.phase[id.slot] = u.phase[id.slot]
      BY <2>1, <2>3, <3>1 DEF Leaves
    <3>3. CASE id \in won
      BY <1>1, <3>1, <3>2, <3>3
    <3>4. CASE id \notin won
      <4>1. u.phase[id.slot] = table.phase[id.slot]
        BY <2>1, <2>2, <3>1, <3>4 DEF Decides
      <4> QED BY <2>2, <3>2, <4>1
    <3> QED BY <3>3, <3>4
  <2> QED BY <1>1, <2>5, <2>6, <2>7 DEF TableStep
<1>2. OpInv /\ [Next]_vars =>
        [\A id \in OpId : Due(table, id, now) /\ Located(table', id) =>
            table'.phase[id.slot] # "Completed"]_vars
  BY <1>1, EveryTableStep
<1> QED BY <1>2, OpInvariant, PTL DEF Spec, LateReplyLoses

-----------------------------------------------------------------------------
(* The refinement.                                                         *)

\* What the holder of an identity sees: nothing yet, its entry, or that it is
\* gone.
LEMMA StatusFacts ==
  ASSUME NEW t, TableInv(t), NEW id \in OpId
  PROVE  /\ Located(t, id) => /\ Known(t, id) /\ StatusOf(t, id) = t.phase[id.slot]
                              /\ HolderOf(t, id) = t.owners[id.slot]
                              /\ t.owners[id.slot] \in Actor
                              /\ t.phase[id.slot] \in {"Pending"} \cup Outcomes
                              /\ id = IdAt(t, id.slot)
         /\ ~Located(t, id) => /\ StatusOf(t, id) = IF Known(t, id) THEN "Gone" ELSE "Unissued"
                               /\ HolderOf(t, id) = NoActor
<1>1. /\ id.slot \in OpSlot /\ id.generation \in Int
      /\ id = [slot |-> id.slot, generation |-> id.generation]
  BY DEF OpId
<1>2. t.generation[id.slot] \in Int /\ t.phase[id.slot] \in Phases
      /\ t.owners[id.slot] \in Actor \cup {NoActor}
  BY <1>1 DEF TableInv, Table
<1>3. t.phase[id.slot] # "Empty" => t.owners[id.slot] # NoActor /\ id.slot \notin t.free
  BY <1>1 DEF TableInv, IndexExactOf
<1>4. ASSUME Located(t, id)
      PROVE  /\ Known(t, id) /\ StatusOf(t, id) = t.phase[id.slot]
             /\ HolderOf(t, id) = t.owners[id.slot]
             /\ t.owners[id.slot] \in Actor
             /\ t.phase[id.slot] \in {"Pending"} \cup Outcomes
             /\ id = IdAt(t, id.slot)
  <2>1. t.generation[id.slot] = id.generation /\ t.phase[id.slot] # "Empty"
    BY <1>4 DEF Located
  <2>2. t.phase[id.slot] \in {"Pending"} \cup Outcomes
    BY <1>2, <2>1 DEF Phases
  <2>3. StatusOf(t, id) = t.phase[id.slot]
    BY <1>1, <1>2, <2>1 DEF StatusOf
  <2>4. id = IdAt(t, id.slot)
    BY <1>1, <2>1 DEF IdAt
  <2> QED BY <1>2, <1>3, <1>4, <2>1, <2>2, <2>3, <2>4 DEF Known, HolderOf
<1>5. ASSUME ~Located(t, id)
      PROVE  /\ StatusOf(t, id) = IF Known(t, id) THEN "Gone" ELSE "Unissued"
             /\ HolderOf(t, id) = NoActor
  <2>1. t.generation[id.slot] = id.generation => t.phase[id.slot] = "Empty"
    BY <1>5 DEF Located
  <2>2. StatusOf(t, id) = IF Known(t, id) THEN "Gone" ELSE "Unissued"
    BY <1>1, <1>2, <2>1 DEF StatusOf, Known
  <2> QED BY <1>5, <2>2 DEF HolderOf
<1> QED BY <1>4, <1>5

\* What a step may do to the status s and the holder h of an identity, when it
\* leaves the actors in the states st.
Moved(s, h, s2, h2, st) ==
  \/ s2 = s /\ h2 = h
  \/ s = "Unissued" /\ s2 = "Pending" /\ h2 \in Actor
  \/ s = "Unissued" /\ s2 = "Gone" /\ h2 = NoActor
  \/ s = "Pending" /\ s2 \in Outcomes /\ h2 = h
  \/ s \in Outcomes /\ s2 = "Gone" /\ h2 = NoActor
  \/ s = "Pending" /\ h \in Actor /\ st[h] = "Stopped" /\ s2 = "Gone" /\ h2 = NoActor

MovedId(id) == Moved(StatusOf(table, id), HolderOf(table, id),
                     StatusOf(table', id), HolderOf(table', id), actorState')

\* An identity whose slot the step leaves alone, or that has no entry before and
\* after it and is not given by it, keeps its status.
LEMMA SameMove ==
  ASSUME TableInv(table), TableInv(table'), NEW id \in OpId,
         Known(table', id) <=> Known(table, id),
         \/ /\ Located(table, id) /\ Located(table', id)
            /\ table'.phase[id.slot] = table.phase[id.slot]
            /\ table'.owners[id.slot] = table.owners[id.slot]
         \/ ~Located(table, id) /\ ~Located(table', id)
  PROVE  MovedId(id)
<1>1. StatusOf(table', id) = StatusOf(table, id) /\ HolderOf(table', id) = HolderOf(table, id)
  BY StatusFacts
<1> QED BY <1>1 DEF MovedId, Moved

\* A new operation.
LEMMA IssueMove ==
  ASSUME OpInv, TableStep, Issuing, NEW id \in OpId
  PROVE  MovedId(id)
<1>1. PICK new \in OpId, r \in Request : Adds(table, table', new, r)
  BY DEF Issuing
<1>2. TableInv(table) /\ TableInv(table')
  BY DEF OpInv, TableStep
<1>3. /\ id.slot \in OpSlot /\ new.slot \in OpSlot
      /\ id.generation \in 1..LastGen /\ new.generation \in 1..LastGen
      /\ id.slot = new.slot /\ id.generation = new.generation => id = new
  BY DEF OpId
<1>4. /\ table.phase \in [OpSlot -> Phases] /\ table.owners \in [OpSlot -> Actor \cup {NoActor}]
      /\ table.generation \in [OpSlot -> 0..LastGen] /\ LastGen \in Nat
  BY <1>2, LastGenAssumption DEF TableInv, Table
<1>5. ~Known(table, new) /\ Known(table', new)
  BY <1>1, <1>2, FreshId
<1>6. CASE id = new
  <2>1. ~Located(table, id)
    BY <1>1, <1>6 DEF Adds, Located
  <2>2. Located(table', id) /\ table'.phase[id.slot] = "Pending"
    BY <1>1, <1>3, <1>4, <1>6 DEF Adds, Located
  <2>3. StatusOf(table, id) = "Unissued" /\ StatusOf(table', id) = "Pending" /\ HolderOf(table', id) \in Actor
    BY <1>2, <1>5, <1>6, <2>1, <2>2, StatusFacts
  <2> QED BY <2>3 DEF MovedId, Moved
<1>7. CASE id.slot # new.slot
  <2>1. /\ table'.phase[id.slot] = table.phase[id.slot] /\ table'.owners[id.slot] = table.owners[id.slot]
        /\ table'.generation[id.slot] = table.generation[id.slot]
        /\ id.slot \in table'.free <=> id.slot \in table.free
    BY <1>1, <1>3, <1>4, <1>7 DEF Adds
  <2>2. (Located(table', id) <=> Located(table, id)) /\ (Known(table', id) <=> Known(table, id))
    BY <2>1 DEF Located, Known
  <2> QED BY <1>2, <2>1, <2>2, SameMove
<1>8. CASE id # new /\ id.slot = new.slot
  <2>1. id.generation # new.generation /\ table'.generation[id.slot] = new.generation
    BY <1>1, <1>3, <1>4, <1>8 DEF Adds
  <2>2. ~Located(table, id) /\ ~Located(table', id)
    BY <1>1, <1>8, <2>1 DEF Adds, Located
  <2>3. Known(table, id) => Known(table', id)
    BY KnownStays
  <2>4. Known(table', id) => id.generation < new.generation
    BY <2>1 DEF Known
  <2>5. id.generation < new.generation => Known(table, id)
    BY <1>1, <1>3, <1>8 DEF Adds, Known
  <2> QED BY <1>2, <2>2, <2>3, <2>4, <2>5, SameMove
<1> QED BY <1>6, <1>7, <1>8

\* A refused request.
LEMMA BurnMove ==
  ASSUME OpInv, TableStep, Burning, NEW id \in OpId
  PROVE  MovedId(id)
<1>1. PICK new \in OpId, r \in Request : \E u :
        TableInv(u) /\ Adds(table, u, new, r) /\ Withdraws(u, table', new)
  BY DEF Burning
<1>2. PICK u : TableInv(u) /\ Adds(table, u, new, r) /\ Withdraws(u, table', new)
  BY <1>1
<1>3. TableInv(table) /\ TableInv(table')
  BY DEF OpInv, TableStep
<1>4. /\ id.slot \in OpSlot /\ new.slot \in OpSlot
      /\ id.generation \in 1..LastGen /\ new.generation \in 1..LastGen
      /\ id.slot = new.slot /\ id.generation = new.generation => id = new
  BY DEF OpId
<1>5. /\ table.phase \in [OpSlot -> Phases] /\ table.owners \in [OpSlot -> Actor \cup {NoActor}]
      /\ table.generation \in [OpSlot -> 0..LastGen] /\ LastGen \in Nat
  BY <1>3, LastGenAssumption DEF TableInv, Table
<1>6. ~Known(table, new)
  BY <1>2, <1>3, FreshId
<1>7. u.generation[new.slot] = new.generation /\ table.phase[new.slot] = "Empty"
      /\ table'.phase[new.slot] = "Empty"
  BY <1>2, <1>4, <1>5 DEF Adds, Withdraws
<1>8. IF new.generation < LastGen
      THEN table'.generation[new.slot] = new.generation + 1 /\ new.slot \in table'.free
      ELSE table'.generation[new.slot] = new.generation /\ new.slot \notin table'.free
  BY <1>2, <1>4, <1>7 DEF Withdraws
<1>9. CASE id = new
  <2>1. ~Located(table, id) /\ ~Located(table', id)
    BY <1>7, <1>9 DEF Located
  <2>2. Known(table', id)
    BY <1>4, <1>8, <1>9 DEF Known
  <2>3. /\ StatusOf(table, id) = "Unissued" /\ StatusOf(table', id) = "Gone"
        /\ HolderOf(table', id) = NoActor
    BY <1>3, <1>6, <1>9, <2>1, <2>2, StatusFacts
  <2> QED BY <2>3 DEF MovedId, Moved
<1>10. CASE id.slot # new.slot
  <2>1. /\ u.phase[id.slot] = table.phase[id.slot] /\ u.owners[id.slot] = table.owners[id.slot]
        /\ u.generation[id.slot] = table.generation[id.slot]
        /\ id.slot \in u.free <=> id.slot \in table.free
    BY <1>2, <1>4, <1>5, <1>10 DEF Adds
  <2>2. /\ table'.phase[id.slot] = table.phase[id.slot] /\ table'.owners[id.slot] = table.owners[id.slot]
        /\ table'.generation[id.slot] = table.generation[id.slot]
        /\ id.slot \in table'.free <=> id.slot \in table.free
    BY <1>2, <1>4, <1>10, <2>1 DEF Withdraws
  <2>3. (Located(table', id) <=> Located(table, id)) /\ (Known(table', id) <=> Known(table, id))
    BY <2>2 DEF Located, Known
  <2> QED BY <1>3, <2>2, <2>3, SameMove
<1>11. CASE id # new /\ id.slot = new.slot
  <2>1. ~Located(table, id) /\ ~Located(table', id) /\ id.generation # new.generation
    BY <1>4, <1>7, <1>11 DEF Located
  <2>2. Known(table, id) => Known(table', id)
    BY KnownStays
  <2>3. Known(table', id) => id.generation < new.generation
    BY <1>4, <1>8, <1>11, <2>1 DEF Known
  <2>4. id.generation < new.generation => Known(table, id)
    BY <1>2, <1>4, <1>11 DEF Adds, Known
  <2> QED BY <1>3, <2>1, <2>2, <2>3, <2>4, SameMove
<1> QED BY <1>9, <1>10, <1>11

\* Decisions and departures.
LEMMA SettleMove ==
  ASSUME OpInv, TableStep, Settling, NEW id \in OpId
  PROVE  MovedId(id)
<1>1. PICK won, gone, u :
        /\ TableInv(u) /\ Decides(table, u, won, Outcomes) /\ Leaves(u, table', gone)
        /\ \A i \in gone : i \in PendingIds(table) => actorState'[table.owners[i.slot]] = "Stopped"
  BY DEF Settling
<1>2. TableInv(table) /\ TableInv(table')
  BY DEF OpInv, TableStep
<1>3. id.slot \in OpSlot /\ id.generation \in 1..LastGen /\ LastGen \in Nat
  BY LastGenAssumption DEF OpId
<1> DEFINE s == id.slot
<1>4. /\ u.generation = table.generation /\ u.owners = table.owners /\ u.free = table.free
      /\ IdAt(u, s) = IdAt(table, s)
  BY <1>1 DEF Decides, IdAt
<1>5. table.generation[s] \in 0..LastGen
  BY <1>2, <1>3 DEF TableInv, Table
<1>6. Outcomes \in SUBSET Outcomes /\ "Empty" \notin Outcomes /\ "Pending" \notin Outcomes
  BY DEF Outcomes
<1>7. u.phase[s] # "Empty" <=> table.phase[s] # "Empty"
  <2>1. IdAt(table, s) \in won => table.phase[s] = "Pending"
    BY <1>1, <1>2, <1>3, EntryOf DEF Decides, TableInv
  <2> QED BY <1>1, <1>3, <1>6, <2>1 DEF Decides
<1>8. IdAt(u, s) \in gone => /\ table'.phase[s] = "Empty" /\ u.phase[s] # "Empty"
                              /\ u.phase[s] # "Pending" /\ ~Located(table', id)
  <2>1. ASSUME IdAt(u, s) \in gone
        PROVE  table'.phase[s] = "Empty" /\ u.phase[s] # "Empty" /\ u.phase[s] # "Pending"
    <3>1. IdAt(u, s) \in EntryIds(u) /\ IdAt(u, s) \notin PendingIds(u) /\ table'.phase[s] = "Empty"
      BY <1>1, <1>3, <2>1 DEF Leaves
    <3> QED BY <1>1, <1>3, <3>1, EntryOf DEF TableInv
  <2> QED BY <2>1 DEF Located
<1>9. IdAt(u, s) \notin gone =>
        /\ table'.phase[s] = u.phase[s] /\ table'.owners[s] = table.owners[s]
        /\ table'.generation[s] = table.generation[s] /\ (s \in table'.free <=> s \in table.free)
  BY <1>1, <1>3, <1>4 DEF Leaves
<1>10. Known(table', id) <=> Known(table, id)
  <2>1. Known(table, id) => Known(table', id)
    BY KnownStays
  <2>2. CASE IdAt(u, s) \notin gone
    BY <1>9, <2>2 DEF Known
  <2>3. CASE IdAt(u, s) \in gone
    <3>1. s \notin table.free
      BY <1>2, <1>3, <1>7, <1>8, <2>3 DEF TableInv, IndexExactOf
    <3>2. IF table.generation[s] < LastGen
          THEN table'.generation[s] = table.generation[s] + 1 /\ s \in table'.free
          ELSE table'.generation[s] = table.generation[s] /\ s \notin table'.free
      BY <1>1, <1>3, <1>4, <2>3 DEF Leaves
    <3>3. Known(table', id) => id.generation <= table.generation[s]
      BY <1>3, <1>5, <3>2 DEF Known
    <3>4. id.generation <= table.generation[s] => Known(table, id)
      BY <1>3, <1>5, <3>1 DEF Known
    <3> QED BY <2>1, <3>3, <3>4
  <2> QED BY <2>2, <2>3
<1>11. CASE ~Located(table, id)
  <2>1. ~Located(table', id)
    BY <1>7, <1>8, <1>9, <1>11 DEF Located
  <2> QED BY <1>2, <1>10, <1>11, <2>1, SameMove
<1>12. CASE Located(table, id)
  <2>1. /\ Known(table, id) /\ id = IdAt(table, s)
        /\ StatusOf(table, id) = table.phase[s] /\ table.phase[s] \in {"Pending"} \cup Outcomes
        /\ HolderOf(table, id) = table.owners[s] /\ table.owners[s] \in Actor
    BY <1>2, <1>12, StatusFacts
  <2>2. CASE id \in gone
    <3>1. ~Located(table', id)
      BY <1>4, <1>8, <2>1, <2>2
    <3>2. StatusOf(table', id) = "Gone" /\ HolderOf(table', id) = NoActor
      BY <1>2, <1>10, <2>1, <3>1, StatusFacts
    <3>3. CASE table.phase[s] = "Pending"
      <4>1. id \in PendingIds(table)
        BY <1>2, <1>3, <2>1, <3>3, EntryOf DEF TableInv
      <4>2. actorState'[table.owners[s]] = "Stopped"
        BY <1>1, <2>2, <4>1
      <4> QED BY <2>1, <3>2, <3>3, <4>2 DEF MovedId, Moved
    <3>4. CASE table.phase[s] \in Outcomes
      BY <2>1, <3>2, <3>4 DEF MovedId, Moved
    <3> QED BY <2>1, <3>3, <3>4
  <2>3. CASE id \notin gone
    <3>1. /\ table'.phase[s] = u.phase[s] /\ table'.owners[s] = table.owners[s]
          /\ table'.generation[s] = table.generation[s]
      BY <1>4, <1>9, <2>1, <2>3
    <3>2. Located(table', id)
      BY <1>7, <1>12, <3>1 DEF Located
    <3>3. CASE id \in won
      <4>1. u.phase[s] \in Outcomes /\ table.phase[s] = "Pending"
        BY <1>1, <1>2, <1>3, <2>1, <3>3, EntryOf DEF Decides, TableInv
      <4>2. StatusOf(table', id) \in Outcomes /\ HolderOf(table', id) = HolderOf(table, id)
        BY <1>2, <2>1, <3>1, <3>2, <4>1, StatusFacts
      <4> QED BY <2>1, <4>1, <4>2 DEF MovedId, Moved
    <3>4. CASE id \notin won
      <4>1. u.phase[s] = table.phase[s]
        BY <1>1, <1>3, <2>1, <3>4 DEF Decides
      <4> QED BY <1>2, <1>10, <1>12, <3>1, <3>2, <4>1, SameMove
    <3> QED BY <3>3, <3>4
  <2> QED BY <2>2, <2>3
<1> QED BY <1>11, <1>12

\* The operation table of a World implements the one-shot promise: whatever mix
\* of requests, replies, cancellations, claims, stops, drains and expiries
\* happens, an identity is issued once, gets one outcome, keeps it until it is
\* consumed or its owner retires, and never comes back.
THEOREM TableKeepsPromise == Spec => KeepsPromise
<1>1. Init => Promise!Init
  <2> SUFFICES ASSUME Init PROVE Promise!Init
    OBVIOUS
  <2>1. ASSUME NEW id \in OpId
        PROVE  StatusOf(table, id) = "Unissued" /\ HolderOf(table, id) = NoActor
    <3>1. id.slot \in OpSlot /\ id.generation \in 1..LastGen /\ LastGen \in Nat
      BY LastGenAssumption DEF OpId
    <3>2. table.generation[id.slot] = 0 /\ table.phase[id.slot] = "Empty"
      BY <3>1 DEF Init, EmptyTable
    <3> QED BY <3>1, <3>2 DEF StatusOf, HolderOf, Located
  <2>2. {a \in Actor : actorState[a] = "Stopped"} = {}
    BY DEF Init
  <2> QED BY <2>1, <2>2 DEF Promise!Init
<1>2. ASSUME OpInv, [Next]_vars
      PROVE  Promise!Next
  <2>1. TableStep /\ TableInv(table')
    BY <1>2, EveryTableStep DEF TableStep
  <2>2. ASSUME NEW id \in OpId
        PROVE  MovedId(id)
    BY <1>2, <2>1, IssueMove, BurnMove, SettleMove DEF TableStep
  <2>3. ASSUME NEW id \in OpId
        PROVE  /\ StatusOf(table', id) \in {"Unissued", "Pending", "Gone"} \cup Outcomes
               /\ HolderOf(table', id) \in Actor \cup {NoActor}
               /\ HolderOf(table', id) \in Actor => actorState'[HolderOf(table', id)] # "Stopped"
    <3>1. CASE Located(table', id)
      <4>1. /\ StatusOf(table', id) \in {"Pending"} \cup Outcomes
            /\ HolderOf(table', id) = table'.owners[id.slot] /\ table'.owners[id.slot] \in Actor
        BY <2>1, <3>1, StatusFacts
      <4>2. id.slot \in OpSlot /\ table'.owners[id.slot] # NoActor
        BY <4>1, ActorAssumption DEF OpId
      <4>3. actorState'[table'.owners[id.slot]] # "Stopped"
        BY <2>1, <4>2 DEF TableStep, Served
      <4> QED BY <4>1, <4>3
    <3>2. CASE ~Located(table', id)
      <4>1. StatusOf(table', id) \in {"Unissued", "Gone"} /\ HolderOf(table', id) = NoActor
        BY <2>1, <3>2, StatusFacts
      <4> QED BY <4>1, ActorAssumption
    <3> QED BY <3>1, <3>2
  <2>4. \A a \in Actor : actorState[a] = "Stopped" => actorState'[a] = "Stopped"
    BY <2>1 DEF TableStep
  <2>5. [id \in OpId |-> StatusOf(table', id)] \in [OpId -> {"Unissued", "Pending", "Gone"} \cup Outcomes]
    BY <2>3
  <2>6. [id \in OpId |-> HolderOf(table', id)] \in [OpId -> Actor \cup {NoActor}]
    BY <2>3
  <2>7. ASSUME NEW id \in OpId
        PROVE  \/ Promise!Keep(id) \/ Promise!Issue(id) \/ Promise!Burn(id)
               \/ Promise!Decide(id) \/ Promise!Consume(id) \/ Promise!Forget(id)
    BY <2>2 DEF MovedId, Moved, Promise!Keep, Promise!Issue, Promise!Burn,
                Promise!Decide, Promise!Consume, Promise!Forget
  <2>8. ASSUME NEW id \in OpId
        PROVE  HolderOf(table', id) \notin {a \in Actor : actorState'[a] = "Stopped"}
    BY <2>3
  <2> QED BY <2>4, <2>5, <2>6, <2>7, <2>8 DEF Promise!Next, Promise!Statuses
<1>3. OpInv /\ [Next]_vars =>
        [Promise!Next]_<<[id \in OpId |-> StatusOf(table, id)],
                         [id \in OpId |-> HolderOf(table, id)],
                         {a \in Actor : actorState[a] = "Stopped"}>>
  BY <1>2
<1> QED BY <1>1, <1>3, OpInvariant, PTL DEF Spec, KeepsPromise, Promise!Spec

=============================================================================
