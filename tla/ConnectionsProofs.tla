------------------------- MODULE ConnectionsProofs -------------------------
(***************************************************************************)
(* Theorems about Connections, for every set of slots and all budgets.     *)
(* The table needs an invariant about the points where a connection is not *)
(* listed; the budgets are sums over all connections, and a step that      *)
(* moves one connection changes each sum by what that one holds.           *)
(***************************************************************************)
EXTENDS Connections, FiniteSetTheorems, TLAPS

ConnEntry == [gen : 0..LastGen, at : Points,
              life : {"none", "Active", "Quiescing", "Stopping"}]
ConnType == [Slot -> ConnEntry]

\* The entry of a connection is there between Spawn and the drop of its guard.
Listed ==
  \A s \in Slot :
    table[s] = IF conn[s].at \in {"free", "accepted", "unlisted"} THEN 0 ELSE conn[s].gen

\* The inductive invariant.
ConnInv == TypeOK /\ Listed /\ BudgetExact

-----------------------------------------------------------------------------
(* Counting.                                                               *)

LEMMA CountsAreNat ==
  ASSUME NEW points
  PROVE  IsFiniteSet(AtPoint(points)) /\ Cardinality(AtPoint(points)) \in Nat
<1>1. IsFiniteSet(AtPoint(points))
  BY ConnectionAssumption, FS_Subset DEF AtPoint
<1> QED
  BY <1>1, FS_CardinalityType

\* One connection moves: the others stay where they are.
Moves(c, d, s, at) ==
  /\ d[s].at = at
  /\ \A t \in Slot : t # s => d[t].at = c[t].at

\* How the number of connections at some points changes with it.
LEMMA CountMoves ==
  ASSUME NEW points, NEW s \in Slot, NEW at, Moves(conn, conn', s, at)
  PROVE  Cardinality(AtPoint(points)') + (IF conn[s].at \in points THEN 1 ELSE 0)
           = Cardinality(AtPoint(points)) + (IF at \in points THEN 1 ELSE 0)
<1> DEFINE A == AtPoint(points)
           B == {t \in Slot : conn'[t].at \in points}
           C == {t \in Slot : t # s /\ conn[t].at \in points}
<1>1. IsFiniteSet(C) /\ Cardinality(C) \in Nat /\ s \notin C
  BY ConnectionAssumption, FS_Subset, FS_CardinalityType
<1>2. A = IF conn[s].at \in points THEN C \cup {s} ELSE C
  BY DEF AtPoint
<1>3. B = IF at \in points THEN C \cup {s} ELSE C
  BY DEF Moves
<1>4. AtPoint(points)' = B
  BY DEF AtPoint
<1> HIDE DEF A, B, C
<1>5. Cardinality(C \cup {s}) = Cardinality(C) + 1
  BY <1>1, FS_AddElement
<1>6. Cardinality(A) = Cardinality(C) + (IF conn[s].at \in points THEN 1 ELSE 0)
  BY <1>1, <1>2, <1>5
<1>7. Cardinality(B) = Cardinality(C) + (IF at \in points THEN 1 ELSE 0)
  BY <1>1, <1>3, <1>5
<1>8. Cardinality(A) \in Nat /\ Cardinality(B) \in Nat
  BY <1>1, <1>6, <1>7
<1> QED
  BY <1>1, <1>4, <1>6, <1>7, <1>8 DEF A

\* What a connection holds of each budget at a point.
ReadFrames(at) == IF at \in ReadOne THEN 1 ELSE IF at \in ReadThree THEN 3 ELSE 0
WorldFrames(at) == IF at \in WorldOne THEN 1 ELSE IF at \in WorldThree THEN 3 ELSE 0
WriteFrames(at) == IF at \in {"claiming", "writing"} THEN 1 ELSE 0

\* What a move from one point to another has to charge.
Charged(u, v, from, at) ==
  /\ v \in [read : Int, write : Int, world : Int]
  /\ v.read = u.read - ReadFrames(from) + ReadFrames(at)
  /\ v.world = u.world - WorldFrames(from) + WorldFrames(at)
  /\ v.write = u.write - WriteFrames(from) + WriteFrames(at)

\* A step that charges the difference keeps the budgets exact.
LEMMA BudgetMoves ==
  ASSUME TypeOK, BudgetExact, NEW s \in Slot, NEW at \in Points, Moves(conn, conn', s, at),
         Charged(used, used', conn[s].at, at)
  PROVE  BudgetExact' /\ used' \in [read : Nat, write : Nat, world : Nat]
<1> DEFINE old == conn[s].at
           In(point, points) == IF point \in points THEN 1 ELSE 0
           Count(points) == Cardinality(AtPoint(points))
           Count1(points) == Cardinality(AtPoint(points)')
           Writing == {"claiming", "writing"}
<1>1. ASSUME NEW points
      PROVE  /\ Count1(points) + In(old, points) = Count(points) + In(at, points)
             /\ Count(points) \in Nat /\ Count1(points) \in Nat
             /\ In(old, points) \in Nat /\ In(at, points) \in Nat
  <2>1. Count1(points) \in Nat
    <3>1. IsFiniteSet({t \in Slot : conn'[t].at \in points})
      BY ConnectionAssumption, FS_Subset
    <3>2. AtPoint(points)' = {t \in Slot : conn'[t].at \in points}
      BY DEF AtPoint
    <3> QED
      BY <3>1, <3>2, FS_CardinalityType
  <2> QED
    BY <2>1, CountMoves, CountsAreNat
<1>2. ASSUME NEW point
      PROVE  /\ ReadFrames(point) = In(point, ReadOne) + 3 * In(point, ReadThree)
             /\ WorldFrames(point) = In(point, WorldOne) + 3 * In(point, WorldThree)
             /\ WriteFrames(point) = In(point, Writing)
  BY DEF ReadFrames, WorldFrames, WriteFrames, ReadOne, ReadThree, WorldOne, WorldThree
<1>3. /\ used.read = Count(ReadOne) + 3 * Count(ReadThree)
      /\ used.world = Count(WorldOne) + 3 * Count(WorldThree)
      /\ used.write = Count(Writing)
  BY DEF BudgetExact
<1>4. /\ used'.read = used.read - ReadFrames(old) + ReadFrames(at)
      /\ used'.world = used.world - WorldFrames(old) + WorldFrames(at)
      /\ used'.write = used.write - WriteFrames(old) + WriteFrames(at)
      /\ used' \in [read : Int, write : Int, world : Int]
  BY DEF Charged
<1> HIDE DEF In, Count, Count1, Writing, old
<1>5. used'.read = Count1(ReadOne) + 3 * Count1(ReadThree) /\ used'.read \in Nat
  <2>1. /\ Count1(ReadOne) + In(old, ReadOne) = Count(ReadOne) + In(at, ReadOne)
        /\ Count(ReadOne) \in Nat /\ Count1(ReadOne) \in Nat
        /\ In(old, ReadOne) \in Nat /\ In(at, ReadOne) \in Nat
    BY <1>1
  <2>2. /\ Count1(ReadThree) + In(old, ReadThree) = Count(ReadThree) + In(at, ReadThree)
        /\ Count(ReadThree) \in Nat /\ Count1(ReadThree) \in Nat
        /\ In(old, ReadThree) \in Nat /\ In(at, ReadThree) \in Nat
    BY <1>1
  <2>3. used'.read = used.read - (In(old, ReadOne) + 3 * In(old, ReadThree))
                       + (In(at, ReadOne) + 3 * In(at, ReadThree))
    BY <1>2, <1>4
  <2> QED
    BY <1>3, <2>1, <2>2, <2>3
<1>6. used'.world = Count1(WorldOne) + 3 * Count1(WorldThree) /\ used'.world \in Nat
  <2>1. /\ Count1(WorldOne) + In(old, WorldOne) = Count(WorldOne) + In(at, WorldOne)
        /\ Count(WorldOne) \in Nat /\ Count1(WorldOne) \in Nat
        /\ In(old, WorldOne) \in Nat /\ In(at, WorldOne) \in Nat
    BY <1>1
  <2>2. /\ Count1(WorldThree) + In(old, WorldThree) = Count(WorldThree) + In(at, WorldThree)
        /\ Count(WorldThree) \in Nat /\ Count1(WorldThree) \in Nat
        /\ In(old, WorldThree) \in Nat /\ In(at, WorldThree) \in Nat
    BY <1>1
  <2>3. used'.world = used.world - (In(old, WorldOne) + 3 * In(old, WorldThree))
                        + (In(at, WorldOne) + 3 * In(at, WorldThree))
    BY <1>2, <1>4
  <2> QED
    BY <1>3, <2>1, <2>2, <2>3
<1>7. used'.write = Count1(Writing) /\ used'.write \in Nat
  <2>1. /\ Count1(Writing) + In(old, Writing) = Count(Writing) + In(at, Writing)
        /\ Count(Writing) \in Nat /\ Count1(Writing) \in Nat
        /\ In(old, Writing) \in Nat /\ In(at, Writing) \in Nat
    BY <1>1
  <2>2. used'.write = used.write - In(old, Writing) + In(at, Writing)
    BY <1>2, <1>4
  <2> QED
    BY <1>3, <2>1, <2>2
<1>8. used' \in [read : Nat, write : Nat, world : Nat]
  BY <1>4, <1>5, <1>6, <1>7
<1>9. BudgetExact'
  BY <1>5, <1>6, <1>7 DEF BudgetExact, Count1, Writing, ReadOne, ReadThree, WorldOne, WorldThree
<1> QED
  BY <1>8, <1>9

\* A step that moves nobody leaves them exact.
LEMMA BudgetStays ==
  ASSUME TypeOK, BudgetExact, \A t \in Slot : conn'[t].at = conn[t].at, UNCHANGED used
  PROVE  BudgetExact' /\ used' \in [read : Nat, write : Nat, world : Nat]
<1>1. ASSUME NEW points PROVE AtPoint(points)' = AtPoint(points)
  BY DEF AtPoint
<1>2. BudgetExact'
  BY <1>1 DEF BudgetExact
<1> QED
  BY <1>2 DEF TypeOK

-----------------------------------------------------------------------------
(* The steps of one connection.                                            *)

Unlisted == {"free", "accepted", "unlisted"}

\* Only its point changes.
LEMMA StepMoves ==
  ASSUME TypeOK, NEW s \in Slot, NEW at \in Points, Step(s, at)
  PROVE  /\ conn' \in ConnType /\ Moves(conn, conn', s, at)
         /\ \A t \in Slot : conn'[t].gen = conn[t].gen
<1>1. conn \in ConnType
  BY DEF TypeOK, ConnType, ConnEntry
<1>2. \A t \in Slot : conn'[t] = IF t = s THEN [conn[t] EXCEPT !.at = at] ELSE conn[t]
  BY <1>1 DEF Step, ConnType
<1>3. ASSUME NEW e \in ConnEntry
      PROVE  /\ [e EXCEPT !.at = at] \in ConnEntry
             /\ [e EXCEPT !.at = at].at = at /\ [e EXCEPT !.at = at].gen = e.gen
  BY DEF ConnEntry
<1>4. conn' = [t \in Slot |-> conn'[t]]
  BY <1>1 DEF Step, ConnType
<1>5. \A t \in Slot : conn'[t] \in ConnEntry /\ conn'[t].gen = conn[t].gen
  BY <1>1, <1>2, <1>3 DEF ConnType
<1>6. Moves(conn, conn', s, at)
  BY <1>1, <1>2, <1>3 DEF Moves, ConnType
<1> QED
  BY <1>4, <1>5, <1>6 DEF ConnType

\* Every step of the loop goes from a listed point to a listed point.
LEMMA LoopSteps ==
  ASSUME ConnInv, NEW s \in Slot, NEW at \in Points, Step(s, at),
         conn[s].at \notin Unlisted, at \notin Unlisted,
         Charged(used, used', conn[s].at, at),
         request' \in [Slot -> {"none", "pending", "completed", "failed"}]
  PROVE  ConnInv'
<1>1. /\ conn' \in ConnType /\ Moves(conn, conn', s, at)
      /\ \A t \in Slot : conn'[t].gen = conn[t].gen
  BY StepMoves DEF ConnInv
<1>2. BudgetExact' /\ used' \in [read : Nat, write : Nat, world : Nat]
  BY <1>1, BudgetMoves DEF ConnInv
<1>3. TypeOK'
  BY <1>1, <1>2 DEF ConnInv, TypeOK, ConnType, ConnEntry, Step
<1>4. Listed'
  BY <1>1 DEF ConnInv, Listed, Moves, Step, Unlisted
<1> QED
  BY <1>2, <1>3, <1>4 DEF ConnInv

-----------------------------------------------------------------------------
(* What each kind of charge amounts to.                                    *)

LEMMA FramesAreInt ==
  ASSUME NEW at
  PROVE  ReadFrames(at) \in Int /\ WorldFrames(at) \in Int /\ WriteFrames(at) \in Int
BY DEF ReadFrames, WorldFrames, WriteFrames

LEMMA NothingCharged ==
  ASSUME TypeOK, NEW from, NEW at, UNCHANGED used,
         ReadFrames(from) = ReadFrames(at), WorldFrames(from) = WorldFrames(at),
         WriteFrames(from) = WriteFrames(at)
  PROVE  Charged(used, used', from, at)
<1>1. /\ ReadFrames(from) \in Int /\ WorldFrames(from) \in Int /\ WriteFrames(from) \in Int
  BY FramesAreInt
<1> QED
  BY <1>1 DEF TypeOK, Charged

\* Each budget by itself; in general, by any number of frames.
LEMMA Recharged ==
  ASSUME TypeOK, NEW from, NEW at, NEW read \in Int, NEW world \in Int, NEW write \in Int,
         used' = [used EXCEPT !.read = read, !.world = world, !.write = write],
         read = used.read - ReadFrames(from) + ReadFrames(at),
         world = used.world - WorldFrames(from) + WorldFrames(at),
         write = used.write - WriteFrames(from) + WriteFrames(at)
  PROVE  Charged(used, used', from, at)
<1>1. used \in [read : Nat, write : Nat, world : Nat]
  BY DEF TypeOK
<1>2. used'.read = read /\ used'.world = world /\ used'.write = write
  BY <1>1
<1>3. used' \in [read : Int, write : Int, world : Int]
  BY <1>1
<1> QED
  BY <1>2, <1>3 DEF Charged

LEMMA UsedIsNat ==
  ASSUME TypeOK
  PROVE  /\ used \in [read : Nat, write : Nat, world : Nat]
         /\ used.read \in Nat /\ used.write \in Nat /\ used.world \in Nat
BY DEF TypeOK

LEMMA ListenerCharged ==
  ASSUME TypeOK, NEW from, NEW at, NEW frames \in Int, ChargeListener(frames),
         ReadFrames(at) = ReadFrames(from) + frames, WorldFrames(at) = WorldFrames(from),
         WriteFrames(at) = WriteFrames(from)
  PROVE  Charged(used, used', from, at)
<1> DEFINE read == used.read + frames
           world == used.world
           write == used.write
<1>1. /\ ReadFrames(from) \in Int /\ WorldFrames(from) \in Int /\ WriteFrames(from) \in Int
  BY FramesAreInt
<1>2. used' = [used EXCEPT !.read = read, !.world = world, !.write = write]
  BY UsedIsNat DEF ChargeListener
<1>3. read \in Int /\ world \in Int /\ write \in Int
  BY UsedIsNat
<1>4. /\ read = used.read - ReadFrames(from) + ReadFrames(at)
      /\ world = used.world - WorldFrames(from) + WorldFrames(at)
      /\ write = used.write - WriteFrames(from) + WriteFrames(at)
  BY <1>1, UsedIsNat
<1> HIDE DEF read, world, write
<1> QED
  BY <1>2, <1>3, <1>4, Recharged

LEMMA WorldCharged ==
  ASSUME TypeOK, NEW from, NEW at, NEW frames \in Int, ChargeWorld(frames),
         ReadFrames(at) = ReadFrames(from), WorldFrames(at) = WorldFrames(from) + frames,
         WriteFrames(at) = WriteFrames(from)
  PROVE  Charged(used, used', from, at)
<1> DEFINE read == used.read
           world == used.world + frames
           write == used.write
<1>1. /\ ReadFrames(from) \in Int /\ WorldFrames(from) \in Int /\ WriteFrames(from) \in Int
  BY FramesAreInt
<1>2. used' = [used EXCEPT !.read = read, !.world = world, !.write = write]
  BY UsedIsNat DEF ChargeWorld
<1>3. read \in Int /\ world \in Int /\ write \in Int
  BY UsedIsNat
<1>4. /\ read = used.read - ReadFrames(from) + ReadFrames(at)
      /\ world = used.world - WorldFrames(from) + WorldFrames(at)
      /\ write = used.write - WriteFrames(from) + WriteFrames(at)
  BY <1>1, UsedIsNat
<1> HIDE DEF read, world, write
<1> QED
  BY <1>2, <1>3, <1>4, Recharged

LEMMA ReplyCharged ==
  ASSUME TypeOK, NEW from, NEW at, NEW frames \in Int, ChargeReply(frames),
         ReadFrames(at) = ReadFrames(from), WorldFrames(at) = WorldFrames(from),
         WriteFrames(at) = WriteFrames(from) + frames
  PROVE  Charged(used, used', from, at)
<1> DEFINE read == used.read
           world == used.world
           write == used.write + frames
<1>1. /\ ReadFrames(from) \in Int /\ WorldFrames(from) \in Int /\ WriteFrames(from) \in Int
  BY FramesAreInt
<1>2. used' = [used EXCEPT !.read = read, !.world = world, !.write = write]
  BY UsedIsNat DEF ChargeReply
<1>3. read \in Int /\ world \in Int /\ write \in Int
  BY UsedIsNat
<1>4. /\ read = used.read - ReadFrames(from) + ReadFrames(at)
      /\ world = used.world - WorldFrames(from) + WorldFrames(at)
      /\ write = used.write - WriteFrames(from) + WriteFrames(at)
  BY <1>1, UsedIsNat
<1> HIDE DEF read, world, write
<1> QED
  BY <1>2, <1>3, <1>4, Recharged

-----------------------------------------------------------------------------
(* connection_loop.                                                        *)

LEMMA ReadHeaderKeeps ==
  ASSUME ConnInv, NEW s \in Slot, ReadHeader(s)
  PROVE  ConnInv'
<1>1. TypeOK /\ UNCHANGED request
  BY DEF ReadHeader, ConnInv
<1>2. CASE conn[s].at = "reading" /\ ChargeListener(1) /\ Step(s, "charged")
  <2>1. Charged(used, used', "reading", "charged")
    BY <1>1, <1>2, ListenerCharged
       DEF ReadFrames, WorldFrames, WriteFrames, ReadOne, ReadThree, WorldOne, WorldThree
  <2> QED
    BY <1>1, <1>2, <2>1, LoopSteps DEF Points, Reading, Unlisted, TypeOK
<1>3. CASE conn[s].at = "reading" /\ UNCHANGED used /\ Step(s, "closing")
  <2>1. Charged(used, used', "reading", "closing")
    BY <1>1, <1>3, NothingCharged
       DEF ReadFrames, WorldFrames, WriteFrames, ReadOne, ReadThree, WorldOne, WorldThree
  <2> QED
    BY <1>1, <1>3, <2>1, LoopSteps DEF Points, Reading, Unlisted, TypeOK
<1> QED
  BY <1>2, <1>3 DEF ReadHeader

LEMMA ReserveScratchKeeps ==
  ASSUME ConnInv, NEW s \in Slot, ReserveScratch(s)
  PROVE  ConnInv'
<1>1. TypeOK /\ UNCHANGED request
  BY DEF ReserveScratch, ConnInv
<1>2. CASE conn[s].at = "framed" /\ ChargeListener(2) /\ Step(s, "scratched")
  <2>1. Charged(used, used', "framed", "scratched")
    BY <1>1, <1>2, ListenerCharged
       DEF ReadFrames, WorldFrames, WriteFrames, ReadOne, ReadThree, WorldOne, WorldThree
  <2> QED
    BY <1>1, <1>2, <2>1, LoopSteps DEF Points, Reading, Unlisted, TypeOK
<1>3. CASE conn[s].at = "framed" /\ UNCHANGED used /\ Step(s, "noscratch")
  <2>1. Charged(used, used', "framed", "noscratch")
    BY <1>1, <1>3, NothingCharged
       DEF ReadFrames, WorldFrames, WriteFrames, ReadOne, ReadThree, WorldOne, WorldThree
  <2> QED
    BY <1>1, <1>3, <2>1, LoopSteps DEF Points, Reading, Unlisted, TypeOK
<1> QED
  BY <1>2, <1>3 DEF ReserveScratch

LEMMA WorldGrantsKeeps ==
  ASSUME ConnInv, NEW s \in Slot, WorldGrants(s)
  PROVE  ConnInv'
<1>1. TypeOK /\ UNCHANGED request
  BY DEF WorldGrants, ConnInv
<1>2. CASE conn[s].at = "charged" /\ ChargeWorld(1) /\ Step(s, "body")
  <2>1. Charged(used, used', "charged", "body")
    BY <1>1, <1>2, WorldCharged
       DEF ReadFrames, WorldFrames, WriteFrames, ReadOne, ReadThree, WorldOne, WorldThree
  <2> QED
    BY <1>1, <1>2, <2>1, LoopSteps DEF Points, Reading, Unlisted, TypeOK
<1>3. CASE conn[s].at = "scratched" /\ ChargeWorld(2) /\ Step(s, "scratch")
  <2>1. Charged(used, used', "scratched", "scratch")
    BY <1>1, <1>3, WorldCharged
       DEF ReadFrames, WorldFrames, WriteFrames, ReadOne, ReadThree, WorldOne, WorldThree
  <2> QED
    BY <1>1, <1>3, <2>1, LoopSteps DEF Points, Reading, Unlisted, TypeOK
<1> QED
  BY <1>2, <1>3 DEF WorldGrants

LEMMA WorldRefusesKeeps ==
  ASSUME ConnInv, NEW s \in Slot, WorldRefuses(s)
  PROVE  ConnInv'
<1>1. TypeOK /\ UNCHANGED request
  BY DEF WorldRefuses, ConnInv
<1>2. CASE conn[s].at = "charged" /\ UNCHANGED used /\ Step(s, "refused")
  <2>1. Charged(used, used', "charged", "refused")
    BY <1>1, <1>2, NothingCharged
       DEF ReadFrames, WorldFrames, WriteFrames, ReadOne, ReadThree, WorldOne, WorldThree
  <2> QED
    BY <1>1, <1>2, <2>1, LoopSteps DEF Points, Reading, Unlisted, TypeOK
<1>3. CASE conn[s].at = "scratched" /\ UNCHANGED used /\ Step(s, "overdrawn")
  <2>1. Charged(used, used', "scratched", "overdrawn")
    BY <1>1, <1>3, NothingCharged
       DEF ReadFrames, WorldFrames, WriteFrames, ReadOne, ReadThree, WorldOne, WorldThree
  <2> QED
    BY <1>1, <1>3, <2>1, LoopSteps DEF Points, Reading, Unlisted, TypeOK
<1> QED
  BY <1>2, <1>3 DEF WorldRefuses

LEMMA DropPermitKeeps ==
  ASSUME ConnInv, NEW s \in Slot, DropPermit(s)
  PROVE  ConnInv'
<1>1. TypeOK /\ UNCHANGED request
  BY DEF DropPermit, ConnInv
<1>2. CASE conn[s].at = "refused" /\ ChargeListener(-1) /\ Step(s, "closing")
  <2>1. Charged(used, used', "refused", "closing")
    BY <1>1, <1>2, ListenerCharged
       DEF ReadFrames, WorldFrames, WriteFrames, ReadOne, ReadThree, WorldOne, WorldThree
  <2> QED
    BY <1>1, <1>2, <2>1, LoopSteps DEF Points, Reading, Unlisted, TypeOK
<1>3. CASE conn[s].at = "overdrawn" /\ ChargeListener(-2) /\ Step(s, "noscratch")
  <2>1. Charged(used, used', "overdrawn", "noscratch")
    BY <1>1, <1>3, ListenerCharged
       DEF ReadFrames, WorldFrames, WriteFrames, ReadOne, ReadThree, WorldOne, WorldThree
  <2> QED
    BY <1>1, <1>3, <2>1, LoopSteps DEF Points, Reading, Unlisted, TypeOK
<1>4. CASE conn[s].at = "built" /\ ChargeListener(-2) /\ Step(s, "halfscratch")
  <2>1. Charged(used, used', "built", "halfscratch")
    BY <1>1, <1>4, ListenerCharged
       DEF ReadFrames, WorldFrames, WriteFrames, ReadOne, ReadThree, WorldOne, WorldThree
  <2> QED
    BY <1>1, <1>4, <2>1, LoopSteps DEF Points, Reading, Unlisted, TypeOK
<1>5. CASE conn[s].at = "noscratch" /\ ChargeListener(-1) /\ Step(s, "halfframe")
  <2>1. Charged(used, used', "noscratch", "halfframe")
    BY <1>1, <1>5, ListenerCharged
       DEF ReadFrames, WorldFrames, WriteFrames, ReadOne, ReadThree, WorldOne, WorldThree
  <2> QED
    BY <1>1, <1>5, <2>1, LoopSteps DEF Points, Reading, Unlisted, TypeOK
<1> QED
  BY <1>2, <1>3, <1>4, <1>5 DEF DropPermit

LEMMA DropNativePermitKeeps ==
  ASSUME ConnInv, NEW s \in Slot, DropNativePermit(s)
  PROVE  ConnInv'
<1>1. TypeOK /\ UNCHANGED request
  BY DEF DropNativePermit, ConnInv
<1>2. CASE conn[s].at = "halfscratch" /\ ChargeWorld(-2) /\ Step(s, "noscratch")
  <2>1. Charged(used, used', "halfscratch", "noscratch")
    BY <1>1, <1>2, WorldCharged
       DEF ReadFrames, WorldFrames, WriteFrames, ReadOne, ReadThree, WorldOne, WorldThree
  <2> QED
    BY <1>1, <1>2, <2>1, LoopSteps DEF Points, Reading, Unlisted, TypeOK
<1>3. CASE conn[s].at = "halfframe" /\ ChargeWorld(-1) /\ Step(s, "closing")
  <2>1. Charged(used, used', "halfframe", "closing")
    BY <1>1, <1>3, WorldCharged
       DEF ReadFrames, WorldFrames, WriteFrames, ReadOne, ReadThree, WorldOne, WorldThree
  <2> QED
    BY <1>1, <1>3, <2>1, LoopSteps DEF Points, Reading, Unlisted, TypeOK
<1>4. CASE conn[s].at = "halfframe" /\ ChargeWorld(-1) /\ Step(s, "awaiting")
  <2>1. Charged(used, used', "halfframe", "awaiting")
    BY <1>1, <1>4, WorldCharged
       DEF ReadFrames, WorldFrames, WriteFrames, ReadOne, ReadThree, WorldOne, WorldThree
  <2> QED
    BY <1>1, <1>4, <2>1, LoopSteps DEF Points, Reading, Unlisted, TypeOK
<1> QED
  BY <1>2, <1>3, <1>4 DEF DropNativePermit

LEMMA ReadBodyKeeps ==
  ASSUME ConnInv, NEW s \in Slot, ReadBody(s)
  PROVE  ConnInv'
<1>1. TypeOK /\ UNCHANGED request
  BY DEF ReadBody, ConnInv
<1>2. CASE conn[s].at = "body" /\ UNCHANGED used /\ Step(s, "framed")
  <2>1. Charged(used, used', "body", "framed")
    BY <1>1, <1>2, NothingCharged
       DEF ReadFrames, WorldFrames, WriteFrames, ReadOne, ReadThree, WorldOne, WorldThree
  <2> QED
    BY <1>1, <1>2, <2>1, LoopSteps DEF Points, Reading, Unlisted, TypeOK
<1> QED
  BY <1>2 DEF ReadBody

LEMMA ReadEndsKeeps ==
  ASSUME ConnInv, NEW s \in Slot, ReadEnds(s)
  PROVE  ConnInv'
<1>1. TypeOK /\ UNCHANGED request
  BY DEF ReadEnds, ConnInv
<1>2. CASE conn[s].at = "reading" /\ UNCHANGED used /\ Step(s, "closing")
  <2>1. Charged(used, used', "reading", "closing")
    BY <1>1, <1>2, NothingCharged
       DEF ReadFrames, WorldFrames, WriteFrames, ReadOne, ReadThree, WorldOne, WorldThree
  <2> QED
    BY <1>1, <1>2, <2>1, LoopSteps DEF Points, Reading, Unlisted, TypeOK
<1>3. CASE conn[s].at = "body" /\ ChargeListener(-1) /\ Step(s, "halfframe")
  <2>1. Charged(used, used', "body", "halfframe")
    BY <1>1, <1>3, ListenerCharged
       DEF ReadFrames, WorldFrames, WriteFrames, ReadOne, ReadThree, WorldOne, WorldThree
  <2> QED
    BY <1>1, <1>3, <2>1, LoopSteps DEF Points, Reading, Unlisted, TypeOK
<1> QED
  BY <1>2, <1>3 DEF ReadEnds

LEMMA MakeRequestKeeps ==
  ASSUME ConnInv, NEW s \in Slot, MakeRequest(s)
  PROVE  ConnInv'
<1>1. TypeOK /\ conn[s].at = "scratch" /\ Step(s, "built") /\ UNCHANGED used
  BY DEF MakeRequest, ConnInv
<1>2. request' \in [Slot -> {"none", "pending", "completed", "failed"}]
  BY <1>1 DEF MakeRequest, TypeOK
<1>3. Charged(used, used', "scratch", "built")
  BY <1>1, NothingCharged
     DEF ReadFrames, WorldFrames, WriteFrames, ReadOne, ReadThree, WorldOne, WorldThree
<1> QED
  BY <1>1, <1>2, <1>3, LoopSteps DEF Points, Reading, Unlisted

LEMMA TakeReplyKeeps ==
  ASSUME ConnInv, NEW s \in Slot, TakeReply(s)
  PROVE  ConnInv'
<1>1. conn[s].at = "awaiting" /\ TypeOK
  BY DEF TakeReply, ConnInv
<1>2. PICK at \in {"replied", "closing"} : Step(s, at)
  BY DEF TakeReply
<1>3. request' \in [Slot -> {"none", "pending", "completed", "failed"}]
  BY <1>1 DEF TakeReply, TypeOK
<1>4. Charged(used, used', "awaiting", at)
  BY <1>1, NothingCharged
     DEF TakeReply, ReadFrames, WorldFrames, WriteFrames, ReadOne, ReadThree, WorldOne, WorldThree
<1> QED
  BY <1>1, <1>2, <1>3, <1>4, LoopSteps DEF Points, Reading, Unlisted

LEMMA ReserveReplyKeeps ==
  ASSUME ConnInv, NEW s \in Slot, ReserveReply(s)
  PROVE  ConnInv'
<1>1. conn[s].at = "replied" /\ TypeOK /\ UNCHANGED request
  BY DEF ReserveReply, ConnInv
<1>2. CASE ChargeReply(1) /\ Step(s, "claiming")
  <2>1. Charged(used, used', "replied", "claiming")
    BY <1>1, <1>2, ReplyCharged
       DEF ReadFrames, WorldFrames, WriteFrames, ReadOne, ReadThree, WorldOne, WorldThree
  <2> QED
    BY <1>1, <1>2, <2>1, LoopSteps DEF Points, Reading, Unlisted, TypeOK
<1>3. CASE UNCHANGED used /\ Step(s, "closing")
  <2>1. Charged(used, used', "replied", "closing")
    BY <1>1, <1>3, NothingCharged
       DEF ReadFrames, WorldFrames, WriteFrames, ReadOne, ReadThree, WorldOne, WorldThree
  <2> QED
    BY <1>1, <1>3, <2>1, LoopSteps DEF Points, Reading, Unlisted, TypeOK
<1> QED
  BY <1>2, <1>3 DEF ReserveReply

LEMMA BeginWriteKeeps ==
  ASSUME ConnInv, NEW s \in Slot, BeginWrite(s)
  PROVE  ConnInv'
<1>1. conn[s].at = "claiming" /\ TypeOK /\ UNCHANGED request
  BY DEF BeginWrite, ConnInv
<1>2. CASE UNCHANGED used /\ Step(s, "writing")
  <2>1. Charged(used, used', "claiming", "writing")
    BY <1>1, <1>2, NothingCharged
       DEF ReadFrames, WorldFrames, WriteFrames, ReadOne, ReadThree, WorldOne, WorldThree
  <2> QED
    BY <1>1, <1>2, <2>1, LoopSteps DEF Points, Reading, Unlisted, TypeOK
<1>3. CASE ChargeReply(-1) /\ Step(s, "closing")
  <2>1. Charged(used, used', "claiming", "closing")
    BY <1>1, <1>3, ReplyCharged
       DEF ReadFrames, WorldFrames, WriteFrames, ReadOne, ReadThree, WorldOne, WorldThree
  <2> QED
    BY <1>1, <1>3, <2>1, LoopSteps DEF Points, Reading, Unlisted, TypeOK
<1> QED
  BY <1>2, <1>3 DEF BeginWrite

LEMMA EndWriteKeeps ==
  ASSUME ConnInv, NEW s \in Slot, EndWrite(s)
  PROVE  ConnInv'
<1>1. conn[s].at = "writing" /\ TypeOK /\ UNCHANGED request /\ ChargeReply(-1)
  BY DEF EndWrite, ConnInv
<1>2. PICK at \in {"reading", "closing"} : Step(s, at)
  BY DEF EndWrite
<1>3. Charged(used, used', "writing", at)
  BY <1>1, ReplyCharged
     DEF ReadFrames, WorldFrames, WriteFrames, ReadOne, ReadThree, WorldOne, WorldThree
<1> QED
  BY <1>1, <1>2, <1>3, LoopSteps DEF Points, Reading, Unlisted, TypeOK

-----------------------------------------------------------------------------
(* The listener and the ends of a connection.                              *)

\* A connection becomes another that holds as little as it did.
LEMMA Becomes ==
  ASSUME TypeOK, BudgetExact, NEW s \in Slot, NEW e \in ConnEntry,
         conn' = [conn EXCEPT ![s] = e], UNCHANGED used,
         ReadFrames(conn[s].at) = ReadFrames(e.at), WorldFrames(conn[s].at) = WorldFrames(e.at),
         WriteFrames(conn[s].at) = WriteFrames(e.at)
  PROVE  /\ conn' \in ConnType /\ conn'[s] = e
         /\ \A t \in Slot : t # s => conn'[t] = conn[t]
         /\ BudgetExact' /\ used' \in [read : Nat, write : Nat, world : Nat]
<1>1. conn \in ConnType
  BY DEF TypeOK, ConnType, ConnEntry
<1>2. conn' \in ConnType /\ conn'[s] = e /\ \A t \in Slot : t # s => conn'[t] = conn[t]
  BY <1>1 DEF ConnType
<1>3. Moves(conn, conn', s, e.at)
  BY <1>2 DEF Moves
<1>4. e.at \in Points
  BY DEF ConnEntry
<1>5. Charged(used, used', conn[s].at, e.at)
  BY NothingCharged
<1> QED
  BY <1>2, <1>3, <1>4, <1>5, BudgetMoves

LEMMA AcceptKeeps ==
  ASSUME ConnInv, NEW s \in Slot, Accept(s)
  PROVE  ConnInv'
<1> DEFINE e == [gen |-> conn[s].gen + 1, at |-> "accepted", life |-> "Active"]
<1>1. /\ conn[s].at = "free" /\ conn[s].gen < LastGen /\ conn' = [conn EXCEPT ![s] = e]
      /\ UNCHANGED <<life, listening, request, table, used>> /\ TypeOK /\ BudgetExact /\ Listed
  BY DEF Accept, ConnInv
<1>2. conn[s].gen \in 0..LastGen
  BY <1>1 DEF TypeOK
<1>3. e \in ConnEntry /\ e.at = "accepted"
  BY <1>1, <1>2, ConnectionAssumption DEF ConnEntry, Points
<1> HIDE DEF e
<1>4. /\ conn' \in ConnType /\ conn'[s] = e
      /\ \A t \in Slot : t # s => conn'[t] = conn[t]
      /\ BudgetExact' /\ used' \in [read : Nat, write : Nat, world : Nat]
  BY <1>1, <1>3, Becomes
     DEF ReadFrames, WorldFrames, WriteFrames, ReadOne, ReadThree, WorldOne, WorldThree
<1>5. TypeOK'
  BY <1>1, <1>4 DEF TypeOK, ConnType, ConnEntry
<1>6. Listed'
  BY <1>1, <1>3, <1>4 DEF Listed
<1> QED
  BY <1>4, <1>5, <1>6 DEF ConnInv

\* Only its point and its life change.
LEMMA Ends ==
  ASSUME TypeOK, BudgetExact, NEW s \in Slot, NEW at \in Points,
         NEW l \in {"none", "Active", "Quiescing", "Stopping"},
         conn' = [conn EXCEPT ![s] = [conn[s] EXCEPT !.at = at, !.life = l]], UNCHANGED used,
         ReadFrames(conn[s].at) = ReadFrames(at), WorldFrames(conn[s].at) = WorldFrames(at),
         WriteFrames(conn[s].at) = WriteFrames(at)
  PROVE  /\ conn' \in ConnType /\ conn'[s].at = at /\ conn'[s].gen = conn[s].gen
         /\ \A t \in Slot : t # s => conn'[t] = conn[t]
         /\ BudgetExact' /\ used' \in [read : Nat, write : Nat, world : Nat]
<1> DEFINE e == [conn[s] EXCEPT !.at = at, !.life = l]
<1>1. conn[s] \in ConnEntry
  BY DEF TypeOK, ConnEntry
<1>2. e \in ConnEntry /\ e.at = at /\ e.gen = conn[s].gen
  BY <1>1 DEF ConnEntry
<1>3. conn' = [conn EXCEPT ![s] = e]
  OBVIOUS
<1> HIDE DEF e
<1> QED
  BY <1>2, <1>3, Becomes

LEMMA SpawnKeeps ==
  ASSUME ConnInv, NEW s \in Slot, Spawn(s)
  PROVE  ConnInv'
<1>1. /\ conn[s].at = "accepted" /\ table' = [table EXCEPT ![s] = conn[s].gen]
      /\ conn' = [conn EXCEPT ![s].at = "reading"]
      /\ UNCHANGED <<life, listening, request, used>> /\ TypeOK /\ BudgetExact /\ Listed
  BY DEF Spawn, ConnInv
<1>2. conn \in ConnType /\ conn[s] \in ConnEntry
  BY <1>1 DEF TypeOK, ConnType, ConnEntry
<1>3. conn[s].life \in {"none", "Active", "Quiescing", "Stopping"} /\ conn[s].gen \in 0..LastGen
  BY <1>2 DEF ConnEntry
<1>4. [conn[s] EXCEPT !.at = "reading", !.life = conn[s].life]
        = [conn[s] EXCEPT !.at = "reading"]
  BY <1>2 DEF ConnEntry
<1>5. conn' = [conn EXCEPT ![s] = [conn[s] EXCEPT !.at = "reading", !.life = conn[s].life]]
  BY <1>1, <1>4
<1>6. /\ conn' \in ConnType /\ conn'[s].at = "reading" /\ conn'[s].gen = conn[s].gen
      /\ \A t \in Slot : t # s => conn'[t] = conn[t]
      /\ BudgetExact' /\ used' \in [read : Nat, write : Nat, world : Nat]
  BY <1>1, <1>3, <1>5, Ends DEF Points, Reading,
     ReadFrames, WorldFrames, WriteFrames, ReadOne, ReadThree, WorldOne, WorldThree
<1>7. table' \in [Slot -> 0..LastGen]
  BY <1>1, <1>3 DEF TypeOK
<1>8. TypeOK'
  BY <1>1, <1>6, <1>7 DEF TypeOK, ConnType, ConnEntry
<1>9. Listed'
  BY <1>1, <1>6 DEF Listed, TypeOK
<1> QED
  BY <1>6, <1>8, <1>9 DEF ConnInv

LEMMA GuardStopsKeeps ==
  ASSUME ConnInv, NEW s \in Slot, GuardStops(s)
  PROVE  ConnInv'
<1>1. /\ conn[s].at = "closing" /\ request' = [request EXCEPT ![s] = "none"]
      /\ conn' = [conn EXCEPT ![s].at = "stopped", ![s].life = "Stopping"]
      /\ UNCHANGED <<life, listening, table, used>> /\ TypeOK /\ BudgetExact /\ Listed
  BY DEF GuardStops, ConnInv
<1>2. conn' = [conn EXCEPT ![s] = [conn[s] EXCEPT !.at = "stopped", !.life = "Stopping"]]
  BY <1>1 DEF TypeOK
<1>3. /\ conn' \in ConnType /\ conn'[s].at = "stopped" /\ conn'[s].gen = conn[s].gen
      /\ \A t \in Slot : t # s => conn'[t] = conn[t]
      /\ BudgetExact' /\ used' \in [read : Nat, write : Nat, world : Nat]
  BY <1>1, <1>2, Ends DEF Points, Reading,
     ReadFrames, WorldFrames, WriteFrames, ReadOne, ReadThree, WorldOne, WorldThree
<1>4. TypeOK'
  BY <1>1, <1>3 DEF TypeOK, ConnType, ConnEntry
<1>5. Listed'
  BY <1>1, <1>3 DEF Listed
<1> QED
  BY <1>3, <1>4, <1>5 DEF ConnInv

LEMMA GuardUnlistsKeeps ==
  ASSUME ConnInv, NEW s \in Slot, GuardUnlists(s)
  PROVE  ConnInv'
<1>1. /\ conn[s].at = "stopped" /\ table' = [table EXCEPT ![s] = 0]
      /\ conn' = [conn EXCEPT ![s].at = "unlisted"]
      /\ UNCHANGED <<life, listening, request, used>> /\ TypeOK /\ BudgetExact /\ Listed
  BY DEF GuardUnlists, ConnInv
<1>2. conn \in ConnType /\ conn[s] \in ConnEntry
  BY <1>1 DEF TypeOK, ConnType, ConnEntry
<1>3. conn[s].life \in {"none", "Active", "Quiescing", "Stopping"}
  BY <1>2 DEF ConnEntry
<1>4. [conn[s] EXCEPT !.at = "unlisted", !.life = conn[s].life]
        = [conn[s] EXCEPT !.at = "unlisted"]
  BY <1>2 DEF ConnEntry
<1>5. conn' = [conn EXCEPT ![s] = [conn[s] EXCEPT !.at = "unlisted", !.life = conn[s].life]]
  BY <1>1, <1>4
<1>6. /\ conn' \in ConnType /\ conn'[s].at = "unlisted" /\ conn'[s].gen = conn[s].gen
      /\ \A t \in Slot : t # s => conn'[t] = conn[t]
      /\ BudgetExact' /\ used' \in [read : Nat, write : Nat, world : Nat]
  BY <1>1, <1>3, <1>5, Ends DEF Points, Reading,
     ReadFrames, WorldFrames, WriteFrames, ReadOne, ReadThree, WorldOne, WorldThree
<1>7. table' \in [Slot -> 0..LastGen]
  BY <1>1, ConnectionAssumption DEF TypeOK
<1>8. TypeOK'
  BY <1>1, <1>6, <1>7 DEF TypeOK, ConnType, ConnEntry
<1>9. Listed'
  BY <1>1, <1>6 DEF Listed, TypeOK
<1> QED
  BY <1>6, <1>8, <1>9 DEF ConnInv

LEMMA EndTaskKeeps ==
  ASSUME ConnInv, NEW s \in Slot, EndTask(s)
  PROVE  ConnInv'
<1>1. /\ conn[s].at = "unlisted"
      /\ conn' = [conn EXCEPT ![s].at = "free", ![s].life = "none"]
      /\ UNCHANGED <<life, listening, request, table, used>>
      /\ TypeOK /\ BudgetExact /\ Listed
  BY DEF EndTask, ConnInv
<1>2. conn' = [conn EXCEPT ![s] = [conn[s] EXCEPT !.at = "free", !.life = "none"]]
  BY <1>1 DEF TypeOK
<1>3. /\ conn' \in ConnType /\ conn'[s].at = "free" /\ conn'[s].gen = conn[s].gen
      /\ \A t \in Slot : t # s => conn'[t] = conn[t]
      /\ BudgetExact' /\ used' \in [read : Nat, write : Nat, world : Nat]
  BY <1>1, <1>2, Ends DEF Points, Reading,
     ReadFrames, WorldFrames, WriteFrames, ReadOne, ReadThree, WorldOne, WorldThree
<1>4. TypeOK'
  BY <1>1, <1>3 DEF TypeOK, ConnType, ConnEntry
<1>5. Listed'
  BY <1>1, <1>3 DEF Listed
<1> QED
  BY <1>3, <1>4, <1>5 DEF ConnInv

-----------------------------------------------------------------------------
(* Drain, stop and the requests: nobody moves.                             *)

\* What an actor's life changes to concerns neither the table nor the budgets.
LEMMA NobodyMoves ==
  ASSUME ConnInv, conn' \in ConnType,
         \A t \in Slot : conn'[t].at = conn[t].at /\ conn'[t].gen = conn[t].gen,
         life' \in {"Active", "Quiescing", "Stopping"}, listening' \in BOOLEAN,
         request' \in [Slot -> {"none", "pending", "completed", "failed"}],
         UNCHANGED <<table, used>>
  PROVE  ConnInv'
<1>1. BudgetExact' /\ used' \in [read : Nat, write : Nat, world : Nat]
  BY BudgetStays DEF ConnInv
<1>2. TypeOK'
  BY <1>1 DEF ConnInv, TypeOK, ConnType, ConnEntry
<1>3. Listed'
  BY DEF ConnInv, Listed
<1> QED
  BY <1>1, <1>2, <1>3 DEF ConnInv

LEMMA StopListeningKeeps ==
  ASSUME ConnInv, StopListening
  PROVE  ConnInv'
BY NobodyMoves DEF ConnInv, TypeOK, ConnType, ConnEntry, StopListening

LEMMA NewLife ==
  ASSUME NEW e \in ConnEntry, NEW l \in {"none", "Active", "Quiescing", "Stopping"}
  PROVE  /\ [e EXCEPT !.life = l] \in ConnEntry
         /\ [e EXCEPT !.life = l].at = e.at /\ [e EXCEPT !.life = l].gen = e.gen
BY DEF ConnEntry

LEMMA DrainKeeps ==
  ASSUME ConnInv, Drain
  PROVE  ConnInv'
<1>1. conn \in ConnType
  BY DEF ConnInv, TypeOK, ConnType, ConnEntry
<1>2. /\ conn' = [s \in Slot |-> IF conn[s].life = "Active"
                                 THEN [conn[s] EXCEPT !.life = "Quiescing"] ELSE conn[s]]
      /\ life' = "Quiescing" /\ UNCHANGED <<listening, request, table, used>>
  BY DEF Drain
<1>3. \A t \in Slot : /\ conn'[t] \in ConnEntry
                      /\ conn'[t].at = conn[t].at /\ conn'[t].gen = conn[t].gen
  BY <1>1, <1>2, NewLife DEF ConnType
<1>4. conn' \in ConnType
  BY <1>2, <1>3 DEF ConnType
<1> QED
  BY <1>2, <1>3, <1>4, NobodyMoves DEF ConnInv, TypeOK

LEMMA FencedMoves ==
  ASSUME NEW e \in ConnEntry
  PROVE  Fenced(e) \in ConnEntry /\ Fenced(e).at = e.at /\ Fenced(e).gen = e.gen
BY NewLife DEF Fenced

LEMMA StopKeeps ==
  ASSUME ConnInv, Stop
  PROVE  ConnInv'
<1>1. conn \in ConnType
  BY DEF ConnInv, TypeOK, ConnType, ConnEntry
<1>2. /\ conn' = [s \in Slot |-> Fenced(conn[s])] /\ life' = "Stopping"
      /\ request' = [s \in Slot |-> Cancelled(request[s])]
      /\ UNCHANGED <<listening, table, used>>
  BY DEF Stop
<1>3. \A t \in Slot : /\ conn'[t] \in ConnEntry
                      /\ conn'[t].at = conn[t].at /\ conn'[t].gen = conn[t].gen
  BY <1>1, <1>2, FencedMoves DEF ConnType
<1>4. conn' \in ConnType
  BY <1>2, <1>3 DEF ConnType
<1>5. request' \in [Slot -> {"none", "pending", "completed", "failed"}]
  BY <1>2 DEF ConnInv, TypeOK, Cancelled
<1> QED
  BY <1>2, <1>3, <1>4, <1>5, NobodyMoves DEF ConnInv, TypeOK

LEMMA StopOneKeeps ==
  ASSUME ConnInv, NEW s \in Slot, StopOne(s)
  PROVE  ConnInv'
<1>1. conn \in ConnType
  BY DEF ConnInv, TypeOK, ConnType, ConnEntry
<1>2. /\ conn' = [conn EXCEPT ![s] = Fenced(conn[s])]
      /\ request' = [request EXCEPT ![s] = Cancelled(request[s])]
      /\ UNCHANGED <<life, listening, table, used>>
  BY DEF StopOne
<1>3. \A t \in Slot : /\ conn'[t] \in ConnEntry
                      /\ conn'[t].at = conn[t].at /\ conn'[t].gen = conn[t].gen
  BY <1>1, <1>2, FencedMoves DEF ConnType
<1>4. conn' \in ConnType
  BY <1>1, <1>2, FencedMoves DEF ConnType
<1>5. request' \in [Slot -> {"none", "pending", "completed", "failed"}]
  BY <1>2 DEF ConnInv, TypeOK, Cancelled
<1> QED
  BY <1>2, <1>3, <1>4, <1>5, NobodyMoves DEF ConnInv, TypeOK

LEMMA DecideKeeps ==
  ASSUME ConnInv, NEW s \in Slot, Decide(s)
  PROVE  ConnInv'
<1>1. request' \in [Slot -> {"none", "pending", "completed", "failed"}]
  BY DEF ConnInv, TypeOK, Decide
<1>2. UNCHANGED <<life, listening, conn, table, used>>
  BY DEF Decide
<1> QED
  BY <1>1, <1>2, NobodyMoves DEF ConnInv, TypeOK, ConnType, ConnEntry

-----------------------------------------------------------------------------
(* The theorems.                                                           *)

LEMMA ConnInit ==
  ASSUME Init
  PROVE  ConnInv
<1>1. TypeOK
  BY ConnectionAssumption DEF Init, TypeOK, Points, Reading
<1>2. Listed
  BY DEF Init, Listed
<1>3. \A points : "free" \notin points => AtPoint(points) = {}
  BY DEF Init, AtPoint
<1>4. /\ Cardinality(AtPoint(ReadOne)) = 0 /\ Cardinality(AtPoint(ReadThree)) = 0
      /\ Cardinality(AtPoint(WorldOne)) = 0 /\ Cardinality(AtPoint(WorldThree)) = 0
      /\ Cardinality(AtPoint({"claiming", "writing"})) = 0
  BY <1>3, FS_EmptySet DEF ReadOne, ReadThree, WorldOne, WorldThree
<1>5. BudgetExact
  BY <1>4 DEF Init, BudgetExact
<1> QED
  BY <1>1, <1>2, <1>5 DEF ConnInv

LEMMA ConnStep ==
  ASSUME ConnInv, [Next]_vars
  PROVE  ConnInv'
<1>1. CASE UNCHANGED vars
  BY <1>1, NobodyMoves DEF vars, ConnInv, TypeOK, ConnType, ConnEntry
<1>2. CASE StopListening
  BY <1>2, StopListeningKeeps
<1>3. CASE Drain
  BY <1>3, DrainKeeps
<1>4. CASE Stop
  BY <1>4, StopKeeps
<1>5. ASSUME NEW s \in Slot, ConnectionStep(s)
      PROVE  ConnInv'
  BY <1>5, SpawnKeeps, ReadEndsKeeps, ReserveScratchKeeps, WorldGrantsKeeps, WorldRefusesKeeps,
     DropPermitKeeps, DropNativePermitKeeps, MakeRequestKeeps, TakeReplyKeeps,
     ReserveReplyKeeps, BeginWriteKeeps, EndWriteKeeps, GuardStopsKeeps, GuardUnlistsKeeps,
     EndTaskKeeps
     DEF ConnectionStep
<1>6. ASSUME NEW s \in Slot,
             ReadHeader(s) \/ ReadBody(s) \/ Accept(s) \/ StopOne(s) \/ Decide(s)
      PROVE  ConnInv'
  BY <1>6, ReadHeaderKeeps, ReadBodyKeeps, AcceptKeeps, StopOneKeeps, DecideKeeps
<1> QED
  BY <1>1, <1>2, <1>3, <1>4, <1>5, <1>6 DEF Next

\* The types, the points of the loop at which a connection is listed and the
\* sums of both budgets, together, hold in every reachable state.
THEOREM ConnectionsInvariant == Spec => []ConnInv
<1>1. Init => ConnInv
  BY ConnInit
<1>2. ConnInv /\ [Next]_vars => ConnInv'
  BY ConnStep
<1> QED
  BY <1>1, <1>2, PTL DEF Spec

\* Shared.connections: the entry under a slot is always the connection that
\* holds it now, never one that had the slot before.
THEOREM TableAlwaysExact == Spec => []TableExact
<1>1. ConnInv => TableExact
  BY DEF ConnInv, TypeOK, Listed, TableExact, Open
<1> QED
  BY <1>1, ConnectionsInvariant, PTL

\* BufferPermit: however the reservations and drops of the connections
\* interleave, each budget holds exactly what the connections hold of it.
THEOREM BudgetsAlwaysExact == Spec => []BudgetExact
<1>1. ConnInv => BudgetExact
  BY DEF ConnInv
<1> QED
  BY <1>1, ConnectionsInvariant, PTL
=============================================================================
