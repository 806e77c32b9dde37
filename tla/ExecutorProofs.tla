--------------------------- MODULE ExecutorProofs ---------------------------
(***************************************************************************)
(* Theorems about Executor, for any requests and all limits and policies.  *)
(* The executor, its jobs and the World change the actor through few calls *)
(* (Decide, Fence, Report, Settle), each of which only moves it on; where  *)
(* the executor is bounds how far the actor must have come, and what still *)
(* holds the actor's lease bounds what a close may find.                   *)
(***************************************************************************)
EXTENDS Executor, FiniteSetTheorems, SequenceTheorems, TLAPS

Life == {"Starting", "Active", "Quiescing", "Stopping", "Stopped"}
OwnerType == [life : Life, queue : Seq(Op), op : [Op -> {"idle", "decided"} \cup Undecided],
              note : BOOLEAN, kids : BOOLEAN, supervised : BOOLEAN]
ExecType == [at : Hooks \cup Steps, seen : {"Starting", "Active", "Quiescing"},
             quiescing : BOOLEAN, panicked : BOOLEAN, consumed : Nat,
             current : Op \cup {None}]
JobType == [kind : {None, "async", "cpu", "timer"}, at : Held \cup {"none"}]

\* Nobody waits for the request any longer than until the next maintenance.
Answered == {"decided", "overdue"}

Fenced(c) == c.life \in {"Stopping", "Stopped"}

\* A starting actor has no requests yet, a fenced one has none to answer.
Sound(c) ==
  /\ c \in OwnerType
  /\ Fenced(c) => \A o \in Op : c.op[o] \notin Undecided
  /\ c.life = "Starting" => \A o \in Op : c.op[o] = "idle"

\* The actor only moves on: from c to d no life, outcome or notice comes back.
MovesOn(c, d) ==
  /\ Sound(d)
  /\ \A o \in Op : /\ c.op[o] # "idle" => d.op[o] # "idle"
                   /\ c.op[o] \in Answered => d.op[o] \in Answered
  /\ c.life # "Starting" => d.life # "Starting"
  /\ c.life \notin {"Starting", "Active"} => d.life \notin {"Starting", "Active"}
  /\ Fenced(c) => Fenced(d)
  /\ c.life = "Stopped" => d.life = "Stopped"
  /\ ~c.supervised => ~d.supervised
  /\ ~c.supervised /\ ~c.note => ~d.note

\* How far the actor has come, by where the executor is.
Gone == {"cleanup", "release", "untracked", "done"}
Position(e, c) ==
  /\ e.at = "prepare" => c.life \notin {"Active", "Quiescing"}
  /\ e.at \in Hooks \cup {"failures", "quiesce", "claim", "settle", "timer"} =>
       e.at = "prepare" \/ c.life # "Starting"
  /\ e.at \in {"quiescing", "draining"} \cup Gone => c.life \notin {"Starting", "Active"}
  /\ e.at = "event" => e.current \in Op /\ c.op[e.current] # "idle"

\* What a job that holds something says of its request.
JobSound(j, c, o) ==
  /\ j[o].at \in Held => j[o].kind # None /\ c.op[o] # "idle"
  /\ j[o].at \in Held \ Busy /\ j[o].kind # "timer" => c.op[o] \in Answered

\* Nothing holds a lease of the actor.
Unleased(e, j) == e.at \in {"untracked", "done"} /\ \A o \in Op : j[o].at \notin Leased

\* A stopping actor is held by a lease or by its notice.
Pinned(e, j, c) == c.life = "Stopping" /\ Unleased(e, j) => c.note

ClosedClean == runtime = "closed" /\ ~late

\* The inductive invariant.
ExInv ==
  /\ Sound(owner) /\ exec \in ExecType /\ job \in [Op -> JobType]
  /\ runtime \in {"open", "closing", "closed"}
  /\ Position(exec, owner)
  /\ \A o \in Op : JobSound(job, owner, o)
  /\ Pinned(exec, job, owner)
  /\ exec.at = "prepare" => runtime = "open"
  /\ runtime # "open" => Fenced(owner) /\ ~owner.note /\ ~owner.supervised
  /\ ClosedClean => /\ exec.at = "done" /\ owner.life = "Stopped"
                    /\ \A o \in Op : job[o].at \notin Held

-----------------------------------------------------------------------------
(* The calls.                                                              *)

LEMMA MovesOnTrans ==
  ASSUME NEW c, NEW d, NEW e, MovesOn(c, d), MovesOn(d, e)
  PROVE  MovesOn(c, e)
BY DEF MovesOn

LEMMA MovesOnRefl == ASSUME NEW c, Sound(c) PROVE MovesOn(c, c)
BY DEF MovesOn

\* complete_operation, expiry and failure settle one request.
LEMMA DecideMoves ==
  ASSUME NEW c, Sound(c), NEW o \in Op \cup {None}
  PROVE  /\ MovesOn(c, Decide(c, o))
         /\ Decide(c, o).life = c.life /\ Decide(c, o).note = c.note
         /\ Decide(c, o).supervised = c.supervised
         /\ o \in Op /\ c.op[o] # "idle" => Decide(c, o).op[o] \in Answered
<1> DEFINE settled == [c EXCEPT !.op[o] = "decided"]
<1>1. CASE o # None /\ c.op[o] \in Undecided
  <2>1. Decide(c, o) = settled
    BY <1>1 DEF Decide
  <2>2. o \in Op
    BY <1>1
  <2>3. /\ settled \in OwnerType /\ settled.life = c.life /\ settled.note = c.note
        /\ settled.supervised = c.supervised /\ settled.op = [c.op EXCEPT ![o] = "decided"]
    BY <2>2 DEF Sound, OwnerType, Answered, Undecided
  <2>4. c.op \in [Op -> {"idle", "decided"} \cup Undecided] /\ c.life # "Starting"
    BY <1>1, <2>2 DEF Sound, OwnerType, Undecided
  <2> HIDE DEF settled
  <2>5. settled.op[o] = "decided" /\ \A p \in Op : p # o => settled.op[p] = c.op[p]
    BY <2>2, <2>3, <2>4
  <2>6. Sound(settled)
    BY <2>3, <2>4, <2>5 DEF Sound, Fenced, Undecided
  <2>7. MovesOn(c, settled)
    BY <2>3, <2>5, <2>6 DEF MovesOn, Fenced, Answered, Undecided
  <2> QED
    BY <2>1, <2>3, <2>5, <2>7 DEF Answered
<1>2. CASE ~(o # None /\ c.op[o] \in Undecided)
  <2>1. Decide(c, o) = c
    BY <1>2 DEF Decide
  <2>2. o \in Op /\ c.op[o] # "idle" => c.op[o] \in Answered
    <3>1. o \in Op => o # None
      BY OpAssumption DEF None
    <3> QED
      BY <1>2, <3>1 DEF Sound, OwnerType, Answered
  <2> QED
    BY <2>1, <2>2, MovesOnRefl
<1> QED
  BY <1>1, <1>2

\* stop_locked.
LEMMA FenceMoves ==
  ASSUME NEW c, Sound(c)
  PROVE  /\ MovesOn(c, Fence(c)) /\ Fenced(Fence(c))
         /\ Fence(c).note = c.note /\ Fence(c).supervised = c.supervised
<1> DEFINE ops == [o \in Op |-> IF c.op[o] \in Undecided THEN "decided" ELSE c.op[o]]
           stopped == [c EXCEPT !.life = "Stopping", !.queue = <<>>, !.kids = FALSE, !.op = ops]
<1>1. CASE c.life = "Stopped"
  <2>1. Fence(c) = c
    BY <1>1 DEF Fence
  <2> QED
    BY <1>1, <2>1, MovesOnRefl DEF Fenced
<1>2. CASE c.life # "Stopped"
  <2>1. Fence(c) = stopped
    BY <1>2 DEF Fence, Sound, OwnerType
  <2>2. /\ ops \in [Op -> {"idle", "decided"} \cup Undecided]
        /\ \A o \in Op : /\ ops[o] \notin Undecided
                         /\ c.op[o] # "idle" => ops[o] # "idle"
                         /\ c.op[o] \in Answered => ops[o] \in Answered
    BY DEF Sound, OwnerType, Answered, Undecided
  <2> HIDE DEF ops
  <2>3. /\ stopped \in OwnerType /\ stopped.life = "Stopping" /\ stopped.op = ops
        /\ stopped.note = c.note /\ stopped.supervised = c.supervised
    <3>1. c \in OwnerType /\ <<>> \in Seq(Op)
      BY DEF Sound
    <3>2. stopped \in OwnerType
      BY <2>2, <3>1 DEF OwnerType, Life
    <3> QED
      BY <3>1, <3>2 DEF OwnerType
  <2> HIDE DEF stopped
  <2>4. Sound(stopped)
    BY <2>2, <2>3 DEF Sound
  <2>5. MovesOn(c, stopped)
    BY <1>2, <2>2, <2>3, <2>4 DEF MovesOn, Fenced
  <2> QED
    BY <2>1, <2>3, <2>5 DEF Fenced
<1> QED
  BY <1>1, <1>2

LEMMA FenceWithParentMoves ==
  ASSUME NEW c, Sound(c)
  PROVE  /\ MovesOn(c, FenceWithParent(c)) /\ Fenced(FenceWithParent(c))
         /\ ~FenceWithParent(c).note /\ ~FenceWithParent(c).supervised
<1> DEFINE alone == [c EXCEPT !.note = FALSE, !.supervised = FALSE]
<1>1. c \in OwnerType
  BY DEF Sound
<1>2. /\ alone \in OwnerType /\ alone.life = c.life /\ alone.op = c.op
      /\ alone.note = FALSE /\ alone.supervised = FALSE
  BY <1>1 DEF OwnerType
<1>3. FenceWithParent(c) = Fence(alone)
  BY DEF FenceWithParent
<1> HIDE DEF alone
<1>4. Sound(alone) /\ MovesOn(c, alone)
  BY <1>2 DEF Sound, MovesOn, Fenced
<1> QED
  BY <1>2, <1>3, <1>4, FenceMoves, MovesOnTrans

\* report_failure; a notice is only left for a supervisor.
LEMMA ReportMoves ==
  ASSUME NEW c, Sound(c), NEW o \in Op \cup {None}, NEW action
  PROVE  /\ MovesOn(c, Report(c, o, action))
         /\ action = "StopActor" => Fenced(Report(c, o, action))
         /\ o \in Op /\ c.op[o] # "idle" => Report(c, o, action).op[o] \in Answered
<1> DEFINE first == Decide(c, o)
           told == [first EXCEPT !.note = @ \/ c.supervised]
<1>1. /\ MovesOn(c, first) /\ Sound(first) /\ first.life = c.life
      /\ first.note = c.note /\ first.supervised = c.supervised
      /\ o \in Op /\ c.op[o] # "idle" => first.op[o] \in Answered
  BY DecideMoves DEF MovesOn
<1>2. first \in OwnerType
  BY <1>1 DEF Sound
<1> HIDE DEF first
<1>3. c.supervised \in BOOLEAN /\ first.note \in BOOLEAN
  BY <1>2 DEF Sound, OwnerType
<1>4. (first.note \/ c.supervised) \in BOOLEAN
  OBVIOUS
<1> DEFINE n == first.note \/ c.supervised
<1>5. told = [first EXCEPT !.note = n]
  OBVIOUS
<1>6. n \in BOOLEAN
  BY <1>4
<1>7. n => first.note \/ c.supervised
  OBVIOUS
<1> HIDE DEF n
<1>8. /\ told \in OwnerType /\ told.life = first.life /\ told.op = first.op
      /\ told.note = n /\ told.supervised = first.supervised
  BY <1>2, <1>5, <1>6 DEF OwnerType
<1>9. Report(c, o, action) = IF action = "StopActor" THEN Fence(told) ELSE told
  BY DEF Report, first
<1> HIDE DEF told
<1>10. Sound(told)
  BY <1>1, <1>8 DEF Sound, Fenced
<1>11. ~c.supervised /\ ~c.note => ~told.note
  BY <1>1, <1>7, <1>8
<1>12. MovesOn(c, told)
  BY <1>1, <1>8, <1>10, <1>11 DEF MovesOn, Fenced
<1>13. o \in Op /\ c.op[o] # "idle" => told.op[o] \in Answered
  BY <1>1, <1>8
<1>14. CASE action = "StopActor"
  <2>1. MovesOn(told, Fence(told)) /\ Fenced(Fence(told))
    BY <1>10, FenceMoves
  <2>2. o \in Op /\ c.op[o] # "idle" => Fence(told).op[o] \in Answered
    BY <1>13, <2>1 DEF MovesOn
  <2> QED
    BY <1>9, <1>12, <1>14, <2>1, <2>2, MovesOnTrans
<1>15. CASE action # "StopActor"
  BY <1>9, <1>12, <1>13, <1>15
<1> QED
  BY <1>14, <1>15

\* try_finalize.
LEMMA SettleMoves ==
  ASSUME NEW c, Sound(c), NEW n
  PROVE  /\ MovesOn(c, Settle(c, n))
         /\ Settle(c, n).note = c.note /\ Settle(c, n).supervised = c.supervised
         /\ Settle(c, n).life = "Stopping" => n # 0 \/ c.note
         /\ Settle(c, n).life \in {c.life, "Stopped"}
<1> DEFINE stopped == [c EXCEPT !.life = "Stopped"]
<1>1. CASE c.life = "Stopping" /\ n = 0 /\ ~c.note
  <2>1. Settle(c, n) = stopped
    BY <1>1 DEF Settle
  <2>2. c \in OwnerType
    BY DEF Sound
  <2>3. /\ stopped \in OwnerType /\ stopped.life = "Stopped" /\ stopped.op = c.op
        /\ stopped.note = c.note /\ stopped.supervised = c.supervised
    BY <2>2 DEF OwnerType, Life
  <2> HIDE DEF stopped
  <2>4. Sound(stopped) /\ MovesOn(c, stopped)
    BY <1>1, <2>3 DEF Sound, MovesOn, Fenced
  <2> QED
    BY <2>1, <2>3, <2>4
<1>2. CASE ~(c.life = "Stopping" /\ n = 0 /\ ~c.note)
  <2>1. Settle(c, n) = c
    BY <1>2 DEF Settle
  <2> QED
    BY <1>2, <2>1, MovesOnRefl
<1> QED
  BY <1>1, <1>2

\* The count of leases is 0 exactly when nothing holds one.
LEMMA LeasesCount ==
  ASSUME NEW e, NEW j
  PROVE  Leases(e, j) = 0 <=> Unleased(e, j)
<1> DEFINE held == {o \in Op : j[o].at \in Leased}
<1>1. IsFiniteSet(held)
  BY OpAssumption, FS_Subset
<1>2. Cardinality(held) \in Nat
  BY <1>1, FS_CardinalityType
<1>3. Cardinality(held) = 0 <=> held = {}
  BY <1>1, FS_EmptySet
<1>4. Leases(e, j) = Cardinality(held) + (IF e.at \in {"untracked", "done"} THEN 0 ELSE 1)
  BY DEF Leases
<1>5. held = {} <=> \A o \in Op : j[o].at \notin Leased
  OBVIOUS
<1> HIDE DEF held
<1> QED
  BY <1>2, <1>3, <1>4, <1>5 DEF Unleased

\* No permit of the runtime is in use: nothing is left of the jobs.
LEMMA NoPermits ==
  ASSUME job \in [Op -> JobType], \A o \in Op : job[o].at \in Held => job[o].kind # None,
         ~(ActiveTasks > 0)
  PROVE  exec.at = "done" /\ \A o \in Op : job[o].at \notin Held
<1> DEFINE held == {o \in Op : job[o].kind \in AnyKind /\ job[o].at \in Held}
<1>1. IsFiniteSet(held)
  BY OpAssumption, FS_Subset
<1>2. Cardinality(held) \in Nat
  BY <1>1, FS_CardinalityType
<1>3. Cardinality(held) = 0 <=> held = {}
  BY <1>1, FS_EmptySet
<1>4. ActiveTasks = Cardinality(held) + (IF exec.at = "done" THEN 0 ELSE 1)
  BY DEF ActiveTasks, Permits
<1>5. held = {} => \A o \in Op : job[o].at \notin Held
  BY DEF JobType, AnyKind, None
<1> HIDE DEF held
<1> QED
  BY <1>2, <1>3, <1>4, <1>5

-----------------------------------------------------------------------------
(* Kinds of steps.                                                         *)

\* A job's request stays as settled as it is.
LEMMA JobSoundStays ==
  ASSUME NEW j, NEW c, NEW d, NEW o \in Op, MovesOn(c, d), JobSound(j, c, o)
  PROVE  JobSound(j, d, o)
BY DEF JobSound, MovesOn

\* A step of anyone else: callers, the parent, maintenance.
LEMMA OtherStep ==
  ASSUME ExInv, UNCHANGED <<exec, job, runtime, late>>, MovesOn(owner, owner'),
         exec.at = "prepare" => owner'.life \notin {"Active", "Quiescing"},
         Pinned(exec, job, owner')
  PROVE  ExInv'
<1> USE DEF ExInv
<1>1. Position(exec', owner')
  BY DEF Position, MovesOn, Hooks, Gone
<1>2. \A o \in Op : JobSound(job', owner', o)
  BY JobSoundStays
<1>3. runtime' # "open" => Fenced(owner') /\ ~owner'.note /\ ~owner'.supervised
  BY DEF MovesOn
<1>4. ClosedClean' => /\ exec'.at = "done" /\ owner'.life = "Stopped"
                      /\ \A o \in Op : job'[o].at \notin Held
  BY DEF MovesOn, ClosedClean
<1>5. Sound(owner')
  BY DEF MovesOn
<1> QED
  BY <1>1, <1>2, <1>3, <1>4, <1>5

\* A step of the executor, which is not done and has left its preparation.
LEMMA ExecStep ==
  ASSUME ExInv, UNCHANGED <<job, runtime, late>>, exec.at # "done",
         MovesOn(owner, owner'), exec' \in ExecType, exec'.at # "prepare",
         Position(exec', owner'), Pinned(exec', job, owner')
  PROVE  ExInv'
<1> USE DEF ExInv
<1>1. \A o \in Op : JobSound(job', owner', o)
  BY JobSoundStays
<1>2. runtime' # "open" => Fenced(owner') /\ ~owner'.note /\ ~owner'.supervised
  BY DEF MovesOn
<1>3. ~ClosedClean'
  BY DEF ClosedClean
<1>4. Sound(owner')
  BY DEF MovesOn
<1> QED
  BY <1>1, <1>2, <1>3, <1>4

\* The same while it keeps its lease.
LEMMA TurnStep ==
  ASSUME ExInv, UNCHANGED <<job, runtime, late>>, exec.at # "done",
         MovesOn(owner, owner'), exec' \in ExecType,
         exec'.at \notin {"prepare", "untracked", "done"}, Position(exec', owner')
  PROVE  ExInv'
<1>1. Pinned(exec', job, owner')
  BY DEF Pinned, Unleased
<1> QED
  BY <1>1, ExecStep

\* A step that only moves the executor to `at'.
LEMMA MoveStep ==
  ASSUME ExInv, NEW at \in Hooks \cup Steps, NEW c, Exec(at, c), exec.at # "done",
         at \notin {"prepare", "event", "untracked", "done"}, MovesOn(owner, c),
         at \in Hooks \cup {"failures", "quiesce", "claim", "settle", "timer"} =>
           c.life # "Starting",
         at \in {"quiescing", "draining"} \cup Gone => c.life \notin {"Starting", "Active"}
  PROVE  ExInv'
<1>1. /\ exec' = [exec EXCEPT !.at = at] /\ owner' = c /\ UNCHANGED <<job, runtime, late>>
  BY DEF Exec
<1>2. exec \in ExecType
  BY DEF ExInv
<1>3. exec' \in ExecType /\ exec'.at = at
  BY <1>1, <1>2 DEF ExecType
<1>4. Position(exec', owner')
  BY <1>1, <1>3 DEF Position
<1> QED
  BY <1>1, <1>3, <1>4, TurnStep

\* A step of a job that holds something: what comes after the work finds the
\* request decided or overdue.
LEMMA JobStepInv ==
  ASSUME ExInv, NEW o \in Op, job[o].at \in Held, NEW at \in Held \cup {"none"},
         JobMoves(o, at), MovesOn(owner, owner'),
         at \in Held \ Busy /\ job[o].kind # "timer" => owner'.op[o] \in Answered,
         Pinned(exec, job', owner')
  PROVE  ExInv'
<1> USE DEF ExInv
<1> DEFINE moved == [kind |-> IF at = "none" THEN None ELSE job[o].kind, at |-> at]
<1>1. /\ job' = [job EXCEPT ![o] = moved] /\ UNCHANGED <<exec, runtime, late>>
  BY DEF JobMoves
<1>2. job[o] \in JobType /\ job[o].kind # None
  BY DEF JobSound
<1>3. moved \in JobType /\ moved.at = at /\ (at # "none" => moved.kind = job[o].kind)
  BY <1>2 DEF JobType
<1> HIDE DEF moved
<1>4. /\ job' \in [Op -> JobType] /\ job'[o] = moved
      /\ \A p \in Op : p # o => job'[p] = job[p]
  BY <1>1, <1>3
<1>5. ASSUME NEW p \in Op PROVE JobSound(job', owner', p)
  <2>1. CASE p = o
    <3>1. owner'.op[o] # "idle"
      BY DEF JobSound, MovesOn
    <3>2. "none" \notin Held
      BY DEF Held, Leased, Reserved, Busy
    <3> QED
      BY <1>2, <1>3, <1>4, <2>1, <3>1, <3>2 DEF JobSound
  <2>2. CASE p # o
    <3>1. JobSound(job, owner', p)
      BY JobSoundStays
    <3> QED
      BY <1>4, <2>2, <3>1 DEF JobSound
  <2> QED
    BY <2>1, <2>2
<1>6. ~ClosedClean
  BY DEF ClosedClean
<1>7. Position(exec', owner')
  <2>1. exec.at = "prepare" => owner'.life \notin {"Active", "Quiescing"}
    <3>1. owner.life # "Starting" /\ owner.life \in Life
      BY DEF JobSound, Sound, OwnerType
    <3>2. exec.at = "prepare" => Fenced(owner)
      BY <3>1 DEF Position, Fenced, Life
    <3> QED
      BY <3>2 DEF MovesOn, Fenced
  <2> QED
    BY <1>1, <2>1 DEF Position, MovesOn, Hooks, Gone
<1>8. runtime' # "open" => Fenced(owner') /\ ~owner'.note /\ ~owner'.supervised
  BY <1>1 DEF MovesOn
<1>9. Sound(owner') /\ ~ClosedClean'
  BY <1>1, <1>6 DEF MovesOn, ClosedClean
<1> QED
  BY <1>1, <1>4, <1>5, <1>7, <1>8, <1>9

-----------------------------------------------------------------------------
(* The World's steps.                                                      *)

\* The changes of the actor that are plain assignments.
LEMMA OwnerSets ==
  ASSUME NEW c, Sound(c)
  PROVE  /\ \A q \in Seq(Op) : MovesOn(c, [c EXCEPT !.queue = q])
         /\ \A b \in BOOLEAN : MovesOn(c, [c EXCEPT !.kids = b])
         /\ MovesOn(c, [c EXCEPT !.note = FALSE])
         /\ MovesOn(c, [c EXCEPT !.note = FALSE, !.supervised = FALSE])
<1>1. c \in OwnerType
  BY DEF Sound
<1>2. ASSUME NEW q \in Seq(Op) PROVE MovesOn(c, [c EXCEPT !.queue = q])
  <2> DEFINE d == [c EXCEPT !.queue = q]
  <2>1. /\ d \in OwnerType /\ d.life = c.life /\ d.op = c.op /\ d.note = c.note
        /\ d.supervised = c.supervised
    BY <1>1, <1>2 DEF OwnerType
  <2> HIDE DEF d
  <2>2. MovesOn(c, d)
    BY <2>1 DEF MovesOn, Sound, Fenced
  <2> QED
    BY <2>2 DEF d
<1>3. ASSUME NEW b \in BOOLEAN PROVE MovesOn(c, [c EXCEPT !.kids = b])
  <2> DEFINE d == [c EXCEPT !.kids = b]
  <2>1. /\ d \in OwnerType /\ d.life = c.life /\ d.op = c.op /\ d.note = c.note
        /\ d.supervised = c.supervised
    BY <1>1, <1>3 DEF OwnerType
  <2> HIDE DEF d
  <2>2. MovesOn(c, d)
    BY <2>1 DEF MovesOn, Sound, Fenced
  <2> QED
    BY <2>2 DEF d
<1>4. MovesOn(c, [c EXCEPT !.note = FALSE])
  <2> DEFINE d == [c EXCEPT !.note = FALSE]
  <2>1. /\ d \in OwnerType /\ d.life = c.life /\ d.op = c.op /\ ~d.note
        /\ d.supervised = c.supervised
    BY <1>1 DEF OwnerType
  <2> HIDE DEF d
  <2>2. MovesOn(c, d)
    BY <2>1 DEF MovesOn, Sound, Fenced
  <2> QED
    BY <2>2 DEF d
<1>5. MovesOn(c, [c EXCEPT !.note = FALSE, !.supervised = FALSE])
  <2> DEFINE d == [c EXCEPT !.note = FALSE, !.supervised = FALSE]
  <2>1. /\ d \in OwnerType /\ d.life = c.life /\ d.op = c.op /\ ~d.note /\ ~d.supervised
    BY <1>1 DEF OwnerType
  <2> HIDE DEF d
  <2>2. MovesOn(c, d)
    BY <2>1 DEF MovesOn, Sound, Fenced
  <2> QED
    BY <2>2 DEF d
<1> QED
  BY <1>2, <1>3, <1>4, <1>5

\* An actor that was settled last is pinned or gone.
LEMMA SettledPinned ==
  ASSUME NEW c, Sound(c), NEW e, NEW j
  PROVE  Pinned(e, j, Settle(c, Leases(e, j)))
<1> DEFINE n == Leases(e, j)
<1>1. n = 0 <=> Unleased(e, j)
  BY LeasesCount
<1> HIDE DEF n
<1>2. Settle(c, n).life = "Stopping" => n # 0 \/ Settle(c, n).note
  BY SettleMoves
<1>3. Pinned(e, j, Settle(c, n))
  BY <1>1, <1>2 DEF Pinned
<1> QED
  BY <1>3 DEF n

\* A step of the others that ends in try_finalize.
LEMMA SettlingStep ==
  ASSUME ExInv, NEW c, MovesOn(owner, c), Others(Settle(c, Leases(exec, job))),
         exec.at = "prepare" => c.life \notin {"Active", "Quiescing"}
  PROVE  ExInv'
<1> DEFINE d == Settle(c, Leases(exec, job))
<1>1. Sound(c)
  BY DEF MovesOn
<1>2. MovesOn(c, d) /\ Pinned(exec, job, d) /\ d.life \in {c.life, "Stopped"}
  BY <1>1, SettleMoves, SettledPinned
<1>3. owner' = d /\ UNCHANGED <<exec, job, runtime, late>>
  BY DEF Others
<1> HIDE DEF d
<1>4. MovesOn(owner, d)
  BY <1>2, MovesOnTrans
<1>5. exec.at = "prepare" => d.life \notin {"Active", "Quiescing"}
  BY <1>2
<1> QED
  BY <1>2, <1>3, <1>4, <1>5, OtherStep

\* A step of the others that keeps the life and the notice.
LEMMA SameLifeStep ==
  ASSUME ExInv, NEW c, MovesOn(owner, c), c.life = owner.life, c.note = owner.note, Others(c)
  PROVE  ExInv'
<1>1. owner' = c /\ UNCHANGED <<exec, job, runtime, late>>
  BY DEF Others
<1>2. Pinned(exec, job, c) /\ (exec.at = "prepare" => c.life \notin {"Active", "Quiescing"})
  BY DEF ExInv, Pinned, Position
<1> QED
  BY <1>1, <1>2, OtherStep

\* Activation, requests and drains.
LEMMA LifeSets ==
  ASSUME NEW c, Sound(c)
  PROVE  /\ c.life = "Starting" => MovesOn(c, [c EXCEPT !.life = "Active"])
         /\ c.life = "Active" => MovesOn(c, [c EXCEPT !.life = "Quiescing"])
         /\ \A o \in Op : c.life = "Active" /\ c.op[o] = "idle" =>
              LET d == [c EXCEPT !.op[o] = "pending", !.queue = Append(@, o)]
              IN  MovesOn(c, d) /\ d.life = c.life /\ d.note = c.note
<1>1. c \in OwnerType
  BY DEF Sound
<1>2. CASE c.life = "Starting"
  <2> DEFINE d == [c EXCEPT !.life = "Active"]
  <2>1. /\ d \in OwnerType /\ d.life = "Active" /\ d.op = c.op /\ d.note = c.note
        /\ d.supervised = c.supervised
    BY <1>1 DEF OwnerType, Life
  <2> HIDE DEF d
  <2>2. MovesOn(c, d)
    BY <1>2, <2>1 DEF MovesOn, Sound, Fenced
  <2> QED
    BY <1>2, <2>2 DEF d
<1>3. CASE c.life = "Active"
  <2> DEFINE d == [c EXCEPT !.life = "Quiescing"]
  <2>1. /\ d \in OwnerType /\ d.life = "Quiescing" /\ d.op = c.op /\ d.note = c.note
        /\ d.supervised = c.supervised
    BY <1>1 DEF OwnerType, Life
  <2> HIDE DEF d
  <2>2. MovesOn(c, d)
    BY <1>3, <2>1 DEF MovesOn, Sound, Fenced
  <2>3. ASSUME NEW o \in Op, c.op[o] = "idle"
        PROVE  LET e == [c EXCEPT !.op[o] = "pending", !.queue = Append(@, o)]
               IN  MovesOn(c, e) /\ e.life = c.life /\ e.note = c.note
    <3> DEFINE ops == [c.op EXCEPT ![o] = "pending"]
               q == Append(c.queue, o)
               e == [c EXCEPT !.op = ops, !.queue = q]
    <3>1. c.op \in [Op -> {"idle", "decided"} \cup Undecided] /\ q \in Seq(Op)
      BY <1>1 DEF OwnerType
    <3>2. /\ ops \in [Op -> {"idle", "decided"} \cup Undecided] /\ ops[o] = "pending"
          /\ \A p \in Op : p # o => ops[p] = c.op[p]
      BY <3>1 DEF Undecided
    <3>3. [c EXCEPT !.op[o] = "pending", !.queue = Append(@, o)] = e
      BY <1>1 DEF OwnerType
    <3> HIDE DEF ops, q
    <3>4. /\ e \in OwnerType /\ e.life = c.life /\ e.op = ops /\ e.note = c.note
          /\ e.supervised = c.supervised
      BY <1>1, <3>1, <3>2 DEF OwnerType
    <3> HIDE DEF e
    <3>5. MovesOn(c, e)
      BY <1>3, <2>3, <3>2, <3>4 DEF MovesOn, Sound, Fenced, Answered, Undecided
    <3> QED
      BY <3>3, <3>4, <3>5
  <2> QED
    BY <1>3, <2>2, <2>3 DEF d
<1> QED
  BY <1>2, <1>3

\* A deadline passes.
LEMMA OverdueMoves ==
  ASSUME NEW c, Sound(c), NEW o \in Op, c.op[o] = "pending"
  PROVE  LET d == [c EXCEPT !.op[o] = "overdue"]
         IN  MovesOn(c, d) /\ d.life = c.life /\ d.note = c.note
<1> DEFINE ops == [c.op EXCEPT ![o] = "overdue"]
           d == [c EXCEPT !.op = ops]
<1>1. c \in OwnerType /\ c.op \in [Op -> {"idle", "decided"} \cup Undecided]
  BY DEF Sound, OwnerType
<1>2. /\ ops \in [Op -> {"idle", "decided"} \cup Undecided] /\ ops[o] = "overdue"
      /\ \A p \in Op : p # o => ops[p] = c.op[p]
  BY <1>1 DEF Undecided
<1>3. [c EXCEPT !.op[o] = "overdue"] = d
  BY <1>1 DEF OwnerType
<1>4. c.life # "Starting" /\ ~Fenced(c)
  BY DEF Sound, Undecided
<1> HIDE DEF ops
<1>5. /\ d \in OwnerType /\ d.life = c.life /\ d.op = ops /\ d.note = c.note
      /\ d.supervised = c.supervised
  BY <1>1, <1>2 DEF OwnerType
<1> HIDE DEF d
<1>6. Sound(d)
  BY <1>4, <1>5 DEF Sound, Fenced
<1>7. MovesOn(c, d)
  BY <1>2, <1>5, <1>6 DEF MovesOn, Fenced, Answered
<1> QED
  BY <1>3, <1>5, <1>7

\* Dropping a delivery leaves a mailbox of requests.
LEMMA WithoutType ==
  ASSUME NEW q \in Seq(Op), NEW o
  PROVE  Without(q, o) \in Seq(Op)
<1> DEFINE at == CHOOSE i \in DOMAIN q : q[i] = o
           before == SubSeq(q, 1, at - 1)
           after == SubSeq(q, at + 1, Len(q))
<1>1. CASE \E i \in DOMAIN q : q[i] = o
  <2>1. at \in 1..Len(q) /\ Len(q) \in Nat
    BY <1>1
  <2> HIDE DEF at
  <2>2. at \in Int /\ at - 1 \in Int /\ at + 1 \in Int /\ Len(q) \in Int
    BY <2>1
  <2>3. /\ \A i \in 1..(at - 1) : q[i] \in Op
        /\ \A i \in (at + 1)..Len(q) : q[i] \in Op
    BY <2>1
  <2>4. before \in Seq(Op)
    BY <2>2, <2>3, SubSeqProperties
  <2>5. after \in Seq(Op)
    BY <2>2, <2>3, SubSeqProperties
  <2> HIDE DEF before, after
  <2>6. before \o after \in Seq(Op)
    BY <2>4, <2>5, ConcatProperties
  <2> QED
    BY <1>1, <2>6 DEF Without, before, after, at
<1>2. CASE ~\E i \in DOMAIN q : q[i] = o
  BY <1>2 DEF Without
<1> QED
  BY <1>1, <1>2

World ==
  \/ \E o \in Op : Request(o) \/ OpOverdue(o) \/ OpExpires(o) \/ OpCancelled(o)
  \/ Activate \/ ChildFails \/ ParentClaims \/ ParentStops \/ UpstreamEnds
  \/ RequestDrain \/ DrainCompletes \/ DrainExpires \/ Stop

LEMMA WorldStep == ASSUME ExInv, World PROVE ExInv'
<1>0. Sound(owner)
  BY DEF ExInv
<1>1. ASSUME NEW o \in Op, Request(o) PROVE ExInv'
  <2> DEFINE c == [owner EXCEPT !.op[o] = "pending", !.queue = Append(@, o)]
  <2>1. MovesOn(owner, c) /\ c.life = owner.life /\ c.note = owner.note
    BY <1>0, <1>1, LifeSets DEF Request
  <2>2. Others(c)
    BY <1>1 DEF Request
  <2> HIDE DEF c
  <2> QED
    BY <2>1, <2>2, SameLifeStep
<1>2. ASSUME NEW o \in Op, OpExpires(o) \/ OpCancelled(o) PROVE ExInv'
  <2> DEFINE c == Decide(owner, o)
             q == Without(c.queue, o)
             d == [c EXCEPT !.queue = q]
  <2>1. MovesOn(owner, c) /\ c.life = owner.life /\ c.note = owner.note
    BY <1>0, DecideMoves
  <2>2. Others(c) \/ Others(d)
    BY <1>2 DEF OpExpires, OpCancelled
  <2> HIDE DEF c
  <2>3. Sound(c) /\ c \in OwnerType
    BY <2>1 DEF MovesOn, Sound
  <2>4. q \in Seq(Op)
    BY <2>3, WithoutType DEF OwnerType
  <2> HIDE DEF q
  <2>5. MovesOn(c, d) /\ d.life = c.life /\ d.note = c.note
    BY <2>3, <2>4, OwnerSets DEF OwnerType
  <2> HIDE DEF d
  <2>6. MovesOn(owner, d)
    BY <2>1, <2>5, MovesOnTrans
  <2> QED
    BY <2>1, <2>2, <2>5, <2>6, SameLifeStep
<1>3. CASE Activate
  <2> DEFINE c == [owner EXCEPT !.life = "Active"]
  <2>1. MovesOn(owner, c) /\ c.life = "Active" /\ exec.at # "prepare"
    BY <1>0, <1>3, LifeSets DEF Activate, Prepared, Sound, OwnerType
  <2>2. owner' = c /\ UNCHANGED <<exec, job, runtime, late>>
    BY <1>3 DEF Activate, Others
  <2> HIDE DEF c
  <2>3. Pinned(exec, job, c)
    BY <2>1 DEF Pinned
  <2> QED
    BY <2>1, <2>2, <2>3, OtherStep
<1>4. CASE ChildFails
  <2> DEFINE c == [owner EXCEPT !.kids = TRUE]
  <2>1. MovesOn(owner, c) /\ c.life = owner.life /\ c.note = owner.note
    BY <1>0, OwnerSets DEF Sound, OwnerType
  <2>2. Others(c)
    BY <1>4 DEF ChildFails
  <2> HIDE DEF c
  <2> QED
    BY <2>1, <2>2, SameLifeStep
<1>5. CASE ParentClaims
  <2> DEFINE c == [owner EXCEPT !.note = FALSE]
  <2>1. MovesOn(owner, c) /\ c.life = owner.life
    BY <1>0, OwnerSets DEF Sound, OwnerType
  <2>2. Others(Settle(c, Leases(exec, job)))
    BY <1>5 DEF ParentClaims
  <2> HIDE DEF c
  <2>3. exec.at = "prepare" => c.life \notin {"Active", "Quiescing"}
    BY <2>1 DEF ExInv, Position
  <2> QED
    BY <2>1, <2>2, <2>3, SettlingStep
<1>6. CASE ParentStops
  <2> DEFINE c == [owner EXCEPT !.note = FALSE, !.supervised = FALSE]
  <2>1. MovesOn(owner, c) /\ c.life = owner.life
    BY <1>0, OwnerSets DEF Sound, OwnerType
  <2>2. Others(Settle(c, Leases(exec, job)))
    BY <1>6 DEF ParentStops
  <2> HIDE DEF c
  <2>3. exec.at = "prepare" => c.life \notin {"Active", "Quiescing"}
    BY <2>1 DEF ExInv, Position
  <2> QED
    BY <2>1, <2>2, <2>3, SettlingStep
<1>7. CASE UpstreamEnds
  <2>1. owner' = owner /\ UNCHANGED <<exec, job, runtime, late>>
    BY <1>7 DEF UpstreamEnds
  <2>2. MovesOn(owner, owner')
    BY <1>0, <2>1, MovesOnRefl
  <2>3. Pinned(exec, job, owner') /\ (exec.at = "prepare" => owner'.life \notin {"Active", "Quiescing"})
    BY <2>1 DEF ExInv, Position
  <2> QED
    BY <2>1, <2>2, <2>3, OtherStep
<1>8. ASSUME Others(Settle(Fence(owner), Leases(exec, job))) PROVE ExInv'
  <2>1. MovesOn(owner, Fence(owner)) /\ Fence(owner).life \notin {"Active", "Quiescing"}
    BY <1>0, FenceMoves DEF Fenced
  <2> QED
    BY <1>8, <2>1, SettlingStep
<1>9. ASSUME Others(Settle(FenceWithParent(owner), Leases(exec, job))) PROVE ExInv'
  <2>1. /\ MovesOn(owner, FenceWithParent(owner))
        /\ FenceWithParent(owner).life \notin {"Active", "Quiescing"}
    BY <1>0, FenceWithParentMoves DEF Fenced
  <2> QED
    BY <1>9, <2>1, SettlingStep
<1>10. CASE RequestDrain
  <2>1. CASE owner.life = "Starting"
    <3>1. owner' = Fence(owner) /\ UNCHANGED <<exec, job, runtime, late>>
      BY <1>10, <2>1 DEF RequestDrain, Others
    <3>2. MovesOn(owner, Fence(owner)) /\ Fence(owner).life \notin {"Active", "Quiescing"}
      BY <1>0, FenceMoves DEF Fenced
    <3>3. ~Unleased(exec, job)
      BY <2>1 DEF ExInv, Position, Gone, Unleased
    <3> QED
      BY <3>1, <3>2, <3>3, OtherStep DEF Pinned
  <2>2. CASE owner.life = "Active"
    <3> DEFINE c == [owner EXCEPT !.life = "Quiescing"]
    <3>1. MovesOn(owner, c) /\ c.life = "Quiescing" /\ exec.at # "prepare"
      BY <1>0, <1>10, <2>2, LifeSets DEF RequestDrain, Prepared, Sound, OwnerType
    <3>2. owner' = c /\ UNCHANGED <<exec, job, runtime, late>>
      BY <1>10, <2>2 DEF RequestDrain, Others
    <3> HIDE DEF c
    <3> QED
      BY <3>1, <3>2, OtherStep DEF Pinned
  <2> QED
    BY <1>10, <2>1, <2>2 DEF RequestDrain
<1>11. CASE DrainCompletes
  BY <1>8, <1>11 DEF DrainCompletes
<1>12. CASE DrainExpires
  BY <1>8, <1>12 DEF DrainExpires
<1>13. CASE Stop
  BY <1>8, <1>9, <1>13 DEF Stop
<1>14. ASSUME NEW o \in Op, OpOverdue(o) PROVE ExInv'
  <2> DEFINE d == [owner EXCEPT !.op[o] = "overdue"]
  <2>1. MovesOn(owner, d) /\ d.life = owner.life /\ d.note = owner.note
    BY <1>0, <1>14, OverdueMoves DEF OpOverdue
  <2>2. owner' = d /\ UNCHANGED <<exec, job, runtime, late>>
    BY <1>14 DEF OpOverdue
  <2> HIDE DEF d
  <2>3. Pinned(exec, job, d) /\ (exec.at = "prepare" => d.life \notin {"Active", "Quiescing"})
    BY <2>1 DEF ExInv, Pinned, Position
  <2> QED
    BY <2>1, <2>2, <2>3, OtherStep
<1> QED
  BY <1>1, <1>2, <1>3, <1>4, <1>5, <1>6, <1>7, <1>10, <1>11, <1>12, <1>13, <1>14 DEF World

-----------------------------------------------------------------------------
(* The executor's steps.                                                   *)

\* The end of a handler.
LEMMA EventEndsStep ==
  ASSUME ExInv, exec.at = "event", NEW c, MovesOn(owner, c), NEW panic \in BOOLEAN,
         EventEnds(c, panic, job), panic => Fenced(c)
  PROVE  ExInv'
<1> DEFINE at == IF panic THEN "cleanup" ELSE "claim"
<1>1. /\ exec' = [exec EXCEPT !.at = at, !.panicked = panic, !.current = None, !.consumed = @ + 1]
      /\ owner' = c /\ UNCHANGED <<job, runtime, late>>
  BY DEF EventEnds
<1>2. at \in {"cleanup", "claim"} /\ (at = "cleanup" => panic)
  OBVIOUS
<1> HIDE DEF at
<1>3. exec \in ExecType
  BY DEF ExInv
<1>4. exec' \in ExecType /\ exec'.at = at
  <2> DEFINE n == exec.consumed + 1
  <2>1. n \in Nat /\ at \in Hooks \cup Steps /\ None \in Op \cup {None}
    BY <1>2, <1>3 DEF ExecType, Hooks, Steps
  <2>2. exec' = [exec EXCEPT !.at = at, !.panicked = panic, !.current = None, !.consumed = n]
    BY <1>1, <1>3 DEF ExecType
  <2> HIDE DEF n
  <2> QED
    BY <1>3, <2>1, <2>2 DEF ExecType
<1>5. owner.life # "Starting"
  BY DEF ExInv, Position, Hooks
<1>6. Position(exec', owner')
  BY <1>1, <1>2, <1>4, <1>5 DEF Position, MovesOn, Fenced, Hooks, Gone
<1> QED
  BY <1>1, <1>2, <1>4, <1>6, TurnStep

\* A handler that fails.
LEMMA HandlerFailsStep ==
  ASSUME ExInv, exec.at = "event", NEW panic \in BOOLEAN, HandlerFails(panic)
  PROVE  ExInv'
<1>1. exec.current \in Op \cup {None} /\ Sound(owner)
  BY DEF ExInv, ExecType
<1>2. PICK action \in (IF panic THEN {"StopActor"} ELSE FailureActions) :
        EventEnds(Report(owner, exec.current, action), panic, job)
  BY DEF HandlerFails
<1> DEFINE c == Report(owner, exec.current, action)
<1>3. MovesOn(owner, c) /\ (panic => Fenced(c))
  BY <1>1, <1>2, ReportMoves
<1>4. EventEnds(c, panic, job)
  BY <1>2
<1> HIDE DEF c
<1> QED
  BY <1>3, <1>4, EventEndsStep

\* A deferral or a timer: the job is admitted for the request at hand, or the
\* handler fails.
LEMMA AdmitStep ==
  ASSUME ExInv, exec.at = "event", NEW kind \in {"async", "cpu", "timer"},
         NEW admissible, Admit(kind, admissible)
  PROVE  ExInv'
<1> USE DEF ExInv
<1>1. CASE ~admissible
  <2>1. HandlerFails(FALSE)
    BY <1>1 DEF Admit
  <2> QED
    BY <2>1, HandlerFailsStep
<1>2. CASE admissible
  <2> DEFINE new == [kind |-> kind, at |-> IF kind = "cpu" THEN "waiting" ELSE "running"]
  <2>1. /\ exec' = [exec EXCEPT !.at = "claim", !.panicked = FALSE, !.current = None,
                                !.consumed = @ + 1]
        /\ owner' = owner /\ job' = [job EXCEPT ![exec.current] = new]
        /\ UNCHANGED <<runtime, late>>
    BY <1>2 DEF Admit, EventEnds
  <2>2. exec.current \in Op /\ owner.op[exec.current] # "idle" /\ owner.life # "Starting"
    BY DEF Position, Hooks
  <2>3. new \in JobType /\ new.at \in Busy /\ new.kind # None
    BY DEF JobType, Held, Leased, Reserved, Busy, None
  <2>4. exec' \in ExecType /\ exec'.at = "claim"
    <3> DEFINE n == exec.consumed + 1
    <3>1. n \in Nat /\ "claim" \in Hooks \cup Steps /\ None \in Op \cup {None}
      BY DEF ExecType, Hooks, Steps
    <3>2. exec' = [exec EXCEPT !.at = "claim", !.panicked = FALSE, !.current = None,
                               !.consumed = n]
      BY <2>1 DEF ExecType
    <3> HIDE DEF n
    <3> QED
      BY <3>1, <3>2 DEF ExecType
  <2> HIDE DEF new
  <2>5. /\ job' \in [Op -> JobType] /\ job'[exec.current] = new
        /\ \A o \in Op : o # exec.current => job'[o] = job[o]
    BY <2>1, <2>2, <2>3
  <2>6. \A o \in Op : JobSound(job', owner', o)
    BY <2>1, <2>2, <2>3, <2>5 DEF JobSound
  <2>7. Position(exec', owner')
    BY <2>1, <2>2, <2>4 DEF Position, Gone
  <2>8. Pinned(exec', job', owner')
    BY <2>4 DEF Pinned, Unleased
  <2>9. ~ClosedClean'
    BY <2>1 DEF ClosedClean
  <2> QED
    BY <2>1, <2>4, <2>5, <2>6, <2>7, <2>8, <2>9
<1> QED
  BY <1>1, <1>2

\* Preparation.
LEMMA PrepareStep == ASSUME ExInv, PrepareFails \/ PrepareSucceeds PROVE ExInv'
<1>0. Sound(owner) /\ exec \in ExecType /\ owner.life \in Life
  BY DEF ExInv, Sound, OwnerType
<1>1. CASE PrepareFails
  <2>1. PICK next \in {"cleanup", "release"} : Exec(next, Report(owner, None, "StopActor"))
    BY <1>1 DEF PrepareFails
  <2> DEFINE c == Report(owner, None, "StopActor")
  <2>2. MovesOn(owner, c) /\ Fenced(c)
    BY <1>0, ReportMoves
  <2>3. Exec(next, c) /\ exec.at # "done" /\ next \in Hooks \cup Steps
    BY <1>1, <2>1 DEF PrepareFails, Steps
  <2> HIDE DEF c
  <2> QED
    BY <2>2, <2>3, MoveStep DEF Fenced
<1>2. CASE PrepareSucceeds
  <2> DEFINE at == IF owner.life = "Starting" THEN "top" ELSE "cleanup"
  <2>1. Exec(at, owner) /\ exec.at # "done"
    BY <1>2 DEF PrepareSucceeds
  <2>2. owner.life = "Starting" \/ Fenced(owner)
    BY <1>0, <1>2 DEF ExInv, Position, PrepareSucceeds, Life, Fenced
  <2>3. at \in {"top", "cleanup"} /\ (at = "cleanup" => Fenced(owner)) /\ at \in Hooks \cup Steps
    BY <2>2 DEF Steps
  <2>4. MovesOn(owner, owner)
    BY <1>0, MovesOnRefl
  <2> HIDE DEF at
  <2>5. at \notin Hooks \cup {"failures", "quiesce", "claim", "settle", "timer"}
    BY <2>3 DEF Hooks
  <2>6. at \in {"quiescing", "draining"} \cup Gone => owner.life \notin {"Starting", "Active"}
    BY <2>3 DEF Fenced, Gone
  <2> QED
    BY <2>1, <2>3, <2>4, <2>5, <2>6, MoveStep
<1> QED
  BY <1>1, <1>2

\* The top of a turn.
LEMMA InspectStep == ASSUME ExInv, Snapshot \/ Inspect \/ Wake \/ TickDue PROVE ExInv'
<1>0. Sound(owner) /\ exec \in ExecType /\ owner.life \in Life /\ MovesOn(owner, owner)
  BY MovesOnRefl DEF ExInv, Sound, OwnerType
<1>1. CASE Snapshot
  <2>1. exec' = [exec EXCEPT !.at = "inspect", !.consumed = 0] /\ exec.at # "done"
    BY <1>1 DEF Snapshot
  <2>2. exec' \in ExecType /\ exec'.at = "inspect"
    BY <1>0, <2>1 DEF ExecType, Steps
  <2>3. UNCHANGED <<owner, job, runtime, late>>
    BY <1>1 DEF Snapshot
  <2>4. Position(exec', owner')
    BY <2>2 DEF Position, Hooks, Gone
  <2> QED
    BY <1>0, <2>1, <2>2, <2>3, <2>4, TurnStep
<1>2. CASE Inspect
  <2>1. UNCHANGED <<owner, job, runtime, late>> /\ exec.at # "done"
    BY <1>2 DEF Inspect
  <2>2. CASE Fenced(owner)
    <3>1. exec' = [exec EXCEPT !.at = "cleanup"]
      BY <1>2, <2>2 DEF Inspect, Fenced
    <3>2. exec' \in ExecType /\ exec'.at = "cleanup"
      BY <1>0, <3>1 DEF ExecType, Steps
    <3>3. Position(exec', owner')
      BY <2>1, <2>2, <3>2 DEF Position, Hooks, Gone, Fenced
    <3> QED
      BY <1>0, <2>1, <3>2, <3>3, TurnStep
  <2>3. CASE ~Fenced(owner)
    <3> DEFINE at == IF owner.life = "Starting" THEN "asleep" ELSE "failures"
    <3>1. exec' = [exec EXCEPT !.seen = owner.life, !.at = at]
      BY <1>2, <2>3 DEF Inspect, Fenced
    <3>2. owner.life \in {"Starting", "Active", "Quiescing"}
      BY <1>0, <2>3 DEF Fenced, Life
    <3>3. at \in {"asleep", "failures"} /\ (at = "failures" => owner.life # "Starting")
      OBVIOUS
    <3> HIDE DEF at
    <3>4. exec' \in ExecType /\ exec'.at = at
      BY <1>0, <3>1, <3>2, <3>3 DEF ExecType, Steps
    <3>5. Position(exec', owner')
      BY <2>1, <3>3, <3>4 DEF Position, Hooks, Gone
    <3> QED
      BY <1>0, <2>1, <3>3, <3>4, <3>5, TurnStep
  <2> QED
    BY <2>2, <2>3
<1>3. CASE Wake \/ TickDue
  <2>1. Exec("top", owner) /\ exec.at # "done" /\ "top" \in Steps
    BY <1>3 DEF Wake, TickDue, Steps
  <2>2. "top" \notin Hooks \cup {"failures", "quiesce", "claim", "settle", "timer"}
    BY DEF Hooks
  <2> QED
    BY <1>0, <2>1, <2>2, MoveStep DEF Gone
<1> QED
  BY <1>1, <1>2, <1>3

\* A hook that ends badly.
LEMMA HookFailsStep ==
  ASSUME ExInv, exec.at # "done", NEW p \in BOOLEAN,
         exec' = [exec EXCEPT !.at = "cleanup", !.panicked = p],
         Fenced(owner'), MovesOn(owner, owner'), UNCHANGED <<job, runtime, late>>
  PROVE  ExInv'
<1>1. exec \in ExecType
  BY DEF ExInv
<1>2. exec' \in ExecType /\ exec'.at = "cleanup"
  BY <1>1 DEF ExecType, Steps
<1>3. Position(exec', owner')
  BY <1>2 DEF Position, Hooks, Gone, Fenced
<1> QED
  BY <1>2, <1>3, TurnStep

\* The supervision of children.
LEMMA SuperviseStep == ASSUME ExInv, ClaimFailure \/ Supervise PROVE ExInv'
<1>0. Sound(owner) /\ exec \in ExecType /\ owner.life \in Life /\ MovesOn(owner, owner)
  BY MovesOnRefl DEF ExInv, Sound, OwnerType
<1>1. CASE ClaimFailure
  <2>1. exec.at = "failures" /\ owner.life # "Starting"
    BY <1>1 DEF ExInv, Position, ClaimFailure
  <2>2. "supervise" \in Hooks \cup Steps /\ "quiesce" \in Hooks \cup Steps
    BY DEF Hooks, Steps
  <2>3. CASE owner.kids /\ Live(owner)
    <3> DEFINE c == [owner EXCEPT !.kids = FALSE]
    <3>1. MovesOn(owner, c) /\ c.life = owner.life
      BY <1>0, OwnerSets DEF Sound, OwnerType
    <3>2. Exec("supervise", c)
      BY <1>1, <2>3 DEF ClaimFailure
    <3> HIDE DEF c
    <3> QED
      BY <2>1, <2>2, <3>1, <3>2, MoveStep DEF Gone
  <2>4. CASE ~(owner.kids /\ Live(owner))
    <3>1. Exec("quiesce", owner)
      BY <1>1, <2>4 DEF ClaimFailure
    <3> QED
      BY <1>0, <2>1, <2>2, <3>1, MoveStep DEF Gone
  <2> QED
    BY <2>3, <2>4
<1>2. CASE Supervise
  <2>1. exec.at = "supervise" /\ owner.life # "Starting"
    BY <1>2 DEF ExInv, Position, Supervise, Hooks
  <2>2. "cleanup" \in Hooks \cup Steps /\ "quiesce" \in Hooks \cup Steps
    BY DEF Hooks, Steps
  <2> DEFINE f == FenceWithParent(owner)
  <2>3. MovesOn(owner, f) /\ Fenced(f)
    BY <1>0, FenceWithParentMoves
  <2>4. ASSUME NEW c, MovesOn(owner, c), Exec(IF Live(c) THEN "quiesce" ELSE "cleanup", c)
        PROVE  ExInv'
    <3>1. c.life # "Starting" /\ c.life \in Life
      BY <2>1, <2>4 DEF MovesOn, Sound, OwnerType
    <3>2. CASE Live(c)
      <4>1. Exec("quiesce", c)
        BY <2>4, <3>2
      <4> QED
        BY <2>1, <2>2, <2>4, <3>1, <4>1, MoveStep DEF Gone
    <3>3. CASE ~Live(c)
      <4>1. Exec("cleanup", c) /\ c.life \notin {"Starting", "Active"}
        BY <2>4, <3>1, <3>3 DEF Live, Life
      <4>2. "cleanup" \notin Hooks
        BY DEF Hooks
      <4> QED
        BY <2>1, <2>2, <2>4, <4>1, <4>2, MoveStep
    <3> QED
      BY <3>2, <3>3
  <2>5. CASE Exec("cleanup", f)
    <3>1. "cleanup" \notin Hooks
      BY DEF Hooks
    <3> HIDE DEF f
    <3> QED
      BY <2>1, <2>2, <2>3, <2>5, <3>1, MoveStep DEF Fenced
  <2>6. CASE /\ exec' = [exec EXCEPT !.at = "cleanup", !.panicked = TRUE]
             /\ owner' = f /\ UNCHANGED <<upstream, job, runtime, late>>
    BY <2>1, <2>3, <2>6, HookFailsStep
  <2>7. ASSUME NEW stop \in BOOLEAN, NEW c, c = (IF stop THEN f ELSE owner),
               Exec(IF Live(c) THEN "quiesce" ELSE "cleanup", c)
        PROVE  ExInv'
    <3>1. MovesOn(owner, c)
      BY <1>0, <2>3, <2>7
    <3> QED
      BY <2>4, <2>7, <3>1
  <2> QED
    BY <1>2, <2>5, <2>6, <2>7 DEF Supervise
<1> QED
  BY <1>1, <1>2

\* The callbacks of a drain.
LEMMA QuiesceStep == ASSUME ExInv, Quiesce \/ OnQuiesce \/ OnDrain PROVE ExInv'
<1>0. Sound(owner) /\ exec \in ExecType /\ owner.life \in Life /\ MovesOn(owner, owner)
  BY MovesOnRefl DEF ExInv, Sound, OwnerType
<1>1. CASE Quiesce
  <2>1. exec.at = "quiesce" /\ owner.life # "Starting" /\ UNCHANGED <<owner, job, runtime, late>>
    BY <1>1 DEF ExInv, Position, Quiesce
  <2>2. PICK at \in {"claim", "asleep", "quiescing"} :
          /\ exec' = [exec EXCEPT !.at = at, !.seen = "Starting",
                                  !.quiescing = @ \/ at = "quiescing"]
          /\ at = "quiescing" => owner.life = "Quiescing"
    BY <1>1 DEF Quiesce, DrainHookFree
  <2> DEFINE q == exec.quiescing \/ at = "quiescing"
  <2>3. q \in BOOLEAN /\ exec' = [exec EXCEPT !.at = at, !.seen = "Starting", !.quiescing = q]
    BY <1>0, <2>2 DEF ExecType
  <2> HIDE DEF q
  <2>4. exec' \in ExecType /\ exec'.at = at
    BY <1>0, <2>2, <2>3 DEF ExecType, Hooks, Steps
  <2>5. Position(exec', owner')
    BY <2>1, <2>2, <2>4 DEF Position, Hooks, Gone
  <2> QED
    BY <1>0, <2>1, <2>2, <2>4, <2>5, TurnStep
<1>2. CASE HookFails /\ exec.at # "done"
  <2>1. PICK f \in Faults :
          /\ exec' = [exec EXCEPT !.at = "cleanup", !.panicked = (f = "panic")]
          /\ owner' = Report(owner, None, "StopActor") /\ UNCHANGED <<upstream, job, runtime, late>>
    BY <1>2 DEF HookFails
  <2> DEFINE p == (f = "panic")
  <2>2. p \in BOOLEAN /\ exec' = [exec EXCEPT !.at = "cleanup", !.panicked = p]
    BY <2>1
  <2>3. MovesOn(owner, owner') /\ Fenced(owner')
    BY <1>0, <2>1, ReportMoves
  <2> HIDE DEF p
  <2> QED
    BY <1>2, <2>1, <2>2, <2>3, HookFailsStep
<1>3. CASE OnQuiesce /\ ~HookFails
  <2>1. exec.at = "quiescing" /\ owner.life \notin {"Starting", "Active"}
    BY <1>3 DEF ExInv, Position, OnQuiesce
  <2>2. PICK at \in {"cleanup", "claim"} : Exec(at, owner)
    BY <1>3 DEF OnQuiesce
  <2>3. at \in Hooks \cup Steps
    BY DEF Steps
  <2> QED
    BY <1>0, <2>1, <2>2, <2>3, MoveStep
<1>4. CASE OnDrain /\ ~HookFails
  <2>1. exec.at = "draining" /\ owner.life \notin {"Starting", "Active"} /\ Exec("cleanup", owner)
    BY <1>4 DEF ExInv, Position, OnDrain
  <2>2. "cleanup" \in Hooks \cup Steps
    BY DEF Steps
  <2> QED
    BY <1>0, <2>1, <2>2, MoveStep
<1> QED
  BY <1>1, <1>2, <1>3, <1>4 DEF OnQuiesce, OnDrain

\* Requests and their handlers.
LEMMA HandlerStep == ASSUME ExInv, Claim \/ Reply \/ DeferReply \/ DeferCpuReply \/ After PROVE ExInv'
<1>0. Sound(owner) /\ exec \in ExecType /\ MovesOn(owner, owner)
  BY MovesOnRefl DEF ExInv
<1>1. CASE Claim
  <2>1. exec.at = "claim" /\ owner.life # "Starting"
    BY <1>1 DEF ExInv, Position, Claim
  <2>2. CASE exec.consumed < EventsPerTurn /\ Live(owner) /\ owner.queue # <<>>
    <3> DEFINE q == Tail(owner.queue)
               o == Head(owner.queue)
               c == [owner EXCEPT !.queue = q]
    <3>1. owner.queue \in Seq(Op) /\ owner \in OwnerType
      BY <1>0 DEF Sound, OwnerType
    <3>2. q \in Seq(Op) /\ o \in Op
      BY <2>2, <3>1
    <3>3. UNCHANGED <<job, runtime, late>>
      BY <1>1, <2>2 DEF Claim
    <3>4. \/ owner' = Decide(c, o) /\ exec' = exec
          \/ /\ owner' = c /\ owner.op[o] = "pending"
             /\ exec' = [exec EXCEPT !.at = "event", !.current = o]
      BY <1>1, <2>2 DEF Claim
    <3> HIDE DEF q, o
    <3>5. MovesOn(owner, c) /\ c.op = owner.op /\ c.life = owner.life
      <4>1. MovesOn(owner, c)
        BY <1>0, <3>2, OwnerSets
      <4>2. c.op = owner.op /\ c.life = owner.life
        BY <3>1 DEF OwnerType
      <4> QED
        BY <4>1, <4>2
    <3> HIDE DEF c
    <3>6. CASE owner' = Decide(c, o) /\ exec' = exec
      <4>1. MovesOn(c, owner') /\ owner'.life = c.life
        BY <3>2, <3>5, <3>6, DecideMoves DEF MovesOn
      <4>2. MovesOn(owner, owner')
        BY <3>5, <4>1, MovesOnTrans
      <4>3. Position(exec', owner')
        BY <2>1, <3>5, <3>6, <4>1 DEF Position, Gone
      <4> QED
        BY <1>0, <2>1, <3>3, <3>6, <4>2, <4>3, TurnStep
    <3>7. CASE /\ owner' = c /\ owner.op[o] = "pending"
               /\ exec' = [exec EXCEPT !.at = "event", !.current = o]
      <4>1. exec' \in ExecType /\ exec'.at = "event" /\ exec'.current = o
        BY <1>0, <3>2, <3>7 DEF ExecType, Hooks
      <4>2. Position(exec', owner')
        BY <2>1, <3>2, <3>5, <3>7, <4>1 DEF Position, Gone
      <4> QED
        BY <2>1, <3>3, <3>5, <3>7, <4>1, <4>2, TurnStep
    <3> QED
      BY <3>4, <3>6, <3>7
  <2>3. CASE ~(exec.consumed < EventsPerTurn /\ Live(owner) /\ owner.queue # <<>>)
    <3>1. Exec("settle", owner) /\ "settle" \in Hooks \cup Steps
      BY <1>1, <2>3 DEF Claim, Steps
    <3> QED
      BY <1>0, <2>1, <3>1, MoveStep DEF Gone
  <2> QED
    BY <2>2, <2>3
<1>2. ASSUME exec.at = "event", EventEnds(owner, FALSE, job) PROVE ExInv'
  BY <1>0, <1>2, EventEndsStep
<1>3. CASE Reply
  <2>1. exec.at = "event" /\ exec.current \in Op
    BY <1>3 DEF ExInv, Position, Reply
  <2>2. CASE EventEnds(Decide(owner, exec.current), FALSE, job)
    <3> DEFINE c == Decide(owner, exec.current)
    <3>1. MovesOn(owner, c)
      BY <1>0, <2>1, DecideMoves
    <3>2. EventEnds(c, FALSE, job)
      BY <2>2
    <3> HIDE DEF c
    <3> QED
      BY <2>1, <3>1, <3>2, EventEndsStep
  <2>3. CASE \E f \in Faults : HandlerFails(f = "panic")
    <3>1. PICK f \in Faults : HandlerFails(f = "panic")
      BY <2>3
    <3> DEFINE p == (f = "panic")
    <3>2. p \in BOOLEAN /\ HandlerFails(p)
      BY <3>1
    <3> HIDE DEF p
    <3> QED
      BY <2>1, <3>2, HandlerFailsStep
  <2> QED
    BY <1>2, <1>3, <2>1, <2>2, <2>3 DEF Reply
<1>4. CASE DeferReply
  <2>1. exec.at = "event" /\ (EventEnds(owner, FALSE, job) \/ Admit("async", Admissible))
    BY <1>4 DEF DeferReply
  <2> QED
    BY <1>2, <2>1, AdmitStep
<1>5. CASE DeferCpuReply
  <2> DEFINE ok == Admissible /\ CpuFree
  <2>1. exec.at = "event" /\ (EventEnds(owner, FALSE, job) \/ Admit("cpu", ok))
    BY <1>5 DEF DeferCpuReply
  <2> HIDE DEF ok
  <2> QED
    BY <1>2, <2>1, AdmitStep
<1>6. CASE After
  <2>1. exec.at = "event" /\ Admit("timer", Admissible)
    BY <1>6 DEF After
  <2> QED
    BY <2>1, AdmitStep
<1> QED
  BY <1>1, <1>3, <1>4, <1>5, <1>6

\* The end of a turn.
LEMMA RestStep == ASSUME ExInv, AfterEvents \/ Timer \/ OnTick PROVE ExInv'
<1>0. Sound(owner) /\ exec \in ExecType /\ owner.life \in Life /\ MovesOn(owner, owner)
  BY MovesOnRefl DEF ExInv, Sound, OwnerType
<1>1. CASE AfterEvents
  <2>1. exec.at = "settle" /\ owner.life # "Starting"
    BY <1>1 DEF ExInv, Position, AfterEvents
  <2>2. PICK at \in {"cleanup", "draining", "asleep", "timer"} :
          /\ Exec(at, owner)
          /\ at = "cleanup" => ~Live(owner)
          /\ at = "draining" => owner.life = "Quiescing"
    BY <1>1 DEF AfterEvents, DrainHookFree
  <2>3. at \in Hooks \cup Steps /\ ("cleanup" \notin Hooks)
    BY DEF Hooks, Steps
  <2>4. at \in {"quiescing", "draining"} \cup Gone => owner.life \notin {"Starting", "Active"}
    BY <2>1, <2>2 DEF Gone, Live
  <2> QED
    BY <1>0, <2>1, <2>2, <2>3, <2>4, MoveStep
<1>2. ASSUME NEW sleep \in {"asleep", "ticking"}, Rest(sleep), exec.at # "done",
             MovesOn(owner, owner'), UNCHANGED <<job, runtime, late>>
      PROVE  ExInv'
  <2> DEFINE at == IF exec.consumed = EventsPerTurn THEN "top" ELSE sleep
  <2>1. exec' = [exec EXCEPT !.at = at, !.consumed = 0] /\ at \in {"top", "asleep", "ticking"}
    BY <1>2 DEF Rest
  <2> HIDE DEF at
  <2>2. exec' \in ExecType /\ exec'.at = at
    BY <1>0, <2>1 DEF ExecType, Steps
  <2>3. Position(exec', owner')
    BY <2>1, <2>2 DEF Position, Hooks, Gone
  <2> QED
    BY <1>2, <2>1, <2>2, <2>3, TurnStep
<1>3. CASE Timer
  <2>1. exec.at = "timer" /\ owner.life # "Starting" /\ UNCHANGED <<owner, job, runtime, late>>
    BY <1>3 DEF ExInv, Position, Timer
  <2>2. CASE exec' = [exec EXCEPT !.at = "tick"]
    <3>1. exec' \in ExecType /\ exec'.at = "tick"
      BY <1>0, <2>2 DEF ExecType, Hooks
    <3>2. Position(exec', owner')
      BY <2>1, <3>1 DEF Position, Gone
    <3> QED
      BY <1>0, <2>1, <3>1, <3>2, TurnStep
  <2>3. CASE Rest(IF exec.quiescing THEN "asleep" ELSE "ticking") \/ Rest("asleep")
    <3>1. PICK sleep \in {"asleep", "ticking"} : Rest(sleep)
      BY <2>3
    <3> QED
      BY <1>0, <1>2, <2>1, <3>1
  <2> QED
    BY <1>3, <2>2, <2>3 DEF Timer
<1>4. CASE OnTick
  <2>1. exec.at = "tick" /\ UNCHANGED <<job, runtime, late>>
    BY <1>4 DEF OnTick
  <2>2. CASE Rest("ticking")
    <3>1. owner' = owner \/ \E action : owner' = Report(owner, None, action)
      BY <1>4, <2>1, <2>2 DEF OnTick
    <3>2. MovesOn(owner, owner')
      BY <1>0, <3>1, ReportMoves
    <3> QED
      BY <1>2, <2>1, <2>2, <3>2
  <2>3. CASE /\ exec' = [exec EXCEPT !.at = "cleanup", !.panicked = TRUE]
             /\ owner' = Report(owner, None, "StopActor")
    <3>1. MovesOn(owner, owner') /\ Fenced(owner')
      BY <1>0, <2>3, ReportMoves
    <3> QED
      BY <2>1, <2>3, <3>1, HookFailsStep
  <2> QED
    BY <1>4, <2>2, <2>3 DEF OnTick
<1> QED
  BY <1>1, <1>3, <1>4

\* The executor goes.
LEMMA CleanupStep == ASSUME ExInv, Cleanup \/ ReleaseLease \/ ReleasePermit PROVE ExInv'
<1>0. Sound(owner) /\ exec \in ExecType /\ owner.life \in Life /\ MovesOn(owner, owner)
  BY MovesOnRefl DEF ExInv, Sound, OwnerType
<1>1. CASE Cleanup
  <2>1. exec.at = "cleanup" /\ owner.life \notin {"Starting", "Active"}
    BY <1>1 DEF ExInv, Position, Cleanup, Gone
  <2>2. PICK c \in {owner, Report(owner, None, "StopActor")} : Exec("release", c)
    BY <1>1 DEF Cleanup
  <2>3. MovesOn(owner, c) /\ c.life \notin {"Starting", "Active"}
    BY <1>0, <2>1, ReportMoves DEF MovesOn
  <2>4. "release" \in Hooks \cup Steps
    BY DEF Steps
  <2> QED
    BY <2>1, <2>2, <2>3, <2>4, MoveStep
<1>2. CASE ReleaseLease
  <2>1. exec.at = "release" /\ owner.life \notin {"Starting", "Active"}
    BY <1>2 DEF ExInv, Position, ReleaseLease, Gone
  <2>2. /\ exec' = [exec EXCEPT !.at = "untracked", !.seen = "Starting", !.quiescing = FALSE,
                                !.panicked = FALSE, !.consumed = 0]
        /\ owner' = Settle(owner, Leases(exec', job)) /\ UNCHANGED <<job, runtime, late>>
    BY <1>2 DEF ReleaseLease
  <2>3. exec' \in ExecType /\ exec'.at = "untracked"
    BY <1>0, <2>2 DEF ExecType, Steps
  <2>4. MovesOn(owner, owner')
    BY <1>0, <2>2, SettleMoves
  <2>5. Pinned(exec', job, owner')
    BY <1>0, <2>2, SettledPinned
  <2>6. Position(exec', owner')
    BY <2>1, <2>3, <2>4 DEF Position, Hooks, MovesOn
  <2> QED
    BY <2>1, <2>2, <2>3, <2>4, <2>5, <2>6, ExecStep
<1>3. CASE ReleasePermit
  <2>1. exec.at = "untracked" /\ owner.life \notin {"Starting", "Active"}
    BY <1>3 DEF ExInv, Position, ReleasePermit, Gone
  <2>2. exec' = [exec EXCEPT !.at = "done"] /\ UNCHANGED <<owner, job, runtime, late>>
    BY <1>3 DEF ReleasePermit, Exec
  <2>3. exec' \in ExecType /\ exec'.at = "done"
    BY <1>0, <2>2 DEF ExecType, Steps
  <2>4. Pinned(exec', job, owner')
    BY <2>1, <2>2, <2>3 DEF ExInv, Pinned, Unleased
  <2>5. Position(exec', owner')
    BY <2>1, <2>2, <2>3 DEF Position, Hooks
  <2> QED
    BY <1>0, <2>1, <2>2, <2>3, <2>4, <2>5, ExecStep
<1> QED
  BY <1>1, <1>2, <1>3

-----------------------------------------------------------------------------
(* Jobs and the close.                                                     *)

\* A job gives back what it holds in order, and is done with its request
\* before it gives back anything.
LEMMA JobStepKeeps == ASSUME ExInv, NEW o \in Op, JobStep(o) PROVE ExInv'
<1>0. /\ Sound(owner) /\ MovesOn(owner, owner) /\ job[o] \in JobType
      /\ owner.life \in Life /\ owner.op[o] \in {"idle", "decided"} \cup Undecided
  BY MovesOnRefl DEF ExInv, Sound, OwnerType
<1>1. /\ job[o].at \in Held => job[o].kind # None /\ owner.op[o] # "idle"
      /\ job[o].at \in Held \ Busy /\ job[o].kind # "timer" => owner.op[o] \in Answered
  BY DEF ExInv, JobSound
\* A job that is still leased afterwards pins its actor.
<1>2. ASSUME NEW at \in Leased, job[o].at \in Held, JobMoves(o, at), MovesOn(owner, owner'),
             at \in Held \ Busy /\ job[o].kind # "timer" => owner'.op[o] \in Answered
      PROVE  ExInv'
  <2>1. job'[o].at = at
    BY <1>2 DEF JobMoves, ExInv
  <2>2. Pinned(exec, job', owner')
    BY <1>2, <2>1 DEF Pinned, Unleased
  <2>3. at \in Held \cup {"none"}
    BY DEF Held
  <2> QED
    BY <1>2, <2>2, <2>3, JobStepInv
<1>3. "running" \in Leased /\ "running" \in Busy /\ "running" \in Held
      /\ "waiting" \in Busy /\ "waiting" \in Held
      /\ "returned" \in Leased /\ "returned" \in Busy /\ "returned" \in Held
      /\ "ended" \in Leased /\ "ended" \notin Busy
  BY DEF Held, Leased, Reserved, Busy
<1>4. CASE CpuStarts(o)
  <2>1. job[o].at \in Held /\ JobMoves(o, "running") /\ owner' = owner
    BY <1>3, <1>4 DEF CpuStarts
  <2> QED
    BY <1>0, <1>2, <1>3, <2>1
<1>5. CASE JobCancelled(o)
  <2>1. job[o].at \in Held /\ JobMoves(o, "ended") /\ owner' = owner
    BY <1>3, <1>5 DEF JobCancelled, Busy
  <2>2. ASSUME job[o].kind # "timer" PROVE owner.op[o] \in Answered
    <3>1. ~Live(owner) \/ owner.op[o] # "pending"
      BY <1>5, <2>2 DEF JobCancelled, IsCancelled
    <3>2. ~Live(owner) => owner.life = "Starting" \/ Fenced(owner)
      BY <1>0 DEF Live, Life, Fenced
    <3>3. owner.op[o] # "pending"
      BY <3>1, <3>2, <1>0, <1>1, <2>1 DEF Sound, Undecided
    <3> QED
      BY <1>0, <1>1, <2>1, <3>3 DEF Answered, Undecided
  <2> QED
    BY <1>0, <1>2, <1>3, <2>1, <2>2
<1>6. CASE TimerFires(o)
  <2>1. job[o].at \in Held /\ JobMoves(o, "ended") /\ owner' = owner /\ job[o].kind = "timer"
    BY <1>3, <1>6 DEF TimerFires
  <2> QED
    BY <1>0, <1>2, <1>3, <2>1
<1>7. ASSUME NEW f, JobFails(o, f), owner.op[o] # "idle"
      PROVE  MovesOn(owner, owner') /\ owner'.op[o] \in Answered
  <2>1. PICK action : owner' = Report(owner, o, action)
    BY <1>7 DEF JobFails
  <2> QED
    BY <1>0, <1>7, <2>1, ReportMoves
<1>8. ASSUME JobResult(o), owner.op[o] # "idle"
      PROVE  MovesOn(owner, owner') /\ owner'.op[o] \in Answered
  <2>1. CASE owner' = Decide(owner, o)
    BY <1>0, <1>8, <2>1, DecideMoves
  <2> QED
    BY <1>7, <1>8, <2>1 DEF JobResult
<1>9. ASSUME job[o].at \in Held, JobMoves(o, "ended"), JobResult(o) \/ JobFails(o, "panic")
      PROVE  ExInv'
  <2>2. MovesOn(owner, owner') /\ owner'.op[o] \in Answered
    BY <1>1, <1>7, <1>8, <1>9
  <2> QED
    BY <1>2, <1>3, <1>9, <2>2
<1>10. CASE RunJob(o) \/ CpuResult(o)
  BY <1>3, <1>9, <1>10 DEF RunJob, CpuResult
<1>11. CASE RunCpuJob(o)
  <2>1. CASE JobMoves(o, "returned") /\ owner' = owner
    BY <1>0, <1>2, <1>3, <1>11, <2>1 DEF RunCpuJob
  <2>2. CASE JobMoves(o, "ended") /\ JobFails(o, "panic")
    BY <1>3, <1>9, <1>11, <2>2 DEF RunCpuJob
  <2> QED
    BY <1>11, <2>1, <2>2 DEF RunCpuJob
<1>12. CASE JobReleases(o)
  <2>1. /\ job[o].at \in {"ended", "freed", "untracked"} /\ JobMoves(o, NextHold(o))
        /\ job[o].at \in Held \ Busy
    BY <1>12 DEF JobReleases, Held, Leased, Reserved, Busy
  <2>2. job[o].kind # "timer" => owner.op[o] \in Answered
    BY <1>1, <2>1
  <2>3. CASE NextHold(o) = "freed"
    <3>1. owner' = owner
      BY <1>12, <2>3 DEF JobReleases
    <3>2. "freed" \in Leased
      BY DEF Leased
    <3> QED
      BY <1>0, <1>2, <2>1, <2>2, <2>3, <3>1, <3>2
  <2>4. CASE NextHold(o) = "untracked"
    <3>1. owner' = Settle(owner, Leases(exec, job')) /\ exec' = exec
      BY <1>12, <2>4 DEF JobReleases, JobMoves
    <3>2. MovesOn(owner, owner') /\ Pinned(exec, job', owner')
      BY <1>0, <3>1, SettleMoves, SettledPinned
    <3>3. job[o].kind # "timer" => owner'.op[o] \in Answered
      BY <2>2, <3>2 DEF MovesOn
    <3>4. "untracked" \in Held \cup {"none"}
      BY DEF Held
    <3> QED
      BY <2>1, <2>4, <3>2, <3>3, <3>4, JobStepInv
  <2>5. CASE NextHold(o) = "none"
    <3>1. owner' = owner /\ job[o].at = "untracked"
      BY <1>12, <2>1, <2>5 DEF JobReleases, NextHold
    <3>2. /\ job' = [job EXCEPT ![o] = [kind |-> None, at |-> "none"]]
          /\ UNCHANGED exec
      BY <2>1, <2>5 DEF JobMoves
    <3>3. \A p \in Op : job'[p].at \notin Leased => job[p].at \notin Leased
      BY <1>0, <3>1, <3>2 DEF ExInv, Leased, Reserved, Busy
    <3>4. Pinned(exec, job', owner')
      BY <3>1, <3>3 DEF ExInv, Pinned, Unleased
    <3>5. "none" \notin Held
      BY DEF Held, Leased, Reserved, Busy
    <3> QED
      BY <1>0, <2>1, <2>5, <3>1, <3>4, <3>5, JobStepInv
  <2>6. NextHold(o) \in {"freed", "untracked", "none"}
    BY <2>1 DEF NextHold
  <2> QED
    BY <2>3, <2>4, <2>5, <2>6
<1> QED
  BY <1>4, <1>5, <1>6, <1>12, <1>10, <1>11 DEF JobStep

\* The close begins with a fence of every root.
LEMMA CloseBeginsStep == ASSUME ExInv, CloseBegins PROVE ExInv'
<1> USE DEF ExInv
<1> DEFINE c == FenceWithParent(owner)
<1>1. MovesOn(owner, c) /\ Fenced(c) /\ ~c.note /\ ~c.supervised
  BY FenceWithParentMoves
<1>2. /\ owner' = Settle(c, Leases(exec, job)) /\ runtime' = "closing"
      /\ exec.at # "prepare" /\ UNCHANGED <<exec, job, late>>
  BY DEF CloseBegins, Prepared
<1> HIDE DEF c
<1>3. Sound(c)
  BY <1>1 DEF MovesOn
<1>4. MovesOn(c, owner') /\ ~owner'.note /\ ~owner'.supervised /\ Pinned(exec', job', owner')
  BY <1>1, <1>2, <1>3, SettleMoves, SettledPinned
<1>5. MovesOn(owner, owner') /\ Fenced(owner') /\ Sound(owner')
  BY <1>1, <1>4, MovesOnTrans DEF MovesOn
<1>6. Position(exec', owner')
  BY <1>2, <1>5 DEF Position, MovesOn, Hooks, Gone
<1>7. \A o \in Op : JobSound(job', owner', o)
  BY <1>2, <1>5, JobSoundStays
<1>8. ~ClosedClean'
  BY <1>2 DEF ClosedClean
<1> QED
  BY <1>2, <1>4, <1>5, <1>6, <1>7, <1>8

\* The wait of the close sees permits only; leases went before them.
LEMMA CloseEndsStep == ASSUME ExInv, CloseEnds PROVE ExInv'
<1> USE DEF ExInv
<1>1. /\ runtime = "closing" /\ runtime' = "closed" /\ late' = (ActiveTasks > 0)
      /\ UNCHANGED <<owner, exec, job>>
  BY DEF CloseEnds
<1>2. ASSUME ~(ActiveTasks > 0)
      PROVE  /\ exec.at = "done" /\ owner.life = "Stopped" /\ \A o \in Op : job[o].at \notin Held
  <2>1. exec.at = "done" /\ \A o \in Op : job[o].at \notin Held
    BY <1>2, NoPermits DEF JobSound
  <2>2. Unleased(exec, job)
    BY <2>1 DEF Unleased, Held
  <2>3. Fenced(owner) /\ ~owner.note
    BY <1>1
  <2> QED
    BY <2>1, <2>2, <2>3 DEF Pinned, Fenced
<1>3. ClosedClean' => ~(ActiveTasks > 0)
  BY <1>1 DEF ClosedClean
<1>4. Position(exec', owner') /\ \A o \in Op : JobSound(job', owner', o)
  BY <1>1 DEF JobSound
<1>5. ClosedClean' => /\ exec'.at = "done" /\ owner'.life = "Stopped"
                      /\ \A o \in Op : job'[o].at \notin Held
  BY <1>1, <1>2, <1>3
<1>6. exec.at # "prepare" /\ Fenced(owner') /\ ~owner'.note /\ ~owner'.supervised
  BY <1>1
<1> QED
  BY <1>1, <1>4, <1>5, <1>6

\* A task that is aborted finds its requests cancelled by the close.
LEMMA AbortStep == ASSUME ExInv, Abort PROVE ExInv'
<1>0. /\ Sound(owner) /\ MovesOn(owner, owner) /\ exec \in ExecType /\ Fenced(owner)
      /\ owner' = owner /\ UNCHANGED <<runtime, late>>
  BY MovesOnRefl DEF ExInv, Abort
<1>1. CASE exec.at \in {"top", "asleep", "ticking"} /\ exec' = [exec EXCEPT !.at = "release"]
           /\ job' = job
  <2>1. exec' \in ExecType /\ exec'.at = "release"
    BY <1>0, <1>1 DEF ExecType, Steps
  <2>2. Position(exec', owner')
    BY <1>0, <2>1 DEF Position, Hooks, Fenced
  <2> QED
    BY <1>0, <1>1, <2>1, <2>2, TurnStep
<1>2. ASSUME NEW o \in Op, job[o].at \in Busy, job' = [job EXCEPT ![o].at = "ended"],
             exec' = exec, upstream' = upstream
      PROVE  ExInv'
  <2>1. job[o] \in JobType /\ job \in [Op -> JobType]
    BY DEF ExInv
  <2>2. [job[o] EXCEPT !.at = "ended"] = [kind |-> job[o].kind, at |-> "ended"]
    BY <2>1 DEF JobType
  <2>3. JobMoves(o, "ended")
    BY <1>0, <1>2, <2>1, <2>2 DEF JobMoves
  <2>4. job[o].at \in Held /\ "ended" \in Leased /\ "ended" \in Held
    BY <1>2 DEF Held, Leased, Reserved
  <2>5. owner.op[o] \in Answered
    <3>1. owner.op[o] # "idle" /\ owner.op[o] \notin Undecided
      BY <1>0, <2>4 DEF ExInv, JobSound, Sound
    <3>2. owner.op[o] \in {"idle", "decided"} \cup Undecided
      BY <1>0 DEF Sound, OwnerType
    <3> QED
      BY <3>1, <3>2 DEF Answered
  <2>6. job'[o].at = "ended"
    BY <1>2, <2>1 DEF JobType
  <2>7. Pinned(exec, job', owner')
    BY <2>4, <2>6 DEF Pinned, Unleased
  <2> QED
    BY <1>0, <2>3, <2>4, <2>5, <2>7, JobStepInv
<1> QED
  BY <1>0, <1>1, <1>2 DEF Abort, Busy

-----------------------------------------------------------------------------
(* The theorems.                                                           *)

LEMMA ExInit == Init => ExInv
<1> SUFFICES ASSUME Init PROVE ExInv
  OBVIOUS
<1>1. owner \in OwnerType /\ owner.life = "Starting" /\ \A o \in Op : owner.op[o] = "idle"
  <2> DEFINE ops == [o \in Op |-> "idle"]
  <2>1. ops \in [Op -> {"idle", "decided"} \cup Undecided] /\ <<>> \in Seq(Op)
    OBVIOUS
  <2>2. owner = [life |-> "Starting", queue |-> <<>>, op |-> ops,
                 note |-> FALSE, kids |-> FALSE, supervised |-> TRUE]
    BY DEF Init
  <2>3. \A o \in Op : ops[o] = "idle"
    OBVIOUS
  <2> HIDE DEF ops
  <2> QED
    BY <2>1, <2>2, <2>3 DEF OwnerType, Life
<1>2. exec \in ExecType /\ exec.at = "prepare"
  BY DEF Init, ExecType, Hooks, Steps
<1>3. job \in [Op -> JobType] /\ \A o \in Op : job[o].at = "none"
  BY DEF Init, JobType
<1>4. "none" \notin Held
  BY DEF Held, Leased, Reserved, Busy
<1>5. runtime = "open" /\ late = FALSE
  BY DEF Init
<1> QED
  BY <1>1, <1>2, <1>3, <1>4, <1>5
  DEF ExInv, Sound, Fenced, Position, Hooks, Gone, JobSound, Pinned, ClosedClean

LEMMA ExNext == ExInv /\ [Next]_vars => ExInv'
<1> SUFFICES ASSUME ExInv, [Next]_vars PROVE ExInv'
  OBVIOUS
<1>1. CASE UNCHANGED vars
  <2>1. UNCHANGED <<owner, exec, job, runtime, late>>
    BY <1>1 DEF vars
  <2> QED
    BY <2>1 DEF ExInv, Position, JobSound, Pinned, Unleased, ClosedClean
<1>2. CASE ExecutorStep \/ TickDue
  BY <1>2, PrepareStep, InspectStep, SuperviseStep, QuiesceStep, HandlerStep, RestStep,
     CleanupStep DEF ExecutorStep
<1>3. ASSUME NEW o \in Op, JobStep(o) PROVE ExInv'
  BY <1>3, JobStepKeeps
<1>4. CASE World
  BY <1>4, WorldStep
<1>5. CASE CloseBegins \/ CloseEnds \/ Abort
  BY <1>5, CloseBeginsStep, CloseEndsStep, AbortStep
<1> QED
  BY <1>1, <1>2, <1>3, <1>4, <1>5 DEF Next, World

\* The inductive invariant: where the executor is bounds how far the actor has
\* come, a job gives back nothing while its request is pending and in time, a
\* stopping actor is pinned, and a clean close has left nothing.
THEOREM ExecutorInvariant == Spec => []ExInv
BY ExInit, ExNext, PTL DEF Spec

\* NoZombie: however run_component leaves its loop, the actor no longer accepts
\* requests when the component is cleaned up.
THEOREM NeverAZombie == Spec => []NoZombie
<1>1. ExInv => NoZombie
  BY DEF ExInv, Position, NoZombie, Gone
<1> QED
  BY <1>1, ExecutorInvariant, PTL

\* CleanClose: NativeRuntime::close counts permits, and no permit in use means
\* that the actor was finalised.
THEOREM CloseIsClean == Spec => []CleanClose
<1>1. ExInv => CleanClose
  <2>1. ASSUME ExInv, ClosedClean PROVE owner.life = "Stopped" /\ Leases(exec, job) = 0
    <3>1. Unleased(exec, job)
      BY <2>1 DEF ExInv, Unleased, Held
    <3> QED
      BY <2>1, <3>1, LeasesCount DEF ExInv
  <2> QED
    BY <2>1 DEF CleanClose, ClosedClean
<1> QED
  BY <1>1, ExecutorInvariant, PTL

\* DeferredDecided: when the work of run_job or run_cpu_job is over, whatever
\* ended it, its request is decided or its deadline has passed.
THEOREM DeferredAlwaysDecided == Spec => []DeferredDecided
<1>1. ExInv => DeferredDecided
  BY DEF ExInv, JobSound, DeferredDecided, Answered
<1> QED
  BY <1>1, ExecutorInvariant, PTL
=============================================================================
