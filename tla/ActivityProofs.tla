--------------------------- MODULE ActivityProofs ---------------------------
(***************************************************************************)
(* Theorems about Activity, for every set of slots and threads and for all *)
(* bounds.  That no wakeup is lost rests on four facts: a marked slot has  *)
(* a caller on the way to touch_activity; a waker lies in the entry of its *)
(* own actor; a sleeping executor's waker is in its entry or in a caller's *)
(* hand; and an entry whose sleeper could go on is marked.                 *)
(***************************************************************************)
EXTENDS Activity, TLAPS

InTurn(r) == pc[r] \in {"inspect", "poll", "parked"}

Unchanged(r) ==
  /\ ~slots[r.slot].overflow
  /\ slots[r.slot].version = observed[r]

DirtyIsOwed == dirty # {} => owing # {}

OwingHoldsNothing == \A t \in Thread : t \in owing => hand[t] = {}

\* An entry belongs to an actor the slot has or had, a waker to that actor.
EntryInv ==
  \A s \in Slot :
    /\ slots[s].generation <= gen[s]
    /\ slots[s].waker # NoRef =>
         slots[s].waker = [slot |-> s, generation |-> slots[s].generation]

\* No executor is there before its actor.
BegunInv == \A r \in ActorRef : pc[r] # "none" => r.generation <= gen[r.slot]

\* An executor in the middle of a turn has an entry, with a version at least
\* the one it has read, until its slot has another actor.
TurnInv ==
  \A r \in ActorRef :
    InTurn(r) /\ Current(r) =>
      /\ slots[r.slot].generation = r.generation
      /\ observed[r] <= slots[r.slot].version

SeenInv ==
  \A r \in ActorRef :
    pc[r] \in {"poll", "parked"} /\ Current(r) /\ Unchanged(r) => seen[r] = work[r.slot]

Armed(r) == slots[r.slot].waker = r \/ \E c \in Caller : r \in hand[c]

ArmedInv == \A r \in ActorRef : Asleep(r) => Armed(r)

MarkedInv ==
  \A r \in ActorRef :
    /\ Asleep(r) /\ slots[r.slot].waker = r
    /\ ~Current(r) \/ life[r.slot] # "Live" \/ ~Unchanged(r)
    => r.slot \in dirty

ActivityInv ==
  /\ TypeOK
  /\ DirtyIsOwed
  /\ OwingHoldsNothing
  /\ EntryInv
  /\ BegunInv
  /\ TurnInv
  /\ SeenInv
  /\ ArmedInv
  /\ MarkedInv

LEMMA InitInv == Init => ActivityInv
<1> SUFFICES ASSUME Init PROVE ActivityInv
  OBVIOUS
<1>1. Fresh(0) \in Entry
  BY GenerationAssumption, VersionAssumption DEF Fresh, Entry
<1>2. TypeOK
  <2>1. slots \in [Slot -> Entry]
    BY <1>1 DEF Init
  <2>2. gen \in [Slot -> 1..MaxGeneration] /\ observed \in [ActorRef -> 1..MaxVersion]
    BY GenerationAssumption, VersionAssumption DEF Init
  <2>3. /\ work \in [Slot -> BOOLEAN] /\ seen \in [ActorRef -> BOOLEAN]
        /\ woken \in [ActorRef -> BOOLEAN]
    BY Zenon DEF Init
  <2>4. /\ life \in [Slot -> {"Live", "Stopping", "Stopped"}]
        /\ dirty \subseteq Slot /\ owing \subseteq Thread
        /\ hand \in [Caller -> SUBSET ActorRef]
        /\ pc \in [ActorRef -> {"none", "snapshot", "inspect", "poll", "parked", "ended"}]
    BY DEF Init
  <2> QED BY <2>1, <2>2, <2>3, <2>4 DEF TypeOK
<1>3. DirtyIsOwed /\ OwingHoldsNothing
  BY DEF Init, DirtyIsOwed, OwingHoldsNothing
<1>4. EntryInv
  <2>1. \A s \in Slot : slots[s].generation = 0 /\ slots[s].waker = NoRef /\ gen[s] = 1
    BY DEF Init, Fresh
  <2>2. ASSUME NEW s \in Slot PROVE slots[s].generation <= gen[s]
    <3>1. slots[s].generation = 0 /\ gen[s] = 1
      BY <2>1
    <3> QED BY <3>1
  <2> QED BY <2>1, <2>2, Zenon DEF EntryInv
<1>5. \A r \in ActorRef : pc[r] = "none"
  BY DEF Init
<1> QED BY <1>2, <1>3, <1>4, <1>5
        DEF ActivityInv, BegunInv, TurnInv, SeenInv, ArmedInv, MarkedInv, InTurn, Asleep

\* Marking under the lock: versions of the marked actors move on, wakers stay.
LEMMA MarkedEntries ==
  ASSUME TypeOK, NEW S \in SUBSET Slot, NEW g \in [Slot -> 1..MaxGeneration], Mark(S, g)
  PROVE  /\ slots' \in [Slot -> Entry] /\ dirty' \subseteq Slot
         /\ \A s \in Slot :
              /\ slots'[s].generation = slots[s].generation
              /\ slots'[s].waker = slots[s].waker
              /\ slots[s].version <= slots'[s].version
              /\ slots[s].overflow => slots'[s].overflow
              /\ s \notin S => slots'[s] = slots[s]
              /\ s \in S /\ slots[s].generation = g[s] =>
                   slots'[s].overflow \/ slots[s].version < slots'[s].version
              /\ s \in S /\ slots[s].generation # 0 => s \in dirty'
         /\ dirty \subseteq dirty'
<1>1. ASSUME NEW e \in Entry
      PROVE  /\ Advanced(e) \in Entry
             /\ Advanced(e).generation = e.generation
             /\ Advanced(e).waker = e.waker
             /\ e.version <= Advanced(e).version
             /\ e.overflow => Advanced(e).overflow
             /\ Advanced(e).overflow \/ e.version < Advanced(e).version
  <2>1. CASE e.version = MaxVersion
    <3>1. Advanced(e) = [e EXCEPT !.overflow = TRUE]
      BY <2>1 DEF Advanced
    <3>2. Advanced(e) \in Entry
      BY <3>1 DEF Entry
    <3>3. Advanced(e).overflow
      BY <3>1, Zenon DEF Entry
    <3>4. /\ Advanced(e).generation = e.generation /\ Advanced(e).waker = e.waker
          /\ e.version = Advanced(e).version
      BY <3>1 DEF Entry
    <3> QED BY <2>1, <3>2, <3>3, <3>4, VersionAssumption
  <2>2. CASE e.version # MaxVersion
    <3>1. Advanced(e) = [e EXCEPT !.version = @ + 1]
      BY <2>2 DEF Advanced
    <3> QED BY <2>2, <3>1, VersionAssumption DEF Entry
  <2> QED BY <2>1, <2>2
<1>2. \A s \in Slot : slots[s] \in Entry
  BY DEF TypeOK
<1>3. \A s \in Slot : slots'[s] = IF s \in S /\ slots[s].generation = g[s]
                                    THEN Advanced(slots[s]) ELSE slots[s]
  BY DEF Mark
<1>4. slots' \in [Slot -> Entry]
  BY <1>1, <1>2 DEF Mark
<1>5. dirty' = dirty \cup {s \in S : slots[s].generation # 0}
  BY DEF Mark
<1>6. dirty \subseteq Slot
  BY DEF TypeOK
<1>7. ASSUME NEW s \in Slot PROVE slots[s].version \in Nat
  <2>1. slots[s].version \in 1..MaxVersion
    BY <1>2 DEF Entry
  <2> QED BY <2>1, VersionAssumption
<1>8. dirty' \subseteq Slot /\ dirty \subseteq dirty'
  BY <1>5, <1>6
<1>9. ASSUME NEW s \in Slot
      PROVE  /\ slots'[s].generation = slots[s].generation
             /\ slots'[s].waker = slots[s].waker
             /\ slots[s].version <= slots'[s].version
             /\ slots[s].overflow => slots'[s].overflow
             /\ s \notin S => slots'[s] = slots[s]
             /\ s \in S /\ slots[s].generation = g[s] =>
                  slots'[s].overflow \/ slots[s].version < slots'[s].version
             /\ s \in S /\ slots[s].generation # 0 => s \in dirty'
  <2>1. CASE s \in S /\ slots[s].generation = g[s]
    <3>1. slots'[s] = Advanced(slots[s]) /\ slots[s] \in Entry
      BY <1>2, <1>3, <2>1
    <3> QED BY <1>1, <1>5, <2>1, <3>1
  <2>2. CASE ~(s \in S /\ slots[s].generation = g[s])
    <3>1. slots'[s] = slots[s]
      BY <1>3, <2>2
    <3> QED BY <1>5, <1>7, <2>2, <3>1
  <2> QED BY <2>1, <2>2
<1> QED BY <1>4, <1>8, <1>9

\* Every call that changes actors marks the ones it changes.
LEMMA ChangeKeepsInv ==
  ASSUME ActivityInv, NEW t \in Thread, NEW S \in SUBSET Slot, Call(t), Mark(S, gen'),
         gen' \in [Slot -> 1..MaxGeneration],
         life' \in [Slot -> {"Live", "Stopping", "Stopped"}],
         work' \in [Slot -> BOOLEAN],
         \A s \in Slot : gen[s] <= gen'[s],
         \A s \in Slot \ S : gen'[s] = gen[s] /\ life'[s] = life[s] /\ work'[s] = work[s],
         UNCHANGED hand, UNCHANGED observerVars
  PROVE  ActivityInv'
<1>0. TypeOK
  BY DEF ActivityInv
<1>1. /\ slots' \in [Slot -> Entry] /\ dirty' \subseteq Slot
      /\ \A s \in Slot :
           /\ slots'[s].generation = slots[s].generation
           /\ slots'[s].waker = slots[s].waker
           /\ slots[s].version <= slots'[s].version
           /\ slots[s].overflow => slots'[s].overflow
           /\ s \notin S => slots'[s] = slots[s]
           /\ s \in S /\ slots[s].generation = gen'[s] =>
                slots'[s].overflow \/ slots[s].version < slots'[s].version
           /\ s \in S /\ slots[s].generation # 0 => s \in dirty'
      /\ dirty \subseteq dirty'
  BY <1>0, MarkedEntries
<1>2. /\ pc' = pc /\ observed' = observed /\ seen' = seen /\ woken' = woken /\ hand' = hand
  BY DEF observerVars
<1>3. owing' = owing \cup {t} /\ hand[t] = {}
  BY DEF Call
<1>4. TypeOK'
  BY <1>0, <1>1, <1>2, <1>3 DEF TypeOK
<1>5. DirtyIsOwed' /\ OwingHoldsNothing'
  BY <1>2, <1>3 DEF ActivityInv, DirtyIsOwed, OwingHoldsNothing
<1>6. EntryInv'
  <2> SUFFICES ASSUME NEW s \in Slot
               PROVE  /\ slots'[s].generation <= gen'[s]
                      /\ slots'[s].waker # NoRef =>
                           slots'[s].waker = [slot |-> s, generation |-> slots'[s].generation]
    BY DEF EntryInv
  <2>1. slots[s].generation \in Int /\ gen[s] \in Int /\ gen'[s] \in Int
    BY <1>0, <1>4 DEF TypeOK, Entry
  <2> QED BY <1>1, <2>1 DEF ActivityInv, EntryInv
<1>7. \A r \in ActorRef : /\ r.slot \in Slot /\ r.generation \in 1..MaxGeneration
                          /\ observed[r] \in Nat
                          /\ slots[r.slot].version \in Nat /\ slots'[r.slot].version \in Nat
                          /\ slots[r.slot].generation \in Nat
                          /\ gen[r.slot] \in Nat /\ gen'[r.slot] \in Nat
  <2> SUFFICES ASSUME NEW r \in ActorRef
               PROVE  /\ r.slot \in Slot /\ r.generation \in 1..MaxGeneration
                      /\ observed[r] \in Nat
                      /\ slots[r.slot].version \in Nat /\ slots'[r.slot].version \in Nat
                      /\ slots[r.slot].generation \in Nat
                      /\ gen[r.slot] \in Nat /\ gen'[r.slot] \in Nat
    OBVIOUS
  <2>1. r.slot \in Slot /\ r.generation \in 1..MaxGeneration
    BY DEF ActorRef
  <2>2. slots[r.slot] \in Entry /\ slots'[r.slot] \in Entry
    BY <1>0, <1>1, <2>1 DEF TypeOK
  <2>3. gen[r.slot] \in 1..MaxGeneration /\ gen'[r.slot] \in 1..MaxGeneration
    BY <1>0, <2>1 DEF TypeOK
  <2>4. observed[r] \in 1..MaxVersion
    BY <1>0 DEF TypeOK
  <2> QED BY <2>1, <2>2, <2>3, <2>4, GenerationAssumption, VersionAssumption DEF Entry
<1>8. BegunInv'
  BY <1>2, <1>7 DEF ActivityInv, BegunInv
\* An executor whose actor is still the one of its slot had it before.
<1>9. ASSUME NEW r \in ActorRef, pc[r] # "none", Current(r)'
      PROVE  Current(r)
  BY <1>7, <1>9 DEF Current, ActivityInv, BegunInv
<1>10. TurnInv'
  <2> SUFFICES ASSUME NEW r \in ActorRef, InTurn(r)', Current(r)'
               PROVE  /\ slots'[r.slot].generation = r.generation
                      /\ observed'[r] <= slots'[r.slot].version
    BY DEF TurnInv
  <2>1. InTurn(r) /\ Current(r)
    BY <1>2, <1>9 DEF InTurn
  <2>2. slots[r.slot].generation = r.generation /\ observed[r] <= slots[r.slot].version
    BY <2>1 DEF ActivityInv, TurnInv
  <2> QED BY <1>1, <1>2, <1>7, <2>2
<1>11. SeenInv'
  <2> SUFFICES ASSUME NEW r \in ActorRef, pc'[r] \in {"poll", "parked"},
                      Current(r)', Unchanged(r)'
               PROVE  seen'[r] = work'[r.slot]
    BY DEF SeenInv
  <2>1. pc[r] \in {"poll", "parked"} /\ InTurn(r) /\ Current(r)
    BY <1>2, <1>9 DEF InTurn
  <2>2. slots[r.slot].generation = r.generation /\ observed[r] <= slots[r.slot].version
    BY <2>1 DEF ActivityInv, TurnInv
  <2>3. r.slot \notin S
    BY <1>1, <1>2, <1>7, <2>2 DEF Unchanged, Current
  <2>4. Unchanged(r)
    BY <1>1, <1>2, <1>7, <2>3 DEF Unchanged
  <2> QED BY <1>2, <1>7, <2>1, <2>3, <2>4 DEF ActivityInv, SeenInv
<1>12. ArmedInv'
  BY <1>1, <1>2, <1>7 DEF ActivityInv, ArmedInv, Armed, Asleep
<1>13. MarkedInv'
  <2> SUFFICES ASSUME NEW r \in ActorRef, Asleep(r)', slots'[r.slot].waker = r,
                      (~Current(r) \/ life[r.slot] # "Live" \/ ~Unchanged(r))'
               PROVE  r.slot \in dirty'
    BY DEF MarkedInv
  <2>1. Asleep(r) /\ slots[r.slot].waker = r
    BY <1>1, <1>2, <1>7 DEF Asleep
  <2>2. slots[r.slot].generation # 0
    <3>1. r # NoRef
      BY NoRefAssumption
    <3>2. r = [slot |-> r.slot, generation |-> slots[r.slot].generation]
      BY <1>7, <2>1, <3>1 DEF ActivityInv, EntryInv
    <3>3. r.generation = slots[r.slot].generation
      BY <3>2
    <3> QED BY <1>7, <3>3
  <2>3. CASE r.slot \in S
    BY <1>1, <1>7, <2>2, <2>3
  <2>4. CASE r.slot \notin S
    <3>1. ~Current(r) \/ life[r.slot] # "Live" \/ ~Unchanged(r)
      BY <1>1, <1>2, <1>7, <2>4 DEF Current, Unchanged
    <3> QED BY <1>1, <2>1, <3>1 DEF ActivityInv, MarkedInv
  <2> QED BY <2>3, <2>4
<1> QED BY <1>4, <1>5, <1>6, <1>8, <1>10, <1>11, <1>12, <1>13 DEF ActivityInv

LEMMA RefFacts ==
  ASSUME TypeOK, NEW r \in ActorRef
  PROVE  /\ r.slot \in Slot /\ r.generation \in Nat
         /\ r = [slot |-> r.slot, generation |-> r.generation]
         /\ r # NoRef /\ r \in Caller /\ r \notin Thread
         /\ slots[r.slot] \in Entry
         /\ slots[r.slot].version \in Nat /\ slots[r.slot].generation \in Nat
         /\ gen[r.slot] \in Nat /\ observed[r] \in Nat
<1>1. r.slot \in Slot /\ r.generation \in 1..MaxGeneration
      /\ r = [slot |-> r.slot, generation |-> r.generation]
  BY DEF ActorRef
<1>2. r # NoRef /\ r \in Caller /\ r \notin Thread
  BY NoRefAssumption, CallerAssumption DEF Caller
<1>3. slots[r.slot] \in Entry
  BY <1>1 DEF TypeOK
<1>4. slots[r.slot].version \in 1..MaxVersion /\ slots[r.slot].generation \in 0..MaxGeneration
  BY <1>3 DEF Entry
<1>5. gen[r.slot] \in 1..MaxGeneration /\ observed[r] \in 1..MaxVersion
  BY <1>1 DEF TypeOK
<1> QED BY <1>1, <1>2, <1>3, <1>4, <1>5, GenerationAssumption, VersionAssumption

\* Collecting wakers: the marked entries lose theirs to the caller's hand.
LEMMA TouchKeepsInv ==
  ASSUME ActivityInv, NEW t \in Thread, Touch(t)
  PROVE  ActivityInv'
<1>0. TypeOK
  BY DEF ActivityInv
<1>1. /\ t \in owing /\ hand[t] = {} /\ t \in Caller
      /\ owing' = owing \ {t} /\ dirty' = {}
      /\ hand' = [hand EXCEPT ![t] = Wakers(dirty)]
      /\ gen' = gen /\ life' = life /\ work' = work
      /\ pc' = pc /\ observed' = observed /\ seen' = seen /\ woken' = woken
  BY DEF Touch, NotifyMarked, worldVars, observerVars, ActivityInv, OwingHoldsNothing, Caller
<1>2. ASSUME NEW s \in Slot
      PROVE  /\ slots'[s] \in Entry
             /\ slots'[s].generation = slots[s].generation
             /\ slots'[s].version = slots[s].version
             /\ slots'[s].overflow = slots[s].overflow
             /\ s \in dirty => slots'[s].waker = NoRef
             /\ s \notin dirty => slots'[s].waker = slots[s].waker
  <2>1. slots[s] \in Entry
    BY <1>0 DEF TypeOK
  <2>2. slots'[s] = IF s \in dirty THEN [slots[s] EXCEPT !.waker = NoRef] ELSE slots[s]
    BY DEF Touch, NotifyMarked
  <2> QED BY <2>1, <2>2 DEF Entry
<1>3. \A s \in Slot : slots[s].waker \in ActorRef \cup {NoRef}
  BY <1>0 DEF TypeOK, Entry
<1>4. Wakers(dirty) \subseteq ActorRef
  BY <1>0, <1>3 DEF TypeOK, Wakers
<1>5. TypeOK'
  <2>1. slots' \in [Slot -> Entry]
    BY <1>2 DEF Touch, NotifyMarked
  <2>2. hand' \in [Caller -> SUBSET ActorRef]
    BY <1>0, <1>1, <1>4 DEF TypeOK
  <2> QED BY <1>0, <1>1, <2>1, <2>2 DEF TypeOK
<1>6. DirtyIsOwed' /\ OwingHoldsNothing'
  <2>1. ASSUME NEW u \in Thread, u \in owing' PROVE hand'[u] = {}
    <3>1. u # t /\ u \in owing /\ u \in Caller
      BY <1>1, <2>1 DEF Caller
    <3>2. hand[u] = {}
      BY <3>1 DEF ActivityInv, OwingHoldsNothing
    <3> QED BY <1>0, <1>1, <3>1, <3>2 DEF TypeOK
  <2> QED BY <1>1, <2>1 DEF DirtyIsOwed, OwingHoldsNothing
<1>7. EntryInv'
  <2> SUFFICES ASSUME NEW s \in Slot
               PROVE  /\ slots'[s].generation <= gen'[s]
                      /\ slots'[s].waker # NoRef =>
                           slots'[s].waker = [slot |-> s, generation |-> slots'[s].generation]
    BY DEF EntryInv
  <2> QED BY <1>1, <1>2 DEF ActivityInv, EntryInv
<1>8. BegunInv' /\ TurnInv' /\ SeenInv'
  <2>1. ASSUME NEW r \in ActorRef PROVE r.slot \in Slot
    BY <1>0, RefFacts
  <2> QED BY <1>1, <1>2, <2>1
          DEF ActivityInv, BegunInv, TurnInv, SeenInv, InTurn, Current, Unchanged
<1>9. ArmedInv'
  <2> SUFFICES ASSUME NEW r \in ActorRef, Asleep(r)' PROVE Armed(r)'
    BY DEF ArmedInv
  <2>1. r.slot \in Slot
    BY <1>0, RefFacts
  <2>2. Armed(r)
    BY <1>1 DEF ActivityInv, ArmedInv, Asleep
  <2>3. CASE slots[r.slot].waker = r
    <3>1. CASE r.slot \in dirty
      <4>1. r \in Wakers(dirty)
        BY <1>0, <2>3, <3>1, RefFacts DEF Wakers
      <4> QED BY <1>0, <1>1, <4>1 DEF Armed, TypeOK
    <3>2. CASE r.slot \notin dirty
      BY <1>2, <2>1, <2>3, <3>2 DEF Armed
    <3> QED BY <3>1, <3>2
  <2>4. ASSUME NEW c \in Caller, r \in hand[c] PROVE Armed(r)'
    BY <1>0, <1>1, <2>4 DEF Armed, TypeOK
  <2> QED BY <2>2, <2>3, <2>4 DEF Armed
<1>10. MarkedInv'
  <2> SUFFICES ASSUME NEW r \in ActorRef, Asleep(r)', slots'[r.slot].waker = r,
                      (~Current(r) \/ life[r.slot] # "Live" \/ ~Unchanged(r))'
               PROVE  FALSE
    BY DEF MarkedInv
  <2>1. r.slot \in Slot /\ r # NoRef
    BY <1>0, RefFacts
  <2>2. r.slot \notin dirty /\ slots[r.slot].waker = r
    BY <1>2, <2>1
  <2>3. ~Current(r) \/ life[r.slot] # "Live" \/ ~Unchanged(r)
    BY <1>1, <1>2, <2>1 DEF Current, Unchanged
  <2> QED BY <1>1, <2>2, <2>3 DEF ActivityInv, MarkedInv, Asleep
<1> QED BY <1>5, <1>6, <1>7, <1>8, <1>9, <1>10 DEF ActivityInv

\* Firing a waker: its task is no longer asleep.
LEMMA FireKeepsInv ==
  ASSUME ActivityInv, NEW c \in Caller, NEW r \in ActorRef, Fire(c, r)
  PROVE  ActivityInv'
<1>0. TypeOK
  BY DEF ActivityInv
<1>1. /\ hand' = [hand EXCEPT ![c] = @ \ {r}]
      /\ woken' = [woken EXCEPT ![r] = (pc[r] = "parked")]
      /\ gen' = gen /\ life' = life /\ work' = work
      /\ slots' = slots /\ dirty' = dirty /\ owing' = owing
      /\ pc' = pc /\ observed' = observed /\ seen' = seen
  BY DEF Fire, worldVars, registryVars
<1>2. TypeOK'
  <2>1. hand' \in [Caller -> SUBSET ActorRef]
    BY <1>0, <1>1 DEF TypeOK
  <2>2. woken' \in [ActorRef -> BOOLEAN]
    BY <1>0, <1>1 DEF TypeOK
  <2> QED BY <1>0, <1>1, <2>1, <2>2 DEF TypeOK
<1>3. ASSUME NEW q \in ActorRef, Asleep(q)' PROVE Asleep(q) /\ q # r
  BY <1>0, <1>1, <1>3 DEF Asleep, TypeOK
<1>4. DirtyIsOwed' /\ OwingHoldsNothing'
  BY <1>0, <1>1 DEF ActivityInv, DirtyIsOwed, OwingHoldsNothing, TypeOK, Caller
<1>5. EntryInv' /\ BegunInv' /\ TurnInv' /\ SeenInv'
  BY <1>1 DEF ActivityInv, EntryInv, BegunInv, TurnInv, SeenInv, InTurn, Current, Unchanged
<1>6. ArmedInv'
  <2> SUFFICES ASSUME NEW q \in ActorRef, Asleep(q)' PROVE Armed(q)'
    BY DEF ArmedInv
  <2>1. Armed(q) /\ q # r
    BY <1>3 DEF ActivityInv, ArmedInv
  <2> QED BY <1>0, <1>1, <2>1 DEF Armed, TypeOK
<1>7. MarkedInv'
  BY <1>1, <1>3 DEF ActivityInv, MarkedInv, Current, Unchanged
<1> QED BY <1>2, <1>4, <1>5, <1>6, <1>7 DEF ActivityInv

\* The step of one executor leaves the others' variables alone.
OnlyOf(r) ==
  \A q \in ActorRef \ {r} :
    pc'[q] = pc[q] /\ observed'[q] = observed[q] /\ seen'[q] = seen[q] /\ woken'[q] = woken[q]

\* Steps of an executor that leave the registry alone and do not go to sleep.
LEMMA LocalStepKeepsInv ==
  ASSUME ActivityInv, TypeOK', NEW r \in ActorRef, OnlyOf(r),
         UNCHANGED <<worldVars, registryVars, owing, hand>>,
         r.generation <= gen[r.slot],
         pc'[r] # "parked",
         InTurn(r)' /\ Current(r) =>
           slots[r.slot].generation = r.generation /\ observed'[r] <= slots[r.slot].version,
         pc'[r] = "poll" => seen'[r] = work[r.slot]
  PROVE  ActivityInv'
<1>1. /\ gen' = gen /\ life' = life /\ work' = work /\ slots' = slots
      /\ dirty' = dirty /\ owing' = owing /\ hand' = hand
  BY DEF worldVars, registryVars
<1>2. DirtyIsOwed' /\ OwingHoldsNothing' /\ EntryInv'
  BY <1>1 DEF ActivityInv, DirtyIsOwed, OwingHoldsNothing, EntryInv
<1>3. BegunInv'
  BY <1>1 DEF ActivityInv, BegunInv, OnlyOf
<1>4. TurnInv'
  BY <1>1 DEF ActivityInv, TurnInv, OnlyOf, InTurn, Current
<1>5. SeenInv'
  BY <1>1 DEF ActivityInv, SeenInv, OnlyOf, Current, Unchanged
<1>6. ASSUME NEW q \in ActorRef, Asleep(q)' PROVE Asleep(q) /\ q # r /\ observed'[q] = observed[q]
  BY <1>6 DEF Asleep, OnlyOf
<1>7. ArmedInv'
  BY <1>1, <1>6 DEF ActivityInv, ArmedInv, Armed
<1>8. MarkedInv'
  BY <1>1, <1>6 DEF ActivityInv, MarkedInv, Current, Unchanged
<1> QED BY <1>2, <1>3, <1>4, <1>5, <1>7, <1>8 DEF ActivityInv

\* Reading the version may retire the observer of an earlier actor: its waker
\* goes from the entry to the reader's hand.
LEMMA RegisterKeepsInv ==
  ASSUME ActivityInv, TypeOK', NEW r \in ActorRef, OnlyOf(r),
         Register(r), Current(r), hand[r] = {}, UNCHANGED <<worldVars, owing>>,
         pc'[r] \in {"snapshot", "inspect"},
         pc'[r] = "inspect" => observed'[r] = slots'[r.slot].version
  PROVE  ActivityInv'
<1>0. TypeOK /\ gen' = gen /\ life' = life /\ work' = work /\ owing' = owing
  BY DEF ActivityInv, worldVars
<1>1. /\ r.slot \in Slot /\ r \in Caller /\ r \notin Thread
      /\ r.generation \in Nat /\ gen[r.slot] = r.generation
      /\ slots[r.slot].version \in Nat
  BY <1>0, RefFacts DEF Current
<1>2. CASE slots[r.slot].generation = r.generation
  <2>1. UNCHANGED <<registryVars, hand>>
    BY <1>2 DEF Register
  <2>2. r.generation <= gen[r.slot]
    BY <1>1
  <2>3. InTurn(r)' => observed'[r] <= slots[r.slot].version
    BY <1>1, <2>1 DEF InTurn, registryVars
  <2> QED BY <1>2, <2>1, <2>2, <2>3, LocalStepKeepsInv
<1>3. CASE slots[r.slot].generation # r.generation
  <2> DEFINE old == slots[r.slot].waker
  <2>1. /\ slots' = [slots EXCEPT ![r.slot] = Fresh(r.generation)]
        /\ dirty' = dirty \ {r.slot}
        /\ hand' = [hand EXCEPT ![r] = {old} \ {NoRef}]
    BY <1>3 DEF Register
  <2>2. \A s \in Slot : s # r.slot => slots'[s] = slots[s]
    BY <1>0, <2>1 DEF TypeOK
  <2>3. /\ slots'[r.slot].generation = r.generation /\ slots'[r.slot].version = 1
        /\ slots'[r.slot].waker = NoRef
    BY <1>0, <1>1, <2>1 DEF TypeOK, Fresh
  <2>4. \A c \in Caller : hand'[c] = IF c = r THEN {old} \ {NoRef} ELSE hand[c]
    BY <1>0, <1>1, <2>1 DEF TypeOK
  <2>5. DirtyIsOwed'
    BY <1>0, <2>1 DEF ActivityInv, DirtyIsOwed
  <2>6. OwingHoldsNothing'
    BY <1>0, <1>1, <2>4 DEF ActivityInv, OwingHoldsNothing, Caller
  <2>7. EntryInv'
    <3> SUFFICES ASSUME NEW s \in Slot
                 PROVE  /\ slots'[s].generation <= gen'[s]
                        /\ slots'[s].waker # NoRef =>
                             slots'[s].waker = [slot |-> s, generation |-> slots'[s].generation]
      BY DEF EntryInv
    <3>1. CASE s = r.slot
      BY <1>0, <1>1, <2>3, <3>1
    <3>2. CASE s # r.slot
      BY <1>0, <2>2, <3>2 DEF ActivityInv, EntryInv
    <3> QED BY <3>1, <3>2
  <2>8. BegunInv'
    BY <1>0, <1>1 DEF ActivityInv, BegunInv, OnlyOf
  \* Another executor of the same slot is one of an earlier actor.
  <2>9. ASSUME NEW q \in ActorRef, q # r, Current(q) PROVE q.slot # r.slot
    BY <1>0, <1>1, <2>9, RefFacts DEF Current
  <2>10. TurnInv'
    <3> SUFFICES ASSUME NEW q \in ActorRef, InTurn(q)', Current(q)'
                 PROVE  /\ slots'[q.slot].generation = q.generation
                        /\ observed'[q] <= slots'[q.slot].version
      BY DEF TurnInv
    <3>1. CASE q = r
      <4>1. observed'[r] = 1
        BY <2>3, <3>1 DEF InTurn
      <4> QED BY <2>3, <3>1, <4>1
    <3>2. CASE q # r
      <4>1. InTurn(q) /\ Current(q) /\ observed'[q] = observed[q]
        BY <1>0, <3>2 DEF InTurn, Current, OnlyOf
      <4>2. q.slot \in Slot /\ q.slot # r.slot
        BY <1>0, <2>9, <3>2, <4>1, RefFacts
      <4> QED BY <2>2, <4>1, <4>2 DEF ActivityInv, TurnInv
    <3> QED BY <3>1, <3>2
  <2>11. SeenInv'
    <3> SUFFICES ASSUME NEW q \in ActorRef, pc'[q] \in {"poll", "parked"},
                        Current(q)', Unchanged(q)'
                 PROVE  seen'[q] = work'[q.slot]
      BY DEF SeenInv
    <3>1. q # r
      OBVIOUS
    <3>2. /\ pc[q] \in {"poll", "parked"} /\ Current(q)
          /\ observed'[q] = observed[q] /\ seen'[q] = seen[q]
      BY <1>0, <3>1 DEF Current, OnlyOf
    <3>3. q.slot \in Slot /\ q.slot # r.slot
      BY <1>0, <2>9, <3>1, <3>2, RefFacts
    <3>4. Unchanged(q)
      BY <2>2, <3>2, <3>3 DEF Unchanged
    <3> QED BY <1>0, <3>2, <3>4 DEF ActivityInv, SeenInv
  <2>12. ASSUME NEW q \in ActorRef, Asleep(q)'
         PROVE  Asleep(q) /\ q # r /\ observed'[q] = observed[q] /\ q.slot \in Slot
    BY <1>0, <2>12, RefFacts DEF Asleep, OnlyOf
  <2>13. ArmedInv'
    <3> SUFFICES ASSUME NEW q \in ActorRef, Asleep(q)' PROVE Armed(q)'
      BY DEF ArmedInv
    <3>1. Armed(q) /\ q \in ActorRef /\ q.slot \in Slot /\ q # NoRef
      BY <1>0, <2>12, RefFacts DEF ActivityInv, ArmedInv
    <3>2. CASE slots[q.slot].waker = q /\ q.slot = r.slot
      <4>1. q \in hand'[r]
        BY <1>1, <2>4, <3>1, <3>2
      <4> QED BY <1>1, <4>1 DEF Armed
    <3>3. CASE slots[q.slot].waker = q /\ q.slot # r.slot
      BY <2>2, <3>1, <3>3 DEF Armed
    <3>4. ASSUME NEW c \in Caller, q \in hand[c] PROVE Armed(q)'
      <4>1. c # r
        BY <3>4
      <4> QED BY <2>4, <3>4, <4>1 DEF Armed
    <3> QED BY <3>1, <3>2, <3>3, <3>4 DEF Armed
  <2>14. MarkedInv'
    <3> SUFFICES ASSUME NEW q \in ActorRef, Asleep(q)', slots'[q.slot].waker = q,
                        (~Current(q) \/ life[q.slot] # "Live" \/ ~Unchanged(q))'
                 PROVE  q.slot \in dirty'
      BY DEF MarkedInv
    <3>1. Asleep(q) /\ observed'[q] = observed[q] /\ q.slot \in Slot /\ q # NoRef
      BY <1>0, <2>12, RefFacts
    <3>2. q.slot # r.slot
      BY <2>3, <3>1
    <3>3. slots[q.slot] = slots'[q.slot]
      BY <2>2, <3>1, <3>2
    <3>4. q.slot \in dirty
      BY <1>0, <3>1, <3>3 DEF ActivityInv, MarkedInv, Current, Unchanged
    <3> QED BY <2>1, <3>2, <3>4
  <2> QED BY <2>5, <2>6, <2>7, <2>8, <2>10, <2>11, <2>13, <2>14 DEF ActivityInv
<1> QED BY <1>2, <1>3

\* Going to sleep: the entry is the executor's own, and nothing has changed.
LEMMA PollPendingKeepsInv ==
  ASSUME ActivityInv, NEW r \in ActorRef, PollPending(r)
  PROVE  ActivityInv'
<1>0. TypeOK /\ gen' = gen /\ life' = life /\ work' = work /\ owing' = owing
      /\ dirty' = dirty /\ hand' = hand /\ observed' = observed /\ seen' = seen
  BY DEF ActivityInv, PollPending, worldVars
<1>1. /\ r.slot \in Slot /\ r.generation \in Nat /\ r # NoRef
      /\ r = [slot |-> r.slot, generation |-> r.generation]
      /\ slots[r.slot] \in Entry /\ slots[r.slot].version \in Nat
  BY <1>0, RefFacts
<1>2. /\ slots' = [slots EXCEPT ![r.slot].waker = r]
      /\ woken' = [woken EXCEPT ![r] = FALSE]
      /\ pc' = [pc EXCEPT ![r] = "parked"]
      /\ pc[r] \in {"poll", "parked"}
  BY DEF PollPending, Turn
<1>3. /\ Current(r) /\ life[r.slot] = "Live" /\ Unchanged(r)
      /\ slots[r.slot].generation = r.generation
  BY DEF PollPending, Pending, Unchanged
<1>4. ASSUME NEW s \in Slot
      PROVE  /\ slots'[s] \in Entry
             /\ slots'[s].generation = slots[s].generation
             /\ slots'[s].version = slots[s].version
             /\ slots'[s].overflow = slots[s].overflow
             /\ slots'[s].waker = IF s = r.slot THEN r ELSE slots[s].waker
  <2>1. slots[s] \in Entry
    BY <1>0 DEF TypeOK
  <2>2. slots'[s] = IF s = r.slot THEN [slots[s] EXCEPT !.waker = r] ELSE slots[s]
    BY <1>0, <1>2 DEF TypeOK
  <2> QED BY <2>1, <2>2 DEF Entry
<1>5. TypeOK'
  <2>1. slots' \in [Slot -> Entry]
    BY <1>0, <1>2, <1>4 DEF TypeOK
  <2>2. /\ pc' \in [ActorRef -> {"none", "snapshot", "inspect", "poll", "parked", "ended"}]
        /\ woken' \in [ActorRef -> BOOLEAN]
    BY <1>0, <1>2 DEF TypeOK
  <2> QED BY <1>0, <2>1, <2>2 DEF TypeOK
<1>6. DirtyIsOwed' /\ OwingHoldsNothing'
  BY <1>0 DEF ActivityInv, DirtyIsOwed, OwingHoldsNothing
<1>7. EntryInv'
  <2> SUFFICES ASSUME NEW s \in Slot
               PROVE  /\ slots'[s].generation <= gen'[s]
                      /\ slots'[s].waker # NoRef =>
                           slots'[s].waker = [slot |-> s, generation |-> slots'[s].generation]
    BY DEF EntryInv
  <2> QED BY <1>0, <1>1, <1>3, <1>4 DEF ActivityInv, EntryInv
<1>8. \A q \in ActorRef : /\ pc'[q] = IF q = r THEN "parked" ELSE pc[q]
                          /\ q # r => woken'[q] = woken[q]
                          /\ q.slot \in Slot
  BY <1>0, <1>2, RefFacts DEF TypeOK
<1>9. BegunInv'
  BY <1>0, <1>2, <1>8 DEF ActivityInv, BegunInv
<1>10. TurnInv'
  <2> SUFFICES ASSUME NEW q \in ActorRef, InTurn(q)', Current(q)'
               PROVE  /\ slots'[q.slot].generation = q.generation
                      /\ observed'[q] <= slots'[q.slot].version
    BY DEF TurnInv
  <2>1. InTurn(q) /\ Current(q)
    BY <1>0, <1>2, <1>8 DEF InTurn, Current
  <2> QED BY <1>0, <1>4, <1>8, <2>1 DEF ActivityInv, TurnInv
<1>11. SeenInv'
  <2> SUFFICES ASSUME NEW q \in ActorRef, pc'[q] \in {"poll", "parked"},
                      Current(q)', Unchanged(q)'
               PROVE  seen'[q] = work'[q.slot]
    BY DEF SeenInv
  <2>1. pc[q] \in {"poll", "parked"} /\ Current(q) /\ Unchanged(q)
    BY <1>0, <1>2, <1>4, <1>8 DEF Current, Unchanged
  <2> QED BY <1>0, <2>1 DEF ActivityInv, SeenInv
\* The waker that was in the entry, if any, was this executor's own.
<1>12. ASSUME NEW q \in ActorRef, q # r, slots[q.slot].waker = q
       PROVE  q.slot # r.slot
  <2>1. q.slot \in Slot /\ q # NoRef
    BY <1>0, RefFacts
  <2>2. q = [slot |-> q.slot, generation |-> slots[q.slot].generation]
    BY <1>12, <2>1 DEF ActivityInv, EntryInv
  <2> QED BY <1>1, <1>3, <1>12, <2>2
<1>13. ArmedInv'
  <2> SUFFICES ASSUME NEW q \in ActorRef, Asleep(q)' PROVE Armed(q)'
    BY DEF ArmedInv
  <2>1. CASE q = r
    BY <1>1, <1>4, <2>1 DEF Armed
  <2>2. CASE q # r
    <3>1. Armed(q)
      BY <1>8, <2>2 DEF ActivityInv, ArmedInv, Asleep
    <3> QED BY <1>0, <1>4, <1>8, <1>12, <2>2, <3>1 DEF Armed
  <2> QED BY <2>1, <2>2
<1>14. MarkedInv'
  <2> SUFFICES ASSUME NEW q \in ActorRef, Asleep(q)', slots'[q.slot].waker = q,
                      (~Current(q) \/ life[q.slot] # "Live" \/ ~Unchanged(q))'
               PROVE  q.slot \in dirty'
    BY DEF MarkedInv
  <2>1. ~Current(q) \/ life[q.slot] # "Live" \/ ~Unchanged(q)
    BY <1>0, <1>4, <1>8 DEF Current, Unchanged
  <2>2. q # r
    BY <1>3, <2>1
  <2>3. q.slot # r.slot /\ slots[q.slot].waker = q
    BY <1>4, <1>8, <2>2
  <2>4. Asleep(q)
    BY <1>8, <2>2 DEF Asleep
  <2> QED BY <1>0, <2>1, <2>3, <2>4 DEF ActivityInv, MarkedInv
<1> QED BY <1>5, <1>6, <1>7, <1>9, <1>10, <1>11, <1>13, <1>14 DEF ActivityInv

LEMMA TurnTypes ==
  ASSUME TypeOK, NEW r \in ActorRef, NEW from,
         NEW to \in {"none", "snapshot", "inspect", "poll", "parked", "ended"}, Turn(r, from, to)
  PROVE  /\ pc' \in [ActorRef -> {"none", "snapshot", "inspect", "poll", "parked", "ended"}]
         /\ pc'[r] = to /\ pc[r] \in from /\ hand[r] = {}
         /\ \A q \in ActorRef \ {r} : pc'[q] = pc[q]
  BY DEF Turn, TypeOK

LEMMA EndTurnTypes ==
  ASSUME TypeOK, NEW r \in ActorRef, EndTurn(r)
  PROVE  /\ observed' \in [ActorRef -> 1..MaxVersion]
         /\ seen' \in [ActorRef -> BOOLEAN] /\ woken' \in [ActorRef -> BOOLEAN]
         /\ \A q \in ActorRef \ {r} :
              observed'[q] = observed[q] /\ seen'[q] = seen[q] /\ woken'[q] = woken[q]
  BY VersionAssumption DEF EndTurn, TypeOK

LEMMA RegisterTypes ==
  ASSUME TypeOK, NEW r \in ActorRef, Register(r)
  PROVE  /\ slots' \in [Slot -> Entry] /\ dirty' \subseteq Slot
         /\ hand' \in [Caller -> SUBSET ActorRef]
<1>1. r.slot \in Slot /\ r.generation \in 0..MaxGeneration /\ slots[r.slot] \in Entry
  BY DEF ActorRef, TypeOK
<1>2. Fresh(r.generation) \in Entry
  BY <1>1, VersionAssumption DEF Fresh, Entry
<1>3. {slots[r.slot].waker} \ {NoRef} \subseteq ActorRef
  BY <1>1 DEF Entry
<1> QED BY <1>1, <1>2, <1>3 DEF Register, TypeOK, registryVars

\* An executor that has begun is not ahead of its slot.
LEMMA Begun ==
  ASSUME ActivityInv, NEW r \in ActorRef, pc[r] # "none" \/ Current(r)
  PROVE  r.generation <= gen[r.slot]
<1>1. TypeOK
  BY DEF ActivityInv
<1>2. r.generation \in Nat /\ gen[r.slot] \in Nat
  BY <1>1, RefFacts
<1> QED BY <1>2 DEF ActivityInv, BegunInv, Current

LEMMA ExecutorKeepsInv ==
  ASSUME ActivityInv, NEW r \in ActorRef, Begin(r) \/ ExecutorStep(r) \/ Timer(r)
  PROVE  ActivityInv'
<1>0. TypeOK /\ r.slot \in Slot
  BY RefFacts DEF ActivityInv
<1>1. CASE Begin(r)
  <2>1. Turn(r, {"none"}, "snapshot") /\ Current(r)
        /\ UNCHANGED <<worldVars, registryVars, owing, hand, observed, seen, woken>>
    BY <1>1 DEF Begin
  <2>2. TypeOK' /\ OnlyOf(r) /\ pc'[r] = "snapshot"
    BY <1>0, <2>1, TurnTypes DEF TypeOK, OnlyOf, worldVars, registryVars
  <2> QED BY <2>1, <2>2, Begun, LocalStepKeepsInv DEF InTurn
<1>2. CASE Snapshot(r)
  <2>1. /\ Turn(r, {"snapshot"}, "inspect") /\ Current(r) /\ Register(r)
        /\ observed' = [observed EXCEPT ![r] = slots'[r.slot].version]
        /\ UNCHANGED <<worldVars, owing, seen, woken>>
    BY <1>2 DEF Snapshot
  <2>2. /\ slots' \in [Slot -> Entry] /\ dirty' \subseteq Slot
        /\ hand' \in [Caller -> SUBSET ActorRef]
    BY <1>0, <2>1, RegisterTypes
  <2>3. slots'[r.slot].version \in 1..MaxVersion
    BY <1>0, <2>2 DEF Entry
  <2>4. /\ observed' \in [ActorRef -> 1..MaxVersion]
        /\ observed'[r] = slots'[r.slot].version
        /\ \A q \in ActorRef \ {r} : observed'[q] = observed[q]
    BY <1>0, <2>1, <2>3 DEF TypeOK
  <2>5. /\ pc' \in [ActorRef -> {"none", "snapshot", "inspect", "poll", "parked", "ended"}]
        /\ pc'[r] = "inspect" /\ hand[r] = {}
        /\ \A q \in ActorRef \ {r} : pc'[q] = pc[q]
    BY <1>0, <2>1, TurnTypes
  <2>6. TypeOK' /\ OnlyOf(r)
    BY <1>0, <2>1, <2>2, <2>4, <2>5 DEF TypeOK, OnlyOf, worldVars
  <2> QED BY <2>1, <2>4, <2>5, <2>6, RegisterKeepsInv
<1>3. CASE SnapshotFails(r)
  <2>1. Turn(r, {"snapshot"}, "ended")
        /\ UNCHANGED <<worldVars, registryVars, owing, hand, observed, seen, woken>>
    BY <1>3 DEF SnapshotFails
  <2>2. TypeOK' /\ OnlyOf(r) /\ pc'[r] = "ended" /\ pc[r] = "snapshot"
    BY <1>0, <2>1, TurnTypes DEF TypeOK, OnlyOf, worldVars, registryVars
  <2> QED BY <2>1, <2>2, Begun, LocalStepKeepsInv DEF InTurn
<1>4. CASE Inspect(r)
  <2>1. /\ Turn(r, {"inspect"}, "poll") /\ Current(r)
        /\ seen' = [seen EXCEPT ![r] = work[r.slot]]
        /\ UNCHANGED <<worldVars, registryVars, owing, hand, observed, woken>>
    BY <1>4 DEF Inspect
  <2>2. /\ seen' \in [ActorRef -> BOOLEAN] /\ seen'[r] = work[r.slot]
        /\ \A q \in ActorRef \ {r} : seen'[q] = seen[q]
    BY <1>0, <2>1 DEF TypeOK
  <2>3. TypeOK' /\ OnlyOf(r) /\ pc'[r] = "poll" /\ pc[r] = "inspect"
    BY <1>0, <2>1, <2>2, TurnTypes DEF TypeOK, OnlyOf, worldVars, registryVars
  <2>4. slots[r.slot].generation = r.generation /\ observed[r] <= slots[r.slot].version
    BY <2>1, <2>3 DEF ActivityInv, TurnInv, InTurn
  <2> QED BY <2>1, <2>2, <2>3, <2>4, Begun, LocalStepKeepsInv
<1>5. CASE InspectStopped(r)
  <2>1. Turn(r, {"inspect"}, "ended") /\ EndTurn(r)
        /\ UNCHANGED <<worldVars, registryVars, owing, hand>>
    BY <1>5 DEF InspectStopped
  <2>2. TypeOK' /\ OnlyOf(r) /\ pc'[r] = "ended" /\ pc[r] = "inspect"
    BY <1>0, <2>1, TurnTypes, EndTurnTypes DEF TypeOK, OnlyOf, worldVars, registryVars
  <2> QED BY <2>1, <2>2, Begun, LocalStepKeepsInv DEF InTurn
<1>6. CASE PollPending(r)
  BY <1>6, PollPendingKeepsInv
<1>7. CASE PollReady(r)
  <2>1. Turn(r, {"poll", "parked"}, "snapshot") /\ EndTurn(r) /\ UNCHANGED <<worldVars, owing>>
    BY <1>7 DEF PollReady
  <2>2. OnlyOf(r) /\ pc'[r] = "snapshot" /\ pc[r] # "none" /\ hand[r] = {}
    BY <1>0, <2>1, TurnTypes, EndTurnTypes DEF OnlyOf
  <2>3. CASE UNCHANGED <<registryVars, hand>>
    <3>1. TypeOK'
      BY <1>0, <2>1, <2>3, TurnTypes, EndTurnTypes DEF TypeOK, worldVars, registryVars
    <3> QED BY <2>1, <2>2, <2>3, <3>1, Begun, LocalStepKeepsInv DEF InTurn
  <2>4. CASE Current(r) /\ Register(r)
    <3>1. TypeOK'
      BY <1>0, <2>1, <2>4, TurnTypes, EndTurnTypes, RegisterTypes DEF TypeOK, worldVars
    <3> QED BY <2>1, <2>2, <2>4, <3>1, RegisterKeepsInv
  <2> QED BY <1>7, <2>3, <2>4 DEF PollReady
<1>8. CASE Timer(r)
  <2>1. Turn(r, {"parked"}, "snapshot") /\ EndTurn(r)
        /\ UNCHANGED <<worldVars, registryVars, owing, hand>>
    BY <1>8 DEF Timer
  <2>2. TypeOK' /\ OnlyOf(r) /\ pc'[r] = "snapshot" /\ pc[r] = "parked"
    BY <1>0, <2>1, TurnTypes, EndTurnTypes DEF TypeOK, OnlyOf, worldVars, registryVars
  <2> QED BY <2>1, <2>2, Begun, LocalStepKeepsInv DEF InTurn
<1> QED BY <1>1, <1>2, <1>3, <1>4, <1>5, <1>6, <1>7, <1>8 DEF ExecutorStep

LEMMA StepInv == ActivityInv /\ [Next]_vars => ActivityInv'
<1> SUFFICES ASSUME ActivityInv, [Next]_vars PROVE ActivityInv'
  OBVIOUS
<1>0. TypeOK
  BY DEF ActivityInv
<1>1. ASSUME NEW s \in Slot PROVE gen[s] \in 1..MaxGeneration
  BY <1>0 DEF TypeOK
<1>2. ASSUME NEW t \in Thread, NEW S \in SUBSET Slot, Change(t, S) PROVE ActivityInv'
  <2>1. /\ Call(t) /\ Mark(S, gen') /\ gen' = gen /\ life' = life
        /\ UNCHANGED hand /\ UNCHANGED observerVars
    BY <1>2 DEF Change
  <2>2. work' \in [Slot -> BOOLEAN] /\ \A s \in Slot \ S : work'[s] = work[s]
    BY <1>0, <1>2 DEF Change, TypeOK
  <2>3. \A s \in Slot : gen[s] <= gen'[s]
    BY <1>1, <2>1
  <2> QED BY <1>0, <2>1, <2>2, <2>3, ChangeKeepsInv DEF TypeOK
<1>3. ASSUME NEW t \in Thread, NEW s \in Slot, Stop(t, s) \/ Finalise(t, s) PROVE ActivityInv'
  <2>1. /\ Call(t) /\ Mark({s}, gen') /\ gen' = gen /\ work' = work
        /\ UNCHANGED hand /\ UNCHANGED observerVars
    BY <1>3 DEF Stop, Finalise
  <2>2. /\ life' \in [Slot -> {"Live", "Stopping", "Stopped"}]
        /\ \A u \in Slot \ {s} : life'[u] = life[u]
    BY <1>0, <1>3 DEF Stop, Finalise, TypeOK
  <2>3. \A u \in Slot : gen[u] <= gen'[u]
    BY <1>1, <2>1
  <2> QED BY <1>0, <2>1, <2>2, <2>3, ChangeKeepsInv DEF TypeOK
<1>4. ASSUME NEW t \in Thread, NEW s \in Slot, Allocate(t, s) PROVE ActivityInv'
  <2>1. Call(t) /\ Mark({s}, gen') /\ UNCHANGED hand /\ UNCHANGED observerVars
    BY <1>4 DEF Allocate
  <2>2. /\ gen' \in [Slot -> 1..MaxGeneration]
        /\ \A u \in Slot : gen[u] <= gen'[u]
        /\ \A u \in Slot \ {s} : gen'[u] = gen[u]
    BY <1>0, <1>1, <1>4, GenerationAssumption DEF Allocate, TypeOK
  <2>3. /\ life' \in [Slot -> {"Live", "Stopping", "Stopped"}]
        /\ work' \in [Slot -> BOOLEAN]
        /\ \A u \in Slot \ {s} : life'[u] = life[u] /\ work'[u] = work[u]
    BY <1>0, <1>4 DEF Allocate, TypeOK
  <2> QED BY <2>1, <2>2, <2>3, ChangeKeepsInv
<1>5. ASSUME NEW t \in Thread, Touch(t) PROVE ActivityInv'
  BY <1>5, TouchKeepsInv
<1>6. ASSUME NEW c \in Caller, NEW r \in ActorRef, Fire(c, r) PROVE ActivityInv'
  BY <1>6, FireKeepsInv
<1>7. ASSUME NEW r \in ActorRef, Begin(r) \/ ExecutorStep(r) \/ Timer(r) PROVE ActivityInv'
  BY <1>7, ExecutorKeepsInv
<1>8. CASE UNCHANGED vars
  BY <1>8 DEF vars, worldVars, registryVars, observerVars, ActivityInv, TypeOK, DirtyIsOwed,
              OwingHoldsNothing, EntryInv, BegunInv, TurnInv, SeenInv, ArmedInv, MarkedInv,
              InTurn, Current, Unchanged, Asleep, Armed
<1> QED BY <1>2, <1>3, <1>4, <1>5, <1>6, <1>7, <1>8 DEF Next

LEMMA SpecInv == Spec => []ActivityInv
<1>1. Init => ActivityInv
  BY InitInv
<1>2. ActivityInv /\ [Next]_vars => ActivityInv'
  BY StepInv
<1> QED BY <1>1, <1>2, PTL DEF Spec

\* Whatever the interleaving of callers, executors and the reuse of slots, an
\* executor never sleeps on an outdated view that nobody is about to wake it
\* from.
THEOREM ExecutorNeverMissesChange == Spec => []NoLostWakeup
<1>1. ActivityInv => NoLostWakeup
  <2> SUFFICES ASSUME ActivityInv, NEW r \in ActorRef, Asleep(r), Outdated(r),
                      ~ \E c \in Caller : r \in hand[c]
               PROVE  slots[r.slot].waker = r /\ r.slot \in dirty /\ owing # {}
    BY DEF NoLostWakeup
  <2>1. slots[r.slot].waker = r
    BY DEF ActivityInv, ArmedInv, Armed
  <2>2. ~Current(r) \/ life[r.slot] # "Live" \/ ~Unchanged(r)
    BY DEF ActivityInv, SeenInv, Outdated, Asleep
  <2>3. r.slot \in dirty
    BY <2>1, <2>2 DEF ActivityInv, MarkedInv
  <2>4. owing # {}
    BY <2>3 DEF ActivityInv, DirtyIsOwed
  <2> QED BY <2>1, <2>3, <2>4
<1> QED BY <1>1, SpecInv, PTL

\* An executor that finds the version it has read finds its actor as it has
\* inspected it, at any limit of the version counter.
THEOREM VersionsNeverLie == Spec => []UnchangedMeansUnchanged
<1>1. ActivityInv => UnchangedMeansUnchanged
  BY DEF ActivityInv, SeenInv, UnchangedMeansUnchanged, Pending, Unchanged
<1> QED BY <1>1, SpecInv, PTL
=============================================================================
