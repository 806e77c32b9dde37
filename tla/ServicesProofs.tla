--------------------------- MODULE ServicesProofs ---------------------------
(***************************************************************************)
(* Theorems about Services, for every set of slots and names and for all   *)
(* limits.  The registry stays exact because a fence reaches the scopes of *)
(* a fenced service, and nothing else of a service lies below what it      *)
(* reaches: services are roots.  Requests and links stay covered by their  *)
(* lease, although the lease is not looked at again, because a scope whose *)
(* lease is gone is behind a fence and its generation never comes back.    *)
(***************************************************************************)
EXTENDS Services, TLAPS

\* Services are roots, each registered once; a scope lies below its holder.
Rooted ==
  /\ \A c \in records : actor[c.service.slot].above = {}
  /\ \A c, d \in records : c.service = d.service => c = d
  /\ \A l \in leases : l.owner \in actor[l.scope.slot].above

\* The reference is behind a stop fence or retired.
Gone(r) ==
  \/ actor[r.slot].gen > r.gen
  \/ actor[r.slot].gen = r.gen /\ State(r) \in {"Stopping", "Stopped"}

\* The lease a call was validated for is there, or its scope has been fenced.
CallCovered == call # Idle => call.lease \in leases \/ Gone(call.lease.scope)

\* The inductive invariant.
RegistryInv == TypeOK /\ RegistryExact /\ Rooted /\ WorkIsLeased /\ CallCovered

-----------------------------------------------------------------------------
(* Actors.                                                                 *)

ActorEntry == [gen : 0..LastGen, above : SUBSET ActorRef, task : BOOLEAN,
               state : {"Starting", "Active", "Quiescing", "Stopping", "Stopped"}]
ActorType == [Slot -> ActorEntry]

\* A slot has one live reference at most.
LEMMA LiveRef ==
  ASSUME NEW r \in Live
  PROVE  /\ r \in ActorRef /\ r.slot \in Slot /\ r.gen \in 1..LastGen
         /\ r = [slot |-> r.slot, gen |-> r.gen]
         /\ actor[r.slot].gen = r.gen /\ State(r) # "Stopped"
BY DEF Live, ActorRef, Current, State

LEMMA SameSlot ==
  ASSUME NEW r \in Live, NEW s \in Live, r.slot = s.slot
  PROVE  r = s
<1>1. r.gen = s.gen
  BY LiveRef
<1> QED
  BY <1>1, LiveRef

\* try_finalize keeps the type and changes only actors that are stopping.
LEMMA FinalisedShape ==
  ASSUME NEW a \in ActorType
  PROVE  /\ Finalised(a) \in ActorType
         /\ \A s \in Slot : /\ Finalised(a)[s].gen = a[s].gen
                            /\ a[s].state # "Stopping" => Finalised(a)[s] = a[s]
                            /\ a[s].state = "Stopping" =>
                                 Finalised(a)[s].state \in {"Stopping", "Stopped"}
<1> DEFINE retired(s) == [a[s] EXCEPT !.state = "Stopped", !.above = {}]
<1>1. ASSUME NEW s \in Slot
      PROVE  /\ Finalised(a)[s] = a[s] \/ Finalised(a)[s] = retired(s)
             /\ a[s].state # "Stopping" => Finalised(a)[s] = a[s]
  BY DEF Finalised
<1>2. ASSUME NEW s \in Slot
      PROVE  /\ retired(s).gen = a[s].gen /\ retired(s).state = "Stopped"
             /\ retired(s) \in ActorEntry
             /\ a[s] \in ActorEntry
  BY DEF ActorType, ActorEntry
<1>3. Finalised(a) = [s \in Slot |-> Finalised(a)[s]]
  BY DEF Finalised
<1>4. Finalised(a) \in ActorType
  <2>1. \A s \in Slot : Finalised(a)[s] \in ActorEntry
    BY <1>1, <1>2
  <2> HIDE DEF retired
  <2> QED
    BY <1>3, <2>1 DEF ActorType, ActorEntry
<1> QED
  BY <1>1, <1>2, <1>4

\* A step that keeps every actor that is neither free nor stopping in its
\* generation and its place, and lets none of the others back.
Keeping(a, b) ==
  \A s \in Slot :
    /\ b[s].gen >= a[s].gen
    /\ a[s].state \notin {"Stopping", "Stopped"} => b[s].gen = a[s].gen
    /\ b[s].gen = a[s].gen /\ a[s].state \in {"Stopping", "Stopped"} =>
         b[s].state \in {"Stopping", "Stopped"}

\* What is gone stays gone.
LEMMA GoneStays ==
  ASSUME TypeOK, TypeOK', Keeping(actor, actor'), NEW r \in ActorRef, Gone(r)
  PROVE  Gone(r)'
<1>1. /\ r.slot \in Slot /\ r.gen \in Nat
      /\ actor[r.slot].gen \in Nat /\ actor'[r.slot].gen \in Nat
  BY DEF ActorRef, TypeOK
<1> QED
  BY <1>1 DEF Gone, Keeping, State

-----------------------------------------------------------------------------
(* Each step.                                                              *)

\* A step that leaves the tables alone and no registered actor worse off.
LEMMA QuietStep ==
  ASSUME RegistryInv, TypeOK', Keeping(actor, actor'),
         UNCHANGED <<registry, requests, links>>, UNCHANGED call \/ call' = Idle,
         \A s \in Slot : actor[s].state \in {"Active", "Quiescing"} =>
           /\ actor'[s].state \in {"Active", "Quiescing"}
           /\ actor'[s].above = actor[s].above
  PROVE  RegistryInv'
<1> USE DEF RegistryInv
<1>1. ASSUME NEW r \in Live, State(r) \in {"Active", "Quiescing"}
      PROVE  /\ r \in Live' /\ State(r)' \in {"Active", "Quiescing"}
             /\ actor'[r.slot].above = actor[r.slot].above
  BY <1>1, LiveRef DEF Live, Current, State, Keeping
<1>2. ASSUME NEW c \in records
      PROVE  /\ c.service \in Live' /\ State(c.service)' \in {"Active", "Quiescing"}
             /\ actor'[c.service.slot].above = {}
  BY <1>1 DEF RegistryExact, Rooted
<1>3. ASSUME NEW l \in leases
      PROVE  /\ l.scope \in Tree(l.owner)' /\ State(l.scope)' \in {"Active", "Quiescing"}
             /\ l.owner \in actor'[l.scope.slot].above
  <2>1. l.scope \in Live /\ State(l.scope) \in {"Active", "Quiescing"}
    BY DEF RegistryExact, Tree
  <2>2. /\ l.scope \in Live' /\ State(l.scope)' \in {"Active", "Quiescing"}
        /\ actor'[l.scope.slot].above = actor[l.scope.slot].above
    BY <1>1, <2>1
  <2> QED
    BY <2>2 DEF Rooted, Tree
<1>4. RegistryExact' /\ Rooted'
  BY <1>2, <1>3 DEF registry, RegistryExact, Rooted
<1>5. WorkIsLeased'
  BY DEF registry, WorkIsLeased
<1>6. CallCovered'
  <2>1. CASE call' = Idle
    BY <2>1 DEF CallCovered
  <2>2. CASE call' = call /\ call # Idle
    <3>1. call.lease.scope \in ActorRef
      BY <2>2 DEF TypeOK, ServiceLease
    <3> DEFINE r == call.lease.scope
    <3>2. call'.lease = call.lease
      BY <2>2
    <3>3. PICK q \in ActorRef : q = r
      BY <3>1
    <3>4. Gone(q) => Gone(q)'
      BY GoneStays
    <3>5. call.lease \in leases \/ Gone(q)
      BY <2>2, <3>3 DEF CallCovered
    <3>6. call'.lease \in leases' \/ Gone(q)'
      BY <3>2, <3>4, <3>5 DEF registry
    <3> QED
      BY <3>2, <3>3, <3>6 DEF CallCovered
  <2> QED
    BY <2>1, <2>2
<1> QED
  BY <1>4, <1>5, <1>6

\* A new actor in a slot that was free leaves every other one as it was.
LEMMA AllocateShape ==
  ASSUME TypeOK, NEW s \in Slot, NEW parents \in SUBSET Live,
         NEW st \in {"Starting", "Active"}, Allocate(s, parents, st)
  PROVE  /\ actor' \in ActorType /\ Keeping(actor, actor')
         /\ actor[s].state = "Stopped" /\ actor[s].gen + 1 \in 1..LastGen
         /\ actor'[s].gen = actor[s].gen + 1 /\ actor'[s].state = st
         /\ parents \subseteq actor'[s].above
         /\ \A t \in Slot : t # s => actor'[t] = actor[t]
<1> DEFINE above == parents \cup UNION {actor[p.slot].above : p \in parents}
           fresh == [gen |-> actor[s].gen + 1, state |-> st, task |-> FALSE, above |-> above]
<1>1. actor[s].state = "Stopped" /\ actor[s].gen < LastGen /\ actor' = [actor EXCEPT ![s] = fresh]
  BY DEF Allocate
<1>2. actor[s].gen \in 0..LastGen /\ LastGen \in Nat
  BY ServiceAssumption DEF TypeOK
<1>3. above \in SUBSET ActorRef
  BY LiveRef DEF TypeOK
<1>4. fresh \in ActorEntry
  <2> HIDE DEF above
  <2> QED
    BY <1>1, <1>2, <1>3 DEF ActorEntry
<1>5. fresh.gen = actor[s].gen + 1 /\ fresh.state = st /\ fresh.above = above
  OBVIOUS
<1> HIDE DEF fresh
<1>6. actor' \in ActorType /\ actor'[s] = fresh /\ \A t \in Slot : t # s => actor'[t] = actor[t]
  BY <1>1, <1>4 DEF TypeOK, ActorType, ActorEntry
<1>7. \A t \in Slot : actor[t].gen \in Int
  BY DEF TypeOK
<1>8. Keeping(actor, actor')
  <2> HIDE DEF above
  <2> QED
    BY <1>1, <1>2, <1>5, <1>6, <1>7 DEF Keeping
<1> QED
  BY <1>1, <1>2, <1>5, <1>6, <1>8

-----------------------------------------------------------------------------
(* Fences.                                                                 *)

\* A fence that spares a lease's scope spares the service too: a service is a
\* root, so only its own fence reaches it, and that takes all its scopes.
LEMMA FenceSparesBoth ==
  ASSUME RegistryInv, NEW r \in Live, NEW l \in leases, l.scope \notin Fenced(r),
         NEW c \in records, c.service = l.service
  PROVE  c.service \notin Fenced(r)
<1> USE DEF RegistryInv
<1>1. actor[c.service.slot].above = {} /\ l.scope \in c.scopes /\ l.scope \in Live
  BY DEF Rooted, RegistryExact, Tree
<1>2. c.service # r
  <2>1. l.scope \in Tree(l.scope)
    BY <1>1 DEF Tree
  <2> QED
    BY <1>1, <2>1 DEF Fenced
<1>3. ASSUME NEW d \in records, NEW x \in d.scopes PROVE c.service # x
  <2>1. PICK m \in leases : m.scope = x
    BY DEF RegistryExact
  <2>2. actor[x.slot].above # {}
    BY <2>1 DEF Rooted
  <2> QED
    BY <1>1, <2>2
<1>4. ASSUME NEW x, c.service \in Tree(x) PROVE c.service = x
  BY <1>1, <1>4 DEF Tree
<1> QED
  BY <1>2, <1>3, <1>4 DEF Fenced

\* What a fence does to the actors.
LEMMA FenceShape ==
  ASSUME RegistryInv, NEW r \in Live, Fence(r)
  PROVE  /\ Fenced(r) \subseteq Live
         /\ actor' \in ActorType /\ Keeping(actor, actor')
         /\ \A s \in Slot : actor'[s].gen = actor[s].gen
         /\ \A f \in Fenced(r) : actor'[f.slot].state \in {"Stopping", "Stopped"}
         /\ \A d \in Live : d \notin Fenced(r) /\ State(d) # "Stopping" =>
              actor'[d.slot] = actor[d.slot]
<1> USE DEF RegistryInv
<1> DEFINE marked == [s \in Slot |-> IF \E f \in Fenced(r) : f.slot = s
                                      THEN [actor[s] EXCEPT !.state = "Stopping"] ELSE actor[s]]
<1>1. Fenced(r) \subseteq Live
  BY DEF Fenced, Tree
<1>2. actor' = Finalised(marked)
  BY DEF Fence
<1>3. ASSUME NEW s \in Slot
      PROVE  /\ marked[s] \in ActorEntry
             /\ marked[s].gen = actor[s].gen
             /\ marked[s] = actor[s] \/ marked[s].state = "Stopping"
             /\ (\E f \in Fenced(r) : f.slot = s) => marked[s].state = "Stopping"
             /\ (~\E f \in Fenced(r) : f.slot = s) => marked[s] = actor[s]
  <2>1. actor[s] \in ActorEntry
    BY DEF TypeOK, ActorEntry
  <2>2. CASE \E f \in Fenced(r) : f.slot = s
    <3>1. marked[s] = [actor[s] EXCEPT !.state = "Stopping"]
      BY <2>2
    <3> HIDE DEF marked
    <3> QED
      BY <2>1, <2>2, <3>1 DEF ActorEntry
  <2>3. CASE ~\E f \in Fenced(r) : f.slot = s
    <3>1. marked[s] = actor[s]
      BY <2>3
    <3> HIDE DEF marked
    <3> QED
      BY <2>1, <2>3, <3>1
  <2> QED
    BY <2>2, <2>3
<1>4. DOMAIN marked = Slot /\ marked = [s \in Slot |-> marked[s]]
  OBVIOUS
<1> HIDE DEF marked
<1>5. marked \in ActorType
  BY <1>3, <1>4 DEF ActorType, ActorEntry
<1>6. actor' \in ActorType
  BY <1>2, <1>5, FinalisedShape
<1>7. ASSUME NEW s \in Slot
      PROVE  /\ actor'[s].gen = marked[s].gen
             /\ marked[s].state # "Stopping" => actor'[s] = marked[s]
             /\ marked[s].state = "Stopping" => actor'[s].state \in {"Stopping", "Stopped"}
  BY <1>2, <1>5, FinalisedShape
<1>8. \A s \in Slot : actor'[s].gen = actor[s].gen /\ actor[s].gen \in Int
  BY <1>3, <1>7 DEF TypeOK
<1>9. Keeping(actor, actor')
  <2>1. \A s \in Slot : actor[s].state \in {"Stopping", "Stopped"} =>
          actor'[s].state \in {"Stopping", "Stopped"}
    BY <1>3, <1>7
  <2> QED
    BY <1>8, <2>1 DEF Keeping
<1>10. \A f \in Fenced(r) : actor'[f.slot].state \in {"Stopping", "Stopped"}
  BY <1>1, <1>3, <1>7, LiveRef
<1>11. ASSUME NEW d \in Live, d \notin Fenced(r), State(d) # "Stopping"
       PROVE  actor'[d.slot] = actor[d.slot]
  <2>1. ~\E f \in Fenced(r) : f.slot = d.slot
    BY <1>1, <1>11, SameSlot
  <2>2. d.slot \in Slot
    BY LiveRef
  <2> QED
    BY <1>3, <1>7, <1>11, <2>1, <2>2 DEF State
<1> QED
  BY <1>1, <1>6, <1>8, <1>9, <1>10, <1>11

\* A fence, with the tables it clears, keeps the invariant.
LEMMA FenceStep ==
  ASSUME RegistryInv, NEW r \in Live, Fence(r), UNCHANGED call
  PROVE  RegistryInv'
<1> USE DEF RegistryInv
<1> DEFINE fenced == Fenced(r)
<1>0. TypeOK'
  <2>1. actor' \in ActorType
    BY FenceShape
  <2>2. ASSUME NEW c \in records
        PROVE  [c EXCEPT !.scopes = @ \ {l.scope : l \in {l \in leases : l.scope \in fenced}}]
                 \in [name : Name, service : ActorRef, scopes : SUBSET ActorRef]
    <3>1. c \in [name : Name, service : ActorRef, scopes : SUBSET ActorRef]
      BY DEF TypeOK
    <3> QED
      BY <3>1
  <2>3. records' \subseteq [name : Name, service : ActorRef, scopes : SUBSET ActorRef]
    BY <2>2 DEF Fence, Detach
  <2> QED
    BY <2>1, <2>3 DEF TypeOK, ActorType, ActorEntry, Fence, Detach
<1>1. /\ fenced \subseteq Live
      /\ \A f \in fenced : actor'[f.slot].gen = f.gen
      /\ \A f \in fenced : actor'[f.slot].state \in {"Stopping", "Stopped"}
  BY FenceShape, LiveRef
<1>2. ASSUME NEW d \in Live, d \notin fenced, State(d) \in {"Active", "Quiescing"}
      PROVE  /\ d \in Live' /\ State(d)' \in {"Active", "Quiescing"}
             /\ actor'[d.slot].above = actor[d.slot].above
  <2>1. actor'[d.slot] = actor[d.slot]
    BY <1>2, FenceShape
  <2> QED
    BY <1>2, <2>1, LiveRef DEF Live, Current, State
<1>3. ASSUME NEW c \in records, c.service \notin fenced
      PROVE  /\ c.service \in Live' /\ State(c.service)' \in {"Active", "Quiescing"}
             /\ actor'[c.service.slot].above = {}
  BY <1>2, <1>3 DEF RegistryExact, Rooted
<1>4. ASSUME NEW l \in leases, l.scope \notin fenced
      PROVE  /\ l.scope \in Tree(l.owner)' /\ State(l.scope)' \in {"Active", "Quiescing"}
             /\ l.owner \in actor'[l.scope.slot].above
             /\ \E c \in records : c.service = l.service /\ c.service \notin fenced
  <2>1. l.scope \in Live /\ State(l.scope) \in {"Active", "Quiescing"}
    BY DEF RegistryExact, Tree
  <2>2. /\ l.scope \in Live' /\ State(l.scope)' \in {"Active", "Quiescing"}
        /\ actor'[l.scope.slot].above = actor[l.scope.slot].above
    BY <1>2, <1>4, <2>1
  <2>3. \E c \in records : c.service = l.service /\ c.service \notin fenced
    BY <1>4, FenceSparesBoth DEF RegistryExact
  <2> QED
    BY <2>2, <2>3 DEF Rooted, Tree
<1> DEFINE gone == {l.scope : l \in {l \in leases : l.scope \in fenced}}
           kept(c) == [c EXCEPT !.scopes = @ \ gone]
<1>5. /\ records' = {kept(c) : c \in {c \in records : c.service \notin fenced}}
      /\ leases' = {l \in leases : l.scope \notin fenced}
      /\ byTarget' = {t \in byTarget : t.service \notin fenced}
      /\ byHolder' = {b \in byHolder : \A l \in {l \in leases : l.scope \in fenced} :
                         b # [owner |-> l.owner, scope |-> l.scope]}
      /\ requests' = {q \in requests : q.owner \notin fenced /\ q.target \notin fenced}
      /\ links' = {k \in links : k.owner \notin fenced /\ k.source \notin fenced}
  BY DEF Fence, Detach
<1>6. ASSUME NEW c \in records
      PROVE  /\ kept(c).service = c.service /\ kept(c).name = c.name
             /\ kept(c).scopes = {l.scope : l \in {l \in leases : l.scope \notin fenced
                                                                  /\ l.service = c.service}}
  <2>1. c \in [name : Name, service : ActorRef, scopes : SUBSET ActorRef]
    BY DEF TypeOK
  <2>2. kept(c).service = c.service /\ kept(c).name = c.name /\ kept(c).scopes = c.scopes \ gone
    BY <2>1
  <2>3. c.scopes = {l.scope : l \in {l \in leases : l.service = c.service}}
    BY DEF RegistryExact
  <2> HIDE DEF kept, fenced
  <2> QED
    BY <2>2, <2>3
<1> HIDE DEF kept, gone, fenced
<1>7. RegistryExact'
  <2>1. byTarget' = {[service |-> c.service, name |-> c.name] : c \in records'}
    <3>1. byTarget = {[service |-> c.service, name |-> c.name] : c \in records}
      BY DEF RegistryExact
    <3> QED
      BY <1>5, <1>6, <3>1
  <2>2. byHolder' = {[owner |-> l.owner, scope |-> l.scope] : l \in leases'}
    <3>1. byHolder = {[owner |-> l.owner, scope |-> l.scope] : l \in leases}
      BY DEF RegistryExact
    <3> QED
      BY <1>5, <3>1
  <2>3. ASSUME NEW d \in records'
        PROVE  /\ d.service \in Live' /\ State(d.service)' \in {"Active", "Quiescing"}
               /\ d.scopes = {l.scope : l \in {l \in leases' : l.service = d.service}}
    <3>1. PICK c \in records : c.service \notin fenced /\ d = kept(c)
      BY <1>5, <2>3
    <3> QED
      BY <1>3, <1>5, <1>6, <3>1
  <2>4. ASSUME NEW l \in leases'
        PROVE  /\ \E c \in records' : c.service = l.service
               /\ l.scope \in Tree(l.owner)' /\ State(l.scope)' \in {"Active", "Quiescing"}
    BY <1>4, <1>5, <1>6, <2>4
  <2> QED
    BY <2>1, <2>2, <2>3, <2>4 DEF RegistryExact
<1>8. Rooted'
  <2>1. ASSUME NEW d \in records' PROVE actor'[d.service.slot].above = {}
    BY <1>3, <1>5, <1>6, <2>1
  <2>2. ASSUME NEW d \in records', NEW e \in records', d.service = e.service PROVE d = e
    <3>1. PICK b \in records : d = kept(b)
      BY <1>5, <2>2
    <3>2. PICK c \in records : e = kept(c)
      BY <1>5, <2>2
    <3> QED
      BY <1>6, <2>2, <3>1, <3>2 DEF Rooted
  <2> QED
    BY <1>4, <1>5, <2>1, <2>2 DEF Rooted
<1>9. WorkIsLeased'
  BY <1>5 DEF WorkIsLeased
<1>10. CallCovered'
  <2>1. CASE call = Idle
    BY <2>1 DEF CallCovered
  <2>2. CASE call # Idle
    <3>1. call.lease.scope \in ActorRef
      BY <2>2 DEF TypeOK, ServiceLease
    <3>2. PICK q \in ActorRef : q = call.lease.scope
      BY <3>1
    <3>3. Gone(q) => Gone(q)'
      BY <1>0, FenceShape, GoneStays
    <3>4. call.lease \in leases /\ q \in fenced => Gone(q)'
      BY <1>1 DEF Gone, State
    <3>5. call.lease \in leases' \/ Gone(q)'
      BY <1>5, <2>2, <3>2, <3>3, <3>4 DEF CallCovered
    <3> QED
      BY <3>2, <3>5 DEF CallCovered
  <2> QED
    BY <2>1, <2>2
<1> QED
  BY <1>0, <1>7, <1>8, <1>9, <1>10

-----------------------------------------------------------------------------
(* Actors come and go.                                                     *)

LEMMA NewActorStep ==
  ASSUME RegistryInv, NEW s \in Slot, NewActor(s)
  PROVE  RegistryInv'
<1> USE DEF RegistryInv
<1>1. /\ actor' \in ActorType /\ Keeping(actor, actor') /\ actor[s].state = "Stopped"
      /\ \A t \in Slot : t # s => actor'[t] = actor[t]
  BY AllocateShape DEF NewActor
<1>2. TypeOK'
  BY <1>1 DEF NewActor, registry, TypeOK, ActorType, ActorEntry
<1> QED
  BY <1>1, <1>2, QuietStep DEF NewActor

Touched(a, b, r, e) == b = [a EXCEPT ![r.slot] = e]

\* A step that changes one live actor, short of retiring it.
LEMMA TouchShape ==
  ASSUME TypeOK, NEW r \in Live, State(r) # "Stopping",
         NEW e \in ActorEntry,
         e.gen = actor[r.slot].gen, e.above = actor[r.slot].above,
         e.state = State(r) \/ e.state = "Active",
         NEW b, Touched(actor, b, r, e)
  PROVE  /\ b \in ActorType /\ Keeping(actor, b)
         /\ \A s \in Slot : /\ b[s].above = actor[s].above
                            /\ b[s].state = actor[s].state \/ b[s].state = "Active"
                            /\ actor[s].state = "Stopping" <=> b[s].state = "Stopping"
<1>1. b \in ActorType /\ b[r.slot] = e /\ \A t \in Slot : t # r.slot => b[t] = actor[t]
  BY LiveRef DEF Touched, TypeOK, ActorType, ActorEntry
<1>2. \A t \in Slot : actor[t].gen \in Int
  BY DEF TypeOK
<1>3. State(r) \notin {"Stopping", "Stopped"}
  BY LiveRef
<1> QED
  BY <1>1, <1>2, <1>3 DEF Keeping, State

LEMMA ActivateStep ==
  ASSUME RegistryInv, NEW r \in Live, Activate(r)
  PROVE  RegistryInv'
<1> USE DEF RegistryInv
<1> DEFINE e == [actor[r.slot] EXCEPT !.state = "Active"]
<1>1. actor[r.slot] \in ActorEntry
  BY LiveRef DEF TypeOK, ActorEntry
<1>2. /\ e \in ActorEntry
      /\ e.gen = actor[r.slot].gen /\ e.above = actor[r.slot].above /\ e.state = "Active"
  BY <1>1 DEF ActorEntry
<1>3. Touched(actor, actor', r, e) /\ State(r) # "Stopping"
  BY DEF Activate, Touched
<1> HIDE DEF e
<1>4. /\ actor' \in ActorType /\ Keeping(actor, actor')
      /\ \A s \in Slot : /\ actor'[s].above = actor[s].above
                         /\ actor'[s].state = actor[s].state \/ actor'[s].state = "Active"
  BY <1>2, <1>3, TouchShape
<1>5. TypeOK'
  BY <1>4 DEF Activate, registry, TypeOK, ActorType, ActorEntry
<1> QED
  BY <1>4, <1>5, QuietStep DEF Activate

LEMMA TrackTaskStep ==
  ASSUME RegistryInv, NEW r \in Live, TrackTask(r)
  PROVE  RegistryInv'
<1> USE DEF RegistryInv
<1> DEFINE e == [actor[r.slot] EXCEPT !.task = TRUE]
<1>1. actor[r.slot] \in ActorEntry
  BY LiveRef DEF TypeOK, ActorEntry
<1>2. /\ e \in ActorEntry
      /\ e.gen = actor[r.slot].gen /\ e.above = actor[r.slot].above /\ e.state = State(r)
  BY <1>1 DEF State, ActorEntry
<1>3. Touched(actor, actor', r, e) /\ State(r) # "Stopping"
  BY DEF TrackTask, Touched
<1> HIDE DEF e
<1>4. /\ actor' \in ActorType /\ Keeping(actor, actor')
      /\ \A s \in Slot : /\ actor'[s].above = actor[s].above
                         /\ actor'[s].state = actor[s].state \/ actor'[s].state = "Active"
  BY <1>2, <1>3, TouchShape
<1>5. TypeOK'
  BY <1>4 DEF TrackTask, registry, TypeOK, ActorType, ActorEntry
<1> QED
  BY <1>4, <1>5, QuietStep DEF TrackTask

LEMMA EndTaskStep ==
  ASSUME RegistryInv, NEW r \in Live, EndTask(r)
  PROVE  RegistryInv'
<1> USE DEF RegistryInv
<1> DEFINE freed == [actor EXCEPT ![r.slot].task = FALSE]
<1>1. /\ freed \in ActorType
      /\ \A s \in Slot : /\ freed[s].gen = actor[s].gen /\ freed[s].state = actor[s].state
                         /\ freed[s].above = actor[s].above
  <2>1. \A s \in Slot : actor[s] \in ActorEntry
    BY DEF TypeOK, ActorEntry
  <2> DEFINE e == [actor[r.slot] EXCEPT !.task = FALSE]
  <2>2. /\ e \in ActorEntry /\ e.gen = actor[r.slot].gen
        /\ e.state = actor[r.slot].state /\ e.above = actor[r.slot].above
    <3>1. actor[r.slot] \in ActorEntry
      BY <2>1, LiveRef
    <3> HIDE DEF freed
    <3> QED
      BY <3>1 DEF ActorEntry
  <2>3. freed = [actor EXCEPT ![r.slot] = e] /\ DOMAIN actor = Slot
    BY DEF TypeOK
  <2> HIDE DEF e
  <2>4. DOMAIN freed = Slot /\ freed = [s \in Slot |-> freed[s]]
    BY <2>3
  <2> HIDE DEF freed
  <2>5. freed[r.slot] = e /\ \A s \in Slot : s # r.slot => freed[s] = actor[s]
    BY <2>3, LiveRef
  <2>6. \A s \in Slot : freed[s] \in ActorEntry
    BY <2>1, <2>2, <2>5
  <2>7. freed \in ActorType
    BY <2>4, <2>6 DEF ActorType
  <2> QED
    BY <2>2, <2>5, <2>7
<1>2. actor' = Finalised(freed)
  BY DEF EndTask
<1> HIDE DEF freed
<1>3. /\ actor' \in ActorType
      /\ \A s \in Slot : /\ actor'[s].gen = actor[s].gen
                         /\ actor[s].state # "Stopping" =>
                              /\ actor'[s].state = actor[s].state
                              /\ actor'[s].above = actor[s].above
                         /\ actor[s].state = "Stopping" =>
                              actor'[s].state \in {"Stopping", "Stopped"}
  BY <1>1, <1>2, FinalisedShape
<1>4. \A s \in Slot : actor[s].gen \in Int
  BY DEF TypeOK
<1>5. Keeping(actor, actor')
  BY <1>3, <1>4 DEF Keeping
<1>6. TypeOK'
  BY <1>3 DEF EndTask, registry, TypeOK, ActorType, ActorEntry
<1> QED
  BY <1>3, <1>5, <1>6, QuietStep DEF EndTask

LEMMA DrainStep ==
  ASSUME RegistryInv, NEW r \in Live, Drain(r)
  PROVE  RegistryInv'
<1> USE DEF RegistryInv
<1>1. CASE Fence(r)
  BY <1>1, FenceStep DEF Drain
<1>2. CASE ~Fence(r)
  <2>1. /\ UNCHANGED <<registry, requests, links, call>>
        /\ actor' = [s \in Slot |->
             IF (\E d \in Tree(r) : d.slot = s) /\ actor[s].state # "Stopping"
             THEN [actor[s] EXCEPT !.state = "Quiescing"] ELSE actor[s]]
    BY <1>2 DEF Drain, registry
  <2>2. ASSUME NEW s \in Slot
        PROVE  /\ actor'[s] \in ActorEntry
               /\ actor'[s].gen = actor[s].gen /\ actor'[s].above = actor[s].above
               /\ actor[s].gen \in Int
               /\ actor[s].state \in {"Stopping", "Stopped"} => actor'[s].state = actor[s].state
               /\ actor'[s].state \in {actor[s].state, "Quiescing"}
    <3>1. actor[s] \in ActorEntry
      BY DEF TypeOK, ActorEntry
    <3>2. (\E d \in Tree(r) : d.slot = s) => actor[s].state # "Stopped"
      BY LiveRef DEF Tree, State
    <3>3. CASE (\E d \in Tree(r) : d.slot = s) /\ actor[s].state # "Stopping"
      <4>1. actor'[s] = [actor[s] EXCEPT !.state = "Quiescing"]
        BY <2>1, <3>3
      <4> QED
        BY <3>1, <3>2, <3>3, <4>1 DEF ActorEntry
    <3>4. CASE ~((\E d \in Tree(r) : d.slot = s) /\ actor[s].state # "Stopping")
      <4>1. actor'[s] = actor[s]
        BY <2>1, <3>4
      <4> QED
        BY <3>1, <4>1 DEF ActorEntry
    <3> QED
      BY <3>3, <3>4
  <2>3. actor' = [s \in Slot |-> actor'[s]]
    BY <2>1
  <2>4. actor' \in ActorType
    BY <2>2, <2>3 DEF ActorType, ActorEntry
  <2>5. TypeOK'
    BY <2>1, <2>4 DEF registry, TypeOK, ActorType, ActorEntry
  <2>6. Keeping(actor, actor')
    BY <2>2 DEF Keeping
  <2>7. \A s \in Slot : actor[s].state \in {"Active", "Quiescing"} =>
           actor'[s].state \in {"Active", "Quiescing"} /\ actor'[s].above = actor[s].above
    BY <2>2
  <2> QED
    BY <2>1, <2>5, <2>6, <2>7, QuietStep
<1> QED
  BY <1>1, <1>2

-----------------------------------------------------------------------------
(* Registration and leases.                                                *)

\* Steps that leave actors and registry alone.
LEMMA CallStep ==
  ASSUME RegistryInv, TypeOK', UNCHANGED <<actor, registry>>, WorkIsLeased', CallCovered'
  PROVE  RegistryInv'
<1>1. RegistryExact' /\ Rooted'
  BY DEF RegistryInv, registry, RegistryExact, Rooted, Live, Current, State, Tree
<1> QED
  BY <1>1 DEF RegistryInv

LEMMA RegisterServiceStep ==
  ASSUME RegistryInv, NEW target \in Live, NEW n \in Name, RegisterService(n, target)
  PROVE  RegistryInv'
<1> USE DEF RegistryInv
<1> DEFINE new == [name |-> n, service |-> target, scopes |-> {}]
           entry == [service |-> target, name |-> n]
<1>1. /\ target \in Live /\ State(target) = "Active" /\ actor[target.slot].above = {}
      /\ byTarget' = byTarget \cup {entry} /\ records' = records \cup {new}
      /\ \A t \in byTarget : t.service # target
      /\ UNCHANGED <<actor, leases, byHolder, requests, links, call>>
  BY DEF RegisterService
<1>2. /\ new \in [name : Name, service : ActorRef, scopes : SUBSET ActorRef]
      /\ new.service = target /\ new.name = n /\ new.scopes = {}
      /\ entry \in [service : ActorRef, name : Name]
  BY LiveRef
<1>3. entry = [service |-> new.service, name |-> new.name]
  OBVIOUS
<1> HIDE DEF new, entry
<1>4. TypeOK'
  BY <1>1, <1>2 DEF TypeOK
<1>5. \A c \in records : c.service # target
  <2>1. \A c \in records : [service |-> c.service, name |-> c.name] \in byTarget
    BY DEF RegistryExact
  <2> QED
    BY <1>1, <2>1
<1>6. \A l \in leases : l.service # target
  BY <1>5 DEF RegistryExact
<1>7. RegistryExact'
  <2>1. byTarget' = {[service |-> c.service, name |-> c.name] : c \in records'}
    <3>1. byTarget = {[service |-> c.service, name |-> c.name] : c \in records}
      BY DEF RegistryExact
    <3> QED
      BY <1>1, <1>3, <3>1
  <2>2. byHolder' = {[owner |-> l.owner, scope |-> l.scope] : l \in leases'}
    BY <1>1 DEF RegistryExact
  <2>3. ASSUME NEW c \in records'
        PROVE  /\ c.service \in Live' /\ State(c.service)' \in {"Active", "Quiescing"}
               /\ c.scopes = {l.scope : l \in {l \in leases' : l.service = c.service}}
    <3>1. CASE c \in records
      BY <1>1, <3>1 DEF RegistryExact, Live, Current, State
    <3>2. CASE c = new
      <4>1. {l.scope : l \in {l \in leases' : l.service = c.service}} = {}
        BY <1>1, <1>2, <1>6, <3>2
      <4> QED
        BY <1>1, <1>2, <3>2, <4>1 DEF Live, Current, State
    <3> QED
      BY <1>1, <3>1, <3>2
  <2>4. ASSUME NEW l \in leases'
        PROVE  /\ \E c \in records' : c.service = l.service
               /\ l.scope \in Tree(l.owner)' /\ State(l.scope)' \in {"Active", "Quiescing"}
    BY <1>1, <2>4 DEF RegistryExact, Tree, Live, Current, State
  <2> QED
    BY <2>1, <2>2, <2>3, <2>4 DEF RegistryExact
<1>8. Rooted'
  BY <1>1, <1>2, <1>5 DEF Rooted
<1>9. WorkIsLeased' /\ CallCovered'
  BY <1>1 DEF WorkIsLeased, CallCovered, Gone, State
<1> QED
  BY <1>4, <1>7, <1>8, <1>9

LEMMA BeginCallStep ==
  ASSUME RegistryInv, NEW l \in leases, NEW op \in {"request", "link"}, BeginCall(op, l)
  PROVE  RegistryInv'
<1> USE DEF RegistryInv
<1>1. /\ UNCHANGED <<actor, registry, requests, links>> /\ call' = [op |-> op, lease |-> l]
  BY DEF BeginCall
<1>2. l \in ServiceLease
  BY DEF TypeOK
<1>3. TypeOK'
  BY <1>1, <1>2 DEF TypeOK, registry
<1>4. WorkIsLeased'
  BY <1>1 DEF WorkIsLeased, registry
<1>5. CallCovered'
  BY <1>1 DEF CallCovered, registry
<1> QED
  BY <1>1, <1>3, <1>4, <1>5, CallStep

\* A scope whose state admits the call is not gone, so its lease is there.
LEMMA EndCallStep ==
  ASSUME RegistryInv, EndCall
  PROVE  RegistryInv'
<1> USE DEF RegistryInv
<1> DEFINE l == call.lease
<1>1. call # Idle /\ call' = Idle /\ UNCHANGED <<actor, registry>>
  BY DEF EndCall
<1>2. call.op \in {"request", "link"} /\ l \in ServiceLease
  BY <1>1 DEF TypeOK
<1>3. ASSUME NEW q \in {[owner |-> l.scope, target |-> l.service],
                       [owner |-> l.scope, source |-> l.service]}
      PROVE  q.owner = l.scope
  OBVIOUS
<1>4. Admissible(call.op, l) => l \in leases
  <2>1. Admissible(call.op, l) => ExecutionState(l.scope) \in {"Starting", "Active"}
    BY DEF Admissible, Opening
  <2>2. ExecutionState(l.scope) \in {"Starting", "Active"} =>
          Current(l.scope) /\ State(l.scope) \notin {"Stopping", "Stopped"}
    BY DEF ExecutionState
  <2>3. Current(l.scope) /\ State(l.scope) \notin {"Stopping", "Stopped"} => ~Gone(l.scope)
    <3>1. l.scope \in ActorRef
      BY <1>2 DEF ServiceLease
    <3>2. l.scope.gen \in Int
      BY <3>1 DEF ActorRef
    <3> QED
      BY <3>2 DEF Gone, Current
  <2> QED
    BY <1>1, <2>1, <2>2, <2>3 DEF CallCovered
<1>5. \/ UNCHANGED <<requests, links>>
      \/ /\ Admissible(call.op, l)
         /\ requests' = requests \/ requests' = requests \cup {[owner |-> l.scope, target |-> l.service]}
         /\ links' = links \/ links' = links \cup {[owner |-> l.scope, source |-> l.service]}
  <2>1. CASE ~Admissible(call.op, l)
    BY <2>1 DEF EndCall
  <2>2. CASE Admissible(call.op, l)
    <3>1. /\ requests' = requests \cup
                 {[owner |-> l.scope, target |-> l.service] : x \in {call.op} \cap {"request"}}
          /\ links' = links \cup
                 {[owner |-> l.scope, source |-> l.service] : x \in {call.op} \cap {"link"}}
      BY <2>2 DEF EndCall
    <3>2. CASE call.op = "request"
      BY <2>2, <3>1, <3>2
    <3>3. CASE call.op = "link"
      BY <2>2, <3>1, <3>3
    <3> QED
      BY <1>2, <3>2, <3>3
  <2> QED
    BY <2>1, <2>2
<1> DEFINE q0 == [owner |-> l.scope, target |-> l.service]
           k0 == [owner |-> l.scope, source |-> l.service]
<1>6. /\ q0 \in [owner : ActorRef, target : ActorRef] /\ k0 \in [owner : ActorRef, source : ActorRef]
      /\ q0.owner = l.scope /\ q0.target = l.service /\ k0.owner = l.scope /\ k0.source = l.service
  BY <1>2 DEF ServiceLease
<1>7. /\ requests' \subseteq requests \cup {q0} /\ links' \subseteq links \cup {k0}
      /\ ~(UNCHANGED <<requests, links>>) => l \in leases
  BY <1>4, <1>5
<1> HIDE DEF q0, k0, l
<1>8. TypeOK'
  BY <1>1, <1>6, <1>7 DEF TypeOK, registry
<1>9. WorkIsLeased'
  BY <1>1, <1>6, <1>7 DEF WorkIsLeased, registry
<1>10. CallCovered'
  BY <1>1 DEF CallCovered
<1> QED
  BY <1>1, <1>8, <1>9, <1>10, CallStep

LEMMA RequestEndsStep ==
  ASSUME RegistryInv, NEW q \in requests, RequestEnds(q)
  PROVE  RegistryInv'
<1> USE DEF RegistryInv
<1>1. UNCHANGED <<actor, registry, links, call>> /\ requests' \subseteq requests
  BY DEF RequestEnds
<1>2. TypeOK' /\ WorkIsLeased' /\ CallCovered'
  BY <1>1 DEF TypeOK, registry, WorkIsLeased, CallCovered, Gone, State
<1> QED
  BY <1>1, <1>2, CallStep

LEMMA AcquireServiceStep ==
  ASSUME RegistryInv, NEW owner \in Live, NEW c \in records, NEW s \in Slot,
         AcquireService(owner, c, s)
  PROVE  RegistryInv'
<1> USE DEF RegistryInv
<1> DEFINE scope == [slot |-> s, gen |-> actor[s].gen + 1]
           lease == [scope |-> scope, owner |-> owner, service |-> c.service]
           held == [owner |-> owner, scope |-> scope]
           more == [c EXCEPT !.scopes = @ \cup {scope}]
<1>1. /\ actor' \in ActorType /\ Keeping(actor, actor')
      /\ actor[s].state = "Stopped" /\ actor[s].gen + 1 \in 1..LastGen
      /\ actor'[s].gen = actor[s].gen + 1 /\ actor'[s].state = "Active"
      /\ {owner} \subseteq actor'[s].above
      /\ \A t \in Slot : t # s => actor'[t] = actor[t]
  <2>1. Allocate(s, {owner}, "Active")
    BY DEF AcquireService
  <2> DEFINE parents == {owner}
  <2>2. parents \in SUBSET Live /\ Allocate(s, parents, "Active")
    BY <2>1
  <2>3. parents \subseteq actor'[s].above => {owner} \subseteq actor'[s].above
    OBVIOUS
  <2> HIDE DEF parents
  <2> QED
    BY <2>2, <2>3, AllocateShape
<1>2. /\ records' = (records \ {c}) \cup {more} /\ leases' = leases \cup {lease}
      /\ byHolder' = byHolder \cup {held} /\ UNCHANGED <<byTarget, requests, links, call>>
  BY DEF AcquireService
<1>3. scope \in ActorRef /\ scope.slot = s /\ scope.gen = actor'[s].gen
  BY <1>1 DEF ActorRef
<1>4. \A d \in Live : d.slot # s
  BY <1>1, LiveRef DEF State
<1>5. ASSUME NEW d \in Live, State(d) \in {"Active", "Quiescing"}
      PROVE  /\ d \in Live' /\ State(d)' \in {"Active", "Quiescing"}
             /\ actor'[d.slot].above = actor[d.slot].above
  <2>1. actor'[d.slot] = actor[d.slot]
    BY <1>1, <1>4, LiveRef
  <2> QED
    BY <1>5, <2>1, LiveRef DEF Live, Current, State
<1>6. /\ c \in [name : Name, service : ActorRef, scopes : SUBSET ActorRef]
      /\ c.scopes = {l.scope : l \in {l \in leases : l.service = c.service}}
  BY DEF TypeOK, RegistryExact
<1> HIDE DEF scope
<1>7. /\ more \in [name : Name, service : ActorRef, scopes : SUBSET ActorRef]
      /\ more.name = c.name /\ more.service = c.service /\ more.scopes = c.scopes \cup {scope}
  BY <1>3, <1>6
<1>8. /\ lease \in ServiceLease /\ held \in [owner : ActorRef, scope : ActorRef]
      /\ lease.scope = scope /\ lease.owner = owner /\ lease.service = c.service
      /\ held = [owner |-> lease.owner, scope |-> lease.scope]
  BY <1>3, <1>6, LiveRef DEF ServiceLease
<1> HIDE DEF lease, held, more
<1>9. TypeOK'
  BY <1>1, <1>2, <1>7, <1>8 DEF TypeOK, ActorType, ActorEntry
<1>10. ASSUME NEW d \in records
       PROVE  /\ d.service \in Live' /\ State(d.service)' \in {"Active", "Quiescing"}
              /\ actor'[d.service.slot].above = {}
  BY <1>5 DEF RegistryExact, Rooted
<1>11. ASSUME NEW l \in leases'
       PROVE  /\ l.scope \in Tree(l.owner)' /\ State(l.scope)' \in {"Active", "Quiescing"}
              /\ l.owner \in actor'[l.scope.slot].above
              /\ \E d \in records' : d.service = l.service
  <2>1. CASE l \in leases
    <3>1. l.scope \in Live /\ State(l.scope) \in {"Active", "Quiescing"}
      BY <2>1 DEF RegistryExact, Tree
    <3>2. /\ l.scope \in Live' /\ State(l.scope)' \in {"Active", "Quiescing"}
          /\ actor'[l.scope.slot].above = actor[l.scope.slot].above
      BY <1>5, <3>1
    <3>3. l.owner \in actor[l.scope.slot].above
      BY <2>1 DEF Rooted
    <3>4. \E d \in records' : d.service = l.service
      <4>1. PICK d \in records : d.service = l.service
        BY <2>1 DEF RegistryExact
      <4> QED
        BY <1>2, <1>7, <4>1
    <3> QED
      BY <3>2, <3>3, <3>4 DEF Tree
  <2>2. CASE l = lease
    <3>1. PICK x \in ActorRef : x = scope
      BY <1>3
    <3>2. x \in Live' /\ State(x)' = "Active" /\ owner \in actor'[x.slot].above
      BY <1>1, <1>3, <3>1 DEF Live, Current, State
    <3>3. x \in Tree(owner)'
      BY <3>2 DEF Tree
    <3>4. l.scope = x /\ l.owner = owner /\ l.service = c.service
      BY <1>8, <2>2, <3>1
    <3>5. more \in records' /\ more.service = c.service
      BY <1>2, <1>7
    <3> QED
      BY <3>2, <3>3, <3>4, <3>5
  <2> QED
    BY <1>2, <2>1, <2>2
<1>12. RegistryExact'
  <2>1. byTarget' = {[service |-> d.service, name |-> d.name] : d \in records'}
    <3>1. byTarget = {[service |-> d.service, name |-> d.name] : d \in records}
      BY DEF RegistryExact
    <3> QED
      BY <1>2, <1>7, <3>1
  <2>2. byHolder' = {[owner |-> l.owner, scope |-> l.scope] : l \in leases'}
    <3>1. byHolder = {[owner |-> l.owner, scope |-> l.scope] : l \in leases}
      BY DEF RegistryExact
    <3> QED
      BY <1>2, <1>8, <3>1
  <2>3. ASSUME NEW d \in records'
        PROVE  /\ d.service \in Live' /\ State(d.service)' \in {"Active", "Quiescing"}
               /\ d.scopes = {l.scope : l \in {l \in leases' : l.service = d.service}}
    <3>1. CASE d \in records /\ d # c
      <4>1. d.service # c.service
        BY <3>1 DEF Rooted
      <4>2. d.scopes = {l.scope : l \in {l \in leases : l.service = d.service}}
        BY <3>1 DEF RegistryExact
      <4>3. {l \in leases' : l.service = d.service} = {l \in leases : l.service = d.service}
        BY <1>2, <1>8, <4>1
      <4> QED
        BY <1>10, <3>1, <4>2, <4>3
    <3>2. CASE d = more
      <4>1. {l \in leases' : l.service = d.service}
              = {l \in leases : l.service = c.service} \cup {lease}
        BY <1>2, <1>7, <1>8, <3>2
      <4> QED
        BY <1>6, <1>7, <1>8, <1>10, <3>2, <4>1
    <3> QED
      BY <1>2, <3>1, <3>2
  <2> QED
    BY <1>11, <2>1, <2>2, <2>3 DEF RegistryExact
<1>13. Rooted'
  <2>1. \A d \in records' : actor'[d.service.slot].above = {}
    BY <1>2, <1>7, <1>10
  <2>2. \A d, e \in records' : d.service = e.service => d = e
    BY <1>2, <1>7 DEF Rooted
  <2> QED
    BY <1>11, <2>1, <2>2 DEF Rooted
<1>14. WorkIsLeased'
  BY <1>2 DEF WorkIsLeased
<1>15. CallCovered'
  <2>1. CASE call = Idle
    BY <1>2, <2>1 DEF CallCovered
  <2>2. CASE call # Idle
    <3>1. call.lease.scope \in ActorRef
      BY <2>2 DEF TypeOK, ServiceLease
    <3>2. PICK q \in ActorRef : q = call.lease.scope
      BY <3>1
    <3>3. Gone(q) => Gone(q)'
      BY <1>1, <1>9, GoneStays
    <3>4. call.lease \in leases \/ Gone(q)
      BY <2>2, <3>2 DEF CallCovered
    <3> QED
      BY <1>2, <3>2, <3>3, <3>4 DEF CallCovered
  <2> QED
    BY <2>1, <2>2
<1> QED
  BY <1>9, <1>12, <1>13, <1>14, <1>15

-----------------------------------------------------------------------------
(* The theorems.                                                           *)

LEMMA InitInv == Init => RegistryInv
<1> SUFFICES ASSUME Init PROVE RegistryInv
  OBVIOUS
<1> USE DEF Init
<1>1. [gen |-> 0, state |-> "Stopped", above |-> {}, task |-> FALSE] \in ActorEntry
  BY ServiceAssumption DEF ActorEntry
<1>2. actor \in ActorType
  BY <1>1 DEF ActorType
<1>3. TypeOK
  BY <1>2 DEF TypeOK, ActorType, ActorEntry
<1>4. RegistryExact /\ Rooted /\ WorkIsLeased /\ CallCovered
  BY DEF RegistryExact, Rooted, WorkIsLeased, CallCovered
<1> QED
  BY <1>3, <1>4 DEF RegistryInv

LEMMA NextInv == RegistryInv /\ [Next]_vars => RegistryInv'
<1> SUFFICES ASSUME RegistryInv, [Next]_vars PROVE RegistryInv'
  OBVIOUS
<1>1. CASE UNCHANGED vars
  <2>1. UNCHANGED <<actor, registry, requests, links, call>>
    BY <1>1 DEF vars
  <2>2. TypeOK' /\ WorkIsLeased' /\ CallCovered'
    BY <2>1 DEF RegistryInv, TypeOK, registry, WorkIsLeased, CallCovered, Gone, State
  <2> QED
    BY <2>1, <2>2, CallStep
<1>2. ASSUME NEW s \in Slot, NewActor(s) PROVE RegistryInv'
  BY <1>2, NewActorStep
<1>3. ASSUME NEW r \in Live, Activate(r) PROVE RegistryInv'
  BY <1>3, ActivateStep
<1>4. ASSUME NEW r \in Live, TrackTask(r) PROVE RegistryInv'
  BY <1>4, TrackTaskStep
<1>5. ASSUME NEW r \in Live, EndTask(r) PROVE RegistryInv'
  BY <1>5, EndTaskStep
<1>6. ASSUME NEW r \in Live, Stop(r) PROVE RegistryInv'
  BY <1>6, FenceStep DEF Stop
<1>7. ASSUME NEW r \in Live, Drain(r) PROVE RegistryInv'
  BY <1>7, DrainStep
<1>8. ASSUME NEW r \in Live, DrainCompletes(r) PROVE RegistryInv'
  BY <1>8, FenceStep DEF DrainCompletes
<1>9. ASSUME NEW r \in Live, NEW n \in Name, RegisterService(n, r) PROVE RegistryInv'
  BY <1>9, RegisterServiceStep
<1>10. ASSUME NEW r \in Live, NEW c \in records, NEW s \in Slot, AcquireService(r, c, s)
       PROVE  RegistryInv'
  BY <1>10, AcquireServiceStep
<1>11. ASSUME NEW l \in leases, ReleaseService(l) PROVE RegistryInv'
  <2>1. l.scope \in Live
    BY DEF RegistryInv, RegistryExact, Tree
  <2> QED
    BY <1>11, <2>1, FenceStep DEF ReleaseService
<1>12. ASSUME NEW l \in leases, NEW op \in {"request", "link"}, BeginCall(op, l)
       PROVE  RegistryInv'
  BY <1>12, BeginCallStep
<1>13. ASSUME EndCall PROVE RegistryInv'
  BY <1>13, EndCallStep
<1>14. ASSUME NEW q \in requests, RequestEnds(q) PROVE RegistryInv'
  BY <1>14, RequestEndsStep
<1> QED
  BY <1>1, <1>2, <1>3, <1>4, <1>5, <1>6, <1>7, <1>8, <1>9, <1>10, <1>11, <1>12, <1>13,
     <1>14 DEF Next

\* The inductive invariant: the registry is exact, services are registered
\* roots, scopes lie below their holders, and every request, link and call in
\* flight is covered by its lease or by the fence that took it.
THEOREM RegistryInvariant == Spec => []RegistryInv
BY InitInv, NextInv, PTL DEF Spec

\* RegistryExact: the four tables of Registry agree after any registration,
\* acquisition, release, drain or stop (detach_scope, detach_service).
THEOREM RegistryAlwaysExact == Spec => []RegistryExact
<1>1. RegistryInv => RegistryExact
  BY DEF RegistryInv
<1> QED
  BY <1>1, RegistryInvariant, PTL

\* WorkIsLeased: service_request and service_link unlock between validation
\* and use, and no request or link outlives its lease.
THEOREM WorkAlwaysLeased == Spec => []WorkIsLeased
<1>1. RegistryInv => WorkIsLeased
  BY DEF RegistryInv
<1> QED
  BY <1>1, RegistryInvariant, PTL

=============================================================================
