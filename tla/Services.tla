------------------------------ MODULE Services ------------------------------
(***************************************************************************)
(* The service registry (runtime-core/src/services.rs): native root actors *)
(* registered under a name, and leases on them.  A lease is an actor, its  *)
(* scope, below the holder; requests and links made through the lease are  *)
(* owned by the scope.  Four tables describe the same leases, and the stop *)
(* fence reaches across trees: it takes a service's scopes with it.        *)
(*                                                                         *)
(* Of the actors only what the registry sees is kept: generation, state,   *)
(* ancestors, whether a task pins them (Lifecycle has the rest).           *)
(***************************************************************************)
EXTENDS Integers, FiniteSets, FiniteSetsExt, TLC

CONSTANTS
  Slot,          \* actor slots: max_actors of them
  LastGen,       \* bound on the generations of a slot
  Allocations,   \* bound on the actors allocated in all
  Name,          \* service names in use
  MaxServices,   \* max_services
  MaxLeases,     \* max_service_leases
  MaxHeld        \* max_leases_per_actor

ASSUME ServiceAssumption ==
  /\ IsFiniteSet(Slot) /\ LastGen \in Nat \ {0} /\ Allocations \in Nat
  /\ MaxServices \in Nat /\ MaxLeases \in Nat /\ MaxHeld \in Nat

ActorRef == [slot : Slot, gen : 1..LastGen]
ServiceLease == [scope : ActorRef, owner : ActorRef, service : ActorRef]

VARIABLES
  actor,      \* per slot: generation, state, ancestors, whether a task pins it
  records,    \* Registry.records: name, service, scopes
  byTarget,   \* Registry.by_target: service, name
  leases,     \* Registry.leases
  byHolder,   \* Registry.by_holder: owner, scope
  requests,   \* pending operations of scopes: owner, target
  links,      \* routes of scopes: owner, source
  call        \* the service_request or service_link under way, if any

registry == <<records, byTarget, leases, byHolder>>
vars == <<actor, registry, requests, links, call>>

Idle == [op |-> "none"]

TypeOK ==
  /\ actor \in [Slot -> [gen : 0..LastGen, above : SUBSET ActorRef, task : BOOLEAN,
                         state : {"Starting", "Active", "Quiescing", "Stopping", "Stopped"}]]
  /\ records \subseteq [name : Name, service : ActorRef, scopes : SUBSET ActorRef]
  /\ byTarget \subseteq [service : ActorRef, name : Name]
  /\ leases \subseteq ServiceLease
  /\ byHolder \subseteq [owner : ActorRef, scope : ActorRef]
  /\ requests \subseteq [owner : ActorRef, target : ActorRef]
  /\ links \subseteq [owner : ActorRef, source : ActorRef]
  /\ call \in {Idle} \cup [op : {"request", "link"}, lease : ServiceLease]

Init ==
  /\ actor = [s \in Slot |-> [gen |-> 0, state |-> "Stopped", above |-> {}, task |-> FALSE]]
  /\ records = {} /\ byTarget = {} /\ leases = {} /\ byHolder = {}
  /\ requests = {} /\ links = {} /\ call = Idle

-----------------------------------------------------------------------------
(* Actors.                                                                 *)

Current(r) == actor[r.slot].gen = r.gen
State(r) == actor[r.slot].state
Live == {r \in ActorRef : Current(r) /\ State(r) # "Stopped"}
Tree(r) == {d \in Live : d = r \/ r \in actor[d.slot].above}

\* execution_state_locked; a stale reference is an error to every caller.
ExecutionState(r) ==
  LET lineage == {State(a) : a \in {r} \cup actor[r.slot].above} IN
  IF ~Current(r) \/ lineage \cap {"Stopping", "Stopped"} # {} THEN "Stopping"
  ELSE IF "Quiescing" \in lineage THEN "Quiescing"
  ELSE IF "Starting" \in lineage THEN "Starting"
  ELSE "Active"

Opening(r) == ExecutionState(r) \in {"Starting", "Active"}

\* allocate_locked, for a slot that is free: below `parents', a set of at most
\* one actor.
Allocate(s, parents, state) ==
  /\ actor[s].state = "Stopped" /\ actor[s].gen < LastGen
  /\ MapThenSumSet(LAMBDA t : actor[t].gen, Slot) < Allocations
  /\ \A p \in parents : p \in Live /\ State(p) \in {"Starting", "Active"}
  /\ actor' = [actor EXCEPT ![s] =
       [gen |-> @.gen + 1, state |-> state, task |-> FALSE,
        above |-> parents \cup UNION {actor[p.slot].above : p \in parents}]]

\* try_finalize: what is Stopping retires once nothing in its tree is pinned.
Finalised(a) ==
  [s \in Slot |->
     IF /\ a[s].state = "Stopping" /\ ~a[s].task
        /\ \A d \in Slot :
             [slot |-> s, gen |-> a[s].gen] \in a[d].above /\ a[d].state # "Stopped" =>
               a[d].state = "Stopping" /\ ~a[d].task
     THEN [a[s] EXCEPT !.state = "Stopped", !.above = {}] ELSE a[s]]

-----------------------------------------------------------------------------
(* Leaving the registry.                                                   *)

\* What fence_locked(r) reaches: the tree of r, and if r is a service its
\* scopes wherever they are, with their trees.
Fenced(r) ==
  Tree(r) \cup UNION {Tree(s) : s \in UNION {c.scopes : c \in {c \in records : c.service = r}}}

\* Wrong: detach_service leaves the holders' index alone.
DetachFromServiceOnly(fenced) ==
  LET gone == {l \in leases : l.scope \in fenced} IN
  /\ byTarget' = {t \in byTarget : t.service \notin fenced}
  /\ records' = {[c EXCEPT !.scopes = @ \ fenced] :
                   c \in {c \in records : c.service \notin fenced}}
  /\ leases' = leases \ gone
  /\ byHolder' = {b \in byHolder : \A l \in gone :
                    l.service \notin fenced => b # [owner |-> l.owner, scope |-> l.scope]}

\* detach_scope and detach_service for each actor of fenced.
Detach(fenced) ==
  LET gone == {l \in leases : l.scope \in fenced} IN
  /\ byTarget' = {t \in byTarget : t.service \notin fenced}
  /\ records' = {[c EXCEPT !.scopes = @ \ {l.scope : l \in gone}] :
                   c \in {c \in records : c.service \notin fenced}}
  /\ leases' = leases \ gone
  /\ byHolder' = {b \in byHolder : \A l \in gone : b # [owner |-> l.owner, scope |-> l.scope]}

\* fence_locked: the registry, the operations and the routes of the fenced
\* actors, and then their states.
Fence(r) ==
  LET fenced == Fenced(r) IN
  /\ Detach(fenced)
  /\ requests' = {q \in requests : q.owner \notin fenced /\ q.target \notin fenced}
  /\ links' = {k \in links : k.owner \notin fenced /\ k.source \notin fenced}
  /\ actor' = Finalised([s \in Slot |-> IF \E f \in fenced : f.slot = s
                                         THEN [actor[s] EXCEPT !.state = "Stopping"]
                                         ELSE actor[s]])

-----------------------------------------------------------------------------
(* Actors come and go.                                                     *)

\* Roots only: scopes may hold leases themselves, and so make trees deep.
NewActor(s) ==
  /\ Allocate(s, {}, "Starting")
  /\ UNCHANGED <<registry, requests, links, call>>

Activate(r) ==
  /\ r \in Live /\ State(r) = "Starting"
  /\ \A p \in actor[r.slot].above : State(p) \in {"Starting", "Active"}
  /\ actor' = [actor EXCEPT ![r.slot].state = "Active"]
  /\ UNCHANGED <<registry, requests, links, call>>

\* track_task, and the release of the task.  Only scopes are given tasks here:
\* a fenced scope may stay, pinned, long after its lease is gone.
TrackTask(r) ==
  /\ \E l \in leases : l.scope = r
  /\ State(r) \in {"Starting", "Active"} /\ ~actor[r.slot].task
  /\ actor' = [actor EXCEPT ![r.slot].task = TRUE]
  /\ UNCHANGED <<registry, requests, links, call>>

EndTask(r) ==
  /\ r \in Live /\ actor[r.slot].task
  /\ actor' = Finalised([actor EXCEPT ![r.slot].task = FALSE])
  /\ UNCHANGED <<registry, requests, links, call>>

\* World::stop; a World close stops every root in turn.
Stop(r) == r \in Live /\ State(r) # "Stopping" /\ Fence(r) /\ UNCHANGED call

Drain(r) ==
  /\ r \in Live
  /\ \/ State(r) = "Starting" /\ Fence(r)
     \/ /\ State(r) = "Active"
        /\ actor' = [s \in Slot |->
             IF (\E d \in Tree(r) : d.slot = s) /\ actor[s].state # "Stopping"
             THEN [actor[s] EXCEPT !.state = "Quiescing"] ELSE actor[s]]
        /\ UNCHANGED <<registry, requests, links>>
  /\ UNCHANGED call

\* drained_locked and the stop that follows.  (An expired drain is a Stop.)
DrainCompletes(r) ==
  /\ r \in Live /\ State(r) = "Quiescing"
  /\ \A d \in Tree(r) : ~actor[d.slot].task /\ \A q \in requests : d \notin {q.owner, q.target}
  /\ Fence(r) /\ UNCHANGED call

-----------------------------------------------------------------------------
(* Registration and leases.                                                *)

RegisterService(name, target) ==
  /\ \A c \in records : c.name # name
  /\ \A t \in byTarget : t.service # target
  /\ Cardinality(records) < MaxServices
  /\ target \in Live /\ actor[target.slot].above = {} /\ State(target) = "Active"
  /\ byTarget' = byTarget \cup {[service |-> target, name |-> name]}
  /\ records' = records \cup {[name |-> name, service |-> target, scopes |-> {}]}
  /\ UNCHANGED <<actor, leases, byHolder, requests, links, call>>

\* The scope is allocated and activated under the lock that checked the rest;
\* the owner may still be Starting.
AcquireService(owner, c, s) ==
  LET scope == [slot |-> s, gen |-> actor[s].gen + 1] IN
  /\ Opening(owner) /\ State(c.service) = "Active"
  /\ Cardinality(leases) < MaxLeases
  /\ Cardinality({b \in byHolder : b.owner = owner}) < MaxHeld
  /\ Allocate(s, {owner}, "Active")
  /\ records' = (records \ {c}) \cup {[c EXCEPT !.scopes = @ \cup {scope}]}
  /\ leases' = leases \cup {[scope |-> scope, owner |-> owner, service |-> c.service]}
  /\ byHolder' = byHolder \cup {[owner |-> owner, scope |-> scope]}
  /\ UNCHANGED <<byTarget, requests, links, call>>

ReleaseService(l) == l \in leases /\ Fence(l.scope) /\ UNCHANGED call

\* validate_lease_locked, and for a request the scope must be Active.  Then the
\* lock is dropped.
ValidLease(l) ==
  /\ Opening(l.scope) /\ ExecutionState(l.service) = "Active"
  /\ \E t \in byTarget : t.service = l.service
       /\ \E c \in records : c.name = t.name /\ l.scope \in c.scopes

BeginCall(op, l) ==
  /\ call = Idle /\ l \in leases /\ ValidLease(l)
  /\ op = "request" => ExecutionState(l.scope) = "Active"
  /\ call' = [op |-> op, lease |-> l]
  /\ UNCHANGED <<actor, registry, requests, links>>

\* Wrong: the checks made before the unlock are trusted.
AdmissibleAsValidated(op, l) == Current(l.service)

\* request_with_port and link look again, at states and not at the lease.
Admissible(op, l) ==
  IF op = "request"
  THEN ExecutionState(l.scope) = "Active" /\ ExecutionState(l.service) = "Active"
  ELSE Opening(l.scope) /\ Opening(l.service)

EndCall ==
  /\ call # Idle /\ call' = Idle
  /\ LET l == call.lease IN
       IF ~Admissible(call.op, l) THEN UNCHANGED <<requests, links>>
       ELSE /\ requests' = requests \cup
                 {[owner |-> l.scope, target |-> l.service] : x \in {call.op} \cap {"request"}}
            /\ links' = links \cup
                 {[owner |-> l.scope, source |-> l.service] : x \in {call.op} \cap {"link"}}
  /\ UNCHANGED <<actor, registry>>

\* The service replies, or the deadline of the request passes.
RequestEnds(q) ==
  /\ q \in requests /\ requests' = requests \ {q}
  /\ UNCHANGED <<actor, registry, links, call>>

Next ==
  \/ \E s \in Slot : NewActor(s)
  \/ \E r \in Live : \/ Activate(r) \/ TrackTask(r) \/ EndTask(r)
                     \/ Stop(r) \/ Drain(r) \/ DrainCompletes(r)
                     \/ \E n \in Name : RegisterService(n, r)
                     \/ \E c \in records, s \in Slot : AcquireService(r, c, s)
  \/ \E l \in leases : ReleaseService(l) \/ \E op \in {"request", "link"} : BeginCall(op, l)
  \/ EndCall
  \/ \E q \in requests : RequestEnds(q)

Spec == Init /\ [][Next]_vars

\* Slots are interchangeable.
SlotSymmetry == Permutations(Slot)

-----------------------------------------------------------------------------
(* Properties.                                                             *)

\* The four tables of the registry say the same, through every way a service,
\* a holder or a scope can end, and name only actors that are still there: the
\* scope below its holder, neither of them fenced, and the service registered.
RegistryExact ==
  /\ byTarget = {[service |-> c.service, name |-> c.name] : c \in records}
  /\ byHolder = {[owner |-> l.owner, scope |-> l.scope] : l \in leases}
  /\ \A c \in records :
       /\ c.service \in Live /\ State(c.service) \in {"Active", "Quiescing"}
       /\ c.scopes = {l.scope : l \in {l \in leases : l.service = c.service}}
  /\ \A l \in leases :
       /\ \E c \in records : c.service = l.service
       /\ l.scope \in Tree(l.owner) /\ State(l.scope) \in {"Active", "Quiescing"}

\* A request or a link is never owned by a scope whose lease is gone, although
\* service_request and service_link drop the lock between validating the lease
\* and using it, and look only at the actors' states afterwards.
WorkIsLeased ==
  /\ \A q \in requests : \E l \in leases : l.scope = q.owner /\ l.service = q.target
  /\ \A k \in links : \E l \in leases : l.scope = k.owner /\ l.service = k.source

=============================================================================
