----------------------------- MODULE RouteTable -----------------------------
(***************************************************************************)
(* The routes of a World (runtime-core/src/routing.rs) as a value: the     *)
(* subscriptions and links by identity, and four indexes beside them that  *)
(* publication, drain and stop consult instead of the entries.             *)
(***************************************************************************)
EXTENDS Integers, FiniteSets

CONSTANTS
  Actor,      \* actor references, natural numbers in slot order
  Port,       \* output ports; a plain subscription has port NoPort
  NoPort,
  NoSub,      \* no route under an identity
  LastRoute   \* bound on the routes ever made

ASSUME RouteActorAssumption == Actor \subseteq Nat /\ IsFiniteSet(Actor)
ASSUME LastRouteAssumption == LastRoute \in Nat

RouteId == 1..LastRoute
Sub == [owner : Actor, source : Actor, target : Actor, port : Port]

ASSUME NoSubAssumption == NoSub \notin Sub

EmptyRoutes ==
  [entries |-> [id \in RouteId |-> NoSub],
   bySource |-> [k \in Actor \X Port |-> {}],
   bySourceActor |-> [a \in Actor |-> {}],
   byOwner |-> [a \in Actor |-> {}],
   byTarget |-> [a \in Actor |-> {}]]

ActiveRoutes(t) == {id \in RouteId : t.entries[id] # NoSub}

\* insert
InsertRoute(t, id, r) ==
  [entries |-> [t.entries EXCEPT ![id] = r],
   bySource |-> [t.bySource EXCEPT ![<<r.source, r.port>>] = @ \cup {id}],
   bySourceActor |-> [t.bySourceActor EXCEPT ![r.source] = @ \cup {id}],
   byOwner |-> [t.byOwner EXCEPT ![r.owner] = @ \cup {id}],
   byTarget |-> [t.byTarget EXCEPT ![r.target] = @ \cup {id}]]

\* Wrong: the target index keeps the identity.
RemoveRoutesKeepTarget(t, ids) ==
  [entries |-> [id \in RouteId |-> IF id \in ids THEN NoSub ELSE t.entries[id]],
   bySource |-> [k \in Actor \X Port |-> t.bySource[k] \ ids],
   bySourceActor |-> [a \in Actor |-> t.bySourceActor[a] \ ids],
   byOwner |-> [a \in Actor |-> t.byOwner[a] \ ids],
   byTarget |-> t.byTarget]

\* remove for each of some active routes: each leaves the index entries that
\* its own fields name.
RemoveRoutes(t, ids) ==
  [entries |-> [id \in RouteId |-> IF id \in ids THEN NoSub ELSE t.entries[id]],
   bySource |-> [k \in Actor \X Port |->
                   {id \in t.bySource[k] :
                      ~(id \in ids /\ k = <<t.entries[id].source, t.entries[id].port>>)}],
   bySourceActor |-> [a \in Actor |->
                   {id \in t.bySourceActor[a] : ~(id \in ids /\ a = t.entries[id].source)}],
   byOwner |-> [a \in Actor |->
                   {id \in t.byOwner[a] : ~(id \in ids /\ a = t.entries[id].owner)}],
   byTarget |-> [a \in Actor |->
                   {id \in t.byTarget[a] : ~(id \in ids /\ a = t.entries[id].target)}]]

\* actor_route_ids
ActorRouteIds(t, a) == t.byOwner[a] \cup t.bySourceActor[a] \cup t.byTarget[a]

\* source_target_exists
SourceTargetExists(t, source, target) ==
  \E id \in t.bySourceActor[source] : t.entries[id].target = target

\* typed_duplicate
TypedDuplicate(t, source, port, target) ==
  \E id \in t.bySource[<<source, port>>] : t.entries[id].target = target

\* Every index holds exactly the active routes that its key selects.
RouteIndexExactOf(t) ==
  /\ \A a \in Actor :
       /\ t.bySourceActor[a] = {id \in ActiveRoutes(t) : t.entries[id].source = a}
       /\ t.byOwner[a] = {id \in ActiveRoutes(t) : t.entries[id].owner = a}
       /\ t.byTarget[a] = {id \in ActiveRoutes(t) : t.entries[id].target = a}
  /\ \A a \in Actor, p \in Port :
       t.bySource[<<a, p>>] = {id \in ActiveRoutes(t) : t.entries[id].source = a /\ t.entries[id].port = p}
=============================================================================
