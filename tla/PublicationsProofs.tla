------------------------ MODULE PublicationsProofs ------------------------
(***************************************************************************)
(* Theorems about Publications, for every set of actors and ports and for  *)
(* all bounds.                                                             *)
(*                                                                         *)
(* Routes: a step changes the routes by making one under an identity never *)
(* used before, by cancelling one, or by removing those of the actors it   *)
(* stops; StepShape shows that, and each of the three keeps the indexes    *)
(* exact.  Exact indexes are what lets a stop find all its routes.         *)
(*                                                                         *)
(* Publications: PubInv is inductive.  It says that the table is exact     *)
(* (TableOk), the mailboxes too (BoxOk), that staging queues and staged    *)
(* publications are the same (StagedLinked), and that what was delivered   *)
(* is behind what is pending (DeliveredBehind): from one source a target   *)
(* has nothing later than the head of the source's queue, and of the head  *)
(* only what its cursor has passed.  A call that delivers nothing only     *)
(* takes publications away (Quiet); a batch advances one cursor (Going).   *)
(* Loops over sequences are folds, followed element by element over a run  *)
(* (ExpireActorRun and its like) by induction on the length.               *)
(***************************************************************************)
EXTENDS Publications, FiniteSetTheorems, SequenceTheorems, WellFoundedInduction, TLAPS

RoutesType ==
  [entries : [RouteId -> Sub \cup {NoSub}],
   bySource : [Actor \X Port -> SUBSET RouteId],
   bySourceActor : [Actor -> SUBSET RouteId],
   byOwner : [Actor -> SUBSET RouteId],
   byTarget : [Actor -> SUBSET RouteId]]

\* The inductive invariant: exact indexes, and no route under an identity that
\* was not issued.
RouteInv ==
  /\ subs \in RoutesType
  /\ nextSub \in Nat \ {0}
  /\ \A id \in RouteId : id >= nextSub => subs.entries[id] = NoSub
  /\ RouteIndexExactOf(subs)

-----------------------------------------------------------------------------
(* The operations on the table.                                            *)

\* RouteTable::new starts with exact indexes.
LEMMA EmptyExact == EmptyRoutes \in RoutesType /\ RouteIndexExactOf(EmptyRoutes)
<1>1. EmptyRoutes \in RoutesType
  BY DEF EmptyRoutes, RoutesType
<1>2. ActiveRoutes(EmptyRoutes) = {}
  BY DEF ActiveRoutes, EmptyRoutes
<1>3. RouteIndexExactOf(EmptyRoutes)
  BY <1>2 DEF RouteIndexExactOf, EmptyRoutes
<1> QED BY <1>1, <1>3

\* RouteTable::insert under a free identity keeps the indexes exact.
LEMMA InsertExact ==
  ASSUME NEW t \in RoutesType, RouteIndexExactOf(t),
         NEW id \in RouteId, t.entries[id] = NoSub, NEW r \in Sub
  PROVE  /\ InsertRoute(t, id, r) \in RoutesType
         /\ RouteIndexExactOf(InsertRoute(t, id, r))
<1> DEFINE u == InsertRoute(t, id, r)
<1>1. u \in RoutesType
  BY DEF InsertRoute, RoutesType, Sub
<1>2. /\ u.entries = [t.entries EXCEPT ![id] = r]
      /\ u.bySource = [t.bySource EXCEPT ![<<r.source, r.port>>] = @ \cup {id}]
      /\ u.bySourceActor = [t.bySourceActor EXCEPT ![r.source] = @ \cup {id}]
      /\ u.byOwner = [t.byOwner EXCEPT ![r.owner] = @ \cup {id}]
      /\ u.byTarget = [t.byTarget EXCEPT ![r.target] = @ \cup {id}]
  BY DEF InsertRoute
<1>3. r # NoSub
  BY NoSubAssumption
<1>4. /\ t.entries \in [RouteId -> Sub \cup {NoSub}]
      /\ t.bySource \in [Actor \X Port -> SUBSET RouteId]
      /\ t.bySourceActor \in [Actor -> SUBSET RouteId]
      /\ t.byOwner \in [Actor -> SUBSET RouteId]
      /\ t.byTarget \in [Actor -> SUBSET RouteId]
      /\ r.source \in Actor /\ r.owner \in Actor /\ r.target \in Actor /\ r.port \in Port
  BY DEF RoutesType, Sub
<1>5. ASSUME NEW a \in Actor
      PROVE  u.bySourceActor[a] = {i \in ActiveRoutes(u) : u.entries[i].source = a}
  BY <1>2, <1>3, <1>4 DEF RouteIndexExactOf, ActiveRoutes
<1>6. ASSUME NEW a \in Actor
      PROVE  u.byOwner[a] = {i \in ActiveRoutes(u) : u.entries[i].owner = a}
  BY <1>2, <1>3, <1>4 DEF RouteIndexExactOf, ActiveRoutes
<1>7. ASSUME NEW a \in Actor
      PROVE  u.byTarget[a] = {i \in ActiveRoutes(u) : u.entries[i].target = a}
  BY <1>2, <1>3, <1>4 DEF RouteIndexExactOf, ActiveRoutes
<1>8. ASSUME NEW a \in Actor, NEW p \in Port
      PROVE  u.bySource[<<a, p>>] =
               {i \in ActiveRoutes(u) : u.entries[i].source = a /\ u.entries[i].port = p}
  BY <1>2, <1>3, <1>4 DEF RouteIndexExactOf, ActiveRoutes
<1>9. RouteIndexExactOf(u)
  BY <1>5, <1>6, <1>7, <1>8 DEF RouteIndexExactOf
<1> QED BY <1>1, <1>9

\* RouteTable::remove keeps the indexes exact, and makes no route.
LEMMA RemoveExact ==
  ASSUME NEW t \in RoutesType, RouteIndexExactOf(t), NEW ids
  PROVE  /\ RemoveRoutes(t, ids) \in RoutesType
         /\ RouteIndexExactOf(RemoveRoutes(t, ids))
         /\ \A id \in RouteId : t.entries[id] = NoSub => RemoveRoutes(t, ids).entries[id] = NoSub
<1> DEFINE u == RemoveRoutes(t, ids)
<1>1. u \in RoutesType
  BY DEF RemoveRoutes, RoutesType
<1>2. /\ u.entries = [id \in RouteId |-> IF id \in ids THEN NoSub ELSE t.entries[id]]
      /\ \A a \in Actor, p \in Port : u.bySource[<<a, p>>] =
           {id \in t.bySource[<<a, p>>] :
              ~(id \in ids /\ <<a, p>> = <<t.entries[id].source, t.entries[id].port>>)}
      /\ \A a \in Actor : u.bySourceActor[a] =
           {id \in t.bySourceActor[a] : ~(id \in ids /\ a = t.entries[id].source)}
      /\ \A a \in Actor : u.byOwner[a] =
           {id \in t.byOwner[a] : ~(id \in ids /\ a = t.entries[id].owner)}
      /\ \A a \in Actor : u.byTarget[a] =
           {id \in t.byTarget[a] : ~(id \in ids /\ a = t.entries[id].target)}
  BY DEF RemoveRoutes
<1>3. ActiveRoutes(u) = ActiveRoutes(t) \ ids
  BY <1>2 DEF ActiveRoutes
<1>4. \A id \in ActiveRoutes(u) : u.entries[id] = t.entries[id]
  BY <1>2, <1>3 DEF ActiveRoutes
<1>5. ASSUME NEW a \in Actor
      PROVE  /\ u.bySourceActor[a] = {i \in ActiveRoutes(u) : u.entries[i].source = a}
             /\ u.byOwner[a] = {i \in ActiveRoutes(u) : u.entries[i].owner = a}
             /\ u.byTarget[a] = {i \in ActiveRoutes(u) : u.entries[i].target = a}
  BY <1>2, <1>3, <1>4 DEF RouteIndexExactOf
<1>6. ASSUME NEW a \in Actor, NEW p \in Port
      PROVE  u.bySource[<<a, p>>] =
               {i \in ActiveRoutes(u) : u.entries[i].source = a /\ u.entries[i].port = p}
  BY <1>2, <1>3, <1>4 DEF RouteIndexExactOf
<1>7. RouteIndexExactOf(u)
  BY <1>5, <1>6 DEF RouteIndexExactOf
<1> QED BY <1>1, <1>2, <1>7

-----------------------------------------------------------------------------
(* The steps.                                                              *)

\* What a step may do to the routes and to the actors that are stopped.
StopsOnly(S) == \A a \in Actor : actorState'[a] = "Stopping" => a \in S \/ actorState[a] = "Stopping"

Makes(r) ==
  /\ nextSub \in RouteId
  /\ "Stopping" \notin {actorState[r.owner], actorState[r.source], actorState[r.target]}
  /\ subs' = InsertRoute(subs, nextSub, r)
  /\ nextSub' = nextSub + 1
  /\ StopsOnly({})

Removes(ids, S) == subs' = RemoveRoutes(subs, ids) /\ nextSub' = nextSub /\ StopsOnly(S)

Fences(S) == S \subseteq Actor /\ Removes(FenceRoutes(S), S)

KeepsRoutes == subs' = subs /\ nextSub' = nextSub /\ StopsOnly({})

\* A step makes a route, cancels one, stops actors with their routes, or leaves
\* the routes alone.
StepOfRoutes ==
  \/ \E r \in Sub : Makes(r)
  \/ \E id \in RouteId : Removes({id}, {})
  \/ \E S : Fences(S)
  \/ KeepsRoutes

\* The fence of a call that changed the states to st, none of them to Stopping.
LEMMA FenceShape ==
  ASSUME NEW S \in SUBSET Actor, NEW st, NEW w, FenceLocked(S, st, w), nextSub' = nextSub,
         \A a \in Actor : st[a] = "Stopping" => actorState[a] = "Stopping"
  PROVE  Fences(S)
<1>1. subs' = RemoveRoutes(subs, FenceRoutes(S))
  BY DEF FenceLocked
<1>2. actorState' = [a \in Actor |-> IF a \in S THEN "Stopping" ELSE st[a]]
  BY DEF FenceLocked
<1>3. StopsOnly(S)
  BY <1>2 DEF StopsOnly
<1> QED BY <1>1, <1>3 DEF Fences, Removes

\* What the model's inputs stop are actors.
LEMMA ScopesOfActors ==
  /\ \A S \in Scope : S \subseteq Actor
  /\ \A S \in Ends : S \subseteq Actor
  BY InputsAssumption DEF Ends

\* Every step has one of these shapes.
LEMMA StepShape == ASSUME [Next]_vars PROVE StepOfRoutes
<1>1. CASE Routing
  <2>1. subs' = subs /\ nextSub' = nextSub /\ actorState' = actorState
    BY <1>1 DEF Routing, RouteBatch, actorVars
  <2> QED BY <2>1 DEF StepOfRoutes, KeepsRoutes, StopsOnly
<1>2. CASE Calls
  <2>1. ASSUME NEW r \in Links, Subscribe(r) PROVE StepOfRoutes
    <3>1. r \in Sub BY InputsAssumption
    <3>2. /\ nextSub \in RouteId
          /\ subs' = InsertRoute(subs, nextSub, r)
          /\ nextSub' = nextSub + 1
          /\ actorState' = actorState
      BY <2>1 DEF Subscribe, actorVars
    <3>3. {actorState[r.owner], actorState[r.source], actorState[r.target]}
            \subseteq {"Starting", "Active"}
      BY <2>1 DEF Subscribe
    <3>4. Makes(r)
      BY <3>2, <3>3 DEF Makes, StopsOnly
    <3> QED BY <3>1, <3>4 DEF StepOfRoutes
  <2>2. ASSUME NEW id \in RouteId, Unsubscribe(id) PROVE StepOfRoutes
    <3>1. Removes({id}, {})
      BY <2>2 DEF Unsubscribe, Removes, StopsOnly, actorVars
    <3> QED BY <3>1 DEF StepOfRoutes
  <2>3. ASSUME NEW S \in Scope, Activate(S) PROVE StepOfRoutes
    <3>1. /\ subs' = subs /\ nextSub' = nextSub
          /\ actorState' = [a \in Actor |-> IF a \in S THEN "Active" ELSE actorState[a]]
      BY <2>3 DEF Activate
    <3> QED BY <3>1 DEF StepOfRoutes, KeepsRoutes, StopsOnly
  <2>4. ASSUME subs' = subs, nextSub' = nextSub, UNCHANGED actorVars PROVE StepOfRoutes
    BY <2>4 DEF StepOfRoutes, KeepsRoutes, StopsOnly, actorVars
  <2>5. ASSUME NEW a, NEW p, NEW d, NEW c, Publish(a, p, d, c) PROVE StepOfRoutes
    BY <2>4, <2>5 DEF Publish
  <2>6. ASSUME NEW a, PublishRefused(a) PROVE StepOfRoutes
    BY <2>4, <2>6 DEF PublishRefused
  <2>7. ASSUME NEW id, DropTicket(id) PROVE StepOfRoutes
    BY <2>4, <2>7 DEF DropTicket
  <2>8. ASSUME NEW a, Claim(a) PROVE StepOfRoutes
    BY <2>4, <2>8 DEF Claim
  <2>9. ASSUME NEW S \in Scope, Stop(S) PROVE StepOfRoutes
    <3>1. FenceLocked(S, actorState, World) /\ nextSub' = nextSub
      BY <2>9 DEF Stop
    <3>2. Fences(S)
      BY <3>1, FenceShape, ScopesOfActors
    <3> QED BY <3>2 DEF StepOfRoutes
  <2>10. ASSUME NEW st, NEW ended \in Ends, MaintainLocked(st, ended), nextSub' = nextSub,
                \A a \in Actor : st[a] = "Stopping" => actorState[a] = "Stopping"
         PROVE  StepOfRoutes
    <3>1. PICK w : FenceLocked(ended, st, w)
      BY <2>10 DEF MaintainLocked
    <3>2. Fences(ended)
      BY <2>10, <3>1, FenceShape, ScopesOfActors
    <3> QED BY <3>2 DEF StepOfRoutes
  <2>11. ASSUME NEW S \in Scope, NEW ended \in Ends, Drain(S, ended) PROVE StepOfRoutes
    <3> DEFINE live == {a \in S : actorState[a] # "Stopping"}
               st == [a \in Actor |-> IF a \in live THEN "Quiescing" ELSE actorState[a]]
    <3>1. MaintainLocked(st, ended) /\ nextSub' = nextSub
      BY <2>11 DEF Drain
    <3>2. \A a \in Actor : st[a] = "Stopping" => actorState[a] = "Stopping"
      OBVIOUS
    <3> QED BY <2>10, <3>1, <3>2
  <2>12. ASSUME NEW ended \in Ends, Maintain(ended) PROVE StepOfRoutes
    <3>1. MaintainLocked(actorState, ended) /\ nextSub' = nextSub
      BY <2>12 DEF Maintain
    <3> QED BY <2>10, <3>1
  <2>13. CASE Tick
    BY <2>4, <2>13 DEF Tick
  <2> QED BY <1>2, <2>1, <2>2, <2>3, <2>5, <2>6, <2>7, <2>8, <2>9, <2>11, <2>12, <2>13 DEF Calls
<1>3. CASE UNCHANGED vars
  BY <1>3 DEF vars, actorVars, StepOfRoutes, KeepsRoutes, StopsOnly
<1> QED BY <1>1, <1>2, <1>3 DEF Next

\* Every step keeps the invariant of the routes.
LEMMA RouteStep == RouteInv /\ [Next]_vars => RouteInv'
<1> SUFFICES ASSUME RouteInv, [Next]_vars PROVE RouteInv'
  OBVIOUS
<1>1. ASSUME NEW r \in Sub, Makes(r) PROVE RouteInv'
  <2>1. subs.entries[nextSub] = NoSub
    BY <1>1 DEF RouteInv, Makes, RouteId
  <2>2. subs' \in RoutesType /\ RouteIndexExactOf(subs')
    BY <1>1, <2>1, InsertExact DEF RouteInv, Makes
  <2>3. subs'.entries = [subs.entries EXCEPT ![nextSub] = r]
    BY <1>1 DEF Makes, InsertRoute
  <2>4. \A id \in RouteId : id >= nextSub' => subs'.entries[id] = NoSub
    BY <1>1, <2>3, LastRouteAssumption DEF RouteInv, RoutesType, Makes, RouteId
  <2>5. nextSub' \in Nat \ {0}
    BY <1>1, LastRouteAssumption DEF Makes, RouteId
  <2> QED BY <2>2, <2>4, <2>5 DEF RouteInv
<1>2. ASSUME NEW ids, NEW S, Removes(ids, S) PROVE RouteInv'
  <2>1. /\ subs' \in RoutesType /\ RouteIndexExactOf(subs')
        /\ \A id \in RouteId : subs.entries[id] = NoSub => subs'.entries[id] = NoSub
    BY <1>2, RemoveExact DEF RouteInv, Removes
  <2> QED BY <1>2, <2>1 DEF RouteInv, Removes
<1>3. CASE KeepsRoutes
  BY <1>3 DEF RouteInv, KeepsRoutes
<1> QED BY <1>1, <1>2, <1>3, StepShape DEF StepOfRoutes, Fences

\* Initially there are no routes.
LEMMA RouteInit == Init => RouteInv
  BY EmptyExact DEF Init, RouteInv, EmptyRoutes

\* The four route indexes agree with the routes in every reachable state.
THEOREM RoutesIndexed == Spec => []RouteIndexExact
<1>1. RouteInv => RouteIndexExact
  BY DEF RouteInv, RouteIndexExact
<1> QED BY <1>1, RouteInit, RouteStep, PTL DEF Spec

-----------------------------------------------------------------------------
(* A stop removes every route it must.                                     *)

\* The actors of a route.
ActorsOf(t, id) == {t.entries[id].owner, t.entries[id].source, t.entries[id].target}

\* With exact indexes actor_route_ids finds every route an actor has a part in.
LEMMA FenceFindsRoutes ==
  ASSUME RouteInv, NEW S \in SUBSET Actor, NEW id \in ActiveRoutes(subs),
         NEW a \in S, a \in ActorsOf(subs, id)
  PROVE  id \in FenceRoutes(S)
<1>1. id \in ActorRouteIds(subs, a)
  BY DEF RouteInv, RouteIndexExactOf, ActorRouteIds, ActorsOf
<1> QED BY <1>1 DEF FenceRoutes

\* Removal leaves the routes it does not name as they were.
LEMMA RemoveLeaves ==
  ASSUME NEW t, NEW ids, NEW id \in ActiveRoutes(RemoveRoutes(t, ids))
  PROVE  /\ id \in ActiveRoutes(t) /\ id \notin ids
         /\ RemoveRoutes(t, ids).entries[id] = t.entries[id]
  BY DEF RemoveRoutes, ActiveRoutes

\* Every step keeps stopped actors out of the routes.
LEMMA StoppedStep ==
  ASSUME RouteInv, StoppedHasNoRoutes, [Next]_vars PROVE StoppedHasNoRoutes'
<1> SUFFICES ASSUME NEW id \in ActiveRoutes(subs'), NEW a \in ActorsOf(subs', id)
             PROVE  actorState'[a] # "Stopping"
  BY DEF StoppedHasNoRoutes, ActorsOf
<1>0. a \in Actor
  <2>1. subs' \in RoutesType BY RouteStep DEF RouteInv
  <2>2. subs'.entries[id] \in Sub BY <2>1 DEF RoutesType, ActiveRoutes
  <2> QED BY <2>2 DEF Sub, ActorsOf
<1>1. ASSUME NEW i \in ActiveRoutes(subs), NEW b \in ActorsOf(subs, i)
      PROVE  actorState[b] # "Stopping"
  BY <1>1 DEF StoppedHasNoRoutes, ActorsOf
<1>2. ASSUME NEW r \in Sub, Makes(r) PROVE actorState'[a] # "Stopping"
  <2>1. subs'.entries = [subs.entries EXCEPT ![nextSub] = r]
    BY <1>2 DEF Makes, InsertRoute
  <2>2. subs.entries \in [RouteId -> Sub \cup {NoSub}]
    BY DEF RouteInv, RoutesType
  <2>3. actorState[a] # "Stopping"
    <3>1. CASE id = nextSub
      <4>1. subs'.entries[id] = r
        BY <1>2, <2>1, <2>2, <3>1 DEF Makes
      <4> QED BY <1>2, <4>1 DEF Makes, ActorsOf
    <3>2. CASE id # nextSub
      <4>1. id \in ActiveRoutes(subs) /\ subs'.entries[id] = subs.entries[id]
        BY <2>1, <2>2, <3>2 DEF ActiveRoutes
      <4>2. a \in ActorsOf(subs, id)
        BY <4>1 DEF ActorsOf
      <4> QED BY <1>1, <4>1, <4>2
    <3> QED BY <3>1, <3>2
  <2> QED BY <1>0, <1>2, <2>3 DEF Makes, StopsOnly
<1>3. ASSUME NEW ids, NEW S, Removes(ids, S), a \notin S PROVE actorState'[a] # "Stopping"
  <2>1. id \in ActiveRoutes(subs) /\ subs'.entries[id] = subs.entries[id]
    BY <1>3, RemoveLeaves DEF Removes
  <2>2. actorState[a] # "Stopping"
    BY <1>1, <2>1 DEF ActorsOf
  <2> QED BY <1>0, <1>3, <2>2 DEF Removes, StopsOnly
<1>4. ASSUME NEW S, Fences(S) PROVE actorState'[a] # "Stopping"
  <2>1. S \in SUBSET Actor /\ Removes(FenceRoutes(S), S)
    BY <1>4 DEF Fences
  <2>2. a \notin S
    <3>1. /\ id \in ActiveRoutes(subs) /\ id \notin FenceRoutes(S)
          /\ subs'.entries[id] = subs.entries[id]
      BY <2>1, RemoveLeaves DEF Removes
    <3>2. a \in ActorsOf(subs, id)
      BY <3>1 DEF ActorsOf
    <3> QED BY <2>1, <3>1, <3>2, FenceFindsRoutes
  <2> QED BY <1>3, <2>1, <2>2
<1>5. ASSUME KeepsRoutes PROVE actorState'[a] # "Stopping"
  <2>1. actorState[a] # "Stopping"
    BY <1>1, <1>5 DEF KeepsRoutes
  <2> QED BY <1>0, <1>5, <2>1 DEF KeepsRoutes, StopsOnly
<1> QED BY <1>2, <1>3, <1>4, <1>5, StepShape DEF StepOfRoutes

\* No reachable state has a route of a stopped actor.
THEOREM StoppedLeaveNoRoutes == Spec => []StoppedHasNoRoutes
<1>1. Init => StoppedHasNoRoutes
  BY DEF Init, StoppedHasNoRoutes, ActiveRoutes, EmptyRoutes
<1>2. RouteInv /\ StoppedHasNoRoutes /\ [Next]_vars => StoppedHasNoRoutes'
  BY StoppedStep
<1> QED BY <1>1, <1>2, RouteInit, RouteStep, PTL DEF Spec

-----------------------------------------------------------------------------
(* Induction and loops.                                                    *)

\* Induction over the numbers, with a set for the induction hypothesis.
LEMMA SetInduction ==
  ASSUME NEW S, 0 \in S, \A n \in Nat : n \in S => n + 1 \in S
  PROVE  \A n \in Nat : n \in S
<1> SUFFICES ASSUME NEW bad, bad = Nat \ S, bad # {} PROVE FALSE
  OBVIOUS
<1> DEFINE R == OpToRel(<, Nat)
<1>1. IsWellFoundedOn(R, Nat)
  BY NatLessThanWellFounded
<1>2. PICK x \in bad : \A y \in bad : ~(<<y, x>> \in R)
  <2> HIDE DEF R
  <2> QED BY <1>1, WFMin
<1>3. \A y \in bad : /\ <<y, x>> \in Nat \X Nat /\ <<y, x>>[1] = y /\ <<y, x>>[2] = x
                    /\ y \in Int /\ x \in Int
  OBVIOUS
<1>4. \A y \in bad : y < x => <<y, x>> \in R
  BY <1>3 DEF OpToRel
<1> HIDE DEF R
<1>5. \A y \in bad : ~(y < x)
  BY <1>2, <1>4
<1>6. x \in Nat /\ x # 0 /\ x \notin S
  OBVIOUS
<1>7. x - 1 \in Nat /\ x - 1 \notin S /\ x - 1 < x
  BY <1>6
<1> QED
  BY <1>5, <1>7

\* The same up to a bound.
LEMMA InductionUpTo ==
  ASSUME NEW n \in Nat, NEW S, 0 \in S, \A k \in 1..n : k - 1 \in S => k \in S
  PROVE  \A k \in 0..n : k \in S
<1> DEFINE T == {k \in Nat : k <= n => k \in S}
<1>1. 0 \in T /\ \A k \in Nat : k \in T => k + 1 \in T
  OBVIOUS
<1> HIDE DEF T
<1>2. \A k \in Nat : k \in T
  BY <1>1, SetInduction
<1> QED
  BY <1>2 DEF T

\* The largest number of an interval.
LEMMA MaxOfInterval ==
  ASSUME NEW k \in Nat \ {0}
  PROVE  Max(1..k) = k
<1>1. k \in 1..k /\ \A y \in 1..k : k >= y
  OBVIOUS
<1>2. \A x \in 1..k : (\A y \in 1..k : x >= y) => x = k
  BY <1>1
<1> QED
  BY <1>1, <1>2 DEF Max

\* FoldLeft visits the sets of positions that remain, the largest position of
\* each last; h is what it computes for each of them when every element of the
\* sequence acts within I as a function.
FoldsTo(I, t, n, G) ==
  \E h \in [SUBSET (1..n) -> I] :
    /\ h[{}] = t
    /\ \A s \in SUBSET (1..n) : s # {} => /\ Max(s) \in 1..n
                                         /\ h[s] = G[Max(s)][h[s \ {Max(s)}]]

LEMMA MaxOfSet ==
  ASSUME NEW m \in Nat
  PROVE  \A s \in SUBSET (1..m) : s # {} => Max(s) \in s /\ \A y \in s : Max(s) >= y
<1> DEFINE Has(k) == \A s \in SUBSET (1..k) : s # {} => \E x \in s : \A y \in s : x >= y
           S == {k \in Nat : Has(k)}
<1>1. 0 \in S
  <2>1. 1..0 = {}
    OBVIOUS
  <2>2. \A s \in SUBSET (1..0) : s = {}
    BY <2>1
  <2> QED
    BY <2>2
<1>2. ASSUME NEW k \in Nat, k \in S PROVE k + 1 \in S
  <2>1. ASSUME NEW s \in SUBSET (1..(k + 1)), s # {} PROVE \E x \in s : \A y \in s : x >= y
    <3>1. CASE k + 1 \in s
      BY <3>1
    <3>2. CASE k + 1 \notin s
      <4>1. s \in SUBSET (1..k)
        BY <3>2
      <4> QED BY <1>2, <2>1, <4>1
    <3> QED BY <3>1, <3>2
  <2> QED BY <2>1
<1> HIDE DEF S
<1>3. m \in S
  BY <1>1, <1>2, SetInduction
<1> QED
  BY <1>3 DEF S, Max

LEMMA FoldExists ==
  ASSUME NEW I, NEW t \in I, NEW n \in Nat, NEW G \in [1..n -> [I -> I]]
  PROVE  FoldsTo(I, t, n, G)
<1> DEFINE Upto(m, h) ==
             /\ h[{}] = t
             /\ \A s \in SUBSET (1..m) : s # {} => h[s] = G[Max(s)][h[s \ {Max(s)}]]
           S == {m \in 0..n : \E h \in [SUBSET (1..m) -> I] : Upto(m, h)}
<1>1. 0 \in S
  <2> DEFINE h == [s \in SUBSET (1..0) |-> t]
  <2>3. 1..0 = {}
    OBVIOUS
  <2>4. \A s \in SUBSET (1..0) : s = {}
    BY <2>3
  <2>1. h \in [SUBSET (1..0) -> I] /\ Upto(0, h)
    BY <2>4
  <2> HIDE DEF h
  <2>2. 0 \in 0..n
    OBVIOUS
  <2> QED
    BY <2>1, <2>2
<1>2. ASSUME NEW m \in 1..n, m - 1 \in S PROVE m \in S
  <2>1. PICK f \in [SUBSET (1..(m - 1)) -> I] : Upto(m - 1, f)
    BY <1>2
  <2> DEFINE g == [s \in SUBSET (1..m) |-> IF m \in s THEN G[m][f[s \ {m}]] ELSE f[s]]
  <2>2. ASSUME NEW s \in SUBSET (1..m)
        PROVE  /\ s \ {m} \in SUBSET (1..(m - 1)) /\ f[s \ {m}] \in I
               /\ g[s \ {m}] = f[s \ {m}]
               /\ m \in s => Max(s) = m /\ g[s] = G[m][f[s \ {m}]]
               /\ m \notin s => s \in SUBSET (1..(m - 1)) /\ g[s] = f[s]
    <3>1. s \ {m} \in SUBSET (1..(m - 1)) /\ s \ {m} \in SUBSET (1..m)
      OBVIOUS
    <3>2. m \in s => Max(s) = m
      <4>1. m \in Nat
        OBVIOUS
      <4>2. s # {} => Max(s) \in s /\ \A y \in s : Max(s) >= y
        BY <4>1, MaxOfSet
      <4>3. ASSUME m \in s PROVE /\ Max(s) \in 1..m /\ Max(s) >= m
        BY <4>2, <4>3
      <4> QED BY <4>1, <4>3
    <3>3. m \notin s => s \in SUBSET (1..(m - 1))
      OBVIOUS
    <3> QED
      BY <2>1, <3>1, <3>2, <3>3
  <2>3. g \in [SUBSET (1..m) -> I]
    <3>1. \A s \in SUBSET (1..m) : g[s] \in I
      BY <2>1, <2>2
    <3> QED BY <3>1
  <2>4. g[{}] = t
    BY <2>1, <2>2
  <2>5. ASSUME NEW s \in SUBSET (1..m), s # {} PROVE g[s] = G[Max(s)][g[s \ {Max(s)}]]
    <3>1. CASE m \in s
      BY <2>2, <3>1
    <3>2. CASE m \notin s
      <4>1. s \in SUBSET (1..(m - 1)) /\ g[s] = f[s]
        BY <2>2, <3>2
      <4>2. f[s] = G[Max(s)][f[s \ {Max(s)}]]
        BY <2>1, <2>5, <4>1
      <4>3. s \ {Max(s)} \in SUBSET (1..m) /\ m \notin s \ {Max(s)}
        BY <3>2
      <4>4. g[s \ {Max(s)}] = f[s \ {Max(s)}]
        BY <2>2, <4>3
      <4> QED BY <4>1, <4>2, <4>4
    <3> QED BY <3>1, <3>2
  <2> HIDE DEF g
  <2>6. Upto(m, g)
    BY <2>4, <2>5
  <2>7. m \in 0..n
    OBVIOUS
  <2> HIDE DEF Upto
  <2> QED
    BY <2>3, <2>6, <2>7
<1> HIDE DEF S
<1>3. n \in S
  <2>1. \A k \in 0..n : k \in S
    BY <1>1, <1>2, InductionUpTo
  <2> QED BY <2>1
<1>4. \A s \in SUBSET (1..n) : s # {} => Max(s) \in 1..n
  BY MaxOfSet
<1> QED
  BY <1>3, <1>4 DEF S, FoldsTo

\* The values of a loop, position by position: n steps of G lead from t to v.
RunsTo(I, t, n, G, v) ==
  \E run \in [0..n -> I] :
    /\ run[0] = t /\ run[n] = v
    /\ \A i \in 1..n : run[i] = G[i][run[i - 1]]

\* From the sets of positions to the positions.
LEMMA RunOfFold ==
  ASSUME NEW I, NEW t \in I, NEW n \in Nat, NEW G \in [1..n -> [I -> I]], NEW F, F[{}] = t,
         \A s \in SUBSET (1..n) : s # {} /\ F[s \ {Max(s)}] \in I =>
                                    F[s] = G[Max(s)][F[s \ {Max(s)}]]
  PROVE  RunsTo(I, t, n, G, F[1..n])
<1> DEFINE run == [i \in 0..n |-> F[1..i]]
           S == {i \in 0..n : run[i] \in I}
<1>1. \A i \in 0..n : run[i] = F[1..i]
  OBVIOUS
<1>2. run[0] = t
  <2>1. 1..0 = {} /\ 0 \in 0..n
    OBVIOUS
  <2> QED BY <1>1, <2>1
<1>3. ASSUME NEW i \in 1..n, run[i - 1] \in I PROVE run[i] = G[i][run[i - 1]]
  <2>1. Max(1..i) = i
    <3>1. i \in Nat \ {0}
      OBVIOUS
    <3> QED BY <3>1, MaxOfInterval
  <2>2. /\ (1..i) \ {i} = 1..(i - 1) /\ 1..i # {} /\ i \in 0..n /\ i - 1 \in 0..n
        /\ 1..i \in SUBSET (1..n)
    <3>1. i \in Nat /\ 1 <= i /\ i <= n /\ i \in 0..n /\ i - 1 \in 0..n
      OBVIOUS
    <3>2. (1..i) \ {i} = 1..(i - 1)
      BY <3>1
    <3>3. i \in 1..i /\ \A k \in 1..i : k \in 1..n
      BY <3>1
    <3> QED BY <3>1, <3>2, <3>3
  <2>3. run[i - 1] = F[1..(i - 1)] /\ run[i] = F[1..i]
    BY <1>1, <2>2
  <2> HIDE DEF run
  <2>4. F[1..i] = G[i][F[1..(i - 1)]]
    BY <1>3, <2>1, <2>2, <2>3
  <2> QED
    BY <2>3, <2>4
<1> HIDE DEF run
<1>4. 0 \in S /\ \A i \in 1..n : i - 1 \in S => i \in S
  BY <1>2, <1>3
<1> HIDE DEF S
<1>5. \A i \in 0..n : i \in S
  BY <1>4, InductionUpTo
<1>6. \A i \in 0..n : run[i] \in I
  BY <1>5 DEF S
<1>7. run \in [0..n -> I]
  BY <1>6 DEF run
<1>8. run[n] = F[1..n]
  BY <1>1
<1>9. \A i \in 1..n : run[i] = G[i][run[i - 1]]
  BY <1>3, <1>6
<1> QED
  BY <1>2, <1>7, <1>8, <1>9 DEF RunsTo

\* The run of retain.
WithoutRun(T, s, e) ==
  \E run \in [0..Len(s) -> Seq(T)] :
    /\ run[0] = <<>> /\ run[Len(s)] = Without(s, e)
    /\ \A i \in 1..Len(s) : run[i] = (IF s[i] = e THEN run[i - 1] ELSE Append(run[i - 1], s[i]))

LEMMA WithoutRuns ==
  ASSUME NEW T, NEW s \in Seq(T), NEW e
  PROVE  WithoutRun(T, s, e)
<1> DEFINE n == Len(s)
           none == <<>>
           I == Seq(T)
           Step(u, x) == (IF x = e THEN u ELSE Append(u, x))
           G == [i \in 1..n |-> [u \in I |-> Step(u, s[i])]]
           Folds(f) == f = [p \in SUBSET (1..n) |->
                              IF p = {} THEN none ELSE Step(f[p \ {Max(p)}], s[Max(p)])]
           F == CHOOSE f : Folds(f)
<1>1. n \in Nat /\ none \in I /\ DOMAIN s = 1..n
  OBVIOUS
<1>2. Without(s, e) = F[1..n]
  BY <1>1 DEF Without, FoldLeft, MapThenFoldSet
<1>3. \A u \in I, i \in 1..n : Step(u, s[i]) \in I
  OBVIOUS
<1> HIDE DEF n, Step, I, none
<1>4. G \in [1..n -> [I -> I]] /\ \A u \in I, i \in 1..n : G[i][u] = Step(u, s[i])
  BY <1>3
<1> HIDE DEF G
<1>5. FoldsTo(I, none, n, G)
  BY <1>1, <1>4, FoldExists
<1>6. Folds(F)
  <2>1. PICK h \in [SUBSET (1..n) -> I] :
          /\ h[{}] = none
          /\ \A p \in SUBSET (1..n) :
               p # {} => Max(p) \in 1..n /\ h[p] = G[Max(p)][h[p \ {Max(p)}]]
    BY <1>5 DEF FoldsTo
  <2>2. \A p \in SUBSET (1..n) : p # {} => h[p] = Step(h[p \ {Max(p)}], s[Max(p)])
    BY <1>4, <2>1
  <2>3. Folds(h)
    BY <2>1, <2>2
  <2> QED BY <2>3
<1> HIDE DEF F
<1>7. \A p \in SUBSET (1..n) : p # {} => Max(p) \in 1..n
  BY <1>1, MaxOfSet
<1>8. /\ F[{}] = none
      /\ \A p \in SUBSET (1..n) : p # {} /\ F[p \ {Max(p)}] \in I =>
                                   F[p] = G[Max(p)][F[p \ {Max(p)}]]
  BY <1>4, <1>6, <1>7
<1>9. RunsTo(I, none, n, G, F[1..n])
  BY <1>1, <1>4, <1>8, RunOfFold
<1>10. PICK run \in [0..n -> I] :
         run[0] = none /\ run[n] = F[1..n] /\ \A i \in 1..n : run[i] = G[i][run[i - 1]]
  BY <1>9 DEF RunsTo
<1>11. \A i \in 1..n : run[i] = Step(run[i - 1], s[i])
  <2>1. \A i \in 1..n : run[i - 1] \in I
    BY <1>1
  <2> QED BY <1>4, <1>10, <2>1
<1> QED
  BY <1>2, <1>10, <1>11 DEF WithoutRun, n, Step, I, none

\* The runs over the entries of a mailbox.
InTimeRun(T, s) ==
  \E run \in [0..Len(s) -> Seq(T)] :
    /\ run[0] = <<>> /\ run[Len(s)] = InTime(s)
    /\ \A i \in 1..Len(s) : run[i] = (IF s[i].deadline > now THEN Append(run[i - 1], s[i]) ELSE run[i - 1])

LEMMA InTimeRuns ==
  ASSUME NEW T, NEW s \in Seq(T)
  PROVE  InTimeRun(T, s)
<1> DEFINE n == Len(s)
           none == <<>>
           I == Seq(T)
           Step(u, x) == (IF x.deadline > now THEN Append(u, x) ELSE u)
           G == [i \in 1..n |-> [u \in I |-> Step(u, s[i])]]
           Folds(f) == f = [p \in SUBSET (1..n) |->
                              IF p = {} THEN none ELSE Step(f[p \ {Max(p)}], s[Max(p)])]
           F == CHOOSE f : Folds(f)
<1>1. n \in Nat /\ none \in I /\ DOMAIN s = 1..n
  OBVIOUS
<1>2. InTime(s) = F[1..n]
  BY <1>1 DEF InTime, FoldLeft, MapThenFoldSet
<1>3. \A u \in I, i \in 1..n : Step(u, s[i]) \in I
  OBVIOUS
<1> HIDE DEF n, Step, I, none
<1>4. G \in [1..n -> [I -> I]] /\ \A u \in I, i \in 1..n : G[i][u] = Step(u, s[i])
  BY <1>3
<1> HIDE DEF G
<1>5. FoldsTo(I, none, n, G)
  BY <1>1, <1>4, FoldExists
<1>6. Folds(F)
  <2>1. PICK h \in [SUBSET (1..n) -> I] :
          /\ h[{}] = none
          /\ \A p \in SUBSET (1..n) :
               p # {} => Max(p) \in 1..n /\ h[p] = G[Max(p)][h[p \ {Max(p)}]]
    BY <1>5 DEF FoldsTo
  <2>2. \A p \in SUBSET (1..n) : p # {} => h[p] = Step(h[p \ {Max(p)}], s[Max(p)])
    BY <1>4, <2>1
  <2>3. Folds(h)
    BY <2>1, <2>2
  <2> QED BY <2>3
<1> HIDE DEF F
<1>7. \A p \in SUBSET (1..n) : p # {} => Max(p) \in 1..n
  BY <1>1, MaxOfSet
<1>8. /\ F[{}] = none
      /\ \A p \in SUBSET (1..n) : p # {} /\ F[p \ {Max(p)}] \in I =>
                                   F[p] = G[Max(p)][F[p \ {Max(p)}]]
  BY <1>4, <1>6, <1>7
<1>9. RunsTo(I, none, n, G, F[1..n])
  BY <1>1, <1>4, <1>8, RunOfFold
<1>10. PICK run \in [0..n -> I] :
         run[0] = none /\ run[n] = F[1..n] /\ \A i \in 1..n : run[i] = G[i][run[i - 1]]
  BY <1>9 DEF RunsTo
<1>11. \A i \in 1..n : run[i] = Step(run[i - 1], s[i])
  <2>1. \A i \in 1..n : run[i - 1] \in I
    BY <1>1
  <2> QED BY <1>4, <1>10, <2>1
<1> QED
  BY <1>2, <1>10, <1>11 DEF InTimeRun, n, Step, I, none

\* The same for the entries that are late.
LateRun(T, s) ==
  \E run \in [0..Len(s) -> Seq(T)] :
    /\ run[0] = <<>> /\ run[Len(s)] = Late(s)
    /\ \A i \in 1..Len(s) : run[i] = (IF s[i].deadline > now THEN run[i - 1] ELSE Append(run[i - 1], s[i]))

LEMMA LateRuns ==
  ASSUME NEW T, NEW s \in Seq(T)
  PROVE  LateRun(T, s)
<1> DEFINE n == Len(s)
           none == <<>>
           I == Seq(T)
           Step(u, x) == (IF x.deadline > now THEN u ELSE Append(u, x))
           G == [i \in 1..n |-> [u \in I |-> Step(u, s[i])]]
           Folds(f) == f = [p \in SUBSET (1..n) |->
                              IF p = {} THEN none ELSE Step(f[p \ {Max(p)}], s[Max(p)])]
           F == CHOOSE f : Folds(f)
<1>1. n \in Nat /\ none \in I /\ DOMAIN s = 1..n
  OBVIOUS
<1>2. Late(s) = F[1..n]
  BY <1>1 DEF Late, FoldLeft, MapThenFoldSet
<1>3. \A u \in I, i \in 1..n : Step(u, s[i]) \in I
  OBVIOUS
<1> HIDE DEF n, Step, I, none
<1>4. G \in [1..n -> [I -> I]] /\ \A u \in I, i \in 1..n : G[i][u] = Step(u, s[i])
  BY <1>3
<1> HIDE DEF G
<1>5. FoldsTo(I, none, n, G)
  BY <1>1, <1>4, FoldExists
<1>6. Folds(F)
  <2>1. PICK h \in [SUBSET (1..n) -> I] :
          /\ h[{}] = none
          /\ \A p \in SUBSET (1..n) :
               p # {} => Max(p) \in 1..n /\ h[p] = G[Max(p)][h[p \ {Max(p)}]]
    BY <1>5 DEF FoldsTo
  <2>2. \A p \in SUBSET (1..n) : p # {} => h[p] = Step(h[p \ {Max(p)}], s[Max(p)])
    BY <1>4, <2>1
  <2>3. Folds(h)
    BY <2>1, <2>2
  <2> QED BY <2>3
<1> HIDE DEF F
<1>7. \A p \in SUBSET (1..n) : p # {} => Max(p) \in 1..n
  BY <1>1, MaxOfSet
<1>8. /\ F[{}] = none
      /\ \A p \in SUBSET (1..n) : p # {} /\ F[p \ {Max(p)}] \in I =>
                                   F[p] = G[Max(p)][F[p \ {Max(p)}]]
  BY <1>4, <1>6, <1>7
<1>9. RunsTo(I, none, n, G, F[1..n])
  BY <1>1, <1>4, <1>8, RunOfFold
<1>10. PICK run \in [0..n -> I] :
         run[0] = none /\ run[n] = F[1..n] /\ \A i \in 1..n : run[i] = G[i][run[i - 1]]
  BY <1>9 DEF RunsTo
<1>11. \A i \in 1..n : run[i] = Step(run[i - 1], s[i])
  <2>1. \A i \in 1..n : run[i - 1] \in I
    BY <1>1
  <2> QED BY <1>4, <1>10, <2>1
<1> QED
  BY <1>2, <1>10, <1>11 DEF LateRun, n, Step, I, none

\* The same for the deadlines that are taken back.
UncountedRun(I, c, s) ==
  \E run \in [0..Len(s) -> I] :
    /\ run[0] = c /\ run[Len(s)] = Uncounted(c, s)
    /\ \A i \in 1..Len(s) : run[i] = Bump(run[i - 1], s[i].deadline, -1)

LEMMA UncountedRuns ==
  ASSUME NEW I, NEW c \in I, NEW T, NEW s \in Seq(T),
         \A u \in I, i \in 1..Len(s) : Bump(u, s[i].deadline, -1) \in I
  PROVE  UncountedRun(I, c, s)
<1> DEFINE n == Len(s)
           Step(u, x) == Bump(u, x.deadline, -1)
           G == [i \in 1..n |-> [u \in I |-> Step(u, s[i])]]
           Folds(f) == f = [p \in SUBSET (1..n) |->
                              IF p = {} THEN c ELSE Step(f[p \ {Max(p)}], s[Max(p)])]
           F == CHOOSE f : Folds(f)
<1>1. n \in Nat /\ c \in I /\ DOMAIN s = 1..n
  OBVIOUS
<1>2. Uncounted(c, s) = F[1..n]
  BY <1>1 DEF Uncounted, FoldLeft, MapThenFoldSet
<1>3. \A u \in I, i \in 1..n : Step(u, s[i]) \in I
  OBVIOUS
<1> HIDE DEF n, Step
<1>4. G \in [1..n -> [I -> I]] /\ \A u \in I, i \in 1..n : G[i][u] = Step(u, s[i])
  BY <1>3
<1> HIDE DEF G
<1>5. FoldsTo(I, c, n, G)
  BY <1>1, <1>4, FoldExists
<1>6. Folds(F)
  <2>1. PICK h \in [SUBSET (1..n) -> I] :
          /\ h[{}] = c
          /\ \A p \in SUBSET (1..n) :
               p # {} => Max(p) \in 1..n /\ h[p] = G[Max(p)][h[p \ {Max(p)}]]
    BY <1>5 DEF FoldsTo
  <2>2. \A p \in SUBSET (1..n) : p # {} => h[p] = Step(h[p \ {Max(p)}], s[Max(p)])
    BY <1>4, <2>1
  <2>3. Folds(h)
    BY <2>1, <2>2
  <2> QED BY <2>3
<1> HIDE DEF F
<1>7. \A p \in SUBSET (1..n) : p # {} => Max(p) \in 1..n
  BY <1>1, MaxOfSet
<1>8. /\ F[{}] = c
      /\ \A p \in SUBSET (1..n) : p # {} /\ F[p \ {Max(p)}] \in I =>
                                   F[p] = G[Max(p)][F[p \ {Max(p)}]]
  BY <1>4, <1>6, <1>7
<1>9. RunsTo(I, c, n, G, F[1..n])
  BY <1>1, <1>4, <1>8, RunOfFold
<1>10. PICK run \in [0..n -> I] :
         run[0] = c /\ run[n] = F[1..n] /\ \A i \in 1..n : run[i] = G[i][run[i - 1]]
  BY <1>9 DEF RunsTo
<1>11. \A i \in 1..n : run[i] = Step(run[i - 1], s[i])
  <2>1. \A i \in 1..n : run[i - 1] \in I
    BY <1>1
  <2> QED BY <1>4, <1>10, <2>1
<1> QED
  BY <1>2, <1>10, <1>11 DEF UncountedRun, n, Step

\* The run of a cancellation.
CancelRun(I, t, ids, outcome) ==
  \E run \in [0..Len(ids) -> I] :
    /\ run[0] = t /\ run[Len(ids)] = Cancel(t, ids, outcome)
    /\ \A i \in 1..Len(ids) : run[i] = CancelOne(run[i - 1], ids[i], outcome)

LEMMA CancelRuns ==
  ASSUME NEW I, NEW t \in I, NEW T, NEW ids \in Seq(T), NEW outcome,
         \A u \in I, i \in 1..Len(ids) : CancelOne(u, ids[i], outcome) \in I
  PROVE  CancelRun(I, t, ids, outcome)
<1> DEFINE n == Len(ids)
           Step(u, x) == CancelOne(u, x, outcome)
           G == [i \in 1..n |-> [u \in I |-> Step(u, ids[i])]]
           Folds(f) == f = [p \in SUBSET (1..n) |->
                              IF p = {} THEN t ELSE Step(f[p \ {Max(p)}], ids[Max(p)])]
           F == CHOOSE f : Folds(f)
<1>1. n \in Nat /\ t \in I /\ DOMAIN ids = 1..n
  OBVIOUS
<1>2. Cancel(t, ids, outcome) = F[1..n]
  BY <1>1 DEF Cancel, FoldLeft, MapThenFoldSet
<1>3. \A u \in I, i \in 1..n : Step(u, ids[i]) \in I
  OBVIOUS
<1> HIDE DEF n, Step
<1>4. G \in [1..n -> [I -> I]] /\ \A u \in I, i \in 1..n : G[i][u] = Step(u, ids[i])
  BY <1>3
<1> HIDE DEF G
<1>5. FoldsTo(I, t, n, G)
  BY <1>1, <1>4, FoldExists
<1>6. Folds(F)
  <2>1. PICK h \in [SUBSET (1..n) -> I] :
          /\ h[{}] = t
          /\ \A p \in SUBSET (1..n) :
               p # {} => Max(p) \in 1..n /\ h[p] = G[Max(p)][h[p \ {Max(p)}]]
    BY <1>5 DEF FoldsTo
  <2>2. \A p \in SUBSET (1..n) : p # {} => h[p] = Step(h[p \ {Max(p)}], ids[Max(p)])
    BY <1>4, <2>1
  <2>3. Folds(h)
    BY <2>1, <2>2
  <2> QED BY <2>3
<1> HIDE DEF F
<1>7. \A p \in SUBSET (1..n) : p # {} => Max(p) \in 1..n
  BY <1>1, MaxOfSet
<1>8. /\ F[{}] = t
      /\ \A p \in SUBSET (1..n) : p # {} /\ F[p \ {Max(p)}] \in I =>
                                   F[p] = G[Max(p)][F[p \ {Max(p)}]]
  BY <1>4, <1>6, <1>7
<1>9. RunsTo(I, t, n, G, F[1..n])
  BY <1>1, <1>4, <1>8, RunOfFold
<1>10. PICK run \in [0..n -> I] :
         run[0] = t /\ run[n] = F[1..n] /\ \A i \in 1..n : run[i] = G[i][run[i - 1]]
  BY <1>9 DEF RunsTo
<1>11. \A i \in 1..n : run[i] = Step(run[i - 1], ids[i])
  <2>1. \A i \in 1..n : run[i - 1] \in I
    BY <1>1
  <2> QED BY <1>4, <1>10, <2>1
<1> QED
  BY <1>2, <1>10, <1>11 DEF CancelRun, n, Step

\* The run of a flush of one source.
EnqueueRun(I, t, ids) ==
  \E run \in [0..Len(ids) -> I] :
    /\ run[0] = t /\ run[Len(ids)] = Enqueue(t, ids)
    /\ \A i \in 1..Len(ids) : run[i] = EnqueueOne(run[i - 1], ids[i])

LEMMA EnqueueRuns ==
  ASSUME NEW I, NEW t \in I, NEW T, NEW ids \in Seq(T),
         \A u \in I, i \in 1..Len(ids) : EnqueueOne(u, ids[i]) \in I
  PROVE  EnqueueRun(I, t, ids)
<1> DEFINE n == Len(ids)
           Step(u, x) == EnqueueOne(u, x)
           G == [i \in 1..n |-> [u \in I |-> Step(u, ids[i])]]
           Folds(f) == f = [p \in SUBSET (1..n) |->
                              IF p = {} THEN t ELSE Step(f[p \ {Max(p)}], ids[Max(p)])]
           F == CHOOSE f : Folds(f)
<1>1. n \in Nat /\ t \in I /\ DOMAIN ids = 1..n
  OBVIOUS
<1>2. Enqueue(t, ids) = F[1..n]
  BY <1>1 DEF Enqueue, FoldLeft, MapThenFoldSet
<1>3. \A u \in I, i \in 1..n : Step(u, ids[i]) \in I
  OBVIOUS
<1> HIDE DEF n, Step
<1>4. G \in [1..n -> [I -> I]] /\ \A u \in I, i \in 1..n : G[i][u] = Step(u, ids[i])
  BY <1>3
<1> HIDE DEF G
<1>5. FoldsTo(I, t, n, G)
  BY <1>1, <1>4, FoldExists
<1>6. Folds(F)
  <2>1. PICK h \in [SUBSET (1..n) -> I] :
          /\ h[{}] = t
          /\ \A p \in SUBSET (1..n) :
               p # {} => Max(p) \in 1..n /\ h[p] = G[Max(p)][h[p \ {Max(p)}]]
    BY <1>5 DEF FoldsTo
  <2>2. \A p \in SUBSET (1..n) : p # {} => h[p] = Step(h[p \ {Max(p)}], ids[Max(p)])
    BY <1>4, <2>1
  <2>3. Folds(h)
    BY <2>1, <2>2
  <2> QED BY <2>3
<1> HIDE DEF F
<1>7. \A p \in SUBSET (1..n) : p # {} => Max(p) \in 1..n
  BY <1>1, MaxOfSet
<1>8. /\ F[{}] = t
      /\ \A p \in SUBSET (1..n) : p # {} /\ F[p \ {Max(p)}] \in I =>
                                   F[p] = G[Max(p)][F[p \ {Max(p)}]]
  BY <1>4, <1>6, <1>7
<1>9. RunsTo(I, t, n, G, F[1..n])
  BY <1>1, <1>4, <1>8, RunOfFold
<1>10. PICK run \in [0..n -> I] :
         run[0] = t /\ run[n] = F[1..n] /\ \A i \in 1..n : run[i] = G[i][run[i - 1]]
  BY <1>9 DEF RunsTo
<1>11. \A i \in 1..n : run[i] = Step(run[i - 1], ids[i])
  <2>1. \A i \in 1..n : run[i - 1] \in I
    BY <1>1
  <2> QED BY <1>4, <1>10, <2>1
<1> QED
  BY <1>2, <1>10, <1>11 DEF EnqueueRun, n, Step

\* The run of a fence.
CancelSourceRun(I, t, s) ==
  \E run \in [0..Len(s) -> I] :
    /\ run[0] = t /\ run[Len(s)] = FoldLeft(CancelSource, t, s)
    /\ \A i \in 1..Len(s) : run[i] = CancelSource(run[i - 1], s[i])

LEMMA CancelSourceRuns ==
  ASSUME NEW I, NEW t \in I, NEW T, NEW s \in Seq(T),
         \A u \in I, i \in 1..Len(s) : CancelSource(u, s[i]) \in I
  PROVE  CancelSourceRun(I, t, s)
<1> DEFINE n == Len(s)
           Step(u, x) == CancelSource(u, x)
           G == [i \in 1..n |-> [u \in I |-> Step(u, s[i])]]
           Folds(f) == f = [p \in SUBSET (1..n) |->
                              IF p = {} THEN t ELSE Step(f[p \ {Max(p)}], s[Max(p)])]
           F == CHOOSE f : Folds(f)
<1>1. n \in Nat /\ t \in I /\ DOMAIN s = 1..n
  OBVIOUS
<1>2. FoldLeft(CancelSource, t, s) = F[1..n]
  BY <1>1 DEF FoldLeft, MapThenFoldSet
<1>3. \A u \in I, i \in 1..n : Step(u, s[i]) \in I
  OBVIOUS
<1> HIDE DEF n, Step
<1>4. G \in [1..n -> [I -> I]] /\ \A u \in I, i \in 1..n : G[i][u] = Step(u, s[i])
  BY <1>3
<1> HIDE DEF G
<1>5. FoldsTo(I, t, n, G)
  BY <1>1, <1>4, FoldExists
<1>6. Folds(F)
  <2>1. PICK h \in [SUBSET (1..n) -> I] :
          /\ h[{}] = t
          /\ \A p \in SUBSET (1..n) :
               p # {} => Max(p) \in 1..n /\ h[p] = G[Max(p)][h[p \ {Max(p)}]]
    BY <1>5 DEF FoldsTo
  <2>2. \A p \in SUBSET (1..n) : p # {} => h[p] = Step(h[p \ {Max(p)}], s[Max(p)])
    BY <1>4, <2>1
  <2>3. Folds(h)
    BY <2>1, <2>2
  <2> QED BY <2>3
<1> HIDE DEF F
<1>7. \A p \in SUBSET (1..n) : p # {} => Max(p) \in 1..n
  BY <1>1, MaxOfSet
<1>8. /\ F[{}] = t
      /\ \A p \in SUBSET (1..n) : p # {} /\ F[p \ {Max(p)}] \in I =>
                                   F[p] = G[Max(p)][F[p \ {Max(p)}]]
  BY <1>4, <1>6, <1>7
<1>9. RunsTo(I, t, n, G, F[1..n])
  BY <1>1, <1>4, <1>8, RunOfFold
<1>10. PICK run \in [0..n -> I] :
         run[0] = t /\ run[n] = F[1..n] /\ \A i \in 1..n : run[i] = G[i][run[i - 1]]
  BY <1>9 DEF RunsTo
<1>11. \A i \in 1..n : run[i] = Step(run[i - 1], s[i])
  <2>1. \A i \in 1..n : run[i - 1] \in I
    BY <1>1
  <2> QED BY <1>4, <1>10, <2>1
<1> QED
  BY <1>2, <1>10, <1>11 DEF CancelSourceRun, n, Step

\* The run of an expiry of mailboxes.
ExpireActorRun(I, w, s) ==
  \E run \in [0..Len(s) -> I] :
    /\ run[0] = w /\ run[Len(s)] = FoldLeft(ExpireActor, w, s)
    /\ \A i \in 1..Len(s) : run[i] = ExpireActor(run[i - 1], s[i])

LEMMA ExpireActorRuns ==
  ASSUME NEW I, NEW w \in I, NEW T, NEW s \in Seq(T),
         \A u \in I, i \in 1..Len(s) : ExpireActor(u, s[i]) \in I
  PROVE  ExpireActorRun(I, w, s)
<1> DEFINE n == Len(s)
           Step(u, x) == ExpireActor(u, x)
           G == [i \in 1..n |-> [u \in I |-> Step(u, s[i])]]
           Folds(f) == f = [p \in SUBSET (1..n) |->
                              IF p = {} THEN w ELSE Step(f[p \ {Max(p)}], s[Max(p)])]
           F == CHOOSE f : Folds(f)
<1>1. n \in Nat /\ w \in I /\ DOMAIN s = 1..n
  OBVIOUS
<1>2. FoldLeft(ExpireActor, w, s) = F[1..n]
  BY <1>1 DEF FoldLeft, MapThenFoldSet
<1>3. \A u \in I, i \in 1..n : Step(u, s[i]) \in I
  OBVIOUS
<1> HIDE DEF n, Step
<1>4. G \in [1..n -> [I -> I]] /\ \A u \in I, i \in 1..n : G[i][u] = Step(u, s[i])
  BY <1>3
<1> HIDE DEF G
<1>5. FoldsTo(I, w, n, G)
  BY <1>1, <1>4, FoldExists
<1>6. Folds(F)
  <2>1. PICK h \in [SUBSET (1..n) -> I] :
          /\ h[{}] = w
          /\ \A p \in SUBSET (1..n) :
               p # {} => Max(p) \in 1..n /\ h[p] = G[Max(p)][h[p \ {Max(p)}]]
    BY <1>5 DEF FoldsTo
  <2>2. \A p \in SUBSET (1..n) : p # {} => h[p] = Step(h[p \ {Max(p)}], s[Max(p)])
    BY <1>4, <2>1
  <2>3. Folds(h)
    BY <2>1, <2>2
  <2> QED BY <2>3
<1> HIDE DEF F
<1>7. \A p \in SUBSET (1..n) : p # {} => Max(p) \in 1..n
  BY <1>1, MaxOfSet
<1>8. /\ F[{}] = w
      /\ \A p \in SUBSET (1..n) : p # {} /\ F[p \ {Max(p)}] \in I =>
                                   F[p] = G[Max(p)][F[p \ {Max(p)}]]
  BY <1>4, <1>6, <1>7
<1>9. RunsTo(I, w, n, G, F[1..n])
  BY <1>1, <1>4, <1>8, RunOfFold
<1>10. PICK run \in [0..n -> I] :
         run[0] = w /\ run[n] = F[1..n] /\ \A i \in 1..n : run[i] = G[i][run[i - 1]]
  BY <1>9 DEF RunsTo
<1>11. \A i \in 1..n : run[i] = Step(run[i - 1], s[i])
  <2>1. \A i \in 1..n : run[i - 1] \in I
    BY <1>1
  <2> QED BY <1>4, <1>10, <2>1
<1> QED
  BY <1>2, <1>10, <1>11 DEF ExpireActorRun, n, Step

\* The run of a flush.
FlushActorRun(I, w, s) ==
  \E run \in [0..Len(s) -> I] :
    /\ run[0] = w /\ run[Len(s)] = FoldLeft(FlushActor, w, s)
    /\ \A i \in 1..Len(s) : run[i] = FlushActor(run[i - 1], s[i])

LEMMA FlushActorRuns ==
  ASSUME NEW I, NEW w \in I, NEW T, NEW s \in Seq(T),
         \A u \in I, i \in 1..Len(s) : FlushActor(u, s[i]) \in I
  PROVE  FlushActorRun(I, w, s)
<1> DEFINE n == Len(s)
           Step(u, x) == FlushActor(u, x)
           G == [i \in 1..n |-> [u \in I |-> Step(u, s[i])]]
           Folds(f) == f = [p \in SUBSET (1..n) |->
                              IF p = {} THEN w ELSE Step(f[p \ {Max(p)}], s[Max(p)])]
           F == CHOOSE f : Folds(f)
<1>1. n \in Nat /\ w \in I /\ DOMAIN s = 1..n
  OBVIOUS
<1>2. FoldLeft(FlushActor, w, s) = F[1..n]
  BY <1>1 DEF FoldLeft, MapThenFoldSet
<1>3. \A u \in I, i \in 1..n : Step(u, s[i]) \in I
  OBVIOUS
<1> HIDE DEF n, Step
<1>4. G \in [1..n -> [I -> I]] /\ \A u \in I, i \in 1..n : G[i][u] = Step(u, s[i])
  BY <1>3
<1> HIDE DEF G
<1>5. FoldsTo(I, w, n, G)
  BY <1>1, <1>4, FoldExists
<1>6. Folds(F)
  <2>1. PICK h \in [SUBSET (1..n) -> I] :
          /\ h[{}] = w
          /\ \A p \in SUBSET (1..n) :
               p # {} => Max(p) \in 1..n /\ h[p] = G[Max(p)][h[p \ {Max(p)}]]
    BY <1>5 DEF FoldsTo
  <2>2. \A p \in SUBSET (1..n) : p # {} => h[p] = Step(h[p \ {Max(p)}], s[Max(p)])
    BY <1>4, <2>1
  <2>3. Folds(h)
    BY <2>1, <2>2
  <2> QED BY <2>3
<1> HIDE DEF F
<1>7. \A p \in SUBSET (1..n) : p # {} => Max(p) \in 1..n
  BY <1>1, MaxOfSet
<1>8. /\ F[{}] = w
      /\ \A p \in SUBSET (1..n) : p # {} /\ F[p \ {Max(p)}] \in I =>
                                   F[p] = G[Max(p)][F[p \ {Max(p)}]]
  BY <1>4, <1>6, <1>7
<1>9. RunsTo(I, w, n, G, F[1..n])
  BY <1>1, <1>4, <1>8, RunOfFold
<1>10. PICK run \in [0..n -> I] :
         run[0] = w /\ run[n] = F[1..n] /\ \A i \in 1..n : run[i] = G[i][run[i - 1]]
  BY <1>9 DEF RunsTo
<1>11. \A i \in 1..n : run[i] = Step(run[i - 1], s[i])
  <2>1. \A i \in 1..n : run[i - 1] \in I
    BY <1>1
  <2> QED BY <1>4, <1>10, <2>1
<1> QED
  BY <1>2, <1>10, <1>11 DEF FlushActorRun, n, Step

\* The run of a batch.
AttemptRun(I, w, s, id) ==
  \E run \in [0..Len(s) -> I] :
    /\ run[0] = w /\ run[Len(s)] = FoldLeft(LAMBDA v, dest : Attempt(id, v, dest), w, s)
    /\ \A i \in 1..Len(s) : run[i] = Attempt(id, run[i - 1], s[i])

LEMMA AttemptRuns ==
  ASSUME NEW I, NEW w \in I, NEW T, NEW s \in Seq(T), NEW id,
         \A u \in I, i \in 1..Len(s) : Attempt(id, u, s[i]) \in I
  PROVE  AttemptRun(I, w, s, id)
<1> DEFINE n == Len(s)
           Step(u, x) == Attempt(id, u, x)
           G == [i \in 1..n |-> [u \in I |-> Step(u, s[i])]]
           Folds(f) == f = [p \in SUBSET (1..n) |->
                              IF p = {} THEN w ELSE Step(f[p \ {Max(p)}], s[Max(p)])]
           F == CHOOSE f : Folds(f)
<1>1. n \in Nat /\ w \in I /\ DOMAIN s = 1..n
  OBVIOUS
<1>2. FoldLeft(LAMBDA v, dest : Attempt(id, v, dest), w, s) = F[1..n]
  BY <1>1 DEF FoldLeft, MapThenFoldSet
<1>3. \A u \in I, i \in 1..n : Step(u, s[i]) \in I
  OBVIOUS
<1> HIDE DEF n, Step
<1>4. G \in [1..n -> [I -> I]] /\ \A u \in I, i \in 1..n : G[i][u] = Step(u, s[i])
  BY <1>3
<1> HIDE DEF G
<1>5. FoldsTo(I, w, n, G)
  BY <1>1, <1>4, FoldExists
<1>6. Folds(F)
  <2>1. PICK h \in [SUBSET (1..n) -> I] :
          /\ h[{}] = w
          /\ \A p \in SUBSET (1..n) :
               p # {} => Max(p) \in 1..n /\ h[p] = G[Max(p)][h[p \ {Max(p)}]]
    BY <1>5 DEF FoldsTo
  <2>2. \A p \in SUBSET (1..n) : p # {} => h[p] = Step(h[p \ {Max(p)}], s[Max(p)])
    BY <1>4, <2>1
  <2>3. Folds(h)
    BY <2>1, <2>2
  <2> QED BY <2>3
<1> HIDE DEF F
<1>7. \A p \in SUBSET (1..n) : p # {} => Max(p) \in 1..n
  BY <1>1, MaxOfSet
<1>8. /\ F[{}] = w
      /\ \A p \in SUBSET (1..n) : p # {} /\ F[p \ {Max(p)}] \in I =>
                                   F[p] = G[Max(p)][F[p \ {Max(p)}]]
  BY <1>4, <1>6, <1>7
<1>9. RunsTo(I, w, n, G, F[1..n])
  BY <1>1, <1>4, <1>8, RunOfFold
<1>10. PICK run \in [0..n -> I] :
         run[0] = w /\ run[n] = F[1..n] /\ \A i \in 1..n : run[i] = G[i][run[i - 1]]
  BY <1>9 DEF RunsTo
<1>11. \A i \in 1..n : run[i] = Step(run[i - 1], s[i])
  <2>1. \A i \in 1..n : run[i - 1] \in I
    BY <1>1
  <2> QED BY <1>4, <1>10, <2>1
<1> QED
  BY <1>2, <1>10, <1>11 DEF AttemptRun, n, Step

\* R orders the elements of S.
Orders(R, S) ==
  /\ \A x \in S : <<x, x>> \notin R
  /\ \A x, y \in S : x # y => <<x, y>> \in R \/ <<y, x>> \in R
  /\ \A x, y, z \in S : <<x, y>> \in R /\ <<y, z>> \in R => <<x, z>> \in R

\* A finite set that is not empty has a last element.
LEMMA LastExists ==
  ASSUME NEW S, IsFiniteSet(S), NEW R, Orders(R, S)
  PROVE  \A X \in SUBSET S : X # {} => \E m \in X : \A y \in X \ {m} : <<y, m>> \in R
<1> DEFINE Has(X) == \E m \in X : \A y \in X \ {m} : <<y, m>> \in R
           N == {n \in Nat : \A X \in SUBSET S : Cardinality(X) = n + 1 => Has(X)}
<1>1. \A X \in SUBSET S : IsFiniteSet(X) /\ Cardinality(X) \in Nat
  BY FS_Subset, FS_CardinalityType
<1>2. \A X \in SUBSET S : \A x \in X :
         /\ X \ {x} \in SUBSET S
         /\ Cardinality(X \ {x}) = Cardinality(X) - 1
  BY <1>1, FS_RemoveElement
<1>3. 0 \in N
  <2>1. ASSUME NEW X \in SUBSET S, Cardinality(X) = 1 PROVE Has(X)
    <3>1. PICK m : X = {m}
      BY <1>1, <2>1, FS_Singleton
    <3> QED BY <3>1
  <2> QED BY <2>1
<1>4. ASSUME NEW n \in Nat, n \in N PROVE n + 1 \in N
  <2>1. ASSUME NEW X \in SUBSET S, Cardinality(X) = n + 2 PROVE Has(X)
    <3>1. PICK x \in X : TRUE
      BY <2>1, FS_EmptySet
    <3>2. Has(X \ {x})
      <4>1. X \ {x} \in SUBSET S /\ Cardinality(X \ {x}) = n + 1
        BY <1>2, <2>1
      <4> QED BY <1>4, <4>1
    <3>3. PICK m \in X \ {x} : \A y \in (X \ {x}) \ {m} : <<y, m>> \in R
      BY <3>2
    <3>4. CASE <<x, m>> \in R
      BY <3>3, <3>4
    <3>5. CASE <<m, x>> \in R
      <4>1. \A y \in X \ {x} : <<y, x>> \in R
        BY <3>3, <3>5 DEF Orders
      <4> QED BY <4>1
    <3> QED BY <3>3, <3>4, <3>5 DEF Orders
  <2> QED BY <2>1
<1> HIDE DEF N
<1>5. \A n \in Nat : n \in N
  BY <1>3, <1>4, SetInduction
<1>6. ASSUME NEW X \in SUBSET S, X # {} PROVE Has(X)
  <2>1. IsFiniteSet(X) /\ Cardinality(X) # 0 /\ Cardinality(X) \in Nat
    BY <1>1, <1>6, FS_EmptySet
  <2>2. Cardinality(X) - 1 \in Nat /\ Cardinality(X) = (Cardinality(X) - 1) + 1
    BY <2>1
  <2>3. Cardinality(X) - 1 \in N
    BY <1>5, <2>2
  <2> QED BY <2>2, <2>3 DEF N
<1> QED
  BY <1>6

\* Its elements can be listed in order.
LEMMA OrderExists ==
  ASSUME NEW S, IsFiniteSet(S), NEW R, Orders(R, S)
  PROVE  \E seq \in [1..Cardinality(S) -> S] :
           \A i, j \in 1..Cardinality(S) : i < j => <<seq[i], seq[j]>> \in R
<1> DEFINE Lists(n, X, seq) == \A i, j \in 1..n : i < j => <<seq[i], seq[j]>> \in R
           N == {n \in Nat : \A X \in SUBSET S :
                   Cardinality(X) = n => \E seq \in [1..n -> X] : Lists(n, X, seq)}
<1>1. \A X \in SUBSET S : IsFiniteSet(X) /\ Cardinality(X) \in Nat
  BY FS_Subset, FS_CardinalityType
<1>2. \A X \in SUBSET S : \A x \in X :
         /\ X \ {x} \in SUBSET S
         /\ Cardinality(X \ {x}) = Cardinality(X) - 1
  BY <1>1, FS_RemoveElement
<1>3. 0 \in N
  <2>1. ASSUME NEW X \in SUBSET S PROVE \E seq \in [1..0 -> X] : Lists(0, X, seq)
    <3>1. 1..0 = {}
      OBVIOUS
    <3>2. [i \in 1..0 |-> i] \in [1..0 -> X]
      BY <3>1
    <3> QED BY <3>1, <3>2
  <2> QED BY <2>1
<1>4. ASSUME NEW n \in Nat, n \in N PROVE n + 1 \in N
  <2>1. ASSUME NEW X \in SUBSET S, Cardinality(X) = n + 1
        PROVE  \E seq \in [1..(n + 1) -> X] : Lists(n + 1, X, seq)
    <3>1. X # {}
      BY <2>1, FS_EmptySet
    <3>2. PICK m \in X : \A y \in X \ {m} : <<y, m>> \in R
      BY <3>1, LastExists
    <3>3. X \ {m} \in SUBSET S /\ Cardinality(X \ {m}) = n
      BY <1>2, <2>1
    <3>4. PICK seq \in [1..n -> X \ {m}] : Lists(n, X \ {m}, seq)
      BY <1>4, <3>3
    <3> DEFINE more == [i \in 1..(n + 1) |-> IF i = n + 1 THEN m ELSE seq[i]]
    <3>5. \A i \in 1..n : seq[i] \in X \ {m} /\ more[i] = seq[i]
      BY <3>4
    <3>6. more[n + 1] = m /\ more \in [1..(n + 1) -> X]
      BY <3>5
    <3> HIDE DEF more
    <3>7. ASSUME NEW i \in 1..(n + 1), NEW j \in 1..(n + 1), i < j
          PROVE  <<more[i], more[j]>> \in R
      <4>1. i \in 1..n
        BY <3>7
      <4>2. CASE j \in 1..n
        BY <3>4, <3>5, <3>7, <4>1, <4>2
      <4>3. CASE j = n + 1
        BY <3>2, <3>5, <3>6, <4>1, <4>3
      <4> QED BY <4>2, <4>3
    <3> QED BY <3>6, <3>7
  <2> QED BY <2>1
<1> HIDE DEF N
<1>5. \A n \in Nat : n \in N
  BY <1>3, <1>4, SetInduction
<1>6. S \in SUBSET S /\ Cardinality(S) \in N
  BY <1>1, <1>5
<1> QED
  BY <1>6 DEF N

\* An ordered list that is as long as the set has members lists all of them.
LEMMA OrderIsList ==
  ASSUME NEW S, IsFiniteSet(S), NEW R, Orders(R, S), NEW seq \in [1..Cardinality(S) -> S],
         \A i, j \in 1..Cardinality(S) : i < j => <<seq[i], seq[j]>> \in R
  PROVE  /\ seq \in Seq(S) /\ Len(seq) = Cardinality(S) /\ ToSet(seq) = S
         /\ \A i, j \in DOMAIN seq : i # j => seq[i] # seq[j]
<1> DEFINE n == Cardinality(S)
<1>1. n \in Nat
  BY FS_CardinalityType
<1>2. seq \in Seq(S) /\ Len(seq) = n /\ DOMAIN seq = 1..n
  BY <1>1, IsASeq
<1>3. ASSUME NEW i \in 1..n, NEW j \in 1..n, i # j PROVE seq[i] # seq[j]
  <2>1. i < j \/ j < i
    BY <1>3
  <2>2. <<seq[i], seq[j]>> \in R \/ <<seq[j], seq[i]>> \in R
    BY <2>1
  <2>3. seq[i] \in S /\ seq[j] \in S
    OBVIOUS
  <2> QED BY <2>2, <2>3 DEF Orders
<1>4. seq \in Injection(1..n, S)
  BY <1>3 DEF Injection, IsInjective
<1>5. IsFiniteSet(1..n) /\ Cardinality(1..n) = n
  BY <1>1, FS_Interval
<1>6. seq \in Surjection(1..n, S)
  BY <1>4, <1>5, FS_Injection
<1>9. ToSet(seq) = S
  BY <1>2, <1>6 DEF ToSet, Surjection
<1> QED
  BY <1>2, <1>3, <1>9

\* Numbers listed in their order.
LEMMA SortedNumbers ==
  ASSUME NEW S \in SUBSET Int, IsFiniteSet(S)
  PROVE  LET seq == Sorted(S, LAMBDA x, y : x < y) IN
         /\ seq \in Seq(S) /\ Len(seq) = Cardinality(S) /\ ToSet(seq) = S
         /\ \A i, j \in DOMAIN seq : i # j => seq[i] # seq[j]
<1> DEFINE R == {e \in S \X S : e[1] < e[2]}
           n == Cardinality(S)
           seq == Sorted(S, LAMBDA x, y : x < y)
<1>1. \A x, y \in S : <<x, y>> \in R <=> x < y
  OBVIOUS
<1> HIDE DEF R
<1>2. Orders(R, S)
  BY <1>1 DEF Orders
<1>3. \E q \in [1..n -> S] : \A i, j \in 1..n : i < j => <<q[i], q[j]>> \in R
  BY <1>2, OrderExists
<1>4. \E q \in [1..n -> S] : \A i, j \in 1..n : i < j => q[i] < q[j]
  BY <1>1, <1>3
<1>5. seq \in [1..n -> S] /\ \A i, j \in 1..n : i < j => seq[i] < seq[j]
  BY <1>4 DEF Sorted
<1>6. \A i, j \in 1..n : i < j => <<seq[i], seq[j]>> \in R
  BY <1>1, <1>5
<1> HIDE DEF seq
<1>7. /\ seq \in Seq(S) /\ Len(seq) = n /\ ToSet(seq) = S
      /\ \A i, j \in DOMAIN seq : i # j => seq[i] # seq[j]
  BY <1>2, <1>5, <1>6, OrderIsList
<1> QED
  BY <1>7 DEF seq

\* Deadlines listed in the order of the deadline set.
LEMMA SortedDeadlines ==
  ASSUME NEW S \in SUBSET (Int \X Int), IsFiniteSet(S)
  PROVE  LET seq == Sorted(S, LAMBDA d, e : d[1] < e[1] \/ (d[1] = e[1] /\ d[2] < e[2])) IN
         /\ seq \in Seq(S) /\ Len(seq) = Cardinality(S) /\ ToSet(seq) = S
         /\ \A i, j \in DOMAIN seq : i # j => seq[i] # seq[j]
<1> DEFINE Before(d, e) == d[1] < e[1] \/ (d[1] = e[1] /\ d[2] < e[2])
           R == {e \in S \X S : Before(e[1], e[2])}
           n == Cardinality(S)
           seq == Sorted(S, Before)
<1>1. \A x, y \in S : <<x, y>> \in R <=> Before(x, y)
  OBVIOUS
<1> HIDE DEF R
<1>2. Orders(R, S)
  <2>1. \A x \in S : x = <<x[1], x[2]>> /\ x[1] \in Int /\ x[2] \in Int
    OBVIOUS
  <2>2. \A x, y \in S : x # y => Before(x, y) \/ Before(y, x)
    BY <2>1
  <2>3. \A x, y, z \in S : Before(x, y) /\ Before(y, z) => Before(x, z)
    BY <2>1
  <2>4. \A x \in S : ~Before(x, x)
    BY <2>1
  <2> HIDE DEF Before
  <2> QED
    BY <1>1, <2>2, <2>3, <2>4 DEF Orders
<1>3. \E q \in [1..n -> S] : \A i, j \in 1..n : i < j => <<q[i], q[j]>> \in R
  BY <1>2, OrderExists
<1> HIDE DEF Before
<1>4. \E q \in [1..n -> S] : \A i, j \in 1..n : i < j => Before(q[i], q[j])
  BY <1>1, <1>3
<1>5. seq \in [1..n -> S] /\ \A i, j \in 1..n : i < j => Before(seq[i], seq[j])
  BY <1>4 DEF Sorted
<1>6. \A i, j \in 1..n : i < j => <<seq[i], seq[j]>> \in R
  BY <1>1, <1>5
<1> HIDE DEF seq
<1>7. /\ seq \in Seq(S) /\ Len(seq) = n /\ ToSet(seq) = S
      /\ \A i, j \in DOMAIN seq : i # j => seq[i] # seq[j]
  BY <1>2, <1>5, <1>6, OrderIsList
<1> QED
  BY <1>7 DEF seq, Before

\* retain keeps the other elements, in their order.
LEMMA WithoutKeeps ==
  ASSUME NEW T, NEW s \in Seq(T), NEW e, NEW R,
         \A i, j \in DOMAIN s : i < j => <<s[i], s[j]>> \in R
  PROVE  LET w == Without(s, e) IN
         /\ w \in Seq(T) /\ ToSet(w) = ToSet(s) \ {e}
         /\ \A i, j \in DOMAIN w : i < j => <<w[i], w[j]>> \in R
<1> DEFINE n == Len(s)
           Kept(k, w) == /\ ToSet(w) = {s[i] : i \in 1..k} \ {e}
                         /\ \A i, j \in DOMAIN w : i < j => <<w[i], w[j]>> \in R
<1>1. n \in Nat /\ DOMAIN s = 1..n /\ \A i \in 1..n : s[i] \in T
  OBVIOUS
<1>2. PICK run \in [0..n -> Seq(T)] :
        /\ run[0] = <<>> /\ run[n] = Without(s, e)
        /\ \A i \in 1..n : run[i] = (IF s[i] = e THEN run[i - 1] ELSE Append(run[i - 1], s[i]))
  <2>1. WithoutRun(T, s, e)
    BY WithoutRuns
  <2> QED BY <2>1 DEF WithoutRun
<1> DEFINE S == {k \in 0..n : Kept(k, run[k])}
<1>3. 0 \in S
  <2>1. 1..0 = {} /\ 0 \in 0..n
    BY <1>1
  <2>2. DOMAIN run[0] = {} /\ ToSet(run[0]) = {}
    BY <1>2 DEF ToSet
  <2>3. {s[i] : i \in 1..0} = {}
    BY <2>1
  <2> QED BY <2>1, <2>2, <2>3
<1>4. ASSUME NEW k \in 1..n, k - 1 \in S PROVE k \in S
  <2> DEFINE v == run[k - 1]
             w == run[k]
             m == Len(v)
  <2>1. v \in Seq(T) /\ m \in Nat /\ DOMAIN v = 1..m
    <3>1. k - 1 \in 0..n
      BY <1>1
    <3>2. v \in Seq(T)
      BY <1>2, <3>1
    <3> QED BY <3>2
  <2>2. Kept(k - 1, v)
    BY <1>4
  <2>3. {s[i] : i \in 1..k} = {s[i] : i \in 1..(k - 1)} \cup {s[k]}
    <3>1. 1..k = 1..(k - 1) \cup {k}
      OBVIOUS
    <3> QED BY <3>1
  <2>4. w = IF s[k] = e THEN v ELSE Append(v, s[k])
    BY <1>2
  <2>5. CASE s[k] = e
    BY <2>2, <2>3, <2>4, <2>5
  <2>6. CASE s[k] # e
    <3>1. /\ w = Append(v, s[k]) /\ DOMAIN w = 1..(m + 1)
          /\ w[m + 1] = s[k] /\ \A i \in 1..m : w[i] = v[i]
      BY <1>1, <2>1, <2>4, <2>6
    <3> HIDE DEF v, w, m
    <3>2. ToSet(w) = ToSet(v) \cup {s[k]}
      <4>1. 1..(m + 1) = 1..m \cup {m + 1}
        BY <2>1
      <4> QED BY <2>1, <3>1, <4>1 DEF ToSet
    <3>3. ASSUME NEW i \in 1..(m + 1), NEW j \in 1..(m + 1), i < j PROVE <<w[i], w[j]>> \in R
      <4>1. i \in 1..m
        BY <2>1, <3>3
      <4>2. CASE j \in 1..m
        BY <2>1, <2>2, <3>1, <3>3, <4>1, <4>2
      <4>3. CASE j = m + 1
        <5>1. v[i] \in {s[l] : l \in 1..(k - 1)}
          BY <2>1, <2>2, <4>1 DEF ToSet
        <5>2. PICK l \in 1..(k - 1) : v[i] = s[l]
          BY <5>1
        <5>3. l \in DOMAIN s /\ k \in DOMAIN s /\ l < k
          BY <1>1
        <5> QED BY <3>1, <4>1, <4>3, <5>2, <5>3
      <4> QED BY <2>1, <4>2, <4>3
    <3>4. Kept(k, w)
      BY <2>2, <2>3, <2>6, <3>1, <3>2, <3>3
    <3> QED BY <3>4 DEF w
  <2> QED BY <2>5, <2>6
<1> HIDE DEF S
<1>5. n \in S
  <2>1. \A k \in 0..n : k \in S
    BY <1>1, <1>3, <1>4, InductionUpTo
  <2> QED BY <1>1, <2>1
<1>6. Kept(n, Without(s, e)) /\ Without(s, e) \in Seq(T)
  BY <1>1, <1>2, <1>5 DEF S
<1> QED
  BY <1>1, <1>6 DEF ToSet

-----------------------------------------------------------------------------
(* The invariant of the table, part by part.  The parts are about fields,  *)
(* so that an operation has to be followed only through those it changes.  *)

TableType ==
  [entries : [PubId -> Publication \cup {NoPublication}],
   tickets : [PubId -> Ticket],
   held : SUBSET PubId,
   bySource : [Actor -> Seq(PubId)],
   ready : Seq(Actor),
   readySet : SUBSET Actor,
   deadlines : SUBSET (Time \X PubId),
   nextId : 1..LastId,
   total : Int,
   counts : [Actor -> Int],
   snapshotEntries : Int]

Pending(entries) == {id \in PubId : entries[id] # NoPublication}

\* A publication accounts for the destinations it has attempted.
PublicationOk(p) ==
  /\ p.matched = Len(p.routes) /\ p.cursor = p.admitted + p.rejected /\ p.cursor <= p.matched
  /\ Len(p.routes) <= LastRoute
  /\ \A i, j \in DOMAIN p.routes : i # j => p.routes[i][1] # p.routes[j][1]
  /\ p.staged => p.routes = <<>>

EntriesOk(entries) == \A id \in Pending(entries) : PublicationOk(entries[id])

\* The queue of every source holds its publications in the order of acceptance.
QueuesExact(entries, bySource) ==
  \A a \in Actor :
    /\ ToSet(bySource[a]) = {id \in Pending(entries) : entries[id].source = a}
    /\ \A i, j \in DOMAIN bySource[a] : i < j => bySource[a][i] < bySource[a][j]

Routable(entries, bySource, a) ==
  bySource[a] # <<>> /\ ~entries[Head(bySource[a])].staged

\* The rotation: all sources with something to route have a turn to come,
\* except, in the middle of a call, those of off.
RotationExact(entries, bySource, ready, readySet, off) ==
  /\ \A a \in Actor \ off : a \in readySet <=> Routable(entries, bySource, a)
  /\ ToSet(ready) = readySet
  /\ \A i, j \in DOMAIN ready : i < j => ready[i] # ready[j]

DeadlinesExact(entries, deadlines) ==
  deadlines = {e \in Time \X PubId : /\ entries[e[2]] # NoPublication
                                     /\ entries[e[2]].deadline = e[1]}

\* The destinations of all captured snapshots.
Snapshots(entries) == {e \in PubId \X RouteId : /\ entries[e[1]] # NoPublication
                                               /\ e[2] <= Len(entries[e[1]].routes)}

SnapshotsExact(entries, n) == n = Cardinality(Snapshots(entries))

\* The ticket of a publication carries its report so far, one without a
\* publication accounts for every destination, and neither is ahead of next_id.
TicketsExact(entries, tickets, held, nextId) ==
  /\ \A id \in Pending(entries) \cup held : id < nextId /\ tickets[id].source \in Actor
  /\ \A id \in Pending(entries) :
       /\ tickets[id].source = entries[id].source
       /\ tickets[id].admitted = entries[id].admitted
       /\ tickets[id].status \notin Outcomes
  /\ \A id \in held \ Pending(entries) :
       tickets[id].status \in Outcomes =>
         tickets[id].matched = tickets[id].admitted + tickets[id].rejected

BudgetExact(charged, tickets, total, spent) ==
  /\ total = Cardinality(charged) /\ total <= TicketLimit
  /\ \A a \in Actor :
       /\ spent[a] = Cardinality({id \in charged : tickets[id].source = a})
       /\ spent[a] <= PerSource

TableOk(t, off) ==
  /\ t \in TableType
  /\ EntriesOk(t.entries)
  /\ QueuesExact(t.entries, t.bySource)
  /\ RotationExact(t.entries, t.bySource, t.ready, t.readySet, off)
  /\ DeadlinesExact(t.entries, t.deadlines)
  /\ SnapshotsExact(t.entries, t.snapshotEntries)
  /\ TicketsExact(t.entries, t.tickets, t.held, t.nextId)
  /\ BudgetExact(Pending(t.entries) \cup t.held, t.tickets, t.total, t.counts)

-----------------------------------------------------------------------------
(* Operations on the table, part by part.                                  *)

EntriesType == [PubId -> Publication \cup {NoPublication}]
QueuesType == [Actor -> Seq(PubId)]

\* Appending what comes after everything before it.
LEMMA AppendKeeps ==
  ASSUME NEW T, NEW s \in Seq(T), NEW x \in T, NEW R,
         \A i, j \in DOMAIN s : i < j => <<s[i], s[j]>> \in R,
         \A i \in DOMAIN s : <<s[i], x>> \in R
  PROVE  LET w == Append(s, x) IN
         /\ w \in Seq(T) /\ ToSet(w) = ToSet(s) \cup {x}
         /\ \A i, j \in DOMAIN w : i < j => <<w[i], w[j]>> \in R
<1> DEFINE m == Len(s)
           w == Append(s, x)
<1>1. m \in Nat /\ DOMAIN s = 1..m /\ \A i \in 1..m : s[i] \in T
  OBVIOUS
<1>2. /\ w \in Seq(T) /\ DOMAIN w = 1..(m + 1)
      /\ w[m + 1] = x /\ \A i \in 1..m : w[i] = s[i]
  BY <1>1
<1> HIDE DEF w, m
<1>3. ToSet(w) = ToSet(s) \cup {x}
  <2>1. 1..(m + 1) = 1..m \cup {m + 1}
    BY <1>1
  <2> QED BY <1>1, <1>2, <2>1 DEF ToSet
<1>4. ASSUME NEW i \in 1..(m + 1), NEW j \in 1..(m + 1), i < j PROVE <<w[i], w[j]>> \in R
  <2>1. i \in 1..m
    BY <1>1, <1>4
  <2>2. CASE j \in 1..m
    BY <1>1, <1>2, <1>4, <2>1, <2>2
  <2>3. CASE j = m + 1
    BY <1>1, <1>2, <2>1, <2>3
  <2> QED BY <1>1, <2>2, <2>3
<1> QED
  BY <1>2, <1>3, <1>4 DEF w

\* The numbers and the actors in relation.
Increases == {e \in Int \X Int : e[1] < e[2]}
Differs == {e \in Actor \X Actor : e[1] # e[2]}

LEMMA IncreasesDef == \A x, y \in Int : <<x, y>> \in Increases <=> x < y
  BY DEF Increases

LEMMA DiffersDef == \A x, y \in Actor : <<x, y>> \in Differs <=> x # y
  BY DEF Differs

\* A queue that loses a publication.
LEMMA QueuesRemove ==
  ASSUME NEW entries \in EntriesType, NEW bySource \in QueuesType, QueuesExact(entries, bySource),
         NEW id \in PubId, entries[id] # NoPublication, NEW a \in Actor, entries[id].source = a
  PROVE  /\ [bySource EXCEPT ![a] = Without(bySource[a], id)] \in QueuesType
         /\ QueuesExact([entries EXCEPT ![id] = NoPublication],
                        [bySource EXCEPT ![a] = Without(bySource[a], id)])
<1> DEFINE e == [entries EXCEPT ![id] = NoPublication]
           w == Without(bySource[a], id)
           q == [bySource EXCEPT ![a] = w]
<1>1. bySource[a] \in Seq(PubId) /\ PubId \subseteq Int
  BY DEF QueuesType, PubId
<1>2. \A i, j \in DOMAIN bySource[a] : i < j => <<bySource[a][i], bySource[a][j]>> \in Increases
  BY <1>1, IncreasesDef DEF QueuesExact
<1>3. /\ w \in Seq(PubId) /\ ToSet(w) = ToSet(bySource[a]) \ {id}
      /\ \A i, j \in DOMAIN w : i < j => <<w[i], w[j]>> \in Increases
  BY <1>1, <1>2, WithoutKeeps
<1> HIDE DEF w
<1>4. \A i, j \in DOMAIN w : i < j => w[i] < w[j]
  <2>1. \A i \in DOMAIN w : w[i] \in Int
    <3>1. \A i \in DOMAIN w : w[i] \in PubId
      BY <1>3
    <3> QED BY <1>1, <3>1
  <2> QED BY <1>3, <2>1, IncreasesDef
<1>5. q \in QueuesType /\ q[a] = w /\ \A b \in Actor \ {a} : q[b] = bySource[b]
  BY <1>3 DEF QueuesType
<1>6. Pending(e) = Pending(entries) \ {id} /\ \A i \in Pending(e) : e[i] = entries[i]
  BY DEF Pending, EntriesType
<1> HIDE DEF e, q
<1>7. ASSUME NEW b \in Actor
      PROVE  /\ ToSet(q[b]) = {i \in Pending(e) : e[i].source = b}
             /\ \A i, j \in DOMAIN q[b] : i < j => q[b][i] < q[b][j]
  <2>1. CASE b = a
    BY <1>3, <1>4, <1>5, <1>6, <2>1 DEF QueuesExact
  <2>2. CASE b # a
    BY <1>5, <1>6, <2>2 DEF QueuesExact
  <2> QED BY <2>1, <2>2
<1> QED
  BY <1>5, <1>7 DEF QueuesExact, e, w, q

\* The head of a queue is pending and belongs to the source.
LEMMA HeadPending ==
  ASSUME NEW entries \in EntriesType, NEW bySource \in QueuesType, QueuesExact(entries, bySource),
         NEW a \in Actor, bySource[a] # <<>>
  PROVE  /\ Head(bySource[a]) \in Pending(entries) /\ entries[Head(bySource[a])].source = a
         /\ \A id \in Pending(entries) : entries[id].source = a => Head(bySource[a]) <= id
<1> DEFINE q == bySource[a]
<1>1. q \in Seq(PubId) /\ Len(q) \in Nat \ {0} /\ DOMAIN q = 1..Len(q) /\ Head(q) = q[1]
  BY DEF QueuesType
<1>2. Head(q) \in ToSet(q)
  BY <1>1 DEF ToSet
<1>3. ASSUME NEW i \in DOMAIN q PROVE q[1] <= q[i]
  <2>1. i = 1 \/ 1 < i
    BY <1>1
  <2>2. q[1] \in Int /\ q[i] \in Int
    <3>1. q[1] \in PubId /\ q[i] \in PubId
      BY <1>1
    <3> QED BY <3>1 DEF PubId
  <2> QED BY <1>1, <2>1, <2>2 DEF QueuesExact
<1>4. \A id \in ToSet(q) : Head(q) <= id
  BY <1>1, <1>3 DEF ToSet
<1> QED
  BY <1>2, <1>4 DEF QueuesExact

\* A source leaves the rotation with one of its publications.
LEMMA RotationRemove ==
  ASSUME NEW entries \in EntriesType, NEW bySource \in QueuesType, QueuesExact(entries, bySource),
         NEW id \in PubId, entries[id] # NoPublication, NEW a \in Actor, entries[id].source = a,
         NEW ready \in Seq(Actor), NEW readySet \in SUBSET Actor, NEW q,
         RotationExact(entries, bySource, ready, readySet, {a})
  PROVE  /\ Without(ready, a) \in Seq(Actor)
         /\ RotationExact([entries EXCEPT ![id] = NoPublication],
                          [bySource EXCEPT ![a] = q], Without(ready, a), readySet \ {a}, {a})
<1> DEFINE e == [entries EXCEPT ![id] = NoPublication]
           w == Without(ready, a)
           s == [bySource EXCEPT ![a] = q]
<1>1. \A i, j \in DOMAIN ready : i < j => <<ready[i], ready[j]>> \in Differs
  BY DiffersDef DEF RotationExact
<1>2. /\ w \in Seq(Actor) /\ ToSet(w) = ToSet(ready) \ {a}
      /\ \A i, j \in DOMAIN w : i < j => <<w[i], w[j]>> \in Differs
  BY <1>1, WithoutKeeps
<1> HIDE DEF w
<1>3. \A i, j \in DOMAIN w : i < j => w[i] # w[j]
  BY <1>2 DEF Differs
<1>4. ASSUME NEW b \in Actor \ {a} PROVE Routable(e, s, b) <=> Routable(entries, bySource, b)
  <2>1. s[b] = bySource[b]
    BY DEF QueuesType
  <2>2. bySource[b] # <<>> => Head(bySource[b]) \in PubId /\ Head(bySource[b]) # id
    BY HeadPending DEF Pending
  <2>3. bySource[b] # <<>> => e[Head(bySource[b])] = entries[Head(bySource[b])]
    BY <2>2 DEF EntriesType
  <2> HIDE DEF e, s
  <2> QED BY <2>1, <2>3 DEF Routable
<1> HIDE DEF e, s
<1>5. RotationExact(e, s, w, readySet \ {a}, {a})
  BY <1>2, <1>3, <1>4 DEF RotationExact
<1> QED
  BY <1>2, <1>5 DEF w, e, s

LEMMA PubIdFinite ==
  /\ PubId \in SUBSET Nat /\ IsFiniteSet(PubId)
  /\ \A S \in SUBSET PubId : IsFiniteSet(S) /\ Cardinality(S) \in Nat
<1>1. LastId - 1 \in Int /\ PubId = 1..(LastId - 1) /\ PubId \in SUBSET Nat
  BY LastIdAssumption DEF PubId
<1>2. IsFiniteSet(PubId)
  BY <1>1, FS_Interval
<1>3. \A S \in SUBSET PubId : IsFiniteSet(S) /\ Cardinality(S) \in Nat
  BY <1>2, FS_Subset, FS_CardinalityType
<1> QED
  BY <1>1, <1>2, <1>3

\* The snapshot of one publication.
SnapshotOf(entries, id) ==
  IF entries[id] = NoPublication THEN 0 ELSE Len(entries[id].routes)

LEMMA SnapshotSplits ==
  ASSUME NEW entries \in EntriesType, NEW id \in PubId,
         entries[id] # NoPublication => Len(entries[id].routes) <= LastRoute
  PROVE  /\ SnapshotOf(entries, id) \in Nat
         /\ Cardinality(Snapshots(entries)) =
              Cardinality({e \in Snapshots(entries) : e[1] # id}) + SnapshotOf(entries, id)
<1> DEFINE n == SnapshotOf(entries, id)
           own == {id} \X (1..n)
           rest == {e \in Snapshots(entries) : e[1] # id}
<1>1. n \in Nat /\ n <= LastRoute
  <2>1. entries[id] # NoPublication => entries[id].routes \in Seq(RouteId \X Actor)
    BY DEF EntriesType, Publication
  <2> QED BY <2>1, LastRouteAssumption DEF SnapshotOf
<1>2. Snapshots(entries) = rest \cup own /\ rest \cap own = {}
  <2>1. \A k \in RouteId : entries[id] # NoPublication /\ k <= Len(entries[id].routes) <=> k \in 1..n
    BY <1>1, LastRouteAssumption DEF SnapshotOf, RouteId
  <2>2. 1..n \subseteq RouteId
    BY <1>1, LastRouteAssumption DEF RouteId
  <2> HIDE DEF n
  <2> QED BY <2>1, <2>2 DEF Snapshots
<1>3. IsFiniteSet(own) /\ Cardinality(own) = n
  <2>1. IsFiniteSet({id}) /\ Cardinality({id}) = 1
    BY FS_Singleton
  <2>2. IsFiniteSet(1..n) /\ Cardinality(1..n) = n
    BY <1>1, FS_Interval
  <2> HIDE DEF n
  <2>3. IsFiniteSet({id} \X (1..n))
    BY <2>1, <2>2, FS_Product
  <2>4. Cardinality({id} \X (1..n)) = Cardinality({id}) * Cardinality(1..n)
    BY <2>1, <2>2, FS_Product
  <2> QED BY <1>1, <2>1, <2>2, <2>3, <2>4
<1>4. IsFiniteSet(rest)
  <2>1. IsFiniteSet(RouteId)
    BY LastRouteAssumption, FS_Interval DEF RouteId
  <2>2. IsFiniteSet(PubId \X RouteId)
    BY <2>1, PubIdFinite, FS_Product
  <2>3. rest \in SUBSET (PubId \X RouteId)
    BY DEF Snapshots
  <2> QED BY <2>2, <2>3, FS_Subset
<1> HIDE DEF own, rest, n
<1>5. Cardinality(rest \cup own) = Cardinality(rest) + Cardinality(own)
  <2>1. Cardinality(rest \cap own) = 0
    BY <1>2, FS_EmptySet
  <2>2. Cardinality(rest) \in Nat /\ Cardinality(own) \in Nat
    BY <1>3, <1>4, FS_CardinalityType
  <2>3. Cardinality(rest \cup own) = Cardinality(rest) + Cardinality(own) - Cardinality(rest \cap own)
    BY <1>3, <1>4, FS_Union
  <2> QED BY <2>1, <2>2, <2>3
<1> QED
  BY <1>1, <1>2, <1>3, <1>5 DEF n, rest

\* What the change of one publication does to the charge for snapshots.
LEMMA SnapshotsChange ==
  ASSUME NEW entries \in EntriesType, NEW e \in EntriesType, NEW id \in PubId,
         \A i \in PubId \ {id} : e[i] = entries[i],
         entries[id] # NoPublication => Len(entries[id].routes) <= LastRoute,
         e[id] # NoPublication => Len(e[id].routes) <= LastRoute,
         NEW n \in Int, SnapshotsExact(entries, n)
  PROVE  SnapshotsExact(e, n - SnapshotOf(entries, id) + SnapshotOf(e, id))
<1> DEFINE rest(f) == {x \in Snapshots(f) : x[1] # id}
<1>1. rest(e) = rest(entries)
  BY DEF Snapshots
<1>2. Cardinality(Snapshots(entries)) = Cardinality(rest(entries)) + SnapshotOf(entries, id)
  BY SnapshotSplits
<1>3. Cardinality(Snapshots(e)) = Cardinality(rest(e)) + SnapshotOf(e, id)
  BY SnapshotSplits
<1>4. SnapshotOf(entries, id) \in Nat /\ SnapshotOf(e, id) \in Nat
  BY SnapshotSplits
<1>5. Cardinality(rest(entries)) \in Int
  <2>1. IsFiniteSet(RouteId)
    BY LastRouteAssumption, FS_Interval DEF RouteId
  <2>2. IsFiniteSet(PubId \X RouteId)
    BY <2>1, PubIdFinite, FS_Product
  <2>3. rest(entries) \in SUBSET (PubId \X RouteId)
    BY DEF Snapshots
  <2> QED BY <2>2, <2>3, FS_Subset, FS_CardinalityType
<1> HIDE DEF rest
<1> QED
  BY <1>1, <1>2, <1>3, <1>4, <1>5 DEF SnapshotsExact

\* A ticket comes under the budget.
LEMMA BudgetAdds ==
  ASSUME NEW charged \in SUBSET PubId, NEW tickets, NEW total, NEW spent \in [Actor -> Int],
         BudgetExact(charged, tickets, total, spent),
         NEW id \in PubId \ charged, NEW more, NEW s \in Actor, more[id].source = s,
         \A i \in charged : more[i].source = tickets[i].source,
         total < TicketLimit, spent[s] < PerSource
  PROVE  BudgetExact(charged \cup {id}, more, total + 1, [spent EXCEPT ![s] = @ + 1])
<1> DEFINE Of(a) == {i \in charged : tickets[i].source = a}
           Now(a) == {i \in charged \cup {id} : more[i].source = a}
<1>1. TicketLimit \in Nat /\ PerSource \in Nat
  BY TicketBoundsAssumption
<1>2. IsFiniteSet(charged) /\ total = Cardinality(charged) /\ total \in Nat
  BY PubIdFinite DEF BudgetExact
<1>3. Cardinality(charged \cup {id}) = total + 1
  BY <1>2, FS_AddElement
<1>4. ASSUME NEW a \in Actor
      PROVE  /\ [spent EXCEPT ![s] = @ + 1][a] = Cardinality(Now(a))
             /\ [spent EXCEPT ![s] = @ + 1][a] <= PerSource
  <2>1. IsFiniteSet(Of(a)) /\ Cardinality(Of(a)) \in Nat /\ spent[a] = Cardinality(Of(a))
    <3>1. Of(a) \in SUBSET PubId
      OBVIOUS
    <3> QED BY <3>1, PubIdFinite DEF BudgetExact
  <2>2. CASE a = s
    <3>1. Now(a) = Of(a) \cup {id} /\ id \notin Of(a)
      BY <2>2
    <3>2. Cardinality(Now(a)) = Cardinality(Of(a)) + 1
      BY <2>1, <3>1, FS_AddElement
    <3> HIDE DEF Of, Now
    <3> QED BY <1>1, <2>1, <2>2, <3>2
  <2>3. CASE a # s
    <3>1. Now(a) = Of(a)
      BY <2>3
    <3> HIDE DEF Of, Now
    <3> QED BY <2>1, <2>3, <3>1 DEF BudgetExact
  <2> QED BY <2>2, <2>3
<1> QED
  BY <1>1, <1>2, <1>3, <1>4 DEF BudgetExact

\* A ticket leaves the budget.
LEMMA BudgetDrops ==
  ASSUME NEW charged \in SUBSET PubId, NEW tickets, NEW total, NEW spent \in [Actor -> Int],
         BudgetExact(charged, tickets, total, spent),
         NEW id \in charged, NEW less, NEW s \in Actor, tickets[id].source = s,
         \A i \in charged \ {id} : less[i].source = tickets[i].source
  PROVE  BudgetExact(charged \ {id}, less, total - 1, [spent EXCEPT ![s] = @ - 1])
<1> DEFINE Of(a) == {i \in charged : tickets[i].source = a}
           Now(a) == {i \in charged \ {id} : less[i].source = a}
<1>1. TicketLimit \in Nat /\ PerSource \in Nat
  BY TicketBoundsAssumption
<1>2. IsFiniteSet(charged) /\ total = Cardinality(charged) /\ total \in Nat /\ total <= TicketLimit
  BY PubIdFinite DEF BudgetExact
<1>3. Cardinality(charged \ {id}) = total - 1
  BY <1>2, FS_RemoveElement
<1>4. ASSUME NEW a \in Actor
      PROVE  /\ [spent EXCEPT ![s] = @ - 1][a] = Cardinality(Now(a))
             /\ [spent EXCEPT ![s] = @ - 1][a] <= PerSource
  <2>1. /\ IsFiniteSet(Of(a)) /\ Cardinality(Of(a)) \in Nat /\ spent[a] = Cardinality(Of(a))
        /\ spent[a] <= PerSource
    <3>1. Of(a) \in SUBSET PubId
      OBVIOUS
    <3> QED BY <3>1, PubIdFinite DEF BudgetExact
  <2>2. CASE a = s
    <3>1. Now(a) = Of(a) \ {id} /\ id \in Of(a)
      BY <2>2
    <3> HIDE DEF Of, Now
    <3>2. Cardinality(Now(a)) = Cardinality(Of(a)) - 1
      BY <2>1, <3>1, FS_RemoveElement
    <3> QED BY <1>1, <2>1, <2>2, <3>2
  <2>3. CASE a # s
    <3>1. Now(a) = Of(a)
      BY <2>3
    <3> HIDE DEF Of, Now
    <3> QED BY <2>1, <2>3, <3>1
  <2> QED BY <2>2, <2>3
<1> QED
  BY <1>1, <1>2, <1>3, <1>4 DEF BudgetExact

\* The fields of a table.
LEMMA TableFields ==
  ASSUME NEW t \in TableType
  PROVE  /\ t.entries \in EntriesType /\ t.tickets \in [PubId -> Ticket] /\ t.held \in SUBSET PubId
         /\ t.bySource \in QueuesType /\ t.ready \in Seq(Actor) /\ t.readySet \in SUBSET Actor
         /\ t.deadlines \in SUBSET (Time \X PubId) /\ t.nextId \in 1..LastId
         /\ t.total \in Int /\ t.counts \in [Actor -> Int] /\ t.snapshotEntries \in Int
  BY DEF TableType, EntriesType, QueuesType

\* Tables that differ in the rotation only.
SameButRotation(u, t) ==
  /\ u.entries = t.entries /\ u.tickets = t.tickets /\ u.held = t.held
  /\ u.bySource = t.bySource /\ u.deadlines = t.deadlines /\ u.nextId = t.nextId
  /\ u.total = t.total /\ u.counts = t.counts /\ u.snapshotEntries = t.snapshotEntries

\* ready_source makes the rotation exact for its source.
LEMMA ReadySourceRotates ==
  ASSUME NEW t \in TableType, QueuesExact(t.entries, t.bySource), NEW s \in Actor,
         RotationExact(t.entries, t.bySource, t.ready, t.readySet, {s}),
         s \in t.readySet => Routable(t.entries, t.bySource, s)
  PROVE  LET u == ReadySource(t, s) IN
         /\ u \in TableType /\ SameButRotation(u, t)
         /\ RotationExact(u.entries, u.bySource, u.ready, u.readySet, {})
<1> DEFINE u == ReadySource(t, s)
           more == [t EXCEPT !.readySet = @ \cup {s}, !.ready = Append(@, s)]
           yes == Routable(t.entries, t.bySource, s)
<1>1. u = IF yes /\ s \notin t.readySet THEN more ELSE t
  <2>1. t.bySource[s] # <<>> => t.entries[Head(t.bySource[s])] # NoPublication
    BY HeadPending, TableFields DEF Pending
  <2> QED BY <2>1 DEF ReadySource, Routable
<1>2. ASSUME ~yes \/ s \in t.readySet
      PROVE  /\ u \in TableType /\ SameButRotation(u, t)
             /\ RotationExact(u.entries, u.bySource, u.ready, u.readySet, {})
  <2>1. u = t
    BY <1>1, <1>2
  <2>2. RotationExact(t.entries, t.bySource, t.ready, t.readySet, {})
    BY <1>2 DEF RotationExact
  <2> QED BY <2>1, <2>2 DEF SameButRotation
<1>3. ASSUME yes, s \notin t.readySet
      PROVE  /\ u \in TableType /\ SameButRotation(u, t)
             /\ RotationExact(u.entries, u.bySource, u.ready, u.readySet, {})
  <2>1. u = more
    BY <1>1, <1>3
  <2>2. /\ more \in TableType /\ SameButRotation(more, t)
        /\ more.readySet = t.readySet \cup {s} /\ more.ready = Append(t.ready, s)
    <3>1. Append(t.ready, s) \in Seq(Actor) /\ t.readySet \cup {s} \in SUBSET Actor
      BY TableFields
    <3> QED BY <3>1 DEF TableType, SameButRotation
  <2>3. /\ ToSet(Append(t.ready, s)) = t.readySet \cup {s}
        /\ \A i, j \in DOMAIN Append(t.ready, s) : i < j => Append(t.ready, s)[i] # Append(t.ready, s)[j]
    <3>1. t.ready \in Seq(Actor) /\ DOMAIN t.ready = 1..Len(t.ready)
      BY TableFields
    <3>2. \A i \in DOMAIN t.ready : t.ready[i] \in Actor /\ t.ready[i] # s
      <4>1. \A i \in DOMAIN t.ready : t.ready[i] \in Actor /\ t.ready[i] \in t.readySet
        BY <3>1 DEF RotationExact, ToSet
      <4> QED BY <1>3, <4>1
    <3>3. \A i, j \in DOMAIN t.ready : i < j => <<t.ready[i], t.ready[j]>> \in Differs
      BY <3>2, DiffersDef DEF RotationExact
    <3>4. \A i \in DOMAIN t.ready : <<t.ready[i], s>> \in Differs
      BY <3>2, DiffersDef
    <3> DEFINE w == Append(t.ready, s)
    <3>7. LET x == Append(t.ready, s) IN
          /\ x \in Seq(Actor) /\ ToSet(x) = ToSet(t.ready) \cup {s}
          /\ \A i, j \in DOMAIN x : i < j => <<x[i], x[j]>> \in Differs
      BY <3>1, <3>3, <3>4, AppendKeeps, Zenon
    <3>5. /\ ToSet(w) = ToSet(t.ready) \cup {s}
          /\ \A i, j \in DOMAIN w : i < j => <<w[i], w[j]>> \in Differs
      BY <3>7
    <3> HIDE DEF w
    <3>6. \A i, j \in DOMAIN w : i < j => w[i] # w[j]
      BY <3>5 DEF Differs
    <3> QED BY <3>5, <3>6 DEF RotationExact, w
  <2>4. RotationExact(t.entries, t.bySource, Append(t.ready, s), t.readySet \cup {s}, {})
    BY <1>3, <2>3 DEF RotationExact
  <2>5. more.entries = t.entries /\ more.bySource = t.bySource
    BY <2>2 DEF SameButRotation
  <2> HIDE DEF more, u
  <2> QED BY <2>1, <2>2, <2>4, <2>5
<1> HIDE DEF u
<1> QED
  BY <1>2, <1>3 DEF u

\* What an operation leaves alone: no publication but those of gone goes and
\* none comes, and the tickets in use keep what they have counted.
Leaves(u, t, gone) ==
  /\ \A id \in PubId : u.entries[id] = IF id \in gone THEN NoPublication ELSE t.entries[id]
  /\ u.nextId = t.nextId /\ u.held = t.held
  /\ \A id \in Pending(u.entries) \cup u.held : u.tickets[id].admitted = t.tickets[id].admitted

\* finish_publication_locked, for a publication whose source may have lost its
\* turn.
LEMMA FinishKeeps ==
  ASSUME NEW t, NEW id \in PubId, t.entries[id] # NoPublication,
         NEW s, s = t.entries[id].source, TableOk(t, {s}),
         NEW outcome \in Outcomes
  PROVE  LET u == Finish(t, id, t.entries[id], outcome) IN
         TableOk(u, {}) /\ Leaves(u, t, {id}) /\ u.snapshotEntries <= t.snapshotEntries
<1> DEFINE p == t.entries[id]
           e == [t.entries EXCEPT ![id] = NoPublication]
           q == [t.bySource EXCEPT ![s] = Without(t.bySource[s], id)]
           v == [t EXCEPT !.entries = e, !.deadlines = @ \ {<<p.deadline, id>>},
                          !.snapshotEntries = @ - Len(p.routes), !.bySource = q,
                          !.readySet = @ \ {s}, !.ready = Without(t.ready, s)]
           r == ReadySource(v, s)
           ticket == [source |-> s, status |-> outcome, matched |-> p.matched,
                      admitted |-> p.admitted, rejected |-> p.rejected + Unattempted(p)]
           tickets == [t.tickets EXCEPT ![id] = ticket]
           done == [r EXCEPT !.tickets = tickets]
           u == Finish(t, id, p, outcome)
<1> USE TableFields
<1>1. t \in TableType /\ p \in Publication /\ s \in Actor /\ PublicationOk(p) /\ id \in Pending(t.entries)
  BY DEF TableOk, EntriesType, EntriesOk, Pending, Publication
<1>2. /\ p.routes \in Seq(RouteId \X Actor) /\ Len(p.routes) \in Nat
      /\ p.cursor \in Nat /\ p.matched \in Nat /\ p.admitted \in Nat /\ p.rejected \in Nat
      /\ Unattempted(p) \in Nat /\ p.matched = p.admitted + (p.rejected + Unattempted(p))
  <2>1. /\ p.routes \in Seq(RouteId \X Actor)
        /\ p.cursor \in Nat /\ p.matched \in Nat /\ p.admitted \in Nat /\ p.rejected \in Nat
    BY <1>1 DEF Publication
  <2>2. Len(p.routes) \in Nat
    BY <2>1
  <2>3. p.matched = Len(p.routes) /\ p.cursor = p.admitted + p.rejected /\ p.cursor <= p.matched
    BY <1>1 DEF PublicationOk
  <2> HIDE DEF p
  <2> QED BY <2>1, <2>2, <2>3 DEF Unattempted
<1>3. /\ e \in EntriesType /\ Pending(e) = Pending(t.entries) \ {id}
      /\ \A i \in Pending(e) : e[i] = t.entries[i]
  BY <1>1 DEF EntriesType, Pending
<1>4. q \in QueuesType /\ QueuesExact(e, q)
  BY <1>1, QueuesRemove DEF TableOk
<1>5. /\ Without(t.ready, s) \in Seq(Actor)
      /\ RotationExact(e, q, Without(t.ready, s), t.readySet \ {s}, {s})
  BY <1>1, RotationRemove DEF TableOk
<1> HIDE DEF q, e
<1>6. /\ v \in TableType /\ v.entries = e /\ v.tickets = t.tickets /\ v.held = t.held
      /\ v.bySource = q /\ v.ready = Without(t.ready, s) /\ v.readySet = t.readySet \ {s}
      /\ v.deadlines = t.deadlines \ {<<p.deadline, id>>} /\ v.nextId = t.nextId
      /\ v.total = t.total /\ v.counts = t.counts
      /\ v.snapshotEntries = t.snapshotEntries - Len(p.routes)
  <2>1. /\ t.deadlines \ {<<p.deadline, id>>} \in SUBSET (Time \X PubId)
        /\ t.readySet \ {s} \in SUBSET Actor /\ t.snapshotEntries - Len(p.routes) \in Int
    BY <1>1, <1>2
  <2> QED
    BY <1>1, <1>3, <1>4, <1>5, <2>1 DEF TableType, EntriesType, QueuesType
<1>7. u = IF id \in t.held THEN done ELSE ReleasePermit(done, id)
  <2>1. RemoveIndexes([t EXCEPT !.entries = e], id, p) = r
    BY <1>1 DEF RemoveIndexes, TableType, e, q
  <2>2. r.tickets = t.tickets /\ r.held = t.held
    <3>1. r \in {v, [v EXCEPT !.readySet = @ \cup {s}, !.ready = Append(@, s)]}
      BY DEF ReadySource
    <3> HIDE DEF v
    <3>2. [v EXCEPT !.readySet = @ \cup {s}, !.ready = Append(@, s)].tickets = v.tickets
      BY <1>6 DEF TableType
    <3>3. [v EXCEPT !.readySet = @ \cup {s}, !.ready = Append(@, s)].held = v.held
      BY <1>6 DEF TableType
    <3> QED BY <1>6, <3>1, <3>2, <3>3
  <2> HIDE DEF r, v
  <2> QED BY <1>1, <2>1, <2>2 DEF Finish, e
<1>8. /\ r \in TableType /\ SameButRotation(r, v)
      /\ RotationExact(r.entries, r.bySource, r.ready, r.readySet, {})
  <2>1. s \notin v.readySet
    BY <1>6
  <2> HIDE DEF v
  <2> QED BY <1>1, <1>4, <1>5, <1>6, <2>1, ReadySourceRotates
<1> HIDE DEF v, r, u
<1>9. ticket \in Ticket /\ tickets \in [PubId -> Ticket]
  BY <1>1, <1>2 DEF Ticket
<1>10. /\ done \in TableType /\ done.entries = e /\ done.tickets = tickets /\ done.held = t.held
       /\ done.bySource = q /\ done.ready = r.ready /\ done.readySet = r.readySet
       /\ done.deadlines = t.deadlines \ {<<p.deadline, id>>} /\ done.nextId = t.nextId
       /\ done.total = t.total /\ done.counts = t.counts
       /\ done.snapshotEntries = t.snapshotEntries - Len(p.routes)
  BY <1>6, <1>8, <1>9 DEF SameButRotation, TableType
<1>11. RotationExact(e, q, r.ready, r.readySet, {})
  BY <1>6, <1>8 DEF SameButRotation
<1>12. EntriesOk(e)
  BY <1>1, <1>3 DEF TableOk, EntriesOk
<1>13. DeadlinesExact(e, t.deadlines \ {<<p.deadline, id>>})
  BY <1>1 DEF TableOk, DeadlinesExact, e, EntriesType
<1>14. SnapshotsExact(e, t.snapshotEntries - Len(p.routes))
  <2>1. SnapshotOf(t.entries, id) = Len(p.routes) /\ SnapshotOf(e, id) = 0
    BY <1>1 DEF SnapshotOf, e, EntriesType
  <2>2. \A i \in PubId \ {id} : e[i] = t.entries[i]
    BY <1>1 DEF e, EntriesType
  <2>3. e[id] = NoPublication /\ Len(p.routes) <= LastRoute
    BY <1>1 DEF e, EntriesType, PublicationOk
  <2>4. SnapshotsExact(e, t.snapshotEntries - SnapshotOf(t.entries, id) + SnapshotOf(e, id))
    BY <1>1, <1>3, <2>2, <2>3, SnapshotsChange DEF TableOk
  <2> QED BY <1>1, <1>2, <2>1, <2>4
<1>15. /\ tickets[id] = ticket /\ ticket.source = s /\ ticket.admitted = p.admitted
       /\ ticket.matched = ticket.admitted + ticket.rejected
       /\ \A i \in PubId \ {id} : tickets[i] = t.tickets[i]
  BY <1>1, <1>2
<1>16. TicketsExact(t.entries, t.tickets, t.held, t.nextId)
  BY DEF TableOk
<1>17. BudgetExact(Pending(t.entries) \cup t.held, t.tickets, t.total, t.counts)
  BY DEF TableOk
<1>18. t.tickets[id].source = s /\ t.tickets[id].admitted = p.admitted
  BY <1>1, <1>16 DEF TicketsExact
<1> HIDE DEF ticket, tickets, done
<1>19. t.snapshotEntries - Len(p.routes) <= t.snapshotEntries
  BY <1>1, <1>2
<1>20. ASSUME id \in t.held
       PROVE  TableOk(u, {}) /\ Leaves(u, t, {id}) /\ u.snapshotEntries <= t.snapshotEntries
  <2>1. u = done
    BY <1>7, <1>20
  <2>2. TicketsExact(e, tickets, t.held, t.nextId)
    <3>1. \A i \in Pending(e) \cup t.held : i < t.nextId /\ tickets[i].source \in Actor
      <4>1. \A i \in PubId : tickets[i].source = t.tickets[i].source
        BY <1>15, <1>18
      <4>2. \A i \in Pending(e) \cup t.held : i \in Pending(t.entries) \cup t.held /\ i \in PubId
        BY <1>1, <1>3 DEF Pending
      <4> QED BY <1>16, <4>1, <4>2 DEF TicketsExact
    <3>2. \A i \in Pending(e) : /\ tickets[i].source = e[i].source
                                /\ tickets[i].admitted = e[i].admitted
                                /\ tickets[i].status \notin Outcomes
      BY <1>3, <1>15, <1>16 DEF TicketsExact, Pending
    <3>3. \A i \in t.held \ Pending(e) : tickets[i].status \in Outcomes =>
                                           tickets[i].matched = tickets[i].admitted + tickets[i].rejected
      <4>1. \A i \in t.held \ Pending(e) : i = id \/ i \in t.held \ Pending(t.entries)
        BY <1>3
      <4>2. \A i \in t.held \ Pending(t.entries) : i # id /\ i \in PubId
        BY <1>1
      <4> QED BY <1>15, <1>16, <4>1, <4>2 DEF TicketsExact
    <3> QED BY <3>1, <3>2, <3>3 DEF TicketsExact
  <2>3. BudgetExact(Pending(e) \cup t.held, tickets, t.total, t.counts)
    <3>1. Pending(e) \cup t.held = Pending(t.entries) \cup t.held
      BY <1>1, <1>3, <1>20
    <3>2. \A i \in PubId : tickets[i].source = t.tickets[i].source
      BY <1>15, <1>18
    <3>3. \A a \in Actor : {i \in Pending(e) \cup t.held : tickets[i].source = a} =
                           {i \in Pending(t.entries) \cup t.held : t.tickets[i].source = a}
      BY <1>1, <3>1, <3>2 DEF Pending
    <3> QED BY <1>17, <3>1, <3>3 DEF BudgetExact
  <2>4. TableOk(u, {})
    BY <2>1, <1>4, <1>10, <1>11, <1>12, <1>13, <1>14, <2>2, <2>3 DEF TableOk
  <2>5. Leaves(u, t, {id})
    <3>1. \A i \in PubId : e[i] = IF i \in {id} THEN NoPublication ELSE t.entries[i]
      BY <1>1 DEF e, EntriesType
    <3>2. \A i \in PubId : tickets[i].admitted = t.tickets[i].admitted
      BY <1>15, <1>18
    <3> QED BY <2>1, <1>1, <1>10, <3>1, <3>2 DEF Leaves, Pending
  <2> QED BY <2>1, <2>4, <2>5, <1>10, <1>19
<1>21. ASSUME id \notin t.held
       PROVE  TableOk(u, {}) /\ Leaves(u, t, {id}) /\ u.snapshotEntries <= t.snapshotEntries
  <2> DEFINE less == [tickets EXCEPT ![id] = NoTicket]
             spent == [t.counts EXCEPT ![s] = @ - 1]
  <2>1. u = [done EXCEPT !.total = @ - 1, !.counts = spent, !.tickets = less]
    <3>1. done.tickets[id].source = s
      BY <1>10, <1>15
    <3> QED BY <1>7, <1>10, <1>21, <3>1 DEF ReleasePermit
  <2>2. NoTicket \in Ticket
    BY DEF NoTicket, Ticket
  <2>3. less \in [PubId -> Ticket] /\ spent \in [Actor -> Int] /\ t.total - 1 \in Int
    BY <1>1, <1>9, <2>2
  <2>4. \A i \in PubId \ {id} : less[i] = t.tickets[i]
    BY <1>9, <1>15
  <2> HIDE DEF less, spent
  <2>5. /\ u \in TableType /\ u.entries = e /\ u.tickets = less /\ u.held = t.held
        /\ u.bySource = q /\ u.ready = r.ready /\ u.readySet = r.readySet
        /\ u.deadlines = t.deadlines \ {<<p.deadline, id>>} /\ u.nextId = t.nextId
        /\ u.total = t.total - 1 /\ u.counts = spent
        /\ u.snapshotEntries = t.snapshotEntries - Len(p.routes)
    BY <1>10, <2>1, <2>3 DEF TableType
  <2>6. id \notin Pending(e) \cup t.held /\ Pending(e) \cup t.held = (Pending(t.entries) \cup t.held) \ {id}
    BY <1>3, <1>21
  <2>7. TicketsExact(e, less, t.held, t.nextId)
    <3>1. \A i \in Pending(e) \cup t.held : i \in PubId \ {id}
      BY <1>1, <2>6 DEF Pending
    <3>2. \A i \in Pending(e) \cup t.held : i < t.nextId /\ less[i].source \in Actor
      BY <1>3, <1>16, <2>4, <3>1 DEF TicketsExact
    <3>3. \A i \in Pending(e) : /\ less[i].source = e[i].source
                                /\ less[i].admitted = e[i].admitted
                                /\ less[i].status \notin Outcomes
      BY <1>3, <1>16, <2>4, <3>1 DEF TicketsExact
    <3>4. \A i \in t.held \ Pending(e) : less[i].status \in Outcomes =>
                                           less[i].matched = less[i].admitted + less[i].rejected
      BY <1>3, <1>16, <2>4, <3>1 DEF TicketsExact
    <3> QED BY <3>2, <3>3, <3>4 DEF TicketsExact
  <2>8. BudgetExact(Pending(e) \cup t.held, less, t.total - 1, spent)
    <3>1. Pending(t.entries) \cup t.held \in SUBSET PubId /\ id \in Pending(t.entries) \cup t.held
      BY <1>1 DEF Pending
    <3>2. \A i \in (Pending(t.entries) \cup t.held) \ {id} : less[i].source = t.tickets[i].source
      BY <2>4, <3>1
    <3>3. BudgetExact((Pending(t.entries) \cup t.held) \ {id}, less, t.total - 1, spent)
      BY <1>1, <1>17, <1>18, <3>1, <3>2, BudgetDrops DEF spent
    <3> QED BY <2>6, <3>3
  <2>9. TableOk(u, {})
    BY <1>4, <1>11, <1>12, <1>13, <1>14, <2>5, <2>7, <2>8 DEF TableOk
  <2>10. Leaves(u, t, {id})
    <3>1. \A i \in PubId : e[i] = IF i \in {id} THEN NoPublication ELSE t.entries[i]
      BY <1>1 DEF e, EntriesType
    <3>2. \A i \in Pending(e) \cup t.held : less[i].admitted = t.tickets[i].admitted
      BY <1>1, <2>4, <2>6 DEF Pending
    <3> QED BY <2>5, <3>1, <3>2 DEF Leaves
  <2> QED BY <2>5, <2>9, <2>10, <1>19
<1> QED
  BY <1>20, <1>21 DEF u

LEMMA RotationWeakens ==
  ASSUME NEW t, TableOk(t, {}), NEW off
  PROVE  TableOk(t, off)
  BY DEF TableOk, RotationExact

LEMMA LeavesComposes ==
  ASSUME NEW t, NEW u, NEW v, NEW A, NEW B, Leaves(u, t, A), Leaves(v, u, B)
  PROVE  Leaves(v, t, A \cup B)
<1>1. \A id \in PubId : v.entries[id] = IF id \in A \cup B THEN NoPublication ELSE t.entries[id]
  BY DEF Leaves
<1>2. Pending(v.entries) \subseteq Pending(u.entries) /\ v.held = u.held
  BY DEF Leaves, Pending
<1> QED
  BY <1>1, <1>2 DEF Leaves

\* cancel_publication_locked keeps the indexes, whatever is pending.
LEMMA CancelOneKeeps ==
  ASSUME NEW t, TableOk(t, {}), NEW id \in PubId, NEW outcome \in Outcomes
  PROVE  LET u == CancelOne(t, id, outcome) IN
         TableOk(u, {}) /\ Leaves(u, t, {id}) /\ u.snapshotEntries <= t.snapshotEntries
<1>1. CASE t.entries[id] = NoPublication
  <2>1. CancelOne(t, id, outcome) = t
    BY <1>1 DEF CancelOne
  <2>2. Leaves(t, t, {id})
    BY <1>1 DEF Leaves
  <2>3. t.snapshotEntries <= t.snapshotEntries
    BY TableFields DEF TableOk
  <2> QED BY <2>1, <2>2, <2>3
<1>2. CASE t.entries[id] # NoPublication
  <2>1. CancelOne(t, id, outcome) = Finish(t, id, t.entries[id], outcome)
    BY <1>2 DEF CancelOne
  <2>2. TableOk(t, {t.entries[id].source})
    BY RotationWeakens
  <2> QED BY <1>2, <2>1, <2>2, FinishKeeps
<1> QED
  BY <1>1, <1>2

\* The same for a sequence of them.
LEMMA CancelKeeps ==
  ASSUME NEW t, TableOk(t, {}), NEW ids \in Seq(PubId), NEW outcome \in Outcomes
  PROVE  LET u == Cancel(t, ids, outcome) IN
         TableOk(u, {}) /\ Leaves(u, t, ToSet(ids)) /\ u.snapshotEntries <= t.snapshotEntries
<1> DEFINE n == Len(ids)
           I == {u \in TableType : TableOk(u, {})}
           Before(k) == {ids[i] : i \in 1..k}
<1>1. n \in Nat /\ DOMAIN ids = 1..n /\ (\A i \in 1..n : ids[i] \in PubId) /\ ToSet(ids) = Before(n)
  BY DEF ToSet
<1>2. \A u \in I, i \in 1..n : CancelOne(u, ids[i], outcome) \in I
  BY <1>1, CancelOneKeeps DEF TableOk
<1>3. t \in I
  BY DEF TableOk
<1> HIDE DEF I
<1>4. CancelRun(I, t, ids, outcome)
  BY <1>2, <1>3, CancelRuns
<1>5. PICK run \in [0..n -> I] :
        /\ run[0] = t /\ run[n] = Cancel(t, ids, outcome)
        /\ \A i \in 1..n : run[i] = CancelOne(run[i - 1], ids[i], outcome)
  BY <1>4 DEF CancelRun
<1> DEFINE S == {k \in 0..n : Leaves(run[k], t, Before(k)) /\ run[k].snapshotEntries <= t.snapshotEntries}
<1>6. 0 \in S
  <2>1. Before(0) = {} /\ 0 \in 0..n
    BY <1>1
  <2>2. t.snapshotEntries <= t.snapshotEntries
    BY TableFields DEF TableOk
  <2>3. Leaves(t, t, {})
    BY DEF Leaves
  <2> QED BY <1>5, <2>1, <2>2, <2>3
<1>7. ASSUME NEW k \in 1..n, k - 1 \in S PROVE k \in S
  <2>1. k - 1 \in 0..n /\ run[k - 1] \in I /\ run[k] \in I
    BY <1>1, <1>5
  <2>2. /\ Leaves(run[k], run[k - 1], {ids[k]})
        /\ run[k].snapshotEntries <= run[k - 1].snapshotEntries
    BY <1>1, <1>5, <2>1, CancelOneKeeps DEF I
  <2>3. Before(k) = Before(k - 1) \cup {ids[k]}
    <3>1. 1..k = 1..(k - 1) \cup {k}
      OBVIOUS
    <3> QED BY <3>1
  <2>4. Leaves(run[k - 1], t, Before(k - 1)) /\ run[k - 1].snapshotEntries <= t.snapshotEntries
    BY <1>7
  <2> HIDE DEF Before
  <2>5. Leaves(run[k], t, Before(k))
    BY <2>2, <2>3, <2>4, LeavesComposes
  <2>6. run[k].snapshotEntries \in Int /\ run[k - 1].snapshotEntries \in Int /\ t.snapshotEntries \in Int
    BY <1>3, <2>1, TableFields DEF I
  <2>7. run[k].snapshotEntries <= t.snapshotEntries
    BY <2>2, <2>4, <2>6
  <2> QED BY <2>5, <2>7
<1> HIDE DEF S
<1>8. n \in S
  <2>1. \A k \in 0..n : k \in S
    BY <1>1, <1>6, <1>7, InductionUpTo
  <2> QED BY <1>1, <2>1
<1>9. run[n] \in I
  BY <1>1, <1>5
<1> QED
  BY <1>1, <1>5, <1>8, <1>9 DEF S, I

\* cancel_source_publications_locked takes all that a source has pending.
LEMMA CancelSourceKeeps ==
  ASSUME NEW t, TableOk(t, {}), NEW s \in Actor
  PROVE  LET u == CancelSource(t, s) IN
         /\ TableOk(u, {}) /\ Leaves(u, t, {id \in Pending(t.entries) : t.entries[id].source = s})
         /\ u.snapshotEntries <= t.snapshotEntries
<1>1. t.bySource[s] \in Seq(PubId)
  BY TableFields DEF TableOk, QueuesType
<1>2. ToSet(t.bySource[s]) = {id \in Pending(t.entries) : t.entries[id].source = s}
  BY DEF TableOk, QueuesExact
<1>3. "Cancelled" \in Outcomes
  BY DEF Outcomes
<1> QED
  BY <1>1, <1>2, <1>3, CancelKeeps DEF CancelSource

\* A fence takes all that the actors of a scope have pending.
LEMMA FenceKeeps ==
  ASSUME NEW t, TableOk(t, {}), NEW s \in Seq(Actor)
  PROVE  LET u == FoldLeft(CancelSource, t, s) IN
         /\ TableOk(u, {})
         /\ Leaves(u, t, {id \in Pending(t.entries) : t.entries[id].source \in ToSet(s)})
         /\ u.snapshotEntries <= t.snapshotEntries
<1> DEFINE n == Len(s)
           I == {u \in TableType : TableOk(u, {})}
           From(u, A) == {id \in Pending(u.entries) : u.entries[id].source \in A}
           Before(k) == {s[i] : i \in 1..k}
<1>1. n \in Nat /\ DOMAIN s = 1..n /\ (\A i \in 1..n : s[i] \in Actor) /\ ToSet(s) = Before(n)
  BY DEF ToSet
<1>2. \A u \in I, i \in 1..n : CancelSource(u, s[i]) \in I
  BY <1>1, CancelSourceKeeps DEF TableOk
<1>3. t \in I
  BY DEF TableOk
<1> HIDE DEF I
<1>4. CancelSourceRun(I, t, s)
  BY <1>2, <1>3, CancelSourceRuns
<1>5. PICK run \in [0..n -> I] :
        /\ run[0] = t /\ run[n] = FoldLeft(CancelSource, t, s)
        /\ \A i \in 1..n : run[i] = CancelSource(run[i - 1], s[i])
  BY <1>4 DEF CancelSourceRun
<1> DEFINE S == {k \in 0..n : /\ Leaves(run[k], t, From(t, Before(k)))
                              /\ run[k].snapshotEntries <= t.snapshotEntries}
<1>6. 0 \in S
  <2>1. Before(0) = {} /\ 0 \in 0..n
    BY <1>1
  <2>2. t.snapshotEntries <= t.snapshotEntries
    BY TableFields DEF TableOk
  <2>3. Leaves(t, t, {}) /\ From(t, {}) = {}
    BY DEF Leaves
  <2> QED BY <1>5, <2>1, <2>2, <2>3
<1>7. ASSUME NEW k \in 1..n, k - 1 \in S PROVE k \in S
  <2> DEFINE v == run[k - 1]
  <2>1. k - 1 \in 0..n /\ v \in I /\ run[k] \in I
    BY <1>1, <1>5
  <2>2. /\ Leaves(run[k], v, {id \in Pending(v.entries) : v.entries[id].source = s[k]})
        /\ run[k].snapshotEntries <= v.snapshotEntries
    BY <1>1, <1>5, <2>1, CancelSourceKeeps DEF I
  <2>3. Before(k) = Before(k - 1) \cup {s[k]}
    <3>1. 1..k = 1..(k - 1) \cup {k}
      OBVIOUS
    <3> QED BY <3>1
  <2>4. Leaves(v, t, From(t, Before(k - 1))) /\ v.snapshotEntries <= t.snapshotEntries
    BY <1>7
  <2> HIDE DEF Before, v
  <2>5. Leaves(run[k], t, From(t, Before(k - 1)) \cup {id \in Pending(v.entries) : v.entries[id].source = s[k]})
    <3> HIDE DEF From
    <3> QED BY <2>2, <2>4, LeavesComposes
  <2>6. From(t, Before(k - 1)) \cup {id \in Pending(v.entries) : v.entries[id].source = s[k]}
          = From(t, Before(k))
    BY <2>3, <2>4 DEF Leaves, Pending
  <2>7. run[k].snapshotEntries \in Int /\ v.snapshotEntries \in Int /\ t.snapshotEntries \in Int
    BY <1>3, <2>1, TableFields DEF I
  <2>8. run[k].snapshotEntries <= t.snapshotEntries
    BY <2>2, <2>4, <2>7
  <2>9. Leaves(run[k], t, From(t, Before(k)))
    <3> DEFINE A == From(t, Before(k - 1)) \cup {id \in Pending(v.entries) : v.entries[id].source = s[k]}
               B == From(t, Before(k))
    <3>1. Leaves(run[k], t, A) /\ A = B
      BY <2>5, <2>6
    <3> HIDE DEF A, B
    <3>2. Leaves(run[k], t, B)
      BY <3>1
    <3> QED BY <3>2 DEF B
  <2> QED BY <2>8, <2>9
<1> HIDE DEF S
<1>8. n \in S
  <2>1. \A k \in 0..n : k \in S
    BY <1>1, <1>6, <1>7, InductionUpTo
  <2> QED BY <1>1, <2>1
<1>9. run[n] \in I
  BY <1>1, <1>5
<1> QED
  BY <1>1, <1>5, <1>8, <1>9 DEF S, I

\* expire_publications_locked takes what is overdue.
LEMMA ExpireKeeps ==
  ASSUME NEW t, TableOk(t, {}), NEW time \in Time
  PROVE  LET u == ExpirePublications(t, time) IN
         /\ TableOk(u, {})
         /\ Leaves(u, t, {id \in Pending(t.entries) : t.entries[id].deadline <= time})
         /\ u.snapshotEntries <= t.snapshotEntries
<1> DEFINE Before(d, e) == d[1] < e[1] \/ (d[1] = e[1] /\ d[2] < e[2])
           S == {d \in t.deadlines : d[1] <= time}
           late == Sorted(S, Before)
           ids == [i \in DOMAIN late |-> late[i][2]]
<1>1. t.deadlines \in SUBSET (Time \X PubId)
  BY TableFields DEF TableOk
<1>2. S \in SUBSET (Int \X Int) /\ IsFiniteSet(S) /\ S \in SUBSET (Time \X PubId)
  <2>1. Time \in SUBSET Int /\ IsFiniteSet(Time)
    BY PublicationTimeAssumption, FS_Interval DEF Time
  <2>2. IsFiniteSet(Time \X PubId)
    BY <2>1, PubIdFinite, FS_Product
  <2>3. PubId \in SUBSET Int
    BY PubIdFinite
  <2> QED BY <1>1, <2>1, <2>2, <2>3, FS_Subset
<1>3. late \in Seq(S) /\ ToSet(late) = S
  <2> HIDE DEF S
  <2> QED BY <1>2, SortedDeadlines
<1> HIDE DEF late
<1>4. /\ Len(late) \in Nat /\ DOMAIN late = 1..Len(late)
      /\ \A i \in DOMAIN late : late[i] \in S /\ late[i][2] \in PubId
  BY <1>2, <1>3
<1>5. ids \in Seq(PubId) /\ DOMAIN ids = DOMAIN late
  BY <1>4, IsASeq
<1>6. ToSet(ids) = {id \in Pending(t.entries) : t.entries[id].deadline <= time}
  <2>1. ToSet(ids) = {d[2] : d \in S}
    BY <1>3, <1>5 DEF ToSet
  <2>2. \A d \in S : d[2] \in Pending(t.entries) /\ t.entries[d[2]].deadline <= time
    BY <1>1 DEF TableOk, DeadlinesExact, Pending
  <2>3. ASSUME NEW id \in Pending(t.entries), t.entries[id].deadline <= time
        PROVE  \E d \in S : d[2] = id
    <3>1. id \in PubId /\ t.entries[id] # NoPublication
      BY DEF Pending
    <3>2. t.entries[id].deadline \in Time
      <4>1. t.entries[id].deadline \in 1..NoDeadline
        BY <3>1, TableFields DEF TableOk, EntriesType, Publication
      <4> QED BY <2>3, <4>1, PublicationTimeAssumption DEF Time, NoDeadline
    <3>3. <<t.entries[id].deadline, id>> \in t.deadlines
      BY <3>1, <3>2 DEF TableOk, DeadlinesExact
    <3> QED BY <2>3, <3>3
  <2> QED BY <2>1, <2>2, <2>3
<1>7. ExpirePublications(t, time) = Cancel(t, ids, "Expired")
  BY DEF ExpirePublications, late
<1>8. "Expired" \in Outcomes
  BY DEF Outcomes
<1> HIDE DEF ids
<1> QED
  BY <1>5, <1>6, <1>7, <1>8, CancelKeeps

\* The table with another entry and ticket under a pending identity, and the
\* charge that goes with the entry.
Replaced(t, id, p, ticket) ==
  [t EXCEPT !.entries = [t.entries EXCEPT ![id] = p],
            !.tickets = [t.tickets EXCEPT ![id] = ticket],
            !.snapshotEntries = @ + Len(p.routes) - Len(t.entries[id].routes)]

MayReplace(t, id, s, p, ticket) ==
  /\ t.entries[id] # NoPublication /\ s = t.entries[id].source /\ TableOk(t, {s})
  /\ p \in Publication /\ PublicationOk(p)
  /\ p.source = s /\ p.deadline = t.entries[id].deadline
  /\ ticket \in Ticket /\ ticket.source = s /\ ticket.admitted = p.admitted
  /\ ticket.status \notin Outcomes

Replaces(v, t, id, s, p, ticket) ==
  /\ TableOk(v, {s})
  /\ v.entries = [t.entries EXCEPT ![id] = p] /\ v.tickets = [t.tickets EXCEPT ![id] = ticket]
  /\ v.bySource = t.bySource /\ v.readySet = t.readySet
  /\ v.nextId = t.nextId /\ v.held = t.held
  /\ v.snapshotEntries = t.snapshotEntries + Len(p.routes) - Len(t.entries[id].routes)

\* The entry and the ticket of a pending publication change; its source and its
\* deadline do not, and its source may have lost its turn.
LEMMA ReplaceKeeps ==
  ASSUME NEW t, NEW id \in PubId, NEW s, NEW p, NEW ticket, MayReplace(t, id, s, p, ticket)
  PROVE  Replaces(Replaced(t, id, p, ticket), t, id, s, p, ticket)
<1> USE DEF MayReplace
<1> DEFINE v == Replaced(t, id, p, ticket)
<1> USE TableFields
<1> DEFINE old == t.entries[id]
           e == [t.entries EXCEPT ![id] = p]
           tickets == [t.tickets EXCEPT ![id] = ticket]
           before == t.snapshotEntries
           more == Len(p.routes)
           less == Len(old.routes)
           n == before + more - less
<1>1. /\ t \in TableType /\ old \in Publication /\ s \in Actor /\ PublicationOk(old)
      /\ id \in Pending(t.entries)
  BY DEF TableOk, EntriesType, EntriesOk, Pending, Publication
<1>2. before \in Int /\ more \in Nat /\ less \in Nat /\ n \in Int
  <2>1. p.routes \in Seq(RouteId \X Actor) /\ old.routes \in Seq(RouteId \X Actor)
    BY <1>1 DEF Publication
  <2>2. more \in Nat /\ less \in Nat
    BY <2>1
  <2>3. before \in Int
    BY <1>1 DEF TableType
  <2> HIDE DEF before, more, less
  <2> QED BY <2>2, <2>3
<1>3. p # NoPublication
  BY NoPublicationAssumption
<1>4. /\ e \in EntriesType /\ Pending(e) = Pending(t.entries) /\ e[id] = p
      /\ \A i \in PubId \ {id} : e[i] = t.entries[i]
  BY <1>1, <1>3 DEF EntriesType, Pending
<1>5. /\ tickets \in [PubId -> Ticket] /\ tickets[id] = ticket
      /\ \A i \in PubId \ {id} : tickets[i] = t.tickets[i]
  BY <1>1
<1> HIDE DEF e, tickets, n, v
<1>6. /\ v \in TableType /\ v.entries = e /\ v.tickets = tickets /\ v.held = t.held
      /\ v.bySource = t.bySource /\ v.ready = t.ready /\ v.readySet = t.readySet
      /\ v.deadlines = t.deadlines /\ v.nextId = t.nextId
      /\ v.total = t.total /\ v.counts = t.counts /\ v.snapshotEntries = n
  <2>1. v = [t EXCEPT !.entries = e, !.tickets = tickets, !.snapshotEntries = n]
    BY <1>1 DEF v, e, tickets, n, TableType, Replaced
  <2> QED BY <1>1, <1>2, <1>4, <1>5, <2>1 DEF TableType, EntriesType
<1>7. EntriesOk(e)
  BY <1>4 DEF TableOk, EntriesOk, Pending
<1>8. \A i \in Pending(e) : e[i].source = t.entries[i].source /\ e[i].deadline = t.entries[i].deadline
  BY <1>4 DEF Pending
<1>9. QueuesExact(e, t.bySource)
  <2>1. ASSUME NEW a \in Actor
        PROVE  {i \in Pending(e) : e[i].source = a} = {i \in Pending(t.entries) : t.entries[i].source = a}
    BY <1>4, <1>8
  <2> QED BY <2>1 DEF TableOk, QueuesExact
<1>10. RotationExact(e, t.bySource, t.ready, t.readySet, {s})
  <2>1. ASSUME NEW b \in Actor \ {s}
        PROVE  Routable(e, t.bySource, b) <=> Routable(t.entries, t.bySource, b)
    <3>1. t.bySource[b] # <<>> => Head(t.bySource[b]) \in PubId /\ Head(t.bySource[b]) # id
      BY <1>1, HeadPending DEF Pending, TableOk
    <3> QED BY <1>4, <3>1 DEF Routable
  <2> QED BY <2>1 DEF TableOk, RotationExact
<1>11. DeadlinesExact(e, t.deadlines)
  <2>1. ASSUME NEW x \in Time \X PubId
        PROVE  (e[x[2]] # NoPublication /\ e[x[2]].deadline = x[1])
                 <=> (t.entries[x[2]] # NoPublication /\ t.entries[x[2]].deadline = x[1])
    <3>1. x[2] \in PubId
      OBVIOUS
    <3> QED BY <1>4, <1>8, <3>1 DEF Pending
  <2> QED BY <2>1 DEF TableOk, DeadlinesExact
<1>12. SnapshotsExact(e, n)
  <2>1. SnapshotOf(t.entries, id) = Len(old.routes) /\ SnapshotOf(e, id) = Len(p.routes)
    BY <1>3, <1>4 DEF SnapshotOf
  <2>2. Len(p.routes) <= LastRoute /\ Len(old.routes) <= LastRoute
    BY <1>1 DEF PublicationOk
  <2>3. SnapshotsExact(e, t.snapshotEntries - SnapshotOf(t.entries, id) + SnapshotOf(e, id))
    BY <1>1, <1>4, <2>2, SnapshotsChange DEF TableOk
  <2>4. n = before - less + more
    <3> HIDE DEF before, more, less
    <3> QED BY <1>2 DEF n
  <2> QED BY <2>1, <2>3, <2>4
<1>13. TicketsExact(t.entries, t.tickets, t.held, t.nextId)
  BY DEF TableOk
<1>14. t.tickets[id].source = s
  BY <1>1, <1>13 DEF TicketsExact
<1>15. \A i \in PubId : tickets[i].source = t.tickets[i].source
  BY <1>5, <1>14
<1>16. TicketsExact(e, tickets, t.held, t.nextId)
  <2>1. \A i \in Pending(e) \cup t.held : i < t.nextId /\ tickets[i].source \in Actor
    BY <1>1, <1>4, <1>13, <1>15 DEF TicketsExact, Pending
  <2>2. \A i \in Pending(e) : /\ tickets[i].source = e[i].source
                              /\ tickets[i].admitted = e[i].admitted
                              /\ tickets[i].status \notin Outcomes
    BY <1>4, <1>5, <1>13 DEF TicketsExact, Pending
  <2>3. \A i \in t.held \ Pending(e) : tickets[i].status \in Outcomes =>
                                         tickets[i].matched = tickets[i].admitted + tickets[i].rejected
    BY <1>1, <1>4, <1>5, <1>13 DEF TicketsExact
  <2> QED BY <2>1, <2>2, <2>3 DEF TicketsExact
<1>17. BudgetExact(Pending(e) \cup t.held, tickets, t.total, t.counts)
  <2>1. \A a \in Actor : {i \in Pending(e) \cup t.held : tickets[i].source = a} =
                         {i \in Pending(t.entries) \cup t.held : t.tickets[i].source = a}
    BY <1>1, <1>4, <1>15 DEF Pending
  <2>2. BudgetExact(Pending(t.entries) \cup t.held, t.tickets, t.total, t.counts)
    BY DEF TableOk
  <2> QED BY <1>4, <2>1, <2>2 DEF BudgetExact
<1> QED
  BY <1>6, <1>7, <1>9, <1>10, <1>11, <1>12, <1>16, <1>17 DEF TableOk, Replaces, v, e, tickets, n

\* What a flush does to the publications of some identities.
Unstages(u, t, ids) ==
  /\ \A id \in PubId : u.entries[id] = IF id \in ids /\ t.entries[id] # NoPublication
                                       THEN [t.entries[id] EXCEPT !.staged = FALSE]
                                       ELSE t.entries[id]
  /\ u.nextId = t.nextId /\ u.held = t.held /\ u.snapshotEntries = t.snapshotEntries
  /\ \A id \in PubId : u.tickets[id].admitted = t.tickets[id].admitted

\* enqueue_publication_locked
LEMMA EnqueueOneKeeps ==
  ASSUME NEW t, TableOk(t, {}), NEW id \in PubId
  PROVE  LET u == EnqueueOne(t, id) IN TableOk(u, {}) /\ Unstages(u, t, {id})
<1> USE TableFields
<1>1. CASE t.entries[id] = NoPublication
  <2>1. EnqueueOne(t, id) = t
    BY <1>1 DEF EnqueueOne
  <2> QED BY <1>1, <2>1 DEF Unstages
<1>2. CASE t.entries[id] # NoPublication
  <2> DEFINE old == t.entries[id]
             s == old.source
             p == [old EXCEPT !.staged = FALSE]
             ticket == [t.tickets[id] EXCEPT !.status = "Queued"]
             v == Replaced(t, id, p, ticket)
             u == ReadySource(v, s)
  <2>1. /\ t \in TableType /\ old \in Publication /\ s \in Actor /\ PublicationOk(old)
        /\ id \in Pending(t.entries)
    BY <1>2 DEF TableOk, EntriesType, EntriesOk, Pending, Publication
  <2>2. /\ p \in Publication /\ p.source = s /\ p.deadline = old.deadline /\ p.staged = FALSE
        /\ p.routes = old.routes /\ p.cursor = old.cursor /\ p.matched = old.matched
        /\ p.admitted = old.admitted /\ p.rejected = old.rejected
    BY <2>1 DEF Publication
  <2>3. PublicationOk(p)
    BY <2>1, <2>2 DEF PublicationOk
  <2>4. /\ t.tickets[id] \in Ticket /\ t.tickets[id].source = s
        /\ t.tickets[id].admitted = old.admitted
    BY <2>1 DEF TableOk, TicketsExact
  <2>5. /\ ticket \in Ticket /\ ticket.source = s /\ ticket.admitted = p.admitted
        /\ ticket.status \notin Outcomes
    BY <2>2, <2>4 DEF Ticket, Outcomes
  <2>6. TableOk(t, {s})
    BY RotationWeakens
  <2>7. EnqueueOne(t, id) = u
    <3>1. Len(p.routes) \in Nat
      BY <2>2 DEF Publication
    <3>2. t.snapshotEntries + Len(p.routes) - Len(old.routes) = t.snapshotEntries
      BY <2>1, <2>2, <3>1
    <3>3. v = [t EXCEPT !.entries = [t.entries EXCEPT ![id] = p],
                        !.tickets = [t.tickets EXCEPT ![id] = ticket]]
      BY <2>1, <3>2 DEF TableType, Replaced
    <3> HIDE DEF v
    <3> QED BY <1>2, <3>3 DEF EnqueueOne
  <2> HIDE DEF p, ticket
  <2>8. /\ TableOk(v, {s})
        /\ v.entries = [t.entries EXCEPT ![id] = p] /\ v.tickets = [t.tickets EXCEPT ![id] = ticket]
        /\ v.bySource = t.bySource /\ v.readySet = t.readySet
        /\ v.nextId = t.nextId /\ v.held = t.held
        /\ v.snapshotEntries = t.snapshotEntries + Len(p.routes) - Len(old.routes)
    <3>1. s = t.entries[id].source /\ p.deadline = t.entries[id].deadline
      BY <2>2
    <3>2. MayReplace(t, id, s, p, ticket)
      BY <1>2, <2>2, <2>3, <2>5, <2>6, <3>1 DEF MayReplace
    <3> HIDE DEF s, old
    <3> HIDE DEF p, ticket
    <3>3. Replaces(v, t, id, s, p, ticket)
      BY <3>2, ReplaceKeeps
    <3> QED BY <3>3 DEF old, Replaces
  <2> HIDE DEF v
  <2>9. s \in v.readySet => Routable(v.entries, v.bySource, s)
    <3>1. s \in t.readySet => Routable(t.entries, t.bySource, s)
      BY <2>1 DEF TableOk, RotationExact
    <3>2. t.bySource[s] # <<>> => Head(t.bySource[s]) \in PubId
      BY <2>1, HeadPending DEF Pending, TableOk
    <3> QED BY <2>1, <2>2, <2>8, <3>1, <3>2 DEF Routable
  <2>10. /\ u \in TableType /\ SameButRotation(u, v)
         /\ RotationExact(u.entries, u.bySource, u.ready, u.readySet, {})
    BY <2>1, <2>8, <2>9, ReadySourceRotates DEF TableOk
  <2> HIDE DEF u
  <2>11. TableOk(u, {})
    BY <2>8, <2>10 DEF TableOk, SameButRotation
  <2>12. Unstages(u, t, {id})
    <3>1. \A i \in PubId : u.entries[i] = IF i \in {id} /\ t.entries[i] # NoPublication
                                          THEN [t.entries[i] EXCEPT !.staged = FALSE]
                                          ELSE t.entries[i]
      <4>1. u.entries = [t.entries EXCEPT ![id] = p] /\ t.entries \in EntriesType
        BY <2>1, <2>8, <2>10 DEF SameButRotation
      <4>2. u.entries[id] = p /\ \A i \in PubId \ {id} : u.entries[i] = t.entries[i]
        BY <4>1 DEF EntriesType
      <4>3. p = [t.entries[id] EXCEPT !.staged = FALSE]
        BY DEF p
      <4> HIDE DEF p
      <4> QED BY <1>2, <4>2, <4>3
    <3>2. u.snapshotEntries = t.snapshotEntries
      <4>1. Len(p.routes) \in Nat
        BY <2>2 DEF Publication
      <4> QED BY <2>1, <2>2, <2>8, <2>10, <4>1 DEF SameButRotation
    <3>3. \A i \in PubId : u.tickets[i].admitted = t.tickets[i].admitted
      BY <2>1, <2>2, <2>4, <2>5, <2>8, <2>10 DEF SameButRotation
    <3> QED BY <2>8, <2>10, <3>1, <3>2, <3>3 DEF Unstages, SameButRotation
  <2> QED BY <2>7, <2>11, <2>12
<1> QED
  BY <1>1, <1>2

LEMMA UnstagesComposes ==
  ASSUME NEW t, t.entries \in EntriesType, NEW u, NEW v, NEW A, NEW B,
         Unstages(u, t, A), Unstages(v, u, B)
  PROVE  Unstages(v, t, A \cup B)
<1> DEFINE Unstaged(p) == [p EXCEPT !.staged = FALSE]
<1>1. \A p \in Publication : /\ Unstaged(p) \in Publication /\ Unstaged(Unstaged(p)) = Unstaged(p)
                             /\ Unstaged(p) # NoPublication
  BY NoPublicationAssumption DEF Publication
<1> HIDE DEF Unstaged
<1>2. ASSUME NEW id \in PubId
      PROVE  v.entries[id] = IF id \in A \cup B /\ t.entries[id] # NoPublication
                             THEN Unstaged(t.entries[id]) ELSE t.entries[id]
  <2>1. t.entries[id] = NoPublication \/ t.entries[id] \in Publication
    BY DEF EntriesType
  <2>2. u.entries[id] = IF id \in A /\ t.entries[id] # NoPublication
                        THEN Unstaged(t.entries[id]) ELSE t.entries[id]
    BY DEF Unstages, Unstaged
  <2>3. v.entries[id] = IF id \in B /\ u.entries[id] # NoPublication
                        THEN Unstaged(u.entries[id]) ELSE u.entries[id]
    BY DEF Unstages, Unstaged
  <2> QED BY <1>1, <2>1, <2>2, <2>3
<1> QED
  BY <1>2 DEF Unstages, Unstaged

\* A flush of one source keeps the indexes.
LEMMA EnqueueKeeps ==
  ASSUME NEW t, TableOk(t, {}), NEW ids \in Seq(PubId)
  PROVE  LET u == Enqueue(t, ids) IN TableOk(u, {}) /\ Unstages(u, t, ToSet(ids))
<1> DEFINE n == Len(ids)
           I == {u \in TableType : TableOk(u, {})}
           Before(k) == {ids[i] : i \in 1..k}
<1>1. n \in Nat /\ DOMAIN ids = 1..n /\ (\A i \in 1..n : ids[i] \in PubId) /\ ToSet(ids) = Before(n)
  BY DEF ToSet
<1>2. \A u \in I, i \in 1..n : EnqueueOne(u, ids[i]) \in I
  BY <1>1, EnqueueOneKeeps DEF TableOk
<1>3. t \in I /\ t.entries \in EntriesType
  BY TableFields DEF TableOk
<1> HIDE DEF I
<1>4. EnqueueRun(I, t, ids)
  BY <1>2, <1>3, EnqueueRuns
<1>5. PICK run \in [0..n -> I] :
        /\ run[0] = t /\ run[n] = Enqueue(t, ids)
        /\ \A i \in 1..n : run[i] = EnqueueOne(run[i - 1], ids[i])
  BY <1>4 DEF EnqueueRun
<1> DEFINE S == {k \in 0..n : Unstages(run[k], t, Before(k))}
<1>6. 0 \in S
  <2>1. Before(0) = {} /\ 0 \in 0..n
    BY <1>1
  <2>2. Unstages(t, t, {})
    BY DEF Unstages
  <2> QED BY <1>5, <2>1, <2>2
<1>7. ASSUME NEW k \in 1..n, k - 1 \in S PROVE k \in S
  <2>1. k - 1 \in 0..n /\ run[k - 1] \in I /\ run[k] \in I
    BY <1>1, <1>5
  <2>2. Unstages(run[k], run[k - 1], {ids[k]})
    BY <1>1, <1>5, <2>1, EnqueueOneKeeps DEF I
  <2>3. Before(k) = Before(k - 1) \cup {ids[k]}
    <3>1. 1..k = 1..(k - 1) \cup {k}
      OBVIOUS
    <3> QED BY <3>1
  <2>4. Unstages(run[k - 1], t, Before(k - 1))
    BY <1>7
  <2> HIDE DEF Before
  <2>5. Unstages(run[k], t, Before(k))
    BY <1>3, <2>2, <2>3, <2>4, UnstagesComposes
  <2> QED BY <2>5
<1> HIDE DEF S
<1>8. n \in S
  <2>1. \A k \in 0..n : k \in S
    BY <1>1, <1>6, <1>7, InductionUpTo
  <2> QED BY <1>1, <2>1
<1>9. run[n] \in I
  BY <1>1, <1>5
<1> QED
  BY <1>1, <1>5, <1>8, <1>9 DEF S, I

\* A permit that is given back burns its identity.
LEMMA BurnKeeps ==
  ASSUME NEW t, TableOk(t, {}), NEW s, MayReserve(t, s)
  PROVE  LET u == BurnId(t) IN
         /\ TableOk(u, {}) /\ u.entries = t.entries /\ u.tickets = t.tickets /\ u.held = t.held
         /\ u.nextId = t.nextId + 1 /\ u.snapshotEntries = t.snapshotEntries
<1> DEFINE u == BurnId(t)
<1>1. t \in TableType /\ t.nextId + 1 \in 1..LastId /\ t.nextId \in Int
  BY TableFields, LastIdAssumption DEF TableOk, MayReserve
<1>2. u = [t EXCEPT !.nextId = t.nextId + 1]
  BY DEF BurnId
<1> DEFINE m == t.nextId + 1
<1>3. m \in 1..LastId /\ t.nextId < m
  BY <1>1
<1> HIDE DEF m, u
<1>4. /\ u \in TableType /\ u.entries = t.entries /\ u.tickets = t.tickets /\ u.held = t.held
      /\ u.bySource = t.bySource /\ u.ready = t.ready /\ u.readySet = t.readySet
      /\ u.deadlines = t.deadlines /\ u.nextId = m /\ u.total = t.total /\ u.counts = t.counts
      /\ u.snapshotEntries = t.snapshotEntries
  <2>1. u = [t EXCEPT !.nextId = m]
    BY <1>2 DEF m
  <2> QED BY <1>1, <1>3, <2>1 DEF TableType
<1>5. TicketsExact(t.entries, t.tickets, t.held, m)
  <2>1. \A id \in Pending(t.entries) \cup t.held : id \in Int
    BY <1>1, TableFields, PubIdFinite DEF Pending
  <2>2. TicketsExact(t.entries, t.tickets, t.held, t.nextId)
    BY DEF TableOk
  <2>3. \A id \in Pending(t.entries) \cup t.held : id < m
    BY <1>1, <1>3, <2>1, <2>2 DEF TicketsExact, m
  <2> QED BY <2>2, <2>3 DEF TicketsExact
<1> QED
  BY <1>4, <1>5 DEF TableOk, u, m

\* A caller's handle goes, and the permit with it when nothing is pending.
LEMMA DropKeeps ==
  ASSUME NEW t, TableOk(t, {}), NEW id \in t.held
  PROVE  LET u == DropHandle(t, id) IN
         /\ TableOk(u, {}) /\ u.entries = t.entries /\ u.held = t.held \ {id}
         /\ u.nextId = t.nextId /\ u.snapshotEntries = t.snapshotEntries
         /\ \A i \in Pending(u.entries) \cup u.held : u.tickets[i].admitted = t.tickets[i].admitted
<1> USE TableFields
<1> DEFINE u == DropHandle(t, id)
           held == t.held \ {id}
           v == [t EXCEPT !.held = held]
           s == t.tickets[id].source
<1>1. t \in TableType /\ id \in PubId
  BY DEF TableOk
<1>2. TicketsExact(t.entries, t.tickets, t.held, t.nextId)
  BY DEF TableOk
<1>3. BudgetExact(Pending(t.entries) \cup t.held, t.tickets, t.total, t.counts)
  BY DEF TableOk
<1>4. s \in Actor /\ id < t.nextId
  BY <1>2 DEF TicketsExact
<1>5. u = IF t.entries[id] = NoPublication THEN ReleasePermit(v, id) ELSE v
  BY <1>1 DEF DropHandle, TableType
<1>6. /\ v \in TableType /\ v.entries = t.entries /\ v.tickets = t.tickets /\ v.held = held
      /\ v.bySource = t.bySource /\ v.ready = t.ready /\ v.readySet = t.readySet
      /\ v.deadlines = t.deadlines /\ v.nextId = t.nextId /\ v.total = t.total
      /\ v.counts = t.counts /\ v.snapshotEntries = t.snapshotEntries
  BY <1>1 DEF TableType
<1> HIDE DEF u, v
<1>7. ASSUME t.entries[id] # NoPublication
      PROVE  /\ TableOk(u, {}) /\ u.entries = t.entries /\ u.held = held
             /\ u.nextId = t.nextId /\ u.snapshotEntries = t.snapshotEntries
             /\ \A i \in Pending(u.entries) \cup u.held : u.tickets[i].admitted = t.tickets[i].admitted
  <2>1. u = v
    BY <1>5, <1>7
  <2>2. id \in Pending(t.entries) /\ Pending(t.entries) \cup held = Pending(t.entries) \cup t.held
    BY <1>1, <1>7 DEF Pending
  <2>3. TicketsExact(t.entries, t.tickets, held, t.nextId)
    BY <1>2, <2>2 DEF TicketsExact
  <2> QED BY <1>3, <1>6, <2>1, <2>2, <2>3 DEF TableOk
<1>8. ASSUME t.entries[id] = NoPublication
      PROVE  /\ TableOk(u, {}) /\ u.entries = t.entries /\ u.held = held
             /\ u.nextId = t.nextId /\ u.snapshotEntries = t.snapshotEntries
             /\ \A i \in Pending(u.entries) \cup u.held : u.tickets[i].admitted = t.tickets[i].admitted
  <2> DEFINE less == [t.tickets EXCEPT ![id] = NoTicket]
             spent == [t.counts EXCEPT ![s] = @ - 1]
             n == t.total - 1
  <2>1. u = [v EXCEPT !.total = n, !.counts = spent, !.tickets = less]
    <3>1. u = ReleasePermit(v, id)
      BY <1>5, <1>8
    <3> QED BY <1>6, <3>1 DEF ReleasePermit
  <2>2. NoTicket \in Ticket
    BY DEF NoTicket, Ticket
  <2>3. less \in [PubId -> Ticket] /\ spent \in [Actor -> Int] /\ n \in Int
    <3>1. less \in [PubId -> Ticket]
      BY <1>1, <2>2
    <3>2. t.counts \in [Actor -> Int] /\ t.total \in Int
      BY <1>1
    <3> HIDE DEF s
    <3> QED BY <1>4, <3>1, <3>2
  <2>4. \A i \in PubId \ {id} : less[i] = t.tickets[i]
    BY <1>1
  <2>5. id \notin Pending(t.entries)
    BY <1>8 DEF Pending
  <2>6. Pending(t.entries) \cup held = (Pending(t.entries) \cup t.held) \ {id}
    BY <2>5
  <2>7. BudgetExact((Pending(t.entries) \cup t.held) \ {id}, less, n, spent)
    <3>1. Pending(t.entries) \cup t.held \in SUBSET PubId
      BY <1>1 DEF Pending
    <3>2. \A i \in (Pending(t.entries) \cup t.held) \ {id} : less[i].source = t.tickets[i].source
      BY <2>4, <3>1
    <3> HIDE DEF less
    <3> QED BY <1>1, <1>3, <1>4, <3>1, <3>2, BudgetDrops
  <2> HIDE DEF less, spent, n
  <2>8. /\ u \in TableType /\ u.entries = t.entries /\ u.tickets = less /\ u.held = held
        /\ u.bySource = t.bySource /\ u.ready = t.ready /\ u.readySet = t.readySet
        /\ u.deadlines = t.deadlines /\ u.nextId = t.nextId /\ u.total = n
        /\ u.counts = spent /\ u.snapshotEntries = t.snapshotEntries
    BY <1>6, <2>1, <2>3 DEF TableType
  <2>9. \A i \in Pending(t.entries) \cup held : i \in PubId \ {id} /\ less[i] = t.tickets[i]
    BY <1>1, <2>4, <2>6 DEF Pending
  <2>10. TicketsExact(t.entries, less, held, t.nextId)
    BY <1>2, <2>9 DEF TicketsExact
  <2>11. BudgetExact(Pending(t.entries) \cup held, less, n, spent)
    BY <2>6, <2>7
  <2>12. TableOk(u, {})
    BY <2>8, <2>10, <2>11 DEF TableOk
  <2> QED BY <2>8, <2>9, <2>12
<1> HIDE DEF held
<1> QED
  BY <1>7, <1>8 DEF u, held

\* A new publication: nothing captured, nothing attempted.
Fresh(p) ==
  p \in Publication /\ p.routes = <<>> /\ p.cursor = 0 /\ p.matched = 0 /\ p.admitted = 0 /\ p.rejected = 0

Inserts(u, t, p) ==
  /\ t.nextId \in PubId /\ t.nextId \notin Pending(t.entries) \cup t.held
  /\ TableOk(u, {}) /\ u.entries = [t.entries EXCEPT ![t.nextId] = p]
  /\ u.nextId = t.nextId + 1 /\ u.held = t.held \cup {t.nextId}
  /\ u.snapshotEntries = t.snapshotEntries
  /\ u.tickets[t.nextId].admitted = 0
  /\ \A i \in PubId \ {t.nextId} : u.tickets[i] = t.tickets[i]

LEMMA InsertKeeps ==
  ASSUME NEW t, TableOk(t, {}), NEW p, Fresh(p), MayReserve(t, p.source)
  PROVE  Inserts(InsertPublication(t, p), t, p)
<1> USE TableFields
<1> DEFINE id == t.nextId
           s == p.source
           ticket == [NoTicket EXCEPT !.source = p.source,
                                      !.status = IF p.staged THEN "Staged" ELSE "Queued"]
           e == [t.entries EXCEPT ![id] = p]
           tickets == [t.tickets EXCEPT ![id] = ticket]
           held == t.held \cup {id}
           q == [t.bySource EXCEPT ![s] = Append(@, id)]
           dates == IF p.deadline = NoDeadline THEN t.deadlines
                    ELSE t.deadlines \cup {<<p.deadline, id>>}
           next == t.nextId + 1
           total == t.total + 1
           spent == [t.counts EXCEPT ![s] = @ + 1]
           v == [t EXCEPT !.entries = e, !.tickets = tickets, !.held = held, !.bySource = q,
                          !.deadlines = dates, !.nextId = next, !.total = total, !.counts = spent]
           u == ReadySource(v, s)
<1>1. /\ t \in TableType /\ p \in Publication /\ s \in Actor /\ id \in Nat /\ id < LastId
      /\ id \in PubId /\ next \in 1..LastId /\ id < next
  <2>1. t \in TableType /\ p \in Publication /\ t.nextId < LastId
    BY DEF TableOk, Fresh, MayReserve
  <2>2. t.nextId \in 1..LastId
    BY <2>1
  <2>3. s \in Actor
    BY <2>1 DEF Publication
  <2> QED BY <2>1, <2>2, <2>3, LastIdAssumption DEF PubId
<1>2. TicketsExact(t.entries, t.tickets, t.held, t.nextId)
  BY DEF TableOk
<1>3. BudgetExact(Pending(t.entries) \cup t.held, t.tickets, t.total, t.counts)
  BY DEF TableOk
<1>4. /\ id \notin Pending(t.entries) \cup t.held /\ t.entries[id] = NoPublication
      /\ \A i \in Pending(t.entries) \cup t.held : i \in PubId /\ i < id
  <2>1. \A i \in Pending(t.entries) \cup t.held : i \in PubId /\ i < id
    BY <1>1, <1>2 DEF TicketsExact, Pending
  <2>2. ~(id < id)
    BY <1>1
  <2>3. id \notin Pending(t.entries) \cup t.held
    BY <2>1, <2>2
  <2> QED BY <1>1, <2>1, <2>3 DEF Pending
<1>5. /\ p # NoPublication /\ p.routes = <<>> /\ Len(p.routes) = 0 /\ PublicationOk(p)
      /\ p.deadline \in 1..NoDeadline
  BY <1>1, NoPublicationAssumption, LastRouteAssumption DEF Fresh, PublicationOk, Publication
<1>6. /\ ticket \in Ticket /\ ticket.source = s /\ ticket.admitted = 0 /\ ticket.status \notin Outcomes
  BY <1>1 DEF Ticket, NoTicket, Outcomes
<1> HIDE DEF ticket
<1>7. InsertPublication(t, p) = u
  BY <1>1 DEF InsertPublication, ticket
<1>8. /\ e \in EntriesType /\ Pending(e) = Pending(t.entries) \cup {id} /\ e[id] = p
      /\ \A i \in PubId \ {id} : e[i] = t.entries[i]
  BY <1>1, <1>5 DEF EntriesType, Pending
<1>9. /\ tickets \in [PubId -> Ticket] /\ tickets[id] = ticket
      /\ \A i \in PubId \ {id} : tickets[i] = t.tickets[i]
  BY <1>1, <1>6
<1> HIDE DEF e, tickets
<1>10. /\ q \in QueuesType /\ ToSet(q[s]) = ToSet(t.bySource[s]) \cup {id}
       /\ \A i, j \in DOMAIN q[s] : i < j => q[s][i] < q[s][j]
       /\ q[s] = Append(t.bySource[s], id)
       /\ \A a \in Actor \ {s} : q[a] = t.bySource[a]
  <2> DEFINE w == Append(t.bySource[s], id)
  <2>1. t.bySource[s] \in Seq(PubId) /\ DOMAIN t.bySource[s] = 1..Len(t.bySource[s])
    BY <1>1 DEF QueuesType
  <2>2. \A i \in DOMAIN t.bySource[s] : t.bySource[s][i] \in PubId /\ t.bySource[s][i] < id
    <3>1. \A x \in ToSet(t.bySource[s]) : x \in Pending(t.entries)
      BY <1>1 DEF TableOk, QueuesExact
    <3>2. \A i \in DOMAIN t.bySource[s] : t.bySource[s][i] \in Pending(t.entries)
      BY <3>1 DEF ToSet
    <3> QED BY <1>4, <3>2
  <2>3. PubId \subseteq Int
    BY PubIdFinite
  <2>4. \A i, j \in DOMAIN t.bySource[s] : i < j => <<t.bySource[s][i], t.bySource[s][j]>> \in Increases
    BY <1>1, <2>2, <2>3, IncreasesDef DEF TableOk, QueuesExact
  <2>5. \A i \in DOMAIN t.bySource[s] : <<t.bySource[s][i], id>> \in Increases
    BY <1>1, <2>2, <2>3, IncreasesDef
  <2>6. LET x == Append(t.bySource[s], id) IN
        /\ x \in Seq(PubId) /\ ToSet(x) = ToSet(t.bySource[s]) \cup {id}
        /\ \A i, j \in DOMAIN x : i < j => <<x[i], x[j]>> \in Increases
    <3> HIDE DEF id
    <3> QED BY <1>1, <2>1, <2>4, <2>5, AppendKeeps, Zenon
  <2>7. /\ w \in Seq(PubId) /\ ToSet(w) = ToSet(t.bySource[s]) \cup {id}
        /\ \A i, j \in DOMAIN w : i < j => <<w[i], w[j]>> \in Increases
    BY <2>6
  <2> HIDE DEF w
  <2>8. \A i, j \in DOMAIN w : i < j => w[i] < w[j]
    <3>1. \A i \in DOMAIN w : w[i] \in PubId
      BY <2>7
    <3> QED BY <2>3, <2>7, <3>1, IncreasesDef
  <2>9. q = [t.bySource EXCEPT ![s] = w]
    BY DEF w
  <2>10. q \in QueuesType /\ q[s] = w /\ \A a \in Actor \ {s} : q[a] = t.bySource[a]
    BY <1>1, <2>7, <2>9 DEF QueuesType
  <2> QED BY <2>7, <2>8, <2>10 DEF w
<1> HIDE DEF q
<1>11. QueuesExact(e, q)
  <2>1. ASSUME NEW a \in Actor
        PROVE  /\ ToSet(q[a]) = {i \in Pending(e) : e[i].source = a}
               /\ \A i, j \in DOMAIN q[a] : i < j => q[a][i] < q[a][j]
    <3>1. \A i \in Pending(t.entries) : e[i] = t.entries[i]
      BY <1>4, <1>8
    <3>2. CASE a = s
      BY <1>8, <1>10, <3>1, <3>2 DEF TableOk, QueuesExact
    <3>3. CASE a # s
      <4>1. {i \in Pending(e) : e[i].source = a} = {i \in Pending(t.entries) : t.entries[i].source = a}
        BY <1>8, <3>1, <3>3
      <4>2. q[a] = t.bySource[a]
        BY <1>10, <3>3
      <4> QED BY <4>1, <4>2 DEF TableOk, QueuesExact
    <3> QED BY <3>2, <3>3
  <2> QED BY <2>1 DEF QueuesExact
<1>12. ASSUME NEW b \in Actor, t.bySource[b] # <<>>
       PROVE  /\ Head(q[b]) = Head(t.bySource[b]) /\ q[b] # <<>>
              /\ e[Head(q[b])] = t.entries[Head(t.bySource[b])]
  <2>1. Head(t.bySource[b]) \in Pending(t.entries)
    BY <1>1, <1>12, HeadPending DEF TableOk
  <2>2. Head(t.bySource[b]) \in PubId \ {id}
    BY <1>4, <2>1
  <2>3. Head(q[b]) = Head(t.bySource[b]) /\ q[b] # <<>>
    <3>1. t.bySource[b] \in Seq(PubId)
      BY <1>1 DEF QueuesType
    <3>2. Head(Append(t.bySource[b], id)) = Head(t.bySource[b]) /\ Append(t.bySource[b], id) # <<>>
      <4> DEFINE w == t.bySource[b]
      <4>1. w \in Seq(PubId) /\ w # <<>>
        BY <1>12, <3>1
      <4> HIDE DEF w, id
      <4>2. Len(w) \in Nat \ {0} /\ Head(w) = w[1]
        BY <4>1
      <4>3. Append(w, id)[1] = w[1] /\ Append(w, id) # <<>> /\ Head(Append(w, id)) = Append(w, id)[1]
        BY <1>1, <4>1, <4>2
      <4> QED BY <4>2, <4>3 DEF w
    <3> QED BY <1>10, <1>12, <3>2
  <2> QED BY <1>8, <2>2, <2>3
<1>13. RotationExact(e, q, t.ready, t.readySet, {s})
  <2>1. ASSUME NEW b \in Actor \ {s} PROVE Routable(e, q, b) <=> Routable(t.entries, t.bySource, b)
    <3>1. q[b] = t.bySource[b]
      BY <1>10
    <3> QED BY <1>12, <3>1 DEF Routable
  <2> QED BY <2>1 DEF TableOk, RotationExact
<1>14. s \in t.readySet => Routable(e, q, s)
  <2>1. s \in t.readySet => Routable(t.entries, t.bySource, s)
    BY <1>1 DEF TableOk, RotationExact
  <2> QED BY <1>1, <1>12, <2>1 DEF Routable
<1>15. dates \in SUBSET (Time \X PubId) /\ DeadlinesExact(e, dates)
  <2>1. p.deadline \in Time \/ p.deadline = NoDeadline
    BY <1>5, PublicationTimeAssumption DEF Time, NoDeadline
  <2>2. NoDeadline \notin Time
    BY PublicationTimeAssumption DEF Time, NoDeadline
  <2>3. \A x \in Time \X PubId : x[1] \in Time /\ x[2] \in PubId /\ x = <<x[1], x[2]>>
    OBVIOUS
  <2>4. t.deadlines = {x \in Time \X PubId : /\ t.entries[x[2]] # NoPublication
                                             /\ t.entries[x[2]].deadline = x[1]}
    BY DEF TableOk, DeadlinesExact
  <2>5. ASSUME NEW x \in Time \X PubId
        PROVE  x \in dates <=> (e[x[2]] # NoPublication /\ e[x[2]].deadline = x[1])
    <3>1. CASE x[2] = id
      <4>1. x \notin t.deadlines
        BY <1>4, <2>4, <3>1
      <4>2. x = <<p.deadline, id>> <=> x[1] = p.deadline
        BY <2>3, <3>1
      <4> QED BY <1>5, <1>8, <2>1, <2>2, <2>3, <3>1, <4>1, <4>2
    <3>2. CASE x[2] # id
      BY <1>8, <2>3, <2>4, <3>2
    <3> QED BY <3>1, <3>2
  <2>6. dates \in SUBSET (Time \X PubId)
    BY <1>1, <2>1
  <2> QED BY <2>5, <2>6 DEF DeadlinesExact
<1> HIDE DEF dates
<1>16. /\ held \in SUBSET PubId /\ spent \in [Actor -> Int] /\ total \in Int
  BY <1>1
<1>17. BudgetExact((Pending(t.entries) \cup t.held) \cup {id}, tickets, total, spent)
  <2>1. Pending(t.entries) \cup t.held \in SUBSET PubId
    BY <1>4
  <2>2. \A i \in Pending(t.entries) \cup t.held : tickets[i].source = t.tickets[i].source
    BY <1>4, <1>9
  <2>3. t.total < TicketLimit /\ t.counts[s] < PerSource
    BY DEF MayReserve
  <2>4. id \in PubId \ (Pending(t.entries) \cup t.held) /\ tickets[id].source = s
    BY <1>1, <1>4, <1>6, <1>9
  <2> HIDE DEF id, s
  <2> QED BY <1>1, <1>3, <2>1, <2>2, <2>3, <2>4, BudgetAdds
<1> HIDE DEF held, spent, total, next
<1>18. /\ v \in TableType /\ v.entries = e /\ v.tickets = tickets /\ v.held = held
       /\ v.bySource = q /\ v.ready = t.ready /\ v.readySet = t.readySet
       /\ v.deadlines = dates /\ v.nextId = next /\ v.total = total
       /\ v.counts = spent /\ v.snapshotEntries = t.snapshotEntries
  BY <1>1, <1>8, <1>9, <1>10, <1>15, <1>16 DEF TableType, EntriesType, QueuesType
<1> HIDE DEF v
<1>19. /\ u \in TableType /\ SameButRotation(u, v)
       /\ RotationExact(u.entries, u.bySource, u.ready, u.readySet, {})
  BY <1>1, <1>11, <1>13, <1>14, <1>18, ReadySourceRotates
<1> HIDE DEF u
<1>20. EntriesOk(e)
  <2>1. \A i \in Pending(e) : i = id \/ (i \in Pending(t.entries) /\ e[i] = t.entries[i])
    BY <1>4, <1>8
  <2> QED BY <1>5, <1>8, <2>1 DEF TableOk, EntriesOk
<1>21. SnapshotsExact(e, t.snapshotEntries)
  <2>1. SnapshotOf(t.entries, id) = 0 /\ SnapshotOf(e, id) = 0
    BY <1>4, <1>5, <1>8 DEF SnapshotOf
  <2>2. SnapshotsExact(e, t.snapshotEntries - SnapshotOf(t.entries, id) + SnapshotOf(e, id))
    <3>1. Len(p.routes) <= LastRoute
      BY <1>5 DEF PublicationOk
    <3> QED BY <1>1, <1>4, <1>8, <3>1, SnapshotsChange DEF TableOk
  <2>3. t.snapshotEntries \in Int
    BY <1>1
  <2>4. t.snapshotEntries - 0 + 0 = t.snapshotEntries
    BY <2>3
  <2> QED BY <2>1, <2>2, <2>4
<1>22. TicketsExact(e, tickets, held, next)
  <2>1. /\ Pending(e) \cup held = (Pending(t.entries) \cup t.held) \cup {id}
        /\ held \ Pending(e) = t.held \ Pending(t.entries)
    BY <1>4, <1>8 DEF held
  <2>2. \A i \in Pending(t.entries) \cup t.held : /\ i \in PubId \ {id} /\ i < next
                                                  /\ tickets[i] = t.tickets[i] /\ e[i] = t.entries[i]
    <3>1. \A i \in Pending(t.entries) \cup t.held : i \in Int
      <4>1. \A i \in PubId : i \in Int
        BY PubIdFinite
      <4> QED BY <1>4, <4>1
    <3> QED BY <1>1, <1>4, <1>8, <1>9, <3>1
  <2>3. \A i \in Pending(e) \cup held : i < next /\ tickets[i].source \in Actor
    BY <1>1, <1>2, <1>6, <1>9, <2>1, <2>2 DEF TicketsExact
  <2>4. \A i \in Pending(e) : /\ tickets[i].source = e[i].source
                              /\ tickets[i].admitted = e[i].admitted
                              /\ tickets[i].status \notin Outcomes
    <3>1. p.admitted = 0
      BY DEF Fresh
    <3> QED BY <1>2, <1>6, <1>8, <1>9, <2>2, <3>1 DEF TicketsExact
  <2>5. \A i \in held \ Pending(e) : tickets[i].status \in Outcomes =>
                                       tickets[i].matched = tickets[i].admitted + tickets[i].rejected
    BY <1>2, <2>1, <2>2 DEF TicketsExact
  <2> QED BY <2>3, <2>4, <2>5 DEF TicketsExact
<1>23. BudgetExact(Pending(e) \cup held, tickets, total, spent)
  <2>1. Pending(e) \cup held = (Pending(t.entries) \cup t.held) \cup {id}
    BY <1>8 DEF held
  <2> QED BY <1>17, <2>1
<1>24. TableOk(u, {})
  BY <1>11, <1>15, <1>18, <1>19, <1>20, <1>21, <1>22, <1>23 DEF TableOk, SameButRotation
<1> QED
  BY <1>1, <1>4, <1>6, <1>7, <1>9, <1>18, <1>19, <1>24 DEF Inserts, SameButRotation, e, held, next

\* No publication yet.
LEMMA EmptyOk == TableOk(EmptyPublications, {})
<1> DEFINE t == EmptyPublications
<1>1. NoTicket \in Ticket
  BY DEF NoTicket, Ticket
<1>2. /\ t.entries = [id \in PubId |-> NoPublication] /\ t.tickets = [id \in PubId |-> NoTicket]
      /\ t.held = {} /\ t.bySource = [a \in Actor |-> <<>>] /\ t.ready = <<>> /\ t.readySet = {}
      /\ t.deadlines = {} /\ t.nextId = 1 /\ t.total = 0 /\ t.counts = [a \in Actor |-> 0]
      /\ t.snapshotEntries = 0
  BY DEF EmptyPublications
<1>3. t \in TableType
  <2>1. 1 \in 1..LastId
    BY LastIdAssumption
  <2>2. [a \in Actor |-> <<>>] \in [Actor -> Seq(PubId)]
    OBVIOUS
  <2>3. <<>> \in Seq(Actor)
    OBVIOUS
  <2> QED BY <1>1, <2>1, <2>2, <2>3 DEF TableType, EmptyPublications
<1>4. Pending(t.entries) = {} /\ Snapshots(t.entries) = {} /\ Cardinality({}) = 0
  <2>1. Pending(t.entries) = {}
    BY <1>2 DEF Pending
  <2>2. Snapshots(t.entries) = {}
    BY <1>2 DEF Snapshots
  <2> QED BY <2>1, <2>2, FS_EmptySet
<1>5. QueuesExact(t.entries, t.bySource)
  <2>1. \A a \in Actor : t.bySource[a] = <<>> /\ ToSet(t.bySource[a]) = {}
    BY <1>2 DEF ToSet
  <2>2. DOMAIN <<>> = {}
    OBVIOUS
  <2> QED BY <1>4, <2>1, <2>2 DEF QueuesExact
<1>6. RotationExact(t.entries, t.bySource, t.ready, t.readySet, {})
  BY <1>2 DEF RotationExact, Routable, ToSet
<1>7. DeadlinesExact(t.entries, t.deadlines)
  BY <1>2 DEF DeadlinesExact
<1>8. BudgetExact(Pending(t.entries) \cup t.held, t.tickets, t.total, t.counts)
  <2>1. Pending(t.entries) \cup t.held = {} /\ 0 <= TicketLimit /\ 0 <= PerSource
    BY <1>2, <1>4, TicketBoundsAssumption
  <2>2. \A a \in Actor : {id \in {} : t.tickets[id].source = a} = {} /\ t.counts[a] = 0
    BY <1>2
  <2> QED BY <1>2, <1>4, <2>1, <2>2 DEF BudgetExact
<1>9. EntriesOk(t.entries) /\ TicketsExact(t.entries, t.tickets, t.held, t.nextId)
      /\ SnapshotsExact(t.entries, t.snapshotEntries)
  BY <1>2, <1>4 DEF EntriesOk, TicketsExact, SnapshotsExact
<1> QED
  BY <1>3, <1>5, <1>6, <1>7, <1>8, <1>9 DEF TableOk

-----------------------------------------------------------------------------
(* The invariant of the mailboxes.                                         *)

Staged == [pub : PubId, deadline : 1..NoDeadline]

BoxType ==
  [queue : [Actor -> Seq(Delivery)], staged : [Actor -> Seq(Staged)],
   counts : [Actor -> [Time -> Int]],
   due : [actors : [Actor -> Time \cup {NoDeadline}], ordered : SUBSET (Time \X Actor)],
   stagedActors : SUBSET Actor]

\* How many entries of a mailbox have a deadline.
Having(q, t) == Cardinality({i \in DOMAIN q : q[i].deadline = t})

\* The deadlines of an actor are those of its two queues.
CountsExact(q, s, c) == \A t \in Time : c[t] = Having(q, t) + Having(s, t)

\* The index of the earliest deadlines follows the counts.
DueExact(c, d) ==
  /\ \A a \in Actor : d.actors[a] = First(c[a])
  /\ d.ordered = {e \in Time \X Actor : e[1] = d.actors[e[2]]}

BoxOk(b) ==
  /\ b \in BoxType
  /\ \A a \in Actor : CountsExact(b.queue[a], b.staged[a], b.counts[a])
  /\ DueExact(b.counts, b.due)
  /\ b.stagedActors = {a \in Actor : b.staged[a] # <<>>}

\* Staged output is kept twice, in the actor and as publications.
StagedLinked(entries, s) ==
  \A a \in Actor :
    /\ {x.pub : x \in ToSet(s[a])} =
         {id \in Pending(entries) : entries[id].source = a /\ entries[id].staged}
    /\ \A x \in ToSet(s[a]) : entries[x.pub].deadline = x.deadline

-----------------------------------------------------------------------------
(* Counting deadlines.                                                     *)

\* What may wait in a mailbox.
Dated == Delivery \cup Staged

\* How many of the first k entries have a deadline.
Upto(q, k, t) == Cardinality({i \in 1..k : q[i].deadline = t})

LEMMA UptoStep ==
  ASSUME NEW q, NEW t
  PROVE  /\ Upto(q, 0, t) = 0
         /\ \A k \in Nat : /\ Upto(q, k, t) \in Nat
                           /\ Upto(q, k + 1, t) =
                                Upto(q, k, t) + (IF q[k + 1].deadline = t THEN 1 ELSE 0)
<1> DEFINE P(k) == {i \in 1..k : q[i].deadline = t}
<1>1. P(0) = {} /\ Cardinality({}) = 0
  BY FS_EmptySet
<1>2. ASSUME NEW k \in Nat
      PROVE  /\ Cardinality(P(k)) \in Nat
             /\ Cardinality(P(k + 1)) = Cardinality(P(k)) + (IF q[k + 1].deadline = t THEN 1 ELSE 0)
  <2>1. IsFiniteSet(1..k) /\ P(k) \in SUBSET (1..k)
    BY FS_Interval
  <2>2. IsFiniteSet(P(k)) /\ Cardinality(P(k)) \in Nat
    BY <2>1, FS_Subset, FS_CardinalityType
  <2>3. 1..(k + 1) = 1..k \cup {k + 1} /\ k + 1 \notin 1..k
    OBVIOUS
  <2>4. CASE q[k + 1].deadline = t
    <3>1. P(k + 1) = P(k) \cup {k + 1} /\ k + 1 \notin P(k)
      BY <2>3, <2>4
    <3> HIDE DEF P
    <3>2. Cardinality(P(k) \cup {k + 1}) = Cardinality(P(k)) + 1
      BY <2>2, <3>1, FS_AddElement
    <3> QED BY <2>2, <2>4, <3>1, <3>2
  <2>5. CASE q[k + 1].deadline # t
    <3>1. P(k + 1) = P(k)
      BY <2>3, <2>5
    <3> HIDE DEF P
    <3> QED BY <2>2, <2>5, <3>1
  <2> QED BY <2>2, <2>4, <2>5
<1> QED
  BY <1>1, <1>2 DEF Upto

LEMMA HavingUpto ==
  ASSUME NEW q \in Seq(Dated), NEW t
  PROVE  Having(q, t) = Upto(q, Len(q), t) /\ Having(q, t) \in Nat
<1>1. DOMAIN q = 1..Len(q) /\ Len(q) \in Nat
  OBVIOUS
<1>2. Upto(q, Len(q), t) \in Nat
  BY <1>1, UptoStep
<1>3. {i \in DOMAIN q : q[i].deadline = t} = {i \in 1..Len(q) : q[i].deadline = t}
  BY <1>1
<1>4. Having(q, t) = Upto(q, Len(q), t)
  BY <1>3 DEF Having, Upto
<1> QED
  BY <1>2, <1>4

LEMMA HavingAppend ==
  ASSUME NEW q \in Seq(Dated), NEW x \in Dated, NEW t
  PROVE  Having(Append(q, x), t) = Having(q, t) + (IF x.deadline = t THEN 1 ELSE 0)
<1> DEFINE n == Len(q)
           w == Append(q, x)
<1>1. /\ n \in Nat /\ w \in Seq(Dated) /\ Len(w) = n + 1 /\ w[n + 1] = x
      /\ \A i \in 1..n : w[i] = q[i]
  OBVIOUS
<1> HIDE DEF w
<1>2. Upto(w, n, t) = Upto(q, n, t)
  <2>1. {i \in 1..n : w[i].deadline = t} = {i \in 1..n : q[i].deadline = t}
    BY <1>1
  <2> QED BY <2>1 DEF Upto
<1>3. Upto(w, n + 1, t) = Upto(w, n, t) + (IF x.deadline = t THEN 1 ELSE 0)
  BY <1>1, UptoStep
<1>4. Having(w, t) = Upto(w, n + 1, t) /\ Having(q, t) = Upto(q, n, t)
  BY <1>1, HavingUpto
<1> QED
  BY <1>2, <1>3, <1>4 DEF w

\* What expiry keeps and what it drops.
LEMMA ExpirySplits ==
  ASSUME NEW T, T \subseteq Dated, NEW q \in Seq(T)
  PROVE  /\ InTime(q) \in Seq(T) /\ Late(q) \in Seq(T)
         /\ ToSet(InTime(q)) = {x \in ToSet(q) : x.deadline > now}
         /\ ToSet(Late(q)) = {x \in ToSet(q) : ~(x.deadline > now)}
         /\ \A t \in Time : Having(q, t) = Having(InTime(q), t) + Having(Late(q), t)
<1> DEFINE n == Len(q)
           Before(k) == {q[i] : i \in 1..k}
<1>1. n \in Nat /\ DOMAIN q = 1..n /\ (\A i \in 1..n : q[i] \in T) /\ ToSet(q) = Before(n)
  BY DEF ToSet
<1>2. InTimeRun(T, q) /\ LateRun(T, q)
  BY InTimeRuns, LateRuns
<1>3. PICK a \in [0..n -> Seq(T)] :
        /\ a[0] = <<>> /\ a[n] = InTime(q)
        /\ \A i \in 1..n : a[i] = (IF q[i].deadline > now THEN Append(a[i - 1], q[i]) ELSE a[i - 1])
  BY <1>2 DEF InTimeRun
<1>4. PICK b \in [0..n -> Seq(T)] :
        /\ b[0] = <<>> /\ b[n] = Late(q)
        /\ \A i \in 1..n : b[i] = (IF q[i].deadline > now THEN b[i - 1] ELSE Append(b[i - 1], q[i]))
  BY <1>2 DEF LateRun
<1> DEFINE S == {k \in 0..n :
                   /\ ToSet(a[k]) = {x \in Before(k) : x.deadline > now}
                   /\ ToSet(b[k]) = {x \in Before(k) : ~(x.deadline > now)}
                   /\ \A t \in Time : Upto(q, k, t) = Having(a[k], t) + Having(b[k], t)}
<1>5. \A s \in Seq(T) : s \in Seq(Dated)
  OBVIOUS
<1>6. 0 \in S
  <2>1. Before(0) = {} /\ 0 \in 0..n /\ ToSet(<<>>) = {} /\ <<>> \in Seq(Dated) /\ Len(<<>>) = 0
    BY <1>1 DEF ToSet
  <2>2. \A t \in Time : Upto(q, 0, t) = 0 /\ Having(<<>>, t) = 0
    <3>1. ASSUME NEW t \in Time PROVE Upto(q, 0, t) = 0 /\ Having(<<>>, t) = 0
      <4>1. Upto(q, 0, t) = 0 /\ Upto(<<>>, 0, t) = 0
        BY UptoStep
      <4>2. Having(<<>>, t) = Upto(<<>>, Len(<<>>), t)
        BY <2>1, HavingUpto
      <4> QED BY <2>1, <4>1, <4>2
    <3> QED BY <3>1
  <2> HIDE DEF Before
  <2> QED BY <1>3, <1>4, <2>1, <2>2
<1>7. ASSUME NEW k \in 1..n, k - 1 \in S PROVE k \in S
  <2> DEFINE u == a[k - 1]
             v == b[k - 1]
             x == q[k]
  <2>1. /\ k - 1 \in 0..n /\ k - 1 \in Nat /\ u \in Seq(T) /\ v \in Seq(T) /\ x \in T /\ x \in Dated
        /\ u \in Seq(Dated) /\ v \in Seq(Dated)
    <3>1. k - 1 \in 0..n /\ k - 1 \in Nat /\ x \in T
      BY <1>1
    <3>2. u \in Seq(T) /\ v \in Seq(T)
      BY <1>3, <1>4, <3>1
    <3> HIDE DEF u, v, x
    <3> QED BY <1>5, <3>1, <3>2
  <2>2. Before(k) = Before(k - 1) \cup {x}
    <3>1. 1..k = 1..(k - 1) \cup {k}
      OBVIOUS
    <3> QED BY <3>1
  <2>3. /\ ToSet(u) = {y \in Before(k - 1) : y.deadline > now}
        /\ ToSet(v) = {y \in Before(k - 1) : ~(y.deadline > now)}
        /\ \A t \in Time : Upto(q, k - 1, t) = Having(u, t) + Having(v, t)
    BY <1>7
  <2>4. \A s \in Seq(T) : ToSet(Append(s, x)) = ToSet(s) \cup {x}
    <3>1. ASSUME NEW s \in Seq(T) PROVE ToSet(Append(s, x)) = ToSet(s) \cup {x}
      <4> HIDE DEF x
      <4>1. DOMAIN s = 1..Len(s) /\ Len(s) \in Nat /\ DOMAIN Append(s, x) = 1..(Len(s) + 1)
        BY <2>1
      <4>2. 1..(Len(s) + 1) = 1..Len(s) \cup {Len(s) + 1}
        BY <4>1
      <4>3. Append(s, x)[Len(s) + 1] = x /\ \A i \in 1..Len(s) : Append(s, x)[i] = s[i]
        BY <2>1
      <4> QED BY <4>1, <4>2, <4>3 DEF ToSet
    <3> QED BY <3>1
  <2>5. \A t \in Time : Upto(q, k, t) = Having(u, t) + Having(v, t) + (IF x.deadline = t THEN 1 ELSE 0)
    <3>1. ASSUME NEW t \in Time
          PROVE  Upto(q, (k - 1) + 1, t) = Upto(q, k - 1, t) + (IF q[(k - 1) + 1].deadline = t THEN 1 ELSE 0)
      BY <2>1, UptoStep
    <3>2. (k - 1) + 1 = k
      OBVIOUS
    <3> HIDE DEF u, v
    <3> QED BY <2>3, <3>1, <3>2
  <2>6. \A t \in Time : /\ Having(u, t) \in Nat /\ Having(v, t) \in Nat
                        /\ Having(Append(u, x), t) = Having(u, t) + (IF x.deadline = t THEN 1 ELSE 0)
                        /\ Having(Append(v, x), t) = Having(v, t) + (IF x.deadline = t THEN 1 ELSE 0)
    BY <2>1, HavingUpto, HavingAppend
  <2>7. /\ a[k] = IF x.deadline > now THEN Append(u, x) ELSE u
        /\ b[k] = IF x.deadline > now THEN v ELSE Append(v, x)
        /\ k \in 0..n
    BY <1>1, <1>3, <1>4
  <2> HIDE DEF Before, u, v, x
  <2>8. /\ ToSet(a[k]) = {y \in Before(k) : y.deadline > now}
        /\ ToSet(b[k]) = {y \in Before(k) : ~(y.deadline > now)}
    BY <2>1, <2>2, <2>3, <2>4, <2>7
  <2>9. ASSUME NEW t \in Time PROVE Upto(q, k, t) = Having(a[k], t) + Having(b[k], t)
    <3>1. CASE x.deadline > now
      <4>1. a[k] = Append(u, x) /\ b[k] = v
        BY <2>7, <3>1
      <4> DEFINE d == IF x.deadline = t THEN 1 ELSE 0
                 h == Having(u, t)
                 m == Having(v, t)
      <4>2. h \in Nat /\ m \in Nat /\ d \in Nat
        BY <2>6
      <4>3. Upto(q, k, t) = h + m + d /\ Having(Append(u, x), t) = h + d
        BY <2>5, <2>6
      <4> HIDE DEF d, h
      <4>4. Upto(q, k, t) = (h + d) + m
        <5> HIDE DEF m
        <5> QED BY <4>2, <4>3
      <4> QED BY <4>1, <4>3, <4>4
    <3>2. CASE ~(x.deadline > now)
      <4>1. a[k] = u /\ b[k] = Append(v, x)
        BY <2>7, <3>2
      <4> QED BY <2>5, <2>6, <4>1
    <3> QED BY <3>1, <3>2
  <2> QED BY <2>7, <2>8, <2>9
<1> HIDE DEF S
<1>8. n \in S
  <2>1. \A k \in 0..n : k \in S
    BY <1>1, <1>6, <1>7, InductionUpTo
  <2> QED BY <1>1, <2>1
<1>9. InTime(q) \in Seq(T) /\ Late(q) \in Seq(T)
  <2>1. n \in 0..n
    BY <1>1
  <2>2. a[n] \in Seq(T) /\ b[n] \in Seq(T)
    BY <2>1
  <2> QED BY <1>3, <1>4, <2>2
<1>10. \A t \in Time : Having(q, t) = Upto(q, n, t)
  BY <1>5, HavingUpto
<1>11. /\ ToSet(InTime(q)) = {x \in ToSet(q) : x.deadline > now}
       /\ ToSet(Late(q)) = {x \in ToSet(q) : ~(x.deadline > now)}
       /\ \A t \in Time : Upto(q, n, t) = Having(InTime(q), t) + Having(Late(q), t)
  <2> HIDE DEF Before
  <2> QED BY <1>1, <1>3, <1>4, <1>8 DEF S
<1> QED
  BY <1>9, <1>10, <1>11

\* The counts without some entries.
LEMMA UncountedCounts ==
  ASSUME NEW c \in [Time -> Int], NEW q \in Seq(Dated)
  PROVE  /\ Uncounted(c, q) \in [Time -> Int]
         /\ \A t \in Time : Uncounted(c, q)[t] = c[t] - Having(q, t)
<1> DEFINE n == Len(q)
           I == [Time -> Int]
<1>1. n \in Nat /\ DOMAIN q = 1..n /\ \A i \in 1..n : q[i] \in Dated
  OBVIOUS
<1>2. \A x \in Dated : x.deadline \in Time \/ x.deadline = NoDeadline
  <2>1. \A x \in Dated : x.deadline \in 1..NoDeadline
    BY DEF Dated, Delivery, Staged
  <2>2. \A d \in 1..NoDeadline : d \in Time \/ d = NoDeadline
    BY PublicationTimeAssumption DEF Time, NoDeadline
  <2> QED BY <2>1, <2>2
<1>3. NoDeadline \notin Time
  BY PublicationTimeAssumption DEF Time, NoDeadline
<1>4. ASSUME NEW u \in I, NEW x \in Dated
      PROVE  /\ Bump(u, x.deadline, -1) \in I
             /\ \A t \in Time : Bump(u, x.deadline, -1)[t] = u[t] - (IF x.deadline = t THEN 1 ELSE 0)
  <2>1. CASE x.deadline = NoDeadline
    BY <1>3, <2>1 DEF Bump
  <2>2. CASE x.deadline \in Time
    <3> DEFINE d == x.deadline
    <3>1. Bump(u, d, -1) = [u EXCEPT ![d] = @ + (-1)] /\ d \in Time
      BY <1>3, <2>2 DEF Bump
    <3> HIDE DEF d
    <3>2. /\ Bump(u, d, -1) \in I
          /\ \A t \in Time : Bump(u, d, -1)[t] = u[t] - (IF d = t THEN 1 ELSE 0)
      BY <3>1
    <3> QED BY <3>2 DEF d
  <2> QED BY <1>2, <2>1, <2>2
<1>5. \A u \in I, i \in 1..n : Bump(u, q[i].deadline, -1) \in I
  BY <1>1, <1>4
<1> HIDE DEF I
<1>6. UncountedRun(I, c, q)
  BY <1>5, UncountedRuns DEF I
<1>7. PICK run \in [0..n -> I] :
        /\ run[0] = c /\ run[n] = Uncounted(c, q)
        /\ \A i \in 1..n : run[i] = Bump(run[i - 1], q[i].deadline, -1)
  BY <1>6 DEF UncountedRun
<1> DEFINE S == {k \in 0..n : \A t \in Time : run[k][t] = c[t] - Upto(q, k, t)}
<1>8. 0 \in S
  <2>1. \A t \in Time : Upto(q, 0, t) = 0 /\ c[t] \in Int
    BY UptoStep
  <2>2. \A t \in Time : run[0][t] = c[t] - Upto(q, 0, t)
    BY <1>7, <2>1
  <2> QED BY <1>1, <2>2
<1>9. ASSUME NEW k \in 1..n, k - 1 \in S PROVE k \in S
  <2>1. k - 1 \in 0..n /\ k \in 0..n /\ k - 1 \in Nat /\ (k - 1) + 1 = k /\ run[k - 1] \in I /\ q[k] \in Dated
    BY <1>1, <1>7
  <2>2. ASSUME NEW t \in Time PROVE run[k][t] = c[t] - Upto(q, k, t)
    <3>1. run[k][t] = run[k - 1][t] - (IF q[k].deadline = t THEN 1 ELSE 0)
      BY <1>4, <1>7, <2>1
    <3>2. run[k - 1][t] = c[t] - Upto(q, k - 1, t)
      BY <1>9
    <3>3. Upto(q, k, t) = Upto(q, k - 1, t) + (IF q[k].deadline = t THEN 1 ELSE 0) /\ Upto(q, k - 1, t) \in Nat
      <4>1. /\ Upto(q, k - 1, t) \in Nat
            /\ Upto(q, (k - 1) + 1, t) = Upto(q, k - 1, t) + (IF q[(k - 1) + 1].deadline = t THEN 1 ELSE 0)
        BY <2>1, UptoStep
      <4> QED BY <2>1, <4>1
    <3>4. c[t] \in Int
      OBVIOUS
    <3> QED BY <3>1, <3>2, <3>3, <3>4
  <2> QED BY <2>1, <2>2
<1> HIDE DEF S
<1>10. n \in S
  <2>1. \A k \in 0..n : k \in S
    BY <1>1, <1>8, <1>9, InductionUpTo
  <2> QED BY <1>1, <2>1
<1>11. run[n] \in I
  BY <1>1, <1>7
<1>12. \A t \in Time : run[n][t] = c[t] - Upto(q, n, t)
  BY <1>10 DEF S
<1>13. \A t \in Time : Having(q, t) = Upto(q, n, t)
  BY HavingUpto
<1> QED
  BY <1>7, <1>11, <1>12, <1>13 DEF I

LEMMA TimeNumbers == Time \in SUBSET Nat /\ IsFiniteSet(Time) /\ NoDeadline \notin Time
                     /\ NoDeadline \in Nat /\ \A t \in Time : t < NoDeadline
<1>1. Time \in SUBSET Nat /\ NoDeadline \notin Time /\ NoDeadline \in Nat /\ \A t \in Time : t < NoDeadline
  BY PublicationTimeAssumption DEF Time, NoDeadline
<1>2. IsFiniteSet(Time)
  BY PublicationTimeAssumption, FS_Interval DEF Time
<1> QED
  BY <1>1, <1>2

\* A set of numbers that is not empty has a least one.
LEMMA LeastNumber ==
  ASSUME NEW X \in SUBSET Nat, X # {}
  PROVE  \E m \in X : \A y \in X : m <= y
<1> DEFINE R == OpToRel(<, Nat)
<1>1. IsWellFoundedOn(R, Nat)
  BY NatLessThanWellFounded
<1>2. PICK m \in X : \A y \in X : ~(<<y, m>> \in R)
  <2> HIDE DEF R
  <2> QED BY <1>1, WFMin
<1>3. \A y \in X : <<y, m>> \in Nat \X Nat /\ <<y, m>>[1] = y /\ <<y, m>>[2] = m
  OBVIOUS
<1>4. \A y \in X : y < m => <<y, m>> \in R
  BY <1>3 DEF OpToRel
<1> HIDE DEF R
<1>5. ASSUME NEW y \in X PROVE m <= y
  <2>1. y \in Nat /\ m \in Nat
    OBVIOUS
  <2>2. ~(y < m)
    BY <1>2, <1>4
  <2> QED BY <2>1, <2>2
<1> QED
  BY <1>5

\* ActorDeadlines::first
LEMMA FirstIs ==
  ASSUME NEW c \in [Time -> Int]
  PROVE  /\ First(c) \in Time \cup {NoDeadline}
         /\ First(c) \in Time => c[First(c)] > 0
         /\ \A t \in Time : c[t] > 0 => First(c) \in Time /\ First(c) <= t
<1> DEFINE used == {t \in Time : c[t] > 0}
<1>1. CASE used = {}
  BY <1>1, TimeNumbers DEF First
<1>2. CASE used # {}
  <2>1. First(c) = CHOOSE t \in used : \A u \in used : t <= u
    BY <1>2 DEF First
  <2>2. \E t \in used : \A u \in used : t <= u
    BY <1>2, LeastNumber, TimeNumbers
  <2>3. First(c) \in used /\ \A u \in used : First(c) <= u
    BY <2>1, <2>2
  <2> QED BY <2>3
<1> QED
  BY <1>1, <1>2

\* DeadlineIndex::set
LEMMA SetDueKeeps ==
  ASSUME NEW counters \in [Actor -> [Time -> Int]], NEW d,
         d \in [actors : [Actor -> Time \cup {NoDeadline}], ordered : SUBSET (Time \X Actor)],
         DueExact(counters, d), NEW a \in Actor, NEW c \in [Time -> Int]
  PROVE  /\ SetDue(d, a, First(c)) \in
              [actors : [Actor -> Time \cup {NoDeadline}], ordered : SUBSET (Time \X Actor)]
         /\ DueExact([counters EXCEPT ![a] = c], SetDue(d, a, First(c)))
<1> DEFINE t == First(c)
           actors == [d.actors EXCEPT ![a] = t]
           ordered == IF t = NoDeadline THEN d.ordered \ {<<d.actors[a], a>>}
                      ELSE (d.ordered \ {<<d.actors[a], a>>}) \cup {<<t, a>>}
           u == SetDue(d, a, t)
<1>1. t \in Time \cup {NoDeadline} /\ NoDeadline \notin Time
  BY FirstIs, TimeNumbers
<1>2. d.actors \in [Actor -> Time \cup {NoDeadline}] /\ d.ordered \in SUBSET (Time \X Actor)
  OBVIOUS
<1> HIDE DEF t
<1>3. u = [actors |-> actors, ordered |-> ordered]
  <2>1. RemoveDue(d, a) = [actors |-> [d.actors EXCEPT ![a] = NoDeadline],
                           ordered |-> d.ordered \ {<<d.actors[a], a>>}]
    BY DEF RemoveDue
  <2>2. CASE t = NoDeadline
    BY <2>1, <2>2 DEF SetDue
  <2>3. CASE t # NoDeadline
    <3>1. [[d.actors EXCEPT ![a] = NoDeadline] EXCEPT ![a] = t] = actors
      BY <1>2
    <3> QED BY <2>1, <2>3, <3>1 DEF SetDue
  <2> QED BY <2>2, <2>3
<1>4. actors \in [Actor -> Time \cup {NoDeadline}] /\ ordered \in SUBSET (Time \X Actor)
  BY <1>1, <1>2
<1>5. \A b \in Actor : actors[b] = First([counters EXCEPT ![a] = c][b])
  <2>1. ASSUME NEW b \in Actor PROVE actors[b] = First([counters EXCEPT ![a] = c][b])
    <3>1. CASE b = a
      BY <1>2, <3>1 DEF t
    <3>2. CASE b # a
      BY <1>2, <3>2 DEF DueExact
    <3> QED BY <3>1, <3>2
  <2> QED BY <2>1
<1>6. ordered = {e \in Time \X Actor : e[1] = actors[e[2]]}
  <2>1. ASSUME NEW e \in Time \X Actor PROVE e \in ordered <=> e[1] = actors[e[2]]
    <3>1. e[1] \in Time /\ e[2] \in Actor /\ e = <<e[1], e[2]>>
      OBVIOUS
    <3>2. e \in d.ordered <=> e[1] = d.actors[e[2]]
      BY DEF DueExact
    <3>3. CASE e[2] = a
      <4>1. actors[e[2]] = t
        BY <1>2, <3>3
      <4>2. e \notin d.ordered \ {<<d.actors[a], a>>}
        BY <3>1, <3>2, <3>3
      <4>3. e = <<t, a>> <=> e[1] = t
        BY <3>1, <3>3
      <4> HIDE DEF actors
      <4> QED BY <1>1, <3>1, <4>1, <4>2, <4>3
    <3>4. CASE e[2] # a
      <4>1. actors[e[2]] = d.actors[e[2]]
        BY <1>2, <3>1, <3>4
      <4>2. e # <<d.actors[a], a>> /\ e # <<t, a>>
        BY <3>1, <3>4
      <4> HIDE DEF actors
      <4> QED BY <3>2, <4>1, <4>2
    <3> QED BY <3>3, <3>4
  <2> HIDE DEF actors
  <2> QED BY <1>4, <2>1
<1> HIDE DEF actors, ordered, u
<1> QED
  <2>1. u.actors = actors /\ u.ordered = ordered
    BY <1>3
  <2>2. u \in [actors : [Actor -> Time \cup {NoDeadline}], ordered : SUBSET (Time \X Actor)]
    BY <1>3, <1>4
  <2>3. DueExact([counters EXCEPT ![a] = c], u)
    BY <1>5, <1>6, <2>1 DEF DueExact
  <2> QED BY <2>2, <2>3 DEF u, t

\* The mailboxes with other contents for one actor.
Changed(b, a, q, s, c) ==
  [queue |-> [b.queue EXCEPT ![a] = q], staged |-> [b.staged EXCEPT ![a] = s],
   counts |-> [b.counts EXCEPT ![a] = c], due |-> SetDue(b.due, a, First(c)),
   stagedActors |-> IF s = <<>> THEN b.stagedActors \ {a} ELSE b.stagedActors \cup {a}]

LEMMA BoxFields ==
  ASSUME NEW b \in BoxType
  PROVE  /\ b.queue \in [Actor -> Seq(Delivery)] /\ b.staged \in [Actor -> Seq(Staged)]
         /\ b.counts \in [Actor -> [Time -> Int]]
         /\ b.due \in [actors : [Actor -> Time \cup {NoDeadline}], ordered : SUBSET (Time \X Actor)]
         /\ b.due.actors \in [Actor -> Time \cup {NoDeadline}]
         /\ b.due.ordered \in SUBSET (Time \X Actor)
         /\ b.stagedActors \in SUBSET Actor
         /\ b = [queue |-> b.queue, staged |-> b.staged, counts |-> b.counts, due |-> b.due,
                 stagedActors |-> b.stagedActors]
  BY DEF BoxType

ChangedOk(b, a, q, s, c) ==
  LET u == Changed(b, a, q, s, c) IN
  BoxOk(u) /\ u.queue = [b.queue EXCEPT ![a] = q] /\ u.staged = [b.staged EXCEPT ![a] = s]

LEMMA ChangedKeeps ==
  ASSUME NEW b, BoxOk(b), NEW a \in Actor, NEW q \in Seq(Delivery), NEW s \in Seq(Staged),
         NEW c \in [Time -> Int], CountsExact(q, s, c)
  PROVE  ChangedOk(b, a, q, s, c)
<1> USE BoxFields
<1> DEFINE u == Changed(b, a, q, s, c)
           queues == [b.queue EXCEPT ![a] = q]
           stages == [b.staged EXCEPT ![a] = s]
           counters == [b.counts EXCEPT ![a] = c]
           dues == SetDue(b.due, a, First(c))
           waiting == IF s = <<>> THEN b.stagedActors \ {a} ELSE b.stagedActors \cup {a}
<1>1. b \in BoxType
  BY DEF BoxOk
<1>2. /\ queues \in [Actor -> Seq(Delivery)] /\ queues[a] = q
      /\ \A x \in Actor \ {a} : queues[x] = b.queue[x]
  BY <1>1
<1>3. /\ stages \in [Actor -> Seq(Staged)] /\ stages[a] = s
      /\ \A x \in Actor \ {a} : stages[x] = b.staged[x]
  BY <1>1
<1>4. /\ counters \in [Actor -> [Time -> Int]] /\ counters[a] = c
      /\ \A x \in Actor \ {a} : counters[x] = b.counts[x]
  BY <1>1
<1>5. /\ dues \in [actors : [Actor -> Time \cup {NoDeadline}], ordered : SUBSET (Time \X Actor)]
      /\ DueExact(counters, dues)
  BY <1>1, SetDueKeeps DEF BoxOk
<1> HIDE DEF queues, stages, counters, dues
<1>6. waiting = {x \in Actor : stages[x] # <<>>}
  BY <1>3 DEF BoxOk
<1> HIDE DEF waiting
<1>7. /\ u = [queue |-> queues, staged |-> stages, counts |-> counters, due |-> dues,
              stagedActors |-> waiting]
  BY DEF Changed, queues, stages, counters, dues, waiting
<1> HIDE DEF u
<1>8. u \in BoxType
  BY <1>2, <1>3, <1>4, <1>5, <1>6, <1>7 DEF BoxType
<1>9. u.queue = queues /\ u.staged = stages /\ u.counts = counters /\ u.due = dues /\ u.stagedActors = waiting
  BY <1>7
<1>10. \A x \in Actor : CountsExact(queues[x], stages[x], counters[x])
  BY <1>2, <1>3, <1>4 DEF BoxOk
<1>11. BoxOk(u)
  BY <1>5, <1>6, <1>8, <1>9, <1>10 DEF BoxOk
<1> QED
  BY <1>9, <1>11 DEF ChangedOk, u, queues, stages

-----------------------------------------------------------------------------
(* What the calls that accept and route nothing do to the publications.    *)

SameWork(p, q) ==
  p.source = q.source /\ p.completion = q.completion /\ p.routes = q.routes /\ p.cursor = q.cursor

\* Publications go, and others may leave their staging; tickets and identities
\* go, and the reports keep what they have counted.
Shrinks(u, t) ==
  /\ \A id \in Pending(u.entries) : /\ id \in Pending(t.entries)
                                    /\ SameWork(u.entries[id], t.entries[id])
  /\ t.nextId <= u.nextId /\ u.held \subseteq t.held
  /\ \A id \in Pending(u.entries) \cup u.held : u.tickets[id].admitted = t.tickets[id].admitted
  /\ u.snapshotEntries <= t.snapshotEntries

LEMMA ShrinksComposes ==
  ASSUME NEW t \in TableType, NEW u \in TableType, NEW v \in TableType, Shrinks(u, t), Shrinks(v, u)
  PROVE  Shrinks(v, t)
<1>1. /\ t.nextId \in Int /\ u.nextId \in Int /\ v.nextId \in Int
      /\ t.snapshotEntries \in Int /\ u.snapshotEntries \in Int /\ v.snapshotEntries \in Int
  <2>1. \A w \in TableType : w.nextId \in Int /\ w.snapshotEntries \in Int
    BY DEF TableType
  <2> QED BY <2>1
<1>2. t.nextId <= v.nextId /\ v.snapshotEntries <= t.snapshotEntries
  BY <1>1 DEF Shrinks
<1> QED
  BY <1>2 DEF Shrinks, SameWork

LEMMA ShrinksSelf ==
  ASSUME NEW t \in TableType PROVE Shrinks(t, t)
<1>1. t.nextId \in Int /\ t.snapshotEntries \in Int
  BY DEF TableType
<1> QED
  BY <1>1 DEF Shrinks, SameWork

LEMMA LeavesShrinks ==
  ASSUME NEW t \in TableType, NEW u, NEW gone, Leaves(u, t, gone),
         u.snapshotEntries <= t.snapshotEntries
  PROVE  Shrinks(u, t)
<1>1. t.nextId \in Int
  BY DEF TableType
<1> QED
  BY <1>1 DEF Leaves, Shrinks, SameWork, Pending

LEMMA UnstagesShrinks ==
  ASSUME NEW t \in TableType, NEW u, NEW ids, Unstages(u, t, ids)
  PROVE  Shrinks(u, t)
<1>1. t.nextId \in Int /\ t.snapshotEntries \in Int /\ t.entries \in EntriesType /\ t.held \in SUBSET PubId
  BY DEF TableType, EntriesType
<1>2. ASSUME NEW id \in Pending(u.entries)
      PROVE  id \in Pending(t.entries) /\ SameWork(u.entries[id], t.entries[id])
  <2>1. id \in PubId /\ u.entries[id] # NoPublication
    BY <1>2 DEF Pending
  <2>2. t.entries[id] # NoPublication
    BY <2>1 DEF Unstages
  <2>3. t.entries[id] \in Publication
    BY <1>1, <2>1, <2>2 DEF EntriesType
  <2>4. SameWork([t.entries[id] EXCEPT !.staged = FALSE], t.entries[id])
    BY <2>3 DEF Publication, SameWork
  <2>5. SameWork(t.entries[id], t.entries[id])
    BY DEF SameWork
  <2> QED BY <2>1, <2>2, <2>4, <2>5 DEF Unstages, Pending
<1>3. Pending(u.entries) \cup u.held \subseteq PubId
  BY <1>1 DEF Unstages, Pending
<1> QED
  BY <1>1, <1>2, <1>3 DEF Unstages, Shrinks

-----------------------------------------------------------------------------
(* The steps of a call: publications and mailboxes.                        *)

WorldType == [pubs : TableType, box : BoxType]

WorldOk(w) ==
  TableOk(w.pubs, {}) /\ BoxOk(w.box) /\ StagedLinked(w.pubs.entries, w.box.staged)

Worlds == {w \in WorldType : WorldOk(w)}

LEMMA WorldFields ==
  ASSUME NEW w \in Worlds
  PROVE  /\ w.pubs \in TableType /\ TableOk(w.pubs, {})
         /\ w.box \in BoxType /\ BoxOk(w.box)
         /\ StagedLinked(w.pubs.entries, w.box.staged)
  BY DEF Worlds, WorldType, WorldOk

LEMMA WorldMade ==
  ASSUME NEW t, NEW b, TableOk(t, {}), BoxOk(b), StagedLinked(t.entries, b.staged)
  PROVE  [pubs |-> t, box |-> b] \in Worlds
<1>1. t \in TableType /\ b \in BoxType
  BY DEF TableOk, BoxOk
<1> QED
  BY <1>1 DEF Worlds, WorldType, WorldOk

\* The identities of a staging queue.
LEMMA PubsOfSeq ==
  ASSUME NEW s \in Seq(Staged)
  PROVE  PubsOf(s) \in Seq(PubId) /\ ToSet(PubsOf(s)) = {x.pub : x \in ToSet(s)}
<1>1. DOMAIN s = 1..Len(s) /\ Len(s) \in Nat /\ \A i \in DOMAIN s : s[i] \in Staged
  OBVIOUS
<1>2. \A i \in DOMAIN s : s[i].pub \in PubId
  BY <1>1 DEF Staged
<1>3. PubsOf(s) \in [1..Len(s) -> PubId] /\ DOMAIN PubsOf(s) = DOMAIN s
  BY <1>1, <1>2 DEF PubsOf
<1>4. PubsOf(s) \in Seq(PubId)
  BY <1>1, <1>3, IsASeq
<1>5. \A i \in DOMAIN s : PubsOf(s)[i] = s[i].pub
  BY DEF PubsOf
<1>6. ToSet(PubsOf(s)) = {x.pub : x \in ToSet(s)}
  BY <1>3, <1>5 DEF ToSet
<1> QED
  BY <1>4, <1>6

LEMMA StagedDated == /\ Staged \subseteq Dated /\ Delivery \subseteq Dated
                     /\ \A s \in Seq(Staged) : s \in Seq(Dated)
                     /\ \A s \in Seq(Delivery) : s \in Seq(Dated)
  BY DEF Dated

LEMMA RefreshShape ==
  ASSUME NEW Q, NEW G, NEW C, NEW D, NEW A, NEW a, NEW c, NEW b,
         b = [queue |-> Q, staged |-> G, counts |-> C, due |-> D, stagedActors |-> A]
  PROVE  Refresh(b, a, c) = [queue |-> Q, staged |-> G, counts |-> [C EXCEPT ![a] = c],
                             due |-> SetDue(D, a, First(c)), stagedActors |-> A]
<1> DEFINE m == [C EXCEPT ![a] = c]
           d == SetDue(D, a, First(c))
<1>1. b.counts = C /\ b.due = D
  OBVIOUS
<1>2. Refresh(b, a, c) = [[b EXCEPT !.counts = m] EXCEPT !.due = d]
  <2>1. [b EXCEPT !.counts = [b.counts EXCEPT ![a] = c], !.due = SetDue(b.due, a, First(c))] =
        [[b EXCEPT !.counts = [b.counts EXCEPT ![a] = c]] EXCEPT !.due = SetDue(b.due, a, First(c))]
    OBVIOUS
  <2> QED BY <1>1, <2>1 DEF Refresh
<1> HIDE DEF m, d
<1>3. [b EXCEPT !.counts = m] =
      [queue |-> Q, staged |-> G, counts |-> m, due |-> D, stagedActors |-> A]
  OBVIOUS
<1>4. [[queue |-> Q, staged |-> G, counts |-> m, due |-> D, stagedActors |-> A] EXCEPT !.due = d] =
      [queue |-> Q, staged |-> G, counts |-> m, due |-> d, stagedActors |-> A]
  OBVIOUS
<1> QED
  BY <1>2, <1>3, <1>4 DEF m, d

\* expire_events_locked for one actor.
LEMMA ExpireActorKeeps ==
  ASSUME now \in Time, NEW w \in Worlds, NEW a \in Actor
  PROVE  LET u == ExpireActor(w, a) IN
         /\ u \in Worlds /\ Shrinks(u.pubs, w.pubs)
         /\ u.box.staged = [w.box.staged EXCEPT ![a] = InTime(w.box.staged[a])]
<1> DEFINE t == w.pubs
           b == w.box
           q == b.queue[a]
           s == b.staged[a]
           gone == Late(s)
           kept == InTime(s)
           c == Uncounted(Uncounted(b.counts[a], Late(q)), gone)
           v == Cancel(t, PubsOf(gone), "Expired")
           box == Changed(b, a, InTime(q), kept, c)
           stages == [b.staged EXCEPT ![a] = kept]
<1>1. /\ t \in TableType /\ TableOk(t, {}) /\ b \in BoxType /\ BoxOk(b)
      /\ StagedLinked(t.entries, b.staged)
  BY WorldFields
<1> HIDE DEF t, b
<1>2. q \in Seq(Delivery) /\ s \in Seq(Staged) /\ b.counts[a] \in [Time -> Int]
  BY <1>1, BoxFields
<1>3. /\ InTime(q) \in Seq(Delivery) /\ Late(q) \in Seq(Delivery)
      /\ \A d \in Time : Having(q, d) = Having(InTime(q), d) + Having(Late(q), d)
  <2> HIDE DEF q
  <2> QED BY <1>2, ExpirySplits, StagedDated
<1>4. /\ kept \in Seq(Staged) /\ gone \in Seq(Staged)
      /\ ToSet(kept) = {x \in ToSet(s) : x.deadline > now}
      /\ ToSet(gone) = {x \in ToSet(s) : ~(x.deadline > now)}
      /\ \A d \in Time : Having(s, d) = Having(kept, d) + Having(gone, d)
  <2> HIDE DEF s
  <2> QED BY <1>2, ExpirySplits, StagedDated
<1>5. CountsExact(q, s, b.counts[a])
  BY <1>1 DEF BoxOk
<1> HIDE DEF q, s, gone, kept
<1>6. c \in [Time -> Int] /\ CountsExact(InTime(q), kept, c)
  <2> DEFINE m == Uncounted(b.counts[a], Late(q))
  <2>1. m \in [Time -> Int] /\ \A d \in Time : m[d] = b.counts[a][d] - Having(Late(q), d)
    BY <1>2, <1>3, StagedDated, UncountedCounts
  <2> HIDE DEF m
  <2>2. /\ Uncounted(m, gone) \in [Time -> Int]
        /\ \A d \in Time : Uncounted(m, gone)[d] = m[d] - Having(gone, d)
    BY <1>4, <2>1, StagedDated, UncountedCounts
  <2>3. ASSUME NEW d \in Time PROVE Uncounted(m, gone)[d] = Having(InTime(q), d) + Having(kept, d)
    <3>1. /\ Having(InTime(q), d) \in Nat /\ Having(Late(q), d) \in Nat
          /\ Having(kept, d) \in Nat /\ Having(gone, d) \in Nat
      BY <1>3, <1>4, StagedDated, HavingUpto
    <3>2. b.counts[a][d] = Having(q, d) + Having(s, d)
      BY <1>5 DEF CountsExact
    <3> DEFINE n1 == Having(InTime(q), d)
               n2 == Having(Late(q), d)
               n3 == Having(kept, d)
               n4 == Having(gone, d)
    <3>3. Uncounted(m, gone)[d] = (((n1 + n2) + (n3 + n4)) - n2) - n4
      BY <1>3, <1>4, <2>1, <2>2, <3>2
    <3> HIDE DEF n1, n2, n3, n4
    <3>4. Uncounted(m, gone)[d] = n1 + n3
      BY <3>1, <3>3 DEF n1, n2, n3, n4
    <3> QED BY <3>4 DEF n1, n3
  <2> QED BY <2>2, <2>3 DEF CountsExact, m
<1> HIDE DEF c
<1>7. ExpireActor(w, a) = [pubs |-> v, box |-> box]
  <2>1. (IF kept = <<>> THEN b.stagedActors \ {a} ELSE b.stagedActors)
          = (IF kept = <<>> THEN b.stagedActors \ {a} ELSE b.stagedActors \cup {a})
    <3>1. ASSUME kept # <<>> PROVE a \in b.stagedActors
      <4>1. Len(kept) \in Nat \ {0} /\ DOMAIN kept = 1..Len(kept)
        BY <1>4, <3>1
      <4>2. kept[1] \in ToSet(s)
        <5>1. kept[1] \in ToSet(kept)
          BY <4>1 DEF ToSet
        <5> QED BY <1>4, <5>1
      <4>3. ToSet(<<>>) = {}
        BY DEF ToSet
      <4>4. b.staged[a] # <<>>
        BY <4>2, <4>3 DEF s
      <4> QED BY <1>1, <4>4 DEF BoxOk
    <3> QED BY <3>1
  <2> DEFINE r == [b EXCEPT !.queue = [b.queue EXCEPT ![a] = InTime(q)],
                            !.staged = [b.staged EXCEPT ![a] = kept],
                            !.stagedActors = IF kept = <<>> THEN @ \ {a} ELSE @]
  <2>2. /\ r.queue = [b.queue EXCEPT ![a] = InTime(q)] /\ r.staged = [b.staged EXCEPT ![a] = kept]
        /\ r.counts = b.counts /\ r.due = b.due
        /\ r.stagedActors = IF kept = <<>> THEN b.stagedActors \ {a} ELSE b.stagedActors
        /\ r = [queue |-> r.queue, staged |-> r.staged, counts |-> r.counts, due |-> r.due,
                stagedActors |-> r.stagedActors]
    <3> DEFINE Q == [b.queue EXCEPT ![a] = InTime(q)]
               G == [b.staged EXCEPT ![a] = kept]
               A == IF kept = <<>> THEN b.stagedActors \ {a} ELSE b.stagedActors
    <3>1. r = [b EXCEPT !.queue = Q, !.staged = G, !.stagedActors = A]
      OBVIOUS
    <3>2. b = [queue |-> b.queue, staged |-> b.staged, counts |-> b.counts, due |-> b.due,
               stagedActors |-> b.stagedActors]
      BY <1>1, BoxFields
    <3> HIDE DEF r, Q, G, A
    <3>3. r = [queue |-> Q, staged |-> G, counts |-> b.counts, due |-> b.due, stagedActors |-> A]
      BY <3>1, <3>2
    <3>4. r.queue = Q /\ r.staged = G /\ r.counts = b.counts /\ r.due = b.due /\ r.stagedActors = A
      BY <3>3
    <3> QED BY <3>3, <3>4 DEF Q, G, A
  <2> HIDE DEF r
  <2>3. Refresh(r, a, c) = box
    <3>1. Refresh(r, a, c) = [queue |-> r.queue, staged |-> r.staged,
                              counts |-> [r.counts EXCEPT ![a] = c],
                              due |-> SetDue(r.due, a, First(c)), stagedActors |-> r.stagedActors]
      BY <2>2, RefreshShape
    <3> QED BY <2>1, <2>2, <3>1 DEF Changed
  <2>4. ExpireActor(w, a) = [pubs |-> v, box |-> Refresh(r, a, c)]
    BY DEF ExpireActor, t, b, q, s, gone, kept, c, r
  <2> QED BY <2>3, <2>4
<1>8. /\ BoxOk(box) /\ box.staged = stages
  <2> HIDE DEF box, stages
  <2>1. ChangedOk(b, a, InTime(q), kept, c)
    BY <1>1, <1>3, <1>4, <1>6, ChangedKeeps
  <2> QED BY <2>1 DEF ChangedOk, box, stages
<1>9. /\ PubsOf(gone) \in Seq(PubId) /\ ToSet(PubsOf(gone)) = {x.pub : x \in ToSet(gone)}
  BY <1>4, PubsOfSeq
<1>10. /\ TableOk(v, {}) /\ Leaves(v, t, {x.pub : x \in ToSet(gone)})
       /\ v.snapshotEntries <= t.snapshotEntries
  <2>1. "Expired" \in Outcomes
    BY DEF Outcomes
  <2> QED BY <1>1, <1>9, <2>1, CancelKeeps
<1> HIDE DEF v, box
<1>11. Shrinks(v, t)
  BY <1>1, <1>10, LeavesShrinks
<1>12. StagedLinked(v.entries, stages)
  <2> DEFINE Of(x) == {id \in Pending(t.entries) : t.entries[id].source = x /\ t.entries[id].staged}
             Left(x) == {id \in Pending(v.entries) : v.entries[id].source = x /\ v.entries[id].staged}
             dead == {x.pub : x \in ToSet(gone)}
  <2>1. /\ stages[a] = kept /\ \A x \in Actor \ {a} : stages[x] = b.staged[x]
    BY <1>1, <1>4, BoxFields
  <2>2. \A x \in Actor : {y.pub : y \in ToSet(b.staged[x])} = Of(x)
    BY <1>1 DEF StagedLinked
  <2>3. \A x \in Actor : \A y \in ToSet(b.staged[x]) : t.entries[y.pub].deadline = y.deadline
    BY <1>1 DEF StagedLinked
  <2>4. dead \subseteq Of(a)
    BY <1>4, <2>2 DEF s
  <2>5. \A x \in Actor : Left(x) = Of(x) \ dead
    <3>1. \A id \in PubId : v.entries[id] = IF id \in dead THEN NoPublication ELSE t.entries[id]
      BY <1>10 DEF Leaves
    <3> HIDE DEF dead
    <3> QED BY <3>1 DEF Pending
  <2>6. \A id \in PubId \ dead : v.entries[id] = t.entries[id]
    BY <1>10 DEF Leaves
  <2>7. {y.pub : y \in ToSet(kept)} = Of(a) \ dead
    <3>1. \A y \in ToSet(s) : t.entries[y.pub].deadline = y.deadline
      BY <2>3 DEF s
    <3>2. \A y \in ToSet(kept), z \in ToSet(gone) : y.pub # z.pub
      BY <1>4, <3>1
    <3>3. {y.pub : y \in ToSet(s)} = Of(a)
      BY <2>2 DEF s
    <3>4. \A y \in ToSet(s) : y \in ToSet(kept) \/ y \in ToSet(gone)
      BY <1>4
    <3>5. \A y \in ToSet(kept) : y \in ToSet(s)
      BY <1>4
    <3> HIDE DEF Of
    <3> QED BY <3>2, <3>3, <3>4, <3>5
  <2>8. ASSUME NEW x \in Actor
        PROVE  /\ {y.pub : y \in ToSet(stages[x])} = Left(x)
               /\ \A y \in ToSet(stages[x]) : v.entries[y.pub].deadline = y.deadline
    <3>1. /\ {y.pub : y \in ToSet(stages[x])} = Of(x) \ dead
          /\ \A y \in ToSet(stages[x]) : y \in ToSet(b.staged[x])
      <4>1. CASE x = a
        BY <1>4, <2>1, <2>7, <4>1 DEF s
      <4>2. CASE x # a
        <5>1. Of(x) \cap Of(a) = {}
          BY <4>2
        <5>2. stages[x] = b.staged[x]
          BY <2>1, <4>2
        <5> HIDE DEF Of, dead
        <5> QED BY <2>2, <2>4, <5>1, <5>2
      <4> QED BY <4>1, <4>2
    <3>2. {y.pub : y \in ToSet(stages[x])} = Left(x)
      BY <2>5, <3>1
    <3>3. ASSUME NEW y \in ToSet(stages[x]) PROVE v.entries[y.pub].deadline = y.deadline
      <4>1. y.pub \in Of(x) \ dead
        BY <3>1
      <4>2. y.pub \in PubId \ dead
        BY <4>1 DEF Pending
      <4>3. t.entries[y.pub].deadline = y.deadline
        BY <2>3, <3>1
      <4> HIDE DEF dead
      <4> QED BY <2>6, <4>2, <4>3
    <3> QED BY <3>2, <3>3
  <2> HIDE DEF stages
  <2> QED BY <2>8 DEF StagedLinked
<1>13. [pubs |-> v, box |-> box] \in Worlds
  <2>1. StagedLinked(v.entries, box.staged)
    BY <1>8, <1>12
  <2> QED BY <1>8, <1>10, <2>1, WorldMade
<1>14. box.staged = [w.box.staged EXCEPT ![a] = InTime(w.box.staged[a])]
  BY <1>8 DEF stages, kept, s, b
<1> QED
  BY <1>7, <1>11, <1>13, <1>14 DEF t

\* Actors listed in slot order.
LEMMA SortedActors ==
  ASSUME NEW S \in SUBSET Actor
  PROVE  LET s == Sorted(S, LAMBDA a, b : a < b) IN s \in Seq(Actor) /\ ToSet(s) = S
<1>1. S \in SUBSET Int /\ IsFiniteSet(S)
  <2>1. IsFiniteSet(S)
    BY RouteActorAssumption, FS_Subset
  <2>2. \A a \in Actor : a \in Int
    BY RouteActorAssumption
  <2> QED BY <2>1, <2>2
<1> DEFINE s == Sorted(S, LAMBDA a, b : a < b)
<1>2. s \in Seq(S) /\ ToSet(s) = S
  BY <1>1, SortedNumbers
<1> HIDE DEF s
<1>3. s \in Seq(Actor)
  BY <1>2
<1> QED
  BY <1>2, <1>3 DEF s

\* An actor with an overdue entry is among the due ones.
LEMMA OverdueIsDue ==
  ASSUME now \in Time, NEW b, BoxOk(b), NEW a \in Actor,
         a \notin {e[2] : e \in {d \in b.due.ordered : d[1] <= now}}, NEW x \in ToSet(b.staged[a])
  PROVE  x.deadline > now
<1>1. /\ b \in BoxType /\ b.counts[a] \in [Time -> Int] /\ b.queue[a] \in Seq(Delivery)
      /\ b.staged[a] \in Seq(Staged)
  BY BoxFields DEF BoxOk
<1> DEFINE s == b.staged[a]
           q == b.queue[a]
           c == b.counts[a]
           t == x.deadline
<1>2. PICK i \in DOMAIN s : x = s[i]
  BY DEF ToSet
<1>3. t \in Time \cup {NoDeadline} /\ now < NoDeadline /\ now \in Nat
  <2>1. x \in Staged
    BY <1>1, <1>2
  <2>2. t \in 1..NoDeadline
    BY <2>1 DEF Staged
  <2> QED BY <2>2, TimeNumbers, PublicationTimeAssumption DEF Time, NoDeadline
<1>4. CASE t = NoDeadline
  BY <1>3, <1>4
<1>5. CASE t \in Time
  <2>1. c[t] > 0
    <3>1. c[t] = Having(q, t) + Having(s, t)
      BY <1>5 DEF BoxOk, CountsExact
    <3>2. Having(q, t) \in Nat /\ Having(s, t) \in Nat
      BY <1>1, StagedDated, HavingUpto
    <3>3. Having(s, t) # 0
      <4> DEFINE H == {j \in DOMAIN s : s[j].deadline = t}
      <4>1. i \in H
        BY <1>2
      <4>2. IsFiniteSet(H)
        <5>1. DOMAIN s = 1..Len(s) /\ Len(s) \in Nat
          BY <1>1
        <5>2. IsFiniteSet(1..Len(s))
          BY <5>1, FS_Interval
        <5> QED BY <5>1, <5>2, FS_Subset
      <4> HIDE DEF H
      <4>3. Cardinality(H) # 0
        BY <4>1, <4>2, FS_EmptySet
      <4> QED BY <4>3 DEF H, Having
    <3> HIDE DEF s, q, c, t
    <3> QED BY <3>1, <3>2, <3>3
  <2>2. First(c) \in Time /\ First(c) <= t
    BY <1>1, <1>5, <2>1, FirstIs
  <2>3. <<First(c), a>> \in b.due.ordered
    BY <2>2 DEF BoxOk, DueExact
  <2>4. ~(First(c) <= now)
    <3> DEFINE e == <<First(c), a>>
    <3>1. e \in b.due.ordered /\ e[1] = First(c) /\ e[2] = a
      BY <2>3
    <3> HIDE DEF e
    <3> QED BY <3>1
  <2>5. t \in Nat /\ First(c) \in Nat
    BY <1>5, <2>2, TimeNumbers
  <2> HIDE DEF c, t
  <2>6. t > now
    BY <1>3, <2>2, <2>4, <2>5
  <2> QED BY <2>6 DEF t
<1> QED
  BY <1>3, <1>4, <1>5

\* expire_events_locked
LEMMA ExpireEventsKeeps ==
  ASSUME now \in Time, NEW w \in Worlds
  PROVE  LET u == ExpireEvents(w) IN
         /\ u \in Worlds /\ Shrinks(u.pubs, w.pubs)
         /\ \A a \in Actor : \A x \in ToSet(u.box.staged[a]) : x.deadline > now
<1> DEFINE X == {e[2] : e \in {d \in w.box.due.ordered : d[1] <= now}}
           s == Sorted(X, LAMBDA a, b : a < b)
           n == Len(s)
<1>1. s \in Seq(Actor) /\ ToSet(s) = X
  <2>1. w.box.due.ordered \in SUBSET (Time \X Actor)
    BY WorldFields, BoxFields
  <2>2. X \in SUBSET Actor
    BY <2>1
  <2> HIDE DEF X
  <2> QED BY <2>2, SortedActors
<1>2. ExpireEvents(w) = FoldLeft(ExpireActor, w, s)
  BY DEF ExpireEvents
<1> HIDE DEF s
<1>3. n \in Nat /\ DOMAIN s = 1..n /\ \A i \in 1..n : s[i] \in Actor
  BY <1>1
<1>4. \A u \in Worlds, i \in 1..n : ExpireActor(u, s[i]) \in Worlds
  BY <1>3, ExpireActorKeeps
<1>5. ExpireActorRun(Worlds, w, s)
  BY <1>1, <1>4, ExpireActorRuns
<1>6. PICK run \in [0..n -> Worlds] :
        /\ run[0] = w /\ run[n] = FoldLeft(ExpireActor, w, s)
        /\ \A i \in 1..n : run[i] = ExpireActor(run[i - 1], s[i])
  BY <1>5 DEF ExpireActorRun
<1> DEFINE Less(k) == \A a \in Actor : ToSet(run[k].box.staged[a]) \subseteq ToSet(w.box.staged[a])
           Clear(k) == \A j \in 1..k : \A x \in ToSet(run[k].box.staged[s[j]]) : x.deadline > now
           S == {k \in 0..n : Shrinks(run[k].pubs, w.pubs) /\ Less(k) /\ Clear(k)}
<1>7. 0 \in S
  <2>1. Shrinks(w.pubs, w.pubs)
    BY WorldFields, ShrinksSelf
  <2>2. Less(0) /\ Clear(0)
    BY <1>6
  <2> QED BY <1>3, <1>6, <2>1, <2>2
<1>8. ASSUME NEW k \in 1..n, k - 1 \in S PROVE k \in S
  <2>1. k - 1 \in 0..n /\ k \in 0..n /\ run[k - 1] \in Worlds /\ run[k] \in Worlds
    BY <1>3, <1>6
  <2>2. Shrinks(run[k].pubs, run[k - 1].pubs)
    BY <1>3, <1>6, <2>1, ExpireActorKeeps
  <2>3. Shrinks(run[k - 1].pubs, w.pubs)
    BY <1>8
  <2>4. Shrinks(run[k].pubs, w.pubs)
    <3>1. run[k - 1].pubs \in TableType /\ run[k].pubs \in TableType /\ w.pubs \in TableType
      BY <2>1, WorldFields
    <3> QED BY <2>2, <2>3, <3>1, ShrinksComposes
  <2>5. /\ run[k - 1].box.staged \in [Actor -> Seq(Staged)] /\ s[k] \in Actor
        /\ run[k].box.staged =
             [run[k - 1].box.staged EXCEPT ![s[k]] = InTime(run[k - 1].box.staged[s[k]])]
    BY <1>3, <1>6, <2>1, ExpireActorKeeps, WorldFields, BoxFields
  <2> DEFINE g == run[k - 1].box.staged
             h == run[k].box.staged
             c == s[k]
  <2>6. /\ ToSet(h[c]) = {x \in ToSet(g[c]) : x.deadline > now}
        /\ \A a \in Actor \ {c} : h[a] = g[a]
    <3>1. g[c] \in Seq(Staged) /\ h[c] = InTime(g[c])
      BY <2>5
    <3> HIDE DEF g, h, c
    <3>2. ToSet(InTime(g[c])) = {x \in ToSet(g[c]) : x.deadline > now}
      BY <3>1, ExpirySplits, StagedDated
    <3> QED BY <2>5, <3>1, <3>2 DEF g, h, c
  <2>7. Less(k)
    BY <1>8, <2>6
  <2>8. Clear(k)
    <3>1. ASSUME NEW j \in 1..k, NEW x \in ToSet(h[s[j]]) PROVE x.deadline > now
      <4>1. CASE s[j] = c
        BY <2>6, <3>1, <4>1
      <4>2. CASE s[j] # c
        <5>1. j \in 1..(k - 1)
          <6>1. j # k /\ j \in Nat /\ k \in Nat /\ j <= k /\ 1 <= j
            BY <4>2
          <6> QED BY <6>1
        <5>2. s[j] \in Actor \ {c}
          BY <1>3, <4>2, <5>1
        <5>3. x \in ToSet(g[s[j]])
          BY <2>6, <3>1, <5>2
        <5> QED BY <1>8, <5>1, <5>3
      <4> QED BY <4>1, <4>2
    <3> QED BY <3>1
  <2> QED BY <2>1, <2>4, <2>7, <2>8
<1> HIDE DEF S
<1>9. n \in S
  <2>1. \A k \in 0..n : k \in S
    BY <1>3, <1>7, <1>8, InductionUpTo
  <2> QED BY <1>3, <2>1
<1>10. run[n] \in Worlds
  BY <1>3, <1>6
<1>11. Shrinks(run[n].pubs, w.pubs) /\ Less(n) /\ Clear(n)
  BY <1>9 DEF S
<1>12. ASSUME NEW a \in Actor, NEW x \in ToSet(run[n].box.staged[a]) PROVE x.deadline > now
  <2>1. CASE a \in X
    <3>1. PICK j \in 1..n : a = s[j]
      BY <1>1, <1>3, <2>1 DEF ToSet
    <3> QED BY <1>11, <1>12, <3>1
  <2>2. CASE a \notin X
    <3>1. x \in ToSet(w.box.staged[a]) /\ BoxOk(w.box)
      BY <1>11, <1>12, WorldFields
    <3> QED BY <2>2, <3>1, OverdueIsDue
  <2> QED BY <2>1, <2>2
<1> QED
  BY <1>2, <1>6, <1>10, <1>11, <1>12

LEMMA HavingNone == \A t : Having(<<>>, t) = 0
<1>1. ASSUME NEW t PROVE Having(<<>>, t) = 0
  <2>1. <<>> \in Seq(Dated) /\ Len(<<>>) = 0
    OBVIOUS
  <2>2. Upto(<<>>, 0, t) = 0
    BY UptoStep
  <2>3. Having(<<>>, t) = Upto(<<>>, Len(<<>>), t)
    BY <2>1, HavingUpto
  <2> QED BY <2>1, <2>2, <2>3
<1> QED
  BY <1>1

LEMMA StagedShape ==
  ASSUME NEW b \in BoxType, NEW G, NEW A
  PROVE  [b EXCEPT !.staged = G, !.stagedActors = A] =
           [queue |-> b.queue, staged |-> G, counts |-> b.counts, due |-> b.due, stagedActors |-> A]
<1> DEFINE Q == b.queue
           X == b.staged
           C == b.counts
           D == b.due
           Y == b.stagedActors
<1>1. b = [queue |-> Q, staged |-> X, counts |-> C, due |-> D, stagedActors |-> Y]
  BY BoxFields
<1> HIDE DEF Q, X, C, D, Y
<1>2. [b EXCEPT !.staged = G] =
        [queue |-> Q, staged |-> G, counts |-> C, due |-> D, stagedActors |-> Y]
  BY <1>1
<1>3. [[queue |-> Q, staged |-> G, counts |-> C, due |-> D, stagedActors |-> Y] EXCEPT !.stagedActors = A] =
        [queue |-> Q, staged |-> G, counts |-> C, due |-> D, stagedActors |-> A]
  OBVIOUS
<1>4. [b EXCEPT !.staged = G, !.stagedActors = A] = [[b EXCEPT !.staged = G] EXCEPT !.stagedActors = A]
  OBVIOUS
<1> QED
  BY <1>2, <1>3, <1>4 DEF Q, C, D

\* flush_staged_locked for one source.
LEMMA FlushActorKeeps ==
  ASSUME NEW w \in Worlds, NEW a \in Actor
  PROVE  LET u == FlushActor(w, a) IN u \in Worlds /\ Shrinks(u.pubs, w.pubs)
<1> DEFINE t == w.pubs
           b == w.box
           q == b.queue[a]
           s == b.staged[a]
           none == <<>>
           c == Uncounted(b.counts[a], s)
           v == Enqueue(t, PubsOf(s))
           box == Changed(b, a, q, none, c)
           stages == [b.staged EXCEPT ![a] = none]
           ids == {x.pub : x \in ToSet(s)}
<1>1. /\ t \in TableType /\ TableOk(t, {}) /\ b \in BoxType /\ BoxOk(b)
      /\ StagedLinked(t.entries, b.staged)
  BY WorldFields
<1> HIDE DEF t, b
<1>2. /\ q \in Seq(Delivery) /\ s \in Seq(Staged) /\ b.counts[a] \in [Time -> Int]
      /\ none \in Seq(Staged)
  BY <1>1, BoxFields
<1>3. CountsExact(q, s, b.counts[a])
  BY <1>1 DEF BoxOk
<1>4. ToSet(none) = {}
  BY DEF ToSet
<1>5. \A d \in Time : Having(none, d) = 0
  BY HavingNone
<1> HIDE DEF q, s, none
<1>6. c \in [Time -> Int] /\ CountsExact(q, none, c)
  <2>1. c \in [Time -> Int] /\ \A d \in Time : c[d] = b.counts[a][d] - Having(s, d)
    BY <1>2, StagedDated, UncountedCounts
  <2>2. ASSUME NEW d \in Time PROVE c[d] = Having(q, d) + Having(none, d)
    <3>1. Having(q, d) \in Nat /\ Having(s, d) \in Nat
      BY <1>2, StagedDated, HavingUpto
    <3>2. b.counts[a][d] = Having(q, d) + Having(s, d)
      BY <1>3 DEF CountsExact
    <3> HIDE DEF c
    <3> QED BY <1>5, <2>1, <3>1, <3>2
  <2> QED BY <2>1, <2>2 DEF CountsExact
<1> HIDE DEF c
<1>7. FlushActor(w, a) = [pubs |-> v, box |-> box]
  <2> DEFINE G == [b.staged EXCEPT ![a] = <<>>]
             A == b.stagedActors \ {a}
             r == [b EXCEPT !.staged = G, !.stagedActors = A]
  <2>1. FlushActor(w, a) = [pubs |-> v, box |-> Refresh(r, a, c)]
    BY DEF FlushActor, t, b, s, c
  <2> HIDE DEF G, A
  <2>2. r = [queue |-> b.queue, staged |-> G, counts |-> b.counts, due |-> b.due, stagedActors |-> A]
    BY <1>1, StagedShape
  <2> HIDE DEF r
  <2>3. Refresh(r, a, c) = [queue |-> b.queue, staged |-> G, counts |-> [b.counts EXCEPT ![a] = c],
                            due |-> SetDue(b.due, a, First(c)), stagedActors |-> A]
    BY <2>2, RefreshShape
  <2>4. [b.queue EXCEPT ![a] = q] = b.queue
    BY <1>1, BoxFields DEF q
  <2>5. Refresh(r, a, c) = box
    BY <2>3, <2>4 DEF Changed, G, A, none
  <2> QED BY <2>1, <2>5
<1>8. BoxOk(box) /\ box.staged = stages
  <2>1. ChangedOk(b, a, q, none, c)
    BY <1>1, <1>2, <1>6, ChangedKeeps
  <2> QED BY <2>1 DEF ChangedOk
<1>9. TableOk(v, {}) /\ Unstages(v, t, ids)
  <2>1. PubsOf(s) \in Seq(PubId) /\ ToSet(PubsOf(s)) = ids
    BY <1>2, PubsOfSeq
  <2> HIDE DEF ids
  <2> QED BY <1>1, <2>1, EnqueueKeeps
<1> HIDE DEF v, box
<1>10. Shrinks(v, t)
  BY <1>1, <1>9, UnstagesShrinks
<1>11. StagedLinked(v.entries, stages)
  <2> DEFINE Of(x) == {id \in Pending(t.entries) : t.entries[id].source = x /\ t.entries[id].staged}
             Left(x) == {id \in Pending(v.entries) : v.entries[id].source = x /\ v.entries[id].staged}
  <2>1. stages[a] = none /\ \A x \in Actor \ {a} : stages[x] = b.staged[x]
    BY <1>1, BoxFields
  <2>2. \A x \in Actor : {y.pub : y \in ToSet(b.staged[x])} = Of(x)
    BY <1>1 DEF StagedLinked
  <2>3. \A x \in Actor : \A y \in ToSet(b.staged[x]) : t.entries[y.pub].deadline = y.deadline
    BY <1>1 DEF StagedLinked
  <2>4. ids = Of(a)
    BY <2>2 DEF s
  <2> HIDE DEF ids
  <2>5. /\ \A id \in PubId \ ids : v.entries[id] = t.entries[id]
        /\ \A id \in ids : /\ v.entries[id] \in Publication /\ ~v.entries[id].staged
                           /\ v.entries[id].source = a
    <3>1. \A id \in PubId \ ids : v.entries[id] = t.entries[id]
      BY <1>9 DEF Unstages
    <3>2. ASSUME NEW id \in ids
          PROVE  v.entries[id] \in Publication /\ ~v.entries[id].staged /\ v.entries[id].source = a
      <4>1. id \in PubId /\ t.entries[id] # NoPublication /\ t.entries[id].source = a
        BY <2>4 DEF Pending
      <4>2. t.entries[id] \in Publication
        BY <1>1, <4>1, TableFields DEF EntriesType
      <4>3. v.entries[id] = [t.entries[id] EXCEPT !.staged = FALSE]
        BY <1>9, <4>1 DEF Unstages
      <4> QED BY <4>1, <4>2, <4>3 DEF Publication
    <3> QED BY <3>1, <3>2
  <2>6. ASSUME NEW x \in Actor
        PROVE  /\ {y.pub : y \in ToSet(stages[x])} = Left(x)
               /\ \A y \in ToSet(stages[x]) : v.entries[y.pub].deadline = y.deadline
    <3>1. CASE x = a
      <4>1. Left(a) = {}
        <5>1. ASSUME NEW id \in Left(a) PROVE FALSE
          <6>1. id \in PubId /\ v.entries[id] # NoPublication /\ v.entries[id].source = a
                /\ v.entries[id].staged
            BY DEF Pending
          <6>2. id \notin ids
            BY <2>5, <6>1
          <6>3. v.entries[id] = t.entries[id]
            BY <2>5, <6>1, <6>2
          <6>4. id \in Of(a)
            BY <6>1, <6>3 DEF Pending
          <6> HIDE DEF Of
          <6> QED BY <2>4, <6>2, <6>4
        <5> HIDE DEF Left
        <5> QED BY <5>1
      <4> HIDE DEF Left, stages
      <4> QED BY <1>4, <2>1, <3>1, <4>1
    <3>2. CASE x # a
      <4>1. stages[x] = b.staged[x] /\ {y.pub : y \in ToSet(stages[x])} = Of(x)
        BY <2>1, <2>2, <3>2
      <4>2. Of(x) \subseteq PubId \ ids
        BY <2>4, <3>2 DEF Pending
      <4>3. Left(x) = Of(x)
        <5>1. ASSUME NEW id \in PubId PROVE id \in Left(x) <=> id \in Of(x)
          <6>1. CASE id \in ids
            <7>1. id \notin Left(x) /\ id \notin Of(x)
              BY <2>4, <2>5, <3>2, <6>1
            <7> QED BY <7>1
          <6>2. CASE id \notin ids
            BY <2>5, <6>2 DEF Pending
          <6> QED BY <6>1, <6>2
        <5>2. Left(x) \subseteq PubId /\ Of(x) \subseteq PubId
          BY DEF Pending
        <5> HIDE DEF Left, Of
        <5> QED BY <5>1, <5>2
      <4>4. ASSUME NEW y \in ToSet(stages[x]) PROVE v.entries[y.pub].deadline = y.deadline
        <5>1. y.pub \in PubId \ ids
          BY <4>1, <4>2
        <5> QED BY <2>3, <2>5, <4>1, <5>1
      <4> QED BY <4>1, <4>3, <4>4
    <3> QED BY <3>1, <3>2
  <2> HIDE DEF stages
  <2> QED BY <2>6 DEF StagedLinked
<1>12. [pubs |-> v, box |-> box] \in Worlds
  <2>1. StagedLinked(v.entries, box.staged)
    BY <1>8, <1>11
  <2> QED BY <1>8, <1>9, <2>1, WorldMade
<1> QED
  BY <1>7, <1>10, <1>12 DEF t

\* flush_staged_locked
LEMMA FlushStagedKeeps ==
  ASSUME NEW w \in Worlds, NEW st
  PROVE  LET u == FlushStaged(w, st) IN u \in Worlds /\ Shrinks(u.pubs, w.pubs)
<1> DEFINE X == {a \in w.box.stagedActors : st[a] = "Active"}
           s == Sorted(X, LAMBDA a, b : a < b)
           n == Len(s)
<1>1. s \in Seq(Actor)
  <2>1. w.box.stagedActors \in SUBSET Actor
    BY WorldFields, BoxFields
  <2>2. X \in SUBSET Actor
    BY <2>1
  <2> HIDE DEF X
  <2> QED BY <2>2, SortedActors
<1>2. FlushStaged(w, st) = FoldLeft(FlushActor, w, s)
  BY DEF FlushStaged
<1> HIDE DEF s
<1>3. n \in Nat /\ DOMAIN s = 1..n /\ \A i \in 1..n : s[i] \in Actor
  BY <1>1
<1>4. \A u \in Worlds, i \in 1..n : FlushActor(u, s[i]) \in Worlds
  BY <1>3, FlushActorKeeps
<1>5. FlushActorRun(Worlds, w, s)
  BY <1>1, <1>4, FlushActorRuns
<1>6. PICK run \in [0..n -> Worlds] :
        /\ run[0] = w /\ run[n] = FoldLeft(FlushActor, w, s)
        /\ \A i \in 1..n : run[i] = FlushActor(run[i - 1], s[i])
  BY <1>5 DEF FlushActorRun
<1> DEFINE S == {k \in 0..n : Shrinks(run[k].pubs, w.pubs)}
<1>7. 0 \in S
  <2>1. Shrinks(w.pubs, w.pubs)
    BY WorldFields, ShrinksSelf
  <2> QED BY <1>3, <1>6, <2>1
<1>8. ASSUME NEW k \in 1..n, k - 1 \in S PROVE k \in S
  <2>1. k - 1 \in 0..n /\ k \in 0..n /\ run[k - 1] \in Worlds /\ run[k] \in Worlds
    BY <1>3, <1>6
  <2>2. Shrinks(run[k].pubs, run[k - 1].pubs)
    BY <1>3, <1>6, <2>1, FlushActorKeeps
  <2>3. Shrinks(run[k - 1].pubs, w.pubs)
    BY <1>8
  <2>4. Shrinks(run[k].pubs, w.pubs)
    <3>1. run[k - 1].pubs \in TableType /\ run[k].pubs \in TableType /\ w.pubs \in TableType
      BY <2>1, WorldFields
    <3> QED BY <2>2, <2>3, <3>1, ShrinksComposes
  <2> QED BY <2>1, <2>4
<1> HIDE DEF S
<1>9. n \in S
  <2>1. \A k \in 0..n : k \in S
    BY <1>3, <1>7, <1>8, InductionUpTo
  <2> QED BY <1>3, <2>1
<1>10. run[n] \in Worlds
  BY <1>3, <1>6
<1> QED
  BY <1>2, <1>6, <1>9, <1>10 DEF S

LEMMA FirstOfNone == NoCounts \in [Time -> Int] /\ First(NoCounts) = NoDeadline
<1>1. NoCounts \in [Time -> Int] /\ \A t \in Time : NoCounts[t] = 0
  BY DEF NoCounts
<1>2. First(NoCounts) \in Time => NoCounts[First(NoCounts)] > 0
  BY <1>1, FirstIs
<1>3. First(NoCounts) \in Time \cup {NoDeadline}
  BY <1>1, FirstIs
<1> QED
  BY <1>1, <1>2, <1>3

\* What a fence does to the mailboxes.
LEMMA FenceBoxKeeps ==
  ASSUME NEW b, BoxOk(b), NEW S \in SUBSET Actor
  PROVE  LET u == FenceBox(b, S) IN
         BoxOk(u) /\ u.staged = [a \in Actor |-> IF a \in S THEN <<>> ELSE b.staged[a]]
<1> USE BoxFields
<1> DEFINE queues == [a \in Actor |-> IF a \in S THEN <<>> ELSE b.queue[a]]
           stages == [a \in Actor |-> IF a \in S THEN <<>> ELSE b.staged[a]]
           counters == [a \in Actor |-> IF a \in S THEN NoCounts ELSE b.counts[a]]
           actors == [a \in Actor |-> IF a \in S THEN NoDeadline ELSE b.due.actors[a]]
           ordered == {e \in b.due.ordered : e[2] \notin S}
           dues == [actors |-> actors, ordered |-> ordered]
           waiting == b.stagedActors \ S
           u == FenceBox(b, S)
<1>1. b \in BoxType
  BY DEF BoxOk
<1>2. queues \in [Actor -> Seq(Delivery)] /\ stages \in [Actor -> Seq(Staged)]
  <2>1. \A a \in Actor : queues[a] \in Seq(Delivery)
    BY <1>1
  <2>2. \A a \in Actor : stages[a] \in Seq(Staged)
    BY <1>1
  <2> QED BY <2>1, <2>2
<1>3. counters \in [Actor -> [Time -> Int]]
  BY <1>1, FirstOfNone
<1>4. actors \in [Actor -> Time \cup {NoDeadline}] /\ ordered \in SUBSET (Time \X Actor)
  BY <1>1
<1>5. dues.actors = actors /\ dues.ordered = ordered
  OBVIOUS
<1>6. \A a \in Actor : CountsExact(queues[a], stages[a], counters[a])
  <2>1. ASSUME NEW a \in Actor PROVE CountsExact(queues[a], stages[a], counters[a])
    <3>1. CASE a \in S
      <4>1. queues[a] = <<>> /\ stages[a] = <<>> /\ counters[a] = NoCounts
        BY <3>1
      <4>2. \A t \in Time : NoCounts[t] = 0
        BY DEF NoCounts
      <4> QED BY <4>1, <4>2, HavingNone DEF CountsExact
    <3>2. CASE a \notin S
      BY <3>2 DEF BoxOk
    <3> QED BY <3>1, <3>2
  <2> QED BY <2>1
<1>7. DueExact(counters, dues)
  <2>1. \A a \in Actor : actors[a] = First(counters[a])
    BY FirstOfNone DEF BoxOk, DueExact
  <2>2. ordered = {e \in Time \X Actor : e[1] = actors[e[2]]}
    <3>1. ASSUME NEW e \in Time \X Actor PROVE e \in ordered <=> e[1] = actors[e[2]]
      <4>1. e[1] \in Time /\ e[2] \in Actor /\ NoDeadline \notin Time
        BY TimeNumbers
      <4>2. e \in b.due.ordered <=> e[1] = b.due.actors[e[2]]
        BY DEF BoxOk, DueExact
      <4> QED BY <4>1, <4>2
    <3> HIDE DEF actors
    <3> QED BY <1>4, <3>1
  <2> HIDE DEF dues, actors, ordered
  <2> QED BY <1>5, <2>1, <2>2 DEF DueExact
<1>8. waiting = {a \in Actor : stages[a] # <<>>}
  BY <1>1 DEF BoxOk
<1> HIDE DEF queues, stages, counters, actors, ordered, waiting
<1>9. u = [queue |-> queues, staged |-> stages, counts |-> counters, due |-> dues,
           stagedActors |-> waiting]
  BY DEF FenceBox, queues, stages, counters, actors, ordered, waiting
<1>10. dues \in [actors : [Actor -> Time \cup {NoDeadline}], ordered : SUBSET (Time \X Actor)]
  BY <1>4
<1>11. waiting \in SUBSET Actor
  BY <1>8
<1> HIDE DEF u, dues
<1>12. u \in BoxType
  BY <1>2, <1>3, <1>9, <1>10, <1>11 DEF BoxType
<1>13. /\ u.queue = queues /\ u.staged = stages /\ u.counts = counters /\ u.due = dues
       /\ u.stagedActors = waiting
  BY <1>9
<1>14. BoxOk(u)
  BY <1>6, <1>7, <1>8, <1>12, <1>13 DEF BoxOk
<1> QED
  BY <1>13, <1>14 DEF u, stages

\* fence_locked, as far as publications and mailboxes are concerned.
LEMMA FenceWorldKeeps ==
  ASSUME NEW w \in Worlds, NEW S \in SUBSET Actor
  PROVE  LET u == FoldLeft(CancelSource, w.pubs, Sorted(S, LAMBDA a, b : a < b)) IN
         [pubs |-> u, box |-> FenceBox(w.box, S)] \in Worlds /\ Shrinks(u, w.pubs)
<1> DEFINE t == w.pubs
           s == Sorted(S, LAMBDA a, b : a < b)
           u == FoldLeft(CancelSource, t, s)
           b == FenceBox(w.box, S)
           gone == {id \in Pending(t.entries) : t.entries[id].source \in S}
           stages == [a \in Actor |-> IF a \in S THEN <<>> ELSE w.box.staged[a]]
<1>1. /\ t \in TableType /\ TableOk(t, {}) /\ BoxOk(w.box) /\ StagedLinked(t.entries, w.box.staged)
  BY WorldFields
<1>2. s \in Seq(Actor) /\ ToSet(s) = S
  BY SortedActors
<1> HIDE DEF t, s
<1>3. TableOk(u, {}) /\ Leaves(u, t, gone) /\ u.snapshotEntries <= t.snapshotEntries
  BY <1>1, <1>2, FenceKeeps
<1>4. BoxOk(b) /\ b.staged = stages
  BY <1>1, FenceBoxKeeps
<1> HIDE DEF u, b
<1>5. Shrinks(u, t)
  BY <1>1, <1>3, LeavesShrinks
<1>6. StagedLinked(u.entries, stages)
  <2>1. ASSUME NEW a \in Actor
        PROVE  /\ {x.pub : x \in ToSet(stages[a])} =
                    {id \in Pending(u.entries) : u.entries[id].source = a /\ u.entries[id].staged}
               /\ \A x \in ToSet(stages[a]) : u.entries[x.pub].deadline = x.deadline
    <3>1. \A id \in PubId : u.entries[id] = IF id \in gone THEN NoPublication ELSE t.entries[id]
      BY <1>3 DEF Leaves
    <3>2. {x.pub : x \in ToSet(w.box.staged[a])} =
            {id \in Pending(t.entries) : t.entries[id].source = a /\ t.entries[id].staged}
      BY <1>1 DEF StagedLinked
    <3>3. \A x \in ToSet(w.box.staged[a]) : t.entries[x.pub].deadline = x.deadline
      BY <1>1 DEF StagedLinked
    <3>4. CASE a \in S
      <4>1. stages[a] = <<>> /\ ToSet(<<>>) = {}
        BY <3>4 DEF ToSet
      <4>2. \A id \in Pending(u.entries) : u.entries[id].source # a
        BY <3>1, <3>4 DEF Pending
      <4> HIDE DEF stages
      <4> QED BY <4>1, <4>2
    <3>5. CASE a \notin S
      <4>1. stages[a] = w.box.staged[a]
        BY <3>5
      <4>2. \A id \in PubId : t.entries[id].source = a => u.entries[id] = t.entries[id]
        BY <3>1, <3>5
      <4>3. \A id \in Pending(u.entries) : u.entries[id] = t.entries[id]
        BY <3>1 DEF Pending
      <4>4. {id \in Pending(u.entries) : u.entries[id].source = a /\ u.entries[id].staged} =
              {id \in Pending(t.entries) : t.entries[id].source = a /\ t.entries[id].staged}
        BY <4>2, <4>3 DEF Pending
      <4>5. \A x \in ToSet(w.box.staged[a]) : x.pub \in PubId /\ t.entries[x.pub].source = a
        BY <3>2 DEF Pending
      <4> HIDE DEF stages
      <4> QED BY <3>2, <3>3, <4>1, <4>2, <4>4, <4>5
    <3> QED BY <3>4, <3>5
  <2> HIDE DEF stages
  <2> QED BY <2>1 DEF StagedLinked
<1>7. [pubs |-> u, box |-> b] \in Worlds
  <2>1. StagedLinked(u.entries, b.staged)
    BY <1>4, <1>6
  <2> QED BY <1>3, <1>4, <2>1, WorldMade
<1> QED
  BY <1>5, <1>7 DEF u, b, t, s

\* A queue in two parts.
LEMMA HavingSplits ==
  ASSUME NEW q \in Seq(Dated), NEW m \in 0..Len(q), NEW t
  PROVE  /\ SubSeq(q, 1, m) \in Seq(Dated) /\ SubSeq(q, m + 1, Len(q)) \in Seq(Dated)
         /\ Having(q, t) = Having(SubSeq(q, 1, m), t) + Having(SubSeq(q, m + 1, Len(q)), t)
<1> DEFINE n == Len(q)
           f == SubSeq(q, 1, m)
           r == SubSeq(q, m + 1, n)
<1>1. /\ n \in Nat /\ m \in Nat /\ m <= n /\ n - m \in Nat
      /\ f \in Seq(Dated) /\ Len(f) = m /\ \A i \in 1..m : f[i] = q[i]
  OBVIOUS
<1>2. r \in Seq(Dated) /\ Len(r) = n - m /\ \A i \in 1..(n - m) : r[i] = q[m + i]
  BY <1>1
<1> HIDE DEF f, r
<1>3. Having(f, t) = Upto(q, m, t)
  <2>1. {i \in 1..m : f[i].deadline = t} = {i \in 1..m : q[i].deadline = t}
    BY <1>1
  <2>2. Having(f, t) = Upto(f, m, t)
    BY <1>1, HavingUpto
  <2> QED BY <2>1, <2>2 DEF Upto
<1> DEFINE S == {k \in 0..(n - m) : Upto(q, m + k, t) = Upto(q, m, t) + Upto(r, k, t)}
<1>4. 0 \in S
  <2>1. Upto(r, 0, t) = 0 /\ Upto(q, m, t) \in Nat
    BY <1>1, UptoStep
  <2>2. m + 0 = m /\ 0 \in 0..(n - m)
    BY <1>1
  <2> QED BY <2>1, <2>2
<1>5. ASSUME NEW k \in 1..(n - m), k - 1 \in S PROVE k \in S
  <2>1. /\ k - 1 \in Nat /\ m + (k - 1) \in Nat /\ (k - 1) + 1 = k /\ (m + (k - 1)) + 1 = m + k
        /\ k \in 0..(n - m)
    BY <1>1
  <2>2. /\ Upto(r, k - 1, t) \in Nat
        /\ Upto(r, (k - 1) + 1, t) = Upto(r, k - 1, t) + (IF r[(k - 1) + 1].deadline = t THEN 1 ELSE 0)
    BY <2>1, UptoStep
  <2>3. Upto(q, (m + (k - 1)) + 1, t) =
          Upto(q, m + (k - 1), t) + (IF q[(m + (k - 1)) + 1].deadline = t THEN 1 ELSE 0)
    BY <2>1, UptoStep
  <2>4. Upto(q, m, t) \in Nat
    BY <1>1, UptoStep
  <2>5. r[k] = q[m + k]
    BY <1>2
  <2>6. Upto(q, m + (k - 1), t) = Upto(q, m, t) + Upto(r, k - 1, t)
    BY <1>5
  <2> DEFINE a == Upto(q, m, t)
             b == Upto(r, k - 1, t)
             d == IF r[k].deadline = t THEN 1 ELSE 0
  <2>7. Upto(q, m + k, t) = (a + b) + d /\ Upto(r, k, t) = b + d
    BY <2>1, <2>2, <2>3, <2>5, <2>6
  <2>8. a \in Nat /\ b \in Nat /\ d \in Nat
    BY <2>2, <2>4
  <2> HIDE DEF a, b, d
  <2>9. Upto(q, m + k, t) = a + Upto(r, k, t)
    BY <2>7, <2>8
  <2> QED BY <2>1, <2>9 DEF a
<1> HIDE DEF S
<1>6. n - m \in S
  <2>1. \A k \in 0..(n - m) : k \in S
    BY <1>1, <1>4, <1>5, InductionUpTo
  <2> QED BY <1>1, <2>1
<1>7. m + (n - m) = n
  BY <1>1
<1>8. Having(q, t) = Upto(q, n, t) /\ Having(r, t) = Upto(r, n - m, t)
  BY <1>2, HavingUpto
<1> QED
  BY <1>1, <1>2, <1>3, <1>6, <1>7, <1>8 DEF S, f, r

\* One more entry with a deadline.
LEMMA BumpAdds ==
  ASSUME NEW c \in [Time -> Int], NEW d \in 1..NoDeadline
  PROVE  /\ Bump(c, d, 1) \in [Time -> Int]
         /\ \A t \in Time : Bump(c, d, 1)[t] = c[t] + (IF d = t THEN 1 ELSE 0)
<1>1. d \in Time \/ d = NoDeadline
  BY PublicationTimeAssumption DEF Time, NoDeadline
<1>2. CASE d = NoDeadline
  BY <1>2, TimeNumbers DEF Bump
<1>3. CASE d \in Time
  <2>1. Bump(c, d, 1) = [c EXCEPT ![d] = @ + 1]
    BY <1>3, TimeNumbers DEF Bump
  <2> QED BY <1>3, <2>1
<1> QED
  BY <1>1, <1>2, <1>3

-----------------------------------------------------------------------------
(* The mailboxes of single calls.                                          *)

LEMMA QueueShape ==
  ASSUME NEW b \in BoxType, NEW Q
  PROVE  [b EXCEPT !.queue = Q] =
           [queue |-> Q, staged |-> b.staged, counts |-> b.counts, due |-> b.due,
            stagedActors |-> b.stagedActors]
<1>1. b = [queue |-> b.queue, staged |-> b.staged, counts |-> b.counts, due |-> b.due,
           stagedActors |-> b.stagedActors]
  BY BoxFields
<1> QED BY <1>1

\* A call that changes the queue of an actor only.
LEMMA QueueRefresh ==
  ASSUME NEW b, BoxOk(b), NEW a \in Actor, NEW q, NEW c
  PROVE  Refresh([b EXCEPT !.queue = [b.queue EXCEPT ![a] = q]], a, c) =
           Changed(b, a, q, b.staged[a], c)
<1> DEFINE Q == [b.queue EXCEPT ![a] = q]
           r == [b EXCEPT !.queue = Q]
<1>1. b \in BoxType /\ b.staged \in [Actor -> Seq(Staged)] /\ b.stagedActors \in SUBSET Actor
      /\ b.stagedActors = {x \in Actor : b.staged[x] # <<>>}
  BY BoxFields DEF BoxOk
<1>2. r = [queue |-> Q, staged |-> b.staged, counts |-> b.counts, due |-> b.due,
           stagedActors |-> b.stagedActors]
  <2> HIDE DEF Q
  <2> QED BY <1>1, QueueShape
<1>3. [b.staged EXCEPT ![a] = b.staged[a]] = b.staged
  BY <1>1
<1>4. b.stagedActors =
        IF b.staged[a] = <<>> THEN b.stagedActors \ {a} ELSE b.stagedActors \cup {a}
  BY <1>1
<1> HIDE DEF r
<1>5. Refresh(r, a, c) = [queue |-> Q, staged |-> b.staged, counts |-> [b.counts EXCEPT ![a] = c],
                          due |-> SetDue(b.due, a, First(c)), stagedActors |-> b.stagedActors]
  <2> HIDE DEF Q
  <2> QED BY <1>2, RefreshShape
<1>6. Refresh(r, a, c) = Changed(b, a, q, b.staged[a], c)
  BY <1>3, <1>4, <1>5 DEF Changed
<1> QED
  BY <1>6 DEF r

\* The boxes of admit, claim and submit_publication_locked.
Receive(b, a, d) ==
  Refresh([b EXCEPT !.queue = [b.queue EXCEPT ![a] = Append(@, d)]],
          a, Bump(b.counts[a], d.deadline, 1))

Takes(b, a, m) ==
  Refresh([b EXCEPT !.queue = [b.queue EXCEPT ![a] = SubSeq(b.queue[a], m + 1, Len(b.queue[a]))]],
          a, Uncounted(b.counts[a], SubSeq(b.queue[a], 1, m)))

Stages(b, a, entry) ==
  Refresh([b EXCEPT !.staged = [b.staged EXCEPT ![a] = Append(@, entry)],
                    !.stagedActors = @ \cup {a}],
          a, Bump(b.counts[a], entry.deadline, 1))

\* A delivery enters a mailbox.
LEMMA ReceiveKeeps ==
  ASSUME NEW b, BoxOk(b), NEW a \in Actor, NEW d \in Delivery
  PROVE  LET u == Receive(b, a, d) IN
         BoxOk(u) /\ u.staged = b.staged /\ u.queue = [b.queue EXCEPT ![a] = Append(b.queue[a], d)]
<1> DEFINE q == b.queue[a]
           s == b.staged[a]
           e == Append(q, d)
           c == Bump(b.counts[a], d.deadline, 1)
<1>1. /\ b \in BoxType /\ b.staged \in [Actor -> Seq(Staged)] /\ b.queue \in [Actor -> Seq(Delivery)]
      /\ b.counts[a] \in [Time -> Int] /\ q \in Seq(Delivery) /\ s \in Seq(Staged)
      /\ CountsExact(q, s, b.counts[a])
  BY BoxFields DEF BoxOk
<1>2. d \in Dated /\ d.deadline \in 1..NoDeadline
  BY DEF Dated, Delivery
<1>3. /\ c \in [Time -> Int]
      /\ \A t \in Time : c[t] = b.counts[a][t] + (IF d.deadline = t THEN 1 ELSE 0)
  BY <1>1, <1>2, BumpAdds
<1>4. q \in Seq(Dated) /\ s \in Seq(Dated)
  BY <1>1, StagedDated
<1>5. e \in Seq(Delivery)
  BY <1>1
<1>6. CountsExact(e, s, c)
  <2>1. ASSUME NEW t \in Time PROVE c[t] = Having(e, t) + Having(s, t)
    <3>1. Having(e, t) = Having(q, t) + (IF d.deadline = t THEN 1 ELSE 0)
      BY <1>2, <1>4, HavingAppend
    <3>2. b.counts[a][t] = Having(q, t) + Having(s, t)
      BY <1>1 DEF CountsExact
    <3>3. Having(q, t) \in Nat /\ Having(s, t) \in Nat
      BY <1>4, HavingUpto
    <3>4. c[t] = b.counts[a][t] + (IF d.deadline = t THEN 1 ELSE 0)
      BY <1>3
    <3> HIDE DEF c, e, q, s
    <3> QED BY <3>1, <3>2, <3>3, <3>4
  <2> QED BY <2>1 DEF CountsExact
<1>7. Receive(b, a, d) = Changed(b, a, e, s, c)
  <2>1. [b EXCEPT !.queue = [b.queue EXCEPT ![a] = Append(@, d)]] =
        [b EXCEPT !.queue = [b.queue EXCEPT ![a] = e]]
    OBVIOUS
  <2>2. Receive(b, a, d) = Refresh([b EXCEPT !.queue = [b.queue EXCEPT ![a] = e]], a, c)
    BY <2>1 DEF Receive
  <2> HIDE DEF e, c
  <2> QED BY <2>2, QueueRefresh
<1>8. ChangedOk(b, a, e, s, c)
  <2> HIDE DEF e, c
  <2> QED BY <1>1, <1>3, <1>5, <1>6, ChangedKeeps
<1>9. [b.staged EXCEPT ![a] = s] = b.staged
  BY <1>1
<1> QED
  BY <1>7, <1>8, <1>9 DEF ChangedOk

\* The front of a mailbox is taken.
LEMMA TakesKeeps ==
  ASSUME NEW b, BoxOk(b), NEW a \in Actor, NEW m \in 0..Len(b.queue[a])
  PROVE  LET u == Takes(b, a, m) IN BoxOk(u) /\ u.staged = b.staged
<1> DEFINE q == b.queue[a]
           s == b.staged[a]
           front == SubSeq(q, 1, m)
           e == SubSeq(q, m + 1, Len(q))
           c == Uncounted(b.counts[a], front)
<1>1. /\ b \in BoxType /\ b.staged \in [Actor -> Seq(Staged)] /\ b.queue \in [Actor -> Seq(Delivery)]
      /\ b.counts[a] \in [Time -> Int] /\ q \in Seq(Delivery) /\ s \in Seq(Staged)
      /\ CountsExact(q, s, b.counts[a])
  BY BoxFields DEF BoxOk
<1>2. q \in Seq(Dated) /\ s \in Seq(Dated)
  BY <1>1, StagedDated
<1>3. /\ front \in Seq(Dated) /\ e \in Seq(Dated)
      /\ \A t \in Time : Having(q, t) = Having(front, t) + Having(e, t)
  <2>1. m \in 0..Len(q)
    OBVIOUS
  <2> HIDE DEF q
  <2> QED BY <1>2, <2>1, HavingSplits
<1>4. e \in Seq(Delivery)
  BY <1>1
<1> HIDE DEF front, e
<1>5. /\ c \in [Time -> Int]
      /\ \A t \in Time : c[t] = b.counts[a][t] - Having(front, t)
  BY <1>1, <1>3, UncountedCounts
<1>6. CountsExact(e, s, c)
  <2>1. ASSUME NEW t \in Time PROVE c[t] = Having(e, t) + Having(s, t)
    <3>1. Having(q, t) = Having(front, t) + Having(e, t)
      BY <1>3
    <3>2. b.counts[a][t] = Having(q, t) + Having(s, t)
      BY <1>1 DEF CountsExact
    <3>3. Having(front, t) \in Nat /\ Having(e, t) \in Nat /\ Having(s, t) \in Nat
      BY <1>2, <1>3, HavingUpto
    <3>4. c[t] = b.counts[a][t] - Having(front, t)
      BY <1>5
    <3> HIDE DEF c, q, s
    <3> QED BY <3>1, <3>2, <3>3, <3>4
  <2> QED BY <2>1 DEF CountsExact
<1>7. Takes(b, a, m) = Changed(b, a, e, s, c)
  <2>1. Takes(b, a, m) = Refresh([b EXCEPT !.queue = [b.queue EXCEPT ![a] = e]], a, c)
    BY DEF Takes, e, front
  <2> HIDE DEF c
  <2> QED BY <2>1, QueueRefresh
<1>8. ChangedOk(b, a, e, s, c)
  <2> HIDE DEF c
  <2> QED BY <1>1, <1>4, <1>5, <1>6, ChangedKeeps
<1>9. [b.staged EXCEPT ![a] = s] = b.staged
  BY <1>1
<1> QED
  BY <1>7, <1>8, <1>9 DEF ChangedOk

\* A source that starts stages an entry.
LEMMA StagesKeeps ==
  ASSUME NEW b, BoxOk(b), NEW a \in Actor, NEW entry \in Staged
  PROVE  LET u == Stages(b, a, entry) IN
         BoxOk(u) /\ u.staged = [b.staged EXCEPT ![a] = Append(b.staged[a], entry)]
<1> DEFINE q == b.queue[a]
           s == b.staged[a]
           e == Append(s, entry)
           c == Bump(b.counts[a], entry.deadline, 1)
           G == [b.staged EXCEPT ![a] = e]
           A == b.stagedActors \cup {a}
<1>1. /\ b \in BoxType /\ b.staged \in [Actor -> Seq(Staged)] /\ b.queue \in [Actor -> Seq(Delivery)]
      /\ b.counts[a] \in [Time -> Int] /\ q \in Seq(Delivery) /\ s \in Seq(Staged)
      /\ CountsExact(q, s, b.counts[a])
  BY BoxFields DEF BoxOk
<1>2. entry \in Dated /\ entry.deadline \in 1..NoDeadline
  BY DEF Dated, Staged
<1>3. /\ c \in [Time -> Int]
      /\ \A t \in Time : c[t] = b.counts[a][t] + (IF entry.deadline = t THEN 1 ELSE 0)
  BY <1>1, <1>2, BumpAdds
<1>4. q \in Seq(Dated) /\ s \in Seq(Dated)
  BY <1>1, StagedDated
<1>5. e \in Seq(Staged) /\ e # <<>>
  <2>1. e \in Seq(Staged) /\ Len(e) = Len(s) + 1 /\ Len(s) \in Nat
    BY <1>1
  <2>2. Len(<<>>) = 0
    OBVIOUS
  <2> HIDE DEF e
  <2> QED BY <2>1, <2>2
<1>6. CountsExact(q, e, c)
  <2>1. ASSUME NEW t \in Time PROVE c[t] = Having(q, t) + Having(e, t)
    <3>1. Having(e, t) = Having(s, t) + (IF entry.deadline = t THEN 1 ELSE 0)
      BY <1>2, <1>4, HavingAppend
    <3>2. b.counts[a][t] = Having(q, t) + Having(s, t)
      BY <1>1 DEF CountsExact
    <3>3. Having(q, t) \in Nat /\ Having(s, t) \in Nat
      BY <1>4, HavingUpto
    <3>4. c[t] = b.counts[a][t] + (IF entry.deadline = t THEN 1 ELSE 0)
      BY <1>3
    <3> HIDE DEF c, e, q, s
    <3> QED BY <3>1, <3>2, <3>3, <3>4
  <2> QED BY <2>1 DEF CountsExact
<1>7. Stages(b, a, entry) = Changed(b, a, q, e, c)
  <2> DEFINE r == [b EXCEPT !.staged = G, !.stagedActors = A]
  <2>1. [b EXCEPT !.staged = [b.staged EXCEPT ![a] = Append(@, entry)],
                  !.stagedActors = @ \cup {a}] = r
    OBVIOUS
  <2>2. Stages(b, a, entry) = Refresh(r, a, c)
    BY <2>1 DEF Stages
  <2> HIDE DEF G, A
  <2>3. r = [queue |-> b.queue, staged |-> G, counts |-> b.counts, due |-> b.due, stagedActors |-> A]
    BY <1>1, StagedShape
  <2> HIDE DEF r, c
  <2>4. Refresh(r, a, c) = [queue |-> b.queue, staged |-> G, counts |-> [b.counts EXCEPT ![a] = c],
                            due |-> SetDue(b.due, a, First(c)), stagedActors |-> A]
    BY <2>3, RefreshShape
  <2>5. [b.queue EXCEPT ![a] = q] = b.queue
    BY <1>1
  <2> HIDE DEF q, e
  <2>6. Changed(b, a, q, e, c) =
          [queue |-> b.queue, staged |-> G, counts |-> [b.counts EXCEPT ![a] = c],
           due |-> SetDue(b.due, a, First(c)), stagedActors |-> A]
    BY <1>5, <2>5 DEF Changed, G, A
  <2> QED BY <2>2, <2>4, <2>6
<1>8. ChangedOk(b, a, q, e, c)
  <2> HIDE DEF e, c, q
  <2> QED BY <1>1, <1>3, <1>5, <1>6, ChangedKeeps
<1> QED
  BY <1>7, <1>8 DEF ChangedOk

\* The earliest deadline of what an actor has is the one the counts show.
LEMMA EarliestIs ==
  ASSUME BoxOk(Box), NEW a \in Actor
  PROVE  EarliestOf(a) = due.actors[a]
<1> DEFINE q == queue[a]
           s == staged[a]
           c == counts[a]
           dates == {q[i].deadline : i \in DOMAIN q} \cup {s[i].deadline : i \in DOMAIN s}
           least == First(c)
<1>1. /\ Box.queue = queue /\ Box.staged = staged /\ Box.counts = counts /\ Box.due = due
  BY DEF Box
<1>2. /\ q \in Seq(Delivery) /\ s \in Seq(Staged) /\ c \in [Time -> Int]
      /\ CountsExact(q, s, c) /\ due.actors[a] = First(c)
  <2>1. Box \in BoxType
    BY DEF BoxOk
  <2>2. /\ Box.queue \in [Actor -> Seq(Delivery)] /\ Box.staged \in [Actor -> Seq(Staged)]
        /\ Box.counts \in [Actor -> [Time -> Int]]
    BY <2>1, BoxFields
  <2> QED BY <1>1, <2>2 DEF BoxOk, DueExact
<1>3. q \in Seq(Dated) /\ s \in Seq(Dated)
  BY <1>2, StagedDated
<1>4. dates \subseteq Time \cup {NoDeadline} /\ \A t \in Time : t \in dates <=> c[t] > 0
  <2>1. ASSUME NEW r \in Seq(Dated)
        PROVE  /\ {r[i].deadline : i \in DOMAIN r} \subseteq Time \cup {NoDeadline}
               /\ \A t \in Time : /\ Having(r, t) \in Nat
                                  /\ t \in {r[i].deadline : i \in DOMAIN r} <=> Having(r, t) > 0
    <3>1. DOMAIN r = 1..Len(r) /\ Len(r) \in Nat /\ \A i \in DOMAIN r : r[i] \in Dated
      OBVIOUS
    <3>2. \A x \in Dated : x.deadline \in 1..NoDeadline
      BY DEF Dated, Delivery, Staged
    <3>3. 1..NoDeadline \subseteq Time \cup {NoDeadline}
      BY PublicationTimeAssumption DEF NoDeadline, Time
    <3>4. ASSUME NEW t \in Time
          PROVE  /\ Having(r, t) \in Nat
                 /\ t \in {r[i].deadline : i \in DOMAIN r} <=> Having(r, t) > 0
      <4> DEFINE I == {i \in DOMAIN r : r[i].deadline = t}
      <4>1. IsFiniteSet(I)
        <5>1. IsFiniteSet(1..Len(r))
          BY <3>1, FS_Interval
        <5>2. I \subseteq 1..Len(r)
          BY <3>1
        <5> HIDE DEF I
        <5> QED BY <5>1, <5>2, FS_Subset
      <4>2. Having(r, t) = Cardinality(I)
        BY DEF Having
      <4>3. t \in {r[i].deadline : i \in DOMAIN r} <=> I # {}
        OBVIOUS
      <4> HIDE DEF I
      <4>4. Cardinality(I) \in Nat /\ (Cardinality(I) = 0 <=> I = {})
        BY <4>1, FS_CardinalityType, FS_EmptySet
      <4> QED BY <4>2, <4>3, <4>4
    <3> QED BY <3>1, <3>2, <3>3, <3>4
  <2>2. \A t \in Time : c[t] = Having(q, t) + Having(s, t)
    BY <1>2 DEF CountsExact
  <2> DEFINE A == {q[i].deadline : i \in DOMAIN q}
             B == {s[i].deadline : i \in DOMAIN s}
  <2>3. /\ A \subseteq Time \cup {NoDeadline}
        /\ \A t \in Time : Having(q, t) \in Nat /\ (t \in A <=> Having(q, t) > 0)
    BY <1>3, <2>1
  <2>4. /\ B \subseteq Time \cup {NoDeadline}
        /\ \A t \in Time : Having(s, t) \in Nat /\ (t \in B <=> Having(s, t) > 0)
    BY <1>3, <2>1
  <2>5. dates = A \cup B
    OBVIOUS
  <2> HIDE DEF A, B, dates, q, s, c
  <2> QED BY <2>2, <2>3, <2>4, <2>5
<1> HIDE DEF dates, c
<1>5. /\ least \in Time \cup {NoDeadline}
      /\ least \in Time => c[least] > 0
      /\ \A t \in Time : c[t] > 0 => least \in Time /\ least <= t
  BY <1>2, FirstIs
<1> HIDE DEF least
<1>6. \A t \in Time \cup {NoDeadline} : t \in Int /\ t <= NoDeadline
  BY TimeNumbers
<1>7. least \in dates \cup {NoDeadline} /\ \A u \in dates \cup {NoDeadline} : least <= u
  BY <1>4, <1>5, <1>6
<1>8. \A m \in dates \cup {NoDeadline} :
        (\A u \in dates \cup {NoDeadline} : m <= u) => m = least
  BY <1>4, <1>6, <1>7
<1>9. (CHOOSE m \in dates \cup {NoDeadline} : \A u \in dates \cup {NoDeadline} : m <= u) = least
  BY <1>7, <1>8
<1> QED
  BY <1>2, <1>9 DEF EarliestOf, dates, least, c

-----------------------------------------------------------------------------
(* Staged output in calls that change one publication.                     *)

\* Publications that are not staged come, change and go.
LEMMA LinkedElsewhere ==
  ASSUME NEW e, NEW f, NEW s \in [Actor -> Seq(Staged)], StagedLinked(e, s), NEW id \in PubId,
         \A i \in PubId \ {id} : f[i] = e[i],
         id \in Pending(e) => ~e[id].staged, id \in Pending(f) => ~f[id].staged
  PROVE  StagedLinked(f, s)
<1>1. ASSUME NEW a \in Actor
      PROVE  /\ {x.pub : x \in ToSet(s[a])} =
                  {i \in Pending(f) : f[i].source = a /\ f[i].staged}
             /\ \A x \in ToSet(s[a]) : f[x.pub].deadline = x.deadline
  <2> DEFINE Of == {i \in Pending(e) : e[i].source = a /\ e[i].staged}
             Left == {i \in Pending(f) : f[i].source = a /\ f[i].staged}
  <2>1. {x.pub : x \in ToSet(s[a])} = Of /\ \A x \in ToSet(s[a]) : e[x.pub].deadline = x.deadline
    BY DEF StagedLinked
  <2>2. Of \subseteq PubId \ {id} /\ Left \subseteq PubId \ {id}
    BY DEF Pending
  <2>3. \A i \in PubId \ {id} : i \in Of <=> i \in Left
    BY DEF Pending
  <2> HIDE DEF Of, Left
  <2>4. Left = Of
    BY <2>2, <2>3
  <2>5. ASSUME NEW x \in ToSet(s[a]) PROVE f[x.pub].deadline = x.deadline
    <3>1. x.pub \in Of
      BY <2>1
    <3> QED BY <2>1, <2>2, <3>1
  <2> QED BY <2>1, <2>4, <2>5 DEF Left
<1> QED
  BY <1>1 DEF StagedLinked

\* A new publication is staged.
LEMMA LinkedStages ==
  ASSUME NEW e, NEW f, NEW s \in [Actor -> Seq(Staged)], StagedLinked(e, s), NEW id \in PubId,
         \A i \in PubId \ {id} : f[i] = e[i], id \notin Pending(e),
         NEW p \in Publication, f[id] = p, p.staged, NEW entry \in Staged,
         entry.pub = id, entry.deadline = p.deadline
  PROVE  StagedLinked(f, [s EXCEPT ![p.source] = Append(s[p.source], entry)])
<1> DEFINE c == p.source
           r == Append(s[c], entry)
           S == [s EXCEPT ![c] = r]
<1>1. c \in Actor /\ f[id] # NoPublication
  BY NoPublicationAssumption DEF Publication
<1> HIDE DEF c
<1>2. S[c] = r /\ \A a \in Actor \ {c} : S[a] = s[a]
  BY <1>1
<1>3. ToSet(r) = ToSet(s[c]) \cup {entry}
  <2> DEFINE q == s[c]
  <2>1. q \in Seq(Staged)
    BY <1>1
  <2>2. DOMAIN q = 1..Len(q) /\ Len(q) \in Nat
    BY <2>1
  <2>3. /\ DOMAIN r = 1..(Len(q) + 1) /\ r[Len(q) + 1] = entry
        /\ \A i \in 1..Len(q) : r[i] = q[i]
    BY <2>1
  <2>4. 1..(Len(q) + 1) = 1..Len(q) \cup {Len(q) + 1}
    BY <2>2
  <2> HIDE DEF q, r
  <2>5. ToSet(r) = ToSet(q) \cup {entry}
    BY <2>2, <2>3, <2>4 DEF ToSet
  <2> QED BY <2>5 DEF q
<1> HIDE DEF S, r
<1>4. ASSUME NEW a \in Actor
      PROVE  /\ {x.pub : x \in ToSet(S[a])} =
                  {i \in Pending(f) : f[i].source = a /\ f[i].staged}
             /\ \A x \in ToSet(S[a]) : f[x.pub].deadline = x.deadline
  <2> DEFINE Of == {i \in Pending(e) : e[i].source = a /\ e[i].staged}
             Left == {i \in Pending(f) : f[i].source = a /\ f[i].staged}
  <2>1. {x.pub : x \in ToSet(s[a])} = Of /\ \A x \in ToSet(s[a]) : e[x.pub].deadline = x.deadline
    BY DEF StagedLinked
  <2>2. Of \subseteq PubId \ {id} /\ Left \subseteq PubId
    BY DEF Pending
  <2>3. \A i \in PubId \ {id} : i \in Of <=> i \in Left
    BY DEF Pending
  <2>4. id \in Left <=> a = c
    BY <1>1 DEF Pending, c
  <2> HIDE DEF Of, Left
  <2>5. Left = IF a = c THEN Of \cup {id} ELSE Of
    <3>1. CASE a = c
      BY <2>2, <2>3, <2>4, <3>1
    <3>2. CASE a # c
      <4>1. Left \subseteq PubId \ {id}
        BY <2>2, <2>4, <3>2
      <4>2. Left = Of
        BY <2>2, <2>3, <4>1
      <4> QED BY <3>2, <4>2
    <3> QED BY <3>1, <3>2
  <2>6. \A x \in ToSet(s[a]) : f[x.pub].deadline = x.deadline
    <3>1. ASSUME NEW x \in ToSet(s[a]) PROVE f[x.pub].deadline = x.deadline
      <4>1. x.pub \in Of
        BY <2>1
      <4> QED BY <2>1, <2>2, <4>1
    <3> QED BY <3>1
  <2>7. CASE a = c
    <3>1. ToSet(S[a]) = ToSet(s[a]) \cup {entry}
      BY <1>2, <1>3, <2>7
    <3>2. {x.pub : x \in ToSet(S[a])} = {x.pub : x \in ToSet(s[a])} \cup {id}
      BY <3>1
    <3>3. \A x \in ToSet(S[a]) : f[x.pub].deadline = x.deadline
      BY <2>6, <3>1
    <3> QED BY <2>1, <2>5, <2>7, <3>2, <3>3 DEF Left
  <2>8. CASE a # c
    BY <1>2, <2>1, <2>5, <2>6, <2>8 DEF Left
  <2> QED BY <2>7, <2>8
<1>5. StagedLinked(f, S)
  BY <1>4 DEF StagedLinked
<1> QED
  BY <1>5 DEF S, r, c

-----------------------------------------------------------------------------
(* A publication is accepted: the whole of the table and the mailboxes.    *)

\* The publication of publish_internal, and the state it leads to.
Accepted(source, port, deadline, stage, completion) ==
  [source |-> source, port |-> port, deadline |-> deadline, staged |-> stage,
   completion |-> completion, routes |-> <<>>, cursor |-> 0,
   matched |-> 0, admitted |-> 0, rejected |-> 0]

LEMMA AcceptedFresh ==
  ASSUME NEW a \in Actor, NEW port \in Port, NEW d \in 1..NoDeadline, NEW stage \in BOOLEAN,
         NEW c \in BOOLEAN
  PROVE  LET p == Accepted(a, port, d, stage, c) IN
         Fresh(p) /\ p.source = a /\ p.deadline = d /\ p.staged = stage /\ p.completion = c
<1> DEFINE p == Accepted(a, port, d, stage, c)
<1>1. <<>> \in Seq(RouteId \X Actor)
  OBVIOUS
<1>2. p \in Publication
  BY <1>1 DEF Accepted, Publication
<1> QED
  BY <1>2 DEF Fresh, Accepted

LEMMA AcceptKeeps ==
  ASSUME NEW t, NEW b, TableOk(t, {}), BoxOk(b), StagedLinked(t.entries, b.staged),
         NEW p, Fresh(p), MayReserve(t, p.source), NEW c,
         c = IF p.staged THEN Stages(b, p.source, [pub |-> t.nextId, deadline |-> p.deadline]) ELSE b
  PROVE  /\ Inserts(InsertPublication(t, p), t, p)
         /\ BoxOk(c) /\ StagedLinked(InsertPublication(t, p).entries, c.staged)
<1> DEFINE u == InsertPublication(t, p)
           id == t.nextId
           entry == [pub |-> id, deadline |-> p.deadline]
<1>1. Inserts(u, t, p)
  BY InsertKeeps
<1> HIDE DEF u
<1>2. /\ id \in PubId /\ id \notin Pending(t.entries)
      /\ u.entries = [t.entries EXCEPT ![id] = p]
  BY <1>1 DEF Inserts
<1>3. t.entries \in EntriesType /\ b.staged \in [Actor -> Seq(Staged)]
  BY TableFields, BoxFields DEF TableOk, BoxOk
<1>4. p \in Publication /\ p.source \in Actor /\ p.deadline \in 1..NoDeadline /\ p.staged \in BOOLEAN
  BY DEF Fresh, Publication
<1>5. (\A i \in PubId \ {id} : u.entries[i] = t.entries[i]) /\ u.entries[id] = p
  BY <1>2, <1>3 DEF EntriesType
<1> HIDE DEF id
<1>6. entry \in Staged /\ entry.pub = id /\ entry.deadline = p.deadline
  BY <1>2, <1>4 DEF Staged
<1> HIDE DEF entry
<1>7. CASE p.staged
  <2>1. c = Stages(b, p.source, entry)
    BY <1>7 DEF entry, id
  <2>2. BoxOk(c) /\ c.staged = [b.staged EXCEPT ![p.source] = Append(b.staged[p.source], entry)]
    BY <1>4, <1>6, <2>1, StagesKeeps
  <2> DEFINE e == t.entries
             f == u.entries
             s == b.staged
  <2>3. /\ s \in [Actor -> Seq(Staged)] /\ StagedLinked(e, s) /\ id \notin Pending(e)
        /\ f[id] = p /\ \A i \in PubId \ {id} : f[i] = e[i]
    BY <1>2, <1>3, <1>5
  <2> HIDE DEF e, f, s
  <2>4. StagedLinked(f, [s EXCEPT ![p.source] = Append(s[p.source], entry)])
    BY <1>2, <1>4, <1>6, <1>7, <2>3, LinkedStages
  <2>5. StagedLinked(u.entries, c.staged)
    BY <2>2, <2>4 DEF f, s
  <2> QED BY <1>1, <2>2, <2>5 DEF u
<1>8. CASE ~p.staged
  <2>1. c = b
    BY <1>8
  <2> DEFINE e == t.entries
             f == u.entries
             s == b.staged
  <2>2. StagedLinked(f, s)
    <3>1. /\ s \in [Actor -> Seq(Staged)] /\ StagedLinked(e, s) /\ id \notin Pending(e)
          /\ f[id] = p /\ \A i \in PubId \ {id} : f[i] = e[i]
      BY <1>2, <1>3, <1>5
    <3> HIDE DEF e, f, s
    <3>2. id \in Pending(e) => ~e[id].staged
      BY <3>1
    <3>3. id \in Pending(f) => ~f[id].staged
      BY <1>8, <3>1
    <3> QED BY <1>2, <3>1, <3>2, <3>3, LinkedElsewhere
  <2> QED BY <1>1, <2>1, <2>2 DEF u, f, s
<1> QED
  BY <1>4, <1>7, <1>8

-----------------------------------------------------------------------------
(* The table during a turn of route_batch.                                 *)

\* finish_publication_locked writes the report whatever it was before.
Forgets(t, id, p, outcome, k) ==
  Finish([t EXCEPT !.tickets = [t.tickets EXCEPT ![id] = k]], id, p, outcome) =
  Finish(t, id, p, outcome)

LEMMA FinishForgets ==
  ASSUME NEW t \in TableType, NEW id \in PubId, NEW p \in Publication, NEW outcome \in Outcomes,
         NEW k \in Ticket
  PROVE  Forgets(t, id, p, outcome, k)
<1> USE TableFields
<1> DEFINE K == [t.tickets EXCEPT ![id] = k]
           v == [t EXCEPT !.tickets = K]
           s == p.source
           e == [t.entries EXCEPT ![id] = NoPublication]
           q == [t.bySource EXCEPT ![s] = Without(t.bySource[s], id)]
           w == Without(t.ready, s)
           d == t.deadlines \ {<<p.deadline, id>>}
           n == t.snapshotEntries - Len(p.routes)
           y == [t EXCEPT !.entries = e, !.deadlines = d, !.snapshotEntries = n, !.bySource = q,
                          !.readySet = @ \ {s}, !.ready = w]
           z == [y EXCEPT !.tickets = K]
           ticket == [source |-> p.source, status |-> outcome, matched |-> p.matched,
                      admitted |-> p.admitted, rejected |-> p.rejected + Unattempted(p)]
           done(u) == [u EXCEPT !.tickets = [u.tickets EXCEPT ![id] = ticket]]
<1>1. K \in [PubId -> Ticket] /\ \A x : [K EXCEPT ![id] = x] = [t.tickets EXCEPT ![id] = x]
  BY DEF TableType
<1> HIDE DEF K
<1>2. v.held = t.held /\ v.entries = t.entries /\ v.bySource = t.bySource /\ v.tickets = K
  BY DEF TableType
<1>3. RemoveIndexes([t EXCEPT !.entries = e], id, p) = ReadySource(y, s)
  BY DEF RemoveIndexes, TableType
<1>4. RemoveIndexes([v EXCEPT !.entries = e], id, p) = ReadySource(z, s)
  BY DEF RemoveIndexes, TableType
<1> HIDE DEF e, q, w, d, n
<1>5. /\ y.bySource = q /\ y.entries = e /\ y.readySet = t.readySet \ {s} /\ y.tickets = t.tickets
      /\ y.held = t.held /\ y.ready = w
      /\ z.bySource = q /\ z.entries = e /\ z.readySet = t.readySet \ {s} /\ z.tickets = K
      /\ z.held = t.held /\ z.ready = w
  BY DEF TableType
<1> DEFINE R == (t.readySet \ {s}) \cup {s}
           W == Append(w, s)
           ys == [y EXCEPT !.readySet = R, !.ready = W]
           zs == [z EXCEPT !.readySet = R, !.ready = W]
           moves == /\ q[s] # <<>> /\ e[Head(q[s])] # NoPublication /\ ~e[Head(q[s])].staged
                    /\ s \notin t.readySet \ {s}
<1>6. ReadySource(y, s) = IF moves THEN ys ELSE y
  <2>1. [y EXCEPT !.readySet = @ \cup {s}, !.ready = Append(@, s)] = ys
    BY <1>5
  <2> HIDE DEF y, ys
  <2> QED BY <1>5, <2>1 DEF ReadySource
<1>7. ReadySource(z, s) = IF moves THEN zs ELSE z
  <2>1. [z EXCEPT !.readySet = @ \cup {s}, !.ready = Append(@, s)] = zs
    BY <1>5
  <2> HIDE DEF z, zs
  <2> QED BY <1>5, <2>1 DEF ReadySource
<1> HIDE DEF R, W, moves
<1>8. /\ ys.tickets = t.tickets /\ zs.tickets = K
      /\ ys.held = t.held /\ zs.held = t.held
  BY DEF TableType
<1> HIDE DEF ticket
<1>9. done(z) = done(y) /\ done(zs) = done(ys)
  <2> DEFINE T == [t.tickets EXCEPT ![id] = ticket]
  <2>1. done(z) = [z EXCEPT !.tickets = T] /\ done(zs) = [zs EXCEPT !.tickets = T]
    BY <1>1, <1>5, <1>8
  <2>2. done(y) = [y EXCEPT !.tickets = T] /\ done(ys) = [ys EXCEPT !.tickets = T]
    BY <1>5, <1>8
  <2> HIDE DEF T, done
  <2>3. [z EXCEPT !.tickets = T] = [y EXCEPT !.tickets = T]
    BY DEF TableType
  <2>4. [zs EXCEPT !.tickets = T] = [ys EXCEPT !.tickets = T]
    BY DEF TableType
  <2> QED BY <2>1, <2>2, <2>3, <2>4
<1> HIDE DEF y, z, ys, zs
<1>10. Finish(t, id, p, outcome) =
         IF id \in t.held THEN done(ReadySource(y, s)) ELSE ReleasePermit(done(ReadySource(y, s)), id)
  BY <1>3 DEF Finish, ticket, e
<1>11. Finish(v, id, p, outcome) =
         IF id \in t.held THEN done(ReadySource(z, s)) ELSE ReleasePermit(done(ReadySource(z, s)), id)
  <2> HIDE DEF v
  <2> QED BY <1>2, <1>4 DEF Finish, ticket, e
<1>12. done(ReadySource(z, s)) = done(ReadySource(y, s))
  BY <1>6, <1>7, <1>9
<1> HIDE DEF v, done
<1> QED
  BY <1>10, <1>11, <1>12 DEF Forgets, v, K

\* The source at the front takes its turn.
TurnTaken(t) == [t EXCEPT !.ready = Tail(@), !.readySet = @ \ {Head(t.ready)}]

LEMMA TurnKeeps ==
  ASSUME NEW t, TableOk(t, {}), t.ready # <<>>
  PROVE  LET u == TurnTaken(t)
             s == Head(t.ready)
             id == Head(t.bySource[s])
         IN /\ s \in Actor /\ id \in Pending(t.entries) /\ t.entries[id].source = s
            /\ ~t.entries[id].staged
            /\ \A i \in Pending(t.entries) : t.entries[i].source = s => id <= i
            /\ TableOk(u, {s}) /\ SameButRotation(u, t) /\ s \notin u.readySet
<1> USE TableFields
<1> DEFINE s == Head(t.ready)
           id == Head(t.bySource[s])
           r == Tail(t.ready)
           u == TurnTaken(t)
<1>1. /\ t \in TableType /\ t.ready \in Seq(Actor) /\ s \in Actor /\ r \in Seq(Actor)
  BY DEF TableOk
<1>2. /\ Len(t.ready) \in Nat \ {0} /\ DOMAIN t.ready = 1..Len(t.ready) /\ s = t.ready[1]
      /\ DOMAIN r = 1..(Len(t.ready) - 1) /\ \A i \in DOMAIN r : r[i] = t.ready[i + 1]
  BY <1>1
<1>3. RotationExact(t.entries, t.bySource, t.ready, t.readySet, {})
  BY DEF TableOk
<1>4. \A i, j \in DOMAIN t.ready : i < j => t.ready[i] # t.ready[j]
  BY <1>3 DEF RotationExact
<1>5. s \in t.readySet
  BY <1>2, <1>3 DEF RotationExact, ToSet
<1> HIDE DEF r, s
<1>6. ToSet(r) = t.readySet \ {s}
  <2>1. ASSUME NEW x \in ToSet(r) PROVE x \in ToSet(t.ready) /\ x # s
    <3>1. PICK i \in DOMAIN r : x = r[i]
      BY DEF ToSet
    <3>2. i + 1 \in DOMAIN t.ready /\ 1 \in DOMAIN t.ready /\ 1 < i + 1 /\ x = t.ready[i + 1]
      BY <1>2, <3>1
    <3> QED BY <1>2, <1>4, <3>2 DEF ToSet
  <2>2. ASSUME NEW x \in ToSet(t.ready), x # s PROVE x \in ToSet(r)
    <3>1. PICK i \in DOMAIN t.ready : x = t.ready[i]
      BY DEF ToSet
    <3>2. i - 1 \in DOMAIN r /\ x = r[i - 1]
      BY <1>2, <2>2, <3>1
    <3> QED BY <3>2 DEF ToSet
  <2>3. ToSet(t.ready) = t.readySet
    BY <1>3 DEF RotationExact
  <2> QED BY <2>1, <2>2, <2>3
<1>7. ASSUME NEW i \in DOMAIN r, NEW j \in DOMAIN r, i < j PROVE r[i] # r[j]
  <2>1. /\ i + 1 \in DOMAIN t.ready /\ j + 1 \in DOMAIN t.ready /\ i + 1 < j + 1
        /\ r[i] = t.ready[i + 1] /\ r[j] = t.ready[j + 1]
    BY <1>2, <1>7
  <2> QED BY <1>4, <2>1
<1>8. Routable(t.entries, t.bySource, s)
  BY <1>1, <1>3, <1>5 DEF RotationExact
<1>9. /\ id \in Pending(t.entries) /\ t.entries[id].source = s
      /\ \A i \in Pending(t.entries) : t.entries[i].source = s => id <= i
  <2>1. t.bySource[s] # <<>> /\ QueuesExact(t.entries, t.bySource)
    BY <1>8 DEF Routable, TableOk
  <2> QED BY <1>1, <2>1, HeadPending
<1>10. ~t.entries[id].staged
  BY <1>8 DEF Routable
<1> HIDE DEF id
<1>11. u = [t EXCEPT !.ready = r, !.readySet = t.readySet \ {s}]
  BY DEF TurnTaken, r, s
<1>12. /\ u \in TableType /\ SameButRotation(u, t) /\ u.ready = r /\ u.readySet = t.readySet \ {s}
  BY <1>1, <1>11 DEF TableType, SameButRotation
<1> HIDE DEF u
<1>13. RotationExact(u.entries, u.bySource, u.ready, u.readySet, {s})
  <2>1. ASSUME NEW a \in Actor \ {s} PROVE a \in t.readySet \ {s} <=> Routable(t.entries, t.bySource, a)
    BY <1>3 DEF RotationExact
  <2> QED BY <1>6, <1>7, <1>12, <2>1 DEF RotationExact, SameButRotation
<1>14. TableOk(u, {s})
  BY <1>12, <1>13 DEF TableOk, SameButRotation
<1> QED
  BY <1>1, <1>9, <1>10, <1>12, <1>14 DEF u, s, id

\* The snapshot of a publication is charged.
Charged(t, id, p) == [t EXCEPT !.snapshotEntries = @ + Len(p.routes) - Len(t.entries[id].routes)]

\* What the turn of a publication leaves: p is what became of it.
Turns(u, t, id, p) ==
  /\ TableOk(u, {})
  /\ \A i \in PubId \ {id} : u.entries[i] = t.entries[i]
  /\ u.entries[id] \in {p, NoPublication}
  /\ u.nextId = t.nextId /\ u.held = t.held
  /\ \A i \in Pending(u.entries) \cup u.held :
       u.tickets[i].admitted = IF i = id THEN p.admitted ELSE t.tickets[i].admitted
  /\ u.snapshotEntries <= t.snapshotEntries + Len(p.routes) - Len(t.entries[id].routes)

\* The steps from one table to the other, field by field.
ReplacedInSteps(t, id, p, ticket) ==
  LET c == Charged(t, id, p)
      d == [c EXCEPT !.entries = [t.entries EXCEPT ![id] = p]]
  IN /\ c \in TableType /\ d \in TableType
     /\ c.entries = t.entries /\ c.tickets = t.tickets /\ c.held = t.held
     /\ d.held = t.held /\ d.tickets = t.tickets /\ d.entries = [t.entries EXCEPT ![id] = p]
     /\ Replaced(t, id, p, ticket) = [d EXCEPT !.tickets = [t.tickets EXCEPT ![id] = ticket]]
     /\ [d EXCEPT !.entries = [t.entries EXCEPT ![id] = NoPublication]] =
        [c EXCEPT !.entries = [t.entries EXCEPT ![id] = NoPublication]]
     /\ [c EXCEPT !.entries = [t.entries EXCEPT ![id] = p],
                  !.tickets = [t.tickets EXCEPT ![id] = ticket]] = Replaced(t, id, p, ticket)

LEMMA ReplacedShape ==
  ASSUME NEW t \in TableType, NEW id \in PubId, NEW p \in Publication, NEW ticket \in Ticket,
         t.entries[id] \in Publication
  PROVE  ReplacedInSteps(t, id, p, ticket)
<1> USE TableFields
<1> DEFINE n == t.snapshotEntries + Len(p.routes) - Len(t.entries[id].routes)
           e == [t.entries EXCEPT ![id] = p]
           k == [t.tickets EXCEPT ![id] = ticket]
           g == [t.entries EXCEPT ![id] = NoPublication]
           c == [t EXCEPT !.snapshotEntries = n]
           d == [c EXCEPT !.entries = e]
<1>1. n \in Int
  <2>1. p.routes \in Seq(RouteId \X Actor) /\ t.entries[id].routes \in Seq(RouteId \X Actor)
    BY DEF Publication
  <2> DEFINE more == Len(p.routes)
             less == Len(t.entries[id].routes)
             now0 == t.snapshotEntries
  <2>2. more \in Nat /\ less \in Nat /\ now0 \in Int
    BY <2>1 DEF TableType
  <2>3. n = now0 + more - less
    OBVIOUS
  <2> HIDE DEF more, less, now0, n
  <2> QED BY <2>2, <2>3
<1>2. e \in EntriesType
  BY DEF EntriesType
<1>3. Replaced(t, id, p, ticket) = [t EXCEPT !.entries = e, !.tickets = k, !.snapshotEntries = n]
  BY DEF Replaced
<1>4. Charged(t, id, p) = c
  BY DEF Charged
<1> HIDE DEF n, e, k, g
<1>5. /\ c \in TableType /\ d \in TableType
      /\ c.entries = t.entries /\ c.tickets = t.tickets /\ c.held = t.held
      /\ d.held = t.held /\ d.tickets = t.tickets /\ d.entries = e
  BY <1>1, <1>2 DEF TableType, EntriesType
<1>6. [t EXCEPT !.entries = e, !.tickets = k, !.snapshotEntries = n] = [d EXCEPT !.tickets = k]
  BY DEF TableType
<1>7. [d EXCEPT !.entries = g] = [c EXCEPT !.entries = g]
  BY DEF TableType
<1>8. [c EXCEPT !.entries = e, !.tickets = k] =
      [t EXCEPT !.entries = e, !.tickets = k, !.snapshotEntries = n]
  BY DEF TableType
<1> HIDE DEF c, d
<1> QED
  BY <1>3, <1>4, <1>5, <1>6, <1>7, <1>8 DEF ReplacedInSteps, d, e, k, g

\* A turn that ends a publication.
LEMMA FinishTurns ==
  ASSUME NEW t, NEW id \in PubId, NEW s, NEW p, NEW ticket, MayReplace(t, id, s, p, ticket),
         NEW outcome \in Outcomes
  PROVE  Turns(Finish(Charged(t, id, p), id, p, outcome), t, id, p)
<1> USE TableFields
<1> DEFINE c == Charged(t, id, p)
           d == [c EXCEPT !.entries = [t.entries EXCEPT ![id] = p]]
           g == [t.entries EXCEPT ![id] = NoPublication]
           v == Replaced(t, id, p, ticket)
           u == Finish(v, id, p, outcome)
<1>1. /\ t \in TableType /\ t.entries \in EntriesType /\ t.tickets \in [PubId -> Ticket]
      /\ t.entries[id] \in Publication /\ p \in Publication /\ ticket \in Ticket
      /\ ticket.admitted = p.admitted /\ t.held \in SUBSET PubId
      /\ p.source = s
  BY DEF MayReplace, TableOk, EntriesType
<1>2. /\ c \in TableType /\ d \in TableType
      /\ c.entries = t.entries /\ c.held = t.held
      /\ d.held = t.held /\ d.tickets = t.tickets /\ d.entries = [t.entries EXCEPT ![id] = p]
      /\ v = [d EXCEPT !.tickets = [t.tickets EXCEPT ![id] = ticket]]
      /\ [d EXCEPT !.entries = g] = [c EXCEPT !.entries = g]
  <2>1. ReplacedInSteps(t, id, p, ticket)
    BY <1>1, ReplacedShape
  <2> QED BY <2>1 DEF ReplacedInSteps
<1>3. [d.entries EXCEPT ![id] = NoPublication] = g
  BY <1>1, <1>2 DEF EntriesType
<1> HIDE DEF c, d, g
<1>4. Finish(d, id, p, outcome) = Finish(c, id, p, outcome)
  BY <1>2, <1>3 DEF Finish, g
<1>5. Finish(d, id, p, outcome) = u
  <2>1. Forgets(d, id, p, outcome, ticket)
    BY <1>1, <1>2, FinishForgets
  <2> QED BY <1>2, <2>1 DEF Forgets
<1>6. Replaces(v, t, id, s, p, ticket)
  BY ReplaceKeeps
<1>7. /\ TableOk(v, {s}) /\ v.entries[id] = p /\ p # NoPublication
      /\ \A i \in PubId \ {id} : v.entries[i] = t.entries[i]
      /\ v.tickets[id] = ticket /\ \A i \in PubId \ {id} : v.tickets[i] = t.tickets[i]
      /\ v.nextId = t.nextId /\ v.held = t.held
      /\ v.snapshotEntries = t.snapshotEntries + Len(p.routes) - Len(t.entries[id].routes)
  BY <1>1, <1>6, NoPublicationAssumption DEF Replaces, EntriesType
<1> HIDE DEF v
<1>8. TableOk(u, {}) /\ Leaves(u, v, {id}) /\ u.snapshotEntries <= v.snapshotEntries
  BY <1>1, <1>7, FinishKeeps
<1> HIDE DEF u
<1>9. /\ \A i \in PubId \ {id} : u.entries[i] = t.entries[i]
      /\ u.entries[id] = NoPublication
      /\ u.nextId = t.nextId /\ u.held = t.held
  BY <1>7, <1>8 DEF Leaves
<1>10. \A i \in Pending(u.entries) \cup u.held :
         u.tickets[i].admitted = IF i = id THEN p.admitted ELSE t.tickets[i].admitted
  <2>1. \A i \in Pending(u.entries) \cup u.held : i \in PubId
    BY <1>1, <1>9 DEF Pending
  <2> QED BY <1>1, <1>7, <1>8, <2>1 DEF Leaves
<1>11. Turns(u, t, id, p)
  BY <1>7, <1>8, <1>9, <1>10 DEF Turns
<1> QED
  BY <1>4, <1>5, <1>11 DEF c

\* A turn that leaves destinations for the next.
LEMMA StayTurns ==
  ASSUME NEW t, NEW id \in PubId, NEW s, NEW p, NEW ticket, MayReplace(t, id, s, p, ticket),
         s \notin t.readySet
  PROVE  LET c == Charged(t, id, p) IN
         Turns(ReadySource([c EXCEPT !.entries = [c.entries EXCEPT ![id] = p],
                                     !.tickets = [c.tickets EXCEPT ![id] = ticket]], s), t, id, p)
<1> USE TableFields
<1> DEFINE c == Charged(t, id, p)
           v == Replaced(t, id, p, ticket)
           r == [c EXCEPT !.entries = [c.entries EXCEPT ![id] = p],
                          !.tickets = [c.tickets EXCEPT ![id] = ticket]]
           u == ReadySource(v, s)
<1>1. /\ t \in TableType /\ t.entries \in EntriesType /\ t.tickets \in [PubId -> Ticket]
      /\ t.entries[id] \in Publication /\ p \in Publication /\ ticket \in Ticket
      /\ ticket.admitted = p.admitted /\ t.held \in SUBSET PubId
      /\ p.source = s /\ s \in Actor
  <2>1. /\ t \in TableType /\ t.entries \in EntriesType /\ t.tickets \in [PubId -> Ticket]
        /\ t.entries[id] \in Publication /\ p \in Publication /\ ticket \in Ticket
        /\ ticket.admitted = p.admitted /\ t.held \in SUBSET PubId
        /\ p.source = s
    BY DEF MayReplace, TableOk, EntriesType
  <2> QED BY <2>1 DEF Publication
<1>2. r = v
  <2>1. /\ c.entries = t.entries /\ c.tickets = t.tickets
        /\ [c EXCEPT !.entries = [t.entries EXCEPT ![id] = p],
                     !.tickets = [t.tickets EXCEPT ![id] = ticket]] = v
    <3>1. ReplacedInSteps(t, id, p, ticket)
      BY <1>1, ReplacedShape
    <3> QED BY <3>1 DEF ReplacedInSteps
  <2> QED BY <2>1
<1>3. Replaces(v, t, id, s, p, ticket)
  BY ReplaceKeeps
<1>4. /\ TableOk(v, {s}) /\ v.entries[id] = p
      /\ \A i \in PubId \ {id} : v.entries[i] = t.entries[i]
      /\ v.tickets[id] = ticket /\ \A i \in PubId \ {id} : v.tickets[i] = t.tickets[i]
      /\ v.nextId = t.nextId /\ v.held = t.held /\ v.readySet = t.readySet
      /\ v.snapshotEntries = t.snapshotEntries + Len(p.routes) - Len(t.entries[id].routes)
  BY <1>1, <1>3 DEF Replaces, EntriesType
<1> HIDE DEF v
<1>5. /\ u \in TableType /\ SameButRotation(u, v)
      /\ RotationExact(u.entries, u.bySource, u.ready, u.readySet, {})
  BY <1>1, <1>4, ReadySourceRotates DEF TableOk
<1> HIDE DEF u
<1>6. TableOk(u, {})
  BY <1>4, <1>5 DEF TableOk, SameButRotation
<1>7. v.snapshotEntries \in Int
  BY <1>4 DEF TableOk
<1>8. \A i \in Pending(u.entries) \cup u.held :
        u.tickets[i].admitted = IF i = id THEN p.admitted ELSE t.tickets[i].admitted
  <2>1. \A i \in Pending(u.entries) \cup u.held : i \in PubId
    BY <1>1, <1>4, <1>5 DEF Pending, SameButRotation
  <2> QED BY <1>1, <1>4, <1>5, <2>1 DEF SameButRotation
<1>9. u.snapshotEntries <= t.snapshotEntries + Len(p.routes) - Len(t.entries[id].routes)
  <2> DEFINE n == t.snapshotEntries + Len(p.routes) - Len(t.entries[id].routes)
  <2>1. v.snapshotEntries = n /\ u.snapshotEntries = v.snapshotEntries
    BY <1>4, <1>5 DEF SameButRotation
  <2> HIDE DEF n
  <2>2. u.snapshotEntries <= n
    BY <1>7, <2>1
  <2> QED BY <2>2 DEF n
<1>10. Turns(u, t, id, p)
  BY <1>4, <1>5, <1>6, <1>8, <1>9 DEF Turns, SameButRotation
<1> HIDE DEF c, r
<1>11. Turns(ReadySource(r, s), t, id, p)
  BY <1>2, <1>10 DEF u
<1> QED
  BY <1>11 DEF c, r

\* A turn that is refused.
LEMMA RefusedTurns ==
  ASSUME NEW t, NEW id \in PubId, t.entries[id] # NoPublication, TableOk(t, {t.entries[id].source}),
         NEW outcome \in Outcomes
  PROVE  Turns(Finish(t, id, t.entries[id], outcome), t, id, t.entries[id])
<1> USE TableFields
<1> DEFINE p == t.entries[id]
           s == p.source
           u == Finish(t, id, p, outcome)
<1>1. /\ t \in TableType /\ t.entries \in EntriesType /\ t.held \in SUBSET PubId /\ p \in Publication
      /\ TicketsExact(t.entries, t.tickets, t.held, t.nextId)
  BY DEF TableOk, EntriesType
<1>2. TableOk(u, {}) /\ Leaves(u, t, {id}) /\ u.snapshotEntries <= t.snapshotEntries
  BY FinishKeeps
<1>3. t.tickets[id].admitted = p.admitted
  BY <1>1 DEF TicketsExact, Pending
<1>4. u.snapshotEntries <= t.snapshotEntries + Len(p.routes) - Len(p.routes)
  <2>1. t.snapshotEntries \in Int
    BY <1>1
  <2>2. p.routes \in Seq(RouteId \X Actor)
    BY <1>1 DEF Publication
  <2>3. Len(p.routes) \in Nat
    BY <2>2
  <2> DEFINE a == t.snapshotEntries
             b == Len(p.routes)
  <2>4. a \in Int /\ b \in Nat /\ u.snapshotEntries <= a
    BY <1>2, <2>1, <2>3
  <2>5. a + b - b = a
    <3> HIDE DEF a, b
    <3> QED BY <2>4
  <2> QED BY <2>4, <2>5
<1> HIDE DEF u
<1>5. \A i \in Pending(u.entries) \cup u.held : i \in PubId
  BY <1>1, <1>2 DEF Pending, Leaves
<1>6. Turns(u, t, id, p)
  BY <1>2, <1>3, <1>4, <1>5 DEF Turns, Leaves
<1> QED
  BY <1>6 DEF u

-----------------------------------------------------------------------------
(* The invariant of the history.                                           *)

Log == [pub : PubId, source : Actor, route : RouteId]
Logs == [Actor -> Seq(Log)]

\* What was delivered is not ahead of what its source has pending: all of it is
\* older, or it is a destination that the publication has attempted.
Behind(d, entries, nextId) ==
  /\ d.pub < nextId
  /\ \A id \in Pending(entries) : entries[id].source = d.source =>
       /\ d.pub <= id
       /\ d.pub = id => \E k \in 1..entries[id].cursor : entries[id].routes[k][1] = d.route

DeliveredBehind(log, entries, nextId) ==
  \A a \in Actor : \A i \in DOMAIN log[a] : Behind(log[a][i], entries, nextId)

\* The mailboxes of log are in the order of their sources, and hold nothing the
\* drain of their actor keeps out.
Fifo(log) ==
  \A a \in Actor : \A i, j \in DOMAIN log[a] :
    i < j /\ log[a][i].source = log[a][j].source =>
      log[a][i].pub <= log[a][j].pub /\ log[a][i] # log[a][j]

NotBarred(log) == \A a \in Actor : \A i \in DOMAIN log[a] : a \notin barred[log[a][i].pub]

\* The entries of a publication in the mailboxes.
Entered(log, id) ==
  UNION {{<<a, i>> : i \in {j \in DOMAIN log[a] : log[a][j].pub = id}} : a \in Actor}

LEMMA EnteredIs ==
  ASSUME NEW log, NEW id, NEW a \in Actor, NEW i
  PROVE  <<a, i>> \in Entered(log, id) <=> i \in DOMAIN log[a] /\ log[a][i].pub = id
  BY DEF Entered

LEMMA EnteredPairs ==
  ASSUME NEW log \in Logs, NEW id
  PROVE  Entered(log, id) \subseteq Actor \X Nat
<1>1. \A a \in Actor : DOMAIN log[a] \subseteq Nat
  <2>1. \A a \in Actor : log[a] \in Seq(Log)
    BY DEF Logs
  <2> QED BY <2>1
<1> QED
  BY <1>1 DEF Entered

LEMMA EnteredFinite ==
  ASSUME NEW log \in Logs, NEW id
  PROVE  IsFiniteSet(Entered(log, id))
<1> DEFINE Of(a) == {<<a, i>> : i \in {j \in DOMAIN log[a] : log[a][j].pub = id}}
           Parts == {Of(a) : a \in Actor}
<1>1. ASSUME NEW a \in Actor PROVE IsFiniteSet(Of(a))
  <2> DEFINE I == {j \in DOMAIN log[a] : log[a][j].pub = id}
             F == [i \in I |-> <<a, i>>]
  <2>1. log[a] \in Seq(Log)
    BY DEF Logs
  <2>2. DOMAIN log[a] = 1..Len(log[a]) /\ Len(log[a]) \in Nat
    BY <2>1
  <2>3. IsFiniteSet(1..Len(log[a])) /\ I \subseteq 1..Len(log[a])
    BY <2>2, FS_Interval
  <2>4. Of(a) = {<<a, i>> : i \in I}
    OBVIOUS
  <2> HIDE DEF I
  <2>5. IsFiniteSet(I)
    BY <2>3, FS_Subset
  <2>6. F \in Surjection(I, Of(a))
    BY <2>4 DEF Surjection
  <2> HIDE DEF F, Of
  <2> QED BY <2>5, <2>6, FS_Surjection
<1>2. IsFiniteSet(Parts)
  <2> DEFINE F == [a \in Actor |-> Of(a)]
  <2>1. F \in Surjection(Actor, Parts)
    BY DEF Surjection
  <2>2. IsFiniteSet(Actor)
    BY RouteActorAssumption
  <2> HIDE DEF F, Parts, Of
  <2> QED BY <2>1, <2>2, FS_Surjection
<1>3. \A S \in Parts : IsFiniteSet(S)
  BY <1>1
<1>4. Entered(log, id) = UNION Parts
  BY DEF Entered
<1> HIDE DEF Parts
<1> QED
  BY <1>2, <1>3, <1>4, FS_UNION

\* A mailbox grows by one entry.
Grows(u, log, a, x) ==
  /\ u \in Logs
  /\ Len(log[a]) + 1 \in DOMAIN u[a] /\ u[a][Len(log[a]) + 1] = x
  /\ Len(log[a]) + 1 \notin DOMAIN log[a]
  /\ \A b \in Actor : \A i \in DOMAIN log[b] : i \in DOMAIN u[b] /\ u[b][i] = log[b][i]
  /\ \A b \in Actor : \A i \in DOMAIN u[b] :
       i \in DOMAIN log[b] \/ (b = a /\ i = Len(log[a]) + 1)

LEMMA AppendGrows ==
  ASSUME NEW log \in Logs, NEW a \in Actor, NEW x \in Log
  PROVE  Grows([log EXCEPT ![a] = Append(log[a], x)], log, a, x)
<1> DEFINE q == log[a]
           e == Append(q, x)
           u == [log EXCEPT ![a] = e]
           m == Len(q)
<1>1. q \in Seq(Log) /\ m \in Nat /\ DOMAIN q = 1..m
  BY DEF Logs
<1>2. /\ e \in Seq(Log) /\ DOMAIN e = 1..(m + 1)
      /\ e[m + 1] = x /\ \A i \in 1..m : e[i] = q[i]
  BY <1>1
<1> HIDE DEF e
<1>3. u \in Logs /\ u[a] = e /\ \A b \in Actor \ {a} : u[b] = log[b]
  BY <1>2 DEF Logs
<1> HIDE DEF u
<1>4. m + 1 \in 1..(m + 1) /\ m + 1 \notin 1..m
  BY <1>1
<1>5. ASSUME NEW b \in Actor, NEW i \in DOMAIN log[b]
      PROVE  i \in DOMAIN u[b] /\ u[b][i] = log[b][i]
  <2>1. CASE b = a
    <3>1. i \in 1..m /\ i \in 1..(m + 1)
      BY <1>1, <2>1
    <3> QED BY <1>2, <1>3, <2>1, <3>1
  <2>2. CASE b # a
    BY <1>3, <2>2
  <2> QED BY <2>1, <2>2
<1>6. ASSUME NEW b \in Actor, NEW i \in DOMAIN u[b]
      PROVE  i \in DOMAIN log[b] \/ (b = a /\ i = m + 1)
  <2>1. CASE b = a
    <3>1. i \in 1..(m + 1)
      BY <1>2, <1>3, <2>1
    <3>2. i \in 1..m \/ i = m + 1
      BY <1>1, <3>1
    <3> QED BY <1>1, <2>1, <3>2
  <2>2. CASE b # a
    BY <1>3, <2>2
  <2> QED BY <2>1, <2>2
<1>7. Grows(u, log, a, x)
  BY <1>1, <1>2, <1>3, <1>4, <1>5, <1>6 DEF Grows
<1> QED
  BY <1>7 DEF u, e

LEMMA GrowsEntered ==
  ASSUME NEW log \in Logs, NEW u, NEW a \in Actor, NEW x \in Log, Grows(u, log, a, x)
  PROVE  /\ Cardinality(Entered(u, x.pub)) = Cardinality(Entered(log, x.pub)) + 1
         /\ \A id : id # x.pub => Entered(u, id) = Entered(log, id)
<1> DEFINE m == Len(log[a]) + 1
<1>1. /\ u \in Logs
      /\ m \in DOMAIN u[a] /\ u[a][m] = x /\ m \notin DOMAIN log[a]
      /\ \A b \in Actor : \A i \in DOMAIN log[b] : i \in DOMAIN u[b] /\ u[b][i] = log[b][i]
      /\ \A b \in Actor : \A i \in DOMAIN u[b] : i \in DOMAIN log[b] \/ (b = a /\ i = m)
  BY DEF Grows
<1> HIDE DEF m
<1>2. ASSUME NEW id, NEW b \in Actor, NEW i
      PROVE  <<b, i>> \in Entered(u, id) <=>
               <<b, i>> \in Entered(log, id) \/ (id = x.pub /\ b = a /\ i = m)
  <2>1. <<b, i>> \in Entered(u, id) <=> i \in DOMAIN u[b] /\ u[b][i].pub = id
    BY DEF Entered
  <2>2. <<b, i>> \in Entered(log, id) <=> i \in DOMAIN log[b] /\ log[b][i].pub = id
    BY DEF Entered
  <2> QED BY <1>1, <2>1, <2>2
<1>3. \A id : Entered(u, id) \subseteq Actor \X Nat /\ Entered(log, id) \subseteq Actor \X Nat
  BY <1>1, EnteredPairs
<1>4. ASSUME NEW id, id # x.pub PROVE Entered(u, id) = Entered(log, id)
  <2>1. \A e \in Actor \X Nat : e \in Entered(u, id) <=> e \in Entered(log, id)
    <3>1. ASSUME NEW e \in Actor \X Nat PROVE e \in Entered(u, id) <=> e \in Entered(log, id)
      <4>1. PICK b \in Actor, i \in Nat : e = <<b, i>>
        OBVIOUS
      <4> QED BY <1>2, <1>4, <4>1
    <3> QED BY <3>1
  <2> QED BY <1>3, <2>1
<1>5. <<a, m>> \in Entered(u, x.pub) /\ <<a, m>> \notin Entered(log, x.pub)
  BY <1>1, EnteredIs
<1>6. Entered(u, x.pub) = Entered(log, x.pub) \cup {<<a, m>>}
  <2>1. \A e \in Actor \X Nat : e \in Entered(u, x.pub) <=> e \in Entered(log, x.pub) \cup {<<a, m>>}
    <3>1. ASSUME NEW e \in Actor \X Nat
          PROVE  e \in Entered(u, x.pub) <=> e \in Entered(log, x.pub) \cup {<<a, m>>}
      <4>1. PICK b \in Actor, i \in Nat : e = <<b, i>>
        OBVIOUS
      <4>2. e = <<a, m>> <=> b = a /\ i = m
        BY <4>1
      <4> QED BY <1>2, <4>1, <4>2
    <3> QED BY <3>1
  <2>2. <<a, m>> \in Actor \X Nat
    BY <1>3, <1>5
  <2> QED BY <1>3, <2>1, <2>2
<1>7. IsFiniteSet(Entered(log, x.pub))
  BY EnteredFinite
<1>8. Cardinality(Entered(u, x.pub)) = Cardinality(Entered(log, x.pub)) + 1
  BY <1>5, <1>6, <1>7, FS_AddElement
<1> QED
  BY <1>4, <1>8

\* The new entry is in order, and is not barred.
LEMMA GrowsInOrder ==
  ASSUME NEW log \in Logs, NEW u, NEW a \in Actor, NEW x \in Log, Grows(u, log, a, x),
         Fifo(log), NotBarred(log), a \notin barred[x.pub],
         \A i \in DOMAIN log[a] : log[a][i].source = x.source => log[a][i].pub <= x.pub /\ log[a][i] # x
  PROVE  Fifo(u) /\ NotBarred(u)
<1> DEFINE m == Len(log[a]) + 1
<1>1. /\ u \in Logs
      /\ m \in DOMAIN u[a] /\ u[a][m] = x /\ m \notin DOMAIN log[a]
      /\ \A b \in Actor : \A i \in DOMAIN log[b] : i \in DOMAIN u[b] /\ u[b][i] = log[b][i]
      /\ \A b \in Actor : \A i \in DOMAIN u[b] : i \in DOMAIN log[b] \/ (b = a /\ i = m)
  BY DEF Grows
<1>2. \A i \in DOMAIN log[a] : i < m
  <2>1. log[a] \in Seq(Log)
    BY DEF Logs
  <2> QED BY <2>1
<1>3. m \in Int
  <2>1. log[a] \in Seq(Log)
    BY DEF Logs
  <2> QED BY <2>1
<1> HIDE DEF m
<1>4. ASSUME NEW b \in Actor, NEW i \in DOMAIN u[b], NEW j \in DOMAIN u[b], i < j,
             u[b][i].source = u[b][j].source
      PROVE  u[b][i].pub <= u[b][j].pub /\ u[b][i] # u[b][j]
  <2>1. CASE j \in DOMAIN log[b]
    <3>1. i \in DOMAIN log[b]
      <4>1. SUFFICES ASSUME b = a, i = m PROVE FALSE
        BY <1>1
      <4>2. j < m /\ j \in Int
        <5>1. log[a] \in Seq(Log)
          BY DEF Logs
        <5> QED BY <1>2, <2>1, <4>1, <5>1
      <4> QED BY <1>3, <1>4, <4>1, <4>2
    <3> QED BY <1>1, <1>4, <2>1, <3>1 DEF Fifo
  <2>2. CASE j \notin DOMAIN log[b]
    <3>1. b = a /\ j = m
      BY <1>1, <2>2
    <3>2. i \in DOMAIN log[b]
      <4>1. i # m
        BY <1>3, <1>4, <3>1
      <4> QED BY <1>1, <4>1
    <3> QED BY <1>1, <1>4, <3>1, <3>2
  <2> QED BY <2>1, <2>2
<1>5. Fifo(u)
  BY <1>4 DEF Fifo
<1>6. NotBarred(u)
  BY <1>1 DEF NotBarred
<1> QED
  BY <1>5, <1>6

-----------------------------------------------------------------------------
(* The captured snapshot and its destinations.                             *)

\* What stays the same in a publication that is routed.
SameInput(p, q) ==
  /\ p.source = q.source /\ p.port = q.port /\ p.deadline = q.deadline
  /\ p.staged = q.staged /\ p.completion = q.completion

\* The publication q with its snapshot.
Captures(q, p, matching) ==
  /\ q \in Publication /\ PublicationOk(q) /\ SameInput(q, p)
  /\ q.cursor = p.cursor /\ q.admitted = p.admitted /\ q.rejected = p.rejected
  /\ p.routes # <<>> => q = p
  /\ p.routes = <<>> => Len(q.routes) = Cardinality(matching) /\ p.cursor = 0

LEMMA CapturedKeeps ==
  ASSUME subs \in RoutesType, NEW p \in Publication, PublicationOk(p), ~p.staged,
         NEW matching \in SUBSET ActiveRoutes(subs)
  PROVE  Captures(Captured(p, matching), p, matching)
<1> DEFINE ids == Sorted(matching, LAMBDA a, b : a < b)
           routes == [i \in DOMAIN ids |-> <<ids[i], subs.entries[ids[i]].target>>]
           n == Len(ids)
           q == [p EXCEPT !.routes = routes, !.matched = n]
<1>1. matching \in SUBSET Int /\ IsFiniteSet(matching) /\ matching \subseteq RouteId
  <2>1. matching \subseteq RouteId
    BY DEF ActiveRoutes
  <2>2. IsFiniteSet(RouteId) /\ \A r \in RouteId : r \in Int
    BY LastRouteAssumption, FS_Interval DEF RouteId
  <2> QED BY <2>1, <2>2, FS_Subset
<1>2. /\ ids \in Seq(matching) /\ n = Cardinality(matching)
      /\ \A i, j \in DOMAIN ids : i # j => ids[i] # ids[j]
  BY <1>1, SortedNumbers
<1> HIDE DEF ids
<1>3. n \in Nat /\ DOMAIN ids = 1..n /\ \A i \in 1..n : ids[i] \in matching
  BY <1>2
<1>4. \A r \in matching : r \in RouteId /\ subs.entries[r].target \in Actor
  <2>1. ASSUME NEW r \in matching PROVE r \in RouteId /\ subs.entries[r].target \in Actor
    <3>1. r \in RouteId /\ subs.entries[r] # NoSub
      BY DEF ActiveRoutes
    <3>2. subs.entries[r] \in Sub
      BY <3>1 DEF RoutesType
    <3> QED BY <3>1, <3>2 DEF Sub
  <2> QED BY <2>1
<1>5. /\ routes \in Seq(RouteId \X Actor) /\ Len(routes) = n /\ DOMAIN routes = 1..n
      /\ \A i \in 1..n : routes[i][1] = ids[i]
  <2>1. \A i \in 1..n : <<ids[i], subs.entries[ids[i]].target>> \in RouteId \X Actor
    BY <1>3, <1>4
  <2>2. routes \in [1..n -> RouteId \X Actor]
    BY <1>3, <2>1
  <2>3. \A i \in 1..n : routes[i] = <<ids[i], subs.entries[ids[i]].target>>
    BY <1>3
  <2> HIDE DEF routes
  <2>4. routes \in Seq(RouteId \X Actor)
    BY <1>3, <2>2, IsASeq
  <2>5. DOMAIN routes = 1..n /\ DOMAIN routes = 1..Len(routes) /\ Len(routes) \in Nat
    BY <2>2, <2>4
  <2>6. Len(routes) = n
    BY <1>3, <2>5
  <2> QED BY <2>3, <2>4, <2>5, <2>6
<1>6. n <= LastRoute
  <2>1. IsFiniteSet(1..LastRoute) /\ Cardinality(1..LastRoute) = LastRoute
    BY LastRouteAssumption, FS_Interval
  <2>2. Cardinality(matching) <= Cardinality(1..LastRoute)
    BY <1>1, <2>1, FS_Subset DEF RouteId
  <2> QED BY <1>2, <2>1, <2>2
<1>7. \A i, j \in 1..n : i # j => routes[i][1] # routes[j][1]
  BY <1>2, <1>3, <1>5
<1> HIDE DEF n, routes
<1>8. CASE p.routes # <<>>
  BY <1>8 DEF Captured, Captures, SameInput
<1>9. CASE p.routes = <<>>
  <2>1. Captured(p, matching) = q
    BY <1>9 DEF Captured, ids, routes, n
  <2>2. /\ q \in Publication /\ SameInput(q, p) /\ q.routes = routes /\ q.matched = n
        /\ q.cursor = p.cursor /\ q.admitted = p.admitted /\ q.rejected = p.rejected
    BY <1>3, <1>5 DEF Publication, SameInput
  <2>3. p.cursor = 0 /\ p.cursor = p.admitted + p.rejected
    <3>1. Len(p.routes) = 0
      BY <1>9
    <3>2. p.cursor \in Nat
      BY DEF Publication
    <3> QED BY <3>1, <3>2 DEF PublicationOk
  <2> HIDE DEF q
  <2>4. PublicationOk(q)
    BY <1>3, <1>5, <1>6, <1>7, <2>2, <2>3 DEF PublicationOk, SameInput
  <2> QED BY <1>2, <1>5, <1>9, <2>1, <2>2, <2>3, <2>4 DEF Captures
<1> QED
  BY <1>8, <1>9

\* One destination is counted.
Steps(q, p) ==
  /\ q \in Publication /\ SameInput(q, p) /\ q.routes = p.routes /\ q.matched = p.matched
  /\ q.cursor = p.cursor + 1

LEMMA AdmitSteps ==
  ASSUME NEW p \in Publication
  PROVE  LET next == [p EXCEPT !.cursor = @ + 1]
             q == [next EXCEPT !.admitted = @ + 1]
         IN Steps(q, p) /\ q.admitted = p.admitted + 1 /\ q.rejected = p.rejected
<1>1. p.cursor + 1 \in Nat /\ p.admitted + 1 \in Nat
  BY DEF Publication
<1> QED
  BY <1>1 DEF Publication, Steps, SameInput

LEMMA RejectSteps ==
  ASSUME NEW p \in Publication
  PROVE  LET next == [p EXCEPT !.cursor = @ + 1]
             q == [next EXCEPT !.rejected = @ + 1]
         IN Steps(q, p) /\ q.admitted = p.admitted /\ q.rejected = p.rejected + 1
<1>1. p.cursor + 1 \in Nat /\ p.rejected + 1 \in Nat
  BY DEF Publication
<1> QED
  BY <1>1 DEF Publication, Steps, SameInput

\* What the loop over the destinations hands on.
Batches == {v \in [p : Publication, box : BoxType, log : Logs] : BoxOk(v.box)}

LEMMA BatchFields ==
  ASSUME NEW v \in Batches
  PROVE  /\ v.p \in Publication /\ v.box \in BoxType /\ v.log \in Logs /\ BoxOk(v.box)
         /\ v = [p |-> v.p, box |-> v.box, log |-> v.log]
  BY DEF Batches

LEMMA BatchMade ==
  ASSUME NEW p \in Publication, NEW b, BoxOk(b), NEW log \in Logs
  PROVE  [p |-> p, box |-> b, log |-> log] \in Batches
<1>1. b \in BoxType
  BY DEF BoxOk
<1> QED
  BY <1>1 DEF Batches

\* The two ways an attempt goes.
Admits(u, id, v, dest) ==
  LET x == [pub |-> id, source |-> v.p.source, route |-> dest[1]] IN
  /\ Accepts(id, v.p, dest[1], dest[2], v.box)
  /\ x \in Log
  /\ Steps(u.p, v.p) /\ u.p.admitted = v.p.admitted + 1 /\ u.p.rejected = v.p.rejected
  /\ Grows(u.log, v.log, dest[2], x)

Rejects(u, v) ==
  /\ Steps(u.p, v.p) /\ u.p.admitted = v.p.admitted /\ u.p.rejected = v.p.rejected + 1
  /\ u.log = v.log

LEMMA AttemptShape ==
  ASSUME NEW v \in Batches, NEW id \in PubId, NEW dest \in RouteId \X Actor
  PROVE  LET u == Attempt(id, v, dest) IN
         u \in Batches /\ u.box.staged = v.box.staged /\ (Admits(u, id, v, dest) \/ Rejects(u, v))
<1> DEFINE route == dest[1]
           a == dest[2]
           d == [pub |-> id, source |-> v.p.source, route |-> route, deadline |-> v.p.deadline]
           next == [v.p EXCEPT !.cursor = @ + 1]
           more == [next EXCEPT !.admitted = @ + 1]
           less == [next EXCEPT !.rejected = @ + 1]
           x == [pub |-> id, source |-> v.p.source, route |-> route]
           log == [v.log EXCEPT ![a] = Append(v.log[a], x)]
           u == Attempt(id, v, dest)
<1>1. /\ v.p \in Publication /\ v.box \in BoxType /\ v.log \in Logs /\ BoxOk(v.box)
      /\ v = [p |-> v.p, box |-> v.box, log |-> v.log]
  BY BatchFields
<1>2. route \in RouteId /\ a \in Actor /\ v.p.source \in Actor /\ v.p.deadline \in 1..NoDeadline
  BY <1>1 DEF Publication
<1> HIDE DEF route, a
<1>3. d \in Delivery /\ x \in Log /\ d.deadline = v.p.deadline
  BY <1>2 DEF Delivery, Log
<1>4. CASE Accepts(id, v.p, route, a, v.box)
  <2>1. u = [p |-> more, box |-> Receive(v.box, a, d), log |-> log]
    BY <1>3, <1>4 DEF Attempt, Receive, route, a
  <2>2. Steps(more, v.p) /\ more.admitted = v.p.admitted + 1 /\ more.rejected = v.p.rejected
    BY <1>1, AdmitSteps
  <2> HIDE DEF more, d, x
  <2>3. BoxOk(Receive(v.box, a, d)) /\ Receive(v.box, a, d).staged = v.box.staged
    BY <1>1, <1>2, <1>3, ReceiveKeeps
  <2>4. Grows(log, v.log, a, x)
    BY <1>1, <1>2, <1>3, AppendGrows
  <2> DEFINE box == Receive(v.box, a, d)
  <2> HIDE DEF log, box
  <2>5. log \in Logs /\ more \in Publication
    BY <2>2, <2>4 DEF Grows, Steps
  <2>6. u = [p |-> more, box |-> box, log |-> log] /\ BoxOk(box) /\ box.staged = v.box.staged
    BY <2>1, <2>3 DEF box
  <2>7. u \in Batches
    BY <2>5, <2>6, BatchMade
  <2>8. u.p = more /\ u.box = box /\ u.log = log
    BY <2>6
  <2> HIDE DEF u
  <2>9. Admits(u, id, v, dest)
    BY <1>3, <1>4, <2>2, <2>4, <2>8 DEF Admits, x, route, a
  <2> QED BY <2>6, <2>7, <2>8, <2>9 DEF u
<1>5. CASE ~Accepts(id, v.p, route, a, v.box)
  <2>1. u = [v EXCEPT !.p = less]
    BY <1>5 DEF Attempt, route, a
  <2>2. Steps(less, v.p) /\ less.admitted = v.p.admitted /\ less.rejected = v.p.rejected + 1
    BY <1>1, RejectSteps
  <2> HIDE DEF less
  <2>3. u = [p |-> less, box |-> v.box, log |-> v.log]
    BY <1>1, <2>1
  <2>4. u.p = less /\ u.box = v.box /\ u.log = v.log
    BY <2>3
  <2>5. u \in Batches
    BY <1>1, <2>2, <2>3, BatchMade DEF Steps
  <2> HIDE DEF u
  <2>6. Rejects(u, v)
    BY <2>2, <2>4 DEF Rejects
  <2> QED BY <2>4, <2>5, <2>6 DEF u
<1> QED
  BY <1>4, <1>5

-----------------------------------------------------------------------------
(* The destinations of a batch, one after the other.                       *)

\* A draining actor has a cutoff, and an ordinary publication that was accepted
\* while it drained is above it.
CutoffsHold(entries, nextId) ==
  /\ \A a \in Actor : /\ cutoff[a] < nextId
                      /\ actorState[a] = "Quiescing" => cutoff[a] # NoCutoff
  /\ \A id \in Pending(entries) : \A a \in barred[id] :
       /\ ~entries[id].completion
       /\ actorState[a] \in {"Quiescing", "Stopping"}
       /\ actorState[a] = "Quiescing" => cutoff[a] < id

\* Publication id has a turn, q with its snapshot.
Turn(id, q) ==
  /\ id \in Pending(pubs.entries) /\ q \in Publication /\ PublicationOk(q)
  /\ SameInput(q, pubs.entries[id]) /\ ~q.staged
  /\ \A i \in Pending(pubs.entries) : pubs.entries[i].source = q.source => id <= i

\* The publication, the mailboxes and the history after n destinations.
Going(id, q, v, n) ==
  /\ v \in Batches /\ v.box.staged = staged
  /\ SameInput(v.p, q) /\ v.p.routes = q.routes /\ v.p.matched = q.matched
  /\ v.p.cursor = q.cursor + n /\ v.p.cursor = v.p.admitted + v.p.rejected
  /\ Fifo(v.log) /\ NotBarred(v.log)
  /\ DeliveredBehind(v.log, [pubs.entries EXCEPT ![id] = v.p], pubs.nextId)
  /\ v.p.admitted = Cardinality(Entered(v.log, id))
  /\ \A i \in PubId \ {id} : Entered(v.log, i) = Entered(delivered, i)

\* An entry stays behind when its publication advances.
LEMMA BehindAdvances ==
  ASSUME NEW e \in EntriesType, NEW id \in PubId, NEW p \in Publication, NEW q, Steps(q, p),
         NEW d, NEW n, Behind(d, [e EXCEPT ![id] = p], n)
  PROVE  Behind(d, [e EXCEPT ![id] = q], n)
<1> DEFINE f == [e EXCEPT ![id] = p]
           g == [e EXCEPT ![id] = q]
<1>1. /\ f[id] = p /\ g[id] = q /\ \A i \in PubId \ {id} : f[i] = e[i] /\ g[i] = e[i]
  BY DEF EntriesType
<1>2. p # NoPublication /\ q # NoPublication /\ q \in Publication
  BY NoPublicationAssumption DEF Steps
<1>3. Behind(d, f, n)
  OBVIOUS
<1> HIDE DEF f, g
<1>4. ASSUME NEW i \in Pending(g), g[i].source = d.source
      PROVE  d.pub <= i /\ (d.pub = i => \E k \in 1..g[i].cursor : g[i].routes[k][1] = d.route)
  <2>1. CASE i = id
    <3>1. id \in Pending(f) /\ f[id].source = d.source
      BY <1>1, <1>2, <1>4, <2>1 DEF Pending, Steps, SameInput
    <3>2. /\ d.pub <= id
          /\ d.pub = id => \E k \in 1..p.cursor : p.routes[k][1] = d.route
      BY <1>1, <1>3, <3>1 DEF Behind
    <3>3. 1..p.cursor \subseteq 1..q.cursor /\ q.routes = p.routes
      <4>1. p.cursor \in Nat /\ q.cursor = p.cursor + 1 /\ q.routes = p.routes
        BY DEF Publication, Steps
      <4> QED BY <4>1
    <3> QED BY <1>1, <2>1, <3>2, <3>3
  <2>2. CASE i # id
    <3>1. i \in PubId \ {id} /\ i \in Pending(f) /\ f[i] = g[i]
      BY <1>1, <1>4, <2>2 DEF Pending
    <3> QED BY <1>3, <1>4, <3>1 DEF Behind
  <2> QED BY <2>1, <2>2
<1>5. Behind(d, g, n)
  BY <1>3, <1>4 DEF Behind
<1> QED
  BY <1>5 DEF g

\* Nothing that is barred from a target is admitted to it.
LEMMA AcceptsNotBarred ==
  ASSUME NEW id \in PubId, CutoffsHold(pubs.entries, pubs.nextId), NEW p, NEW route, NEW a \in Actor,
         NEW box, cutoff \in [Actor -> Int],
         id \in Pending(pubs.entries), p.completion = pubs.entries[id].completion,
         Accepts(id, p, route, a, box)
  PROVE  a \notin barred[id]
<1> SUFFICES ASSUME a \in barred[id] PROVE FALSE
  OBVIOUS
<1>1. /\ ~p.completion /\ actorState[a] \in {"Quiescing", "Stopping"}
      /\ actorState[a] = "Quiescing" => cutoff[a] < id
  BY DEF CutoffsHold
<1>2. actorState[a] \in {"Active", "Quiescing"}
  BY DEF Accepts, Running
<1>3. cutoff[a] < id /\ id <= cutoff[a]
  BY <1>1, <1>2 DEF Accepts
<1>4. id \in Int /\ cutoff[a] \in Int
  BY DEF PubId
<1> QED
  BY <1>3, <1>4

\* One destination more: it was admitted, or it was not.
LEMMA AttemptKeeps ==
  ASSUME TableOk(pubs, {}), CutoffsHold(pubs.entries, pubs.nextId), cutoff \in [Actor -> Int],
         NEW id \in PubId, NEW q, Turn(id, q), NEW n \in Nat, NEW v, Going(id, q, v, n),
         q.cursor + n < Len(q.routes), NEW u \in Batches, u.box.staged = v.box.staged,
         Admits(u, id, v, q.routes[q.cursor + n + 1]) \/ Rejects(u, v)
  PROVE  Going(id, q, u, n + 1)
<1> DEFINE m == q.cursor + n + 1
           dest == q.routes[m]
           a == dest[2]
           x == [pub |-> id, source |-> v.p.source, route |-> dest[1]]
           E(p) == [pubs.entries EXCEPT ![id] = p]
<1>1. /\ q \in Publication /\ q.routes \in Seq(RouteId \X Actor) /\ q.cursor \in Nat
      /\ m \in 1..Len(q.routes) /\ m = (q.cursor + n) + 1 /\ Len(q.routes) \in Nat
  <2>1. q \in Publication
    BY DEF Turn
  <2>2. q.routes \in Seq(RouteId \X Actor) /\ q.cursor \in Nat
    BY <2>1 DEF Publication
  <2>3. Len(q.routes) \in Nat
    BY <2>2
  <2> QED BY <2>1, <2>2, <2>3
<1> HIDE DEF m
<1>2. dest \in RouteId \X Actor
  BY <1>1
<1>3. /\ v \in Batches /\ v.p \in Publication /\ v.log \in Logs
      /\ v.p.cursor \in Nat /\ v.p.admitted \in Nat /\ v.p.rejected \in Nat
  <2>1. v \in Batches
    BY DEF Going
  <2>2. v.p \in Publication /\ v.log \in Logs
    BY <2>1, BatchFields
  <2> QED BY <2>1, <2>2 DEF Publication
<1> HIDE DEF dest
<1>4. u \in Batches /\ u.box.staged = v.box.staged /\ (Admits(u, id, v, dest) \/ Rejects(u, v))
  BY DEF dest, m
<1>5. Steps(u.p, v.p)
  BY <1>4 DEF Admits, Rejects
<1>6. /\ u.box.staged = staged /\ SameInput(u.p, q) /\ u.p.routes = q.routes
      /\ u.p.matched = q.matched /\ u.p.cursor = m /\ u.p.cursor = q.cursor + (n + 1)
      /\ u.p.cursor = u.p.admitted + u.p.rejected
  <2>1. /\ u.box.staged = staged /\ SameInput(u.p, q) /\ u.p.routes = q.routes
        /\ u.p.matched = q.matched
    BY <1>4, <1>5 DEF Going, Steps, SameInput
  <2>2. /\ u.p.cursor = v.p.cursor + 1 /\ v.p.cursor = q.cursor + n
        /\ v.p.cursor = v.p.admitted + v.p.rejected
    BY <1>5 DEF Going, Steps
  <2>3. u.p.cursor = m /\ u.p.cursor = q.cursor + (n + 1)
    <3> DEFINE qc == q.cursor
               vc == v.p.cursor
               uc == u.p.cursor
    <3>1. qc \in Nat /\ vc \in Nat /\ uc = vc + 1 /\ vc = qc + n /\ m = (qc + n) + 1
      BY <1>1, <1>3, <2>2
    <3> HIDE DEF qc, vc, uc
    <3>2. uc = m /\ uc = qc + (n + 1)
      BY <3>1
    <3> QED BY <3>2 DEF uc, qc
  <2>4. \/ u.p.admitted = v.p.admitted + 1 /\ u.p.rejected = v.p.rejected
        \/ u.p.admitted = v.p.admitted /\ u.p.rejected = v.p.rejected + 1
    BY <1>4 DEF Admits, Rejects
  <2>5. u.p.cursor = u.p.admitted + u.p.rejected
    <3> DEFINE vc == v.p.cursor
               va == v.p.admitted
               vr == v.p.rejected
               uc == u.p.cursor
               ua == u.p.admitted
               ur == u.p.rejected
    <3>1. /\ vc \in Nat /\ va \in Nat /\ vr \in Nat /\ uc = vc + 1 /\ vc = va + vr
          /\ (ua = va + 1 /\ ur = vr) \/ (ua = va /\ ur = vr + 1)
      BY <1>3, <2>2, <2>4
    <3> HIDE DEF vc, va, vr, uc, ua, ur
    <3>2. uc = ua + ur
      BY <3>1
    <3> QED BY <3>2 DEF uc, ua, ur
  <2> QED BY <2>1, <2>3, <2>5
<1>7. /\ pubs.entries \in EntriesType /\ pubs.entries[id] # NoPublication
      /\ id < pubs.nextId /\ u.p \in Publication /\ u.p # NoPublication /\ v.p # NoPublication
  <2>1. pubs.entries \in EntriesType
    BY TableFields DEF TableOk
  <2>2. id \in Pending(pubs.entries)
    BY DEF Turn
  <2>3. id < pubs.nextId
    BY <2>2 DEF TableOk, TicketsExact
  <2> QED BY <1>3, <1>5, <2>1, <2>2, <2>3, NoPublicationAssumption DEF Steps, Pending
<1>8. /\ E(v.p)[id] = v.p /\ E(u.p)[id] = u.p
      /\ \A i \in PubId \ {id} : E(v.p)[i] = pubs.entries[i] /\ E(u.p)[i] = pubs.entries[i]
  BY <1>7 DEF EntriesType
<1>9. \A b \in Actor : \A i \in DOMAIN v.log[b] : Behind(v.log[b][i], E(v.p), pubs.nextId)
  BY DEF Going, DeliveredBehind
<1>10. \A b \in Actor : \A i \in DOMAIN v.log[b] : Behind(v.log[b][i], E(u.p), pubs.nextId)
  <2>1. ASSUME NEW b \in Actor, NEW i \in DOMAIN v.log[b]
        PROVE  Behind(v.log[b][i], E(u.p), pubs.nextId)
    <3>1. Behind(v.log[b][i], E(v.p), pubs.nextId)
      BY <1>9
    <3> QED BY <1>3, <1>5, <1>7, <3>1, BehindAdvances
  <2> QED BY <2>1
<1> HIDE DEF E
<1>11. CASE Rejects(u, v)
  <2>1. u.log = v.log /\ u.p.admitted = v.p.admitted
    BY <1>11 DEF Rejects
  <2>2. DeliveredBehind(u.log, E(u.p), pubs.nextId)
    BY <1>10, <2>1 DEF DeliveredBehind
  <2>3. Going(id, q, u, n + 1)
    BY <1>4, <1>6, <2>1, <2>2 DEF Going, E
  <2> QED BY <2>3
<1>12. CASE Admits(u, id, v, dest)
  <2>1. /\ Accepts(id, v.p, dest[1], a, v.box) /\ x \in Log /\ Grows(u.log, v.log, a, x)
        /\ u.p.admitted = v.p.admitted + 1
    BY <1>12 DEF Admits
  <2>2. x.pub = id /\ x.source = q.source /\ x.source = v.p.source /\ x.route = dest[1]
    BY DEF Going, SameInput
  <2> HIDE DEF x
  <2>3. a \in Actor
    BY <1>2
  <2> HIDE DEF a
  <2>4. a \notin barred[id]
    <3>1. id \in Pending(pubs.entries) /\ v.p.completion = pubs.entries[id].completion
      BY DEF Turn, Going, SameInput
    <3> QED BY <2>1, <2>3, <3>1, AcceptsNotBarred
  <2>5. ASSUME NEW i \in DOMAIN v.log[a], v.log[a][i].source = x.source
        PROVE  v.log[a][i].pub <= x.pub /\ v.log[a][i] # x
    <3> DEFINE d == v.log[a][i]
    <3>1. Behind(d, E(v.p), pubs.nextId)
      BY <1>9, <2>3
    <3>2. id \in Pending(E(v.p)) /\ E(v.p)[id].source = d.source
      BY <1>7, <1>8, <2>2, <2>5 DEF Pending
    <3>3. /\ d.pub <= id
          /\ d.pub = id => \E k \in 1..v.p.cursor : v.p.routes[k][1] = d.route
      BY <1>8, <3>1, <3>2 DEF Behind
    <3>4. ASSUME d = x PROVE FALSE
      <4>1. PICK k \in 1..v.p.cursor : v.p.routes[k][1] = dest[1]
        BY <2>2, <3>3, <3>4
      <4>2. v.p.routes = q.routes /\ v.p.cursor = q.cursor + n
        BY DEF Going
      <4>3. k \in 1..Len(q.routes) /\ k # m
        BY <1>1, <4>1, <4>2
      <4>4. q.routes[k][1] # q.routes[m][1]
        <5>1. DOMAIN q.routes = 1..Len(q.routes)
          BY <1>1
        <5>2. \A i0, j0 \in DOMAIN q.routes : i0 # j0 => q.routes[i0][1] # q.routes[j0][1]
          BY DEF Turn, PublicationOk
        <5> QED BY <1>1, <4>3, <5>1, <5>2
      <4> QED BY <4>1, <4>2, <4>4 DEF dest
    <3> QED BY <2>2, <3>3, <3>4
  <2>6. Fifo(u.log) /\ NotBarred(u.log)
    <3>1. Fifo(v.log) /\ NotBarred(v.log)
      BY DEF Going
    <3> QED BY <1>3, <2>1, <2>2, <2>3, <2>4, <2>5, <3>1, GrowsInOrder
  <2>7. /\ Cardinality(Entered(u.log, id)) = Cardinality(Entered(v.log, id)) + 1
        /\ \A i : i # id => Entered(u.log, i) = Entered(v.log, i)
    BY <1>3, <2>1, <2>2, <2>3, GrowsEntered
  <2>8. /\ u.p.admitted = Cardinality(Entered(u.log, id))
        /\ \A i \in PubId \ {id} : Entered(u.log, i) = Entered(delivered, i)
    BY <2>1, <2>7 DEF Going
  <2>9. Behind(x, E(u.p), pubs.nextId)
    <3>1. ASSUME NEW i \in Pending(E(u.p)), E(u.p)[i].source = x.source
          PROVE  id <= i /\ (id = i => \E k \in 1..E(u.p)[i].cursor : E(u.p)[i].routes[k][1] = x.route)
      <4>1. id \in Int
        BY DEF PubId
      <4>2. CASE i = id
        <5>1. m \in 1..u.p.cursor /\ u.p.routes[m][1] = x.route
          BY <1>1, <1>6, <2>2 DEF dest
        <5> QED BY <1>8, <4>1, <4>2, <5>1
      <4>3. CASE i # id
        <5>1. i \in Pending(pubs.entries) /\ pubs.entries[i].source = q.source
          BY <1>8, <2>2, <3>1, <4>3 DEF Pending
        <5> QED BY <4>3, <5>1 DEF Turn
      <4> QED BY <4>2, <4>3
    <3> QED BY <1>7, <2>2, <3>1 DEF Behind
  <2>10. DeliveredBehind(u.log, E(u.p), pubs.nextId)
    <3>1. ASSUME NEW b \in Actor, NEW i \in DOMAIN u.log[b]
          PROVE  Behind(u.log[b][i], E(u.p), pubs.nextId)
      <4>1. CASE i \in DOMAIN v.log[b]
        <5>1. u.log[b][i] = v.log[b][i]
          BY <2>1, <4>1 DEF Grows
        <5> QED BY <1>10, <4>1, <5>1
      <4>2. CASE i \notin DOMAIN v.log[b]
        <5>1. u.log[b][i] = x
          BY <2>1, <4>2 DEF Grows
        <5> QED BY <2>9, <5>1
      <4> QED BY <4>1, <4>2
    <3> QED BY <3>1 DEF DeliveredBehind
  <2>11. Going(id, q, u, n + 1)
    BY <1>4, <1>6, <2>6, <2>8, <2>10 DEF Going, E
  <2> QED BY <2>11
<1> QED
  BY <1>4, <1>11, <1>12

-----------------------------------------------------------------------------
(* One batch.                                                              *)

\* The reports count what entered the mailboxes.
Counted(log, entries, held, tickets) ==
  \A id \in Pending(entries) \cup held : tickets[id].admitted = Cardinality(Entered(log, id))

\* What a turn of route_batch starts from.
PublicationsOk ==
  /\ TableOk(pubs, {}) /\ pubs.snapshotEntries <= MaxSnapshot
  /\ BoxOk(Box) /\ StagedLinked(pubs.entries, staged)
  /\ cutoff \in [Actor -> Int] /\ delivered \in Logs
  /\ DeliveredBehind(delivered, pubs.entries, pubs.nextId)
  /\ CutoffsHold(pubs.entries, pubs.nextId)
  /\ Counted(delivered, pubs.entries, pubs.held, pubs.tickets)
  /\ SourceFifo /\ DrainCutoff

LEMMA HistoryForms == /\ SourceFifo <=> Fifo(delivered)
                      /\ DrainCutoff <=> NotBarred(delivered)
  BY DEF SourceFifo, Fifo, DrainCutoff, NotBarred

LEMMA GoingStarts ==
  ASSUME PublicationsOk, NEW id \in PubId, NEW q, Turn(id, q), NEW matching,
         Captures(q, pubs.entries[id], matching)
  PROVE  Going(id, q, [p |-> q, box |-> Box, log |-> delivered], 0)
<1> DEFINE v == [p |-> q, box |-> Box, log |-> delivered]
           p == pubs.entries[id]
           f == [pubs.entries EXCEPT ![id] = q]
<1>1. /\ q \in Publication /\ PublicationOk(q) /\ q.source = p.source
      /\ q.cursor = p.cursor /\ q.admitted = p.admitted
      /\ (p.routes # <<>> => q = p) /\ (p.routes = <<>> => p.cursor = 0)
      /\ q.cursor \in Nat
  BY DEF Captures, SameInput, Publication
<1>2. v \in Batches /\ v.box = Box /\ Box.staged = staged /\ v.p = q /\ v.log = delivered
  BY <1>1, BatchMade DEF PublicationsOk, Box
<1>3. /\ pubs.entries \in EntriesType /\ p # NoPublication /\ q # NoPublication
      /\ pubs.tickets[id].admitted = p.admitted /\ id \in Pending(pubs.entries)
      /\ f[id] = q /\ \A i \in PubId \ {id} : f[i] = pubs.entries[i]
  <2>1. pubs.entries \in EntriesType
    BY TableFields DEF PublicationsOk, TableOk
  <2>2. id \in Pending(pubs.entries)
    BY DEF Turn
  <2>3. pubs.tickets[id].admitted = p.admitted
    BY <2>2 DEF PublicationsOk, TableOk, TicketsExact
  <2> QED BY <1>1, <2>1, <2>2, <2>3, NoPublicationAssumption DEF Pending, EntriesType
<1> HIDE DEF v, f
<1>4. DeliveredBehind(delivered, f, pubs.nextId)
  <2>1. ASSUME NEW a \in Actor, NEW j \in DOMAIN delivered[a]
        PROVE  Behind(delivered[a][j], f, pubs.nextId)
    <3> DEFINE d == delivered[a][j]
    <3>1. Behind(d, pubs.entries, pubs.nextId)
      BY DEF PublicationsOk, DeliveredBehind
    <3> HIDE DEF d
    <3>2. ASSUME NEW i \in Pending(f), f[i].source = d.source
          PROVE  d.pub <= i /\ (d.pub = i => \E k \in 1..f[i].cursor : f[i].routes[k][1] = d.route)
      <4>1. i \in Pending(pubs.entries) /\ pubs.entries[i].source = d.source
        BY <1>1, <1>3, <3>2 DEF Pending
      <4>2. /\ d.pub <= i
            /\ d.pub = i => \E k \in 1..pubs.entries[i].cursor : pubs.entries[i].routes[k][1] = d.route
        BY <3>1, <4>1 DEF Behind
      <4>3. CASE i # id
        BY <1>3, <4>1, <4>2, <4>3 DEF Pending
      <4>4. CASE i = id /\ p.routes # <<>>
        BY <1>1, <1>3, <4>2, <4>4
      <4>5. CASE i = id /\ p.routes = <<>>
        <5>1. 1..p.cursor = {}
          BY <1>1, <4>5
        <5> QED BY <4>2, <4>5, <5>1
      <4> QED BY <4>3, <4>4, <4>5
    <3> QED BY <3>1, <3>2 DEF Behind, d
  <2> QED BY <2>1 DEF DeliveredBehind
<1>5. /\ q.admitted = Cardinality(Entered(delivered, id))
      /\ q.cursor = q.cursor + 0 /\ q.cursor = q.admitted + q.rejected
  BY <1>1, <1>3 DEF PublicationsOk, Counted, PublicationOk
<1>6. Fifo(delivered) /\ NotBarred(delivered)
  BY HistoryForms DEF PublicationsOk
<1>7. Going(id, q, v, 0)
  BY <1>2, <1>4, <1>5, <1>6 DEF Going, SameInput, f
<1> QED
  BY <1>7 DEF v

\* The destinations of a batch come from the snapshot.
LEMMA BatchIs ==
  ASSUME NEW q \in Publication, q.cursor <= Len(q.routes)
  PROVE  /\ Len(Batch(q)) \in Nat /\ q.cursor + Len(Batch(q)) <= Len(q.routes)
         /\ \A m \in 0..Len(Batch(q)) :
              LET s == SubSeq(Batch(q), 1, m) IN
              /\ s \in Seq(RouteId \X Actor) /\ Len(s) = m
              /\ \A k \in 1..m : s[k] = q.routes[q.cursor + k]
<1> DEFINE r == q.routes
           c == q.cursor
           hi == IF c + BatchSize < Len(r) THEN c + BatchSize ELSE Len(r)
<1>1. r \in Seq(RouteId \X Actor) /\ c \in Nat
  BY DEF Publication
<1>2. Len(r) \in Nat /\ BatchSize \in Nat
  BY <1>1, PublicationBoundsAssumption
<1>3. hi \in Nat /\ c <= hi /\ hi <= Len(r)
  <2> HIDE DEF c, r
  <2> QED BY <1>1, <1>2 DEF c, r
<1>4. Batch(q) = SubSeq(r, c + 1, hi)
  BY DEF Batch
<1> HIDE DEF hi, r, c
<1> DEFINE b == SubSeq(r, c + 1, hi)
<1>5. /\ b \in Seq(RouteId \X Actor) /\ Len(b) = hi - c
      /\ \A k \in 1..(hi - c) : b[k] = r[c + k]
  <2>1. hi - c \in Nat /\ c + 1 \in Nat \ {0} /\ c + 1 <= hi + 1 /\ hi + 1 - (c + 1) = hi - c
    BY <1>1, <1>3
  <2>2. b \in Seq(RouteId \X Actor)
    <3>1. \A i \in (c + 1)..hi : i \in 1..Len(r)
      BY <1>1, <1>2, <1>3
    <3> QED BY <1>1, <1>2, <1>3, <3>1
  <2>3. Len(b) = hi - c
    BY <1>1, <1>2, <1>3
  <2>4. ASSUME NEW k \in 1..(hi - c) PROVE b[k] = r[c + k]
    <3>1. b[k] = r[(c + 1) + k - 1]
      BY <1>1, <1>2, <1>3, <2>3
    <3>2. (c + 1) + k - 1 = c + k
      BY <1>1, <1>3
    <3> QED BY <3>1, <3>2
  <2> QED BY <2>2, <2>3, <2>4
<1> HIDE DEF b
<1>6. Len(b) \in Nat /\ c + Len(b) <= Len(r)
  BY <1>1, <1>2, <1>3, <1>5
<1>7. ASSUME NEW m \in 0..Len(b)
      PROVE  LET s == SubSeq(b, 1, m) IN
             /\ s \in Seq(RouteId \X Actor) /\ Len(s) = m
             /\ \A k \in 1..m : s[k] = r[c + k]
  <2> DEFINE s == SubSeq(b, 1, m)
  <2>1. s \in Seq(RouteId \X Actor) /\ Len(s) = m
    BY <1>5, <1>6
  <2>2. \A k \in 1..m : s[k] = b[k] /\ k \in 1..(hi - c)
    BY <1>5, <1>6
  <2> HIDE DEF s
  <2>3. \A k \in 1..m : s[k] = r[c + k]
    BY <1>5, <2>2
  <2> QED BY <2>1, <2>3 DEF s
<1> QED
  BY <1>4, <1>6, <1>7 DEF b, r, c

LEMMA LoopKeeps ==
  ASSUME PublicationsOk, NEW id \in PubId, NEW q, Turn(id, q), NEW matching,
         Captures(q, pubs.entries[id], matching), NEW m \in 0..Len(Batch(q))
  PROVE  LET start == [p |-> q, box |-> Box, log |-> delivered]
             good == FoldLeft(LAMBDA w, dest : Attempt(id, w, dest), start, SubSeq(Batch(q), 1, m))
         IN Going(id, q, good, m)
<1> DEFINE start == [p |-> q, box |-> Box, log |-> delivered]
           s == SubSeq(Batch(q), 1, m)
           good == FoldLeft(LAMBDA w, dest : Attempt(id, w, dest), start, s)
<1>1. /\ q \in Publication /\ q.cursor <= Len(q.routes) /\ q.cursor \in Nat
      /\ q.routes \in Seq(RouteId \X Actor)
  <2>1. q \in Publication /\ PublicationOk(q)
    BY DEF Turn
  <2> QED BY <2>1 DEF PublicationOk, Publication
<1>2. /\ Len(Batch(q)) \in Nat /\ q.cursor + Len(Batch(q)) <= Len(q.routes)
      /\ s \in Seq(RouteId \X Actor) /\ Len(s) = m
      /\ \A k \in 1..m : s[k] = q.routes[q.cursor + k]
  BY <1>1, BatchIs
<1>3. Going(id, q, start, 0)
  BY GoingStarts
<1> HIDE DEF start, s
<1>4. start \in Batches /\ m \in Nat /\ \A i \in 1..m : s[i] \in RouteId \X Actor
  BY <1>2, <1>3 DEF Going
<1>5. \A u \in Batches, i \in 1..Len(s) : Attempt(id, u, s[i]) \in Batches
  BY <1>2, <1>4, AttemptShape
<1>6. AttemptRun(Batches, start, s, id)
  BY <1>2, <1>4, <1>5, AttemptRuns
<1>7. PICK run \in [0..m -> Batches] :
        /\ run[0] = start /\ run[m] = good
        /\ \A i \in 1..m : run[i] = Attempt(id, run[i - 1], s[i])
  BY <1>2, <1>6 DEF AttemptRun
<1> DEFINE G == {i \in 0..m : Going(id, q, run[i], i)}
<1> HIDE DEF good
<1>8. 0 \in G
  <2>1. run[0] = start /\ 0 \in 0..m
    BY <1>4, <1>7
  <2>2. Going(id, q, run[0], 0)
    BY <1>3, <2>1
  <2> QED BY <2>1, <2>2
<1>9. ASSUME NEW k \in 1..m, k - 1 \in G PROVE k \in G
  <2> DEFINE v == run[k - 1]
             dest == q.routes[q.cursor + (k - 1) + 1]
  <2>1. Going(id, q, v, k - 1) /\ k - 1 \in Nat /\ k \in 0..m /\ (k - 1) + 1 = k
    BY <1>4, <1>9
  <2>2. v \in Batches /\ run[k] = Attempt(id, v, s[k])
    <3>1. k - 1 \in 0..m
      BY <1>4
    <3>2. run[k - 1] \in Batches
      BY <1>7, <3>1
    <3> QED BY <1>7, <3>2
  <2>3. dest = s[k] /\ dest \in RouteId \X Actor
    <3>1. q.cursor + (k - 1) + 1 = q.cursor + k
      BY <1>1
    <3> QED BY <1>2, <1>4, <3>1
  <2>4. q.cursor + (k - 1) < Len(q.routes)
    BY <1>1, <1>2, <1>4
  <2> HIDE DEF v, dest, G
  <2> DEFINE u == Attempt(id, v, dest)
  <2>5. u \in Batches /\ u.box.staged = v.box.staged /\ (Admits(u, id, v, dest) \/ Rejects(u, v))
    BY <2>2, <2>3, AttemptShape
  <2> HIDE DEF u
  <2>6. Going(id, q, u, (k - 1) + 1)
    <3>1. /\ TableOk(pubs, {}) /\ CutoffsHold(pubs.entries, pubs.nextId)
          /\ cutoff \in [Actor -> Int]
      BY DEF PublicationsOk
    <3>2. Admits(u, id, v, q.routes[q.cursor + (k - 1) + 1]) \/ Rejects(u, v)
      BY <2>5 DEF dest
    <3> QED BY <2>1, <2>4, <2>5, <3>1, <3>2, AttemptKeeps
  <2>7. Going(id, q, run[k], k)
    BY <2>1, <2>2, <2>3, <2>6 DEF u
  <2> QED BY <2>1, <2>7 DEF G
<1> HIDE DEF G
<1>10. m \in G
  <2>1. \A k \in 0..m : k \in G
    BY <1>4, <1>8, <1>9, InductionUpTo
  <2> QED BY <1>4, <2>1
<1>11. Going(id, q, good, m)
  BY <1>7, <1>10 DEF G
<1> QED
  BY <1>11 DEF good, start, s

LEMMA Halves ==
  ASSUME NEW reads \in Nat, NEW n \in Nat, reads <= 2 * n
  PROVE  /\ reads \div 2 \in 0..n
         /\ reads % 2 # 0 => reads \div 2 < n
<1> DEFINE h == reads \div 2
           r == reads % 2
<1>1. h \in Nat /\ r \in 0..1 /\ reads = 2 * h + r
  OBVIOUS
<1> HIDE DEF h, r
<1>2. h <= n /\ (r # 0 => h < n)
  BY <1>1
<1> QED
  BY <1>1, <1>2 DEF h, r

\* A destination whose deadline is found to be over inside admit.
LEMMA RejectGoes ==
  ASSUME NEW v \in Batches
  PROVE  LET u == [v EXCEPT !.p = [v.p EXCEPT !.cursor = @ + 1, !.rejected = @ + 1]] IN
         u \in Batches /\ u.box = v.box /\ Rejects(u, v)
<1> DEFINE u == [v EXCEPT !.p = [v.p EXCEPT !.cursor = @ + 1, !.rejected = @ + 1]]
           less == [v.p EXCEPT !.cursor = @ + 1, !.rejected = @ + 1]
<1>1. /\ v.p \in Publication /\ v.log \in Logs /\ BoxOk(v.box)
      /\ v = [p |-> v.p, box |-> v.box, log |-> v.log]
  BY BatchFields
<1>2. Steps(less, v.p) /\ less.admitted = v.p.admitted /\ less.rejected = v.p.rejected + 1
  <2>1. v.p.cursor + 1 \in Nat /\ v.p.rejected + 1 \in Nat
    BY <1>1 DEF Publication
  <2> QED BY <1>1, <2>1 DEF Publication, Steps, SameInput
<1>3. u = [v EXCEPT !.p = less]
  OBVIOUS
<1> HIDE DEF less, u
<1>4. u = [p |-> less, box |-> v.box, log |-> v.log]
  BY <1>1, <1>3
<1>5. u.p = less /\ u.box = v.box /\ u.log = v.log
  BY <1>4
<1>6. u \in Batches
  BY <1>1, <1>2, <1>4, BatchMade DEF Steps
<1>7. Rejects(u, v)
  BY <1>2, <1>5 DEF Rejects
<1> QED
  BY <1>5, <1>6, <1>7 DEF u

\* The table after the turn of a publication with the snapshot q.
LEMMA ReplaceInTurn ==
  ASSUME PublicationsOk, NEW t, NEW s, TableOk(t, {s}), SameButRotation(t, pubs),
         NEW id \in PubId, NEW q, Turn(id, q), s = q.source,
         NEW n \in Nat, q.cursor + n <= Len(q.routes), NEW v, Going(id, q, v, n)
  PROVE  MayReplace(t, id, s, v.p,
                    [t.tickets[id] EXCEPT !.status = "Routing", !.matched = v.p.matched,
                                          !.admitted = v.p.admitted, !.rejected = v.p.rejected])
<1> DEFINE old == t.tickets[id]
           k == [old EXCEPT !.status = "Routing", !.matched = v.p.matched,
                            !.admitted = v.p.admitted, !.rejected = v.p.rejected]
<1>1. /\ id \in Pending(pubs.entries) /\ t.entries = pubs.entries /\ t.tickets = pubs.tickets
      /\ t.tickets \in [PubId -> Ticket]
  BY TableFields DEF Turn, SameButRotation, TableOk
<1>2. t.entries[id] # NoPublication /\ s = t.entries[id].source /\ old.source = s /\ old \in Ticket
  <2>1. pubs.tickets[id].source = pubs.entries[id].source
    BY <1>1 DEF PublicationsOk, TableOk, TicketsExact
  <2> QED BY <1>1, <2>1 DEF Turn, SameInput, Pending
<1>3. /\ v.p \in Publication /\ SameInput(v.p, q) /\ v.p.routes = q.routes
      /\ v.p.matched = q.matched /\ v.p.cursor = q.cursor + n
      /\ v.p.cursor = v.p.admitted + v.p.rejected
  <2>1. v \in Batches
    BY DEF Going
  <2> QED BY <2>1, BatchFields DEF Going
<1>4. PublicationOk(v.p)
  <2>1. PublicationOk(q)
    BY DEF Turn
  <2> QED BY <1>3, <2>1 DEF PublicationOk, SameInput
<1>5. v.p.source = s /\ v.p.deadline = t.entries[id].deadline
  BY <1>1, <1>3 DEF Turn, SameInput
<1>6. k \in Ticket /\ k.source = s /\ k.admitted = v.p.admitted /\ k.status \notin Outcomes
  <2>1. v.p.matched \in Nat /\ v.p.admitted \in Nat /\ v.p.rejected \in Nat
    BY <1>3 DEF Publication
  <2> HIDE DEF old
  <2> QED BY <1>2, <2>1 DEF Ticket, Outcomes
<1> HIDE DEF k
<1>7. MayReplace(t, id, s, v.p, k)
  BY <1>2, <1>3, <1>4, <1>5, <1>6 DEF MayReplace
<1> QED
  BY <1>7 DEF k

\* What a turn leads to.
Delivers(v, t, id, q, w, n) ==
  /\ Going(id, q, w, n) /\ v.box = w.box /\ v.log = w.log
  /\ Turns(v.pubs, t, id, w.p)

LEMMA DeliverKeeps ==
  ASSUME PublicationsOk, NEW t, NEW s, TableOk(t, {s}), SameButRotation(t, pubs), s \notin t.readySet,
         NEW id \in PubId, NEW q, Turn(id, q), s = q.source, NEW matching,
         Captures(q, pubs.entries[id], matching), NEW reads \in Nat, reads <= 2 * Len(Batch(q))
  PROVE  LET charged == [t EXCEPT !.snapshotEntries = @ + Len(q.routes) - Len(pubs.entries[id].routes)]
         IN \E w, n : Delivers(Deliver(id, q, charged, reads), t, id, q, w, n)
<1> DEFINE h == reads \div 2
           batch == Batch(q)
           c == [t EXCEPT !.snapshotEntries = @ + Len(q.routes) - Len(pubs.entries[id].routes)]
           good == FoldLeft(LAMBDA w, dest : Attempt(id, w, dest),
                            [p |-> q, box |-> Box, log |-> delivered], SubSeq(batch, 1, h))
           v == IF reads % 2 = 0 THEN good
                ELSE [good EXCEPT !.p = [good.p EXCEPT !.cursor = @ + 1, !.rejected = @ + 1]]
           n == IF reads % 2 = 0 THEN h ELSE h + 1
           outcome == IF (reads + 1) \div 2 < Len(batch) THEN "Expired"
                      ELSE IF v.p.cursor = Len(v.p.routes) THEN "Routed" ELSE "None"
           report == [c.tickets[id] EXCEPT !.status = "Routing", !.matched = v.p.matched,
                                           !.admitted = v.p.admitted, !.rejected = v.p.rejected]
           d == Deliver(id, q, c, reads)
<1>1. /\ q \in Publication /\ q.cursor \in Nat /\ q.cursor <= Len(q.routes)
      /\ q.routes \in Seq(RouteId \X Actor)
  <2>1. q \in Publication /\ PublicationOk(q)
    BY DEF Turn
  <2> QED BY <2>1 DEF PublicationOk, Publication
<1>2. Len(batch) \in Nat /\ q.cursor + Len(batch) <= Len(q.routes) /\ Len(q.routes) \in Nat
  BY <1>1, BatchIs
<1> HIDE DEF batch
<1>3. h \in 0..Len(batch) /\ (reads % 2 # 0 => h < Len(batch))
  BY <1>2, Halves DEF batch
<1>4. Going(id, q, good, h)
  BY <1>3, LoopKeeps DEF batch
<1> HIDE DEF good, h
<1>5. Going(id, q, v, n) /\ n \in Nat /\ q.cursor + n <= Len(q.routes)
  <2>1. CASE reads % 2 = 0
    <3>1. v = good /\ n = h
      BY <2>1
    <3>2. h \in Nat /\ q.cursor + h <= Len(q.routes)
      BY <1>1, <1>2, <1>3
    <3> QED BY <1>4, <3>1, <3>2
  <2>2. CASE reads % 2 # 0
    <3> DEFINE u == [good EXCEPT !.p = [good.p EXCEPT !.cursor = @ + 1, !.rejected = @ + 1]]
    <3>1. v = u /\ n = h + 1
      BY <2>2
    <3>2. good \in Batches /\ h \in Nat
      BY <1>2, <1>3, <1>4 DEF Going
    <3>3. u \in Batches /\ u.box = good.box /\ Rejects(u, good)
      BY <3>2, RejectGoes
    <3> HIDE DEF u
    <3>4. q.cursor + h < Len(q.routes) /\ q.cursor + (h + 1) <= Len(q.routes)
      BY <1>1, <1>2, <1>3, <2>2, <3>2
    <3>5. Going(id, q, u, h + 1)
      <4>1. TableOk(pubs, {}) /\ CutoffsHold(pubs.entries, pubs.nextId) /\ cutoff \in [Actor -> Int]
        BY DEF PublicationsOk
      <4>2. u.box.staged = good.box.staged
        BY <3>3
      <4> QED BY <1>4, <3>2, <3>3, <3>4, <4>1, <4>2, AttemptKeeps
    <3> HIDE DEF v, n
    <3> QED BY <3>1, <3>2, <3>4, <3>5
  <2> HIDE DEF v, n
  <2> QED BY <2>1, <2>2
<1>6. d = [pubs |-> IF outcome # "None" THEN Finish(c, id, v.p, outcome)
                    ELSE ReadySource([c EXCEPT !.entries = [c.entries EXCEPT ![id] = v.p],
                                               !.tickets = [c.tickets EXCEPT ![id] = report]],
                                     q.source),
           box |-> v.box, log |-> v.log]
  BY DEF Deliver, batch, good, h
<1> HIDE DEF v, n
<1>7. v.p.routes = q.routes /\ t.entries = pubs.entries /\ t.tickets = pubs.tickets
  BY <1>5 DEF Going, SameButRotation
<1>8. c = Charged(t, id, v.p) /\ c.tickets = t.tickets
  <2>1. c = Charged(t, id, v.p)
    BY <1>7 DEF Charged
  <2>2. c.tickets = t.tickets
    <3> DEFINE m == t.snapshotEntries + Len(q.routes) - Len(pubs.entries[id].routes)
    <3>1. c = [t EXCEPT !.snapshotEntries = m] /\ t \in TableType
      BY DEF TableOk
    <3> HIDE DEF m, c
    <3> QED BY <3>1 DEF TableType
  <2> QED BY <2>1, <2>2
<1>9. MayReplace(t, id, s, v.p, report)
  <2>1. report = [t.tickets[id] EXCEPT !.status = "Routing", !.matched = v.p.matched,
                                       !.admitted = v.p.admitted, !.rejected = v.p.rejected]
    BY <1>8
  <2> HIDE DEF report
  <2> QED BY <1>5, <2>1, ReplaceInTurn
<1> HIDE DEF report
<1>10. Turns(d.pubs, t, id, v.p)
  <2>1. CASE outcome # "None"
    <3>1. outcome \in Outcomes
      BY <2>1 DEF Outcomes
    <3> HIDE DEF outcome, c
    <3>2. Turns(Finish(Charged(t, id, v.p), id, v.p, outcome), t, id, v.p)
      BY <1>9, <3>1, FinishTurns
    <3>3. d.pubs = Finish(c, id, v.p, outcome)
      BY <1>6, <2>1
    <3> QED BY <1>8, <3>2, <3>3
  <2>2. CASE outcome = "None"
    <3> HIDE DEF outcome, c, d
    <3>1. d.pubs = ReadySource([c EXCEPT !.entries = [c.entries EXCEPT ![id] = v.p],
                                         !.tickets = [c.tickets EXCEPT ![id] = report]], s)
      BY <1>6, <2>2
    <3>2. LET e == Charged(t, id, v.p) IN
          Turns(ReadySource([e EXCEPT !.entries = [e.entries EXCEPT ![id] = v.p],
                                      !.tickets = [e.tickets EXCEPT ![id] = report]], s), t, id, v.p)
      BY <1>9, StayTurns
    <3> QED BY <1>8, <3>1, <3>2
  <2> QED BY <2>1, <2>2
<1>11. d.box = v.box /\ d.log = v.log
  <2> HIDE DEF d, outcome, c
  <2> QED BY <1>6
<1> HIDE DEF d
<1>12. Delivers(d, t, id, q, v, n)
  BY <1>5, <1>10, <1>11 DEF Delivers
<1> QED
  BY <1>12 DEF d

-----------------------------------------------------------------------------
(* A turn of route_batch.                                                  *)

LEMMA BoxOfFields ==
  /\ Box.queue = queue /\ Box.staged = staged /\ Box.counts = counts /\ Box.due = due
  /\ Box.stagedActors = stagedActors
  BY DEF Box

LEMMA SetBoxIs ==
  ASSUME NEW b \in BoxType, SetBox(b)
  PROVE  Box' = b
<1>1. b = [queue |-> b.queue, staged |-> b.staged, counts |-> b.counts, due |-> b.due,
           stagedActors |-> b.stagedActors]
  BY BoxFields
<1>2. Box' = [queue |-> b.queue, staged |-> b.staged, counts |-> b.counts, due |-> b.due,
              stagedActors |-> b.stagedActors]
  BY DEF SetBox, Box
<1> QED
  BY <1>1, <1>2

\* Entries are behind when publications go.
LEMMA BehindLess ==
  ASSUME NEW d, NEW e, NEW f, NEW n, Behind(d, e, n),
         \A i \in Pending(f) : i \in Pending(e) /\ f[i] = e[i]
  PROVE  Behind(d, f, n)
  BY DEF Behind

LEMMA TurnEndsKeeps ==
  ASSUME PublicationsOk, NEW t, SameButRotation(t, pubs), NEW id \in PubId, NEW q, Turn(id, q),
         NEW n, NEW v, Going(id, q, v, n), Turns(pubs', t, id, v.p),
         t.snapshotEntries + Len(v.p.routes) - Len(t.entries[id].routes) <= MaxSnapshot,
         SetBox(v.box), delivered' = v.log, UNCHANGED <<actorState, cutoff, barred>>
  PROVE  PublicationsOk'
<1>1. /\ v \in Batches /\ v.p \in Publication /\ v.box \in BoxType /\ BoxOk(v.box) /\ v.log \in Logs
      /\ v.box.staged = staged
  BY BatchFields DEF Going
<1>2. Box' = v.box /\ BoxOk(Box') /\ staged' = staged
  BY <1>1, SetBoxIs DEF SetBox
<1> DEFINE e == pubs.entries
           f == pubs'.entries
           E == [e EXCEPT ![id] = v.p]
<1>3. /\ TableOk(pubs', {}) /\ f[id] \in {v.p, NoPublication}
      /\ \A i \in PubId \ {id} : f[i] = e[i]
      /\ pubs'.nextId = pubs.nextId /\ pubs'.held = pubs.held
      /\ \A i \in Pending(f) \cup pubs.held :
           pubs'.tickets[i].admitted = IF i = id THEN v.p.admitted ELSE pubs.tickets[i].admitted
  BY DEF Turns, SameButRotation
<1>4. pubs'.snapshotEntries <= MaxSnapshot
  <2> DEFINE m == t.snapshotEntries + Len(v.p.routes) - Len(t.entries[id].routes)
             x == pubs'.snapshotEntries
  <2>1. x \in Int
    BY <1>3, TableFields DEF TableOk
  <2>2. x <= m /\ m <= MaxSnapshot
    BY DEF Turns
  <2>3. m \in Int
    <3>1. t.snapshotEntries \in Int /\ t.entries[id] \in Publication
      <4>1. id \in Pending(pubs.entries) /\ t.entries = pubs.entries
            /\ t.snapshotEntries = pubs.snapshotEntries
        BY DEF Turn, SameButRotation
      <4>2. pubs.entries \in EntriesType /\ pubs.snapshotEntries \in Int
        BY TableFields DEF PublicationsOk, TableOk
      <4> QED BY <4>1, <4>2 DEF EntriesType, Pending
    <3>2. v.p.routes \in Seq(RouteId \X Actor) /\ t.entries[id].routes \in Seq(RouteId \X Actor)
      BY <1>1, <3>1 DEF Publication
    <3>3. Len(v.p.routes) \in Nat /\ Len(t.entries[id].routes) \in Nat
      BY <3>2
    <3> DEFINE a == t.snapshotEntries
               b == Len(v.p.routes)
               c == Len(t.entries[id].routes)
    <3>4. a \in Int /\ b \in Int /\ c \in Int /\ m = a + b - c
      BY <3>1, <3>3
    <3> HIDE DEF a, b, c, m
    <3> QED BY <3>4
  <2>4. MaxSnapshot \in Int
    BY PublicationBoundsAssumption
  <2> HIDE DEF m, x
  <2>5. x <= MaxSnapshot
    BY <2>1, <2>2, <2>3, <2>4
  <2> QED BY <2>5 DEF x
<1>5. /\ id \in Pending(e) /\ e \in EntriesType /\ ~e[id].staged /\ ~v.p.staged
      /\ v.p.completion = e[id].completion /\ v.p # NoPublication
  <2>1. id \in Pending(e)
    BY DEF Turn
  <2>2. e \in EntriesType
    BY TableFields DEF PublicationsOk, TableOk
  <2> QED BY <1>1, <2>1, <2>2, NoPublicationAssumption DEF Turn, Going, SameInput
<1>6. /\ E[id] = v.p /\ \A i \in PubId \ {id} : E[i] = e[i]
  BY <1>5 DEF EntriesType
<1>7. \A i \in Pending(f) : /\ i \in Pending(e) /\ i \in Pending(E) /\ f[i] = E[i]
                            /\ f[i].completion = e[i].completion
  BY <1>3, <1>5, <1>6 DEF Pending
<1>8. StagedLinked(f, staged')
  <2>1. StagedLinked(e, staged) /\ staged \in [Actor -> Seq(Staged)]
    <3>1. Box \in BoxType
      BY DEF PublicationsOk, BoxOk
    <3> QED BY <3>1, BoxFields, BoxOfFields DEF PublicationsOk
  <2>2. id \in Pending(f) => ~f[id].staged
    BY <1>3, <1>5 DEF Pending
  <2> HIDE DEF e, f
  <2> QED BY <1>2, <1>3, <1>5, <2>1, <2>2, LinkedElsewhere
<1>9. DeliveredBehind(delivered', f, pubs'.nextId)
  <2>1. DeliveredBehind(v.log, E, pubs.nextId)
    BY DEF Going
  <2> HIDE DEF e, f, E
  <2>2. ASSUME NEW a \in Actor, NEW i \in DOMAIN v.log[a] PROVE Behind(v.log[a][i], f, pubs.nextId)
    <3>1. Behind(v.log[a][i], E, pubs.nextId)
      BY <2>1 DEF DeliveredBehind
    <3> QED BY <1>7, <3>1, BehindLess
  <2> QED BY <1>3, <2>2 DEF DeliveredBehind
<1>10. CutoffsHold(pubs.entries, pubs.nextId)'
  <2>1. CutoffsHold(e, pubs.nextId)
    BY DEF PublicationsOk
  <2> HIDE DEF e, E
  <2>2. \A a \in Actor : /\ cutoff'[a] < pubs'.nextId
                         /\ actorState'[a] = "Quiescing" => cutoff'[a] # NoCutoff
    BY <1>3, <2>1 DEF CutoffsHold
  <2>3. \A i \in Pending(f) : \A a \in barred'[i] :
           /\ ~f[i].completion
           /\ actorState'[a] \in {"Quiescing", "Stopping"}
           /\ actorState'[a] = "Quiescing" => cutoff'[a] < i
    BY <1>7, <2>1 DEF CutoffsHold
  <2> QED BY <2>2, <2>3 DEF CutoffsHold
<1>11. Counted(delivered', f, pubs'.held, pubs'.tickets)
  <2>1. ASSUME NEW i \in Pending(f) \cup pubs.held
        PROVE  pubs'.tickets[i].admitted = Cardinality(Entered(v.log, i))
    <3>1. CASE i = id
      BY <1>3, <2>1, <3>1 DEF Going
    <3>2. CASE i # id
      <4>1. i \in Pending(e) \cup pubs.held /\ i \in PubId \ {id}
        <5>1. pubs.held \in SUBSET PubId
          BY TableFields DEF PublicationsOk, TableOk
        <5> QED BY <1>7, <2>1, <3>2, <5>1 DEF Pending
      <4>2. pubs.tickets[i].admitted = Cardinality(Entered(delivered, i))
        BY <4>1 DEF PublicationsOk, Counted
      <4>3. Entered(v.log, i) = Entered(delivered, i)
        BY <4>1 DEF Going
      <4> QED BY <1>3, <2>1, <3>2, <4>2, <4>3
    <3> QED BY <3>1, <3>2
  <2> QED BY <1>3, <2>1 DEF Counted
<1>12. SourceFifo' /\ DrainCutoff'
  <2>1. Fifo(v.log) /\ NotBarred(v.log)
    BY DEF Going
  <2>2. SourceFifo'
    BY <2>1 DEF Fifo, SourceFifo
  <2>3. DrainCutoff'
    BY <2>1 DEF NotBarred, DrainCutoff
  <2> QED BY <2>2, <2>3
<1>13. cutoff' \in [Actor -> Int] /\ delivered' \in Logs
  BY <1>1 DEF PublicationsOk
<1> QED
  BY <1>2, <1>3, <1>4, <1>8, <1>9, <1>10, <1>11, <1>12, <1>13 DEF PublicationsOk

\* route_batch
LEMMA RouteBatchKeeps ==
  ASSUME PublicationsOk, RouteInv, NEW reads \in Nat, RouteBatch(reads)
  PROVE  PublicationsOk'
<1> DEFINE s == Head(pubs.ready)
           id == Head(pubs.bySource[s])
           p == pubs.entries[id]
           t == TurnTaken(pubs)
           matching == subs.bySource[<<s, p.port>>]
           refusal == Refusal(p, t, matching)
           q == Captured(p, matching)
           charged == [t EXCEPT !.snapshotEntries = @ + Len(q.routes) - Len(p.routes)]
           none == [pubs |-> Finish(t, id, p, refusal), box |-> Box, log |-> delivered]
           start == [p |-> p, box |-> Box, log |-> delivered]
<1>1. TableOk(pubs, {}) /\ pubs.ready # <<>>
  BY DEF PublicationsOk, RouteBatch
<1>2. /\ s \in Actor /\ id \in Pending(pubs.entries) /\ p.source = s /\ ~p.staged
      /\ \A i \in Pending(pubs.entries) : pubs.entries[i].source = s => id <= i
      /\ TableOk(t, {s}) /\ SameButRotation(t, pubs) /\ s \notin t.readySet
  BY <1>1, TurnKeeps
<1> HIDE DEF t, s, id
<1>3. /\ id \in PubId /\ p \in Publication /\ PublicationOk(p) /\ p # NoPublication
      /\ p.port \in Port
  <2>1. pubs.entries \in EntriesType /\ EntriesOk(pubs.entries)
    BY <1>1, TableFields DEF TableOk
  <2> QED BY <1>2, <2>1 DEF EntriesType, EntriesOk, Pending, Publication
<1>4. matching \in SUBSET ActiveRoutes(subs) /\ subs \in RoutesType
  <2>1. RouteIndexExactOf(subs) /\ subs \in RoutesType
    BY DEF RouteInv
  <2> QED BY <1>2, <1>3, <2>1 DEF RouteIndexExactOf
<1> HIDE DEF matching
<1>5. Captures(q, p, matching)
  BY <1>2, <1>3, <1>4, CapturedKeeps
<1>6. /\ reads <= IF refusal = "None" THEN 2 * Len(Batch(q)) ELSE 0
      /\ \E v \in {IF refusal = "None" THEN Deliver(id, q, charged, reads) ELSE none} :
           pubs' = v.pubs /\ SetBox(v.box) /\ delivered' = v.log
      /\ UNCHANGED <<actorState, cutoff, barred>>
  BY DEF RouteBatch, actorVars, TurnTaken, t, s, id, matching
<1>7. t.entries = pubs.entries /\ t.snapshotEntries = pubs.snapshotEntries
  BY <1>2 DEF SameButRotation
<1> HIDE DEF p, q
<1>8. ASSUME NEW x, x \in Publication, PublicationOk(x), SameInput(x, p) PROVE Turn(id, x)
  BY <1>2, <1>3, <1>8 DEF Turn, SameInput, p
<1>9. CASE refusal = "None"
  <2>1. reads <= 2 * Len(Batch(q)) /\ s = q.source /\ Turn(id, q) /\ Captures(q, pubs.entries[id], matching)
    BY <1>2, <1>5, <1>6, <1>8, <1>9 DEF Captures, SameInput, p
  <2> DEFINE c == [t EXCEPT !.snapshotEntries = @ + Len(q.routes) - Len(pubs.entries[id].routes)]
             d == Deliver(id, q, c, reads)
  <2>2. c = charged
    BY DEF p
  <2>3. \E w, n : Delivers(d, t, id, q, w, n)
    BY <1>2, <1>3, <2>1, DeliverKeeps
  <2>4. pubs' = d.pubs /\ SetBox(d.box) /\ delivered' = d.log
    <3> HIDE DEF d, c, charged, none, refusal
    <3>1. pubs' = Deliver(id, q, charged, reads).pubs /\ SetBox(Deliver(id, q, charged, reads).box)
          /\ delivered' = Deliver(id, q, charged, reads).log
      BY <1>6, <1>9
    <3> QED BY <2>2, <3>1 DEF d
  <2> HIDE DEF d
  <2>5. PICK w, n : Delivers(d, t, id, q, w, n)
    BY <2>3
  <2>6. /\ Going(id, q, w, n) /\ Turns(pubs', t, id, w.p) /\ SetBox(w.box) /\ delivered' = w.log
    BY <2>4, <2>5 DEF Delivers
  <2>7. t.snapshotEntries + Len(w.p.routes) - Len(t.entries[id].routes) <= MaxSnapshot
    <3> DEFINE a == pubs.snapshotEntries
               b == Len(q.routes)
               f == Len(p.routes)
    <3>1. a \in Int /\ a <= MaxSnapshot /\ MaxSnapshot \in Int
      BY <1>1, TableFields, PublicationBoundsAssumption DEF PublicationsOk, TableOk
    <3>2. b \in Nat /\ f \in Nat
      <4>1. q.routes \in Seq(RouteId \X Actor) /\ p.routes \in Seq(RouteId \X Actor)
        BY <1>3, <1>5 DEF Captures, Publication
      <4> QED BY <4>1
    <3>3. CASE p.routes # <<>>
      <4>1. a + b - f = a
        <5>1. b = f
          BY <1>5, <3>3 DEF Captures
        <5> HIDE DEF a, b, f
        <5> QED BY <3>1, <3>2, <5>1
      <4>2. a + b - f <= MaxSnapshot
        BY <3>1, <4>1
      <4> QED BY <1>7, <2>6, <4>2 DEF Going, p
    <3>4. CASE p.routes = <<>>
      <4>1. b = Cardinality(matching) /\ f = 0
        BY <1>5, <3>4 DEF Captures
      <4>2. ~(Cardinality(matching) > MaxSnapshot - t.snapshotEntries)
        BY <1>9, <3>4 DEF Refusal
      <4>3. ~(b > MaxSnapshot - a)
        BY <1>7, <4>1, <4>2
      <4>4. a + b - f <= MaxSnapshot
        <5> HIDE DEF a, b, f
        <5> QED BY <3>1, <3>2, <4>1, <4>3
      <4> QED BY <1>7, <2>6, <4>4 DEF Going, p
    <3> QED BY <3>3, <3>4
  <2> QED BY <1>2, <1>3, <1>6, <2>1, <2>6, <2>7, TurnEndsKeeps
<1>10. CASE refusal # "None"
  <2>1. refusal \in Outcomes
    BY <1>10 DEF Refusal, Outcomes
  <2>2. Turn(id, p)
    BY <1>3, <1>8 DEF SameInput
  <2>3. Captures(p, pubs.entries[id], {})
    <3>1. p.routes = <<>> => Len(p.routes) = 0 /\ p.cursor = 0
      <4>1. Len(<<>>) = 0
        OBVIOUS
      <4>2. p.cursor \in Nat
        BY <1>3 DEF Publication
      <4> QED BY <1>3, <4>1, <4>2 DEF PublicationOk
    <3>2. Cardinality({}) = 0
      BY FS_EmptySet
    <3> QED BY <1>3, <3>1, <3>2 DEF Captures, SameInput, p
  <2>4. Going(id, p, start, 0)
    BY <1>3, <2>2, <2>3, GoingStarts
  <2>5. Turns(Finish(t, id, p, refusal), t, id, p)
    <3> HIDE DEF refusal
    <3>1. t.entries[id] # NoPublication /\ TableOk(t, {t.entries[id].source}) /\ t.entries[id] = p
      BY <1>2, <1>3, <1>7 DEF p
    <3> QED BY <1>3, <2>1, <3>1, RefusedTurns
  <2>6. pubs' = Finish(t, id, p, refusal) /\ SetBox(Box) /\ delivered' = delivered
    <3> DEFINE d == Deliver(id, q, charged, reads)
    <3> HIDE DEF d
    <3>1. \E v \in {IF refusal = "None" THEN d ELSE none} :
            pubs' = v.pubs /\ SetBox(v.box) /\ delivered' = v.log
      BY <1>6 DEF d
    <3> DEFINE y == Finish(t, id, p, refusal)
    <3> HIDE DEF refusal, y
    <3>2. none = [pubs |-> y, box |-> Box, log |-> delivered]
      BY DEF y
    <3> HIDE DEF none
    <3>3. pubs' = none.pubs /\ SetBox(none.box) /\ delivered' = none.log
      BY <1>10, <3>1
    <3>4. none.pubs = y /\ none.box = Box /\ none.log = delivered
      BY <3>2
    <3> QED BY <3>3, <3>4 DEF y
  <2>7. start.p = p /\ start.box = Box /\ start.log = delivered
    OBVIOUS
  <2>8. t.snapshotEntries + Len(start.p.routes) - Len(t.entries[id].routes) <= MaxSnapshot
    <3> DEFINE a == pubs.snapshotEntries
               f == Len(p.routes)
    <3>1. a \in Int /\ a <= MaxSnapshot /\ MaxSnapshot \in Int
      BY <1>1, TableFields, PublicationBoundsAssumption DEF PublicationsOk, TableOk
    <3>2. f \in Nat
      <4>1. p.routes \in Seq(RouteId \X Actor)
        BY <1>3 DEF Publication
      <4> QED BY <4>1
    <3>3. a + f - f <= MaxSnapshot
      <4> HIDE DEF a, f
      <4> QED BY <3>1, <3>2
    <3> QED BY <1>7, <2>7, <3>3 DEF p
  <2> HIDE DEF start
  <2>9. /\ Turns(pubs', t, id, start.p) /\ SetBox(start.box) /\ delivered' = start.log
    BY <2>5, <2>6, <2>7
  <2> QED BY <1>2, <1>3, <1>6, <2>2, <2>4, <2>8, <2>9, TurnEndsKeeps
<1> QED
  BY <1>9, <1>10

-----------------------------------------------------------------------------
(* The calls that deliver nothing.                                         *)

\* expire_publications_locked: nothing that is still staged goes, when what
\* was overdue in the mailboxes went before.
LEMMA ExpireWorldKeeps ==
  ASSUME now \in Time, NEW w \in Worlds,
         \A a \in Actor : \A x \in ToSet(w.box.staged[a]) : x.deadline > now
  PROVE  LET u == ExpirePublications(w.pubs, now) IN
         [pubs |-> u, box |-> w.box] \in Worlds /\ Shrinks(u, w.pubs)
<1> DEFINE t == w.pubs
           u == ExpirePublications(t, now)
           s == w.box.staged
           gone == {id \in Pending(t.entries) : t.entries[id].deadline <= now}
<1>1. /\ t \in TableType /\ TableOk(t, {}) /\ BoxOk(w.box) /\ StagedLinked(t.entries, s)
      /\ \A a \in Actor : s[a] \in Seq(Staged)
  BY WorldFields, BoxFields
<1>2. \A a \in Actor : \A x \in ToSet(s[a]) : x.deadline > now
  OBVIOUS
<1> HIDE DEF t, s
<1>3. TableOk(u, {}) /\ Leaves(u, t, gone) /\ u.snapshotEntries <= t.snapshotEntries
  BY <1>1, ExpireKeeps
<1>4. \A id \in PubId : u.entries[id] = IF id \in gone THEN NoPublication ELSE t.entries[id]
  BY <1>3 DEF Leaves
<1> HIDE DEF u
<1>5. ASSUME NEW a \in Actor
      PROVE  /\ {x.pub : x \in ToSet(s[a])} =
                  {id \in Pending(u.entries) : u.entries[id].source = a /\ u.entries[id].staged}
             /\ \A x \in ToSet(s[a]) : u.entries[x.pub].deadline = x.deadline
  <2> DEFINE Of == {id \in Pending(t.entries) : t.entries[id].source = a /\ t.entries[id].staged}
             Left == {id \in Pending(u.entries) : u.entries[id].source = a /\ u.entries[id].staged}
  <2>1. /\ {x.pub : x \in ToSet(s[a])} = Of
        /\ \A x \in ToSet(s[a]) : t.entries[x.pub].deadline = x.deadline
    BY <1>1 DEF StagedLinked
  <2>2. ASSUME NEW x \in ToSet(s[a]) PROVE x.pub \in PubId \ gone
    <3>1. x.pub \in Of /\ t.entries[x.pub].deadline = x.deadline /\ x.deadline > now
      BY <1>2, <2>1
    <3>2. x \in Staged
      BY <1>1 DEF ToSet
    <3>3. x.deadline \in Nat /\ now \in Nat
      BY <3>2, PublicationTimeAssumption DEF Staged, Time, NoDeadline
    <3>4. ~(t.entries[x.pub].deadline <= now)
      BY <3>1, <3>3
    <3> QED BY <3>1, <3>4 DEF Pending
  <2>3. Of \subseteq PubId \ gone
    <3> HIDE DEF Of, gone
    <3> QED BY <2>1, <2>2
  <2>4. Left = Of
    <3> HIDE DEF gone
    <3>1. ASSUME NEW id \in Left PROVE id \in Of
      BY <1>4 DEF Pending
    <3>2. ASSUME NEW id \in Of PROVE id \in Left
      BY <1>4, <2>3 DEF Pending
    <3> HIDE DEF Of, Left
    <3> QED BY <3>1, <3>2
  <2> HIDE DEF Of, Left, gone
  <2>5. \A x \in ToSet(s[a]) : u.entries[x.pub].deadline = x.deadline
    BY <1>4, <2>1, <2>2
  <2> QED BY <2>1, <2>4, <2>5 DEF Left
<1>6. StagedLinked(u.entries, s)
  BY <1>5 DEF StagedLinked
<1>7. [pubs |-> u, box |-> w.box] \in Worlds
  BY <1>1, <1>3, <1>6, WorldMade DEF s
<1>8. Shrinks(u, t)
  BY <1>1, <1>3, LeavesShrinks
<1> QED
  BY <1>7, <1>8 DEF u, t

\* The execution states st and the cutoffs c let nothing in that was barred.
StatesOk(st, c) ==
  /\ c \in [Actor -> Int]
  /\ \A a \in Actor : c[a] < pubs.nextId /\ (st[a] = "Quiescing" => c[a] # NoCutoff)
  /\ \A id \in Pending(pubs.entries) : \A a \in barred[id] :
       st[a] \in {"Quiescing", "Stopping"} /\ (st[a] = "Quiescing" => c[a] < id)

\* A call that delivers nothing and accepts nothing.
Quiet(w) ==
  /\ w \in Worlds /\ Shrinks(w.pubs, pubs)
  /\ pubs' = w.pubs /\ SetBox(w.box) /\ delivered' = delivered /\ barred' = barred
  /\ StatesOk(actorState', cutoff')

LEMMA BehindShrinks ==
  ASSUME NEW d, NEW t \in TableType, NEW u \in TableType, Behind(d, t.entries, t.nextId), Shrinks(u, t),
         d.pub \in Int
  PROVE  Behind(d, u.entries, u.nextId)
<1>1. d.pub < u.nextId
  BY TableFields, LastIdAssumption DEF Behind, Shrinks
<1>2. \A id \in Pending(u.entries) :
        id \in Pending(t.entries) /\ SameWork(u.entries[id], t.entries[id])
  BY DEF Shrinks
<1> QED
  BY <1>1, <1>2 DEF Behind, SameWork

LEMMA QuietKeeps ==
  ASSUME PublicationsOk, NEW w, Quiet(w)
  PROVE  PublicationsOk'
<1> DEFINE u == pubs'
<1>1. /\ u = w.pubs /\ u \in TableType /\ TableOk(u, {}) /\ w.box \in BoxType /\ BoxOk(w.box)
      /\ StagedLinked(u.entries, w.box.staged) /\ SetBox(w.box) /\ Shrinks(u, pubs)
      /\ delivered' = delivered /\ barred' = barred
  BY WorldFields DEF Quiet
<1>2. Box' = w.box /\ staged' = w.box.staged
  BY <1>1, SetBoxIs DEF SetBox
<1>3. pubs \in TableType /\ pubs.snapshotEntries <= MaxSnapshot /\ delivered \in Logs
  BY DEF PublicationsOk, TableOk
<1> HIDE DEF u
<1>4. u.snapshotEntries <= MaxSnapshot
  <2>1. u.snapshotEntries \in Int /\ pubs.snapshotEntries \in Int /\ MaxSnapshot \in Int
    BY <1>1, <1>3, TableFields, PublicationBoundsAssumption
  <2> QED BY <1>1, <1>3, <2>1 DEF Shrinks
<1>5. DeliveredBehind(delivered, u.entries, u.nextId)
  <2>1. ASSUME NEW a \in Actor, NEW i \in DOMAIN delivered[a]
        PROVE  Behind(delivered[a][i], u.entries, u.nextId)
    <3>1. Behind(delivered[a][i], pubs.entries, pubs.nextId)
      BY DEF PublicationsOk, DeliveredBehind
    <3>2. delivered[a][i].pub \in Int
      <4>1. delivered[a] \in Seq(Log)
        BY <1>3 DEF Logs
      <4>2. delivered[a][i] \in Log
        BY <4>1
      <4>3. PubId \subseteq Int
        BY PubIdFinite
      <4> QED BY <4>2, <4>3 DEF Log
    <3> QED BY <1>1, <1>3, <3>1, <3>2, BehindShrinks
  <2> QED BY <2>1 DEF DeliveredBehind
<1>6. Counted(delivered, u.entries, u.held, u.tickets)
  <2>1. ASSUME NEW id \in Pending(u.entries) \cup u.held
        PROVE  u.tickets[id].admitted = Cardinality(Entered(delivered, id))
    <3>1. id \in Pending(pubs.entries) \cup pubs.held
          /\ u.tickets[id].admitted = pubs.tickets[id].admitted
      BY <1>1 DEF Shrinks
    <3> QED BY <3>1 DEF PublicationsOk, Counted
  <2> QED BY <2>1 DEF Counted
<1>7. CutoffsHold(pubs.entries, pubs.nextId)'
  <2>1. StatesOk(actorState', cutoff')
    BY DEF Quiet
  <2>2. \A id \in Pending(u.entries) : \A a \in barred[id] : ~u.entries[id].completion
    <3>1. \A id \in Pending(u.entries) :
            id \in Pending(pubs.entries) /\ u.entries[id].completion = pubs.entries[id].completion
      BY <1>1 DEF Shrinks, SameWork
    <3> QED BY <3>1 DEF PublicationsOk, CutoffsHold
  <2>3. \A a \in Actor : cutoff'[a] < u.nextId
    <3>1. u.nextId \in Int /\ pubs.nextId \in Int /\ pubs.nextId <= u.nextId
      BY <1>1, <1>3, TableFields, LastIdAssumption DEF Shrinks
    <3>2. \A a \in Actor : cutoff'[a] \in Int /\ cutoff'[a] < pubs.nextId
      BY <2>1 DEF StatesOk
    <3> QED BY <3>1, <3>2
  <2>4. \A id \in Pending(u.entries) : id \in Pending(pubs.entries)
    BY <1>1 DEF Shrinks
  <2>5. \A a \in Actor : cutoff'[a] < pubs'.nextId /\ (actorState'[a] = "Quiescing" => cutoff'[a] # NoCutoff)
    BY <2>1, <2>3 DEF StatesOk, u
  <2>6. \A id \in Pending(pubs'.entries) : \A a \in barred'[id] :
          /\ ~pubs'.entries[id].completion
          /\ actorState'[a] \in {"Quiescing", "Stopping"}
          /\ actorState'[a] = "Quiescing" => cutoff'[a] < id
    BY <1>1, <2>1, <2>2, <2>4 DEF StatesOk, u
  <2> QED BY <2>5, <2>6 DEF CutoffsHold
<1>8. SourceFifo' /\ DrainCutoff'
  <2>1. SourceFifo /\ DrainCutoff
    BY DEF PublicationsOk
  <2>2. SourceFifo'
    BY <1>1, <2>1 DEF SourceFifo
  <2>3. DrainCutoff'
    BY <1>1, <2>1 DEF DrainCutoff
  <2> QED BY <2>2, <2>3
<1>9. cutoff' \in [Actor -> Int]
  BY DEF Quiet, StatesOk
<1> QED
  BY <1>1, <1>2, <1>3, <1>4, <1>5, <1>6, <1>7, <1>8, <1>9 DEF PublicationsOk, u

BarredType == barred \in [PubId -> SUBSET Actor]

LEMMA StatesSame ==
  ASSUME PublicationsOk PROVE StatesOk(actorState, cutoff)
  BY DEF PublicationsOk, CutoffsHold, StatesOk

LEMMA WorldStart ==
  ASSUME PublicationsOk
  PROVE  /\ World \in Worlds /\ World.pubs = pubs /\ World.box = Box /\ Shrinks(pubs, pubs)
         /\ pubs \in TableType /\ TableOk(pubs, {}) /\ BoxOk(Box) /\ StagedLinked(pubs.entries, staged)
         /\ Box.staged = staged /\ (SetBox(Box) <=> UNCHANGED boxVars)
<1>1. /\ TableOk(pubs, {}) /\ BoxOk(Box) /\ StagedLinked(pubs.entries, staged) /\ pubs \in TableType
  BY DEF PublicationsOk, TableOk
<1>2. Shrinks(pubs, pubs)
  BY <1>1, ShrinksSelf
<1>3. SetBox(Box) <=> UNCHANGED boxVars
  BY BoxOfFields DEF SetBox, boxVars
<1>4. StagedLinked(pubs.entries, Box.staged)
  BY <1>1, BoxOfFields
<1>5. World \in Worlds
  BY <1>1, <1>4, WorldMade DEF World
<1> QED
  BY <1>1, <1>2, <1>3, <1>5, BoxOfFields DEF World

\* The calls that leave publications and mailboxes alone.
LEMMA SameQuiet ==
  ASSUME PublicationsOk, UNCHANGED <<pubs, actorVars, boxVars, historyVars>>
  PROVE  PublicationsOk'
<1>1. /\ pubs' = pubs /\ actorState' = actorState /\ cutoff' = cutoff /\ UNCHANGED boxVars
      /\ delivered' = delivered /\ barred' = barred
  BY DEF actorVars, historyVars
<1>2. SetBox(Box)
  BY <1>1, WorldStart
<1>3. Quiet(World)
  BY <1>1, <1>2, WorldStart, StatesSame DEF Quiet
<1> QED
  BY <1>3, QuietKeeps

LEMMA PublishRefusedKeeps ==
  ASSUME PublicationsOk, NEW a, PublishRefused(a) PROVE PublicationsOk'
<1> DEFINE u == BurnId(pubs)
           w == [pubs |-> u, box |-> Box]
<1>1. /\ pubs' = u /\ actorState' = actorState /\ cutoff' = cutoff /\ UNCHANGED boxVars
      /\ delivered' = delivered /\ barred' = barred /\ MayReserve(pubs, a)
  BY DEF actorVars, historyVars, PublishRefused
<1>2. /\ TableOk(u, {}) /\ u.entries = pubs.entries /\ u.tickets = pubs.tickets /\ u.held = pubs.held
      /\ u.nextId = pubs.nextId + 1 /\ u.snapshotEntries = pubs.snapshotEntries
  BY <1>1, WorldStart, BurnKeeps
<1> HIDE DEF u
<1>3. w \in Worlds
  BY <1>2, WorldStart, WorldMade
<1>4. Shrinks(u, pubs)
  <2>1. pubs.nextId \in Int /\ pubs.snapshotEntries \in Int
    BY WorldStart, TableFields
  <2> QED BY <1>2, <2>1 DEF Shrinks, SameWork
<1>5. Quiet(w)
  BY <1>1, <1>3, <1>4, WorldStart, StatesSame DEF Quiet
<1> QED
  BY <1>5, QuietKeeps

LEMMA DropTicketKeeps ==
  ASSUME PublicationsOk, NEW id, DropTicket(id) PROVE PublicationsOk'
<1> DEFINE u == DropHandle(pubs, id)
           w == [pubs |-> u, box |-> Box]
<1>1. /\ pubs' = u /\ actorState' = actorState /\ cutoff' = cutoff /\ UNCHANGED boxVars
      /\ delivered' = delivered /\ barred' = barred /\ id \in pubs.held
  BY DEF actorVars, historyVars, DropTicket
<1>2. /\ TableOk(u, {}) /\ u.entries = pubs.entries /\ u.held = pubs.held \ {id}
      /\ u.nextId = pubs.nextId /\ u.snapshotEntries = pubs.snapshotEntries
      /\ \A i \in Pending(u.entries) \cup u.held : u.tickets[i].admitted = pubs.tickets[i].admitted
  BY <1>1, WorldStart, DropKeeps
<1> HIDE DEF u
<1>3. w \in Worlds
  BY <1>2, WorldStart, WorldMade
<1>4. Shrinks(u, pubs)
  <2>1. pubs.nextId \in Int /\ pubs.snapshotEntries \in Int
    BY WorldStart, TableFields
  <2> QED BY <1>2, <2>1 DEF Shrinks, SameWork
<1>5. Quiet(w)
  BY <1>1, <1>3, <1>4, WorldStart, StatesSame DEF Quiet
<1> QED
  BY <1>5, QuietKeeps

LEMMA ClaimKeeps ==
  ASSUME PublicationsOk, NEW a \in Actor, Claim(a) PROVE PublicationsOk'
<1> DEFINE q == queue[a]
           good == {i \in DOMAIN q : q[i].deadline > now /\ subs.entries[q[i].route] # NoSub}
           last == IF good = {} THEN Len(q) ELSE CHOOSE i \in good : \A j \in good : i <= j
           b == Takes(Box, a, last)
           w == [pubs |-> pubs, box |-> b]
<1>1. /\ pubs' = pubs /\ actorState' = actorState /\ cutoff' = cutoff
      /\ delivered' = delivered /\ barred' = barred
  BY DEF actorVars, historyVars, Claim
<1>2. SetBox(b)
  <2>1. b = Refresh([Box EXCEPT !.queue = [queue EXCEPT ![a] = SubSeq(q, last + 1, Len(q))]],
                    a, Uncounted(counts[a], SubSeq(q, 1, last)))
    <3> HIDE DEF last
    <3> QED BY BoxOfFields DEF Takes
  <2> QED BY <2>1 DEF Claim
<1>3. q \in Seq(Delivery)
  BY WorldStart, BoxFields, BoxOfFields DEF BoxOk
<1>4. last \in 0..Len(Box.queue[a])
  <2>1. Len(q) \in Nat /\ DOMAIN q = 1..Len(q) /\ Box.queue[a] = q
    BY <1>3, BoxOfFields
  <2> HIDE DEF q
  <2>2. CASE good = {}
    BY <2>1, <2>2
  <2>3. CASE good # {}
    <3>1. good \in SUBSET Nat /\ good \subseteq 1..Len(q)
      BY <2>1
    <3> HIDE DEF good
    <3>2. \E i \in good : \A j \in good : i <= j
      BY <2>3, <3>1, LeastNumber
    <3>3. last \in good
      BY <2>3, <3>2
    <3> QED BY <2>1, <3>1, <3>3
  <2> QED BY <2>2, <2>3
<1> HIDE DEF last
<1>5. BoxOk(b) /\ b.staged = staged
  BY <1>4, WorldStart, TakesKeeps
<1> HIDE DEF b
<1>6. w \in Worlds
  BY <1>5, WorldStart, WorldMade
<1>7. Quiet(w)
  BY <1>1, <1>2, <1>6, WorldStart, StatesSame DEF Quiet
<1> QED
  BY <1>7, QuietKeeps

LEMMA ActivateKeeps ==
  ASSUME PublicationsOk, now \in Time, BarredType, NEW S, S \subseteq Actor, Activate(S) PROVE PublicationsOk'
<1> DEFINE st == [a \in Actor |-> IF a \in S THEN "Active" ELSE actorState[a]]
           v == ExpireEvents(World)
           w == FlushStaged(v, st)
<1>1. /\ pubs' = w.pubs /\ actorState' = st /\ cutoff' = cutoff /\ SetBox(w.box)
      /\ delivered' = delivered /\ barred' = barred /\ \A a \in S : actorState[a] = "Starting"
  BY DEF historyVars, Activate
<1>2. v \in Worlds /\ Shrinks(v.pubs, pubs)
  BY WorldStart, ExpireEventsKeeps
<1> HIDE DEF v
<1>3. w \in Worlds /\ Shrinks(w.pubs, v.pubs)
  BY <1>2, FlushStagedKeeps
<1> HIDE DEF w
<1>4. Shrinks(w.pubs, pubs)
  <2>1. v.pubs \in TableType /\ w.pubs \in TableType /\ pubs \in TableType
    BY <1>2, <1>3, WorldFields, WorldStart
  <2> QED BY <1>2, <1>3, <2>1, ShrinksComposes
<1>5. StatesOk(st, cutoff)
  <2>1. StatesOk(actorState, cutoff)
    BY StatesSame
  <2>2. \A a \in Actor : st[a] = "Quiescing" => actorState[a] = "Quiescing"
    OBVIOUS
  <2>3. ASSUME NEW id \in Pending(pubs.entries), NEW a \in barred[id] PROVE st[a] = actorState[a]
    <3>1. a \in Actor /\ actorState[a] \in {"Quiescing", "Stopping"}
      BY <2>1 DEF StatesOk, BarredType, Pending
    <3>2. a \notin S
      BY <1>1, <3>1
    <3> QED BY <3>1, <3>2
  <2> HIDE DEF st
  <2> QED BY <2>1, <2>2, <2>3 DEF StatesOk
<1>6. Quiet(w)
  BY <1>1, <1>3, <1>4, <1>5 DEF Quiet
<1> QED
  BY <1>6, QuietKeeps

\* fence_locked at the end of a call.
LEMMA FenceLockedKeeps ==
  ASSUME PublicationsOk, BarredType, NEW S \in SUBSET Actor, NEW st, NEW w \in Worlds, Shrinks(w.pubs, pubs),
         FenceLocked(S, st, w), StatesOk(st, cutoff'), delivered' = delivered, barred' = barred
  PROVE  PublicationsOk'
<1> DEFINE u == FoldLeft(CancelSource, w.pubs, Sorted(S, LAMBDA a, b : a < b))
           b == FenceBox(w.box, S)
           x == [pubs |-> u, box |-> b]
           stopped == [a \in Actor |-> IF a \in S THEN "Stopping" ELSE st[a]]
<1>1. x \in Worlds /\ Shrinks(u, w.pubs)
  BY FenceWorldKeeps
<1>2. pubs' = u /\ SetBox(b) /\ actorState' = stopped
  BY DEF FenceLocked
<1> HIDE DEF u, b
<1>3. Shrinks(u, pubs)
  <2>1. u \in TableType /\ w.pubs \in TableType /\ pubs \in TableType
    <3>1. x.pubs = u
      OBVIOUS
    <3> HIDE DEF x
    <3> QED BY <1>1, <3>1, WorldFields, WorldStart
  <2> QED BY <1>1, <2>1, ShrinksComposes
<1>4. StatesOk(stopped, cutoff')
  <2>1. \A a \in Actor : stopped[a] = "Quiescing" => st[a] = "Quiescing"
    OBVIOUS
  <2>2. \A a \in Actor : st[a] \in {"Quiescing", "Stopping"} => stopped[a] \in {"Quiescing", "Stopping"}
    OBVIOUS
  <2>3. \A id \in Pending(pubs.entries) : barred[id] \subseteq Actor
    BY DEF Pending, BarredType
  <2> HIDE DEF stopped
  <2> QED BY <2>1, <2>2, <2>3 DEF StatesOk
<1>5. Quiet(x)
  BY <1>1, <1>2, <1>3, <1>4 DEF Quiet
<1> QED
  BY <1>5, QuietKeeps

LEMMA StopKeeps ==
  ASSUME PublicationsOk, BarredType, NEW S \in SUBSET Actor, Stop(S) PROVE PublicationsOk'
<1>1. /\ FenceLocked(S, actorState, World) /\ cutoff' = cutoff
      /\ delivered' = delivered /\ barred' = barred
  BY DEF Stop, historyVars
<1>2. StatesOk(actorState, cutoff')
  BY <1>1, StatesSame
<1> QED
  BY <1>1, <1>2, WorldStart, FenceLockedKeeps

\* maintain_locked
LEMMA MaintainLockedKeeps ==
  ASSUME PublicationsOk, now \in Time, BarredType, NEW S \in SUBSET Actor, NEW st, MaintainLocked(st, S),
         StatesOk(st, cutoff'), delivered' = delivered, barred' = barred
  PROVE  PublicationsOk'
<1> DEFINE v == ExpireEvents(World)
           u == ExpirePublications(v.pubs, now)
           w == [pubs |-> u, box |-> v.box]
<1>1. FenceLocked(S, st, [v EXCEPT !.pubs = ExpirePublications(@, now)])
  BY DEF MaintainLocked
<1>2. /\ v \in Worlds /\ Shrinks(v.pubs, pubs)
      /\ \A a \in Actor : \A x \in ToSet(v.box.staged[a]) : x.deadline > now
  BY WorldStart, ExpireEventsKeeps
<1> HIDE DEF v
<1>3. [v EXCEPT !.pubs = ExpirePublications(@, now)] = w
  BY <1>2 DEF Worlds, WorldType
<1>4. w \in Worlds /\ Shrinks(u, v.pubs)
  BY <1>2, ExpireWorldKeeps
<1> HIDE DEF u
<1>5. Shrinks(w.pubs, pubs)
  <2>1. w.pubs = u
    OBVIOUS
  <2> HIDE DEF w
  <2>2. u \in TableType /\ v.pubs \in TableType /\ pubs \in TableType
    BY <1>2, <1>4, <2>1, WorldFields, WorldStart
  <2> QED BY <1>2, <1>4, <2>1, <2>2, ShrinksComposes
<1>6. FenceLocked(S, st, w)
  <2> HIDE DEF w
  <2> QED BY <1>1, <1>3
<1> QED
  BY <1>4, <1>5, <1>6, FenceLockedKeeps

LEMMA MaintainKeeps ==
  ASSUME PublicationsOk, now \in Time, BarredType, NEW S \in SUBSET Actor, Maintain(S) PROVE PublicationsOk'
<1>1. MaintainLocked(actorState, S) /\ cutoff' = cutoff /\ delivered' = delivered /\ barred' = barred
  BY DEF Maintain, historyVars
<1>2. StatesOk(actorState, cutoff')
  BY <1>1, StatesSame
<1> QED
  BY <1>1, <1>2, MaintainLockedKeeps

LEMMA DrainKeeps ==
  ASSUME PublicationsOk, now \in Time, BarredType, NEW S \in SUBSET Actor, NEW ended \in SUBSET Actor,
         Drain(S, ended)
  PROVE  PublicationsOk'
<1> DEFINE live == {a \in S : actorState[a] # "Stopping"}
           st == [a \in Actor |-> IF a \in live THEN "Quiescing" ELSE actorState[a]]
           c == [a \in Actor |-> IF a \in live /\ cutoff[a] = NoCutoff THEN LastIssued ELSE cutoff[a]]
<1>1. MaintainLocked(st, ended) /\ cutoff' = c /\ delivered' = delivered /\ barred' = barred
  BY DEF Drain, historyVars
<1>2. StatesOk(actorState, cutoff) /\ pubs.nextId \in Nat \ {0}
  BY StatesSame, WorldStart, TableFields, LastIdAssumption
<1>3. LastIssued \in Nat /\ LastIssued < pubs.nextId /\ NoCutoff \in Int /\ ~(NoCutoff >= 0)
  BY <1>2 DEF LastIssued, NoCutoff
<1>4. StatesOk(st, c)
  <2>1. c \in [Actor -> Int]
    BY <1>2, <1>3 DEF StatesOk
  <2>2. ASSUME NEW a \in Actor
        PROVE  c[a] < pubs.nextId /\ (st[a] = "Quiescing" => c[a] # NoCutoff)
    <3>1. CASE a \in live
      <4>1. CASE cutoff[a] = NoCutoff
        <5>1. c[a] = LastIssued
          BY <3>1, <4>1
        <5> QED BY <1>3, <5>1
      <4>2. CASE cutoff[a] # NoCutoff
        <5>1. c[a] = cutoff[a]
          BY <4>2
        <5> QED BY <1>2, <4>2, <5>1 DEF StatesOk
      <4> QED BY <4>1, <4>2
    <3>2. CASE a \notin live
      <4>1. c[a] = cutoff[a] /\ st[a] = actorState[a]
        BY <3>2
      <4> QED BY <1>2, <4>1 DEF StatesOk
    <3> QED BY <3>1, <3>2
  <2>3. ASSUME NEW id \in Pending(pubs.entries), NEW a \in barred[id]
        PROVE  st[a] \in {"Quiescing", "Stopping"} /\ (st[a] = "Quiescing" => c[a] < id)
    <3>1. /\ a \in Actor /\ actorState[a] \in {"Quiescing", "Stopping"}
          /\ actorState[a] = "Quiescing" => cutoff[a] < id /\ cutoff[a] # NoCutoff
      BY <1>2 DEF StatesOk, BarredType, Pending
    <3>2. CASE a \in live
      <4>1. actorState[a] = "Quiescing"
        BY <3>1, <3>2
      <4>2. c[a] = cutoff[a] /\ st[a] = "Quiescing"
        BY <3>1, <3>2, <4>1
      <4> QED BY <3>1, <4>1, <4>2
    <3>3. CASE a \notin live
      <4>1. c[a] = cutoff[a] /\ st[a] = actorState[a]
        BY <3>1, <3>3
      <4> QED BY <3>1, <4>1
    <3> QED BY <3>2, <3>3
  <2> HIDE DEF st, c
  <2> QED BY <2>1, <2>2, <2>3 DEF StatesOk
<1> HIDE DEF st, c
<1>5. StatesOk(st, cutoff')
  BY <1>1, <1>4
<1> QED
  BY <1>1, <1>5, MaintainLockedKeeps

-----------------------------------------------------------------------------
(* Publishing.                                                             *)

LEMMA PublishKeeps ==
  ASSUME PublicationsOk, BarredType, NEW a \in Actor, NEW port \in Port, NEW deadline \in 1..NoDeadline,
         NEW completion \in BOOLEAN, Publish(a, port, deadline, completion)
  PROVE  PublicationsOk'
<1> DEFINE stage == actorState[a] = "Starting"
           id == pubs.nextId
           p == Accepted(a, port, deadline, stage, completion)
           u == InsertPublication(pubs, p)
           entry == [pub |-> id, deadline |-> deadline]
           c == IF p.staged THEN Stages(Box, p.source, [pub |-> id, deadline |-> p.deadline]) ELSE Box
           draining == IF completion THEN {} ELSE {x \in Actor : actorState[x] = "Quiescing"}
<1>1. /\ MayReserve(pubs, a) /\ pubs' = u /\ actorState' = actorState /\ cutoff' = cutoff
      /\ delivered' = delivered /\ barred' = [barred EXCEPT ![id] = draining]
  BY DEF Publish, Accepted, actorVars
<1>2. stage \in BOOLEAN
  OBVIOUS
<1> HIDE DEF stage
<1>3. Fresh(p) /\ p.source = a /\ p.deadline = deadline /\ p.staged = stage /\ p.completion = completion
  BY <1>2, AcceptedFresh
<1>4. SetBox(c)
  <2> DEFINE s == Refresh([Box EXCEPT !.staged = [staged EXCEPT ![a] = Append(@, entry)],
                                      !.stagedActors = @ \cup {a}],
                          a, Bump(counts[a], deadline, 1))
  <2>1. SetBox(IF stage THEN s ELSE Box)
    BY DEF Publish, stage
  <2>2. Stages(Box, a, entry) = s
    <3>1. entry.deadline = deadline
      OBVIOUS
    <3> HIDE DEF entry
    <3> QED BY <3>1, BoxOfFields DEF Stages
  <2> HIDE DEF s, p
  <2>3. c = IF stage THEN s ELSE Box
    BY <1>3, <2>2
  <2> HIDE DEF c
  <2> QED BY <2>1, <2>3
<1> HIDE DEF p
<1>5. Inserts(u, pubs, p) /\ BoxOk(c) /\ StagedLinked(u.entries, c.staged)
  <2>1. TableOk(pubs, {}) /\ BoxOk(Box) /\ StagedLinked(pubs.entries, Box.staged)
    BY WorldStart
  <2> HIDE DEF c
  <2>2. c = IF p.staged THEN Stages(Box, p.source, [pub |-> pubs.nextId, deadline |-> p.deadline])
            ELSE Box
    BY DEF c
  <2>3. MayReserve(pubs, p.source)
    BY <1>1, <1>3
  <2> QED BY <1>3, <2>1, <2>2, <2>3, AcceptKeeps
<1> HIDE DEF u, c
<1>6. /\ id \in PubId /\ id \notin Pending(pubs.entries) \cup pubs.held
      /\ TableOk(u, {}) /\ u.entries = [pubs.entries EXCEPT ![id] = p]
      /\ u.nextId = id + 1 /\ u.held = pubs.held \cup {id}
      /\ u.snapshotEntries = pubs.snapshotEntries /\ u.tickets[id].admitted = 0
      /\ \A i \in PubId \ {id} : u.tickets[i] = pubs.tickets[i]
  BY <1>5 DEF Inserts
<1>7. /\ id \in Nat /\ PubId \subseteq Nat /\ pubs.entries \in EntriesType /\ pubs.held \subseteq PubId
  BY <1>6, PubIdFinite, WorldStart, TableFields
<1>8. /\ u.entries[id] = p /\ \A i \in PubId \ {id} : u.entries[i] = pubs.entries[i]
      /\ \A i \in Pending(u.entries) : i = id \/ i \in Pending(pubs.entries) \ {id}
  BY <1>6, <1>7 DEF EntriesType, Pending
<1>9. \A x \in Actor : \A i \in DOMAIN delivered[x] :
        delivered[x][i].pub \in PubId /\ delivered[x][i].pub < id
  <2>1. ASSUME NEW x \in Actor, NEW i \in DOMAIN delivered[x]
        PROVE  delivered[x][i].pub \in PubId /\ delivered[x][i].pub < id
    <3>1. Behind(delivered[x][i], pubs.entries, pubs.nextId) /\ delivered \in Logs
      BY DEF PublicationsOk, DeliveredBehind
    <3>2. delivered[x][i] \in Log
      <4>1. delivered[x] \in Seq(Log)
        BY <3>1 DEF Logs
      <4> QED BY <4>1
    <3> QED BY <3>1, <3>2 DEF Behind, Log
  <2> QED BY <2>1
<1>10. Box' = c /\ staged' = c.staged
  <2>1. c \in BoxType
    BY <1>5 DEF BoxOk
  <2> QED BY <1>4, <2>1, SetBoxIs DEF SetBox
<1>11. DeliveredBehind(delivered, u.entries, u.nextId)
  <2>1. ASSUME NEW x \in Actor, NEW i \in DOMAIN delivered[x]
        PROVE  Behind(delivered[x][i], u.entries, u.nextId)
    <3> DEFINE d == delivered[x][i]
    <3>1. Behind(d, pubs.entries, pubs.nextId) /\ d.pub \in Nat /\ d.pub < id
      BY <1>7, <1>9 DEF PublicationsOk, DeliveredBehind
    <3> HIDE DEF d
    <3>2. d.pub < u.nextId /\ d.pub <= id /\ d.pub # id
      BY <1>6, <1>7, <3>1
    <3>3. ASSUME NEW j \in Pending(u.entries), u.entries[j].source = d.source
          PROVE  /\ d.pub <= j
                 /\ d.pub = j => \E k \in 1..u.entries[j].cursor : u.entries[j].routes[k][1] = d.route
      <4>1. CASE j = id
        BY <3>2, <4>1
      <4>2. CASE j # id
        <5>1. j \in Pending(pubs.entries) /\ u.entries[j] = pubs.entries[j]
          BY <1>8, <4>2 DEF Pending
        <5> QED BY <3>1, <3>3, <5>1 DEF Behind
      <4> QED BY <4>1, <4>2
    <3> QED BY <3>2, <3>3 DEF Behind, d
  <2> QED BY <2>1 DEF DeliveredBehind
<1>12. /\ barred'[id] = draining /\ \A i \in PubId \ {id} : barred'[i] = barred[i]
  BY <1>1, <1>6 DEF BarredType
<1>13. CutoffsHold(pubs.entries, pubs.nextId)'
  <2>1. CutoffsHold(pubs.entries, pubs.nextId) /\ cutoff \in [Actor -> Int]
    BY DEF PublicationsOk
  <2>2. ASSUME NEW x \in Actor
        PROVE  cutoff'[x] < pubs'.nextId /\ (actorState'[x] = "Quiescing" => cutoff'[x] # NoCutoff)
    <3>1. cutoff[x] \in Int /\ cutoff[x] < id /\ (actorState[x] = "Quiescing" => cutoff[x] # NoCutoff)
      BY <2>1 DEF CutoffsHold
    <3>2. cutoff[x] < id + 1
      BY <1>7, <3>1
    <3> QED BY <1>1, <1>6, <3>1, <3>2
  <2>3. ASSUME NEW j \in Pending(pubs'.entries), NEW x \in barred'[j]
        PROVE  /\ ~pubs'.entries[j].completion
               /\ actorState'[x] \in {"Quiescing", "Stopping"}
               /\ actorState'[x] = "Quiescing" => cutoff'[x] < j
    <3>1. CASE j = id
      <4>1. ~completion /\ x \in Actor /\ actorState[x] = "Quiescing"
        BY <1>12, <2>3, <3>1
      <4>2. cutoff[x] < id
        BY <2>1, <4>1 DEF CutoffsHold
      <4> QED BY <1>1, <1>3, <1>8, <3>1, <4>1, <4>2
    <3>2. CASE j # id
      <4>1. j \in Pending(pubs.entries) /\ u.entries[j] = pubs.entries[j] /\ x \in barred[j]
        BY <1>1, <1>8, <1>12, <2>3, <3>2 DEF Pending
      <4> QED BY <1>1, <2>1, <4>1 DEF CutoffsHold
    <3> QED BY <3>1, <3>2
  <2> QED BY <2>2, <2>3 DEF CutoffsHold
<1>14. Counted(delivered, u.entries, u.held, u.tickets)
  <2>1. ASSUME NEW j \in Pending(u.entries) \cup u.held
        PROVE  u.tickets[j].admitted = Cardinality(Entered(delivered, j))
    <3>1. CASE j = id
      <4>1. Entered(delivered, id) = {}
        <5>1. ASSUME NEW e \in Entered(delivered, id) PROVE FALSE
          <6>1. PICK x \in Actor : \E i \in DOMAIN delivered[x] : delivered[x][i].pub = id
            BY DEF Entered
          <6>2. PICK i \in DOMAIN delivered[x] : delivered[x][i].pub = id
            BY <6>1
          <6>3. delivered[x][i].pub < id
            BY <1>9
          <6> QED BY <1>7, <6>2, <6>3
        <5> QED BY <5>1
      <4> QED BY <1>6, <3>1, <4>1, FS_EmptySet
    <3>2. CASE j # id
      <4>1. j \in Pending(pubs.entries) \cup pubs.held /\ j \in PubId \ {id}
        BY <1>6, <1>7, <1>8, <2>1, <3>2 DEF Pending
      <4> QED BY <1>6, <4>1 DEF PublicationsOk, Counted
    <3> QED BY <3>1, <3>2
  <2> QED BY <2>1 DEF Counted
<1>15. SourceFifo' /\ DrainCutoff'
  <2>1. SourceFifo'
    BY <1>1 DEF PublicationsOk, SourceFifo
  <2>2. DrainCutoff'
    <3>1. ASSUME NEW x \in Actor, NEW i \in DOMAIN delivered[x]
          PROVE  x \notin barred'[delivered[x][i].pub]
      <4>1. delivered[x][i].pub \in PubId \ {id}
        BY <1>7, <1>9
      <4>2. x \notin barred[delivered[x][i].pub]
        BY DEF PublicationsOk, DrainCutoff
      <4> QED BY <1>12, <4>1, <4>2
    <3> QED BY <1>1, <3>1 DEF DrainCutoff
  <2> QED BY <2>1, <2>2
<1>16. cutoff' \in [Actor -> Int] /\ delivered' \in Logs /\ pubs.snapshotEntries <= MaxSnapshot
  BY <1>1 DEF PublicationsOk
<1> QED
  BY <1>1, <1>5, <1>6, <1>10, <1>11, <1>13, <1>14, <1>15, <1>16 DEF PublicationsOk

-----------------------------------------------------------------------------
(* The invariant.                                                          *)

PubInv == PublicationsOk /\ RouteInv /\ now \in Time /\ BarredType

LEMMA PubInit == Init => PubInv
<1> SUFFICES ASSUME Init PROVE PubInv
  OBVIOUS
<1>1. /\ pubs = EmptyPublications /\ cutoff = [a \in Actor |-> NoCutoff]
      /\ actorState = [a \in Actor |-> IF a \in Activated THEN "Active" ELSE "Starting"]
      /\ queue = [a \in Actor |-> <<>>] /\ staged = [a \in Actor |-> <<>>]
      /\ counts = [a \in Actor |-> NoCounts] /\ due = NoDue /\ stagedActors = {} /\ now = 0
      /\ delivered = [a \in Actor |-> <<>>] /\ barred = [id \in PubId |-> {}]
  BY DEF Init
<1>2. TableOk(pubs, {}) /\ pubs.nextId = 1 /\ pubs.held = {} /\ pubs.snapshotEntries = 0
      /\ Pending(pubs.entries) = {}
  <2>1. TableOk(pubs, {})
    BY <1>1, EmptyOk
  <2>2. pubs.nextId = 1 /\ pubs.held = {} /\ pubs.snapshotEntries = 0
        /\ pubs.entries = [id \in PubId |-> NoPublication]
    BY <1>1 DEF EmptyPublications
  <2> QED BY <2>1, <2>2 DEF Pending
<1>3. BoxOk(Box)
  <2>1. NoCounts \in [Time -> Int] /\ First(NoCounts) = NoDeadline /\ \A t \in Time : NoCounts[t] = 0
    BY FirstOfNone DEF NoCounts
  <2>2. /\ due.actors = [a \in Actor |-> NoDeadline] /\ due.ordered = {}
        /\ due = [actors |-> due.actors, ordered |-> due.ordered]
    BY <1>1 DEF NoDue
  <2>3. due \in [actors : [Actor -> Time \cup {NoDeadline}], ordered : SUBSET (Time \X Actor)]
    BY <2>2
  <2>4. queue \in [Actor -> Seq(Delivery)] /\ staged \in [Actor -> Seq(Staged)]
    BY <1>1
  <2>5. counts \in [Actor -> [Time -> Int]] /\ stagedActors \in SUBSET Actor
    BY <1>1, <2>1
  <2>6. Box \in BoxType
    BY <2>3, <2>4, <2>5 DEF Box, BoxType
  <2>7. \A a \in Actor : CountsExact(queue[a], staged[a], counts[a])
    BY <1>1, <2>1, HavingNone DEF CountsExact
  <2>8. DueExact(counts, due)
    <3>1. \A a \in Actor : due.actors[a] = First(counts[a])
      BY <1>1, <2>1, <2>2
    <3>2. \A e \in Time \X Actor : e[1] \in Time /\ e[2] \in Actor
      OBVIOUS
    <3>3. {e \in Time \X Actor : e[1] = due.actors[e[2]]} = {}
      BY <2>2, <3>2, TimeNumbers
    <3> QED BY <2>2, <3>1, <3>3 DEF DueExact
  <2>9. stagedActors = {a \in Actor : staged[a] # <<>>}
    BY <1>1
  <2> QED BY <2>6, <2>7, <2>8, <2>9, BoxOfFields DEF BoxOk
<1>4. StagedLinked(pubs.entries, staged)
  <2>1. \A a \in Actor : staged[a] = <<>> /\ ToSet(<<>>) = {}
    BY <1>1 DEF ToSet
  <2> QED BY <1>2, <2>1 DEF StagedLinked
<1>5. cutoff \in [Actor -> Int] /\ delivered \in Logs /\ \A a \in Actor : DOMAIN delivered[a] = {}
  <2>1. cutoff \in [Actor -> Int]
    BY <1>1 DEF NoCutoff
  <2>2. delivered \in Logs
    BY <1>1 DEF Logs
  <2>3. \A a \in Actor : DOMAIN delivered[a] = {}
    BY <1>1
  <2> QED BY <2>1, <2>2, <2>3
<1>6. CutoffsHold(pubs.entries, pubs.nextId)
  <2>1. ASSUME NEW a \in Actor
        PROVE  cutoff[a] < pubs.nextId /\ (actorState[a] = "Quiescing" => cutoff[a] # NoCutoff)
    <3>1. cutoff[a] = -1 /\ actorState[a] # "Quiescing"
      BY <1>1 DEF NoCutoff
    <3> QED BY <1>2, <3>1
  <2> QED BY <1>2, <2>1 DEF CutoffsHold
<1>7. /\ DeliveredBehind(delivered, pubs.entries, pubs.nextId)
      /\ Counted(delivered, pubs.entries, pubs.held, pubs.tickets) /\ SourceFifo /\ DrainCutoff
  BY <1>2, <1>5 DEF DeliveredBehind, Counted, SourceFifo, DrainCutoff
<1>8. pubs.snapshotEntries <= MaxSnapshot
  BY <1>2, PublicationBoundsAssumption
<1>9. PublicationsOk
  BY <1>2, <1>3, <1>4, <1>5, <1>6, <1>7, <1>8 DEF PublicationsOk
<1>10. now \in Time /\ BarredType
  BY <1>1, PublicationTimeAssumption DEF Time, BarredType
<1> QED
  BY <1>9, <1>10, RouteInit DEF PubInv

LEMMA PubStep == PubInv /\ [Next]_vars => PubInv'
<1> SUFFICES ASSUME PubInv, [Next]_vars PROVE PubInv'
  OBVIOUS
<1>1. PublicationsOk /\ RouteInv /\ now \in Time /\ BarredType
  BY DEF PubInv
<1>2. RouteInv'
  BY <1>1, RouteStep
<1>3. ASSUME NEW r \in Links, Subscribe(r) PROVE PubInv'
  <2>1. UNCHANGED <<pubs, actorVars, boxVars, now, historyVars>>
    BY <1>3 DEF Subscribe
  <2>2. PublicationsOk'
    BY <1>1, <2>1, SameQuiet
  <2> QED BY <1>1, <1>2, <2>1, <2>2 DEF PubInv, BarredType, historyVars
<1>4. ASSUME NEW id \in RouteId, Unsubscribe(id) PROVE PubInv'
  <2>1. UNCHANGED <<pubs, actorVars, boxVars, now, historyVars>>
    BY <1>4 DEF Unsubscribe
  <2>2. PublicationsOk'
    BY <1>1, <2>1, SameQuiet
  <2> QED BY <1>1, <1>2, <2>1, <2>2 DEF PubInv, BarredType, historyVars
<1>5. ASSUME NEW S \in Scope, Activate(S) PROVE PubInv'
  <2>1. UNCHANGED <<now, historyVars>> /\ S \subseteq Actor
    BY <1>5, ScopesOfActors DEF Activate
  <2>2. PublicationsOk'
    BY <1>1, <1>5, <2>1, ActivateKeeps
  <2> QED BY <1>1, <1>2, <2>1, <2>2 DEF PubInv, BarredType, historyVars
<1>6. ASSUME NEW a \in Publishers, NEW p \in Port, NEW d \in Deadlines, NEW c \in BOOLEAN,
             Publish(a, p, d, c)
      PROVE  PubInv'
  <2>1. a \in Actor /\ d \in 1..NoDeadline
    BY InputsAssumption
  <2>2. PublicationsOk'
    BY <1>1, <1>6, <2>1, PublishKeeps
  <2>3. now' = now
    BY <1>6 DEF Publish
  <2>4. BarredType'
    <3> DEFINE draining == IF c THEN {} ELSE {x \in Actor : actorState[x] = "Quiescing"}
    <3>1. barred' = [barred EXCEPT ![pubs.nextId] = draining]
      BY <1>6 DEF Publish
    <3>2. draining \in SUBSET Actor
      OBVIOUS
    <3> HIDE DEF draining
    <3> QED BY <1>1, <3>1, <3>2 DEF BarredType
  <2> QED BY <1>1, <1>2, <2>2, <2>3, <2>4 DEF PubInv
<1>7. ASSUME NEW a \in Publishers, PublishRefused(a) PROVE PubInv'
  <2>1. UNCHANGED <<now, historyVars>>
    BY <1>7 DEF PublishRefused
  <2>2. PublicationsOk'
    BY <1>1, <1>7, PublishRefusedKeeps
  <2> QED BY <1>1, <1>2, <2>1, <2>2 DEF PubInv, BarredType, historyVars
<1>8. ASSUME NEW id \in PubId, DropTicket(id) PROVE PubInv'
  <2>1. UNCHANGED <<now, historyVars>>
    BY <1>8 DEF DropTicket
  <2>2. PublicationsOk'
    BY <1>1, <1>8, DropTicketKeeps
  <2> QED BY <1>1, <1>2, <2>1, <2>2 DEF PubInv, BarredType, historyVars
<1>9. ASSUME NEW a \in Actor, Claim(a) PROVE PubInv'
  <2>1. UNCHANGED <<now, historyVars>>
    BY <1>9 DEF Claim
  <2>2. PublicationsOk'
    BY <1>1, <1>9, ClaimKeeps
  <2> QED BY <1>1, <1>2, <2>1, <2>2 DEF PubInv, BarredType, historyVars
<1>10. ASSUME NEW S \in Scope, Stop(S) PROVE PubInv'
  <2>1. UNCHANGED <<now, historyVars>> /\ S \in SUBSET Actor
    BY <1>10, ScopesOfActors DEF Stop
  <2>2. PublicationsOk'
    BY <1>1, <1>10, <2>1, StopKeeps
  <2> QED BY <1>1, <1>2, <2>1, <2>2 DEF PubInv, BarredType, historyVars
<1>11. ASSUME NEW S \in Scope, NEW ended \in Ends, Drain(S, ended) PROVE PubInv'
  <2>1. UNCHANGED <<now, historyVars>> /\ S \in SUBSET Actor /\ ended \in SUBSET Actor
    BY <1>11, ScopesOfActors DEF Drain
  <2>2. PublicationsOk'
    BY <1>1, <1>11, <2>1, DrainKeeps
  <2> QED BY <1>1, <1>2, <2>1, <2>2 DEF PubInv, BarredType, historyVars
<1>12. ASSUME NEW ended \in Ends, Maintain(ended) PROVE PubInv'
  <2>1. UNCHANGED <<now, historyVars>> /\ ended \in SUBSET Actor
    BY <1>12, ScopesOfActors DEF Maintain
  <2>2. PublicationsOk'
    BY <1>1, <1>12, <2>1, MaintainKeeps
  <2> QED BY <1>1, <1>2, <2>1, <2>2 DEF PubInv, BarredType, historyVars
<1>13. ASSUME Tick PROVE PubInv'
  <2>1. UNCHANGED <<pubs, actorVars, boxVars, historyVars>> /\ now < MaxTime /\ now' = now + 1
    BY <1>13 DEF Tick
  <2>2. PublicationsOk'
    BY <1>1, <2>1, SameQuiet
  <2>3. now' \in Time
    BY <1>1, <2>1, PublicationTimeAssumption DEF Time
  <2> QED BY <1>1, <1>2, <2>1, <2>2, <2>3 DEF PubInv, BarredType, historyVars
<1>14. ASSUME NEW reads \in 0..(2 * BatchSize), RouteBatch(reads) PROVE PubInv'
  <2>1. reads \in Nat
    BY PublicationBoundsAssumption
  <2>2. PublicationsOk'
    BY <1>1, <1>14, <2>1, RouteBatchKeeps
  <2>3. barred' = barred
    BY <1>14 DEF RouteBatch
  <2>4. now' = now \/ (now < MaxTime /\ now' = now + 1)
    BY <1>14 DEF RouteBatch
  <2>5. now' \in Time
    BY <1>1, <2>4, PublicationTimeAssumption DEF Time
  <2> QED BY <1>1, <1>2, <2>2, <2>3, <2>5 DEF PubInv, BarredType
<1>15. ASSUME UNCHANGED vars PROVE PubInv'
  <2>1. UNCHANGED <<pubs, actorVars, boxVars, now, historyVars>>
    BY <1>15 DEF vars
  <2>2. PublicationsOk'
    BY <1>1, <2>1, SameQuiet
  <2> QED BY <1>1, <1>2, <2>1, <2>2 DEF PubInv, BarredType, historyVars
<1> QED
  BY <1>3, <1>4, <1>5, <1>6, <1>7, <1>8, <1>9, <1>10, <1>11, <1>12, <1>13, <1>14, <1>15
     DEF Next, Routing, Calls

LEMMA PubInvariant == Spec => []PubInv
<1>1. Init => PubInv
  BY PubInit
<1>2. PubInv /\ [Next]_vars => PubInv'
  BY PubStep
<1> QED
  BY <1>1, <1>2, PTL DEF Spec

\* What a target has received from a source is in the order of acceptance, with
\* nothing twice over one route: route_batch takes the head of the source's
\* queue and goes on from its cursor.
THEOREM DeliveriesInOrder == Spec => []SourceFifo
<1>1. PubInv => SourceFifo
  BY DEF PubInv, PublicationsOk
<1> QED
  BY <1>1, PubInvariant, PTL

\* What was accepted while a target drained does not enter its mailbox: admit
\* compares the identity with the cutoff mark_quiescing fixed.
THEOREM DrainHoldsBack == Spec => []DrainCutoff
<1>1. PubInv => DrainCutoff
  BY DEF PubInv, PublicationsOk
<1> QED
  BY <1>1, PubInvariant, PTL

\* The report of a ticket counts what entered the mailboxes, and when the
\* publication is finished every destination of its snapshot.
THEOREM ReportsExact == Spec => []ReportExact
<1>1. ASSUME PubInv PROVE ReportExact
  <2>1. /\ Counted(delivered, pubs.entries, pubs.held, pubs.tickets)
        /\ TicketsExact(pubs.entries, pubs.tickets, pubs.held, pubs.nextId)
    BY <1>1 DEF PubInv, PublicationsOk, TableOk
  <2>2. PendingPubs(pubs) = Pending(pubs.entries)
    BY DEF PendingPubs, Pending
  <2>3. ASSUME NEW id \in Pending(pubs.entries) \cup pubs.held
        PROVE  /\ pubs.tickets[id].admitted = Cardinality(Entered(delivered, id))
               /\ pubs.tickets[id].status \in Outcomes =>
                    pubs.tickets[id].matched = pubs.tickets[id].admitted + pubs.tickets[id].rejected
    BY <2>1 DEF Counted, TicketsExact
  <2> QED BY <2>2, <2>3 DEF ReportExact, Entered
<1> QED
  BY <1>1, PubInvariant, PTL

\* A deque without repetitions is as long as the set of its elements.
LEMMA DistinctLength ==
  ASSUME NEW s \in Seq(Actor), \A i, j \in DOMAIN s : i < j => s[i] # s[j]
  PROVE  Len(s) = Cardinality(ToSet(s))
<1> DEFINE n == Len(s)
<1>1. n \in Nat /\ DOMAIN s = 1..n /\ s \in [1..n -> ToSet(s)]
  BY DEF ToSet
<1>2. ToSet(s) = {s[i] : i \in 1..n}
  BY <1>1 DEF ToSet
<1>3. \A i, j \in 1..n : i # j => s[i] # s[j]
  <2>1. ASSUME NEW i \in 1..n, NEW j \in 1..n, i # j PROVE s[i] # s[j]
    <3>1. i < j \/ j < i
      BY <1>1, <2>1
    <3> QED BY <1>1, <3>1
  <2> QED BY <2>1
<1>4. s \in Bijection(1..n, ToSet(s))
  BY <1>1, <1>2, <1>3 DEF Bijection, Injection, Surjection, IsInjective
<1>5. IsFiniteSet(1..n) /\ Cardinality(1..n) = n
  <2>1. IsFiniteSet(1..n) /\ Cardinality(1..n) = IF 1 > n THEN 0 ELSE n - 1 + 1
    BY <1>1, FS_Interval
  <2> HIDE DEF n
  <2>2. (IF 1 > n THEN 0 ELSE n - 1 + 1) = n
    BY <1>1
  <2> QED BY <2>1, <2>2
<1>6. ExistsBijection(1..n, ToSet(s))
  BY <1>4 DEF ExistsBijection
<1> QED
  BY <1>5, <1>6, FS_Bijection

\* The indexes the services look at agree with the publications and mailboxes,
\* and the budget with the tickets: remove_indexes, ready_source, the ticket
\* permits and refresh keep them over every mix of calls.
THEOREM TableIndexed == Spec => []TableIndexExact
<1>1. ASSUME PubInv PROVE TableIndexExact
  <2>1. /\ TableOk(pubs, {}) /\ pubs.snapshotEntries <= MaxSnapshot /\ BoxOk(Box)
        /\ StagedLinked(pubs.entries, staged) /\ pubs \in TableType
        /\ staged \in [Actor -> Seq(Staged)] /\ due.actors \in [Actor -> Time \cup {NoDeadline}]
        /\ due.ordered \in SUBSET (Time \X Actor) /\ DueExact(counts, due)
        /\ stagedActors = {a \in Actor : staged[a] # <<>>}
    <3>1. Box \in BoxType /\ BoxOk(Box) /\ TableOk(pubs, {})
      BY <1>1 DEF PubInv, PublicationsOk, BoxOk
    <3> QED BY <1>1, <3>1, BoxFields, BoxOfFields DEF PubInv, PublicationsOk, TableOk, BoxOk
  <2>2. PendingPubs(pubs) = Pending(pubs.entries)
    BY DEF PendingPubs, Pending
  <2>3. TableIndexExactOf(pubs)
    <3>1. ASSUME NEW a \in Actor
          PROVE  /\ ToSet(pubs.bySource[a]) = {id \in PendingPubs(pubs) : pubs.entries[id].source = a}
                 /\ \A i, j \in DOMAIN pubs.bySource[a] : i < j => pubs.bySource[a][i] < pubs.bySource[a][j]
                 /\ a \in pubs.readySet <=> /\ pubs.bySource[a] # <<>>
                                            /\ ~pubs.entries[Head(pubs.bySource[a])].staged
      BY <2>1, <2>2 DEF TableOk, QueuesExact, RotationExact, Routable
    <3>2. ToSet(pubs.ready) = pubs.readySet /\ Len(pubs.ready) = Cardinality(pubs.readySet)
      <4>1. /\ pubs.ready \in Seq(Actor) /\ ToSet(pubs.ready) = pubs.readySet
            /\ \A i, j \in DOMAIN pubs.ready : i < j => pubs.ready[i] # pubs.ready[j]
        BY <2>1, TableFields DEF TableOk, RotationExact
      <4> QED BY <4>1, DistinctLength
    <3>3. pubs.deadlines = {<<pubs.entries[id].deadline, id>> :
                              id \in {i \in PendingPubs(pubs) : pubs.entries[i].deadline # NoDeadline}}
      <4> DEFINE R == {<<pubs.entries[id].deadline, id>> :
                         id \in {i \in PendingPubs(pubs) : pubs.entries[i].deadline # NoDeadline}}
                 L == {e \in Time \X PubId : /\ pubs.entries[e[2]] # NoPublication
                                             /\ pubs.entries[e[2]].deadline = e[1]}
      <4>1. pubs.deadlines = L
        BY <2>1 DEF TableOk, DeadlinesExact
      <4>2. ASSUME NEW e \in L PROVE e \in R
        <5>1. e[1] \in Time /\ e[2] \in PubId /\ e = <<e[1], e[2]>>
              /\ pubs.entries[e[2]] # NoPublication /\ pubs.entries[e[2]].deadline = e[1]
          OBVIOUS
        <5>2. e[2] \in {i \in PendingPubs(pubs) : pubs.entries[i].deadline # NoDeadline}
          BY <5>1, TimeNumbers DEF PendingPubs
        <5> QED BY <5>1, <5>2
      <4>3. ASSUME NEW id \in PendingPubs(pubs), pubs.entries[id].deadline # NoDeadline
            PROVE  <<pubs.entries[id].deadline, id>> \in L
        <5>1. pubs.entries[id] \in Publication /\ id \in PubId /\ pubs.entries[id] # NoPublication
          BY <2>1, TableFields DEF EntriesType, PendingPubs
        <5>2. pubs.entries[id].deadline \in 1..NoDeadline
          BY <5>1 DEF Publication
        <5>3. pubs.entries[id].deadline \in Time
          BY <4>3, <5>2, PublicationTimeAssumption DEF Time, NoDeadline
        <5> QED BY <5>1, <5>3
      <4>4. \A e \in R : e \in L
        BY <4>3
      <4> HIDE DEF R, L
      <4>5. L = R
        BY <4>2, <4>4
      <4> QED BY <4>1, <4>5 DEF R
    <3>4. pubs.snapshotEntries =
            Cardinality({e \in PubId \X RouteId : /\ pubs.entries[e[1]] # NoPublication
                                                  /\ e[2] <= Len(pubs.entries[e[1]].routes)})
      BY <2>1 DEF TableOk, SnapshotsExact, Snapshots
    <3> QED BY <3>1, <3>2, <3>3, <3>4 DEF TableIndexExactOf
  <2>4. BudgetExactOf(pubs)
    BY <2>1, <2>2 DEF BudgetExactOf, TableOk, BudgetExact
  <2>5. due.actors = [a \in Actor |-> EarliestOf(a)]
    <3>1. \A a \in Actor : EarliestOf(a) = due.actors[a]
      BY <2>1, EarliestIs
    <3> QED BY <2>1, <3>1
  <2>6. due.ordered = {<<due.actors[a], a>> : a \in {b \in Actor : due.actors[b] # NoDeadline}}
    <3> DEFINE R == {<<due.actors[a], a>> : a \in {b \in Actor : due.actors[b] # NoDeadline}}
    <3>1. due.ordered = {e \in Time \X Actor : e[1] = due.actors[e[2]]}
      BY <2>1 DEF DueExact
    <3>2. ASSUME NEW e \in due.ordered PROVE e \in R
      <4>1. e[1] \in Time /\ e[2] \in Actor /\ e = <<e[1], e[2]>> /\ e[1] = due.actors[e[2]]
        BY <3>1
      <4>2. e[2] \in {b \in Actor : due.actors[b] # NoDeadline}
        BY <4>1, TimeNumbers
      <4> QED BY <4>1, <4>2
    <3>3. ASSUME NEW a \in Actor, due.actors[a] # NoDeadline PROVE <<due.actors[a], a>> \in due.ordered
      BY <2>1, <3>1, <3>3
    <3>4. \A e \in R : e \in due.ordered
      BY <3>3
    <3> HIDE DEF R
    <3>5. due.ordered = R
      BY <3>2, <3>4
    <3> QED BY <3>5 DEF R
  <2>7. ASSUME NEW a \in Actor
        PROVE  {staged[a][i].pub : i \in DOMAIN staged[a]} =
                 {id \in PendingPubs(pubs) : pubs.entries[id].source = a /\ pubs.entries[id].staged}
    <3>1. {x.pub : x \in ToSet(staged[a])} =
            {id \in Pending(pubs.entries) : pubs.entries[id].source = a /\ pubs.entries[id].staged}
      BY <2>1 DEF StagedLinked
    <3>2. {x.pub : x \in ToSet(staged[a])} = {staged[a][i].pub : i \in DOMAIN staged[a]}
      BY DEF ToSet
    <3> QED BY <2>2, <3>1, <3>2
  <2> QED BY <2>1, <2>3, <2>4, <2>5, <2>6, <2>7 DEF TableIndexExact
<1> QED
  BY <1>1, PubInvariant, PTL
=============================================================================
