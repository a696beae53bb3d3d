---------------------- MODULE RouteManagerTableProofs -----------------------
(***************************************************************************)
(* RouteManager implements RouteTable: whatever fails, the callers of the  *)
(* route manager see a table that changes in single steps.                 *)
(*                                                                         *)
(* The table is the index without its lifetimes; while an operation is     *)
(* between its save and its kernel call, or the other way about, it is the *)
(* index a rollback would bring back.                                      *)
(***************************************************************************)
EXTENDS RouteManagerProofs

(* What an operation that is under way has done to the index.              *)
InFlightInv ==
  /\ op.pc = "install" =>
       /\ routes = Put(op.prev, op.route)
       /\ \A r \in op.prev : r.ip # op.route.ip
  /\ op.pc = "forget" => routes = Forget(op.prev, op.ip, op.gateway)

-----------------------------------------------------------------------------
(* Only an add and a remove leave something in flight.                     *)

(* What the two operations that are done in two steps carry between them.  *)
LEMMA InFlightType ==
  ASSUME TypeOK
  PROVE  /\ op.pc = "install" => op.route \in SavedRoute /\ op.prev \in SUBSET Route
         /\ op.pc = "forget" => /\ op.ip \in Dests /\ op.gateway \in Gateways
                                /\ op.prev \in SUBSET Route
         /\ op.pc = "idle" <=> op = Idle
BY DEF TypeOK, Ops, Idle

(* Whatever is in flight began with the first step of an add or a remove.  *)
LEMMA InFlightStep ==
  ASSUME TypeOK, IndexInv, InFlightInv, [Next]_vars
  PROVE  InFlightInv'
<1>1. ASSUME op'.pc \notin {"install", "forget"}
      PROVE  InFlightInv'
  BY <1>1 DEF InFlightInv
<1>2. ASSUME UNCHANGED <<op, routes>>
      PROVE  InFlightInv'
  BY <1>2 DEF InFlightInv
<1>3. ASSUME NEW k \in Keys, NEW d \in Dests, NEW g \in Gateways,
             NEW ttl \in Ttls, AddPersist(k, d, g, ttl)
      PROVE  InFlightInv'
  <2> DEFINE new == NewRoute(k, d, g, Lifetime(ttl))
  <2>1. new.ip = d
    BY DEF NewRoute
  <2> HIDE DEF new
  <2>2. \/ op' = Idle
        \/ /\ routes' = Put(routes, new)
           /\ op' = [pc |-> "install", route |-> new, prev |-> routes]
    BY <1>3 DEF AddPersist, new
  <2>3. \A r \in routes : r.ip # d
    BY <1>3 DEF AddPersist
  <2>4. QED
    BY <2>1, <2>2, <2>3 DEF InFlightInv, Idle
<1>4. ASSUME NEW d \in Dests, NEW g \in Gateways, Unroute(d, g)
      PROVE  InFlightInv'
  BY <1>4 DEF Unroute, InFlightInv, Idle
<1>5. ASSUME \/ StartRead \/ RestoreDone \/ StartDone \/ AddInstall \/ ForgetSave
             \/ ScanBegin \/ ScanEnd \/ Exit \/ Crash \/ Reboot \/ Tick
      PROVE  op'.pc \notin {"install", "forget"}
  BY <1>5 DEF StartRead, RestoreDone, StartDone, AddInstall, ForgetSave, ScanBegin, ScanEnd,
     Exit, Crash, Reboot, ProcessEnds, Tick, Idle
<1>6. ASSUME NEW r \in Route, Restore(r) \/ ScanErase(r) \/ ScanKeep(r)
      PROVE  op'.pc \notin {"install", "forget"}
  BY <1>6 DEF Restore, ScanErase, ScanKeep, TypeOK, Ops, Idle
<1>7. ASSUME NEW t \in Hops, Clean(t)
      PROVE  op'.pc \notin {"install", "forget"}
  BY <1>7 DEF Clean, TypeOK, Ops, Idle
<1>8. ASSUME NEW k \in Keys, NEW d \in Dests, NEW g \in Gateways,
             NEW ttl \in Ttls, AddReference(k, d, g, ttl)
      PROVE  op'.pc \notin {"install", "forget"}
  BY <1>8 DEF AddReference, Idle
<1>9. ASSUME StartUnreadable
      PROVE  op'.pc \notin {"install", "forget"}
  BY <1>9 DEF StartUnreadable, IndexInv
<1>10. ASSUME \/ StopBegin \/ StopJoin \/ UNCHANGED vars
              \/ \E d \in Dests : OtherClears(d) \/ \E g \in Gateways : OtherSets(d, g)
       PROVE  UNCHANGED <<op, routes>>
  BY <1>10 DEF StopBegin, StopJoin, vars, OtherClears, OtherSets
<1>11. QED
  BY <1>1, <1>2, <1>3, <1>4, <1>5, <1>6, <1>7, <1>8, <1>9, <1>10
  DEF Next, HolderStep, Request, Environment, Lifecycle, Remove, RemoveSystem

-----------------------------------------------------------------------------
(* The index without its lifetimes.                                        *)

Reference(r) == [key |-> r.key, ip |-> r.ip, gateway |-> r.gateway]

View(S) == {Reference(r) : r \in S}

(* A record is seen through its key, its destination and its gateway.      *)
LEMMA ReferenceType ==
  ASSUME NEW r \in Route
  PROVE  /\ Reference(r) \in Table!Ref
         /\ Reference(r).key = r.key /\ Reference(r).ip = r.ip
         /\ Reference(r).gateway = r.gateway
         /\ \A x \in Route : Reference(x) = Reference(r) <=>
              x.key = r.key /\ x.ip = r.ip /\ x.gateway = r.gateway
BY DEF Reference, Table!Ref, Route

(* A record whose gateway agrees adds its reference: what it replaces has  *)
(* the same one.                                                           *)
LEMMA ViewPut ==
  ASSUME NEW S \in SUBSET Route, NEW r \in Route,
         \A x \in S : x.ip = r.ip => x.gateway = r.gateway
  PROVE  View(Put(S, r)) = View(S) \cup {Reference(r)}
<1>1. View(Put(S, r)) \subseteq View(S) \cup {Reference(r)}
  BY DEF View, Put
<1>2. Reference(r) \in View(Put(S, r))
  BY DEF View, Put
<1>3. ASSUME NEW x \in S
      PROVE  Reference(x) \in View(Put(S, r))
  <2>1. CASE x.key # r.key \/ x.ip # r.ip
    BY <2>1 DEF View, Put
  <2>2. CASE x.key = r.key /\ x.ip = r.ip
    BY <1>2, <2>2, ReferenceType
  <2>3. QED
    BY <2>1, <2>2
<1>4. QED
  BY <1>1, <1>2, <1>3 DEF View

(* Forgetting a route takes every key's reference to it.                   *)
LEMMA ViewForget ==
  ASSUME NEW S \in SUBSET Route, NEW d \in Dests, NEW g \in Gateways
  PROVE  View(Forget(S, d, g)) = View(S) \ Table!Hop(d, g)
<1>1. \A r \in S : Reference(r) \in Table!Hop(d, g) <=> r.ip = d /\ r.gateway = g
  BY ReferenceType DEF Table!Hop
<1>2. \A v \in View(Forget(S, d, g)) : v \in View(S) \ Table!Hop(d, g)
  BY <1>1 DEF View, Forget
<1>3. \A v \in View(S) \ Table!Hop(d, g) : v \in View(Forget(S, d, g))
  BY <1>1 DEF View, Forget
<1>4. QED
  BY <1>2, <1>3

(* One record of an index less is one reference less.                      *)
LEMMA ViewErase ==
  ASSUME NEW S \in SUBSET Route, IsIndex(S), NEW r \in S
  PROVE  View(S \ {r}) = View(S) \ {Reference(r)}
<1>1. \A x \in S : Reference(x) = Reference(r) => x = r
  BY ReferenceType DEF IsIndex
<1>2. QED
  BY <1>1 DEF View

(* The worker's cool-down is not seen.                                     *)
LEMMA ViewKeep ==
  ASSUME NEW S \in SUBSET Route, NEW r \in S
  PROVE  View((S \ {r}) \cup {[r EXCEPT !.cool = RetryAfter]}) = View(S)
<1> DEFINE s == [r EXCEPT !.cool = RetryAfter]
<1>1. Reference(s) = Reference(r)
  BY DEF Reference, Route
<1> HIDE DEF s
<1>2. View((S \ {r}) \cup {s}) = View(S)
  BY <1>1 DEF View
<1>3. QED
  BY <1>2 DEF s

(* Time is not seen.                                                       *)
LEMMA ViewAge ==
  ASSUME NEW S \in SUBSET Route
  PROVE  View(Age(S)) = View(S)
<1>1. \A r \in S : Reference(Older(r)) = Reference(r)
  BY OlderType DEF Reference
<1>2. QED
  BY <1>1 DEF View, Age

-----------------------------------------------------------------------------
(* The refinement.                                                         *)

(* The steps of the table, as the index shows them.                        *)
LEMMA TableSteps ==
  /\ View(Visible)' = {} => Table!TableNext
  /\ \A r \in Route :
       /\ \A x \in Visible : x.ip = r.ip => x.gateway = r.gateway
       /\ View(Visible)' = View(Visible) \cup {Reference(r)}
       => Table!TableNext
  /\ \A d \in Dests, g \in Gateways :
       View(Visible)' = View(Visible) \ Table!Hop(d, g) => Table!TableNext
  /\ \A r \in Visible \cap Route :
       View(Visible)' = View(Visible) \ {Reference(r)} => Table!TableNext
<1>1. ASSUME View(Visible)' = {}
      PROVE  Table!Lose
  BY <1>1 DEF Table!Lose, View, Reference
<1>2. ASSUME NEW r \in Route, \A x \in Visible : x.ip = r.ip => x.gateway = r.gateway,
             View(Visible)' = View(Visible) \cup {Reference(r)}
      PROVE  Table!Add(r.key, r.ip, r.gateway) /\ r.key \in Keys /\ r.ip \in Dests
             /\ r.gateway \in Gateways
  <2>1. Table!Agrees(r.ip, r.gateway)
    BY <1>2 DEF Table!Agrees
  <2>2. QED
    BY <1>2, <2>1 DEF Table!Add, View, Reference, Route
<1>3. ASSUME NEW d \in Dests, NEW g \in Gateways,
             View(Visible)' = View(Visible) \ Table!Hop(d, g)
      PROVE  Table!Drop(d, g)
  BY <1>3 DEF Table!Drop, View, Reference
<1>4. ASSUME NEW r \in Visible \cap Route,
             View(Visible)' = View(Visible) \ {Reference(r)}
      PROVE  Table!Lapse(Reference(r)) /\ Reference(r) \in Table!Ref
  BY <1>4, ReferenceType DEF Table!Lapse, View, Reference
<1>5. QED
  BY <1>1, <1>2, <1>3, <1>4 DEF Table!TableNext

(* Every step of the manager is a step of the table, or none.              *)
LEMMA TableStep ==
  ASSUME TypeOK, IndexInv, InFlightInv, [Next]_vars
  PROVE  Table!TableNext \/ View(Visible)' = View(Visible)
<1> DEFINE Goal == Table!TableNext \/ View(Visible)' = View(Visible)
<1> USE DEF TypeOK
<1>1. ASSUME op.pc \notin {"install", "forget"}
      PROVE  Visible = routes
  BY <1>1 DEF Visible
<1>2. ASSUME op'.pc \notin {"install", "forget"}
      PROVE  Visible' = routes'
  BY <1>2 DEF Visible
<1>3. ASSUME Visible' = Visible
      PROVE  View(Visible)' = View(Visible)
  BY <1>3 DEF View
<1>4. CASE StartRead \/ StartUnreadable \/ Exit \/ Crash \/ Reboot
  <2>1. routes' = {} /\ op'.pc \notin {"install", "forget"}
    BY <1>4 DEF StartRead, StartUnreadable, Exit, Crash, Reboot, ProcessEnds, Idle, IndexInv
  <2>2. View(Visible)' = {}
    BY <1>2, <2>1 DEF View
  <2>3. QED
    BY <2>2, TableSteps
<1>5. ASSUME NEW r \in Route, op.pc \notin {"install", "forget"},
             op'.pc \notin {"install", "forget"}, routes' = Put(routes, r),
             \A x \in routes : x.ip = r.ip => x.gateway = r.gateway
      PROVE  Goal
  <2>1. Visible = routes /\ Visible' = Put(routes, r)
    BY <1>1, <1>2, <1>5
  <2>2. View(Visible)' = View(Visible) \cup {Reference(r)}
    BY <1>5, <2>1, ViewPut DEF View
  <2>3. QED
    BY <1>5, <2>1, <2>2, TableSteps
<1>6. ASSUME UNCHANGED routes, op.pc \notin {"install", "forget"},
             op'.pc \notin {"install", "forget"}
      PROVE  Goal
  BY <1>1, <1>2, <1>3, <1>6
<1>7. ASSUME NEW r \in Route, Restore(r)
      PROVE  Goal
  <2>1. op.pc = "restore" /\ op'.pc = "restore"
    BY <1>7 DEF Restore, Ops, Idle
  <2>2. \/ UNCHANGED routes
        \/ routes' = Put(routes, r) /\ \A x \in routes : x.ip = r.ip => x.gateway = r.gateway
    BY <1>7 DEF Restore
  <2>3. QED
    BY <1>5, <1>6, <2>1, <2>2
<1>8. CASE RestoreDone \/ StartDone \/ ScanBegin \/ ScanEnd \/ StopBegin \/ StopJoin
  BY <1>6, <1>8 DEF RestoreDone, StartDone, ScanBegin, ScanEnd, StopBegin, StopJoin, Idle
<1>9. ASSUME NEW t \in Hops, Clean(t)
      PROVE  Goal
  <2>1. op.pc = "clean" /\ op'.pc = "clean"
    BY <1>9 DEF Clean, Ops, Idle
  <2>2. QED
    BY <1>6, <1>9, <2>1 DEF Clean
<1>10. ASSUME NEW k \in Keys, NEW d \in Dests, NEW g \in Gateways,
              NEW ttl \in Ttls, AddReference(k, d, g, ttl)
       PROVE  Goal
  <2> DEFINE new == NewRoute(k, d, g, Lifetime(ttl))
  <2>1. new \in Route /\ new.ip = d /\ new.gateway = g
    BY NewRouteType, UnsavedType DEF NewRoute, SavedRoute
  <2> HIDE DEF new
  <2>2. routes' \in {routes, Put(routes, new)} /\ op = Idle /\ op' = Idle
    BY <1>10 DEF AddReference, new
  <2>3. \A x \in routes : x.ip = d => x.gateway = g
    BY <1>10 DEF AddReference, RoutedVia, IndexInv, IsIndex
  <2>4. QED
    BY <1>5, <1>6, <2>1, <2>2, <2>3 DEF Idle
<1>11. ASSUME NEW k \in Keys, NEW d \in Dests, NEW g \in Gateways,
              NEW ttl \in Ttls, AddPersist(k, d, g, ttl)
       PROVE  Goal
  <2>1. op = Idle
    BY <1>11 DEF AddPersist
  <2>2. Visible' = routes
    BY <1>11 DEF AddPersist, Visible, Idle
  <2>3. QED
    BY <1>1, <1>3, <2>1, <2>2 DEF Idle
<1>12. CASE AddInstall
  <2>1. op.pc = "install" /\ op' = Idle /\ routes' \in {routes, op.prev}
    BY <1>12 DEF AddInstall, Rollback
  <2>2. Visible = op.prev /\ Visible' = routes'
    BY <1>2, <2>1 DEF Visible, Idle
  <2>3. CASE routes' = op.prev
    BY <1>3, <2>2, <2>3
  <2>4. CASE routes' = routes
    <3>1. op.route \in Route /\ op.prev \in SUBSET Route
      BY <2>1, InFlightType DEF SavedRoute
    <3>2. routes = Put(op.prev, op.route) /\ \A x \in op.prev : x.ip # op.route.ip
      BY <2>1 DEF InFlightInv
    <3>3. View(routes) = View(op.prev) \cup {Reference(op.route)}
      BY <3>1, <3>2, ViewPut
    <3>4. View(Visible)' = View(Visible) \cup {Reference(op.route)}
      BY <2>2, <2>4, <3>3 DEF View
    <3>5. QED
      BY <2>2, <3>1, <3>2, <3>4, TableSteps
  <2>5. QED
    BY <2>1, <2>3, <2>4
<1>13. ASSUME NEW d \in Dests, NEW g \in Gateways, Unroute(d, g), op = Idle
       PROVE  Goal
  <2>1. Visible' = routes
    BY <1>13 DEF Unroute, Visible, Idle
  <2>2. QED
    BY <1>1, <1>3, <1>13, <2>1 DEF Idle
<1>14. CASE ForgetSave
  <2>1. op.pc = "forget" /\ op' = Idle /\ routes' \in {routes, op.prev}
    BY <1>14 DEF ForgetSave
  <2>2. Visible = op.prev /\ Visible' = routes'
    BY <1>2, <2>1 DEF Visible, Idle
  <2>3. CASE routes' = op.prev
    BY <1>3, <2>2, <2>3
  <2>4. CASE routes' = routes
    <3>1. op.ip \in Dests /\ op.gateway \in Gateways /\ op.prev \in SUBSET Route
      BY <2>1, InFlightType
    <3>2. routes = Forget(op.prev, op.ip, op.gateway)
      BY <2>1 DEF InFlightInv
    <3>3. View(routes) = View(op.prev) \ Table!Hop(op.ip, op.gateway)
      BY <3>1, <3>2, ViewForget
    <3>4. View(Visible)' = View(Visible) \ Table!Hop(op.ip, op.gateway)
      BY <2>2, <2>4, <3>3 DEF View
    <3>5. QED
      BY <3>1, <3>4, TableSteps
  <2>5. QED
    BY <2>1, <2>3, <2>4
<1>15. ASSUME NEW r \in Route, ScanErase(r)
       PROVE  Goal
  <2>1. op.pc = "scan" /\ op'.pc = "scan" /\ routes' = routes \ {r} /\ r \in op.todo
    BY <1>15 DEF ScanErase, Ops, Idle
  <2>2. r \in routes
    BY <2>1 DEF IndexInv
  <2>3. Visible = routes /\ Visible' = routes \ {r}
    BY <1>1, <1>2, <2>1
  <2>4. View(Visible)' = View(Visible) \ {Reference(r)}
    BY <2>2, <2>3, ViewErase DEF View, IndexInv
  <2>5. QED
    BY <2>2, <2>3, <2>4, TableSteps
<1>16. ASSUME NEW r \in Route, ScanKeep(r)
       PROVE  Goal
  <2>1. /\ op.pc = "scan" /\ op'.pc = "scan" /\ r \in op.todo
        /\ routes' = (routes \ {r}) \cup {[r EXCEPT !.cool = RetryAfter]}
    BY <1>16 DEF ScanKeep, Ops, Idle
  <2>2. r \in routes
    BY <2>1 DEF IndexInv
  <2>3. View(routes') = View(routes)
    BY <2>1, <2>2, ViewKeep
  <2>4. QED
    BY <1>1, <1>2, <2>1, <2>3 DEF View
<1>17. CASE Tick
  <2>1. op.pc \notin {"install", "forget"} /\ op'.pc \notin {"install", "forget"}
        /\ routes' = Age(routes)
    BY <1>17 DEF Tick, Idle
  <2>2. View(routes') = View(routes)
    BY <2>1, ViewAge
  <2>3. QED
    BY <1>1, <1>2, <2>1, <2>2 DEF View
<1>18. ASSUME \/ UNCHANGED vars
              \/ \E d \in Dests : OtherClears(d) \/ \E g \in Gateways : OtherSets(d, g)
       PROVE  Goal
  <2>1. Visible' = Visible
    BY <1>18 DEF vars, OtherClears, OtherSets, Visible
  <2>2. QED
    BY <1>3, <2>1
<1>19. QED
  BY <1>4, <1>7, <1>8, <1>9, <1>10, <1>11, <1>12, <1>13, <1>14, <1>15, <1>16, <1>17, <1>18
  DEF Next, HolderStep, Request, Environment, Lifecycle, Remove, RemoveSystem

(* What is in flight is what the operation's first step left.              *)
THEOREM InFlightHolds == Spec => []InFlightInv
<1>1. Init => InFlightInv
  BY DEF Init, InFlightInv, Idle
<1>2. TypeOK /\ IndexInv /\ InFlightInv /\ [Next]_vars => InFlightInv'
  BY InFlightStep
<1>3. QED
  BY <1>1, <1>2, TypeCorrect, IndexCorrect, PTL DEF Spec

(* Under any faults the manager is a table whose operations happen in one  *)
(* step: a rollback, a lost answer of the kernel or a crash between a save *)
(* and a kernel call is never seen as half an operation.                   *)
THEOREM ImplementsTableHolds == Spec => ImplementsTable
<1>1. Init => Table!Empty
  BY DEF Init, Table!Empty, Visible, Idle
<1>2. ASSUME TypeOK, IndexInv, InFlightInv, [Next]_vars
      PROVE  [Table!TableNext]_({[key |-> r.key, ip |-> r.ip, gateway |-> r.gateway] :
                                  r \in Visible})
  <2>1. Table!TableNext \/ View(Visible)' = View(Visible)
    BY <1>2, TableStep
  <2>2. QED
    BY <2>1 DEF View, Reference
<1>3. QED
  BY <1>1, <1>2, TypeCorrect, IndexCorrect, InFlightHolds, PTL
  DEF Spec, ImplementsTable, Table!TableSpec

=============================================================================
