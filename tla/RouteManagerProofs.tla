------------------------- MODULE RouteManagerProofs -------------------------
(* Theorems about RouteManager, for every value of its constants.          *)
EXTENDS RouteManager, TLAPS

-----------------------------------------------------------------------------
(* The inductive invariants behind the safety properties.                  *)

(* A two-level map in which every destination has one gateway.             *)
IsIndex(S) ==
  \A a, b \in S : a.ip = b.ip => /\ a.gateway = b.gateway
                                 /\ a.key = b.key => a = b

(* The index is one at every step, and so is what a rollback would put     *)
(* back; the worker's pass is about records the index still has.           *)
IndexInv ==
  /\ IsIndex(routes)
  /\ op.pc \in {"install", "forget"} => IsIndex(op.prev)
  /\ op.pc = "scan" => op.todo \subseteq routes /\ phase = "up"
  /\ phase = "down" => op.pc = "idle"

(* A kernel that can be trusted to hold what it acknowledged, and at most  *)
(* one of the two writes of an operation failing.                          *)
LoyalKernel ==
  /\ Faults \cap {"lostAck", "external"} = {}
  /\ ~({"write", "kernel"} \subseteq Faults)

Installed(r) == kernel[r.ip] = r.gateway

(* Where each operation stands with the kernel.                            *)
InstalledInv ==
  /\ op.pc # "install" => \A r \in routes : Installed(r)
  /\ op.pc = "install" =>
       /\ routes \subseteq op.prev \cup {op.route}
       /\ \A r \in op.prev : Installed(r) /\ r.ip # op.route.ip
  /\ op.pc = "forget" =>
       /\ kernel[op.ip] = NoGateway
       /\ \A r \in op.prev : \/ r.ip # op.ip /\ Installed(r)
                             \/ r.ip = op.ip /\ r.gateway = op.gateway
  /\ op.pc = "clean" => \A t \in op.todo, r \in routes : r.ip # t.ip

(* The process or the machine dies, the disk refuses: nothing else.        *)
CrashFaults == Faults \subseteq {"write", "crash", "reboot"}

(* Some record of S names what the kernel has for d.                       *)
Names(S, d) == \E r \in S : r.ip = d /\ r.gateway = kernel[d]

(* Who answers for the kernel's routes while an operation is under way.    *)
RecordInv ==
  /\ KernelRecorded
  /\ \A d \in Dests : kernel[d] # NoGateway =>
       /\ (Serving /\ op.pc # "install") => Names(routes, d)
       /\ op.pc = "install" => Names(op.prev, d)
       /\ op.pc = "restore" =>
            \/ Names(routes, d)
            \/ /\ \A r \in routes : r.ip # d
               /\ Names(op.todo \cup {r \in disk : Expired(r)}, d)
       /\ op.pc = "clean" =>
            Names(routes, d) \/ [ip |-> d, gateway |-> kernel[d]] \in op.todo
  /\ op.pc = "restore" => op.todo \subseteq disk
  /\ op.pc = "install" => op.route \in disk /\ op.route \in routes
                          /\ op.prev \subseteq routes
  /\ op.pc = "forget" =>
       /\ routes \subseteq op.prev
       /\ \E r \in disk : r.ip = op.ip /\ r.gateway = op.gateway
       /\ \E r \in op.prev : r.ip = op.ip /\ r.gateway = op.gateway
  /\ op.pc \in {"restore", "clean"} <=> phase = "starting"

-----------------------------------------------------------------------------
(* What the operators on sets of records return.                           *)

(* A request's record is a record.                                         *)
LEMMA NewRouteType ==
  ASSUME NEW k \in Keys, NEW d \in Dests, NEW g \in Gateways, NEW ttl \in Ttls
  PROVE  NewRoute(k, d, g, Lifetime(ttl)) \in SavedRoute
  BY RoutesAssumption DEF SavedRoute, NewRoute, Lifetime, Route, Lefts, Forever

(* Saving keeps every field but the cool-down.                             *)
LEMMA SavedType ==
  ASSUME NEW S \in SUBSET Route
  PROVE  Saved(S) \in SUBSET SavedRoute
  BY RoutesAssumption DEF SavedRoute, Saved, Route

(* The lines of a file are records.                                        *)
LEMMA UnsavedType ==
  ASSUME NEW S \in SUBSET SavedRoute
  PROVE  S \in SUBSET Route
  BY DEF SavedRoute

(* Put adds nothing but its record...                                      *)
LEMMA PutType ==
  ASSUME NEW T, NEW S \in SUBSET T, NEW r \in T
  PROVE  Put(S, r) \in SUBSET T
  BY DEF Put

(* ... and Forget only leaves records out.                                 *)
LEMMA ForgetType ==
  ASSUME NEW T, NEW S \in SUBSET T, NEW d, NEW g
  PROVE  Forget(S, d, g) \in SUBSET T
  BY DEF Forget

(* A tick changes what is left of a record's times, and nothing else.      *)
LEMMA OlderType ==
  ASSUME NEW r \in Route
  PROVE  /\ Older(r) \in Route
         /\ r.cool = 0 => Older(r).cool = 0
         /\ Older(r).key = r.key /\ Older(r).ip = r.ip
         /\ Older(r).gateway = r.gateway
<1> DEFINE l == IF r.left > 0 THEN r.left - 1 ELSE r.left
           c == IF r.cool > 0 THEN r.cool - 1 ELSE r.cool
<1>1. l \in Lefts
  BY RoutesAssumption DEF Route, Lefts, Forever
<1>2. c \in 0..RetryAfter /\ (r.cool = 0 => c = 0)
  BY RoutesAssumption DEF Route
<1>3. Older(r) = [r EXCEPT !.left = l, !.cool = c]
  BY DEF Older
<1> HIDE DEF l, c
<1> QED
  BY <1>1, <1>2, <1>3 DEF Route

(* ... so that time leaves an index an index of records, a file a file.    *)
LEMMA AgeType ==
  ASSUME NEW S \in SUBSET Route
  PROVE  /\ Age(S) \in SUBSET Route
         /\ S \in SUBSET SavedRoute => Age(S) \in SUBSET SavedRoute
  BY OlderType DEF Age, SavedRoute

(* Live, too, only leaves records out.                                     *)
LEMMA LiveType ==
  ASSUME NEW T, NEW S \in SUBSET T
  PROVE  Live(S) \in SUBSET T
  BY DEF Live

-----------------------------------------------------------------------------
(* Type correctness.                                                       *)

(* Every action of the manager keeps to the types.                         *)
LEMMA TypeStep ==
  ASSUME TypeOK, [Next]_vars
  PROVE  TypeOK'
<1> USE DEF TypeOK
<1>0. CASE UNCHANGED vars
  BY <1>0 DEF vars
<1>1. CASE StartRead
  <2>1. Live(disk) \in SUBSET Route
    BY DEF Live, SavedRoute
  <2>2. op' \in Ops
    BY <1>1, <2>1 DEF StartRead, Ops
  <2> QED
    BY <1>1, <2>2 DEF StartRead
<1>2. CASE StartUnreadable
  BY <1>2 DEF StartUnreadable
<1>3. ASSUME NEW r \in Route, Restore(r)
      PROVE  TypeOK'
  <2>1. op \in [pc: {"restore"}, todo: SUBSET Route, failed: BOOLEAN]
    <3>1. op.pc = "restore"
      BY <1>3 DEF Restore
    <3> QED
      BY <3>1 DEF Ops, Idle
  <2>2. op' \in Ops
    <3>1. \/ op' = [op EXCEPT !.todo = @ \ {r}]
          \/ \E f \in BOOLEAN : op' = [op EXCEPT !.todo = @ \ {r}, !.failed = f]
      <4>1. \A ok \in BOOLEAN : (op.failed \/ ~ok) \in BOOLEAN
        OBVIOUS
      <4> QED
        BY <1>3, <4>1, Zenon DEF Restore
    <3>2. ASSUME NEW f \in BOOLEAN, op' = [op EXCEPT !.todo = @ \ {r}, !.failed = f]
          PROVE  op' \in [pc: {"restore"}, todo: SUBSET Route, failed: BOOLEAN]
      BY <2>1, <3>2
    <3>3. CASE op' = [op EXCEPT !.todo = @ \ {r}]
      BY <2>1, <3>3 DEF Ops
    <3> QED
      BY <3>1, <3>2, <3>3 DEF Ops
  <2>3. kernel' \in [Dests -> Gateways \cup {NoGateway}]
    BY <1>3 DEF Restore, AddSystemRoute, Route
  <2>4. routes' \in SUBSET Route
    <3>1. routes' = routes \/ routes' = Put(routes, r)
      BY <1>3 DEF Restore
    <3> QED
      BY <3>1, PutType
  <2> QED
    BY <1>3, <2>2, <2>3, <2>4 DEF Restore
<1>4. CASE RestoreDone
  <2>1. op \in [pc: {"restore"}, todo: SUBSET Route, failed: BOOLEAN]
    BY <1>4 DEF RestoreDone, Ops, Idle
  <2>2. op' \in Ops
    <3>1. ToClean \in SUBSET Hops
      BY DEF ToClean, Hops, Route, SavedRoute
    <3>2. op' = [pc |-> "clean", todo |-> ToClean, failed |-> op.failed]
      BY <1>4 DEF RestoreDone
    <3> QED
      BY <2>1, <3>1, <3>2 DEF Ops
  <2> QED
    BY <1>4, <2>2 DEF RestoreDone
<1>5. ASSUME NEW t \in Hops, Clean(t)
      PROVE  TypeOK'
  <2>1. op \in [pc: {"clean"}, todo: SUBSET Hops, failed: BOOLEAN]
    BY <1>5 DEF Clean, Ops, Idle
  <2>2. op' \in Ops
    BY <1>5, <2>1 DEF Clean, Ops
  <2>3. kernel' \in [Dests -> Gateways \cup {NoGateway}]
    BY <1>5 DEF Clean, DeleteSystemRoute, Hops
  <2> QED
    BY <1>5, <2>2, <2>3 DEF Clean
<1>6. CASE StartDone
  BY <1>6, SavedType DEF StartDone, SaveRoutes, Ops, SavedRoute
<1>7. ASSUME NEW k \in Keys, NEW d \in Dests, NEW g \in Gateways,
             NEW ttl \in Ttls, AddReference(k, d, g, ttl)
      PROVE  TypeOK'
  <2> DEFINE new == NewRoute(k, d, g, Lifetime(ttl))
  <2>1. new \in SavedRoute
    BY NewRouteType
  <2> HIDE DEF new
  <2>2. /\ Put(routes, new) \in SUBSET Route
        /\ Put(acked, new) \in SUBSET SavedRoute
    <3>1. acked \in SUBSET SavedRoute /\ new \in Route
      BY <2>1 DEF SavedRoute
    <3> QED
      BY <2>1, <3>1, PutType
  <2>3. Saved(Put(routes, new)) \in SUBSET SavedRoute
    BY <2>2, SavedType
  <2>4. \E ok \in BOOLEAN :
          /\ SaveRoutes(Put(routes, new), ok)
          /\ routes' = IF ok THEN Put(routes, new) ELSE routes
          /\ acked' = IF ok THEN Put(acked, new) ELSE acked
    BY <1>7 DEF AddReference, new
  <2> QED
    BY <1>7, <2>2, <2>3, <2>4 DEF AddReference, SaveRoutes, SavedRoute
<1>8. ASSUME NEW k \in Keys, NEW d \in Dests, NEW g \in Gateways,
             NEW ttl \in Ttls, AddPersist(k, d, g, ttl)
      PROVE  TypeOK'
  <2> DEFINE new == NewRoute(k, d, g, Lifetime(ttl))
  <2>1. new \in SavedRoute
    BY NewRouteType
  <2>2. Put(routes, new) \in SUBSET Route
    BY <2>1, PutType DEF SavedRoute
  <2>3. Saved(Put(routes, new)) \in SUBSET SavedRoute
    BY <2>2, SavedType
  <2> HIDE DEF new
  <2>4. \E ok \in BOOLEAN :
          /\ SaveRoutes(Put(routes, new), ok)
          /\ routes' = IF ok THEN Put(routes, new) ELSE routes
          /\ op' = IF ok THEN [pc |-> "install", route |-> new, prev |-> routes]
                         ELSE Idle
    BY <1>8 DEF AddPersist, new
  <2>5. op' \in Ops
    BY <2>1, <2>4 DEF Ops, SavedRoute
  <2> QED
    BY <1>8, <2>2, <2>3, <2>4, <2>5 DEF AddPersist, SaveRoutes, SavedRoute
<1>9. CASE AddInstall
  <2>1. op \in [pc: {"install"}, route: SavedRoute, prev: SUBSET Route]
    BY <1>9 DEF AddInstall, Ops, Idle
  <2>2. kernel' \in [Dests -> Gateways \cup {NoGateway}]
    BY <1>9, <2>1 DEF AddInstall, AddSystemRoute, Route, SavedRoute
  <2>3. Saved(op.prev) \in SUBSET SavedRoute
    BY <2>1, SavedType
  <2>4. Put(acked, op.route) \in SUBSET SavedRoute
    BY <2>1, PutType
  <2> QED
    BY <1>9, <2>1, <2>2, <2>3, <2>4 DEF AddInstall, Rollback, SaveRoutes, Ops, SavedRoute
<1>10. ASSUME NEW d \in Dests, NEW g \in Gateways, Unroute(d, g)
       PROVE  TypeOK'
  <2>1. Forget(routes, d, g) \in SUBSET Route
    BY ForgetType
  <2>2. op' \in Ops
    BY <1>10 DEF Unroute, Ops
  <2> QED
    BY <1>10, <2>1, <2>2 DEF Unroute, DeleteSystemRoute
<1>11. CASE ForgetSave
  <2>1. op \in [pc: {"forget"}, ip: Dests, gateway: Gateways, prev: SUBSET Route]
    BY <1>11 DEF ForgetSave, Ops, Idle
  <2>2. Saved(routes) \in SUBSET SavedRoute
    BY SavedType
  <2>3. Forget(acked, op.ip, op.gateway) \in SUBSET SavedRoute
    BY <2>1, ForgetType
  <2> QED
    BY <1>11, <2>1, <2>2, <2>3 DEF ForgetSave, SaveRoutes, AddSystemRoute, Ops
<1>12. CASE ScanBegin
  BY <1>12 DEF ScanBegin, Ops, Due
<1>13. ASSUME NEW r \in Route, ScanErase(r)
       PROVE  TypeOK'
  <2>1. op \in [pc: {"scan"}, todo: SUBSET Route, changed: BOOLEAN]
    BY <1>13 DEF ScanErase, Ops, Idle
  <2>2. op' \in [pc: {"scan"}, todo: SUBSET Route, changed: BOOLEAN]
    BY <1>13, <2>1 DEF ScanErase
  <2>3. kernel' \in [Dests -> Gateways \cup {NoGateway}]
    BY <1>13 DEF ScanErase, DeleteSystemRoute
  <2> QED
    BY <1>13, <2>2, <2>3 DEF ScanErase, Ops
<1>14. ASSUME NEW r \in Route, ScanKeep(r)
       PROVE  TypeOK'
  <2>1. op \in [pc: {"scan"}, todo: SUBSET Route, changed: BOOLEAN]
    BY <1>14 DEF ScanKeep, Ops, Idle
  <2>2. op' \in [pc: {"scan"}, todo: SUBSET Route, changed: BOOLEAN]
    BY <1>14, <2>1 DEF ScanKeep
  <2>3. kernel' \in [Dests -> Gateways \cup {NoGateway}]
    BY <1>14 DEF ScanKeep, DeleteSystemRoute
  <2>4. [r EXCEPT !.cool = RetryAfter] \in Route
    BY RoutesAssumption DEF Route
  <2>5. routes' \in SUBSET Route
    BY <1>14, <2>4, PutType DEF ScanKeep
  <2> QED
    BY <1>14, <2>2, <2>3, <2>5 DEF ScanKeep, Ops
<1>15. CASE ScanEnd
  BY <1>15, SavedType DEF ScanEnd, SaveRoutes, Ops
<1>16. CASE StopBegin \/ StopJoin
  BY <1>16 DEF StopBegin, StopJoin
<1>17. CASE Exit \/ Crash \/ Reboot
  BY <1>17 DEF Exit, Crash, Reboot, ProcessEnds, NoKernelRoutes, Ops
<1>18. CASE Tick
  <2>1. Age(routes) \in SUBSET Route
    BY AgeType
  <2>2. Age(disk) \in SUBSET SavedRoute /\ Age(acked) \in SUBSET SavedRoute
    BY AgeType, UnsavedType
  <2> QED
    BY <1>18, <2>1, <2>2 DEF Tick, Live
<1>19. ASSUME NEW d \in Dests, NEW g \in Gateways, OtherSets(d, g)
       PROVE  TypeOK'
  BY <1>19 DEF OtherSets
<1>20. ASSUME NEW d \in Dests, OtherClears(d)
       PROVE  TypeOK'
  BY <1>20 DEF OtherClears
<1> QED
  BY <1>0, <1>1, <1>2, <1>3, <1>4, <1>5, <1>6, <1>7, <1>8, <1>9, <1>10, <1>11,
     <1>12, <1>13, <1>14, <1>15, <1>16, <1>17, <1>18, <1>19, <1>20
     DEF Next, HolderStep, Request, Environment, Lifecycle, Remove, RemoveSystem

(* Every variable keeps to its type, whatever fails.                       *)
THEOREM TypeCorrect == Spec => []TypeOK
<1>1. Init => TypeOK
  BY RouteManagerAssumption DEF Init, TypeOK, Ops, NoKernelRoutes
<1>2. TypeOK /\ [Next]_vars => TypeOK'
  BY TypeStep
<1> QED
  BY <1>1, <1>2, PTL DEF Spec

-----------------------------------------------------------------------------
(* One gateway per destination.                                            *)

(* add: the record's destination has its gateway, or no record yet.        *)
LEMMA IsIndexPut ==
  ASSUME NEW S, IsIndex(S), NEW r, \A x \in S : x.ip = r.ip => x.gateway = r.gateway
  PROVE  IsIndex(Put(S, r))
  BY DEF IsIndex, Put

(* remove, and a part of an index in general.                              *)
LEMMA IsIndexSubset ==
  ASSUME NEW S, IsIndex(S), NEW T \in SUBSET S
  PROVE  IsIndex(T)
  BY DEF IsIndex

(* Time does not move routes.                                              *)
LEMMA IsIndexAge ==
  ASSUME NEW S \in SUBSET Route, IsIndex(S)
  PROVE  IsIndex(Age(S))
<1> SUFFICES ASSUME NEW a \in S, NEW b \in S, Older(a).ip = Older(b).ip
             PROVE  /\ Older(a).gateway = Older(b).gateway
                    /\ Older(a).key = Older(b).key => Older(a) = Older(b)
  BY DEF IsIndex, Age
<1> QED
  BY OlderType DEF IsIndex

(* Every action keeps the index and the copy kept for a rollback so.       *)
LEMMA IndexStep ==
  ASSUME TypeOK, IndexInv, [Next]_vars
  PROVE  IndexInv'
<1>0. CASE UNCHANGED vars
  BY <1>0 DEF vars, IndexInv
<1>1. CASE StartRead \/ StartUnreadable \/ Exit \/ Crash \/ Reboot
  <2>1. routes' = {} /\ op'.pc \in {"restore", "idle"}
    BY <1>1 DEF StartRead, StartUnreadable, Exit, Crash, Reboot, ProcessEnds,
                Idle, IndexInv
  <2>2. phase' = "down" => op'.pc = "idle"
    BY <1>1 DEF StartRead, StartUnreadable, Exit, Crash, Reboot, ProcessEnds, Idle
  <2> QED
    BY <2>1, <2>2 DEF IndexInv, IsIndex
<1>2. ASSUME NEW r \in Route, Restore(r)
      PROVE  IndexInv'
  <2>1. op'.pc = "restore"
    BY <1>2 DEF Restore, TypeOK, Ops, Idle
  <2>2. \/ routes' = routes
        \/ routes' = Put(routes, r) /\ \A x \in routes : x.ip = r.ip => x.gateway = r.gateway
    BY <1>2 DEF Restore
  <2>3. phase' = phase /\ op.pc = "restore"
    BY <1>2 DEF Restore
  <2> QED
    BY <2>1, <2>2, <2>3, IsIndexPut DEF IndexInv
<1>3. CASE RestoreDone \/ StartDone \/ StopBegin \/ StopJoin
  <2>1. routes' = routes /\ op'.pc \in {"clean", "idle"}
    BY <1>3 DEF RestoreDone, StartDone, StopBegin, StopJoin, Idle
  <2>2. phase' # "down"
    BY <1>3 DEF RestoreDone, StartDone, StopBegin, StopJoin, IndexInv, Idle
  <2> QED
    BY <2>1, <2>2 DEF IndexInv
<1>4. ASSUME NEW t \in Hops, Clean(t)
      PROVE  IndexInv'
  BY <1>4 DEF Clean, IndexInv, TypeOK, Ops, Idle
<1>5. ASSUME NEW k \in Keys, NEW d \in Dests, NEW g \in Gateways,
             NEW ttl \in Ttls, AddReference(k, d, g, ttl)
      PROVE  IndexInv'
  <2> DEFINE new == NewRoute(k, d, g, Lifetime(ttl))
  <2>1. new.ip = d /\ new.gateway = g
    BY DEF NewRoute
  <2> HIDE DEF new
  <2>2. routes' \in {routes, Put(routes, new)} /\ op' = Idle
    BY <1>5 DEF AddReference, new
  <2>3. \A x \in routes : x.ip = d => x.gateway = g
    BY <1>5 DEF AddReference, RoutedVia, IndexInv, IsIndex
  <2> QED
    BY <2>1, <2>2, <2>3, IsIndexPut DEF IndexInv, Idle
<1>6. ASSUME NEW k \in Keys, NEW d \in Dests, NEW g \in Gateways,
             NEW ttl \in Ttls, AddPersist(k, d, g, ttl)
      PROVE  IndexInv'
  <2> DEFINE new == NewRoute(k, d, g, Lifetime(ttl))
  <2>1. new.ip = d /\ new.gateway = g
    BY DEF NewRoute
  <2> HIDE DEF new
  <2>2. \/ routes' = routes /\ op' = Idle
        \/ /\ routes' = Put(routes, new)
           /\ op' = [pc |-> "install", route |-> new, prev |-> routes]
    BY <1>6 DEF AddPersist, new
  <2>3. (\A x \in routes : x.ip # d) /\ phase' # "down"
    BY <1>6 DEF AddPersist, Serving
  <2> QED
    BY <2>1, <2>2, <2>3, IsIndexPut DEF IndexInv, Idle
<1>7. CASE AddInstall \/ ForgetSave
  <2>1. routes' \in {routes, op.prev} /\ op' = Idle
    BY <1>7 DEF AddInstall, Rollback, ForgetSave
  <2>2. op.pc \in {"install", "forget"}
    BY <1>7 DEF AddInstall, ForgetSave
  <2> QED
    BY <2>1, <2>2 DEF IndexInv, Idle
<1>8. ASSUME NEW d \in Dests, NEW g \in Gateways, Serving, op = Idle, Unroute(d, g)
      PROVE  IndexInv'
  <2>1. \/ routes' = routes /\ op' = Idle
        \/ /\ routes' = Forget(routes, d, g)
           /\ op' = [pc |-> "forget", ip |-> d, gateway |-> g, prev |-> routes]
    BY <1>8 DEF Unroute
  <2>2. Forget(routes, d, g) \in SUBSET routes
    BY DEF Forget
  <2>3. phase' # "down"
    BY <1>8 DEF Unroute, Serving
  <2> QED
    BY <2>1, <2>2, <2>3, IsIndexSubset DEF IndexInv, Idle
<1>9. CASE ScanBegin
  BY <1>9 DEF ScanBegin, IndexInv, Due
<1>10. ASSUME NEW r \in Route, ScanErase(r)
       PROVE  IndexInv'
  <2>1. op' = [op EXCEPT !.todo = @ \ {r}, !.changed = TRUE] /\ op.pc = "scan"
    BY <1>10 DEF ScanErase
  <2>2. op'.pc = "scan" /\ op'.todo = op.todo \ {r}
    BY <2>1 DEF TypeOK, Ops, Idle
  <2>3. routes' = routes \ {r} /\ phase' = phase
    BY <1>10 DEF ScanErase
  <2> QED
    BY <2>1, <2>2, <2>3, IsIndexSubset DEF IndexInv
<1>11. ASSUME NEW r \in Route, ScanKeep(r)
       PROVE  IndexInv'
  <2> DEFINE s == [r EXCEPT !.cool = RetryAfter]
  <2>1. s.key = r.key /\ s.ip = r.ip /\ s.gateway = r.gateway
    BY DEF Route
  <2> HIDE DEF s
  <2>2. op' = [op EXCEPT !.todo = @ \ {r}] /\ op.pc = "scan" /\ r \in op.todo
    BY <1>11 DEF ScanKeep
  <2>3. op'.pc = "scan" /\ op'.todo = op.todo \ {r}
    BY <2>2 DEF TypeOK, Ops, Idle
  <2>4. routes' = (routes \ {r}) \cup {s} /\ phase' = phase
    BY <1>11 DEF ScanKeep, s
  <2>5. IsIndex((routes \ {r}) \cup {s})
    BY <2>1, <2>2 DEF IndexInv, IsIndex
  <2> QED
    BY <2>2, <2>3, <2>4, <2>5 DEF IndexInv
<1>12. CASE ScanEnd
  BY <1>12 DEF ScanEnd, IndexInv, Idle
<1>13. CASE Tick
  BY <1>13, IsIndexAge DEF Tick, IndexInv, TypeOK, Idle
<1>14. ASSUME NEW d \in Dests, OtherClears(d) \/ \E g \in Gateways : OtherSets(d, g)
       PROVE  IndexInv'
  BY <1>14 DEF OtherSets, OtherClears, IndexInv
<1> QED
  BY <1>0, <1>1, <1>2, <1>3, <1>4, <1>5, <1>6, <1>7, <1>8, <1>9, <1>10, <1>11,
     <1>12, <1>13, <1>14
     DEF Next, HolderStep, Request, Environment, Lifecycle, Remove, RemoveSystem

(* The index is a two-level map at every step, under any faults.           *)
THEOREM IndexCorrect == Spec => []IndexInv
<1>1. Init => IndexInv
  BY DEF Init, IndexInv, IsIndex, Idle
<1>2. TypeOK /\ IndexInv /\ [Next]_vars => IndexInv'
  BY IndexStep
<1> QED
  BY <1>1, <1>2, TypeCorrect, PTL DEF Spec

(* Two keys that share a destination agree on its gateway, under any       *)
(* faults: the check for conflicts in add and in load_routes_locked.       *)
THEOREM OneGatewayHolds == Spec => []OneGateway
<1>1. IndexInv => OneGateway
  BY DEF IndexInv, IsIndex, OneGateway
<1> QED
  BY <1>1, IndexCorrect, PTL

(* The worker takes a destination out of the kernel only for the last key  *)
(* that refers to it, under any faults: referenced_elsewhere in            *)
(* expire_routes.                                                          *)
THEOREM WorkerKeepsSharedHolds == Spec => WorkerKeepsShared
<1> DEFINE Keeps == \A d \in Dests : WorkerDeletes(d) =>
                      \A a, b \in routes : a.ip = d /\ b.ip = d => a = b
<1>1. ASSUME TypeOK, IndexInv, [Next]_vars
      PROVE  [Keeps]_vars
  <2> SUFFICES ASSUME NEW d \in Dests, WorkerDeletes(d)
               PROVE  \A a, b \in routes : a.ip = d /\ b.ip = d => a = b
    OBVIOUS
  <2>1. op.pc = "scan" /\ phase = "up" /\ phase' = phase /\ others' = others
    BY <1>1 DEF WorkerDeletes, IndexInv
  <2>2. kernel[d] \in Gateways /\ kernel'[d] = NoGateway
    BY <1>1 DEF WorkerDeletes, TypeOK
  <2>3. ASSUME NEW r \in Route, ScanErase(r) \/ ScanKeep(r)
        PROVE  \A a, b \in routes : a.ip = d /\ b.ip = d => a = b
    <3>1. ~ReferencedElsewhere(r) /\ r \in op.todo /\ d = r.ip
      <4>1. kernel' # kernel
        BY <2>2, RoutesAssumption
      <4>2. ~ReferencedElsewhere(r) /\ kernel' = [kernel EXCEPT ![r.ip] = NoGateway]
        BY <2>3, <4>1 DEF ScanErase, ScanKeep, DeleteSystemRoute
      <4> QED
        BY <1>1, <2>2, <2>3, <4>2, RoutesAssumption DEF ScanErase, ScanKeep, TypeOK
    <3> QED
      BY <1>1, <2>1, <3>1 DEF IndexInv, IsIndex, ReferencedElsewhere
  <2>4. ASSUME NEW e \in Dests, OtherClears(e) \/ \E g \in Gateways : OtherSets(e, g)
        PROVE  FALSE
    <3>1. kernel' # kernel /\ others' = others
      BY <2>1, <2>2, RoutesAssumption
    <3>2. CASE OtherClears(e)
      BY <1>1, <2>1, <2>2, <3>1, <3>2, RoutesAssumption DEF OtherClears, TypeOK
    <3>3. ASSUME NEW g \in Gateways, OtherSets(e, g)
          PROVE  FALSE
      BY <1>1, <2>1, <2>2, <3>1, <3>3, RoutesAssumption DEF OtherSets, TypeOK
    <3> QED
      BY <2>4, <3>2, <3>3
  <2>5. \E r \in Route : ScanErase(r) \/ ScanKeep(r)
    <3>1. kernel' # kernel
      BY <2>2, RoutesAssumption
    <3>2. Next
      BY <1>1, <3>1 DEF vars
    <3>3. \/ \E r \in Route : ScanErase(r) \/ ScanKeep(r)
          \/ \E e \in Dests : OtherClears(e) \/ \E g \in Gateways : OtherSets(e, g)
      BY <2>1, <3>1, <3>2
         DEF Next, HolderStep, Request, Environment, Lifecycle, Idle,
             StartRead, StartUnreadable, Restore, RestoreDone, Clean, StartDone,
             AddReference, AddPersist, AddInstall, Remove, RemoveSystem,
             ForgetSave, ScanBegin, ScanEnd, StopBegin, StopJoin,
             Exit, Crash, Reboot, ProcessEnds, Tick
    <3> QED
      BY <2>4, <3>3
  <2> QED
    BY <2>3, <2>5
<1> QED
  BY <1>1, TypeCorrect, IndexCorrect, PTL DEF Spec, WorkerKeepsShared

-----------------------------------------------------------------------------
(* What the index lists is in the kernel.                                  *)

(* With a loyal kernel the answers of the two calls can be believed.       *)
LEMMA LoyalAdd ==
  ASSUME LoyalKernel, NEW d, NEW g, NEW ok \in BOOLEAN, AddSystemRoute(d, g, ok)
  PROVE  /\ ok => kernel' = [kernel EXCEPT ![d] = g]
         /\ ~ok => "kernel" \in Faults /\ kernel' = kernel
  BY DEF LoyalKernel, AddSystemRoute

(* ... of a deletion too.                                                  *)
LEMMA LoyalDelete ==
  ASSUME LoyalKernel, NEW d, NEW g, NEW ok \in BOOLEAN, DeleteSystemRoute(d, g, ok)
  PROVE  /\ ok => kernel[d] = g /\ kernel' = [kernel EXCEPT ![d] = NoGateway]
         /\ ~ok => kernel' = kernel
  BY DEF LoyalKernel, DeleteSystemRoute

(* Every action pays what it owes the kernel, or still owes it.            *)
LEMMA InstalledStep ==
  ASSUME LoyalKernel, TypeOK, IndexInv, InstalledInv, [Next]_vars
  PROVE  InstalledInv'
<1> USE DEF Installed
<1>0. CASE UNCHANGED vars
  BY <1>0 DEF vars, InstalledInv
<1>1. CASE StartRead \/ StartUnreadable \/ Exit \/ Crash \/ Reboot
  <2>1. routes' = {} /\ op'.pc \in {"restore", "idle"}
    BY <1>1 DEF StartRead, StartUnreadable, Exit, Crash, Reboot, ProcessEnds,
                Idle, IndexInv
  <2> QED
    BY <2>1 DEF InstalledInv
<1>2. ASSUME NEW r \in Route, Restore(r)
      PROVE  InstalledInv'
  <2>1. op.pc = "restore" /\ op'.pc = "restore"
    BY <1>2 DEF Restore, TypeOK, Ops, Idle
  <2>2. CASE UNCHANGED <<routes, kernel>>
    BY <2>1, <2>2 DEF InstalledInv
  <2>3. CASE /\ \E x \in routes : x.ip = r.ip /\ x.gateway = r.gateway
             /\ routes' = Put(routes, r) /\ kernel' = kernel
    BY <2>1, <2>3 DEF InstalledInv, Put
  <2>4. ASSUME \A x \in routes : x.ip # r.ip, NEW ok \in BOOLEAN,
               AddSystemRoute(r.ip, r.gateway, ok),
               routes' = IF ok THEN Put(routes, r) ELSE routes
        PROVE  InstalledInv'
    <3>1. CASE ok
      <4>1. kernel' = [kernel EXCEPT ![r.ip] = r.gateway] /\ r.ip \in Dests
        BY <2>4, <3>1, LoyalAdd DEF Route
      <4>2. \A x \in routes' : x \in routes \/ x = r
        BY <2>4, <3>1 DEF Put
      <4>3. \A x \in routes' : kernel'[x.ip] = x.gateway
        BY <2>1, <2>4, <4>1, <4>2 DEF InstalledInv, TypeOK, Route
      <4> QED
        BY <2>1, <4>3 DEF InstalledInv
    <3>2. CASE ~ok
      BY <2>1, <2>4, <3>2, LoyalAdd DEF InstalledInv
    <3> QED
      BY <3>1, <3>2
  <2> QED
    BY <1>2, <2>2, <2>3, <2>4 DEF Restore
<1>3. CASE RestoreDone
  <2>1. op'.pc = "clean" /\ \A t \in op'.todo, r \in routes : r.ip # t.ip
    BY <1>3 DEF RestoreDone, ToClean
  <2>2. routes' = routes /\ kernel' = kernel /\ op.pc = "restore"
    BY <1>3 DEF RestoreDone
  <2> QED
    BY <2>1, <2>2 DEF InstalledInv
<1>4. ASSUME NEW t \in Hops, Clean(t)
      PROVE  InstalledInv'
  <2>1. op.pc = "clean" /\ op'.pc = "clean" /\ op'.todo = op.todo \ {t}
    BY <1>4 DEF Clean, TypeOK, Ops, Idle
  <2>2. routes' = routes /\ t \in op.todo /\ t.ip \in Dests
    BY <1>4 DEF Clean, Hops
  <2>3. kernel' = kernel \/ kernel' = [kernel EXCEPT ![t.ip] = NoGateway]
    BY <1>4, LoyalDelete DEF Clean
  <2> QED
    BY <2>1, <2>2, <2>3 DEF InstalledInv, TypeOK, Route
<1>5. CASE StartDone \/ StopBegin \/ StopJoin \/ ScanEnd
  BY <1>5 DEF StartDone, StopBegin, StopJoin, ScanEnd, InstalledInv, Idle
<1>6. ASSUME NEW k \in Keys, NEW d \in Dests, NEW g \in Gateways,
             NEW ttl \in Ttls, AddReference(k, d, g, ttl)
      PROVE  InstalledInv'
  <2> DEFINE new == NewRoute(k, d, g, Lifetime(ttl))
  <2>1. new.ip = d /\ new.gateway = g
    BY DEF NewRoute
  <2> HIDE DEF new
  <2>2. routes' \in {routes, Put(routes, new)} /\ op = Idle /\ op' = Idle
    BY <1>6 DEF AddReference, new
  <2>3. kernel' = kernel /\ kernel[d] = g
    BY <1>6, <2>2 DEF AddReference, RoutedVia, InstalledInv, Idle
  <2> QED
    BY <2>1, <2>2, <2>3 DEF InstalledInv, Put, Idle
<1>7. ASSUME NEW k \in Keys, NEW d \in Dests, NEW g \in Gateways,
             NEW ttl \in Ttls, AddPersist(k, d, g, ttl)
      PROVE  InstalledInv'
  <2> DEFINE new == NewRoute(k, d, g, Lifetime(ttl))
  <2>1. new.ip = d /\ new.gateway = g
    BY DEF NewRoute
  <2> HIDE DEF new
  <2>2. \/ routes' = routes /\ op' = Idle
        \/ /\ routes' = Put(routes, new)
           /\ op' = [pc |-> "install", route |-> new, prev |-> routes]
    BY <1>7 DEF AddPersist, new
  <2>3. kernel' = kernel /\ op = Idle /\ \A r \in routes : r.ip # d
    BY <1>7 DEF AddPersist
  <2> QED
    BY <2>1, <2>2, <2>3 DEF InstalledInv, Put, Idle
<1>8. CASE AddInstall
  <2>1. op \in [pc: {"install"}, route: SavedRoute, prev: SUBSET Route]
    BY <1>8 DEF AddInstall, TypeOK, Ops, Idle
  <2>2. op' = Idle
    BY <1>8 DEF AddInstall
  <2>3. PICK ok \in BOOLEAN : /\ AddSystemRoute(op.route.ip, op.route.gateway, ok)
                              /\ routes' = IF ok THEN routes ELSE op.prev
    BY <1>8 DEF AddInstall, Rollback
  <2>4. CASE ok
    <3>1. /\ kernel' = [kernel EXCEPT ![op.route.ip] = op.route.gateway]
          /\ op.route.ip \in Dests
      BY <2>1, <2>3, <2>4, LoyalAdd DEF SavedRoute, Route
    <3>2. \A x \in routes' : x \in op.prev \/ x = op.route
      BY <2>1, <2>3, <2>4 DEF InstalledInv
    <3>3. \A x \in routes' : kernel'[x.ip] = x.gateway
      BY <2>1, <3>1, <3>2 DEF InstalledInv, TypeOK, Route
    <3> QED
      BY <2>2, <3>3 DEF InstalledInv, Idle
  <2>5. CASE ~ok
    BY <2>1, <2>2, <2>3, <2>5, LoyalAdd DEF InstalledInv, Idle
  <2> QED
    BY <2>4, <2>5
<1>9. ASSUME NEW d \in Dests, NEW g \in Gateways, op = Idle, Unroute(d, g)
      PROVE  InstalledInv'
  <2>1. PICK ok \in BOOLEAN :
          /\ DeleteSystemRoute(d, g, ok)
          /\ routes' = IF ok THEN Forget(routes, d, g) ELSE routes
          /\ op' = IF ok THEN [pc |-> "forget", ip |-> d, gateway |-> g,
                               prev |-> routes]
                         ELSE Idle
    BY <1>9 DEF Unroute
  <2>2. \A r \in routes : Installed(r)
    BY <1>9 DEF InstalledInv, Idle
  <2>3. CASE ok
    <3>1. kernel[d] = g /\ kernel' = [kernel EXCEPT ![d] = NoGateway]
      BY <2>1, <2>3, LoyalDelete
    <3>2. /\ routes' = Forget(routes, d, g)
          /\ op' = [pc |-> "forget", ip |-> d, gateway |-> g, prev |-> routes]
      BY <2>1, <2>3
    <3>3. \A r \in routes : \/ r.ip # d /\ kernel'[r.ip] = r.gateway
                            \/ r.ip = d /\ r.gateway = g
      BY <2>2, <3>1 DEF TypeOK, Route
    <3>4. \A r \in routes' : kernel'[r.ip] = r.gateway
      BY <3>2, <3>3 DEF Forget
    <3>5. kernel'[d] = NoGateway
      BY <3>1 DEF TypeOK
    <3> QED
      BY <3>2, <3>3, <3>4, <3>5 DEF InstalledInv
  <2>4. CASE ~ok
    BY <2>1, <2>2, <2>4, LoyalDelete DEF InstalledInv, Idle
  <2> QED
    BY <2>3, <2>4
<1>10. CASE ForgetSave
  <2>1. op \in [pc: {"forget"}, ip: Dests, gateway: Gateways, prev: SUBSET Route]
    BY <1>10 DEF ForgetSave, TypeOK, Ops, Idle
  <2>2. op' = Idle
    BY <1>10 DEF ForgetSave
  <2>3. CASE UNCHANGED <<routes, kernel>>
    BY <2>1, <2>2, <2>3 DEF InstalledInv, Idle
  <2>4. ASSUME "write" \in Faults, routes' = op.prev, NEW ok \in BOOLEAN,
               AddSystemRoute(op.ip, op.gateway, ok)
        PROVE  InstalledInv'
    <3>1. kernel' = [kernel EXCEPT ![op.ip] = op.gateway]
      BY <2>4, LoyalAdd DEF LoyalKernel
    <3> QED
      BY <2>1, <2>2, <2>4, <3>1 DEF InstalledInv, TypeOK, Idle, Route
  <2> QED
    BY <1>10, <2>3, <2>4 DEF ForgetSave, SaveRoutes
<1>11. CASE ScanBegin
  BY <1>11 DEF ScanBegin, InstalledInv, Idle
<1>12. ASSUME NEW r \in Route, ScanErase(r)
       PROVE  InstalledInv'
  <2>1. op.pc = "scan" /\ op'.pc = "scan" /\ r \in routes
    BY <1>12 DEF ScanErase, TypeOK, Ops, Idle, IndexInv
  <2>2. routes' = routes \ {r}
    BY <1>12 DEF ScanErase
  <2>3. CASE kernel' = kernel
    BY <2>1, <2>2, <2>3 DEF InstalledInv
  <2>4. CASE /\ ~ReferencedElsewhere(r)
             /\ kernel' = [kernel EXCEPT ![r.ip] = NoGateway]
    <3>1. \A x \in routes : x.ip = r.ip => x = r
      BY <2>1, <2>4 DEF ReferencedElsewhere, IndexInv, IsIndex
    <3> QED
      BY <2>1, <2>2, <2>4, <3>1 DEF InstalledInv, TypeOK, Route
  <2> QED
    BY <1>12, <2>3, <2>4 DEF ScanErase, DeleteSystemRoute
<1>13. ASSUME NEW r \in Route, ScanKeep(r)
       PROVE  InstalledInv'
  <2> DEFINE s == [r EXCEPT !.cool = RetryAfter]
  <2>1. s.ip = r.ip /\ s.gateway = r.gateway
    BY DEF Route
  <2> HIDE DEF s
  <2>2. op.pc = "scan" /\ op'.pc = "scan" /\ r \in routes
    BY <1>13 DEF ScanKeep, TypeOK, Ops, Idle, IndexInv
  <2>3. routes' = (routes \ {r}) \cup {s}
    BY <1>13 DEF ScanKeep, s
  <2>4. kernel' = kernel
    BY <1>13, LoyalDelete DEF ScanKeep
  <2> QED
    BY <2>1, <2>2, <2>3, <2>4 DEF InstalledInv
<1>14. CASE Tick
  <2>1. \A r \in Age(routes) : \E x \in routes : r.ip = x.ip /\ r.gateway = x.gateway
    BY OlderType DEF Age, TypeOK
  <2> QED
    BY <1>14, <2>1 DEF Tick, InstalledInv, Idle
<1>15. ASSUME NEW d \in Dests, OtherClears(d) \/ \E g \in Gateways : OtherSets(d, g)
       PROVE  InstalledInv'
  BY <1>15 DEF OtherSets, OtherClears, LoyalKernel
<1> QED
  BY <1>0, <1>1, <1>2, <1>3, <1>4, <1>5, <1>6, <1>7, <1>8, <1>9, <1>10, <1>11,
     <1>12, <1>13, <1>14, <1>15
     DEF Next, HolderStep, Request, Environment, Lifecycle, Remove, RemoveSystem

(* Between two operations every managed route is in the kernel, as long as *)
(* the kernel's answers can be believed and a save and a kernel call do    *)
(* not both fail: the order of the two writes in add, remove and           *)
(* load_routes_locked, and their rollbacks.                                *)
THEOREM ManagedInstalledHolds ==
  ASSUME LoyalKernel
  PROVE  Spec => []ManagedInstalled
<1>1. Init => InstalledInv
  BY DEF Init, InstalledInv, Idle
<1>2. TypeOK /\ IndexInv /\ InstalledInv /\ [Next]_vars => InstalledInv'
  BY InstalledStep
<1>3. InstalledInv => ManagedInstalled
  BY DEF InstalledInv, ManagedInstalled, AtRest, Installed, Idle
<1> QED
  BY <1>1, <1>2, <1>3, TypeCorrect, IndexCorrect, PTL DEF Spec

-----------------------------------------------------------------------------
(* What the kernel has is in routes.db, and between operations in the      *)
(* index.                                                                  *)

(* If the disk and the process are all that fails, the kernel is loyal.    *)
LEMMA CrashLoyal ==
  ASSUME CrashFaults
  PROVE  LoyalKernel /\ "kernel" \notin Faults /\ "read" \notin Faults
  BY DEF CrashFaults, LoyalKernel

(* Saving, ageing: destinations and gateways stay.                         *)
LEMMA SavedHops ==
  ASSUME NEW S \in SUBSET Route, NEW r \in S
  PROVE  \E x \in Saved(S) : x.ip = r.ip /\ x.gateway = r.gateway
<1> DEFINE x == [r EXCEPT !.cool = 0]
<1>1. x \in Saved(S)
  BY DEF Saved
<1>2. x.ip = r.ip /\ x.gateway = r.gateway
  BY DEF Route
<1> QED
  BY <1>1, <1>2

(* ... and so does a tick.                                                 *)
LEMMA AgeHops ==
  ASSUME NEW S \in SUBSET Route, NEW r \in S
  PROVE  \E x \in Age(S) : x.ip = r.ip /\ x.gateway = r.gateway
<1>1. Older(r) \in Age(S)
  BY DEF Age
<1> QED
  BY <1>1, OlderType

(* A save of an index that owns the whole kernel keeps the file ahead.     *)
LEMMA SaveRecords ==
  ASSUME TypeOK, NEW S \in SUBSET Route, NEW ok \in BOOLEAN, SaveRoutes(S, ok),
         KernelRecorded, kernel' = kernel,
         \A d \in Dests : kernel[d] # NoGateway => Names(S, d)
  PROVE  KernelRecorded'
<1>1. CASE ok
  BY <1>1, SavedHops DEF SaveRoutes, KernelRecorded, Names
<1>2. CASE ~ok
  BY <1>2 DEF SaveRoutes, KernelRecorded
<1> QED
  BY <1>1, <1>2

(* The steps of start.                                                     *)
LEMMA RecordStartStep ==
  ASSUME CrashFaults, TypeOK, IndexInv, InstalledInv, RecordInv,
         \/ StartRead \/ StartUnreadable \/ RestoreDone \/ StartDone
         \/ \E r \in Route : Restore(r)
         \/ \E t \in Hops : Clean(t)
  PROVE  RecordInv'
<1> USE DEF Names
<1>1. CASE StartRead
  <2>1. /\ op'.pc = "restore" /\ op'.todo = Live(disk) /\ phase' = "starting"
        /\ routes' = {} /\ disk' = disk /\ kernel' = kernel
    BY <1>1 DEF StartRead
  <2>2. \A r \in disk : r \in Live(disk) \/ Expired(r)
    BY DEF Live
  <2> QED
    BY <2>1, <2>2 DEF RecordInv, KernelRecorded, Serving, Live
<1>2. CASE StartUnreadable
  BY <1>2, CrashLoyal DEF StartUnreadable
<1>3. CASE RestoreDone
  <2>1. op'.pc = "clean" /\ op'.todo = ToClean /\ op.pc = "restore" /\ op.todo = {}
    BY <1>3 DEF RestoreDone
  <2>2. UNCHANGED <<phase, routes, disk, kernel>> /\ phase = "starting"
    BY <1>3 DEF RestoreDone, RecordInv
  <2>3. ASSUME NEW d \in Dests, kernel[d] # NoGateway
        PROVE  Names(routes, d) \/ [ip |-> d, gateway |-> kernel[d]] \in ToClean
    BY <2>1, <2>3 DEF RecordInv, ToClean
  <2> QED
    BY <2>1, <2>2, <2>3 DEF RecordInv, KernelRecorded, Serving
<1>4. CASE StartDone
  <2>1. op.pc = "clean" /\ op.todo = {} /\ phase' = "up" /\ op' = Idle
    BY <1>4 DEF StartDone
  <2>2. \A d \in Dests : kernel[d] # NoGateway => Names(routes, d)
    BY <2>1 DEF RecordInv
  <2>3. kernel' = kernel /\ routes' = routes
    BY <1>4 DEF StartDone
  <2>4. KernelRecorded'
    <3>1. disk' = disk \/ \E ok \in BOOLEAN : SaveRoutes(routes, ok)
      BY <1>4 DEF StartDone
    <3> QED
      BY <2>2, <2>3, <3>1, SaveRecords DEF RecordInv, KernelRecorded, TypeOK
  <2> QED
    BY <2>1, <2>2, <2>3, <2>4 DEF RecordInv, Idle
<1>5. ASSUME NEW r \in Route, Restore(r)
      PROVE  RecordInv'
  <2>1. /\ op.pc = "restore" /\ op'.pc = "restore" /\ r \in op.todo
        /\ op'.todo = op.todo \ {r}
    <3>1. op.pc = "restore" /\ r \in op.todo
      BY <1>5 DEF Restore
    <3>2. op \in [pc: {"restore"}, todo: SUBSET Route, failed: BOOLEAN]
      BY <3>1 DEF TypeOK, Ops, Idle
    <3>3. \/ op' = [op EXCEPT !.todo = @ \ {r}]
          \/ \E f : op' = [op EXCEPT !.todo = @ \ {r}, !.failed = f]
      BY <1>5, Zenon DEF Restore
    <3> QED
      BY <3>1, <3>2, <3>3
  <2>2. phase = "starting" /\ phase' = "starting" /\ disk' = disk
    BY <1>5, <2>1 DEF Restore, RecordInv
  <2>3. r \in disk /\ op'.todo \subseteq disk /\ r.ip \in Dests
    BY <2>1 DEF RecordInv, Route
  <2> DEFINE Answered(d) ==
        \/ Names(routes, d)
        \/ /\ \A x \in routes : x.ip # d
           /\ Names(op.todo \cup {x \in disk : Expired(x)}, d)
  <2>4. \A d \in Dests : kernel[d] # NoGateway => Answered(d)
    BY <2>1 DEF RecordInv
  <2>5. SUFFICES KernelRecorded' /\ \A d \in Dests : kernel'[d] # NoGateway => Answered(d)'
    BY <2>1, <2>2, <2>3 DEF RecordInv, Serving
  <2>6. CASE (\E x \in routes : x.ip = r.ip) /\ UNCHANGED <<routes, kernel>>
    BY <2>1, <2>2, <2>4, <2>6 DEF RecordInv, KernelRecorded
  <2>7. CASE /\ \E x \in routes : x.ip = r.ip
             /\ \A x \in routes : x.ip = r.ip => x.gateway = r.gateway
             /\ routes' = Put(routes, r) /\ kernel' = kernel
    <3>1. \A x \in routes : x \in routes' \/ (x.ip = r.ip /\ x.gateway = r.gateway)
      BY <2>7 DEF Put
    <3>2. r \in routes' /\ \A x \in routes' : x \in routes \/ x = r
      BY <2>7 DEF Put
    <3> QED
      BY <2>1, <2>2, <2>4, <2>7, <3>1, <3>2 DEF RecordInv, KernelRecorded
  <2>8. CASE /\ \A x \in routes : x.ip # r.ip
             /\ routes' = Put(routes, r)
             /\ kernel' = [kernel EXCEPT ![r.ip] = r.gateway]
    <3>1. \A x \in routes : x \in routes'
      BY <2>8 DEF Put
    <3>2. r \in routes' /\ \A x \in routes' : x \in routes \/ x = r
      BY <2>8 DEF Put
    <3>3. kernel'[r.ip] = r.gateway /\ \A d \in Dests : d # r.ip => kernel'[d] = kernel[d]
      BY <2>3, <2>8 DEF TypeOK
    <3> QED
      BY <2>1, <2>2, <2>3, <2>4, <3>1, <3>2, <3>3 DEF RecordInv, KernelRecorded
  <2>9. ASSUME \A x \in routes : x.ip # r.ip, NEW ok \in BOOLEAN,
               AddSystemRoute(r.ip, r.gateway, ok),
               routes' = IF ok THEN Put(routes, r) ELSE routes
        PROVE  KernelRecorded' /\ \A d \in Dests : kernel'[d] # NoGateway => Answered(d)'
    <3>1. ok /\ kernel' = [kernel EXCEPT ![r.ip] = r.gateway]
      BY <2>9, LoyalAdd, CrashLoyal
    <3> QED
      BY <2>8, <2>9, <3>1
  <2> HIDE DEF Answered
  <2> QED
    BY <1>5, <2>6, <2>7, <2>9 DEF Restore
<1>6. ASSUME NEW t \in Hops, Clean(t)
      PROVE  RecordInv'
  <2>1. /\ op.pc = "clean" /\ op'.pc = "clean" /\ op'.todo = op.todo \ {t}
        /\ t.ip \in Dests
    BY <1>6 DEF Clean, TypeOK, Ops, Idle, Hops
  <2>2. UNCHANGED <<phase, routes, disk>> /\ phase = "starting"
    BY <1>6, <2>1 DEF Clean, RecordInv
  <2>3. \/ kernel' = kernel /\ kernel[t.ip] # t.gateway
        \/ kernel' = [kernel EXCEPT ![t.ip] = NoGateway]
    BY <1>6, CrashLoyal DEF Clean, DeleteSystemRoute, LoyalKernel
  <2>4. \A d \in Dests : kernel'[d] # NoGateway =>
          kernel'[d] = kernel[d] /\ t # [ip |-> d, gateway |-> kernel[d]]
    BY <2>1, <2>3 DEF TypeOK
  <2> QED
    BY <2>1, <2>2, <2>4 DEF RecordInv, KernelRecorded, Serving
<1> QED
  BY <1>1, <1>2, <1>3, <1>4, <1>5, <1>6

(* The steps of the handlers.                                              *)
LEMMA RecordRequestStep ==
  ASSUME CrashFaults, TypeOK, IndexInv, InstalledInv, RecordInv,
         Request \/ AddInstall \/ ForgetSave
  PROVE  RecordInv'
<1> USE DEF Names
<1>1. ASSUME NEW k \in Keys, NEW d \in Dests, NEW g \in Gateways,
             NEW ttl \in Ttls, AddReference(k, d, g, ttl)
      PROVE  RecordInv'
  <2> DEFINE new == NewRoute(k, d, g, Lifetime(ttl))
  <2>1. new.ip = d /\ new.gateway = g /\ new \in Route
    BY NewRouteType DEF NewRoute, SavedRoute
  <2> HIDE DEF new
  <2>2. op = Idle /\ op' = Idle /\ Serving /\ phase' = phase /\ kernel' = kernel
    BY <1>1 DEF AddReference
  <2>3. PICK ok \in BOOLEAN : /\ SaveRoutes(Put(routes, new), ok)
                              /\ routes' = IF ok THEN Put(routes, new) ELSE routes
    BY <1>1 DEF AddReference, new
  <2>4. \A x \in routes : x.ip = d => x.gateway = g
    BY <1>1 DEF AddReference, RoutedVia, IndexInv, IsIndex
  <2>5. \A e \in Dests : kernel[e] # NoGateway => Names(routes, e)
    BY <2>2 DEF RecordInv, Idle
  <2>6. \A e \in Dests : kernel[e] # NoGateway => Names(Put(routes, new), e)
    BY <2>1, <2>4, <2>5 DEF Put
  <2>7. Put(routes, new) \in SUBSET Route
    BY <2>1, PutType DEF TypeOK
  <2>8. KernelRecorded'
    BY <2>2, <2>3, <2>6, <2>7, SaveRecords DEF RecordInv
  <2> QED
    BY <2>2, <2>3, <2>5, <2>6, <2>8 DEF RecordInv, Idle, Serving
<1>2. ASSUME NEW k \in Keys, NEW d \in Dests, NEW g \in Gateways,
             NEW ttl \in Ttls, AddPersist(k, d, g, ttl)
      PROVE  RecordInv'
  <2> DEFINE new == NewRoute(k, d, g, Lifetime(ttl))
  <2>1. new.ip = d /\ new.gateway = g /\ new \in SavedRoute
    BY NewRouteType DEF NewRoute
  <2> HIDE DEF new
  <2>2. op = Idle /\ Serving /\ phase' = phase /\ kernel' = kernel
    BY <1>2 DEF AddPersist
  <2>3. PICK ok \in BOOLEAN :
          /\ SaveRoutes(Put(routes, new), ok)
          /\ routes' = IF ok THEN Put(routes, new) ELSE routes
          /\ op' = IF ok THEN [pc |-> "install", route |-> new, prev |-> routes]
                         ELSE Idle
    BY <1>2 DEF AddPersist, new
  <2>4. \A x \in routes : x.ip # d
    BY <1>2 DEF AddPersist
  <2>5. routes \subseteq Put(routes, new) /\ new \in Put(routes, new)
    BY <2>1, <2>4 DEF Put
  <2>6. \A e \in Dests : kernel[e] # NoGateway => Names(routes, e)
    BY <2>2 DEF RecordInv, Idle
  <2>7. \A e \in Dests : kernel[e] # NoGateway => Names(Put(routes, new), e)
    BY <2>5, <2>6
  <2>8. Put(routes, new) \in SUBSET Route
    BY <2>1, PutType DEF TypeOK, SavedRoute
  <2>9. KernelRecorded'
    BY <2>2, <2>3, <2>7, <2>8, SaveRecords DEF RecordInv
  <2>10. CASE ok
    <3>1. new \in disk'
      <4>1. new = [new EXCEPT !.cool = 0]
        BY <2>1 DEF SavedRoute, Route
      <4> QED
        BY <2>3, <2>5, <2>10, <4>1 DEF SaveRoutes, Saved
    <3> QED
      BY <2>2, <2>3, <2>5, <2>6, <2>9, <2>10, <3>1 DEF RecordInv, Idle, Serving
  <2>11. CASE ~ok
    BY <2>2, <2>3, <2>6, <2>9, <2>11 DEF RecordInv, Idle, Serving
  <2> QED
    BY <2>10, <2>11
<1>3. CASE AddInstall
  <2>1. op \in [pc: {"install"}, route: SavedRoute, prev: SUBSET Route]
    BY <1>3 DEF AddInstall, TypeOK, Ops, Idle
  <2>2. op' = Idle /\ phase' = phase
    BY <1>3 DEF AddInstall
  <2>3. PICK ok \in BOOLEAN : /\ AddSystemRoute(op.route.ip, op.route.gateway, ok)
                              /\ ok => UNCHANGED <<routes, disk>>
    BY <1>3 DEF AddInstall
  <2>4. /\ kernel' = [kernel EXCEPT ![op.route.ip] = op.route.gateway]
        /\ UNCHANGED <<routes, disk>>
    BY <2>3, LoyalAdd, CrashLoyal
  <2>5. op.route \in disk /\ op.route \in routes /\ op.prev \subseteq routes
    BY <2>1 DEF RecordInv
  <2>6. \A e \in Dests : kernel'[e] # NoGateway =>
          \/ e = op.route.ip /\ kernel'[e] = op.route.gateway
          \/ kernel'[e] = kernel[e]
    BY <2>4 DEF TypeOK
  <2>7. \A e \in Dests : kernel'[e] # NoGateway => Names(routes, e)'
    <3> SUFFICES ASSUME NEW e \in Dests, kernel'[e] # NoGateway
                 PROVE  \E r \in routes : r.ip = e /\ r.gateway = kernel'[e]
      BY <2>4
    <3>1. CASE e = op.route.ip /\ kernel'[e] = op.route.gateway
      BY <2>5, <3>1
    <3>2. CASE kernel'[e] = kernel[e]
      <4>1. Names(op.prev, e)
        BY <2>1, <3>2 DEF RecordInv
      <4> QED
        BY <2>5, <3>2, <4>1
    <3> QED
      BY <2>6, <3>1, <3>2
  <2>8. KernelRecorded'
    BY <2>4, <2>5, <2>6 DEF RecordInv, KernelRecorded
  <2>9. phase # "starting" /\ phase # "down"
    BY <2>1 DEF RecordInv, IndexInv
  <2> QED
    BY <2>2, <2>7, <2>8, <2>9 DEF RecordInv, Idle
<1>4. ASSUME NEW d \in Dests, NEW g \in Gateways, op = Idle, Serving, Unroute(d, g),
             \/ kernel[d] = g
             \/ \E r \in routes : r.ip = d /\ r.gateway = g
      PROVE  RecordInv'
  <2>1. PICK ok \in BOOLEAN :
          /\ DeleteSystemRoute(d, g, ok)
          /\ routes' = IF ok THEN Forget(routes, d, g) ELSE routes
          /\ op' = IF ok THEN [pc |-> "forget", ip |-> d, gateway |-> g,
                               prev |-> routes]
                         ELSE Idle
    BY <1>4 DEF Unroute
  <2>2. phase' = phase /\ disk' = disk /\ phase # "starting"
    BY <1>4 DEF Unroute, Serving
  <2>3. \A e \in Dests : kernel[e] # NoGateway => Names(routes, e)
    BY <1>4 DEF RecordInv, Idle
  <2>4. CASE ok
    <3>1. kernel[d] = g /\ kernel' = [kernel EXCEPT ![d] = NoGateway]
      BY <2>1, <2>4, LoyalDelete, CrashLoyal
    <3>2. \A e \in Dests : kernel'[e] # NoGateway => e # d /\ kernel'[e] = kernel[e]
      BY <3>1 DEF TypeOK
    <3>3. routes' = Forget(routes, d, g)
      BY <2>1, <2>4
    <3>4. \A e \in Dests : kernel'[e] # NoGateway => Names(routes, e)'
      BY <2>3, <3>2, <3>3 DEF Forget
    <3>5. KernelRecorded'
      BY <2>2, <3>2 DEF RecordInv, KernelRecorded
    <3>6. Names(routes, d) /\ \E r \in disk : r.ip = d /\ r.gateway = g
      BY <2>3, <3>1, RoutesAssumption DEF RecordInv, KernelRecorded
    <3>7. routes' \subseteq routes
      BY <3>3 DEF Forget
    <3>8. op'.pc = "forget" /\ op'.ip = d /\ op'.gateway = g /\ op'.prev = routes
      BY <2>1, <2>4
    <3> QED
      BY <1>4, <2>2, <3>1, <3>4, <3>5, <3>6, <3>7, <3>8 DEF RecordInv, Serving
  <2>5. CASE ~ok
    <3>1. kernel' = kernel /\ routes' = routes /\ op' = Idle
      BY <2>1, <2>5, LoyalDelete, CrashLoyal
    <3> QED
      BY <1>4, <2>2, <2>3, <3>1 DEF RecordInv, KernelRecorded, Idle, Serving
  <2> QED
    BY <2>4, <2>5
<1>5. CASE ForgetSave
  <2>1. op \in [pc: {"forget"}, ip: Dests, gateway: Gateways, prev: SUBSET Route]
    BY <1>5 DEF ForgetSave, TypeOK, Ops, Idle
  <2>2. op' = Idle /\ phase' = phase
    BY <1>5 DEF ForgetSave
  <2>3. phase # "starting" /\ phase # "down" /\ Serving
    BY <2>1 DEF RecordInv, IndexInv, Serving, TypeOK
  <2>4. \A e \in Dests : kernel[e] # NoGateway => Names(routes, e)
    BY <2>1, <2>3 DEF RecordInv
  <2>5. CASE SaveRoutes(routes, TRUE) /\ UNCHANGED <<routes, kernel>>
    <3>1. KernelRecorded'
      BY <2>4, <2>5, SaveRecords DEF RecordInv, TypeOK
    <3> QED
      BY <2>2, <2>3, <2>4, <2>5, <3>1 DEF RecordInv, Idle
  <2>6. ASSUME disk' = disk, routes' = op.prev, NEW ok \in BOOLEAN,
               AddSystemRoute(op.ip, op.gateway, ok)
        PROVE  RecordInv'
    <3>1. kernel' = [kernel EXCEPT ![op.ip] = op.gateway]
      BY <2>6, LoyalAdd, CrashLoyal
    <3>2. \A e \in Dests : kernel'[e] # NoGateway =>
            \/ e = op.ip /\ kernel'[e] = op.gateway
            \/ kernel'[e] = kernel[e]
      BY <3>1 DEF TypeOK
    <3>3. /\ routes \subseteq op.prev
          /\ \E r \in disk : r.ip = op.ip /\ r.gateway = op.gateway
          /\ \E r \in op.prev : r.ip = op.ip /\ r.gateway = op.gateway
      BY <2>1 DEF RecordInv
    <3>4. \A e \in Dests : kernel'[e] # NoGateway => Names(routes, e)'
      BY <2>4, <2>6, <3>2, <3>3
    <3>5. KernelRecorded'
      BY <2>6, <3>2, <3>3 DEF RecordInv, KernelRecorded
    <3> QED
      BY <2>2, <2>3, <3>4, <3>5 DEF RecordInv, Idle
  <2> QED
    BY <1>5, <2>5, <2>6 DEF ForgetSave, SaveRoutes
<1> QED
  BY <1>1, <1>2, <1>3, <1>4, <1>5 DEF Request, Remove, RemoveSystem, Listed

(* The worker, the clock and the ends of a process.                        *)
LEMMA RecordOtherStep ==
  ASSUME CrashFaults, TypeOK, IndexInv, InstalledInv, RecordInv,
         \/ ScanBegin \/ ScanEnd \/ StopBegin \/ StopJoin
         \/ Exit \/ Crash \/ Reboot \/ Tick
         \/ \E r \in Route : ScanErase(r) \/ ScanKeep(r)
  PROVE  RecordInv'
<1> USE DEF Names
<1>1. CASE ScanBegin \/ StopBegin \/ StopJoin
  <2>1. UNCHANGED <<routes, disk, kernel>> /\ op = Idle /\ op'.pc \in {"scan", "idle"}
    BY <1>1 DEF ScanBegin, StopBegin, StopJoin, Idle
  <2>2. Serving /\ Serving' /\ phase' \notin {"starting", "down"}
    BY <1>1 DEF ScanBegin, StopBegin, StopJoin, Serving
  <2> QED
    BY <2>1, <2>2 DEF RecordInv, KernelRecorded, Idle
<1>2. CASE ScanEnd
  <2>1. op.pc = "scan" /\ phase = "up" /\ Serving
    BY <1>2 DEF ScanEnd, IndexInv, Serving
  <2>2. op' = Idle /\ UNCHANGED <<phase, routes, kernel>>
    BY <1>2 DEF ScanEnd
  <2>3. \A e \in Dests : kernel[e] # NoGateway => Names(routes, e)
    BY <2>1 DEF RecordInv
  <2>4. KernelRecorded'
    <3>1. disk' = disk \/ \E ok \in BOOLEAN : SaveRoutes(routes, ok)
      BY <1>2 DEF ScanEnd
    <3> QED
      BY <2>2, <2>3, <3>1, SaveRecords DEF RecordInv, KernelRecorded, TypeOK
  <2> QED
    BY <2>1, <2>2, <2>3, <2>4 DEF RecordInv, Idle, Serving
<1>3. CASE Exit \/ Crash \/ Reboot
  <2>1. phase' = "down" /\ op'.pc = "idle" /\ disk' = disk
    BY <1>3 DEF Exit, Crash, Reboot, ProcessEnds, Idle
  <2>2. kernel' = kernel \/ kernel' = NoKernelRoutes
    BY <1>3 DEF Exit, Crash, Reboot
  <2> QED
    BY <2>1, <2>2 DEF RecordInv, KernelRecorded, Serving, NoKernelRoutes
<1>4. CASE Tick
  <2>1. /\ op = Idle /\ op' = Idle /\ phase' = phase /\ kernel' = kernel
        /\ routes' = Age(routes) /\ disk' = Age(disk)
    BY <1>4 DEF Tick
  <2>2. KernelRecorded'
    BY <2>1, AgeHops DEF RecordInv, KernelRecorded, TypeOK, SavedRoute
  <2>3. \A e \in Dests : Serving /\ kernel[e] # NoGateway => Names(routes, e)'
    BY <2>1, AgeHops DEF RecordInv, TypeOK, Idle
  <2> QED
    BY <2>1, <2>2, <2>3 DEF RecordInv, Idle, Serving
<1>5. ASSUME NEW r \in Route, ScanErase(r) \/ ScanKeep(r)
      PROVE  RecordInv'
  <2>1. op.pc = "scan" /\ phase = "up" /\ Serving /\ r \in routes
    BY <1>5 DEF ScanErase, ScanKeep, IndexInv, Serving
  <2>2. op'.pc = "scan" /\ UNCHANGED <<phase, disk>>
    BY <1>5 DEF ScanErase, ScanKeep, TypeOK, Ops, Idle
  <2>3. \A e \in Dests : kernel[e] # NoGateway => Names(routes, e)
    BY <2>1 DEF RecordInv
  <2>4. SUFFICES KernelRecorded' /\ \A e \in Dests : kernel'[e] # NoGateway => Names(routes, e)'
    BY <2>1, <2>2 DEF RecordInv
  <2>5. CASE ScanErase(r) /\ ReferencedElsewhere(r)
    <3>1. routes' = routes \ {r} /\ kernel' = kernel
      BY <1>5, <2>5 DEF ScanErase
    <3>2. PICK x \in routes : x.key # r.key /\ x.ip = r.ip
      BY <2>5 DEF ReferencedElsewhere
    <3>3. x \in routes' /\ x.gateway = r.gateway
      BY <2>1, <3>1, <3>2 DEF IndexInv, IsIndex
    <3> QED
      BY <2>2, <2>3, <3>1, <3>2, <3>3 DEF RecordInv, KernelRecorded
  <2>6. CASE ScanErase(r) /\ ~ReferencedElsewhere(r)
    <3>1. routes' = routes \ {r} /\ kernel' = [kernel EXCEPT ![r.ip] = NoGateway]
      BY <2>6, LoyalDelete, CrashLoyal DEF ScanErase
    <3>2. \A e \in Dests : kernel'[e] # NoGateway => e # r.ip /\ kernel'[e] = kernel[e]
      BY <3>1 DEF TypeOK
    <3> QED
      BY <2>2, <2>3, <3>1, <3>2 DEF RecordInv, KernelRecorded
  <2>7. CASE ScanKeep(r)
    <3> DEFINE s == [r EXCEPT !.cool = RetryAfter]
    <3>1. s.ip = r.ip /\ s.gateway = r.gateway
      BY DEF Route
    <3> HIDE DEF s
    <3>2. routes' = (routes \ {r}) \cup {s} /\ kernel' = kernel
      BY <2>7, LoyalDelete, CrashLoyal DEF ScanKeep, s
    <3> QED
      BY <2>2, <2>3, <3>1, <3>2 DEF RecordInv, KernelRecorded
  <2> QED
    BY <1>5, <2>5, <2>6, <2>7
<1> QED
  BY <1>1, <1>2, <1>3, <1>4, <1>5

(* Every kernel route has its record before and after every action.        *)
LEMMA RecordStep ==
  ASSUME CrashFaults, TypeOK, IndexInv, InstalledInv, RecordInv, [Next]_vars
  PROVE  RecordInv'
<1>1. CASE UNCHANGED vars
  BY <1>1 DEF vars, RecordInv, KernelRecorded, Names, Serving
<1>2. ASSUME NEW d \in Dests, OtherClears(d) \/ \E g \in Gateways : OtherSets(d, g)
      PROVE  FALSE
  BY <1>2 DEF OtherClears, OtherSets, CrashFaults
<1> QED
  BY <1>1, <1>2, RecordStartStep, RecordRequestStep, RecordOtherStep
     DEF Next, HolderStep, Environment, Lifecycle

(* ... so it has one at every step, whatever step the process dies at.     *)
LEMMA RecordCorrect ==
  ASSUME CrashFaults
  PROVE  Spec => []RecordInv
<1>1. Init => InstalledInv /\ RecordInv
  BY RoutesAssumption
     DEF Init, InstalledInv, RecordInv, KernelRecorded, NoKernelRoutes, Idle
<1>2. /\ TypeOK /\ IndexInv /\ InstalledInv /\ RecordInv /\ [Next]_vars
      => InstalledInv' /\ RecordInv'
  BY CrashLoyal, InstalledStep, RecordStep
<1> QED
  BY <1>1, <1>2, TypeCorrect, IndexCorrect, PTL DEF Spec

(* Whatever step the process or the machine dies at, and whichever saves   *)
(* the disk refuses, a route the kernel has is in routes.db: add saves     *)
(* before its kernel call, remove and the worker after theirs.             *)
THEOREM KernelRecordedHolds ==
  ASSUME CrashFaults
  PROVE  Spec => []KernelRecorded
<1>1. RecordInv => KernelRecorded
  BY DEF RecordInv
<1> QED
  BY <1>1, RecordCorrect, PTL

(* ... and the next start makes the index account for all of them again:   *)
(* no crash leaves a route in the kernel that the service will not manage. *)
THEOREM KernelOwnedHolds ==
  ASSUME CrashFaults
  PROVE  Spec => []KernelOwned
<1>1. RecordInv => KernelOwned
  BY DEF RecordInv, KernelOwned, AtRest, Names, Idle
<1> QED
  BY <1>1, RecordCorrect, PTL

=============================================================================
