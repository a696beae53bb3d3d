---------------------- MODULE RouteManagerLedgerProofs ----------------------
(***************************************************************************)
(* routes.db, proved: what add has acknowledged survives any crash, a      *)
(* refused add leaves nothing behind, and the file is a ledger kept ahead  *)
(* of the kernel's table (RouteLedger).                                    *)
(*                                                                         *)
(* The three compare the file with the index.  What each step of the       *)
(* manager does to the two, to `acked` and to the operation in flight is   *)
(* said once (FileStep), in a dozen cases; each invariant goes through     *)
(* those.                                                                  *)
(***************************************************************************)
EXTENDS RouteManagerTableProofs

-----------------------------------------------------------------------------
(* Records and their lines in routes.db.                                   *)

Line(r) == [r EXCEPT !.cool = 0]

(* A line says everything of a record but its cool-down.                   *)
LEMMA LineType ==
  ASSUME NEW r \in Route
  PROVE  /\ Line(r) \in SavedRoute
         /\ Line(r).key = r.key /\ Line(r).ip = r.ip /\ Line(r).gateway = r.gateway
         /\ Line(r).left = r.left
         /\ r.cool = 0 => Line(r) = r
<1>1. 0 \in 0..RetryAfter
  BY RoutesAssumption
<1>2. Line(r) \in SavedRoute
  BY <1>1 DEF Line, Route, SavedRoute
<1>3. QED
  BY <1>2 DEF Line, Route

(* A save writes the line of every record.                                 *)
LEMMA SavedLines ==
  ASSUME NEW S
  PROVE  Saved(S) = {Line(r) : r \in S}
BY DEF Saved, Line

(* Lines are their own lines.                                              *)
LEMMA SavedSaved ==
  ASSUME NEW S \in SUBSET SavedRoute
  PROVE  Saved(S) = S
<1>1. \A r \in S : Line(r) = r
  BY LineType DEF SavedRoute
<1>2. QED
  BY <1>1, SavedLines

(* Put does to the file what it does to the index...                       *)
LEMMA SavedPut ==
  ASSUME NEW S \in SUBSET Route, NEW r \in SavedRoute
  PROVE  Saved(Put(S, r)) = Put(Saved(S), r)
<1>1. Line(r) = r /\ r \in Route
  BY LineType DEF SavedRoute
<1>2. ASSUME NEW x \in Saved(Put(S, r))
      PROVE  x \in Put(Saved(S), r)
  <2>1. PICK y \in Put(S, r) : x = Line(y)
    BY SavedLines
  <2>2. CASE y = r
    BY <1>1, <2>1, <2>2 DEF Put
  <2>3. CASE y \in S /\ (y.key # r.key \/ y.ip # r.ip)
    BY <2>1, <2>3, LineType, SavedLines DEF Put
  <2>4. QED
    BY <2>1, <2>2, <2>3 DEF Put
<1>3. ASSUME NEW x \in Put(Saved(S), r)
      PROVE  x \in Saved(Put(S, r))
  <2>1. CASE x = r
    BY <1>1, <2>1, SavedLines DEF Put
  <2>2. CASE x \in Saved(S) /\ (x.key # r.key \/ x.ip # r.ip)
    <3>1. PICK y \in S : x = Line(y)
      BY <2>2, SavedLines
    <3>2. y \in Put(S, r)
      BY <2>2, <3>1, LineType DEF Put
    <3>3. QED
      BY <3>1, <3>2, SavedLines
  <2>3. QED
    BY <2>1, <2>2 DEF Put
<1>4. QED
  BY <1>2, <1>3

(* ... and so does Forget...                                               *)
LEMMA SavedForget ==
  ASSUME NEW S \in SUBSET Route, NEW d, NEW g
  PROVE  Saved(Forget(S, d, g)) = Forget(Saved(S), d, g)
<1>1. \A y \in S : Line(y).ip = y.ip /\ Line(y).gateway = y.gateway
  BY LineType
<1>2. QED
  BY <1>1, SavedLines DEF Forget

(* ... and so does time.                                                   *)
LEMMA SavedAge ==
  ASSUME NEW S \in SUBSET Route
  PROVE  Saved(Age(S)) = Age(Saved(S))
<1>1. ASSUME NEW r \in S
      PROVE  Line(Older(r)) = Older(Line(r))
  <2> DEFINE l == IF r.left > 0 THEN r.left - 1 ELSE r.left
             c == IF r.cool > 0 THEN r.cool - 1 ELSE r.cool
  <2>1. Older(r) = [r EXCEPT !.left = l, !.cool = c]
    BY DEF Older
  <2>2. Line(Older(r)) = [r EXCEPT !.left = l, !.cool = 0]
    BY <2>1 DEF Line, Route
  <2>3. Line(r).cool = 0 /\ Line(r).left = r.left
    BY LineType DEF SavedRoute
  <2>4. Older(Line(r)) = [Line(r) EXCEPT !.left = l, !.cool = 0]
    BY <2>3 DEF Older
  <2>5. QED
    BY <2>2, <2>4 DEF Line, Route
<1>2. QED
  BY <1>1, SavedLines DEF Age

(* The worker's cool-down does not reach the file.                         *)
LEMMA SavedKeep ==
  ASSUME NEW S \in SUBSET Route, NEW r \in S
  PROVE  Saved((S \ {r}) \cup {[r EXCEPT !.cool = RetryAfter]}) = Saved(S)
<1> DEFINE s == [r EXCEPT !.cool = RetryAfter]
<1>1. Line(s) = Line(r)
  BY DEF Line, Route
<1> HIDE DEF s
<1>2. Saved((S \ {r}) \cup {s}) = Saved(S)
  BY <1>1, SavedLines
<1>3. QED
  BY <1>2 DEF s

(* The file of an index is an index.                                       *)
LEMMA SavedIndex ==
  ASSUME NEW S \in SUBSET Route, IsIndex(S)
  PROVE  IsIndex(Saved(S))
<1> SUFFICES ASSUME NEW a \in S, NEW b \in S, Line(a).ip = Line(b).ip
             PROVE  /\ Line(a).gateway = Line(b).gateway
                    /\ Line(a).key = Line(b).key => Line(a) = Line(b)
  BY SavedLines DEF IsIndex
<1>1. QED
  BY LineType DEF IsIndex

(* A request's record has a lifetime before it.                            *)
LEMMA NewRouteLive ==
  ASSUME NEW k, NEW d, NEW g, NEW ttl \in Ttls
  PROVE  ~Expired(NewRoute(k, d, g, Lifetime(ttl)))
BY RoutesAssumption DEF Expired, NewRoute, Lifetime, Forever

-----------------------------------------------------------------------------
(* What a step does to the index and to the file.                          *)

(* The records an operation under way stands for: a rollback's, until it   *)
(* is over.                                                                *)
Held == IF op.pc \in {"install", "forget"} THEN op.prev ELSE routes

(* The process has an index that has been read from the file.              *)
Loaded == phase # "down" /\ op.pc # "restore"

KernelMayFail == Faults \cap {"kernel", "lostAck"} # {}

(* Nothing that matters to the file.                                       *)
Still == UNCHANGED <<phase, op, routes, disk, acked>>

(* The first step of an operation, or a failed one: the same lines.        *)
Keeps ==
  /\ Loaded /\ op.pc # "install" /\ Loaded' /\ op'.pc # "install"
  /\ Saved(Held)' = Saved(Held)
  /\ UNCHANGED <<disk, acked>>

(* A save at the end of start or of a pass of the worker.                  *)
Saves ==
  /\ op.pc \in {"clean", "scan"} /\ op' = Idle /\ Loaded /\ Loaded'
  /\ disk' = Saved(routes)
  /\ UNCHANGED <<routes, kernel, acked>>

(* add, when the destination has its route already.                        *)
Refers(new) ==
  /\ op = Idle /\ op' = Idle /\ Loaded /\ Loaded' /\ ~Expired(new)
  /\ \A x \in routes : x.ip = new.ip => x.gateway = new.gateway
  /\ routes' = Put(routes, new)
  /\ disk' = Saved(routes')
  /\ acked' = Put(acked, new)
  /\ UNCHANGED kernel

(* add, when it has none: the save, and the two outcomes of the kernel     *)
(* call.                                                                   *)
Intends(new) ==
  /\ op = Idle /\ Loaded /\ Loaded' /\ ~Expired(new)
  /\ op' = [pc |-> "install", route |-> new, prev |-> routes]
  /\ \A x \in routes : x.ip # new.ip
  /\ routes' = Put(routes, new)
  /\ disk' = Saved(routes')
  /\ UNCHANGED <<kernel, acked>>

Installs ==
  /\ op.pc = "install" /\ op' = Idle /\ Loaded /\ Loaded'
  /\ acked' = Put(acked, op.route)
  /\ UNCHANGED <<routes, disk>>

RollsBack ==
  /\ op.pc = "install" /\ op' = Idle /\ Loaded /\ Loaded' /\ KernelMayFail
  /\ routes' = op.prev
  /\ disk' = Saved(op.prev) \/ ("write" \in Faults /\ UNCHANGED disk)
  /\ UNCHANGED acked

(* The save that ends a remove.                                            *)
Forgets ==
  /\ op.pc = "forget" /\ op' = Idle /\ Loaded /\ Loaded'
  /\ disk' = Saved(routes)
  /\ acked' = Forget(acked, op.ip, op.gateway)
  /\ UNCHANGED <<routes, kernel>>

(* The worker.                                                             *)
Erases(r) ==
  /\ op.pc = "scan" /\ op'.pc = "scan" /\ r \in op.todo /\ Loaded /\ Loaded'
  /\ routes' = routes \ {r}
  /\ UNCHANGED <<disk, acked>>

(* The steps of start.                                                     *)
Begins ==
  /\ phase = "down" /\ op'.pc = "restore" /\ phase' # "down"
  /\ op'.todo = Live(disk)
  /\ routes' = {}
  /\ UNCHANGED <<disk, acked>>

Unreads ==
  /\ "read" \in Faults /\ op = Idle /\ op' = Idle
  /\ routes' = {}
  /\ UNCHANGED <<disk, acked>>

Restores(r) ==
  /\ op.pc = "restore" /\ op'.pc = "restore" /\ phase' # "down"
  /\ r \in op.todo /\ op'.todo = op.todo \ {r}
  /\ \/ routes' = Put(routes, r)
     \/ UNCHANGED routes /\ \E x \in routes : x.ip = r.ip /\ x.gateway # r.gateway
     \/ UNCHANGED routes /\ KernelMayFail
  /\ UNCHANGED <<disk, acked>>

Loads ==
  /\ op.pc = "restore" /\ op'.pc = "clean" /\ op.todo = {} /\ phase' # "down"
  /\ UNCHANGED <<routes, disk, acked>>

(* The process ends: between two operations, or where it happens to be.    *)
Ends ==
  /\ op = Idle \/ Faults \cap {"crash", "reboot"} # {}
  /\ phase' = "down" /\ op' = Idle /\ routes' = {}
  /\ UNCHANGED <<disk, acked>>

Ages ==
  /\ op = Idle /\ op' = Idle
  /\ routes' = Age(routes)
  /\ disk' = Age(disk)
  /\ acked' = Live(Age(acked))
  /\ UNCHANGED <<phase, kernel>>

(* These are all the steps there are, under any faults.                    *)
LEMMA FileStep ==
  ASSUME TypeOK, IndexInv, InFlightInv, [Next]_vars
  PROVE  \/ Still \/ Keeps \/ Saves \/ Installs \/ RollsBack \/ Forgets
         \/ Begins \/ Unreads \/ Loads \/ Ends \/ Ages
         \/ \E new \in SavedRoute : Refers(new) \/ Intends(new)
         \/ \E r \in Route : Erases(r) \/ Restores(r)
<1> USE DEF IndexInv
<1>1. ASSUME \/ UNCHANGED vars
             \/ \E d \in Dests : OtherClears(d) \/ \E g \in Gateways : OtherSets(d, g)
      PROVE  Still
  BY <1>1 DEF vars, OtherClears, OtherSets, Still
<1>2. CASE StartRead
  BY <1>2 DEF StartRead, Begins
<1>3. CASE StartUnreadable
  <2>1. op = Idle
    BY <1>3, InFlightType DEF StartUnreadable
  <2>2. "read" \in Faults /\ op' = op /\ routes' = {} /\ UNCHANGED <<disk, acked>>
    BY <1>3 DEF StartUnreadable
  <2>3. QED
    BY <2>1, <2>2 DEF Unreads
<1>4. ASSUME NEW r \in Route, Restore(r)
      PROVE  Restores(r)
  <2>1. op.pc = "restore" /\ op'.pc = "restore" /\ r \in op.todo /\ op'.todo = op.todo \ {r}
    <3>1. op.pc = "restore" /\ r \in op.todo
      BY <1>4 DEF Restore
    <3>2. op \in [pc: {"restore"}, todo: SUBSET Route, failed: BOOLEAN]
      BY <3>1 DEF TypeOK, Ops, Idle
    <3>3. \/ op' = [op EXCEPT !.todo = op.todo \ {r}]
          \/ \E ok \in BOOLEAN : op' = [op EXCEPT !.todo = op.todo \ {r},
                                             !.failed = op.failed \/ ~ok]
      BY <1>4 DEF Restore
    <3>4. CASE op' = [op EXCEPT !.todo = op.todo \ {r}]
      BY <3>1, <3>2, <3>4
    <3>5. ASSUME NEW f, op' = [op EXCEPT !.todo = op.todo \ {r}, !.failed = f]
          PROVE  op'.pc = "restore" /\ op'.todo = op.todo \ {r}
      BY <3>2, <3>5
    <3>6. QED
      BY <3>1, <3>3, <3>4, <3>5
  <2>2. phase' # "down"
    BY <1>4, <2>1 DEF Restore
  <2>3. \/ routes' = Put(routes, r)
        \/ UNCHANGED routes /\ \E x \in routes : x.ip = r.ip /\ x.gateway # r.gateway
        \/ UNCHANGED routes /\ KernelMayFail
    BY <1>4 DEF Restore, AddSystemRoute, KernelMayFail
  <2>4. QED
    BY <1>4, <2>1, <2>2, <2>3 DEF Restore, Restores
<1>5. CASE RestoreDone
  BY <1>5 DEF RestoreDone, Loads
<1>6. ASSUME NEW t \in Hops, Clean(t)
      PROVE  Keeps
  <2>1. op.pc = "clean" /\ op'.pc = "clean"
    BY <1>6 DEF Clean, TypeOK, Ops, Idle
  <2>2. QED
    BY <1>6, <2>1 DEF Clean, Keeps, Loaded, Held, Saved
<1>7. CASE StartDone
  <2>1. op.pc = "clean" /\ op' = Idle /\ Loaded /\ Loaded' /\ UNCHANGED <<routes, kernel, acked>>
    BY <1>7 DEF StartDone, Loaded, Idle
  <2>2. disk' = disk \/ disk' = Saved(routes)
    BY <1>7 DEF StartDone, SaveRoutes
  <2>3. QED
    BY <2>1, <2>2 DEF Keeps, Saves, Held, Saved, Idle
<1>8. ASSUME NEW k \in Keys, NEW d \in Dests, NEW g \in Gateways,
             NEW ttl \in Ttls, AddReference(k, d, g, ttl)
      PROVE  Keeps \/ \E new \in SavedRoute : Refers(new)
  <2> DEFINE new == NewRoute(k, d, g, Lifetime(ttl))
  <2>1. new \in SavedRoute /\ new.ip = d /\ new.gateway = g /\ ~Expired(new)
    BY NewRouteType, NewRouteLive DEF NewRoute
  <2> HIDE DEF new
  <2>2. op = Idle /\ op' = Idle /\ Loaded /\ Loaded' /\ UNCHANGED kernel
    BY <1>8 DEF AddReference, Serving, Loaded, Idle
  <2>3. \/ UNCHANGED <<routes, disk, acked>>
        \/ /\ routes' = Put(routes, new) /\ disk' = Saved(Put(routes, new))
           /\ acked' = Put(acked, new)
    BY <1>8 DEF AddReference, SaveRoutes, new
  <2>4. \A x \in routes : x.ip = d => x.gateway = g
    BY <1>8 DEF AddReference, RoutedVia, IsIndex
  <2>5. CASE UNCHANGED <<routes, disk, acked>>
    BY <2>2, <2>5 DEF Keeps, Held, Saved, Idle
  <2>6. CASE /\ routes' = Put(routes, new) /\ disk' = Saved(Put(routes, new))
             /\ acked' = Put(acked, new)
    <3>1. Refers(new)
      BY <2>1, <2>2, <2>4, <2>6 DEF Refers
    <3>2. QED
      BY <2>1, <3>1
  <2>7. QED
    BY <2>3, <2>5, <2>6
<1>9. ASSUME NEW k \in Keys, NEW d \in Dests, NEW g \in Gateways,
             NEW ttl \in Ttls, AddPersist(k, d, g, ttl)
      PROVE  Keeps \/ \E new \in SavedRoute : Intends(new)
  <2> DEFINE new == NewRoute(k, d, g, Lifetime(ttl))
  <2>1. new \in SavedRoute /\ new.ip = d /\ new.gateway = g /\ ~Expired(new)
    BY NewRouteType, NewRouteLive DEF NewRoute
  <2> HIDE DEF new
  <2>2. op = Idle /\ Loaded /\ UNCHANGED <<phase, kernel, acked>>
    BY <1>9 DEF AddPersist, Serving, Loaded, Idle
  <2>3. \/ op' = Idle /\ UNCHANGED <<routes, disk>>
        \/ /\ routes' = Put(routes, new) /\ disk' = Saved(Put(routes, new))
           /\ op' = [pc |-> "install", route |-> new, prev |-> routes]
    BY <1>9 DEF AddPersist, SaveRoutes, new
  <2>4. \A x \in routes : x.ip # d
    BY <1>9 DEF AddPersist
  <2>5. CASE op' = Idle /\ UNCHANGED <<routes, disk>>
    BY <2>2, <2>5 DEF Keeps, Held, Saved, Idle, Loaded
  <2>6. CASE /\ routes' = Put(routes, new) /\ disk' = Saved(Put(routes, new))
             /\ op' = [pc |-> "install", route |-> new, prev |-> routes]
    <3>1. Intends(new)
      BY <2>1, <2>2, <2>4, <2>6 DEF Intends, Loaded
    <3>2. QED
      BY <2>1, <3>1
  <2>7. QED
    BY <2>3, <2>5, <2>6
<1>10. CASE AddInstall
  <2>1. op.pc = "install" /\ op' = Idle /\ Loaded /\ Loaded'
    BY <1>10 DEF AddInstall, Loaded, Idle
  <2>2. \/ acked' = Put(acked, op.route) /\ UNCHANGED <<routes, disk>>
        \/ KernelMayFail /\ Rollback(op.prev) /\ UNCHANGED acked
    BY <1>10 DEF AddInstall, AddSystemRoute, KernelMayFail
  <2>3. QED
    BY <2>1, <2>2 DEF Installs, RollsBack, Rollback, SaveRoutes
<1>11. ASSUME NEW d \in Dests, NEW g \in Gateways, Unroute(d, g), op = Idle, Serving
       PROVE  Keeps
  <2>1. Held = routes /\ Held' = routes
    BY <1>11 DEF Unroute, Held, Idle
  <2>2. op.pc # "install" /\ op'.pc \in {"idle", "forget"} /\ Loaded /\ Loaded'
    BY <1>11 DEF Unroute, Loaded, Serving, Idle
  <2>3. QED
    BY <1>11, <2>1, <2>2 DEF Unroute, Keeps, Saved
<1>12. CASE ForgetSave
  <2>1. op.pc = "forget" /\ op' = Idle /\ Loaded /\ Loaded'
    BY <1>12 DEF ForgetSave, Loaded, Idle
  <2>2. \/ /\ disk' = Saved(routes) /\ acked' = Forget(acked, op.ip, op.gateway)
           /\ UNCHANGED <<routes, kernel>>
        \/ routes' = op.prev /\ UNCHANGED <<disk, acked>>
    BY <1>12 DEF ForgetSave, SaveRoutes
  <2>3. ASSUME routes' = op.prev, UNCHANGED <<disk, acked>>
        PROVE  Keeps
    BY <2>1, <2>3 DEF Keeps, Held, Saved, Idle
  <2>4. QED
    BY <2>1, <2>2, <2>3 DEF Forgets
<1>13. CASE ScanBegin \/ StopBegin \/ StopJoin
  BY <1>13 DEF ScanBegin, StopBegin, StopJoin, Keeps, Loaded, Held, Saved, Idle
<1>14. ASSUME NEW r \in Route, ScanErase(r)
       PROVE  Erases(r)
  <2>1. op.pc = "scan" /\ op'.pc = "scan" /\ r \in op.todo
    BY <1>14 DEF ScanErase, TypeOK, Ops, Idle
  <2>2. QED
    BY <1>14, <2>1 DEF ScanErase, Erases, Loaded
<1>15. ASSUME NEW r \in Route, ScanKeep(r)
       PROVE  Keeps
  <2>1. op.pc = "scan" /\ op'.pc = "scan" /\ r \in op.todo
    BY <1>15 DEF ScanKeep, TypeOK, Ops, Idle
  <2>2. Saved(routes') = Saved(routes)
    BY <1>15, <2>1, SavedKeep DEF ScanKeep, TypeOK
  <2>3. QED
    BY <1>15, <2>1, <2>2 DEF ScanKeep, Keeps, Loaded, Held, Saved
<1>16. CASE ScanEnd
  <2>1. op.pc = "scan" /\ op' = Idle /\ Loaded /\ Loaded' /\ UNCHANGED <<routes, kernel, acked>>
    BY <1>16 DEF ScanEnd, Loaded, Idle
  <2>2. disk' = disk \/ disk' = Saved(routes)
    BY <1>16 DEF ScanEnd, SaveRoutes
  <2>3. QED
    BY <2>1, <2>2 DEF Keeps, Saves, Held, Saved, Idle
<1>17. CASE Exit \/ Crash \/ Reboot
  BY <1>17 DEF Exit, Crash, Reboot, ProcessEnds, Ends
<1>18. CASE Tick
  BY <1>18 DEF Tick, Ages
<1>19. QED
  BY <1>1, <1>2, <1>3, <1>4, <1>5, <1>6, <1>7, <1>8, <1>9, <1>10, <1>11, <1>12, <1>13, <1>14,
     <1>15, <1>16, <1>17, <1>18
  DEF Next, HolderStep, Request, Environment, Lifecycle, Remove, RemoveSystem

-----------------------------------------------------------------------------
(* The worker's list.                                                      *)

(* What the worker goes through has expired and is not cooling down.       *)
ScanInv == op.pc = "scan" => \A r \in op.todo : Expired(r) /\ r.cool = 0

(* Only the worker has a list, and it only gets shorter.                   *)
LEMMA ScanStep ==
  ASSUME TypeOK, ScanInv, [Next]_vars
  PROVE  ScanInv'
<1>1. ASSUME op'.pc # "scan" \/ op' = op
      PROVE  ScanInv'
  BY <1>1 DEF ScanInv, Expired
<1>2. CASE ScanBegin
  BY <1>2 DEF ScanBegin, ScanInv, Due, Expired
<1>3. ASSUME NEW r \in Route, ScanErase(r) \/ ScanKeep(r)
      PROVE  ScanInv'
  <2>1. op.pc = "scan"
    BY <1>3 DEF ScanErase, ScanKeep
  <2>2. op \in [pc: {"scan"}, todo: SUBSET Route, changed: BOOLEAN]
    BY <2>1 DEF TypeOK, Ops, Idle
  <2>3. \/ op' = [op EXCEPT !.todo = op.todo \ {r}]
        \/ op' = [op EXCEPT !.todo = op.todo \ {r}, !.changed = TRUE]
    BY <1>3 DEF ScanErase, ScanKeep
  <2>4. op'.todo = op.todo \ {r}
    BY <2>2, <2>3
  <2>5. QED
    BY <2>1, <2>4 DEF ScanInv, Expired
<1>4. CASE StartRead \/ RestoreDone \/ StartDone \/ AddInstall \/ ForgetSave \/ ScanEnd
  BY <1>1, <1>4 DEF StartRead, RestoreDone, StartDone, AddInstall, ForgetSave, ScanEnd, Idle
<1>5. CASE Exit \/ Crash \/ Reboot \/ Tick \/ StartUnreadable \/ StopBegin \/ StopJoin
  BY <1>1, <1>5 DEF Exit, Crash, Reboot, ProcessEnds, Tick, StartUnreadable, StopBegin,
     StopJoin, Idle
<1>6. ASSUME NEW r \in Route, Restore(r)
      PROVE  ScanInv'
  BY <1>1, <1>6 DEF Restore, TypeOK, Ops, Idle
<1>7. ASSUME NEW t \in Hops, Clean(t)
      PROVE  ScanInv'
  BY <1>1, <1>7 DEF Clean, TypeOK, Ops, Idle
<1>8. ASSUME NEW k \in Keys, NEW d \in Dests, NEW g \in Gateways, NEW ttl \in Ttls,
             AddReference(k, d, g, ttl) \/ AddPersist(k, d, g, ttl)
      PROVE  ScanInv'
  BY <1>1, <1>8 DEF AddReference, AddPersist, Idle
<1>9. ASSUME NEW d \in Dests, NEW g \in Gateways, Unroute(d, g)
      PROVE  ScanInv'
  BY <1>1, <1>9 DEF Unroute, Idle
<1>10. ASSUME \/ UNCHANGED vars
              \/ \E d \in Dests : OtherClears(d) \/ \E g \in Gateways : OtherSets(d, g)
       PROVE  ScanInv'
  BY <1>1, <1>10 DEF vars, OtherClears, OtherSets
<1>11. QED
  BY <1>2, <1>3, <1>4, <1>5, <1>6, <1>7, <1>8, <1>9, <1>10
  DEF Next, HolderStep, Request, Environment, Lifecycle, Remove, RemoveSystem

-----------------------------------------------------------------------------
(* What has been acknowledged.                                             *)

(* A start can read its file and the kernel obeys it: saves may fail, the  *)
(* process and the machine may die, other programs may edit the route      *)
(* table.                                                                  *)
FaithfulLoad == Faults \cap {"read", "kernel", "lostAck"} = {}

(* An acknowledged record has a lifetime before it, is in the file and in  *)
(* the index a rollback would bring back, and in a load that is under way  *)
(* it has been loaded or is about to be: the file it is in is one that     *)
(* add wrote, with no two lines at odds.                                   *)
AckInv ==
  /\ acked \subseteq disk
  /\ \A r \in acked : ~Expired(r)
  /\ acked # {} => IsIndex(disk)
  /\ op.pc = "install" => disk = Saved(routes) /\ ~Expired(op.route)
  /\ op.pc = "restore" =>
       routes \cup op.todo \subseteq disk /\ acked \subseteq routes \cup op.todo
  /\ Loaded => acked \subseteq Saved(Held)

(* A crash, a refused save and the load that follows lose no acknowledged  *)
(* record: every save writes it, every load finds it.                      *)
LEMMA AckStep ==
  ASSUME FaithfulLoad, TypeOK, TypeOK', IndexInv, IndexInv', InFlightInv, ScanInv,
         AckInv, [Next]_vars
  PROVE  AckInv'
<1> USE DEF AckInv
<1>1. ~KernelMayFail /\ "read" \notin Faults
  BY DEF FaithfulLoad, KernelMayFail
<1>2. routes \in SUBSET Route /\ disk \in SUBSET SavedRoute /\ acked \in SUBSET SavedRoute
  BY DEF TypeOK
<1>3. CASE Still
  BY <1>3 DEF Still, Expired, IsIndex, Loaded, Held, Saved
<1>4. CASE Keeps
  BY <1>4 DEF Keeps, Expired, IsIndex, Loaded
<1>5. CASE Saves
  <2>1. disk' = Saved(routes) /\ acked' = acked /\ Held = routes /\ Held' = routes
        /\ Loaded /\ op'.pc = "idle" /\ routes' = routes
    BY <1>5 DEF Saves, Held, Idle
  <2>2. acked' \subseteq Saved(routes) /\ Saved(Held)' = Saved(routes)
    BY <2>1 DEF Saved
  <2>3. IsIndex(disk')
    BY <1>2, <2>1, SavedIndex DEF IndexInv
  <2>4. QED
    BY <2>1, <2>2, <2>3 DEF IsIndex, Expired
<1>6. ASSUME NEW new \in SavedRoute, Refers(new)
      PROVE  AckInv'
  <2>1. /\ op.pc = "idle" /\ op'.pc = "idle" /\ Loaded /\ ~Expired(new)
        /\ disk' = Saved(routes') /\ routes' = Put(routes, new) /\ acked' = Put(acked, new)
        /\ Held = routes /\ Held' = routes'
    BY <1>6 DEF Refers, Held, Idle
  <2>2. disk' = Put(Saved(routes), new) /\ Saved(Held)' = disk'
    BY <1>2, <2>1, SavedPut DEF Saved
  <2>3. acked' \subseteq disk'
    BY <2>1, <2>2 DEF Put
  <2>4. IsIndex(disk')
    BY <2>1, SavedIndex DEF IndexInv, TypeOK
  <2>5. \A r \in acked' : ~Expired(r)
    BY <2>1 DEF Put
  <2>6. QED
    BY <2>1, <2>2, <2>3, <2>4, <2>5 DEF IsIndex, Expired
<1>7. ASSUME NEW new \in SavedRoute, Intends(new)
      PROVE  AckInv'
  <2>1. /\ op.pc = "idle" /\ op'.pc = "install" /\ op'.prev = routes /\ Loaded
        /\ op'.route = new /\ ~Expired(new)
        /\ disk' = Saved(routes') /\ routes' = Put(routes, new) /\ acked' = acked
        /\ \A x \in routes : x.ip # new.ip
        /\ Held = routes
    BY <1>7 DEF Intends, Held, Idle
  <2>2. Saved(Held)' = Saved(routes)
    BY <2>1 DEF Held, Saved
  <2>3. Saved(routes) \subseteq disk'
    BY <2>1, SavedLines DEF Put
  <2>4. IsIndex(disk')
    BY <2>1, SavedIndex DEF IndexInv, TypeOK
  <2>5. disk' = Saved(routes)'
    BY <2>1 DEF Saved
  <2>6. QED
    BY <2>1, <2>2, <2>3, <2>4, <2>5 DEF IsIndex, Expired
<1>8. CASE Installs
  <2>1. /\ op.pc = "install" /\ op'.pc = "idle" /\ acked' = Put(acked, op.route)
        /\ routes' = routes /\ disk' = disk /\ Held' = routes
    BY <1>8 DEF Installs, Held, Idle
  <2>2. disk = Saved(routes) /\ op.route \in disk /\ op.route \in SavedRoute
    <3>1. disk = Saved(routes) /\ op.route \in SavedRoute /\ op.route \in routes
      BY <2>1, InFlightType DEF InFlightInv, Put
    <3>2. Line(op.route) = op.route
      BY <3>1, LineType DEF SavedRoute
    <3>3. QED
      BY <3>1, <3>2, SavedLines
  <2>3. ~Expired(op.route)
    BY <2>1
  <2>4. Saved(Held)' = disk
    BY <2>1, <2>2 DEF Saved
  <2>5. IsIndex(disk')
    BY <1>2, <2>1, <2>2, SavedIndex DEF IndexInv
  <2>6. acked' \subseteq disk
    BY <2>1, <2>2 DEF Put
  <2>7. \A r \in acked' : ~Expired(r)
    BY <2>1, <2>3 DEF Put
  <2>8. QED
    BY <2>1, <2>4, <2>5, <2>6, <2>7 DEF IsIndex, Expired
<1>9. CASE RollsBack
  BY <1>1, <1>9 DEF RollsBack
<1>10. CASE Forgets
  <2>1. /\ op.pc = "forget" /\ op'.pc = "idle" /\ disk' = Saved(routes) /\ Loaded
        /\ acked' = Forget(acked, op.ip, op.gateway) /\ routes' = routes
        /\ Held = op.prev /\ Held' = routes
    BY <1>10 DEF Forgets, Held, Idle
  <2>2. Saved(Held)' = Saved(routes)
    BY <2>1 DEF Saved
  <2>3. Saved(routes) = Forget(Saved(op.prev), op.ip, op.gateway)
    BY <2>1, InFlightType, SavedForget DEF InFlightInv
  <2>4. acked' \subseteq Saved(routes)
    BY <2>1, <2>3 DEF Forget
  <2>5. IsIndex(disk')
    BY <1>2, <2>1, SavedIndex DEF IndexInv
  <2>6. \A r \in acked' : ~Expired(r)
    BY <2>1 DEF Forget
  <2>7. QED
    BY <2>1, <2>2, <2>4, <2>5, <2>6 DEF IsIndex, Expired
<1>11. ASSUME NEW r \in Route, Erases(r)
       PROVE  AckInv'
  <2>1. /\ op.pc = "scan" /\ op'.pc = "scan" /\ r \in op.todo /\ Loaded
        /\ routes' = routes \ {r} /\ disk' = disk /\ acked' = acked
        /\ Held = routes /\ Held' = routes \ {r}
    BY <1>11 DEF Erases, Held
  <2>2. Line(r) = r /\ Expired(r)
    BY <2>1, LineType DEF ScanInv
  <2>3. acked \subseteq Saved(routes \ {r})
    <3>1. SUFFICES ASSUME NEW a \in acked
                   PROVE  a \in Saved(routes \ {r})
      OBVIOUS
    <3>2. PICK x \in routes : a = Line(x)
      BY <2>1, SavedLines
    <3>3. x # r
      BY <2>2, <3>2
    <3>4. QED
      BY <3>2, <3>3, SavedLines
  <2>4. Saved(Held)' = Saved(routes \ {r})
    BY <2>1 DEF Saved
  <2>5. QED
    BY <2>1, <2>3, <2>4 DEF IsIndex, Expired
<1>12. CASE Begins
  <2>1. acked \subseteq Live(disk) /\ Live(disk) \subseteq disk
    BY DEF Live
  <2>2. QED
    BY <1>12, <2>1 DEF Begins, Loaded, IsIndex, Expired
<1>13. CASE Unreads
  BY <1>1, <1>13 DEF Unreads
<1>14. ASSUME NEW r \in Route, Restores(r)
       PROVE  AckInv'
  <2>1. /\ op.pc = "restore" /\ op'.pc = "restore" /\ op'.todo = op.todo \ {r}
        /\ r \in op.todo /\ disk' = disk /\ acked' = acked
    BY <1>14 DEF Restores
  <2>2. routes \subseteq disk /\ r \in disk /\ acked \subseteq routes \cup op.todo
    BY <2>1
  <2>3. CASE routes' = Put(routes, r)
    <3>1. routes' \subseteq disk
      BY <2>2, <2>3 DEF Put
    <3>2. acked # {} => routes \subseteq routes'
      BY <2>2, <2>3 DEF Put, IsIndex
    <3>3. r \in routes'
      BY <2>3 DEF Put
    <3>4. QED
      BY <2>1, <2>2, <3>1, <3>2, <3>3 DEF IsIndex, Expired, Loaded
  <2>4. CASE routes' = routes /\ \E x \in routes : x.ip = r.ip /\ x.gateway # r.gateway
    <3>1. acked = {}
      BY <2>2, <2>4 DEF IsIndex
    <3>2. QED
      BY <2>1, <2>2, <2>4, <3>1 DEF Loaded
  <2>5. QED
    BY <1>1, <1>14, <2>3, <2>4 DEF Restores
<1>15. CASE Loads
  <2>1. /\ op.pc = "restore" /\ op'.pc = "clean" /\ op.todo = {} /\ routes' = routes
        /\ disk' = disk /\ acked' = acked /\ Held' = routes
    BY <1>15 DEF Loads, Held
  <2>2. Saved(routes) = routes
    BY <1>2, <2>1, SavedSaved
  <2>3. Saved(Held)' = Saved(routes)
    BY <2>1 DEF Saved
  <2>4. QED
    BY <2>1, <2>2, <2>3 DEF IsIndex, Expired
<1>16. CASE Ends
  BY <1>16 DEF Ends, Loaded, Idle, IsIndex, Expired
<1>17. CASE Ages
  <2>1. /\ op.pc = "idle" /\ op'.pc = "idle" /\ routes' = Age(routes) /\ disk' = Age(disk)
        /\ acked' = Live(Age(acked)) /\ phase' = phase /\ Held = routes /\ Held' = routes'
    BY <1>17 DEF Ages, Held, Idle
  <2>2. acked' \subseteq disk' /\ \A r \in acked' : ~Expired(r)
    BY <2>1 DEF Live, Age
  <2>3. acked' # {} => IsIndex(disk')
    <3>1. acked' # {} => acked # {}
      BY <2>1 DEF Live, Age
    <3>2. QED
      BY <1>2, <2>1, <3>1, UnsavedType, IsIndexAge
  <2>4. Saved(Held)' = Age(Saved(routes))
    BY <1>2, <2>1, SavedAge DEF Saved
  <2>5. Loaded => acked' \subseteq Age(Saved(routes))
    BY <2>1 DEF Live, Age
  <2>6. Loaded' => Loaded
    BY <2>1 DEF Loaded
  <2>7. QED
    BY <2>1, <2>2, <2>3, <2>4, <2>5, <2>6 DEF IsIndex, Expired
<1>18. QED
  BY <1>3, <1>4, <1>5, <1>6, <1>7, <1>8, <1>9, <1>10, <1>11, <1>12, <1>13, <1>14, <1>15,
     <1>16, <1>17, FileStep

(* ... so it holds at every step.                                          *)
LEMMA AckCorrect ==
  ASSUME FaithfulLoad
  PROVE  Spec => []AckInv
<1>1. Init => ScanInv /\ AckInv
  BY DEF Init, ScanInv, AckInv, Loaded, Idle
<1>2. /\ TypeOK /\ TypeOK' /\ IndexInv /\ IndexInv' /\ InFlightInv /\ ScanInv
      /\ AckInv /\ [Next]_vars
      => ScanInv' /\ AckInv'
  BY ScanStep, AckStep
<1>3. QED
  BY <1>1, <1>2, TypeCorrect, IndexCorrect, InFlightHolds, PTL DEF Spec

(* Whatever step the process or the machine dies at, whichever saves the   *)
(* disk refuses and whatever other programs do to the route table, what    *)
(* add acknowledged is in routes.db with the lifetime it was given: the    *)
(* save before the answer, and the rollbacks.  (A kernel that refuses a    *)
(* route at start, or a file that cannot be read then, is what it takes to *)
(* lose one.)                                                              *)
THEOREM AckedDurableHolds ==
  ASSUME FaithfulLoad
  PROVE  Spec => []AckedDurable
<1>1. AckInv => AckedDurable
  BY DEF AckInv, AckedDurable
<1>2. QED
  BY <1>1, AckCorrect, PTL

(* ... and whenever the mutex is free, after any number of restarts, it is *)
(* in the index and its route is in the kernel: load_routes_locked finds   *)
(* every such line, and no other line of the file can displace it.         *)
THEOREM AckedInForceHolds ==
  ASSUME CrashFaults
  PROVE  Spec => []AckedInForce
<1>1. ASSUME TypeOK, AckInv, ManagedInstalled
      PROVE  AckedInForce
  <2>1. SUFFICES ASSUME AtRest
                 PROVE  /\ acked \subseteq Saved(routes)
                        /\ \A r \in acked : kernel[r.ip] = r.gateway
    BY DEF AckedInForce
  <2>2. acked \subseteq Saved(routes)
    BY <1>1, <2>1 DEF AckInv, AtRest, Serving, Loaded, Held, Idle
  <2>3. ASSUME NEW r \in acked
        PROVE  kernel[r.ip] = r.gateway
    <3>1. PICK x \in routes : r = Line(x)
      BY <2>2, SavedLines
    <3>2. kernel[x.ip] = x.gateway
      BY <1>1, <2>1 DEF ManagedInstalled
    <3>3. QED
      BY <1>1, <3>1, <3>2, LineType DEF TypeOK
  <2>4. QED
    BY <2>2, <2>3
<1>2. LoyalKernel /\ FaithfulLoad
  BY CrashLoyal DEF CrashFaults, FaithfulLoad
<1>3. QED
  BY <1>1, <1>2, TypeCorrect, AckCorrect, ManagedInstalledHolds, PTL

-----------------------------------------------------------------------------
(* What has been refused.                                                  *)

(* No step of the process is lost and no save is refused.                  *)
NoLoss == Faults \cap {"write", "crash", "reboot"} = {}

(* Every unexpired line of the file, of the index and of what a rollback   *)
(* would bring back has been acknowledged; the one exception is the line   *)
(* of an add whose kernel call is still to come.                           *)
RefusedInv ==
  /\ op.pc # "install" => Live(disk) \subseteq acked
  /\ op.pc = "install" => disk = Saved(routes)
  /\ op.pc = "restore" => routes \cup op.todo \subseteq acked
  /\ op.pc # "restore" => Live(Saved(Held)) \subseteq acked

(* The lifetime of a record a tick later.                                  *)
LEMMA OlderLeft ==
  ASSUME NEW r \in Route
  PROVE  Older(r).left = IF r.left > 0 THEN r.left - 1 ELSE r.left
<1> DEFINE l == IF r.left > 0 THEN r.left - 1 ELSE r.left
           c == IF r.cool > 0 THEN r.cool - 1 ELSE r.cool
<1>1. Older(r) = [r EXCEPT !.left = l, !.cool = c]
  BY DEF Older
<1>2. QED
  BY <1>1 DEF Route

(* What has expired stays so.                                              *)
LEMMA LiveAge ==
  ASSUME NEW S \in SUBSET Route, NEW T, Live(S) \subseteq T
  PROVE  Live(Age(S)) \subseteq Live(Age(T))
<1>1. ASSUME NEW r \in S, ~Expired(Older(r))
      PROVE  ~Expired(r)
  BY <1>1, OlderLeft DEF Expired
<1>2. QED
  BY <1>1 DEF Live, Age

(* A refused add leaves the file and the index as they were: the kernel    *)
(* call that failed is followed by the save of the previous index.         *)
LEMMA RefusedStep ==
  ASSUME NoLoss, TypeOK, IndexInv, InFlightInv, RefusedInv, [Next]_vars
  PROVE  RefusedInv'
<1> USE DEF RefusedInv
<1>1. "write" \notin Faults /\ Faults \cap {"crash", "reboot"} = {}
  BY DEF NoLoss
<1>2. routes \in SUBSET Route /\ disk \in SUBSET SavedRoute /\ acked \in SUBSET SavedRoute
  BY DEF TypeOK
<1>3. CASE Still
  BY <1>3 DEF Still, Live, Held, Saved
<1>4. CASE Keeps
  BY <1>4 DEF Keeps, Live, Loaded
<1>5. CASE Saves
  <2>1. disk' = Saved(routes) /\ acked' = acked /\ Held = routes /\ Held' = routes
        /\ op.pc # "restore" /\ op'.pc = "idle" /\ routes' = routes
    BY <1>5 DEF Saves, Held, Idle
  <2>2. QED
    BY <2>1 DEF Saved, Live
<1>6. ASSUME NEW new \in SavedRoute, Refers(new)
      PROVE  RefusedInv'
  <2>1. /\ op.pc = "idle" /\ op'.pc = "idle"
        /\ disk' = Saved(routes') /\ routes' = Put(routes, new) /\ acked' = Put(acked, new)
        /\ Held = routes /\ Held' = routes'
    BY <1>6 DEF Refers, Held, Idle
  <2>2. disk' = Put(Saved(routes), new) /\ Saved(Held)' = disk'
    BY <1>2, <2>1, SavedPut DEF Saved
  <2>3. Live(disk') \subseteq acked'
    BY <2>1, <2>2 DEF Put, Live
  <2>4. QED
    BY <2>1, <2>2, <2>3 DEF Live
<1>7. ASSUME NEW new \in SavedRoute, Intends(new)
      PROVE  RefusedInv'
  <2>1. /\ op.pc = "idle" /\ op'.pc = "install" /\ op'.prev = routes
        /\ disk' = Saved(routes') /\ acked' = acked /\ Held = routes
    BY <1>7 DEF Intends, Held, Idle
  <2>2. Saved(Held)' = Saved(routes) /\ disk' = Saved(routes)'
    BY <2>1 DEF Held, Saved
  <2>3. QED
    BY <2>1, <2>2 DEF Live
<1>8. CASE Installs
  <2>1. /\ op.pc = "install" /\ op'.pc = "idle" /\ acked' = Put(acked, op.route)
        /\ routes' = routes /\ disk' = disk /\ Held = op.prev /\ Held' = routes
    BY <1>8 DEF Installs, Held, Idle
  <2>2. op.route \in SavedRoute /\ op.prev \in SUBSET Route
    BY <2>1, InFlightType
  <2>3. Saved(routes) = Put(Saved(op.prev), op.route) /\ disk = Saved(routes)
    BY <2>1, <2>2, SavedPut DEF InFlightInv
  <2>4. Live(disk) \subseteq acked'
    BY <2>1, <2>3 DEF Put, Live
  <2>5. Saved(Held)' = disk'
    BY <2>1, <2>3 DEF Saved
  <2>6. QED
    BY <2>1, <2>4, <2>5 DEF Live
<1>9. CASE RollsBack
  <2>1. /\ op.pc = "install" /\ op'.pc = "idle" /\ acked' = acked
        /\ disk' = Saved(op.prev) /\ Held = op.prev /\ Held' = op.prev
    BY <1>1, <1>9 DEF RollsBack, Held, Idle
  <2>2. QED
    BY <2>1 DEF Saved, Live
<1>10. CASE Forgets
  <2>1. /\ op.pc = "forget" /\ op'.pc = "idle" /\ disk' = Saved(routes)
        /\ acked' = Forget(acked, op.ip, op.gateway) /\ routes' = routes
        /\ Held = op.prev /\ Held' = routes
    BY <1>10 DEF Forgets, Held, Idle
  <2>2. Saved(routes) = Forget(Saved(op.prev), op.ip, op.gateway)
    BY <2>1, InFlightType, SavedForget DEF InFlightInv
  <2>3. Live(disk') \subseteq acked'
    BY <2>1, <2>2 DEF Forget, Live
  <2>4. Saved(Held)' = disk'
    BY <2>1 DEF Saved
  <2>5. QED
    BY <2>1, <2>3, <2>4 DEF Live
<1>11. ASSUME NEW r \in Route, Erases(r)
       PROVE  RefusedInv'
  <2>1. /\ op.pc = "scan" /\ op'.pc = "scan" /\ disk' = disk /\ acked' = acked
        /\ Held = routes /\ Held' = routes \ {r}
    BY <1>11 DEF Erases, Held
  <2>2. Saved(Held)' \subseteq Saved(routes)
    BY <2>1 DEF Saved
  <2>3. QED
    BY <2>1, <2>2 DEF Live
<1>12. CASE Begins
  <2>1. op.pc = "idle"
    BY <1>12 DEF Begins, IndexInv
  <2>2. QED
    BY <1>12, <2>1 DEF Begins, Live
<1>13. ASSUME Unreads \/ Ends
       PROVE  RefusedInv'
  <2>1. op.pc = "idle" /\ op'.pc = "idle" /\ Held' = {} /\ disk' = disk /\ acked' = acked
    BY <1>1, <1>13 DEF Unreads, Ends, Held, Idle
  <2>2. QED
    BY <2>1 DEF Live, Saved
<1>14. ASSUME NEW r \in Route, Restores(r)
       PROVE  RefusedInv'
  <2>1. /\ op.pc = "restore" /\ op'.pc = "restore" /\ op'.todo = op.todo \ {r}
        /\ r \in op.todo /\ disk' = disk /\ acked' = acked
        /\ routes' \subseteq routes \cup {r}
    BY <1>14 DEF Restores, Put
  <2>2. QED
    BY <2>1 DEF Live
<1>15. CASE Loads
  <2>1. /\ op.pc = "restore" /\ op'.pc = "clean" /\ routes' = routes
        /\ disk' = disk /\ acked' = acked /\ Held' = routes
    BY <1>15 DEF Loads, Held
  <2>2. Saved(routes) = routes
    BY <1>2, <2>1, SavedSaved
  <2>3. Saved(Held)' = routes
    BY <2>1, <2>2 DEF Saved
  <2>4. QED
    BY <2>1, <2>3 DEF Live
<1>16. CASE Ages
  <2>1. /\ op.pc = "idle" /\ op'.pc = "idle" /\ disk' = Age(disk)
        /\ acked' = Live(Age(acked)) /\ Held = routes /\ Held' = Age(routes)
    BY <1>16 DEF Ages, Held, Idle
  <2>2. Live(disk') \subseteq acked'
    BY <1>2, <2>1, LiveAge, UnsavedType
  <2>3. Saved(Held)' = Age(Saved(routes))
    BY <1>2, <2>1, SavedAge DEF Saved
  <2>4. Live(Age(Saved(routes))) \subseteq acked'
    BY <1>2, <2>1, LiveAge, SavedType, UnsavedType
  <2>5. QED
    BY <2>1, <2>2, <2>3, <2>4 DEF Live
<1>17. QED
  BY <1>3, <1>4, <1>5, <1>6, <1>7, <1>8, <1>9, <1>10, <1>11, <1>12, <1>13, <1>14, <1>15,
     <1>16, FileStep

(* An add that was refused is in no later routes.db, whatever the kernel   *)
(* answers and other programs do to its table, as long as every save       *)
(* succeeds and the process is not killed: the rollback of add.  A first   *)
(* start may find a file, but only one with nothing to load.               *)
THEOREM RefusedStaysOutHolds ==
  ASSUME NoLoss, \A F \in InitialFiles : Live(F) = {}
  PROVE  Spec => []RefusedStaysOut
<1>1. Init => RefusedInv
  BY DEF Init, RefusedInv, Live, Saved, Held, Idle
<1>2. TypeOK /\ IndexInv /\ InFlightInv /\ RefusedInv /\ [Next]_vars => RefusedInv'
  BY RefusedStep
<1>3. RefusedInv => RefusedStaysOut
  BY DEF RefusedInv, RefusedStaysOut, AtRest, Idle
<1>4. QED
  BY <1>1, <1>2, <1>3, TypeCorrect, IndexCorrect, InFlightHolds, PTL DEF Spec

-----------------------------------------------------------------------------
(* The ledger.                                                             *)

(* The file has every line of S, and beyond them only lines that any save  *)
(* may leave out.                                                          *)
Behind(S) ==
  /\ Saved(S) \subseteq disk
  /\ disk \ Saved(S) \subseteq Ledger!Droppable(disk)

(* How far the file is ahead of the index.                                 *)
LedgerInv ==
  /\ op.pc = "install" => disk = Saved(routes)
  /\ op.pc = "restore" =>
       /\ routes \subseteq disk
       /\ disk \ (routes \cup op.todo) \subseteq Ledger!Droppable(disk)
  /\ Loaded /\ op.pc # "install" => Behind(Held)

(* The ledger's records are the manager's.                                 *)
LEMMA SameRecords ==
  /\ Ledger!Route = Route /\ Ledger!SavedRoute = SavedRoute
  /\ \A r : Ledger!Expired(r) <=> Expired(r)
  /\ \A S : Ledger!Live(S) = Live(S) /\ Ledger!Age(S) = Age(S)
  /\ \A S, r : Ledger!Put(S, r) = Put(S, r)
  /\ \A S, d, g : Ledger!Forget(S, d, g) = Forget(S, d, g)
BY DEF Ledger!Route, Route, Ledger!Lefts, Lefts, Ledger!Forever, Forever,
   Ledger!SavedRoute, SavedRoute, Ledger!Expired, Expired, Ledger!Live, Live,
   Ledger!Age, Age, Ledger!Older, Older, Ledger!Put, Put, Ledger!Forget, Forget

(* The lines a save may leave out.                                         *)
LEMMA Droppables ==
  ASSUME NEW S, NEW r
  PROVE  r \in Ledger!Droppable(S) <=>
           /\ r \in S
           /\ \/ Expired(r)
              \/ \E x \in S : x.ip = r.ip /\ x.gateway # r.gateway
              \/ \E x \in S : x.key = r.key /\ x.ip = r.ip /\ x # r
BY SameRecords DEF Ledger!Droppable, Ledger!Contested, Ledger!Repeated

(* Lines that differ stay apart until they have both expired.              *)
LEMMA OlderApart ==
  ASSUME NEW r \in SavedRoute, NEW x \in SavedRoute, x # r, Older(x) = Older(r)
  PROVE  Expired(Older(r))
<1>1. /\ Older(r).left = IF r.left > 0 THEN r.left - 1 ELSE r.left
      /\ Older(x).left = IF x.left > 0 THEN x.left - 1 ELSE x.left
  BY OlderLeft DEF SavedRoute
<1>2. r.left \in Int /\ x.left \in Int
  BY RoutesAssumption DEF Route, SavedRoute, Lefts, Forever
<1>3. x.left # r.left
  <2>1. x.key = r.key /\ x.ip = r.ip /\ x.gateway = r.gateway /\ x.cool = r.cool
    BY OlderType DEF SavedRoute
  <2>2. QED
    BY <2>1 DEF Route, SavedRoute
<1>4. QED
  BY <1>1, <1>2, <1>3 DEF Expired

(* What may be left out today may be left out tomorrow.                    *)
LEMMA DroppableAge ==
  ASSUME NEW S \in SUBSET SavedRoute, NEW r \in Ledger!Droppable(S)
  PROVE  Older(r) \in Ledger!Droppable(Age(S))
<1>1. r \in S /\ \A x \in S : Older(x) \in Age(S)
  BY Droppables DEF Age
<1>2. \A x \in S : /\ Older(x).key = x.key /\ Older(x).ip = x.ip
                   /\ Older(x).gateway = x.gateway
  BY OlderType DEF SavedRoute
<1>3. CASE Expired(r)
  <2>1. Expired(Older(r))
    BY <1>1, <1>3, OlderLeft DEF Expired, SavedRoute
  <2>2. QED
    BY <1>1, <2>1, Droppables
<1>4. ASSUME NEW x \in S, x.ip = r.ip, x.gateway # r.gateway
      PROVE  Older(r) \in Ledger!Droppable(Age(S))
  BY <1>1, <1>2, <1>4, Droppables
<1>5. ASSUME NEW x \in S, x.key = r.key, x.ip = r.ip, x # r
      PROVE  Older(r) \in Ledger!Droppable(Age(S))
  <2>1. CASE Older(x) = Older(r)
    <3>1. Expired(Older(r))
      BY <1>1, <1>5, <2>1, OlderApart
    <3>2. QED
      BY <1>1, <3>1, Droppables
  <2>2. CASE Older(x) # Older(r)
    BY <1>1, <1>2, <1>5, <2>2, Droppables
  <2>3. QED
    BY <2>1, <2>2
<1>6. QED
  BY <1>3, <1>4, <1>5, Droppables

(* Every line the index does not answer for is one that may be left out:   *)
(* the load passes over expired lines and over one side of a contradiction *)
(* and the worker erases what has expired.                                 *)
LEMMA LedgerInvStep ==
  ASSUME CrashFaults, TypeOK, IndexInv, InFlightInv, ScanInv, RecordInv, LedgerInv,
         [Next]_vars
  PROVE  LedgerInv'
<1> USE DEF LedgerInv
<1>1. ~KernelMayFail /\ "read" \notin Faults
  BY DEF CrashFaults, KernelMayFail
<1>2. routes \in SUBSET Route /\ disk \in SUBSET SavedRoute
  BY DEF TypeOK
<1>3. ASSUME disk' = Saved(Held)', op'.pc \notin {"install", "restore"}
      PROVE  LedgerInv'
  BY <1>3 DEF Behind
<1>4. ASSUME disk' = disk
      PROVE  Ledger!Droppable(disk)' = Ledger!Droppable(disk)
  BY <1>4 DEF Ledger!Droppable, Ledger!Contested, Ledger!Repeated, Ledger!Expired
<1>5. CASE Still
  <2>1. /\ op' = op /\ routes' = routes /\ disk' = disk /\ Loaded' = Loaded
        /\ Held' = Held /\ Saved(Held)' = Saved(Held) /\ Saved(routes)' = Saved(routes)
    BY <1>5 DEF Still, Loaded, Held, Saved
  <2>2. Ledger!Droppable(disk)' = Ledger!Droppable(disk)
    BY <1>4, <2>1
  <2>3. QED
    BY <2>1, <2>2 DEF Behind
<1>6. CASE Keeps
  BY <1>4, <1>6 DEF Keeps, Loaded, Behind
<1>7. CASE Saves
  BY <1>3, <1>7 DEF Saves, Held, Idle, Saved
<1>8. ASSUME NEW new \in SavedRoute, Refers(new)
      PROVE  LedgerInv'
  BY <1>3, <1>8 DEF Refers, Held, Idle, Saved
<1>9. ASSUME NEW new \in SavedRoute, Intends(new)
      PROVE  LedgerInv'
  BY <1>9 DEF Intends, Saved
<1>10. CASE Installs
  BY <1>3, <1>10 DEF Installs, Held, Idle, Saved
<1>11. CASE RollsBack
  BY <1>1, <1>11 DEF RollsBack
<1>12. CASE Forgets
  BY <1>3, <1>12 DEF Forgets, Held, Idle, Saved
<1>13. ASSUME NEW r \in Route, Erases(r)
       PROVE  LedgerInv'
  <2>1. /\ op.pc = "scan" /\ op'.pc = "scan" /\ r \in op.todo /\ Loaded
        /\ disk' = disk /\ Held = routes /\ Held' = routes \ {r}
    BY <1>13 DEF Erases, Held
  <2>2. Line(r) = r /\ Expired(r)
    BY <2>1, LineType DEF ScanInv
  <2>3. Behind(routes)
    BY <2>1
  <2>4. Saved(Held)' = Saved(routes \ {r})
    BY <2>1 DEF Saved
  <2>5. Saved(routes \ {r}) \subseteq Saved(routes)
        /\ Saved(routes) \ Saved(routes \ {r}) \subseteq {r}
    BY <2>2, SavedLines
  <2>6. r \in disk => r \in Ledger!Droppable(disk)
    BY <2>2, Droppables
  <2>7. QED
    BY <1>4, <2>1, <2>3, <2>4, <2>5, <2>6 DEF Behind
<1>14. CASE Begins
  <2>1. disk \ Live(disk) \subseteq Ledger!Droppable(disk)
    BY Droppables DEF Live
  <2>2. QED
    BY <1>4, <1>14, <2>1 DEF Begins, Loaded
<1>15. CASE Unreads
  BY <1>1, <1>15 DEF Unreads
<1>16. ASSUME NEW r \in Route, Restores(r)
       PROVE  LedgerInv'
  <2>1. /\ op.pc = "restore" /\ op'.pc = "restore" /\ op'.todo = op.todo \ {r}
        /\ r \in op.todo /\ disk' = disk
    BY <1>16 DEF Restores
  <2>2. routes \subseteq disk /\ r \in disk
    BY <2>1 DEF RecordInv
  <2>3. SUFFICES /\ routes' \subseteq disk
                 /\ disk \ (routes' \cup (op.todo \ {r})) \subseteq Ledger!Droppable(disk)
    BY <1>4, <2>1 DEF Loaded
  <2>4. CASE routes' = Put(routes, r)
    <3>1. routes' \subseteq disk /\ r \in routes'
      BY <2>2, <2>4 DEF Put
    <3>2. routes \ routes' \subseteq Ledger!Droppable(disk)
      BY <2>2, <2>4, Droppables DEF Put
    <3>3. QED
      BY <2>1, <3>1, <3>2
  <2>5. CASE routes' = routes /\ \E x \in routes : x.ip = r.ip /\ x.gateway # r.gateway
    <3>1. r \in Ledger!Droppable(disk)
      BY <2>2, <2>5, Droppables
    <3>2. QED
      BY <2>1, <2>5, <3>1
  <2>6. QED
    BY <1>1, <1>16, <2>4, <2>5 DEF Restores
<1>17. CASE Loads
  <2>1. /\ op.pc = "restore" /\ op'.pc = "clean" /\ op.todo = {} /\ routes' = routes
        /\ disk' = disk /\ Held' = routes
    BY <1>17 DEF Loads, Held
  <2>2. Saved(Held)' = routes
    <3>1. Saved(routes) = routes
      BY <1>2, <2>1, SavedSaved
    <3>2. QED
      BY <2>1, <3>1 DEF Saved
  <2>3. QED
    BY <1>4, <2>1, <2>2 DEF Behind
<1>18. CASE Ends
  BY <1>18 DEF Ends, Loaded, Idle
<1>19. CASE Ages
  <2>1. /\ op.pc = "idle" /\ op'.pc = "idle" /\ disk' = Age(disk) /\ Loaded' = Loaded
        /\ Held = routes /\ Held' = Age(routes)
    BY <1>19 DEF Ages, Held, Idle, Loaded
  <2>2. Saved(Held)' = Age(Saved(routes))
    BY <1>2, <2>1, SavedAge DEF Saved
  <2>3. ASSUME Behind(routes)
        PROVE  /\ Age(Saved(routes)) \subseteq Age(disk)
               /\ Age(disk) \ Age(Saved(routes)) \subseteq Ledger!Droppable(Age(disk))
    <3>1. Age(Saved(routes)) \subseteq Age(disk)
      BY <2>3 DEF Behind, Age
    <3>2. ASSUME NEW x \in Age(disk) \ Age(Saved(routes))
          PROVE  x \in Ledger!Droppable(Age(disk))
      <4>1. PICK y \in disk : x = Older(y)
        BY <3>2 DEF Age
      <4>2. y \notin Saved(routes)
        BY <3>2, <4>1 DEF Age
      <4>3. QED
        BY <1>2, <2>3, <4>1, <4>2, DroppableAge DEF Behind
    <3>3. QED
      BY <3>1, <3>2
  <2>4. Ledger!Droppable(disk)' = Ledger!Droppable(Age(disk))
    BY <2>1 DEF Ledger!Droppable, Ledger!Contested, Ledger!Repeated, Ledger!Expired
  <2>5. QED
    BY <2>1, <2>2, <2>3, <2>4 DEF Behind
<1>20. QED
  BY <1>5, <1>6, <1>7, <1>8, <1>9, <1>10, <1>11, <1>12, <1>13, <1>14, <1>15, <1>16, <1>17,
     <1>18, <1>19, FileStep

-----------------------------------------------------------------------------
(* The kernel's side of the ledger.                                        *)

(* What a step may do to the kernel's table.                               *)
KernelMoves ==
  \/ UNCHANGED kernel
  \/ kernel' = NoKernelRoutes
  \/ \E d \in Dests :
       \/ kernel' = [kernel EXCEPT ![d] = NoGateway]
       \/ \E g \in Gateways : /\ kernel' = [kernel EXCEPT ![d] = g]
                              /\ \E r \in disk : r.ip = d /\ r.gateway = g

(* A route enters the kernel with its line already in the file.            *)
LEMMA KernelStep ==
  ASSUME CrashFaults, TypeOK, RecordInv, [Next]_vars
  PROVE  KernelMoves
<1> USE DEF KernelMoves
<1>1. ASSUME NEW d \in Dests, NEW g \in Gateways, NEW ok \in BOOLEAN,
             DeleteSystemRoute(d, g, ok)
      PROVE  KernelMoves
  BY <1>1 DEF DeleteSystemRoute
<1>2. ASSUME NEW r \in disk, NEW ok \in BOOLEAN, AddSystemRoute(r.ip, r.gateway, ok)
      PROVE  KernelMoves
  <2>1. r.ip \in Dests /\ r.gateway \in Gateways
    BY DEF TypeOK, SavedRoute, Route
  <2>2. QED
    BY <1>2, <2>1 DEF AddSystemRoute
<1>3. ASSUME NEW r \in Route, Restore(r)
      PROVE  KernelMoves
  <2>1. r \in disk
    BY <1>3 DEF Restore, RecordInv
  <2>2. UNCHANGED kernel \/ \E ok \in BOOLEAN : AddSystemRoute(r.ip, r.gateway, ok)
    BY <1>3 DEF Restore
  <2>3. QED
    BY <1>2, <2>1, <2>2
<1>4. ASSUME NEW t \in Hops, Clean(t)
      PROVE  KernelMoves
  BY <1>1, <1>4 DEF Clean, Hops
<1>5. CASE AddInstall
  <2>1. op.route \in disk
    BY <1>5 DEF AddInstall, RecordInv
  <2>2. QED
    BY <1>2, <1>5, <2>1 DEF AddInstall
<1>6. CASE ForgetSave
  <2>1. PICK r \in disk : r.ip = op.ip /\ r.gateway = op.gateway
    BY <1>6 DEF ForgetSave, RecordInv
  <2>2. UNCHANGED kernel \/ \E ok \in BOOLEAN : AddSystemRoute(r.ip, r.gateway, ok)
    BY <1>6, <2>1 DEF ForgetSave
  <2>3. QED
    BY <1>2, <2>2
<1>7. ASSUME NEW d \in Dests, NEW g \in Gateways, Unroute(d, g)
      PROVE  KernelMoves
  BY <1>1, <1>7 DEF Unroute
<1>8. ASSUME NEW r \in Route, ScanErase(r) \/ ScanKeep(r)
      PROVE  KernelMoves
  <2>1. r.ip \in Dests /\ r.gateway \in Gateways
    BY DEF Route
  <2>2. UNCHANGED kernel \/ \E ok \in BOOLEAN : DeleteSystemRoute(r.ip, r.gateway, ok)
    BY <1>8 DEF ScanErase, ScanKeep
  <2>3. QED
    BY <1>1, <2>1, <2>2
<1>9. ASSUME NEW k \in Keys, NEW d \in Dests, NEW g \in Gateways, NEW ttl \in Ttls,
             AddReference(k, d, g, ttl) \/ AddPersist(k, d, g, ttl)
      PROVE  KernelMoves
  BY <1>9 DEF AddReference, AddPersist
<1>10. ASSUME NEW d \in Dests, OtherClears(d) \/ \E g \in Gateways : OtherSets(d, g)
       PROVE  FALSE
  BY <1>10 DEF OtherClears, OtherSets, CrashFaults
<1>11. CASE \/ StartRead \/ StartUnreadable \/ RestoreDone \/ StartDone \/ ScanBegin
            \/ ScanEnd \/ StopBegin \/ StopJoin \/ Exit \/ Crash \/ Reboot \/ Tick
            \/ UNCHANGED vars
  BY <1>11 DEF StartRead, StartUnreadable, RestoreDone, StartDone, ScanBegin, ScanEnd,
     StopBegin, StopJoin, Exit, Crash, Reboot, Tick, vars
<1>12. QED
  BY <1>3, <1>4, <1>5, <1>6, <1>7, <1>8, <1>9, <1>10, <1>11
  DEF Next, HolderStep, Request, Environment, Lifecycle, Remove, RemoveSystem

(* ... and a step that changes the file leaves the kernel's table alone    *)
(* and takes nothing out of the file that a save may not leave out.        *)
LEMMA BookStep ==
  ASSUME CrashFaults, TypeOK, IndexInv, IndexInv', TypeOK', InFlightInv, InstalledInv,
         RecordInv', LedgerInv, [Next]_vars, disk' # disk
  PROVE  Ledger!Next
<1>1. ~KernelMayFail
  BY DEF CrashFaults, KernelMayFail
<1>2. routes \in SUBSET Route
  BY DEF TypeOK
<1>3. Ledger!Covers(disk, kernel)'
  BY DEF RecordInv, KernelRecorded, Ledger!Covers
<1>4. ASSUME NEW b, UNCHANGED kernel,
             \E gone \in SUBSET Ledger!Droppable(disk) : disk' = b \ gone
      PROVE  Ledger!Rewrite(b)
  BY <1>3, <1>4 DEF Ledger!Rewrite
<1>5. CASE Saves
  <2>1. disk' = disk \ (disk \ Saved(routes)) /\ disk \ Saved(routes) \subseteq Ledger!Droppable(disk)
    BY <1>5 DEF Saves, LedgerInv, Behind, Held
  <2>2. Ledger!Rewrite(disk)
    BY <1>4, <1>5, <2>1 DEF Saves
  <2>3. QED
    BY <2>2 DEF Ledger!Next, Ledger!Purge
<1>6. ASSUME NEW new \in SavedRoute, Refers(new) \/ Intends(new)
      PROVE  Ledger!Next
  <2>1. /\ op.pc = "idle" /\ Loaded /\ ~Expired(new) /\ kernel' = kernel
        /\ routes' = Put(routes, new) /\ disk' = Saved(routes')
    BY <1>6 DEF Refers, Intends, Idle
  <2>2. Behind(routes)
    BY <2>1 DEF LedgerInv, Held
  <2>3. disk' = Put(Saved(routes), new)
    BY <1>2, <2>1, SavedPut
  <2>4. Ledger!Rewrite(Put(disk, new))
    <3> DEFINE gone == (disk \ Saved(routes)) \ {new}
    <3>1. gone \subseteq Ledger!Droppable(disk)
      BY <2>2 DEF Behind
    <3>2. disk' = Put(disk, new) \ gone
      BY <2>2, <2>3 DEF Behind, Put
    <3>3. QED
      BY <1>4, <2>1, <3>1, <3>2
  <2>5. new \in disk'
    BY <2>3 DEF Put
  <2>6. IsIndex(disk')
    BY <2>1, SavedIndex DEF IndexInv, TypeOK
  <2>7. Ledger!Enter(new)
    <3>1. ~Ledger!Expired(new) /\ Ledger!Rewrite(Ledger!Put(disk, new))
      BY <2>1, <2>4, SameRecords
    <3>2. \A x \in Ledger!Live(disk') : x.ip = new.ip => x.gateway = new.gateway
      BY <2>5, <2>6 DEF IsIndex, Ledger!Live
    <3>3. QED
      BY <2>5, <3>1, <3>2 DEF Ledger!Enter, Ledger!Live, Ledger!Expired
  <2>8. new \in Ledger!Route
    BY SameRecords DEF SavedRoute
  <2>9. QED
    BY <2>7, <2>8 DEF Ledger!Next
<1>7. CASE RollsBack
  BY <1>1, <1>7 DEF RollsBack
<1>8. CASE Forgets
  <2>1. op.pc = "forget" /\ Loaded /\ disk' = Saved(routes) /\ kernel' = kernel
    BY <1>8 DEF Forgets
  <2>2. op.ip \in Dests /\ op.gateway \in Gateways /\ op.prev \in SUBSET Route
    BY <2>1, InFlightType
  <2>3. Behind(op.prev)
    BY <2>1 DEF LedgerInv, Held
  <2>4. disk' = Forget(Saved(op.prev), op.ip, op.gateway)
    BY <2>1, <2>2, SavedForget DEF InFlightInv
  <2>5. disk' = Forget(disk, op.ip, op.gateway) \ (disk \ Saved(op.prev))
    BY <2>3, <2>4 DEF Behind, Forget
  <2>6. Ledger!Rewrite(Forget(disk, op.ip, op.gateway))
    BY <1>4, <2>1, <2>3, <2>5 DEF Behind
  <2>7. kernel[op.ip] # op.gateway
    BY <2>1, <2>2, RoutesAssumption DEF InstalledInv
  <2>8. Ledger!Strike(op.ip, op.gateway)
    BY <2>6, <2>7, SameRecords DEF Ledger!Strike
  <2>9. QED
    BY <2>2, <2>8 DEF Ledger!Next
<1>9. CASE Ages
  BY <1>9, SameRecords DEF Ages, Ledger!Next, Ledger!Pass
<1>10. QED
  BY <1>5, <1>6, <1>7, <1>8, <1>9, FileStep
  DEF Still, Keeps, Installs, Begins, Unreads, Loads, Ends, Erases, Restores

(* The manager keeps routes.db ahead of the kernel, whatever step it dies  *)
(* at and whichever saves fail: every step is a step of RouteLedger or     *)
(* moves neither the file nor the kernel's table.                          *)
THEOREM ImplementsLedgerHolds ==
  ASSUME CrashFaults
  PROVE  Spec => ImplementsLedger
<1>1. Init => InstalledInv /\ ScanInv /\ LedgerInv /\ Ledger!Init
  <2>1. Init => disk \subseteq SavedRoute
    BY RouteManagerAssumption DEF Init
  <2>2. Init => Ledger!Init
    BY <2>1, SameRecords DEF Init, Ledger!Init, Ledger!Bare, NoKernelRoutes
  <2>3. QED
    BY <2>2 DEF Init, InstalledInv, ScanInv, LedgerInv, Loaded, Idle
<1>2. /\ TypeOK /\ IndexInv /\ InFlightInv /\ RecordInv /\ InstalledInv /\ ScanInv
      /\ LedgerInv /\ [Next]_vars
      => InstalledInv' /\ ScanInv' /\ LedgerInv'
  BY CrashLoyal, InstalledStep, ScanStep, LedgerInvStep
<1>3. ASSUME TypeOK, TypeOK', IndexInv, IndexInv', InFlightInv, RecordInv, RecordInv',
             InstalledInv, LedgerInv, [Next]_vars
      PROVE  [Ledger!Next]_<<disk, kernel>>
  <2>1. CASE disk' # disk
    BY <1>3, <2>1, BookStep
  <2>2. CASE disk' = disk
    <3>1. KernelMoves
      BY <1>3, KernelStep
    <3>2. CASE kernel' = NoKernelRoutes
      BY <2>2, <3>2 DEF Ledger!Next, Ledger!PowerLoss, Ledger!Bare, NoKernelRoutes
    <3>3. ASSUME NEW d \in Dests, kernel' = [kernel EXCEPT ![d] = NoGateway]
          PROVE  Ledger!Next
      BY <2>2, <3>3 DEF Ledger!Next, Ledger!Disconnect
    <3>4. ASSUME NEW d \in Dests, NEW g \in Gateways, kernel' = [kernel EXCEPT ![d] = g],
                 \E r \in disk : r.ip = d /\ r.gateway = g
          PROVE  Ledger!Next
      BY <2>2, <3>4 DEF Ledger!Next, Ledger!Connect
    <3>5. QED
      BY <2>2, <3>1, <3>2, <3>3, <3>4 DEF KernelMoves
  <2>3. QED
    BY <2>1, <2>2
<1>4. QED
  BY <1>1, <1>2, <1>3, TypeCorrect, IndexCorrect, InFlightHolds, RecordCorrect, PTL
  DEF Spec, ImplementsLedger, Ledger!Spec

=============================================================================
