---------------------------- MODULE RouteManager ----------------------------
(***************************************************************************)
(* src/ip-router/route_manager.cpp: the index of managed routes, the file  *)
(* routes.db, the kernel's host routes, and everything that moves a route  *)
(* between the three: add, remove, remove_system, the expiration worker,   *)
(* start with its recovery, stop, and a process that dies at any moment.   *)
(*                                                                         *)
(* Every operation runs under routes_mutex, but not in one step: a crash,  *)
(* or another program that edits the kernel's table, comes between the     *)
(* save of routes.db and the kernel call.  `op` is what the holder of the  *)
(* mutex is in the middle of; it is Idle when the mutex is free.  A        *)
(* refused request (a gateway conflict, a record that is not there, a ttl  *)
(* that overflows) changes nothing and is a stuttering step.               *)
(*                                                                         *)
(* An operation reads the clock once, after it takes the mutex, so the     *)
(* clock ticks here only while the mutex is free.                          *)
(***************************************************************************)
EXTENDS Routes

CONSTANTS
  Faults,       \* what may go wrong in the environment, a subset of AllFaults
  InitialFiles  \* the contents routes.db may have before the first start

AllFaults ==
  { "write",     \* routes.db cannot be written or renamed
    "read",      \* routes.db exists and cannot be read at start
    "kernel",    \* the kernel refuses a route request
    "lostAck",   \* the kernel obeys and its answer does not arrive
    "crash",     \* the process dies
    "reboot",    \* the machine restarts with an empty route table
    "external" } \* a VPN or an administrator edits the route table

ASSUME RouteManagerAssumption ==
  /\ Faults \subseteq AllFaults
  /\ \A F \in InitialFiles : F \subseteq SavedRoute

VARIABLES
  phase,   \* life of the process: worker_started, worker_stopping, the join
  op,      \* what the holder of routes_mutex is doing
  routes,  \* installed_routes
  disk,    \* the records of routes.db
  kernel,  \* the next hop of each /32 host route of the main table
  others,  \* the next hop another program wants for each destination
  acked    \* history: routes whose add returned true, until they expire or a
           \* remove returns true

vars == <<phase, op, routes, disk, kernel, others, acked>>

NoKernelRoutes == [d \in Dests |-> NoGateway]

-----------------------------------------------------------------------------
(* What the holder of the mutex carries between two of its steps.          *)

Idle == [pc |-> "idle"]

Hops == [ip: Dests, gateway: Gateways]

Ops ==
  {Idle}
  \cup [pc: {"install"}, route: SavedRoute, prev: SUBSET Route]
  \cup [pc: {"forget"}, ip: Dests, gateway: Gateways, prev: SUBSET Route]
  \cup [pc: {"scan"}, todo: SUBSET Route, changed: BOOLEAN]
  \cup [pc: {"restore"}, todo: SUBSET Route, failed: BOOLEAN]
  \cup [pc: {"clean"}, todo: SUBSET Hops, failed: BOOLEAN]

(* The handlers run from the end of proc_on_init until the process is gone.*)
Serving == phase \in {"up", "stopping", "stopped"}

TypeOK ==
  /\ phase \in {"down", "starting", "up", "stopping", "stopped"}
  /\ op \in Ops
  /\ routes \subseteq Route
  /\ disk \subseteq SavedRoute
  /\ kernel \in [Dests -> Gateways \cup {NoGateway}]
  /\ others \in [Dests -> Gateways \cup {NoGateway}]
  /\ acked \subseteq SavedRoute

Init ==
  /\ phase = "down"
  /\ op = Idle
  /\ routes = {}
  /\ disk \in InitialFiles
  /\ kernel = NoKernelRoutes
  /\ others = NoKernelRoutes
  /\ acked = {}

-----------------------------------------------------------------------------
(* The three effects an operation has outside the process.  `ok` is what   *)
(* the call returns.                                                       *)

(* Write routes.db.tmp and rename it over routes.db.                       *)
SaveRoutes(S, ok) ==
  \/ ok /\ disk' = Saved(S)
  \/ ~ok /\ "write" \in Faults /\ UNCHANGED disk

(* mistake: the answer is not looked at                                    *)
AddUnchecked(d, g, ok) ==
  /\ ok
  /\ \/ kernel' = [kernel EXCEPT ![d] = g]
     \/ "kernel" \in Faults /\ UNCHANGED kernel

(* RTM_NEWROUTE with CREATE|REPLACE; RTM_ADD then RTM_CHANGE on EEXIST.    *)
AddSystemRoute(d, g, ok) ==
  \/ /\ ok \/ "lostAck" \in Faults
     /\ kernel' = [kernel EXCEPT ![d] = g]
  \/ ~ok /\ "kernel" \in Faults /\ UNCHANGED kernel

(* RTM_DELROUTE matches destination and gateway, or answers ESRCH; Linux   *)
(* matches the protocol too, and another program's route may have its own. *)
DeleteSystemRoute(d, g, ok) ==
  \/ /\ ok \/ "lostAck" \in Faults
     /\ kernel[d] = g
     /\ kernel' = [kernel EXCEPT ![d] = NoGateway]
  \/ /\ ~ok
     /\ \/ kernel[d] # g
        \/ "kernel" \in Faults
        \/ "external" \in Faults /\ others[d] = g
     /\ UNCHANGED kernel

-----------------------------------------------------------------------------
(* route_manager::start: load_routes_locked, with the mutex held.          *)

StartRead ==
  /\ phase = "down"
  /\ phase' = "starting"
  /\ routes' = {}
  /\ op' = [pc |-> "restore", todo |-> Live(disk), failed |-> FALSE]
  /\ UNCHANGED <<disk, kernel, others, acked>>

(* routes.db is there but cannot be read: start logs it and serves with an *)
(* empty index.                                                            *)
StartUnreadable ==
  /\ phase = "down"
  /\ "read" \in Faults
  /\ phase' = "up"
  /\ routes' = {}
  /\ UNCHANGED <<op, disk, kernel, others, acked>>

(* One unexpired record.  active_system_routes maps the destinations       *)
(* restored so far to their gateways: it is the index being built.         *)
Restore(r) ==
  /\ op.pc = "restore"
  /\ r \in op.todo
  /\ LET active == {x \in routes : x.ip = r.ip}
     IN  \/ /\ \E x \in active : x.gateway # r.gateway
            /\ op' = [op EXCEPT !.todo = @ \ {r}]
            /\ UNCHANGED <<routes, kernel>>
         \/ /\ active # {}
            /\ \A x \in active : x.gateway = r.gateway
            /\ routes' = Put(routes, r)
            /\ op' = [op EXCEPT !.todo = @ \ {r}]
            /\ UNCHANGED kernel
         \/ /\ active = {}
            /\ \E ok \in BOOLEAN :
                 /\ AddSystemRoute(r.ip, r.gateway, ok)
                 /\ routes' = IF ok THEN Put(routes, r) ELSE routes
                 /\ op' = [op EXCEPT !.todo = @ \ {r},
                                     !.failed = @ \/ ~ok]
  /\ UNCHANGED <<phase, disk, others, acked>>

(* The expired records are left: their system routes go, unless the        *)
(* destination was restored for another record.                            *)
NothingToClean == {}  \* mistake: the load only skips expired records

ToClean ==
  {[ip |-> r.ip, gateway |-> r.gateway] :
     r \in {x \in disk : Expired(x) /\ \A y \in routes : y.ip # x.ip}}

RestoreDone ==
  /\ op.pc = "restore"
  /\ op.todo = {}
  /\ op' = [pc |-> "clean", todo |-> ToClean, failed |-> op.failed]
  /\ UNCHANGED <<phase, routes, disk, kernel, others, acked>>

(* A delete that fails is logged and the record is dropped all the same.   *)
Clean(t) ==
  /\ op.pc = "clean"
  /\ t \in op.todo
  /\ \E ok \in BOOLEAN : DeleteSystemRoute(t.ip, t.gateway, ok)
  /\ op' = [op EXCEPT !.todo = @ \ {t}]
  /\ UNCHANGED <<phase, routes, disk, others, acked>>

(* routes.db is rewritten unless a restore failed; the worker starts.      *)
StartDone ==
  /\ op.pc = "clean"
  /\ op.todo = {}
  /\ IF op.failed THEN UNCHANGED disk
                  ELSE \E ok \in BOOLEAN : SaveRoutes(routes, ok)
  /\ phase' = "up"
  /\ op' = Idle
  /\ UNCHANGED <<routes, kernel, others, acked>>

-----------------------------------------------------------------------------
(* route_manager::add.                                                     *)

RoutedAtAll(d, g) == \E r \in routes : r.ip = d  \* mistake: any gateway will do

RoutedVia(d, g) == \E r \in routes : r.ip = d /\ r.gateway = g

(* The destination already goes through g for this key (a refresh) or for  *)
(* another one (a shared reference): the kernel is not touched.            *)
AddReference(k, d, g, ttl) ==
  /\ op = Idle
  /\ Serving
  /\ RoutedVia(d, g)
  /\ LET new == NewRoute(k, d, g, Lifetime(ttl))
     IN  \E ok \in BOOLEAN :
           /\ SaveRoutes(Put(routes, new), ok)
           /\ routes' = IF ok THEN Put(routes, new) ELSE routes
           /\ acked' = IF ok THEN Put(acked, new) ELSE acked
  /\ UNCHANGED <<phase, op, kernel, others>>

(* mistake: the kernel first, the file after it                            *)
AddKernelFirst(k, d, g, ttl) ==
  /\ op = Idle
  /\ Serving
  /\ \A r \in routes : r.ip # d
  /\ kernel' = [kernel EXCEPT ![d] = g]
  /\ routes' = Put(routes, NewRoute(k, d, g, Lifetime(ttl)))
  /\ op' = [pc |-> "install", route |-> NewRoute(k, d, g, Lifetime(ttl)),
            prev |-> routes]
  /\ UNCHANGED <<phase, disk, others, acked>>

(* No key refers to the destination: save first, the kernel call follows.  *)
AddPersist(k, d, g, ttl) ==
  /\ op = Idle
  /\ Serving
  /\ \A r \in routes : r.ip # d
  /\ LET new == NewRoute(k, d, g, Lifetime(ttl))
     IN  \E ok \in BOOLEAN :
           /\ SaveRoutes(Put(routes, new), ok)
           /\ routes' = IF ok THEN Put(routes, new) ELSE routes
           /\ op' = IF ok THEN [pc |-> "install", route |-> new, prev |-> routes]
                          ELSE Idle
  /\ UNCHANGED <<phase, kernel, others, acked>>

RollbackMemory(S) == routes' = S /\ UNCHANGED disk  \* mistake: the file keeps it

Rollback(S) ==
  /\ routes' = S
  /\ \E saved \in BOOLEAN : SaveRoutes(S, saved)

(* The kernel call of AddPersist.  When it fails the index and the file    *)
(* get their previous contents back; the rollback's own failure is logged. *)
AddInstall ==
  /\ op.pc = "install"
  /\ \E ok \in BOOLEAN :
       /\ AddSystemRoute(op.route.ip, op.route.gateway, ok)
       /\ IF ok THEN /\ acked' = Put(acked, op.route)
                     /\ UNCHANGED <<routes, disk>>
                ELSE Rollback(op.prev) /\ UNCHANGED acked
  /\ op' = Idle
  /\ UNCHANGED <<phase, others>>

-----------------------------------------------------------------------------
(* route_manager::remove and route_manager::remove_system.                 *)

(* Delete the system route, then every key's reference to it.              *)
Unroute(d, g) ==
  /\ \E ok \in BOOLEAN :
       /\ DeleteSystemRoute(d, g, ok)
       /\ routes' = IF ok THEN Forget(routes, d, g) ELSE routes
       /\ op' = IF ok THEN [pc |-> "forget", ip |-> d, gateway |-> g,
                            prev |-> routes]
                      ELSE Idle
  /\ UNCHANGED <<phase, disk, others, acked>>

Remove(k, d, g) ==
  /\ op = Idle
  /\ Serving
  /\ \E r \in routes : r.key = k /\ r.ip = d /\ r.gateway = g
  /\ Unroute(d, g)

(* list_system_routes: the unicast /32 routes of the main table that have  *)
(* a gateway and are static.  Another program's route may be of another    *)
(* protocol and not be listed; then the request is refused.                *)
Listed(d, g) == kernel[d] = g

(* remove_system looks for the route in the kernel, not in the index.      *)
RemoveSystem(d, g) ==
  /\ op = Idle
  /\ Serving
  /\ Listed(d, g)
  /\ Unroute(d, g)

(* The save that ends both.  When it fails the references come back and    *)
(* the system route is added again, whether or not that succeeds.          *)
ForgetSave ==
  /\ op.pc = "forget"
  /\ \E saved \in BOOLEAN :
       /\ SaveRoutes(routes, saved)
       /\ IF saved
          THEN /\ acked' = Forget(acked, op.ip, op.gateway)
               /\ UNCHANGED <<routes, kernel>>
          ELSE /\ routes' = op.prev
               /\ \E ok \in BOOLEAN : AddSystemRoute(op.ip, op.gateway, ok)
               /\ UNCHANGED acked
  /\ op' = Idle
  /\ UNCHANGED <<phase, others>>

-----------------------------------------------------------------------------
(* expire_routes: one pass of the worker thread, under the mutex.          *)

ScanBegin ==
  /\ op = Idle
  /\ phase = "up"
  /\ Due(routes) # {}
  /\ op' = [pc |-> "scan", todo |-> Due(routes), changed |-> FALSE]
  /\ UNCHANGED <<phase, routes, disk, kernel, others, acked>>

(* mistake: a reference that has expired itself does not count             *)
ReferencedByLive(r) ==
  \E x \in routes : x.key # r.key /\ x.ip = r.ip /\ ~Expired(x)

(* referenced_elsewhere: another key still holds the destination.          *)
ReferencedElsewhere(r) == \E x \in routes : x.key # r.key /\ x.ip = r.ip

ScanErase(r) ==
  /\ op.pc = "scan"
  /\ r \in op.todo
  /\ \/ ReferencedElsewhere(r) /\ UNCHANGED kernel
     \/ ~ReferencedElsewhere(r) /\ DeleteSystemRoute(r.ip, r.gateway, TRUE)
  /\ routes' = routes \ {r}
  /\ op' = [op EXCEPT !.todo = @ \ {r}, !.changed = TRUE]
  /\ UNCHANGED <<phase, disk, others, acked>>

(* The kernel says no: the record stays, to be tried again later.          *)
ScanKeep(r) ==
  /\ op.pc = "scan"
  /\ r \in op.todo
  /\ ~ReferencedElsewhere(r)
  /\ DeleteSystemRoute(r.ip, r.gateway, FALSE)
  /\ routes' = (routes \ {r}) \cup {[r EXCEPT !.cool = RetryAfter]}
  /\ op' = [op EXCEPT !.todo = @ \ {r}]
  /\ UNCHANGED <<phase, disk, others, acked>>

(* The pass is over; a failed save is logged and the index stays as it is. *)
ScanEnd ==
  /\ op.pc = "scan"
  /\ op.todo = {}
  /\ IF op.changed THEN \E ok \in BOOLEAN : SaveRoutes(routes, ok)
                   ELSE UNCHANGED disk
  /\ op' = Idle
  /\ UNCHANGED <<phase, routes, kernel, others, acked>>

-----------------------------------------------------------------------------
(* route_manager::stop, and the ends of a process.                         *)

(* worker_stopping = true, under the mutex.                                *)
StopBegin ==
  /\ op = Idle
  /\ phase = "up"
  /\ phase' = "stopping"
  /\ UNCHANGED <<op, routes, disk, kernel, others, acked>>

(* The join returned, the mutex was taken again, worker_started = false.   *)
StopJoin ==
  /\ op = Idle
  /\ phase = "stopping"
  /\ phase' = "stopped"
  /\ UNCHANGED <<op, routes, disk, kernel, others, acked>>

(* The process is gone: memory is lost, the file and the kernel are not.   *)
ProcessEnds ==
  /\ phase' = "down"
  /\ op' = Idle
  /\ routes' = {}
  /\ UNCHANGED <<disk, acked>>

Exit ==
  /\ phase = "stopped"
  /\ op = Idle
  /\ ProcessEnds
  /\ UNCHANGED <<kernel, others>>

Crash ==
  /\ "crash" \in Faults
  /\ phase # "down"
  /\ ProcessEnds
  /\ UNCHANGED <<kernel, others>>

Reboot ==
  /\ "reboot" \in Faults
  /\ ProcessEnds
  /\ kernel' = NoKernelRoutes
  /\ others' = NoKernelRoutes

-----------------------------------------------------------------------------
(* The clock, and the other programs that edit the route table.            *)

Tick ==
  /\ op = Idle
  /\ routes' = Age(routes)
  /\ disk' = Age(disk)
  /\ acked' = Live(Age(acked))
  /\ UNCHANGED <<phase, op, kernel, others>>

OtherSets(d, g) ==
  /\ "external" \in Faults
  /\ kernel' = [kernel EXCEPT ![d] = g]
  /\ others' = [others EXCEPT ![d] = g]
  /\ UNCHANGED <<phase, op, routes, disk, acked>>

OtherClears(d) ==
  /\ "external" \in Faults
  /\ others[d] # NoGateway
  /\ others' = [others EXCEPT ![d] = NoGateway]
  /\ kernel' = IF kernel[d] = others[d]
               THEN [kernel EXCEPT ![d] = NoGateway] ELSE kernel
  /\ UNCHANGED <<phase, op, routes, disk, acked>>

-----------------------------------------------------------------------------

(* What the holder of the mutex does next.                                 *)
HolderStep ==
  \/ RestoreDone \/ StartDone \/ AddInstall \/ ForgetSave \/ ScanEnd
  \/ \E r \in Route : Restore(r) \/ ScanErase(r) \/ ScanKeep(r)
  \/ \E t \in Hops : Clean(t)

Request ==
  \E d \in Dests, g \in Gateways :
    \/ RemoveSystem(d, g)
    \/ \E k \in Keys : \/ Remove(k, d, g)
                       \/ \E ttl \in Ttls : \/ AddReference(k, d, g, ttl)
                                            \/ AddPersist(k, d, g, ttl)

Environment ==
  \/ Crash \/ Reboot \/ Tick
  \/ \E d \in Dests : OtherClears(d) \/ \E g \in Gateways : OtherSets(d, g)

Lifecycle == StartRead \/ StartUnreadable \/ StopBegin \/ StopJoin \/ Exit

Next == HolderStep \/ Request \/ ScanBegin \/ Lifecycle \/ Environment

Spec == Init /\ [][Next]_vars

(***************************************************************************)
(* Fairness.  The holder of the mutex runs on.  The worker gets the mutex  *)
(* in the end though requests keep taking it, its deletion of one record   *)
(* does not fail for ever when it could succeed, and the clock moves,      *)
(* however often the mutex is taken.                                       *)
(***************************************************************************)
Fairness ==
  /\ WF_vars(HolderStep)
  /\ SF_vars(Tick)
  /\ SF_vars(ScanBegin)
  /\ \A k \in Keys, d \in Dests :
       SF_vars(\E r \in Route : r.key = k /\ r.ip = d /\ ScanErase(r))

FairSpec == Spec /\ Fairness

-----------------------------------------------------------------------------
(* Properties.  Each one says under which Faults it is claimed.            *)

AtRest == Serving /\ op = Idle

(* Two keys that share a destination agree on its gateway, always: one     *)
(* kernel route serves them both.  add refuses a conflict, and the load of *)
(* a file with conflicting lines keeps one side of it.  Under any faults.  *)
OneGateway ==
  \A a, b \in routes : a.ip = b.ip => a.gateway = b.gateway

(* Between two operations every managed route is in the kernel: no failed  *)
(* save, failed kernel call or restart leaves an index entry without its   *)
(* system route.  Not for the faults that act behind the index's back, and *)
(* not when a save and then its rollback's kernel call both fail.          *)
ManagedInstalled ==
  AtRest => \A r \in routes : kernel[r.ip] = r.gateway

(* Between two operations every kernel route belongs to a managed one: the *)
(* crash between a kernel call and the save next to it is repaired by the  *)
(* next start.  For write, crash and reboot.                               *)
KernelOwned ==
  AtRest => \A d \in Dests : kernel[d] # NoGateway =>
              \E r \in routes : r.ip = d /\ r.gateway = kernel[d]

(* Write-ahead, at every step: what is in the kernel is in routes.db, so a *)
(* process that dies here leaves no route that nobody knows of.            *)
KernelRecorded ==
  \A d \in Dests : kernel[d] # NoGateway =>
    \E r \in disk : r.ip = d /\ r.gateway = kernel[d]

(* What add has acknowledged is in routes.db until it expires or a remove  *)
(* is acknowledged, with the lifetime that was asked for: a crash cannot   *)
(* lose it.                                                                *)
AckedDurable == acked \subseteq disk

(* ... and between two operations, restarts included, it is in the index   *)
(* and in the kernel.                                                      *)
AckedInForce ==
  AtRest => /\ acked \subseteq Saved(routes)
            /\ \A r \in acked : kernel[r.ip] = r.gateway

(* An add that returned false leaves nothing a later start would load:     *)
(* between two operations the unexpired records of routes.db are the       *)
(* acknowledged ones.                                                      *)
RefusedStaysOut == AtRest => Live(disk) \subseteq acked

(* routes.db is a ledger kept ahead of the kernel: RouteLedger says what   *)
(* that means.  For write, crash and reboot.                               *)
Ledger == INSTANCE RouteLedger WITH book <- disk, wire <- kernel

ImplementsLedger == Ledger!Spec

(* To its callers the manager is a table that changes in single steps: a   *)
(* request that is under way, or will be rolled back, has not happened.    *)
(* Under any faults.                                                       *)
Visible == IF op.pc \in {"install", "forget"} THEN op.prev ELSE routes

Table == INSTANCE RouteTable WITH
  table <- {[key |-> r.key, ip |-> r.ip, gateway |-> r.gateway] : r \in Visible}

ImplementsTable == Table!TableSpec

(* The step is the worker's, and takes destination d out of the kernel.    *)
WorkerDeletes(d) ==
  /\ op.pc = "scan" /\ phase' = phase /\ UNCHANGED others
  /\ kernel[d] # NoGateway /\ kernel'[d] = NoGateway

(* The worker takes a route out of the kernel only when no key refers to   *)
(* the destination any more.  Under any faults.                            *)
WorkerKeepsShared ==
  [][ \A d \in Dests :
        WorkerDeletes(d) => \A a, b \in routes : a.ip = d /\ b.ip = d => a = b ]_vars

(* ... and only a route of ip-router's own: what a VPN put there stays.    *)
WorkerSparesOthers ==
  [][ \A d \in Dests : WorkerDeletes(d) => others[d] # kernel[d] ]_vars

(* A positive ttl ends: while the service is up an expired reference goes, *)
(* or is renewed, even if the kernel refuses now and then.                 *)
ExpiredHeld(k, d) ==
  phase = "up" /\ \E r \in routes : r.key = k /\ r.ip = d /\ Expired(r)

ExpiryCompletes ==
  \A k \in Keys, d \in Dests : ExpiredHeld(k, d) ~> ~ExpiredHeld(k, d)

=============================================================================
