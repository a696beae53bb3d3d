---------------------------- MODULE RouteService ----------------------------
(***************************************************************************)
(* src/ip-router/route_service.cpp: the HTTP handlers that change routes   *)
(* and the global gateway.  A handler is not atomic: POST /route fixes the *)
(* gateway once and then adds address by address, DELETE /route works      *)
(* through a list it took at its beginning, and each call takes and leaves *)
(* routes_mutex on its own.                                                *)
(*                                                                         *)
(* One handler is followed in detail, `req`.  The rest of the process,     *)
(* handlers on other fibers and threads and the expiration worker, reaches *)
(* the same state only through the manager's operations, so that it is any *)
(* sequence of steps of RouteTable and of changes of the settings.         *)
(*                                                                         *)
(* A request that is turned down with 400 changes nothing and is a         *)
(* stuttering step.                                                        *)
(***************************************************************************)
EXTENDS RouteTable

CONSTANTS
  NoGateway,  \* no gateway configured, or none in the request
  Faults      \* what may go wrong, a subset of AllFaults

AllFaults ==
  { "manager",     \* an add or a remove fails: routes.db or the kernel
    "store",       \* routes.db.global cannot be written
    "unreadable",  \* routes.db.global is there and start cannot read it
    "restart" }    \* the process ends and is started again

ASSUME RouteServiceAssumption ==
  /\ NoGateway \notin Gateways
  /\ Faults \subseteq AllFaults

VARIABLES
  settings,  \* global_gateway and force_global_gateway
  saved,     \* what routes.db.global says
  unread,    \* history: the last start could not read routes.db.global, and
             \* nothing has been saved in it since
  req        \* the request of the handler that is followed

vars == <<table, settings, saved, unread, req>>

-----------------------------------------------------------------------------

NoGlobal == [gateway |-> NoGateway, force |-> FALSE]

Settings == [gateway: Gateways, force: BOOLEAN] \cup {NoGlobal}

(* todo, done and failed: the references of the request not yet worked on, *)
(* and those the answer reports as a success or not.  Two histories:       *)
(* before, which of them were in the table when the request began, and     *)
(* touched, which of them the rest of the process changed since.           *)
Idle == [pc |-> "idle"]

Changes ==
  [pc: {"adding", "deleting"}, todo: SUBSET Ref, done: SUBSET Ref,
   failed: SUBSET Ref, before: SUBSET Ref, touched: SUBSET Ref]

TypeOK ==
  /\ table \subseteq Ref
  /\ settings \in Settings
  /\ saved \in Settings
  /\ unread \in BOOLEAN
  /\ req \in {Idle} \cup Changes

Init ==
  /\ Empty
  /\ settings = NoGlobal
  /\ saved = NoGlobal
  /\ unread = FALSE
  /\ req = Idle

Busy == req # Idle

Wanted(q) == q.todo \cup q.done \cup q.failed

Begin(pc, refs) ==
  req' = [pc |-> pc, todo |-> refs, done |-> {}, failed |-> {},
          before |-> refs \cap table, touched |-> {}]

Succeeded(r) == req' = [req EXCEPT !.todo = @ \ {r}, !.done = @ \cup {r}]

Failed(r) == req' = [req EXCEPT !.todo = @ \ {r}, !.failed = @ \cup {r}]

-----------------------------------------------------------------------------
(* POST /route, for one address or for a list.                             *)

(* resolve_add_gateway.                                                    *)
Effective(requested) ==
  IF settings # NoGlobal /\ (settings.force \/ requested = NoGateway)
  THEN settings.gateway
  ELSE requested

(* mistake: the gateway is not looked at again after the settings are      *)
AddUnvalidated(k, D, requested) ==
  /\ ~Busy
  /\ Begin("adding", {[key |-> k, ip |-> d, gateway |-> Effective(requested)] : d \in D})
  /\ UNCHANGED <<table, settings, saved, unread>>

AddBegin(k, D, requested) ==
  /\ ~Busy
  /\ Effective(requested) # NoGateway
  /\ Begin("adding", {[key |-> k, ip |-> d, gateway |-> Effective(requested)] : d \in D})
  /\ UNCHANGED <<table, settings, saved, unread>>

(* One call of route_manager::add.                                         *)
AddOne(r) ==
  /\ Busy
  /\ req.pc = "adding"
  /\ r \in req.todo
  /\ \/ Add(r.key, r.ip, r.gateway) /\ Succeeded(r)
     \/ /\ ~Agrees(r.ip, r.gateway) \/ "manager" \in Faults
        /\ Failed(r)
        /\ UNCHANGED table
  /\ UNCHANGED <<settings, saved, unread>>

-----------------------------------------------------------------------------
(* DELETE /route, by key, by address or by both.                           *)

(* route_manager::list, and the filter; K or D is everything when its      *)
(* parameter is not given.                                                 *)
DeleteBegin(K, D) ==
  /\ ~Busy
  /\ Begin("deleting", {r \in table : r.key \in K /\ r.ip \in D})
  /\ UNCHANGED <<table, settings, saved, unread>>

AlreadyDeletedKey(r) == \E x \in req.done : x.key = r.key  \* mistake: the id is the key

(* deleted_system_routes: the first key's remove took the others' along.   *)
AlreadyDeleted(r) ==
  \E x \in req.done : x.ip = r.ip /\ x.gateway = r.gateway

(* One round of the loop: one call of route_manager::remove at most.       *)
DeleteOne(r) ==
  /\ Busy
  /\ req.pc = "deleting"
  /\ r \in req.todo
  /\ \/ AlreadyDeleted(r) /\ Succeeded(r) /\ UNCHANGED table
     \/ /\ ~AlreadyDeleted(r)
        /\ r \in table
        /\ Drop(r.ip, r.gateway)
        /\ Succeeded(r)
     \/ /\ ~AlreadyDeleted(r)
        /\ r \notin table \/ "manager" \in Faults
        /\ Failed(r)
        /\ UNCHANGED table
  /\ UNCHANGED <<settings, saved, unread>>

-----------------------------------------------------------------------------
(* The answer.                                                             *)

StatusSome(q) == IF q.done # {} THEN 200 ELSE 500  \* mistake: any success counts

StatusAll(q) == IF q.failed = {} THEN 200 ELSE 500  \* mistake: no 207

(* 404: a DELETE that matched nothing.                                     *)
Status(q) ==
  IF Wanted(q) = {} THEN 404
  ELSE IF q.failed = {} THEN 200
  ELSE IF q.done = {} THEN 500
  ELSE 207

Answered == Busy /\ req.todo = {}

Reply ==
  /\ Answered
  /\ req' = Idle
  /\ UNCHANGED <<table, settings, saved, unread>>

-----------------------------------------------------------------------------
(* POST and DELETE /route-settings, of any handler.                        *)

(* mistake: turning the global gateway off is not taken back               *)
SetGlobalKept(s) ==
  /\ \/ settings' = s /\ saved' = s /\ unread' = FALSE
     \/ /\ "store" \in Faults
        /\ settings' = IF s = NoGlobal THEN s ELSE settings
        /\ UNCHANGED <<saved, unread>>
  /\ UNCHANGED <<table, req>>

(* route_manager::set_global_route, which takes the old settings back when *)
(* they cannot be saved.                                                   *)
SetGlobal(s) ==
  /\ \/ settings' = s /\ saved' = s /\ unread' = FALSE
     \/ "store" \in Faults /\ UNCHANGED <<settings, saved, unread>>
  /\ UNCHANGED <<table, req>>

-----------------------------------------------------------------------------
(* The rest of the process.                                                *)

(* What others change under a request is noted in its history.             *)
Noted ==
  /\ req' = IF Busy
            THEN [req EXCEPT !.touched =
                    @ \cup (Wanted(req) \cap ((table \ table') \cup (table' \ table)))]
            ELSE req
  /\ UNCHANGED <<settings, saved, unread>>

OtherAdds(k, d, g) == Add(k, d, g) /\ Noted

(* DELETE /route of another handler, or DELETE /system-route.              *)
OtherDrops(d, g) == Drop(d, g) /\ Noted

WorkerLapses(r) == Lapse(r) /\ Noted

(* The process ends, and start loads both files: what it finds in          *)
(* routes.db is RouteManager's subject, here it is any table in which a    *)
(* destination has one gateway.                                            *)
Restart ==
  /\ "restart" \in Faults
  /\ table' \in SUBSET Ref
  /\ \A a, b \in table' : a.ip = b.ip => a.gateway = b.gateway
  /\ \/ settings' = saved /\ unread' = FALSE
     \/ "unreadable" \in Faults /\ settings' = NoGlobal /\ unread' = TRUE
  /\ req' = Idle
  /\ UNCHANGED saved

-----------------------------------------------------------------------------

(* The filters of a DELETE: not both may be missing.                       *)
Filters ==
  {<<{k}, Dests>> : k \in Keys} \cup {<<Keys, {d}>> : d \in Dests}
  \cup {<<{k}, {d}>> : k \in Keys, d \in Dests}

Arrival ==
  \/ \E k \in Keys, D \in SUBSET Dests \ {{}}, g \in Gateways \cup {NoGateway} :
       AddBegin(k, D, g)
  \/ \E f \in Filters : DeleteBegin(f[1], f[2])

HandlerStep == Reply \/ \E r \in Ref : AddOne(r) \/ DeleteOne(r)

Others ==
  \/ \E s \in Settings : SetGlobal(s)
  \/ \E d \in Dests, g \in Gateways :
       OtherDrops(d, g) \/ \E k \in Keys : OtherAdds(k, d, g)
  \/ \E r \in Ref : WorkerLapses(r)

Next == Arrival \/ HandlerStep \/ Others \/ Restart

Spec == Init /\ [][Next]_vars

-----------------------------------------------------------------------------

(* A POST answered 200 has added every address it named: each is in the    *)
(* table, or someone else has removed it since the request began.          *)
AddedMeansThere ==
  Answered /\ req.pc = "adding" /\ Status(req) = 200
    => Wanted(req) \subseteq table \cup req.touched

(* A DELETE answered 200 has deleted every reference that matched when it  *)
(* began, the ones it skipped as already deleted included: none is in the  *)
(* table, unless someone else has put it there since.                      *)
DeletedMeansGone ==
  Answered /\ req.pc = "deleting" /\ Status(req) = 200
    => Wanted(req) \cap table \subseteq req.touched

(* An answer of 500 means that nothing was done: what differs from the     *)
(* beginning of the request, others have changed.  Half a batch is a 207.  *)
FailureChangesNothing ==
  Answered /\ Status(req) = 500
    => \A r \in Wanted(req) \ req.touched : r \in table <=> r \in req.before

(* What the handlers use is what the next start will find: a refused       *)
(* change is not in memory, an accepted one is in the file.  Only when the *)
(* last start could not read the file is the global gateway off whatever   *)
(* the file says, until a change has been saved.                           *)
SettingsAreFile == settings = IF unread THEN NoGlobal ELSE saved

(* A DELETE takes away references that matched it, and no others.          *)
DeleteKeepsOthers ==
  [][ Busy /\ Busy' /\ req.pc = "deleting" /\ req'.todo # req.todo
        => table \ table' \subseteq Wanted(req) ]_vars

=============================================================================
