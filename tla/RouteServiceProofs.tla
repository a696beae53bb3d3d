------------------------- MODULE RouteServiceProofs -------------------------
(***************************************************************************)
(* The handlers of route_service.cpp, proved for any keys, addresses,      *)
(* gateways and faults, and for requests of any length.                    *)
(*                                                                         *)
(* The three properties of an answer speak of a request that has nothing   *)
(* left to do.  They are not inductive: what an answer says of an address  *)
(* was settled rounds earlier, while others were at the same table.        *)
(* HandlerInv says what holds of it between two rounds of the loop.        *)
(***************************************************************************)
EXTENDS RouteService, TLAPS

-----------------------------------------------------------------------------
(* The inductive invariant.                                                *)

(* The loop visits a reference once: it is waiting or it is settled, and   *)
(* it is settled in one way.                                               *)
Partition(q) ==
  /\ q.todo \cap q.done = {}
  /\ q.todo \cap q.failed = {}
  /\ q.done \cap q.failed = {}

(* What the request has not changed is as it was, others' changes aside.   *)
Unchanged(q, R) == \A r \in R \ q.touched : r \in table <=> r \in q.before

(* A POST leaves alone what it has not added, and what it has added stays. *)
AddInv(q) ==
  /\ Unchanged(q, q.todo \cup q.failed)
  /\ q.done \subseteq table \cup q.touched

(* A DELETE has changed nothing before its first success.  With a success  *)
(* every key's reference to the same destination and gateway has gone, the *)
(* ones that still wait in the list included: that is why the loop may     *)
(* skip them.                                                              *)
DeleteInv(q) ==
  /\ q.done = {} => Unchanged(q, q.todo \cup q.failed)
  /\ \A x \in q.done : Hop(x.ip, x.gateway) \cap Wanted(q) \cap table \subseteq q.touched

HandlerInv ==
  Busy => /\ Partition(req)
          /\ req.pc = "adding" => AddInv(req)
          /\ req.pc = "deleting" => DeleteInv(req)

Inv == TypeOK /\ HandlerInv

-----------------------------------------------------------------------------
(* Types.                                                                  *)

(* A handler at work has a request with every field of its type.           *)
LEMMA BusyType ==
  ASSUME TypeOK, Busy
  PROVE  req \in Changes
BY DEF TypeOK, Busy

(* A settled round, a success or not, moves one reference and touches no   *)
(* other field.                                                            *)
LEMMA SettledType ==
  ASSUME req \in Changes, NEW r \in req.todo, Succeeded(r) \/ Failed(r)
  PROVE  /\ req' \in Changes
         /\ req'.pc = req.pc
         /\ req'.todo = req.todo \ {r}
         /\ req'.before = req.before
         /\ req'.touched = req.touched
         /\ Wanted(req') = Wanted(req)
<1>1. CASE Succeeded(r)
  <2>1. req' = [req EXCEPT !.todo = req.todo \ {r}, !.done = req.done \cup {r}]
    BY <1>1 DEF Succeeded
  <2>2. QED
    BY <2>1 DEF Changes, Wanted
<1>2. CASE Failed(r)
  <2>1. req' = [req EXCEPT !.todo = req.todo \ {r}, !.failed = req.failed \cup {r}]
    BY <1>2 DEF Failed
  <2>2. QED
    BY <2>1 DEF Changes, Wanted
<1>3. QED
  BY <1>1, <1>2

(* The list of a request is fixed when it begins, with nothing settled and *)
(* nothing touched.                                                        *)
LEMMA BeginType ==
  ASSUME NEW pc \in {"adding", "deleting"}, NEW R \in SUBSET Ref, Begin(pc, R)
  PROVE  /\ req' \in Changes
         /\ req'.pc = pc
         /\ req'.todo = R
         /\ req'.done = {}
         /\ req'.failed = {}
         /\ req'.before = R \cap table
         /\ req'.touched = {}
BY DEF Begin, Changes

(* What others do to the table under a request shows in `touched`, and in  *)
(* nothing else of it: a wanted reference that is still untouched is where *)
(* it was.                                                                 *)
LEMMA NotedStep ==
  ASSUME TypeOK, Busy, Noted
  PROVE  /\ req' \in Changes
         /\ req'.pc = req.pc
         /\ req'.todo = req.todo
         /\ req'.done = req.done
         /\ req'.failed = req.failed
         /\ req'.before = req.before
         /\ Wanted(req') = Wanted(req)
         /\ req.touched \subseteq req'.touched
         /\ \A r \in Wanted(req) \ req'.touched : r \in table' <=> r \in table
<1>1. req \in Changes
  BY BusyType
<1> DEFINE seen == req.touched \cup (Wanted(req) \cap ((table \ table') \cup (table' \ table)))
<1>2. req' = [req EXCEPT !.touched = seen]
  BY DEF Noted
<1>3. Wanted(req) \subseteq Ref
  BY <1>1 DEF Wanted, Changes
<1>4. seen \in SUBSET Ref
  BY <1>1, <1>3 DEF Changes
<1>5. req' \in Changes
  BY <1>1, <1>2, <1>4 DEF Changes
<1>6. /\ req'.pc = req.pc /\ req'.todo = req.todo /\ req'.done = req.done
      /\ req'.failed = req.failed /\ req'.before = req.before /\ req'.touched = seen
  BY <1>1, <1>2 DEF Changes
<1>7. QED
  BY <1>5, <1>6 DEF Wanted

(* Without a handler at work others leave the request alone.               *)
LEMMA NotedIdle ==
  ASSUME ~Busy, Noted
  PROVE  req' = req
BY DEF Noted

(* The references of a POST all carry the gateway fixed at its beginning.  *)
LEMMA EffectiveType ==
  ASSUME TypeOK, NEW requested \in Gateways \cup {NoGateway},
         Effective(requested) # NoGateway
  PROVE  Effective(requested) \in Gateways
BY DEF Effective, TypeOK, Settings

(* Every step of every handler, of the worker and of a restart keeps the   *)
(* types.                                                                  *)
LEMMA TypeStep ==
  ASSUME TypeOK, [Next]_vars
  PROVE  TypeOK'
<1> USE DEF TypeOK
<1>1. ASSUME NEW k \in Keys, NEW D \in SUBSET Dests, NEW g \in Gateways \cup {NoGateway},
             AddBegin(k, D, g)
      PROVE  TypeOK'
  <2>1. Effective(g) \in Gateways
    BY <1>1, EffectiveType DEF AddBegin
  <2>2. {[key |-> k, ip |-> d, gateway |-> Effective(g)] : d \in D} \in SUBSET Ref
    BY <2>1 DEF Ref
  <2>3. req' \in Changes
    BY <1>1, <2>2, BeginType DEF AddBegin
  <2>4. QED
    BY <1>1, <2>3 DEF AddBegin
<1>2. ASSUME NEW K, NEW D, DeleteBegin(K, D)
      PROVE  TypeOK'
  <2>1. {r \in table : r.key \in K /\ r.ip \in D} \in SUBSET Ref
    OBVIOUS
  <2>2. req' \in Changes
    BY <1>2, <2>1, BeginType DEF DeleteBegin
  <2>3. QED
    BY <1>2, <2>2 DEF DeleteBegin
<1>3. CASE Reply
  BY <1>3 DEF Reply
<1>4. ASSUME NEW r \in Ref, AddOne(r)
      PROVE  TypeOK'
  <2>1. req' \in Changes
    BY <1>4, BusyType, SettledType DEF AddOne
  <2>2. table' \subseteq Ref
    BY <1>4 DEF AddOne, Add, Ref
  <2>3. QED
    BY <1>4, <2>1, <2>2 DEF AddOne
<1>5. ASSUME NEW r \in Ref, DeleteOne(r)
      PROVE  TypeOK'
  <2>1. req' \in Changes
    BY <1>5, BusyType, SettledType DEF DeleteOne
  <2>2. table' \subseteq Ref
    BY <1>5 DEF DeleteOne, Drop
  <2>3. QED
    BY <1>5, <2>1, <2>2 DEF DeleteOne
<1>6. ASSUME NEW s \in Settings, SetGlobal(s)
      PROVE  TypeOK'
  BY <1>6 DEF SetGlobal
<1>7. ASSUME table' \subseteq Ref, Noted
      PROVE  TypeOK'
  <2>1. req' \in {Idle} \cup Changes
    BY <1>7, NotedStep, NotedIdle
  <2>2. QED
    BY <1>7, <2>1 DEF Noted
<1>8. ASSUME NEW d \in Dests, NEW g \in Gateways, OtherDrops(d, g)
      PROVE  TypeOK'
  BY <1>7, <1>8 DEF OtherDrops, Drop
<1>9. ASSUME NEW k \in Keys, NEW d \in Dests, NEW g \in Gateways, OtherAdds(k, d, g)
      PROVE  TypeOK'
  BY <1>7, <1>9 DEF OtherAdds, Add, Ref
<1>10. ASSUME NEW r \in Ref, WorkerLapses(r)
       PROVE  TypeOK'
  BY <1>7, <1>10 DEF WorkerLapses, Lapse
<1>11. CASE Restart
  BY <1>11 DEF Restart, Settings
<1>12. CASE UNCHANGED vars
  BY <1>12 DEF vars
<1>13. QED
  BY <1>1, <1>2, <1>3, <1>4, <1>5, <1>6, <1>8, <1>9, <1>10, <1>11, <1>12
  DEF Next, Arrival, HandlerStep, Others

-----------------------------------------------------------------------------
(* The rounds of the loop.                                                 *)

(* One call of route_manager::add: the reference is in the table, or the   *)
(* table is as it was; what was added before stays.                        *)
LEMMA AddOneStep ==
  ASSUME Inv, NEW r \in Ref, AddOne(r)
  PROVE  HandlerInv'
<1>1. /\ Busy /\ req.pc = "adding" /\ r \in req.todo
      /\ req \in Changes
      /\ Partition(req) /\ AddInv(req)
  BY BusyType DEF AddOne, Inv, HandlerInv
<1>2. [key |-> r.key, ip |-> r.ip, gateway |-> r.gateway] = r
  BY DEF Ref
<1>3. CASE Add(r.key, r.ip, r.gateway) /\ Succeeded(r)
  <2>1. table' = table \cup {r}
    BY <1>2, <1>3 DEF Add
  <2>2. req' = [req EXCEPT !.todo = req.todo \ {r}, !.done = req.done \cup {r}]
    BY <1>3 DEF Succeeded
  <2>3. /\ req'.pc = "adding" /\ req'.todo = req.todo \ {r}
        /\ req'.done = req.done \cup {r} /\ req'.failed = req.failed
        /\ req'.before = req.before /\ req'.touched = req.touched
    BY <1>1, <2>2 DEF Changes
  <2>4. Partition(req')
    BY <1>1, <2>3 DEF Partition
  <2>5. AddInv(req)'
    BY <1>1, <2>1, <2>3 DEF AddInv, Unchanged, Partition
  <2>6. QED
    BY <2>3, <2>4, <2>5 DEF HandlerInv, Partition
<1>4. CASE Failed(r) /\ UNCHANGED table
  <2>1. req' = [req EXCEPT !.todo = req.todo \ {r}, !.failed = req.failed \cup {r}]
    BY <1>4 DEF Failed
  <2>2. /\ req'.pc = "adding" /\ req'.todo = req.todo \ {r}
        /\ req'.failed = req.failed \cup {r} /\ req'.done = req.done
        /\ req'.before = req.before /\ req'.touched = req.touched
    BY <1>1, <2>1 DEF Changes
  <2>3. Partition(req)'
    BY <1>1, <2>2 DEF Partition
  <2>4. AddInv(req)'
    BY <1>1, <1>4, <2>2 DEF AddInv, Unchanged
  <2>5. QED
    BY <2>2, <2>3, <2>4 DEF HandlerInv
<1>5. QED
  BY <1>3, <1>4 DEF AddOne

(* One round of the DELETE: a reference that is skipped has the hop of one *)
(* that succeeded, a reference that is removed takes its whole hop along.  *)
LEMMA DeleteOneStep ==
  ASSUME Inv, NEW r \in Ref, DeleteOne(r)
  PROVE  HandlerInv'
<1>1. /\ Busy /\ req.pc = "deleting" /\ r \in req.todo
      /\ req \in Changes
      /\ Partition(req) /\ DeleteInv(req)
  BY BusyType DEF DeleteOne, Inv, HandlerInv
<1>2. CASE Succeeded(r)
  <2>1. req' = [req EXCEPT !.todo = req.todo \ {r}, !.done = req.done \cup {r}]
    BY <1>2 DEF Succeeded
  <2>2. /\ req'.pc = "deleting" /\ req'.todo = req.todo \ {r}
        /\ req'.done = req.done \cup {r} /\ req'.failed = req.failed
        /\ req'.before = req.before /\ req'.touched = req.touched
    BY <1>1, <2>1 DEF Changes
  <2>3. Partition(req)'
    BY <1>1, <2>2 DEF Partition
  <2>4. Wanted(req') = Wanted(req)
    BY <1>1, <1>2, SettledType
  <2>5. table' \subseteq table
    BY DEF DeleteOne, Drop
  <2>6. Hop(r.ip, r.gateway) \cap Wanted(req) \cap table' \subseteq req.touched
    <3>1. CASE AlreadyDeleted(r)
      <4>1. PICK x \in req.done : x.ip = r.ip /\ x.gateway = r.gateway
        BY <3>1 DEF AlreadyDeleted
      <4>2. Hop(x.ip, x.gateway) \cap Wanted(req) \cap table \subseteq req.touched
        BY <1>1 DEF DeleteInv
      <4>3. QED
        BY <2>5, <4>1, <4>2
    <3>2. CASE Drop(r.ip, r.gateway)
      BY <3>2 DEF Drop
    <3>3. CASE Failed(r)
      <4>1. req'.todo = req.todo \ {r} /\ req'.done = req.done
        BY <1>1, <3>3 DEF Failed, Changes
      <4>2. QED
        BY <1>1, <2>2, <4>1 DEF Partition
    <3>4. QED
      BY <3>1, <3>2, <3>3 DEF DeleteOne
  <2>7. ASSUME NEW x \in req'.done
        PROVE  Hop(x.ip, x.gateway) \cap Wanted(req') \cap table' \subseteq req'.touched
    <3>1. CASE x = r
      BY <2>2, <2>4, <2>6, <3>1
    <3>2. CASE x \in req.done
      <4>1. Hop(x.ip, x.gateway) \cap Wanted(req) \cap table \subseteq req.touched
        BY <1>1, <3>2 DEF DeleteInv
      <4>2. QED
        BY <2>2, <2>4, <2>5, <4>1
    <3>3. QED
      BY <2>2, <3>1, <3>2
  <2>8. DeleteInv(req)'
    BY <2>2, <2>7 DEF DeleteInv, Hop
  <2>9. QED
    BY <2>2, <2>3, <2>8 DEF HandlerInv
<1>3. CASE Failed(r) /\ UNCHANGED table
  <2>1. req' = [req EXCEPT !.todo = req.todo \ {r}, !.failed = req.failed \cup {r}]
    BY <1>3 DEF Failed
  <2>2. /\ req'.pc = "deleting" /\ req'.todo = req.todo \ {r}
        /\ req'.failed = req.failed \cup {r} /\ req'.done = req.done
        /\ req'.before = req.before /\ req'.touched = req.touched
    BY <1>1, <2>1 DEF Changes
  <2>3. Partition(req)'
    BY <1>1, <2>2 DEF Partition
  <2>4. Wanted(req') = Wanted(req)
    BY <1>1, <1>3, SettledType
  <2>5. (req.done = {} => Unchanged(req, req.todo \cup req.failed))'
    BY <1>1, <1>3, <2>2 DEF DeleteInv, Unchanged
  <2>6. \A x \in req'.done :
          Hop(x.ip, x.gateway) \cap Wanted(req') \cap table' \subseteq req'.touched
    BY <1>1, <1>3, <2>2, <2>4 DEF DeleteInv
  <2>7. DeleteInv(req)'
    BY <2>5, <2>6 DEF DeleteInv, Hop
  <2>8. QED
    BY <2>2, <2>3, <2>7 DEF HandlerInv
<1>4. QED
  BY <1>2, <1>3 DEF DeleteOne

(* What the rest of the process does to the table is excepted by name.     *)
LEMMA OthersStep ==
  ASSUME Inv, Noted
  PROVE  HandlerInv'
<1>1. CASE Busy
  <2>1. /\ req' \in Changes /\ req'.pc = req.pc
        /\ req'.todo = req.todo /\ req'.done = req.done /\ req'.failed = req.failed
        /\ req'.before = req.before /\ Wanted(req') = Wanted(req)
        /\ req.touched \subseteq req'.touched
        /\ \A r \in Wanted(req) \ req'.touched : r \in table' <=> r \in table
    BY <1>1, NotedStep DEF Inv
  <2>2. Partition(req)'
    BY <1>1, <2>1 DEF Inv, HandlerInv, Partition
  <2>3. ASSUME Unchanged(req, req.todo \cup req.failed)
        PROVE  Unchanged(req, req.todo \cup req.failed)'
    BY <2>1, <2>3 DEF Unchanged, Wanted
  <2>4. ASSUME req.pc = "adding"
        PROVE  AddInv(req)'
    <3>1. AddInv(req)
      BY <1>1, <2>4 DEF Inv, HandlerInv
    <3>2. (req.done \subseteq table \cup req.touched)'
      BY <2>1, <3>1 DEF AddInv, Wanted
    <3>3. QED
      BY <2>3, <3>1, <3>2 DEF AddInv
  <2>5. ASSUME req.pc = "deleting"
        PROVE  DeleteInv(req)'
    <3>1. DeleteInv(req)
      BY <1>1, <2>5 DEF Inv, HandlerInv
    <3>2. (req.done = {} => Unchanged(req, req.todo \cup req.failed))'
      BY <2>1, <2>3, <3>1 DEF DeleteInv
    <3>3. ASSUME NEW x \in req'.done
          PROVE  Hop(x.ip, x.gateway) \cap Wanted(req') \cap table' \subseteq req'.touched
      <4>1. Hop(x.ip, x.gateway) \cap Wanted(req) \cap table \subseteq req.touched
        BY <2>1, <3>1 DEF DeleteInv
      <4>2. QED
        BY <2>1, <4>1
    <3>4. QED
      BY <3>2, <3>3 DEF DeleteInv, Hop
  <2>6. QED
    BY <2>1, <2>2, <2>4, <2>5 DEF HandlerInv
<1>2. CASE ~Busy
  BY <1>2, NotedIdle DEF HandlerInv, Busy
<1>3. QED
  BY <1>1, <1>2

(* A request begins with nothing settled, its history the table it finds.  *)
LEMMA BeginStep ==
  ASSUME NEW pc \in {"adding", "deleting"}, NEW R \in SUBSET Ref, Begin(pc, R),
         UNCHANGED table
  PROVE  HandlerInv'
<1>1. /\ req'.todo = R /\ req'.done = {} /\ req'.failed = {}
      /\ req'.before = R \cap table /\ req'.touched = {}
  BY BeginType
<1>2. QED
  BY <1>1 DEF HandlerInv, Partition, AddInv, DeleteInv, Unchanged

(* HandlerInv holds between any two rounds of any request.                 *)
LEMMA HandlerStepKeeps ==
  ASSUME Inv, [Next]_vars
  PROVE  HandlerInv'
<1>1. ASSUME NEW k \in Keys, NEW D \in SUBSET Dests, NEW g \in Gateways \cup {NoGateway},
             AddBegin(k, D, g)
      PROVE  HandlerInv'
  <2>1. Effective(g) \in Gateways
    BY <1>1, EffectiveType DEF AddBegin, Inv
  <2>2. {[key |-> k, ip |-> d, gateway |-> Effective(g)] : d \in D} \in SUBSET Ref
    BY <2>1 DEF Ref
  <2>3. QED
    BY <1>1, <2>2, BeginStep DEF AddBegin
<1>2. ASSUME NEW K, NEW D, DeleteBegin(K, D)
      PROVE  HandlerInv'
  <2>1. {r \in table : r.key \in K /\ r.ip \in D} \in SUBSET Ref
    BY DEF Inv, TypeOK
  <2>2. QED
    BY <1>2, <2>1, BeginStep DEF DeleteBegin
<1>3. CASE Reply \/ Restart
  BY <1>3 DEF Reply, Restart, HandlerInv, Busy
<1>4. ASSUME NEW s \in Settings, SetGlobal(s)
      PROVE  HandlerInv'
  BY <1>4 DEF SetGlobal, Inv, HandlerInv, Busy, Partition, AddInv, DeleteInv, Unchanged,
     Wanted, Hop
<1>5. CASE UNCHANGED vars
  BY <1>5 DEF vars, Inv, HandlerInv, Busy, Partition, AddInv, DeleteInv, Unchanged,
     Wanted, Hop
<1>6. ASSUME NEW d \in Dests, NEW g \in Gateways, OtherDrops(d, g)
      PROVE  HandlerInv'
  BY <1>6, OthersStep DEF OtherDrops
<1>7. ASSUME NEW k \in Keys, NEW d \in Dests, NEW g \in Gateways, OtherAdds(k, d, g)
      PROVE  HandlerInv'
  BY <1>7, OthersStep DEF OtherAdds
<1>8. ASSUME NEW r \in Ref, WorkerLapses(r)
      PROVE  HandlerInv'
  BY <1>8, OthersStep DEF WorkerLapses
<1>9. QED
  BY <1>1, <1>2, <1>3, <1>4, <1>5, <1>6, <1>7, <1>8, AddOneStep, DeleteOneStep
  DEF Next, Arrival, HandlerStep, Others

-----------------------------------------------------------------------------
(* The theorems.                                                           *)

(* Inv is inductive.                                                       *)
THEOREM Inductive == Spec => []Inv
<1>1. Init => Inv
  BY DEF Init, Inv, TypeOK, Empty, Settings, HandlerInv, Busy
<1>2. Inv /\ [Next]_vars => Inv'
  BY TypeStep, HandlerStepKeeps DEF Inv
<1>3. QED
  BY <1>1, <1>2, PTL DEF Spec

(* The state of the handlers is of its type.                               *)
THEOREM TypeCorrect == Spec => []TypeOK
BY Inductive, PTL DEF Inv

(* Only set_global_route and start write the settings, and either leaves   *)
(* memory and routes.db.global in agreement; a start that cannot read the  *)
(* file leaves memory without settings until the next save.                *)
THEOREM SettingsAreFileHolds == Spec => []SettingsAreFile
<1>1. Init => SettingsAreFile
  BY DEF Init, SettingsAreFile
<1>2. SettingsAreFile /\ [Next]_vars => SettingsAreFile'
  <2> USE DEF SettingsAreFile
  <2> SUFFICES ASSUME SettingsAreFile, [Next]_vars
               PROVE  SettingsAreFile'
    OBVIOUS
  <2>1. CASE Arrival
    <3>1. UNCHANGED <<settings, saved, unread>>
      BY <2>1, Zenon DEF Arrival, AddBegin, DeleteBegin
    <3>2. QED
      BY <3>1
  <2>2. CASE HandlerStep
    BY <2>2 DEF HandlerStep, Reply, AddOne, DeleteOne
  <2>3. ASSUME NEW s \in Settings, SetGlobal(s)
        PROVE  SettingsAreFile'
    BY <2>3 DEF SetGlobal
  <2>4. CASE Noted \/ UNCHANGED vars
    BY <2>4 DEF Noted, vars
  <2>5. CASE Restart
    BY <2>5 DEF Restart
  <2>6. QED
    BY <2>1, <2>2, <2>3, <2>4, <2>5
    DEF Next, Others, OtherDrops, OtherAdds, WorkerLapses
<1>3. QED
  BY <1>1, <1>2, PTL DEF Spec

(* A POST answered 200 has added all it names.                             *)
THEOREM AddedMeansThereHolds == Spec => []AddedMeansThere
<1>1. Inv => AddedMeansThere
  <2> SUFFICES ASSUME Inv, Answered, req.pc = "adding", Status(req) = 200
               PROVE  Wanted(req) \subseteq table \cup req.touched
    BY DEF AddedMeansThere
  <2>1. Wanted(req) = req.done
    BY DEF Answered, Status, Wanted
  <2>2. QED
    BY <2>1 DEF Inv, HandlerInv, AddInv, Answered
<1>2. QED
  BY <1>1, Inductive, PTL

(* A DELETE answered 200 has deleted all that matched it, what the loop    *)
(* skipped included.                                                       *)
THEOREM DeletedMeansGoneHolds == Spec => []DeletedMeansGone
<1>1. Inv => DeletedMeansGone
  <2> SUFFICES ASSUME Inv, Answered, req.pc = "deleting", Status(req) = 200,
                      NEW r \in Wanted(req) \cap table
               PROVE  r \in req.touched
    BY DEF DeletedMeansGone
  <2>1. r \in req.done
    BY DEF Answered, Status, Wanted
  <2>2. r \in Hop(r.ip, r.gateway)
    BY DEF Hop, Inv, TypeOK
  <2>3. QED
    BY <2>1, <2>2 DEF Inv, HandlerInv, DeleteInv, Answered
<1>2. QED
  BY <1>1, Inductive, PTL

(* An answer of 500 has changed nothing, whichever request it answers.     *)
THEOREM FailureChangesNothingHolds == Spec => []FailureChangesNothing
<1>1. Inv => FailureChangesNothing
  <2> SUFFICES ASSUME Inv, Answered, Status(req) = 500
               PROVE  Unchanged(req, Wanted(req))
    BY DEF FailureChangesNothing, Unchanged
  <2>1. req.done = {} /\ Wanted(req) = req.todo \cup req.failed
    BY DEF Answered, Status, Wanted
  <2>2. req.pc \in {"adding", "deleting"}
    BY BusyType DEF Inv, Answered, Changes
  <2>3. Unchanged(req, req.todo \cup req.failed)
    BY <2>1, <2>2 DEF Inv, HandlerInv, AddInv, DeleteInv, Answered
  <2>4. QED
    BY <2>1, <2>3
<1>2. QED
  BY <1>1, Inductive, PTL

=============================================================================
