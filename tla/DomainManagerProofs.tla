------------------------- MODULE DomainManagerProofs -------------------------
(***************************************************************************)
(* The invariants of DomainManager hold for any domains, nameservers,      *)
(* handlers and faults.  They are proved together: who holds the mutex     *)
(* (CallInv, ListInv) is what keeps the others from being disturbed.       *)
(***************************************************************************)
EXTENDS DomainManager, TLAPS

(* A call holds the mutex, works on a domain its request has still to do,  *)
(* and renames a temporary file only when all of it has been written.      *)
CallInv ==
  \A h \in Handlers : call[h] # NoCall =>
    /\ mutex = h
    /\ Changes(h)
    /\ call[h].domain \in req[h].todo
    /\ InStep(h, "rename") => temp[call[h].domain] \in Servers

(* What a listing has read so far is still true, because it has the mutex. *)
ListInv ==
  \A h \in Handlers : req[h].kind = "list" =>
    /\ mutex = h
    /\ req[h].done \cap req[h].todo = {}
    /\ \A d \in Domains \ (req[h].todo \cup req[h].edited \cup req[h].failed) :
         d \in req[h].done <=> Managed(files[d])

(* The refresh comes after the last domain of the batch.                   *)
BatchInv ==
  \A h \in Handlers : Changes(h) /\ req[h].refreshed # "due" => req[h].todo = {}

IInv ==
  /\ TypeOK /\ CallInv /\ ListInv /\ BatchInv
  /\ WholeFiles /\ CallIsAtomic /\ StaleIsKnown

-----------------------------------------------------------------------------

(* The first handler finds nothing under way.                              *)
LEMMA InitInv == Init => IInv
BY DomainManagerAssumption
   DEF Init, IInv, TypeOK, CallInv, ListInv, BatchInv, WholeFiles, CallIsAtomic,
       StaleIsKnown, File, Idle, NoCall, Changes

-----------------------------------------------------------------------------
(* What the six steps of a call of add or remove have in common.           *)

(* A step of handler h in a call for domain d.                             *)
StepOfCall(h, d) ==
  \/ AddInspects(h, d) \/ RemoveInspects(h, d)
  \/ /\ call[h].domain = d
     /\ AddOpens(h) \/ AddWrites(h) \/ AddRenames(h) \/ RemoveUnlinks(h)

(* What it does to the handlers: only h moves, with the mutex or after it  *)
(* has released it, and its request gains d at the most.                   *)
Moves(h, d) ==
  /\ Changes(h) /\ d \in req[h].todo
  /\ mutex \in {h, "nobody"} /\ mutex' \in {h, "nobody"}
  /\ \A g \in Handlers \ {h} : req'[g] = req[g] /\ call'[g] = call[g]
  /\ req'[h] \in Requests
  /\ req'[h].kind = req[h].kind
  /\ req'[h].refreshed = req[h].refreshed
  /\ req'[h].todo \subseteq req[h].todo
  /\ req[h].done \subseteq req'[h].done
  /\ UNCHANGED <<loaded, server, waived>>

(* The end of a call.                                                      *)
Ends(h, d) ==
  /\ mutex' = "nobody"
  /\ call' = [call EXCEPT ![h] = NoCall]
  /\ req' \in [Handlers -> {Idle} \cup Requests]
  /\ \A g \in Handlers \ {h} : req'[g] = req[g]
  /\ req'[h] \in Requests
  /\ req'[h].kind = req[h].kind
  /\ req'[h].refreshed = req[h].refreshed
  /\ req'[h].todo = req[h].todo \ {d}
  /\ req[h].done \subseteq req'[h].done
  /\ UNCHANGED <<loaded, server, waived>>

(* What domain_change notes when add or remove fails: a request of the     *)
(* right form, with one domain less to do.                                 *)
LEMMA FailEnds ==
  ASSUME TypeOK, NEW h \in Handlers, NEW d \in Domains, Changes(h), Fail(h, d)
  PROVE  Ends(h, d)
<1> DEFINE r == [req[h] EXCEPT !.todo = @ \ {d}, !.failed = @ \cup {d}]
<1>1. req[h] \in Requests
  BY DEF TypeOK, Changes, Idle
<1>2. /\ r \in Requests /\ r.kind = req[h].kind /\ r.refreshed = req[h].refreshed
      /\ r.todo = req[h].todo \ {d} /\ req[h].done \subseteq r.done
  BY <1>1 DEF Requests
<1>3. req' = [req EXCEPT ![h] = r]
  BY DEF Fail, Finish
<1> QED
  BY <1>2, <1>3 DEF TypeOK, Ends, Fail, Finish

(* The same for a success, which makes the domain one to refresh for.      *)
LEMMA SucceedEnds ==
  ASSUME TypeOK, NEW h \in Handlers, NEW d \in Domains, Changes(h), Succeed(h, d)
  PROVE  Ends(h, d) /\ d \in req'[h].done
<1> DEFINE r == [req[h] EXCEPT !.todo = @ \ {d}, !.done = @ \cup {d}]
<1>1. req[h] \in Requests
  BY DEF TypeOK, Changes, Idle
<1>2. /\ r \in Requests /\ r.kind = req[h].kind /\ r.refreshed = req[h].refreshed
      /\ r.todo = req[h].todo \ {d} /\ req[h].done \cup {d} = r.done
  BY <1>1 DEF Requests
<1>3. req' = [req EXCEPT ![h] = r]
  BY DEF Succeed, Finish
<1> QED
  BY <1>2, <1>3 DEF TypeOK, Ends, Succeed, Finish

(* add goes on to its next system call: the request stays as it is.        *)
LEMMA ContinueMoves ==
  ASSUME TypeOK, CallInv, NEW h \in Handlers, call[h] # NoCall,
         NEW step \in {"write", "rename"}, Continue(h, step)
  PROVE  /\ Moves(h, call[h].domain)
         /\ call' \in [Handlers -> {NoCall} \cup Calls]
         /\ call'[h] # NoCall
         /\ call'[h].domain = call[h].domain
         /\ call'[h].was = call[h].was
         /\ call'[h].step = step
<1> DEFINE c == [call[h] EXCEPT !.step = step]
<1>1. call[h] \in Calls /\ req[h] \in Requests
  BY DEF TypeOK, CallInv, Changes, Idle
<1>2. c \in Calls /\ c.domain = call[h].domain /\ c.was = call[h].was /\ c.step = step
  BY <1>1 DEF Calls
<1>3. call' = [call EXCEPT ![h] = c] /\ UNCHANGED <<mutex, req, loaded, server, waived>>
  BY DEF Continue
<1>4. c # NoCall
  BY <1>2 DEF NoCall
<1>5. Changes(h) /\ call[h].domain \in req[h].todo /\ mutex = h
  BY DEF CallInv
<1>6. Moves(h, call[h].domain)
  BY <1>1, <1>3, <1>5 DEF Moves, TypeOK
<1> QED
  BY <1>2, <1>3, <1>4, <1>6 DEF TypeOK

(* add or remove begins: the request stays as it is.                       *)
LEMMA EnterMoves ==
  ASSUME TypeOK, NEW h \in Handlers, NEW d \in Domains, Changes(h), d \in req[h].todo,
         mutex = "nobody", NEW step \in {"open", "unlink"}, Enter(h, d, step)
  PROVE  /\ Moves(h, d)
         /\ call' = [call EXCEPT ![h] = [step |-> step, domain |-> d, was |-> files[d]]]
         /\ call' \in [Handlers -> {NoCall} \cup Calls]
         /\ call'[h] # NoCall
<1>1. req[h] \in Requests
  BY DEF TypeOK, Changes, Idle
<1>2. [step |-> step, domain |-> d, was |-> files[d]] \in Calls
  BY DEF Calls, TypeOK
<1>3. [step |-> step, domain |-> d, was |-> files[d]] # NoCall
  BY DEF NoCall
<1> QED
  BY <1>1, <1>2, <1>3 DEF Enter, Moves, TypeOK

(* add or remove ends: only the request it belongs to changes.             *)
LEMMA EndsMoves ==
  ASSUME TypeOK, NEW h \in Handlers, NEW d \in Domains, Changes(h), d \in req[h].todo,
         mutex \in {h, "nobody"}, Ends(h, d)
  PROVE  Moves(h, d)
BY DEF Moves, Ends, TypeOK

(* Whoever is in a call, or may begin one, is alone.                       *)
Alone(h) == \A g \in Handlers \ {h} : call[g] = NoCall /\ req[g].kind # "list"

(* domains_mutex is with one call or one listing at most.                  *)
LEMMA HolderAlone ==
  ASSUME CallInv, ListInv, NEW h \in Handlers, mutex \in {h, "nobody"}
  PROVE  Alone(h)
<1>1. "nobody" \notin Handlers
  BY DomainManagerAssumption
<1> QED
  BY <1>1 DEF CallInv, ListInv, Alone

(* What is to be shown of every step of a call.                            *)
Safe(h, d) ==
  /\ Moves(h, d)
  /\ TypeOK'
  /\ CallInv'
  /\ CallIsAtomic => CallIsAtomic'
  /\ WholeFiles => WholeFiles'
  /\ \A e \in Domains : files'[e] # files[e] => e \in req'[h].done

(* A call that ends: what it may have done to the files.                   *)
LEMMA EndSafe ==
  ASSUME TypeOK, CallInv, NEW h \in Handlers, NEW d \in Domains, Alone(h),
         Changes(h), d \in req[h].todo, mutex \in {h, "nobody"}, Ends(h, d),
         temp' \in [Domains -> File \ {"foreign"}],
         NEW file \in File \ {"partial"},
         \/ UNCHANGED files
         \/ files' = [files EXCEPT ![d] = file] /\ d \in req'[h].done
  PROVE  Safe(h, d)
<1>1. Moves(h, d)
  BY EndsMoves
<1>2. call' = [call EXCEPT ![h] = NoCall] /\ \A g \in Handlers : call'[g] = NoCall
  BY DEF Ends, Alone, TypeOK
<1>3. files' \in [Domains -> File]
  BY DEF TypeOK
<1>4. TypeOK'
  BY <1>2, <1>3 DEF TypeOK, Ends
<1>5. CallInv' /\ CallIsAtomic'
  BY <1>2 DEF CallInv, CallIsAtomic, InStep, Changes
<1>6. WholeFiles => WholeFiles'
  BY DEF WholeFiles, TypeOK
<1>7. \A e \in Domains : files'[e] # files[e] => e \in req'[h].done
  BY DEF TypeOK
<1> QED
  BY <1>1, <1>4, <1>5, <1>6, <1>7 DEF Safe

(* A call that goes on has not touched the files.                          *)
LEMMA ContinueSafe ==
  ASSUME TypeOK, CallInv, NEW h \in Handlers, Alone(h), call[h] # NoCall,
         NEW step \in {"write", "rename"}, Continue(h, step),
         temp' \in [Domains -> File \ {"foreign"}],
         step = "rename" => temp'[call[h].domain] \in Servers
  PROVE  Safe(h, call[h].domain)
<1> DEFINE d == call[h].domain
<1>1. /\ Moves(h, d)
      /\ call' \in [Handlers -> {NoCall} \cup Calls]
      /\ call'[h] # NoCall /\ call'[h].domain = d
      /\ call'[h].was = call[h].was /\ call'[h].step = step
  BY ContinueMoves
<1>2. UNCHANGED <<files, mutex, req, loaded, server, waived>>
  BY DEF Continue
<1>3. \A g \in Handlers \ {h} : call'[g] = NoCall
  BY <1>1 DEF Alone, Moves
<1>4. TypeOK'
  BY <1>1, <1>2 DEF TypeOK
<1>5. CallInv'
  BY <1>1, <1>2, <1>3 DEF CallInv, InStep, Changes
<1>6. CallIsAtomic => CallIsAtomic'
  BY <1>1, <1>2, <1>3 DEF CallIsAtomic
<1> QED
  BY <1>1, <1>2, <1>4, <1>5, <1>6 DEF Safe, WholeFiles

(* A call that begins knows the file it works on.                          *)
LEMMA EnterSafe ==
  ASSUME TypeOK, CallInv, NEW h \in Handlers, NEW d \in Domains, Alone(h),
         Changes(h), d \in req[h].todo, mutex = "nobody",
         NEW step \in {"open", "unlink"}, Enter(h, d, step)
  PROVE  Safe(h, d)
<1> DEFINE c == [step |-> step, domain |-> d, was |-> files[d]]
<1>1. /\ Moves(h, d)
      /\ call' = [call EXCEPT ![h] = c]
      /\ call' \in [Handlers -> {NoCall} \cup Calls]
  BY EnterMoves
<1>2. UNCHANGED <<files, temp, req, loaded, server, waived>> /\ mutex' = h
  BY DEF Enter
<1>3. call'[h] = c /\ \A g \in Handlers \ {h} : call'[g] = NoCall
  BY <1>1 DEF Alone, TypeOK
<1>4. TypeOK'
  BY <1>1, <1>2 DEF TypeOK
<1>5. CallInv'
  BY <1>2, <1>3 DEF CallInv, InStep, Changes
<1>6. CallIsAtomic'
  BY <1>2, <1>3 DEF CallIsAtomic
<1> QED
  BY <1>1, <1>2, <1>4, <1>5, <1>6 DEF Safe, WholeFiles

-----------------------------------------------------------------------------
(* The six steps.                                                          *)

(* add and remove: the look at the file, under the mutex.                  *)
LEMMA InspectSafe ==
  ASSUME TypeOK, CallInv, ListInv, NEW h \in Handlers, NEW d \in Domains,
         AddInspects(h, d) \/ RemoveInspects(h, d)
  PROVE  Safe(h, d)
<1>1. /\ Changes(h) /\ d \in req[h].todo /\ mutex = "nobody"
      /\ \/ Fail(h, d) /\ UNCHANGED <<files, temp>>
         \/ \E step \in {"open", "unlink"} : Enter(h, d, step)
  BY DEF AddInspects, RemoveInspects, Changes
<1>2. Alone(h)
  BY <1>1, HolderAlone
<1>3. CASE Fail(h, d) /\ UNCHANGED <<files, temp>>
  <2>1. Ends(h, d)
    BY <1>1, <1>3, FailEnds
  <2>2. "none" \in File \ {"partial"} /\ temp' \in [Domains -> File \ {"foreign"}]
    BY <1>3 DEF File, TypeOK
  <2> QED
    BY <1>1, <1>2, <1>3, <2>1, <2>2, EndSafe
<1>4. CASE \E step \in {"open", "unlink"} : Enter(h, d, step)
  BY <1>1, <1>2, <1>4, EnterSafe
<1> QED
  BY <1>1, <1>3, <1>4

(* A handler in add or remove holds domains_mutex, for a domain of its     *)
(* request.                                                                *)
LEMMA InCall ==
  ASSUME TypeOK, CallInv, ListInv, NEW h \in Handlers, call[h] # NoCall
  PROVE  /\ call[h].domain \in Domains /\ call[h].domain \in req[h].todo
         /\ Changes(h) /\ mutex \in {h, "nobody"} /\ Alone(h)
<1>1. mutex = h /\ Changes(h) /\ call[h].domain \in req[h].todo
  BY DEF CallInv
<1>2. call[h].domain \in Domains
  BY DEF TypeOK, Calls
<1> QED
  BY <1>1, <1>2, HolderAlone

(* A call that fails reports it and leaves the file.                       *)
LEMMA FailSafe ==
  ASSUME TypeOK, CallInv, ListInv, NEW h \in Handlers, call[h] # NoCall,
         Fail(h, call[h].domain), UNCHANGED files,
         temp' \in [Domains -> File \ {"foreign"}]
  PROVE  Safe(h, call[h].domain)
<1>1. Ends(h, call[h].domain)
  BY InCall, FailEnds
<1>2. "none" \in File \ {"partial"}
  BY DEF File
<1> QED
  BY <1>1, <1>2, InCall, EndSafe

(* A call that succeeds changes the one file it was made for.              *)
LEMMA SucceedSafe ==
  ASSUME TypeOK, CallInv, ListInv, NEW h \in Handlers, call[h] # NoCall,
         Succeed(h, call[h].domain), temp' \in [Domains -> File \ {"foreign"}],
         NEW file \in File \ {"partial"},
         files' = [files EXCEPT ![call[h].domain] = file]
  PROVE  Safe(h, call[h].domain)
<1>1. Ends(h, call[h].domain) /\ call[h].domain \in req'[h].done
  BY InCall, SucceedEnds
<1> QED
  BY <1>1, InCall, EndSafe

(* add: opening the temporary file makes it partial, and only it.          *)
LEMMA AddOpensSafe ==
  ASSUME TypeOK, CallInv, ListInv, NEW h \in Handlers, AddOpens(h)
  PROVE  Safe(h, call[h].domain)
<1> DEFINE d == call[h].domain
<1>1. call[h] # NoCall
  BY DEF AddOpens, InStep, NoCall
<1>2. CASE temp' = [temp EXCEPT ![d] = "partial"] /\ Continue(h, "write")
  <2>1. temp' \in [Domains -> File \ {"foreign"}]
    BY <1>2 DEF TypeOK, File
  <2> QED
    BY <1>1, <1>2, <2>1, InCall, ContinueSafe
<1>3. CASE Fail(h, d) /\ UNCHANGED <<files, temp>>
  BY <1>1, <1>3, FailSafe DEF TypeOK
<1> QED
  BY <1>2, <1>3 DEF AddOpens

(* add: the temporary file is whole or gone.                               *)
LEMMA AddWritesSafe ==
  ASSUME TypeOK, CallInv, ListInv, NEW h \in Handlers, AddWrites(h)
  PROVE  Safe(h, call[h].domain)
<1> DEFINE d == call[h].domain
<1>1. call[h] # NoCall
  BY DEF AddWrites, InStep, NoCall
<1>2. CASE temp' = [temp EXCEPT ![d] = server] /\ Continue(h, "rename")
  <2>1. temp' \in [Domains -> File \ {"foreign"}] /\ temp'[d] \in Servers
    BY <1>1, <1>2, InCall, DomainManagerAssumption DEF TypeOK, File
  <2> QED
    BY <1>1, <1>2, <2>1, InCall, ContinueSafe
<1>3. CASE /\ temp' = [temp EXCEPT ![d] = "none"]
           /\ Fail(h, d) /\ UNCHANGED files
  <2>1. temp' \in [Domains -> File \ {"foreign"}]
    BY <1>3 DEF TypeOK, File
  <2> QED
    BY <1>1, <1>3, <2>1, FailSafe
<1> QED
  BY <1>2, <1>3 DEF AddWrites

(* add: what is renamed was written to its end by this call.               *)
LEMMA AddRenamesSafe ==
  ASSUME TypeOK, CallInv, ListInv, NEW h \in Handlers, AddRenames(h)
  PROVE  Safe(h, call[h].domain)
<1> DEFINE d == call[h].domain
<1>1. call[h] # NoCall /\ InStep(h, "rename")
  BY DEF AddRenames, InStep, NoCall
<1>2. temp' \in [Domains -> File \ {"foreign"}]
  BY DEF AddRenames, TypeOK, File
<1>3. temp[d] \in File \ {"partial"}
  BY <1>1, DomainManagerAssumption DEF CallInv, File
<1>4. CASE files' = [files EXCEPT ![d] = temp[d]] /\ Succeed(h, d)
  BY <1>1, <1>2, <1>3, <1>4, SucceedSafe
<1>5. CASE Fail(h, d) /\ UNCHANGED files
  BY <1>1, <1>2, <1>5, FailSafe
<1> QED
  BY <1>4, <1>5 DEF AddRenames

(* remove: the file goes, or stays and the call fails.                     *)
LEMMA RemoveUnlinksSafe ==
  ASSUME TypeOK, CallInv, ListInv, NEW h \in Handlers, RemoveUnlinks(h)
  PROVE  Safe(h, call[h].domain)
<1> DEFINE d == call[h].domain
<1>1. call[h] # NoCall
  BY DEF RemoveUnlinks, InStep, NoCall
<1>2. temp' \in [Domains -> File \ {"foreign"}]
  BY DEF RemoveUnlinks, TypeOK
<1>3. CASE files' = [files EXCEPT ![d] = "none"] /\ Succeed(h, d)
  <2>1. "none" \in File \ {"partial"}
    BY DEF File
  <2> QED
    BY <1>1, <1>2, <1>3, <2>1, SucceedSafe
<1>4. CASE Fail(h, d) /\ UNCHANGED files
  BY <1>1, <1>2, <1>4, FailSafe
<1> QED
  BY <1>3, <1>4 DEF RemoveUnlinks

(* Every step of add and remove is safe.                                   *)
LEMMA CallSafe ==
  ASSUME TypeOK, CallInv, ListInv, NEW h \in Handlers, NEW d \in Domains,
         StepOfCall(h, d)
  PROVE  Safe(h, d)
BY InspectSafe, AddOpensSafe, AddWritesSafe, AddRenamesSafe, RemoveUnlinksSafe
   DEF StepOfCall

-----------------------------------------------------------------------------
(* The other steps.                                                        *)

(* Every request a handler has is of the right form.                       *)
LEMMA RequestTypes ==
  ASSUME TypeOK, NEW h \in Handlers
  PROVE  /\ req[h].kind # "idle" => req[h] \in Requests
         /\ \A kind \in {"add", "delete", "list"}, todo \in SUBSET Domains :
              Begin(h, kind, todo) => req' \in [Handlers -> {Idle} \cup Requests]
         /\ \A d \in Domains : ListReads(h, d) =>
              req' \in [Handlers -> {Idle} \cup Requests]
         /\ Refresh(h) => req' \in [Handlers -> {Idle} \cup Requests]
<1>1. req[h].kind # "idle" => req[h] \in Requests
  BY DEF TypeOK, Idle
<1>2. ASSUME NEW kind \in {"add", "delete", "list"}, NEW todo \in SUBSET Domains,
             Begin(h, kind, todo)
      PROVE  req' \in [Handlers -> {Idle} \cup Requests]
  <2> DEFINE r == [kind |-> kind, todo |-> todo, done |-> {}, failed |-> {},
                   refreshed |-> "due", edited |-> {}]
  <2>1. r \in Requests
    BY DEF Requests
  <2> QED
    BY <1>2, <2>1 DEF Begin, TypeOK
<1>3. ASSUME NEW d \in Domains, ListReads(h, d)
      PROVE  req' \in [Handlers -> {Idle} \cup Requests]
  <2>1. req[h] \in Requests
    BY <1>1, <1>3 DEF ListReads
  <2>2. PICK r \in Requests : req' = [req EXCEPT ![h] = r]
    <3>1. /\ [req[h] EXCEPT !.todo = @ \ {d}, !.done = @ \cup {d}] \in Requests
          /\ [req[h] EXCEPT !.todo = @ \ {d}, !.done = @] \in Requests
          /\ [req[h] EXCEPT !.todo = @ \ {d}, !.failed = @ \cup {d}] \in Requests
      BY <2>1 DEF Requests
    <3> QED
      BY <1>3, <2>1, <3>1 DEF ListReads, TypeOK
  <2> QED
    BY <2>2 DEF TypeOK
<1>4. ASSUME Refresh(h)
      PROVE  req' \in [Handlers -> {Idle} \cup Requests]
  <2>1. req[h] \in Requests
    BY <1>1, <1>4 DEF Refresh, MustRefresh, Worked, Changes
  <2>2. PICK word \in {"yes", "no"} : req' = [req EXCEPT ![h].refreshed = word]
    BY <1>4 DEF Refresh
  <2>3. [req[h] EXCEPT !.refreshed = word] \in Requests
    BY <2>1 DEF Requests
  <2> QED
    BY <2>2, <2>3 DEF TypeOK
<1> QED
  BY <1>1, <1>2, <1>3, <1>4

(* What list notes of one directory entry.                                 *)
LEMMA ReadFacts ==
  ASSUME TypeOK, NEW h \in Handlers, NEW d \in Domains, ListReads(h, d)
  PROVE  /\ \A g \in Handlers \ {h} : req'[g] = req[g]
         /\ req'[h].kind = "list" /\ req'[h].todo = req[h].todo \ {d}
         /\ req'[h].edited = req[h].edited
         /\ \/ /\ req'[h].failed = req[h].failed
               /\ req'[h].done = IF Managed(files[d]) THEN req[h].done \cup {d}
                                 ELSE req[h].done
            \/ /\ req'[h].failed = req[h].failed \cup {d}
               /\ req'[h].done = req[h].done
<1>1. req[h] \in Requests
  BY RequestTypes DEF ListReads
<1> DEFINE done == IF Managed(files[d]) THEN req[h].done \cup {d} ELSE req[h].done
<1> DEFINE seen == [req[h] EXCEPT !.todo = @ \ {d}, !.done = done]
<1> DEFINE passed == [req[h] EXCEPT !.todo = @ \ {d}, !.failed = @ \cup {d}]
<1>2. \/ req' = [req EXCEPT ![h] = seen]
      \/ req' = [req EXCEPT ![h] = passed]
  BY <1>1 DEF ListReads, TypeOK
<1>3. /\ seen.kind = req[h].kind /\ seen.todo = req[h].todo \ {d}
      /\ seen.edited = req[h].edited /\ seen.failed = req[h].failed /\ seen.done = done
      /\ passed.kind = req[h].kind /\ passed.todo = req[h].todo \ {d}
      /\ passed.edited = req[h].edited /\ passed.failed = req[h].failed \cup {d}
      /\ passed.done = req[h].done
  BY <1>1 DEF Requests
<1> HIDE DEF seen, passed
<1>4. req[h].kind = "list"
  BY DEF ListReads
<1> QED
  BY <1>2, <1>3, <1>4 DEF TypeOK

(* Which step it is: the six of a call are taken together.                 *)
LEMMA NextCases ==
  ASSUME TypeOK, CallInv, ListInv, [Next]_vars
  PROVE  \/ \E h \in Handlers, d \in Domains : StepOfCall(h, d) \/ ListReads(h, d)
         \/ \E h \in Handlers : Refresh(h) \/ Reply(h) \/ ListOpens(h) \/ ListReplies(h)
         \/ \E h \in Handlers, kind \in {"add", "delete"}, S \in SUBSET Spellings :
              Arrives(h, kind, S)
         \/ \E d \in Domains, file \in {"none", "foreign"} : ProgramWrites(d, file)
         \/ Restart
         \/ UNCHANGED vars
<1>1. ASSUME NEW h \in Handlers,
             AddOpens(h) \/ AddWrites(h) \/ AddRenames(h) \/ RemoveUnlinks(h)
      PROVE  \E d \in Domains : StepOfCall(h, d)
  <2>1. call[h] # NoCall
    BY <1>1 DEF AddOpens, AddWrites, AddRenames, RemoveUnlinks, InStep, NoCall
  <2> QED
    BY <1>1, <2>1, InCall DEF StepOfCall
<1> QED
  BY <1>1 DEF Next, HandlerStep, Arrival, StepOfCall

(* Every step of the handlers and the machine keeps the types.             *)
LEMMA TypeStep ==
  ASSUME TypeOK, CallInv, ListInv, [Next]_vars
  PROVE  TypeOK'
<1>1. ASSUME NEW h \in Handlers, NEW d \in Domains, StepOfCall(h, d)
      PROVE  TypeOK'
  BY <1>1, CallSafe DEF Safe
<1>2. ASSUME NEW h \in Handlers, Refresh(h)
      PROVE  TypeOK'
  <2>1. req' \in [Handlers -> {Idle} \cup Requests]
    BY <1>2, RequestTypes
  <2>2. loaded' \in {loaded, files}
    BY <1>2 DEF Refresh, RefreshSystem
  <2>3. req[h].done \subseteq Domains
    BY <1>2, RequestTypes DEF Refresh, MustRefresh, Worked, Changes, Requests
  <2>4. waived' \subseteq waived \cup req[h].done
    BY <1>2 DEF Refresh
  <2> QED
    BY <1>2, <2>1, <2>2, <2>3, <2>4 DEF TypeOK, Refresh
<1>3. ASSUME NEW h \in Handlers, Reply(h)
      PROVE  TypeOK'
  BY <1>3 DEF TypeOK, Reply
<1>4. ASSUME NEW h \in Handlers, ListOpens(h)
      PROVE  TypeOK'
  BY <1>4, RequestTypes DEF TypeOK, ListOpens
<1>5. ASSUME NEW h \in Handlers, NEW d \in Domains, ListReads(h, d)
      PROVE  TypeOK'
  BY <1>5, RequestTypes DEF TypeOK, ListReads
<1>6. ASSUME NEW h \in Handlers, ListReplies(h)
      PROVE  TypeOK'
  BY <1>6 DEF TypeOK, ListReplies
<1>7. ASSUME NEW h \in Handlers, NEW S \in SUBSET Spellings,
             NEW kind \in {"add", "delete"}, Arrives(h, kind, S)
      PROVE  TypeOK'
  <2>1. {Normal(s) : s \in S} \subseteq Domains
    BY <1>7, DomainManagerAssumption DEF Arrives
  <2> QED
    BY <1>7, <2>1, RequestTypes DEF TypeOK, Arrives
<1>8. ASSUME NEW d \in Domains, NEW file \in {"none", "foreign"}, ProgramWrites(d, file)
      PROVE  TypeOK'
  <2>1. file \in File
    BY DEF File
  <2>2. ASSUME NEW h \in Handlers
        PROVE  /\ req'[h] \in {Idle} \cup Requests
               /\ call'[h] \in {NoCall} \cup Calls
    <3>1. req[h].kind = "list" => [req[h] EXCEPT !.edited = @ \cup {d}] \in Requests
      BY RequestTypes DEF Requests
    <3>2. call[h] # NoCall => [call[h] EXCEPT !.was = file] \in Calls
      BY <2>1 DEF TypeOK, Calls
    <3> QED
      BY <1>8, <3>1, <3>2 DEF TypeOK, ProgramWrites
  <2>3. /\ req' \in [Handlers -> {Idle} \cup Requests]
        /\ call' \in [Handlers -> {NoCall} \cup Calls]
    BY <1>8, <2>2 DEF ProgramWrites
  <2> QED
    BY <1>8, <2>1, <2>3 DEF TypeOK, ProgramWrites
<1>9. CASE Restart
  BY <1>9 DEF TypeOK, Restart
<1>10. CASE UNCHANGED vars
  BY <1>10 DEF TypeOK, vars
<1> QED
  BY <1>1, <1>2, <1>3, <1>4, <1>5, <1>6, <1>7, <1>8, <1>9, <1>10, NextCases

(* Every step keeps the mutex with the call that has it.                   *)
LEMMA CallStep ==
  ASSUME TypeOK, CallInv, ListInv, [Next]_vars
  PROVE  CallInv'
<1>1. ASSUME NEW h \in Handlers, NEW d \in Domains, StepOfCall(h, d)
      PROVE  CallInv'
  BY <1>1, CallSafe DEF Safe
<1>2. ASSUME NEW h \in Handlers, Refresh(h)
      PROVE  CallInv'
  BY <1>2 DEF CallInv, Changes, InStep, Refresh
<1>3. ASSUME NEW h \in Handlers, Reply(h)
      PROVE  CallInv'
  BY <1>3 DEF CallInv, Changes, InStep, Reply, Worked
<1>4. ASSUME NEW h \in Handlers, ListOpens(h)
      PROVE  CallInv'
  BY <1>4, DomainManagerAssumption DEF CallInv, ListOpens
<1>5. ASSUME NEW h \in Handlers, NEW d \in Domains, ListReads(h, d)
      PROVE  CallInv'
  BY <1>5 DEF CallInv, ListInv, Changes, ListReads
<1>6. ASSUME NEW h \in Handlers, ListReplies(h)
      PROVE  CallInv'
  BY <1>6 DEF CallInv, ListInv, ListReplies, Listed
<1>7. ASSUME NEW h \in Handlers, NEW S \in SUBSET Spellings,
             NEW kind \in {"add", "delete"}, Arrives(h, kind, S)
      PROVE  CallInv'
  BY <1>7 DEF CallInv, Changes, InStep, Idle, Arrives, Begin
<1>8. ASSUME NEW d \in Domains, NEW file \in {"none", "foreign"}, ProgramWrites(d, file)
      PROVE  CallInv'
  BY <1>8 DEF CallInv, Changes, InStep, ProgramWrites
<1>9. CASE Restart
  BY <1>9 DEF CallInv, Restart
<1>10. CASE UNCHANGED vars
  BY <1>10 DEF CallInv, Changes, InStep, vars
<1> QED
  BY <1>1, <1>2, <1>3, <1>4, <1>5, <1>6, <1>7, <1>8, <1>9, <1>10, NextCases

(* Every step keeps true what a listing has read.                          *)
LEMMA ListStep ==
  ASSUME TypeOK, CallInv, ListInv, [Next]_vars
  PROVE  ListInv'
<1>1. ASSUME NEW h \in Handlers, NEW d \in Domains, StepOfCall(h, d)
      PROVE  ListInv'
  <2>1. Moves(h, d)
    BY <1>1, CallSafe DEF Safe
  <2>2. \A g \in Handlers : req'[g].kind # "list"
    <3>1. Alone(h)
      BY <2>1, HolderAlone DEF Moves
    <3> QED
      BY <2>1, <3>1 DEF Moves, Alone, Changes
  <2> QED
    BY <2>2 DEF ListInv
<1>2. ASSUME NEW h \in Handlers, Refresh(h)
      PROVE  ListInv'
  BY <1>2 DEF ListInv, Refresh
<1>3. ASSUME NEW h \in Handlers, Reply(h)
      PROVE  ListInv'
  BY <1>3 DEF ListInv, Idle, Reply
<1>4. ASSUME NEW h \in Handlers, ListOpens(h)
      PROVE  ListInv'
  BY <1>4, DomainManagerAssumption DEF ListInv, ListOpens, Begin
<1>5. ASSUME NEW h \in Handlers, NEW d \in Domains, ListReads(h, d)
      PROVE  ListInv'
  <2>1. UNCHANGED <<files, mutex>> /\ d \in req[h].todo /\ req[h].kind = "list"
    BY <1>5 DEF ListReads
  <2>2. ASSUME NEW g \in Handlers \ {h}, req'[g].kind = "list"
        PROVE  FALSE
    BY <1>5, <2>1, <2>2, ReadFacts DEF ListInv
  <2>3. /\ mutex = h
        /\ req[h].done \cap req[h].todo = {}
        /\ \A e \in Domains \ (req[h].todo \cup req[h].edited \cup req[h].failed) :
             e \in req[h].done <=> Managed(files[e])
    BY <2>1 DEF ListInv
  <2>4. req'[h].done \cap req'[h].todo = {}
    BY <1>5, <2>3, ReadFacts
  <2>5. ASSUME NEW e \in Domains \ (req'[h].todo \cup req'[h].edited \cup req'[h].failed)
        PROVE  e \in req'[h].done <=> Managed(files[e])
    <3>1. CASE e = d
      BY <1>5, <2>1, <2>3, <2>5, <3>1, ReadFacts
    <3>2. CASE e # d
      BY <1>5, <2>3, <2>5, <3>2, ReadFacts
    <3> QED
      BY <3>1, <3>2
  <2>6. \A e \in Domains : Managed(files[e])' <=> Managed(files[e])
    BY <2>1 DEF Managed
  <2> QED
    BY <2>1, <2>2, <2>3, <2>4, <2>5, <2>6 DEF ListInv
<1>6. ASSUME NEW h \in Handlers, ListReplies(h)
      PROVE  ListInv'
  BY <1>6 DEF TypeOK, ListInv, Idle, ListReplies, Listed
<1>7. ASSUME NEW h \in Handlers, NEW S \in SUBSET Spellings,
             NEW kind \in {"add", "delete"}, Arrives(h, kind, S)
      PROVE  ListInv'
  BY <1>7 DEF ListInv, Arrives, Begin
<1>8. ASSUME NEW d \in Domains, NEW file \in {"none", "foreign"}, ProgramWrites(d, file)
      PROVE  ListInv'
  BY <1>8 DEF ListInv, ProgramWrites
<1>9. CASE Restart
  BY <1>9 DEF ListInv, Idle, Restart
<1>10. CASE UNCHANGED vars
  BY <1>10 DEF ListInv, vars
<1> QED
  BY <1>1, <1>2, <1>3, <1>4, <1>5, <1>6, <1>7, <1>8, <1>9, <1>10, NextCases

(* Every step refreshes a batch last.                                      *)
LEMMA BatchStep ==
  ASSUME TypeOK, CallInv, ListInv, BatchInv, [Next]_vars
  PROVE  BatchInv'
<1>1. ASSUME NEW h \in Handlers, NEW d \in Domains, StepOfCall(h, d)
      PROVE  BatchInv'
  <2>1. Moves(h, d)
    BY <1>1, CallSafe DEF Safe
  <2> QED
    BY <2>1 DEF Moves, BatchInv, Changes
<1>2. ASSUME NEW h \in Handlers, Refresh(h)
      PROVE  BatchInv'
  BY <1>2 DEF BatchInv, Changes, Refresh, MustRefresh, Worked
<1>3. ASSUME NEW h \in Handlers, Reply(h)
      PROVE  BatchInv'
  BY <1>3 DEF BatchInv, Changes, Idle, Reply
<1>4. ASSUME NEW h \in Handlers, ListOpens(h)
      PROVE  BatchInv'
  BY <1>4 DEF BatchInv, Changes, ListOpens, Begin
<1>5. ASSUME NEW h \in Handlers, NEW d \in Domains, ListReads(h, d)
      PROVE  BatchInv'
  BY <1>5, ReadFacts DEF BatchInv, Changes
<1>6. ASSUME NEW h \in Handlers, ListReplies(h)
      PROVE  BatchInv'
  BY <1>6 DEF BatchInv, Changes, Idle, ListReplies
<1>7. ASSUME NEW h \in Handlers, NEW S \in SUBSET Spellings,
             NEW kind \in {"add", "delete"}, Arrives(h, kind, S)
      PROVE  BatchInv'
  BY <1>7 DEF BatchInv, Changes, Arrives, Begin
<1>8. ASSUME NEW d \in Domains, NEW file \in {"none", "foreign"}, ProgramWrites(d, file)
      PROVE  BatchInv'
  BY <1>8 DEF BatchInv, Changes, ProgramWrites
<1>9. CASE Restart
  BY <1>9 DEF BatchInv, Changes, Idle, Restart
<1>10. CASE UNCHANGED vars
  BY <1>10 DEF BatchInv, Changes, vars
<1> QED
  BY <1>1, <1>2, <1>3, <1>4, <1>5, <1>6, <1>7, <1>8, <1>9, <1>10, NextCases

(* No step puts half a file in place.                                      *)
LEMMA WholeStep ==
  ASSUME TypeOK, CallInv, ListInv, WholeFiles, [Next]_vars
  PROVE  WholeFiles'
<1>1. ASSUME NEW h \in Handlers, NEW d \in Domains, StepOfCall(h, d)
      PROVE  WholeFiles'
  BY <1>1, CallSafe DEF Safe
<1>2. ASSUME NEW h \in Handlers, Refresh(h)
      PROVE  WholeFiles'
  BY <1>2 DEF WholeFiles, Refresh
<1>3. ASSUME NEW h \in Handlers, Reply(h)
      PROVE  WholeFiles'
  BY <1>3 DEF WholeFiles, Reply
<1>4. ASSUME NEW h \in Handlers, ListOpens(h)
      PROVE  WholeFiles'
  BY <1>4 DEF WholeFiles, ListOpens
<1>5. ASSUME NEW h \in Handlers, NEW d \in Domains, ListReads(h, d)
      PROVE  WholeFiles'
  BY <1>5 DEF WholeFiles, ListReads
<1>6. ASSUME NEW h \in Handlers, ListReplies(h)
      PROVE  WholeFiles'
  BY <1>6 DEF WholeFiles, ListReplies
<1>7. ASSUME NEW h \in Handlers, NEW S \in SUBSET Spellings,
             NEW kind \in {"add", "delete"}, Arrives(h, kind, S)
      PROVE  WholeFiles'
  BY <1>7 DEF WholeFiles, Arrives
<1>8. ASSUME NEW d \in Domains, NEW file \in {"none", "foreign"}, ProgramWrites(d, file)
      PROVE  WholeFiles'
  BY <1>8 DEF WholeFiles, ProgramWrites
<1>9. CASE Restart
  BY <1>9 DEF WholeFiles, Restart
<1>10. CASE UNCHANGED vars
  BY <1>10 DEF WholeFiles, vars
<1> QED
  BY <1>1, <1>2, <1>3, <1>4, <1>5, <1>6, <1>7, <1>8, <1>9, <1>10, NextCases

(* No step changes a file under a call.                                    *)
LEMMA AtomicStep ==
  ASSUME TypeOK, CallInv, ListInv, CallIsAtomic, [Next]_vars
  PROVE  CallIsAtomic'
<1>1. ASSUME NEW h \in Handlers, NEW d \in Domains, StepOfCall(h, d)
      PROVE  CallIsAtomic'
  BY <1>1, CallSafe DEF Safe
<1>2. ASSUME NEW h \in Handlers, Refresh(h)
      PROVE  CallIsAtomic'
  BY <1>2 DEF CallIsAtomic, Refresh
<1>3. ASSUME NEW h \in Handlers, Reply(h)
      PROVE  CallIsAtomic'
  BY <1>3 DEF CallIsAtomic, Reply
<1>4. ASSUME NEW h \in Handlers, ListOpens(h)
      PROVE  CallIsAtomic'
  BY <1>4 DEF CallIsAtomic, ListOpens
<1>5. ASSUME NEW h \in Handlers, NEW d \in Domains, ListReads(h, d)
      PROVE  CallIsAtomic'
  BY <1>5 DEF CallIsAtomic, ListReads
<1>6. ASSUME NEW h \in Handlers, ListReplies(h)
      PROVE  CallIsAtomic'
  BY <1>6 DEF CallIsAtomic, ListReplies
<1>7. ASSUME NEW h \in Handlers, NEW S \in SUBSET Spellings,
             NEW kind \in {"add", "delete"}, Arrives(h, kind, S)
      PROVE  CallIsAtomic'
  BY <1>7 DEF CallIsAtomic, Arrives
<1>8. ASSUME NEW d \in Domains, NEW file \in {"none", "foreign"}, ProgramWrites(d, file)
      PROVE  CallIsAtomic'
  BY <1>8 DEF TypeOK, CallIsAtomic, ProgramWrites
<1>9. CASE Restart
  BY <1>9 DEF CallIsAtomic, Restart
<1>10. CASE UNCHANGED vars
  BY <1>10 DEF CallIsAtomic, vars
<1> QED
  BY <1>1, <1>2, <1>3, <1>4, <1>5, <1>6, <1>7, <1>8, <1>9, <1>10, NextCases

(* No step leaves the system with a stale file nobody knows of.            *)
LEMMA StaleStep ==
  ASSUME TypeOK, CallInv, ListInv, BatchInv, StaleIsKnown, [Next]_vars
  PROVE  StaleIsKnown'
<1>1. ASSUME NEW h \in Handlers, NEW d \in Domains, StepOfCall(h, d)
      PROVE  StaleIsKnown'
  <2>1. Safe(h, d)
    BY <1>1, CallSafe
  <2>2. Changes(h)' /\ req'[h].refreshed = "due"
    BY <2>1 DEF Safe, Moves, BatchInv, Changes, TypeOK, Requests
  <2>3. \A g \in Handlers, e \in Domains : Owes(g, e) => Owes(g, e)'
    BY <2>1, <2>2 DEF Safe, Moves, Owes, Changes
  <2>4. \A e \in Domains : files'[e] # files[e] => Owes(h, e)'
    BY <2>1, <2>2 DEF Safe, Owes
  <2>5. UNCHANGED <<loaded, waived>>
    BY <2>1 DEF Safe, Moves
  <2> QED
    BY <2>3, <2>4, <2>5 DEF StaleIsKnown
<1>2. ASSUME NEW h \in Handlers, Refresh(h)
      PROVE  StaleIsKnown'
  BY <1>2 DEF StaleIsKnown, Owes, Changes, Refresh, RefreshSystem
<1>3. ASSUME NEW h \in Handlers, Reply(h)
      PROVE  StaleIsKnown'
  BY <1>3 DEF StaleIsKnown, Owes, Changes, Reply, MustRefresh
<1>4. ASSUME NEW h \in Handlers, ListOpens(h)
      PROVE  StaleIsKnown'
  BY <1>4 DEF StaleIsKnown, Owes, Changes, Idle, ListOpens, Begin
<1>5. ASSUME NEW h \in Handlers, NEW d \in Domains, ListReads(h, d)
      PROVE  StaleIsKnown'
  BY <1>5 DEF TypeOK, StaleIsKnown, Owes, Changes, ListReads
<1>6. ASSUME NEW h \in Handlers, ListReplies(h)
      PROVE  StaleIsKnown'
  BY <1>6 DEF StaleIsKnown, Owes, Changes, ListReplies, Listed
<1>7. ASSUME NEW h \in Handlers, NEW S \in SUBSET Spellings,
             NEW kind \in {"add", "delete"}, Arrives(h, kind, S)
      PROVE  StaleIsKnown'
  BY <1>7 DEF StaleIsKnown, Owes, Changes, Idle, Arrives, Begin
<1>8. ASSUME NEW d \in Domains, NEW file \in {"none", "foreign"}, ProgramWrites(d, file)
      PROVE  StaleIsKnown'
  BY <1>8 DEF StaleIsKnown, Owes, Changes, ProgramWrites
<1>9. CASE Restart
  BY <1>9 DEF StaleIsKnown, Restart
<1>10. CASE UNCHANGED vars
  BY <1>10 DEF StaleIsKnown, Owes, Changes, vars
<1> QED
  BY <1>1, <1>2, <1>3, <1>4, <1>5, <1>6, <1>7, <1>8, <1>9, <1>10, NextCases

-----------------------------------------------------------------------------

(* All of the invariants together are inductive, whatever the handlers of  *)
(* /domains and the rest of the machine do.                                *)
THEOREM Inductive == Spec => []IInv
<1>1. IInv /\ [Next]_vars => IInv'
  BY TypeStep, CallStep, ListStep, BatchStep, WholeStep, AtomicStep, StaleStep DEF IInv
<1> QED
  BY InitInv, <1>1, PTL DEF Spec

(* Every variable of DomainManager keeps to its type, under any faults.    *)
THEOREM TypeCorrect == Spec => []TypeOK
<1>1. IInv => TypeOK
  BY DEF IInv
<1> QED
  BY Inductive, <1>1, PTL

(* rename puts a whole file in place, whatever fails, whoever else adds    *)
(* the same domain and whatever an earlier process left behind.            *)
THEOREM WholeFilesHolds == Spec => []WholeFiles
<1>1. IInv => WholeFiles
  BY DEF IInv
<1> QED
  BY Inductive, <1>1, PTL

(* add and remove change a resolver file in their last step or not at all. *)
THEOREM CallIsAtomicHolds == Spec => []CallIsAtomic
<1>1. IInv => CallIsAtomic
  BY DEF IInv
<1> QED
  BY Inductive, <1>1, PTL

(* The system's view of a domain is behind the directory only while a      *)
(* refresh is due, or when the client knows or has no answer.              *)
THEOREM StaleIsKnownHolds == Spec => []StaleIsKnown
<1>1. IInv => StaleIsKnown
  BY DEF IInv
<1> QED
  BY Inductive, <1>1, PTL

(* GET /domains shows the managed files of one moment.                     *)
THEOREM ListIsTrueHolds == Spec => []ListIsTrue
<1>1. IInv => ListIsTrue
  BY DEF IInv, ListInv, ListIsTrue, Listed
<1> QED
  BY Inductive, <1>1, PTL

=============================================================================
