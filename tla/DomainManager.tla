--------------------------- MODULE DomainManager ---------------------------
(***************************************************************************)
(* src/ip-router/domain_manager.cpp and the handlers of /domains in        *)
(* route_service.cpp: macOS resolves a domain by the file of that name in  *)
(* resolver_dir.  ip-router writes and deletes such files, marks the ones  *)
(* it wrote, leaves all others alone, and makes the system take the files  *)
(* anew when a request is done.                                            *)
(*                                                                         *)
(* A handler takes domains_mutex for one domain at a time, and for a whole *)
(* listing; within a call other programs may change the directory between  *)
(* two system calls.  What a program reads there is what rename put there; *)
(* the temporary files have names no resolver looks at.                    *)
(*                                                                         *)
(* Requests with a name that is no domain are turned down with 400 and are *)
(* stuttering steps.  created_at, port and search_order go with the        *)
(* nameserver and are left out.                                            *)
(***************************************************************************)
CONSTANTS
  Domains,    \* the domains requests and files are about
  Spellings,  \* how clients write them
  Normal(_),  \* valid_domain: the domain meant, or Invalid
  Invalid,
  Servers,    \* values of dns_gate_nameserver
  Handlers,   \* fibers that serve requests
  Faults      \* what may go wrong, a subset of AllFaults

AllFaults ==
  { "io",        \* a system call on the directory or a file fails
    "refresh",   \* dscacheutil or killall cannot be run or reports an error
    "program",   \* other programs write and delete files there
    "restart" }  \* the process ends at any moment and is started again

ASSUME DomainManagerAssumption ==
  /\ Invalid \notin Domains
  /\ \A s \in Spellings : Normal(s) \in Domains \cup {Invalid}
  /\ \A d \in Domains : d \in Spellings /\ Normal(d) = d
  /\ Servers \cap {"none", "foreign", "partial"} = {}
  /\ "nobody" \notin Handlers
  /\ Faults \subseteq AllFaults

VARIABLES
  files,   \* the resolver file of each domain
  temp,    \* the temporary file of each domain
  loaded,  \* the file of each domain the system resolves by
  server,  \* resolver_nameserver, fixed while the process lives
  mutex,   \* who holds domains_mutex
  req,     \* the request each handler is serving
  call,    \* the call of add or remove it is in
  waived   \* history: domains changed since the last refresh whose change
           \* nobody is going to refresh, and whose client knows

vars == <<files, temp, loaded, server, mutex, req, call, waived>>
process == <<server, mutex, req, call>>

-----------------------------------------------------------------------------

(* A file ip-router wrote is the nameserver in it; a file without the      *)
(* header, or that is no regular file, is foreign; a file with the header  *)
(* and not all of its lines is partial.                                    *)
File == {"none", "foreign", "partial"} \cup Servers

(* read_managed_file looks at the first line only.                         *)
Managed(file) == file \in Servers \cup {"partial"}

Idle == [kind |-> "idle"]

(* todo, done, failed: the domains not yet worked on, and those reported   *)
(* as a success or not; of a listing, listed or passed over unread.        *)
(* edited: history, what other programs changed during a listing.          *)
Requests ==
  [kind: {"add", "delete", "list"}, todo: SUBSET Domains, done: SUBSET Domains,
   failed: SUBSET Domains, refreshed: {"due", "yes", "no"}, edited: SUBSET Domains]

NoCall == [step |-> "none"]

(* was: history, the file as it would be without this call.                *)
Calls == [step: {"open", "write", "rename", "unlink"}, domain: Domains, was: File]

TypeOK ==
  /\ files \in [Domains -> File]
  /\ temp \in [Domains -> File \ {"foreign"}]
  /\ loaded \in [Domains -> File]
  /\ server \in Servers
  /\ mutex \in Handlers \cup {"nobody"}
  /\ req \in [Handlers -> {Idle} \cup Requests]
  /\ call \in [Handlers -> {NoCall} \cup Calls]
  /\ waived \subseteq Domains

(* configure runs before the first request.                                *)
Init ==
  /\ files \in [Domains -> {"none", "foreign"}]
  /\ temp = [d \in Domains |-> "none"]
  /\ loaded = files
  /\ server \in Servers
  /\ mutex = "nobody"
  /\ req = [h \in Handlers |-> Idle]
  /\ call = [h \in Handlers |-> NoCall]
  /\ waived = {}

Fails == "io" \in Faults

-----------------------------------------------------------------------------
(* One call of domain_manager::add or remove by handler h.                 *)

Finish(h, result) ==
  /\ mutex' = "nobody"
  /\ call' = [call EXCEPT ![h] = NoCall]
  /\ req' = [req EXCEPT ![h] = result]
  /\ UNCHANGED <<loaded, server, waived>>

Succeed(h, d) == Finish(h, [req[h] EXCEPT !.todo = @ \ {d}, !.done = @ \cup {d}])

Fail(h, d) == Finish(h, [req[h] EXCEPT !.todo = @ \ {d}, !.failed = @ \cup {d}])

Enter(h, d, step) ==
  /\ mutex' = h
  /\ call' = [call EXCEPT ![h] = [step |-> step, domain |-> d, was |-> files[d]]]
  /\ UNCHANGED <<files, temp, loaded, server, req, waived>>

Continue(h, step) ==
  /\ call' = [call EXCEPT ![h].step = step]
  /\ UNCHANGED <<files, loaded, server, mutex, req, waived>>

InStep(h, step) == call[h].step = step

(* mistake: no mutex; the name of the temporary file is the process's      *)
AddInspectsUnlocked(h, d) ==
  /\ call[h] = NoCall
  /\ req[h].kind = "add" /\ d \in req[h].todo
  /\ \/ /\ files[d] = "none" \/ Managed(files[d])
        /\ Enter(h, d, "open")
     \/ /\ files[d] = "foreign" \/ Fails
        /\ Fail(h, d)
        /\ UNCHANGED <<files, temp>>

(* add: the mutex, the directory, and the file that is there.              *)
AddInspects(h, d) ==
  /\ mutex = "nobody"
  /\ call[h] = NoCall
  /\ req[h].kind = "add" /\ d \in req[h].todo
  /\ \/ /\ files[d] = "none" \/ Managed(files[d])
        /\ Enter(h, d, "open")
     \/ /\ files[d] = "foreign" \/ Fails
        /\ Fail(h, d)
        /\ UNCHANGED <<files, temp>>

(* mistake: the old file makes room before the new one is there            *)
AddMakesRoom(h) ==
  LET d == call[h].domain
  IN  /\ InStep(h, "open")
      /\ temp' = [temp EXCEPT ![d] = "partial"]
      /\ files' = [files EXCEPT ![d] = "none"]
      /\ call' = [call EXCEPT ![h].step = "write"]
      /\ UNCHANGED <<loaded, server, mutex, req, waived>>

AddOpens(h) ==
  LET d == call[h].domain
  IN  /\ InStep(h, "open")
      /\ \/ temp' = [temp EXCEPT ![d] = "partial"] /\ Continue(h, "write")
         \/ Fails /\ Fail(h, d) /\ UNCHANGED <<files, temp>>

(* A file that could not be written to its end is unlinked.                *)
AddWrites(h) ==
  LET d == call[h].domain
  IN  /\ InStep(h, "write")
      /\ \/ temp' = [temp EXCEPT ![d] = server] /\ Continue(h, "rename")
         \/ /\ Fails
            /\ temp' = [temp EXCEPT ![d] = "none"]
            /\ Fail(h, d)
            /\ UNCHANGED files

AddRenames(h) ==
  LET d == call[h].domain
  IN  /\ InStep(h, "rename")
      /\ temp' = [temp EXCEPT ![d] = "none"]
      /\ \/ /\ files' = [files EXCEPT ![d] = temp[d]]
            /\ Succeed(h, d)
         \/ /\ Fails \/ files[d] = "foreign"
            /\ Fail(h, d)
            /\ UNCHANGED files

(* remove: the mutex, and the file that is there.                          *)
RemoveInspects(h, d) ==
  /\ mutex = "nobody"
  /\ call[h] = NoCall
  /\ req[h].kind = "delete" /\ d \in req[h].todo
  /\ \/ Managed(files[d]) /\ Enter(h, d, "unlink")
     \/ /\ ~Managed(files[d]) \/ Fails
        /\ Fail(h, d)
        /\ UNCHANGED <<files, temp>>

RemoveUnlinks(h) ==
  LET d == call[h].domain
  IN  /\ InStep(h, "unlink")
      /\ UNCHANGED temp
      /\ \/ /\ files[d] # "none"
            /\ files' = [files EXCEPT ![d] = "none"]
            /\ Succeed(h, d)
         \/ /\ Fails \/ files[d] \in {"none", "foreign"}
            /\ Fail(h, d)
            /\ UNCHANGED files

-----------------------------------------------------------------------------
(* The handlers.                                                           *)

Begin(h, kind, todo) ==
  req' = [req EXCEPT ![h] = [kind |-> kind, todo |-> todo, done |-> {},
                             failed |-> {}, refreshed |-> "due", edited |-> {}]]

(* mistake: the names are not looked at                                    *)
ArrivesUnchecked(h, kind, S) ==
  /\ req[h] = Idle
  /\ Begin(h, kind, {Normal(s) : s \in S})
  /\ UNCHANGED <<files, temp, loaded, server, mutex, call, waived>>

(* collect_domains: each domain once, in whatever spellings.               *)
Arrives(h, kind, S) ==
  /\ req[h] = Idle
  /\ Invalid \notin {Normal(s) : s \in S}
  /\ Begin(h, kind, {Normal(s) : s \in S})
  /\ UNCHANGED <<files, temp, loaded, server, mutex, call, waived>>

Changes(h) == req[h].kind \in {"add", "delete"}

Worked(h) == Changes(h) /\ req[h].todo = {}

(* mistake: half a batch is not worth a refresh                            *)
MustRefreshAll(h) == Worked(h) /\ req[h].failed = {} /\ req[h].refreshed = "due"

MustRefresh(h) == Worked(h) /\ req[h].done # {} /\ req[h].refreshed = "due"

(* d has been changed and is refreshed before the answer.                  *)
Owes(h, d) == Changes(h) /\ d \in req[h].done /\ req[h].refreshed = "due"

(* run_program: it cannot be started, is not seen to end, or says no.      *)
ProgramFails == "refresh" \in Faults

(* refresh_system: dscacheutil, then killall -HUP, or not, when the first  *)
(* has failed; what fails may have had its effect.                         *)
RefreshSystem(ok) ==
  \/ ok /\ loaded' = files
  \/ ~ok /\ ProgramFails /\ loaded' \in {loaded, files}

(* The answer says whether the refresh went well.                          *)
Refresh(h) ==
  /\ MustRefresh(h)
  /\ \E ok \in BOOLEAN :
       /\ RefreshSystem(ok)
       /\ waived' = IF ok THEN {} ELSE waived \cup req[h].done
       /\ req' = [req EXCEPT ![h].refreshed = IF ok THEN "yes" ELSE "no"]
  /\ UNCHANGED <<files, temp, server, mutex, call>>

Reply(h) ==
  /\ Worked(h)
  /\ ~MustRefresh(h)
  /\ req' = [req EXCEPT ![h] = Idle]
  /\ UNCHANGED <<files, temp, loaded, server, mutex, call, waived>>

(* mistake: reading needs no mutex                                         *)
ListOpensUnlocked(h) ==
  /\ req[h] = Idle
  /\ Begin(h, "list", Domains)
  /\ UNCHANGED <<files, temp, loaded, server, mutex, call, waived>>

(* GET /domains: list holds the mutex from opendir to closedir.            *)
ListOpens(h) ==
  /\ req[h] = Idle
  /\ mutex = "nobody"
  /\ mutex' = h
  /\ Begin(h, "list", Domains)
  /\ UNCHANGED <<files, temp, loaded, server, call, waived>>

(* An entry that cannot be looked at is passed over.                       *)
ListReads(h, d) ==
  /\ req[h].kind = "list" /\ d \in req[h].todo
  /\ \/ req' = [req EXCEPT ![h].todo = @ \ {d},
                           ![h].done = IF Managed(files[d]) THEN @ \cup {d} ELSE @]
     \/ Fails /\ req' = [req EXCEPT ![h].todo = @ \ {d}, ![h].failed = @ \cup {d}]
  /\ UNCHANGED <<files, temp, loaded, server, mutex, call, waived>>

Listed(h) == req[h].kind = "list" /\ req[h].todo = {}

ListReplies(h) ==
  /\ Listed(h)
  /\ mutex' = "nobody"
  /\ req' = [req EXCEPT ![h] = Idle]
  /\ UNCHANGED <<files, temp, loaded, server, call, waived>>

-----------------------------------------------------------------------------
(* The rest of the machine.                                                *)

(* An editor or another daemon replaces or deletes a resolver file; what   *)
(* the system makes of that is not ip-router's concern.                    *)
ProgramWrites(d, file) ==
  /\ "program" \in Faults
  /\ files[d] # file
  /\ files' = [files EXCEPT ![d] = file]
  /\ waived' = waived \cup {d}
  /\ req' = [h \in Handlers |->
               IF req[h].kind = "list" THEN [req[h] EXCEPT !.edited = @ \cup {d}]
               ELSE req[h]]
  /\ call' = [h \in Handlers |->
                IF call[h] # NoCall /\ call[h].domain = d
                THEN [call[h] EXCEPT !.was = file] ELSE call[h]]
  /\ UNCHANGED <<temp, loaded, server, mutex>>

(* The process ends with its requests, whose clients get no answer; the    *)
(* temporary files stay.  The next one may be configured otherwise.        *)
Restart ==
  /\ "restart" \in Faults
  /\ server' \in Servers
  /\ mutex' = "nobody"
  /\ req' = [h \in Handlers |-> Idle]
  /\ call' = [h \in Handlers |-> NoCall]
  /\ waived' = waived \cup {d \in Domains : \E h \in Handlers : Owes(h, d)}
  /\ UNCHANGED <<files, temp, loaded>>

-----------------------------------------------------------------------------

HandlerStep(h) ==
  \/ AddOpens(h) \/ AddWrites(h) \/ AddRenames(h) \/ RemoveUnlinks(h)
  \/ \E d \in Domains : AddInspects(h, d) \/ RemoveInspects(h, d) \/ ListReads(h, d)
  \/ Refresh(h) \/ Reply(h) \/ ListReplies(h)

Arrival(h) ==
  \/ ListOpens(h)
  \/ \E S \in SUBSET Spellings \ {{}}, kind \in {"add", "delete"} : Arrives(h, kind, S)

Next ==
  \/ \E h \in Handlers : Arrival(h) \/ HandlerStep(h)
  \/ \E d \in Domains, file \in {"none", "foreign"} : ProgramWrites(d, file)
  \/ Restart

Spec == Init /\ [][Next]_vars

-----------------------------------------------------------------------------

(* Nobody who reads a resolver file finds half of one, whoever else is     *)
(* writing the same temporary file and whatever an earlier life left.      *)
WholeFiles == \A d \in Domains : files[d] # "partial"

(* A call that has not ended has not changed the file: if it fails, or the *)
(* process ends in the middle of it, the file is the one that was there.   *)
CallIsAtomic ==
  \A h \in Handlers : call[h] # NoCall => files[call[h].domain] = call[h].was

(* Where the system resolves by another file than the one in the           *)
(* directory, a request under way will refresh it before it is answered,   *)
(* or the last answer about it said that the refresh failed, or it never   *)
(* got one, or another program made the change.                            *)
StaleIsKnown ==
  \A d \in Domains :
    loaded[d] # files[d] => d \in waived \/ \E h \in Handlers : Owes(h, d)

(* A listing shows one moment: every managed file, and no other, those     *)
(* excepted that other programs have changed under it or it could not read.*)
ListIsTrue ==
  \A h \in Handlers : Listed(h) =>
    \A d \in Domains \ (req[h].edited \cup req[h].failed) :
      d \in req[h].done <=> Managed(files[d])

=============================================================================
