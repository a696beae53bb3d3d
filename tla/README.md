# ip-router: a TLA+ verification project

`ip-router` installs IPv4 host routes on behalf of keys (normally domain names), keeps them in
`routes.db`, takes them out again when their TTL ends, and restores them after a restart.
`dns-gate` is a DNS proxy that looks up the country of every address it resolves and asks
`ip-router` for routes before it answers its client. This directory holds TLA+ models of the
two programs, TLC configurations that check them on small instances, and TLAPS proofs of what
matters most for every instance. `PROJECT.json` maps each definition to the lines it models.

Run everything from this directory:

    tlc -config RM_crash.cfg MCRouteManager.tla     # any .cfg with the MC module of its prefix
    tlapm RouteManagerProofs.tla                    # the index and the kernel's table
    tlapm RouteManagerTableProofs.tla               # RouteManager implements RouteTable
    tlapm RouteManagerLedgerProofs.tla              # routes.db; RouteManager implements RouteLedger
    tlapm RouteServiceProofs.tla                    # the answers of the HTTP handlers
    tlapm DnsGateProofs.tla                         # the path of a query
    tlapm DomainManagerProofs.tla                   # the resolver files

`RM_*` belongs to `MCRouteManager`, `RS_*` to `MCRouteService`, `DG_*` to `MCDnsGate`, `DM_*`
to `MCDomainManager`.

## 1. Inventory of the system

| Component | Source | State | Operations | Correct when | Model |
| --- | --- | --- | --- | --- | --- |
| Route manager | `ip-router/route_manager.cpp` | `installed_routes`, `routes.db`, the kernel's /32 routes, `worker_*` | `add`, `remove`, `remove_system`, `list`, expiration worker, `start` with recovery, `stop` | index, file and kernel agree between operations, whatever fails; nothing acknowledged is lost; expired routes go, shared ones stay | `Routes`, `RouteManager`, abstract `RouteLedger` and `RouteTable`, `RouteManagerProofs`, `RouteManagerTableProofs`, `RouteManagerLedgerProofs` |
| Global gateway | `route_manager.cpp:83-157, 987-1015` | `global_gateway`, `force_global_gateway`, `routes.db.global` | `set_global_route`, `get_global_route`, load | memory and file do not part | `RouteService` |
| HTTP handlers | `ip-router/route_service.cpp` | per request: list taken, per-address results | POST and DELETE `/route`, DELETE `/system-route`, `/route-settings` | the answer is true of the table | `RouteService`, `RouteServiceProofs` |
| DNS query path | `dns-gate/dgate_service.cpp`, `master_service.cpp` | one fiber and one UDP socket per query | `handle_request`, `dgate_resolve_domain` | a client gets the answer to its own question, after its routes | `DnsGate`, `DnsGateProofs` |
| GeoIP router | `dns-gate/geoip_router.cpp` | country database, settings | `geoip_route_dns_result`, `add_routes`, start, stop | routes only for matching addresses under the right key | `DnsGate` (which addresses match is a constant) |
| Diagnostics | `dns-gate/dns_http_service.cpp` | none of its own | `/lookup`, `/health` | installs nothing | `DnsGate` (kind `lookup`), `DomainName` (the name asked for) |
| Resolver files | `ip-router/domain_manager.cpp`, `/domains` in `route_service.cpp` | files in `/etc/resolver`, their temporary files, what the system has read of them | `configure`, `add`, `remove`, `list`, `refresh_system` | files are never half written, a call happens or does not, a listing is of one moment, changes are taken up by the system | `DomainManager`, `DomainName`, `DomainManagerProofs` |
| HTTP dispatch | `http_service.cpp`, `http_servlet.cpp` | path tables, filled once | `Service`, `doService` | the registered handler runs | not modelled |
| Process, TLS, websocket sample, web console, packaging, libmaxminddb | | | | | not modelled |

How they interact. `dns-gate` calls `ip-router` over HTTP with a time limit. Handlers call
`route_manager` one operation at a time; each operation takes `routes_mutex` and holds it to its
end, over file and kernel calls. The expiration worker is a thread that takes the same mutex
once a second. The kernel's table is shared with every other program on the machine. A crash
loses the memory, keeps `routes.db`, and leaves the kernel's routes in place; a reboot loses
those too.

What makes it hard:

* the file and the kernel are two stores that cannot change together, and each call to either
  may fail, or the process may die between the two;
* routes are shared by keys, expire one key at a time and are deleted for all keys at once;
* handlers are not atomic: a batch is many operations, a deletion works from an old list;
* resolver files are replaced by rename in a directory that other programs edit, and the system
  goes on with what it read before until it is told;
* upstream answers come late, twice or never, and a route request goes on at `ip-router` after
  `dns-gate` has stopped waiting for it.

The hazards, each with its line and the properties that watch it, are in `PROJECT.json`.

## 2. Plan

1. `Routes`, `RouteManager`, its two abstract specifications, the proofs of its invariants. Done.
2. `RouteService` over `RouteTable`. Done.
3. `DnsGate` over `RouteTable`. Done.
4. `DomainManager` with `DomainName`: the resolver files and the names they are for; its
   invariants proved. Done.
5. Restarts of both programs in `DnsGate`, `dns-gate` with and without its database. Done.
6. Proofs of the other safety properties: `AckedDurable`, `AckedInForce`, `RefusedStaysOut`, that
   `RouteManager` implements `RouteTable` and `RouteLedger`, and the invariants of `RouteService`
   and `DnsGate`. Done: every invariant, action property and refinement of a passing run is now a
   theorem.

Section 6 says what was considered for a module and why it has none.

## 3. The modules

### Routes and RouteManager

`Routes` holds the data and pure operations on it. A record is `[key, ip, gateway, left, cool]`;
the index and the file are sets of records. Time is relative: the code's absolute `expires_at`
becomes `left`, the ticks that remain, with `Forever` for 0; `last_attempt` becomes `cool`, the
rest of the 30 seconds without another attempt. This keeps the state space finite without a
bound on the clock.

`RouteManager` is the state machine.

| Variable | In the code |
| --- | --- |
| `phase` | `worker_started`, `worker_stopping`, and whether the process runs |
| `op` | what the holder of `routes_mutex` is in the middle of, with its local variables |
| `routes` | `installed_routes` |
| `disk` | the records of `routes.db`; temporary file and rename are one step |
| `kernel` | next hop of each destination in the main table |
| `others` | what another program wants there |
| `acked` | history: adds that returned true, until they expire or a removal returns true |

Each operation is cut where the world can change under it: between a save and the kernel call
next to it.

| Code | Actions |
| --- | --- |
| `add` | `AddReference` (refresh or shared reference: file only), `AddPersist` then `AddInstall` with the rollback |
| `remove`, `remove_system` | `Remove` or `RemoveSystem` (kernel, index), then `ForgetSave` with the re-add |
| `expire_routes` | `ScanBegin`, `ScanErase` or `ScanKeep` for each record, `ScanEnd` |
| `start` | `StartRead` or `StartUnreadable`, `Restore` for each record, `RestoreDone`, `Clean` for each expired one, `StartDone` |
| `stop` | `StopBegin`, `StopJoin`, `Exit` |
| environment | `Crash`, `Reboot`, `Tick`, `OtherSets`, `OtherClears` |

A failed call is part of the action that makes it; which failures may happen is the constant
`Faults`, so that each property can be stated for the environment in which it is meant. A
refused request changes nothing and is a stuttering step. Handlers still run between `stop` and
the end of the process, as in the code.

`RouteLedger` is the abstract write-ahead ledger: the file is kept ahead of the kernel, a line
leaves it for one of four reasons (it has expired, its destination is contested, its key states
the same route again, or the route was taken out of the kernel first), and no step changes both. `RouteTable` is what callers may
rely on: a table of references that changes in single steps. `RouteManager` is shown to
implement both (`ImplementsLedger`, and `ImplementsTable` with a refinement mapping that
shows an operation under way as not having happened).

### RouteService

Extends `RouteTable`: the handlers are written against what the manager promises. One handler is
followed (`req`: references still to do, done, failed), and the rest of the process is any
sequence of table steps and settings changes, which covers any number of other handlers and the
worker. Ghost fields record what the table held when the request began and what others have
changed since. Answers are not steps of their own: the state with nothing left to do is the
answer, `Status` is its code (404 for a DELETE that matched nothing). `unread` records that the
last start could not read `routes.db.global` and nothing has been saved in it since; only then
does `SettingsAreFile` let the settings differ from the file, and then they must be off.

### DnsGate

Extends `RouteTable` for the far side of its HTTP request. A fiber goes from `asked` (in the
upstream read) to `checked` (id compared), `routing` (in the request to `ip-router`) and
`replying`. `datagrams` holds the upstream server's answers to the queries sent so far: each may
arrive at any later time, again, or never, so that one can meet a later query on its port, as
nothing but the port and the id is compared. `posts` are requests at `ip-router`, which work on
when their fiber has stopped waiting. `KeyOf` is `key.lower()`. `gone` is a history: what was
taken out of the table while a query of that name has an answer.

`dns-gate` is the only client of POST `/route` here. A route that somebody else adds through the
console or another program shows only as a refused add (`RouterAdds`), as does any other failure;
"every route in the table" in `RoutesFollowAnswers` means every route `dns-gate` asked for. What
others and the worker take away is `RouterLoses`.

Both programs may end at any moment. `GateStops` ends the fibers; the upstream server's
answers stay under way and its requests go on at `ip-router`. `GateStarts` opens the country
database or does not, or finds nothing configured to route (`geo`). `RouterRestarts` drops the
requests `ip-router` is working on and restores a part of what `routes.db` may hold (`Recorded`):
the table, records `left` in the file by an add that failed and could not take its record out
again, and the record of an add under way whose save is done and whose kernel call is not. The part
left out is what has expired or what the kernel refuses; what it refuses stays in the file.

### DomainManager and DomainName

| Variable | In the code |
| --- | --- |
| `files`, `temp` | the resolver file and the temporary file of each domain |
| `loaded` | the file the system resolves the domain by |
| `server` | `resolver_nameserver`, set by `configure` |
| `mutex` | `domains_mutex` |
| `req` | per handler: `domains`, the results so far, whether the refresh is done |
| `call` | per handler: the call of `add` or `remove` it is in |
| `waived` | history: changes that are stale in the system and that nobody is going to refresh |

A file is absent, foreign (no header, or no regular file), partial, or the nameserver in it.
`add` is `AddInspects` (the mutex, the directory, `lstat` and the header), `AddOpens`,
`AddWrites`, `AddRenames`; `remove` is `RemoveInspects` and `RemoveUnlinks`. Each of them may
fail, with the clean-up the code does. `domain_change` calls them for one domain after another,
releases the mutex between them, and ends with `Refresh` and `Reply`; `list` holds the mutex from
`ListOpens` to `ListReplies`. `ProgramWrites` is another program on the same directory.
`RefreshSystem` is the macOS one; elsewhere it does nothing and reports success.

`DomainName` has `valid_domain` and the `normalize_domain` of the diagnostic service as
operators on sequences of kinds of characters, and a definition of a domain name in terms of
labels to compare them with.

### Definitions marked `mistake`

Some modules carry variants of a definition with a plausible bug in it, placed before the
definition they vary. No specification uses them. `PROJECT.json` pairs each with the property
it must break, which shows that the property can fail.

## 4. The runs

| Run | Instance | Shows |
| --- | --- | --- |
| `RM_crash` | 2 keys, 2 destinations, failing saves, crash, reboot | `ManagedInstalled`, `KernelOwned`, `KernelRecorded`, `AckedDurable`, `AckedInForce` hold, and the ledger is implemented: whatever the disk refuses and wherever the process dies, file, index and kernel fit, and no acknowledged route is lost |
| `RM_chaos` | 2 keys, 1 destination, 2 gateways, all faults, hand-edited files | `OneGateway`, `WorkerKeepsShared`; callers see `RouteTable` |
| `RM_refused` | 2 keys, 2 destinations, 1 gateway, kernel refusals, unreadable file, stop and start; fair | `ManagedInstalled`; `RefusedStaysOut`: a refused add is not found by a later start; `ExpiryCompletes`, although the kernel refuses now and then |
| `DM_files` | 2 domains, 2 handlers, every fault | `WholeFiles`, `CallIsAtomic`: whatever fails and whoever else is at work, a resolver file is whole and a call that has not ended has not changed it; `ListIsTrue`: a listing is of one moment; `StaleIsKnown`: when the system resolves by an old file, a refresh is still due or the client knows |
| `RS_answers` | 2 keys, 2 destinations, 2 gateways, every fault, restart | 200, 207 and 500 tell the truth about the table (`AddedMeansThere`, `DeletedMeansGone`, `FailureChangesNothing`); `SettingsAreFile` |
| `DG_routes` | 2 fibers, 2 ports, 2 names, one with an address in a routed country and one outside, a diagnostic lookup with the id of a client's query for another name, restarts of both programs | `AnswerIsForQuestion`: a fiber takes no answer but its own or one to a query from its port with its id; `RoutesFollowAnswers`: only routed addresses of a name so confused get under another; `RoutedBeforeReply` |
| `DG_replies` | fair; a name in capitals with two routed addresses, a name with none, restarts of both programs | `RepliesDespiteRouter`; `RoutedBeforeReply` for a request of two routes, of which one may fail |

`MCDomainManager` takes its spellings through `valid_domain` and assumes `NamesSettle`, which TLC
evaluates before the run, for every input of up to five characters: `valid_domain` accepts exactly
the domain names, dots at their end aside; its result is a fixed point, so that a file `add`
creates is one `list` shows and `remove` finds, in whatever spelling; and a diagnostic lookup
asks for the same name.

Five runs show where the code and what is written about it differ:

| Run | What happens | What is written |
| --- | --- | --- |
| `RM_lost_restore` | a record whose restore failed is dropped by the next save of any other route | `README.md:1042`: it is kept on disk so that a later startup can retry it |
| `RM_phantom` | kernel refuses, the rollback's save fails: the refused record is installed by the next start | comment at `route_manager.cpp:1080`: the rollback guarantees that it is not |
| `RM_external` | `ip-router` and another program want the same destination and gateway, one's host route replaces the other's in the kernel; when the key expires the worker deletes it | `README.md:1072-1075`: the worker must not delete external routes, said of routes without a matching key; this one has a key until it expires |
| `RM_stuck` | a route that is gone already counts as a failed deletion, the expired record stays for ever | `README.md:1428`: a positive TTL expires automatically |
| `RS_one_key` | DELETE of an address under one key removes it under every key | `README.md:1423`: delete one IP under one key |

`RM_lost_restore` needs the kernel to refuse one route at start and two destinations; `RM_external`
and `RM_stuck` need another program at the route table; the others need only the fault they
name, or none (`RS_one_key`).

### Bounds, and why they are enough

* Two keys: sharing, and the difference between the last reference and one before it. Two
  gateways: conflicts. Two destinations where one record's fate can affect another's (rollback,
  rewrite of the whole file, batches); one where it cannot. The properties compare at most
  two records.
* `MaxLeft = 1`, `Ttls = {0, 1}`: permanent, living, and expired. Only the order of expiry and
  other steps matters, and a record with one tick left can expire before or after any of them.
  `RetryAfter = 1`: in the cool-down or not.
* `InitialFiles`: no file, or one with conflicting, repeated and expired lines, as an editor may
  leave it.
* `DG_*`: two fibers and two ports let one query's port pass to the next while the other fiber
  is under way. `MaxPosts = 2`: the requests at `ip-router` at one time, one of them possibly
  abandoned; 1 in `DG_replies`, whose requests have two addresses. At the bound a request fails
  as if the connection was refused. One gateway: which one a route gets is `RouteService`'s
  subject.
* `DM_files`: two domains, so that one of a batch can fail and a listing can mix two moments;
  two handlers, so that one works while the other waits, lists or refreshes; one nameserver,
  because no property compares two. Of the names, labels end at 2 characters and
  names at 4 instead of 63 and 253, and inputs of 5 reach both limits and one beyond.
* Symmetry is used for invariants only, never with liveness.

* `RM_refused` has one gateway so that a liveness check with two destinations stays small.
  Kernel refusals together with crashes and conflicting gateways are covered for
  `ManagedInstalled` by the theorem of section 5.

No run stops for lack of steps: deadlock is checked everywhere.

### Fairness

* `RouteManager!Fairness`: the holder of the mutex goes on. It waits for file and kernel calls
  only; the `recv` of a netlink answer (`route_manager.cpp:296, 370`) has no time limit in the
  code, so that the kernel answers every request, with success or an error, is an assumption and
  not something the code ensures. Time passes however often the mutex is taken; the clock is
  strongly fair because the model lets it tick between two operations only. The worker gets the mutex in the end,
  strongly fair because requests keep taking it: it asks again every second. The deletion of one record by
  the worker is strongly fair, that is, the kernel does not refuse the same deletion at every
  attempt; without that no retry could end. `RM_stuck` makes the same assumption and
  fails because the deletion is not possible at all.
* `DnsGate!FairSpec`: a fiber runs on; its socket read and its request have time limits, which
  make a step possible in each waiting state.

## 5. The proofs

Every theorem is for any sets of keys, destinations, gateways, lifetimes, handlers, fibers,
ports, names and domains, any length of a batch and any number of requests at once. The bounds of
section 4 are not in them: what `MaxLeft` and `RetryAfter` are does not matter, only that they
are numbers.

### RouteManager

| Module | Theorem | Statement | Under |
| --- | --- | --- | --- |
| `RouteManagerProofs` | `TypeCorrect` | `Spec => []TypeOK` | any faults |
| | `IndexCorrect` | `Spec => []IndexInv` | any faults |
| | `OneGatewayHolds` | `Spec => []OneGateway` | any faults |
| | `WorkerKeepsSharedHolds` | `Spec => WorkerKeepsShared` | any faults |
| | `ManagedInstalledHolds` | `Spec => []ManagedInstalled` | `LoyalKernel`: no lost answers, no other programs, and not both saves and kernel calls failing |
| | `KernelRecordedHolds` | `Spec => []KernelRecorded` | `CrashFaults`: saves fail, process or machine dies |
| | `KernelOwnedHolds` | `Spec => []KernelOwned` | `CrashFaults` |
| `RouteManagerTableProofs` | `ImplementsTableHolds` | `Spec => ImplementsTable` | any faults |
| `RouteManagerLedgerProofs` | `AckedDurableHolds` | `Spec => []AckedDurable` | `FaithfulLoad`: start can read the file, the kernel obeys; saves fail, process or machine dies, other programs edit the table |
| | `AckedInForceHolds` | `Spec => []AckedInForce` | `CrashFaults` |
| | `RefusedStaysOutHolds` | `Spec => []RefusedStaysOut` | `NoLoss`: saves succeed and nothing dies, whatever the kernel and other programs do; a first file has nothing to load |
| | `ImplementsLedgerHolds` | `Spec => ImplementsLedger` | `CrashFaults` |

Where a theorem leaves faults out, the property is not claimed for them. That it would not hold is
shown for `FaithfulLoad` by `RM_lost_restore` (the kernel refuses a route at start) and for `NoLoss`
by `RM_phantom` (the kernel refuses, then the rollback's save fails).

The arguments.

* `OneGateway` is not inductive: an operation that fails puts the previous index back.
  `IndexInv` therefore says that the index and the copy kept for a rollback are both two-level
  maps with one gateway for each destination, and that the worker's list is a part of the
  index. The only actions that add to the index either find no record for the
  destination or find the same gateway there.
* `ManagedInstalled` speaks of the time between operations. `InstalledInv` says what each
  operation under way owes the kernel: `AddInstall` owes one route and everything before it is
  installed; `ForgetSave` has one destination without a route and may have to put it
  back; the clean-up of a start touches no destination of the index.
* `KernelRecorded` and `KernelOwned` need `RecordInv`, which names for every kernel route the
  record that answers for it in each phase: the index while serving, the previous index while
  an add is under way, the index or what is still to restore or to clean during a start. A
  crash moves the duty back to the file, which `KernelRecorded` says can bear it.
* `ImplementsTable`. The mapping shows the previous index while an add or a remove is between its
  two steps. `InFlightInv` says that the index then is the previous one with the operation done
  to it, so that the second step is the abstract `Add` or `Drop`, or nothing if it rolls back.
* The theorems about `routes.db` compare the file with the index. `FileStep` says once what
  each step does to the two, in a dozen cases; the three invariants go through those.
  `AckInv` follows an acknowledged record: it is in the file and in the index a rollback would
  bring back, and while a start is under way it is loaded or about to be. It also needs that,
  once anything is acknowledged, no two lines of the file are at odds: in a hand-edited file a
  contradicting line could displace an acknowledged one at the next load, but the save before
  the first acknowledgement has removed it. `RefusedInv` is the other direction.
* `ImplementsLedger` needs to know which lines of the file the index does not answer for:
  `LedgerInv` says that they all may be dropped. An expired line that the load passes over, one
  side of a contradiction, and a record the worker has erased are the ways it comes about.
  `KernelStep` shows that a route enters the kernel only with its line in the file.

The proof of `ImplementsLedger` failed at first, for a reason: a file edited by hand may have two
lines of one key for the same destination and gateway. The load keeps the last (`installed_routes`
has room for one) and the next save drops the other, which has neither expired nor
been contested. The abstract ledger had not allowed for it, and no file of the run had such lines.
`RouteLedger` now has `Repeated` lines and the run has the file.

### RouteService

`RouteServiceProofs`: `TypeOK` (`TypeCorrect`), `SettingsAreFile`, `AddedMeansThere`,
`DeletedMeansGone` and `FailureChangesNothing` (`...Holds`), under any faults.

The three properties of an answer speak of a request with nothing left to do and are not
inductive. `HandlerInv` says what holds between two rounds of the loop: a POST leaves alone what
it has not added, and what it has added stays; a DELETE has changed nothing before its first
success, and with a success every key's reference to that destination and gateway has gone, the
waiting ones included, which is why the loop may skip them. What others change meanwhile is
excepted, and recorded; a reference that somebody adds again during the DELETE is such a change.
`SettingsAreFile` is inductive by itself, with `unread` in it.

### DnsGate

`DnsGateProofs`: `TypeOK` (`TypeCorrect`), `AnswerIsForQuestion`, `RoutesFollowAnswers` and
`RoutedBeforeReply` (`...Holds`), with both programs restarting at any moment. Nothing is assumed
of the ids: clients choose them, a 16-bit counter chooses those of the diagnostic lookups, and
two queries may have the same. The first two properties therefore say what an equal id can do and
that nothing else can put an address under a wrong name.

The invariants are layered. `WaitInv`: a request at `ip-router` has its fiber waiting for it, or
nobody, and a fiber waits for one at most; without it not even the types hold, because a late
answer could wake a fiber that does something else. `SourceInv`: every fiber's query is among those
sent, its answer is one that `Accepts` could not tell from its own, and every route in a request,
in the table or left in `routes.db` follows from two queries sent (`Follows`); it is kept because
`datagrams` only grows (`DatagramsStay`, `FollowsStays`) and a restart restores nothing else
(`RestartOrigin`). `ProgressInv`: a request in which nothing has failed has added, or has still to
add, what its fiber needs. `ClientInv` keeps `geo` constant for as long as a query lives.

### DomainManager

`DomainManagerProofs`: `TypeOK` (`TypeCorrect`), `WholeFiles`, `CallIsAtomic`, `StaleIsKnown` and
`ListIsTrue` (`...Holds`), under any faults.

* What carries them is the mutex: `CallInv` says that a call holds it, works on a domain its
  request has still to do, and renames only what it has written to the end; `ListInv` that a
  listing holds it and that what it has read is still so. Hence whoever makes a step of a
  call is `Alone`, and the six steps can be treated as one kind of step (`Safe`).
* `StaleIsKnown` needs `BatchInv` besides: a request that has refreshed, or tried to, has no
  domain left to change, so every change finds its refresh still due.

### Assumptions, and what is only model-checked

The invariants above were checked with TLC before they were proved. The assumptions are those of
the modules: `NoGateway` is not a gateway, lifetimes are bounded, faults are known ones and
initial files hold records; a question asks for a name as a client or as a diagnosis, names have
keys, answers and routed addresses are destinations; every spelling means a domain or none, and
the words for files and for the free mutex are nobody's name.

Only model-checked: liveness (`ExpiryCompletes`, `RepliesDespiteRouter`), which is out of the
prover's reach; `NamesSettle`, because the scan of `DomainName` is a fold over the name and what
it computes is a matter of induction over the name; and the properties of the five runs that show
a disagreement, which do not hold under the faults of those runs.

## 6. What is not modelled

* The fiber runtime's treatment of `routes_mutex`: whether a fiber that waits for netlink gives
  up its thread is decided by hooks of the ACL library, which is not in the repository.
* The ttl arithmetic of `add`: the ttl is compared with what is left of `time_t` before the sum is
  formed, and there is nothing in it to explore. A clock that is set back, which delays a retry.
* The window between the look at a resolver file and its rename or unlink is in the model, and in
  it another program's new file is replaced or deleted; `README.md:1453` says that an unmanaged
  file is never overwritten. No property claims that. Nor does one claim what
  `README.md:1128` says, that the server skips resolver entries that exist: `add` writes a
  managed file anew, with its `created_at` and the nameserver of the present configuration.
* `created_at`, the port and the search order of a resolver file, which go with its nameserver.
  A rename that a power failure undoes (nothing is synced).
* Look-ups without state: HTTP dispatch, lists and pages, `/health`.
* The layout of netlink and PF_ROUTE messages: a kernel call is its effect and its answer. Where
  Linux and BSD differ (replace, or add and change) the effect is the same. A deletion may be
  refused although another program has the same route, because the protocol of the route is compared.
* Other clients of POST `/route` next to `dns-gate`: what they do to one another's requests is in
  `RouteService`; in `DnsGate` they appear as refused adds only.
* What becomes of routes nobody remembers: those of a `routes.db` that could not be read, of an
  expired record whose deletion the kernel refuses at start, and of a request whose netlink answer
  is lost; and of an index entry whose route is gone, because another program removed it or
  because a deletion's save and its re-add both failed. The actions are there, the code does
  nothing about it, and no property claims that it does.
* The last moments of `dns-gate`, when the country database is closed while fibers may read it.
* Text: parsing of parameters, JSON, logging, pages. A request that fails validation is a
  stuttering step.
* TLS, the ACL framework, packaging, the web console, libmaxminddb: not this system's own logic.
