------------------------------ MODULE DnsGate ------------------------------
(***************************************************************************)
(* src/dns-gate: a query is forwarded to the upstream server from a socket *)
(* of its own, the answer is looked up in the country database, the        *)
(* addresses that match are sent to ip-router as one POST /route, and the  *)
(* client gets the answer when that request is over.  One fiber does all   *)
(* of it for one query; the diagnostic lookups of the HTTP service go the  *)
(* same way and stop before the routes.                                    *)
(*                                                                         *)
(* ip-router is RouteTable and the handler of RouteService, which goes on  *)
(* with a request whatever its client does; no other program adds routes   *)
(* here, so the table holds what dns-gate has asked for.  Datagrams may be *)
(* lost, delayed beyond the time limit, and arrive twice, and queries for  *)
(* two names may have the same id.  Either process may end at any moment   *)
(* and be started again, dns-gate with or without its country database.  A *)
(* query that cannot be parsed and a socket that cannot be opened are      *)
(* stuttering steps.                                                       *)
(***************************************************************************)
EXTENDS RouteTable, FiniteSets, Naturals

CONSTANTS
  Names,      \* domain names as clients spell them
  KeyOf,      \* the name in lower case, which is the key of its routes
  Resolve,    \* the A records of each key, as the upstream server has them
  Routed,     \* the addresses in one of geoip_countries
  Questions,  \* what may be asked: [kind, name, qid]
  Fibers,
  Ports,      \* the ephemeral UDP ports
  MaxPosts    \* bound of the model: requests ip-router works on at once

ASSUME DnsGateAssumption ==
  /\ KeyOf \in [Names -> Keys]
  /\ Resolve \in [Keys -> SUBSET Dests]
  /\ Routed \subseteq Dests
  /\ MaxPosts \in Nat
  /\ \A q \in Questions : q.kind \in {"client", "lookup"} /\ q.name \in Names

(* geoip_router_start: routes are requested, or not, because there is no   *)
(* database or no country, router or gateway is configured.                *)
Modes == {"on", "off"}

VARIABLES
  geo,        \* whether routes are requested; "down" while dns-gate is
  fiber,      \* what each fiber is doing
  datagrams,  \* the upstream server's answers, to the queries sent so far:
              \* each may arrive at any later time, again, or never
  posts,      \* the requests ip-router is working on
  left,       \* records of routes.db whose references are not in the table
  gone        \* history: references of its key taken out of the table while
              \* a fiber has an answer

vars == <<table, geo, fiber, datagrams, posts, left, gone>>

-----------------------------------------------------------------------------

Free == [pc |-> "free"]

(* asked: in the read of the upstream socket; checked: the answer has been *)
(* parsed and its id compared; routing: in the request to ip-router;       *)
(* replying: what is left is the sendto to the client.                     *)
Asked == [pc: {"asked"}, port: Ports, question: Questions]
Outcomes == {"none", "ok", "failed"}

States ==
  {Free} \cup Asked
  \cup [pc: {"checked", "routing"}, port: Ports, question: Questions, answer: Keys]
  \cup [pc: {"replying"}, port: Ports, question: Questions, answer: Keys,
        outcome: Outcomes]

(* An answer repeats the question it is to.                                *)
Datagram == [port: Ports, question: Questions]

(* A request at ip-router.  `by` is Nobody when dns-gate has given up.     *)
Nobody == "nobody"

Posts ==
  [by: Fibers \cup {Nobody}, todo: SUBSET Ref, failed: BOOLEAN]

TypeOK ==
  /\ table \subseteq Ref
  /\ geo \in Modes \cup {"down"}
  /\ fiber \in [Fibers -> States]
  /\ datagrams \subseteq Datagram
  /\ posts \subseteq Posts
  /\ left \subseteq Ref
  /\ gone \in [Fibers -> SUBSET Ref]

Init ==
  /\ Empty
  /\ geo \in Modes
  /\ fiber = [f \in Fibers |-> Free]
  /\ datagrams = {}
  /\ posts = {}
  /\ left = {}
  /\ gone = [f \in Fibers |-> {}]

Goes(f, state) == fiber' = [fiber EXCEPT ![f] = state]

PortInUse(p) == \E f \in Fibers : fiber[f] # Free /\ fiber[f].port = p

-----------------------------------------------------------------------------
(* The upstream server.                                                    *)

(* bind to a port nobody uses, sendto.                                     *)
Ask(f, q, p) ==
  /\ geo # "down"
  /\ fiber[f] = Free
  /\ ~PortInUse(p)
  /\ Goes(f, [pc |-> "asked", port |-> p, question |-> q])
  /\ datagrams' = datagrams \cup {[port |-> p, question |-> q]}
  /\ UNCHANGED <<table, geo, posts, left, gone>>

AcceptsAny(f, m) == m.port = fiber[f].port  \* mistake: the id is not compared

(* The two checks of an answer: it came to this socket, whoever sent it,   *)
(* and it has the id of the query.  The name in it is not compared.        *)
Accepts(f, m) ==
  m.port = fiber[f].port /\ m.question.qid = fiber[f].question.qid

Receive(f, m) ==
  /\ fiber[f].pc = "asked"
  /\ Accepts(f, m)
  /\ Goes(f, [pc |-> "checked", port |-> fiber[f].port,
              question |-> fiber[f].question, answer |-> KeyOf[m.question.name]])
  /\ UNCHANGED <<table, geo, datagrams, posts, left, gone>>

(* upstream_timeout, a packet that cannot be parsed, or the wrong id: the  *)
(* query is dropped and its client gets nothing.                           *)
GiveUp(f) ==
  /\ fiber[f].pc = "asked"
  /\ Goes(f, Free)
  /\ UNCHANGED <<table, geo, datagrams, posts, left, gone>>

-----------------------------------------------------------------------------
(* geoip_route_dns_result.                                                 *)

Replying(f, outcome) ==
  Goes(f, [pc |-> "replying", port |-> fiber[f].port,
           question |-> fiber[f].question, answer |-> fiber[f].answer,
           outcome |-> outcome])

(* Without the database, or with nothing configured to route, the answer   *)
(* is not looked at.                                                       *)
Matched(f) == IF geo = "on" THEN Resolve[fiber[f].answer] \cap Routed ELSE {}

ForClient(f) == fiber[f].question.kind = "client"

Unmatched(f) ==
  /\ fiber[f].pc = "checked" /\ ForClient(f)
  /\ Matched(f) = {}
  /\ Replying(f, "none")
  /\ UNCHANGED <<table, geo, datagrams, posts, left, gone>>

(* mistake: the request is sent and not waited for                         *)
PostAndReply(f, g) ==
  /\ fiber[f].pc = "checked" /\ ForClient(f)
  /\ Matched(f) # {}
  /\ Cardinality(posts) < MaxPosts
  /\ posts' = posts \cup
       {[by |-> Nobody, failed |-> FALSE,
         todo |-> {[key |-> KeyOf[fiber[f].question.name], ip |-> d, gateway |-> g] :
                     d \in Matched(f)}]}
  /\ Replying(f, "ok")
  /\ UNCHANGED <<table, geo, datagrams, left, gone>>

(* mistake: the key is the name as the client spells it                    *)
PostSpelled(f, g) ==
  /\ fiber[f].pc = "checked" /\ ForClient(f)
  /\ Matched(f) # {}
  /\ Cardinality(posts) < MaxPosts
  /\ posts' = posts \cup
       {[by |-> f, failed |-> FALSE,
         todo |-> {[key |-> fiber[f].question.name, ip |-> d, gateway |-> g] :
                     d \in Matched(f)}]}
  /\ Goes(f, [fiber[f] EXCEPT !.pc = "routing"])
  /\ UNCHANGED <<table, geo, datagrams, left, gone>>

(* The request of add_routes has reached ip-router, which chooses the      *)
(* gateway: the one in the request or the global one.                      *)
Post(f, g) ==
  /\ fiber[f].pc = "checked" /\ ForClient(f)
  /\ Matched(f) # {}
  /\ Cardinality(posts) < MaxPosts
  /\ posts' = posts \cup
       {[by |-> f, failed |-> FALSE,
         todo |-> {[key |-> KeyOf[fiber[f].question.name], ip |-> d, gateway |-> g] :
                     d \in Matched(f)}]}
  /\ Goes(f, [fiber[f] EXCEPT !.pc = "routing"])
  /\ UNCHANGED <<table, geo, datagrams, left, gone>>

(* ip-router cannot be reached, or the connection breaks before it reads.  *)
PostFails(f) ==
  /\ fiber[f].pc = "checked" /\ ForClient(f)
  /\ Matched(f) # {}
  /\ Replying(f, "failed")
  /\ UNCHANGED <<table, geo, datagrams, posts, left, gone>>

Orphaned(f) == {IF p.by = f THEN [p EXCEPT !.by = Nobody] ELSE p : p \in posts}

(* mistake: a route request that failed fails the query                    *)
PostDrops(f) ==
  /\ fiber[f].pc = "routing"
  /\ posts' = Orphaned(f)
  /\ Goes(f, Free)
  /\ gone' = [gone EXCEPT ![f] = {}]
  /\ UNCHANGED <<table, geo, datagrams, left>>

(* ip_router_timeout, or the connection breaks: ip-router goes on alone.   *)
PostTimesOut(f) ==
  /\ fiber[f].pc = "routing"
  /\ posts' = Orphaned(f)
  /\ Replying(f, "failed")
  /\ UNCHANGED <<table, geo, datagrams, left, gone>>

(* handle_domain_lookup: the diagnosis is written from the answer.         *)
Diagnose(f) ==
  /\ fiber[f].pc = "checked" /\ ~ForClient(f)
  /\ Goes(f, Free)
  /\ UNCHANGED <<table, geo, datagrams, posts, left, gone>>

(* sendto to the address the query came from.                              *)
Reply(f) ==
  /\ fiber[f].pc = "replying"
  /\ Goes(f, Free)
  /\ gone' = [gone EXCEPT ![f] = {}]
  /\ UNCHANGED <<table, geo, datagrams, posts, left>>

-----------------------------------------------------------------------------
(* ip-router: the loop of route_add, and the answer.                       *)

NewAt(d) == \A r \in table : r.ip # d

(* One call of route_manager::add.  A save writes the whole index; one     *)
(* that fails leaves routes.db as it is, and when the kernel refuses a new *)
(* destination, the save that takes the record out again may fail too.     *)
RouterAdds(p, r) ==
  /\ p \in posts
  /\ r \in p.todo
  /\ \/ /\ Add(r.key, r.ip, r.gateway)
        /\ left' = {}
        /\ posts' = (posts \ {p}) \cup {[p EXCEPT !.todo = @ \ {r}]}
     \/ /\ posts' = (posts \ {p}) \cup {[p EXCEPT !.todo = @ \ {r}, !.failed = TRUE]}
        /\ left' = left \/ (NewAt(r.ip) /\ left' \in {{}, {r}})
        /\ UNCHANGED table
  /\ UNCHANGED <<geo, fiber, datagrams, gone>>

AnyAdded(p) == TRUE  \* mistake: any answer at all is a success

(* Only status 200 is a success to dns-gate, not 207.                      *)
AllAdded(p) == ~p.failed

RouterAnswers(p) ==
  /\ p \in posts
  /\ p.todo = {}
  /\ posts' = posts \ {p}
  /\ IF p.by = Nobody
     THEN UNCHANGED fiber
     ELSE Replying(p.by, IF AllAdded(p) THEN "ok" ELSE "failed")
  /\ UNCHANGED <<table, geo, datagrams, left, gone>>

Awaits(f, r) ==
  /\ fiber[f].pc \in {"checked", "routing", "replying"}
  /\ ForClient(f)
  /\ r.key = KeyOf[fiber[f].question.name]

Missed ==
  gone' = [f \in Fibers |->
             gone[f] \cup {r \in table \ table' : Awaits(f, r)}]

(* The worker and other requests take routes away.                         *)
RouterLoses ==
  /\ \/ \E r \in Ref : Lapse(r) /\ left' \in {{}, left}
     \/ \E d \in Dests, g \in Gateways : Drop(d, g) /\ left' = {}
  /\ Missed
  /\ UNCHANGED <<geo, fiber, datagrams, posts>>

-----------------------------------------------------------------------------
(* The two processes end and are started again.                            *)

(* dns-gate: its queries are gone, what the upstream server sends goes to  *)
(* ports that a later query may have, ip-router goes on alone.             *)
GateStops ==
  /\ geo' = "down"
  /\ fiber' = [f \in Fibers |-> Free]
  /\ posts' = {[p EXCEPT !.by = Nobody] : p \in posts}
  /\ gone' = [f \in Fibers |-> {}]
  /\ UNCHANGED <<table, datagrams, left>>

GateStarts(mode) ==
  /\ geo = "down"
  /\ geo' = mode
  /\ UNCHANGED <<table, fiber, datagrams, posts, left, gone>>

(* What routes.db may say when ip-router ends: the table and what was left *)
(* over, or it ends between the save of an add and the kernel call.        *)
Recorded ==
  {table \cup left}
  \cup {table \cup {r} : r \in {x \in UNION {p.todo : p \in posts} : Agrees(x.ip, x.gateway)}}

(* ip-router: its requests are gone, and start restores what has not       *)
(* expired meanwhile.  What the kernel refuses stays in routes.db.         *)
RouterRestarts ==
  /\ posts' = {}
  /\ \E records \in Recorded :
       /\ table' \in SUBSET records
       /\ left' \in {{}, records \ table'}
  /\ Missed
  /\ UNCHANGED <<geo, fiber, datagrams>>

-----------------------------------------------------------------------------

FiberStep(f) ==
  \/ Unmatched(f) \/ PostFails(f) \/ PostTimesOut(f) \/ Diagnose(f) \/ Reply(f)
  \/ \E g \in Gateways : Post(f, g)

Network ==
  \/ \E f \in Fibers, q \in Questions, p \in Ports : Ask(f, q, p)
  \/ \E f \in Fibers, m \in datagrams : Receive(f, m)
  \/ \E f \in Fibers : GiveUp(f)

Router ==
  \/ \E p \in posts : RouterAnswers(p) \/ \E r \in p.todo : RouterAdds(p, r)
  \/ RouterLoses

Restarts == RouterRestarts \/ GateStops \/ \E mode \in Modes : GateStarts(mode)

Next == Network \/ Router \/ Restarts \/ \E f \in Fibers : FiberStep(f)

Spec == Init /\ [][Next]_vars

(* A fiber that can run does: its reads and its request have time limits.  *)
FairSpec == Spec /\ \A f \in Fibers : WF_vars(FiberStep(f) \/ GiveUp(f))

-----------------------------------------------------------------------------

Query(f) == [port |-> fiber[f].port, question |-> fiber[f].question]

(* Nothing but the port and the id tells the answers to two queries apart. *)
TakenFor(m, n) == m.port = n.port /\ m.question.qid = n.question.qid

(* An answer that comes after its query was given up may reach the next    *)
(* query sent from the same port.  A fiber goes on with the answer to its  *)
(* own query, unless a query for another name has been sent from the same  *)
(* port with the same id.                                                  *)
AnswerIsForQuestion ==
  \A f \in Fibers : fiber[f].pc \in {"checked", "routing", "replying"} =>
    /\ Query(f) \in datagrams
    /\ \/ fiber[f].answer = KeyOf[fiber[f].question.name]
       \/ \E m \in datagrams :
            /\ TakenFor(m, Query(f))
            /\ KeyOf[m.question.name] = fiber[f].answer

(* Every route dns-gate has asked for is under a name that a client asked  *)
(* for, and leads to an address of that name in one of the countries; only *)
(* if another name has been asked for from the same port with the same id, *)
(* it may be an address of that name.  No retry, restart, time limit or    *)
(* diagnostic lookup adds to it.                                           *)
Follows(r) ==
  \E n, m \in datagrams :
    /\ n.question.kind = "client"
    /\ KeyOf[n.question.name] = r.key
    /\ TakenFor(m, n)
    /\ r.ip \in Resolve[KeyOf[m.question.name]] \cap Routed

RoutesFollowAnswers == \A r \in table : Follows(r)

(* When the client is about to get its answer after a successful route     *)
(* request, every matching address in it has its route, or had it until    *)
(* someone took it away; an answer without a route request has no matching *)
(* address.                                                                *)
RoutedBeforeReply ==
  \A f \in Fibers : fiber[f].pc = "replying" =>
    /\ fiber[f].outcome = "none" => Matched(f) = {}
    /\ fiber[f].outcome = "ok" =>
         \A d \in Matched(f) : \E g \in Gateways :
           [key |-> KeyOf[fiber[f].question.name], ip |-> d, gateway |-> g]
             \in table \cup gone[f]

(* Whatever becomes of the route request and of ip-router, a client whose  *)
(* query was answered upstream gets the answer, unless dns-gate ends.      *)
Checked(f) == fiber[f].pc \in {"checked", "routing"} /\ ForClient(f)

RepliesDespiteRouter ==
  \A f \in Fibers : Checked(f) ~> fiber[f].pc = "replying" \/ geo = "down"

=============================================================================
