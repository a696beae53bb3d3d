--------------------------- MODULE DnsGateProofs ----------------------------
(***************************************************************************)
(* The path of a query through dns-gate and ip-router, proved for any      *)
(* names, fibers, ports and any number of requests at once.                *)
(*                                                                         *)
(* Three layers, each inductive given the ones before it: who waits for    *)
(* which request (WaitInv, without which a late answer of ip-router could  *)
(* wake a fiber that does something else), whose addresses are under way   *)
(* (SourceInv), and how far a request has come (ProgressInv).              *)
(***************************************************************************)
EXTENDS DnsGate, TLAPS

-----------------------------------------------------------------------------
(* The inductive invariants.                                               *)

(* A request at ip-router has its fiber waiting for it, or nobody, and a   *)
(* fiber waits for one request at most.                                    *)
Waiting(p) == p.by # Nobody => fiber[p.by].pc = "routing"

WaitInv ==
  /\ \A p \in posts : Waiting(p)
  /\ \A p, q \in posts : p.by = q.by /\ p.by # Nobody => p = q

(* A fiber has sent its query and goes on with an answer that its socket   *)
(* and its id cannot tell from its own; every route a request still wants  *)
(* to add, every route in the table and every record left in routes.db     *)
(* leads to an address in such an answer to a client's query.              *)
SourceInv ==
  /\ \A f \in Fibers : fiber[f].pc # "free" => Query(f) \in datagrams
  /\ \A f \in Fibers : fiber[f].pc \in {"checked", "routing", "replying"} =>
       \E m \in datagrams :
         /\ TakenFor(m, Query(f))
         /\ KeyOf[m.question.name] = fiber[f].answer
  /\ \A p \in posts : \A r \in p.todo : Follows(r)
  /\ \A r \in table \cup left : Follows(r)

(* Routes are requested for clients only, and no query outlives dns-gate,  *)
(* so that `geo` does not change under one.                                *)
ClientInv ==
  /\ \A f \in Fibers : fiber[f].pc \in {"routing", "replying"} => ForClient(f)
  /\ geo = "down" => \A f \in Fibers : fiber[f] = Free

(* The routes a fiber needs, through the gateway of its request.           *)
Needed(f, g) ==
  {[key |-> KeyOf[fiber[f].question.name], ip |-> d, gateway |-> g] : d \in Matched(f)}

(* A request in which nothing has failed has added, or has still to add,   *)
(* what its fiber needs; what others took away since is in `gone`.         *)
Progress(p) ==
  p.by # Nobody /\ ~p.failed =>
    \E g \in Gateways : Needed(p.by, g) \subseteq p.todo \cup table \cup gone[p.by]

ProgressInv == \A p \in posts : Progress(p)

-----------------------------------------------------------------------------
(* Types.                                                                  *)

(* What a fiber knows in each of its states.                               *)
LEMMA FiberType ==
  ASSUME TypeOK, NEW f \in Fibers
  PROVE  /\ fiber[f] \in States
         /\ fiber[f].pc \in {"asked", "checked", "routing", "replying"}
              => fiber[f].port \in Ports /\ fiber[f].question \in Questions
         /\ fiber[f].pc \in {"checked", "routing", "replying"} => fiber[f].answer \in Keys
         /\ fiber[f].pc = "free" <=> fiber[f] = Free
BY DEF TypeOK, States, Free, Asked

(* A fiber moves alone.                                                    *)
LEMMA GoesType ==
  ASSUME TypeOK, NEW f \in Fibers, NEW s \in States, Goes(f, s)
  PROVE  /\ fiber' \in [Fibers -> States]
         /\ fiber'[f] = s
         /\ \A e \in Fibers \ {f} : fiber'[e] = fiber[e]
BY DEF TypeOK, Goes

(* A fiber that is done with its route request, or had none to make, keeps *)
(* its question and its answer.                                            *)
LEMMA ReplyingType ==
  ASSUME TypeOK, NEW f \in Fibers, fiber[f].pc \in {"checked", "routing"},
         NEW outcome \in Outcomes, Replying(f, outcome)
  PROVE  /\ fiber' \in [Fibers -> States]
         /\ fiber'[f].pc = "replying"
         /\ fiber'[f].port = fiber[f].port
         /\ fiber'[f].question = fiber[f].question
         /\ fiber'[f].answer = fiber[f].answer
         /\ fiber'[f].outcome = outcome
         /\ \A e \in Fibers \ {f} : fiber'[e] = fiber[e]
<1> DEFINE s == [pc |-> "replying", port |-> fiber[f].port,
                 question |-> fiber[f].question, answer |-> fiber[f].answer,
                 outcome |-> outcome]
<1>1. s \in States
  BY FiberType DEF States
<1>2. QED
  BY <1>1, GoesType DEF Replying

(* The route request of a fiber whose answer was checked.                  *)
LEMMA PostType ==
  ASSUME TypeOK, NEW f \in Fibers, NEW g \in Gateways, Post(f, g)
  PROVE  /\ fiber' \in [Fibers -> States]
         /\ fiber'[f].pc = "routing"
         /\ fiber'[f].port = fiber[f].port
         /\ fiber'[f].question = fiber[f].question
         /\ fiber'[f].answer = fiber[f].answer
         /\ \A e \in Fibers \ {f} : fiber'[e] = fiber[e]
         /\ Needed(f, g) \subseteq Ref
         /\ posts' = posts \cup {[by |-> f, failed |-> FALSE, todo |-> Needed(f, g)]}
         /\ [by |-> f, failed |-> FALSE, todo |-> Needed(f, g)] \in Posts
<1>1. /\ fiber[f].pc = "checked" /\ fiber[f].port \in Ports
      /\ fiber[f].question \in Questions /\ fiber[f].answer \in Keys
  BY FiberType DEF Post
<1>2. fiber[f] \in [pc: {"checked", "routing"}, port: Ports, question: Questions, answer: Keys]
  BY <1>1, FiberType DEF States, Free, Asked
<1> DEFINE s == [fiber[f] EXCEPT !.pc = "routing"]
<1>3. /\ s \in [pc: {"checked", "routing"}, port: Ports, question: Questions, answer: Keys]
      /\ s.pc = "routing" /\ s.port = fiber[f].port /\ s.question = fiber[f].question /\ s.answer = fiber[f].answer
  BY <1>2
<1>4. s \in States
  BY <1>3 DEF States
<1>5. Goes(f, s)
  BY DEF Post
<1>6. Matched(f) \subseteq Dests
  BY <1>1, DnsGateAssumption DEF Matched
<1>7. KeyOf[fiber[f].question.name] \in Keys
  BY <1>1, DnsGateAssumption
<1>8. Needed(f, g) \in SUBSET Ref
  BY <1>6, <1>7 DEF Needed, Ref
<1>9. QED
  BY <1>3, <1>4, <1>5, <1>8, GoesType DEF Post, Needed, Posts

(* A request loses its fiber and nothing else.                             *)
LEMMA OrphanType ==
  ASSUME NEW p \in Posts
  PROVE  /\ [p EXCEPT !.by = Nobody] \in Posts
         /\ [p EXCEPT !.by = Nobody].by = Nobody
         /\ [p EXCEPT !.by = Nobody].todo = p.todo
         /\ [p EXCEPT !.by = Nobody].failed = p.failed
BY DEF Posts

(* After its fiber gave up a request goes on for nobody; the others are as *)
(* they were.                                                              *)
LEMMA OrphanedType ==
  ASSUME TypeOK, NEW f \in Fibers, posts' = Orphaned(f)
  PROVE  \A q \in posts' :
           /\ q \in Posts
           /\ q.by # Nobody => q \in posts /\ q.by # f
           /\ \E p \in posts : q.todo = p.todo
<1> SUFFICES ASSUME NEW q \in posts'
             PROVE  /\ q \in Posts
                    /\ q.by # Nobody => q \in posts /\ q.by # f
                    /\ \E p \in posts : q.todo = p.todo
  OBVIOUS
<1>1. PICK p \in posts : q = IF p.by = f THEN [p EXCEPT !.by = Nobody] ELSE p
  BY DEF Orphaned
<1>2. p \in Posts
  BY DEF TypeOK
<1>3. QED
  BY <1>1, <1>2, OrphanType

(* One round of ip-router's loop over a request.                           *)
LEMMA RouterAddsType ==
  ASSUME TypeOK, NEW p \in posts, NEW r \in p.todo, RouterAdds(p, r)
  PROVE  \E q \in Posts :
           /\ posts' = (posts \ {p}) \cup {q}
           /\ q.by = p.by
           /\ q.todo = p.todo \ {r}
           /\ ~q.failed => ~p.failed /\ r \in table'
           /\ table' \in {table, table \cup {r}}
           /\ left' \subseteq left \cup {r}
           /\ r \in Ref
<1>1. p \in Posts /\ r \in Ref
  BY DEF TypeOK, Posts
<1>2. [key |-> r.key, ip |-> r.ip, gateway |-> r.gateway] = r
  BY <1>1 DEF Ref
<1>3. CASE /\ Add(r.key, r.ip, r.gateway)
           /\ left' = {}
           /\ posts' = (posts \ {p}) \cup {[p EXCEPT !.todo = p.todo \ {r}]}
  <2> DEFINE q == [p EXCEPT !.todo = p.todo \ {r}]
  <2>1. q \in Posts /\ q.by = p.by /\ q.todo = p.todo \ {r} /\ q.failed = p.failed
    BY <1>1 DEF Posts
  <2>2. table' = table \cup {r}
    BY <1>2, <1>3 DEF Add
  <2>3. QED
    BY <1>1, <1>3, <2>1, <2>2
<1>4. CASE /\ posts' = (posts \ {p}) \cup {[p EXCEPT !.todo = p.todo \ {r}, !.failed = TRUE]}
           /\ left' = left \/ (NewAt(r.ip) /\ left' \in {{}, {r}})
           /\ UNCHANGED table
  <2> DEFINE q == [p EXCEPT !.todo = p.todo \ {r}, !.failed = TRUE]
  <2>1. q \in Posts /\ q.by = p.by /\ q.todo = p.todo \ {r} /\ q.failed
    BY <1>1 DEF Posts
  <2>2. QED
    BY <1>1, <1>4, <2>1
<1>5. QED
  BY <1>3, <1>4 DEF RouterAdds

(* What a start of ip-router brings back, or leaves in routes.db, was in   *)
(* the table or left before, or a request was about to add it.             *)
LEMMA RestartOrigin ==
  ASSUME RouterRestarts, NEW r \in table' \cup left'
  PROVE  r \in table \cup left \/ \E p \in posts : r \in p.todo
<1>1. PICK records \in Recorded :
        table' \in SUBSET records /\ left' \in {{}, records \ table'}
  BY DEF RouterRestarts
<1>2. r \in records
  BY <1>1
<1>3. CASE records = table \cup left
  BY <1>2, <1>3
<1>4. ASSUME NEW x \in UNION {p.todo : p \in posts}, records = table \cup {x}
      PROVE  r \in table \cup left \/ \E p \in posts : r \in p.todo
  BY <1>2, <1>4
<1>5. QED
  BY <1>3, <1>4 DEF Recorded

-----------------------------------------------------------------------------
(* Types, and who waits for which request.                                 *)

Base == TypeOK /\ WaitInv

(* A fiber that no request is for may do as it likes: the requests keep    *)
(* theirs.                                                                 *)
LEMMA OtherFiberMoves ==
  ASSUME Base, NEW f \in Fibers, fiber[f].pc # "routing",
         fiber' \in [Fibers -> States],
         \A e \in Fibers \ {f} : fiber'[e] = fiber[e],
         UNCHANGED posts
  PROVE  WaitInv'
<1>1. \A p \in posts : p.by \in Fibers \cup {Nobody}
  BY DEF Base, TypeOK, Posts
<1>2. QED
  BY <1>1 DEF Base, WaitInv, Waiting

(* Requests that go on for nobody, and the others with the fiber they had, *)
(* are waited for when no other fiber moves.                               *)
LEMMA FewerWaiting ==
  ASSUME Base, NEW f \in Fibers,
         \A e \in Fibers \ {f} : fiber'[e] = fiber[e],
         \A q \in posts' : q.by # Nobody => q \in posts /\ q.by # f
  PROVE  WaitInv'
<1>1. \A p \in posts : p.by \in Fibers \cup {Nobody}
  BY DEF Base, TypeOK, Posts
<1>2. QED
  BY <1>1 DEF Base, WaitInv, Waiting

(* Every step of either process and of the network keeps the types, and    *)
(* every request its fiber.                                                *)
LEMMA BaseStep ==
  ASSUME Base, [Next]_vars
  PROVE  Base'
<1> USE DEF Base
<1>1. ASSUME NEW f \in Fibers, NEW q \in Questions, NEW p \in Ports, Ask(f, q, p)
      PROVE  Base'
  <2>1. [pc |-> "asked", port |-> p, question |-> q] \in States
    BY DEF States, Asked
  <2>2. fiber' \in [Fibers -> States] /\ \A e \in Fibers \ {f} : fiber'[e] = fiber[e]
    BY <1>1, <2>1, GoesType DEF Ask
  <2>3. [port |-> p, question |-> q] \in Datagram
    BY DEF Datagram
  <2>4. fiber[f].pc # "routing"
    BY <1>1 DEF Ask, Free
  <2>5. WaitInv'
    BY <1>1, <2>2, <2>4, OtherFiberMoves DEF Ask
  <2>6. QED
    BY <1>1, <2>2, <2>3, <2>5 DEF Ask, TypeOK
<1>2. ASSUME NEW f \in Fibers, NEW m \in datagrams, Receive(f, m)
      PROVE  Base'
  <2>1. KeyOf[m.question.name] \in Keys
    BY DnsGateAssumption DEF TypeOK, Datagram
  <2>2. [pc |-> "checked", port |-> fiber[f].port, question |-> fiber[f].question,
         answer |-> KeyOf[m.question.name]] \in States
    BY <1>2, <2>1, FiberType DEF States, Receive
  <2>3. fiber' \in [Fibers -> States] /\ \A e \in Fibers \ {f} : fiber'[e] = fiber[e]
    BY <1>2, <2>2, GoesType DEF Receive
  <2>4. WaitInv'
    BY <1>2, <2>3, OtherFiberMoves DEF Receive
  <2>5. QED
    BY <1>2, <2>3, <2>4 DEF Receive, TypeOK
<1>3. Free \in States
  BY DEF States
<1>4. ASSUME NEW f \in Fibers, GiveUp(f)
      PROVE  Base'
  <2>1. fiber' \in [Fibers -> States] /\ \A e \in Fibers \ {f} : fiber'[e] = fiber[e]
    BY <1>3, <1>4, GoesType DEF GiveUp
  <2>2. WaitInv'
    BY <1>4, <2>1, OtherFiberMoves DEF GiveUp
  <2>3. QED
    BY <1>4, <2>1, <2>2 DEF GiveUp, TypeOK
<1>6. ASSUME NEW f \in Fibers, Unmatched(f) \/ PostFails(f)
      PROVE  Base'
  <2>1. fiber' \in [Fibers -> States] /\ \A e \in Fibers \ {f} : fiber'[e] = fiber[e]
    BY <1>6, ReplyingType DEF Unmatched, PostFails, Outcomes
  <2>2. WaitInv'
    BY <1>6, <2>1, OtherFiberMoves DEF Unmatched, PostFails
  <2>3. QED
    BY <1>6, <2>1, <2>2 DEF Unmatched, PostFails, TypeOK
<1>7. ASSUME NEW f \in Fibers, PostTimesOut(f)
      PROVE  Base'
  <2>1. fiber' \in [Fibers -> States] /\ \A e \in Fibers \ {f} : fiber'[e] = fiber[e]
    BY <1>7, ReplyingType DEF PostTimesOut, Outcomes
  <2>2. \A q \in posts' : q \in Posts /\ (q.by # Nobody => q \in posts /\ q.by # f)
    BY <1>7, OrphanedType DEF PostTimesOut
  <2>3. WaitInv'
    BY <2>1, <2>2, FewerWaiting
  <2>4. QED
    BY <1>7, <2>1, <2>2, <2>3 DEF PostTimesOut, TypeOK
<1>8. ASSUME NEW f \in Fibers, Diagnose(f) \/ Reply(f)
      PROVE  Base'
  <2>1. fiber' \in [Fibers -> States] /\ \A e \in Fibers \ {f} : fiber'[e] = fiber[e]
    BY <1>3, <1>8, GoesType DEF Diagnose, Reply
  <2>2. WaitInv'
    BY <1>8, <2>1, OtherFiberMoves DEF Diagnose, Reply
  <2>3. gone' \in [Fibers -> SUBSET Ref]
    BY <1>8 DEF Diagnose, Reply, TypeOK
  <2>4. QED
    BY <1>8, <2>1, <2>2, <2>3 DEF Diagnose, Reply, TypeOK
<1>9. ASSUME NEW f \in Fibers, NEW g \in Gateways, Post(f, g)
      PROVE  Base'
  <2> DEFINE new == [by |-> f, failed |-> FALSE, todo |-> Needed(f, g)]
  <2>1. /\ fiber' \in [Fibers -> States] /\ fiber'[f].pc = "routing"
        /\ \A e \in Fibers \ {f} : fiber'[e] = fiber[e]
        /\ posts' = posts \cup {new} /\ new \in Posts /\ new.by = f
    BY <1>9, PostType
  <2>2. \A p \in posts : p.by # Nobody => p.by # f /\ p.by \in Fibers
    BY <1>9 DEF Post, WaitInv, Waiting, TypeOK, Posts
  <2>3. WaitInv'
    BY <2>1, <2>2 DEF WaitInv, Waiting
  <2>4. QED
    BY <1>9, <2>1, <2>3 DEF Post, TypeOK
<1>10. ASSUME NEW p \in posts, RouterAnswers(p)
       PROVE  Base'
  <2>1. p \in Posts
    BY DEF TypeOK
  <2>2. CASE p.by = Nobody
    BY <1>10, <2>2 DEF RouterAnswers, TypeOK, WaitInv, Waiting
  <2>3. CASE p.by # Nobody
    <3>1. p.by \in Fibers /\ fiber[p.by].pc = "routing"
      BY <2>1, <2>3 DEF WaitInv, Waiting, Posts
    <3>2. /\ fiber' \in [Fibers -> States]
          /\ \A e \in Fibers \ {p.by} : fiber'[e] = fiber[e]
      BY <1>10, <2>3, <3>1, ReplyingType DEF RouterAnswers, Outcomes
    <3>3. \A q \in posts' : q.by # Nobody => q \in posts /\ q.by # p.by
      BY <1>10 DEF RouterAnswers, WaitInv
    <3>4. WaitInv'
      BY <3>1, <3>2, <3>3, FewerWaiting
    <3>5. QED
      BY <1>10, <3>2, <3>4 DEF RouterAnswers, TypeOK
  <2>4. QED
    BY <2>2, <2>3
<1>11. ASSUME NEW p \in posts, NEW r \in p.todo, RouterAdds(p, r)
       PROVE  Base'
  <2>1. PICK q \in Posts : /\ posts' = (posts \ {p}) \cup {q} /\ q.by = p.by
                          /\ table' \in {table, table \cup {r}} /\ r \in Ref
                          /\ left' \subseteq left \cup {r}
    BY <1>11, RouterAddsType
  <2>2. UNCHANGED <<geo, fiber, datagrams, gone>>
    BY <1>11 DEF RouterAdds
  <2>3. WaitInv'
    BY <2>1, <2>2 DEF WaitInv, Waiting
  <2>4. QED
    BY <2>1, <2>2, <2>3 DEF TypeOK
<1>12. ASSUME NEW T, T \subseteq Ref,
              gone' = [f \in Fibers |-> gone[f] \cup {r \in T : Awaits(f, r)}]
       PROVE  gone' \in [Fibers -> SUBSET Ref]
  BY <1>12 DEF TypeOK
<1>13. CASE RouterLoses
  <2>1. table' \subseteq table /\ left' \subseteq left
    BY <1>13 DEF RouterLoses, Lapse, Drop
  <2>2. gone' \in [Fibers -> SUBSET Ref]
    BY <1>12, <1>13 DEF RouterLoses, Missed, TypeOK
  <2>3. QED
    BY <1>13, <2>1, <2>2 DEF RouterLoses, TypeOK, WaitInv, Waiting
<1>14. CASE RouterRestarts
  <2>1. gone' \in [Fibers -> SUBSET Ref]
    BY <1>12, <1>14 DEF RouterRestarts, Missed, TypeOK
  <2>2. table' \subseteq Ref /\ left' \subseteq Ref
    BY <1>14, RestartOrigin DEF TypeOK, Posts
  <2>3. QED
    BY <1>14, <2>1, <2>2 DEF RouterRestarts, TypeOK, WaitInv, Waiting
<1>15. CASE GateStops
  <2>1. fiber' \in [Fibers -> States] /\ gone' \in [Fibers -> SUBSET Ref]
    BY <1>3, <1>15 DEF GateStops
  <2>2. \A q \in posts' : q \in Posts /\ q.by = Nobody
    <3> TAKE q \in posts'
    <3>1. PICK p \in posts : q = [p EXCEPT !.by = Nobody]
      BY <1>15 DEF GateStops
    <3>2. p \in Posts
      BY DEF TypeOK
    <3>3. QED
      BY <3>1, <3>2, OrphanType
  <2>3. QED
    BY <1>15, <2>1, <2>2 DEF GateStops, TypeOK, WaitInv, Waiting
<1>16. ASSUME NEW mode \in Modes, GateStarts(mode)
       PROVE  Base'
  BY <1>16 DEF GateStarts, TypeOK, WaitInv, Waiting
<1>17. CASE UNCHANGED vars
  BY <1>17 DEF vars, TypeOK, WaitInv, Waiting
<1>18. QED
  BY <1>1, <1>2, <1>4, <1>6, <1>7, <1>8, <1>9, <1>10, <1>11, <1>13, <1>14, <1>15,
     <1>16, <1>17
  DEF Next, Network, Router, Restarts, FiberStep

(* Base holds at the start.                                                *)
LEMMA BaseInit ==
  ASSUME Init
  PROVE  Base
BY DEF Init, Base, TypeOK, WaitInv, Empty, States

-----------------------------------------------------------------------------
(* Where things come from.                                                 *)

HasAnswer == {"checked", "routing", "replying"}

(* What moves a fiber: its own steps, and the answer of ip-router to the   *)
(* request it waits for.                                                   *)
LEMMA FiberOrigin ==
  ASSUME Base, [Next]_vars, NEW f \in Fibers
  PROVE  \/ fiber'[f] = fiber[f]
         \/ fiber'[f].pc = "free"
         \/ fiber'[f].pc = "asked" /\ Query(f)' \in datagrams'
         \/ \E m \in datagrams : Receive(f, m)
         \/ Unmatched(f) \/ PostFails(f) \/ PostTimesOut(f)
         \/ \E g \in Gateways : Post(f, g)
         \/ \E p \in posts : p.by = f /\ f # Nobody /\ RouterAnswers(p)
<1> DEFINE Still == fiber'[f] = fiber[f]
<1> USE DEF Base
<1>1. Free \in States /\ Free.pc = "free"
  BY DEF States, Free
<1>2. ASSUME NEW e \in Fibers, NEW q \in Questions, NEW p \in Ports, Ask(e, q, p)
      PROVE  Still \/ (fiber'[f].pc = "asked" /\ Query(f)' \in datagrams')
  <2> DEFINE s == [pc |-> "asked", port |-> p, question |-> q]
  <2>1. s \in States
    BY DEF States, Asked
  <2>2. fiber'[e] = s /\ \A x \in Fibers \ {e} : fiber'[x] = fiber[x]
    BY <1>2, <2>1, GoesType DEF Ask
  <2>3. CASE e = f
    <3>1. Query(f)' = [port |-> p, question |-> q]
      BY <2>2, <2>3 DEF Query
    <3>2. QED
      BY <1>2, <2>2, <2>3, <3>1 DEF Ask
  <2>4. QED
    BY <2>2, <2>3
<1>3. ASSUME NEW e \in Fibers, NEW s, Goes(e, s), e # f
      PROVE  Still
  BY <1>3 DEF Goes, TypeOK
<1>4. ASSUME NEW e \in Fibers, NEW m \in datagrams, Receive(e, m)
      PROVE  Still \/ e = f
  BY <1>3, <1>4 DEF Receive
<1>5. ASSUME NEW e \in Fibers, GiveUp(e) \/ Diagnose(e) \/ Reply(e)
      PROVE  Still \/ fiber'[f].pc = "free"
  BY <1>1, <1>3, <1>5, GoesType DEF GiveUp, Diagnose, Reply
<1>6. ASSUME NEW e \in Fibers, Unmatched(e) \/ PostFails(e) \/ PostTimesOut(e)
      PROVE  Still \/ e = f
  BY <1>3, <1>6 DEF Unmatched, PostFails, PostTimesOut, Replying
<1>7. ASSUME NEW e \in Fibers, NEW g \in Gateways, Post(e, g)
      PROVE  Still \/ e = f
  BY <1>3, <1>7 DEF Post
<1>8. ASSUME NEW p \in posts, RouterAnswers(p)
      PROVE  Still \/ (p.by = f /\ f # Nobody)
  <2>1. p.by \in Fibers \cup {Nobody}
    BY DEF TypeOK, Posts
  <2>2. CASE p.by = Nobody
    BY <1>8, <2>2 DEF RouterAnswers
  <2>3. CASE p.by # Nobody
    BY <1>3, <1>8, <2>1, <2>3 DEF RouterAnswers, Replying
  <2>4. QED
    BY <2>2, <2>3
<1>9. ASSUME NEW p \in posts, NEW r \in p.todo, RouterAdds(p, r)
      PROVE  Still
  BY <1>9 DEF RouterAdds
<1>10. CASE GateStops
  BY <1>1, <1>10 DEF GateStops
<1>11. CASE RouterLoses \/ RouterRestarts \/ (\E mode \in Modes : GateStarts(mode)) \/ UNCHANGED vars
  BY <1>11 DEF RouterLoses, RouterRestarts, GateStarts, vars
<1>12. QED
  BY <1>2, <1>4, <1>5, <1>6, <1>7, <1>8, <1>9, <1>10, <1>11
  DEF Next, Network, Router, Restarts, FiberStep

(* The answer of ip-router finds its fiber in the request.                 *)
LEMMA AnswerFinds ==
  ASSUME Base, NEW p \in posts, p.by # Nobody, RouterAnswers(p)
  PROVE  /\ p.by \in Fibers
         /\ fiber[p.by].pc = "routing"
         /\ p.todo = {}
         /\ \E outcome \in Outcomes :
              /\ Replying(p.by, outcome)
              /\ outcome # "none"
              /\ outcome = "ok" => ~p.failed
<1>1. p.by \in Fibers /\ fiber[p.by].pc = "routing"
  BY DEF Base, TypeOK, WaitInv, Waiting, Posts
<1>2. CASE p.failed
  BY <1>1, <1>2 DEF RouterAnswers, AllAdded, Outcomes
<1>3. CASE ~p.failed
  BY <1>1, <1>3 DEF RouterAnswers, AllAdded, Outcomes
<1>4. QED
  BY <1>2, <1>3

(* A fiber's answer comes from a datagram, and stays with the question it  *)
(* was taken for until the client has it.                                  *)
LEMMA AnswerOrigin ==
  ASSUME Base, [Next]_vars, NEW f \in Fibers, fiber'[f].pc \in HasAnswer
  PROVE  \/ \E m \in datagrams : Receive(f, m)
         \/ /\ fiber[f].pc \in HasAnswer
            /\ fiber'[f].port = fiber[f].port
            /\ fiber'[f].question = fiber[f].question
            /\ fiber'[f].answer = fiber[f].answer
<1> DEFINE Kept == /\ fiber[f].pc \in HasAnswer
                   /\ fiber'[f].port = fiber[f].port
                   /\ fiber'[f].question = fiber[f].question
                   /\ fiber'[f].answer = fiber[f].answer
<1> USE DEF Base, HasAnswer
<1>1. CASE fiber'[f] = fiber[f]
  BY <1>1
<1>2. ASSUME fiber[f].pc \in {"checked", "routing"},
             NEW outcome \in Outcomes, Replying(f, outcome)
      PROVE  Kept
  BY <1>2, ReplyingType
<1>3. CASE Unmatched(f) \/ PostFails(f) \/ PostTimesOut(f)
  BY <1>2, <1>3 DEF Unmatched, PostFails, PostTimesOut, Outcomes
<1>4. ASSUME NEW g \in Gateways, Post(f, g)
      PROVE  Kept
  BY <1>4, PostType DEF Post
<1>5. ASSUME NEW p \in posts, p.by = f, f # Nobody, RouterAnswers(p)
      PROVE  Kept
  BY <1>2, <1>5, AnswerFinds
<1>6. QED
  BY <1>1, <1>3, <1>4, <1>5, FiberOrigin

(* An answer can arrive at any later time.                                 *)
LEMMA DatagramsStay ==
  ASSUME [Next]_vars
  PROVE  datagrams \subseteq datagrams'
<1>1. CASE Network
  BY <1>1 DEF Network, Ask, Receive, GiveUp
<1>2. ASSUME NEW f \in Fibers, FiberStep(f)
      PROVE  UNCHANGED datagrams
  BY <1>2 DEF FiberStep, Unmatched, PostFails, PostTimesOut, Diagnose, Reply, Post
<1>3. ASSUME Router \/ Restarts \/ UNCHANGED vars
      PROVE  UNCHANGED datagrams
  BY <1>3 DEF Router, RouterAnswers, RouterAdds, RouterLoses, Restarts, RouterRestarts,
     GateStops, GateStarts, vars
<1>4. QED
  BY <1>1, <1>2, <1>3 DEF Next

(* What was true of an answer and the addresses in it stays true.          *)
LEMMA FollowsStays ==
  ASSUME [Next]_vars, NEW r, Follows(r)
  PROVE  Follows(r)'
BY DatagramsStay DEF Follows, TakenFor

(* What ip-router is asked to add is what the fiber of the request needs.  *)
LEMMA TodoOrigin ==
  ASSUME Base, [Next]_vars, NEW q \in posts', NEW r \in q.todo
  PROVE  \/ \E p \in posts : r \in p.todo
         \/ \E f \in Fibers, g \in Gateways : Post(f, g) /\ r \in Needed(f, g)
<1> USE DEF Base
<1>1. ASSUME NEW f \in Fibers, NEW g \in Gateways, Post(f, g)
      PROVE  (\E p \in posts : r \in p.todo) \/ r \in Needed(f, g)
  <2> DEFINE new == [by |-> f, failed |-> FALSE, todo |-> Needed(f, g)]
  <2>1. posts' = posts \cup {new}
    BY <1>1, PostType
  <2>2. new.todo = Needed(f, g)
    OBVIOUS
  <2>3. QED
    BY <2>1, <2>2
<1>2. ASSUME NEW f \in Fibers, PostTimesOut(f)
      PROVE  \E p \in posts : r \in p.todo
  BY <1>2, OrphanedType DEF PostTimesOut
<1>3. ASSUME NEW p \in posts, NEW x \in p.todo, RouterAdds(p, x)
      PROVE  \E y \in posts : r \in y.todo
  BY <1>3, RouterAddsType
<1>4. CASE GateStops
  <2>1. PICK p \in posts : q = [p EXCEPT !.by = Nobody]
    BY <1>4 DEF GateStops
  <2>2. p \in Posts
    BY DEF TypeOK
  <2>3. QED
    BY <2>1, <2>2, OrphanType
<1>5. CASE posts' \subseteq posts
  BY <1>5
<1>6. ASSUME NEW f \in Fibers, FiberStep(f), ~PostTimesOut(f), ~(\E g \in Gateways : Post(f, g))
      PROVE  UNCHANGED posts
  BY <1>6 DEF FiberStep, Unmatched, PostFails, Diagnose, Reply
<1>7. ASSUME NEW p \in posts, RouterAnswers(p)
      PROVE  posts' \subseteq posts
  BY <1>7 DEF RouterAnswers
<1>8. ASSUME \/ Network \/ RouterLoses \/ RouterRestarts \/ UNCHANGED vars
             \/ \E mode \in Modes : GateStarts(mode)
      PROVE  posts' \subseteq posts
  BY <1>8 DEF Network, Ask, Receive, GiveUp, RouterLoses, RouterRestarts, GateStarts,
     vars
<1>9. QED
  BY <1>1, <1>2, <1>3, <1>4, <1>5, <1>6, <1>7, <1>8 DEF Next, Router, Restarts

(* A route enters the table, or routes.db, from a request.                 *)
LEMMA RouteOrigin ==
  ASSUME Base, [Next]_vars, NEW r \in table' \cup left'
  PROVE  r \in table \cup left \/ \E p \in posts : r \in p.todo
<1> USE DEF Base
<1>1. ASSUME NEW p \in posts, NEW x \in p.todo, RouterAdds(p, x)
      PROVE  r \in table \cup left \/ r \in p.todo
  BY <1>1, RouterAddsType
<1>2. ASSUME Network \/ \E f \in Fibers : FiberStep(f)
      PROVE  UNCHANGED <<table, left>>
  BY <1>2 DEF Network, Ask, Receive, GiveUp, FiberStep, Unmatched, PostFails,
     PostTimesOut, Diagnose, Reply, Post
<1>3. ASSUME NEW p \in posts, RouterAnswers(p)
      PROVE  UNCHANGED <<table, left>>
  BY <1>3 DEF RouterAnswers
<1>4. ASSUME GateStops \/ (\E mode \in Modes : GateStarts(mode)) \/ UNCHANGED vars
      PROVE  UNCHANGED <<table, left>>
  BY <1>4 DEF GateStops, GateStarts, vars
<1>5. CASE RouterLoses
  BY <1>5 DEF RouterLoses, Lapse, Drop
<1>6. CASE RouterRestarts
  BY <1>6, RestartOrigin
<1>7. QED
  BY <1>1, <1>2, <1>3, <1>4, <1>5, <1>6 DEF Next, Router, Restarts

-----------------------------------------------------------------------------
(* Whose addresses are under way.                                          *)

(* A fiber takes an answer that came to its port with its id; from then on *)
(* the addresses are those of that answer and the key is that of the query.*)
LEMMA SourceStep ==
  ASSUME Base, SourceInv, [Next]_vars
  PROVE  SourceInv'
<1> USE DEF Base
<1> DEFINE Got(f) == \E m \in datagrams : /\ TakenFor(m, Query(f))
                                         /\ KeyOf[m.question.name] = fiber[f].answer
<1>1. datagrams \subseteq datagrams'
  BY DatagramsStay
<1>2. ASSUME NEW f \in Fibers, NEW m \in datagrams, Receive(f, m)
      PROVE  /\ fiber[f].pc = "asked"
             /\ fiber'[f].port = fiber[f].port /\ fiber'[f].question = fiber[f].question
             /\ fiber'[f].answer = KeyOf[m.question.name]
  BY <1>2 DEF Receive, Goes, TypeOK
<1>3. ASSUME NEW f \in Fibers, fiber'[f].pc # "free"
      PROVE  Query(f)' \in datagrams'
  <2>1. ASSUME fiber[f].pc # "free", fiber'[f].port = fiber[f].port,
               fiber'[f].question = fiber[f].question
        PROVE  Query(f)' \in datagrams'
    BY <1>1, <2>1 DEF SourceInv, Query
  <2>2. CASE fiber'[f].pc \in HasAnswer
    BY <1>2, <2>1, <2>2, AnswerOrigin DEF HasAnswer
  <2>3. CASE fiber'[f] = fiber[f]
    BY <1>3, <2>1, <2>3
  <2>4. CASE fiber'[f].pc \notin HasAnswer /\ fiber'[f] # fiber[f]
    <3>1. ~(\E m \in datagrams : Receive(f, m))
      BY <2>4 DEF Receive, Goes, TypeOK, HasAnswer
    <3>2. ASSUME fiber[f].pc \in {"checked", "routing"},
                 NEW outcome \in Outcomes, Replying(f, outcome)
          PROVE  FALSE
      BY <2>4, <3>2, ReplyingType DEF HasAnswer
    <3>3. ~(Unmatched(f) \/ PostFails(f) \/ PostTimesOut(f))
      BY <3>2 DEF Unmatched, PostFails, PostTimesOut, Outcomes
    <3>4. ~(\E g \in Gateways : Post(f, g))
      BY <2>4, PostType DEF HasAnswer
    <3>5. ~(\E p \in posts : p.by = f /\ f # Nobody /\ RouterAnswers(p))
      BY <3>2, AnswerFinds
    <3>6. QED
      BY <1>3, <2>4, <3>1, <3>3, <3>4, <3>5, FiberOrigin
  <2>5. QED
    BY <2>2, <2>3, <2>4
<1>4. ASSUME NEW f \in Fibers, fiber'[f].pc \in HasAnswer
      PROVE  Got(f)'
  <2>1. ASSUME NEW m \in datagrams, Receive(f, m)
        PROVE  Got(f)'
    <3>1. TakenFor(m, Query(f)')
      BY <1>2, <2>1 DEF Receive, Accepts, TakenFor, Query
    <3>2. QED
      BY <1>1, <1>2, <2>1, <3>1 DEF TakenFor
  <2>2. ASSUME fiber[f].pc \in HasAnswer, fiber'[f].port = fiber[f].port,
               fiber'[f].question = fiber[f].question, fiber'[f].answer = fiber[f].answer
        PROVE  Got(f)'
    <3>1. Got(f) /\ Query(f)' = Query(f)
      BY <2>2 DEF SourceInv, HasAnswer, Query
    <3>2. QED
      BY <1>1, <2>2, <3>1 DEF TakenFor
  <2>3. QED
    BY <1>4, <2>1, <2>2, AnswerOrigin
<1>5. ASSUME NEW q \in posts', NEW r \in q.todo
      PROVE  Follows(r)'
  <2>1. CASE \E p \in posts : r \in p.todo
    BY <2>1, FollowsStays DEF SourceInv
  <2>2. ASSUME NEW f \in Fibers, NEW g \in Gateways, Post(f, g), r \in Needed(f, g)
        PROVE  Follows(r)
    <3>1. fiber[f].pc = "checked" /\ ForClient(f)
      BY <2>2 DEF Post
    <3>2. Query(f) \in datagrams /\ Query(f).question.kind = "client"
      BY <3>1 DEF SourceInv, ForClient, Query
    <3>3. PICK m \in datagrams : /\ TakenFor(m, Query(f))
                                 /\ KeyOf[m.question.name] = fiber[f].answer
      BY <3>1 DEF SourceInv
    <3>4. r.key = KeyOf[Query(f).question.name] /\ r.ip \in Matched(f)
      BY <2>2 DEF Needed, Query
    <3>5. r.ip \in Resolve[KeyOf[m.question.name]] \cap Routed
      BY <3>3, <3>4 DEF Matched
    <3>6. QED
      BY <3>2, <3>3, <3>4, <3>5 DEF Follows
  <2>3. QED
    BY <2>1, <2>2, TodoOrigin, FollowsStays
<1>6. ASSUME NEW r \in table' \cup left'
      PROVE  Follows(r)'
  BY <1>6, RouteOrigin, FollowsStays DEF SourceInv
<1>7. QED
  BY <1>3, <1>4, <1>5, <1>6 DEF SourceInv, HasAnswer

(* A fiber is in a request because it made one.                            *)
LEMMA RoutingOrigin ==
  ASSUME Base, [Next]_vars, NEW f \in Fibers, fiber'[f].pc = "routing"
  PROVE  \/ fiber[f].pc = "routing" /\ fiber'[f] = fiber[f]
         \/ \E g \in Gateways : Post(f, g)
<1> USE DEF Base
<1>1. ASSUME NEW m \in datagrams, Receive(f, m)
      PROVE  FALSE
  BY <1>1 DEF Receive, Goes, TypeOK
<1>2. ASSUME fiber[f].pc \in {"checked", "routing"},
             NEW outcome \in Outcomes, Replying(f, outcome)
      PROVE  FALSE
  BY <1>2, ReplyingType
<1>3. ASSUME Unmatched(f) \/ PostFails(f) \/ PostTimesOut(f)
      PROVE  FALSE
  BY <1>2, <1>3 DEF Unmatched, PostFails, PostTimesOut, Outcomes
<1>4. ASSUME NEW p \in posts, p.by = f, f # Nobody, RouterAnswers(p)
      PROVE  FALSE
  BY <1>2, <1>4, AnswerFinds
<1>5. QED
  BY <1>1, <1>3, <1>4, FiberOrigin

(* A client is about to be answered because nothing matched, the request   *)
(* failed, or ip-router answered it.                                       *)
LEMMA ReplyOrigin ==
  ASSUME Base, [Next]_vars, NEW f \in Fibers, fiber'[f].pc = "replying"
  PROVE  \/ fiber[f].pc = "replying" /\ fiber'[f] = fiber[f]
         \/ Unmatched(f) /\ fiber'[f].outcome = "none"
         \/ (PostFails(f) \/ PostTimesOut(f)) /\ fiber'[f].outcome = "failed"
         \/ \E p \in posts :
              /\ p.by = f /\ f # Nobody /\ RouterAnswers(p)
              /\ fiber'[f].outcome # "none"
              /\ fiber'[f].outcome = "ok" => ~p.failed
<1> USE DEF Base
<1>1. ASSUME NEW m \in datagrams, Receive(f, m)
      PROVE  FALSE
  BY <1>1 DEF Receive, Goes, TypeOK
<1>2. ASSUME NEW g \in Gateways, Post(f, g)
      PROVE  FALSE
  BY <1>2, PostType
<1>3. ASSUME fiber[f].pc \in {"checked", "routing"},
             NEW outcome \in Outcomes, Replying(f, outcome)
      PROVE  fiber'[f].outcome = outcome
  BY <1>3, ReplyingType
<1>4. CASE Unmatched(f)
  BY <1>3, <1>4 DEF Unmatched, Outcomes
<1>5. CASE PostFails(f) \/ PostTimesOut(f)
  BY <1>3, <1>5 DEF PostFails, PostTimesOut, Outcomes
<1>6. ASSUME NEW p \in posts, p.by = f, f # Nobody, RouterAnswers(p)
      PROVE  /\ fiber'[f].outcome # "none"
             /\ fiber'[f].outcome = "ok" => ~p.failed
  BY <1>3, <1>6, AnswerFinds
<1>7. QED
  BY <1>1, <1>2, <1>4, <1>5, <1>6, FiberOrigin

(* What ip-router works on for a fiber was posted by it, and has come one  *)
(* route further or not.                                                   *)
LEMMA PostOrigin ==
  ASSUME Base, [Next]_vars, NEW q \in posts', q.by # Nobody
  PROVE  \/ q \in posts
         \/ \E g \in Gateways : q.by \in Fibers /\ Post(q.by, g) /\ q.todo = Needed(q.by, g)
         \/ \E p \in posts : \E r \in p.todo :
              /\ UNCHANGED <<fiber, gone>> /\ table \subseteq table'
              /\ q.by = p.by /\ q.todo = p.todo \ {r}
              /\ ~q.failed => ~p.failed /\ r \in table'
<1> USE DEF Base
<1>1. ASSUME NEW f \in Fibers, NEW g \in Gateways, Post(f, g)
      PROVE  q \in posts \/ (q.by = f /\ q.todo = Needed(f, g))
  <2> DEFINE new == [by |-> f, failed |-> FALSE, todo |-> Needed(f, g)]
  <2>1. posts' = posts \cup {new}
    BY <1>1, PostType
  <2>2. new.todo = Needed(f, g) /\ new.by = f
    OBVIOUS
  <2>3. QED
    BY <2>1, <2>2
<1>2. ASSUME NEW f \in Fibers, PostTimesOut(f)
      PROVE  q \in posts
  BY <1>2, OrphanedType DEF PostTimesOut
<1>3. ASSUME NEW p \in posts, NEW r \in p.todo, RouterAdds(p, r), q \notin posts
      PROVE  /\ UNCHANGED <<fiber, gone>> /\ table \subseteq table'
             /\ q.by = p.by /\ q.todo = p.todo \ {r}
             /\ ~q.failed => ~p.failed /\ r \in table'
  <2>1. UNCHANGED <<fiber, gone>>
    BY <1>3 DEF RouterAdds
  <2>2. QED
    BY <1>3, <2>1, RouterAddsType
<1>4. CASE GateStops
  <2>1. PICK p \in posts : q = [p EXCEPT !.by = Nobody]
    BY <1>4 DEF GateStops
  <2>2. p \in Posts
    BY DEF TypeOK
  <2>3. QED
    BY <2>1, <2>2, OrphanType
<1>5. ASSUME NEW f \in Fibers, FiberStep(f), ~PostTimesOut(f), ~(\E g \in Gateways : Post(f, g))
      PROVE  q \in posts
  BY <1>5 DEF FiberStep, Unmatched, PostFails, Diagnose, Reply
<1>6. ASSUME NEW p \in posts, RouterAnswers(p)
      PROVE  q \in posts
  BY <1>6 DEF RouterAnswers
<1>7. ASSUME \/ Network \/ RouterLoses \/ RouterRestarts \/ UNCHANGED vars
             \/ \E mode \in Modes : GateStarts(mode)
      PROVE  q \in posts
  BY <1>7 DEF Network, Ask, Receive, GiveUp, RouterLoses, RouterRestarts, GateStarts,
     vars
<1>8. QED
  BY <1>1, <1>2, <1>3, <1>4, <1>5, <1>6, <1>7 DEF Next, Router, Restarts

-----------------------------------------------------------------------------
(* How far a request has come.                                             *)

(* Whether routes are requested at all does not change under a query.      *)
LEMMA GeoStays ==
  ASSUME Base, ClientInv, [Next]_vars, NEW f \in Fibers,
         fiber[f].pc \in HasAnswer, fiber'[f].pc \in HasAnswer
  PROVE  geo' = geo
<1>1. fiber[f].pc # "free" /\ fiber'[f].pc # "free"
  BY DEF HasAnswer
<1>2. Free.pc = "free"
  BY DEF Free
<1>3. ~GateStops
  BY <1>1, <1>2 DEF GateStops
<1>4. ~(\E mode \in Modes : GateStarts(mode))
  BY <1>1, <1>2 DEF GateStarts, ClientInv
<1>5. QED
  BY <1>3, <1>4 DEF Next, Network, Ask, Receive, GiveUp, Router, RouterAnswers,
     RouterAdds, RouterLoses, Restarts, RouterRestarts, FiberStep, Unmatched, PostFails,
     PostTimesOut, Diagnose, Reply, Post, vars

(* A route the fiber's key has, or had since the answer came, stays in the *)
(* table or goes on record as taken away: the worker, the other requests   *)
(* and a restart of ip-router all take from the table what they take.      *)
LEMMA HadStays ==
  ASSUME Base, [Next]_vars, NEW f \in Fibers,
         fiber[f].pc \in HasAnswer, ForClient(f), fiber'[f].pc \in HasAnswer,
         NEW r \in table \cup gone[f], r.key = KeyOf[fiber[f].question.name]
  PROVE  r \in table' \cup gone'[f]
<1> USE DEF Base, HasAnswer
<1>1. Awaits(f, r)
  BY DEF Awaits
<1>2. CASE UNCHANGED <<table, gone>>
  BY <1>2
<1>3. ASSUME NEW e \in Fibers, Reply(e)
      PROVE  r \in table' \cup gone'[f]
  <2>1. CASE e = f
    <3>1. fiber'[f] = Free
      BY <1>3, <2>1 DEF Reply, Goes, TypeOK
    <3>2. QED
      BY <3>1 DEF Free
  <2>2. CASE e # f
    BY <1>3, <2>2 DEF Reply, TypeOK
  <2>3. QED
    BY <2>1, <2>2
<1>4. ASSUME NEW p \in posts, NEW x \in p.todo, RouterAdds(p, x)
      PROVE  r \in table' \cup gone'[f]
  <2>1. UNCHANGED gone
    BY <1>4 DEF RouterAdds
  <2>2. QED
    BY <1>4, <2>1, RouterAddsType
<1>5. ASSUME RouterLoses \/ RouterRestarts
      PROVE  r \in table' \cup gone'[f]
  <2>1. gone'[f] = gone[f] \cup {x \in table \ table' : Awaits(f, x)}
    BY <1>5 DEF RouterLoses, RouterRestarts, Missed
  <2>2. QED
    BY <1>1, <2>1
<1>6. CASE GateStops
  BY <1>6 DEF GateStops, Free
<1>7. ASSUME NEW e \in Fibers, FiberStep(e), ~Reply(e)
      PROVE  UNCHANGED <<table, gone>>
  BY <1>7 DEF FiberStep, Unmatched, PostFails, PostTimesOut, Diagnose, Post
<1>8. ASSUME NEW p \in posts, RouterAnswers(p)
      PROVE  UNCHANGED <<table, gone>>
  BY <1>8 DEF RouterAnswers
<1>9. ASSUME Network \/ (\E mode \in Modes : GateStarts(mode)) \/ UNCHANGED vars
      PROVE  UNCHANGED <<table, gone>>
  BY <1>9 DEF Network, Ask, Receive, GiveUp, GateStarts, vars
<1>10. QED
  BY <1>2, <1>3, <1>4, <1>5, <1>6, <1>7, <1>8, <1>9 DEF Next, Router, Restarts

(* A fiber that had its answer keeps its needs.                            *)
LEMMA NeedStays ==
  ASSUME Base, ClientInv, [Next]_vars, NEW f \in Fibers,
         fiber[f].pc \in HasAnswer, fiber'[f].pc \in HasAnswer
  PROVE  /\ fiber'[f].question = fiber[f].question
         /\ Matched(f)' = Matched(f)
         /\ \A g \in Gateways : Needed(f, g)' = Needed(f, g)
<1>1. ~(\E m \in datagrams : Receive(f, m))
  BY DEF Receive, HasAnswer
<1>2. /\ fiber'[f].question = fiber[f].question
      /\ fiber'[f].answer = fiber[f].answer
  BY <1>1, AnswerOrigin
<1>3. geo' = geo
  BY GeoStays
<1>4. Matched(f)' = Matched(f)
  BY <1>2, <1>3 DEF Matched
<1>5. QED
  BY <1>2, <1>4 DEF Needed

(* Only a client's query makes a route request, and a query ends with      *)
(* dns-gate.                                                               *)
LEMMA ClientStep ==
  ASSUME Base, ClientInv, [Next]_vars
  PROVE  ClientInv'
<1>1. ASSUME NEW f \in Fibers, fiber'[f].pc \in {"routing", "replying"}
      PROVE  ForClient(f)'
  <2>1. CASE fiber'[f] = fiber[f]
    BY <1>1, <2>1 DEF ClientInv, ForClient
  <2>2. ASSUME fiber[f].pc \in HasAnswer, ForClient(f)
        PROVE  ForClient(f)'
    BY <1>1, <2>2, NeedStays DEF ForClient, HasAnswer
  <2>3. CASE Unmatched(f) \/ PostFails(f) \/ \E g \in Gateways : Post(f, g)
    BY <2>2, <2>3 DEF Unmatched, PostFails, Post, HasAnswer
  <2>4. CASE PostTimesOut(f)
    BY <2>2, <2>4 DEF PostTimesOut, ClientInv, HasAnswer
  <2>5. ASSUME NEW p \in posts, p.by = f, f # Nobody, RouterAnswers(p)
        PROVE  ForClient(f)'
    BY <2>2, <2>5, AnswerFinds DEF ClientInv, HasAnswer
  <2>6. CASE fiber'[f].pc = "routing"
    BY <2>1, <2>3, <2>6, RoutingOrigin
  <2>7. CASE fiber'[f].pc = "replying"
    BY <2>1, <2>3, <2>4, <2>5, <2>7, ReplyOrigin
  <2>8. QED
    BY <1>1, <2>6, <2>7
<1>2. ASSUME geo' = "down", NEW f \in Fibers
      PROVE  fiber'[f] = Free
  <2>1. CASE GateStops
    BY <2>1 DEF GateStops
  <2>2. CASE UNCHANGED geo /\ ~GateStops
    <3>1. \A e \in Fibers : fiber[e].pc = "free"
      BY <1>2, <2>2 DEF ClientInv, Free
    <3>2. \A p \in posts : p.by = Nobody
      BY <3>1 DEF Base, TypeOK, WaitInv, Waiting, Posts
    <3>3. UNCHANGED fiber
      <4>1. ~Network
        BY <1>2, <2>2, <3>1 DEF Network, Ask, Receive, GiveUp
      <4>2. ~(\E e \in Fibers : FiberStep(e))
        BY <3>1 DEF FiberStep, Unmatched, PostFails, PostTimesOut, Diagnose, Reply, Post
      <4>3. Router => UNCHANGED fiber
        BY <3>2 DEF Router, RouterAnswers, RouterAdds, RouterLoses
      <4>4. Restarts => UNCHANGED fiber
        BY <2>2 DEF Restarts, RouterRestarts, GateStarts
      <4>5. QED
        BY <4>1, <4>2, <4>3, <4>4 DEF Next, vars
    <3>4. QED
      BY <1>2, <2>2, <3>3 DEF ClientInv
  <2>3. CASE \E mode \in Modes : GateStarts(mode)
    BY <1>2, <2>3 DEF GateStarts, Modes
  <2>4. QED
    BY <2>1, <2>2, <2>3 DEF Next, Network, Ask, Receive, GiveUp, Router, RouterAnswers,
       RouterAdds, RouterLoses, Restarts, RouterRestarts, FiberStep, Unmatched, PostFails,
       PostTimesOut, Diagnose, Reply, Post, vars
<1>3. QED
  BY <1>1, <1>2 DEF ClientInv

(* A request comes one route further with each that is added, and others   *)
(* do not set it back unnoticed.                                           *)
LEMMA ProgressStep ==
  ASSUME Base, Base', ClientInv, ProgressInv, [Next]_vars
  PROVE  ProgressInv'
<1> SUFFICES ASSUME NEW q \in posts', q.by # Nobody, ~q.failed
             PROVE  \E g \in Gateways :
                      Needed(q.by, g)' \subseteq q.todo \cup table' \cup gone'[q.by]
  BY DEF ProgressInv, Progress
<1> DEFINE f == q.by
<1>1. f \in Fibers /\ fiber'[f].pc = "routing"
  BY DEF Base, TypeOK, WaitInv, Waiting, Posts
<1>2. CASE q \in posts
  <2>1. fiber[f].pc = "routing" /\ ForClient(f)
    BY <1>1, <1>2 DEF Base, WaitInv, Waiting, ClientInv
  <2>2. PICK g \in Gateways : Needed(f, g) \subseteq q.todo \cup table \cup gone[f]
    BY <1>2 DEF ProgressInv, Progress
  <2>3. Needed(f, g)' = Needed(f, g)
    BY <1>1, <2>1, NeedStays DEF HasAnswer
  <2>4. \A r \in Needed(f, g) : r.key = KeyOf[fiber[f].question.name]
    BY DEF Needed
  <2>5. Needed(f, g) \subseteq q.todo \cup table' \cup gone'[f]
    BY <1>1, <2>1, <2>2, <2>4, HadStays DEF HasAnswer
  <2>6. QED
    BY <2>3, <2>5
<1>3. ASSUME NEW g \in Gateways, Post(f, g), q.todo = Needed(f, g)
      PROVE  Needed(f, g)' \subseteq q.todo
  BY <1>1, <1>3, NeedStays DEF Post, HasAnswer
<1>4. ASSUME NEW p \in posts, NEW r \in p.todo, UNCHANGED <<fiber, gone>>,
             table \subseteq table', f = p.by, q.todo = p.todo \ {r},
             ~q.failed => ~p.failed /\ r \in table'
      PROVE  \E g \in Gateways :
               Needed(f, g)' \subseteq q.todo \cup table' \cup gone'[f]
  <2>1. fiber[f].pc = "routing"
    BY <1>1, <1>4
  <2>2. PICK g \in Gateways : Needed(f, g) \subseteq p.todo \cup table \cup gone[f]
    BY <1>4 DEF ProgressInv, Progress
  <2>3. Needed(f, g)' = Needed(f, g)
    BY <1>1, <2>1, NeedStays DEF HasAnswer
  <2>4. QED
    BY <1>4, <2>2, <2>3
<1>5. QED
  BY <1>2, <1>3, <1>4, PostOrigin

(* When ip-router answers that nothing failed there is nothing left to do: *)
(* what the fiber needs is in the table or was taken away.                 *)
LEMMA ReplyStep ==
  ASSUME Base, ClientInv, ProgressInv, RoutedBeforeReply, [Next]_vars
  PROVE  RoutedBeforeReply'
<1> SUFFICES ASSUME NEW f \in Fibers, fiber'[f].pc = "replying"
             PROVE  /\ fiber'[f].outcome = "none" => Matched(f)' = {}
                    /\ fiber'[f].outcome = "ok" =>
                         \A d \in Matched(f)' : \E g \in Gateways :
                           [key |-> KeyOf[fiber'[f].question.name], ip |-> d, gateway |-> g]
                             \in table' \cup gone'[f]
  BY DEF RoutedBeforeReply
<1>1. ASSUME fiber[f].pc \in HasAnswer
      PROVE  fiber'[f].question = fiber[f].question /\ Matched(f)' = Matched(f)
  BY <1>1, NeedStays DEF HasAnswer
<1>2. ASSUME fiber[f].pc \in HasAnswer, ForClient(f),
             NEW r \in table \cup gone[f], r.key = KeyOf[fiber[f].question.name]
      PROVE  r \in table' \cup gone'[f]
  BY <1>2, HadStays DEF HasAnswer
<1>3. CASE fiber[f].pc = "replying" /\ fiber'[f] = fiber[f]
  BY <1>1, <1>2, <1>3 DEF RoutedBeforeReply, ClientInv, HasAnswer
<1>4. CASE Unmatched(f) /\ fiber'[f].outcome = "none"
  BY <1>1, <1>4 DEF Unmatched, HasAnswer
<1>5. CASE fiber'[f].outcome = "failed"
  BY <1>5
<1>6. ASSUME NEW p \in posts, p.by = f, f # Nobody, RouterAnswers(p),
             fiber'[f].outcome # "none", fiber'[f].outcome = "ok" => ~p.failed
      PROVE  fiber'[f].outcome = "ok" =>
               \A d \in Matched(f)' : \E g \in Gateways :
                 [key |-> KeyOf[fiber'[f].question.name], ip |-> d, gateway |-> g]
                   \in table' \cup gone'[f]
  <2> SUFFICES ASSUME fiber'[f].outcome = "ok", NEW d \in Matched(f)'
               PROVE  \E g \in Gateways :
                        [key |-> KeyOf[fiber'[f].question.name], ip |-> d, gateway |-> g]
                          \in table' \cup gone'[f]
    OBVIOUS
  <2>1. fiber[f].pc = "routing" /\ p.todo = {} /\ ForClient(f)
    BY <1>6, AnswerFinds DEF ClientInv
  <2>2. PICK g \in Gateways : Needed(f, g) \subseteq table \cup gone[f]
    BY <1>6, <2>1 DEF ProgressInv, Progress
  <2>3. d \in Matched(f) /\ fiber'[f].question = fiber[f].question
    BY <1>1, <2>1 DEF HasAnswer
  <2> DEFINE r == [key |-> KeyOf[fiber[f].question.name], ip |-> d, gateway |-> g]
  <2>4. r \in table \cup gone[f] /\ r.key = KeyOf[fiber[f].question.name]
    BY <2>2, <2>3 DEF Needed
  <2>5. r \in table' \cup gone'[f]
    BY <1>2, <2>1, <2>4 DEF HasAnswer
  <2>6. QED
    BY <2>3, <2>5
<1>7. QED
  BY <1>3, <1>4, <1>5, <1>6, ReplyOrigin

-----------------------------------------------------------------------------
(* The theorems.                                                           *)

(* Who waits for which request is inductive with the types.                *)
THEOREM BaseHolds == Spec => []Base
<1>1. Init => Base
  BY BaseInit
<1>2. Base /\ [Next]_vars => Base'
  BY BaseStep
<1>3. QED
  BY <1>1, <1>2, PTL DEF Spec

(* The state of dns-gate and of its requests is of its type.               *)
THEOREM TypeCorrect == Spec => []TypeOK
BY BaseHolds, PTL DEF Base

(* Whose addresses are under way, at every step of either process.         *)
THEOREM SourceHolds == Spec => []SourceInv
<1>1. Init => SourceInv
  BY DEF Init, SourceInv, Empty, Free
<1>2. Base /\ SourceInv /\ [Next]_vars => SourceInv'
  BY SourceStep
<1>3. QED
  BY <1>1, <1>2, BaseHolds, PTL DEF Spec

(* A fiber goes on with an answer to its own query, or with one that was   *)
(* sent from its port with its id, whatever ids the queries have.          *)
THEOREM AnswerIsForQuestionHolds == Spec => []AnswerIsForQuestion
<1>1. SourceInv => AnswerIsForQuestion
  BY DEF SourceInv, AnswerIsForQuestion
<1>2. QED
  BY <1>1, SourceHolds, PTL

(* A route leads to an address in a routed country, in an answer that the  *)
(* fiber could not tell from the one to its client's query.                *)
THEOREM RoutesFollowAnswersHolds == Spec => []RoutesFollowAnswers
<1>1. SourceInv => RoutesFollowAnswers
  BY DEF SourceInv, RoutesFollowAnswers
<1>2. QED
  BY <1>1, SourceHolds, PTL

(* A client is answered after its routes: what ip-router reported added is *)
(* there, or was taken away since.                                         *)
THEOREM RoutedBeforeReplyHolds == Spec => []RoutedBeforeReply
<1> DEFINE Delivery == ClientInv /\ ProgressInv /\ RoutedBeforeReply
<1>1. Init => Delivery
  BY DEF Init, Modes, ClientInv, ProgressInv, RoutedBeforeReply, Free
<1>2. Base /\ Base' /\ Delivery /\ [Next]_vars => Delivery'
  BY ClientStep, ProgressStep, ReplyStep
<1>3. Spec => []Delivery
  BY <1>1, <1>2, BaseHolds, PTL DEF Spec
<1>4. QED
  BY <1>3, PTL

=============================================================================
