---------------------------- MODULE RouteLedger -----------------------------
(***************************************************************************)
(* What the route manager promises to whoever reads routes.db after a      *)
(* crash: routes.db is a ledger kept ahead of the kernel's route table.    *)
(*                                                                         *)
(*   - a step changes the ledger or the table, never both: there is no     *)
(*     moment at which the two must change together;                       *)
(*   - a route enters the table only when the ledger has it, and the       *)
(*     ledger never lets go of a line the table still needs;               *)
(*   - a line goes for one of four reasons: it has expired, another line   *)
(*     contests its destination or states the same key's route again, or   *)
(*     the route was taken out of the table first and every key's line for *)
(*     it is struck together.                                              *)
(*                                                                         *)
(* No index, no mutex, no process: RouteManager implements this.           *)
(***************************************************************************)
EXTENDS Routes

VARIABLES
  book,  \* the lines of the ledger
  wire   \* the next hop of every destination in the route table

Bare == [d \in Dests |-> NoGateway]

(* Every route of the table has its line.                                  *)
Covers(b, w) ==
  \A d \in Dests : w[d] # NoGateway =>
    \E r \in b : r.ip = d /\ r.gateway = w[d]

(* Lines that any rewrite of the ledger may leave out.                     *)
Contested(b) == {r \in b : \E x \in b : x.ip = r.ip /\ x.gateway # r.gateway}

Repeated(b) == {r \in b : \E x \in b : x.key = r.key /\ x.ip = r.ip /\ x # r}

Droppable(b) == {r \in b : Expired(r)} \cup Contested(b) \cup Repeated(b)

Init ==
  /\ book \subseteq SavedRoute
  /\ wire = Bare

-----------------------------------------------------------------------------

(* Write b, less some lines nobody needs.                                  *)
Rewrite(b) ==
  /\ \E gone \in SUBSET Droppable(book) : book' = b \ gone
  /\ Covers(book', wire)
  /\ UNCHANGED wire

(* A new line, or the new lifetime of an old one.                          *)
Enter(r) ==
  /\ ~Expired(r)
  /\ Rewrite(Put(book, r))
  /\ r \in book'
  /\ \A x \in Live(book') : x.ip = r.ip => x.gateway = r.gateway

(* Every key's line for d through g, once the table no longer has it.      *)
Strike(d, g) ==
  /\ wire[d] # g
  /\ Rewrite(Forget(book, d, g))

Purge == Rewrite(book)

Connect(d, g) ==
  /\ \E r \in book : r.ip = d /\ r.gateway = g
  /\ wire' = [wire EXCEPT ![d] = g]
  /\ UNCHANGED book

Disconnect(d) ==
  /\ wire' = [wire EXCEPT ![d] = NoGateway]
  /\ UNCHANGED book

PowerLoss == wire' = Bare /\ UNCHANGED book

Pass == book' = Age(book) /\ UNCHANGED wire

Next ==
  \/ Purge \/ PowerLoss \/ Pass
  \/ \E r \in Route : Enter(r)
  \/ \E d \in Dests : Disconnect(d) \/ \E g \in Gateways : \/ Connect(d, g)
                                                           \/ Strike(d, g)

Spec == Init /\ [][Next]_<<book, wire>>

=============================================================================
