------------------------------- MODULE Routes -------------------------------
(***************************************************************************)
(* The data of ip-router's route manager (src/ip-router/route_manager.cpp):*)
(* managed routes, the two-level index installed_routes (KEY -> IP ->      *)
(* metadata) and routes.db, both of which are sets of route records here.  *)
(*                                                                         *)
(* Time is relative.  The code stores the absolute second `expires_at`; a  *)
(* record here carries `left`, the time that still separates it from that  *)
(* second: Forever when expires_at = 0, and 0 once expires_at <= now.      *)
(* `cool` is what is left of the 30 seconds during which last_attempt      *)
(* keeps the worker from trying again; routes.db does not store it.        *)
(***************************************************************************)
EXTENDS Integers

CONSTANTS
  Keys,        \* route keys, normally a domain
  Dests,       \* destination IPv4 addresses, each one a /32 host route
  Gateways,    \* next hops
  NoGateway,   \* not a gateway: the destination has no route
  Ttls,        \* the ttl values of requests, in ticks; 0 never expires
  MaxLeft,     \* BOUND: no lifetime is longer than this
  RetryAfter   \* the 30 seconds between two attempts, in ticks

ASSUME RoutesAssumption ==
  /\ NoGateway \notin Gateways
  /\ MaxLeft \in Nat
  /\ Ttls \subseteq 0..MaxLeft
  /\ RetryAfter \in Nat

-----------------------------------------------------------------------------

Forever == -1

Lefts == {Forever} \cup 0..MaxLeft

Route == [key: Keys, ip: Dests, gateway: Gateways,
          left: Lefts, cool: 0..RetryAfter]

(* What routes.db stores: no last_attempt.                                 *)
SavedRoute == {r \in Route : r.cool = 0}

(* A record as a request or routes.db states it, its last_attempt zero.    *)
NewRoute(k, d, g, left) ==
  [key |-> k, ip |-> d, gateway |-> g, left |-> left, cool |-> 0]

(* ttl <= 0 is permanent; a positive ttl starts counting down.             *)
Lifetime(ttl) == IF ttl = 0 THEN Forever ELSE ttl

Expired(r) == r.left = 0

LiveTimed(S) == {r \in S : r.left > 0}  \* mistake: 0 is not seen as "never"

Live(S) == {r \in S : ~Expired(r)}

(* What the expiration worker picks: expired, and not in its cool-down.    *)
Due(S) == {r \in S : Expired(r) /\ r.cool = 0}

(* mistakes: expired records are not written; expires_at is not written    *)
SavedLive(S) == {[r EXCEPT !.cool = 0] : r \in {x \in S : ~Expired(x)}}

SavedForever(S) == {[r EXCEPT !.cool = 0, !.left = Forever] : r \in S}

(* What reaches routes.db: every field but last_attempt.                   *)
Saved(S) == {[r EXCEPT !.cool = 0] : r \in S}

(* installed_routes[key][ip] = ...                                         *)
Put(S, r) == {x \in S : x.key # r.key \/ x.ip # r.ip} \cup {r}

(* Erase the references every key holds to destination d through g.        *)
Forget(S, d, g) == {x \in S : x.ip # d \/ x.gateway # g}

(* mistakes: permanent routes age too; the cool-down never ends            *)
OlderAlways(r) == [r EXCEPT !.left = IF @ # 0 THEN @ - 1 ELSE @]

OlderCoolStays(r) == [r EXCEPT !.left = IF @ > 0 THEN @ - 1 ELSE @]

(* One tick of the clock.                                                  *)
Older(r) == [r EXCEPT !.left = IF @ > 0 THEN @ - 1 ELSE @,
                      !.cool = IF @ > 0 THEN @ - 1 ELSE @]

Age(S) == {Older(r) : r \in S}

=============================================================================
