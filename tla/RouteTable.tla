----------------------------- MODULE RouteTable -----------------------------
(***************************************************************************)
(* What the route manager is to its callers: a table of references, each   *)
(* operation on it one step.  The handlers of route_service.cpp are        *)
(* written against this (RouteService), and RouteManager implements it     *)
(* whatever fails.                                                         *)
(***************************************************************************)
CONSTANTS Keys, Dests, Gateways

VARIABLE table

Ref == [key: Keys, ip: Dests, gateway: Gateways]

Hop(d, g) == {r \in Ref : r.ip = d /\ r.gateway = g}

Empty == table = {}

(* A destination has one gateway: an add that disagrees is refused.        *)
Agrees(d, g) == \A r \in table : r.ip = d => r.gateway = g

Add(k, d, g) ==
  /\ Agrees(d, g)
  /\ table' = table \cup {[key |-> k, ip |-> d, gateway |-> g]}

(* All keys lose a destination together.                                   *)
Drop(d, g) == table' = table \ Hop(d, g)

(* One reference expires.                                                  *)
Lapse(r) == r \in table /\ table' = table \ {r}

(* The process is gone.                                                    *)
Lose == table' = {}

TableNext ==
  \/ Lose
  \/ \E r \in Ref : Lapse(r)
  \/ \E d \in Dests, g \in Gateways : Drop(d, g) \/ \E k \in Keys : Add(k, d, g)

TableSpec == Empty /\ [][TableNext]_table

=============================================================================
