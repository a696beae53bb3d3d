--------------------------- MODULE MCRouteManager ---------------------------
(* Small instances of RouteManager for TLC.                                *)
EXTENDS RouteManager, TLC

CONSTANTS k1, k2, d1, d2, g1, g2

(* routes.db does not exist yet, or holds nothing.                         *)
MCNoFile == {{}}

(* ... or was edited by hand: two keys want d1 through different gateways, *)
(* one key states its route twice, a line has expired while the service    *)
(* was down.                                                               *)
MCHandEdited ==
  { {},
    { NewRoute(k1, d1, g1, 1), NewRoute(k2, d1, g2, Forever) },
    { NewRoute(k1, d1, g1, 1), NewRoute(k1, d1, g1, Forever) },
    { NewRoute(k1, d1, g1, 0), NewRoute(k2, d1, g2, Forever),
      NewRoute(k2, d1, g1, 0) } }

=============================================================================
