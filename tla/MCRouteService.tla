--------------------------- MODULE MCRouteService ---------------------------
(* Small instances of RouteService for TLC.                                *)
EXTENDS RouteService, TLC

CONSTANTS k1, k2, d1, d2, g1, g2

MCSymmetry == Permutations(Keys) \cup Permutations(Dests) \cup Permutations(Gateways)

=============================================================================
