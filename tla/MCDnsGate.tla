----------------------------- MODULE MCDnsGate -----------------------------
(* Small instances of DnsGate for TLC.                                     *)
EXTENDS DnsGate, TLC

CONSTANTS n1, N1, n2, k1, k2, d1, d2, d3, g1, g2, f1, f2, p1, p2

(* N1 is n1 in capitals.                                                   *)
MCNames == {n1, N1, n2}
MCKeyOf == n1 :> k1 @@ N1 :> k1 @@ n2 :> k2
MCResolve == k1 :> {d1, d2} @@ k2 :> {d3}

(* The id of the diagnostic lookup of n1 is the one a client has chosen    *)
(* for n2.                                                                 *)
MCColliding ==
  { [kind |-> "client", name |-> n1, qid |-> 1],
    [kind |-> "client", name |-> n2, qid |-> 2],
    [kind |-> "lookup", name |-> n1, qid |-> 2] }

(* Every id belongs to one query; the first is for a name in capitals.     *)
MCClients ==
  { [kind |-> "client", name |-> N1, qid |-> 1],
    [kind |-> "client", name |-> n2, qid |-> 2] }

MCSymmetry == Permutations(Fibers) \cup Permutations(Ports)

=============================================================================
