-------------------------- MODULE MCDomainManager --------------------------
(* Small instances of DomainManager for TLC, with the names of DomainName. *)
EXTENDS DomainManager, DomainName, TLC

CONSTANTS s1, s2, h1, h2

(* Two domains; the first is also written in capitals with a dot at its    *)
(* end; and a name that is no domain.                                      *)
MCDomains == {<<"a">>, <<"a", ".", "a">>}
MCSpellings == MCDomains \cup {<<"A", ".">>, <<"-">>}
MCNormal(s) == valid_domain(s)
MCInvalid == NoName

(* valid_domain against the definition of a domain name, for every input   *)
(* of up to InputLength characters.                                        *)
ASSUME NamesChecked == NamesSettle

MCSymmetry == Permutations(Handlers) \cup Permutations(Servers)

=============================================================================
