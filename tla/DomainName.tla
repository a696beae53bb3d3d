----------------------------- MODULE DomainName -----------------------------
(***************************************************************************)
(* domain_manager::valid_domain of ip-router, which brings the name a      *)
(* client or a directory entry has to the form that names the resolver     *)
(* file, and normalize_domain of dns-gate, which does the same for the     *)
(* diagnostic lookups.                                                     *)
(*                                                                         *)
(* A name is a sequence of kinds of characters: "A" is a capital, "a" any  *)
(* other letter or a digit, " " white space, "?" what may not occur in a   *)
(* name at all.                                                            *)
(***************************************************************************)
EXTENDS Naturals, Sequences, SequencesExt

CONSTANTS
  MaxLabel,  \* 63
  MaxName,   \* 253
  InputLength \* bound of the model: how long the names looked at are

ASSUME DomainNameAssumption ==
  MaxLabel \in Nat \ {0} /\ MaxName \in Nat \ {0} /\ InputLength \in Nat

Character == {"A", "a", "-", ".", " ", "?"}

NoName == <<"?">>  \* the result of a name that is no domain

-----------------------------------------------------------------------------

Lower(c) == IF c = "A" THEN "a" ELSE c

(* All dots at the end go.                                                 *)
Stripped(s) ==
  LET kept == {i \in 1..Len(s) : s[i] # "."}
  IN  IF kept = {} THEN <<>> ELSE SubSeq(s, 1, CHOOSE i \in kept : \A j \in kept : j <= i)

LabelEnds(scan) == scan.label \in 1..MaxLabel /\ scan.last # "-"

(* The scan: the length of the label so far, the character before, and     *)
(* whether all has been right.                                             *)
Scanned(scan, c) ==
  IF c = "."
  THEN [ok |-> scan.ok /\ LabelEnds(scan), label |-> 0, last |-> c]
  ELSE [ok |-> scan.ok /\ c \notin {" ", "?"} /\ ~(c = "-" /\ scan.label = 0),
        label |-> scan.label + 1, last |-> c]

Valid(name) ==
  LET end == FoldLeft(Scanned, [ok |-> TRUE, label |-> 0, last |-> "."], name)
  IN  Len(name) \in 1..MaxName /\ end.ok /\ LabelEnds(end)

Lowered(s) == [i \in 1..Len(s) |-> Lower(s[i])]

valid_domain(s) ==
  LET name == Stripped(s) IN IF Valid(name) THEN Lowered(name) ELSE NoName

(* trim_space, lower, and then the same dots and the same scan.            *)
Trimmed(s) ==
  LET kept == {i \in 1..Len(s) : s[i] # " "}
  IN  IF kept = {} THEN <<>>
      ELSE SubSeq(s, CHOOSE i \in kept : \A j \in kept : i <= j,
                     CHOOSE i \in kept : \A j \in kept : j <= i)

normalize_domain(s) ==
  LET name == Stripped(Lowered(Trimmed(s))) IN IF Valid(name) THEN name ELSE NoName

-----------------------------------------------------------------------------
(* A domain name as RFC 1123 has it: labels of 1 to MaxLabel letters,      *)
(* digits and hyphens, no hyphen at either end of one, dots between.       *)

Label(l) ==
  /\ Len(l) \in 1..MaxLabel
  /\ \A i \in 1..Len(l) : l[i] \in {"a", "A", "-"}
  /\ l[1] # "-" /\ l[Len(l)] # "-"

Edge(name, i) == i = 0 \/ i = Len(name) + 1 \/ name[i] = "."

DomainName(name) ==
  /\ Len(name) <= MaxName
  /\ \A i, j \in 0..Len(name) + 1 :
       /\ i < j
       /\ Edge(name, i) /\ Edge(name, j)
       /\ \A k \in i + 1..j - 1 : ~Edge(name, k)
       => Label(SubSeq(name, i + 1, j - 1))

Inputs == UNION {[1..n -> Character] : n \in 0..InputLength}

(* The scan accepts what is a domain name but for dots at its end, and the *)
(* result is one that add, remove and list leave as it is: a file that add *)
(* creates is one that list shows and remove finds.  The domain a resolver *)
(* file is for is the one a diagnostic lookup asks for.                    *)
NamesSettle ==
  \A s \in Inputs :
    LET name == valid_domain(s)
    IN  IF name = NoName
        THEN ~DomainName(Stripped(s))
        ELSE /\ DomainName(Stripped(s))
             /\ valid_domain(name) = name
             /\ \A i \in {j \in 1..Len(name) : name[j] = "a"} :
                  valid_domain(Append([name EXCEPT ![i] = "A"], ".")) = name
             /\ normalize_domain(<<" ">> \o s \o <<" ">>) = name

=============================================================================
