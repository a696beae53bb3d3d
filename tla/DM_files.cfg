\* Two handlers on the same files, other programs, failures and restarts.
SPECIFICATION Spec
CONSTANTS
  MaxLabel = 2
  MaxName = 4
  InputLength = 5
  s1 = s1
  s2 = s2
  h1 = h1
  h2 = h2
  Domains <- MCDomains
  Spellings <- MCSpellings
  Normal <- MCNormal
  Invalid <- MCInvalid
  Servers = {s1}
  Handlers = {h1, h2}
  Faults = {"io", "refresh", "program", "restart"}
SYMMETRY MCSymmetry
INVARIANTS
  TypeOK
  WholeFiles
  CallIsAtomic
  StaleIsKnown
  ListIsTrue
