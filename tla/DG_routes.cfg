\* A lookup has the id of a client's query; one of two addresses is in a routed country.
SPECIFICATION Spec
CONSTANTS
  n1 = n1
  N1 = N1
  n2 = n2
  k1 = k1
  k2 = k2
  d1 = d1
  d2 = d2
  d3 = d3
  g1 = g1
  g2 = g2
  f1 = f1
  f2 = f2
  p1 = p1
  p2 = p2
  Keys = {k1, k2}
  Dests = {d1, d2, d3}
  Gateways = {g1}
  Names <- MCNames
  KeyOf <- MCKeyOf
  Resolve <- MCResolve
  Routed = {d1}
  Questions <- MCColliding
  Fibers = {f1, f2}
  Ports = {p1, p2}
  MaxPosts = 2
SYMMETRY MCSymmetry
INVARIANTS
  TypeOK
  
  RoutesFollowAnswers
  RoutedBeforeReply
