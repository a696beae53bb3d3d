\* A VPN owns the route a managed record names.
SPECIFICATION Spec
CONSTANTS
  k1 = k1
  k2 = k2
  d1 = d1
  d2 = d2
  g1 = g1
  g2 = g2
  Keys = {k1, k2}
  Dests = {d1}
  Gateways = {g1, g2}
  NoGateway = NoGateway
  Ttls = {0, 1}
  MaxLeft = 1
  RetryAfter = 1
  Faults = {"external"}
  InitialFiles <- MCNoFile
PROPERTIES
  WorkerSparesOthers
