\* A kernel that refuses requests and a routes.db that cannot be read; time goes on.
SPECIFICATION FairSpec
CONSTANTS
  k1 = k1
  k2 = k2
  d1 = d1
  d2 = d2
  g1 = g1
  g2 = g2
  Keys = {k1, k2}
  Dests = {d1, d2}
  Gateways = {g1}
  NoGateway = NoGateway
  Ttls = {0, 1}
  MaxLeft = 1
  RetryAfter = 1
  Faults = {"kernel", "read"}
  InitialFiles <- MCNoFile
INVARIANTS
  ManagedInstalled
  RefusedStaysOut
PROPERTIES
  ExpiryCompletes
