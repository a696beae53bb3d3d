\* A disk that refuses writes, a process and a machine that die at any step.
SPECIFICATION Spec
CONSTANTS
  k1 = k1
  k2 = k2
  d1 = d1
  d2 = d2
  g1 = g1
  g2 = g2
  Keys = {k1, k2}
  Dests = {d1, d2}
  Gateways = {g1, g2}
  NoGateway = NoGateway
  Ttls = {0, 1}
  MaxLeft = 1
  RetryAfter = 1
  Faults = {"write", "crash", "reboot"}
  InitialFiles <- MCHandEdited
INVARIANTS
  TypeOK
  ManagedInstalled
  KernelOwned
  KernelRecorded
  AckedDurable
  AckedInForce
PROPERTIES
  ImplementsLedger
