\* Batches, shared references, partial failures, and the settings of the gateway.
SPECIFICATION Spec
CONSTANTS
  k1 = k1
  k2 = k2
  d1 = d1
  d2 = d2
  g1 = g1
  g2 = g2
  Keys = {k1, k2}
  Dests = {d1, d2}
  Gateways = {g1, g2}
  NoGateway = NoGateway
  Faults = {"manager", "store", "unreadable", "restart"}
SYMMETRY MCSymmetry
INVARIANTS
  TypeOK
  SettingsAreFile
  AddedMeansThere
  DeletedMeansGone
  FailureChangesNothing
