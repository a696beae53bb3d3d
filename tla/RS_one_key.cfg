\* Nothing fails; two keys share an address.
SPECIFICATION Spec
CONSTANTS
  k1 = k1
  k2 = k2
  d1 = d1
  d2 = d2
  g1 = g1
  g2 = g2
  Keys = {k1, k2}
  Dests = {d1}
  Gateways = {g1}
  NoGateway = NoGateway
  Faults = {}
PROPERTIES
  DeleteKeepsOthers
