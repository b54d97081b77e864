SPECIFICATION ServingSpec
CONSTANTS
  Ids = {c1}
  DomainLists <- OnlyOne
  Keys = {k1, k2, k3}
  Loop = loop
  Reloads = {r1}
  Faults = {"restart"}
  Questions = {"list", "raw", "status", "handshake"}
  None = None
  Absent = Absent
  Torn = Torn
  a = a
  b = b
SYMMETRY KeySymmetry
INVARIANTS ServingTypeOK  StatusIsRight HandshakeServes
