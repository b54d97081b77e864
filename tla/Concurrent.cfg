SPECIFICATION FairSpec
CONSTANTS
  CertIds = {c1, c2}
  KeyIds = {k1}
  TeamIds = {}
  System = System
  StaticCerts <- NoCerts
  StaticKeys <- RootOnly
  StaticTeams = {}
  Bodies <- CertBodies
  Kinds <- KeyKinds
  Clients = {r1, r2}
  Faults = {"save", "restart"}
  None = None
  Torn = Torn
  c1 = c1
  t1 = t1
INVARIANTS InSync
PROPERTIES NoRevival KeepsContract Answered
