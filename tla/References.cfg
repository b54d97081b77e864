SPECIFICATION Spec
CONSTANTS
  CertIds = {c1}
  KeyIds = {k1}
  TeamIds = {t1}
  System = System
  StaticCerts <- NoCerts
  StaticKeys <- RootOnly
  StaticTeams = {}
  Bodies <- TeamBodies
  Kinds <- AllKinds
  Clients = {r1, r2}
  Faults = {"save", "restart", "email"}
  None = None
  Torn = Torn
  c1 = c1
  t1 = t1
SYMMETRY ClientSymmetry
INVARIANTS TypeOK DanglesOnlyIfRaced LockFollowed
