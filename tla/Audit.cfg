SPECIFICATION AuditSpec
CONSTANTS
  CertIds = {c1}
  KeyIds = {k1}
  TeamIds = {}
  System = System
  StaticCerts <- StaticCert
  StaticKeys <- TwoTeams
  StaticTeams = {s1, s2}
  Bodies <- SomeBodies
  Kinds <- Kinds6
  Clients = {r1, r2}
  Faults = {}
  Tokens = {k1}
  None = None
  Torn = Torn
  s1 = s1
  s2 = s2
  sc = sc
  k1 = k1
SYMMETRY ClientSymmetry
INVARIANTS AuditTypeOK Confined ReportConfined 
PROPERTIES StaysInScope
