SPECIFICATION CerterSpec
CONSTANTS
  CertIds = {c1}
  KeyIds = {}
  TeamIds = {}
  System = System
  StaticCerts <- NoCerts
  StaticKeys <- RootOnly
  StaticTeams = {}
  Bodies = {}
  Kinds <- CertKinds
  Clients = {r1}
  Faults = {"save", "restart"}
  DomainLists <- OneList
  Keys = {k1, k2, k3}
  Loop = loop
  Reloads = {p1}
  Mishaps = {"issue", "write", "directory", "restart"}
  None = None
  Absent = Absent
  Torn = Torn
  a = a
  b = b
SYMMETRY KeySymmetry
PROPERTIES FilesFollowAPI SchedulerAsModelled
