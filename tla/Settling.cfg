SPECIFICATION FairSpec
CONSTANTS
  Ids = {c1}
  DomainLists <- PlainLists
  Keys = {k1, k2, k3, k4}
  Loop = loop
  Reloads = {r1}
  Faults = {}
  None = None
  Absent = Absent
  Torn = Torn
  a = a
  b = b
PROPERTIES Settles Converges 
