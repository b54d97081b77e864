SPECIFICATION Spec
CONSTANTS
  Entries = {e1, e2}
  CertEntries = {e1}
  Ids = {i1, i2, i3}
  StaticIds = {s1}
  Teams = {System}
  System = System
  Configs <- SomeConfigs
  Envs <- SomeEnvs
  DefaultInterval = 2
  MaxHours = 2
  Faults = {"read", "save", "crash"}
  None = None
  Missing = Missing
  Torn = Torn
  s1 = s1
SYMMETRY IdSymmetry
INVARIANTS TypeOK Complete IdsStick
PROPERTIES RemovedForAReason  StopKeeps PanicIsFromEnv
