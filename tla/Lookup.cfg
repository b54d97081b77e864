SPECIFICATION Spec
CONSTANTS
  Labels <- AllLabels
  Star = "*"
  Names <- SomeNames
  Rank <- Position
  Teams = {"t1", "t2"}
  Lists <- SomeLists
  Keys <- SomeKeys
  None = None
INVARIANTS TypeOK RightCertificate
