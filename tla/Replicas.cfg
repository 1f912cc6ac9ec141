CONSTANTS
  Replica = {a, b}
  Key = {k1, k2}
  Tag = {t1, t2, t3}
  Delta = {1, 2}
  MaxOps = 2
  MaxCalls = 3
SPECIFICATION ReplicasSpec
SYMMETRY Symmetry
INVARIANTS
  ReplicasTypeOK
  ValueIsSum
  CountersConverge
  OnlyCallsCount
PROPERTIES
  VersionsSurvive
  NeverFalls
