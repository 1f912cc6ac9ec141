SPECIFICATION LoopSpec
CONSTANTS
  n1 = n1  n2 = n2  g1 = g1  g2 = g2  c1 = c1  c2 = c2
  Node = {n1, n2}
  Group = {g1, g2}
  Creation = {c1, c2}
  Workload <- Creations
  Flaky = {n2}
  Hash <- Hashes
  HashMax = 7
  IntMax = 7
  NumShards = 2
  None = None
  Looping = {n2}
  Stopping = {n1, n2}
  NumWorkers = 2
INVARIANTS LoopTypeOK ListedIsStored OnlyTroubleUnlists RoundComplete OnlyKillsStrand
PROPERTIES ImplementsRegistry ListedIsSynced
CHECK_DEADLOCK FALSE
