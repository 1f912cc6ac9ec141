CONSTANTS
  alice = alice
  bob = bob
  lunch = lunch
  taxi = taxi
  n1 = n1
  n2 = n2
  r1 = r1
  r2 = r2
  r3 = r3
  Setup = Setup
  NoGroup = NoGroup
  None = None
  Node = {n1, n2}
  Request = {r1, r2, r3}
  User = {alice, bob}
  ExpenseId = {lunch, taxi}
  Workload <- Founding
  Stamps = {1}
  Founders <- Nobody
  Waiting <- Nobody
  Warm = {}
  Crashing = {}
  DHTFails = FALSE
SPECIFICATION Spec
INVARIANTS
  NothingInvented
PROPERTIES
  ImplementsLedger
\* The system stops when every request failed before a group was stored,
\* or every node is dead.
CHECK_DEADLOCK FALSE
