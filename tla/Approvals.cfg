CONSTANTS
  alice = alice
  bob = bob
  lunch = lunch
  taxi = taxi
  n1 = n1
  n2 = n2
  r1 = r1
  r2 = r2
  r3 = r3
  Setup = Setup
  NoGroup = NoGroup
  None = None
  Node = {n1}
  Request = {r1, r2, r3}
  User = {alice, bob}
  ExpenseId = {lunch, taxi}
  Workload <- Approvals
  Stamps = {1}
  Founders <- Alice
  Waiting <- Bob
  Warm = {n1}
  Crashing = {}
  DHTFails = FALSE
SPECIFICATION Spec
SYMMETRY Symmetry
INVARIANTS
  TypeOK
  LockHeld
PROPERTIES
  OnlyApprovalForgives
\* A handler that panics keeps the lock of the shard: everything may stop.
CHECK_DEADLOCK FALSE
