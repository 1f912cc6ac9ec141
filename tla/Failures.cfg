CONSTANTS
  alice = alice
  bob = bob
  lunch = lunch
  taxi = taxi
  n1 = n1
  n2 = n2
  r1 = r1
  r2 = r2
  r3 = r3
  Setup = Setup
  NoGroup = NoGroup
  None = None
  Node = {n1, n2}
  Request = {r1, r2}
  User = {alice, bob}
  ExpenseId = {lunch, taxi}
  Workload <- Failures
  Stamps = {1}
  Founders <- Couple
  Waiting <- Nobody
  Warm = {n1}
  Crashing = {n1}
  DHTFails = TRUE
SPECIFICATION Spec
INVARIANTS
  LockHeld
  NoOvercharge
  DebtsWarranted
  OwnDebtsKept
  OnlyRivalsTakeDebts
