SPECIFICATION Spec
CONSTANTS
  dan = dan  eve = eve  k1 = k1  k2 = k2
  Self = Self
  Gen = {k1}
  Debtor = {dan, eve}
  Expense <- Expenses
  Extra = {}
  MaxSigned = 1
  MaxAdded = 1
  Scale = 4
  IntMax = 7
  NoKey = NoKey
  HalfKey = HalfKey
INVARIANTS GenuineAccepted
