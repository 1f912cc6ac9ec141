SPECIFICATION Spec
CONSTANTS
  dan = dan  eve = eve  k1 = k1  k2 = k2
  Self = Self
  Gen = {k1, k2}
  Debtor = {dan, eve}
  Expense <- Expenses
  Extra = {"note"}
  MaxSigned = 2
  MaxAdded = 3
  Scale = 4
  IntMax = 7
  NoKey = NoKey
  HalfKey = HalfKey
INVARIANTS TypeOK PrintedKeyIsInFile DebtsFollowShares
