-------------------------- MODULE MCSignedExpenses --------------------------
EXTENDS SignedExpenses

CONSTANTS dan, eve, k1, k2

\* A cent and a half for each, an amount in whole cents, a share of two of one
\* debtor, a refund, an amount that does not fit, and an expense of nobody.
Expenses ==
  {[amount |-> 30, participants |-> <<Self, dan>>],
   [amount |-> 40, participants |-> <<dan, dan, eve, Self>>],
   [amount |-> - 20, participants |-> <<dan>>],
   [amount |-> 90, participants |-> <<eve>>],
   [amount |-> 20, participants |-> << >>]}
=============================================================================
