---------------------------- MODULE ExpenseSplit ----------------------------
(***************************************************************************)
(* How AddExpense turns an amount into debts (node/node.go), as operators. *)
(* An amount is a number of mills, thousandths of the currency unit; a     *)
(* debt is a number of cents in an int64, here any two's complement width. *)
(***************************************************************************)
EXTENDS Integers, SequencesExt

CONSTANT IntMax   \* the largest int64

IntMin == - IntMax - 1

\* Conversion to an integer drops the fraction.
TowardZero(x, y) == IF x < 0 THEN - ((- x) \div y) ELSE x \div y

\* A plausible other Cents: rounds to the nearest cent, halves up.
CentsRounded(amount, n) == {(amount + 5 * n) \div (10 * n)}

\* What int64(owed*100) may be for one of n equal shares of an amount: the
\* product of floats may fall short of a whole number of cents, and what does
\* not fit becomes one end of the range or the other, as the platform has it.
Cents(amount, n) ==
  LET c == TowardZero(amount, 10 * n)
  IN  CASE c > IntMax \/ c < IntMin -> {IntMin, IntMax}
        [] c > 0 /\ amount % (10 * n) = 0 -> {c, c - 1}
        [] c < 0 /\ amount % (10 * n) = 0 -> {c, c + 1}
        [] OTHER -> {c}

\* A plausible other Plus: an integer that knows no bounds.
PlusUnbounded(x, y) == x + y

\* A sum of int64s wraps around.
Plus(x, y) == ((x + y - IntMin) % (2 * (IntMax + 1))) + IntMin

\* Who owes a share: everybody who takes part, once, but not the payer.
Splits(participants, payer) == ToSet(participants) \ {payer}
=============================================================================
