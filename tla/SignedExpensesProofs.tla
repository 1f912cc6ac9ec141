------------------------ MODULE SignedExpensesProofs ------------------------
(***************************************************************************)
(* Proofs about SignedExpenses: its types, that a careful user's key file  *)
(* keeps the key that was printed, and that debts follow the exact shares, *)
(* for every range of integers, every set of expenses and any number of    *)
(* requests.                                                               *)
(***************************************************************************)
EXTENDS SignedExpenses, TLAPS

-----------------------------------------------------------------------------
\* Numbers.

\* A product of integers grows with either factor.
LEMMA TimesMonotone ==
  ASSUME NEW x \in Int, NEW y \in Int, NEW u \in Nat, x <= y
  PROVE  x * u \in Int /\ y * u \in Int /\ x * u <= y * u
<1>1. (y - x) * u >= 0
  OBVIOUS
<1>2. (y - x) * u = y * u - x * u
  OBVIOUS
<1> QED
  BY <1>1, <1>2

\* What an integer is, divided by a positive one.
LEMMA Division ==
  ASSUME NEW x \in Int, NEW y \in Nat \ {0}
  PROVE  /\ x \div y \in Int /\ x % y \in 0 .. y - 1
         /\ x = y * (x \div y) + (x % y)
OBVIOUS

\* A sum of int64s is an int64, and the true sum if that is one.
LEMMA PlusType ==
  ASSUME NEW x \in Int64, NEW y \in Int
  PROVE  /\ Plus(x, y) \in Int64
         /\ x + y \in Int64 => Plus(x, y) = x + y
<1> DEFINE m == 2 * (IntMax + 1)
           z == x + y - IntMin
<1>1. IntMax \in Nat /\ IntMin = - IntMax - 1 /\ x \in Int
  BY SignedAssumption DEF IntMin, Int64
<1>2. m \in Nat \ {0} /\ z \in Int
  BY <1>1
<1>3. z % m \in 0 .. m - 1
  BY <1>2, Division
<1>4. Plus(x, y) = (z % m) + IntMin
  BY DEF Plus
<1>5. Plus(x, y) \in Int64
  BY <1>1, <1>3, <1>4 DEF Int64
<1>6. ASSUME x + y \in Int64 PROVE Plus(x, y) = x + y
  <2>1. z \in 0 .. m - 1
    BY <1>1, <1>6 DEF Int64
  <2>2. z % m = z
    BY <1>2, <2>1
  <2> QED
    BY <1>1, <1>4, <2>2
<1> QED
  BY <1>5, <1>6

\* Toward zero means never further from zero, and less than one short.
LEMMA TowardZeroBounds ==
  ASSUME NEW a \in Int, NEW y \in Nat \ {0}
  PROVE  LET t == TowardZero(a, y)
         IN  /\ t \in Int
             /\ a >= 0 => t >= 0 /\ t * y <= a /\ a - y < t * y
             /\ a < 0 => t <= 0 /\ a <= t * y
<1>1. CASE a >= 0
  <2>1. TowardZero(a, y) = a \div y
    BY <1>1 DEF TowardZero
  <2>2. a \div y \in Int /\ a % y \in 0 .. y - 1 /\ a = y * (a \div y) + (a % y)
    BY Division
  <2>3. a \div y >= 0
    BY <1>1
  <2> QED
    BY <1>1, <2>1, <2>2, <2>3
<1>2. CASE a < 0
  <2> DEFINE b == - a
  <2>1. TowardZero(a, y) = - (b \div y)
    BY <1>2 DEF TowardZero
  <2>2. b \in Int /\ b >= 0
    BY <1>2
  <2>3. b \div y \in Int /\ b % y \in 0 .. y - 1 /\ b = y * (b \div y) + (b % y)
    BY <2>2, Division
  <2>4. b \div y >= 0
    BY <2>2
  <2> DEFINE q == b \div y
  <2>5. (- q) * y = - (y * q)
    BY <2>3
  <2> QED
    BY <1>2, <2>1, <2>3, <2>4, <2>5
<1> QED
  BY <1>1, <1>2

\* A share in cents is at most the exact share of an amount that is owed, at
\* least nothing of a refund's, and never short of the exact share by more than
\* a cent; or it did not fit.
LEMMA CentsBounds ==
  ASSUME NEW a \in Int, NEW n \in Nat \ {0}, NEW c \in Cents(a, n)
  PROVE  /\ c \in Int
         /\ c \notin {IntMin, IntMax} =>
              /\ a - 10 * n <= c * (10 * n)
              /\ a > 0 => c * (10 * n) <= a
              /\ a <= 0 => c <= 0
<1> DEFINE y == 10 * n
           t == TowardZero(a, y)
<1>1. y \in Nat \ {0} /\ IntMin \in Int /\ IntMax \in Int
  BY SignedAssumption DEF IntMin
<1>2. /\ t \in Int
      /\ a >= 0 => t >= 0 /\ t * y <= a /\ a - y < t * y
      /\ a < 0 => t <= 0 /\ a <= t * y
  BY <1>1, TowardZeroBounds
<1>3. t > 0 => a > 0
  BY <1>1, <1>2
<1>4. t < 0 => a < 0
  BY <1>1, <1>2
<1>5. \/ c \in {IntMin, IntMax}
      \/ c = t
      \/ t > 0 /\ a % y = 0 /\ c = t - 1
      \/ t < 0 /\ c = t + 1
  BY DEF Cents
<1>6. (t - 1) * y = t * y - y /\ (t + 1) * y = t * y + y
  BY <1>1, <1>2
<1>7. t > 0 /\ a % y = 0 => a = t * y
  <2>1. t > 0 => t = a \div y
    BY <1>1, <1>3 DEF TowardZero
  <2>2. a \div y \in Int /\ a % y \in 0 .. y - 1 /\ a = y * (a \div y) + (a % y)
    BY <1>1, Division
  <2>3. y * (a \div y) = (a \div y) * y
    BY <1>1, <2>2
  <2> QED
    BY <1>1, <2>1, <2>2, <2>3
<1>8. c \in Int
  BY <1>1, <1>2, <1>5
<1> HIDE DEF t
<1> SUFFICES ASSUME c \notin {IntMin, IntMax}
             PROVE  a - y <= c * y /\ (a > 0 => c * y <= a) /\ (a <= 0 => c <= 0)
  BY <1>8
<1> DEFINE ty == t * y
<1>9. ty \in Int /\ y \in Int
  BY <1>1, <1>2
<1> HIDE DEF y
<1>10. CASE c = t
  <2>1. c * y = ty
    BY <1>10
  <2> HIDE DEF ty
  <2> QED
    BY <1>1, <1>2, <1>9, <1>10, <2>1 DEF ty
<1>11. CASE t > 0 /\ a % y = 0 /\ c = t - 1
  <2>1. c * y = ty - y /\ a = ty
    BY <1>6, <1>7, <1>11
  <2> HIDE DEF ty
  <2> QED
    BY <1>1, <1>3, <1>9, <1>11, <2>1
<1>12. CASE t < 0 /\ c = t + 1
  <2>1. c * y = ty + y
    BY <1>6, <1>12
  <2>2. a <= ty
    BY <1>2, <1>4, <1>12
  <2> HIDE DEF ty
  <2> QED
    BY <1>1, <1>2, <1>4, <1>9, <1>12, <2>1, <2>2
<1> QED
  BY <1>5, <1>10, <1>11, <1>12

\* Who owes a share shares with somebody: there is a number to divide by.
LEMMA OwingShares ==
  ASSUME NEW e \in Expense, Splits(e.participants, Self) # {}
  PROVE  /\ Len(e.participants) \in Nat \ {0}
         /\ Scale % Len(e.participants) = 0
         /\ e.amount \in Int
<1> DEFINE p == e.participants
<1>1. p \in Seq(ToSet(p)) /\ e.amount \in Int
  BY SignedAssumption
<1>2. Len(p) \in Nat /\ DOMAIN p = 1 .. Len(p)
  BY <1>1
<1>3. DOMAIN p # {}
  BY DEF Splits, ToSet
<1>4. Len(p) \in Nat \ {0}
  BY <1>2, <1>3
<1>5. Len(p) > 0 => Scale % Len(p) = 0
  BY SignedAssumption
<1> QED
  BY <1>1, <1>4, <1>5

\* The exact share, in the unit in which it is a whole number.
LEMMA ShareBounds ==
  ASSUME NEW e \in Expense, Splits(e.participants, Self) # {},
         NEW c \in Cents(e.amount, Len(e.participants))
  PROVE  LET unit == 10 * Scale
         IN  /\ Share(e) \in Int
             /\ c \in Int
             /\ e.amount > 0 => Share(e) >= 0
             /\ c \notin {IntMin, IntMax} =>
                  /\ Share(e) - unit <= c * unit
                  /\ e.amount > 0 => c * unit <= Share(e)
                  /\ e.amount <= 0 => c * unit <= 0
<1> DEFINE a == e.amount
           n == Len(e.participants)
           k == Scale \div n
           unit == 10 * Scale
<1>1. a \in Int /\ n \in Nat \ {0} /\ Scale % n = 0 /\ Scale \in Nat \ {0}
  BY OwingShares, SignedAssumption
<1>2. k \in Nat /\ Scale = n * k
  <2> HIDE DEF n
  <2>1. Scale \div n \in Int /\ Scale = n * (Scale \div n) + (Scale % n)
    BY <1>1, Division
  <2>2. Scale \div n >= 0
    BY <1>1
  <2> QED
    BY <1>1, <2>1, <2>2
<1> HIDE DEF k
<1>3. Share(e) = a * k
  <2>1. a * Scale = n * (a * k)
    BY <1>1, <1>2
  <2>2. a * k \in Int
    BY <1>1, <1>2
  <2> DEFINE z == a * k
  <2> HIDE DEF z
  <2>3. (n * z) \div n = z
    BY <1>1, <2>2 DEF z
  <2> QED
    BY <2>1, <2>3 DEF Share, z
<1>4. /\ c \in Int
      /\ c \notin {IntMin, IntMax} =>
           /\ a - 10 * n <= c * (10 * n)
           /\ a > 0 => c * (10 * n) <= a
           /\ a <= 0 => c <= 0
  BY <1>1, CentsBounds
<1>5. a > 0 => a * k >= 0
  BY <1>1, <1>2
<1>6. (c * (10 * n)) * k = c * unit /\ (a - 10 * n) * k = a * k - unit
      /\ (10 * n) * k = unit
  BY <1>1, <1>2, <1>4
<1>7. a - 10 * n \in Int /\ c * (10 * n) \in Int
  BY <1>1, <1>4
<1>8. c \notin {IntMin, IntMax} =>
        /\ (a - 10 * n) * k <= (c * (10 * n)) * k
        /\ a > 0 => (c * (10 * n)) * k <= a * k
  BY <1>1, <1>2, <1>4, <1>7, TimesMonotone
<1>9. c <= 0 => c * unit <= 0
  BY <1>1, <1>4
<1>10. a * k \in Int /\ unit \in Int
  BY <1>1, <1>2
<1> HIDE DEF a, unit
<1>11. ASSUME c \notin {IntMin, IntMax}
       PROVE  /\ a * k - unit <= c * unit
              /\ a > 0 => c * unit <= a * k
              /\ a <= 0 => c * unit <= 0
  BY <1>4, <1>6, <1>8, <1>9, <1>11
<1> QED
  BY <1>3, <1>4, <1>5, <1>10, <1>11 DEF a, unit

-----------------------------------------------------------------------------
\* Types.

LEMMA SignedTypeInit == Init => TypeOK
<1> SUFFICES ASSUME Init PROVE TypeOK
  OBVIOUS
<1>1. 0 \in Int64
  BY SignedAssumption DEF Int64, IntMin
<1>2. Nothing \in [Debtor -> Int64] /\ Nothing \in [Debtor -> Int]
  BY <1>1 DEF Nothing
<1>3. added \in 0 .. MaxAdded
  BY SignedAssumption DEF Init
<1>4. gen \in [Gen -> {"idle", "make", "write", "done", "refused"}]
  BY DEF Init
<1> QED
  BY <1>2, <1>3, <1>4 DEF Init, TypeOK

\* A request that is signed is a request, whatever its signature's length.
LEMMA SignType ==
  ASSUME TypeOK, NEW op \in Request, Sign(op)
  PROVE  TypeOK'
<1>1. PICK bytes \in CreateOperationData(op) : \E x \in SignData(keyFile, bytes) :
        signed' = signed \cup {[op |-> op, signature |-> x]}
  BY DEF Sign
<1>2. PICK x \in SignData(keyFile, bytes) :
        signed' = signed \cup {[op |-> op, signature |-> x]}
  BY <1>1
<1>3. x.size \in 62 .. 64
  BY DEF SignData, ComponentSize
<1>4. \A r \in signed' : r.op \in Request /\ r.signature.size \in 62 .. 64
  BY <1>2, <1>3 DEF TypeOK
<1>5. refused' \subseteq signed'
  BY <1>2 DEF TypeOK, Sign, history
<1> QED
  BY <1>4, <1>5 DEF TypeOK, Sign, keys, copies, history

\* What AddExpense does to the history and to the entries, its choice named.
LEMMA AddExpenseChooses ==
  ASSUME NEW r, AddExpense(r), Splits(r.op.content.participants, Self) # {}
  PROVE  LET e == r.op.content
             owing == Splits(e.participants, Self)
         IN  \E c \in Cents(e.amount, Len(e.participants)) :
               /\ entry' = [d \in Debtor |->
                    IF d \in owing THEN Plus(entry[d], c) ELSE entry[d]]
               /\ due' = [d \in Debtor |->
                    IF d \in owing THEN due[d] + Share(e) ELSE due[d]]
               /\ gross' = [d \in Debtor |->
                    IF d \in owing /\ e.amount > 0
                      THEN gross[d] + Share(e) ELSE gross[d]]
               /\ wild' = \/ wild
                          \/ c \in {IntMin, IntMax}
                          \/ \E d \in owing : entry[d] + c \notin Int64
<1>1. r.signature.key = member
  BY DEF AddExpense, VerifySignature
<1> QED
  BY <1>1 DEF AddExpense

LEMMA AddExpenseType ==
  ASSUME TypeOK, NEW r \in signed, AddExpense(r)
  PROVE  TypeOK'
<1> DEFINE e == r.op.content
           owing == Splits(e.participants, Self)
<1>1. e \in Expense
  BY DEF TypeOK, Request
<1>2. /\ entry' \in [Debtor -> Int64] /\ wild' \in BOOLEAN
      /\ due' \in [Debtor -> Int] /\ gross' \in [Debtor -> Int]
  <2>1. CASE owing = {}
    BY <2>1 DEF AddExpense, TypeOK
  <2>2. CASE owing # {}
    <3>1. PICK c \in Cents(e.amount, Len(e.participants)) :
            /\ entry' = [d \in Debtor |->
                 IF d \in owing THEN Plus(entry[d], c) ELSE entry[d]]
            /\ due' = [d \in Debtor |->
                 IF d \in owing THEN due[d] + Share(e) ELSE due[d]]
            /\ gross' = [d \in Debtor |->
                 IF d \in owing /\ e.amount > 0
                   THEN gross[d] + Share(e) ELSE gross[d]]
            /\ wild' = \/ wild
                       \/ c \in {IntMin, IntMax}
                       \/ \E d \in owing : entry[d] + c \notin Int64
      BY <2>2, AddExpenseChooses
    <3>2. c \in Int /\ Share(e) \in Int
      BY <1>1, <2>2, ShareBounds
    <3>3. entry' \in [Debtor -> Int64]
      BY <3>1, <3>2, PlusType DEF TypeOK
    <3>4. due' \in [Debtor -> Int] /\ gross' \in [Debtor -> Int]
      BY <3>1, <3>2 DEF TypeOK
    <3>5. wild' \in BOOLEAN
      BY <3>1, Zenon DEF TypeOK
    <3> QED
      BY <3>3, <3>4, <3>5
  <2> QED
    BY <2>1, <2>2
<1>3. stored' \in [Debtor -> Int64]
  BY <1>2 DEF AddExpense, TypeOK
<1>4. added' \in 0 .. MaxAdded
  BY SignedAssumption DEF AddExpense, TypeOK
<1> QED
  BY <1>2, <1>3, <1>4 DEF AddExpense, TypeOK, keys

\* The larger of two entries is an entry.
LEMMA MergeType ==
  ASSUME NEW x \in [Debtor -> Int64], NEW y \in [Debtor -> Int64]
  PROVE  MergeEntries(x, y) \in [Debtor -> Int64]
BY DEF MergeEntries

LEMMA SignedTypeNext == TypeOK /\ [Next]_vars => TypeOK'
<1> SUFFICES ASSUME TypeOK, [Next]_vars PROVE TypeOK'
  OBVIOUS
<1> USE DEF keys, copies, history
<1>1. ASSUME NEW g \in Gen, NEW force \in BOOLEAN, GenKeyChecks(g, force)
      PROVE  TypeOK'
  <2>1. forced' \in BOOLEAN
    BY <1>1, Zenon DEF GenKeyChecks, TypeOK
  <2>2. gen' \in [Gen -> {"idle", "make", "write", "done", "refused"}]
    BY <1>1 DEF GenKeyChecks, TypeOK
  <2> QED
    BY <1>1, <2>1, <2>2 DEF GenKeyChecks, TypeOK
<1>2. ASSUME NEW g \in Gen, GenKeyCreates(g) PROVE TypeOK'
  BY <1>2 DEF GenKeyCreates, TypeOK
<1>3. ASSUME NEW g \in Gen, GenKeyWrites(g) PROVE TypeOK'
  BY <1>3 DEF GenKeyWrites, TypeOK
<1>4. ASSUME NEW g \in Gen, Join(g) PROVE TypeOK'
  BY <1>4 DEF Join, TypeOK
<1>5. ASSUME NEW op \in Request, Sign(op) PROVE TypeOK'
  BY <1>5, SignType
<1>6. ASSUME NEW r \in signed, Refuse(r) PROVE TypeOK'
  BY <1>6 DEF Refuse, TypeOK
<1>7. ASSUME NEW r \in signed, AddExpense(r) PROVE TypeOK'
  BY <1>7, AddExpenseType
<1>8. CASE SyncHere
  BY <1>8, MergeType DEF SyncHere, TypeOK
<1>9. CASE SyncThere
  BY <1>9, MergeType DEF SyncThere, TypeOK
<1>10. CASE WriteThere
  BY <1>10 DEF WriteThere, TypeOK
<1>11. CASE UNCHANGED vars
  BY <1>11 DEF vars, TypeOK
<1> QED
  BY <1>1, <1>2, <1>3, <1>4, <1>5, <1>6, <1>7, <1>8, <1>9, <1>10, <1>11 DEF Next

\* Every variable keeps its type; above all, entries stay int64s whatever is
\* added to them (AddExpense, PNCounter.Merge).
THEOREM SignedTypes == Spec => []TypeOK
BY SignedTypeInit, SignedTypeNext, PTL DEF Spec

-----------------------------------------------------------------------------
\* The key file.  Until somebody forces genkey or runs it twice at once, no
\* two runs are under way; one that found no file still has none when it is
\* about to create it, and half of one when it is about to write.
KeyInv ==
  ~ forced =>
    /\ \A g, h \in UnderWay : g = h
    /\ \A g \in Gen : gen[g] = "make" => keyFile = NoKey
    /\ \A g \in Gen : gen[g] = "write" => keyFile = HalfKey
    /\ PrintedKeyIsInFile

LEMMA KeyInit == Init => KeyInv
BY DEF Init, KeyInv, UnderWay, PrintedKeyIsInFile

LEMMA KeyNext == TypeOK /\ KeyInv /\ [Next]_vars => KeyInv'
<1> SUFFICES ASSUME TypeOK, KeyInv, [Next]_vars, ~ forced' PROVE KeyInv'
  BY DEF KeyInv
<1> USE DEF KeyInv, UnderWay, PrintedKeyIsInFile
<1>1. ASSUME NEW g \in Gen, NEW force \in BOOLEAN, GenKeyChecks(g, force)
      PROVE  KeyInv'
  <2>1. ~ forced /\ ~ force /\ UnderWay = {}
    BY <1>1 DEF GenKeyChecks
  <2>2. \A h \in Gen : h # g => gen'[h] = gen[h] /\ gen[h] \notin {"make", "write"}
    BY <1>1, <2>1 DEF GenKeyChecks, TypeOK
  <2>3. gen'[g] \in {"make", "refused"} /\ (gen'[g] = "make" => keyFile = NoKey)
    BY <1>1, <2>1 DEF GenKeyChecks, TypeOK
  <2>4. keyFile' = keyFile /\ printed' = printed
    BY <1>1 DEF GenKeyChecks
  <2> QED
    BY <2>1, <2>2, <2>3, <2>4
<1>2. ASSUME NEW g \in Gen, GenKeyCreates(g) PROVE KeyInv'
  <2>1. ~ forced /\ g \in UnderWay /\ keyFile = NoKey
    BY <1>2 DEF GenKeyCreates
  <2>2. printed = {}
    BY <2>1, SignedAssumption DEF TypeOK
  <2>3. \A h \in Gen : h # g => gen'[h] = gen[h] /\ gen[h] \notin {"make", "write"}
    BY <1>2, <2>1 DEF GenKeyCreates, TypeOK
  <2>4. gen'[g] = "write" /\ keyFile' = HalfKey /\ printed' = printed
    BY <1>2 DEF GenKeyCreates, TypeOK
  <2> QED
    BY <2>1, <2>2, <2>3, <2>4
<1>3. ASSUME NEW g \in Gen, GenKeyWrites(g) PROVE KeyInv'
  <2>1. ~ forced /\ g \in UnderWay /\ keyFile = HalfKey
    BY <1>3 DEF GenKeyWrites
  <2>2. printed = {}
    BY <2>1, SignedAssumption DEF TypeOK
  <2>3. \A h \in Gen : h # g => gen'[h] = gen[h] /\ gen[h] \notin {"make", "write"}
    BY <1>3, <2>1 DEF GenKeyWrites, TypeOK
  <2>4. gen'[g] = "done" /\ keyFile' = g /\ printed' = {g}
    BY <1>3, <2>2 DEF GenKeyWrites, TypeOK
  <2> QED
    BY <2>1, <2>3, <2>4
<1>4. CASE UNCHANGED <<keys, forced>>
  BY <1>4 DEF keys
<1>5. [Next]_vars => \/ \E g \in Gen : \/ \E force \in BOOLEAN : GenKeyChecks(g, force)
                                    \/ GenKeyCreates(g) \/ GenKeyWrites(g)
                     \/ UNCHANGED <<keys, forced>>
  BY DEF Next, vars, Join, Sign, Refuse, AddExpense, SyncHere, SyncThere, WriteThere
<1> QED
  BY <1>1, <1>2, <1>3, <1>4, <1>5

\* The key file of a careful user has the key whose user ID was printed
\* (runGenKey): two runs of genkey, or the choice to overwrite, are the only
\* ways to lose it.
THEOREM PrintedKeyStays == Spec => []PrintedKeyIsInFile
<1>1. KeyInv => PrintedKeyIsInFile
  BY DEF KeyInv, PrintedKeyIsInFile
<1> QED
  BY <1>1, SignedTypes, KeyInit, KeyNext, PTL DEF Spec

-----------------------------------------------------------------------------
\* Debts.  What DebtsFollowShares says is inductive, given the types, because
\* wild once true stays true: a sum that wrapped spoils all that follow.

LEMMA DebtsInit == Init => DebtsFollowShares
BY SignedAssumption DEF Init, Nothing, DebtsFollowShares

LEMMA AddExpenseFollows ==
  ASSUME TypeOK, DebtsFollowShares, NEW r \in signed, AddExpense(r)
  PROVE  DebtsFollowShares'
<1> DEFINE e == r.op.content
           owing == Splits(e.participants, Self)
           unit == 10 * Scale
<1>1. e \in Expense
  BY DEF TypeOK, Request
<1>2. unit \in Nat /\ added \in Int /\ (added + 1) * unit = added * unit + unit
      /\ added * unit \in Int
  <2>1. unit \in Nat
    BY SignedAssumption
  <2>2. added \in Int
    BY SignedAssumption DEF TypeOK
  <2> HIDE DEF unit
  <2> QED
    BY <2>1, <2>2
<1>3. added' = added + 1 /\ stored' \in {stored, entry'} /\ remote' = remote
  BY DEF AddExpense
<1> SUFFICES ASSUME ~ wild', NEW d \in Debtor
             PROVE  /\ entry'[d] * unit <= gross'[d]
                    /\ stored'[d] * unit <= gross'[d]
                    /\ remote'[d] * unit <= gross'[d]
                    /\ entry'[d] * unit >= due'[d] - added' * unit
  BY DEF DebtsFollowShares
<1>4. ~ wild
  BY AddExpenseChooses DEF AddExpense
<1>5. /\ entry[d] * unit <= gross[d]
      /\ stored[d] * unit <= gross[d]
      /\ remote[d] * unit <= gross[d]
      /\ entry[d] * unit >= due[d] - added * unit
  BY <1>4 DEF DebtsFollowShares
<1>6. /\ entry[d] \in Int64 /\ stored[d] \in Int64 /\ remote[d] \in Int64
      /\ gross[d] \in Int /\ due[d] \in Int
  BY DEF TypeOK
<1>7. entry[d] \in Int /\ stored[d] \in Int /\ remote[d] \in Int
  BY <1>6, SignedAssumption DEF Int64, IntMin
<1>8. entry[d] * unit \in Int /\ stored[d] * unit \in Int /\ remote[d] * unit \in Int
  BY <1>2, <1>7
\* Whoever owes nothing keeps entry and shares.
<1>9. CASE d \notin owing
  <2>1. entry'[d] = entry[d] /\ due'[d] = due[d] /\ gross'[d] = gross[d]
    <3>1. CASE owing = {}
      BY <3>1 DEF AddExpense
    <3>2. CASE owing # {}
      <4>1. PICK c \in Cents(e.amount, Len(e.participants)) :
              /\ entry' = [x \in Debtor |->
                   IF x \in owing THEN Plus(entry[x], c) ELSE entry[x]]
              /\ due' = [x \in Debtor |->
                   IF x \in owing THEN due[x] + Share(e) ELSE due[x]]
              /\ gross' = [x \in Debtor |->
                   IF x \in owing /\ e.amount > 0
                     THEN gross[x] + Share(e) ELSE gross[x]]
        BY <3>2, AddExpenseChooses
      <4> QED
        BY <1>9, <4>1
    <3> QED
      BY <3>1, <3>2
  <2> HIDE DEF unit
  <2> QED
    BY <1>2, <1>3, <1>5, <1>6, <1>8, <2>1
\* A debtor's entry grows by the cents, the shares by the exact share.
<1>10. CASE d \in owing
  <2>1. PICK c \in Cents(e.amount, Len(e.participants)) :
          /\ entry'[d] = Plus(entry[d], c)
          /\ due'[d] = due[d] + Share(e)
          /\ gross'[d] = IF e.amount > 0 THEN gross[d] + Share(e) ELSE gross[d]
          /\ c \notin {IntMin, IntMax}
          /\ entry[d] + c \in Int64
    BY <1>10, AddExpenseChooses
  <2>2. /\ Share(e) \in Int /\ c \in Int
        /\ e.amount > 0 => Share(e) >= 0
        /\ Share(e) - unit <= c * unit
        /\ e.amount > 0 => c * unit <= Share(e)
        /\ e.amount <= 0 => c * unit <= 0
    BY <1>1, <1>10, <2>1, ShareBounds
  <2>3. entry'[d] = entry[d] + c
    BY <1>6, <2>1, <2>2, PlusType
  <2>4. (entry[d] + c) * unit = entry[d] * unit + c * unit /\ c * unit \in Int
    BY <1>2, <1>7, <2>2
  <2>5. e.amount \in Int
    BY <1>1, SignedAssumption
  <2> DEFINE a == e.amount  share == Share(e)  more == c * unit
             total == entry[d] * unit  kept == stored[d] * unit
             away == remote[d] * unit  slack == added * unit
  <2>6. entry'[d] * unit = total + more /\ total + more \in Int
    BY <1>8, <2>3, <2>4
  <2>7. stored'[d] * unit \in {kept, total + more}
    BY <1>3, <2>6
  <2>8. /\ a \in Int /\ share \in Int /\ more \in Int /\ total \in Int
        /\ kept \in Int /\ away \in Int /\ slack \in Int
    BY <1>2, <1>8, <2>2, <2>4, <2>5
  <2>9. /\ a > 0 => share >= 0 /\ more <= share
        /\ a <= 0 => more <= 0
        /\ share - unit <= more
        /\ total <= gross[d] /\ kept <= gross[d] /\ away <= gross[d]
        /\ total >= due[d] - slack
    BY <1>5, <2>2
  <2>10. added' * unit = slack + unit /\ remote'[d] * unit = away
    BY <1>2, <1>3
  <2>11. due'[d] = due[d] + share
         /\ gross'[d] = IF a > 0 THEN gross[d] + share ELSE gross[d]
    BY <2>1
  <2> HIDE DEF a, share, more, total, kept, away, slack, unit
  <2>12. total + more <= gross'[d] /\ gross[d] <= gross'[d] /\ gross'[d] \in Int
    BY <1>6, <2>8, <2>9, <2>11
  <2>13. total + more >= due'[d] - (slack + unit)
    BY <1>2, <1>6, <2>8, <2>9, <2>11
  <2> QED
    BY <1>6, <2>6, <2>7, <2>8, <2>9, <2>10, <2>12, <2>13
<1> QED
  BY <1>9, <1>10

\* A merge takes one of two entries, the larger.
LEMMA MergeTakes ==
  ASSUME NEW x \in [Debtor -> Int64], NEW y \in [Debtor -> Int64], NEW d \in Debtor
  PROVE  /\ MergeEntries(x, y)[d] \in {x[d], y[d]}
         /\ x[d] <= MergeEntries(x, y)[d]
         /\ x[d] \in Int /\ MergeEntries(x, y)[d] \in Int
<1>1. x[d] \in Int /\ y[d] \in Int
  BY SignedAssumption DEF Int64, IntMin
<1> QED
  BY <1>1 DEF MergeEntries

LEMMA DebtsNext == TypeOK /\ DebtsFollowShares /\ [Next]_vars => DebtsFollowShares'
<1> SUFFICES ASSUME TypeOK, DebtsFollowShares, [Next]_vars
             PROVE  DebtsFollowShares'
  OBVIOUS
<1>1. ASSUME NEW r \in signed, AddExpense(r) PROVE DebtsFollowShares'
  BY <1>1, AddExpenseFollows
<1>2. CASE SyncHere
  <2>1. \A d \in Debtor :
          /\ entry'[d] \in {entry[d], stored[d]} /\ entry[d] <= entry'[d]
          /\ entry[d] \in Int /\ entry'[d] \in Int
    BY <1>2, MergeTakes DEF SyncHere, TypeOK
  <2>2. 10 * Scale \in Nat
    BY SignedAssumption
  <2>3. \A d \in Debtor :
          /\ entry[d] * (10 * Scale) \in Int
          /\ entry[d] * (10 * Scale) <= entry'[d] * (10 * Scale)
          /\ entry'[d] * (10 * Scale) \in Int
    BY <2>1, <2>2, TimesMonotone
  <2>4. UNCHANGED <<stored, remote, due, gross, added, wild>>
    BY <1>2 DEF SyncHere, history
  <2>5. \A d \in Debtor : due[d] - added * (10 * Scale) \in Int
    BY <2>2 DEF TypeOK
  <2> DEFINE unit == 10 * Scale
  <2>6. ASSUME ~ wild, NEW d \in Debtor
        PROVE  entry'[d] * unit <= gross[d] /\ entry'[d] * unit >= due[d] - added * unit
    <3>1. /\ entry[d] * unit <= gross[d] /\ stored[d] * unit <= gross[d]
          /\ entry[d] * unit >= due[d] - added * unit
      BY <2>6 DEF DebtsFollowShares
    <3>2. entry'[d] * unit <= gross[d]
      BY <2>1, <3>1
    <3> DEFINE low == due[d] - added * unit  old == entry[d] * unit  new == entry'[d] * unit
    <3>3. low \in Int /\ old \in Int /\ new \in Int /\ old <= new /\ low <= old
      BY <2>3, <2>5, <3>1
    <3> HIDE DEF low, old, new
    <3>4. low <= new
      BY <3>3
    <3> QED
      BY <3>2, <3>4 DEF low, new
  <2> QED
    BY <2>4, <2>6 DEF DebtsFollowShares
<1>3. CASE SyncThere
  <2>1. \A d \in Debtor : remote'[d] \in {remote[d], stored[d]}
    BY <1>3, MergeTakes DEF SyncThere, TypeOK
  <2> QED
    BY <1>3, <2>1 DEF SyncThere, DebtsFollowShares, history
<1>4. CASE WriteThere
  BY <1>4 DEF WriteThere, DebtsFollowShares, history
<1>5. CASE UNCHANGED <<copies, due, gross, added, wild>>
  BY <1>5 DEF DebtsFollowShares, copies
<1>6. [Next]_vars => \/ \E r \in signed : AddExpense(r)
                     \/ SyncHere \/ SyncThere \/ WriteThere
                     \/ UNCHANGED <<copies, due, gross, added, wild>>
  BY DEF Next, vars, history, GenKeyChecks, GenKeyCreates, GenKeyWrites, Join,
     Sign, Refuse
<1> QED
  BY <1>1, <1>2, <1>3, <1>4, <1>5, <1>6

\* For every range of integers and every history of merges, debts stay between
\* the exact shares that the member signed, less a cent for each expense, and
\* the exact shares of the positive amounts, until a number does not fit
\* (AddExpense, PNCounter.Merge, VerifySignature).
THEOREM DebtsFollow == Spec => []DebtsFollowShares
BY SignedTypes, DebtsInit, DebtsNext, PTL DEF Spec
=============================================================================
