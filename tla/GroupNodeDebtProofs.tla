------------------------ MODULE GroupNodeDebtProofs ------------------------
(***************************************************************************)
(* No overcharge, in any instance of GroupNode: a bound on the counters of *)
(* one group that every way of copying, merging and charging them keeps;   *)
(* and what is charged is warranted by expenses that were recorded.        *)
(***************************************************************************)
EXTENDS GroupNodeTypeProofs, SumTheorems

\* The balances b show no more than c, and nothing was ever subtracted.
Bounded(b, c) ==
  \A d \in Pair, n \in Node :
    b[d] # None => b[d].P[n] \in 0 .. c[d][n] /\ b[d].N[n] = 0

AllBounded ==
  /\ \A p \in Proc : /\ Bounded(heap[p].balances, charged)
                     /\ Bounded(buf[p].balances, charged)
  /\ dht # NoGroup => Bounded(dht.balances, charged)

\* AllBounded says the same of the balances alone.
LEMMA BoundedIsNoOvercharge == AllBounded <=> NoOvercharge
BY DEF AllBounded, Bounded, NoOvercharge, WithinCharged

\* The balances of a new or a reset copy are bounded.
LEMMA EmptyBounded ==
  ASSUME TypeOK
  PROVE  Bounded(EmptyGroup.balances, charged)
BY DEF TypeOK, Bounded, EmptyGroup

\* Nobody owes anything in a group set up before the behaviour starts.
LEMMA SetupBalances == SetupGroup.balances = EmptyGroup.balances
BY DEF SetupGroup, EmptyGroup

\* A counter that AddExpense or SyncGroup creates shows nothing yet.
LEMMA OrZeroBounded ==
  ASSUME NEW b \in Balances, NEW c \in [Pair -> [Node -> Nat]],
         NEW d \in Pair, Bounded(b, c)
  PROVE  Bounded([b EXCEPT ![d] = OrZero(b[d])], c)
<1>1. \A n \in Node : /\ OrZero(b[d]).P[n] \in 0 .. c[d][n]
                      /\ OrZero(b[d]).N[n] = 0
  BY DEF Bounded, OrZero, PN!NewPNCounter
<1> QED BY <1>1 DEF Bounded, Balances

\* PNCounter.Merge takes the larger of two entries, both below the bound.
LEMMA MergeBounded ==
  ASSUME NEW b \in Balances, NEW f \in Balances,
         NEW c \in [Pair -> [Node -> Nat]],
         Bounded(b, c), Bounded(f, c),
         NEW d \in Pair, b[d] # None, f[d] # None
  PROVE  Bounded([b EXCEPT ![d] = PN!Merge(b[d], f[d])], c)
<1> SUFFICES ASSUME NEW n \in Node
             PROVE  LET m == PN!Merge(b[d], f[d])
                    IN  m.P[n] \in 0 .. c[d][n] /\ m.N[n] = 0
  BY DEF Bounded, Balances
<1>1. b[d] \in PN!Counter(Node) /\ f[d] \in PN!Counter(Node)
  BY DEF Balances
<1>2. /\ b[d].P[n] \in 0 .. c[d][n] /\ b[d].N[n] = 0
      /\ f[d].P[n] \in 0 .. c[d][n] /\ f[d].N[n] = 0
  BY DEF Bounded
<1> QED BY <1>1, <1>2 DEF PN!Merge, PN!Max2, PN!Counter

\* A fetched counter that is done with leaves the others bounded.
LEMMA DropBounded ==
  ASSUME NEW b \in Balances, NEW c, NEW d \in Pair, Bounded(b, c)
  PROVE  Bounded([b EXCEPT ![d] = None], c)
BY DEF Bounded, Balances

\* AddExpense adds a share to the copy's counter and to the history alike.
LEMMA IncrementBounded ==
  ASSUME NEW b \in Balances,
         NEW c \in [Pair -> [Node -> Nat]],
         NEW d \in Pair, NEW n \in Node, NEW k \in Nat,
         b[d] \in PN!Counter(Node), b[d] # None,
         Bounded(b, c)
  PROVE  Bounded([b EXCEPT ![d] = PN!Increment(b[d], n, k)],
                 [c EXCEPT ![d] = [c[d] EXCEPT ![n] = @ + k]])
BY DEF Bounded, Balances, PN!Increment, PN!Counter

\* What was bounded stays so when more has been charged.
LEMMA ChargingKeepsBounds ==
  ASSUME NEW b \in Balances, NEW c \in [Pair -> [Node -> Nat]],
         NEW d \in Pair, NEW n \in Node, NEW k \in Nat,
         Bounded(b, c)
  PROVE  Bounded(b, [c EXCEPT ![d] = [c[d] EXCEPT ![n] = @ + k]])
BY DEF Bounded, Balances, PN!Counter

\* The bound holds before anything has happened.
LEMMA InitBounded == Init => AllBounded
<1> SUFFICES ASSUME Init PROVE AllBounded
  OBVIOUS
<1> QED
  BY InitTypeInv, EmptyBounded, SetupBalances DEF TypeInv, Init, AllBounded

\* Every step keeps the bound: charges raise it, all else moves balances about.
LEMMA StepBounded == TypeInv /\ AllBounded /\ [Next]_vars => AllBounded'
<1> SUFFICES ASSUME TypeInv, AllBounded, [Next]_vars PROVE AllBounded'
  OBVIOUS
<1> USE EmptyBounded, GroupTypes
    DEF TypeInv, AllBounded, Goto, Finish, Reject, Pass, shared, local, history
<1>0. CASE UNCHANGED vars
  BY <1>0 DEF vars
<1>1. ASSUME NEW w \in Workload, Receive(w[1], w[2], w[3]) PROVE AllBounded'
  BY <1>1 DEF Receive
<1>2. ASSUME NEW r \in Request, Create(r) PROVE AllBounded'
  <2>1. /\ charged' = charged /\ buf' = buf /\ dht' = dht
        /\ \A p \in Proc : \/ heap'[p] = heap[p]
                           \/ heap'[p].balances = EmptyGroup.balances
    BY <1>2 DEF Create, TypeOK, EmptyGroup
  <2> QED BY <2>1
<1>3. ASSUME NEW r \in Request, Register(r) PROVE AllBounded'
  BY <1>3 DEF Register, TypeOK
<1>4. ASSUME NEW r \in Request, Hit(r) PROVE AllBounded'
  BY <1>4 DEF Hit, TypeOK
<1>5. ASSUME NEW r \in Request, Miss(r) PROVE AllBounded'
  BY <1>5 DEF Miss, TypeOK
<1>6. ASSUME NEW r \in Request, Fetch(r) PROVE AllBounded'
  BY <1>6 DEF Fetch, TypeOK
<1>7. ASSUME NEW r \in Request, FetchFails(r) PROVE AllBounded'
  BY <1>7 DEF FetchFails, TypeOK
<1>8. ASSUME NEW r \in Request, CacheFetched(r) PROVE AllBounded'
  BY <1>8 DEF CacheFetched, TypeOK
<1>9. ASSUME NEW r \in Request, Recache(r) PROVE AllBounded'
  BY <1>9 DEF Recache, TypeOK
<1>10. ASSUME NEW r \in Request, JoinCheckMember(r) PROVE AllBounded'
  BY <1>10 DEF JoinCheckMember, TypeOK
<1>11. ASSUME NEW r \in Request, JoinCheckPending(r) PROVE AllBounded'
  BY <1>11 DEF JoinCheckPending, TypeOK
<1>12. ASSUME NEW r \in Request, PutRequest(r) PROVE AllBounded'
  <2>1. \A p \in Proc : heap'[p].balances = heap[p].balances
    BY <1>12 DEF PutRequest, TypeOK, Group
  <2> QED BY <1>12, <2>1 DEF PutRequest
<1>13. ASSUME NEW r \in Request, ApproveCheckMember(r) PROVE AllBounded'
  BY <1>13 DEF ApproveCheckMember, TypeOK
<1>14. ASSUME NEW r \in Request, ApproveCheckRequester(r) PROVE AllBounded'
  BY <1>14 DEF ApproveCheckRequester, TypeOK
<1>15. ASSUME NEW r \in Request, FindRequest(r) PROVE AllBounded'
  BY <1>15 DEF FindRequest, TypeOK
<1>16. ASSUME NEW r \in Request, Admit(r) PROVE AllBounded'
  <2>1. \A p \in Proc : heap'[p].balances = heap[p].balances
    BY <1>16 DEF Admit, TypeOK, Group
  <2> QED BY <1>16, <2>1 DEF Admit
<1>17. ASSUME NEW r \in Request, ResetBalances(r) PROVE AllBounded'
  <2> DEFINE b == heap[obj[r]].balances
             f == [d \in Pair |-> IF d[1] = call[r].subject
                                  THEN None ELSE b[d]]
  <2>1. obj[r] \in Proc /\ heap[obj[r]] \in Group
    BY <1>17, CopyFacts DEF ResetBalances, Proc, Working
  <2>2. Bounded(f, charged)
    BY <2>1 DEF Bounded
  <2>3. \A p \in Proc : \/ heap'[p] = heap[p]
                        \/ heap'[p].balances = f
    BY <1>17, <2>1 DEF ResetBalances, TypeOK, Group
  <2> QED BY <1>17, <2>2, <2>3 DEF ResetBalances
<1>18. ASSUME NEW r \in Request, DropRequest(r) PROVE AllBounded'
  <2>1. \A p \in Proc : heap'[p].balances = heap[p].balances
    BY <1>18 DEF DropRequest, TypeOK, Group
  <2> QED BY <1>18, <2>1 DEF DropRequest
<1>19. ASSUME NEW r \in Request, ExpenseCheckPayer(r) PROVE AllBounded'
  BY <1>19 DEF ExpenseCheckPayer, TypeOK
<1>20. ASSUME NEW r \in Request, CheckParticipant(r) PROVE AllBounded'
  BY <1>20 DEF CheckParticipant, TypeOK
<1>21. ASSUME NEW r \in Request, LockShard(r) PROVE AllBounded'
  BY <1>21 DEF LockShard, TypeOK
<1>22. ASSUME NEW r \in Request, RecordExpense(r) PROVE AllBounded'
  <2>1. \A p \in Proc : heap'[p].balances = heap[p].balances
    BY <1>22 DEF RecordExpense, TypeOK, Group
  <2> QED BY <1>22, <2>1 DEF RecordExpense
<1>23. ASSUME NEW r \in Request, Charge(r) PROVE AllBounded'
  <2>1. obj[r] \in Proc /\ heap[obj[r]] \in Group /\ call[r].user \in User
    BY <1>23, HandlerFacts, CopyFacts DEF Charge, Proc, Working, Locked
  <2> DEFINE b == heap[obj[r]].balances
             f(d) == [b EXCEPT ![d] = OrZero(b[d])]
  <2>2. PICK d \in Pair :
          heap' = [heap EXCEPT ![obj[r]] =
                     [heap[obj[r]] EXCEPT !.balances = f(d)]]
    BY <1>23, <2>1 DEF Charge, Pair, TypeOK
  <2>3. Bounded(f(d), charged)
    BY <2>1, FieldTypes, OrZeroBounded DEF TypeOK
  <2>4. \A p \in Proc : \/ heap'[p].balances = heap[p].balances
                        \/ heap'[p].balances = f(d)
    BY <2>1, <2>2 DEF TypeOK, Group
  <2> QED BY <1>23, <2>3, <2>4 DEF Charge
<1>24. ASSUME NEW r \in Request, Increment(r) PROVE AllBounded'
  <2> DEFINE d == owing[r]
             b == heap[obj[r]].balances
             f == [b EXCEPT ![d] = PN!Increment(b[d], at[r], call[r].share)]
             c == [charged EXCEPT ![d] =
                     [charged[d] EXCEPT ![at[r]] = @ + call[r].share]]
  <2>1. /\ obj[r] \in Proc /\ heap[obj[r]] \in Group
        /\ at[r] \in Node /\ call[r].share \in Nat
    BY <1>24, HandlerFacts, CopyFacts
    DEF Increment, Proc, Working, Locked
  <2>2. d \in Pair
    BY <1>24 DEF Increment, Pointers
  <2>3. b \in Balances /\ b[d] \in PN!Counter(Node) /\ b[d] # None
    BY <1>24, <2>1, <2>2, FieldTypes DEF Increment, Copy, Balances
  <2>4. charged' = c /\ buf' = buf /\ dht' = dht
    BY <1>24 DEF Increment
  <2>5. charged \in [Pair -> [Node -> Nat]]
    BY DEF TypeOK
  <2>6. Bounded(f, c)
    BY <2>1, <2>2, <2>3, <2>5, IncrementBounded
  <2>7. \A p \in Proc : \/ heap'[p].balances = heap[p].balances
                        \/ heap'[p].balances = f
    BY <1>24, <2>1 DEF Increment, TypeOK, Group
  <2>8. \A p \in Proc : /\ heap[p].balances \in Balances
                        /\ buf[p].balances \in Balances
    BY FieldTypes DEF TypeOK
  <2>9. dht # NoGroup => dht.balances \in Balances
    BY FieldTypes DEF TypeOK
  <2> HIDE DEF d, f, c
  <2>10. \A g \in Balances : Bounded(g, charged) => Bounded(g, c)
    BY <2>1, <2>2, <2>5, ChargingKeepsBounds DEF c
  <2> QED BY <2>4, <2>6, <2>7, <2>8, <2>9, <2>10
<1>25. ASSUME NEW r \in Request, Panic(r) PROVE AllBounded'
  BY <1>25 DEF Panic, TypeOK
<1>26. ASSUME NEW r \in Request, Charged(r) PROVE AllBounded'
  BY <1>26 DEF Charged, TypeOK
<1>27. ASSUME NEW r \in Request, Answer(r) PROVE AllBounded'
  BY <1>27 DEF Answer, TypeOK
<1>28. ASSUME NEW r \in Request, SyncGetFails(r) PROVE AllBounded'
  BY <1>28 DEF SyncGetFails, TypeOK
<1>29. ASSUME NEW r \in Request, MarshalMembers(r) PROVE AllBounded'
  <2>1. \A p \in Proc : buf'[p].balances = buf[p].balances
    BY <1>29 DEF MarshalMembers, TypeOK, Group
  <2> QED BY <1>29, <2>1 DEF MarshalMembers, Marshal
<1>30. ASSUME NEW r \in Request, MarshalExpenses(r) PROVE AllBounded'
  <2>1. \A p \in Proc : buf'[p].balances = buf[p].balances
    BY <1>30 DEF MarshalExpenses, TypeOK, Group
  <2> QED BY <1>30, <2>1 DEF MarshalExpenses, Marshal
<1>31. ASSUME NEW r \in Request, MarshalBalances(r) PROVE AllBounded'
  <2>1. obj[r] \in Proc
    BY <1>31, CopyFacts DEF MarshalBalances, Proc, Working, Marshalling
  <2>2. \A p \in Proc : \/ buf'[p].balances = buf[p].balances
                        \/ buf'[p].balances = heap[obj[r]].balances
    BY <1>31 DEF MarshalBalances, Copy, TypeOK, Group
  <2> QED BY <1>31, <2>1, <2>2 DEF MarshalBalances, Marshal
<1>32. ASSUME NEW r \in Request, MarshalRest(r) PROVE AllBounded'
  <2>1. \A p \in Proc : buf'[p].balances = buf[p].balances
    BY <1>32 DEF MarshalRest, TypeOK, Group
  <2> QED BY <1>32, <2>1 DEF MarshalRest, Marshal
<1>33. ASSUME NEW r \in Request, PutValue(r) PROVE AllBounded'
  BY <1>33 DEF PutValue, Proc, TypeOK
<1>34. ASSUME NEW r \in Request, PutFails(r) PROVE AllBounded'
  BY <1>34 DEF PutFails, Proc, TypeOK
<1>35. ASSUME NEW p \in Proc, SyncGet(p) PROVE AllBounded'
  BY <1>35 DEF SyncGet, TypeOK
<1>36. ASSUME NEW p \in Proc, SyncCold(p) PROVE AllBounded'
  BY <1>36 DEF SyncCold, TypeOK
<1>37. ASSUME NEW p \in Proc, SyncMembers(p) PROVE AllBounded'
  <2>1. \A q \in Proc : heap'[q].balances = heap[q].balances
    BY <1>37 DEF SyncMembers, TypeOK, Group
  <2> QED BY <1>37, <2>1 DEF SyncMembers
<1>38. ASSUME NEW p \in Proc, SyncExpenses(p) PROVE AllBounded'
  <2>1. \A q \in Proc : heap'[q].balances = heap[q].balances
    BY <1>38 DEF SyncExpenses, TypeOK, Group
  <2> QED BY <1>38, <2>1 DEF SyncExpenses
<1>39. ASSUME NEW p \in Proc, SyncPending(p) PROVE AllBounded'
  <2>1. \A q \in Proc : heap'[q].balances = heap[q].balances
    BY <1>39 DEF SyncPending, TypeOK, Group
  <2> QED BY <1>39, <2>1 DEF SyncPending
<1>40. ASSUME NEW p \in Proc, SyncCounter(p) PROVE AllBounded'
  <2>1. obj[p] \in Proc /\ heap[obj[p]] \in Group
    BY <1>40, CopyFacts DEF SyncCounter, Working, Locked
  <2> DEFINE b == heap[obj[p]].balances
             f(d) == [b EXCEPT ![d] = OrZero(b[d])]
  <2>2. PICK d \in Pair :
          heap' = [heap EXCEPT ![obj[p]] =
                     [heap[obj[p]] EXCEPT !.balances = f(d)]]
    BY <1>40 DEF SyncCounter
  <2>3. Bounded(f(d), charged)
    BY <2>1, FieldTypes, OrZeroBounded DEF TypeOK
  <2>4. \A q \in Proc : \/ heap'[q].balances = heap[q].balances
                        \/ heap'[q].balances = f(d)
    BY <2>1, <2>2 DEF TypeOK, Group
  <2> QED BY <1>40, <2>3, <2>4 DEF SyncCounter
<1>41. ASSUME NEW p \in Proc, MergeCounter(p) PROVE AllBounded'
  <2> DEFINE d == owing[p]
             b == heap[obj[p]].balances
             f == [b EXCEPT ![d] = PN!Merge(b[d], buf[p].balances[d])]
             g == [buf[p].balances EXCEPT ![d] = None]
  <2>1. /\ obj[p] \in Proc /\ heap[obj[p]] \in Group /\ buf[p] \in Group
        /\ d \in Pair /\ buf[p].balances[d] # None /\ b[d] # None
    BY <1>41, CopyFacts
    DEF MergeCounter, HasCounter, Copy, Working, Locked, TypeOK, Pointers
  <2>2. Bounded(f, charged)
    BY <2>1, FieldTypes, MergeBounded DEF TypeOK
  <2>3. Bounded(g, charged)
    BY <2>1, FieldTypes, DropBounded
  <2>4. \A q \in Proc : \/ heap'[q].balances = heap[q].balances
                        \/ heap'[q].balances = f
    BY <1>41, <2>1 DEF MergeCounter, TypeOK, Group
  <2>5. \A q \in Proc : \/ buf'[q].balances = buf[q].balances
                        \/ buf'[q].balances = g
    BY <1>41, <2>1 DEF MergeCounter, NextCounter, TypeOK, Group
  <2> QED BY <1>41, <2>2, <2>3, <2>4, <2>5 DEF MergeCounter, NextCounter
<1>42. ASSUME NEW p \in Proc, EndSync(p) PROVE AllBounded'
  <2>1. \A q \in Proc : heap'[q].balances = heap[q].balances
    BY <1>42 DEF EndSync, TypeOK, Group
  <2>2. \A q \in Proc : buf'[q] = buf[q] \/ buf'[q] = EmptyGroup
    BY <1>42 DEF EndSync, TypeOK
  <2> QED BY <1>42, <2>1, <2>2 DEF EndSync
<1>43. ASSUME NEW n \in Node, DiscoverGet(n) PROVE AllBounded'
  BY <1>43 DEF DiscoverGet, Proc, TypeOK
<1>44. ASSUME NEW n \in Node, DiscoverCache(n) PROVE AllBounded'
  BY <1>44 DEF DiscoverCache, Proc, TypeOK
<1>45. ASSUME NEW n \in Node, Die(n) PROVE AllBounded'
  <2>1. \A p \in Proc : buf'[p] = buf[p] \/ buf'[p] = EmptyGroup
    BY <1>45 DEF Die, TypeOK
  <2> QED BY <1>45, <2>1 DEF Die
<1>46. ASSUME NEW r \in Request, JoinStep(r) PROVE AllBounded'
  BY <1>46, <1>10, <1>11, <1>12 DEF JoinStep
<1>47. ASSUME NEW r \in Request, ApproveStep(r) PROVE AllBounded'
  BY <1>47, <1>13, <1>14, <1>15, <1>16, <1>17, <1>18 DEF ApproveStep
<1>48. ASSUME NEW r \in Request, ExpenseStep(r) PROVE AllBounded'
  BY <1>48, <1>19, <1>20, <1>21, <1>22, <1>23, <1>24, <1>26 DEF ExpenseStep
<1>49. ASSUME NEW r \in Request, MarshalStep(r) PROVE AllBounded'
  BY <1>49, <1>29, <1>30, <1>31, <1>32 DEF MarshalStep
<1>50. ASSUME NEW r \in Request, RequestStep(r) PROVE AllBounded'
  BY <1>50, <1>46, <1>47, <1>48, <1>49, <1>2, <1>3, <1>4, <1>5, <1>6, <1>7,
     <1>8, <1>25, <1>27, <1>28, <1>9, <1>33 DEF RequestStep
<1>51. ASSUME NEW p \in Proc, SyncStep(p) PROVE AllBounded'
  BY <1>51, <1>35, <1>36, <1>37, <1>38, <1>39, <1>40, <1>41, <1>42
  DEF SyncStep
<1> QED
  BY ConstantsAssumption, <1>0, <1>1, <1>50, <1>34, <1>51, <1>43, <1>44, <1>45
  DEF Next, DiscoverStep, Abort, Crash

\* No overcharge, in every reachable state of any number of nodes: what a copy,
\* a snapshot in flight or the DHT shows under a node's identifier was charged
\* by that node's AddExpense.
THEOREM NeverOvercharged == Spec => []NoOvercharge
<1>1. Init => TypeInv /\ AllBounded
  BY InitTypeInv, InitBounded
<1>2. TypeInv /\ AllBounded /\ [Next]_vars => (TypeInv /\ AllBounded)'
  BY StepTypeInv, StepBounded
<1>3. AllBounded => NoOvercharge
  BY BoundedIsNoOvercharge
<1> QED
  BY <1>1, <1>2, <1>3, PTL DEF Spec

(***************************************************************************)
(* Debts are warranted.  AddExpense records an expense first and charges   *)
(* its debtors afterwards, each once: an expense has been charged to a     *)
(* debtor unless its handler still has that debtor on its list.  So what   *)
(* all nodes charged a pair of users is the sum of the shares of the       *)
(* expenses that were recorded for the pair and are not still to be        *)
(* charged; or less, if a handler was cut short.                           *)
(***************************************************************************)
Charging == {"charge", "increment"}

\* Where a handler is that did not get to its end.
Short == {"panicked", "dead"}

NobodyShort == \A r \in Request : pc[r] \notin Short

\* Where a handler may be that has recorded an expense.
Past == Charging \cup Marshalling \cup {"put", "register"} \cup Final

\* The recorded expenses that make d[1] owe d[2].
Due(d) == {e \in issued.expenses : e.val.user = d[2] /\ d[1] \in Debtors(e.val)}

\* The handler that recorded expense e is still to charge debtor u.
Outstanding(e, u) ==
  e.tag \in Request /\ pc[e.tag] \in Charging /\ u \in todo[e.tag]

\* What was charged for each recorded expense.
Paid(d) == [e \in issued.expenses |-> IF Outstanding(e, d[1]) THEN 0 ELSE e.val.share]

WarrantInv ==
  /\ IsFiniteSet(issued.expenses)
  /\ \A e \in issued.expenses : e.tag \in Request /\ pc[e.tag] \in Past
  /\ \A e, f \in issued.expenses : e.tag = f.tag => e = f
  /\ \A r \in Request : pc[r] \in Charging =>
       /\ Entry(call[r].id, r, call[r]) \in issued.expenses
       /\ todo[r] \subseteq Debtors(call[r])
  /\ \A r \in Request : pc[r] = "increment" =>
       \E u \in todo[r] : owing[r] = <<u, call[r].user>>
  /\ \A d \in Pair :
       /\ SumFunctionOnSet(charged[d], Node) <= SumFunctionOnSet(Paid(d), Due(d))
       /\ NobodyShort =>
            SumFunctionOnSet(charged[d], Node) = SumFunctionOnSet(Paid(d), Due(d))

\* The expense of an entry that was ever put has a share.
LEMMA ShareTypes ==
  ASSUME NEW i \in Issued, NEW e \in i.expenses
  PROVE  e.val.share \in Nat
BY DEF Issued, Call

\* What is due for a pair is finite, and at most its share is paid of each.
LEMMA DueTypes ==
  ASSUME TypeOK, IsFiniteSet(issued.expenses), NEW d \in Pair
  PROVE  /\ IsFiniteSet(Due(d)) /\ Due(d) \subseteq issued.expenses
         /\ \A e \in issued.expenses : /\ e.val.share \in Nat
                                      /\ Paid(d)[e] \in Nat
                                      /\ Paid(d)[e] <= e.val.share
<1>1. Due(d) \subseteq issued.expenses
  BY DEF Due
<1>2. IsFiniteSet(Due(d))
  BY <1>1, FS_Subset
<1>3. \A e \in issued.expenses : e.val.share \in Nat
  BY ShareTypes DEF TypeOK
<1> QED
  BY <1>1, <1>2, <1>3 DEF Paid

LEMMA InitWarrants == Init => WarrantInv
<1> SUFFICES ASSUME Init PROVE WarrantInv
  OBVIOUS
<1>1. issued.expenses = {} /\ IsFiniteSet({})
  BY FS_EmptySet DEF Init, OrMap!NewORMap
<1>2. \A r \in Request : pc[r] = "idle"
  BY DEF Init, Proc
<1>3. ASSUME NEW d \in Pair
      PROVE  SumFunctionOnSet(charged[d], Node) = SumFunctionOnSet(Paid(d), Due(d))
             /\ SumFunctionOnSet(charged[d], Node) \in Int
  <2>1. \A n \in Node : charged[d][n] = 0
    BY DEF Init
  <2>2. SumFunctionOnSet(charged[d], Node) = 0
    BY <2>1, NodesAssumption, SumZero
  <2>3. Due(d) = {}
    BY <1>1 DEF Due
  <2>4. SumFunctionOnSet(Paid(d), Due(d)) = 0
    BY <2>3, SumEmpty
  <2> QED
    BY <2>2, <2>4
<1> QED
  BY <1>1, <1>2, <1>3 DEF WarrantInv, Charging

\* A step that records and charges nothing, and after which handlers are where
\* they were or have nothing left to charge, unless they are cut short.
LEMMA QuietWarrants ==
  ASSUME TypeOK, TypeOK', WarrantInv, charged' = charged,
         issued'.expenses = issued.expenses,
         \A q \in Request :
           \/ /\ pc'[q] = pc[q] /\ todo'[q] = todo[q]
              /\ call'[q] = call[q] /\ owing'[q] = owing[q]
           \/ /\ pc'[q] \notin Charging /\ (pc[q] \in Past => pc'[q] \in Past)
              /\ pc[q] \in Charging => todo[q] = {} \/ pc'[q] \in Short
              /\ pc[q] \in Short => pc'[q] \in Short
  PROVE  WarrantInv'
<1>1. ASSUME NEW d \in Pair
      PROVE  /\ SumFunctionOnSet(charged'[d], Node) <= SumFunctionOnSet(Paid(d)', Due(d)')
             /\ NobodyShort' =>
                  SumFunctionOnSet(charged'[d], Node) = SumFunctionOnSet(Paid(d)', Due(d)')
  <2>1. /\ IsFiniteSet(Due(d)) /\ Due(d) \subseteq issued.expenses
        /\ \A e \in issued.expenses : Paid(d)[e] \in Nat
    BY DueTypes DEF WarrantInv
  <2>2. \A e \in issued.expenses : Paid(d)'[e] \in Nat
    BY ShareTypes DEF TypeOK, Paid
  <2>3. Due(d)' = Due(d)
    BY DEF Due
  <2>4. \A e \in issued.expenses : Outstanding(e, d[1])' => Outstanding(e, d[1])
    BY DEF Outstanding
  <2>5. \A e \in issued.expenses : Paid(d)[e] <= Paid(d)'[e]
    <3> SUFFICES ASSUME NEW e \in issued.expenses PROVE Paid(d)[e] <= Paid(d)'[e]
      OBVIOUS
    <3>1. e.val.share \in Nat
      BY DueTypes DEF WarrantInv
    <3> QED
      BY <2>4, <3>1 DEF Paid
  <2>a. NobodyShort' => NobodyShort
    BY DEF NobodyShort
  <2>b. NobodyShort' =>
          \A e \in issued.expenses : Outstanding(e, d[1])' <=> Outstanding(e, d[1])
    BY <2>4 DEF NobodyShort, Outstanding
  <2>c. NobodyShort' => \A e \in issued.expenses : Paid(d)'[e] = Paid(d)[e]
    BY <2>b DEF Paid
  <2> DEFINE f == Paid(d)  g == Paid(d)'  D == Due(d)
  <2>6. /\ IsFiniteSet(D)
        /\ \A e \in D : f[e] \in Int /\ g[e] \in Int /\ f[e] <= g[e]
        /\ NobodyShort' => \A e \in D : g[e] = f[e]
    BY <2>1, <2>2, <2>5, <2>c
  <2>7. /\ SumFunctionOnSet(charged[d], Node) <= SumFunctionOnSet(f, D)
        /\ NobodyShort => SumFunctionOnSet(charged[d], Node) = SumFunctionOnSet(f, D)
    BY DEF WarrantInv
  <2>8. \A n \in Node : charged[d][n] \in Int
    BY DEF TypeOK
  <2>9. SumFunctionOnSet(charged[d], Node) \in Int
    BY <2>8, NodesAssumption, SumType
  <2> HIDE DEF f, g, D
  <2>10. SumFunctionOnSet(f, D) <= SumFunctionOnSet(g, D)
         /\ SumFunctionOnSet(f, D) \in Int /\ SumFunctionOnSet(g, D) \in Int
    BY <2>6, SumMonotone, SumType
  <2>11. NobodyShort' => SumFunctionOnSet(f, D) = SumFunctionOnSet(g, D)
    BY <2>6, SumSame
  <2>12. /\ SumFunctionOnSet(charged[d], Node) <= SumFunctionOnSet(g, D)
         /\ NobodyShort' => SumFunctionOnSet(charged[d], Node) = SumFunctionOnSet(g, D)
    BY <2>7, <2>9, <2>10, <2>11, <2>a
  <2> QED
    BY <2>3, <2>12 DEF g, D
<1>2. \A e \in issued'.expenses : e.tag \in Request /\ pc'[e.tag] \in Past
  BY DEF WarrantInv
<1>3. ASSUME NEW r \in Request, pc'[r] \in Charging
      PROVE  /\ pc'[r] = pc[r] /\ todo'[r] = todo[r]
             /\ call'[r] = call[r] /\ owing'[r] = owing[r]
  BY <1>3
<1>4. \A r \in Request : pc'[r] \in Charging =>
        /\ Entry(call'[r].id, r, call'[r]) \in issued'.expenses
        /\ todo'[r] \subseteq Debtors(call'[r])
  BY <1>3 DEF WarrantInv
<1>5. \A r \in Request : pc'[r] = "increment" =>
        \E u \in todo'[r] : owing'[r] = <<u, call'[r].user>>
  BY <1>3 DEF WarrantInv, Charging
<1> QED
  BY <1>1, <1>2, <1>4, <1>5 DEF WarrantInv, Entry, Debtors

\* AddExpense records: nothing is charged for the expense yet, and nothing
\* else changes, since a request records once.
LEMMA RecordWarrants ==
  ASSUME TypeInv, TypeOK', WarrantInv, NEW r \in Request, RecordExpense(r)
  PROVE  WarrantInv'
<1> DEFINE c == call[r]
<1> PICK x : x = Entry(c.id, r, c)
  OBVIOUS
<1>1. /\ pc[r] = "record" /\ issued'.expenses = issued.expenses \cup {x}
      /\ charged' = charged /\ call' = call /\ owing' = owing
      /\ todo'[r] = Debtors(c) /\ pc'[r] = "charge"
      /\ \A q \in Request \ {r} : todo'[q] = todo[q] /\ pc'[q] = pc[q]
  BY DEF RecordExpense, Goto, TypeInv, TypeOK, Issued, Proc
<1>2. x.tag = r /\ x.val = c
  BY DEF Entry
<1>3. \A e \in issued.expenses : e.tag \in Request /\ e.tag # r
  BY <1>1 DEF WarrantInv, Past, Charging, Marshalling, Final
<1>4. IsFiniteSet(issued'.expenses) /\ IsFiniteSet(issued.expenses)
  BY <1>1, FS_AddElement DEF WarrantInv
<1>5. ASSUME NEW d \in Pair
      PROVE  /\ SumFunctionOnSet(charged'[d], Node) <= SumFunctionOnSet(Paid(d)', Due(d)')
             /\ NobodyShort' =>
                  SumFunctionOnSet(charged'[d], Node) = SumFunctionOnSet(Paid(d)', Due(d)')
  <2>1. /\ IsFiniteSet(Due(d)) /\ Due(d) \subseteq issued.expenses
        /\ \A e \in issued.expenses : Paid(d)[e] \in Nat
    BY <1>4, DueTypes DEF TypeInv
  <2>2. /\ IsFiniteSet(Due(d)') /\ Due(d)' \subseteq issued'.expenses
        /\ \A e \in issued'.expenses : Paid(d)'[e] \in Nat
    <3>1. Due(d)' \subseteq issued'.expenses
      BY DEF Due
    <3>2. \A e \in issued'.expenses : Paid(d)'[e] \in Nat
      BY ShareTypes DEF TypeOK, Paid
    <3> QED
      BY <1>4, <3>1, <3>2, FS_Subset
  <2>3. ASSUME NEW e \in issued.expenses PROVE Paid(d)'[e] = Paid(d)[e]
    BY <1>1, <1>3 DEF Paid, Outstanding
  <2>4. x \notin issued.expenses
    BY <1>2, <1>3
  <2> DEFINE f == Paid(d)  g == Paid(d)'  D == Due(d)  E == Due(d)'
  <2>5. E = D \/ (E = D \cup {x} /\ g[x] = 0)
    <3>1. CASE c.user = d[2] /\ d[1] \in Debtors(c)
      <4>1. E = D \cup {x}
        BY <1>1, <1>2, <3>1 DEF Due
      <4>2. Outstanding(x, d[1])'
        BY <1>1, <1>2, <3>1 DEF Outstanding, Charging
      <4> QED
        BY <1>1, <4>1, <4>2 DEF Paid
    <3>2. CASE ~ (c.user = d[2] /\ d[1] \in Debtors(c))
      BY <1>1, <1>2, <3>2 DEF Due
    <3> QED
      BY <3>1, <3>2
  <2>6. IsFiniteSet(D) /\ IsFiniteSet(E) /\ x \notin D
        /\ (\A e \in D : f[e] \in Int /\ g[e] = f[e]) /\ (\A e \in E : g[e] \in Int)
    BY <2>1, <2>2, <2>3, <2>4
  <2>a. NobodyShort' => NobodyShort
    BY <1>1 DEF NobodyShort, Short
  <2>7. /\ SumFunctionOnSet(charged[d], Node) <= SumFunctionOnSet(f, D)
        /\ NobodyShort => SumFunctionOnSet(charged[d], Node) = SumFunctionOnSet(f, D)
    BY DEF WarrantInv
  <2> HIDE DEF f, g, D, E
  <2>8. SumFunctionOnSet(f, D) = SumFunctionOnSet(g, D) /\ SumFunctionOnSet(f, D) \in Int
    BY <2>6, SumSame, SumType
  <2>9. SumFunctionOnSet(g, E) = SumFunctionOnSet(g, D)
    <3>1. CASE E = D
      BY <3>1
    <3>2. CASE E = D \cup {x} /\ g[x] = 0
      <4>1. x \in E /\ E \ {x} = D
        BY <2>6, <3>2
      <4>2. SumFunctionOnSet(g, E) = g[x] + SumFunctionOnSet(g, D)
        BY <2>6, <4>1, SumRemove
      <4> QED
        BY <2>8, <3>2, <4>2
    <3> QED
      BY <2>5, <3>1, <3>2
  <2>10. /\ SumFunctionOnSet(charged[d], Node) <= SumFunctionOnSet(g, E)
         /\ NobodyShort' => SumFunctionOnSet(charged[d], Node) = SumFunctionOnSet(g, E)
    BY <2>7, <2>8, <2>9, <2>a
  <2> QED
    BY <1>1, <2>10 DEF g, E
<1>6. \A e \in issued'.expenses : e.tag \in Request /\ pc'[e.tag] \in Past
  BY <1>1, <1>2, <1>3 DEF WarrantInv, Past, Charging
<1>b. \A e, f \in issued'.expenses : e.tag = f.tag => e = f
  BY <1>1, <1>2, <1>3 DEF WarrantInv
<1>7. \A q \in Request : pc'[q] \in Charging =>
        /\ Entry(call[q].id, q, call[q]) \in issued'.expenses
        /\ todo'[q] \subseteq Debtors(call[q])
  BY <1>1 DEF WarrantInv
<1>8. \A q \in Request : pc'[q] = "increment" =>
        \E u \in todo'[q] : owing'[q] = <<u, call[q].user>>
  <2>1. pc'[r] # "increment"
    BY <1>1
  <2> QED
    BY <1>1, <2>1 DEF WarrantInv
<1> QED
  BY <1>1, <1>4, <1>5, <1>6, <1>7, <1>8, <1>b DEF WarrantInv, Entry, Debtors

\* The next debtor is one of those on the list.
LEMMA ChargeWarrants ==
  ASSUME TypeInv, TypeOK', WarrantInv, NEW r \in Request, Charge(r)
  PROVE  WarrantInv'
<1>1. PICK u \in todo[r] : owing' = [owing EXCEPT ![r] = <<u, call[r].user>>]
  BY DEF Charge
<1>2. /\ pc[r] = "charge" /\ pc'[r] = "increment"
      /\ \A q \in Request \ {r} : pc'[q] = pc[q] /\ owing'[q] = owing[q]
      /\ owing'[r] = <<u, call[r].user>>
      /\ UNCHANGED <<issued, charged, todo, call>>
  BY <1>1 DEF Charge, Goto, history, TypeInv, TypeOK, Proc
<1>3. \A q \in Request : pc'[q] \in Charging <=> pc[q] \in Charging
  BY <1>2 DEF Charging
<1>4. \A q \in Request : pc[q] \in Past => pc'[q] \in Past
  BY <1>2 DEF Past, Charging
<1>5. \A d : Paid(d)' = Paid(d) /\ Due(d)' = Due(d)
  <2>1. \A e, v : Outstanding(e, v)' <=> Outstanding(e, v)
    BY <1>2, <1>3 DEF Outstanding
  <2> QED
    BY <1>2, <2>1 DEF Paid, Due
<1>a. NobodyShort' => NobodyShort
  BY <1>2 DEF NobodyShort, Short
<1>6. \A q \in Request : pc'[q] = "increment" =>
        \E v \in todo[q] : owing'[q] = <<v, call[q].user>>
  BY <1>1, <1>2 DEF WarrantInv
<1>7. \A e \in issued.expenses : e.tag \in Request /\ pc'[e.tag] \in Past
  BY <1>4 DEF WarrantInv
<1>8. \A q \in Request : pc'[q] \in Charging =>
        /\ Entry(call[q].id, q, call[q]) \in issued.expenses
        /\ todo[q] \subseteq Debtors(call[q])
  BY <1>3 DEF WarrantInv
<1> QED
  BY <1>2, <1>5, <1>6, <1>7, <1>8, <1>a DEF WarrantInv, Entry, Debtors

\* AddExpense charges a debtor its share and takes it off the list: the
\* expense, outstanding so far, now counts for as much.
LEMMA IncrementWarrants ==
  ASSUME TypeInv, TypeOK', WarrantInv, NEW r \in Request, Increment(r)
  PROVE  WarrantInv'
<1> DEFINE c == call[r]
           n == at[r]
           k == c.share
<1> PICK x : x = Entry(c.id, r, c)
  OBVIOUS
<1>1. PICK u \in todo[r] : owing[r] = <<u, c.user>>
  BY DEF Increment, WarrantInv
<1> DEFINE o == <<u, c.user>>
<1>2. /\ pc[r] = "increment" /\ pc'[r] = "charge"
      /\ \A q \in Request \ {r} : /\ pc'[q] = pc[q] /\ todo'[q] = todo[q]
                                   /\ owing'[q] = owing[q]
      /\ todo'[r] = todo[r] \ {u}
      /\ UNCHANGED <<issued, call>>
  BY <1>1 DEF Increment, Goto, TypeInv, TypeOK, Proc
<1>3. c \in Call /\ n \in Node /\ k \in Nat /\ c.user \in User
  BY <1>2, HandlerFacts
<1>4. u \in User /\ o \in Pair
  BY <1>1, <1>2, <1>3 DEF Pair, TypeInv, TypeOK
<1>5. /\ charged'[o] = [charged[o] EXCEPT ![n] = charged[o][n] + k]
      /\ \A d \in Pair : d # o => charged'[d] = charged[d]
  BY <1>1, <1>4 DEF Increment, TypeInv, TypeOK
<1>6. x \in issued.expenses /\ x.tag = r /\ x.val = c /\ todo[r] \subseteq Debtors(c)
  BY <1>2 DEF WarrantInv, Charging, Entry
<1>7. IsFiniteSet(issued.expenses) /\ IsFiniteSet(issued'.expenses)
  BY <1>2 DEF WarrantInv
<1>8. /\ \A e, v : Outstanding(e, v)' => Outstanding(e, v)
      /\ \A e \in issued.expenses : \A v :
           e.tag # r \/ v # u => (Outstanding(e, v)' <=> Outstanding(e, v))
  BY <1>2 DEF Outstanding, Charging
<1>a. NobodyShort' => NobodyShort
  BY <1>2 DEF NobodyShort, Short
<1> HIDE DEF n, k
<1>9. ASSUME NEW d \in Pair
      PROVE  /\ SumFunctionOnSet(charged'[d], Node) <= SumFunctionOnSet(Paid(d)', Due(d)')
             /\ NobodyShort' =>
                  SumFunctionOnSet(charged'[d], Node) = SumFunctionOnSet(Paid(d)', Due(d)')
  <2>1. /\ IsFiniteSet(Due(d)) /\ Due(d) \subseteq issued.expenses
        /\ \A e \in issued.expenses : Paid(d)[e] \in Nat /\ e.val.share \in Nat
    BY <1>7, DueTypes DEF TypeInv
  <2>2. \A e \in issued.expenses : Paid(d)'[e] \in Nat
    BY <1>2, ShareTypes DEF TypeOK, Paid
  <2>3. Due(d)' = Due(d)
    BY <1>2 DEF Due
  <2>4. \A e \in issued.expenses : e.tag # r \/ d[1] # u => Paid(d)'[e] = Paid(d)[e]
    BY <1>2, <1>8 DEF Paid
  <2>5. \A e \in issued.expenses : e.tag = r => e = x
    BY <1>6 DEF WarrantInv
  <2> DEFINE f == Paid(d)  g == Paid(d)'  D == Due(d)  old == charged[d]  new == charged'[d]
  <2>6. IsFiniteSet(D) /\ \A e \in D : f[e] \in Int /\ g[e] \in Int
    BY <2>1, <2>2
  <2>7. /\ SumFunctionOnSet(old, Node) <= SumFunctionOnSet(f, D)
        /\ NobodyShort => SumFunctionOnSet(old, Node) = SumFunctionOnSet(f, D)
    BY DEF WarrantInv
  <2>8. (\A m \in Node : old[m] \in Int /\ new[m] \in Int) /\ IsFiniteSet(Node)
    BY NodesAssumption DEF TypeInv, TypeOK
  \* Both sums grow by the same amount.
  <2>9. CASE d # o
    <3>1. new = old
      BY <1>5, <2>9
    <3>2. \A e \in D : e.tag = r => d[1] # u
      BY <1>6, <2>1, <2>5, <2>9 DEF Due, Pair
    <3>3. \A e \in D : g[e] = f[e]
      BY <2>1, <2>4, <3>2
    <3> HIDE DEF f, g, D, old, new
    <3>4. SumFunctionOnSet(f, D) = SumFunctionOnSet(g, D)
      BY <2>6, <3>3, SumSame
    <3>5. /\ SumFunctionOnSet(new, Node) <= SumFunctionOnSet(g, D)
          /\ NobodyShort' => SumFunctionOnSet(new, Node) = SumFunctionOnSet(g, D)
      BY <1>a, <2>7, <3>1, <3>4
    <3> QED
      BY <2>3, <3>5 DEF new, g, D
  <2>10. CASE d = o
    <3>1. x \in D /\ d[1] = u
      BY <1>1, <1>6, <2>10 DEF Due
    <3>2. f[x] = 0 /\ g[x] = k
      <4>1. Outstanding(x, u)
        BY <1>1, <1>2, <1>6 DEF Outstanding, Charging
      <4>2. ~ Outstanding(x, u)'
        BY <1>2, <1>6 DEF Outstanding
      <4>3. x.val.share = k
        BY <1>6 DEF k
      <4> QED
        BY <1>2, <1>6, <3>1, <4>1, <4>2, <4>3 DEF Paid
    <3>3. \A e \in D \ {x} : g[e] = f[e]
      BY <2>1, <2>4, <2>5
    <3>4. new[n] = old[n] + k /\ \A m \in Node \ {n} : new[m] = old[m]
      BY <1>3, <1>5, <2>10 DEF TypeInv, TypeOK
    <3> HIDE DEF f, g, D, old, new
    <3> DEFINE F == D \ {x}  M == Node \ {n}
    <3>5. /\ SumFunctionOnSet(f, D) = f[x] + SumFunctionOnSet(f, F)
          /\ SumFunctionOnSet(g, D) = g[x] + SumFunctionOnSet(g, F)
      BY <2>6, <3>1, SumRemove
    <3>6. /\ SumFunctionOnSet(old, Node) = old[n] + SumFunctionOnSet(old, M)
          /\ SumFunctionOnSet(new, Node) = new[n] + SumFunctionOnSet(new, M)
      BY <1>3, <2>8, SumRemove
    <3>7. IsFiniteSet(F) /\ F \subseteq D /\ IsFiniteSet(M) /\ M \subseteq Node
      BY <2>6, <2>8, FS_Subset
    <3>8. SumFunctionOnSet(f, F) = SumFunctionOnSet(g, F)
          /\ SumFunctionOnSet(f, F) \in Int
      <4>1. \A e \in F : f[e] \in Int /\ g[e] = f[e]
        BY <2>6, <3>3
      <4> HIDE DEF F
      <4> QED
        BY <3>7, <4>1, SumSame, SumType
    <3>9. SumFunctionOnSet(old, M) = SumFunctionOnSet(new, M)
          /\ SumFunctionOnSet(old, M) \in Int
      <4>1. \A m \in M : old[m] \in Int /\ new[m] = old[m]
        BY <2>8, <3>4
      <4> HIDE DEF M
      <4> QED
        BY <3>7, <4>1, SumSame, SumType
    <3> HIDE DEF F, M
    <3>10. old[n] \in Int /\ k \in Int
      BY <1>3, <2>8
    <3>11. /\ SumFunctionOnSet(new, Node) <= SumFunctionOnSet(g, D)
           /\ NobodyShort' => SumFunctionOnSet(new, Node) = SumFunctionOnSet(g, D)
      BY <1>a, <2>7, <3>2, <3>4, <3>5, <3>6, <3>8, <3>9, <3>10
    <3> QED
      BY <2>3, <3>11 DEF new, g, D
  <2> QED
    BY <2>9, <2>10
<1>10. \A q \in Request : pc'[q] \in Charging <=> pc[q] \in Charging
  BY <1>2 DEF Charging
<1>11. \A e \in issued.expenses : e.tag \in Request /\ pc'[e.tag] \in Past
  BY <1>2 DEF WarrantInv, Past, Charging
<1>12. \A q \in Request : pc'[q] \in Charging =>
         /\ Entry(call[q].id, q, call[q]) \in issued.expenses
         /\ todo'[q] \subseteq Debtors(call[q])
  BY <1>2, <1>10 DEF WarrantInv
<1>13. \A q \in Request : pc'[q] = "increment" =>
         \E v \in todo'[q] : owing'[q] = <<v, call[q].user>>
  <2>1. pc'[r] # "increment"
    BY <1>2
  <2> QED
    BY <1>2, <2>1 DEF WarrantInv
<1> QED
  BY <1>2, <1>7, <1>9, <1>11, <1>12, <1>13 DEF WarrantInv, Entry, Debtors

\* Every step keeps what is charged warranted.
LEMMA StepWarrants ==
  TypeInv /\ TypeInv' /\ WarrantInv /\ [Next]_vars => WarrantInv'
<1> SUFFICES ASSUME TypeInv, TypeInv', WarrantInv, [Next]_vars PROVE WarrantInv'
  OBVIOUS
<1> USE DEF Goto, Finish, Reject, Pass, shared, local, history
<1>t. TypeOK /\ TypeOK'
  BY DEF TypeInv
<1>0. CASE UNCHANGED vars
  BY <1>0, <1>t, QuietWarrants DEF vars
\* A process goes to a label where there is nothing to charge.
<1>q. ASSUME NEW p \in Proc, NEW label, pc' = [pc EXCEPT ![p] = label],
             label \notin Charging,
             p \in Request =>
               /\ pc[p] \in Past => label \in Past
               /\ pc[p] \in Charging => todo[p] = {} \/ label \in Short
               /\ pc[p] \notin Short,
             \A q \in Request \ {p} : /\ call'[q] = call[q] /\ todo'[q] = todo[q]
                                      /\ owing'[q] = owing[q],
             charged' = charged, issued'.expenses = issued.expenses
      PROVE  WarrantInv'
  <2>1. \A q \in Request : q # p => pc'[q] = pc[q]
    BY <1>q DEF TypeInv, TypeOK, Proc
  <2>2. p \in Request => pc'[p] = label
    BY <1>q DEF TypeInv, TypeOK, Proc
  <2> QED
    BY <1>q, <1>t, <2>1, <2>2, QuietWarrants
<1>f. ASSUME NEW r \in Request, NEW outcome \in Final, Finish(r, outcome),
             pc[r] \notin Short, pc[r] \in Charging => outcome \in Short,
             call' = call, charged' = charged, issued'.expenses = issued.expenses
      PROVE  WarrantInv'
  <2>1. outcome \notin Charging /\ outcome \in Past
    BY DEF Final, Charging, Past
  <2>2. \A q \in Request \ {r} : todo'[q] = todo[q] /\ owing'[q] = owing[q]
    BY <1>f DEF TypeInv, TypeOK, Proc
  <2> QED
    BY <1>f, <1>q, <2>1, <2>2 DEF Proc
<1>1. ASSUME NEW w \in Workload, Receive(w[1], w[2], w[3]) PROVE WarrantInv'
  <2> DEFINE r == w[1]
             c == w[3]
             l == Entrance(c.op)
  <2>1. r \in Request /\ r \in Proc /\ c \in Call
    BY ConstantsAssumption DEF Proc
  <2>2. pc' = [pc EXCEPT ![r] = l] /\ call' = [call EXCEPT ![r] = c]
        /\ UNCHANGED <<todo, owing, issued, charged>> /\ pc[r] \notin Past
    BY <1>1 DEF Receive, Past, Charging, Marshalling, Final
  <2>3. l \notin Charging
    BY <2>1 DEF Entrance, Call, Op, Charging
  <2>4. \A q \in Request \ {r} : call'[q] = call[q]
    BY <2>1, <2>2 DEF TypeInv, TypeOK
  <2>5. pc[r] \notin Charging \cup Short
    BY <2>2 DEF Past, Final, Short
  <2> HIDE DEF r, c, l
  <2> QED
    BY <1>q, <2>1, <2>2, <2>3, <2>4, <2>5
<1>2. ASSUME NEW r \in Request, Create(r) PROVE WarrantInv'
  <2>1. issued'.expenses = issued.expenses
    BY <1>2, <1>t DEF Create, TypeOK, Issued
  <2>2. /\ pc' = [pc EXCEPT ![r] = "marshalMembers"] /\ pc[r] = "create"
        /\ UNCHANGED <<call, todo, owing, charged>>
    BY <1>2 DEF Create
  <2>3. /\ "marshalMembers" \notin Charging /\ r \in Proc
        /\ pc[r] \notin Past /\ pc[r] \notin Charging \cup Short
    BY <2>2 DEF Charging, Past, Short, Marshalling, Final, Proc
  <2> QED
    BY <1>q, <2>1, <2>2, <2>3
<1>3. ASSUME NEW r \in Request, Register(r) PROVE WarrantInv'
  BY <1>3, <1>f DEF Register, Final, Charging, Short
<1>4. ASSUME NEW r \in Request, Hit(r) PROVE WarrantInv'
  BY <1>4, <1>q DEF Hit, Charging, Past, Short, Marshalling, Final, Proc
<1>5. ASSUME NEW r \in Request, Miss(r) PROVE WarrantInv'
  BY <1>5, <1>q DEF Miss, Charging, Past, Short, Marshalling, Final, Proc
<1>6. ASSUME NEW r \in Request, Fetch(r) PROVE WarrantInv'
  BY <1>6, <1>q DEF Fetch, Charging, Past, Short, Marshalling, Final, Proc
<1>7. ASSUME NEW r \in Request, FetchFails(r) PROVE WarrantInv'
  BY <1>7, <1>f DEF FetchFails, Final, Charging, Short
<1>8. ASSUME NEW r \in Request, CacheFetched(r) PROVE WarrantInv'
  BY <1>8, <1>q DEF CacheFetched, Charging, Past, Short, Marshalling, Final, Proc
<1>9. ASSUME NEW r \in Request, Recache(r) PROVE WarrantInv'
  BY <1>9, <1>q DEF Recache, Charging, Past, Short, Marshalling, Final, Proc
<1>10. ASSUME NEW r \in Request, JoinCheckMember(r) PROVE WarrantInv'
  <2>1. CASE Reject(r)
    BY <1>10, <1>f, <2>1 DEF JoinCheckMember, Final, Charging, Short
  <2>2. CASE Pass(r, "checkPending")
    BY <1>10, <1>q, <2>2 DEF JoinCheckMember, Charging, Past, Short, Marshalling, Final, Proc
  <2> QED
    BY <1>10, <2>1, <2>2 DEF JoinCheckMember
<1>11. ASSUME NEW r \in Request, JoinCheckPending(r) PROVE WarrantInv'
  <2>1. CASE Reject(r)
    BY <1>11, <1>f, <2>1 DEF JoinCheckPending, Final, Charging, Short
  <2>2. CASE Pass(r, "putRequest")
    BY <1>11, <1>q, <2>2 DEF JoinCheckPending, Charging, Past, Short, Marshalling, Final, Proc
  <2> QED
    BY <1>11, <2>1, <2>2 DEF JoinCheckPending
<1>12. ASSUME NEW r \in Request, PutRequest(r) PROVE WarrantInv'
  <2>1. issued'.expenses = issued.expenses
    BY <1>12, <1>t DEF PutRequest, TypeOK, Issued
  <2> QED
    BY <1>12, <1>q, <2>1 DEF PutRequest, Charging, Past, Short, Marshalling, Final, Proc
<1>13. ASSUME NEW r \in Request, ApproveCheckMember(r) PROVE WarrantInv'
  <2>1. CASE Reject(r)
    BY <1>13, <1>f, <2>1 DEF ApproveCheckMember, Final, Charging, Short
  <2>2. CASE Pass(r, "checkRequester")
    BY <1>13, <1>q, <2>2 DEF ApproveCheckMember, Charging, Past, Short, Marshalling, Final, Proc
  <2> QED
    BY <1>13, <2>1, <2>2 DEF ApproveCheckMember
<1>14. ASSUME NEW r \in Request, ApproveCheckRequester(r) PROVE WarrantInv'
  <2>1. CASE Reject(r)
    BY <1>14, <1>f, <2>1 DEF ApproveCheckRequester, Final, Charging, Short
  <2>2. CASE Pass(r, "findRequest")
    BY <1>14, <1>q, <2>2 DEF ApproveCheckRequester, Charging, Past, Short, Marshalling, Final, Proc
  <2> QED
    BY <1>14, <2>1, <2>2 DEF ApproveCheckRequester
<1>15. ASSUME NEW r \in Request, FindRequest(r) PROVE WarrantInv'
  <2>1. CASE Reject(r)
    BY <1>15, <1>f, <2>1 DEF FindRequest, Final, Charging, Short
  <2>2. CASE Pass(r, "admit")
    BY <1>15, <1>q, <2>2 DEF FindRequest, Charging, Past, Short, Marshalling, Final, Proc
  <2> QED
    BY <1>15, <2>1, <2>2 DEF FindRequest
<1>16. ASSUME NEW r \in Request, Admit(r) PROVE WarrantInv'
  <2>1. issued'.expenses = issued.expenses
    BY <1>16, <1>t DEF Admit, TypeOK, Issued
  <2> QED
    BY <1>16, <1>q, <2>1 DEF Admit, Charging, Past, Short, Marshalling, Final, Proc
<1>17. ASSUME NEW r \in Request, ResetBalances(r) PROVE WarrantInv'
  BY <1>17, <1>q DEF ResetBalances, Charging, Past, Short, Marshalling, Final, Proc
<1>18. ASSUME NEW r \in Request, DropRequest(r) PROVE WarrantInv'
  BY <1>18, <1>q DEF DropRequest, Charging, Past, Short, Marshalling, Final, Proc
<1>19. ASSUME NEW r \in Request, ExpenseCheckPayer(r) PROVE WarrantInv'
  <2>1. CASE Reject(r)
    BY <1>19, <1>f, <2>1 DEF ExpenseCheckPayer, Final, Charging, Short
  <2>2. CASE ~ Reject(r)
    <3>1. /\ pc[r] = "checkMember" /\ pc' = [pc EXCEPT ![r] = "checkParticipants"]
          /\ todo' = [todo EXCEPT ![r] = call[r].parts]
          /\ UNCHANGED <<owing, call, issued, charged>>
      BY <1>19, <2>2 DEF ExpenseCheckPayer
    <3>2. \A q \in Request \ {r} : todo'[q] = todo[q]
      BY <3>1, <1>t DEF TypeOK
    <3>3. /\ "checkParticipants" \notin Charging /\ pc[r] \notin Past
          /\ pc[r] \notin Charging \cup Short /\ r \in Proc
      BY <3>1 DEF Charging, Past, Short, Marshalling, Final, Proc
    <3> QED
      BY <1>q, <3>1, <3>2, <3>3
  <2> QED
    BY <2>1, <2>2
<1>20. ASSUME NEW r \in Request, CheckParticipant(r) PROVE WarrantInv'
  <2>1. CASE Reject(r)
    BY <1>20, <1>f, <2>1 DEF CheckParticipant, Final, Charging, Short
  <2>2. CASE ~ Reject(r)
    <3>1. PICK u \in todo[r] :
            /\ pc[r] = "checkParticipants"
            /\ todo' = [todo EXCEPT ![r] = @ \ {u}]
            /\ UNCHANGED <<pc, owing, call, issued, charged>>
      BY <1>20, <2>2 DEF CheckParticipant
    <3>2. \A q \in Request \ {r} : todo'[q] = todo[q]
      BY <3>1, <1>t DEF TypeOK
    <3>3. pc'[r] \notin Charging
      BY <3>1 DEF Charging
    <3> QED
      BY <1>t, <3>1, <3>2, <3>3, QuietWarrants
  <2> QED
    BY <2>1, <2>2
<1>21. ASSUME NEW r \in Request, LockShard(r) PROVE WarrantInv'
  BY <1>21, <1>q DEF LockShard, Charging, Past, Short, Marshalling, Final, Proc
<1>22. ASSUME NEW r \in Request, RecordExpense(r) PROVE WarrantInv'
  BY <1>22, <1>t, RecordWarrants
<1>23. ASSUME NEW r \in Request, Charge(r) PROVE WarrantInv'
  BY <1>23, <1>t, ChargeWarrants
<1>24. ASSUME NEW r \in Request, Increment(r) PROVE WarrantInv'
  BY <1>24, <1>t, IncrementWarrants
<1>25. ASSUME NEW r \in Request, Panic(r) PROVE WarrantInv'
  BY <1>25, <1>f DEF Panic, Final, Charging, Short
<1>26. ASSUME NEW r \in Request, Charged(r) PROVE WarrantInv'
  BY <1>26, <1>q DEF Charged, Charging, Past, Short, Marshalling, Final, Proc
<1>27. ASSUME NEW r \in Request, Answer(r) PROVE WarrantInv'
  BY <1>27, <1>f DEF Answer, Final, Charging, Short
<1>28. ASSUME NEW r \in Request, SyncGetFails(r) PROVE WarrantInv'
  BY <1>28, <1>f DEF SyncGetFails, Final, Charging, Short
<1>29. ASSUME NEW r \in Request, MarshalStep(r) PROVE WarrantInv'
  BY <1>29, <1>q DEF MarshalStep, MarshalMembers, MarshalExpenses,
     MarshalBalances, MarshalRest, Marshal, Charging, Past, Short, Marshalling, Final, Proc
<1>33. ASSUME NEW r \in Request, PutValue(r) PROVE WarrantInv'
  <2>1. CASE call[r].op = "create_group"
    BY <1>33, <1>q, <2>1 DEF PutValue, Charging, Past, Short, Marshalling, Final, Proc
  <2>2. CASE call[r].op # "create_group"
    BY <1>33, <1>f, <2>2 DEF PutValue, Final, Charging, Short
  <2> QED
    BY <2>1, <2>2
<1>34. ASSUME NEW r \in Request, PutFails(r) PROVE WarrantInv'
  BY <1>34, <1>f DEF PutFails, Final, Charging, Short
<1>35. ASSUME NEW p \in Proc, SyncGet(p) PROVE WarrantInv'
  BY <1>35, <1>q, ConstantsAssumption DEF SyncGet, Syncing, Charging, Past, Short, Marshalling, Final, Proc
<1>s. ASSUME NEW p \in Proc PROVE AfterSync(p) \notin Charging
  BY DEF AfterSync, Charging
<1>36. ASSUME NEW p \in Proc, SyncCold(p) PROVE WarrantInv'
  BY <1>36, <1>q, <1>s DEF SyncCold, Charging, Past, Short, Marshalling, Final, Proc
<1>37. ASSUME NEW p \in Proc, SyncMembers(p) PROVE WarrantInv'
  BY <1>37, <1>q DEF SyncMembers, Charging, Past, Short, Marshalling, Final, Proc
<1>38. ASSUME NEW p \in Proc, SyncExpenses(p) PROVE WarrantInv'
  BY <1>38, <1>q DEF SyncExpenses, Charging, Past, Short, Marshalling, Final, Proc
<1>39. ASSUME NEW p \in Proc, SyncPending(p) PROVE WarrantInv'
  BY <1>39, <1>q DEF SyncPending, Charging, Past, Short, Marshalling, Final, Proc
<1>40. ASSUME NEW p \in Proc, SyncCounter(p) PROVE WarrantInv'
  <2>1. \A q \in Request \ {p} : owing'[q] = owing[q]
    BY <1>40, <1>t DEF SyncCounter, TypeOK, Proc
  <2> QED
    BY <1>40, <2>1, <1>q DEF SyncCounter, Charging, Past, Short, Marshalling, Final, Proc
<1>41. ASSUME NEW p \in Proc, MergeCounter(p) PROVE WarrantInv'
  <2>1. \A q \in Request \ {p} : owing'[q] = owing[q]
    BY <1>41, <1>t DEF MergeCounter, NextCounter, TypeOK, Proc
  <2> QED
    BY <1>41, <2>1, <1>q DEF MergeCounter, HasCounter, NextCounter, Charging, Past, Short, Marshalling, Final, Proc
<1>42. ASSUME NEW p \in Proc, EndSync(p) PROVE WarrantInv'
  BY <1>42, <1>q, <1>s DEF EndSync, Charging, Past, Short, Marshalling, Final, Proc
<1>43. ASSUME NEW n \in Node, DiscoverGet(n) PROVE WarrantInv'
  BY <1>43, <1>q, ConstantsAssumption DEF DiscoverGet, Charging, Proc
<1>44. ASSUME NEW n \in Node, DiscoverCache(n) PROVE WarrantInv'
  BY <1>44, <1>q, ConstantsAssumption DEF DiscoverCache, Charging, Proc
<1>45. ASSUME NEW n \in Node, Die(n) PROVE WarrantInv'
  <2>1. /\ \A q \in Request : pc'[q] = pc[q] \/ pc'[q] = "dead"
        /\ UNCHANGED <<call, todo, owing, issued, charged>>
    BY <1>45 DEF Die, Proc
  <2>2. "dead" \in Past /\ "dead" \in Short /\ "dead" \notin Charging
    BY DEF Past, Final, Charging, Short
  <2> QED
    BY <1>t, <2>1, <2>2, QuietWarrants
<1>50. ASSUME NEW r \in Request, RequestStep(r) PROVE WarrantInv'
  BY <1>50, <1>2, <1>3, <1>4, <1>5, <1>6, <1>7, <1>8, <1>9, <1>10, <1>11, <1>12,
     <1>13, <1>14, <1>15, <1>16, <1>17, <1>18, <1>19, <1>20, <1>21, <1>22,
     <1>23, <1>24, <1>25, <1>26, <1>27, <1>28, <1>29, <1>33
  DEF RequestStep, JoinStep, ApproveStep, ExpenseStep
<1>51. ASSUME NEW p \in Proc, SyncStep(p) PROVE WarrantInv'
  BY <1>51, <1>35, <1>36, <1>37, <1>38, <1>39, <1>40, <1>41, <1>42
  DEF SyncStep
<1> QED
  BY ConstantsAssumption, <1>0, <1>1, <1>50, <1>34, <1>51, <1>43, <1>44, <1>45
  DEF Next, DiscoverStep, Abort, Crash

\* The sums of the model are those that the lemmas are about.
LEMMA SumIsLibrary ==
  ASSUME NEW f PROVE PN!SumFunction(f) = SumFunctionOnSet(f, DOMAIN f)
BY DEF PN!SumFunction, PN!SumFunctionOnSet, PN!FoldFunctionOnSet,
   PN!MapThenFoldSet, SumFunctionOnSet, FoldFunctionOnSet, MapThenFoldSet

\* What is owed is the sum of the shares of what is due.
LEMMA OwedIsSum ==
  ASSUME NEW d \in Pair
  PROVE  Owed(d) = SumFunctionOnSet([e \in Due(d) |-> e.val.share], Due(d))
<1> DEFINE shares == [e \in Due(d) |-> e.val.share]
<1>1. Owed(d) = PN!SumFunction(shares)
  BY DEF Owed, Due
<1>2. DOMAIN shares = Due(d)
  OBVIOUS
<1> HIDE DEF shares
<1>3. Owed(d) = SumFunctionOnSet(shares, Due(d))
  BY <1>1, <1>2, SumIsLibrary
<1> QED
  BY <1>3 DEF shares

\* The balances of a copy show at most what was charged, hence at most what
\* the recorded expenses make due.
LEMMA BoundedIsWarranted ==
  ASSUME TypeOK, WarrantInv, NEW g \in Group, Bounded(g.balances, charged),
         NEW d \in Pair
  PROVE  PN!Value(OrZero(g.balances[d])) <= Owed(d)
<1> DEFINE c == OrZero(g.balances[d])
           shares == [e \in Due(d) |-> e.val.share]
<1>1. c \in PN!Counter(Node)
  BY OrZeroType DEF Group, Balances
<1>2. \A n \in Node : c.P[n] \in 0 .. charged[d][n] /\ c.N[n] = 0
  <2>1. CASE g.balances[d] = None
    BY <2>1 DEF OrZero, PN!NewPNCounter, TypeOK
  <2>2. CASE g.balances[d] # None
    BY <2>2 DEF OrZero, Bounded
  <2> QED
    BY <2>1, <2>2
<1>3. DOMAIN c.P = Node /\ DOMAIN c.N = Node
  BY <1>1 DEF PN!Counter
<1>4. PN!Value(c) = SumFunctionOnSet(c.P, Node) - SumFunctionOnSet(c.N, Node)
  BY <1>3, SumIsLibrary DEF PN!Value
<1>5. Owed(d) = SumFunctionOnSet(shares, Due(d))
  BY OwedIsSum
<1>6. /\ IsFiniteSet(Due(d)) /\ Due(d) \subseteq issued.expenses
      /\ \A e \in issued.expenses : /\ e.val.share \in Nat
                                   /\ Paid(d)[e] \in Nat
                                   /\ Paid(d)[e] <= e.val.share
  BY DueTypes DEF WarrantInv
<1>7. \A e \in Due(d) : shares[e] \in Int /\ Paid(d)[e] \in Int
                        /\ Paid(d)[e] <= shares[e]
  BY <1>6
<1>8. SumFunctionOnSet(charged[d], Node) <= SumFunctionOnSet(Paid(d), Due(d))
  BY DEF WarrantInv
<1>9. \A n \in Node : /\ c.P[n] \in Int /\ charged[d][n] \in Int
                       /\ c.P[n] <= charged[d][n]
  BY <1>2 DEF TypeOK
<1> HIDE DEF c, shares
<1>10. SumFunctionOnSet(c.N, Node) = 0
  BY <1>2, NodesAssumption, SumZero
<1>11. /\ SumFunctionOnSet(c.P, Node) <= SumFunctionOnSet(charged[d], Node)
       /\ SumFunctionOnSet(c.P, Node) \in Int
       /\ SumFunctionOnSet(charged[d], Node) \in Int
  BY <1>9, NodesAssumption, SumMonotone, SumType
<1>12. /\ SumFunctionOnSet(Paid(d), Due(d)) <= SumFunctionOnSet(shares, Due(d))
       /\ SumFunctionOnSet(Paid(d), Due(d)) \in Int
       /\ SumFunctionOnSet(shares, Due(d)) \in Int
  BY <1>6, <1>7, SumMonotone, SumType
<1>13. PN!Value(c) <= Owed(d)
  BY <1>4, <1>5, <1>8, <1>10, <1>11, <1>12
<1> QED
  BY <1>13 DEF c

\* Once nothing is outstanding and nobody was cut short, what was charged is
\* what the recorded expenses make due.
LEMMA SettledIsExact ==
  ASSUME TypeOK, WarrantInv, Settled, NEW d \in Pair
  PROVE  SumFunctionOnSet(charged[d], Node) = Owed(d)
<1> DEFINE shares == [e \in Due(d) |-> e.val.share]
<1>1. NobodyShort /\ \A e : ~ Outstanding(e, d[1])
  BY DEF Settled, NobodyShort, Short, Outstanding, Charging
<1>2. IsFiniteSet(Due(d)) /\ \A e \in Due(d) : /\ Paid(d)[e] = shares[e]
                                              /\ Paid(d)[e] \in Int
  <2>1. \A e \in Due(d) : Paid(d)[e] = e.val.share
    BY <1>1 DEF Paid, Due
  <2> QED
    BY <2>1, DueTypes DEF WarrantInv
<1>3. Owed(d) = SumFunctionOnSet(shares, Due(d))
  BY OwedIsSum
<1> HIDE DEF shares
<1>4. SumFunctionOnSet(Paid(d), Due(d)) = SumFunctionOnSet(shares, Due(d))
  BY <1>2, SumSame
<1> QED
  BY <1>1, <1>3, <1>4 DEF WarrantInv

\* What the debts proved here rest on holds initially ...
DebtInv == TypeInv /\ AllBounded /\ WarrantInv

LEMMA InitDebts == Init => DebtInv
BY InitTypeInv, InitBounded, InitWarrants DEF DebtInv

\* ... and after every step.
LEMMA StepDebts == DebtInv /\ [Next]_vars => DebtInv'
<1>1. DebtInv /\ [Next]_vars => TypeInv' /\ AllBounded'
  BY StepTypeInv, StepBounded DEF DebtInv
<1>2. DebtInv /\ TypeInv' /\ [Next]_vars => WarrantInv'
  BY StepWarrants DEF DebtInv
<1> QED
  BY <1>1, <1>2 DEF DebtInv

\* A group none of whose balances shows a debt above what the expenses ever
\* recorded for that debtor and creditor make due.
Warranted(g) ==
  \A d \in Pair : PN!Value(OrZero(g.balances[d])) <= Owed(d)

\* Debts are warranted, in every reachable state of any number of nodes: no
\* copy, whether in use or not, no snapshot in flight and no stored group shows
\* a debt above the sum of the shares of the expenses that AddExpense recorded,
\* however snapshots were torn, lost, or merged twice.
THEOREM WarrantedEverywhere ==
  Spec => [](/\ \A p \in Proc : Warranted(heap[p]) /\ Warranted(buf[p])
             /\ dht # NoGroup => Warranted(dht))
<1> DEFINE Everywhere == /\ \A p \in Proc : Warranted(heap[p]) /\ Warranted(buf[p])
                         /\ dht # NoGroup => Warranted(dht)
<1>1. DebtInv => Everywhere
  <2> SUFFICES ASSUME DebtInv PROVE Everywhere
    OBVIOUS
  <2>1. TypeOK /\ WarrantInv
    BY DEF DebtInv, TypeInv
  <2>2. \A g \in Group : Bounded(g.balances, charged) => Warranted(g)
    BY <2>1, BoundedIsWarranted DEF Warranted
  <2>3. \A p \in Proc : heap[p] \in Group /\ buf[p] \in Group
    BY <2>1 DEF TypeOK
  <2>4. dht # NoGroup => dht \in Group
    BY <2>1 DEF TypeOK
  <2> QED
    BY <2>2, <2>3, <2>4 DEF DebtInv, AllBounded
<1> QED
  BY <1>1, InitDebts, StepDebts, PTL DEF Spec

\* So no copy in use shows such a debt.
THEOREM DebtsAlwaysWarranted == Spec => []DebtsWarranted
<1>1. DebtInv => DebtsWarranted
  <2> SUFFICES ASSUME DebtInv, NEW n \in Node, NEW d \in Pair, cache[n] # None
               PROVE  PN!Value(OrZero(heap[cache[n]].balances[d])) <= Owed(d)
    BY DEF DebtsWarranted
  <2>1. TypeOK /\ WarrantInv
    BY DEF DebtInv, TypeInv
  <2>2. cache[n] \in Proc /\ heap[cache[n]] \in Group
    BY <2>1 DEF TypeOK
  <2>3. Bounded(heap[cache[n]].balances, charged)
    BY <2>2 DEF DebtInv, AllBounded
  <2> QED
    BY <2>1, <2>2, <2>3, BoundedIsWarranted
<1> QED
  BY <1>1, InitDebts, StepDebts, PTL DEF Spec
=============================================================================
