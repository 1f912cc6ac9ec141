----------------------- MODULE GroupNodeLedgerProofs -----------------------
(***************************************************************************)
(* The nodes invent nothing and implement the ledger, in any instance of   *)
(* GroupNode.                                                              *)
(***************************************************************************)
EXTENDS GroupNodeTypeProofs

(***************************************************************************)
(* Nothing is invented.                                                    *)
(***************************************************************************)
\* The entries of group g are among those of the history i.
Within(g, i) ==
  /\ g.members \subseteq i.members
  /\ g.expenses \subseteq i.expenses
  /\ g.pending \subseteq i.pending

\* History j has all that history i has.
Extends(i, j) == Within(i, j)

AllWithin ==
  /\ \A p \in Proc : Within(heap[p], issued) /\ Within(buf[p], issued)
  /\ dht # NoGroup => Within(dht, issued)

\* AllWithin says it with the history as a parameter.
LEMMA WithinIsNothingInvented == AllWithin <=> NothingInvented
BY DEF AllWithin, Within, NothingInvented, WithinIssued

\* What a method of ormap.go returns was in a map it was given, or is the
\* entry that is put.
LEMMA MapMethods ==
  /\ \A m, k, v, t : OrMap!Put(m, k, v, t) \subseteq m \cup {Entry(k, t, v)}
  /\ \A m, k : OrMap!RemoveKey(m, k) \subseteq m
  /\ \A m, o : OrMap!Merge(m, o) \subseteq m \cup o
BY DEF OrMap!Put, OrMap!RemoveKey, OrMap!Merge, Entry

\* What was within the history is within a longer one.
LEMMA WithinGrows ==
  ASSUME NEW g, NEW i, NEW j, Within(g, i), Extends(i, j)
  PROVE  Within(g, j)
BY DEF Within, Extends

\* An empty group is within every history.
LEMMA EmptyWithin ==
  ASSUME NEW i
  PROVE  Within(EmptyGroup, i)
BY DEF Within, EmptyGroup, OrMap!NewORMap

\* The bound holds before anything has happened.
LEMMA InitWithin == Init => AllWithin
<1> SUFFICES ASSUME Init PROVE AllWithin
  OBVIOUS
<1>1. issued = [members |-> SetupEntries(Founders), expenses |-> OrMap!NewORMap,
                pending |-> SetupEntries(Waiting)]
  BY DEF Init
<1>2. /\ SetupGroup.members = SetupEntries(Founders)
      /\ SetupGroup.pending = SetupEntries(Waiting)
      /\ SetupGroup.expenses = OrMap!NewORMap
  BY DEF SetupGroup, EmptyGroup
<1>3. Within(SetupGroup, issued)
  BY <1>1, <1>2 DEF Within
<1> QED
  BY <1>3, EmptyWithin DEF Init, AllWithin

\* One copy becomes group g; the history may grow.
LEMMA CopyWithin ==
  ASSUME TypeInv, AllWithin, NEW p \in Proc, NEW g,
         heap' = [heap EXCEPT ![p] = g], Within(g, issued'),
         UNCHANGED <<buf, dht>>, Extends(issued, issued')
  PROVE  AllWithin'
<1>1. \A q \in Proc : heap'[q] = heap[q] \/ heap'[q] = g
  BY DEF TypeInv, TypeOK
<1>2. /\ \A q \in Proc : Within(heap[q], issued') /\ Within(buf[q], issued')
      /\ dht # NoGroup => Within(dht, issued')
  BY WithinGrows DEF AllWithin
<1> QED
  BY <1>1, <1>2 DEF AllWithin

\* Groups that move between copies, buffers and the DHT.
LEMMA MoveWithin ==
  ASSUME AllWithin, UNCHANGED issued,
         \A p \in Proc : /\ Within(heap[p], issued) => Within(heap'[p], issued)
                         /\ Within(buf[p], issued) => Within(buf'[p], issued),
         dht' = dht \/ \E p \in Proc : dht' = buf[p]
  PROVE  AllWithin'
BY DEF AllWithin

\* Every step keeps it: a handler puts what it records, all else moves or
\* merges what is there.
LEMMA StepWithin == TypeInv /\ AllWithin /\ [Next]_vars => AllWithin'
<1> SUFFICES ASSUME TypeInv, AllWithin, [Next]_vars PROVE AllWithin'
  OBVIOUS
<1> USE DEF Goto, Finish, Reject, Pass, shared, local, history
<1>0. CASE UNCHANGED vars
  BY <1>0 DEF vars, AllWithin
<1>a. Extends(issued, issued)
  BY DEF Extends, Within
<1>b. \A i \in {issued} : Within(EmptyGroup, i)
  BY EmptyWithin
\* Steps that change no copy, and a buffer at most to what is stored or empty.
<1>c. ASSUME UNCHANGED <<heap, issued>>,
             \A p \in Proc : \/ buf'[p] = buf[p] \/ buf'[p] = EmptyGroup
                             \/ dht # NoGroup /\ buf'[p] = dht,
             dht' = dht \/ \E p \in Proc : dht' = buf[p]
      PROVE  AllWithin'
  BY <1>b, <1>c DEF AllWithin
<1>1. ASSUME NEW w \in Workload, Receive(w[1], w[2], w[3]) PROVE AllWithin'
  BY <1>1, <1>c DEF Receive
<1>2. ASSUME NEW r \in Request, Create(r) PROVE AllWithin'
  <2> DEFINE u == call[r].user
  <2>1. PICK t \in Stamps :
          heap' = [heap EXCEPT ![r] =
                     [EmptyGroup EXCEPT
                        !.members = OrMap!Put(OrMap!NewORMap, u, u, r),
                        !.keyTime = t]]
    BY <1>2 DEF Create
  <2> DEFINE g == [EmptyGroup EXCEPT
                     !.members = OrMap!Put(OrMap!NewORMap, u, u, r),
                     !.keyTime = t]
  <2>2. /\ g.members = OrMap!Put(OrMap!NewORMap, u, u, r)
        /\ g.expenses = {} /\ g.pending = {}
    BY DEF EmptyGroup, OrMap!NewORMap
  <2>3. issued' = [issued EXCEPT !.members = @ \cup {Entry(u, r, u)}]
    BY <1>2 DEF Create
  <2>4. issued \in Issued
    BY DEF TypeInv, TypeOK
  <2>5. Within(g, issued')
    BY <2>2, <2>3, <2>4, MapMethods DEF Within, OrMap!NewORMap, Issued
  <2>6. Extends(issued, issued')
    BY <2>3, <2>4 DEF Extends, Within, Issued
  <2> HIDE DEF g
  <2>7. heap' = [heap EXCEPT ![r] = g]
    BY <2>1 DEF g
  <2> QED
    BY <1>2, <2>5, <2>6, <2>7, CopyWithin DEF Create, Proc
<1>3. ASSUME NEW r \in Request, Register(r) PROVE AllWithin'
  BY <1>3, <1>c DEF Register, TypeInv, TypeOK
<1>4. ASSUME NEW r \in Request, Hit(r) PROVE AllWithin'
  BY <1>4, <1>c DEF Hit
<1>5. ASSUME NEW r \in Request, Miss(r) PROVE AllWithin'
  BY <1>5, <1>c DEF Miss
<1>6. ASSUME NEW r \in Request, Fetch(r) PROVE AllWithin'
  BY <1>6, <1>c DEF Fetch, TypeInv, TypeOK
<1>7. ASSUME NEW r \in Request, FetchFails(r) PROVE AllWithin'
  BY <1>7, <1>c DEF FetchFails, TypeInv, TypeOK
\* A process installs the group in its buffer as its copy.
<1>d. ASSUME NEW p \in Proc, UNCHANGED <<dht, issued>>,
             heap' = [heap EXCEPT ![p] = buf[p]],
             buf' = [buf EXCEPT ![p] = EmptyGroup]
      PROVE  AllWithin'
  <2>1. /\ \A q \in Proc : heap'[q] = heap[q] \/ heap'[q] = buf[p]
        /\ \A q \in Proc : buf'[q] = buf[q] \/ buf'[q] = EmptyGroup
    BY <1>d DEF TypeInv, TypeOK
  <2> QED
    BY <1>b, <1>d, <2>1 DEF AllWithin
<1>8. ASSUME NEW r \in Request, CacheFetched(r) PROVE AllWithin'
  BY <1>8, <1>d DEF CacheFetched, Proc
<1>9. ASSUME NEW r \in Request, Recache(r) PROVE AllWithin'
  BY <1>9, <1>c DEF Recache
<1>10. ASSUME NEW r \in Request, JoinCheckMember(r) PROVE AllWithin'
  BY <1>10, <1>c DEF JoinCheckMember, TypeInv, TypeOK
<1>11. ASSUME NEW r \in Request, JoinCheckPending(r) PROVE AllWithin'
  BY <1>11, <1>c DEF JoinCheckPending, TypeInv, TypeOK
<1>12. ASSUME NEW r \in Request, PutRequest(r) PROVE AllWithin'
  <2> DEFINE u == call[r].user
             m == OrMap!Put(heap[obj[r]].pending, u, u, r)
             g == [heap[obj[r]] EXCEPT !.pending = m]
  <2>1. obj[r] \in Proc /\ heap[obj[r]] \in Group
    BY <1>12, CopyFacts DEF PutRequest, Working, Proc
  <2>2. issued' = [issued EXCEPT !.pending = @ \cup {Entry(u, r, u)}]
        /\ issued \in Issued
    BY <1>12 DEF PutRequest, TypeInv, TypeOK
  <2>3. /\ issued'.pending = issued.pending \cup {Entry(u, r, u)}
        /\ issued'.members = issued.members /\ issued'.expenses = issued.expenses
    BY <2>2 DEF Issued
  <2>4. m \subseteq heap[obj[r]].pending \cup {Entry(u, r, u)}
    BY MapMethods
  <2>5. g.members = heap[obj[r]].members /\ g.expenses = heap[obj[r]].expenses
        /\ g.pending = m
    BY <2>1 DEF Group
  <2>6. Within(g, issued')
    BY <2>1, <2>3, <2>4, <2>5 DEF Within, AllWithin
  <2>7. Extends(issued, issued')
    BY <2>3 DEF Extends, Within
  <2>8. heap' = [heap EXCEPT ![obj[r]] = g] /\ UNCHANGED <<buf, dht>>
    BY <1>12 DEF PutRequest
  <2> HIDE DEF g
  <2> QED
    BY <2>1, <2>6, <2>7, <2>8, CopyWithin
<1>13. ASSUME NEW r \in Request, ApproveCheckMember(r) PROVE AllWithin'
  BY <1>13, <1>c DEF ApproveCheckMember, TypeInv, TypeOK
<1>14. ASSUME NEW r \in Request, ApproveCheckRequester(r) PROVE AllWithin'
  BY <1>14, <1>c DEF ApproveCheckRequester, TypeInv, TypeOK
<1>15. ASSUME NEW r \in Request, FindRequest(r) PROVE AllWithin'
  BY <1>15, <1>c DEF FindRequest, TypeInv, TypeOK
<1>16. ASSUME NEW r \in Request, Admit(r) PROVE AllWithin'
  <2> DEFINE u == call[r].subject
             m == OrMap!Put(heap[obj[r]].members, u, u, r)
             g == [heap[obj[r]] EXCEPT !.members = m]
  <2>1. obj[r] \in Proc /\ heap[obj[r]] \in Group
    BY <1>16, CopyFacts DEF Admit, Working, Proc
  <2>2. issued' = [issued EXCEPT !.members = @ \cup {Entry(u, r, u)}]
        /\ issued \in Issued
    BY <1>16 DEF Admit, TypeInv, TypeOK
  <2>3. /\ issued'.members = issued.members \cup {Entry(u, r, u)}
        /\ issued'.pending = issued.pending /\ issued'.expenses = issued.expenses
    BY <2>2 DEF Issued
  <2>4. m \subseteq heap[obj[r]].members \cup {Entry(u, r, u)}
    BY MapMethods
  <2>5. g.pending = heap[obj[r]].pending /\ g.expenses = heap[obj[r]].expenses
        /\ g.members = m
    BY <2>1 DEF Group
  <2>6. Within(g, issued')
    BY <2>1, <2>3, <2>4, <2>5 DEF Within, AllWithin
  <2>7. Extends(issued, issued')
    BY <2>3 DEF Extends, Within
  <2>8. heap' = [heap EXCEPT ![obj[r]] = g] /\ UNCHANGED <<buf, dht>>
    BY <1>16 DEF Admit
  <2> HIDE DEF g
  <2> QED
    BY <2>1, <2>6, <2>7, <2>8, CopyWithin
\* Steps that change only the counters of a copy, or take entries away from it.
<1>e. ASSUME NEW q \in Proc, NEW g, heap' = [heap EXCEPT ![q] = g],
             UNCHANGED <<dht, issued, buf>>, Within(g, issued)
      PROVE  AllWithin'
  BY <1>a, <1>e, CopyWithin
<1>f. ASSUME NEW q \in Proc, NEW b, UNCHANGED <<dht, issued, buf>>,
             heap' = [heap EXCEPT ![q] = [heap[q] EXCEPT !.balances = b]]
      PROVE  AllWithin'
  <2> DEFINE g == [heap[q] EXCEPT !.balances = b]
  <2>1. heap[q] \in Group /\ Within(heap[q], issued)
    BY DEF TypeInv, TypeOK, AllWithin
  <2>2. Within(g, issued)
    BY <2>1 DEF Within, Group
  <2>3. heap' = [heap EXCEPT ![q] = g]
    BY <1>f
  <2> HIDE DEF g
  <2> QED
    BY <1>e, <1>f, <2>2, <2>3
<1>17. ASSUME NEW r \in Request, ResetBalances(r) PROVE AllWithin'
  <2>1. obj[r] \in Proc
    BY <1>17, CopyFacts DEF ResetBalances, Working, Proc
  <2> QED
    BY <1>17, <2>1, <1>f DEF ResetBalances
<1>18. ASSUME NEW r \in Request, DropRequest(r) PROVE AllWithin'
  <2> DEFINE m == OrMap!RemoveKey(heap[obj[r]].pending, call[r].subject)
             g == [heap[obj[r]] EXCEPT !.pending = m]
  <2>1. obj[r] \in Proc /\ heap[obj[r]] \in Group
    BY <1>18, CopyFacts DEF DropRequest, Working, Proc
  <2>2. m \subseteq heap[obj[r]].pending
    BY MapMethods
  <2>3. Within(g, issued)
    BY <2>1, <2>2 DEF Within, AllWithin, Group
  <2>4. heap' = [heap EXCEPT ![obj[r]] = g] /\ UNCHANGED <<buf, dht, issued>>
    BY <1>18 DEF DropRequest
  <2> HIDE DEF g
  <2> QED
    BY <2>1, <2>3, <2>4, <1>e
<1>19. ASSUME NEW r \in Request, ExpenseCheckPayer(r) PROVE AllWithin'
  BY <1>19, <1>c DEF ExpenseCheckPayer, TypeInv, TypeOK
<1>20. ASSUME NEW r \in Request, CheckParticipant(r) PROVE AllWithin'
  BY <1>20, <1>c DEF CheckParticipant, TypeInv, TypeOK
<1>21. ASSUME NEW r \in Request, LockShard(r) PROVE AllWithin'
  BY <1>21, <1>c DEF LockShard
<1>22. ASSUME NEW r \in Request, RecordExpense(r) PROVE AllWithin'
  <2> DEFINE c == call[r]
             m == OrMap!Put(heap[obj[r]].expenses, c.id, c, r)
             g == [heap[obj[r]] EXCEPT !.expenses = m]
  <2>1. obj[r] \in Proc /\ heap[obj[r]] \in Group
    BY <1>22, CopyFacts DEF RecordExpense, Working, Locked, Proc
  <2>2. issued' = [issued EXCEPT !.expenses = @ \cup {Entry(c.id, r, c)}]
        /\ issued \in Issued
    BY <1>22 DEF RecordExpense, TypeInv, TypeOK
  <2>3. /\ issued'.expenses = issued.expenses \cup {Entry(c.id, r, c)}
        /\ issued'.pending = issued.pending /\ issued'.members = issued.members
    BY <2>2 DEF Issued
  <2>4. m \subseteq heap[obj[r]].expenses \cup {Entry(c.id, r, c)}
    BY MapMethods
  <2>5. g.pending = heap[obj[r]].pending /\ g.members = heap[obj[r]].members
        /\ g.expenses = m
    BY <2>1 DEF Group
  <2>6. Within(g, issued')
    BY <2>1, <2>3, <2>4, <2>5 DEF Within, AllWithin
  <2>7. Extends(issued, issued')
    BY <2>3 DEF Extends, Within
  <2>8. heap' = [heap EXCEPT ![obj[r]] = g] /\ UNCHANGED <<buf, dht>>
    BY <1>22 DEF RecordExpense
  <2> HIDE DEF g
  <2> QED
    BY <2>1, <2>6, <2>7, <2>8, CopyWithin
<1>23. ASSUME NEW r \in Request, Charge(r) PROVE AllWithin'
  <2> DEFINE b == heap[obj[r]].balances
             f(d) == [b EXCEPT ![d] = OrZero(b[d])]
  <2>1. obj[r] \in Proc /\ call[r].user \in User
    BY <1>23, CopyFacts, HandlerFacts DEF Charge, Working, Locked, Proc
  <2>2. PICK d \in Pair :
          heap' = [heap EXCEPT ![obj[r]] =
                     [heap[obj[r]] EXCEPT !.balances = f(d)]]
    BY <1>23, <2>1 DEF Charge, Pair, TypeInv, TypeOK
  <2> HIDE DEF f
  <2> QED
    BY <1>23, <2>1, <2>2, <1>f DEF Charge
<1>24. ASSUME NEW r \in Request, Increment(r) PROVE AllWithin'
  <2>1. obj[r] \in Proc
    BY <1>24, CopyFacts DEF Increment, Working, Locked, Proc
  <2> QED
    BY <1>24, <2>1, <1>f DEF Increment
<1>25. ASSUME NEW r \in Request, Panic(r) PROVE AllWithin'
  BY <1>25, <1>c DEF Panic, TypeInv, TypeOK
<1>26. ASSUME NEW r \in Request, Charged(r) PROVE AllWithin'
  BY <1>26, <1>c DEF Charged
<1>27. ASSUME NEW r \in Request, Answer(r) PROVE AllWithin'
  BY <1>27, <1>c DEF Answer, TypeInv, TypeOK
<1>28. ASSUME NEW r \in Request, SyncGetFails(r) PROVE AllWithin'
  BY <1>28, <1>c DEF SyncGetFails, TypeInv, TypeOK
\* A step of the serialiser takes a field of the copy over.
<1>g. ASSUME NEW r \in Request, NEW g, buf' = [buf EXCEPT ![r] = g],
             UNCHANGED <<heap, dht, issued>>, Within(g, issued)
      PROVE  AllWithin'
  <2>1. \A q \in Proc : buf'[q] = buf[q] \/ buf'[q] = g
    BY <1>g DEF TypeInv, TypeOK
  <2> QED
    BY <1>g, <2>1 DEF AllWithin
<1>h. ASSUME NEW r \in Request, pc[r] \in Marshalling
      PROVE  /\ buf[r] \in Group /\ Within(buf[r], issued)
             /\ Copy(r) \in Group /\ Within(Copy(r), issued)
  BY <1>h, CopyFacts DEF Working, Proc, Copy, AllWithin, TypeInv, TypeOK
<1>29. ASSUME NEW r \in Request, MarshalMembers(r) PROVE AllWithin'
  <2> DEFINE g == [buf[r] EXCEPT !.members = Copy(r).members]
  <2>1. Within(g, issued)
    BY <1>29, <1>h DEF MarshalMembers, Marshalling, Within, Group
  <2>2. buf' = [buf EXCEPT ![r] = g]
    BY <1>29 DEF MarshalMembers
  <2> HIDE DEF g
  <2> QED
    BY <1>29, <1>g, <2>1, <2>2 DEF MarshalMembers, Marshal
<1>30. ASSUME NEW r \in Request, MarshalExpenses(r) PROVE AllWithin'
  <2> DEFINE g == [buf[r] EXCEPT !.expenses = Copy(r).expenses]
  <2>1. Within(g, issued)
    BY <1>30, <1>h DEF MarshalExpenses, Marshalling, Within, Group
  <2>2. buf' = [buf EXCEPT ![r] = g]
    BY <1>30 DEF MarshalExpenses
  <2> HIDE DEF g
  <2> QED
    BY <1>30, <1>g, <2>1, <2>2 DEF MarshalExpenses, Marshal
<1>31. ASSUME NEW r \in Request, MarshalBalances(r) PROVE AllWithin'
  <2> DEFINE g == [buf[r] EXCEPT !.balances = Copy(r).balances]
  <2>1. Within(g, issued)
    BY <1>31, <1>h DEF MarshalBalances, Marshalling, Within, Group
  <2>2. buf' = [buf EXCEPT ![r] = g]
    BY <1>31 DEF MarshalBalances
  <2> HIDE DEF g
  <2> QED
    BY <1>31, <1>g, <2>1, <2>2 DEF MarshalBalances, Marshal
<1>32. ASSUME NEW r \in Request, MarshalRest(r) PROVE AllWithin'
  <2> DEFINE g == [buf[r] EXCEPT !.keyTime = Copy(r).keyTime,
                                 !.pending = Copy(r).pending]
  <2>1. Within(g, issued)
    BY <1>32, <1>h DEF MarshalRest, Marshalling, Within, Group
  <2>2. buf' = [buf EXCEPT ![r] = g]
    BY <1>32 DEF MarshalRest
  <2> HIDE DEF g
  <2> QED
    BY <1>32, <1>g, <2>1, <2>2 DEF MarshalRest, Marshal
<1>33. ASSUME NEW r \in Request, PutValue(r) PROVE AllWithin'
  BY <1>33, <1>c DEF PutValue, TypeInv, TypeOK, Proc
<1>34. ASSUME NEW r \in Request, PutFails(r) PROVE AllWithin'
  BY <1>34, <1>c DEF PutFails, TypeInv, TypeOK, Proc
<1>35. ASSUME NEW p \in Proc, SyncGet(p) PROVE AllWithin'
  BY <1>35, <1>c DEF SyncGet, TypeInv, TypeOK
<1>36. ASSUME NEW p \in Proc, SyncCold(p) PROVE AllWithin'
  BY <1>36, <1>d DEF SyncCold
\* A merge of one map of the fetched group into the copy.
<1>37. ASSUME NEW p \in Proc, SyncMembers(p) PROVE AllWithin'
  <2> DEFINE c == cache[at[p]]
             m == OrMap!Merge(heap[c].members, buf[p].members)
             g == [heap[c] EXCEPT !.members = m]
  <2>1. c \in Proc
    <3>1. at[p] \in Node
      BY <1>37, HandlerFacts DEF SyncMembers, TypeInv, Pointers, Proc
    <3> QED
      BY <1>37, <3>1 DEF SyncMembers, TypeInv, TypeOK
  <2>2. heap[c] \in Group /\ Within(heap[c], issued) /\ Within(buf[p], issued)
    BY <2>1 DEF TypeInv, TypeOK, AllWithin
  <2>3. m \subseteq heap[c].members \cup buf[p].members
    BY MapMethods
  <2>4. Within(g, issued)
    BY <2>2, <2>3 DEF Within, Group
  <2>5. heap' = [heap EXCEPT ![c] = g] /\ UNCHANGED <<buf, dht, issued>>
    BY <1>37 DEF SyncMembers
  <2> HIDE DEF g, c
  <2> QED
    BY <2>1, <2>4, <2>5, <1>e
<1>i. ASSUME NEW p \in Proc, pc[p] \in Locked
      PROVE  /\ obj[p] \in Proc /\ heap[obj[p]] \in Group
             /\ Within(heap[obj[p]], issued) /\ Within(buf[p], issued)
  BY <1>i, CopyFacts DEF Working, AllWithin
<1>38. ASSUME NEW p \in Proc, SyncExpenses(p) PROVE AllWithin'
  <2> DEFINE m == OrMap!Merge(heap[obj[p]].expenses, buf[p].expenses)
             g == [heap[obj[p]] EXCEPT !.expenses = m]
  <2>1. m \subseteq heap[obj[p]].expenses \cup buf[p].expenses
    BY MapMethods
  <2>2. obj[p] \in Proc /\ Within(g, issued)
    BY <1>38, <1>i, <2>1 DEF SyncExpenses, Locked, Within, Group
  <2>3. heap' = [heap EXCEPT ![obj[p]] = g] /\ UNCHANGED <<buf, dht, issued>>
    BY <1>38 DEF SyncExpenses
  <2> HIDE DEF g
  <2> QED
    BY <2>2, <2>3, <1>e
<1>39. ASSUME NEW p \in Proc, SyncPending(p) PROVE AllWithin'
  <2> DEFINE m == OrMap!Merge(heap[obj[p]].pending, buf[p].pending)
             g == [heap[obj[p]] EXCEPT !.pending = m]
  <2>1. m \subseteq heap[obj[p]].pending \cup buf[p].pending
    BY MapMethods
  <2>2. obj[p] \in Proc /\ Within(g, issued)
    BY <1>39, <1>i, <2>1 DEF SyncPending, Locked, Within, Group
  <2>3. heap' = [heap EXCEPT ![obj[p]] = g] /\ UNCHANGED <<buf, dht, issued>>
    BY <1>39 DEF SyncPending
  <2> HIDE DEF g
  <2> QED
    BY <2>2, <2>3, <1>e
<1>40. ASSUME NEW p \in Proc, SyncCounter(p) PROVE AllWithin'
  <2>1. obj[p] \in Proc
    BY <1>40, <1>i DEF SyncCounter, Locked
  <2> DEFINE b == heap[obj[p]].balances
             f(d) == [b EXCEPT ![d] = OrZero(b[d])]
  <2>2. PICK d \in Pair :
          heap' = [heap EXCEPT ![obj[p]] =
                     [heap[obj[p]] EXCEPT !.balances = f(d)]]
    BY <1>40 DEF SyncCounter
  <2> HIDE DEF f
  <2> QED
    BY <1>40, <2>1, <2>2, <1>f DEF SyncCounter
<1>41. ASSUME NEW p \in Proc, MergeCounter(p) PROVE AllWithin'
  <2> DEFINE b == heap[obj[p]].balances
             d == owing[p]
             g == [heap[obj[p]] EXCEPT !.balances =
                     [b EXCEPT ![d] = PN!Merge(b[d], buf[p].balances[d])]]
             f == [buf[p] EXCEPT !.balances =
                     [buf[p].balances EXCEPT ![d] = None]]
  <2>1. obj[p] \in Proc /\ Within(g, issued) /\ Within(f, issued)
    BY <1>41, <1>i DEF MergeCounter, HasCounter, Locked, Within, Group,
       TypeInv, TypeOK
  <2>2. /\ heap' = [heap EXCEPT ![obj[p]] = g]
        /\ buf' = [buf EXCEPT ![p] = f] /\ UNCHANGED <<dht, issued>>
    BY <1>41 DEF MergeCounter, NextCounter
  <2> HIDE DEF g, f
  <2>3. \A q \in Proc : (heap'[q] = heap[q] \/ heap'[q] = g)
                        /\ (buf'[q] = buf[q] \/ buf'[q] = f)
    BY <2>1, <2>2 DEF TypeInv, TypeOK
  <2> QED
    BY <2>1, <2>2, <2>3 DEF AllWithin
<1>42. ASSUME NEW p \in Proc, EndSync(p) PROVE AllWithin'
  <2> DEFINE g == [heap[obj[p]] EXCEPT !.keyTime = PN!Max2(@, buf[p].keyTime)]
  <2>1. obj[p] \in Proc /\ Within(g, issued)
    BY <1>42, <1>i DEF EndSync, Locked, Within, Group
  <2>2. /\ heap' = [heap EXCEPT ![obj[p]] = g]
        /\ buf' = [buf EXCEPT ![p] = EmptyGroup] /\ UNCHANGED <<dht, issued>>
    BY <1>42 DEF EndSync
  <2> HIDE DEF g
  <2>3. \A q \in Proc : (heap'[q] = heap[q] \/ heap'[q] = g)
                        /\ (buf'[q] = buf[q] \/ buf'[q] = EmptyGroup)
    BY <2>1, <2>2 DEF TypeInv, TypeOK
  <2> QED
    BY <1>b, <2>1, <2>2, <2>3 DEF AllWithin
<1>43. ASSUME NEW n \in Node, DiscoverGet(n) PROVE AllWithin'
  BY <1>43, <1>c DEF DiscoverGet, Proc, TypeInv, TypeOK
<1>44. ASSUME NEW n \in Node, DiscoverCache(n) PROVE AllWithin'
  BY <1>44, <1>d DEF DiscoverCache, Proc
<1>45. ASSUME NEW n \in Node, Die(n) PROVE AllWithin'
  BY <1>45, <1>c DEF Die, TypeInv, TypeOK
<1>46. ASSUME NEW r \in Request, JoinStep(r) PROVE AllWithin'
  BY <1>46, <1>10, <1>11, <1>12 DEF JoinStep
<1>47. ASSUME NEW r \in Request, ApproveStep(r) PROVE AllWithin'
  BY <1>47, <1>13, <1>14, <1>15, <1>16, <1>17, <1>18 DEF ApproveStep
<1>48. ASSUME NEW r \in Request, ExpenseStep(r) PROVE AllWithin'
  BY <1>48, <1>19, <1>20, <1>21, <1>22, <1>23, <1>24, <1>26 DEF ExpenseStep
<1>49. ASSUME NEW r \in Request, MarshalStep(r) PROVE AllWithin'
  BY <1>49, <1>29, <1>30, <1>31, <1>32 DEF MarshalStep
<1>50. ASSUME NEW r \in Request, RequestStep(r) PROVE AllWithin'
  BY <1>50, <1>46, <1>47, <1>48, <1>49, <1>2, <1>3, <1>4, <1>5, <1>6, <1>7,
     <1>8, <1>25, <1>27, <1>28, <1>9, <1>33 DEF RequestStep
<1>51. ASSUME NEW p \in Proc, SyncStep(p) PROVE AllWithin'
  BY <1>51, <1>35, <1>36, <1>37, <1>38, <1>39, <1>40, <1>41, <1>42
  DEF SyncStep
<1> QED
  BY ConstantsAssumption, <1>0, <1>1, <1>50, <1>34, <1>51, <1>43, <1>44, <1>45
  DEF Next, DiscoverStep, Abort, Crash

\* Nothing is invented, in any instance: every entry of every copy, buffer and
\* of the DHT was put by a handler (SyncGroup, json.Marshal, JoinGroup,
\* ApproveJoin, AddExpense, CreateGroup).
THEOREM NothingEverInvented == Spec => []NothingInvented
<1>1. Init => TypeInv /\ AllWithin
  BY InitTypeInv, InitWithin
<1>2. TypeInv /\ AllWithin /\ [Next]_vars => (TypeInv /\ AllWithin)'
  BY StepTypeInv, StepWithin
<1>3. AllWithin => NothingInvented
  BY WithinIsNothingInvented
<1> QED
  BY <1>1, <1>2, <1>3, PTL DEF Spec

(***************************************************************************)
(* The ledger.  A handler's label tells what it has checked; the checks    *)
(* were made against copies, which hold only what was issued, and nothing  *)
(* issued is ever taken back.                                              *)
(***************************************************************************)
Admitted(i) == OrMap!Keys(i.members)
Asked(i)    == OrMap!Keys(i.pending)
Values(m)   == {e.val : e \in m}
Recorded(i) == Values(i.expenses)

\* What a handler at label l with call c, participants t and pair o knows of
\* the history i.
Claim(l, c, t, o, i) ==
  /\ l = "create" => c.op = "create_group"
  /\ l \in {"checkPending", "putRequest"} => c.op = "join_group"
  /\ l \in {"checkRequester", "findRequest", "admit"} =>
       c.op = "approve_join" /\ c.user \in Admitted(i)
  /\ l = "admit" => c.subject \in Asked(i)
  /\ l \in {"checkParticipants", "record"} =>
       c.op = "add_expense" /\ c.user \in Admitted(i)
  /\ l = "checkParticipants" => c.parts \ t \subseteq Admitted(i)
  /\ l = "record" => c.parts \subseteq Admitted(i)
  /\ l \in {"charge", "increment"} => c \in Recorded(i) /\ t \subseteq Debtors(c)
  /\ l = "increment" => \E u \in Debtors(c) : o = <<u, c.user>>

Claiming == {"create", "checkPending", "putRequest", "checkRequester",
             "findRequest", "admit", "checkParticipants", "record", "charge",
             "increment"}

\* Every handler knows what its label tells, and the tag of a member's entry
\* is a request that was received.
ClaimInv ==
  /\ \A r \in Request : Claim(pc[r], call[r], todo[r], owing[r], issued)
  /\ \A e \in issued.members : e.tag \in Request => pc[e.tag] # "idle"

\* Knowledge does not age.
LEMMA ClaimGrows ==
  ASSUME NEW l, NEW c, NEW t, NEW o, NEW i, NEW j,
         Claim(l, c, t, o, i), Extends(i, j)
  PROVE  Claim(l, c, t, o, j)
<1>1. /\ Admitted(i) \subseteq Admitted(j) /\ Asked(i) \subseteq Asked(j)
      /\ Recorded(i) \subseteq Recorded(j)
  BY DEF Extends, Within, Admitted, Asked, Recorded, Values, OrMap!Keys
<1> QED
  BY <1>1 DEF Claim

\* A label that tells nothing.
LEMMA NoClaim ==
  ASSUME NEW l, l \notin Claiming, NEW c, NEW t, NEW o, NEW i
  PROVE  Claim(l, c, t, o, i)
BY DEF Claim, Claiming

\* A step of one handler.
LEMMA OneClaims ==
  ASSUME ClaimInv, NEW r \in Request, UNCHANGED call, Extends(issued, issued'),
         \A q \in Request \ {r} : /\ pc'[q] = pc[q] /\ todo'[q] = todo[q]
                                  /\ owing'[q] = owing[q],
         pc'[r] # "idle", Claim(pc'[r], call[r], todo'[r], owing'[r], issued'),
         \A e \in issued'.members : e \in issued.members \/ e.tag = r
  PROVE  ClaimInv'
<1>1. \A q \in Request \ {r} : Claim(pc'[q], call[q], todo'[q], owing'[q], issued')
  BY ClaimGrows DEF ClaimInv
<1> QED
  BY <1>1 DEF ClaimInv

\* A step that leaves every handler where it is or at a label that tells
\* nothing.
LEMMA QuietClaims ==
  ASSUME ClaimInv, UNCHANGED <<call, issued>>,
         \A q \in Request :
           \/ pc'[q] = pc[q] /\ todo'[q] = todo[q] /\ owing'[q] = owing[q]
           \/ pc'[q] \notin Claiming \cup {"idle"}
  PROVE  ClaimInv'
<1>1. \A q \in Request : Claim(pc'[q], call[q], todo'[q], owing'[q], issued)
  BY NoClaim DEF ClaimInv
<1> QED
  BY <1>1 DEF ClaimInv

\* The members and the requesters of a copy were admitted and had asked.
LEMMA CopyTells ==
  ASSUME TypeInv, AllWithin, NEW p \in Proc, pc[p] \in Working, NEW u
  PROVE  /\ IsMember(p, u) => u \in Admitted(issued)
         /\ OrMap!Has(Copy(p).pending, u) => u \in Asked(issued)
<1>1. Within(Copy(p), issued)
  BY CopyFacts DEF Copy, AllWithin
<1> QED
  BY <1>1 DEF Within, IsMember, OrMap!Has, OrMap!Keys, Admitted, Asked

LEMMA InitClaims == Init => ClaimInv
<1> SUFFICES ASSUME Init PROVE ClaimInv
  OBVIOUS
<1>1. \A r \in Request : pc[r] \notin Claiming
  BY DEF Init, Claiming, Proc
<1>2. \A e \in issued.members : e.tag = Setup
  BY DEF Init, SetupEntries
<1> QED
  BY <1>1, <1>2, NoClaim, ConstantsAssumption DEF ClaimInv

\* Every step keeps what the handlers know.
LEMMA StepClaims ==
  TypeInv /\ AllWithin /\ ClaimInv /\ [Next]_vars => ClaimInv'
<1> SUFFICES ASSUME TypeInv, AllWithin, ClaimInv, [Next]_vars PROVE ClaimInv'
  OBVIOUS
<1> USE DEF Goto, Finish, Reject, Pass, shared, local, history
<1>0. CASE UNCHANGED vars
  BY <1>0 DEF vars, ClaimInv
<1>a. Extends(issued, issued)
  BY DEF Extends, Within
\* A process goes to a label that tells nothing.
<1>q. ASSUME NEW p \in Proc, NEW label, pc' = [pc EXCEPT ![p] = label],
             label \notin Claiming, p \in Request => label # "idle",
             \A q \in Request \ {p} : todo'[q] = todo[q] /\ owing'[q] = owing[q],
             UNCHANGED <<call, issued>>
      PROVE  ClaimInv'
  <2>1. \A q \in Request : q # p => pc'[q] = pc[q]
    BY <1>q DEF TypeInv, TypeOK, Proc
  <2>2. p \in Request => pc'[p] = label
    BY <1>q DEF TypeInv, TypeOK, Proc
  <2> QED
    BY <1>q, <2>1, <2>2, QuietClaims
\* A handler goes to a label that tells something.
<1>n. ASSUME NEW r \in Request, NEW label, pc' = [pc EXCEPT ![r] = label],
             label # "idle", UNCHANGED <<call, issued>>,
             \A q \in Request \ {r} : todo'[q] = todo[q] /\ owing'[q] = owing[q],
             Claim(label, call[r], todo'[r], owing'[r], issued)
      PROVE  ClaimInv'
  <2>1. \A q \in Request \ {r} : pc'[q] = pc[q]
    BY <1>n DEF TypeInv, TypeOK, Proc
  <2>2. pc'[r] = label
    BY <1>n DEF TypeInv, TypeOK, Proc
  <2> QED
    BY <1>a, <1>n, <2>1, <2>2, OneClaims
<1>f. ASSUME NEW r \in Request, NEW outcome \in Final, Finish(r, outcome),
             UNCHANGED <<call, issued>>
      PROVE  ClaimInv'
  BY <1>f, <1>q DEF Final, Claiming, Proc, TypeInv, TypeOK
<1>1. ASSUME NEW w \in Workload, Receive(w[1], w[2], w[3]) PROVE ClaimInv'
  <2> DEFINE r == w[1]
             c == w[3]
             l == Entrance(c.op)
  <2>1. r \in Request /\ c \in Call
    BY ConstantsAssumption
  <2>2. pc' = [pc EXCEPT ![r] = l] /\ call' = [call EXCEPT ![r] = c]
        /\ UNCHANGED <<todo, owing, issued>> /\ pc[r] = "idle"
    BY <1>1 DEF Receive
  <2>3. /\ l \in {"create", "syncGet", "lookup"}
        /\ l = "create" => c.op = "create_group"
    BY <2>1 DEF Entrance, Call, Op
  <2>4. pc'[r] = l /\ call'[r] = c
    BY <2>1, <2>2 DEF TypeInv, TypeOK, Proc
  <2>5. \A q \in Request \ {r} : pc'[q] = pc[q] /\ call'[q] = call[q]
    BY <2>1, <2>2 DEF TypeInv, TypeOK, Proc
  <2>6. \A t, o, i : Claim(l, c, t, o, i)
    BY <2>3 DEF Claim
  <2> HIDE DEF r, c, l
  <2>7. \A q \in Request : Claim(pc'[q], call'[q], todo'[q], owing'[q], issued')
    BY <2>2, <2>4, <2>5, <2>6 DEF ClaimInv
  <2>8. \A e \in issued.members : e.tag \in Request => pc'[e.tag] # "idle"
    BY <2>1, <2>3, <2>4, <2>5 DEF ClaimInv
  <2> QED
    BY <2>2, <2>7, <2>8 DEF ClaimInv
<1>2. ASSUME NEW r \in Request, Create(r) PROVE ClaimInv'
  <2>1. issued'.members = issued.members \cup {Entry(call[r].user, r, call[r].user)}
        /\ issued'.expenses = issued.expenses /\ issued'.pending = issued.pending
    BY <1>2 DEF Create, TypeInv, TypeOK, Issued
  <2>2. Extends(issued, issued')
    BY <2>1 DEF Extends, Within
  <2>3. Claim("marshalMembers", call[r], todo[r], owing[r], issued')
    BY NoClaim DEF Claiming
  <2>4. pc'[r] = "marshalMembers" /\ (\A q \in Request \ {r} : pc'[q] = pc[q])
        /\ UNCHANGED <<call, todo, owing>>
    BY <1>2 DEF Create, TypeInv, TypeOK, Proc
  <2>5. \A e \in issued'.members : e \in issued.members \/ e.tag = r
    BY <2>1 DEF Entry
  <2> QED
    BY <2>2, <2>3, <2>4, <2>5, OneClaims
<1>3. ASSUME NEW r \in Request, Register(r) PROVE ClaimInv'
  BY <1>3, <1>f DEF Register, Final
<1>4. ASSUME NEW r \in Request, Hit(r) PROVE ClaimInv'
  BY <1>4, <1>q DEF Hit, Claiming, Proc
<1>5. ASSUME NEW r \in Request, Miss(r) PROVE ClaimInv'
  BY <1>5, <1>q DEF Miss, Claiming, Proc
<1>6. ASSUME NEW r \in Request, Fetch(r) PROVE ClaimInv'
  BY <1>6, <1>q DEF Fetch, Claiming, Proc
<1>7. ASSUME NEW r \in Request, FetchFails(r) PROVE ClaimInv'
  BY <1>7, <1>f DEF FetchFails, Final
<1>8. ASSUME NEW r \in Request, CacheFetched(r) PROVE ClaimInv'
  BY <1>8, <1>q DEF CacheFetched, Claiming, Proc
<1>9. ASSUME NEW r \in Request, Recache(r) PROVE ClaimInv'
  BY <1>9, <1>q DEF Recache, Claiming, Proc
<1>10. ASSUME NEW r \in Request, JoinCheckMember(r) PROVE ClaimInv'
  <2>1. CASE Reject(r)
    BY <1>f, <2>1 DEF Final
  <2>2. CASE Pass(r, "checkPending")
    <3>1. Claim("checkPending", call[r], todo[r], owing[r], issued)
      BY <1>10 DEF JoinCheckMember, Claim
    <3> QED
      BY <1>n, <2>2, <3>1
  <2> QED
    BY <1>10, <2>1, <2>2 DEF JoinCheckMember
<1>11. ASSUME NEW r \in Request, JoinCheckPending(r) PROVE ClaimInv'
  <2>1. CASE Reject(r)
    BY <1>f, <2>1 DEF Final
  <2>2. CASE Pass(r, "putRequest")
    <3>1. Claim("putRequest", call[r], todo[r], owing[r], issued)
      BY <1>11 DEF JoinCheckPending, Claim, ClaimInv
    <3> QED
      BY <1>n, <2>2, <3>1
  <2> QED
    BY <1>11, <2>1, <2>2 DEF JoinCheckPending
<1>12. ASSUME NEW r \in Request, PutRequest(r) PROVE ClaimInv'
  <2>1. issued'.pending = issued.pending \cup {Entry(call[r].user, r, call[r].user)}
        /\ issued'.expenses = issued.expenses /\ issued'.members = issued.members
    BY <1>12 DEF PutRequest, TypeInv, TypeOK, Issued
  <2>2. Extends(issued, issued')
    BY <2>1 DEF Extends, Within
  <2>3. Claim("recache", call[r], todo[r], owing[r], issued')
    BY NoClaim DEF Claiming
  <2>4. pc'[r] = "recache" /\ (\A q \in Request \ {r} : pc'[q] = pc[q])
        /\ UNCHANGED <<call, todo, owing>>
    BY <1>12 DEF PutRequest, TypeInv, TypeOK, Proc
  <2> QED
    BY <2>1, <2>2, <2>3, <2>4, OneClaims
<1>13. ASSUME NEW r \in Request, ApproveCheckMember(r) PROVE ClaimInv'
  <2>1. CASE Reject(r)
    BY <1>f, <2>1 DEF Final
  <2>2. CASE Pass(r, "checkRequester") /\ IsMember(r, call[r].user)
    <3>1. call[r].user \in Admitted(issued)
      BY <1>13, <2>2, CopyTells DEF ApproveCheckMember, Working, Proc
    <3>2. Claim("checkRequester", call[r], todo[r], owing[r], issued)
      BY <1>13, <3>1 DEF ApproveCheckMember, Claim
    <3> QED
      BY <1>n, <2>2, <3>2
  <2> QED
    BY <1>13, <2>1, <2>2 DEF ApproveCheckMember
<1>14. ASSUME NEW r \in Request, ApproveCheckRequester(r) PROVE ClaimInv'
  <2>1. CASE Reject(r)
    BY <1>f, <2>1 DEF Final
  <2>2. CASE Pass(r, "findRequest")
    <3>1. Claim("findRequest", call[r], todo[r], owing[r], issued)
      BY <1>14 DEF ApproveCheckRequester, Claim, ClaimInv
    <3> QED
      BY <1>n, <2>2, <3>1
  <2> QED
    BY <1>14, <2>1, <2>2 DEF ApproveCheckRequester
<1>15. ASSUME NEW r \in Request, FindRequest(r) PROVE ClaimInv'
  <2>1. CASE Reject(r)
    BY <1>f, <2>1 DEF Final
  <2>2. CASE Pass(r, "admit") /\ OrMap!Has(Copy(r).pending, call[r].subject)
    <3>1. call[r].subject \in Asked(issued)
      BY <1>15, <2>2, CopyTells DEF FindRequest, Working, Proc
    <3>2. Claim("admit", call[r], todo[r], owing[r], issued)
      BY <1>15, <3>1 DEF FindRequest, Claim, ClaimInv
    <3> QED
      BY <1>n, <2>2, <3>2
  <2> QED
    BY <1>15, <2>1, <2>2 DEF FindRequest
<1>16. ASSUME NEW r \in Request, Admit(r) PROVE ClaimInv'
  <2>1. issued'.members = issued.members \cup {Entry(call[r].subject, r, call[r].subject)}
        /\ issued'.expenses = issued.expenses /\ issued'.pending = issued.pending
    BY <1>16 DEF Admit, TypeInv, TypeOK, Issued
  <2>2. Extends(issued, issued')
    BY <2>1 DEF Extends, Within
  <2>3. Claim("resetBalances", call[r], todo[r], owing[r], issued')
    BY NoClaim DEF Claiming
  <2>4. pc'[r] = "resetBalances" /\ (\A q \in Request \ {r} : pc'[q] = pc[q])
        /\ UNCHANGED <<call, todo, owing>>
    BY <1>16 DEF Admit, TypeInv, TypeOK, Proc
  <2>5. \A e \in issued'.members : e \in issued.members \/ e.tag = r
    BY <2>1 DEF Entry
  <2> QED
    BY <2>2, <2>3, <2>4, <2>5, OneClaims
<1>17. ASSUME NEW r \in Request, ResetBalances(r) PROVE ClaimInv'
  BY <1>17, <1>q DEF ResetBalances, Claiming, Proc
<1>18. ASSUME NEW r \in Request, DropRequest(r) PROVE ClaimInv'
  BY <1>18, <1>q DEF DropRequest, Claiming, Proc
<1>19. ASSUME NEW r \in Request, ExpenseCheckPayer(r) PROVE ClaimInv'
  <2>1. CASE Reject(r)
    BY <1>f, <2>1 DEF Final
  <2>2. CASE IsMember(r, call[r].user) /\ ~ Reject(r)
    <3>1. call[r].user \in Admitted(issued)
      BY <1>19, <2>2, CopyTells DEF ExpenseCheckPayer, Working, Proc
    <3>2. /\ pc' = [pc EXCEPT ![r] = "checkParticipants"]
          /\ todo' = [todo EXCEPT ![r] = call[r].parts]
          /\ UNCHANGED <<owing, call, issued>>
      BY <1>19, <2>2 DEF ExpenseCheckPayer
    <3>3. /\ todo'[r] = call[r].parts
          /\ \A q \in Request \ {r} : todo'[q] = todo[q]
      BY <3>2 DEF TypeInv, TypeOK
    <3>4. Claim("checkParticipants", call[r], todo'[r], owing'[r], issued)
      BY <1>19, <3>1, <3>3 DEF ExpenseCheckPayer, Claim
    <3> QED
      BY <1>n, <3>2, <3>3, <3>4
  <2> QED
    BY <1>19, <2>1, <2>2 DEF ExpenseCheckPayer
<1>20. ASSUME NEW r \in Request, CheckParticipant(r) PROVE ClaimInv'
  <2>1. CASE Reject(r)
    BY <1>f, <2>1 DEF Final
  <2>2. CASE ~ Reject(r)
    <3>1. PICK u \in todo[r] :
            /\ IsMember(r, u)
            /\ todo' = [todo EXCEPT ![r] = @ \ {u}]
            /\ UNCHANGED <<pc, owing, call, issued>>
      BY <1>20, <2>2 DEF CheckParticipant
    <3>2. u \in Admitted(issued)
      BY <1>20, <3>1, CopyTells DEF CheckParticipant, Working, Proc
    <3>3. /\ todo'[r] = todo[r] \ {u}
          /\ \A q \in Request \ {r} : todo'[q] = todo[q]
      BY <3>1 DEF TypeInv, TypeOK
    <3>4. Claim("checkParticipants", call[r], todo'[r], owing'[r], issued)
      BY <1>20, <3>1, <3>2, <3>3 DEF CheckParticipant, Claim, ClaimInv
    <3> QED
      BY <1>20, <1>a, <3>1, <3>3, <3>4, OneClaims DEF CheckParticipant
  <2> QED
    BY <2>1, <2>2
<1>21. ASSUME NEW r \in Request, LockShard(r) PROVE ClaimInv'
  <2>1. Claim("record", call[r], todo[r], owing[r], issued)
    BY <1>21 DEF LockShard, Claim, ClaimInv
  <2> QED
    BY <1>21, <1>n, <2>1 DEF LockShard
<1>22. ASSUME NEW r \in Request, RecordExpense(r) PROVE ClaimInv'
  <2>1. issued'.expenses = issued.expenses \cup {Entry(call[r].id, r, call[r])}
        /\ issued'.members = issued.members /\ issued'.pending = issued.pending
    BY <1>22 DEF RecordExpense, TypeInv, TypeOK, Issued
  <2>2. Extends(issued, issued')
    BY <2>1 DEF Extends, Within
  <2>3. todo'[r] = Debtors(call[r])
        /\ (\A q \in Request \ {r} : todo'[q] = todo[q])
    BY <1>22 DEF RecordExpense, TypeInv, TypeOK
  <2>4. call[r] \in Recorded(issued')
    BY <2>1 DEF Recorded, Values, Entry
  <2>5. Claim("charge", call[r], todo'[r], owing[r], issued')
    BY <2>3, <2>4 DEF Claim
  <2>6. pc'[r] = "charge" /\ (\A q \in Request \ {r} : pc'[q] = pc[q])
        /\ UNCHANGED <<call, owing>>
    BY <1>22 DEF RecordExpense, TypeInv, TypeOK, Proc
  <2> QED
    BY <2>1, <2>2, <2>3, <2>5, <2>6, OneClaims
<1>23. ASSUME NEW r \in Request, Charge(r) PROVE ClaimInv'
  <2>1. PICK u \in todo[r] : owing' = [owing EXCEPT ![r] = <<u, call[r].user>>]
    BY <1>23 DEF Charge
  <2>2. owing'[r] = <<u, call[r].user>>
        /\ (\A q \in Request \ {r} : owing'[q] = owing[q])
    BY <2>1 DEF TypeInv, TypeOK, Proc
  <2>3. Claim("charge", call[r], todo[r], owing[r], issued)
    BY <1>23 DEF Charge, ClaimInv
  <2>4. Claim("increment", call[r], todo[r], owing'[r], issued)
    BY <2>1, <2>2, <2>3 DEF Claim
  <2> QED
    BY <1>23, <1>n, <2>2, <2>4 DEF Charge
<1>24. ASSUME NEW r \in Request, Increment(r) PROVE ClaimInv'
  <2>1. Claim("increment", call[r], todo[r], owing[r], issued)
    BY <1>24 DEF Increment, ClaimInv
  <2>2. /\ todo'[r] \subseteq todo[r]
        /\ \A q \in Request \ {r} : todo'[q] = todo[q] /\ owing'[q] = owing[q]
    BY <1>24 DEF Increment, TypeInv, TypeOK, Proc
  <2>3. Claim("charge", call[r], todo'[r], owing'[r], issued)
    BY <2>1, <2>2 DEF Claim
  <2> QED
    BY <1>24, <1>n, <2>2, <2>3 DEF Increment
<1>25. ASSUME NEW r \in Request, Panic(r) PROVE ClaimInv'
  BY <1>25, <1>f DEF Panic, Final
<1>26. ASSUME NEW r \in Request, Charged(r) PROVE ClaimInv'
  BY <1>26, <1>q DEF Charged, Claiming, Proc
<1>27. ASSUME NEW r \in Request, Answer(r) PROVE ClaimInv'
  BY <1>27, <1>f DEF Answer, Final
<1>28. ASSUME NEW r \in Request, SyncGetFails(r) PROVE ClaimInv'
  BY <1>28, <1>f DEF SyncGetFails, Final
<1>29. ASSUME NEW r \in Request, MarshalStep(r) PROVE ClaimInv'
  BY <1>29, <1>q DEF MarshalStep, MarshalMembers, MarshalExpenses,
     MarshalBalances, MarshalRest, Marshal, Claiming, Proc
<1>33. ASSUME NEW r \in Request, PutValue(r) PROVE ClaimInv'
  <2>1. CASE call[r].op = "create_group"
    BY <1>33, <1>q, <2>1 DEF PutValue, Claiming, Proc
  <2>2. CASE call[r].op # "create_group"
    BY <1>33, <1>f, <2>2 DEF PutValue, Final
  <2> QED
    BY <2>1, <2>2
<1>34. ASSUME NEW r \in Request, PutFails(r) PROVE ClaimInv'
  BY <1>34, <1>f DEF PutFails, Final
<1>35. ASSUME NEW p \in Proc, SyncGet(p) PROVE ClaimInv'
  BY <1>35, <1>q DEF SyncGet, Claiming
<1>s. ASSUME NEW p \in Proc
      PROVE  AfterSync(p) \notin Claiming /\ (p \in Request => AfterSync(p) # "idle")
  BY ConstantsAssumption DEF AfterSync, Claiming
<1>36. ASSUME NEW p \in Proc, SyncCold(p) PROVE ClaimInv'
  BY <1>36, <1>q, <1>s DEF SyncCold
<1>37. ASSUME NEW p \in Proc, SyncMembers(p) PROVE ClaimInv'
  BY <1>37, <1>q DEF SyncMembers, Claiming
<1>38. ASSUME NEW p \in Proc, SyncExpenses(p) PROVE ClaimInv'
  BY <1>38, <1>q DEF SyncExpenses, Claiming
<1>39. ASSUME NEW p \in Proc, SyncPending(p) PROVE ClaimInv'
  BY <1>39, <1>q DEF SyncPending, Claiming
<1>40. ASSUME NEW p \in Proc, SyncCounter(p) PROVE ClaimInv'
  <2>1. \A q \in Request \ {p} : owing'[q] = owing[q]
    BY <1>40 DEF SyncCounter, TypeInv, TypeOK, Proc
  <2> QED
    BY <1>40, <2>1, <1>q DEF SyncCounter, Claiming
<1>41. ASSUME NEW p \in Proc, MergeCounter(p) PROVE ClaimInv'
  <2>1. \A q \in Request \ {p} : owing'[q] = owing[q]
    BY <1>41 DEF MergeCounter, NextCounter, TypeInv, TypeOK, Proc
  <2> QED
    BY <1>41, <2>1, <1>q DEF MergeCounter, NextCounter, Claiming
<1>42. ASSUME NEW p \in Proc, EndSync(p) PROVE ClaimInv'
  BY <1>42, <1>q, <1>s DEF EndSync
<1>43. ASSUME NEW n \in Node, DiscoverStep(n) PROVE ClaimInv'
  BY <1>43, <1>q, ConstantsAssumption
  DEF DiscoverStep, DiscoverGet, DiscoverCache, Claiming, Proc
<1>45. ASSUME NEW n \in Node, Die(n) PROVE ClaimInv'
  <2>1. \A q \in Request : pc'[q] = pc[q] \/ pc'[q] = "dead"
    BY <1>45 DEF Die, Proc
  <2> QED
    BY <1>45, <2>1, QuietClaims DEF Die, Claiming
<1>46. ASSUME NEW r \in Request, JoinStep(r) PROVE ClaimInv'
  BY <1>46, <1>10, <1>11, <1>12 DEF JoinStep
<1>47. ASSUME NEW r \in Request, ApproveStep(r) PROVE ClaimInv'
  BY <1>47, <1>13, <1>14, <1>15, <1>16, <1>17, <1>18 DEF ApproveStep
<1>48. ASSUME NEW r \in Request, ExpenseStep(r) PROVE ClaimInv'
  BY <1>48, <1>19, <1>20, <1>21, <1>22, <1>23, <1>24, <1>26 DEF ExpenseStep
<1>50. ASSUME NEW r \in Request, RequestStep(r) PROVE ClaimInv'
  BY <1>50, <1>46, <1>47, <1>48, <1>29, <1>2, <1>3, <1>4, <1>5, <1>6, <1>7,
     <1>8, <1>25, <1>27, <1>28, <1>9, <1>33 DEF RequestStep
<1>51. ASSUME NEW p \in Proc, SyncStep(p) PROVE ClaimInv'
  BY <1>51, <1>35, <1>36, <1>37, <1>38, <1>39, <1>40, <1>41, <1>42
  DEF SyncStep
<1> QED
  BY ConstantsAssumption, <1>0, <1>1, <1>50, <1>34, <1>51, <1>43, <1>45
  DEF Next, Abort, Crash

(***************************************************************************)
(* The refinement.                                                         *)
(***************************************************************************)
\* The tags of admitting entries, other than the setup's, are requests.
Admitters == {e.tag : e \in issued.members} \ {Setup}

Approvals == {c \in Admissions : c.op = "approve_join"}

LEMMA AdmittersAreRequests == TypeInv => Admitters \subseteq Request
BY DEF TypeInv, TypeOK, Issued, Tag, Admitters

\* The ledger the initial states show is the initial ledger.
LEMMA LedgerInit == Init => Ledger!Init
<1> SUFFICES ASSUME Init PROVE Ledger!Init
  OBVIOUS
<1>1. issued.members = SetupEntries(Founders) /\ issued.expenses = {}
      /\ issued.pending = SetupEntries(Waiting)
  BY DEF Init, OrMap!NewORMap
<1>2. OrMap!Keys(issued.members) = Founders /\ OrMap!Keys(issued.pending) = Waiting
  <2>1. ASSUME NEW S PROVE OrMap!Keys(SetupEntries(S)) = S
    <3>1. \A u : [key |-> u, tag |-> Setup, val |-> u].key = u
      OBVIOUS
    <3>2. OrMap!Keys(SetupEntries(S)) = {[key |-> u, tag |-> Setup, val |-> u].key : u \in S}
      BY DEF SetupEntries, OrMap!Keys
    <3> QED
      BY <3>1, <3>2
  <2> QED
    BY <1>1, <2>1
<1>3. Admissions = {}
  BY <1>1 DEF Admissions, SetupEntries
<1>4. charged = [d \in Ledger!Pair |-> [n \in Node |-> 0]]
  BY DEF Init, Pair, Ledger!Pair
<1> QED
  BY <1>1, <1>2, <1>3, <1>4 DEF Ledger!Init

\* A step that issues and charges nothing leaves the ledger alone.
LEMMA LedgerStutters ==
  ASSUME UNCHANGED <<issued, charged, call>>
  PROVE  UNCHANGED Ledger!vars
BY DEF Ledger!vars, Admissions

\* A new entry adds its key and its value.
LEMMA EntryAdds ==
  ASSUME NEW m, NEW k, NEW t, NEW v
  PROVE  /\ OrMap!Keys(m \cup {Entry(k, t, v)}) = OrMap!Keys(m) \cup {k}
         /\ Values(m \cup {Entry(k, t, v)}) = Values(m) \cup {v}
<1>1. Entry(k, t, v).key = k /\ Entry(k, t, v).val = v
  BY DEF Entry
<1> QED
  BY <1>1 DEF OrMap!Keys, Values

\* An admission adds its call to the admissions, and nothing else.
LEMMA AdmissionAdds ==
  ASSUME TypeInv, NEW r \in Request, NEW u, UNCHANGED call,
         issued'.members = issued.members \cup {Entry(u, r, u)}
  PROVE  /\ Admissions' = Admissions \cup {call[r]}
         /\ OrMap!Keys(issued.members)' = OrMap!Keys(issued.members) \cup {u}
<1>1. Entry(u, r, u).tag = r /\ Entry(u, r, u).key = u
  BY DEF Entry
<1>2. r # Setup
  BY ConstantsAssumption
<1>3. {e.tag : e \in issued.members}' \ {Setup} = ({e.tag : e \in issued.members} \ {Setup}) \cup {r}
  BY <1>1, <1>2
<1>4. Admissions' = Admissions \cup {call[r]}
  BY <1>3 DEF Admissions
<1> QED
  BY <1>1, <1>4 DEF OrMap!Keys

\* Every step is a step of the ledger or leaves it alone.
LEMMA StepLedger ==
  TypeInv /\ AllWithin /\ ClaimInv /\ [Next]_vars => [Ledger!Next]_(Ledger!vars)
<1> SUFFICES ASSUME TypeInv, AllWithin, ClaimInv, [Next]_vars
             PROVE  Ledger!Next \/ UNCHANGED Ledger!vars
  OBVIOUS
<1> USE DEF Finish, Reject, Pass, shared, local, history
<1>c. ASSUME NEW r \in Request, pc[r] \notin {"idle", "dead"}
      PROVE  call[r] \in Calls /\ at[r] \in Node
  BY <1>c, HandlerFacts
<1>0. CASE UNCHANGED vars
  BY <1>0, LedgerStutters DEF vars
<1>1. ASSUME NEW w \in Workload, Receive(w[1], w[2], w[3])
      PROVE  UNCHANGED Ledger!vars
  <2>1. UNCHANGED <<issued, charged>> /\ pc[w[1]] = "idle"
        /\ call' = [call EXCEPT ![w[1]] = w[3]]
    BY <1>1 DEF Receive
  <2>2. \A t \in Admitters : call'[t] = call[t]
    BY <2>1, AdmittersAreRequests DEF Admitters, ClaimInv, TypeInv, TypeOK
  <2>3. Admissions' = Admissions
    BY <2>1, <2>2 DEF Admissions, Admitters
  <2> QED
    BY <2>1, <2>3 DEF Ledger!vars
<1>2. ASSUME NEW r \in Request, Create(r) PROVE Ledger!Next
  <2> DEFINE c == call[r]
  <2>1. issued'.members = issued.members \cup {Entry(c.user, r, c.user)}
        /\ issued'.expenses = issued.expenses /\ issued'.pending = issued.pending
        /\ UNCHANGED <<charged, call>>
    BY <1>2 DEF Create, TypeInv, TypeOK, Issued
  <2>2. c \in Calls /\ c.op = "create_group"
    BY <1>2, <1>c DEF Create, ClaimInv, Claim
  <2>3. Approvals' = Approvals
    BY <2>1, <2>2, AdmissionAdds DEF Approvals
  <2>4. Ledger!Found(c.user)
    BY <2>1, <2>3, AdmissionAdds DEF Ledger!Found, Approvals
  <2> HIDE DEF c
  <2> QED
    BY <2>2, <2>4 DEF Ledger!Next
<1>3. ASSUME NEW r \in Request, PutRequest(r) PROVE Ledger!Next
  <2> DEFINE c == call[r]
  <2>1. issued'.pending = issued.pending \cup {Entry(c.user, r, c.user)}
        /\ issued'.expenses = issued.expenses /\ issued'.members = issued.members
        /\ UNCHANGED <<charged, call>>
    BY <1>3 DEF PutRequest, TypeInv, TypeOK, Issued
  <2>2. c \in Calls /\ c.op = "join_group"
    BY <1>3, <1>c DEF PutRequest, ClaimInv, Claim
  <2>3. OrMap!Keys(issued.pending)' = OrMap!Keys(issued.pending) \cup {c.user}
    <3>1. OrMap!Keys(issued.pending \cup {Entry(c.user, r, c.user)})
          = OrMap!Keys(issued.pending) \cup {c.user}
      BY EntryAdds
    <3> QED
      BY <2>1, <3>1
  <2>4. Admissions' = Admissions
    BY <2>1 DEF Admissions
  <2>5. Ledger!Ask(c.user)
    BY <2>1, <2>3, <2>4 DEF Ledger!Ask
  <2> HIDE DEF c
  <2> QED
    BY <2>2, <2>5 DEF Ledger!Next
<1>4. ASSUME NEW r \in Request, Admit(r) PROVE Ledger!Next
  <2>0. PICK c \in Calls : c = call[r]
    BY <1>4, <1>c DEF Admit
  <2>1. issued'.members = issued.members \cup {Entry(c.subject, r, c.subject)}
        /\ issued'.expenses = issued.expenses /\ issued'.pending = issued.pending
        /\ UNCHANGED <<charged, call>>
    BY <1>4, <2>0 DEF Admit, TypeInv, TypeOK, Issued
  <2>2. /\ c.op = "approve_join"
        /\ c.user \in OrMap!Keys(issued.members)
        /\ c.subject \in OrMap!Keys(issued.pending)
    BY <1>4, <2>0 DEF Admit, ClaimInv, Claim, Admitted, Asked
  <2>3. Approvals' = Approvals \cup {c}
    BY <2>0, <2>1, <2>2, AdmissionAdds DEF Approvals
  <2>4. Ledger!Admit(c)
    BY <2>1, <2>2, <2>3, AdmissionAdds DEF Ledger!Admit, Approvals
  <2> QED
    BY <2>2, <2>4 DEF Ledger!Next
<1>5. ASSUME NEW r \in Request, RecordExpense(r) PROVE Ledger!Next
  <2>0. PICK c \in Calls : c = call[r]
    BY <1>5, <1>c DEF RecordExpense
  <2>1. issued'.expenses = issued.expenses \cup {Entry(c.id, r, c)}
        /\ issued'.members = issued.members /\ issued'.pending = issued.pending
        /\ UNCHANGED <<charged, call>>
    BY <1>5, <2>0 DEF RecordExpense, TypeInv, TypeOK, Issued
  <2>2. /\ c.op = "add_expense"
        /\ c.user \in OrMap!Keys(issued.members)
        /\ c.parts \subseteq OrMap!Keys(issued.members)
    BY <1>5, <2>0 DEF RecordExpense, ClaimInv, Claim, Admitted
  <2>3. Recorded(issued)' = Recorded(issued) \cup {c}
    <3>1. Values(issued.expenses \cup {Entry(c.id, r, c)})
          = Values(issued.expenses) \cup {c}
      BY EntryAdds
    <3> QED
      BY <2>1, <3>1 DEF Recorded
  <2>4. Admissions' = Admissions
    BY <2>1 DEF Admissions
  <2>5. Ledger!Record(c)
    BY <2>1, <2>2, <2>3, <2>4 DEF Ledger!Record, Recorded, Values
  <2> QED
    BY <2>2, <2>5 DEF Ledger!Next
<1>6. ASSUME NEW r \in Request, Increment(r) PROVE Ledger!Next
  <2> DEFINE c == call[r]
  <2>1. /\ UNCHANGED <<issued, call>>
        /\ charged' = [charged EXCEPT ![owing[r]][at[r]] = @ + c.share]
    BY <1>6 DEF Increment
  <2>2. c \in Calls /\ at[r] \in Node /\ c \in Recorded(issued)
    BY <1>6, <1>c DEF Increment, ClaimInv, Claim
  <2>3. PICK u \in Debtors(c) : owing[r] = <<u, c.user>>
    BY <1>6 DEF Increment, ClaimInv, Claim
  <2>4. u \in User /\ u \in c.parts \ {c.user}
    BY <1>6, HandlerFacts, <2>3 DEF Increment, Debtors
  <2>5. Admissions' = Admissions
    BY <2>1 DEF Admissions
  <2>6. Ledger!Charge(at[r], c, u)
    BY <2>1, <2>2, <2>3, <2>4, <2>5 DEF Ledger!Charge, Recorded, Values
  <2> QED
    BY <2>2, <2>4, <2>6 DEF Ledger!Next
<1>7. ASSUME NEW r \in Request, JoinStep(r)
      PROVE  Ledger!Next \/ UNCHANGED Ledger!vars
  BY <1>3, <1>7, LedgerStutters DEF JoinStep, JoinCheckMember, JoinCheckPending
<1>8. ASSUME NEW r \in Request, ApproveStep(r)
      PROVE  Ledger!Next \/ UNCHANGED Ledger!vars
  BY <1>4, <1>8, LedgerStutters
  DEF ApproveStep, ApproveCheckMember, ApproveCheckRequester, FindRequest,
      ResetBalances, DropRequest
<1>9. ASSUME NEW r \in Request, ExpenseStep(r)
      PROVE  Ledger!Next \/ UNCHANGED Ledger!vars
  BY <1>5, <1>6, <1>9, LedgerStutters
  DEF ExpenseStep, ExpenseCheckPayer, CheckParticipant, LockShard, Charge,
      Charged
<1>10. ASSUME NEW r \in Request, MarshalStep(r) PROVE UNCHANGED Ledger!vars
  BY <1>10, LedgerStutters
  DEF MarshalStep, MarshalMembers, MarshalExpenses, MarshalBalances,
      MarshalRest, Marshal
<1>11. ASSUME NEW r \in Request, RequestStep(r)
       PROVE  Ledger!Next \/ UNCHANGED Ledger!vars
  BY <1>2, <1>7, <1>8, <1>9, <1>10, <1>11, LedgerStutters
  DEF RequestStep, Register, Hit, Miss, Fetch, FetchFails, CacheFetched,
      Answer, SyncGetFails, Panic, Recache, PutValue
<1>12. ASSUME NEW r \in Request, PutFails(r) PROVE UNCHANGED Ledger!vars
  BY <1>12, LedgerStutters DEF PutFails
<1>13. ASSUME NEW p \in Proc, SyncStep(p) PROVE UNCHANGED Ledger!vars
  BY <1>13, LedgerStutters
  DEF SyncStep, SyncGet, SyncCold, SyncMembers, SyncExpenses, SyncPending,
      SyncCounter, MergeCounter, NextCounter, EndSync
<1>14. ASSUME NEW n \in Node, DiscoverStep(n) \/ Die(n) PROVE UNCHANGED Ledger!vars
  BY <1>14, LedgerStutters DEF DiscoverStep, DiscoverGet, DiscoverCache, Die
<1> QED
  BY ConstantsAssumption, <1>0, <1>1, <1>11, <1>12, <1>13, <1>14
  DEF Next, Abort, Crash

\* The nodes implement the ledger, in any instance: whoever is admitted,
\* recorded or charged was approved by members, asked, and shares a recorded
\* expense, however stale the copies that ApproveJoin and AddExpense checked.
THEOREM NodesImplementLedger == Spec => ImplementsLedger
<1>1. Init => TypeInv /\ AllWithin /\ ClaimInv /\ Ledger!Init
  BY InitTypeInv, InitWithin, InitClaims, LedgerInit
<1>2. TypeInv /\ AllWithin /\ ClaimInv /\ [Next]_vars
      => (TypeInv /\ AllWithin /\ ClaimInv)' /\ [Ledger!Next]_(Ledger!vars)
  BY StepTypeInv, StepWithin, StepClaims, StepLedger
<1> QED
  BY <1>1, <1>2, PTL DEF Spec, ImplementsLedger, Ledger!Spec
=============================================================================
