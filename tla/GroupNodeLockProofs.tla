------------------------ MODULE GroupNodeLockProofs ------------------------
(***************************************************************************)
(* The shard lock is held by exactly those in a critical section, debts    *)
(* are forgiven by approvals alone, and a node keeps the debts it charged, *)
(* in any instance of GroupNode.                                           *)
(***************************************************************************)
EXTENDS GroupNodeDebtProofs

(***************************************************************************)
(* Labels: which handler passes through which of them.                     *)
(***************************************************************************)
Syncs == {"syncMembers", "syncExpenses", "syncPending", "syncBalances",
          "mergeCounter"}

Charges == {"checkParticipants", "record", "charge", "increment"}

Approves == {"checkRequester", "findRequest", "admit", "resetBalances",
             "dropRequest"}

LabelInv ==
  /\ \A r \in Request :
       /\ pc[r] = "idle" => at[r] = None /\ call[r] = None
       /\ pc[r] = "create" => call[r].op = "create_group"
       /\ pc[r] \in Charges => call[r].op = "add_expense"
       /\ pc[r] \in Approves => call[r].op = "approve_join"
       /\ pc[r] \in Syncs \cup {"syncGet"} => call[r].op = "get_pending_joins"
       /\ pc[r] \in {"checkPending", "putRequest"} => call[r].op = "join_group"
       /\ pc[r] = "recache" => call[r].op \in {"join_group", "approve_join"}
  /\ \A n \in Node : pc[n] \in {"idle", "discoverCache", "dead"} \cup Syncs

\* The labels are right before anything has happened ...
LEMMA InitLabels == Init => LabelInv
BY ConstantsAssumption DEF Init, LabelInv, Proc, Syncs, Charges, Approves

\* ... and after every step.
LEMMA StepLabels == TypeInv /\ LabelInv /\ [Next]_vars => LabelInv'
<1> SUFFICES ASSUME TypeInv, LabelInv, [Next]_vars PROVE LabelInv'
  OBVIOUS
<1> USE ConstantsAssumption
    DEF TypeInv, TypeOK, LabelInv, Goto, Finish, Reject, Pass, shared, local,
        history, Proc, Final, Syncs, Charges, Approves
<1>0. CASE UNCHANGED vars
  BY <1>0 DEF vars
<1>1. ASSUME NEW w \in Workload, Receive(w[1], w[2], w[3]) PROVE LabelInv'
  <2>1. w[1] \in Request /\ w[2] \in Node /\ w[3] \in Call
    BY DEF Calls
  <2>2. Entrance(w[3].op) \in {"create", "syncGet", "lookup"}
        /\ (Entrance(w[3].op) = "create" => w[3].op = "create_group")
        /\ (Entrance(w[3].op) = "syncGet" => w[3].op = "get_pending_joins")
    BY DEF Entrance
  <2> QED BY <1>1, <2>1, <2>2 DEF Receive
<1>2. ASSUME NEW r \in Request, Create(r) PROVE LabelInv'
  BY <1>2 DEF Create
<1>3. ASSUME NEW r \in Request, Register(r) PROVE LabelInv'
  BY <1>3 DEF Register
<1>4. ASSUME NEW r \in Request, Hit(r) PROVE LabelInv'
  BY <1>4 DEF Hit
<1>5. ASSUME NEW r \in Request, Miss(r) PROVE LabelInv'
  BY <1>5 DEF Miss
<1>6. ASSUME NEW r \in Request, Fetch(r) PROVE LabelInv'
  BY <1>6 DEF Fetch
<1>7. ASSUME NEW r \in Request, FetchFails(r) PROVE LabelInv'
  BY <1>7 DEF FetchFails
<1>8. ASSUME NEW r \in Request, CacheFetched(r) PROVE LabelInv'
  BY <1>8 DEF CacheFetched
<1>9. ASSUME NEW r \in Request, Recache(r) PROVE LabelInv'
  BY <1>9 DEF Recache
<1>10. ASSUME NEW r \in Request, JoinCheckMember(r) PROVE LabelInv'
  BY <1>10 DEF JoinCheckMember
<1>11. ASSUME NEW r \in Request, JoinCheckPending(r) PROVE LabelInv'
  BY <1>11 DEF JoinCheckPending
<1>12. ASSUME NEW r \in Request, PutRequest(r) PROVE LabelInv'
  BY <1>12 DEF PutRequest
<1>13. ASSUME NEW r \in Request, ApproveCheckMember(r) PROVE LabelInv'
  <2>1. CASE IsMember(r, call[r].user)
    BY SMTT(20), <1>13, <2>1 DEF ApproveCheckMember
  <2>2. CASE ~ IsMember(r, call[r].user)
    BY SMTT(20), <1>13, <2>2 DEF ApproveCheckMember
  <2> QED BY <2>1, <2>2
<1>14. ASSUME NEW r \in Request, ApproveCheckRequester(r) PROVE LabelInv'
  BY <1>14 DEF ApproveCheckRequester
<1>15. ASSUME NEW r \in Request, FindRequest(r) PROVE LabelInv'
  BY <1>15 DEF FindRequest
<1>16. ASSUME NEW r \in Request, Admit(r) PROVE LabelInv'
  BY <1>16 DEF Admit
<1>17. ASSUME NEW r \in Request, ResetBalances(r) PROVE LabelInv'
  BY <1>17 DEF ResetBalances
<1>18. ASSUME NEW r \in Request, DropRequest(r) PROVE LabelInv'
  BY <1>18 DEF DropRequest
<1>19. ASSUME NEW r \in Request, ExpenseCheckPayer(r) PROVE LabelInv'
  <2>1. CASE IsMember(r, call[r].user)
    BY <1>19, <2>1 DEF ExpenseCheckPayer
  <2>2. CASE ~ IsMember(r, call[r].user)
    BY <1>19, <2>2 DEF ExpenseCheckPayer
  <2> QED BY <2>1, <2>2
<1>20. ASSUME NEW r \in Request, CheckParticipant(r) PROVE LabelInv'
  BY <1>20 DEF CheckParticipant
<1>21. ASSUME NEW r \in Request, LockShard(r) PROVE LabelInv'
  BY <1>21 DEF LockShard
<1>22. ASSUME NEW r \in Request, RecordExpense(r) PROVE LabelInv'
  BY <1>22 DEF RecordExpense
<1>23. ASSUME NEW r \in Request, Charge(r) PROVE LabelInv'
  BY <1>23 DEF Charge
<1>24. ASSUME NEW r \in Request, Increment(r) PROVE LabelInv'
  BY <1>24 DEF Increment
<1>25. ASSUME NEW r \in Request, Panic(r) PROVE LabelInv'
  BY <1>25 DEF Panic
<1>26. ASSUME NEW r \in Request, Charged(r) PROVE LabelInv'
  BY <1>26 DEF Charged
<1>27. ASSUME NEW r \in Request, Answer(r) PROVE LabelInv'
  BY <1>27 DEF Answer
<1>28. ASSUME NEW r \in Request, SyncGetFails(r) PROVE LabelInv'
  BY <1>28 DEF SyncGetFails
<1>29. ASSUME NEW r \in Request, MarshalMembers(r) PROVE LabelInv'
  BY <1>29 DEF MarshalMembers, Marshal
<1>30. ASSUME NEW r \in Request, MarshalExpenses(r) PROVE LabelInv'
  BY <1>30 DEF MarshalExpenses, Marshal
<1>31. ASSUME NEW r \in Request, MarshalBalances(r) PROVE LabelInv'
  BY <1>31 DEF MarshalBalances, Marshal
<1>32. ASSUME NEW r \in Request, MarshalRest(r) PROVE LabelInv'
  BY <1>32 DEF MarshalRest, Marshal
<1>33. ASSUME NEW r \in Request, PutValue(r) PROVE LabelInv'
  BY <1>33 DEF PutValue
<1>34. ASSUME NEW r \in Request, PutFails(r) PROVE LabelInv'
  BY <1>34 DEF PutFails
<1>35. ASSUME NEW p \in Proc, SyncGet(p) PROVE LabelInv'
  BY <1>35 DEF SyncGet, Syncing
<1>36. ASSUME NEW p \in Proc, SyncCold(p) PROVE LabelInv'
  BY <1>36 DEF SyncCold, AfterSync
<1>37. ASSUME NEW p \in Proc, SyncMembers(p) PROVE LabelInv'
  BY <1>37 DEF SyncMembers
<1>38. ASSUME NEW p \in Proc, SyncExpenses(p) PROVE LabelInv'
  BY <1>38 DEF SyncExpenses
<1>39. ASSUME NEW p \in Proc, SyncPending(p) PROVE LabelInv'
  BY <1>39 DEF SyncPending
<1>40. ASSUME NEW p \in Proc, SyncCounter(p) PROVE LabelInv'
  BY <1>40 DEF SyncCounter
<1>41. ASSUME NEW p \in Proc, MergeCounter(p) PROVE LabelInv'
  BY <1>41 DEF MergeCounter, HasCounter, NextCounter
<1>42. ASSUME NEW p \in Proc, EndSync(p) PROVE LabelInv'
  BY <1>42 DEF EndSync, AfterSync
<1>43. ASSUME NEW n \in Node, DiscoverGet(n) PROVE LabelInv'
  BY <1>43 DEF DiscoverGet
<1>44. ASSUME NEW n \in Node, DiscoverCache(n) PROVE LabelInv'
  BY <1>44 DEF DiscoverCache
<1>45. ASSUME NEW n \in Node, Die(n) PROVE LabelInv'
  BY <1>45 DEF Die
<1>46. ASSUME NEW r \in Request, JoinStep(r) PROVE LabelInv'
  BY <1>46, <1>10, <1>11, <1>12
  DEF JoinStep
<1>47. ASSUME NEW r \in Request, ApproveStep(r) PROVE LabelInv'
  BY <1>47, <1>13, <1>14, <1>15, <1>16, <1>17, <1>18
  DEF ApproveStep
<1>48. ASSUME NEW r \in Request, ExpenseStep(r) PROVE LabelInv'
  BY <1>48, <1>19, <1>20, <1>21, <1>22, <1>23, <1>24, <1>26
  DEF ExpenseStep
<1>49. ASSUME NEW r \in Request, MarshalStep(r) PROVE LabelInv'
  BY <1>49, <1>29, <1>30, <1>31, <1>32
  DEF MarshalStep
<1>50. ASSUME NEW r \in Request, RequestStep(r) PROVE LabelInv'
  BY <1>50, <1>2, <1>3, <1>4, <1>5, <1>6, <1>7, <1>8, <1>46, <1>47, <1>48,
     <1>27, <1>28, <1>25, <1>9, <1>49, <1>33
  DEF RequestStep
<1>51. ASSUME NEW p \in Proc, SyncStep(p) PROVE LabelInv'
  BY <1>51, <1>35, <1>36, <1>37, <1>38, <1>39, <1>40, <1>41, <1>42
  DEF SyncStep
<1> QED
  BY ConstantsAssumption, <1>0, <1>1, <1>50, <1>34, <1>51, <1>43, <1>44, <1>45
  DEF Next, DiscoverStep, Abort, Crash

(***************************************************************************)
(* Copies: each belongs to one node for good.                              *)
(***************************************************************************)
\* Whoever has a copy of a node runs there, and a copy that somebody has is
\* one of those its node has been using; nothing runs on a dead node.
HomeInv ==
  /\ \A p \in Proc : obj[p] # None => /\ at[p] \in Node
                                      /\ at[obj[p]] = at[p]
                                      /\ cache[at[p]] # None
                                      /\ pc[p] \notin Final
  /\ \A n \in Node : cache[n] # None => at[cache[n]] = n
  /\ \A n \in Node, p \in Proc :
       pc[n] = "dead" /\ at[p] = n => pc[p] \in Final

\* Copies are at home before anything has happened ...
LEMMA InitHome == Init => HomeInv
<1> SUFFICES ASSUME Init PROVE HomeInv
  OBVIOUS
<1>1. \A p \in Proc : obj[p] = None /\ pc[p] = "idle"
  BY DEF Init
<1>2. \A n \in Node : cache[n] # None => cache[n] = n /\ at[n] = n
  BY DEF Init, Proc
<1> QED
  BY <1>1, <1>2 DEF HomeInv, Proc

\* ... and after every step.
LEMMA StepHome == TypeInv /\ LabelInv /\ HomeInv /\ [Next]_vars => HomeInv'
<1> SUFFICES ASSUME TypeInv, LabelInv, HomeInv, [Next]_vars PROVE HomeInv'
  OBVIOUS
<1> USE ConstantsAssumption
    DEF TypeInv, Goto, Finish, Reject, Pass, shared, local, history
<1>t. /\ pc \in [Proc -> PC] /\ obj \in [Proc -> Proc \cup {None}]
      /\ at \in [Proc -> Node \cup {None}]
      /\ cache \in [Node -> Proc \cup {None}]
      /\ Node \subseteq Proc /\ Request \subseteq Proc /\ None \notin Proc
      /\ \A n \in Node : at[n] = n
  BY DEF TypeOK, Proc, Pointers
<1>p. \A p \in Proc : pc[p] \notin {"idle", "dead"} => at[p] \in Node
  BY DEF Pointers, Proc
<1>0. CASE UNCHANGED vars
  BY <1>0 DEF vars, HomeInv
\* A process goes on, or ends without a copy.
<1>c. ASSUME NEW p \in Proc, NEW l \in PC, l # "dead", pc[p] \notin Final,
             pc' = [pc EXCEPT ![p] = l], UNCHANGED <<cache, at>>,
             \/ obj' = [obj EXCEPT ![p] = None]
             \/ obj' = obj /\ l \notin Final
      PROVE  HomeInv'
  BY <1>c, <1>t DEF HomeInv, Final
\* A process finds the copy its node has cached.
<1>d. ASSUME NEW p \in Proc, NEW l \in PC \ Final, pc[p] \notin Final,
             at[p] \in Node, cache[at[p]] # None,
             pc' = [pc EXCEPT ![p] = l], UNCHANGED <<cache, at>>,
             obj' = [obj EXCEPT ![p] = cache[at[p]]]
      PROVE  HomeInv'
  BY <1>d, <1>t DEF HomeInv, Final
\* A process caches a copy of its node, its own or the one it works on.
<1>e. ASSUME NEW p \in Proc, NEW l \in PC \ Final, NEW q \in Proc,
             pc[p] \notin Final, at[p] \in Node, at[q] = at[p],
             pc' = [pc EXCEPT ![p] = l], UNCHANGED at,
             cache' = [cache EXCEPT ![at[p]] = q],
             obj' = obj \/ obj' = [obj EXCEPT ![p] = q]
      PROVE  HomeInv'
  BY <1>e, <1>t DEF HomeInv, Final
<1>1. ASSUME NEW w \in Workload, Receive(w[1], w[2], w[3]) PROVE HomeInv'
  <2>1. w[1] \in Request /\ w[2] \in Node
    OBVIOUS
  <2>2. at[w[1]] = None /\ pc[w[2]] # "dead" /\ pc[w[1]] = "idle"
    BY <1>1, <2>1 DEF Receive, LabelInv
  <2>3. Entrance(w[3].op) \notin Final
    BY DEF Entrance, Final
  <2> QED
    BY <1>1, <1>t, <2>1, <2>2, <2>3 DEF Receive, HomeInv, Final
<1>2. ASSUME NEW r \in Request, Create(r) PROVE HomeInv'
  BY <1>2, <1>t, <1>p, <1>e DEF Create, PC, Final, Marshalling, Locked
<1>3. ASSUME NEW r \in Request, Register(r) PROVE HomeInv'
  BY <1>3, <1>t, <1>c DEF Register, PC, Final, Marshalling, Locked
<1>4. ASSUME NEW r \in Request, Hit(r) PROVE HomeInv'
  BY <1>4, <1>t, <1>p, <1>d DEF Hit, PC, Final, Marshalling, Locked
<1>5. ASSUME NEW r \in Request, Miss(r) PROVE HomeInv'
  BY <1>5, <1>t, <1>c DEF Miss, PC, Final, Marshalling, Locked
<1>6. ASSUME NEW r \in Request, Fetch(r) PROVE HomeInv'
  BY <1>6, <1>t, <1>c DEF Fetch, PC, Final, Marshalling, Locked
<1>7. ASSUME NEW r \in Request, FetchFails(r) PROVE HomeInv'
  BY <1>7, <1>t, <1>c DEF FetchFails, PC, Final, Marshalling, Locked
<1>8. ASSUME NEW r \in Request, CacheFetched(r) PROVE HomeInv'
  BY <1>8, <1>t, <1>p, <1>e DEF CacheFetched, PC, Final, Marshalling, Locked
<1>9. ASSUME NEW r \in Request, Recache(r) PROVE HomeInv'
  BY <1>9, <1>t, <1>p, <1>e, CopyFacts
  DEF Recache, HomeInv, Working, PC, Final, Marshalling, Locked
<1>10. ASSUME NEW r \in Request, JoinCheckMember(r) PROVE HomeInv'
  BY <1>10, <1>t, <1>c DEF JoinCheckMember, PC, Final, Marshalling, Locked
<1>11. ASSUME NEW r \in Request, JoinCheckPending(r) PROVE HomeInv'
  BY <1>11, <1>t, <1>c DEF JoinCheckPending, PC, Final, Marshalling, Locked
<1>12. ASSUME NEW r \in Request, PutRequest(r) PROVE HomeInv'
  BY <1>12, <1>t, <1>c DEF PutRequest, PC, Final, Marshalling, Locked
<1>13. ASSUME NEW r \in Request, ApproveCheckMember(r) PROVE HomeInv'
  BY <1>13, <1>t, <1>c DEF ApproveCheckMember, PC, Final, Marshalling, Locked
<1>14. ASSUME NEW r \in Request, ApproveCheckRequester(r) PROVE HomeInv'
  BY <1>14, <1>t, <1>c
  DEF ApproveCheckRequester, PC, Final, Marshalling, Locked
<1>15. ASSUME NEW r \in Request, FindRequest(r) PROVE HomeInv'
  BY <1>15, <1>t, <1>c DEF FindRequest, PC, Final, Marshalling, Locked
<1>16. ASSUME NEW r \in Request, Admit(r) PROVE HomeInv'
  BY <1>16, <1>t, <1>c DEF Admit, PC, Final, Marshalling, Locked
<1>17. ASSUME NEW r \in Request, ResetBalances(r) PROVE HomeInv'
  BY <1>17, <1>t, <1>c DEF ResetBalances, PC, Final, Marshalling, Locked
<1>18. ASSUME NEW r \in Request, DropRequest(r) PROVE HomeInv'
  BY <1>18, <1>t, <1>c DEF DropRequest, PC, Final, Marshalling, Locked
<1>19. ASSUME NEW r \in Request, ExpenseCheckPayer(r) PROVE HomeInv'
  BY <1>19, <1>t, <1>c DEF ExpenseCheckPayer, PC, Final, Marshalling, Locked
<1>20. ASSUME NEW r \in Request, CheckParticipant(r) PROVE HomeInv'
  <2>1. CASE UNCHANGED <<shared, pc, obj, at>>
    BY <2>1 DEF HomeInv
  <2> QED
    BY <1>20, <2>1, <1>c DEF CheckParticipant, PC, Final, Proc
<1>21. ASSUME NEW r \in Request, LockShard(r) PROVE HomeInv'
  BY <1>21, <1>t, <1>c DEF LockShard, PC, Final, Marshalling, Locked
<1>22. ASSUME NEW r \in Request, RecordExpense(r) PROVE HomeInv'
  BY <1>22, <1>t, <1>c DEF RecordExpense, PC, Final, Marshalling, Locked
<1>23. ASSUME NEW r \in Request, Charge(r) PROVE HomeInv'
  BY <1>23, <1>t, <1>c DEF Charge, PC, Final, Marshalling, Locked
<1>24. ASSUME NEW r \in Request, Increment(r) PROVE HomeInv'
  BY <1>24, <1>t, <1>c DEF Increment, PC, Final, Marshalling, Locked
<1>25. ASSUME NEW r \in Request, Panic(r) PROVE HomeInv'
  BY <1>25, <1>t, <1>c DEF Panic, PC, Final, Marshalling, Locked
<1>26. ASSUME NEW r \in Request, Charged(r) PROVE HomeInv'
  BY <1>26, <1>t, <1>c DEF Charged, PC, Final, Marshalling, Locked
<1>27. ASSUME NEW r \in Request, Answer(r) PROVE HomeInv'
  BY <1>27, <1>t, <1>c DEF Answer, PC, Final, Marshalling, Locked
<1>28. ASSUME NEW r \in Request, SyncGetFails(r) PROVE HomeInv'
  BY <1>28, <1>t, <1>c
  DEF SyncGetFails, Syncing, AfterSync, PC, Final, Marshalling, Locked
<1>29. ASSUME NEW r \in Request, MarshalMembers(r) PROVE HomeInv'
  BY <1>29, <1>t, <1>c
  DEF MarshalMembers, PC, Final, Marshalling, Locked, Marshal
<1>30. ASSUME NEW r \in Request, MarshalExpenses(r) PROVE HomeInv'
  BY <1>30, <1>t, <1>c
  DEF MarshalExpenses, PC, Final, Marshalling, Locked, Marshal
<1>31. ASSUME NEW r \in Request, MarshalBalances(r) PROVE HomeInv'
  BY <1>31, <1>t, <1>c
  DEF MarshalBalances, PC, Final, Marshalling, Locked, Marshal
<1>32. ASSUME NEW r \in Request, MarshalRest(r) PROVE HomeInv'
  BY <1>32, <1>t, <1>c DEF MarshalRest, PC, Final, Marshalling, Locked, Marshal
<1>33. ASSUME NEW r \in Request, PutValue(r) PROVE HomeInv'
  BY <1>33, <1>t, <1>c DEF PutValue, PC, Final, Marshalling, Locked
<1>34. ASSUME NEW r \in Request, PutFails(r) PROVE HomeInv'
  BY <1>34, <1>t, <1>c DEF PutFails, PC, Final, Marshalling, Locked
<1>35. ASSUME NEW p \in Proc, SyncGet(p) PROVE HomeInv'
  BY <1>35, <1>t, <1>c
  DEF SyncGet, Syncing, AfterSync, PC, Final, Marshalling, Locked
<1>36. ASSUME NEW p \in Proc, SyncCold(p) PROVE HomeInv'
  BY <1>36, <1>t, <1>p, <1>e
  DEF SyncCold, AfterSync, PC, Final, Marshalling, Locked
<1>37. ASSUME NEW p \in Proc, SyncMembers(p) PROVE HomeInv'
  BY <1>37, <1>t, <1>p, <1>d DEF SyncMembers, PC, Final, Marshalling, Locked
<1>38. ASSUME NEW p \in Proc, SyncExpenses(p) PROVE HomeInv'
  BY <1>38, <1>t, <1>c DEF SyncExpenses, PC, Final, Marshalling, Locked
<1>39. ASSUME NEW p \in Proc, SyncPending(p) PROVE HomeInv'
  BY <1>39, <1>t, <1>c DEF SyncPending, PC, Final, Marshalling, Locked
<1>40. ASSUME NEW p \in Proc, SyncCounter(p) PROVE HomeInv'
  BY <1>40, <1>t, <1>c DEF SyncCounter, PC, Final, Marshalling, Locked
<1>41. ASSUME NEW p \in Proc, MergeCounter(p) PROVE HomeInv'
  BY <1>41, <1>t, <1>c
  DEF MergeCounter, PC, Final, Marshalling, Locked, HasCounter, NextCounter
<1>42. ASSUME NEW p \in Proc, EndSync(p) PROVE HomeInv'
  BY <1>42, <1>t, <1>c
  DEF EndSync, Syncing, AfterSync, PC, Final, Marshalling, Locked
<1>43. ASSUME NEW n \in Node, DiscoverGet(n) PROVE HomeInv'
  BY <1>43, <1>t, <1>c DEF DiscoverGet, PC, Final, Marshalling, Locked
<1>44. ASSUME NEW n \in Node, DiscoverCache(n) PROVE HomeInv'
  BY <1>44, <1>t, <1>p, <1>e DEF DiscoverCache, PC, Final, Marshalling, Locked
<1>45. ASSUME NEW n \in Node, Die(n) PROVE HomeInv'
  <2>1. \A p \in Proc :
          IF at[p] = n THEN obj'[p] = None /\ pc'[p] \in Final
          ELSE obj'[p] = obj[p] /\ pc'[p] = pc[p]
    BY <1>45, <1>t DEF Die, RunsOn, HomeInv, Final
  <2> QED
    BY <1>45, <1>t, <2>1 DEF Die, HomeInv
<1>46. ASSUME NEW r \in Request, JoinStep(r) PROVE HomeInv'
  BY <1>46, <1>10, <1>11, <1>12
  DEF JoinStep
<1>47. ASSUME NEW r \in Request, ApproveStep(r) PROVE HomeInv'
  BY <1>47, <1>13, <1>14, <1>15, <1>16, <1>17, <1>18
  DEF ApproveStep
<1>48. ASSUME NEW r \in Request, ExpenseStep(r) PROVE HomeInv'
  BY <1>48, <1>19, <1>20, <1>21, <1>22, <1>23, <1>24, <1>26
  DEF ExpenseStep
<1>49. ASSUME NEW r \in Request, MarshalStep(r) PROVE HomeInv'
  BY <1>49, <1>29, <1>30, <1>31, <1>32
  DEF MarshalStep
<1>50. ASSUME NEW r \in Request, RequestStep(r) PROVE HomeInv'
  BY <1>50, <1>2, <1>3, <1>4, <1>5, <1>6, <1>7, <1>8, <1>46, <1>47, <1>48,
     <1>27, <1>28, <1>25, <1>9, <1>49, <1>33
  DEF RequestStep
<1>51. ASSUME NEW p \in Proc, SyncStep(p) PROVE HomeInv'
  BY <1>51, <1>35, <1>36, <1>37, <1>38, <1>39, <1>40, <1>41, <1>42
  DEF SyncStep
<1> QED
  BY ConstantsAssumption, <1>0, <1>1, <1>50, <1>34, <1>51, <1>43, <1>44, <1>45
  DEF Next, DiscoverStep, Abort, Crash
\* The copy a process will allocate is blank, and nobody's.
Unborn(p) ==
  /\ heap[p] = EmptyGroup
  /\ \A q \in Proc : obj[q] # p
  /\ \A n \in Node : cache[n] # p

\* Where a request has not allocated its copy.
Early == {"idle", "create", "fetch", "cacheFetched", "syncGet", "syncMembers"}

BirthInv ==
  /\ \A r \in Request :
       /\ pc[r] \in Early => Unborn(r)
       /\ pc[r] = "lookup" => Unborn(r) \/ cache[at[r]] # None
  /\ \A n \in Node :
       pc[n] # "dead" /\ (cache[n] = None \/ pc[n] = "discoverCache") =>
         Unborn(n)

\* Nobody has a copy that is not allocated, before anything has happened ...
LEMMA InitBirth == Init => BirthInv
<1> SUFFICES ASSUME Init PROVE BirthInv
  OBVIOUS
<1>1. \A p \in Proc : obj[p] = None /\ pc[p] = "idle"
  BY DEF Init
<1>2. \A n \in Node : IF n \in Warm THEN cache[n] = n ELSE cache[n] = None
  BY DEF Init
<1>3. \A p \in Proc \ Warm : heap[p] = EmptyGroup
  BY DEF Init
<1>4. \A p \in Proc \ Warm : Unborn(p)
  BY <1>1, <1>2, <1>3, ConstantsAssumption DEF Unborn, Proc
<1> QED
  BY <1>1, <1>2, <1>4, ConstantsAssumption DEF BirthInv, Proc

\* ... and after every step.
LEMMA StepBirth ==
  TypeInv /\ LabelInv /\ HomeInv /\ BirthInv /\ [Next]_vars => BirthInv'
<1> SUFFICES ASSUME TypeInv, LabelInv, HomeInv, BirthInv, [Next]_vars
             PROVE  BirthInv'
  OBVIOUS
<1> USE ConstantsAssumption
    DEF TypeInv, Goto, Finish, Reject, Pass, shared, local, history
<1>t. /\ pc \in [Proc -> PC] /\ obj \in [Proc -> Proc \cup {None}]
      /\ at \in [Proc -> Node \cup {None}] /\ heap \in [Proc -> Group]
      /\ cache \in [Node -> Proc \cup {None}]
      /\ Node \subseteq Proc /\ Request \subseteq Proc /\ None \notin Proc
      /\ Node \cap Request = {} /\ Proc = Node \cup Request
      /\ \A n \in Node : at[n] = n
  BY DEF TypeOK, Proc, Pointers
<1>p. \A p \in Proc : pc[p] \notin {"idle", "dead"} => at[p] \in Node
  BY DEF Pointers, Proc
<1>w. \A p \in Proc : pc[p] \in Working => obj[p] \in Proc
  BY DEF Pointers
<1>0. CASE UNCHANGED vars
  BY <1>0 DEF vars, BirthInv, Unborn
\* A process goes on, changing at most the copy it works on.
<1>c. ASSUME NEW p \in Proc, NEW l \in PC,
             pc' = [pc EXCEPT ![p] = l], UNCHANGED <<cache, at>>,
             obj' = [obj EXCEPT ![p] = None] \/ obj' = obj,
             \A q \in Proc : q # obj[p] => heap'[q] = heap[q],
             p \in Request /\ l \in Early => Unborn(p),
             p \in Request /\ l = "lookup" => cache[at[p]] # None,
             p \in Node =>
               (l # "discoverCache" /\ pc[p] # "dead") \/ Unborn(p)
      PROVE  BirthInv'
  <2>1. \A q \in Proc : Unborn(q) => Unborn(q)'
    BY <1>c, <1>t DEF Unborn
  <2> QED
    BY <1>c, <1>t, <2>1 DEF BirthInv
\* A process finds the copy its node has cached, and may change it.
<1>d. ASSUME NEW p \in Proc, NEW l \in PC \ (Early \cup {"lookup", "discoverCache"}),
             at[p] \in Node, cache[at[p]] # None, pc[p] # "dead",
             pc' = [pc EXCEPT ![p] = l], UNCHANGED <<cache, at>>,
             obj' = [obj EXCEPT ![p] = cache[at[p]]],
             \A q \in Proc : q # cache[at[p]] => heap'[q] = heap[q]
      PROVE  BirthInv'
  <2>1. \A q \in Proc : Unborn(q) => Unborn(q)'
    BY <1>d, <1>t DEF Unborn
  <2> QED
    BY <1>d, <1>t, <2>1 DEF BirthInv
\* A process allocates its copy, and its node caches it.
<1>e. ASSUME NEW p \in Proc, NEW l \in PC, at[p] \in Node, pc[p] # "dead",
             p \in Request => l \notin Early, l # "discoverCache",
             pc' = [pc EXCEPT ![p] = l], UNCHANGED at,
             \A q \in Proc : q # p => heap'[q] = heap[q],
             cache' = [cache EXCEPT ![at[p]] = p],
             obj' = obj \/ obj' = [obj EXCEPT ![p] = p]
      PROVE  BirthInv'
  <2>1. \A q \in Proc : q # p /\ Unborn(q) => Unborn(q)'
    BY <1>e, <1>t DEF Unborn
  <2> QED
    BY <1>e, <1>t, <2>1 DEF BirthInv
<1>1. ASSUME NEW w \in Workload, Receive(w[1], w[2], w[3]) PROVE BirthInv'
  <2>1. w[1] \in Request /\ w[2] \in Node
    OBVIOUS
  <2>2. pc[w[1]] = "idle" /\ Unborn(w[1])
    BY <1>1, <2>1 DEF Receive, BirthInv, Early
  <2>3. Entrance(w[3].op) \in Early \cup {"lookup"}
    BY DEF Entrance, Early
  <2>4. \A q \in Proc : Unborn(q) => Unborn(q)'
    BY <1>1 DEF Receive, Unborn
  <2>5. /\ pc' = [pc EXCEPT ![w[1]] = Entrance(w[3].op)] /\ UNCHANGED cache
        /\ \A r \in Request : r # w[1] => at'[r] = at[r]
    BY <1>1, <1>t, <2>1 DEF Receive
  <2> QED
    BY <1>t, <2>1, <2>2, <2>3, <2>4, <2>5 DEF BirthInv, Early
<1>2. ASSUME NEW r \in Request, Create(r) PROVE BirthInv'
  <2>1. \A q \in Proc : q # r => heap'[q] = heap[q]
    BY <1>2, <1>t DEF Create
  <2>2. /\ pc[r] = "create" /\ pc' = [pc EXCEPT ![r] = "marshalMembers"]
        /\ UNCHANGED at /\ cache' = [cache EXCEPT ![at[r]] = r]
        /\ obj' = [obj EXCEPT ![r] = r]
    BY <1>2 DEF Create
  <2> QED
    BY <1>t, <1>p, <1>e, <2>1, <2>2 DEF PC, Early, Marshalling
<1>3. ASSUME NEW r \in Request, Register(r) PROVE BirthInv'
  BY <1>3, <1>t, <1>w, <1>c
  DEF Register, PC, Early, Working, Marshalling, Locked, Final
<1>4. ASSUME NEW r \in Request, Hit(r) PROVE BirthInv'
  BY <1>4, <1>t, <1>p, <1>d
  DEF Hit, PC, Early, Working, Marshalling, Locked, Final
<1>5. ASSUME NEW r \in Request, Miss(r) PROVE BirthInv'
  BY <1>5, <1>t, <1>c DEF Miss, PC, Early, BirthInv
<1>6. ASSUME NEW r \in Request, Fetch(r) PROVE BirthInv'
  BY <1>6, <1>t, <1>c DEF Fetch, PC, Early, BirthInv
<1>7. ASSUME NEW r \in Request, FetchFails(r) PROVE BirthInv'
  BY <1>7, <1>t, <1>w, <1>c
  DEF FetchFails, PC, Early, Working, Marshalling, Locked, Final
<1>8. ASSUME NEW r \in Request, CacheFetched(r) PROVE BirthInv'
  BY <1>8, <1>t, <1>p, <1>e
  DEF CacheFetched, PC, Early, Working, Marshalling, Locked, Final
<1>9. ASSUME NEW r \in Request, Recache(r) PROVE BirthInv'
  <2>1. /\ obj[r] \in Proc /\ at[r] \in Node
    BY <1>9, <1>t, <1>p, <1>w DEF Recache, Working
  <2>2. \A q \in Proc : Unborn(q) => Unborn(q)'
    BY <1>9, <1>t, <2>1 DEF Recache, Unborn
  <2> QED
    BY <1>9, <1>t, <2>1, <2>2 DEF Recache, BirthInv, Early
<1>10. ASSUME NEW r \in Request, JoinCheckMember(r) PROVE BirthInv'
  BY <1>10, <1>t, <1>w, <1>c
  DEF JoinCheckMember, PC, Early, Working, Marshalling, Locked, Final
<1>11. ASSUME NEW r \in Request, JoinCheckPending(r) PROVE BirthInv'
  BY <1>11, <1>t, <1>w, <1>c
  DEF JoinCheckPending, PC, Early, Working, Marshalling, Locked, Final
<1>12. ASSUME NEW r \in Request, PutRequest(r) PROVE BirthInv'
  BY <1>12, <1>t, <1>w, <1>c
  DEF PutRequest, PC, Early, Working, Marshalling, Locked, Final
<1>13. ASSUME NEW r \in Request, ApproveCheckMember(r) PROVE BirthInv'
  BY <1>13, <1>t, <1>w, <1>c
  DEF ApproveCheckMember, PC, Early, Working, Marshalling, Locked, Final
<1>14. ASSUME NEW r \in Request, ApproveCheckRequester(r) PROVE BirthInv'
  BY <1>14, <1>t, <1>w, <1>c
  DEF ApproveCheckRequester, PC, Early, Working, Marshalling, Locked, Final
<1>15. ASSUME NEW r \in Request, FindRequest(r) PROVE BirthInv'
  BY <1>15, <1>t, <1>w, <1>c
  DEF FindRequest, PC, Early, Working, Marshalling, Locked, Final
<1>16. ASSUME NEW r \in Request, Admit(r) PROVE BirthInv'
  BY <1>16, <1>t, <1>w, <1>c
  DEF Admit, PC, Early, Working, Marshalling, Locked, Final
<1>17. ASSUME NEW r \in Request, ResetBalances(r) PROVE BirthInv'
  BY <1>17, <1>t, <1>w, <1>c
  DEF ResetBalances, PC, Early, Working, Marshalling, Locked, Final
<1>18. ASSUME NEW r \in Request, DropRequest(r) PROVE BirthInv'
  BY <1>18, <1>t, <1>w, <1>c
  DEF DropRequest, PC, Early, Working, Marshalling, Locked, Final
<1>19. ASSUME NEW r \in Request, ExpenseCheckPayer(r) PROVE BirthInv'
  BY <1>19, <1>t, <1>w, <1>c
  DEF ExpenseCheckPayer, PC, Early, Working, Marshalling, Locked, Final
<1>20. ASSUME NEW r \in Request, CheckParticipant(r) PROVE BirthInv'
  <2>1. CASE UNCHANGED <<shared, pc, obj, at>>
    BY <2>1 DEF BirthInv, Unborn
  <2> QED
    BY <1>20, <2>1, <1>t, <1>c DEF CheckParticipant, PC, Final, Early
<1>21. ASSUME NEW r \in Request, LockShard(r) PROVE BirthInv'
  BY <1>21, <1>t, <1>w, <1>c
  DEF LockShard, PC, Early, Working, Marshalling, Locked, Final
<1>22. ASSUME NEW r \in Request, RecordExpense(r) PROVE BirthInv'
  BY <1>22, <1>t, <1>w, <1>c
  DEF RecordExpense, PC, Early, Working, Marshalling, Locked, Final
<1>23. ASSUME NEW r \in Request, Charge(r) PROVE BirthInv'
  BY <1>23, <1>t, <1>w, <1>c
  DEF Charge, PC, Early, Working, Marshalling, Locked, Final
<1>24. ASSUME NEW r \in Request, Increment(r) PROVE BirthInv'
  BY <1>24, <1>t, <1>w, <1>c
  DEF Increment, PC, Early, Working, Marshalling, Locked, Final
<1>25. ASSUME NEW r \in Request, Panic(r) PROVE BirthInv'
  BY <1>25, <1>t, <1>w, <1>c
  DEF Panic, PC, Early, Working, Marshalling, Locked, Final
<1>26. ASSUME NEW r \in Request, Charged(r) PROVE BirthInv'
  BY <1>26, <1>t, <1>w, <1>c
  DEF Charged, PC, Early, Working, Marshalling, Locked, Final
<1>27. ASSUME NEW r \in Request, Answer(r) PROVE BirthInv'
  BY <1>27, <1>t, <1>w, <1>c
  DEF Answer, PC, Early, Working, Marshalling, Locked, Final
<1>28. ASSUME NEW r \in Request, SyncGetFails(r) PROVE BirthInv'
  BY <1>28, <1>t, <1>w, <1>c
  DEF SyncGetFails, PC, Early, Working, Marshalling, Locked, Final
<1>29. ASSUME NEW r \in Request, MarshalMembers(r) PROVE BirthInv'
  BY <1>29, <1>t, <1>w, <1>c
  DEF MarshalMembers, PC, Early, Working, Marshalling, Locked, Final, Marshal
<1>30. ASSUME NEW r \in Request, MarshalExpenses(r) PROVE BirthInv'
  BY <1>30, <1>t, <1>w, <1>c
  DEF MarshalExpenses, PC, Early, Working, Marshalling, Locked, Final, Marshal
<1>31. ASSUME NEW r \in Request, MarshalBalances(r) PROVE BirthInv'
  BY <1>31, <1>t, <1>w, <1>c
  DEF MarshalBalances, PC, Early, Working, Marshalling, Locked, Final, Marshal
<1>32. ASSUME NEW r \in Request, MarshalRest(r) PROVE BirthInv'
  BY <1>32, <1>t, <1>w, <1>c
  DEF MarshalRest, PC, Early, Working, Marshalling, Locked, Final, Marshal
<1>33. ASSUME NEW r \in Request, PutValue(r) PROVE BirthInv'
  BY <1>33, <1>t, <1>w, <1>c
  DEF PutValue, PC, Early, Working, Marshalling, Locked, Final
<1>34. ASSUME NEW r \in Request, PutFails(r) PROVE BirthInv'
  BY <1>34, <1>t, <1>w, <1>c
  DEF PutFails, PC, Early, Working, Marshalling, Locked, Final
<1>35. ASSUME NEW p \in Proc, SyncGet(p) PROVE BirthInv'
  BY <1>35, <1>t, <1>c DEF SyncGet, PC, Early, BirthInv, Syncing, Locked
<1>36. ASSUME NEW p \in Proc, SyncCold(p) PROVE BirthInv'
  BY <1>36, <1>t, <1>p, <1>e
  DEF SyncCold, AfterSync, PC, Early, Working, Marshalling, Locked, Final
<1>37. ASSUME NEW p \in Proc, SyncMembers(p) PROVE BirthInv'
  BY <1>37, <1>t, <1>p, <1>d
  DEF SyncMembers, PC, Early, Working, Marshalling, Locked, Final
<1>38. ASSUME NEW p \in Proc, SyncExpenses(p) PROVE BirthInv'
  BY <1>38, <1>t, <1>w, <1>c
  DEF SyncExpenses, PC, Early, Working, Marshalling, Locked, Final
<1>39. ASSUME NEW p \in Proc, SyncPending(p) PROVE BirthInv'
  BY <1>39, <1>t, <1>w, <1>c
  DEF SyncPending, PC, Early, Working, Marshalling, Locked, Final
<1>40. ASSUME NEW p \in Proc, SyncCounter(p) PROVE BirthInv'
  BY <1>40, <1>t, <1>w, <1>c
  DEF SyncCounter, PC, Early, Working, Marshalling, Locked, Final
<1>41. ASSUME NEW p \in Proc, MergeCounter(p) PROVE BirthInv'
  BY <1>41, <1>t, <1>w, <1>c
  DEF MergeCounter, PC, Early, Working, Marshalling, Locked, Final, HasCounter,
     NextCounter
<1>42. ASSUME NEW p \in Proc, EndSync(p) PROVE BirthInv'
  <2>1. obj[p] \in Proc /\ cache[at[p]] # None
    BY <1>42, <1>t, <1>w DEF EndSync, Working, Locked, HomeInv
  <2> QED
    BY <1>42, <1>t, <1>c, <2>1 DEF EndSync, AfterSync, PC, Early, Locked
<1>43. ASSUME NEW n \in Node, DiscoverGet(n) PROVE BirthInv'
  BY <1>43, <1>t, <1>c DEF DiscoverGet, PC, Early, BirthInv
<1>44. ASSUME NEW n \in Node, DiscoverCache(n) PROVE BirthInv'
  BY <1>44, <1>t, <1>p, <1>e
  DEF DiscoverCache, PC, Early, Working, Marshalling, Locked, Final
<1>45. ASSUME NEW n \in Node, Die(n) PROVE BirthInv'
  <2>1. \A p \in Proc :
          IF RunsOn(p, n) THEN obj'[p] = None /\ pc'[p] = "dead"
          ELSE obj'[p] = obj[p] /\ pc'[p] = pc[p]
    BY <1>45, <1>t DEF Die
  <2>2. pc'[n] = "dead"
    BY <2>1, <1>t DEF RunsOn, LabelInv, Final, Syncs
  <2>3. \A q \in Proc : Unborn(q) => Unborn(q)'
    BY <1>45, <1>t, <2>1 DEF Unborn, Die
  <2>4. \A r \in Request : pc'[r] = "lookup" => at[r] # n
    BY <1>t, <2>1 DEF RunsOn, Final
  <2>5. \A m \in Node : m # n => cache'[m] = cache[m]
    BY <1>45, <1>t DEF Die
  <2>6. \A r \in Request : pc'[r] = "lookup" => at[r] \in Node
    BY <1>t, <1>p, <2>1
  <2> QED
    BY <1>45, <1>t, <2>1, <2>2, <2>3, <2>4, <2>5, <2>6
    DEF Die, BirthInv, Early
<1>46. ASSUME NEW r \in Request, JoinStep(r) PROVE BirthInv'
  BY <1>46, <1>10, <1>11, <1>12
  DEF JoinStep
<1>47. ASSUME NEW r \in Request, ApproveStep(r) PROVE BirthInv'
  BY <1>47, <1>13, <1>14, <1>15, <1>16, <1>17, <1>18
  DEF ApproveStep
<1>48. ASSUME NEW r \in Request, ExpenseStep(r) PROVE BirthInv'
  BY <1>48, <1>19, <1>20, <1>21, <1>22, <1>23, <1>24, <1>26
  DEF ExpenseStep
<1>49. ASSUME NEW r \in Request, MarshalStep(r) PROVE BirthInv'
  BY <1>49, <1>29, <1>30, <1>31, <1>32
  DEF MarshalStep
<1>50. ASSUME NEW r \in Request, RequestStep(r) PROVE BirthInv'
  BY <1>50, <1>2, <1>3, <1>4, <1>5, <1>6, <1>7, <1>8, <1>46, <1>47, <1>48,
     <1>27, <1>28, <1>25, <1>9, <1>49, <1>33
  DEF RequestStep
<1>51. ASSUME NEW p \in Proc, SyncStep(p) PROVE BirthInv'
  BY <1>51, <1>35, <1>36, <1>37, <1>38, <1>39, <1>40, <1>41, <1>42
  DEF SyncStep
<1> QED
  BY ConstantsAssumption, <1>0, <1>1, <1>50, <1>34, <1>51, <1>43, <1>44, <1>45
  DEF Next, DiscoverStep, Abort, Crash

(***************************************************************************)
(* Debts: what a step may do to the counters of a copy.                    *)
(***************************************************************************)
\* Balances c have the counters of b, and show no less.
Grows(b, c) ==
  \A d \in Pair :
    /\ b[d] # None => c[d] # None
    /\ \A n \in Node : OrZero(c[d]).P[n] >= OrZero(b[d]).P[n]

\* Balances that stay the same show no less.
LEMMA GrowsSame ==
  ASSUME NEW b \in Balances
  PROVE  Grows(b, b)
<1>1. \A d \in Pair : OrZero(b[d]) \in PN!Counter(Node)
  BY OrZeroType DEF Balances
<1> QED
  BY <1>1 DEF Grows, PN!Counter

\* One counter is replaced by one that shows no less.
LEMMA GrowsOne ==
  ASSUME NEW b \in Balances, NEW d \in Pair, NEW c \in PN!Counter(Node),
         \A n \in Node : c.P[n] >= OrZero(b[d]).P[n]
  PROVE  Grows(b, [b EXCEPT ![d] = c])
<1>1. c # None
  BY ConstantsAssumption
<1>2. \A e \in Pair : [b EXCEPT ![d] = c][e] = IF e = d THEN c ELSE b[e]
  BY DEF Balances
<1> HIDE DEF Grows
<1>3. OrZero(c) = c
  BY <1>1 DEF OrZero
<1> QED
  BY <1>1, <1>2, <1>3, GrowsSame DEF Grows

\* A copy that shows nothing is replaced by one that is bounded.
LEMMA GrowsEmpty ==
  ASSUME NEW c \in [Pair -> [Node -> Nat]], NEW b \in Balances, Bounded(b, c)
  PROVE  Grows(EmptyGroup.balances, b)
<1> SUFFICES ASSUME NEW d \in Pair
             PROVE  /\ EmptyGroup.balances[d] = None
                    /\ \A n \in Node : /\ OrZero(b[d]).P[n] >= 0
                                       /\ OrZero(None).P[n] = 0
  BY DEF Grows
<1> QED
  BY DEF EmptyGroup, OrZero, PN!NewPNCounter, Bounded

\* Only the approval's initialisation takes counters away from a copy, or
\* makes it show less.
LEMMA StepGrows ==
  TypeInv /\ AllBounded /\ LabelInv /\ BirthInv /\ [Next]_vars =>
    \A q \in Proc :
      \/ Grows(heap[q].balances, heap'[q].balances)
      \/ \E r \in Request : ResetBalances(r) /\ obj[r] = q
<1> DEFINE GrowStep ==
             \A q \in Proc :
               \/ Grows(heap[q].balances, heap'[q].balances)
               \/ \E r \in Request : ResetBalances(r) /\ obj[r] = q
<1> SUFFICES ASSUME TypeInv, AllBounded, LabelInv, BirthInv, [Next]_vars
             PROVE  GrowStep
  OBVIOUS
<1> HIDE DEF GrowStep
<1> USE ConstantsAssumption
    DEF TypeInv, Goto, Finish, Reject, Pass, shared, local, history
<1>t. /\ heap \in [Proc -> Group] /\ buf \in [Proc -> Group]
      /\ Node \subseteq Proc /\ Request \subseteq Proc
      /\ charged \in [Pair -> [Node -> Nat]]
  BY DEF TypeOK, Proc
<1>b. \A q \in Proc : heap[q].balances \in Balances /\ buf[q].balances \in Balances
  BY <1>t, FieldTypes
<1>w. \A p \in Proc : pc[p] \in Working => obj[p] \in Proc /\ heap[obj[p]] \in Group
  BY CopyFacts DEF TypeOK, Pointers
\* Steps that change no counter of any copy.
<1>c. ASSUME \A q \in Proc : heap'[q].balances = heap[q].balances PROVE GrowStep
  BY <1>b, <1>c, GrowsSame DEF GrowStep
\* Steps that change the balances of one copy.
<1>d. ASSUME NEW p \in Proc, NEW b, heap' = [heap EXCEPT ![p] = [heap[p] EXCEPT !.balances = b]],
             Grows(heap[p].balances, b)
      PROVE  GrowStep
  <2>1. \A q \in Proc : heap'[q].balances = IF q = p THEN b ELSE heap[q].balances
    BY <1>d, <1>t DEF Group
  <2> QED
    BY <1>b, <1>d, <2>1, GrowsSame DEF GrowStep
\* Steps that fill a blank copy.
<1>e. ASSUME NEW p \in Proc, Unborn(p), NEW g \in Group, heap' = [heap EXCEPT ![p] = g],
             Bounded(g.balances, charged)
      PROVE  GrowStep
  <2>1. \A q \in Proc : heap'[q] = IF q = p THEN g ELSE heap[q]
    BY <1>e, <1>t
  <2>2. heap[p].balances = EmptyGroup.balances
    BY <1>e DEF Unborn
  <2>3. Grows(EmptyGroup.balances, g.balances)
    BY <1>e, <1>t, FieldTypes, GrowsEmpty
  <2> QED
    BY <1>b, <2>1, <2>2, <2>3, GrowsSame DEF GrowStep
<1>0. CASE UNCHANGED vars
  BY <1>0, <1>c DEF vars
<1>1. ASSUME NEW w \in Workload, Receive(w[1], w[2], w[3]) PROVE GrowStep
  BY <1>1, <1>c DEF Receive
<1>2. ASSUME NEW r \in Request, Create(r) PROVE GrowStep
  <2> DEFINE u == call[r].user
             m == OrMap!Put(OrMap!NewORMap, u, u, r)
  <2>1. PICK t \in Stamps :
          heap' = [heap EXCEPT ![r] = [EmptyGroup EXCEPT !.members = m, !.keyTime = t]]
    BY <1>2 DEF Create
  <2> DEFINE g == [EmptyGroup EXCEPT !.members = m, !.keyTime = t]
  <2>2. g.balances = EmptyGroup.balances
    BY DEF EmptyGroup
  <2>3. Bounded(g.balances, charged)
    BY <2>2, EmptyBounded
  <2>4. g \in Group
    <3>1. u \in User /\ r \in Tag /\ t \in Int
      BY <1>2, HandlerFacts DEF Create, Tag
    <3>2. m \in OrMap!Map(User, Tag, User)
      BY <3>1, GroupTypes, PutType
    <3>3. [[EmptyGroup EXCEPT !.members = m] EXCEPT !.keyTime = t] \in Group
      BY <3>1, <3>2, GroupTypes, FieldTypes
    <3> QED BY <3>3
  <2>5. Unborn(r) /\ r \in Proc
    BY <1>2, <1>t DEF Create, BirthInv, Early
  <2>6. heap' = [heap EXCEPT ![r] = g]
    BY <2>1
  <2> HIDE DEF g
  <2> QED
    BY <1>e, <2>3, <2>4, <2>5, <2>6
<1>3. ASSUME NEW r \in Request, Register(r) PROVE GrowStep
  BY <1>3, <1>c DEF Register
<1>4. ASSUME NEW r \in Request, Hit(r) PROVE GrowStep
  BY <1>4, <1>c DEF Hit
<1>5. ASSUME NEW r \in Request, Miss(r) PROVE GrowStep
  BY <1>5, <1>c DEF Miss
<1>6. ASSUME NEW r \in Request, Fetch(r) PROVE GrowStep
  BY <1>6, <1>c DEF Fetch
<1>7. ASSUME NEW r \in Request, FetchFails(r) PROVE GrowStep
  BY <1>7, <1>c DEF FetchFails
<1>8. ASSUME NEW r \in Request, CacheFetched(r) PROVE GrowStep
  BY <1>8, <1>t, <1>e DEF CacheFetched, AllBounded, BirthInv, Early
<1>9. ASSUME NEW r \in Request, Recache(r) PROVE GrowStep
  BY <1>9, <1>c DEF Recache
<1>10. ASSUME NEW r \in Request, JoinCheckMember(r) PROVE GrowStep
  BY <1>10, <1>c DEF JoinCheckMember
<1>11. ASSUME NEW r \in Request, JoinCheckPending(r) PROVE GrowStep
  BY <1>11, <1>c DEF JoinCheckPending
<1>12. ASSUME NEW r \in Request, PutRequest(r) PROVE GrowStep
  <2>1. \A q \in Proc : heap'[q].balances = heap[q].balances
    BY <1>12, <1>t DEF PutRequest, Group
  <2> QED
    BY <1>c, <2>1
<1>13. ASSUME NEW r \in Request, ApproveCheckMember(r) PROVE GrowStep
  BY <1>13, <1>c DEF ApproveCheckMember
<1>14. ASSUME NEW r \in Request, ApproveCheckRequester(r) PROVE GrowStep
  BY <1>14, <1>c DEF ApproveCheckRequester
<1>15. ASSUME NEW r \in Request, FindRequest(r) PROVE GrowStep
  BY <1>15, <1>c DEF FindRequest
<1>16. ASSUME NEW r \in Request, Admit(r) PROVE GrowStep
  <2>1. \A q \in Proc : heap'[q].balances = heap[q].balances
    BY <1>16, <1>t DEF Admit, Group
  <2> QED
    BY <1>c, <2>1
<1>17. ASSUME NEW r \in Request, ResetBalances(r) PROVE GrowStep
  <2>1. \A q \in Proc : q # obj[r] => heap'[q] = heap[q]
    BY <1>17, <1>t DEF ResetBalances
  <2> QED
    BY <1>17, <1>b, <2>1, GrowsSame DEF GrowStep
<1>18. ASSUME NEW r \in Request, DropRequest(r) PROVE GrowStep
  <2>1. \A q \in Proc : heap'[q].balances = heap[q].balances
    BY <1>18, <1>t DEF DropRequest, Group
  <2> QED
    BY <1>c, <2>1
<1>19. ASSUME NEW r \in Request, ExpenseCheckPayer(r) PROVE GrowStep
  BY <1>19, <1>c DEF ExpenseCheckPayer
<1>20. ASSUME NEW r \in Request, CheckParticipant(r) PROVE GrowStep
  BY <1>20, <1>c DEF CheckParticipant
<1>21. ASSUME NEW r \in Request, LockShard(r) PROVE GrowStep
  BY <1>21, <1>c DEF LockShard
<1>22. ASSUME NEW r \in Request, RecordExpense(r) PROVE GrowStep
  <2>1. \A q \in Proc : heap'[q].balances = heap[q].balances
    BY <1>22, <1>t DEF RecordExpense, Group
  <2> QED
    BY <1>c, <2>1
<1>23. ASSUME NEW r \in Request, Charge(r) PROVE GrowStep
  <2> DEFINE b == heap[obj[r]].balances
  <2>1. obj[r] \in Proc /\ call[r].user \in User
    BY <1>23, <1>w, HandlerFacts DEF Charge, Working, Locked, Proc
  <2>2. PICK d \in Pair :
          heap' = [heap EXCEPT ![obj[r]] =
                     [heap[obj[r]] EXCEPT !.balances = [b EXCEPT ![d] = OrZero(b[d])]]]
    BY <1>23, <2>1 DEF Charge, Pair, TypeOK
  <2>3. OrZero(b[d]) \in PN!Counter(Node)
    BY <1>b, <2>1, OrZeroType DEF Balances
  <2>4. \A n \in Node : OrZero(b[d]).P[n] >= OrZero(b[d]).P[n]
    BY <2>3 DEF PN!Counter
  <2>5. Grows(b, [b EXCEPT ![d] = OrZero(b[d])])
    BY <1>b, <2>1, <2>3, <2>4, GrowsOne
  <2> QED
    BY <1>d, <2>1, <2>2, <2>5
<1>24. ASSUME NEW r \in Request, Increment(r) PROVE GrowStep
  <2> DEFINE b == heap[obj[r]].balances
             d == owing[r]
             c == PN!Increment(b[d], at[r], call[r].share)
  <2>1. /\ obj[r] \in Proc /\ at[r] \in Node /\ call[r].share \in Nat
        /\ d \in Pair
    BY <1>24, <1>w, HandlerFacts DEF Increment, Working, Locked, Proc, Pointers
  <2>2. b[d] # None /\ b[d] \in PN!Counter(Node)
    BY <1>24, <1>b, <2>1 DEF Increment, Copy, Balances
  <2>3. c \in PN!Counter(Node)
    BY <2>1, <2>2, IncrementType
  <2>4. \A n \in Node : c.P[n] >= OrZero(b[d]).P[n]
    BY <2>1, <2>2 DEF PN!Increment, PN!Counter, OrZero
  <2>5. heap' = [heap EXCEPT ![obj[r]] = [heap[obj[r]] EXCEPT !.balances = [b EXCEPT ![d] = c]]]
    BY <1>24 DEF Increment
  <2> HIDE DEF c, d
  <2>6. Grows(b, [b EXCEPT ![d] = c])
    BY <1>b, <2>1, <2>3, <2>4, GrowsOne
  <2> QED
    BY <1>d, <2>1, <2>5, <2>6
<1>25. ASSUME NEW r \in Request, Panic(r) PROVE GrowStep
  BY <1>25, <1>c DEF Panic
<1>26. ASSUME NEW r \in Request, Charged(r) PROVE GrowStep
  BY <1>26, <1>c DEF Charged
<1>27. ASSUME NEW r \in Request, Answer(r) PROVE GrowStep
  BY <1>27, <1>c DEF Answer
<1>28. ASSUME NEW r \in Request, SyncGetFails(r) PROVE GrowStep
  BY <1>28, <1>c DEF SyncGetFails
<1>29. ASSUME NEW r \in Request, MarshalMembers(r) PROVE GrowStep
  BY <1>29, <1>c DEF MarshalMembers, Marshal
<1>30. ASSUME NEW r \in Request, MarshalExpenses(r) PROVE GrowStep
  BY <1>30, <1>c DEF MarshalExpenses, Marshal
<1>31. ASSUME NEW r \in Request, MarshalBalances(r) PROVE GrowStep
  BY <1>31, <1>c DEF MarshalBalances, Marshal
<1>32. ASSUME NEW r \in Request, MarshalRest(r) PROVE GrowStep
  BY <1>32, <1>c DEF MarshalRest, Marshal
<1>33. ASSUME NEW r \in Request, PutValue(r) PROVE GrowStep
  BY <1>33, <1>c DEF PutValue
<1>34. ASSUME NEW r \in Request, PutFails(r) PROVE GrowStep
  BY <1>34, <1>c DEF PutFails
<1>35. ASSUME NEW p \in Proc, SyncGet(p) PROVE GrowStep
  BY <1>35, <1>c DEF SyncGet
<1>36. ASSUME NEW p \in Proc, SyncCold(p) PROVE GrowStep
  <2>1. Unborn(p)
    <3>1. p \in Request => Unborn(p)
      BY <1>36 DEF SyncCold, BirthInv, Early
    <3>2. p \in Node => Unborn(p)
      BY <1>36 DEF SyncCold, BirthInv, Pointers
    <3> QED
      BY <3>1, <3>2 DEF Proc
  <2> QED
    BY <1>36, <1>t, <1>e, <2>1 DEF SyncCold, AllBounded
<1>37. ASSUME NEW p \in Proc, SyncMembers(p) PROVE GrowStep
  <2>1. \A q \in Proc : heap'[q].balances = heap[q].balances
    BY <1>37, <1>t DEF SyncMembers, Group
  <2> QED
    BY <1>c, <2>1
<1>38. ASSUME NEW p \in Proc, SyncExpenses(p) PROVE GrowStep
  <2>1. \A q \in Proc : heap'[q].balances = heap[q].balances
    BY <1>38, <1>t DEF SyncExpenses, Group
  <2> QED
    BY <1>c, <2>1
<1>39. ASSUME NEW p \in Proc, SyncPending(p) PROVE GrowStep
  <2>1. \A q \in Proc : heap'[q].balances = heap[q].balances
    BY <1>39, <1>t DEF SyncPending, Group
  <2> QED
    BY <1>c, <2>1
<1>40. ASSUME NEW p \in Proc, SyncCounter(p) PROVE GrowStep
  <2> DEFINE b == heap[obj[p]].balances
  <2>1. obj[p] \in Proc
    BY <1>40, <1>w DEF SyncCounter, Working, Locked
  <2>2. PICK d \in Pair :
          heap' = [heap EXCEPT ![obj[p]] =
                     [heap[obj[p]] EXCEPT !.balances = [b EXCEPT ![d] = OrZero(b[d])]]]
    BY <1>40 DEF SyncCounter
  <2>3. OrZero(b[d]) \in PN!Counter(Node)
    BY <1>b, <2>1, OrZeroType DEF Balances
  <2>4. \A n \in Node : OrZero(b[d]).P[n] >= OrZero(b[d]).P[n]
    BY <2>3 DEF PN!Counter
  <2>5. Grows(b, [b EXCEPT ![d] = OrZero(b[d])])
    BY <1>b, <2>1, <2>3, <2>4, GrowsOne
  <2> QED
    BY <1>d, <2>1, <2>2, <2>5
<1>41. ASSUME NEW p \in Proc, MergeCounter(p) PROVE GrowStep
  <2> DEFINE b == heap[obj[p]].balances
             d == owing[p]
             o == buf[p].balances[d]
             c == PN!Merge(b[d], o)
  <2>1. obj[p] \in Proc /\ d \in Pair /\ o # None
    BY <1>41, <1>w DEF MergeCounter, HasCounter, Working, Locked, Pointers
  <2>2. b[d] # None /\ b[d] \in PN!Counter(Node) /\ o \in PN!Counter(Node)
    BY <1>41, <1>b, <2>1 DEF MergeCounter, HasCounter, Copy, Balances
  <2>3. c \in PN!Counter(Node)
    BY <2>2, CounterMergeType
  <2>4. \A n \in Node : c.P[n] >= OrZero(b[d]).P[n]
    BY <2>2 DEF PN!Merge, PN!Max2, PN!Counter, OrZero
  <2>5. heap' = [heap EXCEPT ![obj[p]] = [heap[obj[p]] EXCEPT !.balances = [b EXCEPT ![d] = c]]]
    BY <1>41 DEF MergeCounter
  <2> HIDE DEF c, d
  <2>6. Grows(b, [b EXCEPT ![d] = c])
    BY <1>b, <2>1, <2>3, <2>4, GrowsOne
  <2> QED
    BY <1>d, <2>1, <2>5, <2>6
<1>42. ASSUME NEW p \in Proc, EndSync(p) PROVE GrowStep
  <2>1. \A q \in Proc : heap'[q].balances = heap[q].balances
    BY <1>42, <1>t DEF EndSync, Group
  <2> QED
    BY <1>c, <2>1
<1>43. ASSUME NEW n \in Node, DiscoverGet(n) PROVE GrowStep
  BY <1>43, <1>c DEF DiscoverGet
<1>44. ASSUME NEW n \in Node, DiscoverCache(n) PROVE GrowStep
  BY <1>44, <1>t, <1>e DEF DiscoverCache, AllBounded, BirthInv
<1>45. ASSUME NEW n \in Node, Die(n) PROVE GrowStep
  BY <1>45, <1>c DEF Die
<1>46. ASSUME NEW r \in Request, JoinStep(r) PROVE GrowStep
  BY <1>46, <1>10, <1>11, <1>12
  DEF JoinStep
<1>47. ASSUME NEW r \in Request, ApproveStep(r) PROVE GrowStep
  BY <1>47, <1>13, <1>14, <1>15, <1>16, <1>17, <1>18
  DEF ApproveStep
<1>48. ASSUME NEW r \in Request, ExpenseStep(r) PROVE GrowStep
  BY <1>48, <1>19, <1>20, <1>21, <1>22, <1>23, <1>24, <1>26
  DEF ExpenseStep
<1>49. ASSUME NEW r \in Request, MarshalStep(r) PROVE GrowStep
  BY <1>49, <1>29, <1>30, <1>31, <1>32
  DEF MarshalStep
<1>50. ASSUME NEW r \in Request, RequestStep(r) PROVE GrowStep
  BY <1>50, <1>2, <1>3, <1>4, <1>5, <1>6, <1>7, <1>8, <1>46, <1>47, <1>48,
     <1>27, <1>28, <1>25, <1>9, <1>49, <1>33
  DEF RequestStep
<1>51. ASSUME NEW p \in Proc, SyncStep(p) PROVE GrowStep
  BY <1>51, <1>35, <1>36, <1>37, <1>38, <1>39, <1>40, <1>41, <1>42
  DEF SyncStep
<1> QED
  BY <1>0, <1>1, <1>50, <1>34, <1>51, <1>43, <1>44, <1>45
  DEF Next, DiscoverStep, Abort, Crash

\* A step in which the debt that a copy shows falls is an approval's.
Forgives ==
  \A p \in Proc, d \in Pair, n \in Node :
    Shown(heap[p], d, n)' < Shown(heap[p], d, n) =>
      \E r \in Request : /\ pc[r] = "resetBalances"
                         /\ pc'[r] = "dropRequest"
                         /\ obj[r] = p
                         /\ call[r].subject = d[1]

\* Every step forgives only so.
LEMMA StepForgives ==
  TypeInv /\ AllBounded /\ LabelInv /\ BirthInv /\ [Next]_vars => Forgives
<1> SUFFICES ASSUME TypeInv, AllBounded, LabelInv, BirthInv, [Next]_vars,
                    NEW p \in Proc, NEW d \in Pair, NEW n \in Node,
                    Shown(heap[p], d, n)' < Shown(heap[p], d, n)
             PROVE  \E r \in Request : /\ pc[r] = "resetBalances"
                                       /\ pc'[r] = "dropRequest"
                                       /\ obj[r] = p
                                       /\ call[r].subject = d[1]
  BY DEF Forgives
<1>1. TypeInv'
  BY StepTypeInv
<1>2. heap[p].balances \in Balances /\ heap'[p].balances \in Balances
  BY <1>1, FieldTypes DEF TypeInv, TypeOK
<1>3. /\ OrZero(heap[p].balances[d]) \in PN!Counter(Node)
      /\ OrZero(heap'[p].balances[d]) \in PN!Counter(Node)
  BY <1>2, OrZeroType DEF Balances
<1>4. /\ Shown(heap[p], d, n) = OrZero(heap[p].balances[d]).P[n]
      /\ Shown(heap[p], d, n)' = OrZero(heap'[p].balances[d]).P[n]
      /\ Shown(heap[p], d, n) \in Int /\ Shown(heap[p], d, n)' \in Int
  BY <1>3 DEF Shown, PN!Counter
<1>5. ~ Grows(heap[p].balances, heap'[p].balances)
  BY <1>4 DEF Grows
<1>6. PICK r \in Request : ResetBalances(r) /\ obj[r] = p
  BY <1>5, StepGrows
<1>7. pc[r] = "resetBalances" /\ pc'[r] = "dropRequest"
  BY <1>6 DEF ResetBalances, Goto, TypeInv, TypeOK, Proc
<1>8. heap'[p].balances[d] = IF d[1] = call[r].subject THEN None ELSE heap[p].balances[d]
  BY <1>6 DEF ResetBalances, TypeInv, TypeOK, Group
<1> QED
  BY <1>4, <1>6, <1>7, <1>8

(***************************************************************************)
(* Locks.                                                                  *)
(***************************************************************************)
\* What AddExpense is to charge, and the counter a handler has seen to.
ChargeInv ==
  \A r \in Request :
    /\ pc[r] \in {"charge", "increment"} => todo[r] \subseteq Debtors(call[r])
    /\ pc[r] = "increment" => owing[r][1] \in Debtors(call[r])
    /\ pc[r] \in {"increment", "mergeCounter"} =>
         Copy(r).balances[owing[r]] # None \/ Interfered(r)

\* Only a request that arrives gets a node and a call.
LEMMA StepCalls ==
  [Next]_vars =>
    \/ \E w \in Workload : Receive(w[1], w[2], w[3])
    \/ UNCHANGED <<at, call>>
<1> SUFFICES ASSUME [Next]_vars, ~ \E w \in Workload : Receive(w[1], w[2], w[3])
             PROVE  UNCHANGED <<at, call>>
  OBVIOUS
<1>1. ASSUME NEW r \in Request, RequestStep(r) \/ PutFails(r) PROVE UNCHANGED <<at, call>>
  <2> USE <1>1 DEF shared, local, history, Pass, Reject
  <2>1. CASE JoinStep(r) \/ ApproveStep(r)
    BY <2>1 DEF JoinStep, JoinCheckMember, JoinCheckPending, PutRequest,
       ApproveStep, ApproveCheckMember, ApproveCheckRequester, FindRequest,
       Admit, ResetBalances, DropRequest
  <2>2. CASE ExpenseStep(r)
    BY <2>2 DEF ExpenseStep, ExpenseCheckPayer, CheckParticipant, LockShard,
       RecordExpense, Charge, Increment, Charged
  <2>3. CASE MarshalStep(r)
    BY <2>3 DEF MarshalStep, MarshalMembers, MarshalExpenses,
       MarshalBalances, MarshalRest, Marshal
  <2> QED
    BY <2>1, <2>2, <2>3 DEF RequestStep, Create, Register, Hit, Miss, Fetch,
       FetchFails, CacheFetched, Answer, SyncGetFails, Panic, Recache,
       PutValue, PutFails
<1>2. ASSUME NEW q \in Proc, SyncStep(q) PROVE UNCHANGED <<at, call>>
  BY <1>2 DEF SyncStep, SyncGet, SyncCold, SyncMembers, SyncExpenses,
     SyncPending, SyncCounter, MergeCounter, NextCounter, EndSync, shared,
     local, history
<1>3. ASSUME NEW n \in Node, DiscoverStep(n) \/ Die(n) PROVE UNCHANGED <<at, call>>
  BY <1>3 DEF DiscoverStep, DiscoverGet, DiscoverCache, Die, shared, local,
     history
<1> QED
  BY <1>1, <1>2, <1>3, ConstantsAssumption DEF Next, Abort, Crash, vars, local

\* Who has a node keeps it, and its call.
LEMMA StepKeepsCalls ==
  ASSUME TypeInv, LabelInv, [Next]_vars, NEW p \in Proc, at[p] # None
  PROVE  at'[p] = at[p] /\ (p \in Request => call'[p] = call[p])
<1>1. ASSUME NEW w \in Workload, Receive(w[1], w[2], w[3])
      PROVE  at'[p] = at[p] /\ (p \in Request => call'[p] = call[p])
  <2>1. w[1] \in Request /\ at[w[1]] = None
    BY <1>1, ConstantsAssumption DEF Receive, LabelInv
  <2> QED
    BY <1>1, <2>1 DEF Receive, TypeInv, TypeOK
<1> QED
  BY <1>1, StepCalls

\* So an interference is not forgotten.
LEMMA InterferenceLasts ==
  ASSUME TypeInv, LabelInv, [Next]_vars, NEW r \in Request, at[r] # None,
         Interfered(r)
  PROVE  Interfered(r)'
<1>1. PICK s \in Request :
        /\ at[s] = at[r]
        /\ call[s].op = "approve_join"
        /\ call[r].op = "add_expense" => call[s].subject \in Debtors(call[r])
  BY DEF Interfered
<1>2. /\ at'[s] = at[s] /\ call'[s] = call[s]
      /\ at'[r] = at[r] /\ call'[r] = call[r]
  BY <1>1, StepKeepsCalls DEF Proc
<1> QED
  BY <1>1, <1>2 DEF Interfered

\* Nobody charges before anything has happened.
LEMMA InitCharges == Init => ChargeInv
BY DEF Init, ChargeInv, Proc

\* A step leaves the counters that others have seen to, or interferes.
LEMMA CounterStays ==
  ASSUME TypeInv, AllBounded, LabelInv, HomeInv, BirthInv, ChargeInv,
         [Next]_vars, NEW r \in Request, pc[r] \in {"increment", "mergeCounter"}
  PROVE  \/ heap'[obj[r]].balances[owing[r]] # None
         \/ Interfered(r)
<1>1. obj[r] \in Proc /\ owing[r] \in Pair /\ at[r] \in Node
  BY DEF TypeInv, Pointers, Working, Locked, Proc
<1>2. CASE Interfered(r)
  BY <1>2
<1>3. CASE heap[obj[r]].balances[owing[r]] # None
  <2>1. CASE Grows(heap[obj[r]].balances, heap'[obj[r]].balances)
    BY <1>1, <1>3, <2>1 DEF Grows
  <2>2. CASE \E s \in Request : ResetBalances(s) /\ obj[s] = obj[r]
    <3>1. PICK s \in Request : ResetBalances(s) /\ obj[s] = obj[r]
      BY <2>2
    <3>2. at[s] = at[r]
      BY <1>1, <3>1, ConstantsAssumption DEF HomeInv, Proc
    <3>3. call[s].op = "approve_join"
      BY <3>1 DEF ResetBalances, LabelInv, Approves
    <3>4. heap'[obj[r]].balances[owing[r]] =
            IF owing[r][1] = call[s].subject THEN None
            ELSE heap[obj[r]].balances[owing[r]]
      BY <1>1, <3>1 DEF ResetBalances, TypeInv, TypeOK, Group
    <3>5. call[r].op = "add_expense" => pc[r] = "increment"
      BY DEF LabelInv, Syncs
    <3>6. pc[r] = "increment" => owing[r][1] \in Debtors(call[r])
      BY DEF ChargeInv
    <3>7. CASE owing[r][1] = call[s].subject
      BY <3>2, <3>3, <3>5, <3>6, <3>7 DEF Interfered
    <3> QED
      BY <1>3, <3>4, <3>7
  <2> QED
    BY <1>1, <2>1, <2>2, StepGrows
<1> QED
  BY <1>2, <1>3 DEF ChargeInv, Copy

\* Every step keeps what handlers have seen to, or interferes with them.
LEMMA StepCharges ==
  TypeInv /\ AllBounded /\ LabelInv /\ HomeInv /\ BirthInv /\ ChargeInv
  /\ [Next]_vars => ChargeInv'
<1> SUFFICES ASSUME TypeInv, AllBounded, LabelInv, HomeInv, BirthInv,
                    ChargeInv, [Next]_vars
             PROVE  ChargeInv'
  OBVIOUS
<1> USE DEF Goto, Finish, Reject, Pass, shared, local, history
<1>t. /\ pc \in [Proc -> PC] /\ obj \in [Proc -> Proc \cup {None}]
      /\ todo \in [Request -> SUBSET User]
      /\ owing \in [Proc -> Pair \cup {None}]
      /\ Node \subseteq Proc /\ Request \subseteq Proc
      /\ Node \cap Request = {}
  BY ConstantsAssumption DEF TypeInv, TypeOK, Proc
<1>p. \A r \in Request : pc[r] \notin {"idle", "dead"} =>
                          at[r] \in Node /\ at[r] # None
  BY ConstantsAssumption DEF TypeInv, Pointers, Proc
<1>k. \A r \in Request : pc[r] \notin {"idle", "dead"} =>
                          call'[r] = call[r] /\ (Interfered(r) => Interfered(r)')
  BY <1>p, StepKeepsCalls, InterferenceLasts, <1>t
\* What holds of a handler remains true while others take steps.
<1>o. ASSUME NEW r \in Request, pc'[r] = pc[r], obj'[r] = obj[r],
             todo'[r] = todo[r], owing'[r] = owing[r]
      PROVE  /\ pc'[r] \in {"charge", "increment"} => todo'[r] \subseteq Debtors(call'[r])
             /\ pc'[r] = "increment" => owing'[r][1] \in Debtors(call'[r])
             /\ pc'[r] \in {"increment", "mergeCounter"} =>
                  \/ heap'[obj'[r]].balances[owing'[r]] # None
                  \/ Interfered(r)'
  BY <1>o, <1>k, CounterStays DEF ChargeInv
<1>q. \A r \in Request : Copy(r)' = heap'[obj'[r]]
  BY DEF Copy
\* A process goes on to a label at which it does not charge.
<1>c. ASSUME NEW p \in Proc,
             p \in Request => pc'[p] \notin {"charge", "increment", "mergeCounter"},
             \A r \in Request : r # p =>
               /\ pc'[r] = pc[r] /\ obj'[r] = obj[r]
               /\ todo'[r] = todo[r] /\ owing'[r] = owing[r]
      PROVE  ChargeInv'
  BY <1>c, <1>o, <1>q DEF ChargeInv
<1>0. CASE UNCHANGED vars
  BY <1>0, <1>o, <1>q DEF vars, ChargeInv
<1>1. ASSUME NEW w \in Workload, Receive(w[1], w[2], w[3]) PROVE ChargeInv'
  <2>1. w[1] \in Request /\ Entrance(w[3].op) \in {"create", "syncGet", "lookup"}
    BY ConstantsAssumption DEF Entrance
  <2> QED
    BY <1>1, <1>t, <1>c, <2>1 DEF Receive
<1>2. ASSUME NEW r \in Request, Create(r) PROVE ChargeInv'
  BY <1>2, <1>t, <1>c DEF Create
<1>3. ASSUME NEW r \in Request, Register(r) PROVE ChargeInv'
  BY <1>3, <1>t, <1>c DEF Register
<1>4. ASSUME NEW r \in Request, Hit(r) PROVE ChargeInv'
  BY <1>4, <1>t, <1>c DEF Hit
<1>5. ASSUME NEW r \in Request, Miss(r) PROVE ChargeInv'
  BY <1>5, <1>t, <1>c DEF Miss
<1>6. ASSUME NEW r \in Request, Fetch(r) PROVE ChargeInv'
  BY <1>6, <1>t, <1>c DEF Fetch
<1>7. ASSUME NEW r \in Request, FetchFails(r) PROVE ChargeInv'
  BY <1>7, <1>t, <1>c DEF FetchFails
<1>8. ASSUME NEW r \in Request, CacheFetched(r) PROVE ChargeInv'
  BY <1>8, <1>t, <1>c DEF CacheFetched
<1>9. ASSUME NEW r \in Request, Recache(r) PROVE ChargeInv'
  BY <1>9, <1>t, <1>c DEF Recache
<1>10. ASSUME NEW r \in Request, JoinCheckMember(r) PROVE ChargeInv'
  BY <1>10, <1>t, <1>c DEF JoinCheckMember
<1>11. ASSUME NEW r \in Request, JoinCheckPending(r) PROVE ChargeInv'
  BY <1>11, <1>t, <1>c DEF JoinCheckPending
<1>12. ASSUME NEW r \in Request, PutRequest(r) PROVE ChargeInv'
  BY <1>12, <1>t, <1>c DEF PutRequest
<1>13. ASSUME NEW r \in Request, ApproveCheckMember(r) PROVE ChargeInv'
  BY <1>13, <1>t, <1>c DEF ApproveCheckMember
<1>14. ASSUME NEW r \in Request, ApproveCheckRequester(r) PROVE ChargeInv'
  BY <1>14, <1>t, <1>c DEF ApproveCheckRequester
<1>15. ASSUME NEW r \in Request, FindRequest(r) PROVE ChargeInv'
  BY <1>15, <1>t, <1>c DEF FindRequest
<1>16. ASSUME NEW r \in Request, Admit(r) PROVE ChargeInv'
  BY <1>16, <1>t, <1>c DEF Admit
<1>17. ASSUME NEW r \in Request, ResetBalances(r) PROVE ChargeInv'
  BY <1>17, <1>t, <1>c DEF ResetBalances
<1>18. ASSUME NEW r \in Request, DropRequest(r) PROVE ChargeInv'
  BY <1>18, <1>t, <1>c DEF DropRequest
<1>19. ASSUME NEW r \in Request, ExpenseCheckPayer(r) PROVE ChargeInv'
  BY <1>19, <1>t, <1>c DEF ExpenseCheckPayer
<1>20. ASSUME NEW r \in Request, CheckParticipant(r) PROVE ChargeInv'
  <2>1. /\ pc[r] = "checkParticipants" /\ pc'[r] \in {pc[r], "failed"}
        /\ \A s \in Request : s # r =>
              /\ pc'[s] = pc[s] /\ obj'[s] = obj[s]
              /\ todo'[s] = todo[s] /\ owing'[s] = owing[s]
    BY <1>20, <1>t DEF CheckParticipant
  <2> QED
    BY <1>t, <1>c, <2>1
<1>21. ASSUME NEW r \in Request, LockShard(r) PROVE ChargeInv'
  BY <1>21, <1>t, <1>c DEF LockShard
<1>22. ASSUME NEW r \in Request, RecordExpense(r) PROVE ChargeInv'
  <2>1. /\ pc'[r] = "charge" /\ todo'[r] = Debtors(call[r]) /\ call'[r] = call[r]
        /\ \A s \in Request : s # r =>
              /\ pc'[s] = pc[s] /\ obj'[s] = obj[s]
              /\ todo'[s] = todo[s] /\ owing'[s] = owing[s]
    BY <1>22, <1>t DEF RecordExpense
  <2> QED
    BY <1>o, <1>q, <2>1 DEF ChargeInv
<1>23. ASSUME NEW r \in Request, Charge(r) PROVE ChargeInv'
  <2>1. PICK u \in todo[r] :
          LET d == <<u, call[r].user>>
          IN  /\ heap' = [heap EXCEPT ![obj[r]].balances[d] = OrZero(@)]
              /\ owing' = [owing EXCEPT ![r] = d]
    BY <1>23 DEF Charge
  <2> DEFINE d == <<u, call[r].user>>
  <2>2. /\ pc[r] = "charge" /\ pc'[r] = "increment" /\ todo'[r] = todo[r]
        /\ call'[r] = call[r] /\ obj'[r] = obj[r]
        /\ owing'[r] = d
        /\ \A s \in Request : s # r =>
              /\ pc'[s] = pc[s] /\ obj'[s] = obj[s]
              /\ todo'[s] = todo[s] /\ owing'[s] = owing[s]
    BY <1>23, <1>t, <2>1 DEF Charge
  <2>3. todo[r] \subseteq Debtors(call[r])
    BY <2>2 DEF ChargeInv
  <2>4. /\ obj[r] \in Proc /\ heap[obj[r]] \in Group /\ d \in Pair
    BY <1>t, <2>2, HandlerFacts, CopyFacts DEF Working, Locked, Pair
  <2>5. heap'[obj[r]].balances[d] = OrZero(heap[obj[r]].balances[d])
    BY <2>1, <2>4 DEF TypeInv, TypeOK, Group, Balances
  <2>6. OrZero(heap[obj[r]].balances[d]) # None
    BY <2>4, OrZeroType, FieldTypes, ConstantsAssumption DEF Balances
  <2> QED
    BY <1>o, <1>q, <2>2, <2>3, <2>5, <2>6 DEF ChargeInv
<1>24. ASSUME NEW r \in Request, Increment(r) PROVE ChargeInv'
  <2>1. /\ pc[r] = "increment" /\ pc'[r] = "charge" /\ todo'[r] \subseteq todo[r]
        /\ call'[r] = call[r]
        /\ \A s \in Request : s # r =>
              /\ pc'[s] = pc[s] /\ obj'[s] = obj[s]
              /\ todo'[s] = todo[s] /\ owing'[s] = owing[s]
    BY <1>24, <1>t DEF Increment
  <2> QED
    BY <1>o, <1>q, <2>1 DEF ChargeInv
<1>25. ASSUME NEW r \in Request, Panic(r) PROVE ChargeInv'
  BY <1>25, <1>t, <1>c DEF Panic
<1>26. ASSUME NEW r \in Request, Charged(r) PROVE ChargeInv'
  BY <1>26, <1>t, <1>c DEF Charged
<1>27. ASSUME NEW r \in Request, Answer(r) PROVE ChargeInv'
  BY <1>27, <1>t, <1>c DEF Answer
<1>28. ASSUME NEW r \in Request, SyncGetFails(r) PROVE ChargeInv'
  BY <1>28, <1>t, <1>c DEF SyncGetFails
<1>29. ASSUME NEW r \in Request, MarshalMembers(r) PROVE ChargeInv'
  BY <1>29, <1>t, <1>c DEF MarshalMembers, Marshal
<1>30. ASSUME NEW r \in Request, MarshalExpenses(r) PROVE ChargeInv'
  BY <1>30, <1>t, <1>c DEF MarshalExpenses, Marshal
<1>31. ASSUME NEW r \in Request, MarshalBalances(r) PROVE ChargeInv'
  BY <1>31, <1>t, <1>c DEF MarshalBalances, Marshal
<1>32. ASSUME NEW r \in Request, MarshalRest(r) PROVE ChargeInv'
  BY <1>32, <1>t, <1>c DEF MarshalRest, Marshal
<1>33. ASSUME NEW r \in Request, PutValue(r) PROVE ChargeInv'
  BY <1>33, <1>t, <1>c DEF PutValue
<1>34. ASSUME NEW r \in Request, PutFails(r) PROVE ChargeInv'
  BY <1>34, <1>t, <1>c DEF PutFails
<1>35. ASSUME NEW p \in Proc, SyncGet(p) PROVE ChargeInv'
  BY <1>35, <1>t, <1>c DEF SyncGet
<1>36. ASSUME NEW p \in Proc, SyncCold(p) PROVE ChargeInv'
  BY <1>36, <1>t, <1>c DEF SyncCold, AfterSync
<1>37. ASSUME NEW p \in Proc, SyncMembers(p) PROVE ChargeInv'
  BY <1>37, <1>t, <1>c DEF SyncMembers
<1>38. ASSUME NEW p \in Proc, SyncExpenses(p) PROVE ChargeInv'
  BY <1>38, <1>t, <1>c DEF SyncExpenses
<1>39. ASSUME NEW p \in Proc, SyncPending(p) PROVE ChargeInv'
  BY <1>39, <1>t, <1>c DEF SyncPending
<1>40. ASSUME NEW p \in Proc, SyncCounter(p) PROVE ChargeInv'
  <2>1. PICK d \in Pair :
          /\ heap' = [heap EXCEPT ![obj[p]].balances[d] = OrZero(@)]
          /\ owing' = [owing EXCEPT ![p] = d]
    BY <1>40 DEF SyncCounter
  <2>2. /\ pc[p] = "syncBalances" /\ pc'[p] = "mergeCounter" /\ obj'[p] = obj[p]
        /\ owing'[p] = d
        /\ \A s \in Request : s # p =>
              /\ pc'[s] = pc[s] /\ obj'[s] = obj[s]
              /\ todo'[s] = todo[s] /\ owing'[s] = owing[s]
    BY <1>40, <1>t, <2>1 DEF SyncCounter
  <2>4. /\ obj[p] \in Proc /\ heap[obj[p]] \in Group
    BY <1>t, <2>2, CopyFacts DEF Working, Locked
  <2>5. heap'[obj[p]].balances[d] = OrZero(heap[obj[p]].balances[d])
    BY <2>1, <2>4 DEF TypeInv, TypeOK, Group, Balances
  <2>6. OrZero(heap[obj[p]].balances[d]) # None
    BY <2>4, OrZeroType, FieldTypes, ConstantsAssumption DEF Balances
  <2> QED
    BY <1>o, <1>q, <2>2, <2>5, <2>6 DEF ChargeInv
<1>41. ASSUME NEW p \in Proc, MergeCounter(p) PROVE ChargeInv'
  BY <1>41, <1>t, <1>c DEF MergeCounter, HasCounter, NextCounter
<1>42. ASSUME NEW p \in Proc, EndSync(p) PROVE ChargeInv'
  BY <1>42, <1>t, <1>c DEF EndSync, AfterSync
<1>43. ASSUME NEW n \in Node, DiscoverGet(n) PROVE ChargeInv'
  BY <1>43, <1>t, <1>c DEF DiscoverGet
<1>44. ASSUME NEW n \in Node, DiscoverCache(n) PROVE ChargeInv'
  BY <1>44, <1>t, <1>c DEF DiscoverCache
<1>45. ASSUME NEW n \in Node, Die(n) PROVE ChargeInv'
  <2>1. \A r \in Request : pc'[r] # "dead" => pc'[r] = pc[r] /\ obj'[r] = obj[r]
    BY <1>45, <1>t DEF Die
  <2>2. todo' = todo /\ owing' = owing
    BY <1>45 DEF Die
  <2> QED
    BY <1>o, <1>q, <2>1, <2>2 DEF ChargeInv
<1>46. ASSUME NEW r \in Request, JoinStep(r) PROVE ChargeInv'
  BY <1>46, <1>10, <1>11, <1>12
  DEF JoinStep
<1>47. ASSUME NEW r \in Request, ApproveStep(r) PROVE ChargeInv'
  BY <1>47, <1>13, <1>14, <1>15, <1>16, <1>17, <1>18
  DEF ApproveStep
<1>48. ASSUME NEW r \in Request, ExpenseStep(r) PROVE ChargeInv'
  BY <1>48, <1>19, <1>20, <1>21, <1>22, <1>23, <1>24, <1>26
  DEF ExpenseStep
<1>49. ASSUME NEW r \in Request, MarshalStep(r) PROVE ChargeInv'
  BY <1>49, <1>29, <1>30, <1>31, <1>32
  DEF MarshalStep
<1>50. ASSUME NEW r \in Request, RequestStep(r) PROVE ChargeInv'
  BY <1>50, <1>2, <1>3, <1>4, <1>5, <1>6, <1>7, <1>8, <1>46, <1>47, <1>48,
     <1>27, <1>28, <1>25, <1>9, <1>49, <1>33
  DEF RequestStep
<1>51. ASSUME NEW p \in Proc, SyncStep(p) PROVE ChargeInv'
  BY <1>51, <1>35, <1>36, <1>37, <1>38, <1>39, <1>40, <1>41, <1>42
  DEF SyncStep
<1> QED
  BY ConstantsAssumption, <1>0, <1>1, <1>50, <1>34, <1>51, <1>43, <1>44, <1>45
  DEF Next, DiscoverStep, Abort, Crash

\* LockHeld, and that no loop panics with the lock.
LockInv ==
  \A p \in Proc, n \in Node :
    /\ InCritical(p) /\ at[p] = n => lock[n] = p
    /\ lock[n] = p =>
         /\ at[p] = n
         /\ \/ InCritical(p)
            \/ p \in Request /\ pc[p] = "panicked" /\ Interfered(p)

\* Nobody holds a lock before anything has happened.
LEMMA InitLocks == Init => LockInv
<1> SUFFICES ASSUME Init PROVE LockInv
  OBVIOUS
<1>1. \A p \in Proc, n \in Node : lock[n] # p
  BY ConstantsAssumption DEF Init
<1>2. \A p \in Proc : ~ InCritical(p)
  BY DEF Init, InCritical, Locked, Marshalling
<1> QED
  BY <1>1, <1>2 DEF LockInv

\* Every step hands the lock over together with the critical section.
LEMMA StepLocks ==
  TypeInv /\ LabelInv /\ ChargeInv /\ LockInv /\ [Next]_vars => LockInv'
<1> SUFFICES ASSUME TypeInv, LabelInv, ChargeInv, LockInv, [Next]_vars
             PROVE  LockInv'
  OBVIOUS
<1> USE DEF Goto, Finish, Reject, Pass, shared, local, history
<1>t. /\ pc \in [Proc -> PC] /\ at \in [Proc -> Node \cup {None}]
      /\ call \in [Request -> Call \cup {None}]
      /\ lock \in [Node -> Proc \cup {None}]
      /\ Node \subseteq Proc /\ Request \subseteq Proc
      /\ Node \cap Request = {} /\ None \notin Proc /\ Proc = Node \cup Request
  BY ConstantsAssumption DEF TypeInv, TypeOK, Proc
<1>p. \A p \in Proc : pc[p] \notin {"idle", "dead"} =>
                       at[p] \in Node /\ at[p] # None
  BY ConstantsAssumption DEF TypeInv, Pointers, Proc
\* Who holds a lock keeps its node and its call, and what interfered with it.
<1>k. \A p \in Proc, n \in Node : lock[n] = p =>
        /\ at'[p] = at[p] /\ (p \in Request => call'[p] = call[p])
        /\ p \in Request /\ Interfered(p) => Interfered(p)'
  <2> SUFFICES ASSUME NEW p \in Proc, NEW n \in Node, lock[n] = p
               PROVE  /\ at'[p] = at[p] /\ (p \in Request => call'[p] = call[p])
                      /\ p \in Request /\ Interfered(p) => Interfered(p)'
    OBVIOUS
  <2>1. at[p] # None
    BY <1>t DEF LockInv
  <2> QED
    BY <2>1, StepKeepsCalls, InterferenceLasts
\* A process goes on inside or outside its critical section.
<1>c. ASSUME NEW p \in Proc, \A q \in Proc : q # p => pc'[q] = pc[q],
             pc[p] # "panicked", UNCHANGED <<lock, at, call>>,
             InCritical(p)' <=> InCritical(p)
      PROVE  LockInv'
  <2>1. \A q \in Proc : InCritical(q)' <=> InCritical(q)
    BY <1>c DEF InCritical
  <2> QED
    BY <1>c, <1>k, <2>1 DEF LockInv
\* A process takes the lock ...
<1>d. ASSUME NEW p \in Proc, \A q \in Proc : q # p => pc'[q] = pc[q],
             at[p] \in Node, Free(at[p]), lock' = [lock EXCEPT ![at[p]] = p],
             UNCHANGED <<at, call>>, InCritical(p)'
      PROVE  LockInv'
  <2>1. \A q \in Proc : q # p => (InCritical(q)' <=> InCritical(q))
    BY <1>d DEF InCritical
  <2>2. \A n \in Node : lock'[n] = IF n = at[p] THEN p ELSE lock[n]
    BY <1>d, <1>t
  <2> QED
    BY <1>d, <1>k, <1>t, <2>1, <2>2 DEF LockInv, Free
\* ... or gives it up.
<1>e. ASSUME NEW p \in Proc, \A q \in Proc : q # p => pc'[q] = pc[q],
             \A n \in Node : lock'[n] = IF lock[n] = p THEN None ELSE lock[n],
             UNCHANGED <<at, call>>, ~ InCritical(p)'
      PROVE  LockInv'
  <2>1. \A q \in Proc : q # p => (InCritical(q)' <=> InCritical(q))
    BY <1>e DEF InCritical
  <2> QED
    BY <1>e, <1>k, <1>t, <2>1 DEF LockInv
<1>0. CASE UNCHANGED vars
  BY <1>0, <1>k DEF vars, LockInv, InCritical
<1>1. ASSUME NEW w \in Workload, Receive(w[1], w[2], w[3]) PROVE LockInv'
  <2>1. /\ w[1] \in Request /\ Entrance(w[3].op) \in {"create", "syncGet", "lookup"}
        /\ at[w[1]] = None /\ pc[w[1]] = "idle"
    BY <1>1, ConstantsAssumption DEF Receive, Entrance, LabelInv
  <2>2. \A q \in Proc : q # w[1] =>
          /\ pc'[q] = pc[q] /\ at'[q] = at[q]
          /\ (q \in Request => call'[q] = call[q])
    BY <1>1, <1>t, <2>1 DEF Receive
  <2>3. \A q \in Proc : InCritical(q)' <=> InCritical(q)
    <3>1. \A q \in Proc : q # w[1] => (InCritical(q)' <=> InCritical(q))
      BY <2>2 DEF InCritical
    <3>2. ~ InCritical(w[1]) /\ ~ InCritical(w[1])'
      BY <1>1, <1>t, <2>1 DEF Receive, InCritical, Locked, Marshalling
    <3> QED
      BY <3>1, <3>2
  <2>4. \A n \in Node : lock'[n] = lock[n] /\ lock[n] # w[1]
    BY <1>1, <1>t, <2>1 DEF Receive, LockInv
  <2>5. ~ InCritical(w[1])
    BY <2>1, <1>t DEF InCritical, Locked, Marshalling
  <2> QED
    BY <1>k, <1>t, <2>2, <2>3, <2>4, <2>5 DEF LockInv
<1>2. ASSUME NEW r \in Request, Create(r) PROVE LockInv'
  BY <1>2, <1>t, <1>p, <1>c
  DEF Create, InCritical, Locked, Marshalling, LabelInv, Charges
<1>3. ASSUME NEW r \in Request, Register(r) PROVE LockInv'
  BY <1>3, <1>t, <1>c DEF Register, InCritical, Locked, Marshalling
<1>4. ASSUME NEW r \in Request, Hit(r) PROVE LockInv'
  BY <1>4, <1>t, <1>c DEF Hit, InCritical, Locked, Marshalling
<1>5. ASSUME NEW r \in Request, Miss(r) PROVE LockInv'
  BY <1>5, <1>t, <1>c DEF Miss, InCritical, Locked, Marshalling
<1>6. ASSUME NEW r \in Request, Fetch(r) PROVE LockInv'
  BY <1>6, <1>t, <1>c DEF Fetch, InCritical, Locked, Marshalling
<1>7. ASSUME NEW r \in Request, FetchFails(r) PROVE LockInv'
  BY <1>7, <1>t, <1>c DEF FetchFails, InCritical, Locked, Marshalling
<1>8. ASSUME NEW r \in Request, CacheFetched(r) PROVE LockInv'
  BY <1>8, <1>t, <1>c DEF CacheFetched, InCritical, Locked, Marshalling
<1>9. ASSUME NEW r \in Request, Recache(r) PROVE LockInv'
  BY <1>9, <1>t, <1>p, <1>c
  DEF Recache, InCritical, Locked, Marshalling, LabelInv, Charges
<1>10. ASSUME NEW r \in Request, JoinCheckMember(r) PROVE LockInv'
  BY <1>10, <1>t, <1>c DEF JoinCheckMember, InCritical, Locked, Marshalling
<1>11. ASSUME NEW r \in Request, JoinCheckPending(r) PROVE LockInv'
  BY <1>11, <1>t, <1>c DEF JoinCheckPending, InCritical, Locked, Marshalling
<1>12. ASSUME NEW r \in Request, PutRequest(r) PROVE LockInv'
  BY <1>12, <1>t, <1>c DEF PutRequest, InCritical, Locked, Marshalling
<1>13. ASSUME NEW r \in Request, ApproveCheckMember(r) PROVE LockInv'
  BY <1>13, <1>t, <1>c DEF ApproveCheckMember, InCritical, Locked, Marshalling
<1>14. ASSUME NEW r \in Request, ApproveCheckRequester(r) PROVE LockInv'
  BY <1>14, <1>t, <1>c
  DEF ApproveCheckRequester, InCritical, Locked, Marshalling
<1>15. ASSUME NEW r \in Request, FindRequest(r) PROVE LockInv'
  BY <1>15, <1>t, <1>c DEF FindRequest, InCritical, Locked, Marshalling
<1>16. ASSUME NEW r \in Request, Admit(r) PROVE LockInv'
  BY <1>16, <1>t, <1>c DEF Admit, InCritical, Locked, Marshalling
<1>17. ASSUME NEW r \in Request, ResetBalances(r) PROVE LockInv'
  BY <1>17, <1>t, <1>c DEF ResetBalances, InCritical, Locked, Marshalling
<1>18. ASSUME NEW r \in Request, DropRequest(r) PROVE LockInv'
  BY <1>18, <1>t, <1>c DEF DropRequest, InCritical, Locked, Marshalling
<1>19. ASSUME NEW r \in Request, ExpenseCheckPayer(r) PROVE LockInv'
  BY <1>19, <1>t, <1>c DEF ExpenseCheckPayer, InCritical, Locked, Marshalling
<1>20. ASSUME NEW r \in Request, CheckParticipant(r) PROVE LockInv'
  BY <1>20, <1>t, <1>c DEF CheckParticipant, InCritical, Locked, Marshalling
<1>21. ASSUME NEW r \in Request, LockShard(r) PROVE LockInv'
  BY <1>21, <1>t, <1>p, <1>d DEF LockShard, InCritical, Locked, Marshalling
<1>22. ASSUME NEW r \in Request, RecordExpense(r) PROVE LockInv'
  BY <1>22, <1>t, <1>c DEF RecordExpense, InCritical, Locked, Marshalling
<1>23. ASSUME NEW r \in Request, Charge(r) PROVE LockInv'
  BY <1>23, <1>t, <1>c DEF Charge, InCritical, Locked, Marshalling
<1>24. ASSUME NEW r \in Request, Increment(r) PROVE LockInv'
  BY <1>24, <1>t, <1>c DEF Increment, InCritical, Locked, Marshalling
<1>25. ASSUME NEW r \in Request, Panic(r) PROVE LockInv'
  <2>1. /\ InCritical(r) /\ Interfered(r)
    BY <1>25 DEF Panic, ChargeInv, InCritical, Locked
  <2>2. /\ pc'[r] = "panicked" /\ at[r] \in Node
        /\ \A q \in Proc : q # r => pc'[q] = pc[q]
        /\ UNCHANGED <<lock, at, call>>
    BY <1>25, <1>t, <1>p DEF Panic
  <2>3. \A q \in Proc : q # r => (InCritical(q)' <=> InCritical(q))
    BY <2>2 DEF InCritical
  <2>4. ~ InCritical(r)'
    BY <2>2 DEF InCritical, Locked, Marshalling
  <2> QED
    BY <1>k, <1>t, <2>1, <2>2, <2>3, <2>4 DEF LockInv
<1>26. ASSUME NEW r \in Request, Charged(r) PROVE LockInv'
  BY <1>26, <1>t, <1>p, <1>c
  DEF Charged, InCritical, Locked, Marshalling, LabelInv, Charges
<1>27. ASSUME NEW r \in Request, Answer(r) PROVE LockInv'
  BY <1>27, <1>t, <1>c DEF Answer, InCritical, Locked, Marshalling
<1>28. ASSUME NEW r \in Request, SyncGetFails(r) PROVE LockInv'
  BY <1>28, <1>t, <1>c DEF SyncGetFails, InCritical, Locked, Marshalling
<1>29. ASSUME NEW r \in Request, MarshalMembers(r) PROVE LockInv'
  BY <1>29, <1>t, <1>c
  DEF MarshalMembers, InCritical, Locked, Marshalling, Marshal
<1>30. ASSUME NEW r \in Request, MarshalExpenses(r) PROVE LockInv'
  BY <1>30, <1>t, <1>c
  DEF MarshalExpenses, InCritical, Locked, Marshalling, Marshal
<1>31. ASSUME NEW r \in Request, MarshalBalances(r) PROVE LockInv'
  BY <1>31, <1>t, <1>c
  DEF MarshalBalances, InCritical, Locked, Marshalling, Marshal
<1>32. ASSUME NEW r \in Request, MarshalRest(r) PROVE LockInv'
  BY <1>32, <1>t, <1>c
  DEF MarshalRest, InCritical, Locked, Marshalling, Marshal
<1>33. ASSUME NEW r \in Request, PutValue(r) PROVE LockInv'
  BY <1>33, <1>t, <1>p, <1>e
  DEF PutValue, InCritical, Locked, Marshalling, Release
<1>34. ASSUME NEW r \in Request, PutFails(r) PROVE LockInv'
  BY <1>34, <1>t, <1>p, <1>e
  DEF PutFails, InCritical, Locked, Marshalling, Release
<1>35. ASSUME NEW p \in Proc, SyncGet(p) PROVE LockInv'
  BY <1>35, <1>t, <1>p, <1>c
  DEF SyncGet, InCritical, Locked, Marshalling, Syncing
<1>36. ASSUME NEW p \in Proc, SyncCold(p) PROVE LockInv'
  BY <1>36, <1>t, <1>p, <1>c
  DEF SyncCold, InCritical, Locked, Marshalling, AfterSync
<1>37. ASSUME NEW p \in Proc, SyncMembers(p) PROVE LockInv'
  BY <1>37, <1>t, <1>p, <1>d DEF SyncMembers, InCritical, Locked, Marshalling
<1>38. ASSUME NEW p \in Proc, SyncExpenses(p) PROVE LockInv'
  BY <1>38, <1>t, <1>c DEF SyncExpenses, InCritical, Locked, Marshalling
<1>39. ASSUME NEW p \in Proc, SyncPending(p) PROVE LockInv'
  BY <1>39, <1>t, <1>c DEF SyncPending, InCritical, Locked, Marshalling
<1>40. ASSUME NEW p \in Proc, SyncCounter(p) PROVE LockInv'
  BY <1>40, <1>t, <1>c DEF SyncCounter, InCritical, Locked, Marshalling
<1>41. ASSUME NEW p \in Proc, MergeCounter(p) PROVE LockInv'
  BY <1>41, <1>t, <1>c
  DEF MergeCounter, InCritical, Locked, Marshalling, HasCounter, NextCounter
<1>42. ASSUME NEW p \in Proc, EndSync(p) PROVE LockInv'
  <2>1. at[p] \in Node /\ InCritical(p)
    BY <1>42, <1>p DEF EndSync, InCritical, Locked
  <2>2. lock[at[p]] = p /\ \A n \in Node : lock[n] = p => n = at[p]
    BY <2>1 DEF LockInv
  <2> QED
    BY <1>42, <1>t, <1>e, <2>1, <2>2
    DEF EndSync, AfterSync, InCritical, Locked, Marshalling
<1>43. ASSUME NEW n \in Node, DiscoverGet(n) PROVE LockInv'
  BY <1>43, <1>t, <1>c DEF DiscoverGet, InCritical, Locked, Marshalling
<1>44. ASSUME NEW n \in Node, DiscoverCache(n) PROVE LockInv'
  BY <1>44, <1>t, <1>c DEF DiscoverCache, InCritical, Locked, Marshalling
<1>45. ASSUME NEW n \in Node, Die(n) PROVE LockInv'
  <2>1. \A q \in Proc :
          IF at[q] = n THEN pc'[q] \in Final /\ (pc[q] \in Final => pc'[q] = pc[q])
          ELSE pc'[q] = pc[q]
    BY <1>45, <1>t DEF Die, RunsOn, Final
  <2>2. /\ UNCHANGED <<at, call>>
        /\ \A m \in Node : lock'[m] = IF m = n THEN None ELSE lock[m]
    BY <1>45, <1>t DEF Die
  <2>3. \A q \in Proc : IF at[q] = n THEN ~ InCritical(q)'
                         ELSE InCritical(q)' <=> InCritical(q)
    BY <2>1, <2>2 DEF InCritical, Final, Locked, Marshalling
  <2> QED
    BY <1>k, <1>t, <2>1, <2>2, <2>3 DEF LockInv
<1>46. ASSUME NEW r \in Request, JoinStep(r) PROVE LockInv'
  BY <1>46, <1>10, <1>11, <1>12
  DEF JoinStep
<1>47. ASSUME NEW r \in Request, ApproveStep(r) PROVE LockInv'
  BY <1>47, <1>13, <1>14, <1>15, <1>16, <1>17, <1>18
  DEF ApproveStep
<1>48. ASSUME NEW r \in Request, ExpenseStep(r) PROVE LockInv'
  BY <1>48, <1>19, <1>20, <1>21, <1>22, <1>23, <1>24, <1>26
  DEF ExpenseStep
<1>49. ASSUME NEW r \in Request, MarshalStep(r) PROVE LockInv'
  BY <1>49, <1>29, <1>30, <1>31, <1>32
  DEF MarshalStep
<1>50. ASSUME NEW r \in Request, RequestStep(r) PROVE LockInv'
  BY <1>50, <1>2, <1>3, <1>4, <1>5, <1>6, <1>7, <1>8, <1>46, <1>47, <1>48,
     <1>27, <1>28, <1>25, <1>9, <1>49, <1>33
  DEF RequestStep
<1>51. ASSUME NEW p \in Proc, SyncStep(p) PROVE LockInv'
  BY <1>51, <1>35, <1>36, <1>37, <1>38, <1>39, <1>40, <1>41, <1>42
  DEF SyncStep
<1> QED
  BY ConstantsAssumption, <1>0, <1>1, <1>50, <1>34, <1>51, <1>43, <1>44, <1>45
  DEF Next, DiscoverStep, Abort, Crash

(***************************************************************************)
(* Own debts.                                                              *)
(***************************************************************************)
Quiet == ~ Called("approve_join") /\ ~ Called("create_group")

\* As long as nobody approves or creates, a node that starts with a copy uses
\* that copy alone ...
OwnCopy ==
  Quiet =>
    \A n \in Warm :
      /\ pc[n] # "dead" => cache[n] = n /\ pc[n] # "discoverCache"
      /\ pc[n] = "dead" => cache[n] = None
      /\ \A p \in Proc : at[p] = n =>
           /\ obj[p] \in {None, n}
           /\ pc[p] \notin {"fetch", "cacheFetched", "create"}

\* ... which shows under the node's identifier what the node charged.
OwnDebts ==
  Quiet =>
    \A n \in Warm :
      pc[n] # "dead" => \A d \in Pair : Shown(heap[n], d, n) = charged[d][n]

\* A node that starts with a copy has charged nothing yet.
LEMMA InitOwn == Init => OwnCopy /\ OwnDebts
<1> SUFFICES ASSUME Init PROVE OwnCopy /\ OwnDebts
  OBVIOUS
<1>1. \A n \in Warm : n \in Node /\ n \in Proc
  BY ConstantsAssumption DEF Proc
<1>2. \A p \in Proc : obj[p] = None /\ pc[p] = "idle"
  BY DEF Init
<1>3. OwnCopy
  BY <1>1, <1>2 DEF Init, OwnCopy
<1>4. \A n \in Warm : heap[n].balances = EmptyGroup.balances
  BY <1>1, SetupBalances DEF Init
<1>5. \A n \in Warm, d \in Pair : Shown(heap[n], d, n) = 0 /\ charged[d][n] = 0
  BY <1>1, <1>4 DEF Init, Shown, EmptyGroup, OrZero, PN!NewPNCounter
<1> QED
  BY <1>3, <1>5 DEF OwnDebts

\* A call that was made stays made.
LEMMA StepQuiet ==
  ASSUME TypeInv, LabelInv, [Next]_vars, Quiet'
  PROVE  Quiet
<1>1. ASSUME NEW r \in Request, call[r] # None PROVE call'[r] = call[r]
  <2>1. ASSUME NEW w \in Workload, Receive(w[1], w[2], w[3]) PROVE call'[r] = call[r]
    <3>1. w[1] \in Request /\ call[w[1]] = None
      BY <2>1, ConstantsAssumption DEF Receive, LabelInv
    <3> QED
      BY <1>1, <2>1, <3>1 DEF Receive, TypeInv, TypeOK
  <2> QED
    BY <2>1, StepCalls
<1> QED
  BY <1>1 DEF Quiet, Called

\* A node that died does not run again.
LEMMA StaysDead ==
  ASSUME TypeInv, [Next]_vars, NEW n \in Node, pc[n] = "dead"
  PROVE  pc'[n] = "dead"
<1> USE DEF Goto, Finish, Reject, Pass, shared, local, history, TypeInv, TypeOK
<1>t. n \in Proc /\ n \notin Request /\ pc \in [Proc -> PC]
  BY ConstantsAssumption DEF Proc
<1>1. ASSUME NEW w \in Workload, Receive(w[1], w[2], w[3]) PROVE pc'[n] = "dead"
  BY <1>1, <1>t, ConstantsAssumption DEF Receive
<1>2. ASSUME NEW r \in Request, RequestStep(r) \/ PutFails(r) PROVE pc'[n] = "dead"
  <2> USE <1>2, <1>t
  <2>1. CASE JoinStep(r) \/ ApproveStep(r)
    BY <2>1 DEF JoinStep, JoinCheckMember, JoinCheckPending, PutRequest,
       ApproveStep, ApproveCheckMember, ApproveCheckRequester, FindRequest,
       Admit, ResetBalances, DropRequest
  <2>2. CASE ExpenseStep(r)
    BY <2>2 DEF ExpenseStep, ExpenseCheckPayer, CheckParticipant, LockShard,
       RecordExpense, Charge, Increment, Charged
  <2>3. CASE MarshalStep(r)
    BY <2>3 DEF MarshalStep, MarshalMembers, MarshalExpenses,
       MarshalBalances, MarshalRest, Marshal
  <2> QED
    BY <2>1, <2>2, <2>3 DEF RequestStep, Create, Register, Hit, Miss, Fetch,
       FetchFails, CacheFetched, Answer, SyncGetFails, Panic, Recache,
       PutValue, PutFails
<1>3. ASSUME NEW q \in Proc, SyncStep(q) PROVE pc'[n] = "dead"
  BY <1>3, <1>t
  DEF SyncStep, SyncGet, Syncing, SyncCold, SyncMembers, SyncExpenses,
     SyncPending, SyncCounter, MergeCounter, HasCounter, NextCounter, EndSync
<1>4. ASSUME NEW m \in Node, DiscoverStep(m) \/ Die(m) PROVE pc'[n] = "dead"
  BY <1>4, <1>t DEF DiscoverStep, DiscoverGet, DiscoverCache, Die, RunsOn, Proc
<1> QED
  BY <1>1, <1>2, <1>3, <1>4, ConstantsAssumption DEF Next, Abort, Crash, vars

\* Every step keeps such a node to its own copy.
LEMMA StepOwnCopy ==
  TypeInv /\ LabelInv /\ HomeInv /\ OwnCopy /\ [Next]_vars => OwnCopy'
<1> SUFFICES ASSUME TypeInv, LabelInv, HomeInv, OwnCopy, [Next]_vars, Quiet'
             PROVE  OwnCopy'
  BY DEF OwnCopy
<1> USE DEF Goto, Finish, Reject, Pass, shared, local, history
<1>t. /\ pc \in [Proc -> PC] /\ at \in [Proc -> Node \cup {None}]
      /\ obj \in [Proc -> Proc \cup {None}]
      /\ cache \in [Node -> Proc \cup {None}]
      /\ Node \subseteq Proc /\ Request \subseteq Proc
      /\ Node \cap Request = {} /\ None \notin Proc /\ Proc = Node \cup Request
      /\ Warm \subseteq Node /\ \A n \in Node : at[n] = n
  BY ConstantsAssumption DEF TypeInv, TypeOK, Proc, Pointers
<1>p. \A p \in Proc : pc[p] \notin {"idle", "dead"} => at[p] \in Node
  BY DEF TypeInv, Pointers, Proc
<1>w. \A p \in Proc : pc[p] \in Working => obj[p] \in Proc
  BY DEF TypeInv, Pointers
\* What the invariant says of node n.
<1> DEFINE Own(n) ==
             /\ pc[n] # "dead" => cache[n] = n /\ pc[n] # "discoverCache"
             /\ pc[n] = "dead" => cache[n] = None
             /\ \A p \in Proc : at[p] = n =>
                  /\ obj[p] \in {None, n}
                  /\ pc[p] \notin {"fetch", "cacheFetched", "create"}
<1>i. \A n \in Warm : Own(n)
  BY StepQuiet DEF OwnCopy
<1>g. (\A n \in Warm : Own(n)') => OwnCopy'
  BY DEF OwnCopy
\* A running process's node is alive.
<1>a. \A p \in Proc : at[p] \in Node /\ pc[p] \notin Final => pc[at[p]] # "dead"
  BY DEF HomeInv
\* A process goes on with the copy it has, if any, or its node's.
<1>c. ASSUME NEW p \in Proc, \A q \in Proc : q # p => pc'[q] = pc[q] /\ obj'[q] = obj[q],
             UNCHANGED <<at, cache>>, pc[p] # "dead",
             pc'[p] \notin {"fetch", "cacheFetched", "create", "dead", "discoverCache"},
             \/ obj'[p] \in {obj[p], None}
             \/ at[p] \in Node /\ pc[p] \notin Final /\ obj'[p] = cache[at[p]]
      PROVE  OwnCopy'
  <2>1. ASSUME NEW n \in Warm PROVE Own(n)'
    BY <1>a, <1>c, <1>i, <1>t
  <2> QED
    BY <1>g, <2>1
\* A process that cannot run on such a node.
<1>d. ASSUME NEW p \in Proc, at[p] \in Node, at[p] \notin Warm, UNCHANGED at,
             \A q \in Proc : q # p => pc'[q] = pc[q] /\ obj'[q] = obj[q],
             \A n \in Node : n # at[p] => cache'[n] = cache[n]
      PROVE  OwnCopy'
  <2>1. ASSUME NEW n \in Warm PROVE Own(n)'
    BY <1>d, <1>i, <1>t
  <2> QED
    BY <1>g, <2>1
<1>0. CASE UNCHANGED vars
  BY <1>0, <1>i, <1>g DEF vars
<1>1. ASSUME NEW w \in Workload, Receive(w[1], w[2], w[3]) PROVE OwnCopy'
  <2>1. /\ w[1] \in Request /\ w[2] \in Node /\ w[3] \in Call /\ pc[w[1]] = "idle"
        /\ at[w[1]] = None
    BY <1>1, ConstantsAssumption DEF Receive, LabelInv
  <2>2. obj[w[1]] = None
    BY <1>t, <2>1 DEF HomeInv
  <2>3. w[3] # None /\ call'[w[1]] = w[3]
    BY <1>1, <2>1, ConstantsAssumption DEF Receive, TypeInv, TypeOK
  <2>4. w[3].op # "create_group"
    BY <2>1, <2>3 DEF Quiet, Called
  <2>5. Entrance(w[3].op) \in {"lookup", "syncGet"}
    BY <2>4 DEF Entrance
  <2>6. ASSUME NEW n \in Warm PROVE Own(n)'
    BY <1>1, <1>i, <1>t, <2>1, <2>2, <2>5 DEF Receive
  <2> QED
    BY <1>g, <2>6
<1>2. ASSUME NEW r \in Request, Create(r) PROVE OwnCopy'
  <2>1. call[r] # None /\ call[r].op = "create_group"
    BY <1>2, HandlerFacts, ConstantsAssumption DEF Create, LabelInv
  <2> QED
    BY <2>1, StepQuiet DEF Quiet, Called
<1>3. ASSUME NEW r \in Request, Register(r) PROVE OwnCopy'
  BY <1>3, <1>t, <1>c DEF Register
<1>4. ASSUME NEW r \in Request, Hit(r) PROVE OwnCopy'
  BY <1>4, <1>t, <1>p, <1>c DEF Hit, Final
<1>5. ASSUME NEW r \in Request, Miss(r) PROVE OwnCopy'
  <2>1. at[r] \in Node /\ pc[r] \notin Final
    BY <1>5, <1>t, <1>p DEF Miss, Final
  <2>2. at[r] \notin Warm
    BY <1>5, <1>t, <1>a, <1>i, <2>1 DEF Miss
  <2> QED
    BY <1>5, <1>t, <1>d, <2>1, <2>2 DEF Miss
<1>6. ASSUME NEW r \in Request, Fetch(r) PROVE OwnCopy'
  <2>1. at[r] \in Node /\ pc[r] \notin Final
    BY <1>6, <1>t, <1>p DEF Fetch, Final
  <2>2. at[r] \notin Warm
    BY <1>6, <1>t, <1>a, <1>i, <2>1 DEF Fetch
  <2> QED
    BY <1>6, <1>t, <1>d, <2>1, <2>2 DEF Fetch
<1>7. ASSUME NEW r \in Request, FetchFails(r) PROVE OwnCopy'
  BY <1>7, <1>t, <1>c DEF FetchFails
<1>8. ASSUME NEW r \in Request, CacheFetched(r) PROVE OwnCopy'
  <2>1. at[r] \in Node /\ pc[r] \notin Final
    BY <1>8, <1>t, <1>p DEF CacheFetched, Final
  <2>2. at[r] \notin Warm
    BY <1>8, <1>t, <1>a, <1>i, <2>1 DEF CacheFetched
  <2> QED
    BY <1>8, <1>t, <1>d, <2>1, <2>2 DEF CacheFetched
<1>9. ASSUME NEW r \in Request, Recache(r) PROVE OwnCopy'
  <2>1. /\ at[r] \in Node /\ pc[r] \notin Final /\ obj[r] \in Proc
    BY <1>9, <1>t, <1>p, <1>w DEF Recache, Final, Working
  <2>2. /\ pc' = [pc EXCEPT ![r] = "marshalMembers"] /\ UNCHANGED <<obj, at>>
        /\ cache' = [cache EXCEPT ![at[r]] = obj[r]]
    BY <1>9 DEF Recache
  <2>3. ASSUME NEW n \in Warm PROVE Own(n)'
    BY <1>i, <1>t, <1>a, <2>1, <2>2, <2>3
  <2> QED
    BY <1>g, <2>3
<1>10. ASSUME NEW r \in Request, JoinCheckMember(r) PROVE OwnCopy'
  BY <1>10, <1>t, <1>c DEF JoinCheckMember
<1>11. ASSUME NEW r \in Request, JoinCheckPending(r) PROVE OwnCopy'
  BY <1>11, <1>t, <1>c DEF JoinCheckPending
<1>12. ASSUME NEW r \in Request, PutRequest(r) PROVE OwnCopy'
  BY <1>12, <1>t, <1>c DEF PutRequest
<1>13. ASSUME NEW r \in Request, ApproveCheckMember(r) PROVE OwnCopy'
  BY <1>13, <1>t, <1>c DEF ApproveCheckMember
<1>14. ASSUME NEW r \in Request, ApproveCheckRequester(r) PROVE OwnCopy'
  BY <1>14, <1>t, <1>c DEF ApproveCheckRequester
<1>15. ASSUME NEW r \in Request, FindRequest(r) PROVE OwnCopy'
  BY <1>15, <1>t, <1>c DEF FindRequest
<1>16. ASSUME NEW r \in Request, Admit(r) PROVE OwnCopy'
  BY <1>16, <1>t, <1>c DEF Admit
<1>17. ASSUME NEW r \in Request, ResetBalances(r) PROVE OwnCopy'
  BY <1>17, <1>t, <1>c DEF ResetBalances
<1>18. ASSUME NEW r \in Request, DropRequest(r) PROVE OwnCopy'
  BY <1>18, <1>t, <1>c DEF DropRequest
<1>19. ASSUME NEW r \in Request, ExpenseCheckPayer(r) PROVE OwnCopy'
  BY <1>19, <1>t, <1>c DEF ExpenseCheckPayer
<1>20. ASSUME NEW r \in Request, CheckParticipant(r) PROVE OwnCopy'
  <2>1. /\ pc[r] = "checkParticipants" /\ pc'[r] \in {pc[r], "failed"}
        /\ obj'[r] \in {obj[r], None} /\ UNCHANGED <<at, cache>>
        /\ \A q \in Proc : q # r => pc'[q] = pc[q] /\ obj'[q] = obj[q]
    BY <1>20, <1>t DEF CheckParticipant
  <2> QED
    BY <1>t, <1>c, <2>1
<1>21. ASSUME NEW r \in Request, LockShard(r) PROVE OwnCopy'
  BY <1>21, <1>t, <1>c DEF LockShard
<1>22. ASSUME NEW r \in Request, RecordExpense(r) PROVE OwnCopy'
  BY <1>22, <1>t, <1>c DEF RecordExpense
<1>23. ASSUME NEW r \in Request, Charge(r) PROVE OwnCopy'
  BY <1>23, <1>t, <1>c DEF Charge
<1>24. ASSUME NEW r \in Request, Increment(r) PROVE OwnCopy'
  BY <1>24, <1>t, <1>c DEF Increment
<1>25. ASSUME NEW r \in Request, Panic(r) PROVE OwnCopy'
  BY <1>25, <1>t, <1>c DEF Panic
<1>26. ASSUME NEW r \in Request, Charged(r) PROVE OwnCopy'
  BY <1>26, <1>t, <1>c DEF Charged
<1>27. ASSUME NEW r \in Request, Answer(r) PROVE OwnCopy'
  BY <1>27, <1>t, <1>c DEF Answer
<1>28. ASSUME NEW r \in Request, SyncGetFails(r) PROVE OwnCopy'
  BY <1>28, <1>t, <1>c DEF SyncGetFails
<1>29. ASSUME NEW r \in Request, MarshalMembers(r) PROVE OwnCopy'
  BY <1>29, <1>t, <1>c DEF MarshalMembers, Marshal
<1>30. ASSUME NEW r \in Request, MarshalExpenses(r) PROVE OwnCopy'
  BY <1>30, <1>t, <1>c DEF MarshalExpenses, Marshal
<1>31. ASSUME NEW r \in Request, MarshalBalances(r) PROVE OwnCopy'
  BY <1>31, <1>t, <1>c DEF MarshalBalances, Marshal
<1>32. ASSUME NEW r \in Request, MarshalRest(r) PROVE OwnCopy'
  BY <1>32, <1>t, <1>c DEF MarshalRest, Marshal
<1>33. ASSUME NEW r \in Request, PutValue(r) PROVE OwnCopy'
  BY <1>33, <1>t, <1>c DEF PutValue
<1>34. ASSUME NEW r \in Request, PutFails(r) PROVE OwnCopy'
  BY <1>34, <1>t, <1>c DEF PutFails
<1>35. ASSUME NEW p \in Proc, SyncGet(p) PROVE OwnCopy'
  BY <1>35, <1>t, <1>c DEF SyncGet, Syncing
<1>36. ASSUME NEW p \in Proc, SyncCold(p) PROVE OwnCopy'
  <2>1. at[p] \in Node /\ pc[p] \notin Final
    BY <1>36, <1>t, <1>p DEF SyncCold, Final
  <2>2. at[p] \notin Warm
    BY <1>36, <1>t, <1>a, <1>i, <2>1 DEF SyncCold
  <2> QED
    BY <1>36, <1>t, <1>d, <2>1, <2>2 DEF SyncCold, AfterSync
<1>37. ASSUME NEW p \in Proc, SyncMembers(p) PROVE OwnCopy'
  BY <1>37, <1>t, <1>p, <1>c DEF SyncMembers, Final
<1>38. ASSUME NEW p \in Proc, SyncExpenses(p) PROVE OwnCopy'
  BY <1>38, <1>t, <1>c DEF SyncExpenses
<1>39. ASSUME NEW p \in Proc, SyncPending(p) PROVE OwnCopy'
  BY <1>39, <1>t, <1>c DEF SyncPending
<1>40. ASSUME NEW p \in Proc, SyncCounter(p) PROVE OwnCopy'
  BY <1>40, <1>t, <1>c DEF SyncCounter
<1>41. ASSUME NEW p \in Proc, MergeCounter(p) PROVE OwnCopy'
  BY <1>41, <1>t, <1>c DEF MergeCounter, HasCounter, NextCounter
<1>42. ASSUME NEW p \in Proc, EndSync(p) PROVE OwnCopy'
  BY <1>42, <1>t, <1>c DEF EndSync, AfterSync
<1>43. ASSUME NEW n \in Node, DiscoverGet(n) PROVE OwnCopy'
  <2>1. n \notin Warm
    BY <1>43, <1>i, <1>t DEF DiscoverGet
  <2> QED
    BY <1>43, <1>t, <1>d, <2>1 DEF DiscoverGet
<1>44. ASSUME NEW n \in Node, DiscoverCache(n) PROVE OwnCopy'
  <2>1. n \notin Warm
    BY <1>44, <1>i DEF DiscoverCache
  <2> QED
    BY <1>44, <1>t, <1>d, <2>1 DEF DiscoverCache
<1>45. ASSUME NEW n \in Node, Die(n) PROVE OwnCopy'
  <2>1. \A p \in Proc :
          IF RunsOn(p, n) THEN obj'[p] = None /\ pc'[p] = "dead"
          ELSE obj'[p] = obj[p] /\ pc'[p] = pc[p]
    BY <1>45, <1>t DEF Die
  <2>2. pc'[n] = "dead" /\ UNCHANGED at
        /\ \A m \in Node : cache'[m] = IF m = n THEN None ELSE cache[m]
    BY <1>45, <2>1, <1>t DEF Die, RunsOn, LabelInv, Final, Syncs
  <2>3. \A m \in Node : m # n => pc'[m] = pc[m]
    BY <1>t, <2>1 DEF RunsOn
  <2>4. ASSUME NEW m \in Warm PROVE Own(m)'
    BY <1>i, <1>t, <2>1, <2>2, <2>3
  <2> QED
    BY <1>g, <2>4
<1>46. ASSUME NEW r \in Request, JoinStep(r) PROVE OwnCopy'
  BY <1>46, <1>10, <1>11, <1>12
  DEF JoinStep
<1>47. ASSUME NEW r \in Request, ApproveStep(r) PROVE OwnCopy'
  BY <1>47, <1>13, <1>14, <1>15, <1>16, <1>17, <1>18
  DEF ApproveStep
<1>48. ASSUME NEW r \in Request, ExpenseStep(r) PROVE OwnCopy'
  BY <1>48, <1>19, <1>20, <1>21, <1>22, <1>23, <1>24, <1>26
  DEF ExpenseStep
<1>49. ASSUME NEW r \in Request, MarshalStep(r) PROVE OwnCopy'
  BY <1>49, <1>29, <1>30, <1>31, <1>32
  DEF MarshalStep
<1>50. ASSUME NEW r \in Request, RequestStep(r) PROVE OwnCopy'
  BY <1>50, <1>2, <1>3, <1>4, <1>5, <1>6, <1>7, <1>8, <1>46, <1>47, <1>48,
     <1>27, <1>28, <1>25, <1>9, <1>49, <1>33
  DEF RequestStep
<1>51. ASSUME NEW p \in Proc, SyncStep(p) PROVE OwnCopy'
  BY <1>51, <1>35, <1>36, <1>37, <1>38, <1>39, <1>40, <1>41, <1>42
  DEF SyncStep
<1> QED
  BY ConstantsAssumption, <1>0, <1>1, <1>50, <1>34, <1>51, <1>43, <1>44, <1>45
  DEF Next, DiscoverStep, Abort, Crash

\* Only AddExpense charges.
LEMMA StepCharged ==
  [Next]_vars => charged' = charged \/ \E r \in Request : Increment(r)
<1> SUFFICES ASSUME [Next]_vars, \A r \in Request : ~ Increment(r)
             PROVE  charged' = charged
  OBVIOUS
<1> USE DEF history, local, shared
<1>1. ASSUME NEW w \in Workload, Receive(w[1], w[2], w[3]) PROVE charged' = charged
  BY <1>1 DEF Receive
<1>3. ASSUME NEW r \in Request, RequestStep(r) \/ PutFails(r) PROVE charged' = charged
  <2> USE <1>3 DEF Pass, Reject
  <2>1. CASE JoinStep(r) \/ ApproveStep(r)
    BY <2>1 DEF JoinStep, JoinCheckMember, JoinCheckPending, PutRequest,
       ApproveStep, ApproveCheckMember, ApproveCheckRequester, FindRequest,
       Admit, ResetBalances, DropRequest
  <2>2. CASE ExpenseStep(r)
    BY <2>2 DEF ExpenseStep, ExpenseCheckPayer, CheckParticipant, LockShard,
       RecordExpense, Charge, Charged
  <2>3. CASE MarshalStep(r)
    BY <2>3 DEF MarshalStep, MarshalMembers, MarshalExpenses,
       MarshalBalances, MarshalRest, Marshal
  <2> QED
    BY <2>1, <2>2, <2>3 DEF RequestStep, Create, Register, Hit, Miss, Fetch,
       FetchFails, CacheFetched, Answer, SyncGetFails, Panic, Recache,
       PutValue, PutFails
<1>4. ASSUME NEW q \in Proc, SyncStep(q) PROVE charged' = charged
  BY <1>4 DEF SyncStep, SyncGet, SyncCold, SyncMembers, SyncExpenses,
     SyncPending, SyncCounter, MergeCounter, NextCounter, EndSync
<1>5. ASSUME NEW n \in Node, DiscoverStep(n) \/ Die(n) PROVE charged' = charged
  BY <1>5 DEF DiscoverStep, DiscoverGet, DiscoverCache, Die
<1> QED
  BY <1>1, <1>3, <1>4, <1>5, ConstantsAssumption
  DEF Next, Abort, Crash, vars

\* Every step keeps the debts of that copy: the node's charges raise both,
\* merges stay between what the copy showed and what the node charged.
LEMMA StepOwnDebts ==
  TypeInv /\ AllBounded /\ LabelInv /\ HomeInv /\ BirthInv /\ OwnCopy /\ OwnDebts
  /\ [Next]_vars => OwnDebts'
<1> SUFFICES ASSUME TypeInv, AllBounded, LabelInv, HomeInv, BirthInv, OwnCopy,
                    OwnDebts, [Next]_vars, Quiet',
                    NEW n \in Warm, pc'[n] # "dead", NEW d \in Pair
             PROVE  Shown(heap[n], d, n)' = charged'[d][n]
  BY DEF OwnDebts
<1>1. n \in Node /\ n \in Proc /\ at[n] = n
  BY ConstantsAssumption DEF Proc, TypeInv, Pointers
<1>2. TypeInv' /\ AllBounded'
  BY StepTypeInv, StepBounded
<1>3. Quiet
  BY StepQuiet
<1>4. pc[n] # "dead"
  BY <1>1, StaysDead
<1>5. Shown(heap[n], d, n) = charged[d][n] /\ cache[n] = n
  BY <1>3, <1>4 DEF OwnDebts, OwnCopy
<1>6. heap[n].balances \in Balances /\ heap'[n].balances \in Balances
  BY <1>1, <1>2, FieldTypes DEF TypeInv, TypeOK
<1>7. /\ OrZero(heap[n].balances[d]) \in PN!Counter(Node)
      /\ OrZero(heap'[n].balances[d]) \in PN!Counter(Node)
  BY <1>6, OrZeroType DEF Balances
<1>8. /\ Shown(heap[n], d, n) = OrZero(heap[n].balances[d]).P[n]
      /\ Shown(heap[n], d, n)' = OrZero(heap'[n].balances[d]).P[n]
      /\ Shown(heap[n], d, n) \in Int /\ Shown(heap[n], d, n)' \in Int
  BY <1>1, <1>7 DEF Shown, PN!Counter
<1>9. charged[d][n] \in Nat /\ charged'[d][n] \in Nat
  BY <1>1, <1>2 DEF TypeInv, TypeOK
<1>10. Shown(heap[n], d, n)' <= charged'[d][n]
  <2>1. Bounded(heap'[n].balances, charged')
    BY <1>1, <1>2 DEF AllBounded
  <2>2. CASE heap'[n].balances[d] = None
    BY <1>1, <1>8, <1>9, <2>2 DEF OrZero, PN!NewPNCounter
  <2>3. CASE heap'[n].balances[d] # None
    BY <1>1, <1>8, <1>9, <2>1, <2>3 DEF Bounded, OrZero
  <2> QED
    BY <2>2, <2>3
<1>11. CASE charged' = charged
  <2>1. ASSUME NEW r \in Request, ResetBalances(r) PROVE FALSE
    <3>1. call[r] # None /\ call[r].op = "approve_join"
      BY <2>1, HandlerFacts, ConstantsAssumption
      DEF ResetBalances, LabelInv, Approves
    <3> QED
      BY <1>3, <3>1 DEF Quiet, Called
  <2>2. Grows(heap[n].balances, heap'[n].balances)
    BY <1>1, <2>1, StepGrows
  <2>3. Shown(heap[n], d, n)' >= Shown(heap[n], d, n)
    BY <1>1, <1>8, <2>2 DEF Grows
  <2>4. charged'[d][n] = Shown(heap[n], d, n)
    BY <1>5, <1>11
  <2> QED
    BY <1>8, <1>10, <2>3, <2>4
<1>12. CASE \E r \in Request : Increment(r)
  <2>1. PICK r \in Request : Increment(r)
    BY <1>12
  <2> DEFINE e == owing[r]
             b == heap[obj[r]].balances
             c == PN!Increment(b[e], at[r], call[r].share)
  <2>2. /\ obj[r] \in Proc /\ at[r] \in Node /\ e \in Pair /\ call[r].share \in Nat
        /\ heap[obj[r]] \in Group
    BY <2>1, HandlerFacts, CopyFacts
    DEF Increment, Working, Locked, Proc, TypeInv, Pointers
  <2>3. b[e] # None /\ b[e] \in PN!Counter(Node)
    BY <2>1, <2>2, FieldTypes DEF Increment, Copy, Balances
  <2>4. /\ heap' = [heap EXCEPT ![obj[r]].balances[e] = c]
        /\ charged' = [charged EXCEPT ![e][at[r]] = @ + call[r].share]
    BY <2>1 DEF Increment
  <2>5. CASE at[r] # n
    <3>1. obj[r] # n
      BY <1>1, <2>2, <2>5, ConstantsAssumption DEF HomeInv, Proc
    <3>2. heap'[n] = heap[n] /\ charged'[d][n] = charged[d][n]
      BY <1>1, <2>2, <2>4, <2>5, <3>1 DEF TypeInv, TypeOK
    <3> QED
      BY <1>5, <1>8, <3>2
  <2>6. CASE at[r] = n
    <3>1. obj[r] = n
      BY <1>3, <2>2, <2>6, ConstantsAssumption DEF OwnCopy, Proc
    <3>2. heap'[n].balances[d] = IF d = e THEN c ELSE heap[n].balances[d]
      BY <1>1, <2>2, <2>4, <3>1, FieldTypes
      DEF TypeInv, TypeOK, Group, Balances
    <3>3. charged'[d][n] = IF d = e THEN charged[d][n] + call[r].share ELSE charged[d][n]
      BY <1>1, <2>2, <2>4, <2>6 DEF TypeInv, TypeOK
    <3>4. CASE d # e
      BY <1>5, <1>8, <3>2, <3>3, <3>4
    <3>5. CASE d = e
      <4>1. c \in PN!Counter(Node) /\ c.P[n] = b[e].P[n] + call[r].share
        <5>1. c \in PN!Counter(Node)
          BY <2>2, <2>3, IncrementType
        <5>2. c.P[n] = b[e].P[n] + call[r].share
          BY <1>1, <2>3, <2>6 DEF PN!Increment, PN!Counter
        <5> QED BY <5>1, <5>2
      <4>2. c # None /\ OrZero(c) = c /\ OrZero(b[e]) = b[e]
        BY <2>3, <4>1, ConstantsAssumption DEF OrZero
      <4> QED
        BY <1>5, <1>8, <3>1, <3>2, <3>3, <3>5, <4>1, <4>2
    <3> QED
      BY <3>4, <3>5
  <2> QED
    BY <2>5, <2>6
<1> QED
  BY <1>11, <1>12, StepCharged

(***************************************************************************)
(* Rival copies.                                                           *)
(***************************************************************************)
\* The copies made at a node, and what each of them shows.
Homed(n) == {p \in Proc : at[p] = n}

Shows(d, n) == [p \in Proc |-> Shown(heap[p], d, n)]

\* As long as nobody approves, what a node charged is within what the copies
\* made there show together.
HomedInv ==
  ~ Called("approve_join") =>
    \A n \in Node, d \in Pair :
      /\ IsFiniteSet(Homed(n))
      /\ charged[d][n] <= SumFunctionOnSet(Shows(d, n), Homed(n))

\* What a copy shows is a number.
LEMMA ShownType ==
  ASSUME NEW g \in Group, NEW d \in Pair, NEW n \in Node
  PROVE  Shown(g, d, n) = OrZero(g.balances[d]).P[n] /\ Shown(g, d, n) \in Int
<1>1. g.balances \in Balances
  BY FieldTypes
<1>2. OrZero(g.balances[d]) \in PN!Counter(Node)
  BY <1>1, OrZeroType DEF Balances
<1>3. OrZero(g.balances[d]).P[n] \in Int
  BY <1>2 DEF PN!Counter
<1> QED
  BY <1>3 DEF Shown

\* Nothing is charged before anything has happened.
LEMMA InitHomed == Init => HomedInv
<1> SUFFICES ASSUME Init, NEW n \in Node, NEW d \in Pair
             PROVE  /\ IsFiniteSet(Homed(n))
                    /\ charged[d][n] <= SumFunctionOnSet(Shows(d, n), Homed(n))
  BY DEF HomedInv
<1>1. Homed(n) = {n}
  BY ConstantsAssumption DEF Init, Homed, Proc
<1>2. IsFiniteSet(Homed(n))
  BY <1>1, FS_Singleton
<1>3. \A p \in Proc : heap[p].balances = EmptyGroup.balances
  BY SetupBalances DEF Init
<1>4. \A p \in Homed(n) : Shows(d, n)[p] = 0
  BY <1>3 DEF Homed, Shows, Shown, EmptyGroup, OrZero, PN!NewPNCounter
<1>5. charged[d][n] = 0
  BY DEF Init
<1> QED
  BY <1>2, <1>4, <1>5, SumZero

\* An approval that was called for stays called for.
LEMMA StepApproved ==
  ASSUME TypeInv, LabelInv, [Next]_vars, ~ Called("approve_join")'
  PROVE  ~ Called("approve_join")
<1>1. ASSUME NEW r \in Request, call[r] # None PROVE call'[r] = call[r]
  <2>1. ASSUME NEW w \in Workload, Receive(w[1], w[2], w[3]) PROVE call'[r] = call[r]
    <3>1. w[1] \in Request /\ call[w[1]] = None
      BY <2>1, ConstantsAssumption DEF Receive, LabelInv
    <3> QED
      BY <1>1, <2>1, <3>1 DEF Receive, TypeInv, TypeOK
  <2> QED
    BY <2>1, StepCalls
<1> QED
  BY <1>1 DEF Called

\* Every step keeps the charges within those copies: a request brings a copy
\* that shows nothing yet, a charge raises a copy of its own node, and no
\* other step makes any copy show less.
LEMMA StepHomed ==
  TypeInv /\ AllBounded /\ LabelInv /\ HomeInv /\ BirthInv /\ HomedInv
  /\ [Next]_vars => HomedInv'
<1> SUFFICES ASSUME TypeInv, AllBounded, LabelInv, HomeInv, BirthInv, HomedInv,
                    [Next]_vars, ~ Called("approve_join")',
                    NEW n \in Node, NEW d \in Pair
             PROVE  /\ IsFiniteSet(Homed(n)')
                    /\ charged'[d][n] <= SumFunctionOnSet(Shows(d, n)', Homed(n)')
  BY DEF HomedInv
<1> DEFINE f == Shows(d, n)
           g == Shows(d, n)'
           H == Homed(n)
<1>1. ~ Called("approve_join")
  BY StepApproved
<1>2. IsFiniteSet(H) /\ charged[d][n] <= SumFunctionOnSet(f, H)
  BY <1>1 DEF HomedInv
<1>3. TypeInv'
  BY StepTypeInv
<1>4. \A p \in Proc : heap[p] \in Group /\ heap'[p] \in Group
  BY <1>3 DEF TypeInv, TypeOK
<1>5. \A p \in Proc : /\ f[p] = OrZero(heap[p].balances[d]).P[n] /\ f[p] \in Int
                      /\ g[p] = OrZero(heap'[p].balances[d]).P[n] /\ g[p] \in Int
  BY <1>4, ShownType DEF Shows
<1>6. charged[d][n] \in Nat /\ charged'[d][n] \in Nat
  BY <1>3 DEF TypeInv, TypeOK
<1>7. H \subseteq Proc
  BY DEF Homed
<1>8. \A p \in Proc : f[p] <= g[p]
  <2> SUFFICES ASSUME NEW p \in Proc PROVE f[p] <= g[p]
    OBVIOUS
  <2>1. ASSUME NEW r \in Request, ResetBalances(r) PROVE FALSE
    <3>1. call[r] # None /\ call[r].op = "approve_join"
      BY <2>1, HandlerFacts, ConstantsAssumption
      DEF ResetBalances, LabelInv, Approves
    <3> QED
      BY <1>1, <3>1 DEF Called
  <2>2. Grows(heap[p].balances, heap'[p].balances)
    BY <2>1, StepGrows
  <2> QED
    BY <1>5, <2>2 DEF Grows
<1> HIDE DEF f, g, H
<1>9. SumFunctionOnSet(f, H) \in Int /\ SumFunctionOnSet(g, H) \in Int
      /\ SumFunctionOnSet(f, H) <= SumFunctionOnSet(g, H)
  BY <1>2, <1>5, <1>7, <1>8, SumType, SumMonotone
<1>10. CASE \E w \in Workload : Receive(w[1], w[2], w[3])
  <2>1. PICK w \in Workload : Receive(w[1], w[2], w[3])
    BY <1>10
  <2> DEFINE r == w[1]
  <2>2. r \in Proc /\ at[r] = None /\ at' = [at EXCEPT ![r] = w[2]]
    BY <2>1, ConstantsAssumption DEF Receive, LabelInv, Proc
  <2>3. charged' = charged
    BY <2>1 DEF Receive, history
  <2>4. r \notin H
    BY <2>2, ConstantsAssumption DEF H, Homed, Proc
  <2>5. \A p \in Proc : at'[p] = IF p = r THEN w[2] ELSE at[p]
    BY <2>2 DEF TypeInv, TypeOK
  <2>6. Homed(n)' = IF w[2] = n THEN H \cup {r} ELSE H
    BY <2>2, <2>5, ConstantsAssumption DEF H, Homed, Proc
  <2>7. CASE w[2] = n
    <3> DEFINE K == H \cup {r}
    <3>1. IsFiniteSet(K)
      BY <1>2, FS_AddElement
    <3>2. K \ {r} = H /\ r \in K
      BY <2>4
    <3>3. \A p \in K : g[p] \in Int
      BY <1>5, <1>7, <2>2
    <3>4. g[r] >= 0
      <4>1. heap[r] = EmptyGroup
        BY <2>1, ConstantsAssumption DEF Receive, BirthInv, Early, Unborn
      <4>2. f[r] = 0
        BY <1>5, <2>2, <4>1 DEF EmptyGroup, OrZero, PN!NewPNCounter
      <4> QED
        BY <1>5, <1>8, <2>2, <4>2
    <3> HIDE DEF K
    <3>5. SumFunctionOnSet(g, K) = g[r] + SumFunctionOnSet(g, H)
      BY <3>1, <3>2, <3>3, SumRemove
    <3>6. charged'[d][n] <= SumFunctionOnSet(g, K)
      BY <1>2, <1>6, <1>9, <2>3, <3>2, <3>3, <3>4, <3>5
    <3> QED
      BY <2>6, <2>7, <3>1, <3>6 DEF g, K
  <2>8. CASE w[2] # n
    BY <1>2, <1>6, <1>9, <2>3, <2>6, <2>8 DEF g
  <2> QED
    BY <2>7, <2>8
<1>11. CASE at' = at
  <2>1. Homed(n)' = H
    BY <1>11 DEF H, Homed
  <2>2. CASE charged' = charged
    BY <1>2, <1>6, <1>9, <2>1, <2>2 DEF g
  <2>3. ASSUME NEW r \in Request, Increment(r)
        PROVE  charged'[d][n] <= SumFunctionOnSet(g, H)
    <3> DEFINE e == owing[r]
               q == obj[r]
               b == heap[q].balances
               c == PN!Increment(b[e], at[r], call[r].share)
    <3>1. /\ q \in Proc /\ at[r] \in Node /\ e \in Pair /\ call[r].share \in Nat
          /\ heap[q] \in Group
      BY <2>3, HandlerFacts, CopyFacts
      DEF Increment, Working, Locked, Proc, TypeInv, Pointers
    <3>2. b[e] # None /\ b[e] \in PN!Counter(Node)
      BY <2>3, <3>1, FieldTypes DEF Increment, Copy, Balances
    <3>3. /\ heap' = [heap EXCEPT ![q].balances[e] = c]
          /\ charged' = [charged EXCEPT ![e][at[r]] = @ + call[r].share]
      BY <2>3 DEF Increment
    <3>4. CASE at[r] # n \/ e # d
      <4>1. charged'[d][n] = charged[d][n]
        BY <3>1, <3>3, <3>4 DEF TypeInv, TypeOK
      <4> QED
        BY <1>2, <1>6, <1>9, <4>1
    <3>5. CASE at[r] = n /\ e = d
      <4>1. charged'[d][n] = charged[d][n] + call[r].share
        BY <3>1, <3>3, <3>5 DEF TypeInv, TypeOK
      <4>2. q \in H
        BY <3>1, <3>5, ConstantsAssumption DEF HomeInv, Proc, H, Homed
      <4>3. heap'[q].balances[d] = c
        BY <3>1, <3>3, <3>5, FieldTypes DEF TypeInv, TypeOK, Group, Balances
      <4>4. c \in PN!Counter(Node)
        BY <3>1, <3>2, IncrementType
      <4>5. c.P[n] = b[e].P[n] + call[r].share
        BY <3>2, <3>5 DEF PN!Increment, PN!Counter
      <4>6. OrZero(c) = c /\ OrZero(b[e]) = b[e]
        BY <3>2, <4>4, ConstantsAssumption DEF OrZero
      <4>7. g[q] = f[q] + call[r].share
        BY <1>5, <3>1, <3>5, <4>3, <4>5, <4>6
      <4>8. /\ SumFunctionOnSet(f, H) = f[q] + SumFunctionOnSet(f, H \ {q})
            /\ SumFunctionOnSet(g, H) = g[q] + SumFunctionOnSet(g, H \ {q})
        <5>1. \A p \in H : f[p] \in Int /\ g[p] \in Int
          BY <1>5, <1>7
        <5> HIDE DEF q
        <5> QED
          BY <1>2, <4>2, <5>1, SumRemove
      <4>9. IsFiniteSet(H \ {q})
        BY <1>2, FS_Subset
      <4>10. /\ SumFunctionOnSet(f, H \ {q}) \in Int
             /\ SumFunctionOnSet(g, H \ {q}) \in Int
             /\ SumFunctionOnSet(f, H \ {q}) <= SumFunctionOnSet(g, H \ {q})
        BY <1>5, <1>7, <1>8, <4>9, SumType, SumMonotone
      <4> QED
        BY <1>2, <1>5, <1>6, <1>9, <3>1, <4>1, <4>7, <4>8, <4>10
    <3> QED
      BY <3>4, <3>5
  <2> QED
    BY <1>2, <2>1, <2>2, <2>3, StepCharged DEF g
<1> QED
  BY <1>10, <1>11, StepCalls

(***************************************************************************)
(* The theorems.                                                           *)
(***************************************************************************)
NodeInv ==
  /\ TypeInv /\ AllBounded
  /\ LabelInv /\ HomeInv /\ BirthInv
  /\ ChargeInv /\ LockInv
  /\ OwnCopy /\ OwnDebts /\ HomedInv

\* All of this holds before anything has happened ...
LEMMA InitNode == Init => NodeInv
BY InitTypeInv, InitBounded, InitLabels, InitHome, InitBirth, InitCharges,
   InitLocks, InitOwn, InitHomed
DEF NodeInv

\* ... and after every step.
LEMMA StepNode == NodeInv /\ [Next]_vars => NodeInv'
BY StepTypeInv, StepBounded, StepLabels, StepHome, StepBirth, StepCharges,
   StepLocks, StepOwnCopy, StepOwnDebts, StepHomed
DEF NodeInv

\* The shard lock: whoever is in a critical section of AddExpense or SyncGroup
\* holds it, and nobody else does but a handler that panicked because of an
\* approval at its node.
THEOREM LockAlwaysHeld == Spec => []LockHeld
<1>1. NodeInv => LockHeld
  BY DEF NodeInv, LockInv, LockHeld
<1> QED
  BY <1>1, InitNode, StepNode, PTL DEF Spec

\* The debt a copy shows falls in no step but ApproveJoin's initialisation of
\* the balances of its requester.
THEOREM OnlyApprovalsForgive == Spec => OnlyApprovalForgives
<1>1. NodeInv /\ [Next]_vars => [Forgives]_vars
  BY StepForgives DEF NodeInv
<1> QED
  BY <1>1, InitNode, StepNode, PTL DEF Spec, OnlyApprovalForgives, Forgives

\* The copy a node starts with shows all that the node charged, as long as
\* nobody approves or creates.
THEOREM OwnDebtsAlwaysKept == Spec => []OwnDebtsKept
<1>1. NodeInv => OwnDebtsKept
  BY DEF NodeInv, OwnCopy, OwnDebts, OwnDebtsKept, Quiet
<1> QED
  BY <1>1, InitNode, StepNode, PTL DEF Spec

\* A node's charge that its cached copy lacks is in a copy that was displaced,
\* whole: with no approval, no merge and no failure takes it (JoinGroup's and
\* the loop's pointers, racing fetches and CreateGroup are what displaces).
THEOREM RivalsAloneTakeDebts == Spec => []OnlyRivalsTakeDebts
<1>1. NodeInv => OnlyRivalsTakeDebts
  <2> SUFFICES ASSUME NodeInv, ~ Called("approve_join"), NEW n \in Node,
                      NEW d \in Pair, cache[n] # None
               PROVE  charged[d][n] <= Shown(heap[cache[n]], d, n)
                        + PN!SumFunction([p \in Rivals(n) |-> Shown(heap[p], d, n)])
    BY DEF OnlyRivalsTakeDebts
  <2> DEFINE f == Shows(d, n)
             H == Homed(n)
             R == Rivals(n)
             g == [p \in R |-> Shown(heap[p], d, n)]
  <2>1. IsFiniteSet(H) /\ charged[d][n] <= SumFunctionOnSet(f, H)
    BY DEF NodeInv, HomedInv
  <2>2. cache[n] \in H /\ R = H \ {cache[n]}
    BY ConstantsAssumption DEF NodeInv, TypeInv, TypeOK, HomeInv, Homed, Rivals
  <2>3. \A p \in H : f[p] = Shown(heap[p], d, n) /\ f[p] \in Int
    BY ShownType DEF NodeInv, TypeInv, TypeOK, Homed, Shows
  <2>4. \A p \in R : f[p] \in Int /\ g[p] = f[p]
    BY <2>2, <2>3
  <2>5. DOMAIN g = R
    OBVIOUS
  <2> HIDE DEF f, g, H, R
  <2>6. SumFunctionOnSet(f, H) = f[cache[n]] + SumFunctionOnSet(f, H \ {cache[n]})
    BY <2>1, <2>2, <2>3, SumRemove
  <2>7. IsFiniteSet(R)
    BY <2>1, <2>2, FS_Subset
  <2>8. SumFunctionOnSet(f, R) = SumFunctionOnSet(g, R)
    BY <2>4, <2>7, SumSame
  <2>9. PN!SumFunction(g) = SumFunctionOnSet(g, R)
    BY <2>5, SumIsLibrary
  <2>10. charged[d][n] <= Shown(heap[cache[n]], d, n) + PN!SumFunction(g)
    BY <2>1, <2>2, <2>3, <2>6, <2>8, <2>9
  <2> QED
    BY <2>10 DEF g, R
<1> QED
  BY <1>1, InitNode, StepNode, PTL DEF Spec

\* The debts add up: with no approval and no creation, and once every handler
\* that recorded an expense has charged it, the nodes show under their own
\* identifiers, each in its own copy, together exactly what the recorded
\* expenses make due (AddExpense, SyncGroup and the failing writes between).
THEOREM DebtsAlwaysAddUp == Spec => []DebtsAddUp
<1>1. NodeInv /\ DebtInv => DebtsAddUp
  <2> SUFFICES ASSUME NodeInv, DebtInv, Settled, NEW d \in Pair,
                      ~ Called("approve_join"), ~ Called("create_group"),
                      \A n \in Node : n \in Warm /\ cache[n] # None
               PROVE  PN!SumFunction([n \in Node |-> Shown(heap[cache[n]], d, n)])
                        = Owed(d)
    BY DEF DebtsAddUp
  <2> DEFINE f == [n \in Node |-> Shown(heap[cache[n]], d, n)]
  <2>1. TypeOK /\ WarrantInv
    BY DEF DebtInv, TypeInv
  <2>2. OwnDebtsKept
    BY DEF NodeInv, OwnCopy, OwnDebts, OwnDebtsKept, Quiet
  <2>3. \A n \in Node : charged[d][n] \in Int /\ f[n] = charged[d][n]
    BY <2>1, <2>2 DEF OwnDebtsKept, TypeOK
  <2>4. DOMAIN f = Node
    OBVIOUS
  <2> HIDE DEF f
  <2>5. SumFunctionOnSet(f, Node) = SumFunctionOnSet(charged[d], Node)
    BY <2>3, NodesAssumption, SumSame
  <2>6. PN!SumFunction(f) = Owed(d)
    BY <2>1, <2>4, <2>5, SumIsLibrary, SettledIsExact
  <2> QED
    BY <2>6 DEF f
<1> QED
  BY <1>1, InitNode, StepNode, InitDebts, StepDebts, PTL DEF Spec
=============================================================================
