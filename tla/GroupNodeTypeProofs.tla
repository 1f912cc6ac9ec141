------------------------ MODULE GroupNodeTypeProofs ------------------------
(***************************************************************************)
(* Type correctness of GroupNode, for any nodes, requests, users, expenses *)
(* and workload, with crashes and DHT failures or without.                 *)
(***************************************************************************)
EXTENDS GroupNode, TLAPS

(***************************************************************************)
(* What the operators on maps and counters return.                         *)
(***************************************************************************)
\* The maps of crdt/ormap.go stay maps, one value to a slot: Put ...
LEMMA PutType ==
  ASSUME NEW K, NEW T, NEW V, NEW m \in OrMap!Map(K, T, V),
         NEW k \in K, NEW v \in V, NEW t \in T
  PROVE  OrMap!Put(m, k, v, t) \in OrMap!Map(K, T, V)
BY DEF OrMap!Put, OrMap!Map, OrMap!SameSlot

\* ... Remove with the empty tag ...
LEMMA RemoveKeyType ==
  ASSUME NEW K, NEW T, NEW V, NEW m \in OrMap!Map(K, T, V), NEW k
  PROVE  OrMap!RemoveKey(m, k) \in OrMap!Map(K, T, V)
BY DEF OrMap!RemoveKey, OrMap!Map

\* ... and Merge.
LEMMA MergeType ==
  ASSUME NEW K, NEW T, NEW V,
         NEW m \in OrMap!Map(K, T, V), NEW o \in OrMap!Map(K, T, V)
  PROVE  OrMap!Merge(m, o) \in OrMap!Map(K, T, V)
BY DEF OrMap!Merge, OrMap!Map, OrMap!SameSlot

\* The counters of crdt/pncounter.go stay counters: a new one ...
LEMMA NewCounterType == PN!NewPNCounter(Node) \in PN!Counter(Node)
BY DEF PN!Counter, PN!NewPNCounter

\* ... after Increment ...
LEMMA IncrementType ==
  ASSUME NEW c \in PN!Counter(Node), NEW n \in Node, NEW k \in Int
  PROVE  PN!Increment(c, n, k) \in PN!Counter(Node)
BY DEF PN!Counter, PN!Increment

\* ... and after Merge.
LEMMA CounterMergeType ==
  ASSUME NEW c \in PN!Counter(Node), NEW o \in PN!Counter(Node)
  PROVE  PN!Merge(c, o) \in PN!Counter(Node)
BY DEF PN!Counter, PN!Merge, PN!Max2

\* A missing counter reads as zero.
LEMMA OrZeroType ==
  ASSUME NEW c \in {None} \cup PN!Counter(Node)
  PROVE  OrZero(c) \in PN!Counter(Node)
BY NewCounterType DEF OrZero

\* Balances stay balances when one pair gets another counter or none.
LEMMA BalancesUpdate ==
  ASSUME NEW b \in Balances, NEW d \in Pair,
         NEW c \in {None} \cup PN!Counter(Node)
  PROVE  [b EXCEPT ![d] = c] \in Balances
BY DEF Balances

\* The groups a copy starts from are groups.
LEMMA GroupTypes ==
  /\ EmptyGroup \in Group
  /\ SetupGroup \in Group
  /\ OrMap!NewORMap \in OrMap!Map(User, Tag, User)
<1>1. OrMap!NewORMap \in OrMap!Map(User, Tag, User)
  BY DEF OrMap!NewORMap, OrMap!Map
<1>2. OrMap!NewORMap \in OrMap!Map(ExpenseId, Tag, Call)
  BY DEF OrMap!NewORMap, OrMap!Map
<1>3. [d \in Pair |-> None] \in Balances
  BY DEF Balances
<1>4. EmptyGroup \in Group
  BY <1>1, <1>2, <1>3 DEF EmptyGroup, Group
<1>5. \A U \in SUBSET User : SetupEntries(U) \in OrMap!Map(User, Tag, User)
  BY DEF SetupEntries, OrMap!Map, Tag
<1>6. SetupGroup \in Group
  BY <1>4, <1>5, ConstantsAssumption DEF SetupGroup, Group
<1> QED BY <1>1, <1>4, <1>6

\* The invariant holds before anything has happened.
LEMMA InitTypeInv == Init => TypeInv
<1> SUFFICES ASSUME Init PROVE TypeInv
  OBVIOUS
<1> USE GroupTypes DEF Init
<1>1. cache \in [Node -> Proc \cup {None}] /\ heap \in [Proc -> Group]
  BY ConstantsAssumption DEF Proc
<1>2. lock \in [Node -> Proc \cup {None}] /\ dht \in Group \cup {NoGroup}
  OBVIOUS
<1>3. pc \in [Proc -> PC] /\ at \in [Proc -> Node \cup {None}]
  BY DEF PC, Proc
<1>4. issued \in Issued
  BY ConstantsAssumption DEF Issued, SetupEntries, OrMap!NewORMap, Tag
<1>5. charged \in [Pair -> [Node -> Nat]]
  OBVIOUS
<1>6. TypeOK
  BY <1>1, <1>2, <1>3, <1>4, <1>5 DEF TypeOK
<1>7. Pointers
  BY DEF Pointers, Proc, Working, Marshalling, Locked
<1> QED BY <1>6, <1>7 DEF TypeInv

\* Each field of a group may be replaced by another of its type.
LEMMA FieldTypes ==
  ASSUME NEW g \in Group
  PROVE  /\ \A m \in OrMap!Map(User, Tag, User) :
              /\ [g EXCEPT !.members = m] \in Group
              /\ [g EXCEPT !.pending = m] \in Group
         /\ \A m \in OrMap!Map(ExpenseId, Tag, Call) :
              [g EXCEPT !.expenses = m] \in Group
         /\ \A b \in Balances :
              [g EXCEPT !.balances = b] \in Group
         /\ \A t \in Int : [g EXCEPT !.keyTime = t] \in Group
         /\ g.members \in OrMap!Map(User, Tag, User)
         /\ g.pending \in OrMap!Map(User, Tag, User)
         /\ g.expenses \in OrMap!Map(ExpenseId, Tag, Call)
         /\ g.balances \in Balances
         /\ g.keyTime \in Int
BY DEF Group

\* A handler under way has a call of the workload and runs on a node.
LEMMA HandlerFacts ==
  ASSUME TypeInv, NEW r \in Request, pc[r] \notin {"idle", "dead"}
  PROVE  /\ at[r] \in Node
         /\ call[r] \in Calls
         /\ call[r] \in Call
         /\ call[r].user \in User /\ call[r].subject \in User
         /\ call[r].id \in ExpenseId
         /\ call[r].parts \in SUBSET User
         /\ call[r].share \in Nat
<1>1. at[r] \in Node /\ call[r] \in Calls
  BY DEF TypeInv, Pointers
<1>2. Calls \subseteq Call
  BY ConstantsAssumption DEF Calls
<1> QED BY <1>1, <1>2 DEF Call

\* Where a process uses a copy it has one.
LEMMA CopyFacts ==
  ASSUME TypeInv, NEW p \in Proc, pc[p] \in Working
  PROVE  obj[p] \in Proc /\ heap[obj[p]] \in Group
BY DEF TypeInv, TypeOK, Pointers

\* A copy may be replaced by another group.
LEMMA HeapUpdate ==
  ASSUME TypeOK, NEW q \in Proc, NEW g \in Group
  PROVE  [heap EXCEPT ![q] = g] \in [Proc -> Group]
BY DEF TypeOK

\* The entries that go into the history.
LEMMA EntryTypes ==
  ASSUME NEW r \in Request
  PROVE  /\ \A u \in User :
              Entry(u, r, u) \in [key : User, tag : Tag, val : User]
         /\ \A i \in ExpenseId, c \in Call :
              Entry(i, r, c) \in [key : ExpenseId, tag : Tag, val : Call]
BY DEF Entry, Tag

\* ... and may be added to the entries that were ever put.
LEMMA IssuedTypes ==
  ASSUME NEW i \in Issued, NEW r \in Request, NEW u \in User
  PROVE  /\ [i EXCEPT !.members = i.members \cup {Entry(u, r, u)}] \in Issued
         /\ [i EXCEPT !.pending = i.pending \cup {Entry(u, r, u)}] \in Issued
<1> DEFINE E == [key : User, tag : Tag, val : User]
<1>1. Entry(u, r, u) \in E
  BY EntryTypes
<1>2. i.members \cup {Entry(u, r, u)} \in SUBSET E
  BY <1>1 DEF Issued
<1>3. i.pending \cup {Entry(u, r, u)} \in SUBSET E
  BY <1>1 DEF Issued
<1> HIDE DEF E
<1>4. \A m \in SUBSET E : /\ [i EXCEPT !.members = m] \in Issued
                          /\ [i EXCEPT !.pending = m] \in Issued
  BY DEF Issued, E
<1> QED BY <1>2, <1>3, <1>4

\* A handler that returns leaves nothing of its own behind.
LEMMA FinishTypes ==
  ASSUME TypeOK, NEW r \in Request, NEW outcome \in Final, Finish(r, outcome)
  PROVE  /\ pc' \in [Proc -> PC]
         /\ obj' \in [Proc -> Proc \cup {None}]
         /\ buf' \in [Proc -> Group]
         /\ todo' \in [Request -> SUBSET User]
         /\ owing' \in [Proc -> Pair \cup {None}]
BY GroupTypes DEF Finish, Goto, TypeOK, PC

\* A handler that returns an error keeps the invariant ...
LEMMA RejectTypeInv ==
  ASSUME TypeInv, NEW r \in Request, pc[r] \notin {"idle", "dead"}, Reject(r)
  PROVE  TypeInv'
<1> USE GroupTypes DEF TypeInv, Reject, Finish, Goto, shared, history
<1>1. TypeOK'
  BY DEF TypeOK, PC, Proc, Final
<1>2. Pointers'
  BY DEF TypeOK, Pointers, Proc, Working, Marshalling, Locked
<1> QED BY <1>1, <1>2

\* ... and so does one that only goes on to another label.
LEMMA PassTypeInv ==
  ASSUME TypeInv, NEW r \in Request, pc[r] \in Working,
         NEW label \in PC \ {"increment", "mergeCounter"}, Pass(r, label)
  PROVE  TypeInv'
<1> USE DEF TypeInv, Pass, Goto, shared, local, history
<1>1. TypeOK'
  BY DEF TypeOK, Proc
<1>2. Pointers'
  BY DEF TypeOK, Pointers, Proc, Working, Marshalling, Locked
<1> QED BY <1>1, <1>2

\* Every step of every process keeps the invariant.
LEMMA StepTypeInv == TypeInv /\ [Next]_vars => TypeInv'
<1> SUFFICES ASSUME TypeInv, [Next]_vars PROVE TypeInv'
  OBVIOUS
<1> USE ConstantsAssumption DEF TypeInv, Goto, Finish, shared, local, history
<1>0. CASE UNCHANGED vars
  BY <1>0 DEF vars, TypeOK, Pointers
<1>1. ASSUME NEW w \in Workload, Receive(w[1], w[2], w[3]) PROVE TypeInv'
  <2>1. /\ w[1] \in Request /\ w[2] \in Node /\ w[3] \in Call /\ w[3] \in Calls
        /\ Entrance(w[3].op) \in {"create", "syncGet", "lookup"}
    BY DEF Calls, Entrance
  <2>2. TypeOK'
    BY <1>1, <2>1 DEF Receive, TypeOK, PC, Proc
  <2>3. Pointers'
    BY <1>1, <2>1 DEF Receive, TypeOK, Pointers, Proc, Working, Marshalling,
       Locked
  <2> QED BY <2>2, <2>3
<1>2. ASSUME NEW r \in Request, Create(r) PROVE TypeInv'
  <2> DEFINE u == call[r].user
  <2>1. call[r].user \in User /\ r \in Tag
    BY <1>2, HandlerFacts DEF Create, Tag
  <2>2. OrMap!Put(OrMap!NewORMap, u, u, r) \in OrMap!Map(User, Tag, User)
    BY <2>1, GroupTypes, PutType
  <2>3. heap' \in [Proc -> Group]
    <3>1. PICK t \in Stamps :
            heap' = [heap EXCEPT ![r] =
                       [EmptyGroup EXCEPT
                          !.members = OrMap!Put(OrMap!NewORMap, u, u, r),
                          !.keyTime = t]]
      BY <1>2 DEF Create
    <3> DEFINE m == OrMap!Put(OrMap!NewORMap, u, u, r)
               g == [EmptyGroup EXCEPT !.members = m, !.keyTime = t]
    <3>2. g \in Group
      <4>1. t \in Int
        BY ConstantsAssumption
      <4>2. [EmptyGroup EXCEPT !.members = m] \in Group
        BY <2>2, GroupTypes, FieldTypes
      <4>3. [[EmptyGroup EXCEPT !.members = m] EXCEPT !.keyTime = t] \in Group
        BY <4>1, <4>2, FieldTypes
      <4> QED BY <4>3
    <3>3. heap' = [heap EXCEPT ![r] = g]
      BY <3>1
    <3> QED BY <3>2, <3>3, HeapUpdate DEF Proc
  <2>4. issued' \in Issued
    <3>1. issued' = [issued EXCEPT !.members =
                       issued.members \cup {Entry(call[r].user, r, call[r].user)}]
      BY <1>2 DEF Create
    <3>2. issued \in Issued
      BY DEF TypeOK
    <3> QED BY <2>1, <3>1, <3>2, IssuedTypes
  <2>5. TypeOK'
    BY <1>2, <2>3, <2>4 DEF Create, TypeOK, PC, Proc, Final, Marshalling,
       Locked
  <2>6. Pointers'
    BY <1>2, <2>3, <2>4 DEF Create, TypeOK, Pointers, Proc, Working,
       Marshalling, Locked
  <2> QED BY <2>5, <2>6
<1>3. ASSUME NEW r \in Request, Register(r) PROVE TypeInv'
  <2>1. TypeOK'
    BY <1>3, GroupTypes DEF Register, TypeOK, PC, Proc, Final, Marshalling,
       Locked
  <2>2. Pointers'
    BY <1>3, GroupTypes DEF Register, TypeOK, Pointers, Proc, Working,
       Marshalling, Locked
  <2> QED BY <2>1, <2>2
<1>4. ASSUME NEW r \in Request, Hit(r) PROVE TypeInv'
  <2>1. TypeOK'
    BY <1>4, HandlerFacts DEF Hit, TypeOK, PC, Proc, Final, Marshalling,
       Locked
  <2>2. Pointers'
    BY <1>4, HandlerFacts DEF Hit, TypeOK, Pointers, Proc, Working,
       Marshalling, Locked
  <2> QED BY <2>1, <2>2
<1>5. ASSUME NEW r \in Request, Miss(r) PROVE TypeInv'
  <2>1. TypeOK'
    BY <1>5, HandlerFacts DEF Miss, TypeOK, PC, Proc, Final, Marshalling,
       Locked
  <2>2. Pointers'
    BY <1>5, HandlerFacts DEF Miss, TypeOK, Pointers, Proc, Working,
       Marshalling, Locked
  <2> QED BY <2>1, <2>2
<1>6. ASSUME NEW r \in Request, Fetch(r) PROVE TypeInv'
  <2>1. TypeOK'
    BY <1>6 DEF Fetch, TypeOK, PC, Proc, Final, Marshalling, Locked
  <2>2. Pointers'
    BY <1>6 DEF Fetch, TypeOK, Pointers, Proc, Working, Marshalling, Locked
  <2> QED BY <2>1, <2>2
<1>7. ASSUME NEW r \in Request, FetchFails(r) PROVE TypeInv'
  <2>1. TypeOK'
    BY <1>7, GroupTypes DEF FetchFails, TypeOK, PC, Proc, Final, Marshalling,
       Locked
  <2>2. Pointers'
    BY <1>7, GroupTypes DEF FetchFails, TypeOK, Pointers, Proc, Working,
       Marshalling, Locked
  <2> QED BY <2>1, <2>2
<1>8. ASSUME NEW r \in Request, CacheFetched(r) PROVE TypeInv'
  <2>1. TypeOK'
    BY <1>8, GroupTypes DEF CacheFetched, TypeOK, PC, Proc, Final,
       Marshalling, Locked
  <2>2. Pointers'
    BY <1>8, GroupTypes DEF CacheFetched, TypeOK, Pointers, Proc, Working,
       Marshalling, Locked
  <2> QED BY <2>1, <2>2
<1>9. ASSUME NEW r \in Request, Recache(r) PROVE TypeInv'
  <2>1. TypeOK'
    BY <1>9, CopyFacts DEF Recache, TypeOK, PC, Proc, Final, Marshalling,
       Locked
  <2>2. Pointers'
    BY <1>9, CopyFacts DEF Recache, TypeOK, Pointers, Proc, Working,
       Marshalling, Locked
  <2> QED BY <2>1, <2>2
<1>10. ASSUME NEW r \in Request, JoinCheckMember(r) PROVE TypeInv'
  BY <1>10, PassTypeInv, RejectTypeInv DEF JoinCheckMember, PC, Working
<1>11. ASSUME NEW r \in Request, JoinCheckPending(r) PROVE TypeInv'
  BY <1>11, PassTypeInv, RejectTypeInv DEF JoinCheckPending, PC, Working
<1>12. ASSUME NEW r \in Request, PutRequest(r) PROVE TypeInv'
  <2>1. /\ call[r].user \in User /\ call[r].subject \in User /\ r \in Tag
        /\ call[r] \in Call /\ call[r].id \in ExpenseId
        /\ obj[r] \in Proc /\ heap[obj[r]] \in Group
    BY <1>12, HandlerFacts, CopyFacts DEF PutRequest, Tag, Proc,
       Final, Working, Marshalling, Locked
  <2> DEFINE m == OrMap!Put(heap[obj[r]].pending, call[r].user, call[r].user, r)
  <2>2. m \in OrMap!Map(User, Tag, User)
    BY <2>1, FieldTypes, PutType
  <2>3. heap' = [heap EXCEPT ![obj[r]] = [heap[obj[r]] EXCEPT !.pending = m]]
    BY <1>12 DEF PutRequest
  <2>4. heap' \in [Proc -> Group]
    BY <2>1, <2>2, <2>3, FieldTypes, HeapUpdate
  <2>5. issued' \in Issued
    <3>1. issued' = [issued EXCEPT !.pending =
                       issued.pending \cup {Entry(call[r].user, r, call[r].user)}]
      BY <1>12 DEF PutRequest
    <3>2. issued \in Issued
      BY DEF TypeOK
    <3> QED BY <2>1, <3>1, <3>2, IssuedTypes
  <2>6. TypeOK'
    BY <1>12, <2>1, <2>4, <2>5 DEF PutRequest, TypeOK, PC, Proc, Final,
       Marshalling, Locked
  <2>7. Pointers'
    BY <1>12, <2>1, <2>4, <2>5 DEF PutRequest, TypeOK, Pointers, Proc, Working,
       Marshalling, Locked
  <2> QED BY <2>6, <2>7
<1>13. ASSUME NEW r \in Request, ApproveCheckMember(r) PROVE TypeInv'
  BY <1>13, PassTypeInv, RejectTypeInv DEF ApproveCheckMember, PC, Working
<1>14. ASSUME NEW r \in Request, ApproveCheckRequester(r) PROVE TypeInv'
  BY <1>14, PassTypeInv, RejectTypeInv DEF ApproveCheckRequester, PC, Working
<1>15. ASSUME NEW r \in Request, FindRequest(r) PROVE TypeInv'
  BY <1>15, PassTypeInv, RejectTypeInv DEF FindRequest, PC, Working
<1>16. ASSUME NEW r \in Request, Admit(r) PROVE TypeInv'
  <2>1. /\ call[r].user \in User /\ call[r].subject \in User /\ r \in Tag
        /\ call[r] \in Call /\ call[r].id \in ExpenseId
        /\ obj[r] \in Proc /\ heap[obj[r]] \in Group
    BY <1>16, HandlerFacts, CopyFacts DEF Admit, Tag, Proc,
       Final, Working, Marshalling, Locked
  <2> DEFINE m == OrMap!Put(heap[obj[r]].members, call[r].subject,
                              call[r].subject, r)
  <2>2. m \in OrMap!Map(User, Tag, User)
    BY <2>1, FieldTypes, PutType
  <2>3. heap' = [heap EXCEPT ![obj[r]] = [heap[obj[r]] EXCEPT !.members = m]]
    BY <1>16 DEF Admit
  <2>4. heap' \in [Proc -> Group]
    BY <2>1, <2>2, <2>3, FieldTypes, HeapUpdate
  <2>5. issued' \in Issued
    <3>1. issued' = [issued EXCEPT !.members =
                       issued.members \cup {Entry(call[r].subject, r, call[r].subject)}]
      BY <1>16 DEF Admit
    <3>2. issued \in Issued
      BY DEF TypeOK
    <3> QED BY <2>1, <3>1, <3>2, IssuedTypes
  <2>6. TypeOK'
    BY <1>16, <2>1, <2>4, <2>5 DEF Admit, TypeOK, PC, Proc, Final, Marshalling,
       Locked
  <2>7. Pointers'
    BY <1>16, <2>1, <2>4, <2>5 DEF Admit, TypeOK, Pointers, Proc, Working,
       Marshalling, Locked
  <2> QED BY <2>6, <2>7
<1>17. ASSUME NEW r \in Request, ResetBalances(r) PROVE TypeInv'
  <2>1. obj[r] \in Proc /\ heap[obj[r]] \in Group
    BY <1>17, CopyFacts DEF ResetBalances, Proc, Working, Locked
  <2> DEFINE f == [d \in Pair |-> IF d[1] = call[r].subject
                             THEN None
                             ELSE heap[obj[r]].balances[d]]
  <2>2. f \in Balances
    BY <1>17, <2>1, FieldTypes, NewCounterType DEF Balances
  <2>3. heap' = [heap EXCEPT ![obj[r]] = [heap[obj[r]] EXCEPT !.balances = f]]
    BY <1>17 DEF ResetBalances
  <2>4. heap' \in [Proc -> Group]
    BY <2>1, <2>2, <2>3, FieldTypes, HeapUpdate
  <2>5. TypeOK'
    BY <1>17, <2>1, <2>4 DEF ResetBalances, TypeOK, PC, Proc, Final,
       Marshalling, Locked
  <2>6. Pointers'
    BY <1>17, <2>1, <2>4 DEF ResetBalances, TypeOK, Pointers, Proc, Working,
       Marshalling, Locked
  <2> QED BY <2>5, <2>6
<1>18. ASSUME NEW r \in Request, DropRequest(r) PROVE TypeInv'
  <2>1. obj[r] \in Proc /\ heap[obj[r]] \in Group
    BY <1>18, CopyFacts DEF DropRequest, Proc, Working, Locked
  <2> DEFINE f == OrMap!RemoveKey(heap[obj[r]].pending, call[r].subject)
  <2>2. f \in OrMap!Map(User, Tag, User)
    BY <1>18, <2>1, FieldTypes, RemoveKeyType
  <2>3. heap' = [heap EXCEPT ![obj[r]] = [heap[obj[r]] EXCEPT !.pending = f]]
    BY <1>18 DEF DropRequest
  <2>4. heap' \in [Proc -> Group]
    BY <2>1, <2>2, <2>3, FieldTypes, HeapUpdate
  <2>5. TypeOK'
    BY <1>18, <2>1, <2>4 DEF DropRequest, TypeOK, PC, Proc, Final, Marshalling,
       Locked
  <2>6. Pointers'
    BY <1>18, <2>1, <2>4 DEF DropRequest, TypeOK, Pointers, Proc, Working,
       Marshalling, Locked
  <2> QED BY <2>5, <2>6
<1>19. ASSUME NEW r \in Request, ExpenseCheckPayer(r) PROVE TypeInv'
  <2>1. CASE IsMember(r, call[r].user)
    <3>1. call[r].parts \in SUBSET User
      BY <1>19, HandlerFacts DEF ExpenseCheckPayer
    <3>2. TypeOK'
      BY <1>19, <2>1, <3>1 DEF ExpenseCheckPayer, TypeOK, PC, Proc
    <3>3. Pointers'
      BY <1>19, <2>1 DEF ExpenseCheckPayer, TypeOK, Pointers, Proc, Working,
         Marshalling, Locked
    <3> QED BY <3>2, <3>3
  <2>2. CASE ~ IsMember(r, call[r].user)
    BY <1>19, <2>2, RejectTypeInv DEF ExpenseCheckPayer
  <2> QED BY <2>1, <2>2
<1>20. ASSUME NEW r \in Request, CheckParticipant(r) PROVE TypeInv'
  <2>1. pc[r] \in Working /\ pc[r] \notin {"idle", "dead"}
    BY <1>20 DEF CheckParticipant, Working
  <2>2. PICK u \in todo[r] :
          IF IsMember(r, u)
          THEN /\ todo' = [todo EXCEPT ![r] = @ \ {u}]
               /\ UNCHANGED <<shared, pc, at, call, obj, buf, owing, history>>
          ELSE Reject(r)
    BY <1>20 DEF CheckParticipant
  <2>3. CASE IsMember(r, u)
    <3>1. TypeOK'
      BY <2>2, <2>3 DEF TypeOK
    <3>2. Pointers'
      BY <2>2, <2>3 DEF Pointers
    <3> QED BY <3>1, <3>2
  <2>4. CASE ~ IsMember(r, u)
    BY <2>1, <2>2, <2>4, RejectTypeInv
  <2> QED BY <2>3, <2>4
<1>21. ASSUME NEW r \in Request, LockShard(r) PROVE TypeInv'
  <2>1. TypeOK'
    BY <1>21, HandlerFacts DEF LockShard, TypeOK, PC, Proc, Final, Marshalling,
       Locked
  <2>2. Pointers'
    BY <1>21, HandlerFacts DEF LockShard, TypeOK, Pointers, Proc, Working,
       Marshalling, Locked
  <2> QED BY <2>1, <2>2
<1>22. ASSUME NEW r \in Request, RecordExpense(r) PROVE TypeInv'
  <2>1. /\ call[r].user \in User /\ call[r].subject \in User /\ r \in Tag
        /\ call[r] \in Call /\ call[r].id \in ExpenseId
        /\ obj[r] \in Proc /\ heap[obj[r]] \in Group
    BY <1>22, HandlerFacts, CopyFacts DEF RecordExpense, Tag, Proc,
       Final, Working, Marshalling, Locked
  <2> DEFINE m == OrMap!Put(heap[obj[r]].expenses, call[r].id, call[r], r)
  <2>2. m \in OrMap!Map(ExpenseId, Tag, Call)
    BY <2>1, FieldTypes, PutType
  <2>3. heap' = [heap EXCEPT ![obj[r]] = [heap[obj[r]] EXCEPT !.expenses = m]]
    BY <1>22 DEF RecordExpense
  <2>4. heap' \in [Proc -> Group]
    BY <2>1, <2>2, <2>3, FieldTypes, HeapUpdate
  <2>5. issued' \in Issued
    <3>1. issued' = [issued EXCEPT !.expenses =
                       @ \cup {Entry(call[r].id, r, call[r])}]
      BY <1>22 DEF RecordExpense
    <3>2. Entry(call[r].id, r, call[r])
            \in [key : ExpenseId, tag : Tag, val : Call]
      BY <2>1, EntryTypes
    <3> QED BY <3>1, <3>2 DEF TypeOK, Issued
  <2>6. Debtors(call[r]) \in SUBSET User
    BY <1>22, HandlerFacts DEF RecordExpense, Debtors
  <2>7. TypeOK'
    BY <1>22, <2>1, <2>4, <2>5, <2>6 DEF RecordExpense, TypeOK, PC, Proc,
       Final, Marshalling, Locked
  <2>8. Pointers'
    BY <1>22, <2>1, <2>4, <2>5, <2>6 DEF RecordExpense, TypeOK, Pointers, Proc,
       Working, Marshalling, Locked
  <2> QED BY <2>7, <2>8
<1>23. ASSUME NEW r \in Request, Charge(r) PROVE TypeInv'
  <2>1. /\ obj[r] \in Proc /\ heap[obj[r]] \in Group
        /\ at[r] \in Node /\ call[r].user \in User
    BY <1>23, HandlerFacts, CopyFacts DEF Charge, Proc, Working, Locked
  <2> DEFINE b == heap[obj[r]].balances
             f(d) == [b EXCEPT ![d] = OrZero(b[d])]
  <2>2. PICK d \in Pair :
          /\ heap' = [heap EXCEPT ![obj[r]] =
                        [heap[obj[r]] EXCEPT !.balances = f(d)]]
          /\ owing' = [owing EXCEPT ![r] = d]
    BY <1>23, <2>1 DEF Charge, Pair, TypeOK
  <2>3. f(d) \in Balances
    BY <2>1, FieldTypes, OrZeroType, BalancesUpdate DEF Balances
  <2>4. heap' \in [Proc -> Group]
    BY <2>1, <2>2, <2>3, FieldTypes, HeapUpdate
  <2>5. TypeOK'
    BY <1>23, <2>2, <2>4 DEF Charge, TypeOK, PC, Proc, Final, Marshalling,
       Locked
  <2>6. Pointers'
    BY <1>23, <2>2, <2>4 DEF Charge, TypeOK, Pointers, Proc, Working,
       Marshalling, Locked
  <2> QED BY <2>5, <2>6
<1>24. ASSUME NEW r \in Request, Increment(r) PROVE TypeInv'
  <2> DEFINE d == owing[r]
             b == heap[obj[r]].balances
             f == [b EXCEPT ![d] = PN!Increment(b[d], at[r], call[r].share)]
  <2>1. /\ obj[r] \in Proc /\ heap[obj[r]] \in Group
        /\ at[r] \in Node /\ call[r].share \in Nat
        /\ d \in Pair
    BY <1>24, HandlerFacts, CopyFacts
    DEF Increment, Proc, Working, Locked, Pointers
  <2>2. b \in Balances /\ b[d] \in PN!Counter(Node)
    BY <1>24, <2>1, FieldTypes DEF Increment, Copy, Balances
  <2>3. f \in Balances
    BY <2>1, <2>2, IncrementType, BalancesUpdate
  <2>4. heap' = [heap EXCEPT ![obj[r]] = [heap[obj[r]] EXCEPT !.balances = f]]
    BY <1>24 DEF Increment
  <2>5. heap' \in [Proc -> Group]
    BY <2>1, <2>3, <2>4, FieldTypes, HeapUpdate
  <2>6. charged' \in [Pair -> [Node -> Nat]]
    <3>1. charged' = [charged EXCEPT ![d] =
                        [charged[d] EXCEPT ![at[r]] = @ + call[r].share]]
      BY <1>24 DEF Increment
    <3>2. charged \in [Pair -> [Node -> Nat]]
      BY DEF TypeOK
    <3> HIDE DEF d
    <3>3. [charged[d] EXCEPT ![at[r]] = @ + call[r].share] \in [Node -> Nat]
      BY <2>1, <3>2
    <3> QED BY <3>1, <3>2, <3>3, <2>1
  <2>7. TypeOK'
    BY <1>24, <2>5, <2>6 DEF Increment, TypeOK, PC, Proc, Final, Marshalling,
       Locked
  <2>8. Pointers'
    BY <1>24, <2>5, <2>6 DEF Increment, TypeOK, Pointers, Proc, Working,
       Marshalling, Locked
  <2> QED BY <2>7, <2>8
<1>25. ASSUME NEW r \in Request, Panic(r) PROVE TypeInv'
  <2>1. TypeOK'
    BY <1>25, GroupTypes DEF Panic, TypeOK, PC, Proc, Final, Marshalling,
       Locked
  <2>2. Pointers'
    BY <1>25, GroupTypes DEF Panic, TypeOK, Pointers, Proc, Working,
       Marshalling, Locked, Final
  <2> QED BY <2>1, <2>2
<1>26. ASSUME NEW r \in Request, Charged(r) PROVE TypeInv'
  BY <1>26, PassTypeInv DEF Charged, PC, Marshalling, Locked, Working
<1>27. ASSUME NEW r \in Request, Answer(r) PROVE TypeInv'
  <2>1. TypeOK'
    BY <1>27, GroupTypes DEF Answer, TypeOK, PC, Proc, Final, Marshalling,
       Locked
  <2>2. Pointers'
    BY <1>27, GroupTypes DEF Answer, TypeOK, Pointers, Proc, Working,
       Marshalling, Locked
  <2> QED BY <2>1, <2>2
<1>28. ASSUME NEW r \in Request, SyncGetFails(r) PROVE TypeInv'
  <2>1. TypeOK'
    BY <1>28, GroupTypes DEF SyncGetFails, Reject, TypeOK, PC, Proc, Final,
       Marshalling, Locked
  <2>2. Pointers'
    BY <1>28, GroupTypes DEF SyncGetFails, Reject, TypeOK, Pointers, Proc,
       Working, Marshalling, Locked
  <2> QED BY <2>1, <2>2
<1>29. ASSUME NEW r \in Request, MarshalMembers(r) PROVE TypeInv'
  <2>1. buf' \in [Proc -> Group]
    BY <1>29, CopyFacts, FieldTypes DEF MarshalMembers, Copy,
       TypeOK, Proc, Working, Marshalling
  <2>2. TypeOK'
    BY <1>29, <2>1 DEF MarshalMembers, Marshal, TypeOK, PC, Proc, Final,
       Marshalling, Locked
  <2>3. Pointers'
    BY <1>29, <2>1 DEF MarshalMembers, Marshal, TypeOK, Pointers, Proc,
       Working, Marshalling, Locked
  <2> QED BY <2>2, <2>3
<1>30. ASSUME NEW r \in Request, MarshalExpenses(r) PROVE TypeInv'
  <2>1. buf' \in [Proc -> Group]
    BY <1>30, CopyFacts, FieldTypes DEF MarshalExpenses, Copy,
       TypeOK, Proc, Working, Marshalling
  <2>2. TypeOK'
    BY <1>30, <2>1 DEF MarshalExpenses, Marshal, TypeOK, PC, Proc, Final,
       Marshalling, Locked
  <2>3. Pointers'
    BY <1>30, <2>1 DEF MarshalExpenses, Marshal, TypeOK, Pointers, Proc,
       Working, Marshalling, Locked
  <2> QED BY <2>2, <2>3
<1>31. ASSUME NEW r \in Request, MarshalBalances(r) PROVE TypeInv'
  <2>1. buf' \in [Proc -> Group]
    BY <1>31, CopyFacts, FieldTypes DEF MarshalBalances, Copy,
       TypeOK, Proc, Working, Marshalling
  <2>2. TypeOK'
    BY <1>31, <2>1 DEF MarshalBalances, Marshal, TypeOK, PC, Proc, Final,
       Marshalling, Locked
  <2>3. Pointers'
    BY <1>31, <2>1 DEF MarshalBalances, Marshal, TypeOK, Pointers, Proc,
       Working, Marshalling, Locked
  <2> QED BY <2>2, <2>3
<1>32. ASSUME NEW r \in Request, MarshalRest(r) PROVE TypeInv'
  <2>1. /\ buf[r] \in Group
        /\ Copy(r).keyTime \in Int
        /\ Copy(r).pending \in OrMap!Map(User, Tag, User)
    BY <1>32, CopyFacts, FieldTypes DEF MarshalRest, Copy,
       TypeOK, Proc, Working, Marshalling
  <2>2. buf' = [buf EXCEPT ![r] = [buf[r] EXCEPT !.keyTime = Copy(r).keyTime,
                                                 !.pending = Copy(r).pending]]
    BY <1>32 DEF MarshalRest
  <2>3. buf' \in [Proc -> Group]
    BY <2>1, <2>2 DEF Group, TypeOK
  <2>4. TypeOK'
    BY <1>32, <2>3 DEF MarshalRest, Marshal, TypeOK, PC, Proc, Final,
       Marshalling, Locked
  <2>5. Pointers'
    BY <1>32, <2>3 DEF MarshalRest, Marshal, TypeOK, Pointers, Proc, Working,
       Marshalling, Locked
  <2> QED BY <2>4, <2>5
<1>33. ASSUME NEW r \in Request, PutValue(r) PROVE TypeInv'
  <2>1. lock' \in [Node -> Proc \cup {None}]
    BY <1>33 DEF PutValue, Release, TypeOK
  <2>2. dht' \in Group
    BY <1>33 DEF PutValue, TypeOK, Proc
  <2>3. CASE call[r].op = "create_group"
    <3>1. TypeOK'
      BY <1>33, <2>1, <2>2, <2>3 DEF PutValue, TypeOK, PC, Proc
    <3>2. UNCHANGED <<at, call, obj, buf, owing>>
          /\ pc' = [pc EXCEPT ![r] = "register"]
      BY <1>33, <2>3 DEF PutValue
    <3>3. Pointers'
      BY <1>33, <3>2 DEF PutValue, Pointers, TypeOK, Proc, Working, Marshalling,
         Locked
    <3> QED BY <3>1, <3>3
  <2>4. CASE call[r].op # "create_group"
    <3>0. Finish(r, "ok") /\ "ok" \in Final
      BY <1>33, <2>4 DEF PutValue, Final
    <3>1. TypeOK'
      BY <1>33, <2>1, <2>2, <3>0, FinishTypes DEF PutValue, TypeOK
    <3>2. UNCHANGED <<at, call>> /\ Finish(r, "ok")
      BY <1>33, <3>0 DEF PutValue
    <3>3. Pointers'
      BY <1>33, <3>2 DEF PutValue, Pointers, TypeOK, Proc, Working, Marshalling,
         Locked
    <3> QED BY <3>1, <3>3
  <2> QED BY <2>3, <2>4
<1>34. ASSUME NEW r \in Request, PutFails(r) PROVE TypeInv'
  <2>1. TypeOK'
    BY <1>34, GroupTypes DEF PutFails, Release, TypeOK, PC, Proc, Final,
       Marshalling, Locked
  <2>2. Pointers'
    BY <1>34, GroupTypes DEF PutFails, Release, TypeOK, Pointers, Proc,
       Working, Marshalling, Locked
  <2> QED BY <2>1, <2>2
<1>35. ASSUME NEW p \in Proc, SyncGet(p) PROVE TypeInv'
  <2>1. TypeOK'
    BY <1>35 DEF SyncGet, Syncing, TypeOK, PC, Proc, Final, Marshalling, Locked
  <2>2. Pointers'
    BY <1>35 DEF SyncGet, Syncing, TypeOK, Pointers, Proc, Working,
       Marshalling, Locked
  <2> QED BY <2>1, <2>2
<1>36. ASSUME NEW p \in Proc, SyncCold(p) PROVE TypeInv'
  <2>1. TypeOK'
    BY <1>36, GroupTypes, HandlerFacts DEF SyncCold, AfterSync, TypeOK, PC,
       Proc, Final, Marshalling, Locked
  <2>2. Pointers'
    BY <1>36, GroupTypes, HandlerFacts DEF SyncCold, AfterSync, TypeOK,
       Pointers, Proc, Working, Marshalling, Locked
  <2> QED BY <2>1, <2>2
<1>37. ASSUME NEW p \in Proc, SyncMembers(p) PROVE TypeInv'
  <2> DEFINE c == cache[at[p]]
             f == OrMap!Merge(heap[c].members, buf[p].members)
  <2>1. at[p] \in Node
    BY <1>37, HandlerFacts DEF SyncMembers, Pointers, Proc
  <2>2. c \in Proc /\ heap[c] \in Group /\ buf[p] \in Group
    BY <1>37, <2>1 DEF SyncMembers, TypeOK
  <2>3. f \in OrMap!Map(User, Tag, User)
    BY <2>2, FieldTypes, MergeType
  <2>4. heap' = [heap EXCEPT ![c] = [heap[c] EXCEPT !.members = f]]
    BY <1>37 DEF SyncMembers
  <2>5. heap' \in [Proc -> Group]
    BY <2>2, <2>3, <2>4, FieldTypes, HeapUpdate
  <2>6. TypeOK'
    BY <1>37, <2>1, <2>2, <2>5 DEF SyncMembers, TypeOK, PC, Proc, Final,
       Marshalling, Locked
  <2>7. Pointers'
    BY <1>37, <2>1, <2>2, <2>5 DEF SyncMembers, TypeOK, Pointers, Proc,
       Working, Marshalling, Locked
  <2> QED BY <2>6, <2>7
<1>38. ASSUME NEW p \in Proc, SyncExpenses(p) PROVE TypeInv'
  <2>1. obj[p] \in Proc /\ heap[obj[p]] \in Group
    BY <1>38, CopyFacts DEF SyncExpenses, Proc, Working, Locked
  <2> DEFINE f == OrMap!Merge(heap[obj[p]].expenses, buf[p].expenses)
  <2>2. f \in OrMap!Map(ExpenseId, Tag, Call)
    BY <1>38, <2>1, FieldTypes, MergeType DEF TypeOK
  <2>3. heap' = [heap EXCEPT ![obj[p]] = [heap[obj[p]] EXCEPT !.expenses = f]]
    BY <1>38 DEF SyncExpenses
  <2>4. heap' \in [Proc -> Group]
    BY <2>1, <2>2, <2>3, FieldTypes, HeapUpdate
  <2>5. TypeOK'
    BY <1>38, <2>1, <2>4 DEF SyncExpenses, TypeOK, PC, Proc, Final,
       Marshalling, Locked
  <2>6. Pointers'
    BY <1>38, <2>1, <2>4 DEF SyncExpenses, TypeOK, Pointers, Proc, Working,
       Marshalling, Locked
  <2> QED BY <2>5, <2>6
<1>39. ASSUME NEW p \in Proc, SyncPending(p) PROVE TypeInv'
  <2>1. obj[p] \in Proc /\ heap[obj[p]] \in Group
    BY <1>39, CopyFacts DEF SyncPending, Proc, Working, Locked
  <2> DEFINE f == OrMap!Merge(heap[obj[p]].pending, buf[p].pending)
  <2>2. f \in OrMap!Map(User, Tag, User)
    BY <1>39, <2>1, FieldTypes, MergeType DEF TypeOK
  <2>3. heap' = [heap EXCEPT ![obj[p]] = [heap[obj[p]] EXCEPT !.pending = f]]
    BY <1>39 DEF SyncPending
  <2>4. heap' \in [Proc -> Group]
    BY <2>1, <2>2, <2>3, FieldTypes, HeapUpdate
  <2>5. TypeOK'
    BY <1>39, <2>1, <2>4 DEF SyncPending, TypeOK, PC, Proc, Final, Marshalling,
       Locked
  <2>6. Pointers'
    BY <1>39, <2>1, <2>4 DEF SyncPending, TypeOK, Pointers, Proc, Working,
       Marshalling, Locked
  <2> QED BY <2>5, <2>6
<1>40. ASSUME NEW p \in Proc, SyncCounter(p) PROVE TypeInv'
  <2>1. obj[p] \in Proc /\ heap[obj[p]] \in Group /\ buf[p] \in Group
    BY <1>40, CopyFacts DEF SyncCounter, Working, Locked, TypeOK
  <2> DEFINE b == heap[obj[p]].balances
             f(d) == [b EXCEPT ![d] = OrZero(b[d])]
  <2>2. PICK d \in Pair :
          /\ buf[p].balances[d] # None
          /\ heap' = [heap EXCEPT ![obj[p]] =
                        [heap[obj[p]] EXCEPT !.balances = f(d)]]
          /\ owing' = [owing EXCEPT ![p] = d]
    BY <1>40 DEF SyncCounter
  <2>3. f(d) \in Balances
    BY <2>1, FieldTypes, OrZeroType, BalancesUpdate DEF Balances
  <2>4. heap' \in [Proc -> Group]
    BY <2>1, <2>2, <2>3, FieldTypes, HeapUpdate
  <2>5. TypeOK'
    BY <1>40, <2>2, <2>4 DEF SyncCounter, TypeOK, PC, Proc, Final, Marshalling,
       Locked
  <2>6. Pointers'
    BY <1>40, <2>1, <2>2, <2>4 DEF SyncCounter, TypeOK, Pointers, Proc,
       Working, Marshalling, Locked
  <2> QED BY <2>5, <2>6
<1>41. ASSUME NEW p \in Proc, MergeCounter(p) PROVE TypeInv'
  <2> DEFINE d == owing[p]
             b == heap[obj[p]].balances
             f == [b EXCEPT ![d] = PN!Merge(b[d], buf[p].balances[d])]
             g == [buf[p].balances EXCEPT ![d] = None]
  <2>1. /\ obj[p] \in Proc /\ heap[obj[p]] \in Group /\ buf[p] \in Group
        /\ d \in Pair /\ buf[p].balances[d] # None
    BY <1>41, CopyFacts
    DEF MergeCounter, HasCounter, Working, Locked, TypeOK, Pointers
  <2>2. /\ b \in Balances /\ b[d] \in PN!Counter(Node)
        /\ buf[p].balances \in Balances
        /\ buf[p].balances[d] \in PN!Counter(Node)
    BY <1>41, <2>1, FieldTypes DEF MergeCounter, HasCounter, Copy, Balances
  <2>3. f \in Balances /\ g \in Balances
    BY <2>1, <2>2, CounterMergeType, BalancesUpdate
  <2>4. heap' = [heap EXCEPT ![obj[p]] = [heap[obj[p]] EXCEPT !.balances = f]]
    BY <1>41 DEF MergeCounter
  <2>5. heap' \in [Proc -> Group]
    BY <2>1, <2>3, <2>4, FieldTypes, HeapUpdate
  <2>6. buf' = [buf EXCEPT ![p] = [buf[p] EXCEPT !.balances = g]]
    BY <1>41 DEF MergeCounter, NextCounter
  <2>7. buf' \in [Proc -> Group]
    BY <2>1, <2>3, <2>6, FieldTypes DEF TypeOK
  <2>8. TypeOK'
    BY <1>41, <2>5, <2>7 DEF MergeCounter, NextCounter, TypeOK, PC, Proc,
       Final, Marshalling, Locked
  <2>9. Pointers'
    BY <1>41, <2>1, <2>5, <2>6, <2>7 DEF MergeCounter, HasCounter, NextCounter,
       TypeOK, Pointers, Proc, Working, Marshalling, Locked
  <2> QED BY <2>8, <2>9
<1>42. ASSUME NEW p \in Proc, EndSync(p) PROVE TypeInv'
  <2> DEFINE g == heap[obj[p]]
             t == PN!Max2(g.keyTime, buf[p].keyTime)
  <2>1. obj[p] \in Proc /\ g \in Group /\ buf[p] \in Group
    BY <1>42, CopyFacts DEF EndSync, Working, Locked, TypeOK
  <2>2. t \in Int
    BY <2>1, FieldTypes DEF PN!Max2
  <2>3. heap' = [heap EXCEPT ![obj[p]] = [g EXCEPT !.keyTime = t]]
    BY <1>42 DEF EndSync
  <2>4. heap' \in [Proc -> Group]
    BY <2>1, <2>2, <2>3, FieldTypes, HeapUpdate
  <2>5. at[p] \in Node
    BY <1>42, HandlerFacts DEF EndSync, Pointers, Proc
  <2>6. TypeOK'
    BY <1>42, <2>4, <2>5, GroupTypes DEF EndSync, AfterSync, TypeOK, PC, Proc,
       Final, Marshalling, Locked
  <2>7. Pointers'
    BY <1>42, <2>4, <2>5, GroupTypes DEF EndSync, AfterSync, TypeOK, Pointers,
       Proc, Working, Marshalling, Locked
  <2> QED BY <2>6, <2>7
<1>43. ASSUME NEW n \in Node, DiscoverGet(n) PROVE TypeInv'
  <2>1. TypeOK'
    BY <1>43 DEF DiscoverGet, TypeOK, PC, Proc, Final, Marshalling, Locked
  <2>2. Pointers'
    BY <1>43 DEF DiscoverGet, TypeOK, Pointers, Proc, Working, Marshalling,
       Locked
  <2> QED BY <2>1, <2>2
<1>44. ASSUME NEW n \in Node, DiscoverCache(n) PROVE TypeInv'
  <2>1. TypeOK'
    BY <1>44, GroupTypes DEF DiscoverCache, TypeOK, PC, Proc, Final,
       Marshalling, Locked
  <2>2. Pointers'
    BY <1>44, GroupTypes DEF DiscoverCache, TypeOK, Pointers, Proc, Working,
       Marshalling, Locked
  <2> QED BY <2>1, <2>2
<1>45. ASSUME NEW n \in Node, Die(n) PROVE TypeInv'
  <2>1. TypeOK'
    BY <1>45, GroupTypes DEF Die, RunsOn, TypeOK, PC, Proc, Final, Marshalling,
       Locked
  <2>2. Pointers'
    BY <1>45, GroupTypes DEF Die, RunsOn, TypeOK, Pointers, Proc, Working,
       Marshalling, Locked
  <2> QED BY <2>1, <2>2
<1>46. ASSUME NEW r \in Request, JoinStep(r) PROVE TypeInv'
  BY <1>46, <1>10, <1>11, <1>12 DEF JoinStep
<1>47. ASSUME NEW r \in Request, ApproveStep(r) PROVE TypeInv'
  BY <1>47, <1>13, <1>14, <1>15, <1>16, <1>17, <1>18 DEF ApproveStep
<1>48. ASSUME NEW r \in Request, ExpenseStep(r) PROVE TypeInv'
  BY <1>48, <1>19, <1>20, <1>21, <1>22, <1>23, <1>24, <1>26 DEF ExpenseStep
<1>49. ASSUME NEW r \in Request, MarshalStep(r) PROVE TypeInv'
  BY <1>49, <1>29, <1>30, <1>31, <1>32 DEF MarshalStep
<1>50. ASSUME NEW r \in Request, RequestStep(r) PROVE TypeInv'
  BY <1>50, <1>46, <1>47, <1>48, <1>49, <1>2, <1>3, <1>4, <1>5, <1>6, <1>7,
     <1>8, <1>25, <1>27, <1>28, <1>9, <1>33 DEF RequestStep
<1>51. ASSUME NEW p \in Proc, SyncStep(p) PROVE TypeInv'
  BY <1>51, <1>35, <1>36, <1>37, <1>38, <1>39, <1>40, <1>41, <1>42
  DEF SyncStep
<1> QED
  BY <1>0, <1>1, <1>50, <1>34, <1>51, <1>43, <1>44, <1>45
  DEF Next, DiscoverStep, Abort, Crash

\* Type correctness: the nodes' state keeps its shape, and a handler under way
\* never works on a nil group, whatever runs beside it, crashes or fails.
THEOREM TypeCorrect == Spec => [](TypeOK /\ Pointers)
<1>1. Init => TypeInv
  BY InitTypeInv
<1>2. TypeInv /\ [Next]_vars => TypeInv'
  BY StepTypeInv
<1> QED
  BY <1>1, <1>2, PTL DEF Spec, TypeInv
=============================================================================
