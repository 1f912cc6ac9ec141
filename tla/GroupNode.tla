----------------------------- MODULE GroupNode -----------------------------
(***************************************************************************)
(* The nodes of PearBook around one group (node/node.go).                  *)
(*                                                                         *)
(* Every node keeps a pointer to its cached copy of the group; the HTTP    *)
(* handlers and the periodic synchronisation are goroutines that reach     *)
(* copies through such pointers, and the DHT holds one serialised copy.    *)
(* The per-shard lock guards the pointer and, in AddExpense and SyncGroup, *)
(* the copy too; the other handlers change and serialise the copy without  *)
(* it.  Hence one action per access to something shared: the pointer, a    *)
(* CRDT of the copy (each has its own mutex), a field read by the          *)
(* serialiser, the DHT.                                                    *)
(*                                                                         *)
(* A process is a client request being handled, or the synchronisation     *)
(* loop of a node, named by the node.  A request doubles as the UUID of    *)
(* the one entry it puts and as the name of the one copy it allocates.  A  *)
(* node that restarts has a new identifier and an empty cache, so it is    *)
(* another element of Node that was idle until then.                       *)
(***************************************************************************)
EXTENDS Integers, FiniteSets

CONSTANTS
  Node,         \* identifiers of the running node processes
  Request,      \* client requests (a retry is another request)
  User,         \* user identifiers
  ExpenseId,    \* expense identifiers chosen by clients
  Workload,     \* which request may reach which node with which call
  Stamps,       \* clock readings of CreateGroup (GroupKeyUpdated)
  Founders,     \* members of a group set up before the behaviour starts
  Waiting,      \* users whose request to join that group is pending
  Warm,         \* nodes that hold a copy of that group from the start
  Crashing,     \* nodes that may crash
  DHTFails,     \* whether DHT reads and writes may return errors
  Setup,        \* the tag of entries put before the behaviour starts
  NoGroup,      \* what the DHT holds when the key was never written
  None          \* no copy, no lock holder, no call, no counter

OrMap == INSTANCE ORMap
PN == INSTANCE PNCounter

\* The operations of models.SignedOperation that reach a handler.
Op == {"create_group", "join_group", "approve_join", "add_expense",
       "get_balances", "get_pending_joins"}

\* A call: who signs it, the requester it approves, and the expense: its
\* identifier, its participants and the cents each of them owes the payer.
Call == [op : Op, user : User, subject : User,
         id : ExpenseId, parts : SUBSET User, share : Nat]

\* The calls that clients make.
Calls == {w[3] : w \in Workload}

Proc == Request \cup Node
Tag  == Request \cup {Setup}

\* A balance is kept for a (debtor, creditor) pair, in a counter that exists
\* once somebody has charged the pair; until then it is None (a Go nil), which
\* reads as zero.
Pair == User \X User

Balances == [Pair -> {None} \cup PN!Counter(Node)]

OrZero(c) == IF c = None THEN PN!NewPNCounter(Node) ELSE c

\* The fields of models.Group that behaviour depends on.  MemberInfo and
\* JoinRequest are abstracted to their user; an expense is its call.
Group == [members  : OrMap!Map(User, Tag, User),
          expenses : OrMap!Map(ExpenseId, Tag, Call),
          balances : Balances,
          pending  : OrMap!Map(User, Tag, User),
          keyTime  : Int]

EmptyGroup == [members  |-> OrMap!NewORMap,
               expenses |-> OrMap!NewORMap,
               balances |-> [d \in Pair |-> None],
               pending  |-> OrMap!NewORMap,
               keyTime  |-> 0]

ASSUME ConstantsAssumption ==
  /\ Node \cap Request = {}
  /\ None \notin Proc
  /\ None \notin Call \cup PN!Counter(Node)
  /\ Setup \notin Request
  /\ NoGroup \notin Group
  /\ Workload \subseteq Request \X Node \X Call
  /\ Stamps \subseteq Nat
  /\ Founders \subseteq User
  /\ Waiting \subseteq User
  /\ Warm \subseteq Node
  /\ Crashing \subseteq Node
  /\ DHTFails \in BOOLEAN

ASSUME NodesAssumption == IsFiniteSet(Node)

VARIABLES
  cache,      \* node -> the copy its cache points to
  heap,       \* copy -> its contents
  lock,       \* node -> the process holding the group's shard lock
  dht,        \* the serialised group stored under the group's key
  registered, \* whether the group registry lists the group
  pc,         \* process -> what it does next
  at,         \* process -> the node it runs on
  call,       \* request -> the call it carries
  obj,        \* process -> the copy it works on
  buf,        \* process -> the serialised group it fetched or is building
  todo,       \* request -> the participants still to be checked or charged
  owing,      \* process -> the pair whose counter it charges or merges
  issued,     \* history: every entry ever put into a map of some copy
  charged     \* history: what each node ever added to each balance

shared  == <<cache, heap, lock, dht, registered>>
local   == <<at, call, obj, buf, todo, owing>>
history == <<issued, charged>>
vars    == <<shared, pc, local, history>>

Final == {"ok", "failed", "panicked", "dead"}

\* Where a process holds the shard lock of its node.
Marshalling == {"marshalMembers", "marshalExpenses", "marshalBalances",
                "marshalRest"}
Locked == {"record", "charge", "increment",
           "syncExpenses", "syncPending", "syncBalances", "mergeCounter"}

PC == Final \cup Marshalling \cup Locked \cup
  {"idle", "create", "lookup", "fetch", "cacheFetched", "checkMember",
   "checkPending", "putRequest", "checkRequester", "findRequest", "admit",
   "resetBalances", "dropRequest", "recache", "checkParticipants", "put",
   "register", "discoverCache", "syncGet", "syncMembers"}

Issued == [members  : SUBSET [key : User, tag : Tag, val : User],
           expenses : SUBSET [key : ExpenseId, tag : Tag, val : Call],
           pending  : SUBSET [key : User, tag : Tag, val : User]]

TypeOK ==
  /\ cache \in [Node -> Proc \cup {None}]
  /\ heap \in [Proc -> Group]
  /\ lock \in [Node -> Proc \cup {None}]
  /\ dht \in Group \cup {NoGroup}
  /\ registered \in BOOLEAN
  /\ pc \in [Proc -> PC]
  /\ at \in [Proc -> Node \cup {None}]
  /\ call \in [Request -> Call \cup {None}]
  /\ obj \in [Proc -> Proc \cup {None}]
  /\ buf \in [Proc -> Group]
  /\ todo \in [Request -> SUBSET User]
  /\ owing \in [Proc -> Pair \cup {None}]
  /\ issued \in Issued
  /\ charged \in [Pair -> [Node -> Nat]]

(***************************************************************************)
(* The initial states: no group at all, or a group all of whose copies are *)
(* equal and stored.                                                       *)
(***************************************************************************)
SetupEntries(users) == {[key |-> u, tag |-> Setup, val |-> u] : u \in users}

SetupGroup == [EmptyGroup EXCEPT !.members = SetupEntries(Founders),
                                 !.pending = SetupEntries(Waiting)]

Init ==
  /\ cache = [n \in Node |-> IF n \in Warm THEN n ELSE None]
  /\ heap = [p \in Proc |-> IF p \in Warm THEN SetupGroup ELSE EmptyGroup]
  /\ lock = [n \in Node |-> None]
  /\ dht = IF Founders = {} THEN NoGroup ELSE SetupGroup
  /\ registered = (Founders # {})
  /\ pc = [p \in Proc |-> "idle"]
  /\ at = [p \in Proc |-> IF p \in Node THEN p ELSE None]
  /\ call = [r \in Request |-> None]
  /\ obj = [p \in Proc |-> None]
  /\ buf = [p \in Proc |-> EmptyGroup]
  /\ todo = [r \in Request |-> {}]
  /\ owing = [p \in Proc |-> None]
  /\ issued = [members  |-> SetupEntries(Founders),
               expenses |-> OrMap!NewORMap,
               pending  |-> SetupEntries(Waiting)]
  /\ charged = [d \in Pair |-> [n \in Node |-> 0]]

(***************************************************************************)
(* Steps shared by the handlers.                                           *)
(***************************************************************************)
Goto(p, label) == pc' = [pc EXCEPT ![p] = label]

\* The handler of r returns to its client.
Finish(r, outcome) ==
  /\ Goto(r, outcome)
  /\ obj' = [obj EXCEPT ![r] = None]
  /\ buf' = [buf EXCEPT ![r] = EmptyGroup]
  /\ todo' = [todo EXCEPT ![r] = {}]
  /\ owing' = [owing EXCEPT ![r] = None]

Free(n) == lock[n] = None

\* The copy process p works on.
Copy(p) == heap[obj[p]]

\* Members.Get, the check every handler makes against its copy.
IsMember(p, u) == OrMap!Has(Copy(p).members, u)

\* The entry request r puts under key k, and its record in the history.
Entry(k, r, v) == [key |-> k, tag |-> r, val |-> v]

Entrance(op) == CASE op = "create_group"      -> "create"
                  [] op = "get_pending_joins" -> "syncGet"
                  [] OTHER                    -> "lookup"

\* A client's request reaches a running node.
Receive(r, n, c) ==
  /\ pc[r] = "idle"
  /\ pc[n] # "dead"
  /\ at' = [at EXCEPT ![r] = n]
  /\ call' = [call EXCEPT ![r] = c]
  /\ Goto(r, Entrance(c.op))
  /\ UNCHANGED <<shared, obj, buf, todo, owing, history>>

\* The cached copy is found under the read lock of the shard ...
Hit(r) ==
  /\ pc[r] = "lookup"
  /\ Free(at[r])
  /\ cache[at[r]] # None
  /\ obj' = [obj EXCEPT ![r] = cache[at[r]]]
  /\ Goto(r, "checkMember")
  /\ UNCHANGED <<shared, at, call, buf, todo, owing, history>>

\* ... or it is not, and the lock is given up before the DHT is asked.
Miss(r) ==
  /\ pc[r] = "lookup"
  /\ Free(at[r])
  /\ cache[at[r]] = None
  /\ Goto(r, "fetch")
  /\ UNCHANGED <<shared, local, history>>

Fetch(r) ==
  /\ pc[r] = "fetch"
  /\ dht # NoGroup
  /\ buf' = [buf EXCEPT ![r] = dht]
  /\ Goto(r, "cacheFetched")
  /\ UNCHANGED <<shared, at, call, obj, todo, owing, history>>

FetchFails(r) ==
  /\ pc[r] = "fetch"
  /\ dht = NoGroup \/ DHTFails
  /\ Finish(r, "failed")
  /\ UNCHANGED <<shared, at, call, history>>

\* A plausible other CacheFetched: overwrites the copy it finds in the cache.
CacheFetchedInPlace(r) ==
  /\ pc[r] = "cacheFetched"
  /\ Free(at[r])
  /\ LET p == IF cache[at[r]] = None THEN r ELSE cache[at[r]]
     IN  /\ heap' = [heap EXCEPT ![p] = buf[r]]
         /\ cache' = [cache EXCEPT ![at[r]] = p]
         /\ obj' = [obj EXCEPT ![r] = p]
  /\ buf' = [buf EXCEPT ![r] = EmptyGroup]
  /\ Goto(r, "checkMember")
  /\ UNCHANGED <<lock, dht, registered, at, call, todo, owing, history>>

\* The pointer is set whatever the cache holds by now.
CacheFetched(r) ==
  /\ pc[r] = "cacheFetched"
  /\ Free(at[r])
  /\ heap' = [heap EXCEPT ![r] = buf[r]]
  /\ cache' = [cache EXCEPT ![at[r]] = r]
  /\ obj' = [obj EXCEPT ![r] = r]
  /\ buf' = [buf EXCEPT ![r] = EmptyGroup]
  /\ Goto(r, "checkMember")
  /\ UNCHANGED <<lock, dht, registered, at, call, todo, owing, history>>

\* JoinGroup and ApproveJoin store the pointer they have been working on.
Recache(r) ==
  /\ pc[r] = "recache"
  /\ Free(at[r])
  /\ cache' = [cache EXCEPT ![at[r]] = obj[r]]
  /\ Goto(r, "marshalMembers")
  /\ UNCHANGED <<heap, lock, dht, registered, local, history>>

(***************************************************************************)
(* json.Marshal(group): the serialiser walks the fields of the copy in the *)
(* order of the struct, without the lock of any of them.                   *)
(***************************************************************************)
Marshal(r, label) ==
  /\ Goto(r, label)
  /\ UNCHANGED <<shared, at, call, obj, todo, owing, history>>

MarshalMembers(r) ==
  /\ pc[r] = "marshalMembers"
  /\ buf' = [buf EXCEPT ![r].members = Copy(r).members]
  /\ Marshal(r, "marshalExpenses")

MarshalExpenses(r) ==
  /\ pc[r] = "marshalExpenses"
  /\ buf' = [buf EXCEPT ![r].expenses = Copy(r).expenses]
  /\ Marshal(r, "marshalBalances")

MarshalBalances(r) ==
  /\ pc[r] = "marshalBalances"
  /\ buf' = [buf EXCEPT ![r].balances = Copy(r).balances]
  /\ Marshal(r, "marshalRest")

\* GroupKeyUpdated and PendingJoins, the last fields of the struct.
MarshalRest(r) ==
  /\ pc[r] = "marshalRest"
  /\ buf' = [buf EXCEPT ![r].keyTime = Copy(r).keyTime,
                        ![r].pending = Copy(r).pending]
  /\ Marshal(r, "put")

\* AddExpense releases the lock when it returns; the others hold none.
Release(r) ==
  lock' = [n \in Node |-> IF lock[n] = r THEN None ELSE lock[n]]

PutValue(r) ==
  /\ pc[r] = "put"
  /\ dht' = buf[r]
  /\ IF call[r].op = "create_group"
     THEN Goto(r, "register") /\ UNCHANGED <<obj, buf, todo, owing>>
     ELSE Finish(r, "ok")
  /\ Release(r)
  /\ UNCHANGED <<cache, heap, registered, at, call, history>>

\* A plausible other PutFails: the error return that forgets the lock.
PutFailsKeepingLock(r) ==
  /\ pc[r] = "put"
  /\ DHTFails
  /\ dht' \in {dht, buf[r]}
  /\ Finish(r, "failed")
  /\ UNCHANGED <<cache, heap, lock, registered, at, call, history>>

\* A failed write may or may not have reached the peers that store the key.
\* The copy keeps what the handler did to it.
PutFails(r) ==
  /\ pc[r] = "put"
  /\ DHTFails
  /\ dht' \in {dht, buf[r]}
  /\ Finish(r, "failed")
  /\ Release(r)
  /\ UNCHANGED <<cache, heap, registered, at, call, history>>

(***************************************************************************)
(* CreateGroup                                                             *)
(***************************************************************************)
\* Builds the group with its creator as member and caches it, whatever the
\* cache and the DHT hold under that identifier.
Create(r) ==
  LET u == call[r].user
  IN  /\ pc[r] = "create"
      /\ Free(at[r])
      /\ \E t \in Stamps :
           heap' = [heap EXCEPT ![r] =
                      [EmptyGroup EXCEPT
                         !.members = OrMap!Put(OrMap!NewORMap, u, u, r),
                         !.keyTime = t]]
      /\ cache' = [cache EXCEPT ![at[r]] = r]
      /\ obj' = [obj EXCEPT ![r] = r]
      /\ issued' = [issued EXCEPT !.members = @ \cup {Entry(u, r, u)}]
      /\ Goto(r, "marshalMembers")
      /\ UNCHANGED <<lock, dht, registered, at, call, buf, todo, owing,
                     charged>>

\* registerGroupInRegistry reports no error: the group may stay unlisted.
Register(r) ==
  /\ pc[r] = "register"
  /\ registered' \in {TRUE} \cup (IF DHTFails THEN {registered} ELSE {})
  /\ Finish(r, "ok")
  /\ UNCHANGED <<cache, heap, lock, dht, at, call, history>>

(***************************************************************************)
(* JoinGroup                                                               *)
(***************************************************************************)
\* A check against the copy that lets the handler go on to label next.
Pass(r, next) ==
  /\ Goto(r, next)
  /\ UNCHANGED <<shared, local, history>>

\* A check against the copy that makes the handler return an error.
Reject(r) ==
  /\ Finish(r, "failed")
  /\ UNCHANGED <<shared, at, call, history>>

JoinCheckMember(r) ==
  /\ pc[r] = "checkMember"
  /\ call[r].op = "join_group"
  /\ IF IsMember(r, call[r].user) THEN Reject(r) ELSE Pass(r, "checkPending")

JoinCheckPending(r) ==
  /\ pc[r] = "checkPending"
  /\ IF OrMap!Has(Copy(r).pending, call[r].user)
     THEN Reject(r) ELSE Pass(r, "putRequest")

PutRequest(r) ==
  LET u == call[r].user
  IN  /\ pc[r] = "putRequest"
      /\ heap' = [heap EXCEPT ![obj[r]].pending = OrMap!Put(@, u, u, r)]
      /\ issued' = [issued EXCEPT !.pending = @ \cup {Entry(u, r, u)}]
      /\ Goto(r, "recache")
      /\ UNCHANGED <<cache, lock, dht, registered, local, charged>>

(***************************************************************************)
(* ApproveJoin                                                             *)
(***************************************************************************)
\* A plausible other check: any user may approve.
ApproveCheckNobody(r) ==
  /\ pc[r] = "checkMember"
  /\ call[r].op = "approve_join"
  /\ Pass(r, "checkRequester")

\* The approver must be a member of the copy (and, with the same outcomes,
\* have signed the operation with the key kept there).
ApproveCheckMember(r) ==
  /\ pc[r] = "checkMember"
  /\ call[r].op = "approve_join"
  /\ IF IsMember(r, call[r].user) THEN Pass(r, "checkRequester") ELSE Reject(r)

ApproveCheckRequester(r) ==
  /\ pc[r] = "checkRequester"
  /\ IF IsMember(r, call[r].subject) THEN Reject(r) ELSE Pass(r, "findRequest")

\* A pending request is never one already approved by this member: one
\* approval admits, so a stored request has none.
FindRequest(r) ==
  /\ pc[r] = "findRequest"
  /\ IF OrMap!Has(Copy(r).pending, call[r].subject)
     THEN Pass(r, "admit") ELSE Reject(r)

\* A plausible other Admit: stores the operation for the member's information.
AdmitOperation(r) ==
  LET u == call[r].subject
  IN  /\ pc[r] = "admit"
      /\ heap' = [heap EXCEPT ![obj[r]].members = OrMap!Put(@, u, call[r], r)]
      /\ issued' = [issued EXCEPT !.members = @ \cup {Entry(u, r, u)}]
      /\ Goto(r, "resetBalances")
      /\ UNCHANGED <<cache, lock, dht, registered, local, charged>>

Admit(r) ==
  LET u == call[r].subject
  IN  /\ pc[r] = "admit"
      /\ heap' = [heap EXCEPT ![obj[r]].members = OrMap!Put(@, u, u, r)]
      /\ issued' = [issued EXCEPT !.members = @ \cup {Entry(u, r, u)}]
      /\ Goto(r, "resetBalances")
      /\ UNCHANGED <<cache, lock, dht, registered, local, charged>>

\* "Initialize balances for new member": whatever the requester owed in
\* this copy is gone.
ResetBalances(r) ==
  /\ pc[r] = "resetBalances"
  /\ heap' = [heap EXCEPT ![obj[r]].balances =
                [d \in Pair |-> IF d[1] = call[r].subject THEN None ELSE @[d]]]
  /\ Goto(r, "dropRequest")
  /\ UNCHANGED <<cache, lock, dht, registered, local, history>>

DropRequest(r) ==
  /\ pc[r] = "dropRequest"
  /\ heap' = [heap EXCEPT ![obj[r]].pending =
                OrMap!RemoveKey(@, call[r].subject)]
  /\ Goto(r, "recache")
  /\ UNCHANGED <<cache, lock, dht, registered, local, history>>

(***************************************************************************)
(* AddExpense                                                              *)
(***************************************************************************)
ExpenseCheckPayer(r) ==
  /\ pc[r] = "checkMember"
  /\ call[r].op = "add_expense"
  /\ IF IsMember(r, call[r].user)
     THEN /\ todo' = [todo EXCEPT ![r] = call[r].parts]
          /\ Goto(r, "checkParticipants")
          /\ UNCHANGED <<shared, at, call, obj, buf, owing, history>>
     ELSE Reject(r)

\* One Members.Get per participant: the copy may change between two.
CheckParticipant(r) ==
  /\ pc[r] = "checkParticipants"
  /\ \E u \in todo[r] :
       IF IsMember(r, u)
       THEN /\ todo' = [todo EXCEPT ![r] = @ \ {u}]
            /\ UNCHANGED <<shared, pc, at, call, obj, buf, owing, history>>
       ELSE Reject(r)

LockShard(r) ==
  /\ pc[r] = "checkParticipants"
  /\ todo[r] = {}
  /\ Free(at[r])
  /\ lock' = [lock EXCEPT ![at[r]] = r]
  /\ Goto(r, "record")
  /\ UNCHANGED <<cache, heap, dht, registered, local, history>>

\* The splits are one equal share for every participant but the payer.
Debtors(c) == c.parts \ {c.user}

RecordExpense(r) ==
  LET c == call[r]
  IN  /\ pc[r] = "record"
      /\ heap' = [heap EXCEPT ![obj[r]].expenses = OrMap!Put(@, c.id, c, r)]
      /\ issued' = [issued EXCEPT !.expenses = @ \cup {Entry(c.id, r, c)}]
      /\ todo' = [todo EXCEPT ![r] = Debtors(c)]
      /\ Goto(r, "charge")
      /\ UNCHANGED <<cache, lock, dht, registered, at, call, obj, buf, owing,
                     charged>>

\* The loop over the splits, in the order of a Go map: first the counter of
\* the pair is created if the copy has none ...
Charge(r) ==
  /\ pc[r] = "charge"
  /\ \E u \in todo[r] :
       LET d == <<u, call[r].user>>
       IN  /\ heap' = [heap EXCEPT ![obj[r]].balances[d] = OrZero(@)]
           /\ owing' = [owing EXCEPT ![r] = d]
  /\ Goto(r, "increment")
  /\ UNCHANGED <<cache, lock, dht, registered, at, call, obj, buf, todo,
                 history>>

\* ... then it is looked up again and incremented.
Increment(r) ==
  LET d == owing[r]
      n == at[r]
  IN  /\ pc[r] = "increment"
      /\ Copy(r).balances[d] # None
      /\ heap' = [heap EXCEPT ![obj[r]].balances[d] =
                    PN!Increment(@, n, call[r].share)]
      /\ charged' = [charged EXCEPT ![d][n] = @ + call[r].share]
      /\ todo' = [todo EXCEPT ![r] = @ \ {d[1]}]
      /\ owing' = [owing EXCEPT ![r] = None]
      /\ Goto(r, "charge")
      /\ UNCHANGED <<cache, lock, dht, registered, at, call, obj, buf, issued>>

\* The counter is gone.  Whether AddExpense was to increment it or SyncGroup,
\* called by GetPendingJoins, was to merge it: the handler panics, the HTTP
\* server recovers, and the lock, whose release comes later, is never given up.
Panic(r) ==
  /\ pc[r] \in {"increment", "mergeCounter"}
  /\ Copy(r).balances[owing[r]] = None
  /\ Finish(r, "panicked")
  /\ UNCHANGED <<shared, at, call, history>>

\* A plausible other end of the loop: leaves it with splits to go.
ChargedSome(r) ==
  /\ pc[r] = "charge"
  /\ Pass(r, "marshalMembers")

Charged(r) ==
  /\ pc[r] = "charge"
  /\ todo[r] = {}
  /\ Pass(r, "marshalMembers")

(***************************************************************************)
(* GetBalances and GetPendingJoins: what they read is not kept, the copies *)
(* they fetch or merge are.                                                *)
(***************************************************************************)
Answer(r) ==
  /\ pc[r] = "checkMember"
  /\ call[r].op \in {"get_balances", "get_pending_joins"}
  /\ Finish(r, IF IsMember(r, call[r].user) THEN "ok" ELSE "failed")
  /\ UNCHANGED <<shared, at, call, history>>

(***************************************************************************)
(* SyncGroup, called by the loop of a node and by GetPendingJoins.  The    *)
(* stored group is read before the shard lock is taken.                    *)
(***************************************************************************)
\* The loop lists the groups of its cache first; an entry never leaves it.
Syncing(p) == IF p \in Node THEN pc[p] = "idle" /\ cache[p] # None
                            ELSE pc[p] = "syncGet"

SyncGet(p) ==
  /\ Syncing(p)
  /\ dht # NoGroup
  /\ buf' = [buf EXCEPT ![p] = dht]
  /\ Goto(p, "syncMembers")
  /\ UNCHANGED <<shared, at, call, obj, todo, owing, history>>

\* The loop only logs the error: it is then where it was.
SyncGetFails(r) ==
  /\ pc[r] = "syncGet"
  /\ dht = NoGroup \/ DHTFails
  /\ Reject(r)

\* What follows SyncGroup.
AfterSync(p) == IF p \in Node THEN "idle" ELSE "lookup"

\* Without a local copy the fetched one is cached.
SyncCold(p) ==
  /\ pc[p] = "syncMembers"
  /\ Free(at[p])
  /\ cache[at[p]] = None
  /\ heap' = [heap EXCEPT ![p] = buf[p]]
  /\ cache' = [cache EXCEPT ![at[p]] = p]
  /\ buf' = [buf EXCEPT ![p] = EmptyGroup]
  /\ Goto(p, AfterSync(p))
  /\ UNCHANGED <<lock, dht, registered, at, call, obj, todo, owing, history>>

SyncMembers(p) ==
  LET c == cache[at[p]]
  IN  /\ pc[p] = "syncMembers"
      /\ Free(at[p])
      /\ c # None
      /\ lock' = [lock EXCEPT ![at[p]] = p]
      /\ obj' = [obj EXCEPT ![p] = c]
      /\ heap' = [heap EXCEPT ![c].members = OrMap!Merge(@, buf[p].members)]
      /\ Goto(p, "syncExpenses")
      /\ UNCHANGED <<cache, dht, registered, at, call, buf, todo, owing,
                     history>>

SyncExpenses(p) ==
  /\ pc[p] = "syncExpenses"
  /\ heap' = [heap EXCEPT ![obj[p]].expenses =
                OrMap!Merge(@, buf[p].expenses)]
  /\ Goto(p, "syncPending")
  /\ UNCHANGED <<cache, lock, dht, registered, local, history>>

\* A plausible other SyncPending: merges the wrong map of the fetched group.
SyncPendingFromMembers(p) ==
  /\ pc[p] = "syncPending"
  /\ heap' = [heap EXCEPT ![obj[p]].pending = OrMap!Merge(@, buf[p].members)]
  /\ Goto(p, "syncBalances")
  /\ UNCHANGED <<cache, lock, dht, registered, local, history>>

SyncPending(p) ==
  /\ pc[p] = "syncPending"
  /\ heap' = [heap EXCEPT ![obj[p]].pending = OrMap!Merge(@, buf[p].pending)]
  /\ Goto(p, "syncBalances")
  /\ UNCHANGED <<cache, lock, dht, registered, local, history>>

\* A plausible other end of SyncGroup: without the Unlock.
EndSyncKeepingLock(p) ==
  /\ pc[p] = "syncBalances"
  /\ \A d \in Pair : buf[p].balances[d] = None
  /\ heap' = [heap EXCEPT ![obj[p]].keyTime = PN!Max2(@, buf[p].keyTime)]
  /\ obj' = [obj EXCEPT ![p] = None]
  /\ buf' = [buf EXCEPT ![p] = EmptyGroup]
  /\ Goto(p, AfterSync(p))
  /\ UNCHANGED <<cache, lock, dht, registered, at, call, todo, owing,
                 history>>

\* No fetched counter is left: the key with the later stamp is kept, and the
\* lock is released.  Nothing is written back to the DHT.
EndSync(p) ==
  /\ pc[p] = "syncBalances"
  /\ \A d \in Pair : buf[p].balances[d] = None
  /\ heap' = [heap EXCEPT ![obj[p]].keyTime = PN!Max2(@, buf[p].keyTime)]
  /\ lock' = [lock EXCEPT ![at[p]] = None]
  /\ obj' = [obj EXCEPT ![p] = None]
  /\ buf' = [buf EXCEPT ![p] = EmptyGroup]
  /\ Goto(p, AfterSync(p))
  /\ UNCHANGED <<cache, dht, registered, at, call, todo, owing, history>>

\* The loop over the fetched counters: the counter of a pair is created if
\* the copy has none ...
SyncCounter(p) ==
  /\ pc[p] = "syncBalances"
  /\ \E d \in Pair :
       /\ buf[p].balances[d] # None
       /\ heap' = [heap EXCEPT ![obj[p]].balances[d] = OrZero(@)]
       /\ owing' = [owing EXCEPT ![p] = d]
  /\ Goto(p, "mergeCounter")
  /\ UNCHANGED <<cache, lock, dht, registered, at, call, obj, buf, todo,
                 history>>

\* ... then it is looked up again, merged, and done with.
HasCounter(p) == pc[p] = "mergeCounter" /\ Copy(p).balances[owing[p]] # None

NextCounter(p) ==
  /\ buf' = [buf EXCEPT ![p].balances[owing[p]] = None]
  /\ owing' = [owing EXCEPT ![p] = None]
  /\ Goto(p, "syncBalances")
  /\ UNCHANGED <<cache, lock, dht, registered, at, call, obj, todo, history>>

\* Plausible other MergeCounters: one takes the fetched counter as it is, one
\* merges the copy's into the fetched one, which is thrown away.
MergeCounterOverwriting(p) ==
  /\ HasCounter(p)
  /\ heap' = [heap EXCEPT ![obj[p]].balances[owing[p]] =
                buf[p].balances[owing[p]]]
  /\ NextCounter(p)

MergeCounterSwapped(p) ==
  /\ HasCounter(p)
  /\ heap' = heap
  /\ NextCounter(p)

MergeCounter(p) ==
  /\ HasCounter(p)
  /\ heap' = [heap EXCEPT ![obj[p]].balances[owing[p]] =
                PN!Merge(@, buf[p].balances[owing[p]])]
  /\ NextCounter(p)

(***************************************************************************)
(* discoverGroupsFromRegistry, the other half of the loop                  *)
(***************************************************************************)
DiscoverGet(n) ==
  /\ pc[n] = "idle"
  /\ registered
  /\ Free(n)
  /\ cache[n] = None
  /\ dht # NoGroup
  /\ buf' = [buf EXCEPT ![n] = dht]
  /\ Goto(n, "discoverCache")
  /\ UNCHANGED <<shared, at, call, obj, todo, owing, history>>

\* The pointer is set whatever the cache holds by now.
DiscoverCache(n) ==
  /\ pc[n] = "discoverCache"
  /\ Free(n)
  /\ heap' = [heap EXCEPT ![n] = buf[n]]
  /\ cache' = [cache EXCEPT ![n] = n]
  /\ buf' = [buf EXCEPT ![n] = EmptyGroup]
  /\ Goto(n, "idle")
  /\ UNCHANGED <<lock, dht, registered, at, call, obj, todo, owing, history>>

(***************************************************************************)
(* A node process dies with its cache and its goroutines.                  *)
(***************************************************************************)
RunsOn(p, n) == at[p] = n /\ pc[p] \notin Final

Die(n) ==
  /\ pc' = [p \in Proc |-> IF RunsOn(p, n) THEN "dead" ELSE pc[p]]
  /\ obj' = [p \in Proc |-> IF RunsOn(p, n) THEN None ELSE obj[p]]
  /\ buf' = [p \in Proc |-> IF RunsOn(p, n) THEN EmptyGroup ELSE buf[p]]
  /\ cache' = [cache EXCEPT ![n] = None]
  /\ lock' = [lock EXCEPT ![n] = None]
  /\ UNCHANGED <<heap, dht, registered, at, call, todo, owing, history>>

\* It is killed, or its host fails ...
Crash(n) == pc[n] # "dead" /\ Die(n)

\* ... or SyncGroup panics in a goroutine of the loop, where nobody recovers.
Abort(n) ==
  /\ pc[n] = "mergeCounter"
  /\ Copy(n).balances[owing[n]] = None
  /\ Die(n)

JoinStep(r) ==
  \/ JoinCheckMember(r)
  \/ JoinCheckPending(r)
  \/ PutRequest(r)

ApproveStep(r) ==
  \/ ApproveCheckMember(r)
  \/ ApproveCheckRequester(r)
  \/ FindRequest(r)
  \/ Admit(r)
  \/ ResetBalances(r)
  \/ DropRequest(r)

ExpenseStep(r) ==
  \/ ExpenseCheckPayer(r)
  \/ CheckParticipant(r)
  \/ LockShard(r)
  \/ RecordExpense(r)
  \/ Charge(r)
  \/ Increment(r)
  \/ Charged(r)

MarshalStep(r) ==
  \/ MarshalMembers(r)
  \/ MarshalExpenses(r)
  \/ MarshalBalances(r)
  \/ MarshalRest(r)

\* The steps of a handler that need nobody to misbehave.
RequestStep(r) ==
  \/ Create(r) \/ Register(r)
  \/ Hit(r) \/ Miss(r) \/ Fetch(r) \/ FetchFails(r) \/ CacheFetched(r)
  \/ JoinStep(r) \/ ApproveStep(r) \/ ExpenseStep(r) \/ Answer(r)
  \/ SyncGetFails(r) \/ Panic(r)
  \/ Recache(r) \/ MarshalStep(r) \/ PutValue(r)

SyncStep(p) ==
  \/ SyncGet(p)
  \/ SyncCold(p)
  \/ SyncMembers(p)
  \/ SyncExpenses(p)
  \/ SyncPending(p)
  \/ SyncCounter(p)
  \/ MergeCounter(p)
  \/ EndSync(p)

DiscoverStep(n) == DiscoverGet(n) \/ DiscoverCache(n)

Next ==
  \/ \E w \in Workload : Receive(w[1], w[2], w[3])
  \/ \E r \in Request : RequestStep(r) \/ PutFails(r)
  \/ \E p \in Proc : SyncStep(p)
  \/ \E n \in Node : DiscoverStep(n) \/ Abort(n)
  \/ \E n \in Crashing : Crash(n)

Spec == Init /\ [][Next]_vars

(***************************************************************************)
(* Fairness.  The Go scheduler runs every goroutine that can run, and a    *)
(* sync.RWMutex admits every waiter in the end although others take it in  *)
(* between, hence strong fairness of each process; the ticker keeps the    *)
(* loop going.  Clients need not call, nodes need not crash and the DHT    *)
(* need not fail.                                                          *)
(***************************************************************************)
Fairness ==
  /\ \A r \in Request : SF_vars(RequestStep(r) \/ SyncStep(r))
  /\ \A n \in Node : /\ SF_vars(SyncStep(n) \/ Abort(n))
                     /\ SF_vars(DiscoverStep(n))

FairSpec == Spec /\ Fairness

(***************************************************************************)
(* Safety.                                                                 *)
(***************************************************************************)
\* What a copy, a buffer or the DHT may hold of a group.
WithinIssued(g) ==
  /\ g.members \subseteq issued.members
  /\ g.expenses \subseteq issued.expenses
  /\ g.pending \subseteq issued.pending

\* Nothing is invented: whatever mixture of old and new fields the unlocked
\* serialisation, the stale snapshots and the merges produce, every entry of
\* every copy, every buffer and the DHT was put by a handler.
NothingInvented ==
  /\ \A p \in Proc : WithinIssued(heap[p]) /\ WithinIssued(buf[p])
  /\ dht # NoGroup => WithinIssued(dht)

\* A group's counters, bounded by what the nodes charged.
WithinCharged(g) ==
  \A d \in Pair, n \in Node :
    g.balances[d] # None =>
      /\ g.balances[d].P[n] \in 0 .. charged[d][n]
      /\ g.balances[d].N[n] = 0

\* No overcharge: merging duplicated, delayed or torn snapshots never makes
\* a copy, a buffer or the DHT show more under a node's identifier than that
\* node charged in AddExpense.
NoOvercharge ==
  /\ \A p \in Proc : WithinCharged(heap[p]) /\ WithinCharged(buf[p])
  /\ dht # NoGroup => WithinCharged(dht)

\* What the recorded expenses make debtor d[1] owe creditor d[2].
Owed(d) ==
  LET due == {e \in issued.expenses : e.val.user = d[2]
                                      /\ d[1] \in Debtors(e.val)}
  IN  PN!SumFunction([e \in due |-> e.val.share])

\* Debts are warranted: no copy that is in use shows a debt above the sum of
\* the shares of the expenses ever recorded for that pair of users, although
\* the copy may have lost those expenses, or have got them several times.
DebtsWarranted ==
  \A n \in Node, d \in Pair :
    cache[n] # None =>
      PN!Value(OrZero(heap[cache[n]].balances[d])) <= Owed(d)

\* What a copy shows that debtor d[1] owes creditor d[2] under n's identifier.
Shown(g, d, n) == OrZero(g.balances[d]).P[n]

Called(op) == \E r \in Request : call[r] # None /\ call[r].op = op

\* A node keeps its own account: as long as nobody approves or creates, the
\* entry of a node that started with a copy shows in that copy exactly what
\* the node charged.  Expenses can vanish in a merge, these debts cannot.
OwnDebtsKept ==
  ~ Called("approve_join") /\ ~ Called("create_group") =>
    \A n \in Warm, d \in Pair :
      cache[n] # None =>
        Shown(heap[cache[n]], d, n) = charged[d][n]

\* The copies made at node n that its cache does not point to (any more).
Rivals(n) == {p \in Proc : at[p] = n} \ {cache[n]}

\* Only rivals take debts: as long as nobody approves, what the cached copy
\* of a node falls short of the node's own charges is in copies that it
\* displaced, whole.  A charge is lost to a node with the copy it was made on
\* (two handlers fetch, the loop or CreateGroup caches a copy of its own, a
\* pointer is put back), and never by a merge, a reader or a failed write.
OnlyRivalsTakeDebts ==
  ~ Called("approve_join") =>
    \A n \in Node, d \in Pair :
      cache[n] # None =>
        charged[d][n] <= Shown(heap[cache[n]], d, n)
          + PN!SumFunction([p \in Rivals(n) |-> Shown(heap[p], d, n)])

\* No handler is between recording an expense and its last charge, nor was
\* any cut short by a panic or a crash.
Settled ==
  \A r \in Request : pc[r] \notin {"charge", "increment", "panicked", "dead"}

\* The debts add up: as long as nobody approves or creates, what the nodes
\* show under their own identifiers, each in its own copy, is together exactly
\* what the recorded expenses make due.  A failed write to the DHT takes
\* nothing away, a merge neither, and no debtor is charged twice or forgotten.
DebtsAddUp ==
  /\ ~ Called("approve_join") /\ ~ Called("create_group")
  /\ \A n \in Node : n \in Warm /\ cache[n] # None
  /\ Settled
  => \A d \in Pair :
       PN!SumFunction([n \in Node |-> Shown(heap[cache[n]], d, n)]) = Owed(d)

\* A process in a critical section of a node.
InCritical(p) ==
  \/ pc[p] \in Locked
  \/ /\ p \in Request
     /\ pc[p] \in Marshalling \cup {"put"}
     /\ call[p].op = "add_expense"

\* Somebody at r's node approved a user whose counters r was about to use.
Interfered(r) ==
  \E s \in Request :
    /\ at[s] = at[r]
    /\ call[s].op = "approve_join"
    /\ call[r].op = "add_expense" => call[s].subject \in Debtors(call[r])

\* Whoever is in a critical section of a node holds its shard lock, so merges
\* and charges exclude one another; and a lock is held by nobody else, unless
\* an approval has made a handler of that node panic.
LockHeld ==
  \A p \in Proc, n \in Node :
    /\ InCritical(p) /\ at[p] = n => lock[n] = p
    /\ lock[n] = p =>
         /\ at[p] = n
         /\ InCritical(p) \/ (pc[p] = "panicked" /\ Interfered(p))

\* Only an approval forgives: the debt a copy shows never falls, except in
\* the step of ApproveJoin that initialises the balances of its requester.
OnlyApprovalForgives ==
  [][\A p \in Proc, d \in Pair, n \in Node :
       Shown(heap[p], d, n)' < Shown(heap[p], d, n) =>
         \E r \in Request : /\ pc[r] = "resetBalances"
                            /\ pc'[r] = "dropRequest"
                            /\ obj[r] = p
                            /\ call[r].subject = d[1]]_vars

\* The calls that put a member into some copy.
Admissions == {call[r] : r \in {e.tag : e \in issued.members} \ {Setup}}

\* The nodes implement the ledger: approvers, payers and participants were
\* admitted and requesters had asked, however stale the copy each handler
\* checked and however many nodes and handlers acted in between.
Ledger == INSTANCE GroupLedger WITH
            admitted <- OrMap!Keys(issued.members),
            approvals <- {c \in Admissions : c.op = "approve_join"},
            asked <- OrMap!Keys(issued.pending),
            expenses <- {e.val : e \in issued.expenses}

ImplementsLedger == Ledger!Spec

(***************************************************************************)
(* The inductive invariants behind the safety properties.                  *)
(***************************************************************************)
\* Labels at which a process uses the copy it has found.
Working ==
  Marshalling \cup Locked \cup
  {"checkMember", "checkPending", "putRequest", "checkRequester",
   "findRequest", "admit", "resetBalances", "dropRequest", "recache",
   "checkParticipants"}

\* A handler under way has a node, a call and, where it needs one, a copy.
Pointers ==
  /\ \A r \in Request : pc[r] \notin {"idle", "dead"} =>
                          at[r] \in Node /\ call[r] \in Calls
  /\ \A n \in Node : at[n] = n
  /\ \A p \in Proc : pc[p] \in Working => obj[p] \in Proc
  /\ \A r \in Request : pc[r] = "increment" => owing[r] \in Pair
  /\ \A p \in Proc : pc[p] = "mergeCounter" =>
                       /\ owing[p] \in Pair
                       /\ buf[p].balances[owing[p]] # None

TypeInv == TypeOK /\ Pointers

(***************************************************************************)
(* Liveness, under FairSpec.                                               *)
(***************************************************************************)
\* Every request is answered: no handler waits for ever for the shard lock,
\* which AddExpense keeps while it talks to the DHT.
RequestsFinish ==
  \A r \in Request : pc[r] # "idle" ~> pc[r] \in Final

Live(n) == pc[n] # "dead" /\ cache[n] # None /\ dht # NoGroup

SameKeys(g, h) ==
  /\ OrMap!Keys(g.members) = OrMap!Keys(h.members)
  /\ OrMap!Keys(g.expenses) = OrMap!Keys(h.expenses)
  /\ OrMap!Keys(g.pending) = OrMap!Keys(h.pending)

\* The maps converge: once clients stop, every node ends up with the members,
\* expenses and requests that are stored, for good.
KeysConverge ==
  <>[](\A n \in Node : Live(n) => SameKeys(heap[cache[n]], dht))

Covers(g, h) ==
  \A d \in Pair, n \in Node : Shown(g, d, n) >= Shown(h, d, n)

\* Stored debts arrive: once clients stop, every node ends up with at least
\* the debts that are stored.
BalancesCover ==
  <>[](\A n \in Node : Live(n) => Covers(heap[cache[n]], dht))

(***************************************************************************)
(* What the documentation and the tests say, and the code does not do.     *)
(***************************************************************************)
\* Replicas converge: once clients stop, any two nodes end up with the same
\* balances ("Uses CRDT Merge functions to resolve conflicts and achieve
\* eventual consistency").
BalancesConverge ==
  <>[](\A m, n \in Node :
         Live(m) /\ Live(n) =>
           \A d \in Pair, i \in Node : Shown(heap[cache[m]], d, i)
                                       = Shown(heap[cache[n]], d, i))

\* A second approval fails: on the node that acknowledged the approval of a
\* user, no later approval of that user gets past the member check.
SecondApprovalFails ==
  [][\A r, s \in Request :
       /\ pc[r] = "ok" /\ call[r].op = "approve_join"
       /\ pc[s] = "checkRequester"
       /\ call[s].subject = call[r].subject
       /\ at[s] = at[r]
       => pc'[s] # "findRequest"]_vars

\* An acknowledged expense survives: the DHT or the copy of some running
\* node has it.
ExpensesSurvive ==
  \A r \in Request :
    pc[r] = "ok" /\ call[r].op = "add_expense" =>
      \/ dht # NoGroup /\ OrMap!Has(dht.expenses, call[r].id)
      \/ \E n \in Node : /\ cache[n] # None
                         /\ OrMap!Has(heap[cache[n]].expenses, call[r].id)
=============================================================================
