# PearBook in TLA+

This directory models PearBook (`src/pearbook_core`), a peer-to-peer expense
splitter: nodes keep groups of users as CRDTs in a cache, exchange them as one
serialised value per group through a DHT, and serve clients over HTTP. The
modules here say what the nodes do with a group, how they find one another's
groups, what their loops and their key files do, what all that guarantees and
what it does not. TLC checks it on small instances; TLAPS proves all the
safety properties of the passing runs for every instance.

All definitions are taken from the Go code. `PROJECT.json` maps each one to its
lines, lists the runs, the deliberately wrong variants (*mutants*) that show
each property can fail, the findings and the hazards.

## 1. The system

| Component | State | Operations | Correct when |
|---|---|---|---|
| Group handlers (`node/node.go`) | `shards`: group id -> `*Group`, 16 shards, one `RWMutex` each | `CreateGroup`, `JoinGroup`, `ApproveJoin`, `AddExpense`, `GetBalances`, `GetPendingJoins` | only members act, only requesters are admitted, debts come from recorded expenses, nobody waits for ever |
| Synchronisation (`SyncGroup`) | the cached group | read the DHT, lock, merge, unlock | merging never invents or multiplies, and what is stored arrives |
| Periodic loop (`StartPeriodicSync`, `performSync`) | ticker, worker pool of 2 | discover groups of the registry, sync every cached group, wait for all | every listed group is synchronised again and again |
| Group registry | one DHT value: list of group ids | register (read, append, write), discover | a registered group is found by every node |
| OR-Map (`crdt/ormap.go`) | key -> tag -> value | `Put`, `Remove`, `Get`, `GetAll`, `Keys`, `Merge` | versions of concurrent puts survive |
| PN-Counter (`crdt/pncounter.go`) | two maps replica -> count | `Increment`, `Decrement`, `Value`, `Merge` | every operation counts exactly once |
| OR-Set (`crdt/orset.go`) | element -> tags, tombstones | `Add`, `Remove`, `Contains`, `Merge` | (not used by the rest) |
| DHT (`dht/`) | key -> value; Kademlia's validator | `PutValue`, `GetValue` | a read returns a value that was written |
| Expense amounts (`node/node.go`) | counters | split, truncate, add, merge | debts follow what was signed |
| Signing (`utils/crypto*.go`) | keys | build the signed bytes, sign, verify | a genuine signature verifies |
| Compression (`utils/compressor.go`) | none | gzip | round trip |
| HTTP server (`server/`) | none | decode, call the node, encode | - |
| Command line (`cmd/`) | process, key file | start and stop a server, generate a key, sign | requests under way are answered; the printed key is the one in the file |

How they interact. A handler and the loop are goroutines of one process; they
share the shards. A handler looks the group up under the shard's read lock,
gives the lock back, and goes on with the *pointer*. `JoinGroup` and
`ApproveJoin` change and serialise the copy behind the pointer without any lock
but the mutex inside each CRDT, and store the pointer in the cache again.
`AddExpense` takes the write lock after its checks and keeps it until the DHT
has answered. `SyncGroup` reads the DHT *before* it takes the lock. Nodes share
only the DHT: a handler overwrites the stored group with its own copy, and no
merge is ever written back.

What makes that hard: interleaved handlers on one copy; several copies of one
group in one node; stale, torn and duplicated snapshots; lost updates in the
DHT; failed writes after the copy was changed; panics that leave a lock behind;
crashes of nodes without a store; `ORMap.Merge`, which deletes what the other
side has never seen. The list with lines is `hazards` in `PROJECT.json`.

## 2. The modules

Models:

| Module | Models | Role |
|---|---|---|
| `ORMap`, `PNCounter`, `ORSet` | `crdt/*.go` | the CRDTs, as operators on values |
| `ORMapReplicas`, `PNCounterReplicas`, `ORSetReplicas` | replicas exchanging snapshots of one CRDT | a state machine for each |
| `Replicas` | the three of them | composition; a behaviour exercises one |
| `GroupNode` | `node/node.go`, `models/`, `dht/simulated.go`, the calls of `server/` | the core: all nodes and the DHT around one group |
| `GroupLedger` | nothing in the code | abstract specification that `GroupNode` implements |
| `KadStore` | `dht/kdht.go` | one key of Kademlia: the copies of the peers, as operators |
| `GroupRegistry` | `getShardIndex`, `CreateGroup`, `registerGroupInRegistry`, `discoverGroupsFromRegistry` | many groups: how they are stored, listed and found |
| `PeriodicSync` | `StartPeriodicSync`, `performSync`, `commands/server.go` | `GroupRegistry` with the rounds of the loop, its workers and the life of the process; implements `GroupRegistry` |
| `OperationSigning` | `utils/crypto.go` | signed bytes, signatures, verification, as operators |
| `ExpenseSplit` | the amounts of `AddExpense` | shares, truncation, overflow, as operators |
| `SignedExpenses` | `commands/genkey.go`, `commands/sign.go`, `AddExpense` as one step | from the key file to everybody's debts |
| `MCGroupNode`, `MCReplicas`, `MCPeriodicSync`, `MCSignedExpenses` | - | instances for TLC |

Proofs (none of these modules declares a constant or a variable):

| Module | Proves, of |
|---|---|
| `GroupNodeTypeProofs` | types, of `GroupNode` |
| `GroupNodeDebtProofs` | nobody is overcharged, debts are warranted |
| `GroupNodeLockProofs` | locks, forgiveness, a node's own debts, and that debts add up |
| `GroupNodeLedgerProofs` | nothing is invented, the ledger is implemented |
| `PeriodicSyncProofs` | shards, types, what is listed, of `GroupRegistry`; that `PeriodicSync` implements it, rounds, shutdown |
| `ReplicasProofs` | the CRDTs, of `Replicas` |
| `SignedExpensesProofs` | types, the key file, debts and exact shares, of `SignedExpenses` |
| `SumTheorems` | induction on finite sets and sums over them, for the others |

### GroupNode

A *process* is a request (`r1`, ...) or a node's loop, named by the node. `pc`
is the place in the handler. The variables and what they stand for:

| Variable | Code |
|---|---|
| `cache[n]` | the pointer `shards[i][groupID]` of node n; `None` if absent |
| `heap[p]` | the `Group` object that process p allocated (a fetched, created or synced one) |
| `lock[n]` | holder of the shard's write lock over more than one step |
| `dht` | the value under the group's key |
| `registered` | whether the registry lists the group |
| `obj[p]` | the pointer held in the handler's local variable `group` |
| `buf[p]` | a decoded DHT value, or the serialised group being built |
| `todo[r]` | participants still to check, then debtors still to charge |
| `owing[p]` | the (debtor, creditor) whose counter is being charged or merged |
| `issued`, `charged` | history: entries ever put, cents ever charged per node |

One action is one access to something another goroutine can reach: looking up
or setting the pointer, one call of a CRDT method (which holds the CRDT's
mutex), one look at the balances map, one field read by `json.Marshal`, one DHT
call. So the handlers read:

* any but `CreateGroup` and `GetPendingJoins`: `Hit`, or `Miss`, `Fetch`
  (or `FetchFails`), `CacheFetched`; then the checks.
* `CreateGroup`: `Create`, the four `Marshal...` steps, `PutValue` (or
  `PutFails`), `Register`.
* `JoinGroup`: `JoinCheckMember`, `JoinCheckPending`, `PutRequest`, `Recache`,
  `Marshal...`, `PutValue`.
* `ApproveJoin`: `ApproveCheckMember`, `ApproveCheckRequester`, `FindRequest`,
  `Admit`, `ResetBalances`, `DropRequest`, `Recache`, `Marshal...`, `PutValue`.
* `AddExpense`: `ExpenseCheckPayer`, `CheckParticipant`*, `LockShard`,
  `RecordExpense`, (`Charge`, `Increment` or `Panic`)*, `Charged`, `Marshal...`,
  `PutValue`.
* `GetBalances`: `Answer`. `GetPendingJoins`: `SyncGroup`, then a lookup, then
  `Answer`.
* `SyncGroup`: `SyncGet`, then `SyncCold`, or `SyncMembers`, `SyncExpenses`,
  `SyncPending`, (`SyncCounter`, `MergeCounter`)*, `EndSync`.
* the loop: `DiscoverGet`, `DiscoverCache`, and `SyncGroup`.

`Charge`/`Increment` and `SyncCounter`/`MergeCounter` are two steps because the
code looks the counter up twice and `ApproveJoin`, which holds no lock, may
replace the requester's counters in between. The second look then finds a nil
counter and the goroutine panics: in a handler `net/http` recovers and the
shard lock stays locked (`Panic`), in the loop the process ends (`Abort`).

What is abstracted, and why it does not matter to the properties:

* one group, so one shard and one DHT key: nothing in the handlers relates two
  groups, save that groups of a shard wait for one lock (`GroupRegistry`);
* the name of the request is also the UUID of the one entry it puts, and the
  name of the one object it allocates; both are fresh in the code;
* `MemberInfo` and `JoinRequest` become their user, an expense becomes its
  call, keys of pending requests (`group:user`) become the user;
* a signature that does not verify and a malformed operation only reject, as a
  failed membership check does; calls are those of the signers themselves
  (`SignedExpenses` has both kinds);
* the amount is one share in cents for each call, and participants are a set:
  truncation, zero and repeated participants are left to `SignedExpenses`;
  counts are therefore never negative, and a replica missing from a counter
  equals zero;
* each field of the struct is serialised at one instant. A field that changes
  *while* it is read would add mixtures within one field, or Go's fatal
  "concurrent map" error, which ends the process at that point as `Crash` does;
* balances are serialised as counters, not as the nested map; an empty inner
  map reads like a missing one;
* a write that fails may have reached peers: `PutFails` leaves either value;
* a node that restarts has a new random identifier and an empty cache: it is
  another element of `Node`, idle so far.

### GroupLedger

What the nodes promise together, however stale each copy: `Admit` only by
someone who was ever admitted, of someone who ever asked; `Record` only by and
for admitted users; `Charge` only for a recorded expense, a participant of it
and its payer. `ImplementsLedger` instantiates it with the history variables of
`GroupNode`: the entries ever put, and through the request that put it, the
call that admitted each member. Every handler step is a ledger step or leaves
the ledger alone.

### GroupRegistry

`GroupNode` follows the contents of one group; here a group is an identifier
and the subject is who has it and who knows of it. A process is a request that
creates a group, or a node's loop.

| Variable | Code |
|---|---|
| `reached[g]` | the peers that writes of g under its own key have reached |
| `list[n]` | peer n's copy of the value under `/namespace/group-registry`, as a set of identifiers |
| `gone` | nodes that have ended, and with them their peers |
| `cached[n]` | the groups in node n's shards |
| `busy[n]` | shards whose write lock an `AddExpense` holds while it talks to the DHT |
| `pc`, `home`, `target` | where a process is, its node, the group it creates or has fetched |
| `seen[p]` | the list that p has read, less what it has dealt with |
| `registered`, `disturbed` | history: what was listed, and whether anything overlapped or failed |

`CreateGroup` is `Cache`, `StoreGroup` (or `StoreGroupFails`, which leaves the
group in the cache and perhaps on a peer), `ReadList`, `WriteList`: the code
reads the list, appends and writes it back, and looks at no outcome.
Discovery is `DiscoverRead`, and for each identifier `SkipKnown`,
`FetchUnknown` and `Keep`, or `FetchUnknownFails`. `Occupy` and `Vacate` are
`AddExpense` of any group, which keeps a lock of a whole shard. `Leave` is the
end of a process with all it has. A read yields any copy of any running peer,
since `AllowAnyValidator.Select` takes the first that arrives; writes and
reads of a flaky node reach some peers only, or fail.

### PeriodicSync

`PeriodicSync` adds to each looping node its round and its process: `phase`
(discover, list, sync, rest), `shard` (the next one to list), `jobs` (the
channel), `fetching` and `merging` (what workers are at: `SyncGroup` reads
before it locks), `workers` (those that have not returned), and `process`:

    starting --Serve--> serving --Signal--> draining --Shutdown--> closed
       |                                       |
       +--SignalKills--> killed <--ShutdownTimesOut--+

`runServer` starts the HTTP server in a goroutine and then runs the first round
itself, so requests are served, and signals not caught, until it is over
(`SignalKills`). `Shutdown` refuses new requests and waits five seconds for
those under way; after them the process ends all the same
(`ShutdownTimesOut`). Nobody cancels the context of the loop before. What a
merge does to the copy is `GroupNode`'s subject.

### SignedExpenses

`gen` is where each run of `genkey` is: `GenKeyChecks` (refuses if the file is
there and it is not forced), `GenKeyCreates` (empties the file),
`GenKeyWrites`. `Sign` uses the key the file has at that moment, for the user
it is told; `Join` makes a printed key the member's. `Refuse` and `AddExpense`
verify the signature over bytes built anew, which may differ from those that
were signed, as Go iterates over maps in any order. An accepted expense is split:
`Cents` truncates towards zero, may lose one more cent to the floating-point
product, and has both ends of the range for what does not fit; `Plus` wraps
around. `entry`, `stored` and `remote` are one node's entries in its own copy,
in the DHT and at another node, which exchange them (`SyncHere`, `SyncThere`,
`WriteThere`); a write that fails leaves `stored` as it was. Amounts are mills;
histories count exact shares in `Scale`-ths of a mill. An `int64` has four
bits, so that sums and amounts overflow within a few steps.

### Replicas

A replica calls its CRDT's methods, publishes snapshots of itself (`Send`), and
merges any snapshot ever published, any number of times (`Deliver`): that is
what a DHT with stale copies does. `done` is the history of the calls a
replica has heard of.

## 3. The runs

Every passing run explores all interleavings of what its workload admits.
Bounds are the sets in the `.cfg` and the definitions in the `MC` module;
nothing else limits the models.

| Run | Instance | Shows |
|---|---|---|
| `Approvals` | 1 node; 2 requests that approve Bob or read with a sync, 1 expense | `TypeOK`; `LockHeld`: lock and critical section coincide, except after a panic that an approval caused; `OnlyApprovalForgives` |
| `Founding` | 2 nodes, no group; one or two creations, one or two joins of Bob (at one node or two), approvals by a member and by the applicant himself | `NothingInvented`, `ImplementsLedger` |
| `Failures` | 1 warm node that may crash, 1 cold one; expenses, retries, reads; every DHT call may fail | `LockHeld`, `NoOvercharge`, `DebtsWarranted`, `OwnDebtsKept`; `OnlyRivalsTakeDebts`: what a cached copy lacks of its node's charges is in copies it displaced |
| `Answering` | 2 warm nodes, one may crash; 2 expenses at one or both; DHT calls may fail; fairness | `DebtsAddUp`, `RequestsFinish`, `BalancesCover` |
| `Convergence` | 1 warm, 1 cold node; an approval races a join; fairness | `KeysConverge` |
| `Replicas` | 2 replicas of each CRDT; 2 keys or elements, 3 tags, 2 counts per replica, 3 set calls | `ReplicasTypeOK`, `VersionsSurvive`, `ValueIsSum`, `CountersConverge`, `NeverFalls`, `OnlyCallsCount` |
| `PeriodicSync` | 2 nodes that may be told to stop, one of which loops and has flaky calls; 2 groups in 2 shards, created at either node or both at one; 2 workers; fairness | `LoopTypeOK`, `ListedIsStored`, `OnlyTroubleUnlists`, `RoundComplete`, `OnlyKillsStrand`, `ImplementsRegistry`, `ListedIsSynced` |
| `SignedExpenses` | 2 runs of genkey, 2 signed requests, 3 accepted, 2 debtors; 5 awkward expenses | `TypeOK`, `PrintedKeyIsInFile`, `DebtsFollowShares` |
| `ExpenseLost` | 2 nodes, 1 expense each | violated: `ExpensesSurvive` |
| `BalancesDiverge` | the same, fairness | violated: `BalancesConverge` |
| `SecondApproval` | 2 approvals at one node | violated: `SecondApprovalFails` |
| `GenuineRejected` | 1 key, 1 request | violated: `GenuineAccepted` |

Why the bounds are enough for the cases meant.

* `GroupNode`: two nodes give a writer and a reader of every stale or lost
  snapshot; two handlers and a loop on one node give every pair of races on one
  copy and several copies in one node; a third request retries or interferes
  with the first two. Requests, not steps, are bounded: loops synchronise as
  often as they like. Two users suffice for a debt in each direction; with two,
  an expense has one debtor, so a loop over several debtors is left to the
  proofs, which cover any number.
* `PeriodicSync`: two creations overlap, or the second starts from a list that
  lacks the first; two shards, one of which is locked while the other is
  listed; two workers share two groups, and one group keeps one of them
  waiting. Rounds are not bounded. One group has the largest hash there is, so
  the conversion to `int` is met at its boundary.
* `SignedExpenses`: three acceptances of two requests include a request that is
  accepted twice, and a refund before or after an older entry returns. The
  expenses are: a cent and a half for each of two, a name that is repeated, a
  refund, an amount that does not fit, and no participants.
* `Replicas`: two replicas exchange any of their earlier snapshots; a third
  would only relay them.

Symmetry is used only in runs without liveness: over requests with equal
workloads, and over the replicas, keys and tags, which the models only compare.

`CHECK_DEADLOCK FALSE` is set in `Approvals`, where a panic leaves the lock
locked and everything may stop, in `Founding`, where nothing runs when all
requests fail before a group is stored, and in `PeriodicSync`, where every
process may have been stopped.

**Fairness.** `FairSpec` (`GroupNode`): strong fairness of every request under
way, of every node's synchronisation and of its discovery. The Go scheduler
runs every runnable goroutine; a step that waits for the lock is enabled and
disabled by others, but `sync.RWMutex` admits every waiter in the end, hence
*strong*; the ticker of `StartPeriodicSync` starts the loop again and again.
Nothing obliges clients to call, nodes to crash or the DHT to fail; a DHT call
is assumed to return. `RequestsFinish` holds in `Answering` because no approval
runs there: after a panic (`Approvals`) the shard's lock is never released and
later requests wait for ever.

`LoopSpec` (`PeriodicSync`): strong fairness of each loop, for the same
reasons; weak fairness of `Vacate`, since `AddExpense` gives the lock back when
its DHT call returns; and strong fairness of reads, discoveries and fetches
that *succeed*, that is: what a loop tries for ever does not fail for ever.
Without the last, `ListedIsSynced` could not hold of any retrying code. Nothing
obliges a request to arrive, a creation to go on or a signal to be sent.

### Findings

* **`ExpenseLost`** Two nodes each add an expense; the second write to the DHT
  overwrites the first; the first node's next `SyncGroup` deletes the only copy
  of its acknowledged expense, because `ORMap.Merge` ends by deleting every key
  the other map lacks, whether it was removed or never seen.
  `crdt_test.go:189` expects both maps' keys in a merged map.
* **`BalancesDiverge`** The merge stays local, so after the last write the two
  nodes show different balances for good.
* **`SecondApproval`** A sync that read the DHT before an approval removes the
  member from the copy again; a second approval passes the checks and resets
  the member's balances. `main_test.go:381` expects it to fail.
* **`GenuineRejected`** `SignData` drops leading zero bytes of a signature's two
  numbers, so about one signature in 128 is shorter than the 64 bytes
  `VerifySignature` demands. `utils_test.go:53` and `:72` expect 64 bytes and
  success of every signature.

Three more texts disagree with the code; the models follow the code, and no run
is spent on them.

* `utils/crypto.go:70` calls the bytes to be signed canonical, and
  `utils_test.go:113` expects one order of the extra data. They follow the
  iteration order of a Go map, so a genuine request may fail at one attempt and
  pass at the next. `CreateOperationData` is the set of all orders, and
  `GenuineAccepted` is violated by them too; `GenuineRejected` has one item of
  data only, so that its trace is about the length of the signature.
* `utils_test.go:89-94` expects a 14-byte mock signature to verify with the real
  `VerifySignature`, which refuses whatever is not 64 bytes long. Only the mock
  crypto service, which is not modelled, accepts it.
* `pearbook_core/README.md:401` says that balances are synchronised before they
  are read; `GetBalances` reads the cached copy, and it is `GetPendingJoins`
  that synchronises.

The runs also document, without contradicting any text, that a handler may panic
with the shard lock held (`Approvals`, `LockHeld`), that a group may be stored
and never listed (`OnlyKillsStrand`), that overlapping registrations and failed
reads lose list entries (`OnlyTroubleUnlists`), that charges are lost to a node
with a copy that another one displaces in its cache (`OnlyRivalsTakeDebts`), and
that debts may fall short of the exact shares by a cent for each expense
(`DebtsFollowShares`).

## 4. The theorems

All hold for every value of the constants that satisfies the assumption of the
module: `ConstantsAssumption` (processes, tags and the absent values are
different things; the instance's sets have their types), `NodesAssumption` (the
nodes are finitely many, so that what they charged has a sum),
`RegistryAssumption` (as `ConstantsAssumption`, and that an `int` has room for a
32-bit hash), `LoopAssumption`, `DeltaAssumption` (finitely many replicas, which
count natural numbers) and `SignedAssumption` (amounts are integers, and shares
are whole in the unit of the histories). TLC evaluates them in every run of
`MCGroupNode`, `MCPeriodicSync`, `MCReplicas` and `MCSignedExpenses`.

### Sums

Owed, charged and counted amounts are sums over sets of expenses, nodes and
operations, which the library defines by recursion over a choice of elements.
`SumTheorems` proves what is needed of them once: a sum does not depend on the
order (`SumRemove`), it is monotone, and sums over disjoint sets add up. The
induction in it is about a *set* of good subsets rather than a predicate
(`SetInduction`), which follows from the fact that strict inclusion among finite
sets is well founded, a theorem without an operator parameter.

### Of GroupNode

* `TypeCorrect`: `TypeOK` is not inductive: a step that works on a copy needs
  `obj[p]` to be one, a step that finishes needs its node and call. `Pointers`
  adds that a process at a label where it uses a copy, a node, a call or a pair
  has one, and that a counter being merged is still in the buffer; `TypeInv` is
  the conjunction. One step of the proof per action; lemmas say that `Put`,
  `Remove`, `Merge` and the counter operations return maps and counters.
* `NeverOvercharged`: `AllBounded` bounds each counter in each copy, each buffer
  and the DHT by `charged`. Only `Increment` raises a count, and `charged` with
  it; `MergeCounter` takes the larger of two bounded counts; everything else
  moves balances or empties them. That snapshots are torn, duplicated, delayed
  or lost does not matter to the argument.
* `DebtsAlwaysWarranted`, and `WarrantedEverywhere`, which says it of every
  copy, every value under way and the stored group: `WarrantInv` links `charged`
  to the expenses recorded. A debtor is charged once for an expense, since
  whoever charges still has the debtor in `todo`; what all nodes charged of one
  pair is therefore at most the sum of the shares of the expenses whose handlers
  have got past that debtor (`Paid` over `Due`), and exactly that while no
  handler has panicked or died between recording and charging (`NobodyShort`).
  With `AllBounded` the same bound holds of whatever was copied or merged.
* `NothingEverInvented` and `NodesImplementLedger`: `AllWithin` says the same of
  entries: all are among those ever put. `ClaimInv` adds what every handler
  knows at its label (the approver was a member of some copy, the request it
  drops was put, the expense it charges is recorded), with which every step is
  a step of the ledger or leaves it alone.
* `LockAlwaysHeld`, `OnlyApprovalsForgive`, `OwnDebtsAlwaysKept`,
  `RivalsAloneTakeDebts`: `NodeInv`
  collects `TypeInv`, `AllBounded` and
  - `LabelInv`: which operation may be at which label;
  - `HomeInv`: whoever has a copy runs at the node the copy belongs to, and
    nothing runs at a dead node;
  - `BirthInv`: a copy not yet allocated is empty and nobody has it;
  - `ChargeInv`: the counter that a handler has seen to is still there, unless
    an approval interfered;
  - `LockInv`: critical sections and locks coincide, with that exception; no
    loop ever panics with the lock;
  - `OwnCopy`, `OwnDebts`: in quiet instances (no approval, no creation) a node
    that starts with a copy keeps it, and the copy has all the node charged;
  - `HomedInv`: as long as nobody approves, what a node charged is at most what
    the copies made there show together, in use or not. A request brings a copy
    that is still empty, a charge raises a copy of its own node by as much as
    `charged`, and nothing else makes a copy show less (`StepGrows`). Creations,
    racing fetches and pointers put back only choose among these copies.

  `DebtsAlwaysAddUp` puts `OwnDebts` and the equality in `WarrantInv` together:
  each node shows what it charged, and what all charged is what is due. It is an
  equality where `NoOvercharge` and `DebtsWarranted` only bound from above.

  Critical sections exclude one another because two holders of one node's lock
  are equal. Forgiveness is a lemma on steps, `StepForgives`: no step but
  `ResetBalances` makes a counter of any copy fall, because `MergeCounter` puts
  the larger counts into the copy as it is *then*, not as it was read.

### Of the registry and the loop

`ShardIndexInRange`: every group has a shard, if the hash fits into an `int`
(where it does not, the index may be negative: the mutant shows it).
`RegistryTypeCorrect` needs `UnderWayOK`: a creation under way has a group and
a running node. `LoopImplementsRegistry` proves
`LoopSpec => ImplementsRegistry`, so that what the first part of
`PeriodicSyncProofs` shows of the registry holds of the whole: `LoopListsStored` (`ListedIsStored` with: who
is about to list a group has stored it) and `LoopUnlistsByTrouble`
(`OnlyTroubleUnlists` with: while nothing is disturbed there is one writer at a
time, it has read all that is registered, and peers that are gone list
nothing). `LoopTypeCorrect`; `RoundsComplete`, from the fact that a worker
returns only when the channel is empty and it holds nothing, and that busy
workers are never more than those that have not returned (`RoundInv`);
`StrandsOnlyWhenKilled`, from `StrandInv`: the creation that answers for a
stored, unlisted group, and that a process is closed only when nothing it
serves is under way.

### Of the CRDTs

`VersionsAlwaysSurvive` rests on `VersionInv`: a tag has one value wherever it
occurs, in maps and in snapshots; so a merge that keeps a key keeps its
versions. `MergeTakesOthersKeys` and `MergeOfSameKeys` are about `ORMap.Merge`
itself: a merged map has the keys of the other map and no more, the reason for
`ExpenseLost`; and where the keys agree, merging is union.

`CountsNeverFall` needs only that maps of counts have their type
(`CountsInv`). `ValueIsAlwaysSum` and `CountersAlwaysConverge` need `WorthInv`,
since a merge takes the union of histories but the larger of two counts, and
these agree only because counts under one identifier grow in one place. So the
invariant looks at what a snapshot has *of one replica*, that replica's
operations and its two counts: any two snapshots can be compared in it, the
replica itself has the largest, equal operations mean equal counts, and the
difference of the counts is the sum of the operations. A merge then takes both
from the same side, replica by replica; the sum over replicas is
`ValueIsTotal`. `OnlyCallsEverCount` rests on `CallInv`: the additions and
removals in a set are exactly those in its history, of replicas and of
snapshots. `ReplicasTypes` follows from these three.

### Of SignedExpenses

`SignedTypes` is inductive as it stands; every sum wraps into the range.
`PrintedKeyStays` needs `KeyInv`: until somebody forces genkey or runs it twice
at once, one run at most is under way, one that has found no file still has
none when it creates it, and half of one when it writes. `DebtsFollow`:
with the types, `DebtsFollowShares` is inductive. The lemmas bound one step: what
`Cents` makes of a share is at most the share and less by no more than a cent
(`Division`, `TimesMonotone`), a sum that fits is exact, and a merge picks one
of two entries that were bounded. The modulus of the integers is a constant
of the proof, not the four bits of the run.

### Model-checked only

Liveness: `RequestsFinish`, `BalancesCover`, `KeysConverge` and `ListedIsSynced`
rest on fairness, which is out of the provers' reach. What the findings' runs
violate is, of course, only shown by their counterexamples.

## 5. What is not modelled

| Part | Why |
|---|---|
| Compression | a function of the library; a corrupt value makes a handler fail as a failed read does |
| How libp2p finds peers, and that it writes a selected value back to peers with another one | the library's own behaviour; without the write-back, peers differ for longer |
| Nodes that join the DHT late | a new peer holds no list and no group: in `GroupRegistry`, what a peer holds that writes have not reached |
| HTTP decoding, wording of replies, flags, environment, a listener that cannot bind | sequential I/O: a request that is not decoded reaches no node |
| `GetPendingJoins`' view of several versions of a request; identifiers with a colon | approvals of stored requests are always empty, so the view adds nothing; a colon in an identifier only makes an approval find no request |
| How values are printed into the signed bytes | `OperationSigning` keeps what varies, the order |
| `GetGroups`, `SetCryptoService`, `NewNode` without libp2p, the mock crypto service | used by tests only |
| Mixtures within one field, and Go's fatal "concurrent map" error | end the process at that point, as `Crash` does |

## 6. Running

    tlc -workers 2 -config Failures.cfg MCGroupNode.tla
    tlapm GroupNodeLockProofs.tla

`Failures` is the longest run, with more than two minutes; the proofs take some
minutes each from nothing.
