--------------------------- MODULE GroupRegistry ---------------------------
(***************************************************************************)
(* How nodes learn of one another's groups (node/node.go): CreateGroup     *)
(* stores the group, then adds its identifier to a list under one DHT key, *)
(* by reading the list and writing a longer one; the loop of every node    *)
(* reads the list and fetches the groups it does not know.  The groups'    *)
(* contents are the subject of GroupNode; here a group is its identifier.  *)
(*                                                                         *)
(* A process is the handler of a CreateGroup request, or the loop of a     *)
(* node, named by the node.  A node keeps nothing when it stops and takes  *)
(* a new identity when it starts again, so here it starts only once.       *)
(***************************************************************************)
EXTENDS Integers

CONSTANTS
  Node,       \* the nodes, all of them peers of the DHT
  Group,      \* identifiers of groups
  Creation,   \* requests that create groups
  Workload,   \* which request may create which group at which node
  Flaky,      \* nodes whose DHT calls may fail or reach some peers only
  Hash,       \* group -> its 32-bit FNV hash
  HashMax,    \* the largest hash
  IntMax,     \* the largest int of the platform
  NumShards,  \* shards of a node's cache
  None        \* no group, no node

\* What a peer holds that never heard of the list.
NoList == {None}

Kad == INSTANCE KadStore WITH Peer <- Node, NoValue <- NoList

\* A plausible other ToInt: that of a platform whose int has as many bits as
\* the hash.
ToNarrowInt(h) == IF h > HashMax \div 2 THEN h - (HashMax + 1) ELSE h

\* int(hash) keeps the low bits: it is negative if it does not fit.
ToInt(h) == IF h > IntMax THEN h - (HashMax + 1) ELSE h

\* Go's remainder has the sign of the dividend.
Remainder(a, b) == IF a < 0 THEN - ((- a) % b) ELSE a % b

getShardIndex(g) == Remainder(ToInt(Hash[g]), NumShards)

Shard == 0 .. NumShards - 1

\* The hash fits into an int: the repository is built for 64-bit platforms.
ASSUME RegistryAssumption ==
  /\ Workload \subseteq Creation \X Node \X Group
  /\ Node \cap Creation = {}
  /\ None \notin Group
  /\ HashMax \in Nat
  /\ Hash \in [Group -> 0 .. HashMax]
  /\ IntMax \in Nat /\ IntMax >= HashMax
  /\ NumShards \in Nat \ {0}

Proc == Creation \cup Node

VARIABLES
  reached,    \* group -> the peers that its writes have reached
  list,       \* peer -> the list of groups it holds, as a set, or NoList
  gone,       \* nodes that have stopped, with the copies they held
  cached,     \* node -> the groups of its shards
  busy,       \* node -> shards locked by a handler that talks to the DHT
  pc,         \* process -> what it does next
  home,       \* request -> the node that handles it
  target,     \* process -> the group it creates, or has fetched
  seen,       \* process -> the list it read, less what it has dealt with
  registered, \* history: groups whose registration was written
  disturbed   \* history: a DHT call failed or reached some peers only, or
              \* two registrations overlapped

registry == <<reached, list, gone>>
handling == <<pc, home, target, seen>>
history  == <<registered, disturbed>>
vars     == <<registry, cached, busy, handling, history>>

Final == {"ok", "failed", "dead"}

\* What creating requests and loops may be at.
Steps == Final \cup {"idle", "cache", "store", "readList", "writeList",
                     "find", "keep"}

TypeOK ==
  /\ reached \in [Group -> SUBSET Node]
  /\ list \in [Node -> (SUBSET Group) \cup {NoList}]
  /\ gone \subseteq Node
  /\ cached \in [Node -> SUBSET Group]
  /\ busy \in [Node -> SUBSET Shard]
  /\ pc \in [Proc -> Steps]
  /\ home \in [Creation -> Node \cup {None}]
  /\ target \in [Proc -> Group \cup {None}]
  /\ seen \in [Proc -> SUBSET Group]
  /\ registered \subseteq Group
  /\ disturbed \in BOOLEAN

Init ==
  /\ reached = [g \in Group |-> {}]
  /\ list = Kad!Empty
  /\ gone = {}
  /\ cached = [n \in Node |-> {}]
  /\ busy = [n \in Node |-> {}]
  /\ pc = [p \in Proc |-> "idle"]
  /\ home = [c \in Creation |-> None]
  /\ target = [p \in Proc |-> None]
  /\ seen = [p \in Proc |-> {}]
  /\ registered = {}
  /\ disturbed = FALSE

\* What the DHT gives: a group that some running peer holds.
Held == {g \in Group : ~ reached[g] \subseteq gone}

Free(n, g) == getShardIndex(g) \notin busy[n]

Goto(p, label) == pc' = [pc EXCEPT ![p] = label]

(***************************************************************************)
(* AddExpense, of any group: it keeps the lock of the group's shard while  *)
(* it writes to the DHT.                                                   *)
(***************************************************************************)
Occupy(n, g) ==
  /\ g \in cached[n]
  /\ Free(n, g)
  /\ busy' = [busy EXCEPT ![n] = @ \cup {getShardIndex(g)}]
  /\ UNCHANGED <<registry, cached, handling, history>>

Vacate(n) ==
  /\ busy[n] # {}
  /\ busy' = [busy EXCEPT ![n] = {}]
  /\ UNCHANGED <<registry, cached, handling, history>>

(***************************************************************************)
(* CreateGroup and registerGroupInRegistry                                 *)
(***************************************************************************)
Receive(c, n, g) ==
  /\ pc[c] = "idle"
  /\ n \notin gone
  /\ home' = [home EXCEPT ![c] = n]
  /\ target' = [target EXCEPT ![c] = g]
  /\ Goto(c, "cache")
  /\ UNCHANGED <<registry, cached, busy, seen, history>>

Cache(c) ==
  /\ pc[c] = "cache"
  /\ Free(home[c], target[c])
  /\ cached' = [cached EXCEPT ![home[c]] = @ \cup {target[c]}]
  /\ Goto(c, "store")
  /\ UNCHANGED <<registry, busy, home, target, seen, history>>

\* Which running peers a write of node n reaches: its own store first.
Reaches(n) ==
  IF n \in Flaky THEN {R \in SUBSET (Node \ gone) : n \in R} ELSE {Node \ gone}

StoreGroup(c) ==
  /\ pc[c] = "store"
  /\ \E R \in Reaches(home[c]) :
       reached' = [reached EXCEPT ![target[c]] = @ \cup R]
  /\ Goto(c, "readList")
  /\ UNCHANGED <<list, gone, cached, busy, home, target, seen, history>>

\* A plausible other StoreGroupFails: registers although the write failed.
StoreGroupFailsUnnoticed(c) ==
  /\ pc[c] = "store"
  /\ home[c] \in Flaky
  /\ Goto(c, "readList")
  /\ UNCHANGED <<registry, cached, busy, home, target, seen, history>>

\* The write fails, before or after the node's own store has it: the request
\* fails, the group stays in the cache.
StoreGroupFails(c) ==
  /\ pc[c] = "store"
  /\ home[c] \in Flaky
  /\ \E R \in {{}, {home[c]}} :
       reached' = [reached EXCEPT ![target[c]] = @ \cup R]
  /\ Goto(c, "failed")
  /\ UNCHANGED <<list, gone, cached, busy, home, target, seen, history>>

\* What a process of node n may read: some copy of the list, or no
\* list at all when there is none or the read fails.
Readings(n) ==
  LET copies == Kad!Select(list)
  IN  IF copies = {} \/ n \in Flaky THEN copies \cup {{}} ELSE copies

\* The read fails although there is a list.
Blind(n, ids) == ids = {} /\ Kad!Select(list) # {}

ReadList(c) ==
  /\ pc[c] = "readList"
  /\ \E ids \in Readings(home[c]) :
       /\ seen' = [seen EXCEPT ![c] = ids]
       /\ disturbed' = (\/ disturbed
                        \/ Blind(home[c], ids)
                        \/ \E d \in Creation : pc[d] = "writeList")
  /\ Goto(c, "writeList")
  /\ UNCHANGED <<registry, cached, busy, home, target, registered>>

\* A plausible other WriteList: writes the group alone.
WriteListAnew(c) ==
  /\ pc[c] = "writeList"
  /\ \E R \in Reaches(home[c]) :
       /\ list' = Kad!Store(list, {target[c]}, R)
       /\ disturbed' = (disturbed \/ R # Node \ gone)
  /\ registered' = registered \cup {target[c]}
  /\ seen' = [seen EXCEPT ![c] = {}]
  /\ Goto(c, "ok")
  /\ UNCHANGED <<reached, gone, cached, busy, home, target>>

\* The list with the group appended, if it was missing, is written back; the
\* outcome is not looked at.
WriteList(c) ==
  /\ pc[c] = "writeList"
  /\ \E R \in Reaches(home[c]) :
       /\ list' = Kad!Store(list, seen[c] \cup {target[c]}, R)
       /\ disturbed' = (disturbed \/ R # Node \ gone)
  /\ registered' = registered \cup {target[c]}
  /\ seen' = [seen EXCEPT ![c] = {}]
  /\ Goto(c, "ok")
  /\ UNCHANGED <<reached, gone, cached, busy, home, target>>

(***************************************************************************)
(* discoverGroupsFromRegistry                                              *)
(***************************************************************************)
DiscoverRead(n) ==
  /\ pc[n] = "idle"
  /\ \E ids \in Readings(n) : seen' = [seen EXCEPT ![n] = ids]
  /\ Goto(n, "find")
  /\ UNCHANGED <<registry, cached, busy, home, target, history>>

\* A group of the list, in its order: it is known ...
SkipKnown(n) ==
  /\ pc[n] = "find"
  /\ \E g \in seen[n] \cap cached[n] :
       /\ Free(n, g)
       /\ seen' = [seen EXCEPT ![n] = @ \ {g}]
  /\ UNCHANGED <<registry, cached, busy, pc, home, target, history>>

\* ... or fetched ...
FetchUnknown(n) ==
  /\ pc[n] = "find"
  /\ \E g \in (seen[n] \cap Held) \ cached[n] :
       /\ Free(n, g)
       /\ seen' = [seen EXCEPT ![n] = @ \ {g}]
       /\ target' = [target EXCEPT ![n] = g]
  /\ Goto(n, "keep")
  /\ UNCHANGED <<registry, cached, busy, home, history>>

\* ... or passed over, because the DHT does not give it.
FetchUnknownFails(n) ==
  /\ pc[n] = "find"
  /\ \E g \in seen[n] \ cached[n] :
       /\ n \in Flaky \/ g \notin Held
       /\ Free(n, g)
       /\ seen' = [seen EXCEPT ![n] = @ \ {g}]
  /\ UNCHANGED <<registry, cached, busy, pc, home, target, history>>

Keep(n) ==
  /\ pc[n] = "keep"
  /\ Free(n, target[n])
  /\ cached' = [cached EXCEPT ![n] = @ \cup {target[n]}]
  /\ target' = [target EXCEPT ![n] = None]
  /\ Goto(n, "find")
  /\ UNCHANGED <<registry, busy, home, seen, history>>

Found(n) ==
  /\ pc[n] = "find"
  /\ seen[n] = {}
  /\ Goto(n, "idle")
  /\ UNCHANGED <<registry, cached, busy, home, target, seen, history>>

(***************************************************************************)
(* Node n stops, and with it its peer of the DHT and its handlers.         *)
(***************************************************************************)
Leave(n) ==
  LET dying == {n} \cup {c \in Creation : home[c] = n /\ pc[c] \notin Final}
  IN  /\ n \notin gone
      /\ gone' = gone \cup {n}
      /\ list' = [list EXCEPT ![n] = NoList]
      /\ cached' = [cached EXCEPT ![n] = {}]
      /\ busy' = [busy EXCEPT ![n] = {}]
      /\ pc' = [p \in Proc |-> IF p \in dying THEN "dead" ELSE pc[p]]
      /\ seen' = [p \in Proc |-> IF p \in dying THEN {} ELSE seen[p]]
      /\ UNCHANGED <<reached, home, target, history>>

CreationStep(c) ==
  \/ Cache(c) \/ StoreGroup(c) \/ StoreGroupFails(c)
  \/ ReadList(c) \/ WriteList(c)

FindStep(n) ==
  \/ SkipKnown(n) \/ FetchUnknown(n) \/ FetchUnknownFails(n) \/ Keep(n)

Next ==
  \/ \E w \in Workload : Receive(w[1], w[2], w[3])
  \/ \E c \in Creation : CreationStep(c)
  \/ \E n \in Node : DiscoverRead(n) \/ FindStep(n) \/ Found(n)
  \/ \E n \in Node, g \in Group : Occupy(n, g)
  \/ \E n \in Node : Vacate(n) \/ Leave(n)

Spec == Init /\ [][Next]_vars

\* Whatever is listed was stored: a group reaches a peer before any copy of
\* the list, or any list that a process has read, names it, although lists
\* are overwritten, lost and read out of date (CreateGroup registers last).
ListedIsStored ==
  /\ \A n \in Node : list[n] # NoList =>
       \A g \in list[n] : reached[g] # {}
  /\ \A p \in Proc : \A g \in seen[p] : reached[g] # {}

\* Only trouble unlists: as long as no two registrations overlap and the DHT
\* does its work, every registered group is on the copy of the list of every
\* running peer (registerGroupInRegistry).
OnlyTroubleUnlists ==
  ~ disturbed =>
    \A n \in Node \ gone, g \in registered : list[n] # NoList /\ g \in list[n]
=============================================================================
