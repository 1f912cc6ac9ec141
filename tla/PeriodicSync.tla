---------------------------- MODULE PeriodicSync ----------------------------
(***************************************************************************)
(* The loop of a node (StartPeriodicSync, performSync in node/node.go):    *)
(* rounds that discover groups, list the cached ones shard by shard, and   *)
(* hand them to a pool of workers that fetch and merge each of them; and   *)
(* the life of the node's process (runServer in                            *)
(* cmd/pearbook/commands/server.go), which serves requests already during  *)
(* the first round, listens for signals after it, and then, told to stop,  *)
(* waits a while for the requests under way.                               *)
(*                                                                         *)
(* Nobody cancels the loop's context before the process ends, so the loop  *)
(* has no other end than the end of the process.                           *)
(***************************************************************************)
EXTENDS GroupRegistry, FiniteSets

CONSTANTS
  Looping,     \* nodes whose loop is followed
  Stopping,    \* nodes that are sent a signal to stop
  NumWorkers   \* the workers of a round

ASSUME LoopAssumption ==
  /\ Looping \subseteq Node /\ Stopping \subseteq Node
  /\ NumWorkers \in Nat \ {0}

VARIABLES
  process,   \* node -> where its process is
  phase,     \* node -> where its round is
  shard,     \* node -> the next shard to list
  jobs,      \* node -> the groups in the round's channel
  fetching,  \* node -> groups that workers are fetching
  merging,   \* node -> groups that workers have fetched and not yet merged
  workers    \* node -> workers that have not returned

round    == <<phase, shard, jobs, fetching, merging, workers>>
loopVars == <<vars, process, round>>

LoopTypeOK ==
  /\ TypeOK
  /\ process \in [Node -> {"starting", "serving", "draining", "closed", "killed"}]
  /\ phase \in [Node -> {"discover", "list", "sync", "rest"}]
  /\ shard \in [Node -> 0 .. NumShards]
  /\ jobs \in [Node -> SUBSET Group]
  /\ fetching \in [Node -> SUBSET Group]
  /\ merging \in [Node -> SUBSET Group]
  /\ workers \in [Node -> 0 .. NumWorkers]

LoopInit ==
  /\ Init
  /\ process = [n \in Node |-> IF n \in Looping THEN "starting" ELSE "serving"]
  /\ phase = [n \in Node |-> "discover"]
  /\ shard = [n \in Node |-> 0]
  /\ jobs = [n \in Node |-> {}]
  /\ fetching = [n \in Node |-> {}]
  /\ merging = [n \in Node |-> {}]
  /\ workers = [n \in Node |-> 0]

Runs(n, label) == n \in Looping \ gone /\ phase[n] = label

(***************************************************************************)
(* Requests                                                                *)
(***************************************************************************)
\* Shutdown closes the listener first.
Accepts(n) == process[n] \in {"starting", "serving"}

Request ==
  /\ \/ \E w \in Workload : Accepts(w[2]) /\ Receive(w[1], w[2], w[3])
     \/ \E n \in Node, g \in Group : Accepts(n) /\ Occupy(n, g)
     \/ \E n \in Node : Vacate(n)
     \/ \E c \in Creation : CreationStep(c)
  /\ UNCHANGED <<process, round>>

(***************************************************************************)
(* performSync                                                             *)
(***************************************************************************)
Discover(n) ==
  /\ Runs(n, "discover")
  /\ DiscoverRead(n) \/ FindStep(n)
  /\ UNCHANGED <<process, round>>

Discovered(n) ==
  /\ Runs(n, "discover")
  /\ Found(n)
  /\ phase' = [phase EXCEPT ![n] = "list"]
  /\ shard' = [shard EXCEPT ![n] = 0]
  /\ UNCHANGED <<process, jobs, fetching, merging, workers>>

ListShard(n) ==
  LET i == shard[n]
  IN  /\ Runs(n, "list")
      /\ i < NumShards
      /\ i \notin busy[n]
      /\ jobs' = [jobs EXCEPT ![n] = @ \cup
                    {g \in cached[n] : getShardIndex(g) = i}]
      /\ shard' = [shard EXCEPT ![n] = i + 1]
      /\ UNCHANGED <<vars, process, phase, fetching, merging, workers>>

\* A plausible other StartWorkers: without groups, the loop ends.
StartWorkersOrEnd(n) ==
  /\ Runs(n, "list")
  /\ shard[n] = NumShards
  /\ IF jobs[n] = {}
       THEN phase' = [phase EXCEPT ![n] = "ended"] /\ UNCHANGED workers
       ELSE /\ phase' = [phase EXCEPT ![n] = "sync"]
            /\ workers' = [workers EXCEPT ![n] = NumWorkers]
  /\ UNCHANGED <<vars, process, shard, jobs, fetching, merging>>

\* The channel has room for every group, so filling and closing it does not
\* wait; a worker that gets there first waits for it.
StartWorkers(n) ==
  /\ Runs(n, "list")
  /\ shard[n] = NumShards
  /\ IF jobs[n] = {}
       THEN phase' = [phase EXCEPT ![n] = "rest"] /\ UNCHANGED workers
       ELSE /\ phase' = [phase EXCEPT ![n] = "sync"]
            /\ workers' = [workers EXCEPT ![n] = NumWorkers]
  /\ UNCHANGED <<vars, process, shard, jobs, fetching, merging>>

Idle(n) ==
  Cardinality(fetching[n]) + Cardinality(merging[n]) < workers[n]

Take(n, g) ==
  /\ Runs(n, "sync")
  /\ g \in jobs[n]
  /\ Idle(n)
  /\ jobs' = [jobs EXCEPT ![n] = @ \ {g}]
  /\ fetching' = [fetching EXCEPT ![n] = @ \cup {g}]
  /\ UNCHANGED <<vars, process, phase, shard, merging, workers>>

Fetch(n, g) ==
  /\ Runs(n, "sync")
  /\ g \in fetching[n] \cap Held
  /\ fetching' = [fetching EXCEPT ![n] = @ \ {g}]
  /\ merging' = [merging EXCEPT ![n] = @ \cup {g}]
  /\ UNCHANGED <<vars, process, phase, shard, jobs, workers>>

\* A plausible other FetchFails: drops the group that the DHT does not give.
FetchFailsAndForgets(n, g) ==
  /\ Runs(n, "sync")
  /\ g \in fetching[n]
  /\ n \in Flaky \/ g \notin Held
  /\ fetching' = [fetching EXCEPT ![n] = @ \ {g}]
  /\ cached' = [cached EXCEPT ![n] = @ \ {g}]
  /\ UNCHANGED <<registry, busy, handling, history>>
  /\ UNCHANGED <<process, phase, shard, jobs, merging, workers>>

\* The worker prints the error and goes on.
FetchFails(n, g) ==
  /\ Runs(n, "sync")
  /\ g \in fetching[n]
  /\ n \in Flaky \/ g \notin Held
  /\ fetching' = [fetching EXCEPT ![n] = @ \ {g}]
  /\ UNCHANGED <<vars, process, phase, shard, jobs, merging, workers>>

Merge(n, g) ==
  /\ Runs(n, "sync")
  /\ g \in merging[n]
  /\ Free(n, g)
  /\ merging' = [merging EXCEPT ![n] = @ \ {g}]
  /\ UNCHANGED <<vars, process, phase, shard, jobs, fetching, workers>>

WorkerReturns(n) ==
  /\ Runs(n, "sync")
  /\ jobs[n] = {}
  /\ Idle(n)
  /\ workers' = [workers EXCEPT ![n] = @ - 1]
  /\ UNCHANGED <<vars, process, phase, shard, jobs, fetching, merging>>

\* A plausible other RoundEnds: workers add themselves to the wait group, so
\* Wait may return before they do.
RoundEndsEarly(n) ==
  /\ Runs(n, "sync")
  /\ phase' = [phase EXCEPT ![n] = "rest"]
  /\ UNCHANGED <<vars, process, shard, jobs, fetching, merging, workers>>

\* wg.Wait returns.
RoundEnds(n) ==
  /\ Runs(n, "sync")
  /\ workers[n] = 0
  /\ phase' = [phase EXCEPT ![n] = "rest"]
  /\ UNCHANGED <<vars, process, shard, jobs, fetching, merging, workers>>

\* Five seconds later, when the process has long been listening for signals.
Tick(n) ==
  /\ Runs(n, "rest")
  /\ process[n] # "starting"
  /\ phase' = [phase EXCEPT ![n] = "discover"]
  /\ UNCHANGED <<vars, process, shard, jobs, fetching, merging, workers>>

WorkerStep(n, g) ==
  Take(n, g) \/ Fetch(n, g) \/ FetchFails(n, g) \/ Merge(n, g)

Loop(n) ==
  \/ Discover(n) \/ Discovered(n) \/ ListShard(n) \/ StartWorkers(n)
  \/ \E g \in Group : WorkerStep(n, g)
  \/ WorkerReturns(n) \/ RoundEnds(n) \/ Tick(n)

(***************************************************************************)
(* runServer                                                               *)
(***************************************************************************)
\* The first round is over: from now on a signal is caught.
Serve(n) ==
  /\ Runs(n, "rest")
  /\ process[n] = "starting"
  /\ process' = [process EXCEPT ![n] = "serving"]
  /\ UNCHANGED <<vars, round>>

\* Before, it ends the process at once.
SignalKills(n) ==
  /\ n \in Stopping
  /\ process[n] = "starting"
  /\ Leave(n)
  /\ process' = [process EXCEPT ![n] = "killed"]
  /\ UNCHANGED round

Signal(n) ==
  /\ n \in Stopping
  /\ process[n] = "serving"
  /\ process' = [process EXCEPT ![n] = "draining"]
  /\ UNCHANGED <<vars, round>>

\* A handler of node n is under way.
Answering(n) ==
  \/ busy[n] # {}
  \/ \E c \in Creation : home[c] = n /\ pc[c] \notin Final

\* A plausible other Shutdown: closes the server without waiting.
ShutdownAtOnce(n) ==
  /\ process[n] = "draining"
  /\ Leave(n)
  /\ process' = [process EXCEPT ![n] = "closed"]
  /\ UNCHANGED round

Shutdown(n) ==
  /\ process[n] = "draining"
  /\ ~ Answering(n)
  /\ Leave(n)
  /\ process' = [process EXCEPT ![n] = "closed"]
  /\ UNCHANGED round

\* After five seconds runServer ends the process all the same.
ShutdownTimesOut(n) ==
  /\ process[n] = "draining"
  /\ Answering(n)
  /\ Leave(n)
  /\ process' = [process EXCEPT ![n] = "killed"]
  /\ UNCHANGED round

Life(n) ==
  \/ Serve(n) \/ SignalKills(n) \/ Signal(n)
  \/ Shutdown(n) \/ ShutdownTimesOut(n)

LoopNext == Request \/ \E n \in Node : Loop(n) \/ Life(n)

(***************************************************************************)
(* The loop's goroutines are scheduled and its locks are granted in turn   *)
(* (sync.RWMutex lets nobody starve), so a loop that can step again and    *)
(* again does; requests to the DHT end; and what is tried for ever does    *)
(* not fail for ever.  Nothing says that a request arrives, that a         *)
(* creation goes on, or that a signal is sent.                             *)
(***************************************************************************)
ReadSucceeds(n) == Discover(n) /\ pc[n] = "idle" /\ seen'[n] # {}

DiscoverySucceeds(n, g) == Discover(n) /\ pc[n] = "find" /\ target'[n] = g

Fairness ==
  \A n \in Looping :
    /\ SF_loopVars(Loop(n) \/ Serve(n))
    /\ WF_loopVars(Vacate(n) /\ UNCHANGED <<process, round>>)
    /\ SF_loopVars(ReadSucceeds(n))
    /\ \A g \in Group :
         SF_loopVars(DiscoverySucceeds(n, g)) /\ SF_loopVars(Fetch(n, g))

LoopSpec == LoopInit /\ [][LoopNext]_loopVars /\ Fairness

-----------------------------------------------------------------------------
\* The loop and the processes do nothing to the registry that its own
\* specification does not allow.
ImplementsRegistry == Spec

\* A round leaves nothing undone: when it ends, every group that it listed
\* has been taken by a worker, and no worker holds one, although fetches fail
\* on the way (performSync, wg.Wait).
RoundComplete ==
  \A n \in Looping \ gone : phase[n] \in {"rest", "discover"} =>
    jobs[n] = {} /\ fetching[n] = {} /\ merging[n] = {}

\* Only a killed process strands a group: one that is stored and not
\* registered is still being created, or its creation was answered with a
\* failure, or the process of a node that created it was killed (CreateGroup
\* registers after it stores; runServer drains requests).
OnlyKillsStrand ==
  \A g \in Group \ registered : reached[g] # {} =>
    \E c \in Creation :
      /\ target[c] = g
      /\ \/ pc[c] \in {"store", "readList", "writeList", "failed"}
         \/ pc[c] = "dead" /\ process[home[c]] = "killed"

\* Every running peer has g on its copy of the list, and one has g itself.
Listed(g) ==
  /\ g \in Held
  /\ \A n \in Node \ gone : list[n] # NoList /\ g \in list[n]

\* A group that stays listed is discovered, and then fetched and merged again
\* and again, by every node that is not stopped, whatever reads and fetches
\* fail on the way and whatever handlers hold its shard's lock
\* (discoverGroupsFromRegistry, performSync).
ListedIsSynced ==
  \A n \in Looping, g \in Group :
    <>[] Listed(g) => (<>(n \in gone) \/ []<>(g \in merging[n]))
=============================================================================
