------------------------- MODULE PNCounterReplicas -------------------------
(***************************************************************************)
(* Replicas that each hold a PNCounter (crdt/pncounter.go), count under    *)
(* their own identifier and merge snapshots of one another's, which may    *)
(* arrive late, repeatedly and in any order.                               *)
(***************************************************************************)
EXTENDS Integers, FiniteSets

CONSTANTS
  Replica,  \* holders of a counter, and the identifiers they count under
  Delta,    \* the amounts they count
  MaxOps    \* bound on the operations of one replica

PNC == INSTANCE PNCounter

ASSUME DeltaAssumption ==
  Delta \subseteq Nat /\ MaxOps \in Nat /\ IsFiniteSet(Replica)

VARIABLES
  counter,  \* replica -> its counter
  done,     \* history: replica -> the operations its counter should reflect
  sent      \* counters, and their histories, that may be delivered

vars == <<counter, done, sent>>

\* The no-th operation of replica by changed the value by amount.
Event == [by : Replica, no : 1 .. MaxOps, amount : Int]

TypeOK ==
  /\ counter \in [Replica -> PNC!Counter(Replica)]
  /\ done \in [Replica -> SUBSET Event]
  /\ sent \subseteq [counter : PNC!Counter(Replica), done : SUBSET Event]

Init ==
  /\ counter = [r \in Replica |-> PNC!NewPNCounter(Replica)]
  /\ done = [r \in Replica |-> {}]
  /\ sent = {}

Own(r) == {e \in done[r] : e.by = r}

Note(r, amount) ==
  /\ Cardinality(Own(r)) < MaxOps
  /\ done' = [done EXCEPT ![r] = @ \cup
       {[by |-> r, no |-> Cardinality(Own(r)) + 1, amount |-> amount]}]

Increment(r, d) ==
  /\ Note(r, d)
  /\ counter' = [counter EXCEPT ![r] = PNC!Increment(@, r, d)]
  /\ UNCHANGED sent

Decrement(r, d) ==
  /\ Note(r, - d)
  /\ counter' = [counter EXCEPT ![r] = PNC!Decrement(@, r, d)]
  /\ UNCHANGED sent

Send(r) ==
  /\ sent' = sent \cup {[counter |-> counter[r], done |-> done[r]]}
  /\ UNCHANGED <<counter, done>>

Deliver(r, m) ==
  /\ counter' = [counter EXCEPT ![r] = PNC!Merge(@, m.counter)]
  /\ done' = [done EXCEPT ![r] = @ \cup m.done]
  /\ UNCHANGED sent

Next ==
  \/ \E r \in Replica, d \in Delta : Increment(r, d) \/ Decrement(r, d)
  \/ \E r \in Replica : Send(r)
  \/ \E r \in Replica, m \in sent : Deliver(r, m)

Spec == Init /\ [][Next]_vars

Total(events) == PNC!SumFunction([e \in events |-> e.amount])

\* Exactly once: the value of a replica is the sum of the operations that
\* reached it, each counted once, however often and in whatever order the
\* snapshots that carried them were merged.
ValueIsSum ==
  \A r \in Replica : PNC!Value(counter[r]) = Total(done[r])

\* Replicas converge: two that heard of the same operations hold the same
\* counter, count by count, by whatever ways they heard of them.
CountersConverge ==
  \A r, q \in Replica : done[r] = done[q] => counter[r] = counter[q]

\* Counts are never taken back: neither side of a counter ever falls, under
\* anybody's identifier.
NeverFalls ==
  [][\A r, i \in Replica : /\ counter'[r].P[i] >= counter[r].P[i]
                           /\ counter'[r].N[i] >= counter[r].N[i]]_vars
=============================================================================
