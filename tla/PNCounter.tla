----------------------------- MODULE PNCounter -----------------------------
(***************************************************************************)
(* The positive-negative counter of crdt/pncounter.go, as operators on     *)
(* values.  P and N are Go maps from replica identifiers to int64; a       *)
(* replica that is missing from a map reads as zero, so they are total     *)
(* functions over the identifiers Id here.  Merge leaves alone what the    *)
(* other side is missing; for the counts modelled, none of them negative,  *)
(* that is the larger of the count and zero.                               *)
(***************************************************************************)
EXTENDS Integers, Functions

Counter(Id) == [P : [Id -> Int], N : [Id -> Int]]

NewPNCounter(Id) == [P |-> [i \in Id |-> 0], N |-> [i \in Id |-> 0]]

Increment(c, i, delta) == [c EXCEPT !.P[i] = @ + delta]

Decrement(c, i, delta) == [c EXCEPT !.N[i] = @ + delta]

Value(c) == SumFunction(c.P) - SumFunction(c.N)

Max2(a, b) == IF a > b THEN a ELSE b

\* Plausible other Merges: one adds what the two sides have counted, one takes
\* whatever the other side has counted.
MergeBySum(c, o) ==
  [P |-> [i \in DOMAIN c.P |-> c.P[i] + o.P[i]],
   N |-> [i \in DOMAIN c.N |-> c.N[i] + o.N[i]]]

MergeByCopy(c, o) ==
  [P |-> [i \in DOMAIN c.P |-> IF o.P[i] = 0 THEN c.P[i] ELSE o.P[i]],
   N |-> [i \in DOMAIN c.N |-> IF o.N[i] = 0 THEN c.N[i] ELSE o.N[i]]]

\* Merge takes the larger count of every replica.
Merge(c, o) ==
  [P |-> [i \in DOMAIN c.P |-> Max2(c.P[i], o.P[i])],
   N |-> [i \in DOMAIN c.N |-> Max2(c.N[i], o.N[i])]]
=============================================================================
