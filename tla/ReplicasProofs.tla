-------------------------- MODULE ReplicasProofs --------------------------
(***************************************************************************)
(* Proofs about replicas of the three CRDTs: an OR-Map never trades one    *)
(* version of a key for another, the counts of a PN-Counter never fall,    *)
(* and what an OR-Set shows is determined by the calls that reached it.    *)
(***************************************************************************)
EXTENDS Replicas, SumTheorems

\* A step of the composition is a step, or none, of each.
LEMMA Steps ==
  ASSUME [ReplicasNext]_<<subject, maps, vars, sets>>
  PROVE  [Maps!Next]_maps /\ [Next]_vars /\ [Sets!Next]_sets
BY DEF ReplicasNext, maps, sets, vars

-----------------------------------------------------------------------------
(***************************************************************************)
(* Maps.                                                                   *)
(***************************************************************************)

Entry == [key : Key, tag : Tag, val : Tag]

\* The versions that may be in a map: tags that were used, each with its own
\* value.
Made(m) == m \subseteq {e \in Entry : e.val = e.tag /\ e.tag \in used}

VersionInv ==
  /\ map \in [Replica -> SUBSET Entry]
  /\ used \subseteq Tag
  /\ \A r \in Replica : Made(map[r])
  /\ \A m \in mapSent : Made(m)

LEMMA VersionInit == Maps!Init => VersionInv
BY DEF Maps!Init, VersionInv, Made, Maps!ORM!NewORMap

LEMMA VersionNext == VersionInv /\ [Maps!Next]_maps => VersionInv'
<1> SUFFICES ASSUME VersionInv, [Maps!Next]_maps PROVE VersionInv'
  OBVIOUS
<1>1. ASSUME NEW r \in Replica, NEW k \in Key, NEW t \in Tag, Maps!Put(r, k, t)
      PROVE  VersionInv'
  <2>1. map' = [map EXCEPT ![r] = Maps!ORM!Put(map[r], k, t, t)]
        /\ used' = used \cup {t} /\ mapSent' = mapSent
    BY <1>1 DEF Maps!Put
  <2>2. /\ Maps!ORM!Put(map[r], k, t, t) \subseteq map[r] \cup {[key |-> k, tag |-> t, val |-> t]}
        /\ [key |-> k, tag |-> t, val |-> t] \in Entry
    BY DEF Maps!ORM!Put, Entry
  <2>3. \A q \in Replica \ {r} : map'[q] = map[q]
    BY <2>1 DEF VersionInv
  <2>4. map'[r] = Maps!ORM!Put(map[r], k, t, t)
    BY <2>1 DEF VersionInv
  <2>5. map' \in [Replica -> SUBSET Entry]
    BY <2>1, <2>2 DEF VersionInv
  <2>6. \A q \in Replica : \A e \in map'[q] : e.val = e.tag /\ e.tag \in used'
    <3>1. \A q \in Replica : \A e \in map[q] : e.val = e.tag /\ e.tag \in used
      BY DEF VersionInv, Made
    <3>2. \A e \in map'[r] : e.val = e.tag /\ e.tag \in used'
      BY <2>1, <2>2, <2>4, <3>1
    <3> QED
      BY <2>1, <2>3, <3>1, <3>2
  <2>7. \A q \in Replica : Made(map[q])'
    BY <2>5, <2>6 DEF Made
  <2> QED
    BY <2>1, <2>5, <2>7 DEF VersionInv, Made
<1>2. ASSUME NEW r \in Replica, NEW m, m \subseteq map[r] \/ (\E o \in mapSent : m = Maps!ORM!Merge(map[r], o)),
             map' = [map EXCEPT ![r] = m], UNCHANGED <<used, mapSent>>
      PROVE  VersionInv'
  <2>1. Made(m)
    BY <1>2 DEF VersionInv, Made, Maps!ORM!Merge
  <2> QED
    BY <1>2, <2>1 DEF VersionInv, Made
<1>3. ASSUME NEW r \in Replica, NEW k \in Key, NEW t \in Tag, Maps!RemoveVersion(r, k, t)
      PROVE  VersionInv'
  <2>1. Maps!ORM!RemoveTag(map[r], k, t) \subseteq map[r]
    BY DEF Maps!ORM!RemoveTag
  <2> QED
    BY <1>2, <1>3, <2>1 DEF Maps!RemoveVersion
<1>4. ASSUME NEW r \in Replica, NEW k \in Key, Maps!Remove(r, k) PROVE VersionInv'
  <2>1. Maps!ORM!RemoveKey(map[r], k) \subseteq map[r]
    BY DEF Maps!ORM!RemoveKey
  <2> QED
    BY <1>2, <1>4, <2>1 DEF Maps!Remove
<1>5. ASSUME NEW r \in Replica, Maps!Send(r) PROVE VersionInv'
  BY <1>5 DEF Maps!Send, VersionInv, Made
<1>6. ASSUME NEW r \in Replica, NEW m \in mapSent, Maps!Deliver(r, m) PROVE VersionInv'
  BY <1>2, <1>6 DEF Maps!Deliver
<1>7. CASE UNCHANGED maps
  BY <1>7 DEF maps, VersionInv, Made
<1> QED
  BY <1>1, <1>3, <1>4, <1>5, <1>6, <1>7 DEF Maps!Next

\* What may become of version e of replica r in a step.
Survives(r, e) ==
  \/ e \in map'[r]
  \/ ~ Maps!ORM!Has(map'[r], e.key)
  \/ Maps!RemoveVersion(r, e.key, e.tag)

LEMMA StepSurvives ==
  ASSUME VersionInv, [Maps!Next]_maps, NEW r \in Replica, NEW e \in map[r]
  PROVE  Survives(r, e)
<1>e. e \in Entry /\ e.val = e.tag /\ e.tag \in used
  BY DEF VersionInv, Made
<1>1. ASSUME NEW q \in Replica, NEW k \in Key, NEW t \in Tag, Maps!Put(q, k, t)
      PROVE  e \in map'[r]
  <2>1. t # e.tag
    BY <1>1, <1>e DEF Maps!Put
  <2>2. e \in Maps!ORM!Put(map[r], k, t, t)
    BY <2>1 DEF Maps!ORM!Put, Maps!ORM!SameSlot
  <2> QED
    BY <1>1, <2>2 DEF Maps!Put, VersionInv
<1>2. ASSUME NEW q \in Replica, NEW k \in Key, NEW t \in Tag, Maps!RemoveVersion(q, k, t)
      PROVE  Survives(r, e)
  <2>1. CASE q = r /\ k = e.key /\ t = e.tag
    BY <1>2, <2>1 DEF Survives
  <2>2. CASE q = r /\ ~ (k = e.key /\ t = e.tag)
    BY <1>2, <2>2
    DEF Survives, Maps!RemoveVersion, Maps!ORM!RemoveTag, VersionInv
  <2>3. CASE q # r
    BY <1>2, <2>3 DEF Survives, Maps!RemoveVersion, VersionInv
  <2> QED
    BY <2>1, <2>2, <2>3
<1>3. ASSUME NEW q \in Replica, NEW k \in Key, Maps!Remove(q, k) PROVE Survives(r, e)
  <2>1. CASE q = r
    BY <1>3, <2>1
    DEF Survives, Maps!Remove, Maps!ORM!RemoveKey, Maps!ORM!Has, Maps!ORM!Keys,
       VersionInv
  <2>2. CASE q # r
    BY <1>3, <2>2 DEF Survives, Maps!Remove, VersionInv
  <2> QED
    BY <2>1, <2>2
<1>4. ASSUME NEW q \in Replica, Maps!Send(q) PROVE Survives(r, e)
  BY <1>4 DEF Maps!Send, Survives
<1>5. ASSUME NEW q \in Replica, NEW m \in mapSent, Maps!Deliver(q, m) PROVE Survives(r, e)
  <2>1. CASE q = r
    <3>1. map'[r] = Maps!ORM!Merge(map[r], m)
      BY <1>5, <2>1 DEF Maps!Deliver, VersionInv
    <3>2. \A f \in m : Maps!ORM!SameSlot(e, f) => e = f
      BY <1>e DEF VersionInv, Made, Entry, Maps!ORM!SameSlot
    <3>3. CASE Maps!ORM!Has(m, e.key)
      BY <3>1, <3>2, <3>3 DEF Survives, Maps!ORM!Merge
    <3>4. CASE ~ Maps!ORM!Has(m, e.key)
      BY <3>1, <3>4 DEF Survives, Maps!ORM!Merge, Maps!ORM!Has, Maps!ORM!Keys
    <3> QED
      BY <3>3, <3>4
  <2>2. CASE q # r
    BY <1>5, <2>2 DEF Survives, Maps!Deliver, VersionInv
  <2> QED
    BY <2>1, <2>2
<1>6. CASE UNCHANGED maps
  BY <1>6 DEF maps, Survives
<1> QED
  BY <1>1, <1>2, <1>3, <1>4, <1>5, <1>6 DEF Maps!Next, Survives

\* As long as its key stays, a version leaves a replica only by a Remove that
\* names its tag there, however old the snapshots that are merged
\* (ORMap.Merge, ORMap.Put).
THEOREM VersionsAlwaysSurvive == ReplicasSpec => VersionsSurvive
<1>1. VersionInv /\ [Maps!Next]_maps =>
        [\A r \in Replica : \A e \in map[r] : Survives(r, e)]_maps
  BY StepSurvives
<1>2. ReplicasInit => VersionInv
  BY VersionInit DEF ReplicasInit
<1> QED
  BY <1>1, <1>2, Steps, VersionNext, PTL
     DEF ReplicasSpec, VersionsSurvive, Maps!VersionsSurvive, Survives, Maps!vars, maps

\* A merged map has the keys of the other map and no more, whatever it held
\* before (ORMap.Merge deletes what the other lacks): so an entry put since the
\* other map was stored is lost, which is what the run ExpenseLost shows.
THEOREM MergeTakesOthersKeys ==
  ASSUME NEW m, NEW o
  PROVE  Maps!ORM!Keys(Maps!ORM!Merge(m, o)) = Maps!ORM!Keys(o)
<1>1. \A e \in Maps!ORM!Merge(m, o) : e.key \in Maps!ORM!Keys(o)
  BY DEF Maps!ORM!Merge, Maps!ORM!Has
<1>2. \A e \in o : e \in Maps!ORM!Merge(m, o)
  BY DEF Maps!ORM!Merge, Maps!ORM!Has, Maps!ORM!Keys
<1> QED
  BY <1>1, <1>2 DEF Maps!ORM!Keys

\* Where the keys are the same and a tag means one value, merging is union: it
\* loses no version, and the order of merges does not matter (ORMap.Merge).
THEOREM MergeOfSameKeys ==
  ASSUME NEW m, NEW o, Maps!ORM!Keys(m) = Maps!ORM!Keys(o),
         \A e \in m, f \in o : Maps!ORM!SameSlot(e, f) => e = f
  PROVE  Maps!ORM!Merge(m, o) = m \cup o
<1>1. \A e \in m \cup o : Maps!ORM!Has(o, e.key)
  BY DEF Maps!ORM!Keys, Maps!ORM!Has
<1>2. {e \in m : \A f \in o : ~ Maps!ORM!SameSlot(e, f)} \cup o = m \cup o
  OBVIOUS
<1> QED
  BY <1>1, <1>2 DEF Maps!ORM!Merge
-----------------------------------------------------------------------------
(***************************************************************************)
(* Counters.                                                               *)
(***************************************************************************)

CountsInv ==
  /\ counter \in [Replica -> PNC!Counter(Replica)]
  /\ \A m \in sent : m.counter \in PNC!Counter(Replica)

\* Merging yields a counter, whose counts are no smaller.
LEMMA MergeGrows ==
  ASSUME NEW c \in PNC!Counter(Replica), NEW o \in PNC!Counter(Replica)
  PROVE  /\ PNC!Merge(c, o) \in PNC!Counter(Replica)
         /\ \A i \in Replica : /\ PNC!Merge(c, o).P[i] >= c.P[i]
                               /\ PNC!Merge(c, o).N[i] >= c.N[i]
BY DEF PNC!Counter, PNC!Merge, PNC!Max2

\* So does counting, because nobody counts a negative amount.
LEMMA CountGrows ==
  ASSUME NEW c \in PNC!Counter(Replica), NEW r \in Replica, NEW d \in Nat
  PROVE  /\ PNC!Increment(c, r, d) \in PNC!Counter(Replica)
         /\ PNC!Decrement(c, r, d) \in PNC!Counter(Replica)
         /\ \A i \in Replica : /\ PNC!Increment(c, r, d).P[i] >= c.P[i]
                               /\ PNC!Increment(c, r, d).N[i] >= c.N[i]
                               /\ PNC!Decrement(c, r, d).P[i] >= c.P[i]
                               /\ PNC!Decrement(c, r, d).N[i] >= c.N[i]
BY DEF PNC!Counter, PNC!Increment, PNC!Decrement

LEMMA CountsInit == Init => CountsInv
BY DEF Init, CountsInv, PNC!NewPNCounter, PNC!Counter

Grows ==
  \A r, i \in Replica : /\ counter'[r].P[i] >= counter[r].P[i]
                        /\ counter'[r].N[i] >= counter[r].N[i]

\* A counter that is replaced by a larger one.
LEMMA OneGrows ==
  ASSUME CountsInv, NEW r \in Replica, NEW c \in PNC!Counter(Replica),
         counter' = [counter EXCEPT ![r] = c], UNCHANGED sent,
         \A i \in Replica : c.P[i] >= counter[r].P[i] /\ c.N[i] >= counter[r].N[i]
  PROVE  CountsInv' /\ Grows
<1>1. CountsInv'
  BY DEF CountsInv
<1>2. \A q \in Replica : q # r => counter'[q] = counter[q]
  BY DEF CountsInv
<1>3. counter'[r] = c
  BY DEF CountsInv
<1>4. \A q, i \in Replica : counter[q].P[i] \in Int /\ counter[q].N[i] \in Int
  BY DEF CountsInv, PNC!Counter
<1> QED
  BY <1>1, <1>2, <1>3, <1>4 DEF Grows

LEMMA CountsNext == CountsInv /\ [Next]_vars => CountsInv' /\ Grows
<1> SUFFICES ASSUME CountsInv, [Next]_vars PROVE CountsInv' /\ Grows
  OBVIOUS
<1>t. \A q \in Replica : counter[q] \in PNC!Counter(Replica)
  BY DEF CountsInv
<1>s. ASSUME UNCHANGED counter PROVE Grows
  <2>1. \A q, i \in Replica : counter[q].P[i] \in Int /\ counter[q].N[i] \in Int
    BY <1>t DEF PNC!Counter
  <2> QED
    BY <1>s, <2>1 DEF Grows
<1>1. ASSUME NEW r \in Replica, NEW d \in Delta, Increment(r, d) PROVE CountsInv' /\ Grows
  <2> DEFINE c == PNC!Increment(counter[r], r, d)
  <2>1. /\ c \in PNC!Counter(Replica)
        /\ \A i \in Replica : c.P[i] >= counter[r].P[i] /\ c.N[i] >= counter[r].N[i]
    BY <1>t, DeltaAssumption, CountGrows
  <2>2. counter' = [counter EXCEPT ![r] = c] /\ UNCHANGED sent
    BY <1>1 DEF Increment
  <2> HIDE DEF c
  <2> QED
    BY <2>1, <2>2, OneGrows
<1>2. ASSUME NEW r \in Replica, NEW d \in Delta, Decrement(r, d) PROVE CountsInv' /\ Grows
  <2> DEFINE c == PNC!Decrement(counter[r], r, d)
  <2>1. /\ c \in PNC!Counter(Replica)
        /\ \A i \in Replica : c.P[i] >= counter[r].P[i] /\ c.N[i] >= counter[r].N[i]
    BY <1>t, DeltaAssumption, CountGrows
  <2>2. counter' = [counter EXCEPT ![r] = c] /\ UNCHANGED sent
    BY <1>2 DEF Decrement
  <2> HIDE DEF c
  <2> QED
    BY <2>1, <2>2, OneGrows
<1>3. ASSUME NEW r \in Replica, Send(r) PROVE CountsInv' /\ Grows
  BY <1>3, <1>t, <1>s DEF Send, CountsInv
<1>4. ASSUME NEW r \in Replica, NEW m \in sent, Deliver(r, m) PROVE CountsInv' /\ Grows
  <2>1. m.counter \in PNC!Counter(Replica)
    BY DEF CountsInv
  <2> QED
    BY <1>4, <1>t, <2>1, MergeGrows, OneGrows DEF Deliver
<1>5. CASE UNCHANGED vars
  BY <1>5, <1>s DEF vars, CountsInv
<1> QED
  BY <1>1, <1>2, <1>3, <1>4, <1>5 DEF Next

\* Neither side of any replica's counter ever falls under anybody's
\* identifier, whatever snapshots are merged (PNCounter.Merge, Increment).
THEOREM CountsNeverFall == ReplicasSpec => NeverFalls
<1>1. CountsInv /\ [Next]_vars => CountsInv' /\ [Grows]_vars
  BY CountsNext
<1>2. ReplicasInit => CountsInv
  BY CountsInit DEF ReplicasInit
<1> QED
  BY <1>1, <1>2, Steps, PTL DEF ReplicasSpec, NeverFalls, Grows
-----------------------------------------------------------------------------
(***************************************************************************)
(* What a counter is worth.  A snapshot is a counter with the operations   *)
(* it should reflect; the replicas hold some, and some were sent.  What a  *)
(* snapshot has of one replica is that replica's operations and the two    *)
(* counts under its identifier.  The replica itself has the most of them,  *)
(* and whatever others have is one of the states it went through: so any   *)
(* two snapshots can be compared, and a merge, which takes the union of    *)
(* the operations and the larger of the counts, takes both from the same   *)
(* snapshot.                                                               *)
(***************************************************************************)

Held(r) == [counter |-> counter[r], done |-> done[r]]

Snapshot == [counter : PNC!Counter(Replica), done : SUBSET Event]

Snapshots == sent \cup {Held(r) : r \in Replica}

Part(events, i) == {e \in events : e.by = i}

View == [part : SUBSET Event, P : Int, N : Int]

\* What snapshot m has of replica i.
Of(m, i) == [part |-> Part(m.done, i), P |-> m.counter.P[i], N |-> m.counter.N[i]]

\* View u is v or one that the replica went through before v.
Leq(u, v) ==
  /\ u.part \subseteq v.part /\ u.P <= v.P /\ u.N <= v.N
  /\ u.part = v.part => u = v

\* The counts are worth the operations.
Worth(v) == IsFiniteSet(v.part) /\ Total(v.part) = v.P - v.N

\* The operations of a replica are numbered up to their number.
Numbered(part) == \A e \in part : e.no <= Cardinality(part)

WorthInv ==
  /\ counter \in [Replica -> PNC!Counter(Replica)]
  /\ done \in [Replica -> SUBSET Event]
  /\ sent \subseteq Snapshot
  /\ \A m \in Snapshots, i \in Replica : Worth(Of(m, i))
  /\ \A m, o \in Snapshots, i \in Replica :
       Leq(Of(m, i), Of(o, i)) \/ Leq(Of(o, i), Of(m, i))
  /\ \A m \in Snapshots, i \in Replica : Leq(Of(m, i), Of(Held(i), i))
  /\ \A i \in Replica : Numbered(Part(done[i], i))

LEMMA OfType ==
  ASSUME NEW m \in Snapshot, NEW i \in Replica
  PROVE  Of(m, i) \in View
BY DEF Snapshot, Of, View, Part, PNC!Counter

LEMMA LeqOrder ==
  /\ \A u \in View : Leq(u, u)
  /\ \A u, v, w \in View : Leq(u, v) /\ Leq(v, w) => Leq(u, w)
BY DEF View, Leq

\* The sum of a set of operations is the library's sum, of one function.
Amount == [e \in Event |-> e.amount]

LEMMA TotalIsSum ==
  ASSUME NEW D \in SUBSET Event, IsFiniteSet(D)
  PROVE  Total(D) = SumFunctionOnSet(Amount, D) /\ Total(D) \in Int
<1> DEFINE f == [e \in D |-> e.amount]
<1>1. PNC!SumFunction(f) = SumFunctionOnSet(f, DOMAIN f)
  BY DEF PNC!SumFunction, PNC!SumFunctionOnSet, PNC!FoldFunctionOnSet,
     PNC!MapThenFoldSet, SumFunctionOnSet, FoldFunctionOnSet, MapThenFoldSet
<1>2. \A e \in D : f[e] \in Int /\ Amount[e] = f[e]
  BY DEF Amount, Event
<1>3. DOMAIN f = D
  OBVIOUS
<1>4. Total(D) = SumFunctionOnSet(f, D)
  BY <1>1, <1>3 DEF Total
<1> HIDE DEF f
<1>5. SumFunctionOnSet(f, D) = SumFunctionOnSet(Amount, D)
  BY <1>2, SumSame
<1>6. SumFunctionOnSet(f, D) \in Int
  BY <1>2, SumType
<1> QED
  BY <1>4, <1>5, <1>6

\* An operation that is not among those counted adds its amount.
LEMMA TotalAdds ==
  ASSUME NEW D \in SUBSET Event, IsFiniteSet(D), NEW e \in Event, e \notin D
  PROVE  Total(D \cup {e}) = Total(D) + e.amount
<1> DEFINE U == D \cup {e}
<1>1. U \in SUBSET Event /\ IsFiniteSet(U) /\ e \in U /\ U \ {e} = D
  BY FS_AddElement
<1>2. \A x \in U : Amount[x] \in Int
  BY DEF Amount, Event
<1>3. Amount[e] = e.amount /\ e.amount \in Int
  BY DEF Amount, Event
<1> HIDE DEF U
<1>4. SumFunctionOnSet(Amount, U) = Amount[e] + SumFunctionOnSet(Amount, D)
  BY <1>1, <1>2, SumRemove
<1>5. Total(U) = SumFunctionOnSet(Amount, U) /\ Total(D) = SumFunctionOnSet(Amount, D)
      /\ Total(D) \in Int
  BY <1>1, TotalIsSum
<1> QED
  BY <1>3, <1>4, <1>5 DEF U

\* What a counter is worth is what its parts are worth together: by induction
\* on the replicas.
LEMMA ValueIsTotal ==
  ASSUME NEW m \in Snapshot, \A i \in Replica : Worth(Of(m, i))
  PROVE  PNC!Value(m.counter) = Total(m.done)
<1> DEFINE P == m.counter.P
           N == m.counter.N
           D == m.done
           Upto(T) == {e \in D : e.by \in T}
           SumP(T) == SumFunctionOnSet(P, T)
           SumN(T) == SumFunctionOnSet(N, T)
           Good == {T \in SUBSET Replica :
                      /\ IsFiniteSet(Upto(T))
                      /\ Total(Upto(T)) = SumP(T) - SumN(T)}
<1>1. /\ P \in [Replica -> Int] /\ N \in [Replica -> Int] /\ D \in SUBSET Event
      /\ IsFiniteSet(Replica)
  BY DeltaAssumption DEF Snapshot, PNC!Counter
<1>2. {} \in Good
  <2>1. Upto({}) = {} /\ IsFiniteSet({})
    BY FS_EmptySet
  <2>2. SumP({}) = 0 /\ SumN({}) = 0
    BY SumEmpty
  <2>3. Total({}) = 0
    BY <2>1, TotalIsSum, SumEmpty
  <2> QED
    BY <2>1, <2>2, <2>3
<1>3. ASSUME NEW T \in SUBSET Replica, NEW i \in Replica \ T, T \in Good
      PROVE  T \cup {i} \in Good
  <2> DEFINE U == T \cup {i}
  <2>1. Upto(U) = Upto(T) \cup Part(D, i) /\ Upto(T) \cap Part(D, i) = {}
    BY DEF Part
  <2>2. IsFiniteSet(Part(D, i)) /\ Total(Part(D, i)) = P[i] - N[i]
    BY DEF Worth, Of
  <2>3. IsFiniteSet(Upto(T)) /\ Total(Upto(T)) = SumP(T) - SumN(T)
    BY <1>3
  <2>4. IsFiniteSet(U) /\ U \in SUBSET Replica /\ i \in U /\ U \ {i} = T
        /\ IsFiniteSet(T)
    BY <1>1, FS_Subset
  <2>5. \A x \in U : P[x] \in Int /\ N[x] \in Int
    BY <1>1, <2>4
  <2> HIDE DEF U, P, N
  <2>6. SumP(U) = P[i] + SumP(T) /\ SumN(U) = N[i] + SumN(T)
    BY <2>4, <2>5, SumRemove
  <2>7. SumP(T) \in Int /\ SumN(T) \in Int
    BY <2>4, <2>5, SumType
  <2> DEFINE A == Upto(T)  B == Part(D, i)
  <2>8. A \in SUBSET Event /\ B \in SUBSET Event /\ A \cap B = {}
        /\ IsFiniteSet(A) /\ IsFiniteSet(B)
    BY <1>1, <2>1, <2>2, <2>3 DEF Part
  <2>9. Upto(U) = A \cup B
    BY <2>1
  <2> HIDE DEF A, B
  <2>10. IsFiniteSet(A \cup B) /\ A \cup B \in SUBSET Event /\ B \in SUBSET ((A \cup B) \ A)
         /\ A \in SUBSET (A \cup B)
    BY <2>8, FS_Union
  <2>11. \A e \in A \cup B : Amount[e] \in Int
    BY <2>8 DEF Amount, Event
  <2>12. SumFunctionOnSet(Amount, A \cup B) =
         SumFunctionOnSet(Amount, A) + SumFunctionOnSet(Amount, B)
    BY <2>10, <2>11, SumDisjoint
  <2>13. Total(A \cup B) = Total(A) + Total(B)
    BY <2>8, <2>10, <2>12, TotalIsSum
  <2>14. Total(A) = SumP(T) - SumN(T) /\ Total(B) = P[i] - N[i]
    BY <2>2, <2>3 DEF A, B
  <2>15. P[i] \in Int /\ N[i] \in Int
    BY <2>4, <2>5
  <2>16. Total(A \cup B) = SumP(U) - SumN(U)
    <3> HIDE DEF SumP, SumN
    <3> QED
      BY <2>6, <2>7, <2>13, <2>14, <2>15
  <2>17. U \in Good
    BY <2>4, <2>9, <2>10, <2>16
  <2> QED
    BY <2>17 DEF U
<1>4. Replica \in Good
  <2> HIDE DEF Good
  <2> QED
    BY <1>1, <1>2, <1>3, SetInduction
<1>5. Upto(Replica) = D
  BY <1>1 DEF Event
<1>6. PNC!Value(m.counter) = SumP(Replica) - SumN(Replica)
  <2>1. DOMAIN P = Replica /\ DOMAIN N = Replica
    BY <1>1
  <2>2. PNC!SumFunction(P) = SumFunctionOnSet(P, DOMAIN P)
    BY DEF PNC!SumFunction, PNC!SumFunctionOnSet, PNC!FoldFunctionOnSet,
       PNC!MapThenFoldSet, SumFunctionOnSet, FoldFunctionOnSet, MapThenFoldSet
  <2>3. PNC!SumFunction(N) = SumFunctionOnSet(N, DOMAIN N)
    BY DEF PNC!SumFunction, PNC!SumFunctionOnSet, PNC!FoldFunctionOnSet,
       PNC!MapThenFoldSet, SumFunctionOnSet, FoldFunctionOnSet, MapThenFoldSet
  <2> QED
    BY <2>1, <2>2, <2>3 DEF PNC!Value
<1> QED
  BY <1>4, <1>5, <1>6

LEMMA HeldType ==
  ASSUME WorthInv
  PROVE  /\ \A r \in Replica : Held(r) \in Snapshot /\ Held(r) \in Snapshots
         /\ Snapshots \subseteq Snapshot
BY DEF WorthInv, Held, Snapshot, Snapshots

LEMMA WorthInit == Init => WorthInv
<1> SUFFICES ASSUME Init PROVE WorthInv
  OBVIOUS
<1> DEFINE zero == PNC!NewPNCounter(Replica)
<1>1. zero \in PNC!Counter(Replica)
      /\ \A i \in Replica : zero.P[i] = 0 /\ zero.N[i] = 0
  BY DEF PNC!NewPNCounter, PNC!Counter
<1>2. counter = [r \in Replica |-> zero] /\ done = [r \in Replica |-> {}] /\ sent = {}
  BY DEF Init
<1> HIDE DEF zero
<1>3. \A r \in Replica : Held(r) = [counter |-> zero, done |-> {}]
  BY <1>2 DEF Held
<1>4. \A m \in Snapshots : m = [counter |-> zero, done |-> {}]
  BY <1>2, <1>3 DEF Snapshots
<1>5. \A m \in Snapshots, i \in Replica : Of(m, i) = [part |-> {}, P |-> 0, N |-> 0]
  BY <1>1, <1>4 DEF Of, Part
<1>6. Worth([part |-> {}, P |-> 0, N |-> 0])
  <2>1. IsFiniteSet({}) /\ Total({}) = 0
    BY FS_EmptySet, TotalIsSum, SumEmpty
  <2> QED
    BY <2>1 DEF Worth
<1>7. Leq([part |-> {}, P |-> 0, N |-> 0], [part |-> {}, P |-> 0, N |-> 0])
  BY DEF Leq
<1>8. \A r \in Replica : Held(r) \in Snapshots
  BY DEF Snapshots
<1>9. \A i \in Replica : Numbered(Part(done[i], i))
  BY <1>2 DEF Numbered, Part
<1>10. /\ counter \in [Replica -> PNC!Counter(Replica)]
       /\ done \in [Replica -> SUBSET Event]
       /\ sent \subseteq Snapshot
  BY <1>1, <1>2
<1> QED
  BY <1>5, <1>6, <1>7, <1>8, <1>9, <1>10 DEF WorthInv

\* One replica's snapshot is replaced by w, no smaller of that replica, which
\* has of any other what some snapshot had.
LEMMA WorthStep ==
  ASSUME WorthInv, NEW r \in Replica, NEW w \in Snapshot, UNCHANGED sent,
         counter' = [counter EXCEPT ![r] = w.counter],
         done' = [done EXCEPT ![r] = w.done],
         Leq(Of(Held(r), r), Of(w, r)), Worth(Of(w, r)), Numbered(Part(w.done, r)),
         \A i \in Replica \ {r} : \E s \in Snapshots : Of(w, i) = Of(s, i)
  PROVE  WorthInv'
<1>1. /\ \A q \in Replica : Held(q) \in Snapshot /\ Held(q) \in Snapshots
      /\ Snapshots \subseteq Snapshot
  BY HeldType
<1>2. /\ counter' \in [Replica -> PNC!Counter(Replica)]
      /\ done' \in [Replica -> SUBSET Event]
      /\ sent' \subseteq Snapshot
  BY DEF WorthInv, Snapshot
<1>3. Held(r)' = w /\ \A q \in Replica \ {r} : Held(q)' = Held(q)
  BY DEF WorthInv, Held, Snapshot
<1>4. Snapshots' \subseteq Snapshots \cup {w}
  BY <1>3 DEF Snapshots
<1>5. \A m \in Snapshots, i \in Replica : Of(m, i) \in View
  BY <1>1, OfType
<1>6. \A i \in Replica : Of(w, i) \in View
  BY OfType
\* Compared with w, of every replica.
<1>7. ASSUME NEW m \in Snapshots, NEW i \in Replica
      PROVE  /\ Leq(Of(m, i), Of(w, i)) \/ Leq(Of(w, i), Of(m, i))
             /\ i = r => Leq(Of(m, i), Of(w, i))
  <2>1. CASE i = r
    <3>1. Leq(Of(m, r), Of(Held(r), r))
      BY DEF WorthInv
    <3> QED
      BY <1>1, <1>5, <1>6, <2>1, <3>1, LeqOrder
  <2>2. CASE i # r
    <3>1. PICK s \in Snapshots : Of(w, i) = Of(s, i)
      BY <2>2
    <3> QED
      BY <2>2, <3>1 DEF WorthInv
  <2> QED
    BY <2>1, <2>2
<1>8. \A i \in Replica : i # r => Leq(Of(w, i), Of(Held(i), i))
  BY DEF WorthInv
<1>9. \A i \in Replica : Worth(Of(w, i))
  BY DEF WorthInv
<1>10. \A m \in Snapshots', i \in Replica : Worth(Of(m, i))
  BY <1>4, <1>9 DEF WorthInv
<1>11. \A i \in Replica : Leq(Of(w, i), Of(w, i))
  BY <1>6, LeqOrder
<1>12. \A m, o \in Snapshots', i \in Replica :
         Leq(Of(m, i), Of(o, i)) \/ Leq(Of(o, i), Of(m, i))
  BY <1>4, <1>7, <1>11 DEF WorthInv
<1>13. \A m \in Snapshots', i \in Replica : Leq(Of(m, i), Of(Held(i)', i))
  <2> SUFFICES ASSUME NEW m \in Snapshots', NEW i \in Replica
               PROVE  Leq(Of(m, i), Of(Held(i)', i))
    OBVIOUS
  <2>1. CASE i = r
    BY <1>3, <1>4, <1>7, <1>11, <2>1
  <2>2. CASE i # r /\ m = w
    BY <1>3, <1>8, <2>2
  <2>3. CASE i # r /\ m \in Snapshots
    BY <1>3, <2>3 DEF WorthInv
  <2> QED
    BY <1>4, <2>1, <2>2, <2>3
<1>14. \A i \in Replica : Numbered(Part(done'[i], i))
  <2>1. done'[r] = w.done /\ \A i \in Replica \ {r} : done'[i] = done[i]
    BY DEF WorthInv
  <2> QED
    BY <2>1 DEF WorthInv
<1>15. \A m, i : Of(m, i)' = Of(m', i')
  BY DEF Of, Part
<1> QED
  BY <1>2, <1>10, <1>12, <1>13, <1>14 DEF WorthInv, Of, Part, Worth, Leq, Numbered, Total

\* Counting: a new operation of the replica, and as much more under its
\* identifier on one side of its counter.
LEMMA WorthCounts ==
  ASSUME WorthInv, NEW r \in Replica, NEW amount \in Int, Note(r, amount),
         UNCHANGED sent, NEW c \in PNC!Counter(Replica),
         counter' = [counter EXCEPT ![r] = c],
         \A i \in Replica \ {r} : /\ c.P[i] = counter[r].P[i]
                                  /\ c.N[i] = counter[r].N[i],
         c.P[r] >= counter[r].P[r], c.N[r] >= counter[r].N[r],
         c.P[r] - c.N[r] = counter[r].P[r] - counter[r].N[r] + amount
  PROVE  WorthInv'
<1> DEFINE old == Part(done[r], r)
           e == [by |-> r, no |-> Cardinality(old) + 1, amount |-> amount]
           w == [counter |-> c, done |-> done[r] \cup {e}]
<1>1. Held(r) \in Snapshots /\ Held(r) \in Snapshot
  BY HeldType
<1>2. Worth(Of(Held(r), r)) /\ Numbered(old)
  BY <1>1 DEF WorthInv
<1>3. IsFiniteSet(old) /\ Total(old) = counter[r].P[r] - counter[r].N[r]
      /\ old \in SUBSET Event
  BY <1>1, <1>2 DEF Worth, Of, Held, Snapshot, Part
<1>4. Cardinality(old) \in Nat
  BY <1>3, FS_CardinalityType
<1>5. old = Own(r)
  BY DEF Part, Own
<1>6. Cardinality(old) < MaxOps /\ done' = [done EXCEPT ![r] = w.done]
  BY <1>5 DEF Note, WorthInv
<1>7. e \in Event /\ e.no = Cardinality(old) + 1 /\ e.by = r /\ e.amount = amount
  BY <1>4, <1>6, DeltaAssumption DEF Event
<1> HIDE DEF e
<1>8. e \notin old
  BY <1>2, <1>4, <1>7 DEF Numbered
<1>9. w \in Snapshot
  BY <1>7 DEF WorthInv, Snapshot
<1>10. Part(w.done, r) = old \cup {e} /\ \A i \in Replica \ {r} : Part(w.done, i) = Part(done[r], i)
  BY <1>7 DEF Part
<1>11. Cardinality(old \cup {e}) = Cardinality(old) + 1 /\ IsFiniteSet(old \cup {e})
  BY <1>3, <1>8, FS_AddElement
<1>12. Numbered(old \cup {e})
  <2>1. \A x \in old : x.no \in Int /\ x.no <= Cardinality(old)
    BY <1>2, <1>3 DEF Numbered, Event
  <2> QED
    BY <1>4, <1>7, <1>11, <2>1 DEF Numbered
<1>13. Total(old \cup {e}) = c.P[r] - c.N[r]
  BY <1>3, <1>7, <1>8, TotalAdds
<1>14. Worth(Of(w, r))
  BY <1>10, <1>11, <1>13 DEF Worth, Of
<1>15. Leq(Of(Held(r), r), Of(w, r))
  <2>1. /\ c.P[r] \in Int /\ c.N[r] \in Int
        /\ counter[r].P[r] \in Int /\ counter[r].N[r] \in Int
    BY DEF WorthInv, PNC!Counter
  <2> QED
    BY <1>8, <1>10, <2>1 DEF Leq, Of, Held
<1>16. \A i \in Replica \ {r} : Of(w, i) = Of(Held(r), i)
  BY <1>10 DEF Of, Held
<1>17. counter' = [counter EXCEPT ![r] = w.counter]
  OBVIOUS
<1> HIDE DEF w
<1> QED
  BY <1>1, <1>6, <1>9, <1>10, <1>12, <1>14, <1>15, <1>16, <1>17, WorthStep

\* Merging: of every replica, what the one or the other had.
LEMMA WorthMerges ==
  ASSUME WorthInv, NEW r \in Replica, NEW m \in sent, Deliver(r, m)
  PROVE  WorthInv'
<1> DEFINE h == Held(r)
           w == [counter |-> PNC!Merge(h.counter, m.counter), done |-> h.done \cup m.done]
<1>1. h \in Snapshots /\ h \in Snapshot /\ m \in Snapshots /\ m \in Snapshot
  BY HeldType DEF WorthInv, Snapshots
<1>2. h.counter = counter[r] /\ h.done = done[r]
  BY DEF Held
<1> HIDE DEF h
<1>3. w \in Snapshot
  BY <1>1, MergeGrows DEF Snapshot
<1>4. ASSUME NEW i \in Replica
      PROVE  /\ Leq(Of(h, i), Of(m, i)) => Of(w, i) = Of(m, i)
             /\ Leq(Of(m, i), Of(h, i)) => Of(w, i) = Of(h, i)
  <2>1. Part(w.done, i) = Part(h.done, i) \cup Part(m.done, i)
    BY DEF Part
  <2>2. /\ w.counter.P[i] = PNC!Max2(h.counter.P[i], m.counter.P[i])
        /\ w.counter.N[i] = PNC!Max2(h.counter.N[i], m.counter.N[i])
    BY <1>1 DEF PNC!Merge, Snapshot, PNC!Counter
  <2>3. /\ h.counter.P[i] \in Int /\ m.counter.P[i] \in Int
        /\ h.counter.N[i] \in Int /\ m.counter.N[i] \in Int
    BY <1>1 DEF Snapshot, PNC!Counter
  <2> HIDE DEF w
  <2>4. ASSUME Leq(Of(h, i), Of(m, i)) PROVE Of(w, i) = Of(m, i)
    <3>1. Part(w.done, i) = Part(m.done, i)
      BY <2>1, <2>4 DEF Leq, Of
    <3>2. w.counter.P[i] = m.counter.P[i] /\ w.counter.N[i] = m.counter.N[i]
      BY <2>2, <2>3, <2>4 DEF Leq, Of, PNC!Max2
    <3> QED
      BY <3>1, <3>2 DEF Of
  <2>5. ASSUME Leq(Of(m, i), Of(h, i)) PROVE Of(w, i) = Of(h, i)
    <3>1. Part(w.done, i) = Part(h.done, i)
      BY <2>1, <2>5 DEF Leq, Of
    <3>2. w.counter.P[i] = h.counter.P[i] /\ w.counter.N[i] = h.counter.N[i]
      BY <2>2, <2>3, <2>5 DEF Leq, Of, PNC!Max2
    <3> QED
      BY <3>1, <3>2 DEF Of
  <2> QED
    BY <2>4, <2>5
<1>5. \A i \in Replica : Of(w, i) = Of(m, i) \/ Of(w, i) = Of(h, i)
  BY <1>1, <1>4 DEF WorthInv
<1>6. Of(w, r) = Of(h, r)
  BY <1>1, <1>4 DEF WorthInv, h
<1>7. Leq(Of(h, r), Of(w, r)) /\ Worth(Of(w, r))
  BY <1>1, <1>6, LeqOrder, OfType DEF WorthInv
<1>8. Numbered(Part(w.done, r))
  <2>1. Part(w.done, r) = Part(done[r], r)
    BY <1>2, <1>6 DEF Of
  <2> QED
    BY <2>1 DEF WorthInv
<1>9. counter' = [counter EXCEPT ![r] = w.counter] /\ done' = [done EXCEPT ![r] = w.done]
      /\ sent' = sent
  BY <1>2 DEF Deliver
<1>10. Leq(Of(Held(r), r), Of(w, r))
  BY <1>7 DEF h
<1> HIDE DEF w
<1> QED
  BY <1>1, <1>3, <1>5, <1>7, <1>8, <1>9, <1>10, WorthStep

\* No snapshot is new.
LEMMA WorthStays ==
  ASSUME WorthInv, UNCHANGED <<counter, done>>, sent' \subseteq Snapshot,
         Snapshots' = Snapshots, \A q \in Replica : Held(q)' = Held(q)
  PROVE  WorthInv'
<1>1. /\ counter' \in [Replica -> PNC!Counter(Replica)]
      /\ done' \in [Replica -> SUBSET Event]
  BY DEF WorthInv
<1>2. \A m \in Snapshots', i \in Replica : Worth(Of(m, i))
  BY DEF WorthInv
<1>3. \A m, o \in Snapshots', i \in Replica :
        Leq(Of(m, i), Of(o, i)) \/ Leq(Of(o, i), Of(m, i))
  BY DEF WorthInv
<1>4. \A m \in Snapshots', i \in Replica : Leq(Of(m, i), Of(Held(i)', i))
  BY DEF WorthInv
<1>5. \A i \in Replica : Numbered(Part(done'[i], i))
  BY DEF WorthInv
<1> QED
  BY <1>1, <1>2, <1>3, <1>4, <1>5 DEF WorthInv, Of, Part, Worth, Leq, Numbered, Total

LEMMA WorthNext == WorthInv /\ [Next]_vars => WorthInv'
<1> SUFFICES ASSUME WorthInv, [Next]_vars PROVE WorthInv'
  OBVIOUS
<1>t. \A q \in Replica : counter[q] \in PNC!Counter(Replica)
  BY DEF WorthInv
<1>1. ASSUME NEW r \in Replica, NEW d \in Delta, Increment(r, d) PROVE WorthInv'
  <2> DEFINE c == PNC!Increment(counter[r], r, d)
  <2>1. d \in Nat /\ d \in Int /\ c \in PNC!Counter(Replica)
    BY <1>t, DeltaAssumption, CountGrows
  <2>2. /\ \A i \in Replica \ {r} : c.P[i] = counter[r].P[i]
        /\ \A i \in Replica : c.N[i] = counter[r].N[i]
        /\ c.P[r] = counter[r].P[r] + d
        /\ counter[r].P[r] \in Int /\ counter[r].N[r] \in Int
    BY <1>t, <2>1 DEF PNC!Increment, PNC!Counter
  <2>3. Note(r, d) /\ counter' = [counter EXCEPT ![r] = c] /\ UNCHANGED sent
    BY <1>1 DEF Increment
  <2> HIDE DEF c
  <2>4. /\ c.P[r] >= counter[r].P[r] /\ c.N[r] >= counter[r].N[r]
        /\ c.P[r] - c.N[r] = counter[r].P[r] - counter[r].N[r] + d
    BY <2>1, <2>2
  <2>5. \A i \in Replica \ {r} : c.P[i] = counter[r].P[i] /\ c.N[i] = counter[r].N[i]
    BY <2>2
  <2> QED
    BY <2>1, <2>3, <2>4, <2>5, WorthCounts
<1>2. ASSUME NEW r \in Replica, NEW d \in Delta, Decrement(r, d) PROVE WorthInv'
  <2> DEFINE c == PNC!Decrement(counter[r], r, d)
  <2>1. d \in Nat /\ - d \in Int /\ c \in PNC!Counter(Replica)
    BY <1>t, DeltaAssumption, CountGrows
  <2>2. /\ \A i \in Replica \ {r} : c.N[i] = counter[r].N[i]
        /\ \A i \in Replica : c.P[i] = counter[r].P[i]
        /\ c.N[r] = counter[r].N[r] + d
        /\ counter[r].P[r] \in Int /\ counter[r].N[r] \in Int
    BY <1>t, <2>1 DEF PNC!Decrement, PNC!Counter
  <2>3. Note(r, - d) /\ counter' = [counter EXCEPT ![r] = c] /\ UNCHANGED sent
    BY <1>2 DEF Decrement
  <2> HIDE DEF c
  <2>4. /\ c.P[r] >= counter[r].P[r] /\ c.N[r] >= counter[r].N[r]
        /\ c.P[r] - c.N[r] = counter[r].P[r] - counter[r].N[r] + (- d)
    BY <2>1, <2>2
  <2>5. \A i \in Replica \ {r} : c.P[i] = counter[r].P[i] /\ c.N[i] = counter[r].N[i]
    BY <2>2
  <2> QED
    BY <2>1, <2>3, <2>4, <2>5, WorthCounts
<1>3. ASSUME NEW r \in Replica, Send(r) PROVE WorthInv'
  <2>1. counter' = counter /\ done' = done /\ sent' = sent \cup {Held(r)}
    BY <1>3 DEF Send, Held
  <2>2. Snapshots' = Snapshots /\ \A q \in Replica : Held(q)' = Held(q)
    BY <2>1 DEF Snapshots, Held
  <2>3. sent' \subseteq Snapshot
    BY <2>1, HeldType DEF WorthInv
  <2> QED
    BY <2>1, <2>2, <2>3, WorthStays
<1>4. ASSUME NEW r \in Replica, NEW m \in sent, Deliver(r, m) PROVE WorthInv'
  BY <1>4, WorthMerges
<1>5. CASE UNCHANGED vars
  <2>1. counter' = counter /\ done' = done /\ sent' = sent
    BY <1>5 DEF vars
  <2>2. Snapshots' = Snapshots /\ \A q \in Replica : Held(q)' = Held(q)
    BY <2>1 DEF Snapshots, Held
  <2>3. sent' \subseteq Snapshot
    BY <2>1 DEF WorthInv
  <2> QED
    BY <2>1, <2>2, <2>3, WorthStays
<1> QED
  BY <1>1, <1>2, <1>3, <1>4, <1>5 DEF Next

\* Exactly once, for any number of replicas and operations: the value of a
\* replica is the sum of the operations that reached it, however often and in
\* whatever order snapshots were merged (PNCounter.Merge, Value).
THEOREM ValueIsAlwaysSum == ReplicasSpec => []ValueIsSum
<1>1. WorthInv => ValueIsSum
  <2> SUFFICES ASSUME WorthInv, NEW r \in Replica
               PROVE  PNC!Value(counter[r]) = Total(done[r])
    BY DEF ValueIsSum
  <2>1. Held(r) \in Snapshot /\ Held(r) \in Snapshots
    BY HeldType
  <2>2. PNC!Value(Held(r).counter) = Total(Held(r).done)
    BY <2>1, ValueIsTotal DEF WorthInv
  <2> QED
    BY <2>2 DEF Held
<1>2. ReplicasInit => WorthInv
  BY WorthInit DEF ReplicasInit
<1> QED
  BY <1>1, <1>2, Steps, WorthNext, PTL DEF ReplicasSpec

\* Replicas converge, for any number of them: of each replica, two that heard
\* of the same operations have the same part, and no two snapshots have the
\* same part with other counts (PNCounter.Merge).
THEOREM CountersAlwaysConverge == ReplicasSpec => []CountersConverge
<1>1. WorthInv => CountersConverge
  <2> SUFFICES ASSUME WorthInv, NEW r \in Replica, NEW q \in Replica, done[r] = done[q]
               PROVE  counter[r] = counter[q]
    BY DEF CountersConverge
  <2>1. Held(r) \in Snapshots /\ Held(q) \in Snapshots
    BY HeldType
  <2>2. ASSUME NEW i \in Replica
        PROVE  counter[r].P[i] = counter[q].P[i] /\ counter[r].N[i] = counter[q].N[i]
    <3>1. Of(Held(r), i).part = Of(Held(q), i).part
      BY DEF Of, Held
    <3>2. Leq(Of(Held(r), i), Of(Held(q), i)) \/ Leq(Of(Held(q), i), Of(Held(r), i))
      BY <2>1 DEF WorthInv
    <3>3. Of(Held(r), i) = Of(Held(q), i)
      BY <3>1, <3>2 DEF Leq
    <3> QED
      BY <3>3 DEF Of, Held
  <2>3. counter[r] \in PNC!Counter(Replica) /\ counter[q] \in PNC!Counter(Replica)
    BY DEF WorthInv
  <2> QED
    BY <2>2, <2>3 DEF PNC!Counter
<1>2. ReplicasInit => WorthInv
  BY WorthInit DEF ReplicasInit
<1> QED
  BY <1>1, <1>2, Steps, WorthNext, PTL DEF ReplicasSpec
-----------------------------------------------------------------------------
(***************************************************************************)
(* Sets.                                                                   *)
(***************************************************************************)

Pairs(calls, op) == {<<c.element, c.tag>> : c \in {a \in calls : a.op = op}}

\* A set remembers exactly the calls.
Reflects(s, calls) ==
  s = [AddSet |-> Pairs(calls, "add"), RemSet |-> Pairs(calls, "remove")]

CallInv ==
  /\ set \in [Replica -> Sets!ORS!ORSets(Key, Tag)]
  /\ setDone \in [Replica -> SUBSET Sets!Call]
  /\ setSent \subseteq [set : Sets!ORS!ORSets(Key, Tag), done : SUBSET Sets!Call]
  /\ \A r \in Replica : Reflects(set[r], setDone[r])
  /\ \A m \in setSent : m.done \in SUBSET Sets!Call /\ Reflects(m.set, m.done)

LEMMA PairsType ==
  ASSUME NEW calls \in SUBSET Sets!Call, NEW op
  PROVE  Pairs(calls, op) \in SUBSET (Key \X Tag)
BY DEF Pairs, Sets!Call

LEMMA PairsUnion ==
  ASSUME NEW S, NEW T, NEW op
  PROVE  Pairs(S \cup T, op) = Pairs(S, op) \cup Pairs(T, op)
BY DEF Pairs

\* One more call, one more pair.
LEMMA PairsOne ==
  ASSUME NEW S \in SUBSET Sets!Call, NEW op \in {"add", "remove"}, NEW other \in {"add", "remove"},
         NEW e \in Key, NEW t \in Tag
  PROVE  Pairs(S \cup {[op |-> op, element |-> e, tag |-> t]}, other) =
         IF other = op THEN Pairs(S, other) \cup {<<e, t>>} ELSE Pairs(S, other)
<1> DEFINE c == [op |-> op, element |-> e, tag |-> t]
<1>1. c.op = op /\ c.element = e /\ c.tag = t
  OBVIOUS
<1>2. Pairs(S \cup {c}, other) = Pairs(S, other) \cup Pairs({c}, other)
  BY PairsUnion
<1> HIDE DEF c
<1>3. CASE other = op
  <2>1. Pairs({c}, other) = {<<e, t>>}
    BY <1>1, <1>3 DEF Pairs
  <2> QED
    BY <1>2, <1>3, <2>1 DEF c
<1>4. CASE other # op
  <2>1. Pairs({c}, other) = {}
    BY <1>1, <1>4 DEF Pairs
  <2> QED
    BY <1>2, <1>4, <2>1 DEF c
<1> QED
  BY <1>3, <1>4

LEMMA CallInit == Sets!Init => CallInv
<1>1. Reflects(Sets!ORS!NewORSet, {})
  BY DEF Reflects, Pairs, Sets!ORS!NewORSet
<1> QED
  BY <1>1 DEF Sets!Init, CallInv, Sets!ORS!NewORSet, Sets!ORS!ORSets

\* Changing one replica's set along with its calls.
LEMMA OneReflects ==
  ASSUME CallInv, NEW r \in Replica, NEW s, NEW calls \in SUBSET Sets!Call,
         Reflects(s, calls), UNCHANGED setSent,
         set' = [set EXCEPT ![r] = s], setDone' = [setDone EXCEPT ![r] = calls]
  PROVE  CallInv'
<1>1. s \in Sets!ORS!ORSets(Key, Tag)
  BY PairsType DEF Reflects, Sets!ORS!ORSets
<1> QED
  BY <1>1 DEF CallInv

LEMMA CallNext == CallInv /\ [Sets!Next]_sets => CallInv'
<1> SUFFICES ASSUME CallInv, [Sets!Next]_sets PROVE CallInv'
  OBVIOUS
<1>1. ASSUME NEW r \in Replica, NEW e \in Key, NEW t \in Tag, Sets!Add(r, e, t)
      PROVE  CallInv'
  <2> DEFINE calls == setDone[r] \cup {[op |-> "add", element |-> e, tag |-> t]}
  <2>1. calls \in SUBSET Sets!Call /\ setDone[r] \in SUBSET Sets!Call
    BY DEF CallInv, Sets!Call
  <2>2. Pairs(calls, "add") = Pairs(setDone[r], "add") \cup {<<e, t>>}
        /\ Pairs(calls, "remove") = Pairs(setDone[r], "remove")
    BY <2>1, PairsOne
  <2>3. Reflects(Sets!ORS!Add(set[r], e, t), calls)
    <3>1. set[r] = [AddSet |-> Pairs(setDone[r], "add"), RemSet |-> Pairs(setDone[r], "remove")]
      BY DEF CallInv, Reflects
    <3>2. Sets!ORS!Add(set[r], e, t) =
          [AddSet |-> Pairs(setDone[r], "add") \cup {<<e, t>>},
           RemSet |-> Pairs(setDone[r], "remove")]
      BY <3>1 DEF Sets!ORS!Add
    <3> QED
      BY <2>2, <3>2 DEF Reflects
  <2> QED
    BY <1>1, <2>1, <2>3, OneReflects DEF Sets!Add, Sets!Note
<1>2. ASSUME NEW r \in Replica, NEW e \in Key, NEW t \in Tag, Sets!Remove(r, e, t)
      PROVE  CallInv'
  <2> DEFINE calls == setDone[r] \cup {[op |-> "remove", element |-> e, tag |-> t]}
  <2>1. calls \in SUBSET Sets!Call /\ setDone[r] \in SUBSET Sets!Call
    BY DEF CallInv, Sets!Call
  <2>2. Pairs(calls, "remove") = Pairs(setDone[r], "remove") \cup {<<e, t>>}
        /\ Pairs(calls, "add") = Pairs(setDone[r], "add")
    BY <2>1, PairsOne
  <2>3. Reflects(Sets!ORS!Remove(set[r], e, t), calls)
    <3>1. set[r] = [AddSet |-> Pairs(setDone[r], "add"), RemSet |-> Pairs(setDone[r], "remove")]
      BY DEF CallInv, Reflects
    <3>2. Sets!ORS!Remove(set[r], e, t) =
          [AddSet |-> Pairs(setDone[r], "add"),
           RemSet |-> Pairs(setDone[r], "remove") \cup {<<e, t>>}]
      BY <3>1 DEF Sets!ORS!Remove
    <3> QED
      BY <2>2, <3>2 DEF Reflects
  <2> QED
    BY <1>2, <2>1, <2>3, OneReflects DEF Sets!Remove, Sets!Note
<1>3. ASSUME NEW r \in Replica, Sets!Send(r) PROVE CallInv'
  BY <1>3 DEF Sets!Send, CallInv
<1>4. ASSUME NEW r \in Replica, NEW m \in setSent, Sets!Deliver(r, m) PROVE CallInv'
  <2>1. setDone[r] \cup m.done \in SUBSET Sets!Call
    BY DEF CallInv
  <2>2. Reflects(Sets!ORS!Merge(set[r], m.set), setDone[r] \cup m.done)
    <3>1. /\ set[r] = [AddSet |-> Pairs(setDone[r], "add"), RemSet |-> Pairs(setDone[r], "remove")]
          /\ m.set = [AddSet |-> Pairs(m.done, "add"), RemSet |-> Pairs(m.done, "remove")]
      BY DEF CallInv, Reflects
    <3>2. Sets!ORS!Merge(set[r], m.set) =
          [AddSet |-> Pairs(setDone[r], "add") \cup Pairs(m.done, "add"),
           RemSet |-> Pairs(setDone[r], "remove") \cup Pairs(m.done, "remove")]
      BY <3>1 DEF Sets!ORS!Merge
    <3>3. /\ Pairs(setDone[r] \cup m.done, "add") = Pairs(setDone[r], "add") \cup Pairs(m.done, "add")
          /\ Pairs(setDone[r] \cup m.done, "remove") = Pairs(setDone[r], "remove") \cup Pairs(m.done, "remove")
      BY PairsUnion
    <3> QED
      BY <3>2, <3>3 DEF Reflects
  <2> QED
    BY <1>4, <2>1, <2>2, OneReflects DEF Sets!Deliver
<1>5. CASE UNCHANGED sets
  BY <1>5 DEF sets, CallInv
<1> QED
  BY <1>1, <1>2, <1>3, <1>4, <1>5 DEF Sets!Next

\* What a set that reflects the calls shows is what they make it show.
LEMMA ShowsCalls ==
  ASSUME NEW s, NEW calls \in SUBSET Sets!Call, Reflects(s, calls)
  PROVE  Sets!ORS!Elements(s) = Sets!Shown(calls)
<1>1. ASSUME NEW a \in calls, a.op = "add"
      PROVE  [a EXCEPT !.op = "remove"] \in calls <=>
             <<a.element, a.tag>> \in Pairs(calls, "remove")
  <2>1. a = [op |-> "add", element |-> a.element, tag |-> a.tag]
    BY <1>1 DEF Sets!Call
  <2>2. [a EXCEPT !.op = "remove"] = [op |-> "remove", element |-> a.element, tag |-> a.tag]
    BY <2>1
  <2>3. \A c \in calls : c = [op |-> c.op, element |-> c.element, tag |-> c.tag]
    BY DEF Sets!Call
  <2> QED
    BY <2>2, <2>3 DEF Pairs
<1>2. Sets!ORS!Elements(s) = {x[1] : x \in Pairs(calls, "add") \ Pairs(calls, "remove")}
  BY DEF Sets!ORS!Elements, Sets!ORS!Live, Reflects
<1>3. \A x \in Pairs(calls, "add") : \E a \in calls : a.op = "add" /\ x = <<a.element, a.tag>>
  BY DEF Pairs
<1>4. \A a \in calls : a.op = "add" => <<a.element, a.tag>> \in Pairs(calls, "add")
  BY DEF Pairs
<1>5. Sets!ORS!Elements(s) \subseteq Sets!Shown(calls)
  BY <1>1, <1>2, <1>3 DEF Sets!Shown
<1>6. Sets!Shown(calls) \subseteq Sets!ORS!Elements(s)
  <2> SUFFICES ASSUME NEW a \in calls, a.op = "add",
                      [a EXCEPT !.op = "remove"] \notin calls
               PROVE  a.element \in Sets!ORS!Elements(s)
    BY DEF Sets!Shown
  <2>1. <<a.element, a.tag>> \in Pairs(calls, "add") \ Pairs(calls, "remove")
    BY <1>1, <1>4
  <2> QED
    BY <1>2, <2>1
<1> QED
  BY <1>5, <1>6

\* Only the calls count: order, number and age of the snapshots do not
\* (ORSet.Merge, Add, Remove, Elements).
THEOREM OnlyCallsEverCount == ReplicasSpec => []OnlyCallsCount
<1>1. CallInv => OnlyCallsCount
  BY ShowsCalls DEF CallInv, OnlyCallsCount, Sets!OnlyCallsCount
<1>2. ReplicasInit => CallInv
  BY CallInit DEF ReplicasInit
<1> QED
  BY <1>1, <1>2, Steps, CallNext, PTL DEF ReplicasSpec
-----------------------------------------------------------------------------
\* Every variable of the three keeps its type; above all, no merge leaves two
\* values in one slot of a map, since a tag is used for one Put only
\* (ORMap.Put, Merge).
THEOREM ReplicasTypes == ReplicasSpec => []ReplicasTypeOK
<1>1. VersionInv => Maps!TypeOK
  <2> SUFFICES ASSUME VersionInv PROVE Maps!TypeOK
    OBVIOUS
  <2>1. \A m : Made(m) => m \in Maps!ORM!Map(Key, Tag, Tag)
    BY DEF Made, Entry, Maps!ORM!Map
  <2> QED
    BY <2>1 DEF VersionInv, Maps!TypeOK
<1>2. WorthInv => TypeOK
  BY DEF WorthInv, TypeOK, Snapshot
<1>3. CallInv => Sets!TypeOK
  BY DEF CallInv, Sets!TypeOK
<1>4. ReplicasInit => VersionInv /\ WorthInv /\ CallInv
  BY VersionInit, WorthInit, CallInit DEF ReplicasInit
<1> QED
  BY <1>1, <1>2, <1>3, <1>4, Steps, VersionNext, WorthNext, CallNext, PTL
     DEF ReplicasSpec, ReplicasTypeOK
=============================================================================
