------------------------- MODULE PeriodicSyncProofs -------------------------
(***************************************************************************)
(* Proofs about GroupRegistry: its types, that whatever is listed was      *)
(* stored, and that only trouble unlists; and about PeriodicSync: it       *)
(* implements GroupRegistry, so what is proved of the registry holds while *)
(* loops and processes run; rounds are complete; and only a killed process *)
(* strands a group.                                                        *)
(***************************************************************************)
EXTENDS PeriodicSync, FiniteSetTheorems, TLAPS

-----------------------------------------------------------------------------
\* The registry of groups.
Writing == {"cache", "store", "readList", "writeList"}

\* A creation under way runs at a running node and has a group; so has a loop
\* that fetched one.
UnderWayOK ==
  /\ \A c \in Creation : pc[c] \in Writing =>
       home[c] \in Node \ gone /\ target[c] \in Group
  /\ \A n \in Node : pc[n] = "keep" => target[n] \in Group

TypeInv == TypeOK /\ UnderWayOK

\* A shard index is the index of a shard (getShardIndex), because the hash
\* fits into an int.
THEOREM ShardIndexInRange ==
  ASSUME NEW g \in Group
  PROVE  getShardIndex(g) \in Shard
<1>1. Hash[g] \in Nat /\ Hash[g] <= IntMax
  BY RegistryAssumption
<1>2. ToInt(Hash[g]) = Hash[g]
  BY <1>1, RegistryAssumption DEF ToInt
<1>3. Remainder(Hash[g], NumShards) = Hash[g] % NumShards
  BY <1>1, RegistryAssumption DEF Remainder
<1>4. Hash[g] % NumShards \in 0 .. NumShards - 1
  BY <1>1, RegistryAssumption
<1> QED
  BY <1>2, <1>3, <1>4 DEF getShardIndex, Shard

\* What a process may read is a list of groups.
LEMMA ReadingsType ==
  ASSUME TypeOK, NEW n \in Node, NEW ids \in Readings(n)
  PROVE  ids \in SUBSET Group
<1>1. Kad!Select(list) \subseteq SUBSET Group
  BY DEF Kad!Select, TypeOK, NoList
<1> QED
  BY <1>1 DEF Readings

\* Every write reaches nobody but peers.
LEMMA ReachesType ==
  ASSUME TypeOK, NEW n \in Node, NEW R \in Reaches(n)
  PROVE  R \in SUBSET Node
BY DEF Reaches

LEMMA RegistryTypeInit == Init => TypeInv
<1> SUFFICES ASSUME Init PROVE TypeInv
  OBVIOUS
<1>1. TypeOK
  BY RegistryAssumption DEF Init, TypeOK, Steps, Final, Kad!Empty, NoList
<1>2. UnderWayOK
  BY DEF Init, UnderWayOK, Writing, Proc
<1> QED
  BY <1>1, <1>2 DEF TypeInv

LEMMA RegistryTypeNext == TypeInv /\ [Next]_vars => TypeInv'
<1> SUFFICES ASSUME TypeInv, [Next]_vars PROVE TypeInv'
  OBVIOUS
<1> USE RegistryAssumption
<1>1. ASSUME NEW w \in Workload, Receive(w[1], w[2], w[3]) PROVE TypeInv'
  <2>1. w[1] \in Creation /\ w[2] \in Node /\ w[3] \in Group
    OBVIOUS
  <2>2. TypeOK'
    BY <1>1, <2>1 DEF TypeInv, TypeOK, Receive, Goto, registry, history, Steps, Proc
  <2>3. UnderWayOK'
    BY <1>1, <2>1 DEF TypeInv, TypeOK, UnderWayOK, Receive, Goto, registry, Writing, Proc
  <2> QED
    BY <2>2, <2>3 DEF TypeInv
<1>2. ASSUME NEW c \in Creation, Cache(c) PROVE TypeInv'
  <2>1. home[c] \in Node /\ target[c] \in Group
    BY <1>2 DEF TypeInv, UnderWayOK, Cache, Writing
  <2>2. TypeOK'
    BY <1>2, <2>1 DEF TypeInv, TypeOK, Cache, Goto, registry, history, Steps, Proc
  <2>3. UnderWayOK'
    BY <1>2, <2>1 DEF TypeInv, TypeOK, UnderWayOK, Cache, Goto, registry, Writing, Proc
  <2> QED
    BY <2>2, <2>3 DEF TypeInv
<1>3. ASSUME NEW c \in Creation, StoreGroup(c) PROVE TypeInv'
  <2>1. home[c] \in Node /\ target[c] \in Group
    BY <1>3 DEF TypeInv, UnderWayOK, StoreGroup, Writing
  <2>2. reached' \in [Group -> SUBSET Node]
    BY <1>3, <2>1, ReachesType DEF TypeInv, TypeOK, StoreGroup
  <2>3. TypeOK'
    BY <1>3, <2>1, <2>2 DEF TypeInv, TypeOK, StoreGroup, Goto, history, Steps, Proc
  <2>4. UnderWayOK'
    BY <1>3, <2>1 DEF TypeInv, TypeOK, UnderWayOK, StoreGroup, Goto, Writing, Proc
  <2> QED
    BY <2>3, <2>4 DEF TypeInv
<1>4. ASSUME NEW c \in Creation, StoreGroupFails(c) PROVE TypeInv'
  <2>1. home[c] \in Node /\ target[c] \in Group
    BY <1>4 DEF TypeInv, UnderWayOK, StoreGroupFails, Writing
  <2>2. reached' \in [Group -> SUBSET Node]
    BY <1>4, <2>1 DEF TypeInv, TypeOK, StoreGroupFails
  <2>3. TypeOK'
    BY <1>4, <2>2 DEF TypeInv, TypeOK, StoreGroupFails, Goto, history, Steps, Final, Proc
  <2>4. UnderWayOK'
    BY <1>4, <2>1 DEF TypeInv, TypeOK, UnderWayOK, StoreGroupFails, Goto, Writing, Proc
  <2> QED
    BY <2>3, <2>4 DEF TypeInv
<1>5. ASSUME NEW c \in Creation, ReadList(c) PROVE TypeInv'
  <2>1. home[c] \in Node
    BY <1>5 DEF TypeInv, UnderWayOK, ReadList, Writing
  <2>2. PICK ids \in Readings(home[c]) :
          /\ seen' = [seen EXCEPT ![c] = ids]
          /\ disturbed' \in BOOLEAN
    BY <1>5 DEF ReadList
  <2>3. seen' \in [Proc -> SUBSET Group]
    BY <2>1, <2>2, ReadingsType DEF TypeInv, TypeOK
  <2>4. TypeOK'
    BY <1>5, <2>2, <2>3 DEF TypeInv, TypeOK, ReadList, Goto, registry, Steps, Proc
  <2>5. UnderWayOK'
    BY <1>5 DEF TypeInv, TypeOK, UnderWayOK, ReadList, Goto, registry, Writing, Proc
  <2> QED
    BY <2>4, <2>5 DEF TypeInv
<1>6. ASSUME NEW c \in Creation, WriteList(c) PROVE TypeInv'
  <2>1. home[c] \in Node /\ target[c] \in Group
    BY <1>6 DEF TypeInv, UnderWayOK, WriteList, Writing
  <2>2. PICK R \in Reaches(home[c]) :
          /\ list' = Kad!Store(list, seen[c] \cup {target[c]}, R)
          /\ disturbed' \in BOOLEAN
    BY <1>6 DEF WriteList, TypeInv, TypeOK
  <2>3. list' \in [Node -> (SUBSET Group) \cup {NoList}]
    BY <2>1, <2>2 DEF TypeInv, TypeOK, Kad!Store, Proc
  <2>4. TypeOK'
    BY <1>6, <2>1, <2>2, <2>3 DEF TypeInv, TypeOK, WriteList, Goto, Steps, Final, Proc
  <2>5. UnderWayOK'
    BY <1>6 DEF TypeInv, TypeOK, UnderWayOK, WriteList, Goto, Writing, Proc
  <2> QED
    BY <2>4, <2>5 DEF TypeInv
<1>7. ASSUME NEW n \in Node, DiscoverRead(n) PROVE TypeInv'
  <2>0. PICK ids \in Readings(n) : seen' = [seen EXCEPT ![n] = ids]
    BY <1>7 DEF DiscoverRead
  <2>1. seen' \in [Proc -> SUBSET Group]
    BY <2>0, ReadingsType DEF TypeInv, TypeOK
  <2>2. TypeOK'
    BY <1>7, <2>1 DEF TypeInv, TypeOK, DiscoverRead, Goto, registry, history, Steps, Proc
  <2>3. UnderWayOK'
    BY <1>7 DEF TypeInv, TypeOK, UnderWayOK, DiscoverRead, Goto, registry, Writing, Proc
  <2> QED
    BY <2>2, <2>3 DEF TypeInv
<1>8. ASSUME NEW n \in Node, SkipKnown(n) \/ FetchUnknownFails(n) PROVE TypeInv'
  <2>1. TypeOK'
    BY <1>8 DEF TypeInv, TypeOK, SkipKnown, FetchUnknownFails, registry, history, Proc
  <2>2. UnderWayOK'
    BY <1>8 DEF TypeInv, UnderWayOK, SkipKnown, FetchUnknownFails, registry
  <2> QED
    BY <2>1, <2>2 DEF TypeInv
<1>9. ASSUME NEW n \in Node, FetchUnknown(n) PROVE TypeInv'
  <2>1. PICK g \in Group :
          /\ g \in seen[n]
          /\ seen' = [seen EXCEPT ![n] = @ \ {g}]
          /\ target' = [target EXCEPT ![n] = g]
    BY <1>9 DEF FetchUnknown, Held
  <2>2. TypeOK'
    BY <1>9, <2>1 DEF TypeInv, TypeOK, FetchUnknown, Goto, registry, history, Steps, Proc
  <2>3. UnderWayOK'
    BY <1>9, <2>1 DEF TypeInv, TypeOK, UnderWayOK, FetchUnknown, Goto, registry, Writing, Proc
  <2> QED
    BY <2>2, <2>3 DEF TypeInv
<1>10. ASSUME NEW n \in Node, Keep(n) PROVE TypeInv'
  <2>1. target[n] \in Group
    BY <1>10 DEF TypeInv, UnderWayOK, Keep
  <2>2. TypeOK'
    BY <1>10, <2>1 DEF TypeInv, TypeOK, Keep, Goto, registry, history, Steps, Proc
  <2>3. UnderWayOK'
    BY <1>10 DEF TypeInv, TypeOK, UnderWayOK, Keep, Goto, registry, Writing, Proc
  <2> QED
    BY <2>2, <2>3 DEF TypeInv
<1>11. ASSUME NEW n \in Node, Found(n) PROVE TypeInv'
  <2>1. TypeOK'
    BY <1>11 DEF TypeInv, TypeOK, Found, Goto, registry, history, Steps, Proc
  <2>2. UnderWayOK'
    BY <1>11 DEF TypeInv, TypeOK, UnderWayOK, Found, Goto, registry, Writing, Proc
  <2> QED
    BY <2>1, <2>2 DEF TypeInv
<1>12. ASSUME NEW n \in Node, NEW g \in Group, Occupy(n, g) PROVE TypeInv'
  <2>1. TypeOK'
    BY <1>12, ShardIndexInRange DEF TypeInv, TypeOK, Occupy, registry, handling, history
  <2>2. UnderWayOK'
    BY <1>12 DEF TypeInv, UnderWayOK, Occupy, registry, handling
  <2> QED
    BY <2>1, <2>2 DEF TypeInv
<1>13. ASSUME NEW n \in Node, Vacate(n) PROVE TypeInv'
  <2>1. TypeOK'
    BY <1>13 DEF TypeInv, TypeOK, Vacate, registry, handling, history
  <2>2. UnderWayOK'
    BY <1>13 DEF TypeInv, UnderWayOK, Vacate, registry, handling
  <2> QED
    BY <2>1, <2>2 DEF TypeInv
<1>14. ASSUME NEW n \in Node, Leave(n) PROVE TypeInv'
  <2>1. TypeOK'
    BY <1>14 DEF TypeInv, TypeOK, Leave, history, Steps, Final, NoList
  <2>2. UnderWayOK'
    BY <1>14 DEF TypeInv, TypeOK, UnderWayOK, Leave, Writing, Final, Proc
  <2> QED
    BY <2>1, <2>2 DEF TypeInv
<1>15. CASE UNCHANGED vars
  <2>1. TypeOK'
    BY <1>15 DEF TypeInv, TypeOK, vars, registry, handling, history
  <2>2. UnderWayOK'
    BY <1>15 DEF TypeInv, UnderWayOK, vars, registry, handling
  <2> QED
    BY <2>1, <2>2 DEF TypeInv
<1> QED
  BY <1>1, <1>2, <1>3, <1>4, <1>5, <1>6, <1>7, <1>8, <1>9, <1>10, <1>11, <1>12,
     <1>13, <1>14, <1>15 DEF Next, CreationStep, FindStep

\* The registry's variables keep their types.
THEOREM RegistryTypeCorrect == Spec => []TypeOK
<1>1. TypeInv => TypeOK
  BY DEF TypeInv
<1> QED
  BY <1>1, RegistryTypeInit, RegistryTypeNext, PTL DEF Spec
-----------------------------------------------------------------------------
(***************************************************************************)
(* Whatever is listed was stored: it has to be known of those who are      *)
(* about to list a group, and that writes reach somebody.                  *)
(***************************************************************************)
WritersStored ==
  \A c \in Creation : pc[c] \in {"readList", "writeList"} => reached[target[c]] # {}

StoredInv == TypeInv /\ WritersStored /\ ListedIsStored

\* A running node's writes reach at least the node itself.
LEMMA ReachesSomebody ==
  ASSUME TypeInv, NEW n \in Node \ gone, NEW R \in Reaches(n)
  PROVE  R # {}
BY DEF Reaches

\* Reads yield stored groups only.
LEMMA ReadingsStored ==
  ASSUME StoredInv, NEW n \in Node, NEW ids \in Readings(n), NEW g \in ids
  PROVE  reached[g] # {}
<1>1. PICK p \in Node : list[p] # NoList /\ g \in list[p]
  BY DEF Readings, Kad!Select
<1> QED
  BY <1>1 DEF StoredInv, ListedIsStored

LEMMA StoredInit == Init => StoredInv
<1> SUFFICES ASSUME Init PROVE StoredInv
  OBVIOUS
<1>1. WritersStored
  BY DEF Init, WritersStored, Proc
<1>2. ListedIsStored
  BY DEF Init, ListedIsStored, Proc, Kad!Empty
<1> QED
  BY <1>1, <1>2, RegistryTypeInit DEF StoredInv

LEMMA StoredNext == StoredInv /\ [Next]_vars => StoredInv'
<1> SUFFICES ASSUME StoredInv, [Next]_vars PROVE WritersStored' /\ ListedIsStored'
  BY RegistryTypeNext DEF StoredInv
<1> USE RegistryAssumption
<1>t. TypeInv
  BY DEF StoredInv
<1>k. ASSUME NEW g \in Group, reached[g] # {},
             reached' = reached \/ (\E h \in Group, R \in SUBSET Node :
                                      reached' = [reached EXCEPT ![h] = @ \cup R])
      PROVE  reached'[g] # {}
  BY <1>t, <1>k DEF TypeInv, TypeOK
<1>1. ASSUME NEW w \in Workload, Receive(w[1], w[2], w[3])
      PROVE  WritersStored' /\ ListedIsStored'
  <2>1. w[1] \in Creation
    OBVIOUS
  <2> QED
    BY <1>1, <1>t, <2>1 DEF StoredInv, WritersStored, ListedIsStored, TypeInv,
       TypeOK, Receive, Goto, registry, Proc
<1>2. ASSUME NEW c \in Creation, Cache(c) PROVE WritersStored' /\ ListedIsStored'
  BY <1>2, <1>t DEF StoredInv, WritersStored, ListedIsStored, TypeInv, TypeOK,
     Cache, Goto, registry, Proc
<1>3. ASSUME NEW c \in Creation, StoreGroup(c)
      PROVE  WritersStored' /\ ListedIsStored'
  <2>1. home[c] \in Node \ gone /\ target[c] \in Group
    BY <1>3, <1>t DEF TypeInv, UnderWayOK, StoreGroup, Writing
  <2>2. PICK R \in Reaches(home[c]) :
          reached' = [reached EXCEPT ![target[c]] = @ \cup R]
    BY <1>3 DEF StoreGroup
  <2>3. R # {} /\ R \in SUBSET Node
    BY <1>t, <2>1, ReachesSomebody, ReachesType DEF TypeInv
  <2>4. reached'[target[c]] # {}
    BY <1>t, <2>1, <2>2, <2>3 DEF TypeInv, TypeOK
  <2>5. \A g \in Group : reached[g] # {} => reached'[g] # {}
    BY <1>k, <2>1, <2>2, <2>3
  <2>6. WritersStored'
    <3> SUFFICES ASSUME NEW d \in Creation, pc'[d] \in {"readList", "writeList"}
                 PROVE  reached'[target'[d]] # {}
      BY DEF WritersStored
    <3>1. target' = target
      BY <1>3 DEF StoreGroup
    <3>2. CASE d = c
      BY <2>4, <3>1, <3>2
    <3>3. CASE d # c
      <4>1. pc[d] \in {"readList", "writeList"}
        BY <1>3, <1>t, <3>3 DEF StoreGroup, Goto, TypeInv, TypeOK, Proc
      <4>2. reached[target[d]] # {} /\ target[d] \in Group
        BY <4>1, <1>t DEF StoredInv, WritersStored, TypeInv, UnderWayOK, Writing
      <4> QED
        BY <4>2, <2>5, <3>1
    <3> QED
      BY <3>2, <3>3
  <2>7. ListedIsStored'
    BY <1>3, <1>t, <2>5 DEF StoredInv, ListedIsStored, StoreGroup, TypeInv, TypeOK
  <2> QED
    BY <2>6, <2>7
<1>4. ASSUME NEW c \in Creation, StoreGroupFails(c)
      PROVE  WritersStored' /\ ListedIsStored'
  <2>1. home[c] \in Node /\ target[c] \in Group
    BY <1>4, <1>t DEF TypeInv, UnderWayOK, StoreGroupFails, Writing
  <2>2. \A g \in Group : reached[g] # {} => reached'[g] # {}
    BY <1>4, <2>1, <1>t DEF StoreGroupFails, TypeInv, TypeOK
  <2>3. WritersStored'
    <3> SUFFICES ASSUME NEW d \in Creation, pc'[d] \in {"readList", "writeList"}
                 PROVE  reached'[target'[d]] # {}
      BY DEF WritersStored
    <3>1. target' = target /\ pc[d] \in {"readList", "writeList"}
      BY <1>4, <1>t DEF StoreGroupFails, Goto, TypeInv, TypeOK, Proc
    <3>2. reached[target[d]] # {} /\ target[d] \in Group
      BY <3>1, <1>t DEF StoredInv, WritersStored, TypeInv, UnderWayOK, Writing
    <3> QED
      BY <3>1, <3>2, <2>2
  <2>4. ListedIsStored'
    BY <1>4, <1>t, <2>2 DEF StoredInv, ListedIsStored, StoreGroupFails, TypeInv, TypeOK
  <2> QED
    BY <2>3, <2>4
<1>5. ASSUME NEW c \in Creation, ReadList(c)
      PROVE  WritersStored' /\ ListedIsStored'
  <2>1. home[c] \in Node
    BY <1>5, <1>t DEF TypeInv, UnderWayOK, ReadList, Writing
  <2>2. PICK ids \in Readings(home[c]) : seen' = [seen EXCEPT ![c] = ids]
    BY <1>5 DEF ReadList
  <2>3. \A g \in ids : reached[g] # {}
    BY <2>1, <2>2, ReadingsStored
  <2>4. WritersStored'
    BY <1>5, <1>t DEF StoredInv, WritersStored, TypeInv, TypeOK, ReadList, Goto,
       registry, Proc
  <2>5. ListedIsStored'
    BY <1>5, <1>t, <2>2, <2>3 DEF StoredInv, ListedIsStored, TypeInv, TypeOK,
       ReadList, registry, Proc
  <2> QED
    BY <2>4, <2>5
<1>6. ASSUME NEW c \in Creation, WriteList(c)
      PROVE  WritersStored' /\ ListedIsStored'
  <2>1. home[c] \in Node /\ target[c] \in Group /\ reached[target[c]] # {}
    BY <1>6, <1>t DEF StoredInv, WritersStored, TypeInv, UnderWayOK, WriteList, Writing
  <2>2. PICK R \in Reaches(home[c]) :
          list' = Kad!Store(list, seen[c] \cup {target[c]}, R)
    BY <1>6 DEF WriteList
  <2>3. \A g \in seen[c] \cup {target[c]} : reached[g] # {}
    BY <2>1 DEF StoredInv, ListedIsStored, Proc
  <2>4. WritersStored'
    BY <1>6, <1>t DEF StoredInv, WritersStored, TypeInv, TypeOK, WriteList, Goto, Proc
  <2>5. \A n \in Node : list'[n] # NoList => \A g \in list'[n] : reached'[g] # {}
    BY <1>6, <2>2, <2>3 DEF StoredInv, ListedIsStored, WriteList, Kad!Store
  <2>6. \A p \in Proc : \A g \in seen'[p] : reached'[g] # {}
    BY <1>6, <1>t DEF StoredInv, ListedIsStored, WriteList, TypeInv, TypeOK, Proc
  <2> QED
    BY <2>4, <2>5, <2>6 DEF ListedIsStored
<1>7. ASSUME NEW n \in Node, DiscoverRead(n)
      PROVE  WritersStored' /\ ListedIsStored'
  <2>1. PICK ids \in Readings(n) : seen' = [seen EXCEPT ![n] = ids]
    BY <1>7 DEF DiscoverRead
  <2>2. \A g \in ids : reached[g] # {}
    BY ReadingsStored
  <2>3. WritersStored'
    BY <1>7, <1>t DEF StoredInv, WritersStored, TypeInv, TypeOK, DiscoverRead, Goto,
       registry, Proc
  <2>4. ListedIsStored'
    BY <1>7, <1>t, <2>1, <2>2 DEF StoredInv, ListedIsStored, TypeInv, TypeOK,
       DiscoverRead, registry, Proc
  <2> QED
    BY <2>3, <2>4
<1>8. ASSUME NEW n \in Node, FindStep(n) \/ Found(n)
      PROVE  WritersStored' /\ ListedIsStored'
  <2>1. /\ UNCHANGED <<reached, list>>
        /\ \A p \in Proc : seen'[p] \subseteq seen[p]
        /\ \A c \in Creation : pc'[c] = pc[c] /\ target'[c] = target[c]
    <3>1. CASE SkipKnown(n)
      BY <3>1, <1>t DEF SkipKnown, TypeInv, TypeOK, registry, Proc
    <3>2. CASE FetchUnknown(n)
      BY <3>2, <1>t DEF FetchUnknown, Goto, TypeInv, TypeOK, registry, Proc
    <3>3. CASE FetchUnknownFails(n)
      BY <3>3, <1>t DEF FetchUnknownFails, TypeInv, TypeOK, registry, Proc
    <3>4. CASE Keep(n)
      BY <3>4, <1>t DEF Keep, Goto, TypeInv, TypeOK, registry, Proc
    <3>5. CASE Found(n)
      BY <3>5, <1>t DEF Found, Goto, TypeInv, TypeOK, registry, Proc
    <3> QED
      BY <1>8, <3>1, <3>2, <3>3, <3>4, <3>5 DEF FindStep
  <2> QED
    BY <2>1 DEF StoredInv, WritersStored, ListedIsStored
<1>9. ASSUME NEW n \in Node, Vacate(n) \/ \E g \in Group : Occupy(n, g)
      PROVE  WritersStored' /\ ListedIsStored'
  BY <1>9 DEF StoredInv, WritersStored, ListedIsStored, Vacate, Occupy, registry, handling
<1>10. ASSUME NEW n \in Node, Leave(n)
       PROVE  WritersStored' /\ ListedIsStored'
  BY <1>10, <1>t DEF StoredInv, WritersStored, ListedIsStored, Leave, TypeInv,
     TypeOK, Final, Proc
<1>11. CASE UNCHANGED vars
  BY <1>11 DEF StoredInv, WritersStored, ListedIsStored, vars, registry, handling
<1> QED
  BY <1>1, <1>2, <1>3, <1>4, <1>5, <1>6, <1>7, <1>8, <1>9, <1>10, <1>11
     DEF Next, CreationStep

\* Whatever a copy of the list, or a process that has read one, names was
\* stored before (CreateGroup registers last).
THEOREM RegistryListsStored == Spec => []ListedIsStored
<1>1. StoredInv => ListedIsStored
  BY DEF StoredInv
<1> QED
  BY <1>1, StoredInit, StoredNext, PTL DEF Spec
-----------------------------------------------------------------------------
(***************************************************************************)
(* Without trouble registrations come one after another, and whoever is    *)
(* about to write has read all that is registered.                         *)
(***************************************************************************)
OneWriter ==
  \A c, d \in Creation : pc[c] = "writeList" /\ pc[d] = "writeList" => c = d

WritersKnow == \A c \in Creation : pc[c] = "writeList" => registered \subseteq seen[c]

GoneUnlisted == \A n \in gone : list[n] = NoList

CalmInv ==
  /\ TypeInv
  /\ GoneUnlisted
  /\ OnlyTroubleUnlists
  /\ ~ disturbed => OneWriter /\ WritersKnow

LEMMA CalmInit == Init => CalmInv
<1> SUFFICES ASSUME Init PROVE CalmInv
  OBVIOUS
<1>1. TypeInv
  BY RegistryTypeInit
<1>2. GoneUnlisted /\ OnlyTroubleUnlists /\ OneWriter /\ WritersKnow
  BY DEF Init, GoneUnlisted, OnlyTroubleUnlists, OneWriter, WritersKnow, Proc
<1> QED
  BY <1>1, <1>2 DEF CalmInv

\* Without trouble, a read yields everything that is registered.
LEMMA CalmReading ==
  ASSUME CalmInv, ~ disturbed, NEW n \in Node \ gone,
         NEW ids \in Readings(n), ~ Blind(n, ids)
  PROVE  registered \subseteq ids
<1>1. CASE \E p \in Node : ids = list[p] /\ list[p] # NoList
  <2>1. PICK p \in Node : ids = list[p] /\ list[p] # NoList
    BY <1>1
  <2>2. p \notin gone
    BY <2>1 DEF CalmInv, GoneUnlisted
  <2> QED
    BY <2>1, <2>2 DEF CalmInv, OnlyTroubleUnlists
<1>2. CASE ~ \E p \in Node : ids = list[p] /\ list[p] # NoList
  <2>1. ids = {} /\ Kad!Select(list) = {}
    BY <1>2 DEF Readings, Blind, Kad!Select
  <2>2. list[n] = NoList
    BY <2>1 DEF Kad!Select
  <2> QED
    BY <2>2 DEF CalmInv, OnlyTroubleUnlists
<1> QED
  BY <1>1, <1>2

LEMMA CalmNext == CalmInv /\ [Next]_vars => CalmInv'
<1> SUFFICES ASSUME CalmInv, [Next]_vars
             PROVE  /\ GoneUnlisted' /\ OnlyTroubleUnlists'
                    /\ ~ disturbed' => OneWriter' /\ WritersKnow'
  BY RegistryTypeNext DEF CalmInv
<1> USE RegistryAssumption
<1>t. TypeInv
  BY DEF CalmInv
\* Steps that leave the lists and the writers alone.
<1>q. ASSUME UNCHANGED <<list, gone, registered, disturbed>>,
             \A c \in Creation : pc'[c] = "writeList" => pc[c] = "writeList",
             \A c \in Creation : seen'[c] = seen[c]
      PROVE  /\ GoneUnlisted' /\ OnlyTroubleUnlists'
             /\ ~ disturbed' => OneWriter' /\ WritersKnow'
  BY <1>q DEF CalmInv, GoneUnlisted, OnlyTroubleUnlists, OneWriter, WritersKnow
<1>1. ASSUME NEW w \in Workload, Receive(w[1], w[2], w[3])
      PROVE  /\ GoneUnlisted' /\ OnlyTroubleUnlists'
             /\ ~ disturbed' => OneWriter' /\ WritersKnow'
  <2>1. \A c \in Creation : pc'[c] = "writeList" => pc[c] = "writeList"
    BY <1>1, <1>t DEF Receive, Goto, TypeInv, TypeOK, Proc
  <2> QED
    BY <1>1, <2>1, <1>q DEF Receive, registry, history
<1>2. ASSUME NEW c \in Creation, Cache(c) \/ StoreGroup(c) \/ StoreGroupFails(c)
      PROVE  /\ GoneUnlisted' /\ OnlyTroubleUnlists'
             /\ ~ disturbed' => OneWriter' /\ WritersKnow'
  <2>1. \A d \in Creation : pc'[d] = "writeList" => pc[d] = "writeList"
    BY <1>2, <1>t DEF Cache, StoreGroup, StoreGroupFails, Goto, TypeInv, TypeOK, Proc
  <2>2. UNCHANGED <<list, gone, registered, disturbed, seen>>
    BY <1>2 DEF Cache, StoreGroup, StoreGroupFails, registry, history
  <2> QED
    BY <2>1, <2>2, <1>q
<1>3. ASSUME NEW c \in Creation, ReadList(c)
      PROVE  /\ GoneUnlisted' /\ OnlyTroubleUnlists'
             /\ ~ disturbed' => OneWriter' /\ WritersKnow'
  <2>1. home[c] \in Node \ gone
    BY <1>3, <1>t DEF TypeInv, UnderWayOK, ReadList, Writing
  <2>2. PICK ids \in Readings(home[c]) :
          /\ seen' = [seen EXCEPT ![c] = ids]
          /\ disturbed' = (\/ disturbed \/ Blind(home[c], ids)
                           \/ \E d \in Creation : pc[d] = "writeList")
    BY <1>3 DEF ReadList
  <2>3. UNCHANGED <<list, gone, registered>>
    BY <1>3 DEF ReadList, registry
  <2>4. GoneUnlisted' /\ OnlyTroubleUnlists'
    BY <2>2, <2>3 DEF CalmInv, GoneUnlisted, OnlyTroubleUnlists
  <2>5. ASSUME ~ disturbed' PROVE OneWriter' /\ WritersKnow'
    <3>1. ~ disturbed /\ ~ Blind(home[c], ids)
      BY <2>2, <2>5
    <3>2. \A d \in Creation : pc[d] # "writeList"
      BY <2>2, <2>5
    <3>3. \A d \in Creation : pc'[d] = "writeList" => d = c
      BY <1>3, <3>2, <1>t DEF ReadList, Goto, TypeInv, TypeOK, Proc
    <3>4. registered \subseteq ids
      BY <2>1, <2>2, <3>1, CalmReading
    <3>5. seen'[c] = ids
      BY <2>2, <1>t DEF TypeInv, TypeOK, Proc
    <3> QED
      BY <3>3, <3>4, <3>5, <2>3 DEF OneWriter, WritersKnow
  <2> QED
    BY <2>4, <2>5
<1>4. ASSUME NEW c \in Creation, WriteList(c)
      PROVE  /\ GoneUnlisted' /\ OnlyTroubleUnlists'
             /\ ~ disturbed' => OneWriter' /\ WritersKnow'
  <2>1. home[c] \in Node /\ target[c] \in Group /\ seen[c] \subseteq Group
    BY <1>4, <1>t DEF TypeInv, TypeOK, UnderWayOK, WriteList, Writing, Proc
  <2>2. PICK R \in Reaches(home[c]) :
          /\ list' = Kad!Store(list, seen[c] \cup {target[c]}, R)
          /\ disturbed' = (disturbed \/ R # Node \ gone)
    BY <1>4 DEF WriteList
  <2>3. UNCHANGED gone /\ registered' = registered \cup {target[c]}
    BY <1>4 DEF WriteList
  <2>4. GoneUnlisted'
    <3>1. R \cap gone = {}
      BY <2>2 DEF Reaches
    <3> QED
      BY <2>2, <2>3, <3>1, <1>t DEF CalmInv, GoneUnlisted, Kad!Store, TypeInv, TypeOK
  <2>5. ASSUME ~ disturbed'
        PROVE  /\ \A n \in Node \ gone, g \in registered' :
                    list'[n] # NoList /\ g \in list'[n]
               /\ OneWriter' /\ WritersKnow'
    <3>1. ~ disturbed /\ R = Node \ gone
      BY <2>2, <2>5
    <3>2. registered \subseteq seen[c] /\ \A d \in Creation : pc[d] = "writeList" => d = c
      BY <3>1, <1>4 DEF CalmInv, OneWriter, WritersKnow, WriteList
    <3>3. \A n \in Node \ gone : list'[n] = seen[c] \cup {target[c]}
      BY <2>2, <3>1 DEF Kad!Store
    <3>4. seen[c] \cup {target[c]} # NoList
      BY <2>1 DEF NoList
    <3>5. \A d \in Creation : pc'[d] # "writeList"
      BY <1>4, <3>2, <1>t DEF WriteList, Goto, TypeInv, TypeOK, Proc
    <3> QED
      BY <2>3, <3>2, <3>3, <3>4, <3>5 DEF OneWriter, WritersKnow
  <2> QED
    BY <2>3, <2>4, <2>5 DEF OnlyTroubleUnlists
<1>5. ASSUME NEW n \in Node, DiscoverRead(n) \/ FindStep(n) \/ Found(n)
      PROVE  /\ GoneUnlisted' /\ OnlyTroubleUnlists'
             /\ ~ disturbed' => OneWriter' /\ WritersKnow'
  <2>1. /\ UNCHANGED <<list, gone, registered, disturbed>>
        /\ \A c \in Creation : pc'[c] = pc[c] /\ seen'[c] = seen[c]
    <3>1. CASE DiscoverRead(n)
      BY <3>1, <1>t DEF DiscoverRead, Goto, TypeInv, TypeOK, registry, history, Proc
    <3>2. CASE SkipKnown(n)
      BY <3>2, <1>t DEF SkipKnown, TypeInv, TypeOK, registry, history, Proc
    <3>3. CASE FetchUnknown(n)
      BY <3>3, <1>t DEF FetchUnknown, Goto, TypeInv, TypeOK, registry, history, Proc
    <3>4. CASE FetchUnknownFails(n)
      BY <3>4, <1>t DEF FetchUnknownFails, TypeInv, TypeOK, registry, history, Proc
    <3>5. CASE Keep(n)
      BY <3>5, <1>t DEF Keep, Goto, TypeInv, TypeOK, registry, history, Proc
    <3>6. CASE Found(n)
      BY <3>6, <1>t DEF Found, Goto, TypeInv, TypeOK, registry, history, Proc
    <3> QED
      BY <1>5, <3>1, <3>2, <3>3, <3>4, <3>5, <3>6 DEF FindStep
  <2> QED
    BY <2>1, <1>q
<1>6. ASSUME NEW n \in Node, Vacate(n) \/ \E g \in Group : Occupy(n, g)
      PROVE  /\ GoneUnlisted' /\ OnlyTroubleUnlists'
             /\ ~ disturbed' => OneWriter' /\ WritersKnow'
  BY <1>6, <1>q DEF Vacate, Occupy, registry, handling, history
<1>7. ASSUME NEW n \in Node, Leave(n)
      PROVE  /\ GoneUnlisted' /\ OnlyTroubleUnlists'
             /\ ~ disturbed' => OneWriter' /\ WritersKnow'
  <2>1. UNCHANGED <<registered, disturbed>> /\ gone' = gone \cup {n}
        /\ list' = [list EXCEPT ![n] = NoList]
    BY <1>7 DEF Leave, history
  <2>2. \A c \in Creation : pc'[c] = "writeList" =>
          pc[c] = "writeList" /\ seen'[c] = seen[c]
    BY <1>7, <1>t DEF Leave, TypeInv, TypeOK, Proc
  <2>3. GoneUnlisted' /\ OnlyTroubleUnlists'
    BY <2>1, <1>t DEF CalmInv, GoneUnlisted, OnlyTroubleUnlists, TypeInv, TypeOK
  <2>4. ~ disturbed' => OneWriter' /\ WritersKnow'
    BY <2>1, <2>2 DEF CalmInv, OneWriter, WritersKnow
  <2> QED
    BY <2>3, <2>4
<1>8. CASE UNCHANGED vars
  BY <1>8, <1>q DEF vars, registry, handling, history
<1> QED
  BY <1>1, <1>2, <1>3, <1>4, <1>5, <1>6, <1>7, <1>8 DEF Next, CreationStep

\* As long as registrations do not overlap and the DHT does its work, no
\* registered group leaves any running peer's copy of the list
\* (registerGroupInRegistry).
THEOREM RegistryUnlistsByTrouble == Spec => []OnlyTroubleUnlists
<1>1. CalmInv => OnlyTroubleUnlists
  BY DEF CalmInv
<1> QED
  BY <1>1, CalmInit, CalmNext, PTL DEF Spec

-----------------------------------------------------------------------------
\* The loops and the processes of the nodes.
\* The steps of the loop proper leave the registry alone.
LEMMA LoopStepIsRegistryStep == [LoopNext]_loopVars => [Next]_vars
<1> SUFFICES ASSUME [LoopNext]_loopVars PROVE [Next]_vars
  OBVIOUS
<1>1. CASE Request
  BY <1>1 DEF Request, Next
<1>2. ASSUME NEW n \in Node, Loop(n) PROVE [Next]_vars
  <2>1. CASE Discover(n) \/ Discovered(n)
    BY <2>1 DEF Discover, Discovered, Next
  <2>2. CASE \/ ListShard(n) \/ StartWorkers(n) \/ WorkerReturns(n)
             \/ RoundEnds(n) \/ Tick(n) \/ \E g \in Group : WorkerStep(n, g)
    BY <2>2 DEF ListShard, StartWorkers, WorkerReturns, RoundEnds, Tick,
       WorkerStep, Take, Fetch, FetchFails, Merge
  <2> QED
    BY <1>2, <2>1, <2>2 DEF Loop
<1>3. ASSUME NEW n \in Node, Life(n) PROVE [Next]_vars
  BY <1>3 DEF Life, Serve, SignalKills, Signal, Shutdown, ShutdownTimesOut, Next
<1>4. CASE UNCHANGED loopVars
  BY <1>4 DEF loopVars
<1> QED
  BY <1>1, <1>2, <1>3, <1>4 DEF LoopNext

\* Loops and processes do nothing to the registry, the caches and the
\* requests that GroupRegistry does not allow.
THEOREM LoopImplementsRegistry == LoopSpec => ImplementsRegistry
<1>1. LoopInit => Init
  BY DEF LoopInit
<1> QED
  BY <1>1, LoopStepIsRegistryStep, PTL DEF LoopSpec, ImplementsRegistry, Spec

\* So whatever is listed was stored, while nodes loop and stop ...
THEOREM LoopListsStored == LoopSpec => []ListedIsStored
BY LoopImplementsRegistry, RegistryListsStored DEF ImplementsRegistry

\* ... and only trouble unlists.
THEOREM LoopUnlistsByTrouble == LoopSpec => []OnlyTroubleUnlists
BY LoopImplementsRegistry, RegistryUnlistsByTrouble DEF ImplementsRegistry

-----------------------------------------------------------------------------
\* Types, with what TypeInv adds about requests under way.
LoopTypeInv == TypeInv /\ LoopTypeOK

LEMMA LoopTypeInit == LoopInit => LoopTypeInv
<1> SUFFICES ASSUME LoopInit PROVE LoopTypeInv
  OBVIOUS
<1>1. TypeInv
  BY RegistryTypeInit DEF LoopInit
<1>2. LoopTypeOK
  BY <1>1, RegistryAssumption, LoopAssumption DEF TypeInv, LoopInit, LoopTypeOK
<1> QED
  BY <1>1, <1>2 DEF LoopTypeInv

\* A round's bookkeeping: outside of the pool nobody holds a group; inside,
\* nobody holds more than one, and none returns while groups wait.
PoolOK(n) ==
  /\ IsFiniteSet(fetching[n]) /\ IsFiniteSet(merging[n])
  /\ phase[n] # "sync" => fetching[n] = {} /\ merging[n] = {}
  /\ phase[n] \in {"rest", "discover"} => jobs[n] = {}
  /\ phase[n] = "sync" =>
       /\ Cardinality(fetching[n]) + Cardinality(merging[n]) <= workers[n]
       /\ workers[n] < NumWorkers => jobs[n] = {}

RoundInv == \A n \in Node : PoolOK(n)

LEMMA LoopTypeNext == LoopTypeInv /\ RoundInv /\ [LoopNext]_loopVars => LoopTypeInv'
<1> SUFFICES ASSUME LoopTypeInv, RoundInv, [LoopNext]_loopVars PROVE LoopTypeInv'
  OBVIOUS
<1> USE RegistryAssumption, LoopAssumption
<1>t. TypeInv' /\ TypeOK'
  BY LoopStepIsRegistryStep, RegistryTypeNext DEF LoopTypeInv, TypeInv
<1> SUFFICES LoopTypeOK'
  BY <1>t DEF LoopTypeInv
<1>1. CASE Request
  BY <1>1, <1>t DEF LoopTypeInv, LoopTypeOK, Request, round
<1>2. ASSUME NEW n \in Node, Loop(n) PROVE LoopTypeOK'
  <2>1. CASE Discover(n)
    BY <2>1, <1>t DEF LoopTypeInv, LoopTypeOK, Discover, round
  <2>2. CASE Discovered(n)
    BY <2>2, <1>t DEF LoopTypeInv, LoopTypeOK, Discovered
  <2>3. CASE ListShard(n)
    <3>1. shard[n] + 1 \in 0 .. NumShards
      BY <2>3 DEF LoopTypeInv, LoopTypeOK, ListShard
    <3>2. cached[n] \subseteq Group
      BY DEF LoopTypeInv, TypeInv, TypeOK
    <3>3. jobs' \in [Node -> SUBSET Group] /\ shard' \in [Node -> 0 .. NumShards]
      BY <2>3, <3>1, <3>2 DEF LoopTypeInv, LoopTypeOK, ListShard
    <3> QED
      BY <2>3, <3>3, <1>t DEF LoopTypeInv, LoopTypeOK, ListShard
  <2>4. CASE StartWorkers(n)
    BY <2>4, <1>t DEF LoopTypeInv, LoopTypeOK, StartWorkers
  <2>5. ASSUME NEW g \in Group, WorkerStep(n, g) PROVE LoopTypeOK'
    BY <2>5, <1>t DEF LoopTypeInv, LoopTypeOK, WorkerStep, Take, Fetch, FetchFails, Merge
  <2>6. CASE WorkerReturns(n)
    <3>1. Cardinality(fetching[n]) + Cardinality(merging[n]) < workers[n]
      BY <2>6 DEF WorkerReturns, Idle
    <3>2. Cardinality(fetching[n]) \in Nat /\ Cardinality(merging[n]) \in Nat
      BY FS_CardinalityType DEF RoundInv, PoolOK
    <3>3. workers[n] \in 0 .. NumWorkers
      BY DEF LoopTypeInv, LoopTypeOK
    <3>4. workers[n] - 1 \in 0 .. NumWorkers
      BY <3>1, <3>2, <3>3
    <3> QED
      BY <2>6, <3>4, <1>t DEF LoopTypeInv, LoopTypeOK, WorkerReturns
  <2>7. CASE RoundEnds(n) \/ Tick(n)
    BY <2>7, <1>t DEF LoopTypeInv, LoopTypeOK, RoundEnds, Tick
  <2> QED
    BY <1>2, <2>1, <2>2, <2>3, <2>4, <2>5, <2>6, <2>7 DEF Loop
<1>3. ASSUME NEW n \in Node, Life(n) PROVE LoopTypeOK'
  BY <1>3, <1>t DEF LoopTypeInv, LoopTypeOK, Life, Serve, SignalKills, Signal,
     Shutdown, ShutdownTimesOut, round
<1>4. CASE UNCHANGED loopVars
  BY <1>4, <1>t DEF LoopTypeInv, LoopTypeOK, loopVars, round
<1> QED
  BY <1>1, <1>2, <1>3, <1>4 DEF LoopNext
LEMMA RoundInit == LoopInit => RoundInv
BY FS_EmptySet DEF LoopInit, RoundInv, PoolOK

\* The size of a set with one element more or less.
LEMMA OneMore ==
  ASSUME NEW S, IsFiniteSet(S), NEW g
  PROVE  /\ IsFiniteSet(S \cup {g})
         /\ Cardinality(S) \in Nat /\ Cardinality(S \cup {g}) \in Nat
         /\ Cardinality(S \cup {g}) <= Cardinality(S) + 1
<1>1. Cardinality(S) \in Nat
  BY FS_CardinalityType
<1>2. /\ IsFiniteSet(S \cup {g})
      /\ Cardinality(S \cup {g}) = IF g \in S THEN Cardinality(S) ELSE Cardinality(S) + 1
  BY FS_AddElement
<1> QED
  BY <1>1, <1>2

LEMMA OneLess ==
  ASSUME NEW S, IsFiniteSet(S), NEW g \in S
  PROVE  /\ IsFiniteSet(S \ {g})
         /\ Cardinality(S) \in Nat
         /\ Cardinality(S \ {g}) = Cardinality(S) - 1
<1>1. Cardinality(S) \in Nat
  BY FS_CardinalityType
<1>2. /\ IsFiniteSet(S \ {g})
      /\ Cardinality(S \ {g}) = IF g \in S THEN Cardinality(S) - 1 ELSE Cardinality(S)
  BY FS_RemoveElement
<1> QED
  BY <1>1, <1>2

LEMMA RoundNext == LoopTypeInv /\ RoundInv /\ [LoopNext]_loopVars => RoundInv'
<1> SUFFICES ASSUME LoopTypeInv, RoundInv, [LoopNext]_loopVars PROVE RoundInv'
  OBVIOUS
<1> USE LoopAssumption
\* Most steps leave the rounds of all nodes alone ...
<1>u. ASSUME UNCHANGED round PROVE RoundInv'
  BY <1>u DEF RoundInv, PoolOK, round
\* ... and the others those of all nodes but one.
<1>o. ASSUME NEW n \in Node, PoolOK(n)',
             \A m \in Node \ {n} :
               /\ phase'[m] = phase[m] /\ jobs'[m] = jobs[m]
               /\ fetching'[m] = fetching[m] /\ merging'[m] = merging[m]
               /\ workers'[m] = workers[m]
      PROVE  RoundInv'
  BY <1>o DEF RoundInv, PoolOK
<1>t. /\ phase \in [Node -> {"discover", "list", "sync", "rest"}]
      /\ jobs \in [Node -> SUBSET Group]
      /\ fetching \in [Node -> SUBSET Group]
      /\ merging \in [Node -> SUBSET Group]
      /\ workers \in [Node -> 0 .. NumWorkers]
  BY DEF LoopTypeInv, LoopTypeOK
<1>1. CASE Request
  BY <1>1, <1>u DEF Request
<1>2. ASSUME NEW n \in Node, Life(n) PROVE RoundInv'
  BY <1>2, <1>u DEF Life, Serve, SignalKills, Signal, Shutdown, ShutdownTimesOut
<1>3. ASSUME NEW n \in Node, Loop(n) PROVE RoundInv'
  <2>p. PoolOK(n)
    BY DEF RoundInv
  <2>w. workers[n] \in Nat
    BY <1>t
  <2>c. Cardinality(fetching[n]) \in Nat /\ Cardinality(merging[n]) \in Nat
    BY <2>p, FS_CardinalityType DEF PoolOK
  <2>1. CASE Discover(n)
    BY <2>1, <1>u DEF Discover
  <2>2. CASE Discovered(n)
    <3>1. PoolOK(n)'
      BY <2>2, <2>p, <1>t DEF Discovered, Runs, PoolOK
    <3> QED
      BY <3>1, <2>2, <1>o, <1>t DEF Discovered
  <2>3. CASE ListShard(n)
    <3>1. PoolOK(n)'
      BY <2>3, <2>p, <1>t DEF ListShard, Runs, PoolOK
    <3> QED
      BY <3>1, <2>3, <1>o, <1>t DEF ListShard
  <2>4. CASE StartWorkers(n)
    <3>1. fetching[n] = {} /\ merging[n] = {}
      BY <2>4, <2>p DEF StartWorkers, Runs, PoolOK
    <3>2. PoolOK(n)'
      BY <2>4, <2>p, <1>t, <3>1, FS_EmptySet DEF StartWorkers, PoolOK
    <3> QED
      BY <3>2, <2>4, <1>o, <1>t DEF StartWorkers
  <2>5. ASSUME NEW g \in Group, Take(n, g) PROVE RoundInv'
    <3>1. /\ phase[n] = "sync" /\ phase' = phase /\ workers' = workers
          /\ Cardinality(fetching[n]) + Cardinality(merging[n]) < workers[n]
          /\ jobs'[n] = jobs[n] \ {g}
          /\ fetching'[n] = fetching[n] \cup {g} /\ merging'[n] = merging[n]
      BY <2>5, <1>t DEF Take, Runs, Idle
    <3>f. /\ IsFiniteSet(fetching[n] \cup {g}) /\ Cardinality(fetching[n] \cup {g}) \in Nat
          /\ Cardinality(fetching[n] \cup {g}) <= Cardinality(fetching[n]) + 1
      BY <2>p, OneMore DEF PoolOK
    <3>2. /\ IsFiniteSet(fetching'[n])
          /\ Cardinality(fetching'[n]) + Cardinality(merging'[n]) <= workers'[n]
      BY <3>1, <3>f, <2>p, <2>w, <2>c DEF PoolOK
    <3>3. PoolOK(n)'
      BY <3>1, <3>2, <2>p DEF PoolOK
    <3> QED
      BY <3>3, <2>5, <1>o, <1>t DEF Take
  <2>6. ASSUME NEW g \in Group, Fetch(n, g) PROVE RoundInv'
    <3>1. /\ phase[n] = "sync" /\ phase' = phase /\ workers' = workers /\ jobs' = jobs
          /\ g \in fetching[n]
          /\ fetching'[n] = fetching[n] \ {g} /\ merging'[n] = merging[n] \cup {g}
      BY <2>6, <1>t DEF Fetch, Runs
    <3>f. /\ IsFiniteSet(fetching[n] \ {g})
          /\ Cardinality(fetching[n] \ {g}) = Cardinality(fetching[n]) - 1
          /\ IsFiniteSet(merging[n] \cup {g}) /\ Cardinality(merging[n] \cup {g}) \in Nat
          /\ Cardinality(merging[n] \cup {g}) <= Cardinality(merging[n]) + 1
      BY <3>1, <2>p, OneMore, OneLess DEF PoolOK
    <3>2. /\ IsFiniteSet(fetching'[n]) /\ IsFiniteSet(merging'[n])
          /\ Cardinality(fetching'[n]) + Cardinality(merging'[n]) <= workers'[n]
      BY <3>1, <3>f, <2>p, <2>w, <2>c DEF PoolOK
    <3>3. PoolOK(n)'
      BY <3>1, <3>2, <2>p DEF PoolOK
    <3> QED
      BY <3>3, <2>6, <1>o, <1>t DEF Fetch
  <2>7. ASSUME NEW g \in Group, FetchFails(n, g) PROVE RoundInv'
    <3>1. /\ phase[n] = "sync" /\ phase' = phase /\ workers' = workers /\ jobs' = jobs
          /\ g \in fetching[n]
          /\ fetching'[n] = fetching[n] \ {g} /\ merging'[n] = merging[n]
      BY <2>7, <1>t DEF FetchFails, Runs
    <3>f. /\ IsFiniteSet(fetching[n] \ {g})
          /\ Cardinality(fetching[n] \ {g}) = Cardinality(fetching[n]) - 1
      BY <3>1, <2>p, OneLess DEF PoolOK
    <3>2. /\ IsFiniteSet(fetching'[n])
          /\ Cardinality(fetching'[n]) + Cardinality(merging'[n]) <= workers'[n]
      BY <3>1, <3>f, <2>p, <2>w, <2>c DEF PoolOK
    <3>3. PoolOK(n)'
      BY <3>1, <3>2, <2>p DEF PoolOK
    <3> QED
      BY <3>3, <2>7, <1>o, <1>t DEF FetchFails
  <2>8. ASSUME NEW g \in Group, Merge(n, g) PROVE RoundInv'
    <3>1. /\ phase[n] = "sync" /\ phase' = phase /\ workers' = workers /\ jobs' = jobs
          /\ g \in merging[n]
          /\ merging'[n] = merging[n] \ {g} /\ fetching'[n] = fetching[n]
      BY <2>8, <1>t DEF Merge, Runs
    <3>f. /\ IsFiniteSet(merging[n] \ {g})
          /\ Cardinality(merging[n] \ {g}) = Cardinality(merging[n]) - 1
      BY <3>1, <2>p, OneLess DEF PoolOK
    <3>2. /\ IsFiniteSet(merging'[n])
          /\ Cardinality(fetching'[n]) + Cardinality(merging'[n]) <= workers'[n]
      BY <3>1, <3>f, <2>p, <2>w, <2>c DEF PoolOK
    <3>3. PoolOK(n)'
      BY <3>1, <3>2, <2>p DEF PoolOK
    <3> QED
      BY <3>3, <2>8, <1>o, <1>t DEF Merge
  <2>9. CASE WorkerReturns(n)
    <3>1. PoolOK(n)'
      BY <2>9, <2>p, <2>w, <2>c, <1>t DEF WorkerReturns, Runs, Idle, PoolOK
    <3> QED
      BY <3>1, <2>9, <1>o, <1>t DEF WorkerReturns
  <2>10. CASE RoundEnds(n)
    <3>1. jobs[n] = {}
      BY <2>10, <2>p DEF RoundEnds, Runs, PoolOK
    <3>2. Cardinality(fetching[n]) = 0 /\ Cardinality(merging[n]) = 0
      BY <2>10, <2>p, <2>c DEF RoundEnds, Runs, PoolOK
    <3>3. fetching[n] = {} /\ merging[n] = {}
      BY <3>2, <2>p, FS_EmptySet DEF PoolOK
    <3>4. PoolOK(n)'
      BY <2>10, <2>p, <1>t, <3>1, <3>3 DEF RoundEnds, PoolOK
    <3> QED
      BY <3>4, <2>10, <1>o, <1>t DEF RoundEnds
  <2>11. CASE Tick(n)
    <3>1. PoolOK(n)'
      BY <2>11, <2>p, <1>t DEF Tick, Runs, PoolOK
    <3> QED
      BY <3>1, <2>11, <1>o, <1>t DEF Tick
  <2> QED
    BY <1>3, <2>1, <2>2, <2>3, <2>4, <2>5, <2>6, <2>7, <2>8, <2>9, <2>10, <2>11
       DEF Loop, WorkerStep
<1>4. CASE UNCHANGED loopVars
  BY <1>4, <1>u DEF loopVars, round
<1> QED
  BY <1>1, <1>2, <1>3, <1>4 DEF LoopNext

\* The loop's variables keep their types.
THEOREM LoopTypeCorrect == LoopSpec => []LoopTypeOK
<1>1. LoopTypeInv => LoopTypeOK
  BY DEF LoopTypeInv
<1> QED
  BY <1>1, LoopTypeInit, RoundInit, LoopTypeNext, RoundNext, PTL DEF LoopSpec

\* When a round ends, every listed group has been taken and nobody holds one
\* any more, however many workers there are and whatever fails (performSync).
THEOREM RoundsComplete == LoopSpec => []RoundComplete
<1>1. RoundInv => RoundComplete
  BY LoopAssumption DEF RoundInv, PoolOK, RoundComplete
<1> QED
  BY <1>1, LoopTypeInit, RoundInit, LoopTypeNext, RoundNext, PTL DEF LoopSpec
-----------------------------------------------------------------------------
\* Creation c answers for group g.
AnswersFor(c, g) ==
  /\ target[c] = g
  /\ home[c] \in Node
  /\ \/ pc[c] \in {"store", "readList", "writeList", "failed"}
     \/ pc[c] = "dead" /\ process[home[c]] = "killed"

StrandInv ==
  \A g \in Group \ registered : reached[g] # {} =>
    \E c \in Creation : AnswersFor(c, g)

LEMMA StrandInit == LoopInit => StrandInv
BY DEF LoopInit, Init, StrandInv

LEMMA StrandNext == LoopTypeInv /\ StrandInv /\ [LoopNext]_loopVars => StrandInv'
<1> SUFFICES ASSUME LoopTypeInv, StrandInv, [LoopNext]_loopVars PROVE StrandInv'
  OBVIOUS
<1> USE RegistryAssumption
<1>t. /\ TypeInv /\ TypeOK
      /\ process \in [Node -> {"starting", "serving", "draining", "closed", "killed"}]
  BY DEF LoopTypeInv, LoopTypeOK, TypeInv
\* It is enough that those who answer go on answering.
<1>k. ASSUME UNCHANGED <<reached, registered>>,
             \A c \in Creation, g \in Group : AnswersFor(c, g) => AnswersFor(c, g)'
      PROVE  StrandInv'
  BY <1>k DEF StrandInv
<1>1. ASSUME NEW c \in Creation, CreationStep(c), UNCHANGED process
      PROVE  StrandInv'
  <2>1. home[c] \in Node /\ target[c] \in Group
    BY <1>1, <1>t DEF CreationStep, Cache, StoreGroup, StoreGroupFails, ReadList,
       WriteList, TypeInv, UnderWayOK, Writing
  <2>2. /\ UNCHANGED <<home, target>>
        /\ \A d \in Creation \ {c} : pc'[d] = pc[d]
    BY <1>1, <1>t DEF CreationStep, Cache, StoreGroup, StoreGroupFails, ReadList,
       WriteList, Goto, TypeOK, Proc
  <2>3. \A d \in Creation \ {c}, g \in Group : AnswersFor(d, g) => AnswersFor(d, g)'
    BY <1>1, <2>2 DEF AnswersFor
  <2>4. CASE Cache(c) \/ ReadList(c)
    <3>1. UNCHANGED <<reached, registered>>
      BY <2>4 DEF Cache, ReadList, registry, history
    <3>2. pc'[c] \in {"store", "writeList"}
      BY <2>4, <1>t DEF Cache, ReadList, Goto, TypeOK, Proc
    <3>3. \A g \in Group : AnswersFor(c, g) => AnswersFor(c, g)'
      BY <2>2, <3>2 DEF AnswersFor
    <3> QED
      BY <3>1, <3>3, <2>3, <1>k
  <2>5. CASE StoreGroup(c) \/ StoreGroupFails(c)
    <3>1. /\ registered' = registered
          /\ \A g \in Group \ {target[c]} : reached'[g] = reached[g]
      BY <2>5, <1>t DEF StoreGroup, StoreGroupFails, history, TypeOK
    <3>2. pc'[c] \in {"readList", "failed"}
      BY <2>5, <1>t DEF StoreGroup, StoreGroupFails, Goto, TypeOK, Proc
    <3>3. AnswersFor(c, target[c])'
      BY <2>1, <2>2, <3>2 DEF AnswersFor
    <3> QED
      BY <3>1, <3>3, <2>2, <2>3 DEF StrandInv, AnswersFor
  <2>6. CASE WriteList(c)
    <3>1. registered' = registered \cup {target[c]} /\ reached' = reached
      BY <2>6 DEF WriteList
    <3> QED
      BY <3>1, <2>3 DEF StrandInv, AnswersFor
  <2> QED
    BY <1>1, <2>4, <2>5, <2>6 DEF CreationStep
<1>2. ASSUME NEW w \in Workload, Receive(w[1], w[2], w[3]), UNCHANGED process
      PROVE  StrandInv'
  <2>1. w[1] \in Creation /\ pc[w[1]] = "idle"
    BY <1>2 DEF Receive
  <2>2. \A d \in Creation \ {w[1]} :
          pc'[d] = pc[d] /\ home'[d] = home[d] /\ target'[d] = target[d]
    BY <1>2, <1>t DEF Receive, Goto, TypeOK, Proc
  <2>3. \A d \in Creation, g \in Group : AnswersFor(d, g) => AnswersFor(d, g)'
    BY <2>1, <2>2, <1>2 DEF AnswersFor
  <2> QED
    BY <2>3, <1>2, <1>k DEF Receive, registry, history
<1>3. ASSUME UNCHANGED <<reached, registered, process>>,
             \A c \in Creation : pc'[c] = pc[c] /\ home'[c] = home[c] /\ target'[c] = target[c]
      PROVE  StrandInv'
  BY <1>3, <1>k DEF AnswersFor
<1>4. CASE Request
  <2>1. ASSUME NEW n \in Node, Vacate(n) \/ \E g \in Group : Occupy(n, g),
               UNCHANGED process
        PROVE  StrandInv'
    BY <2>1, <1>3 DEF Vacate, Occupy, registry, handling, history
  <2> QED
    BY <1>4, <1>1, <1>2, <2>1 DEF Request
<1>5. ASSUME NEW n \in Node, Loop(n) PROVE StrandInv'
  <2>1. CASE Discover(n) \/ Discovered(n)
    <3>1. DiscoverRead(n) \/ FindStep(n) \/ Found(n)
      BY <2>1 DEF Discover, Discovered
    <3>2. UNCHANGED process
      BY <2>1 DEF Discover, Discovered
    <3>3. UNCHANGED <<reached, registered, home>>
      BY <3>1 DEF DiscoverRead, FindStep, SkipKnown, FetchUnknown, FetchUnknownFails,
         Keep, Found, registry, history
    <3>4. \A c \in Creation : pc'[c] = pc[c] /\ target'[c] = target[c]
      BY <3>1, <1>t DEF DiscoverRead, FindStep, SkipKnown, FetchUnknown,
         FetchUnknownFails, Keep, Found, Goto, TypeOK, Proc
    <3> QED
      BY <3>2, <3>3, <3>4, <1>3
  <2>2. CASE \/ ListShard(n) \/ StartWorkers(n) \/ WorkerReturns(n)
             \/ RoundEnds(n) \/ Tick(n) \/ \E g \in Group : WorkerStep(n, g)
    <3>1. UNCHANGED <<vars, process>>
      BY <2>2 DEF ListShard, StartWorkers, WorkerReturns, RoundEnds, Tick,
         WorkerStep, Take, Fetch, FetchFails, Merge
    <3> QED
      BY <3>1, <1>3 DEF vars, registry, handling, history
  <2> QED
    BY <1>5, <2>1, <2>2 DEF Loop
<1>6. ASSUME NEW n \in Node, Serve(n) \/ Signal(n) PROVE StrandInv'
  <2>1. UNCHANGED <<vars>> /\ process[n] # "killed"
        /\ \A m \in Node \ {n} : process'[m] = process[m]
    BY <1>6, <1>t DEF Serve, Signal
  <2>2. \A d \in Creation, g \in Group : AnswersFor(d, g) => AnswersFor(d, g)'
    BY <2>1 DEF AnswersFor, vars, handling
  <2> QED
    BY <2>1, <2>2, <1>k DEF vars, registry, history
<1>7. ASSUME NEW n \in Node, SignalKills(n) \/ ShutdownTimesOut(n) PROVE StrandInv'
  <2>1. /\ Leave(n) /\ process'[n] = "killed"
        /\ \A m \in Node \ {n} : process'[m] = process[m]
    BY <1>7, <1>t DEF SignalKills, ShutdownTimesOut
  <2>2. UNCHANGED <<reached, registered, home, target>>
    BY <2>1 DEF Leave, history
  <2>3. \A c \in Creation :
          pc'[c] = IF home[c] = n /\ pc[c] \notin Final THEN "dead" ELSE pc[c]
    BY <2>1, <1>t DEF Leave, TypeOK, Proc
  <2>4. ASSUME NEW c \in Creation, NEW g \in Group, AnswersFor(c, g)
        PROVE  AnswersFor(c, g)'
    <3>1. CASE home[c] = n
      BY <3>1, <2>1, <2>2, <2>3, <2>4 DEF AnswersFor, Final
    <3>2. CASE home[c] # n
      BY <3>2, <2>1, <2>2, <2>3, <2>4 DEF AnswersFor
    <3> QED
      BY <3>1, <3>2
  <2> QED
    BY <2>2, <2>4, <1>k
\* A server that drained has nobody left to strand.
<1>8. ASSUME NEW n \in Node, Shutdown(n) PROVE StrandInv'
  <2>1. /\ Leave(n) /\ process[n] # "killed"
        /\ \A m \in Node \ {n} : process'[m] = process[m]
    BY <1>8, <1>t DEF Shutdown
  <2>2. UNCHANGED <<reached, registered, home, target>>
    BY <2>1 DEF Leave, history
  <2>3. \A c \in Creation : home[c] = n => pc[c] \in Final
    BY <1>8 DEF Shutdown, Answering
  <2>4. \A c \in Creation : pc'[c] = pc[c]
    BY <2>1, <2>3, <1>t DEF Leave, TypeOK, Proc
  <2>5. \A c \in Creation, g \in Group : AnswersFor(c, g) => AnswersFor(c, g)'
    BY <2>1, <2>2, <2>4 DEF AnswersFor
  <2> QED
    BY <2>2, <2>5, <1>k
<1>9. CASE UNCHANGED loopVars
  BY <1>9, <1>3 DEF loopVars, vars, registry, handling, history
<1> QED
  BY <1>4, <1>5, <1>6, <1>7, <1>8, <1>9 DEF LoopNext, Life

\* A group that is stored and unregistered is still being created, or its
\* creator was told of a failure, or the creator's node was killed: a server
\* that is shut down in time strands nothing (CreateGroup, runServer).
THEOREM StrandsOnlyWhenKilled == LoopSpec => []OnlyKillsStrand
<1>1. StrandInv => OnlyKillsStrand
  BY DEF StrandInv, AnswersFor, OnlyKillsStrand
<1> QED
  BY <1>1, LoopTypeInit, RoundInit, StrandInit, LoopTypeNext, RoundNext, StrandNext,
     PTL DEF LoopSpec
=============================================================================
