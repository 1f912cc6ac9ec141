--------------------------- MODULE ORMapReplicas ---------------------------
(***************************************************************************)
(* Replicas that each hold an ORMap (crdt/ormap.go) and merge snapshots of *)
(* one another's, which may arrive late, repeatedly and in any order.      *)
(* Every Put uses a tag of its own, as node.go does with UUIDs.            *)
(***************************************************************************)
CONSTANTS
  Replica,  \* holders of a map
  Key,      \* keys
  Tag       \* tags; their number bounds the puts

ORM == INSTANCE ORMap

VARIABLES
  map,      \* replica -> its map
  sent,     \* snapshots that may be delivered, any number of times
  used      \* the tags puts have used

vars == <<map, sent, used>>

TypeOK ==
  /\ map \in [Replica -> ORM!Map(Key, Tag, Tag)]
  /\ sent \subseteq ORM!Map(Key, Tag, Tag)
  /\ used \subseteq Tag

Init ==
  /\ map = [r \in Replica |-> ORM!NewORMap]
  /\ sent = {}
  /\ used = {}

\* The value is as fresh as the tag, so the tag stands for it.
Put(r, k, t) ==
  /\ t \notin used
  /\ map' = [map EXCEPT ![r] = ORM!Put(@, k, t, t)]
  /\ used' = used \cup {t}
  /\ UNCHANGED sent

RemoveVersion(r, k, t) ==
  /\ map' = [map EXCEPT ![r] = ORM!RemoveTag(@, k, t)]
  /\ UNCHANGED <<sent, used>>

Remove(r, k) ==
  /\ map' = [map EXCEPT ![r] = ORM!RemoveKey(@, k)]
  /\ UNCHANGED <<sent, used>>

Send(r) ==
  /\ sent' = sent \cup {map[r]}
  /\ UNCHANGED <<map, used>>

Deliver(r, m) ==
  /\ map' = [map EXCEPT ![r] = ORM!Merge(@, m)]
  /\ UNCHANGED <<sent, used>>

Next ==
  \/ \E r \in Replica, k \in Key, t \in Tag :
       Put(r, k, t) \/ RemoveVersion(r, k, t)
  \/ \E r \in Replica, k \in Key : Remove(r, k)
  \/ \E r \in Replica : Send(r)
  \/ \E r \in Replica, m \in sent : Deliver(r, m)

Spec == Init /\ [][Next]_vars

\* Versions survive concurrency: as long as its key stays, a version leaves a
\* replica only by a Remove that names its tag there; no snapshot, however
\* old, replaces one version of a key by another.
VersionsSurvive ==
  [][\A r \in Replica : \A e \in map[r] :
       \/ e \in map'[r]
       \/ ~ ORM!Has(map'[r], e.key)
       \/ RemoveVersion(r, e.key, e.tag)]_vars
=============================================================================
