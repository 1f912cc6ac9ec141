------------------------------- MODULE ORMap -------------------------------
(***************************************************************************)
(* The "observed-remove map" of crdt/ormap.go, as operators on values.     *)
(*                                                                         *)
(* The Go type is a two-level map: key -> tag -> value.  Here a map is the *)
(* set of its entries, each a record [key, tag, val], with at most one     *)
(* entry for a (key, tag) slot.  A key whose tag map is empty is never     *)
(* built by the code (Put fills the slot it creates, Remove drops a key    *)
(* with its last tag), so a key is present exactly when it has an entry.   *)
(* Every method holds the map's own mutex, so each operator here is one    *)
(* atomic step of whoever calls it.                                        *)
(***************************************************************************)

\* The maps over keys K, tags T and values V: one value to a slot.
Map(K, T, V) ==
  {m \in SUBSET [key : K, tag : T, val : V] :
     \A e, f \in m : e.key = f.key /\ e.tag = f.tag => e = f}

NewORMap == {}

Keys(m) == {e.key : e \in m}

\* GetAll: every version of a key.  Get returns whichever of them the
\* iteration over a Go map meets first, so any of them.
GetAll(m, k) == {e.val : e \in {f \in m : f.key = k}}

Has(m, k) == k \in Keys(m)

SameSlot(e, f) == e.key = f.key /\ e.tag = f.tag

\* A plausible other Put: confuses the key with the value.
PutSwapped(m, k, v, t) ==
  LET new == [key |-> v, tag |-> t, val |-> k]
  IN  {e \in m : ~ SameSlot(e, new)} \cup {new}

Put(m, k, v, t) ==
  LET new == [key |-> k, tag |-> t, val |-> v]
  IN  {e \in m : ~ SameSlot(e, new)} \cup {new}

\* Remove with a tag takes that version away; Remove with the empty string
\* as tag takes the key away with all its versions.
RemoveTag(m, k, t) == {e \in m : ~ (e.key = k /\ e.tag = t)}

RemoveKey(m, k) == {e \in m : e.key # k}

\* Plausible other Merges: the union without the deletion phase, and one that
\* replaces the versions of a key instead of adding to them.
MergeKeepingLocalKeys(m, o) ==
  {e \in m : \A f \in o : ~ SameSlot(e, f)} \cup o

MergeReplacingVersions(m, o) == o

\* Merge first copies every entry of the other map, overwriting the slots
\* they share, and then deletes every key the other map does not have.
Merge(m, o) ==
  LET merged == {e \in m : \A f \in o : ~ SameSlot(e, f)} \cup o
  IN  {e \in merged : Has(o, e.key)}
=============================================================================
