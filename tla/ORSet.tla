------------------------------- MODULE ORSet -------------------------------
(***************************************************************************)
(* The observed-remove set of crdt/orset.go, as operators on values.       *)
(*                                                                         *)
(* The Go type has two maps, element -> tags, one of what was added and    *)
(* one of what was removed; here each is a set of <<element, tag>> pairs.  *)
(* Neither ever shrinks: a removal is remembered, not carried out.  Every  *)
(* method holds the set's own mutex.                                       *)
(***************************************************************************)
ORSets(E, T) == [AddSet : SUBSET (E \X T), RemSet : SUBSET (E \X T)]

NewORSet == [AddSet |-> {}, RemSet |-> {}]

Add(s, e, t) == [s EXCEPT !.AddSet = @ \cup {<<e, t>>}]

\* Nothing asks whether the tag was ever added: it is dead from now on.
Remove(s, e, t) == [s EXCEPT !.RemSet = @ \cup {<<e, t>>}]

Live(s) == s.AddSet \ s.RemSet

Lookup(s, e) == \E x \in Live(s) : x[1] = e

Elements(s) == {x[1] : x \in Live(s)}

\* A plausible other Merge: takes over what the other set shows, that is
\* without its removals.
MergeElements(s, o) == [s EXCEPT !.AddSet = @ \cup Live(o)]

Merge(s, o) == [AddSet |-> s.AddSet \cup o.AddSet,
                RemSet |-> s.RemSet \cup o.RemSet]
=============================================================================
