--------------------------- MODULE ORSetReplicas ---------------------------
(***************************************************************************)
(* Replicas that each hold an ORSet (crdt/orset.go) and merge snapshots of *)
(* one another's, which may arrive late, repeatedly and in any order.      *)
(* Nothing else in the repository uses the type; its tests let several     *)
(* replicas add one element and reuse a tag for several elements.          *)
(***************************************************************************)
EXTENDS Naturals, FiniteSets

CONSTANTS
  Replica,   \* holders of a set
  Element,   \* elements
  Tag,       \* tags of additions and removals
  MaxCalls   \* bound on the different calls that all replicas make

ORS == INSTANCE ORSet

VARIABLES
  set,       \* replica -> its set
  done,      \* history: replica -> the calls its set should reflect
  sent       \* sets, and their histories, that may be delivered

vars == <<set, done, sent>>

Call == [op : {"add", "remove"}, element : Element, tag : Tag]

TypeOK ==
  /\ set \in [Replica -> ORS!ORSets(Element, Tag)]
  /\ done \in [Replica -> SUBSET Call]
  /\ sent \subseteq [set : ORS!ORSets(Element, Tag), done : SUBSET Call]

Init ==
  /\ set = [r \in Replica |-> ORS!NewORSet]
  /\ done = [r \in Replica |-> {}]
  /\ sent = {}

Note(r, op, e, t) ==
  /\ Cardinality(UNION {done[q] : q \in Replica}) < MaxCalls
  /\ done' = [done EXCEPT ![r] =
                @ \cup {[op |-> op, element |-> e, tag |-> t]}]

Add(r, e, t) ==
  /\ Note(r, "add", e, t)
  /\ set' = [set EXCEPT ![r] = ORS!Add(@, e, t)]
  /\ UNCHANGED sent

Remove(r, e, t) ==
  /\ Note(r, "remove", e, t)
  /\ set' = [set EXCEPT ![r] = ORS!Remove(@, e, t)]
  /\ UNCHANGED sent

Send(r) ==
  /\ sent' = sent \cup {[set |-> set[r], done |-> done[r]]}
  /\ UNCHANGED <<set, done>>

Deliver(r, m) ==
  /\ set' = [set EXCEPT ![r] = ORS!Merge(@, m.set)]
  /\ done' = [done EXCEPT ![r] = @ \cup m.done]
  /\ UNCHANGED sent

Next ==
  \/ \E r \in Replica, e \in Element, t \in Tag :
       Add(r, e, t) \/ Remove(r, e, t)
  \/ \E r \in Replica : Send(r)
  \/ \E r \in Replica, m \in sent : Deliver(r, m)

Spec == Init /\ [][Next]_vars

\* What a replica that heard of these calls should show: the elements that
\* were added with some tag under which nobody removed them.
Shown(calls) ==
  {c.element : c \in {a \in calls : a.op = "add" /\
                                    [a EXCEPT !.op = "remove"] \notin calls}}

\* Only the calls count: what a replica shows is determined by the calls that
\* reached it, whatever the order and number of the snapshots that brought
\* them.  So two replicas that heard of the same calls agree, an addition
\* survives the removals of other tags, and a removal is never undone.
OnlyCallsCount ==
  \A r \in Replica : ORS!Elements(set[r]) = Shown(done[r])
=============================================================================
