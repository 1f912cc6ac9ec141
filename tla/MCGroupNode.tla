---------------------------- MODULE MCGroupNode ----------------------------
(***************************************************************************)
(* Small instances of GroupNode: two nodes, up to three requests, two      *)
(* users.  A workload says which request may reach which node with which   *)
(* call; all interleavings of the requests it lets in are explored.        *)
(***************************************************************************)
EXTENDS GroupNode, TLC

CONSTANTS alice, bob, lunch, taxi, n1, n2, r1, r2, r3

\* Calls.  Fields an operation does not read have an arbitrary value.
Plain(op, u) == [op |-> op, user |-> u, subject |-> u,
                 id |-> lunch, parts |-> {}, share |-> 0]

AliceCreates == Plain("create_group", alice)
BobJoins     == Plain("join_group", bob)
AliceAdmits  == [Plain("approve_join", alice) EXCEPT !.subject = bob]
BobAdmits    == Plain("approve_join", bob)
AliceReads   == Plain("get_pending_joins", alice)
BobReads     == Plain("get_balances", bob)
AlicePays    == [Plain("add_expense", alice) EXCEPT !.parts = {alice, bob},
                                                    !.share = 1]
BobPays      == [Plain("add_expense", bob) EXCEPT !.id = taxi,
                                                  !.parts = {alice, bob},
                                                  !.share = 2]

Nobody == {}
Alice  == {alice}
Bob    == {bob}
Couple == {alice, bob}

\* Alice admits Bob, again or reads (which synchronises) meanwhile, and pays
\* for both, all at one node.
Approvals ==
  {r1, r2} \X {n1} \X {AliceAdmits, AliceReads} \cup {<<r3, n1, AlicePays>>}

\* From no group at all; Bob joins, perhaps twice at once, and tries to admit
\* himself, Alice creates again.
Founding ==
  {<<r1, n1, AliceCreates>>, <<r3, n2, AliceCreates>>,
   <<r2, n1, BobJoins>>, <<r2, n2, BobJoins>>, <<r3, n1, BobJoins>>,
   <<r3, n1, AliceAdmits>>, <<r3, n2, AliceAdmits>>, <<r3, n2, BobAdmits>>}

\* The first node may crash; the second has an empty cache, as a node that
\* restarts, which handlers and the loop fill with copies of their own.
Failures ==
  {<<r1, n1, AlicePays>>, <<r1, n2, AlicePays>>, <<r2, n1, AlicePays>>,
   <<r2, n1, BobPays>>} \cup
  {r2} \X {n2} \X {AlicePays, BobPays, AliceReads, BobReads}

\* One expense at each node, or both at the first.
TwoExpenses == {<<r1, n1, AlicePays>>} \cup {r2} \X {n1, n2} \X {BobPays}

\* One expense at each node.
Split == {<<r1, n1, AlicePays>>, <<r2, n2, BobPays>>}

\* An approval at one node, a join at the other.
Joining == {<<r1, n1, AliceAdmits>>, <<r2, n2, BobJoins>>}

TwoApprovals == {r1, r2} \X {n1} \X {AliceAdmits}

Symmetry == Permutations({r1, r2})
=============================================================================
