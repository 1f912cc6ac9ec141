---------------------------- MODULE GroupLedger ----------------------------
(***************************************************************************)
(* What the nodes promise together about one group, wherever its copies    *)
(* are and however stale: a ledger of who was ever admitted, who ever      *)
(* asked, which expenses were ever recorded and what each node ever        *)
(* charged.  Only members admit, pay and share; a debt is charged only for *)
(* a recorded expense.  The ledger never forgets; the copies do.           *)
(***************************************************************************)
EXTENDS Naturals

CONSTANTS
  Node,      \* the nodes that charge
  User,      \* users
  Calls,     \* the calls clients may make
  Founders,  \* members from the start
  Waiting    \* users who asked before the start

VARIABLES
  admitted,  \* users that were ever a member of some copy
  approvals, \* approving calls that admitted a user to some copy
  asked,     \* users that ever had a pending request in some copy
  expenses,  \* calls whose expense was ever recorded in some copy
  charged    \* <<debtor, creditor>> -> node -> cents it ever charged

vars == <<admitted, approvals, asked, expenses, charged>>

Pair == User \X User

TypeOK ==
  /\ admitted \subseteq User
  /\ approvals \subseteq Calls
  /\ asked \subseteq User
  /\ expenses \subseteq Calls
  /\ charged \in [Pair -> [Node -> Nat]]

Init ==
  /\ admitted = Founders
  /\ approvals = {}
  /\ asked = Waiting
  /\ expenses = {}
  /\ charged = [d \in Pair |-> [n \in Node |-> 0]]

\* A group is created: its creator needs nobody's approval.
Found(u) ==
  /\ admitted' = admitted \cup {u}
  /\ UNCHANGED <<approvals, asked, expenses, charged>>

Ask(u) ==
  /\ asked' = asked \cup {u}
  /\ UNCHANGED <<admitted, approvals, expenses, charged>>

\* A member admits a user who asked.
Admit(c) ==
  /\ c.user \in admitted
  /\ c.subject \in asked
  /\ admitted' = admitted \cup {c.subject}
  /\ approvals' = approvals \cup {c}
  /\ UNCHANGED <<asked, expenses, charged>>

\* A member pays for members.
Record(c) ==
  /\ c.user \in admitted
  /\ c.parts \subseteq admitted
  /\ expenses' = expenses \cup {c}
  /\ UNCHANGED <<admitted, approvals, asked, charged>>

\* A participant other than the payer owes the payer a share.
Charge(n, c, u) ==
  /\ c \in expenses
  /\ u \in c.parts \ {c.user}
  /\ charged' = [charged EXCEPT ![<<u, c.user>>][n] = @ + c.share]
  /\ UNCHANGED <<admitted, approvals, asked, expenses>>

Next ==
  \/ \E c \in Calls : c.op = "create_group" /\ Found(c.user)
  \/ \E c \in Calls : c.op = "join_group" /\ Ask(c.user)
  \/ \E c \in Calls : c.op = "approve_join" /\ Admit(c)
  \/ \E c \in Calls : c.op = "add_expense" /\ Record(c)
  \/ \E n \in Node, c \in Calls, u \in User : Charge(n, c, u)

Spec == Init /\ [][Next]_vars
=============================================================================
