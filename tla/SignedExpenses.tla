--------------------------- MODULE SignedExpenses ---------------------------
(***************************************************************************)
(* The way of an expense from a user's command line to everybody's debts:  *)
(* genkey writes a key file, the user joins with the printed key, sign     *)
(* makes signed expenses, which reach the node of the group, some of them  *)
(* several times (a client that got no answer sends again); AddExpense     *)
(* verifies them, splits them and adds to the node's entry of each         *)
(* debtor's counter.  The entry travels through the DHT to another node    *)
(* and back.  What handlers do at once is the subject of GroupNode: here   *)
(* AddExpense is one step.                                                 *)
(***************************************************************************)
EXTENDS OperationSigning, ExpenseSplit, FiniteSetsExt

CONSTANTS
  Gen,         \* runs of genkey; each stands for the key pair it makes
  Debtor,      \* members other than the user
  Expense,     \* [amount, participants]: the expenses there may be
  Self,        \* the user among the participants
  Extra,       \* what the data of a request may have besides the expense
  MaxSigned,   \* bound on the requests that are signed
  MaxAdded,    \* bound on the requests that are accepted
  Scale,       \* a multiple of every number of participants
  NoKey, HalfKey

ASSUME SignedAssumption ==
  /\ \A e \in Expense :
       /\ e.amount \in Int
       /\ e.participants \in Seq(ToSet(e.participants))
       /\ Len(e.participants) > 0 => Scale % Len(e.participants) = 0
  /\ Scale \in Nat \ {0} /\ IntMax \in Nat /\ MaxAdded \in Nat
  /\ {NoKey, HalfKey} \cap Gen = {} /\ NoKey # HalfKey

VARIABLES
  gen,      \* run of genkey -> what it does next
  keyFile,  \* what the key file has
  printed,  \* the keys whose public half and user ID have been printed
  member,   \* the key under which the user is a member of the group
  signed,   \* the signed requests
  entry,    \* debtor -> the node's own entry of its counter
  stored,   \* debtor -> that entry in the DHT
  remote,   \* debtor -> that entry at another node
  forced,   \* history: a run of genkey was forced, or two overlapped
  refused,  \* history: requests that the node refused
  added,    \* history: how many requests it accepted
  due,      \* history: debtor -> the exact shares, in Scale-ths of a mill
  gross,    \* history: debtor -> those of positive amounts alone
  wild      \* history: some debt did not fit

keys    == <<gen, keyFile, printed>>
copies  == <<entry, stored, remote>>
history == <<refused, added, due, gross, wild>>
vars    == <<keys, member, signed, copies, forced, history>>

Request ==
  [user : Gen, content : Expense, keys : {{"expense"} \cup x : x \in SUBSET Extra}]

Int64 == IntMin .. IntMax

TypeOK ==
  /\ gen \in [Gen -> {"idle", "make", "write", "done", "refused"}]
  /\ keyFile \in Gen \cup {NoKey, HalfKey}
  /\ printed \subseteq Gen
  /\ member \in Gen \cup {NoKey}
  /\ \A r \in signed : r.op \in Request /\ r.signature.size \in 62 .. 64
  /\ entry \in [Debtor -> Int64]
  /\ stored \in [Debtor -> Int64]
  /\ remote \in [Debtor -> Int64]
  /\ forced \in BOOLEAN /\ wild \in BOOLEAN
  /\ refused \subseteq signed
  /\ added \in 0 .. MaxAdded
  /\ due \in [Debtor -> Int] /\ gross \in [Debtor -> Int]

Nothing == [d \in Debtor |-> 0]

Init ==
  /\ gen = [g \in Gen |-> "idle"]
  /\ keyFile = NoKey
  /\ printed = {}
  /\ member = NoKey
  /\ signed = {}
  /\ entry = Nothing /\ stored = Nothing /\ remote = Nothing
  /\ forced = FALSE
  /\ refused = {}
  /\ added = 0
  /\ due = Nothing /\ gross = Nothing
  /\ wild = FALSE

(***************************************************************************)
(* genkey                                                                  *)
(***************************************************************************)
UnderWay == {g \in Gen : gen[g] \in {"make", "write"}}

\* A plausible other GenKeyChecks: overwrites a file without being told to.
GenKeyChecksNothing(g, force) ==
  /\ gen[g] = "idle"
  /\ gen' = [gen EXCEPT ![g] = "make"]
  /\ forced' = (forced \/ force \/ UnderWay # {})
  /\ UNCHANGED <<keyFile, printed, member, signed, copies, history>>

\* It refuses if the file is there, unless it is forced.
GenKeyChecks(g, force) ==
  /\ gen[g] = "idle"
  /\ gen' = [gen EXCEPT ![g] =
               IF keyFile = NoKey \/ force THEN "make" ELSE "refused"]
  /\ forced' = (forced \/ force \/ UnderWay # {})
  /\ UNCHANGED <<keyFile, printed, member, signed, copies, history>>

\* The pair is made, the file created or emptied ...
GenKeyCreates(g) ==
  /\ gen[g] = "make"
  /\ keyFile' = HalfKey
  /\ gen' = [gen EXCEPT ![g] = "write"]
  /\ UNCHANGED <<printed, member, signed, copies, forced, history>>

\* ... then the private key written and the public one printed.
GenKeyWrites(g) ==
  /\ gen[g] = "write"
  /\ keyFile' = g
  /\ printed' = printed \cup {g}
  /\ gen' = [gen EXCEPT ![g] = "done"]
  /\ UNCHANGED <<member, signed, copies, forced, history>>

\* The user creates the group, or is approved, with a key that was printed.
Join(g) ==
  /\ member = NoKey
  /\ g \in printed
  /\ member' = g
  /\ UNCHANGED <<keys, signed, copies, forced, history>>

(***************************************************************************)
(* sign: with the key that the file has now, for the user that it is told; *)
(* it fails if the file has no whole key.                                  *)
(***************************************************************************)
Sign(op) ==
  /\ Cardinality(signed) < MaxSigned
  /\ op.user \in printed
  /\ keyFile \in Gen
  /\ \E bytes \in CreateOperationData(op) :
       \E s \in SignData(keyFile, bytes) :
         signed' = signed \cup {[op |-> op, signature |-> s]}
  /\ UNCHANGED <<keys, member, copies, forced, history>>

(***************************************************************************)
(* AddExpense: for a member, after a look at the signature; the debts go   *)
(* to the node's copy and, unless the write fails, to the DHT.             *)
(***************************************************************************)
Accepts(r) == r.op.user = member

\* Exact shares, in Scale-ths of a mill.
Share(e) == (e.amount * Scale) \div Len(e.participants)

Refuse(r) ==
  /\ \/ ~ Accepts(r)
     \/ \E bytes \in CreateOperationData(r.op) :
          ~ VerifySignature(member, bytes, r.signature)
  /\ refused' = refused \cup {r}
  /\ UNCHANGED <<keys, member, signed, copies, forced, added, due, gross, wild>>

AddExpense(r) ==
  LET e == r.op.content
      owing == Splits(e.participants, Self)
  IN  /\ Accepts(r)
      /\ \E bytes \in CreateOperationData(r.op) :
           VerifySignature(member, bytes, r.signature)
      /\ added < MaxAdded
      /\ added' = added + 1
      /\ IF owing = {}
           THEN UNCHANGED <<entry, due, gross, wild>>
           ELSE \E c \in Cents(e.amount, Len(e.participants)) :
                  /\ entry' = [d \in Debtor |->
                       IF d \in owing THEN Plus(entry[d], c) ELSE entry[d]]
                  /\ due' = [d \in Debtor |->
                       IF d \in owing /\ r.signature.key = member
                         THEN due[d] + Share(e) ELSE due[d]]
                  /\ gross' = [d \in Debtor |->
                       IF d \in owing /\ r.signature.key = member /\ e.amount > 0
                         THEN gross[d] + Share(e) ELSE gross[d]]
                  /\ wild' = \/ wild
                             \/ c \in {IntMin, IntMax}
                             \/ \E d \in owing : entry[d] + c \notin Int64
      /\ stored' \in {stored, entry'}
      /\ UNCHANGED <<keys, member, signed, remote, forced, refused>>

(***************************************************************************)
(* Synchronisation: PNCounter.Merge takes the larger entry; a missing one  *)
(* counts as zero.                                                         *)
(***************************************************************************)
\* A plausible other MergeEntries: adds them.
AddEntries(x, y) == [d \in Debtor |-> Plus(x[d], y[d])]

MergeEntries(x, y) == [d \in Debtor |-> IF x[d] < y[d] THEN y[d] ELSE x[d]]

SyncHere ==
  /\ entry' = MergeEntries(entry, stored)
  /\ UNCHANGED <<keys, member, signed, stored, remote, forced, history>>

SyncThere ==
  /\ remote' = MergeEntries(remote, stored)
  /\ UNCHANGED <<keys, member, signed, entry, stored, forced, history>>

\* The other node writes the group, for a reason of its own.
WriteThere ==
  /\ stored' = remote
  /\ UNCHANGED <<keys, member, signed, entry, remote, forced, history>>

Next ==
  \/ \E g \in Gen :
       \/ \E force \in BOOLEAN : GenKeyChecks(g, force)
       \/ GenKeyCreates(g) \/ GenKeyWrites(g) \/ Join(g)
  \/ \E op \in Request : Sign(op)
  \/ \E r \in signed : Refuse(r) \/ AddExpense(r)
  \/ SyncHere \/ SyncThere \/ WriteThere

Spec == Init /\ [][Next]_vars

-----------------------------------------------------------------------------
\* Who neither forces genkey nor runs it twice at once keeps the key whose
\* user ID it printed: the key of the file can sign for that user (runGenKey).
PrintedKeyIsInFile == ~ forced => \A g \in printed : keyFile = g

\* The counters follow the exact shares of what the member signed: no debt
\* exceeds the shares of the positive amounts, however often entries travel
\* and however late a refund is overwritten by an older, larger entry; and
\* none falls short of the shares by more than a cent for each expense that
\* was accepted, unless an amount did not fit (AddExpense, PNCounter.Merge,
\* VerifySignature).
DebtsFollowShares ==
  ~ wild => \A d \in Debtor :
    LET unit == 10 * Scale
    IN  /\ \A debt \in {entry[d], stored[d], remote[d]} : debt * unit <= gross[d]
        /\ entry[d] * unit >= due[d] - added * unit

\* A request that the member signed with the member's key is never refused:
\* what utils_test.go says of signatures and data.
GenuineAccepted ==
  \A r \in refused : ~ (r.op.user = member /\ r.signature.key = member)
=============================================================================
