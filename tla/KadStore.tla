----------------------------- MODULE KadStore -----------------------------
(***************************************************************************)
(* One key of the Kademlia DHT as dht/kdht.go configures it, as operators  *)
(* on the copies that its peers hold: a function from peers to values,     *)
(* NoValue where a peer holds none.  Every node runs in server mode with a *)
(* store in memory, so every node is a peer.  The library's own behaviour  *)
(* (which peers it asks and writes to) is external; the choices left to    *)
(* the program, Validate and Select, are those of AllowAnyValidator.       *)
(***************************************************************************)
CONSTANTS Peer, NoValue

Empty == [p \in Peer |-> NoValue]

\* Select takes the first of the values that arrived, in whatever order they
\* did: a read may yield any of the copies.
Select(copies) == {copies[p] : p \in Peer} \ {NoValue}

\* Validate accepts everything, so value v replaces whatever its writer and
\* the peers that it reaches hold.
Store(copies, v, reached) ==
  [p \in Peer |-> IF p \in reached THEN v ELSE copies[p]]
=============================================================================
