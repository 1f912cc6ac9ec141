---------------------------- MODULE MCReplicas ----------------------------
(***************************************************************************)
(* TLC model of Replicas.                                                  *)
(***************************************************************************)
EXTENDS Replicas, TLC

Symmetry == Permutations(Replica) \cup Permutations(Key) \cup Permutations(Tag)
=============================================================================
