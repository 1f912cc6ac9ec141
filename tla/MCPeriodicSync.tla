--------------------------- MODULE MCPeriodicSync ---------------------------
EXTENDS PeriodicSync, TLC

CONSTANTS n1, n2, g1, g2, c1, c2

\* A group is created at each node, or both at the node that does not loop.
Creations == {<<c1, n1, g1>>, <<c2, n2, g2>>, <<c2, n1, g2>>}

\* The groups lie in different shards; one hash is the largest there is.
Hashes == (g1 :> 2) @@ (g2 :> 7)
=============================================================================
