------------------------- MODULE MCZooKeeperTracker -------------------------
(***************************************************************************)
(* Programs that track the data of a node or its children, until they      *)
(* cancel or only as long as it exists.                                    *)
(***************************************************************************)
EXTENDS ZooKeeperTracker, TLC

Symmetry == Permutations(Callbacks)

MCUsages == {{<<TRUE, FALSE, FALSE>>, <<TRUE, FALSE, TRUE>>},
             {<<FALSE, TRUE, FALSE>>, <<FALSE, TRUE, TRUE>>}}

\* Both at one node.
MixedUsages == {{<<TRUE, FALSE, FALSE>>, <<FALSE, TRUE, FALSE>>}}

=============================================================================
