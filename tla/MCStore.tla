------------------------------ MODULE MCStore ------------------------------
(* Instances of Store.                                                      *)
EXTENDS Store

\* With an archive, after a change of validators; and without one, taking snapshots
\* from peers, while the founders vouch for everything.
ArchiveOrPeers ==
  { [archive |-> TRUE, changedAt |-> 4, snapshots |-> {}],
    [archive |-> FALSE, changedAt |-> MaxHeight + 1, snapshots |-> {2, 3, 5, 6, 8, 9} \cap 1 .. MaxHeight] }

ASSUME HypothesisMet == Vouched
=============================================================================
