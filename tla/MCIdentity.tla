----------------------------- MODULE MCIdentity -----------------------------
(* Instances of Identity: Alice's account, another key of hers, and a key of *)
(* Mallory's; up to three issuers.                                           *)
EXTENDS Identity, TLC

CONSTANTS alice, mallory, a1, a2, m1, i1, i2, i3

MCOwner == (a1 :> alice) @@ (a2 :> alice) @@ (m1 :> mallory)
MCFirst == alice :> a1

\* One corrupt issuer of three and nobody looking; or all corrupt, and Alice looks.
FewOrWatched ==
  {[corrupt |-> {i3}, watched |-> {}],
   [corrupt |-> {i1, i2, i3}, watched |-> {alice}]}
Few == {[corrupt |-> {i3}, watched |-> {}]}

ASSUME HypothesisMet == OneThreshold
=============================================================================
