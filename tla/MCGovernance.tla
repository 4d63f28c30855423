---------------------------- MODULE MCGovernance ----------------------------
(* Instances of Governance: four founding validators, the last one faulty. *)
EXTENDS Governance, TLC

CONSTANTS v1, v2, v3, b, c, i, j, k

Motion(a, t) == [action |-> a, target |-> t]
MCGenesis == <<v1, v2, v3, b>>
GenesisFaultyFirst == <<b, v1, v2, v3>>

\* Honest validators want c in, b to stay in, k as an issuer and i not; b wants v1
\* out and policy 9.  (With REMOVE b approved too, b can go out and in for ever, and each
\* change voids the tallies of the other motions.)
ReformAgenda ==
  {Motion("ADD", c), Motion("ADD", b),
   Motion("ADD_ISSUER", k), Motion("REMOVE_ISSUER", i)}
FullAgenda == ReformAgenda \cup {Motion("REMOVE", v1), Motion("SET_POLICY", 9)}
RemoveOnly == {Motion("REMOVE", b)}

\* The instance meets the hypotheses of the theorems about Governance.
ASSUME HypothesesMet == FewFaulty /\ Prudent
=============================================================================
