---------------------------- MODULE MCSignGuard ----------------------------
(* Instances of SignGuard for TLC.                                          *)
EXTENDS SignGuard
CONSTANTS a, b

\* Either processes are killed or the power fails; or both.
KillsOrCuts == {{"kill"}, {"power"}}
KillsAndCuts == {{"kill", "power"}}
=============================================================================
