----------------------------- MODULE MCTwoPhase -----------------------------
(***************************************************************************)
(* Instances of TwoPhase for TLC: three honest validators, with or without *)
(* a faulty fourth.                                                        *)
(***************************************************************************)
EXTENDS TwoPhase, TLC

CONSTANTS v1, v2, v3, v4, a, b, bad

\* Who proposes in rounds 0, 1, 2; Chain.expected_proposer rotates the seats.
Turn(seats) == [r \in Rounds |-> seats[r + 1]]
FaultyFirst == Turn(<<v4, v1, v2>>)
HonestFirst == Turn(<<v1, v2, v4>>)
AllHonest == Turn(<<v1, v2, v3>>)
HeaderAB == a :> 0 @@ b :> 1
HeaderABBad == HeaderAB @@ bad :> 0
TwoRounds == 0 .. 1
ThreeRounds == 0 .. 2
Alike == Permutations({v2, v3})
=============================================================================
