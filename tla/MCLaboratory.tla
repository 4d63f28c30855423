----------------------------- MODULE MCLaboratory -----------------------------
(* Five validators, one or two of which misbehave; a laboratory of four.   *)
EXTENDS SinglePhase, TLC

CONSTANTS v1, v2, v3, v4, v5

MCFounding == <<v1, v2, v3, v4, v5>>

Setup(network, others, voters, framers) ==
  [network |-> network, behaviour |-> others @@ [n \in Nodes |-> "honest"], voters |-> voters, framers |-> framers]
MCSetups ==
  { Setup("instant", v2 :> "equivocator" @@ v3 :> "censor", {v1, v4, v5}, {}),
    Setup("instant", v2 :> "equivocator", {v1, v2, v3, v4, v5}, {}),
    Setup("instant", v2 :> "equivocator", {v1}, {v2}),
    Setup("instant", v4 :> "equivocator" @@ v1 :> "silent", {}, {v4}),
    Setup("instant", v2 :> "silent", {v1}, {}),
    Setup("instant", v1 :> "silent" @@ v4 :> "silent", {v2}, {}),
    Setup("instant", v3 :> "forger", {v1, v2}, {v3}),
    Setup("two_phase", v2 :> "equivocator" @@ v3 :> "censor", {v1, v4}, {}),
    Setup("two_phase", v3 :> "forger", {v1, v4}, {}),
    Setup("laboratory", v1 :> "honest", {}, {}) }
\* What the theorems about the networks ask of the setups.
ASSUME HypothesisMet == Productive

MCTable == <<v1, v2, v3, v4>>
MCLiars == {{}, {v1}, {v3}, {v1, v2}}
=============================================================================
