----------------------------- MODULE Consensus -----------------------------
(***************************************************************************)
(* What agreement on one block height promises: at most one block is ever  *)
(* chosen, every validator that reaches a decision learns the chosen one,  *)
(* and a validator that dies may learn it again.                           *)
(***************************************************************************)
CONSTANTS Nodes, Values, Nil

VARIABLES
  chosen,     \* the chosen blocks: none or one
  decision    \* decision[n]: what n has learned, or Nil

Init ==
  /\ chosen = {}
  /\ decision = [n \in Nodes |-> Nil]

Choose(v) ==
  /\ chosen = {}
  /\ chosen' = {v}
  /\ UNCHANGED decision

Learn(n, v) ==
  /\ decision[n] = Nil
  /\ v \in chosen
  /\ decision' = [decision EXCEPT ![n] = v]
  /\ UNCHANGED chosen

Forget(n) ==
  /\ decision' = [decision EXCEPT ![n] = Nil]
  /\ UNCHANGED chosen

Next ==
  \/ \E v \in Values : Choose(v)
  \/ \E n \in Nodes, v \in Values : Learn(n, v)
  \/ \E n \in Nodes : Forget(n)

Spec == Init /\ [][Next]_<<chosen, decision>>
=============================================================================
