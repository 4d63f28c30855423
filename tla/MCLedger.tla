------------------------------ MODULE MCLedger ------------------------------
(* Instances of Ledger: a household, a firm and a newcomer; two nodes.      *)
EXTENDS Ledger, TLC

CONSTANTS alice, bob, carol, gov

Make(kind, sender, nonce, to, amount, proof) ==
  [kind |-> kind, sender |-> sender, nonce |-> nonce, to |-> to, amount |-> amount, proof |-> proof]
Money(a, b) == (alice :> a) @@ (bob :> b) @@ (carol :> 0) @@ (gov :> 0)
Savings == Money(4, 3)
Behind == (alice :> 3) @@ (bob :> 0) @@ (carol :> 0) @@ (gov :> 1)

\* Payments that depend on each other, compete for a nonce, or come too early.
Payments ==
  { Make("pay", alice, 0, bob, 3, 0), Make("pay", alice, 0, bob, 1, 0), Make("pay", alice, 1, bob, 1, 0),
    Make("pay", bob, 0, alice, 5, 0) }
WithNewcomer ==
  { Make("pay", alice, 0, carol, 2, 0), Make("pay", alice, 1, bob, 1, 0),
    Make("register", carol, 0, carol, 0, 0), Make("pay", carol, 1, bob, 2, 0) }

\* Alice pays Bob confidentially, and Bob accepts or refuses.
Confidential ==
  { Make("shield", alice, 0, alice, 3, 0), Make("confidential", alice, 1, bob, 1, 6),
    Make("confidential", alice, 2, bob, 2, 5), Make("unshield", alice, 2, alice, 1, 5),
    Make("accept", bob, 0, alice, 0, 1), Make("refuse", bob, 0, alice, 0, 1) }

\* Three confidential payments to an inbox that holds two, one of which may be accepted.
ThreePayments ==
  { Make("confidential", alice, 0, bob, 1, 3), Make("confidential", alice, 1, bob, 1, 2),
    Make("confidential", gov, 0, bob, 1, 1), Make("accept", bob, 0, alice, 0, 0) }

\* A quota is voted while payments wait.
VotedQuota == { Make("policy", gov, 0, gov, 1, 0), Make("pay", alice, 0, bob, 1, 0), Make("pay", alice, 1, bob, 1, 0) }
\* One is relaxed.
RelaxedQuota == { Make("policy", gov, 0, gov, 2, 0), Make("pay", alice, 0, bob, 1, 0), Make("pay", alice, 1, bob, 1, 0) }

Load(txs, censors, cap) == [txs |-> txs, censors |-> censors, cap |-> cap]
Everyday ==
  { Load(Payments, {"n2"}, 0), Load(WithNewcomer, {}, 1), Load(Confidential, {}, 0), Load(RelaxedQuota, {}, 1),
    Load(ThreePayments, {}, 0) }
VotedLoad == {Load(VotedQuota, {}, 0)}
=============================================================================
