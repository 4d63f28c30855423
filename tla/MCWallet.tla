------------------------------ MODULE MCWallet ------------------------------
(* Instances of Wallet: Alice's wallet, and Bob, who pays her and answers.   *)
EXTENDS Wallet, TLC

CONSTANTS alice, bob

Make(kind, sender, nonce, to, amount, proof) ==
  [kind |-> kind, sender |-> sender, nonce |-> nonce, to |-> to, amount |-> amount, proof |-> proof]
Money == (alice :> 8) @@ (bob :> 16)
Coins == (alice :> 8) @@ (bob :> 48)
Want(kind, amount) == [kind |-> kind, amount |-> amount]

\* Bob pays twice, once with a note that is of no use.
Paid == { Make("confidential", bob, 0, alice, 16, 48), Make("confidential", bob, 1, alice, 32, 32) }
\* Bob refuses a payment, or accepts it.
Answers == { Make("refuse", bob, 0, alice, 0, 0), Make("accept", bob, 0, alice, 0, 0),
             Make("refuse", bob, 0, alice, 0, 1) }
\* Another device uses Alice's key; Bob pays her openly.
Elsewhere == { Make("pay", alice, 0, bob, 8, 0), Make("pay", bob, 0, alice, 16, 0) }

Load(txs) == [txs |-> txs, censors |-> {}, cap |-> 0]
AllLoads == {Load(Paid), Load(Answers), Load(Elsewhere)}
AllWishes ==
  (Load(Paid) :> {Want("shield", 4), Want("confidential", 1)})
  @@ (Load(Answers) :> {Want("confidential", 1), Want("unshield", 2), Want("shield", 4)})
  @@ (Load(Elsewhere) :> {Want("shield", 4), Want("confidential", 1), Want("shield", 2)})

ASSUME HypothesisMet == OneWallet
=============================================================================
