------------------------------- MODULE Wallet -------------------------------
(***************************************************************************)
(* ConfidentialWallet (contracts.py): what an owner keeps beside the       *)
(* ledger of Ledger to go on spending a hidden balance.  Two openings, the *)
(* confirmed and the projected one; transactions that are signed but not   *)
(* final; claims for what others pay.  Protocol version 2.                 *)
(*                                                                         *)
(* An opening is the amount: every amount is used once, and the amounts    *)
(* are such that no two sets of them have the same sum, so that it stands  *)
(* for the blinding as well.                                               *)
(***************************************************************************)
EXTENDS Ledger

CONSTANTS
  Me,        \* the owner's account
  Wishes,    \* bound: per load, what the owner may still want, [kind, amount]
  Spoilt,    \* amounts whose note does not open the commitment
  Prunes     \* bound: whether the node the wallet asks may prune its blocks

ASSUME WalletAssumption ==
  /\ Me \in Known /\ Prunes \in BOOLEAN /\ Spoilt \subseteq Nat
  /\ Wishes \in [Loads -> SUBSET [kind : {"shield", "confidential", "unshield"}, amount : Nat]]

VARIABLES
  chain,   \* the transactions of the final blocks, in order
  base,    \* how many of them the node that is asked has pruned
  wallet,  \* the wallet
  wishes,  \* what its owner has not done yet
  signed,  \* the transactions it has handed out
  given,   \* those it has rolled back (the code does not keep them)
  missed   \* what was pruned before the wallet had seen it (it cannot know)
walletVars == <<chain, base, wallet, wishes, signed, given, missed>>
allVars == <<vars, walletVars>>

-----------------------------------------------------------------------------

\* _stage: sign with the next nonce, and count on the outcome.
Signed(w, kind, to, amount, proof) ==
  [kind |-> kind, sender |-> Me, nonce |-> w.nonce, to |-> to, amount |-> amount, proof |-> proof]
Stage(w, t, after) ==
  [w EXCEPT !.nonce = @ + 1, !.amount = after, !.pending = Append(@, [tx |-> t, after |-> after])]

\* shield, pay, unshield: the proof of what remains is about the projected balance.
Asked(w, wish, to) ==
  CASE wish.kind = "shield" -> Stage(w, Signed(w, "shield", Me, wish.amount, 0), w.amount + wish.amount)
    [] wish.kind = "unshield" -> Stage(w, Signed(w, "unshield", Me, wish.amount, w.amount), w.amount - wish.amount)
    [] wish.kind = "confidential" ->
         LET t == Signed(w, "confidential", to, wish.amount, w.amount) IN
         [Stage(w, t, w.amount - wish.amount) EXCEPT !.sent = @ \cup {t}]

\* sync: the first transaction that is not final and never will be takes with it
\* whatever was queued after it.
Final == ToSet(SubSeq(chain, base + 1, Len(chain)))
Hopeless(t) ==
  \/ t.nonce < ledger.nonce[Me]
  \/ t.nonce = ledger.nonce[Me] /\ ~ Valid(NewHeight(ledger), t)
Failing(w) == {n \in DOMAIN w.pending : w.pending[n].tx \notin Final /\ Hopeless(w.pending[n].tx)}
Standing(w) ==
  IF Failing(w) = {} THEN w.pending ELSE SubSeq(w.pending, 1, Min(Failing(w)) - 1)
RolledBack(w) ==
  IF Failing(w) = {} THEN {}
  ELSE {w.pending[n].tx : n \in {m \in DOMAIN w.pending : m >= Min(Failing(w)) \/ w.pending[m].tx \notin Final}}
Included(w) == {e \in ToSet(w.pending) : e.tx \in Final}
Synced(w) ==
  LET done == Only(Standing(w), Included(w))
      keep == IF Failing(w) # {} THEN <<>> ELSE Only(w.pending, ToSet(w.pending) \ Included(w))
      confirmed == IF done = <<>> THEN w.confirmed ELSE Last(done).after IN
  [w EXCEPT !.confirmed = confirmed, !.pending = keep,
            !.amount = IF keep = <<>> THEN confirmed ELSE Last(keep).after,
            !.nonce = IF Failing(w) = {} THEN @ ELSE ledger.nonce[Me]]

\* _credit: something final has added to the hidden balance.
Mutant_Credit(w, amount) == [w EXCEPT !.amount = @ + amount, !.confirmed = @ + amount]
Credit(w, amount) ==
  [w EXCEPT !.amount = @ + amount, !.confirmed = @ + amount,
            !.pending = [n \in DOMAIN @ |-> [tx |-> @[n].tx, after |-> @[n].after + amount]]]

\* scan, for one transaction of the blocks: a payment of ours that was refused, one to
\* us that waits for our claim, or one that does not wait any more.
Refused(w, t) == {p \in w.sent : t.kind = "refuse" /\ t.to = Me /\ p.nonce = t.proof /\ p \in ToSet(chain)}
Claim(w, t) ==
  Signed(w, IF t.amount \in Spoilt THEN "refuse" ELSE "accept", t.sender, 0, t.nonce)
Mutant_Looked(w, t) ==
  IF t \in w.seen THEN w
  ELSE IF Refused(w, t) # {} THEN
    LET p == CHOOSE p \in Refused(w, t) : TRUE IN
    [Credit(w, p.amount) EXCEPT !.sent = @ \ {p}, !.seen = @ \cup {t}]
  ELSE IF t.kind # "confidential" \/ t.to # Me THEN w
  ELSE IF Entry(t) \notin ledger.inbox[Me] \/ t.amount \in Spoilt THEN [w EXCEPT !.seen = @ \cup {t}]
  ELSE [Stage(w, Claim(w, t), w.amount + t.amount) EXCEPT !.seen = @ \cup {t}]
Looked(w, t) ==
  IF t \in w.seen THEN w
  ELSE IF Refused(w, t) # {} THEN
    LET p == CHOOSE p \in Refused(w, t) : TRUE IN
    [Credit(w, p.amount) EXCEPT !.sent = @ \ {p}, !.seen = @ \cup {t}]
  ELSE IF t.kind # "confidential" \/ t.to # Me THEN w
  ELSE IF Entry(t) \notin ledger.inbox[Me] THEN [w EXCEPT !.seen = @ \cup {t}]
  ELSE [Stage(w, Claim(w, t), IF t.amount \in Spoilt THEN w.amount ELSE w.amount + t.amount)
          EXCEPT !.seen = @ \cup {t}]
Scanned(w) == FoldLeft(Looked, Synced(w), SubSeq(chain, base + 1, Len(chain)))

-----------------------------------------------------------------------------
Wish(wish, to) ==
  /\ wish \in wishes
  /\ wish.kind = "shield" \/ wish.amount <= wallet.amount
  /\ wallet' = Asked(wallet, wish, to)
  /\ wishes' = wishes \ {wish}
  /\ signed' = signed \cup {Last(wallet'.pending).tx}
  /\ UNCHANGED <<vars, chain, base, given, missed>>

Look(w) ==
  /\ wallet' = w /\ w # wallet
  /\ signed' = signed \cup {e.tx : e \in ToSet(w.pending)}
  /\ given' = given \cup RolledBack(wallet)
  /\ UNCHANGED <<vars, chain, base, wishes, missed>>
Sync == Look(Synced(wallet))
Scan == Look(Scanned(wallet))

News(w, t) ==
  \/ t \in {e.tx : e \in ToSet(w.pending)}
  \/ t.to = Me /\ t.kind \in {"confidential", "refuse"} /\ t \notin w.seen

\* The node the wallet asks keeps only what follows a snapshot.
Prune ==
  /\ Prunes /\ base < Len(chain) /\ base' = Len(chain)
  /\ missed' = missed \cup {t \in Final : News(wallet, t)}
  /\ UNCHANGED <<vars, chain, wallet, wishes, signed, given>>

WalletInit ==
  /\ Init
  /\ chain = <<>> /\ base = 0
  /\ wallet = [nonce |-> 0, amount |-> Hidden[Me], confirmed |-> Hidden[Me], pending |-> <<>>,
               sent |-> {}, seen |-> {}]
  /\ wishes = Wishes[load] /\ signed = {} /\ given = {} /\ missed = {}

WalletNext ==
  \/ \E n \in Nodes :
       /\ Produce(n) /\ chain' = chain \o Block(n).txs
       /\ UNCHANGED <<base, wallet, wishes, signed, given, missed>>
  \/ \E n \in Nodes, t \in load.txs \cup signed : Receive(n, t) /\ UNCHANGED walletVars
  \/ \E wish \in wishes, to \in Accounts \ {Me} : Wish(wish, to)
  \/ Sync \/ Scan \/ Prune

WalletSpec == WalletInit /\ [][WalletNext]_allVars

-----------------------------------------------------------------------------
\* What another device may do with the account leaves the hidden balance alone.
Hiding == {"shield", "confidential", "accept", "refuse", "unshield"}
OneWallet == \A l \in Loads : \A t \in l.txs : t.sender = Me => t.kind \notin Hiding

\* matches_ledger, after a scan that finds nothing new: the confirmed opening opens the
\* ledger's commitment, whatever was rejected, refused, returned or claimed, unless a
\* transaction the wallet has rolled back is on the ledger, or the node that was asked
\* had pruned a block the wallet had not seen.
UpToDate == Scanned(wallet) = wallet
Matches ==
  UpToDate => \/ wallet.confirmed = ledger.hidden[Me]
              \/ given \cap ToSet(chain) # {}
              \/ missed # {}

\* A payment that waits for its owner has a claim on its way, unless that claim has been
\* rolled back (it is not made again) or the payment is in a pruned block.
NothingForgotten ==
  UpToDate =>
    \A e \in ledger.inbox[Me] :
      \/ \E p \in ToSet(wallet.pending) \cup {[tx |-> t] : t \in given} :
            p.tx.kind \in {"accept", "refuse"} /\ p.tx.to = e.from /\ p.tx.proof = e.nonce
      \/ e \in {Entry(t) : t \in missed}
=============================================================================
