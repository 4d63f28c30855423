------------------------------- MODULE Ledger -------------------------------
(***************************************************************************)
(* Transactions from the mempools into blocks: State.apply with payments   *)
(* and confidential balances (state.py), and Node of consensus.py, which   *)
(* collects transactions, builds blocks, re-executes those of others and   *)
(* keeps what can still be executed.  Protocol version 2.                  *)
(*                                                                         *)
(* One block after the other is finalised (how is the subject of TwoPhase);*)
(* any node may be the proposer.  A commitment is the amount it hides; a   *)
(* proof about what remains is bound to the hidden balance it starts from. *)
(***************************************************************************)
EXTENDS Integers, SequencesExt, FiniteSetsExt

CONSTANTS
  Accounts,
  Known,       \* the accounts of the founding record
  Exempt,      \* accounts with an institutional role
  Balance,     \* their balances
  Hidden,      \* hidden balances to start with
  Nodes,
  Loads,       \* bound: the transactions people submit, the nodes that leave out those
               \* of Target, and max_tx_per_block of the founding record, 0 for none
  Target,
  MaxTxs,      \* max_block_txs
  MaxMempool,
  MaxIncoming, \* unclaimed confidential payments per account
  PerSender,   \* of which from one payer
  MaxHidden    \* the largest amount a range proof covers

Kinds == {"register", "pay", "shield", "confidential", "accept", "refuse", "unshield", "policy"}
\* proof: the hidden balance a proof was made for, or the nonce of the payment a
\* claim is about.  to: the payer, in a claim.  policy: the vote that completes the
\* quorum for a new quota (votes are counted in Governance).
Tx == [kind : Kinds, sender : Accounts, nonce : Nat, to : Accounts, amount : Nat, proof : Nat]

ASSUME LedgerAssumption ==
  /\ IsFiniteSet(Accounts) /\ Exempt \subseteq Known /\ Known \subseteq Accounts
  /\ {Balance, Hidden} \subseteq [Accounts -> Nat]
  /\ Loads \subseteq [txs : SUBSET Tx, censors : SUBSET Nodes, cap : Nat] /\ Target \in Accounts
  /\ {MaxTxs, MaxMempool, MaxIncoming, PerSender, MaxHidden} \subseteq Nat

VARIABLES
  load,    \* what the run chose of Loads
  ledger,  \* the state after the last block
  mempool  \* the transactions each node holds, in the order of their arrival
vars == <<load, ledger, mempool>>

-----------------------------------------------------------------------------
(* State.apply.  s is a state, t a transaction.                             *)

\* An unclaimed payment is named by its payer and the nonce it used.
Entry(t) == [from |-> t.sender, nonce |-> t.nonce, amount |-> t.amount]
Claimed(s, t) == {e \in s.inbox[t.sender] : e.from = t.to /\ e.nonce = t.proof}

Mutant_AllExempt(s, t) == TRUE
WithinQuota(s, t) == s.cap = 0 \/ t.sender \in Exempt \/ s.count[t.sender] < s.cap

\* Range proofs on the amount and on what remains.
Provable(s, t) ==
  /\ s.hidden[t.sender] = t.proof
  /\ t.amount \in 0 .. MaxHidden /\ t.proof - t.amount \in 0 .. MaxHidden

Room(s, t) ==
  /\ Cardinality(s.inbox[t.to]) < MaxIncoming
  /\ Cardinality({e \in s.inbox[t.to] : e.from = t.sender}) < PerSender

CanPay(s, t) == t.to \in s.known \ {t.sender} /\ t.amount > 0 /\ s.balance[t.sender] >= t.amount

Admissible(s, t) ==
  CASE t.kind = "pay"          -> CanPay(s, t)
    [] t.kind = "shield"       -> t.amount \in 1 .. MaxHidden /\ s.balance[t.sender] >= t.amount
    [] t.kind = "confidential" -> t.to \in s.known \ {t.sender} /\ Provable(s, t) /\ Room(s, t)
    [] t.kind = "unshield"     -> t.amount > 0 /\ Provable(s, t)
    [] t.kind \in {"accept", "refuse"} -> Claimed(s, t) # {}
    [] t.kind = "policy"       -> t.sender \in Exempt

Valid(s, t) ==
  /\ WithinQuota(s, t)
  /\ IF t.kind = "register" THEN t.sender \notin s.known /\ t.nonce = 0
     ELSE t.sender \in s.known /\ s.nonce[t.sender] = t.nonce /\ Admissible(s, t)

\* A claim takes the payment out of the inbox, and back to its payer if it is refused.
Mutant_Peek(inbox, e) == inbox
Popped(inbox, e) == inbox \ {e}
Refunded(t) == t.to

\* The effect of the handlers.
Handled(s, t) ==
  CASE t.kind = "register" -> [s EXCEPT !.known = @ \cup {t.sender}]
    [] t.kind = "pay"      -> [s EXCEPT !.balance[t.sender] = @ - t.amount, !.balance[t.to] = @ + t.amount]
    [] t.kind = "shield"   -> [s EXCEPT !.balance[t.sender] = @ - t.amount, !.hidden[t.sender] = @ + t.amount]
    [] t.kind = "unshield" -> [s EXCEPT !.hidden[t.sender] = @ - t.amount, !.balance[t.sender] = @ + t.amount]
    [] t.kind = "confidential" ->
         [s EXCEPT !.hidden[t.sender] = @ - t.amount, !.inbox[t.to] = @ \cup {Entry(t)}]
    [] t.kind \in {"accept", "refuse"} ->
         LET e == CHOOSE e \in Claimed(s, t) : TRUE
             to == IF t.kind = "accept" THEN t.sender ELSE Refunded(t) IN
         [s EXCEPT !.inbox[t.sender] = Popped(@, e), !.hidden[to] = @ + e.amount]
    [] t.kind = "policy"   -> [s EXCEPT !.cap = t.amount]

\* The nonce is used up, and the quota counts while there is one.
After(s, t) ==
  [Handled(s, t) EXCEPT !.nonce[t.sender] = @ + 1,
                        !.count[t.sender] = IF Handled(s, t).cap = 0 THEN @ ELSE @ + 1]

\* What a refused transaction leaves behind: a confidential payment has already
\* taken the amount from its payer when it finds the inbox full.
Mutant_TakenUnproved(s, t) ==
  IF /\ t.kind = "confidential" /\ WithinQuota(s, t)
     /\ t.sender \in s.known /\ s.nonce[t.sender] = t.nonce
     /\ t.to \in s.known \ {t.sender}
  THEN [s EXCEPT !.hidden[t.sender] = @ - t.amount]
  ELSE s
Residue(s, t) ==
  IF /\ t.kind = "confidential" /\ WithinQuota(s, t)
     /\ t.sender \in s.known /\ s.nonce[t.sender] = t.nonce
     /\ t.to \in s.known \ {t.sender} /\ Provable(s, t)
  THEN [s EXCEPT !.hidden[t.sender] = @ - t.amount]
  ELSE s

Zero == [a \in Accounts |-> 0]
NewHeight(s) == [s EXCEPT !.count = Zero]
\* The state root does not cover the counts.
Root(s) == NewHeight(s)

-----------------------------------------------------------------------------
(* Building and executing blocks.                                           *)

\* Going through a pool: what has been chosen so far, and the state it leads to.
Mutant_LimitLate(acc, t, skip, limit) ==
  IF t \in ToSet(acc.chosen) \/ t.sender \in skip THEN acc
  ELSE IF ~ Valid(acc.s, t) THEN [acc EXCEPT !.s = Residue(@, t)]
  ELSE [acc EXCEPT !.s = After(@, t), !.chosen = IF Len(@) >= limit THEN @ ELSE Append(@, t)]
Offer(acc, t, skip, limit) ==
  IF t \in ToSet(acc.chosen) \/ t.sender \in skip \/ Len(acc.chosen) >= limit THEN acc
  ELSE IF Valid(acc.s, t) THEN [acc EXCEPT !.s = After(@, t), !.chosen = Append(@, t)]
  ELSE [acc EXCEPT !.s = Residue(@, t)]

\* Passes over the pool, until one chooses nothing.
Mutant_OnePass(pool) == 1
Passes(pool) == Len(pool) + 1
Pass(acc, pool, skip, limit) ==
  LET next == FoldLeft(LAMBDA a, t : Offer(a, t, skip, limit), acc, pool) IN
  IF acc.done THEN acc ELSE [next EXCEPT !.done = next.chosen = acc.chosen]
Chosen(s, pool, skip, limit) ==
  FoldLeft(LAMBDA acc, k : Pass(acc, pool, skip, limit),
           [s |-> s, chosen |-> <<>>, done |-> FALSE], [k \in 1 .. Passes(pool) |-> k])

\* build_block
Mutant_AllCensor(n) == {Target}
Skipped(n) == IF n \in load.censors THEN {Target} ELSE {}
Block(n) ==
  LET built == Chosen(NewHeight(ledger), mempool[n], Skipped(n), MaxTxs) IN
  [txs |-> built.chosen, root |-> Root(built.s)]

\* execute: every transaction valid in its turn, and the same root.
Runs(s, q) == \A i \in DOMAIN q : Valid(FoldLeft(After, s, SubSeq(q, 1, i - 1)), q[i])
Result(s, b) == FoldLeft(After, NewHeight(s), b.txs)
Executable(s, b) ==
  /\ Runs(NewHeight(s), b.txs)
  /\ Root(Result(s, b)) = b.root

\* commit: included transactions go, and those that cannot be executed any more.  The
\* quota does not count here.
NoQuota(s) == [NewHeight(s) EXCEPT !.cap = 0]
Only(pool, keep) == FoldLeft(LAMBDA q, t : IF t \in keep THEN Append(q, t) ELSE q, <<>>, pool)
Kept(s, pool, b) ==
  LET left == Only(pool, ToSet(pool) \ ToSet(b.txs))
  IN Only(left, ToSet(Chosen(NoQuota(s), left, {}, Len(left)).chosen))

-----------------------------------------------------------------------------
\* receive_tx
Receive(n, t) ==
  /\ t \notin ToSet(mempool[n]) /\ Len(mempool[n]) < MaxMempool
  /\ t.sender \in ledger.known \/ t.kind = "register"
  /\ t.nonce >= ledger.nonce[t.sender]
  /\ mempool' = [mempool EXCEPT ![n] = Append(@, t)]
  /\ UNCHANGED <<load, ledger>>

\* Node n is the proposer: its block is executed and committed by all, or refused.
Produce(n) ==
  LET b == Block(n)
      next == Result(ledger, b) IN
  /\ Executable(ledger, b)
  /\ ledger' = next
  /\ mempool' = [m \in Nodes |-> Kept(next, mempool[m], b)]
  /\ UNCHANGED load

Init ==
  /\ load \in Loads
  /\ ledger = [known |-> Known, nonce |-> Zero, balance |-> Balance, hidden |-> Hidden,
               inbox |-> [a \in Accounts |-> {}], cap |-> load.cap, count |-> Zero]
  /\ mempool = [n \in Nodes |-> <<>>]

Next ==
  \/ \E n \in Nodes, t \in load.txs : Receive(n, t)
  \/ \E n \in Nodes : Produce(n)

Spec == Init /\ [][Next]_vars

\* The proposer rotates, so every node's turn comes again and again: weak fairness of
\* Produce, with "its block would be empty" for "it is not enabled".
FairSpec ==
  Spec /\ \A n \in Nodes : []<>(Block(n).txs = <<>>) \/ []<><<Produce(n)>>_vars

-----------------------------------------------------------------------------
Amounts == [Accounts -> Nat]

\* The shape of the state: no balance is ever overdrawn, no mempool holds a
\* transaction twice.
TypeOK ==
  /\ load \in Loads
  /\ ledger \in [known : SUBSET Accounts, nonce : Amounts, balance : Amounts, hidden : Amounts,
                 inbox : [Accounts -> SUBSET [from : Accounts, nonce : Nat, amount : Nat]],
                 cap : Nat, count : Amounts]
  /\ \A n \in Nodes : mempool[n] \in Seq(load.txs) /\ IsInjective(mempool[n])

\* Whatever is paid, shielded, claimed or refused, the money people hold openly,
\* hidden or unclaimed is what there was at the start.
Sum(f) == FoldFunction(+, 0, f)
Unclaimed(s) == [a \in Accounts |-> FoldSet(LAMBDA e, n : n + e.amount, 0, s.inbox[a])]
MoneyConserved ==
  Sum(ledger.balance) + Sum(ledger.hidden) + Sum(Unclaimed(ledger)) = Sum(Balance) + Sum(Hidden)

\* The confidential payments of a pool could overfill an inbox, in all or from one payer.
Arriving(s, pool, a) ==
  s.inbox[a] \cup {Entry(t) : t \in {u \in pool : u.kind = "confidential" /\ u.to = a}}
Crowded(s, pool) ==
  \E a \in Accounts :
    \/ Cardinality(Arriving(s, pool, a)) > MaxIncoming
    \/ \E b \in Accounts : Cardinality({e \in Arriving(s, pool, a) : e.from = b}) > PerSender

\* The block an honest proposer builds is one every node, itself included, accepts; unless
\* its mempool may overfill an inbox.  A transaction that fails leaves the state
\* untouched, as state.py promises, but for a confidential payment that finds the inbox
\* full (Residue): then the proposer has built on a state nobody else has.
HonestBlocksExecute ==
  \A n \in Nodes : Crowded(ledger, ToSet(mempool[n])) \/ Executable(ledger, Block(n))

\* A transaction leaves a mempool only if its nonce is used, or if what waits there can
\* be executed, without it, to a point where neither it nor any other can follow: never
\* because it came too early in the pool, nor because of the quota (consensus.py: "quota
\* delays, never drops"), unless a vote that waits as well lowers the quota below what
\* somebody has waiting, or the pool may overfill an inbox.
Dead(s, pool, t) ==
  \E k \in 0 .. Cardinality(pool) : \E q \in [1 .. k -> pool \ {t}] :
    Runs(s, q) /\ \A u \in pool : ~ Valid(NoQuota(FoldLeft(After, s, q)), u)
Rationed(s, pool) ==
  \E v \in pool, a \in Accounts \ Exempt :
    /\ v.kind = "policy" /\ s.nonce[v.sender] <= v.nonce
    /\ v.amount \in 1 .. Cardinality({u \in pool : u.sender = a}) - 1
DroppedOnlyIfDead ==
  [][\A n \in Nodes : \A t \in ToSet(mempool[n]) \ ToSet(mempool'[n]) :
       \/ ledger'.nonce[t.sender] > t.nonce
       \/ Rationed(ledger', ToSet(mempool[n]))
       \/ Crowded(ledger', ToSet(mempool[n]))
       \/ Dead(NoQuota(ledger'), ToSet(mempool[n]), t)]_vars

\* No account gets more transactions into a block than the quota allows, whatever
\* others do and however often the pool was gone through; unless the block holds a
\* vote on the quota, which takes effect at once.
Voted == \E t \in load.txs : /\ t.kind = "policy"
                             /\ ledger.nonce[t.sender] <= t.nonce /\ t.nonce < ledger'.nonce[t.sender]
QuotaKept ==
  [][\A a \in Accounts \ Exempt :
       ledger.cap # 0 /\ ~ Voted => ledger'.nonce[a] <= ledger.nonce[a] + ledger.cap]_vars

Open == {"pay", "register"}

\* A payment that could be executed, and that every honest node has, is included in
\* the end (or another one with its nonce is), although some proposers censor it.
EventuallyIncluded ==
  \A t \in UNION {l.txs : l \in Loads} : t.kind \in Open =>
    (/\ Valid(NoQuota(ledger), t)
     /\ \A n \in Nodes \ load.censors : t \in ToSet(mempool[n])) ~> ledger.nonce[t.sender] > t.nonce
=============================================================================
