------------------------------- MODULE Networks -------------------------------
(***************************************************************************)
(* The networks experiments run a ledger on: Network of consensus.py, where *)
(* messages arrive at once and one round of votes decides, and             *)
(* LedgerNetwork of ledgernet.py, which runs two-phase voting for each      *)
(* height (here only its outcome, see TwoPhase).  Validators may be silent, *)
(* forge, censor or equivocate; who signs two blocks in one round is        *)
(* accused by every honest node that notices, with a transaction of its own.*)
(*                                                                         *)
(* Every node holds the same ledger and the same mempool, as all commit the *)
(* same blocks and whatever is submitted reaches all at once.  Besides      *)
(* accusations only votes for a new issuer are submitted.                   *)
(***************************************************************************)
EXTENDS Integers, SequencesExt, FiniteSetsExt

CONSTANTS
  Founding,  \* the validators at the start, in their order; each has a node
  Setups,    \* bound: the network, what each node does, who votes for the issuer, who
             \* accuses others of what they did not do
  Target,    \* whose transactions a censor leaves out
  MaxHeight, \* bound
  MaxBlocks  \* bound: blocks proposed in one round of a height, over all calls

Nodes == ToSet(Founding)
Behaviours == {"honest", "silent", "forger", "censor", "equivocator"}

ASSUME NetworksAssumption ==
  /\ Founding \in Seq(Nodes) /\ IsInjective(Founding) /\ Target \in Nodes /\ {MaxHeight, MaxBlocks} \subseteq Nat
  /\ Setups \subseteq [network : {"instant", "two_phase", "laboratory"}, behaviour : [Nodes -> Behaviours],
                       voters : SUBSET Nodes, framers : SUBSET Nodes]

VARIABLES
  setup,    \* what the run chose of Setups
  ledger,   \* the state after the last block, and who proposed that
  mempool,  \* the transactions every node holds, in the order of their arrival
  height,   \* of the next block
  round,    \* of the call of produce_block that is going on; 0 between two calls
  signed    \* the votes that were sent: [signer, height, round, block]; the blocks
            \* proposed in one round are numbered
vars == <<setup, ledger, mempool, height, round, signed>>

With(behaviour) == {n \in Nodes : setup.behaviour[n] = behaviour}
Honest == With("honest")

Mutant_RoundUp(n) == (2 * n + 2) \div 3 + 1
Quorum(n) == (2 * n) \div 3 + 1
Need == Quorum(Len(ledger.validators))
Proposer(r) == ledger.validators[((height + r) % Len(ledger.validators)) + 1]

\* What is left of a list of those to keep.
Only(q, keep) == FoldLeft(LAMBDA acc, x : IF x \in keep THEN Append(acc, x) ELSE acc, <<>>, q)

-----------------------------------------------------------------------------
(* State.apply, as far as these transactions go.                            *)

VoteOf(n, nonce) == [kind |-> "vote", sender |-> n, nonce |-> nonce, about |-> n, proof |-> {}]
EvidenceOf(n, nonce, v, proof) ==
  [kind |-> "evidence", sender |-> n, nonce |-> nonce, about |-> v, proof |-> proof]

\* Two votes for different blocks in one round.
Mutant_SameHeight(proof, v) ==
  \E a, b \in proof : a.signer = v /\ b.signer = v /\ a.height = b.height /\ <<a.round, a.block>> # <<b.round, b.block>>
Proves(proof, v) ==
  \E a, b \in proof : /\ a.signer = v /\ b.signer = v
                      /\ a.height = b.height /\ a.round = b.round /\ a.block # b.block

Valid(s, t) ==
  /\ s.nonce[t.sender] = t.nonce
  /\ IF t.kind = "vote" THEN t.sender \in ToSet(s.validators) \ s.voters /\ ~ s.issuer
     ELSE t.about \in ToSet(s.validators) /\ Proves(t.proof, t.about)

Apply(s, t) ==
  LET next == [s EXCEPT !.nonce[t.sender] = @ + 1]
      voters == s.voters \cup {t.sender} IN
  IF t.kind = "evidence"
  THEN [next EXCEPT !.validators = Only(s.validators, Nodes \ {t.about}),
                    !.slashed = s.slashed \cup {t.about}, !.voters = {}]
  ELSE IF Cardinality(voters \cap ToSet(s.validators)) >= Quorum(Len(s.validators))
  THEN [next EXCEPT !.issuer = TRUE, !.voters = {}]
  ELSE [next EXCEPT !.voters = voters]

\* build_block: passes over the pool, each of which takes what is valid.
Take(acc, t, skip) ==
  IF t \notin ToSet(acc.txs) /\ t.sender \notin skip /\ Valid(acc.s, t)
  THEN [s |-> Apply(acc.s, t), txs |-> Append(acc.txs, t)] ELSE acc
Pass(acc, pool, skip) == FoldLeft(LAMBDA a, t : Take(a, t, skip), acc, pool)
Built(s, pool, skip) == FoldLeft(LAMBDA acc, t : Pass(acc, pool, skip), [s |-> s, txs |-> <<>>], pool)

\* commit: what was included goes, and what cannot be executed any more.
Remaining(s, pool, txs) ==
  LET left == Only(pool, ToSet(pool) \ ToSet(txs))
  IN Only(left, ToSet(Built(s, left, {}).txs))

-----------------------------------------------------------------------------
(* propose and on_proposal.                                                 *)

\* The first half of the nodes is told of one block, the others of another.
Halves ==
  LET half == (Len(Founding) + 1) \div 2 IN
  <<ToSet(SubSeq(Founding, 1, half)), ToSet(SubSeq(Founding, half + 1, Len(Founding)))>>

\* What may be proposed: for each block its transactions, if they are all valid, and
\* who hears of it.  Two blocks of the same transactions are one if the clock did not
\* move on between them.
Draft(pool, skip) == Built(ledger, pool, skip).txs
Whole(txs, ok) == <<[txs |-> txs, ok |-> ok, to |-> Nodes]>>
Both(first, second) ==
  <<[txs |-> first, ok |-> TRUE, to |-> Halves[1]], [txs |-> second, ok |-> TRUE, to |-> Halves[2]]>>
TwoTales ==
  LET first == Draft(mempool, {})
      second == Draft(Reverse(mempool), IF mempool = <<>> THEN {} ELSE {Head(mempool).sender})
  IN {Both(first, second)} \cup (IF first = second THEN {Whole(first, TRUE)} ELSE {})
Proposals(p) ==
  CASE p \in With("silent")      -> {<<>>}
    [] p \in With("equivocator") -> TwoTales
    [] p \in With("forger")      -> {Whole(Draft(mempool, {}), FALSE)}
    [] p \in With("censor")      -> {Whole(Draft(mempool, {Target}), TRUE)}
    [] OTHER                     -> {Whole(Draft(mempool, {}), TRUE)}

InSlot(r) == {x \in signed : x.height = height /\ x.round = r}
Vote(n, r, block) == [signer |-> n, height |-> height, round |-> r, block |-> block]
Proposed(r) == Max({0} \cup {x.block : x \in InSlot(r)})

\* One vote per height and round, for a block that can be executed; the proposer's
\* signature counts as its vote, and an equivocator votes for all its blocks.
MayVote(n, p) == (n = p /\ p \in With("equivocator")) \/ ~ \E x \in InSlot(round) : x.signer = n
VotersFor(b, p) ==
  {p} \cup {n \in (b.to \cap ToSet(ledger.validators)) \ With("silent") : b.ok /\ MayVote(n, p)}

\* Everyone sees every vote, so honest nodes notice at the same time.  The nonce comes
\* after what its sender has in the mempool.
Own(n, pool) == Cardinality({t \in ToSet(pool) : t.sender = n})
Mutant_NoQueue(n, pool) == ledger.nonce[n]
NextNonce(n, pool) == ledger.nonce[n] + Own(n, pool)
Accuse(pool, v, votes) ==
  LET accusers == Only(Founding, Honest)
  IN pool \o [i \in DOMAIN accusers |->
                EvidenceOf(accusers[i], NextNonce(accusers[i], pool), v, {x \in votes : x.signer = v})]
Accused(votes) ==
  LET new == {v \in Nodes : Proves(votes, v) /\ ~ Proves(InSlot(round), v)}
  IN FoldLeft(LAMBDA pool, v : Accuse(pool, v, votes), mempool, Only(Founding, new))

-----------------------------------------------------------------------------
\* The block becomes the next of every chain; late is submitted after that.
Finalise(txs, p, pool, late) ==
  LET next == [FoldLeft(Apply, ledger, txs) EXCEPT !.by = p] IN
  /\ ledger' = next
  /\ mempool' = Remaining(next, pool, txs) \o Only(late, {t \in ToSet(late) : t.nonce >= next.nonce[t.sender]})
  /\ height' = height + 1 /\ round' = 0

\* Network.produce_block, one round of it; after the last one it gives up.
Round ==
  LET p == Proposer(round) IN
  /\ setup.network = "instant" /\ height < MaxHeight /\ round < Len(ledger.validators)
  /\ \E blocks \in Proposals(p) :
       LET voters == [i \in DOMAIN blocks |-> VotersFor(blocks[i], p)]
           votes == InSlot(round) \cup
                    UNION {{Vote(n, round, Proposed(round) + i) : n \in voters[i]} : i \in DOMAIN blocks}
           won == {i \in DOMAIN blocks : Cardinality(voters[i]) >= Need} IN
       /\ Proposed(round) + Len(blocks) <= MaxBlocks
       /\ signed' = signed \cup votes
       /\ IF won # {} THEN Finalise(blocks[Min(won)].txs, p, Accused(votes), <<>>)
          ELSE /\ round' = (round + 1) % Len(ledger.validators)
               /\ mempool' = Accused(votes)
               /\ UNCHANGED <<ledger, height>>
  /\ UNCHANGED setup

\* LedgerNetwork.produce_block: a block made in round r is decided, then or later.  In the
\* rounds told an equivocator has told each half another story; whoever saw both stories
\* accuses it once the block is committed.  (Voting may fail too, and changes nothing.)
TwoStories(k) == {Vote(Proposer(k), k, 1), Vote(Proposer(k), k, 2)}
Notices(n, saw) ==
  LET rounds == Only([k \in 1 .. Len(ledger.validators) |-> k - 1], saw) IN
  [j \in DOMAIN rounds |->
     EvidenceOf(n, NextNonce(n, mempool) + j - 1, Proposer(rounds[j]), TwoStories(rounds[j]))]
Noticed(present, saw) == FoldLeft(LAMBDA q, n : q \o Notices(n, saw[n]), <<>>, present)
Height(r) ==
  LET turns == {k \in 0 .. Len(ledger.validators) - 1 : Proposer(k) \in With("equivocator")}
      present == Only(ledger.validators, Honest) IN
  /\ setup.network = "two_phase" /\ height < MaxHeight
  /\ Proposer(r) \notin With("forger")
  /\ Cardinality(ToSet(ledger.validators) \ With("silent")) >= Need
  /\ \E blocks \in Proposals(Proposer(r)), told \in SUBSET turns :
       /\ r \in told <=> Len(blocks) = 2
       /\ \E i \in DOMAIN blocks, saw \in [ToSet(present) -> SUBSET told] :
            Finalise(blocks[i].txs, Proposer(r), mempool,
                     Noticed(present, saw))
  /\ UNCHANGED <<setup, signed>>

-----------------------------------------------------------------------------
(* submit, between two calls.                                               *)

Submit(t) ==
  /\ round = 0 /\ t \notin ToSet(mempool) /\ t.nonce >= ledger.nonce[t.sender]
  /\ mempool' = Append(mempool, t)
  /\ UNCHANGED <<setup, ledger, height, round, signed>>

VoteForIssuer(n) ==
  /\ n \in setup.voters \ ledger.voters /\ ~ ledger.issuer
  /\ \A t \in ToSet(mempool) : t.kind = "vote" => t.sender # n
  /\ Submit(VoteOf(n, NextNonce(n, mempool)))

\* Anyone may submit evidence, made of any two votes somebody sent.
Frame(n, a, b) ==
  /\ n \in setup.framers /\ a.signer = b.signer /\ a # b /\ a.height = b.height
  /\ Own(n, mempool) = 0
  /\ Submit(EvidenceOf(n, NextNonce(n, mempool), a.signer, {a, b}))

Init ==
  /\ setup \in Setups
  /\ ledger = [validators |-> Founding, slashed |-> {}, nonce |-> [n \in Nodes |-> 0],
               voters |-> {}, issuer |-> FALSE, by |-> Head(Founding)]
  /\ mempool = <<>> /\ height = 1 /\ round = 0 /\ signed = {}

Next ==
  \/ Round
  \/ \E r \in 0 .. Len(ledger.validators) - 1 : Height(r)
  \/ \E n \in Nodes : VoteForIssuer(n)
  \/ \E n \in Nodes, a, b \in signed : Frame(n, a, b)

Spec == Init /\ [][Next]_vars

-----------------------------------------------------------------------------
\* Only who equivocated is ever removed, although honest validators vote in several
\* rounds of a height, sign again in a second call for the same height, and anyone may
\* accuse (state.py: "an honest validator may vote for different blocks in different
\* rounds").
OnlyEquivocatorsSlashed == ledger.slashed \subseteq With("equivocator")

\* Somebody can make blocks and means to.
Productive ==
  \A s \in Setups : s.network # "laboratory" => \E n \in Nodes : s.behaviour[n] \in {"honest", "censor"}

\* While fewer than a third of the validators misbehave, produce_block finds a block
\* before every validator had its turn (consensus.py: "None means liveness was lost").
Faulty == ToSet(ledger.validators) \ (Honest \cup With("censor"))
AlwaysProduces ==
  [][3 * Cardinality(Faulty) < Len(ledger.validators) /\ round' # round => round' > round \/ height' > height]_vars

\* An accusation that proves what it says is never lost and is carried out by the next
\* block of an honest proposer, whatever else its sender and the others have in the
\* mempool: in the end its subject is removed.  Unless an earlier transaction of its
\* sender cannot be executed any more (a vote for an issuer admitted by then, an accusation
\* of somebody another had removed): what comes after that in the queue goes with it.
Accusations == {t \in ToSet(mempool) : t.kind = "evidence" /\ Proves(t.proof, t.about)}
Leads(e) ==
  \A k \in ledger.nonce[e.sender] .. e.nonce - 1 : \E t \in ToSet(mempool) : t.sender = e.sender /\ t.nonce = k
Spoilt(e) ==
  \E t \in ToSet(mempool) \ ToSet(mempool') :
    t.sender = e.sender /\ ledger'.nonce[e.sender] <= t.nonce /\ t.nonce < e.nonce
AccusationsStand ==
  [][\A e \in Accusations :
       Leads(e) /\ ~ Spoilt(e) =>
         \/ e.about \notin ToSet(ledger'.validators)
         \/ /\ e.about \in {t.about : t \in Accusations'}
            /\ height' > height => ledger'.by \notin Honest]_vars
=============================================================================
