# Verification of juris-ledger

TLA+ modules, TLC runs and TLAPS proofs for the permissioned ledger in
`src/jurisledger/`.  Every definition is translated from the source; the docs
and tests say what the properties ought to be.  `PROJECT.json` maps each
definition to the lines it stands for.

    tlc -workers 2 -config TwoPhaseFaulty.cfg MCTwoPhase     # a run
    tlapm TwoPhaseProofs.tla                                 # a proof

## 1. The system

Citizens, firms and institutions sign transactions; validators put them into
blocks and finalise a block with the signatures of more than two thirds of
themselves.  Every validator executes every block on its own copy of the state.

| component | state it keeps | operations | interacts with |
|---|---|---|---|
| two-phase voting (`bft.py` TwoPhaseNode, `ledgernet.py` _BlockMixin, `net.py` run loop) | round, step, lock, valid value, votes heard | proposal, prevote, precommit, round skip, timeouts, decide, adopt, restart, held-back proposal | signs through the journal; executes blocks through `chain.py`; commits to the store |
| signing journal (`signguard.py`) | the last position signed and the lock, in memory and in `sign_state.json` | check_and_record, lock_for, resume_round, open | called before every signature; read at restart |
| block store (`storage.py`) | `blocks.jsonl`, `snapshot.json`, `anchor.json`, `archive/` | append, load, compact, install_snapshot | the run loop appends; restart loads; a peer's snapshot replaces it |
| validator process (`net.py`) | current height, buffered messages by height, sockets, readers and their slots | handle, start height, catch up, serve blocks and snapshots, connect, admit peers and clients | the peers, the store, the voting node |
| state machine (`state.py`) | accounts, nonces, balances, hidden balances, contracts, disputes, votes, policy, recoveries | `apply`, one handler per transaction kind | executed by every validator in every block; by the mempool as a trial |
| mempool and block building (`consensus.py` Node) | mempool, chain | receive_tx, build_block, commit, observe (evidence) | `State.apply`, `Chain.execute` |
| chain (`chain.py`, `block.py`) | blocks since the snapshot, state | execute, check_certificate, add_block, audit, light client | everything above |
| networks for experiments (`consensus.py` Network, `ledgernet.py` LedgerNetwork, `bft.py` Sim) | nodes with behaviours, the round going on | produce_block | build, vote, accuse, commit at once or in two phases |
| document vault (`vault.py`) | shares, journal of releases | seal, release, contribute, adopt, reshare | reads the ledger's access receipts |
| confidential wallet (`contracts.py`) | known openings, pending transactions | shield, pay, unshield, sync, scan | follows finalised blocks of a node that may prune |
| readers: search index (`index.py`), evidence bundles and compliance (`legal.py`), statistics and tables (`stats.py`, `accounts.py`), screens (`fraud.py`) | the index has a database | sync, bundles and their verification, sums | copies of the chain, pruned or behind |
| cryptography, key files, HTTP API, dashboard, command line, fuzzer and experiments | - | - | drivers and primitives |

What makes it hard: validators interleave, are late, restart, lie; messages are
lost, duplicated, reordered and buffered; a process or the machine dies between
two writes, and writes fail; what a vote, a tally, a recovery or a mempool entry
was decided under (validator set, policy, authority, state) changes before it
takes effect; queues and windows are bounded.  `PROJECT.json` lists each such
hazard at its line with the properties that cover it, and the ones that none
covers yet.

What makes each part correct, in a sentence: one block per height, for good
(voting); no second signature at one position and no forgotten lock (journal);
a store that opens, and opens where the validator was (store); a late validator
catches up (catch-up); only what honest validators approve of is enacted, and
faults stay below a third (governance); what an account owns stays with one usable key, its owner's
(identity); money is conserved, honest blocks execute, and nothing executable is
lost from the mempool (ledger); a contract is in force when and because its
parties signed, and relief once granted stands (contracts); who opens a text has
left a receipt first (vault); the wallet knows what it has (wallet); what a
reader reports is what the chain says (readers); only equivocators are removed,
and blocks go on being made (networks).

## 2. Modules

`Consensus` is the abstract promise; the others model code.

| module | code | its state in the code | steps |
|---|---|---|---|
| `Consensus` | what one height promises | `chosen`: blocks that can be certified; `decision` | choose, learn, forget |
| `TwoPhase` | `bft.py` 39-139, 186-290; `ledgernet.py` 35-186; `net.py` run loop | `round` ... `polkaSeen`: fields of TwoPhaseNode; `pending`: first_round of `Validator.run`; `journal`: SignGuard; message sets: everything signed so far | one action per rule of `evaluate`, per timeout, for releasing the held-back proposal, and for a restart |
| `SignGuard` | `signguard.py` | `mem`, `disk`, `durable`: the object, the file, what survives a power cut | a save in its two system calls, kill, power cut, open |
| `Store` | `storage.py`, `net.py` _commit and _install_snapshot | memory chain `base..height`; the four files | one action per write, crash, failed write, open |
| `Governance` | `state.py` _validator_vote, _evidence, _register, _key_rotate; `net.py` 388 | validators, slashed, issuers, gov_votes, roles | one transaction each |
| `Identity` | `state.py` 633-742 | accounts, what each holds (`estate`, `hidden`), successor, attestations, recoveries; `since` is a history variable | one transaction each, next block |
| `CatchUp` | `net.py` 324-443 | `future`, requests and replies under way, one late validator against the others | messages heard, buffered, served; restart |
| `Peers` (extends CatchUp) | `net.py` 180-240, 384-411, 490-573 | sockets, readers and slots of the same validator, who runs, the two lists of validators | a vote is sent, a socket fails, connects, is closed or vanishes; clients; restarts; a removal |
| `Ledger` | `state.py` apply with payments and confidential balances; `consensus.py` Node; `chain.py` execute | the state after the last block; the mempools | receive a transaction; produce, execute and commit a block |
| `Wallet` (extends Ledger) | `contracts.py` ConfidentialWallet | the wallet's openings, pending, sent and seen transactions | a wish, sync, scan, and the node pruning its blocks |
| `Contracts` | `state.py` 309-518, `legal.py` compliance | contracts, disputes, payments of duties, access log | one transaction each, next block |
| `Vault` (extends Contracts) | `vault.py` | sealed files by epoch, custodians with memory and journal, what readers hold | seal, release, die, fail to write, start, re-share, leak |
| `Readers` | `chain.py` copies, `stats.py`, `accounts.py`, `index.py` | the chain; the database of the index | finalise a block; sync the index, die in between, rebuild it |
| `Merkle`, `Evidence` (extends Readers) | `crypto.py` 165-216, `legal.py` 98-259 | none: operators on copies of the chain | - |
| `Fraud` (extends Readers) | `fraud.py` 21-102 | none | - |
| `Networks` | `consensus.py` 42-298, `ledgernet.py` 167-333 | validators, nonces, votes; mempool; signed votes; the round of produce_block | a round, a height in two phases, votes and accusations submitted |
| `SinglePhase` (extends Networks) | `bft.py` 142-183, 292-425 | one height of the laboratory | vote, decide, adopt, tick |

`MC...` modules only give instances.  The theorems are in `TwoPhaseProofs`,
`ValidatorProofs` (SignGuard, CatchUp and Peers), `StoreProofs`, `GovernanceProofs`,
`IdentityProofs`, `LedgerProofs` (Ledger and Wallet), `DocumentsProofs` (Contracts and
Vault) and `LaboratoryProofs` (Networks and SinglePhase).  A module that extends another one shares a run with it: `Init` chooses which of the two a behaviour is
about (`Scenes`, `Setups`, `Cases`), except that the vault and the wallet go on
beside the ledger they read.

Choices worth knowing:

* **TwoPhase** fixes one height.  The network is the set of all messages ever
  signed, and a rule may fire on any part of it, so loss, delay, duplication and
  reordering need no actions.  A faulty validator has signed everything.
  `evaluate` runs its rules in a loop; here each rule is a step, which adds the
  crashes between two signatures.  Validity of a block is `Executable`, plus a
  free choice for the clock check.
* **SignGuard** separates `os.replace` from the `fsync` of the directory, because
  a kill and a power cut differ exactly there; `DirFsync = FALSE` is a file
  system that cannot sync a directory (the code swallows that error).  `Histories`
  lists which kinds of failure a behaviour may have; `failures` is its choice.
* **Store** reduces a certificate to who can vouch for it.  A failing write may
  or may not have taken effect; an append may stop inside a line.  `Settings` are
  the ways a validator is run (archive or not, when the validator set changes,
  snapshots from peers or not); `failed` remembers that a write has failed, after
  which a store may refuse to open but must not skip a block.
* **Governance** and **Identity** take the ledger as given: a step is one
  transaction applied.  Honest validators and issuers act only as they approve;
  faulty ones without limit.  What an account owns is two sets in Identity: the
  `estate` (balance, contracts, places in disputes), which `_migrate` moves to the new
  key, and the `hidden` part (hidden balance, unclaimed payments), which it copies and
  leaves on the old key as well (`state.py:670`).  `Worlds` says which issuers are corrupt and whose owners look at the
  ledger.  Both are protocol version 2.
* **CatchUp** and **Peers** follow one validator, which is late.  Certificates are genuine.  The others
  go on voting on their next height, which is what makes the late one ask.
  `Keeps` are the peers' pruning intervals.  In Peers a socket is ours, theirs, or
  open at one end only; readers that nobody will ever close (`dead`) hold their slot.
  `jumped` is history: the heights that snapshots made the process jump over since it started.
* **Ledger** takes agreement as given and finalises one block after another by
  any proposer.  `Loads` are the sets of transactions people submit, with the
  censoring nodes and the founding quota.  A commitment is the amount it hides, a proof about what remains
  is bound to the hidden balance it starts from, and a policy transaction stands
  for the vote that completes a quorum.  `Residue` is what a *refused*
  confidential payment leaves in the state it was tried on.  Roles, purposes,
  obligations and the limit for unverified accounts are left out here: they are
  static refusals.
* **Contracts** lets any payer pay.  A report is a function of the ledger and a
  height, so it can be compared with itself one step, or several awards, later.
* **Vault** computes real Shamir shares over the field of five elements, so that
  secrecy can be checked by counting: the liars' view must fit every key.  A
  commitment to a polynomial is that polynomial, looked at by public checks only.
  `Reshare` gives every new custodian the share its `adopt` computes.  `vault.py` 406-424
  believes what a lying new custodian returns there, which may be another share; since a
  liar's shares never count as an honest opening and it knows the right one anyway,
  the properties see no difference.
* **Wallet** uses amounts no two sets of which have the same sum, so that an amount
  stands for the whole opening.  `given` and `missed` are history: what the wallet
  has rolled back, and what was pruned before it looked.
* **Readers**: a copy of the chain is its blocks, its height and the base it starts
  from; the index remembers what a hash of a block stands for, all the blocks up to
  it.  **Evidence** tries every bundle that can be put together from the items of
  the chain and those of `Alien`.  **Merkle** represents a hash by the term it was
  computed from.
* **Networks** keeps one ledger and one mempool, because every node commits the same
  blocks and is sent the same transactions.  The two-phase network contributes the
  outcome of a height only, TwoPhase its inside.  In **SinglePhase** liars have signed
  everything from the start, as the faulty do in TwoPhase.  `Equivocators` compares
  single-phase votes the way `bft.py` 355-366 compares the prevotes and precommits of a
  TwoPhaseNode: two values signed by one validator in one round.

## 3. Runs

Each configuration asks one question of one component.  A constant such as
`Histories`, `Settings`, `Worlds`, `Keeps` or `Loads` holds several situations;
`Init` chooses one and the behaviour stays in it.

| run | shows | bounds |
|---|---|---|
| TwoPhaseFaulty | agreement, the lock rule, and no honest precommit for a block the ledger rejects, against an equivocating first proposer | 4 validators, 3 blocks of which one does not execute, 2 rounds: the first in which a lock can be attacked |
| TwoPhaseRestarts | no double signing and refinement of Consensus with restarts at any point and a held-back proposal | 3 validators, none faulty, two restarting, one of them waiting; 2 blocks, 2 rounds |
| SignGuardFailures | one value per position; a restart resumes where the last signature was | 1 height of 2 rounds, 2 blocks, saves cut at each call, by kills or by power cuts |
| StoreCrashes | a crash between any two writes leaves a store that opens, at the height memory had; after failed and half writes it refuses or is complete, never short a block | 8 blocks, pruning every 2, with archive and a change of validators, or with peers' snapshots behind, at and ahead of the chain |
| GovernanceVotes | only approved motions are enacted and all of them are; faults stay below a third, slashed stay out, no tally is left at its quorum | 4 validators, one faulty, 6 motions, people registering and rotating |
| IdentityRecoveries | an account stays with its owner; its estate is held by one key, which can sign, and its hidden part by no other key that can sign; a full waiting period of unbroken authority while no issuer is removed | 3 keys of 2 people, 3 issuers, 1 corrupt or all of them and an owner who looks; 2 removable; threshold 2 throughout, delay 1, 3 heights |
| PeerMessages | a late validator buffers a fixed number of messages per height, for the heights of its window and those a snapshot jumped over, and no others; as long as it is in reach it gets every block, in any order of messages, with a restart, and from pruning peers at least what they pruned; and whoever restarts, vanishes or visits, votes get through again | 2 peers, 3 blocks, one beyond the reach of window (3) and batch (2), 2 buffered messages per height, 1 restart; 4 slots, 2 deaths, 1 client at a time, 1 removal |
| LedgerBlocks | money is conserved, honest blocks execute, mempools drop only what is dead, the quota holds, and a censored payment is included all the same | 5 loads of 3 to 6 transactions, 2 nodes, mempools of 3, blocks of 2, inboxes of 2; in one load 3 payments go to one inbox |
| Documents | contracts come into force and out of it only by their parties' signatures; duties only get lighter, reports stand; one receipt, one share; handing over keeps the key and fewer liars than the threshold learn nothing about it | 6 drafts, 2 disputes, 6 adjustments, 2 blocks; 4 custodians, one a liar, thresholds 2 and 3, 2 re-sharings, deaths and one failed write each |
| Wallets | after a scan the wallet's opening is the ledger's, and no payment to its owner is forgotten | 3 loads with up to 3 wishes, one node, blocks of 2, one useless note |
| ChainReaders | the index tells the truth after crashes, snapshots, lagging copies and other histories; tables and statistics agree; a bundle says what the ledger says and nobody can make it say more; every ring and every split is reported, and nothing else | 15 payments in 3 blocks; key changes in 3 blocks and copies from any base; a contract whose parties change keys, blocks of 2; rings of up to 3 in 4 blocks; trees of up to 5 leaves |
| Laboratory | only equivocators are removed, produce_block finds a block in a turn of proposers, an accusation is kept until it is carried out; in one phase forks need votes of two rounds | 5 validators, 1 or 2 misbehaving in 9 set-ups, 3 heights; 4 laboratory nodes, up to 2 liars, 2 rounds |

No run expects a violation.  The disagreements between the code and what the
repository says of it that were met while modelling are listed here.  The first
ones are properties the modules state and the code does not have; a
configuration with the constants named here shows each:

* `StaysLocked` of TwoPhase with `Waiting` not empty (`net.py:472`): a validator that
  skipped ahead and precommitted goes back to start the round it held back, and
  loses the lock that `bft.py:16` rests agreement on.
* `OwnerAlwaysHasTime` of Identity with the world `Few` (`state.py:709`): removing an
  issuer lapses an approval but keeps its date, so a later approval may finalise at
  once.  `OwnerHasTime` with `Thresholds = {2, 3}`: so does raising
  `min_attestations` and lowering it again.
* `CertificateCommits` of TwoPhase (`ledgernet.py:127`): nothing compares the round
  in a block's header with the round it is proposed in, so a faulty first proposer
  (`FaultyFirst`, `HeaderAB`) has a block decided with votes `check_certificate`
  then refuses.
* `NoDoubleSign` of SignGuard with `KillsAndCuts` (`signguard.py:114`): killed
  between the rename and the sync of the directory, restarted, asked for the same
  vote, then struck by a power cut, the guard can sign another value there.
* `StillOpens` of Store with `archive` FALSE and `changedAt` within the bounds
  (`storage.py:141`): after a crash between snapshot and anchor nothing vouches for
  the new validators.  After a failed append (`net.py:368`) the next one makes the
  gap permanent, which is why `StillOpens` asks that no write has failed.
* `ValidatorsKeepTheirKeys` of Governance (`state.py:801`) when a registered
  citizen is voted in: its role stays "citizen", so it can rotate its key away
  from its seat, and every motion then lacks its vote.
* `QuorumIsHeard` of Governance with `GenesisFaultyFirst` and `RemoveOnly`
  (`net.py:388`): peers compare a validator's index in the current list with its
  index in the founding record, so after a removal the later ones are not heard.
* `VotesGetThrough` of Peers without `Accepted(p)` (`net.py:388`): the same removal
  silences the votes of every later validator, and without its condition on `dead`
  (`net.py:530`): readers of machines that vanished are never released.
* `CatchesUp` of CatchUp with a `Mute` peer (`net.py:404`): a validator whose request is
  not answered does not repeat it.

The others are written into the properties as exceptions, each at its place:

* A confidential payment that finds the inbox full is refused after the hidden balance of
  its sender was changed (`state.py:587`), although `state.py:8` says that a failed
  transaction "leaves the state untouched".  The proposer goes on building on that state, so
  its block may not execute, and the trial of a commit may drop what could be executed
  (`Crowded` in `HonestBlocksExecute` and `DroppedOnlyIfDead`; LedgerBlocks violates both
  without it).
* A replaced key keeps a copy of the hidden balance and of the unclaimed payments
  (`state.py:670`).  Nobody can spend it (`HeldOnce` speaks of keys that can sign), but on
  the ledger they are there twice: whoever adds up the commitments of all accounts counts
  them twice.  `MoneyConserved` is about a ledger in which no key is replaced.
* What was buffered for heights a snapshot jumps over stays until the process restarts
  (`net.py:361`, `jumped` in `BufferBounded`).
* A validator that is further behind than its window never asks, and one that is further
  behind than a batch does not ask again while the others wait for it (`net.py:399`, 403;
  `InReach` in `CatchesUp`).
* A contract whose last signature comes after its replacement came into force stays in
  force beside it, and two replacements can both be in force (`state.py:390`,
  exception in `InForce`).  What a superseded contract owed cannot be paid any more and
  is still reported as overdue.
* `legal.compliance` for an earlier block knows the latest award only, and falls back to
  the original terms before it (`legal.py:54`, exception in `ReportsStand`).
* A journal write that failed is not rolled back: the custodian goes on, and refuses
  its own journal at the next start (`vault.py:302`, `CrashesNeverStop`).
* The wallet rolls back what was queued after a transaction that lost its nonce to
  another device, final ones included, never makes such a claim again, and takes what a
  pruned node does not show for lost (`contracts.py:286`, exceptions in `Matches` and
  `NothingForgotten`).
* A waiting vote on the quota brings it back into the trial that ought to ignore it
  (`consensus.py:192`, `Rationed` in `DroppedOnlyIfDead`, with the load `VotedLoad`), and
  of two transactions with one nonce the trial keeps the one it reaches first, so that a
  censored one that could be executed at once is dropped for another
  (`consensus.py:199`, `Dead`).
* An index prepared from one snapshot and first fed from a later copy keeps the old
  accounts and never refuses the gap; a snapshot of exactly its height is not compared
  with what it has (`index.py:105-131`, `grafted` in `IndexFaithful`).
* A firm may name its sector like a column of the tables ("imports", "government"), which
  breaks their identities (`accounts.py:227`, exception in `AccountsBalance`).
* A draft that names a key already replaced, registered by its successor, is reported
  as signed by the bundle and stays a draft on the ledger (`legal.py:237`,
  `NamesReplacedKey`).  A ring of payments through a rotated key is not one for
  `circular_flows`, since accounts are keys.
* Evidence queued behind a transaction of its sender that cannot be executed any more is
  dropped with it, and that equivocation not reported again (`consensus.py:178`,
  `Spoilt`).  Such a transaction is an own vote for an issuer admitted by then, or, with
  two equivocators of whom some nodes noticed both, an accusation of the one another
  node's evidence has removed.  LedgerNetwork loses what it noticed when voting fails, and
  stops when a validator without a node is added.
* A second call of `produce_block` for a height that failed makes honest proposers sign
  again in the same round, and honest nodes accuse them (`consensus.py:247`); nothing
  can be finalised then, so `OnlyEquivocatorsSlashed` holds all the same.
* An added validator cannot start, as it is not in the founding list, and a removed one
  stops at its next height (`net.py:279`, 347).

Deadlock is not checked where the bounds stop the system (last round, last
height or block, every motion decided, every block fetched, every wish and
transaction used up), a damaged store refuses to open, or, in LedgerBlocks, every mempool
overfills an inbox so that no proposer's block executes; it is checked in
SignGuardFailures, where something can always be done.

Why the bounds suffice: locks, journals, tallies, recoveries and quotas are entered at
least twice in their runs.  The limits of the catch-up (window, messages per
height, batch) are all met in PeerMessages, where the ledger gets one block further than
they reach; the mempool, the block limit and the inbox are met in LedgerBlocks.  Each property is shown not to be vacuous by a mutant of the mapped definition
that TLC refutes under the same configuration (`Mutant_...` in the modules).
Three heights of the networks let every behaviour take a turn as proposer; three
blocks let a key change, a second one and a later payment be read; awards are
followed by another award and a payment in the next block.  Type invariants are not
checked in runs of their own; they are conjuncts of the inductive invariants, which are
proved (section 4).
`SYMMETRY` is used only with safety properties, over validators that neither
propose first nor are named in the configuration.

Fairness.  *Governance*: an honest validator goes on sending a vote
that is admissible (weak fairness per vote).  A change of the validator set voids
all tallies, so with motions that undo each other (remove b, add b) the others could
starve; the run has none.  *CatchUp*: the others vote in every
round, connections deliver, the run loop runs; nothing promises that they
finalise another block.  *Peers*: rounds time out, so there is always another vote to
send; sending over a socket, or noticing that it fails, is weakly fair; connecting is
strongly fair, because attempts repeat while other connections come and go; readers
and clients finish.  Nobody need restart or visit.  *Ledger*: proposers rotate with the round
(`Chain.expected_proposer`), so each node's turn comes again; this is weak
fairness of `Produce`, written with "its block is empty" for "not enabled".
`EventuallyIncluded` is about open payments and registrations, which the load of the full
inbox has none of.
Voting itself is checked for safety only: termination needs synchrony bounds.
`AlwaysProduces` is an action property and needs none: a round either advances or
produces.

## 4. Proofs

TLC checks an instance; the theorems hold for any sets of validators, accounts,
transactions, documents, custodians, blocks, and any number of rounds, heights,
failures and steps.

| theorem | module | statement |
|---|---|---|
| `TypeCorrect`, `NeverDoubleSigns` | TwoPhaseProofs | types; one value per validator, round and step, through restarts and held-back proposals |
| `AgreementHolds`, `LockingHolds` | TwoPhaseProofs | if nobody holds a proposal back: no two certified blocks; votes respect the lock, memory covers every precommit (`LockCoversPrecommits`, which no run checks) |
| `TwoPhaseImplementsConsensus` | TwoPhaseProofs | under the same condition the height refines Consensus, step by step |
| `OnlyExecutablePrecommitted` | TwoPhaseProofs | invalid blocks get no honest precommit |
| `GuardSignsOnce`, `GuardKeepsItsPromises` | ValidatorProofs | one value per position and a restart that resumes, if only processes die, or only power fails and directories sync |
| `LateBufferIsBounded` | ValidatorProofs | a late validator buffers a fixed number of messages per height, for the window ahead of it and for what a snapshot jumped over, whatever arrives, whoever prunes and however often it restarts |
| `StoreOpens`, `StoreForgetsNothing` | StoreProofs | after a crash between any two writes the store opens, at the height memory had; after failed writes it is complete or refuses; no step takes a restart further back; if `Vouched` |
| `TalliesStayUndecided` | GovernanceProofs | no tally is left at its quorum, no slashed validator returns |
| `FaultsNeverReachThird`, `HonestApproveChanges` | GovernanceProofs | faulty validators stay below a third, and nothing honest validators do not approve of is enacted; if `FewFaulty` and `Prudent` |
| `AccountsHeldOnce`, `AccountsStayWithOwners` | IdentityProofs | an estate is with one key, which can sign, and no other key that can sign has the hidden part; with fewer corrupt issuers than every threshold accounts stay with owners |
| `OwnersHaveTime` | IdentityProofs | a recovery takes effect a waiting period after it gained its authority, as long as no issuer is removed; if `OneThreshold` |
| `MoneyIsConserved` | LedgerProofs | balances, hidden balances and unclaimed payments always add up to what there was |
| `QuotaHolds` | LedgerProofs | an ordinary account gets no more transactions into a block than the quota, unless the block changes it |
| `HonestBlocksAreExecuted` | LedgerProofs | the block a proposer builds, from any pool, is executed by every node to the root it names; unless the pool may overfill an inbox |
| `DroppedAreDead` | LedgerProofs | a mempool drops a transaction when its nonce is used, or when what waits can be executed to a point where nothing of it can follow, or a waiting vote lowers the quota, or the pool may overfill an inbox |
| `WalletForgetsNothing` | LedgerProofs | after a scan that finds nothing new, every payment that waits has a claim on its way, unless that was rolled back or the payment pruned unseen |
| `WalletMatches` | LedgerProofs | after such a scan the confirmed opening is the hidden balance on the ledger, with the exceptions of section 3; if `OneWallet` |
| `ContractsInForce` | DocumentsProofs | what is in force all parties signed; what no longer is, they replaced |
| `AwardsOnlyRelieve` | DocumentsProofs | an award lessens, postpones or waives what a party asked about, never more |
| `PastReportsStand` | DocumentsProofs | what is reported as paid stays paid, and the report about an earlier block stands, unless the duty is awarded on twice |
| `ReadsLeaveReceipts` | DocumentsProofs | one receipt, one share per custodian, through crashes and failed writes; who can open a text left a receipt, whatever the liars leak; a custodian that only crashed starts again |
| `ForksTakeTwoRounds` | LaboratoryProofs | in one phase, conflicting decisions need an honest validator that voted for both, in two rounds |
| `ProducesAlways` | LaboratoryProofs | with fewer than a third misbehaving, `produce_block` advances or produces |
| `HonestNeverHarmed` | LaboratoryProofs | only equivocators are ever removed, nobody honest can be shown guilty; if `Productive` |
| `AccusationsHold` | LaboratoryProofs | a waiting accusation with its proof is kept, or another of the same, until its subject is removed, and the next honest block removes it; unless the sender's queue is spoilt |

Assumptions are those named in the modules that declare the constants
(`ConstantsAssumption`, `FaultAssumption`: fewer than a third faulty,
`GuardAssumption`, `StoreAssumption`, `IdentityAssumption`, `NetworksAssumption`,
`SinglePhaseAssumption` and the like; TLC evaluates them in every run), plus the
hypotheses in the statements, which the runs' instances meet (`HypothesesMet`,
`HypothesisMet` in the MC modules):

* `Waiting = {}`: nobody holds back a proposal (`net.py:472`).  With one, the invariant
  the proof rests on is false (`StaysLocked`); whether agreement still holds is open,
  TwoPhaseRestarts finds no counterexample.
* `Benign(F)`: a guard meets kills or power cuts, not both; with both the property is
  false (section 3).
* `Vouched`: a store that outlives a change of the validators archives what it prunes and
  installs no snapshot of a peer.  The code needs it: between `snapshot.json` and
  `anchor.json` (`storage.py:141`) only the founders or the archive vouch for the new
  snapshot; without it `StillOpens` is false (section 3).
* `FewFaulty`: fewer than a third of the *founding* validators are faulty.  `Prudent`:
  honest validators remove only faulty ones and add none, except one of the founders that
  they do not remove either.  Without it they could vote the faulty in themselves.
* `Few`: every threshold exceeds the number of corrupt issuers.
* `OneThreshold`: governance does not change `min_attestations`.  With a change
  OwnerHasTime is false (section 3).
* `OneWallet`: another device uses the owner's account openly only.  One that spends the
  hidden balance changes it behind the wallet's back; the code expects one wallet per account.
* `Productive`: somebody in a network makes blocks and means to.  It excludes networks of
  liars only, where a forger that is called twice for a height is removed for it.

*No double signing.*  NoDoubleSign alone is not inductive: it does not say why
the journal refuses.  `SignaturesCovered` adds that every signature is at or
before the journal's position, and at it carries the journal's value.

*Agreement.*  `SafetyInv` adds, in this order: a precommit is backed by a quorum
of prevotes (`PolkaBehindPrecommits`); the journal's lock, and the one in memory,
are never behind a precommit (`JournalLock`, `MemoryLock`); a validator is never
in a round before one it has signed in (`RoundCoversJournal` - false with a
held-back proposal, hence `Waiting = {}`); hence a prevote against a precommit
needs a quorum in between (`LockRule`); hence, by the intersection of quorums
(`QuorumsShareHonest`), once a block has a prevote quorum in a round no other
block can ever be certified in an earlier one (`PolkaExcludes`).  Agreement
follows, and with it the step simulation of Consensus.

*Journal.*  `Files`: the file, and what a power cut would leave of it, are at or
past every signature handed out, and a precommit for a block is its own lock.

*Late validator.*  `LateInv`: nobody decides or sends a block the others do not have yet
(`Reached`), so the height never passes theirs and the messages buffered stay in their window
as it moves: a commit or a reply of blocks drops what was buffered for the heights it passes,
and a snapshot notes in `jumped` those whose messages it leaves (`Fits`).

*Store.*  What a restart finds is the greatest height of snapshot and lines (`Top`),
provided that every line follows the snapshot or an earlier line (`Chains`).
`WithinMemory` holds whatever fails: lines are blocks that memory has or had.
`Intact`, while no write has failed, says for each phase of a pruning or an
installation how far the files are and what the job under way still has to write
(`JobFits`: the lines it keeps are the blocks from the new base to the coming height);
`Archived` is what makes a snapshot vouched for before its anchor is.

*Governance.*  `Tallied`: the validators are a list without repetitions, a tally is
short of the quorum of the *current* list, slashed validators are out.  `Governed` adds
that motions nobody honest approves of have faulty votes only (`HonestVotes`), fewer than
a third of a list of which fewer than a third are faulty, so none of them is ever decided; and that a faulty
founder who may not be removed is in or was slashed, so that adding it again cannot
tip the balance.

*Identity.*  `Kept`: only accounts hold anything, only live accounts have pending recoveries,
and what a person owns is with one key that can sign, alone for the estate and alone among
the keys that can sign for the hidden part, of which replaced keys keep a copy.  `Owned` adds that a pending recovery
to a stranger's key is asked for by corrupt issuers only; fewer of them than the
threshold never make it effective (`SomeHonest`).  `Timed`: a request that has a date has
had enough issuers, all of them attesting, since a waiting period before that date; a step
keeps the date with the authority, drops it, or sets it a waiting period from now
(`Unhurried`).

*Money.*  `MoneyInv`: the state is sound and so are the pools.  Sound means that an unclaimed
payment has used up the nonce of its sender (`Filed`); only therefore is a new entry of an
inbox not one that is there already, which in a *set* of entries would destroy
money.  Each handler moves an amount between two pots (`Settled`); a block is a fold
of such steps (`Through`), over whatever the passes of `build_block` chose.

*Quota.*  In a block, what the quota counts of an account is what its nonce has moved
by; the quota stays what it was as long as no vote on it is applied, and a vote takes
effect in the middle of a block, hence the exception for `Voted`.

*Honest blocks.*  `Built`: what `build_block` has chosen is valid in its turn, and the state it
has arrived at is the fold of it, through all passes.  This holds although the state is used for
what is refused as well, because a refused transaction leaves nothing behind (`NothingLeft`)
unless it is a confidential payment to a full inbox.  Where the pool cannot overfill one
(`Calm`, the negation of `Crowded`), an inbox of the state under construction holds what it did
at the start or what the pool has sent (`SentFrom`), the refused payment is not in it, since its
nonce is not used yet, and all of these together fit (`ArrivingFits`, `OneLess`).  No
invariant is needed but `MoneyInv`.

*Mempools.*  The trial of `commit` is such a building without a limit that matters, of the pool the
exception names.  A pass takes something or, as refusals leave nothing behind, changes
nothing, and then everything the pool still has is stuck (`PassTakes`).  What is taken is taken
once (`Picked`), so after one pass more than the pool is long the passes have stopped
(`Reached`, `PickedFew`).  What the block or the trial took is spent for good (`BlockSpends`);
what neither took is refused at the end of the trial, which is the state `Dead` asks for, or
refused by a quota only: then that quota was voted in the trial (`TrialQuota`), and counts no
more than what its sender has in the pool, which is `Rationed`.

*Wallet.*  `Booked` ties the state of the ledger to the set of transactions behind it: nonces are
used up, what is unclaimed was paid, what was claimed was paid and claimed once.  `Sane` ties the
wallet to both.  `Queued`: the queue has rising nonces, and each entry's amount is what its
transaction leaves of the one before.  `Followed`: what was handed out is on the ledger, in the
queue or rolled back, and a payment of the owner is remembered until its return was seen.
`Remembered`: a payment that was looked at and still waits has its claim.  `Squared`, unless
something rolled back was included after all: the transactions on the ledger are the first of the
queue, and the hidden balance is what they leave and what has come back unseen; or one of the queue
was overtaken for good, and the next sync drops it.  Each is kept by every transaction of a
block (`ApplySane`), by a sync (`SyncedSane`) and by every look of a scan (`LookedSane`).  When a
scan changes nothing, the queue has nothing on the ledger and nothing has come back, so that
the first opening of `Squared` is the confirmed one.  Without the condition on `given` the invariant
is false: a transaction given up may still be included, which is what the exception in `Matches` says.

*Contracts.*  `Standing`: a contract that came into force has everybody's signature; for one
that was superseded there is a replacement that came into force; and one still in force although
a replacement is, came into force no earlier than that.  `Claimed`: what an
open dispute asks about are duties of its contract, and the claimant is a party of it;
terms change only by closing one (`Relieved`).

*Reports.*  `ReportInv`: terms that are not the original ones carry the height of their award,
never one to come (`Dated`), what was paid are naturals (`Sums`), and an open dispute has no closing
date (`Pending`).  `Present`: a step pays, opens and closes disputes and dates terms at the height
under construction only.  Hence what a report reads about an earlier block stays; sums of
payments are folds (`Added`), which are monotone.

*Vault.*  `Faithful`: what a custodian's journal counts for a reader covers every share that left
it for that reader, and no line names a receipt that is not on the ledger; as long as no
write has failed the journal is sound, so that a restart reads it.
`Traced`: every share a reader has was released to it by a custodian that sealed the file, unless
that one is a liar.  Liars have fewer slots than the threshold, so an opened file needs an honest
release, and that needs a receipt.

*Laboratory.*  `VotesOnce`: the vote of an honest node is of a round it has left the
propose step of, so there is one per round; two quorums in one round would share an honest node.

*Networks.*  `Orderly`, which holds while a good validator is left (`Seated`) and the
silent ones cannot prevent a quorum (`Stuck`, which is for good): nobody has voted yet in the
slot of the round going on; in the earlier rounds of the height no good validator had its
turn; who voted twice in a slot is an equivocator; and accusations in the mempool that prove
something prove it of equivocators (`Just`).  A good proposer's block is decided at once
(`EveryoneVotes`), and everybody has a turn (`EveryTurn`), so the turns of a call end before
the first slot is used again.  That is why trying again after a failed height
(`consensus.py:247`), which makes honest validators sign twice, harms nobody: it happens only
when nothing can be decided any more (`NobodyWins`).

*Accusations.* `Queued`, of LaboratoryProofs: of every node the mempool has one
transaction per nonce, from the one it uses next up to some gap (`Line`, `InLine`), and at
most one vote, of somebody whose vote is not counted yet (`OneVote`).  The nonce of a new
accusation is the next one plus how many of its sender wait (`NextNonce`), so it comes
after the line or closes its gap (`LineGrows`).  A gap is what dropped transactions leave
before those noticed at the same commit.  For build_block, `BuiltAll`: as many passes over
a pool as it is long take all that can be taken, since each pass takes something or none
can (`PassComes`), and what is taken is, for every sender, a line from its nonce before to
its nonce after (`Follows`).  After a commit this holds of the block and of what is left,
executed on trial; were the accusation neither in the block nor left, then either its turn
came and its subject was gone, removed by another accusation that is left
(`AccusationLeft`), or its sender's line ended before it.  Had an honest proposer made the
block, the first transaction of that line would have been in it: what can be executed
later can be executed at once, but for a second vote of one sender, which `OneVote`
excludes (`HonestTakes`).

*Folds.*  Blocks, pools and sums are folds of the community modules, which are recursive
functions over sets.  The library's induction theorems take an operator as a
parameter, which the installed provers cannot instantiate; but the least element of a set
of naturals is a first-order fact (`LeastNat`, from `WFMin`), and from it follow the
instances of induction the proofs need: `Minimal`, `Preserved` (what holds of no
index, and of a set of indices once it holds without the last, holds of all of them)
and `Runs` (such a function exists and is the one CHOOSE finds).  Functions of the library
that are recursive operators (`SelectSeq`, `SortSeq`) are out of reach, which is why the
modules filter with folds (`Only`).

Only model-checked: all liveness, that of CatchUp and Peers included (the prover has no support
for fairness and ENABLED); the readers, Evidence and Fraud; of the vault that
keys can be opened and fewer liars than the threshold learn nothing (StillOpens and
FewerLearnNothing, which is algebra over a field); agreement with a held-back proposal.  Only Fraud declares a RECURSIVE operator (`Walk`), and no theorem is about it.

## 5. Not modelled, and the plan

Not modelled: the primitives of cryptography (signatures, hashes, commitments and range
proofs are taken to be sound; Shamir's scheme and Merkle trees are modelled); TLS,
frames and the rate limit per sender (a window of seconds that drops frames, which the
message sets of CatchUp already allow for); the ContractVault of `contracts.py` 129-155, a
counter of receipts in memory that guards one return; sums per sector and household,
input-output coefficients, Benford's law, duplicate financing and noise for private
release: arithmetic over the payments Readers already has; queries of the index; HTTP
and web pages, key files, the command line, the fuzzer, demos and experiments, which drive
the parts above; the random schedules of the simulator, which the runs replace by all
schedules.

Planned, most important first:

1. Readers: IndexFaithful and AccountsBalance, from sums over the blocks of a copy.
