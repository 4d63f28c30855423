------------------------------ MODULE TwoPhase ------------------------------
(***************************************************************************)
(* One block height of the live validator: the two-phase voting of         *)
(* jurisledger/bft.py (TwoPhaseNode) on real blocks                        *)
(* (ledgernet.py, _BlockMixin), signing through the durable journal of     *)
(* signguard.py, and started, restarted and ticked by the run loop of      *)
(* net.py (Validator).                                                     *)
(*                                                                         *)
(* What is abstracted:                                                     *)
(*   - a block is a member of Values; HeaderRound is the round its header  *)
(*     carries and Executable the blocks Chain.execute accepts;            *)
(*   - the network is the set of all signed messages ever sent.  A rule    *)
(*     may fire on any part of it, so messages are delayed, reordered,     *)
(*     duplicated (gossip) and lost at will; nothing is forged;            *)
(*   - a faulty validator has signed every message it could ever want, so  *)
(*     it may show different votes to different validators;                *)
(*   - one rule of TwoPhaseNode.evaluate is one step.  A handler runs the  *)
(*     rules one after another; splitting them adds the crashes between    *)
(*     two signatures that a real process can suffer.                      *)
(* The height itself is fixed: the journal is at an earlier height when it *)
(* is [round |-> -1, ...].                                                 *)
(***************************************************************************)
EXTENDS Integers, FiniteSets

CONSTANTS
  Honest,       \* validators that follow the code
  Faulty,       \* validators that may sign anything
  Values,       \* the blocks that can be proposed at this height
  Executable,   \* those that Chain.execute accepts on the current tip
  Nil,          \* the nil vote, and "no value"
  Rounds,       \* the rounds considered: Nat in the proofs, 0..k for TLC
  Proposer,     \* Proposer[r]: whose turn it is in round r
  HeaderRound,  \* HeaderRound[v]: the round in the header of block v
  Waiting,      \* honest validators whose run loop may hold back their own
                \* proposal to wait for work (net.py); {} in a simulation
  Crashing      \* honest validators whose process may die and restart

Validators == Honest \cup Faulty
N == Cardinality(Validators)
Mutant_TwoThirds == (2 * N) \div 3
QuorumSize == (2 * N) \div 3 + 1

NewValues(r) == {v \in Values : HeaderRound[v] = r}

ASSUME ConstantsAssumption ==
  /\ IsFiniteSet(Honest) /\ IsFiniteSet(Faulty)
  /\ Honest \cap Faulty = {}
  /\ Executable \subseteq Values
  /\ Nil \notin Values
  /\ Rounds \subseteq Nat /\ 0 \in Rounds
  /\ Proposer \in [Rounds -> Validators]
  /\ HeaderRound \in [Values -> Nat]
  /\ \A r \in Rounds : Proposer[r] \in Honest => NewValues(r) # {}
  /\ Waiting \subseteq Honest /\ Crashing \subseteq Honest

\* The fault bound of docs/THREAT_MODEL.md and of bft.py.
ASSUME FaultAssumption == 3 * Cardinality(Faulty) < N

VARIABLES
  round, step,                \* position of the state machine
  lockedRound, lockedValue,   \* the lock, in memory
  validRound, validValue,     \* the latest block seen with a prevote quorum
  polkaSeen,                  \* rounds whose prevote quorum was acted on
  decision,                   \* the decided block, or Nil
  pending,                    \* -1, or the first_round whose start is held back
  journal,                    \* the durable record of the last signature
  proposals,                  \* signed PROPOSAL messages of honest validators
  prevotes, precommits,       \* [round][value]: the honest validators that
                              \* have signed this vote
  announced                   \* blocks broadcast in a DECIDE message

protocol == <<round, step, lockedRound, lockedValue, validRound, validValue,
              polkaSeen, decision, pending>>
messages == <<proposals, prevotes, precommits, announced>>
vars == <<protocol, journal, messages>>

Steps == {"propose", "prevote", "precommit"}
VoteValues == Values \cup {Nil}
Proposals == [round : Rounds, value : Values, validRound : Rounds \cup {-1}]
Tables == [Rounds -> [VoteValues -> SUBSET Honest]]
Journals == [round : Rounds \cup {-1}, step : 0..3, value : VoteValues,
             lockRound : Rounds \cup {-1}, lockValue : VoteValues]

-----------------------------------------------------------------------------
(* Tallies.  Faulty validators are counted everywhere.                      *)

IsQuorum(S) == Cardinality(S) >= QuorumSize

\* A quorum of prevotes, and of precommits, can be shown for v in round r.
Polka(r, v) == IsQuorum(prevotes[r][v] \cup Faulty)
Certified(r, v) == IsQuorum(precommits[r][v] \cup Faulty)

\* Validators heard from in round r, by either kind of vote.
Present(r) == UNION {prevotes[r][v] \cup precommits[r][v] : v \in VoteValues}
                \cup Faulty

\* A PROPOSAL for block v of round r carrying validRound vr can reach a
\* validator.  The signature covers the round and the block but not vr
\* (consensus_message), so a faulty relay may change vr.
Proposed(r, v, vr) ==
  \/ [round |-> r, value |-> v, validRound |-> vr] \in proposals
  \/ Proposer[r] \in Faulty
  \/ Faulty # {} /\ \E p \in proposals : p.round = r /\ p.value = v

Offered(r, v) == \E vr \in Rounds \cup {-1} : Proposed(r, v, vr)

\* The body of block v can reach a validator (any signed PROPOSAL carries it).
Available(v) == Faulty # {} \/ \E p \in proposals : p.value = v

-----------------------------------------------------------------------------
(* The signing journal: SignGuard.check_and_record.                         *)

PROPOSAL == 1
PREVOTE == 2
PRECOMMIT == 3

Mutant_AnyValue(n, kind, r, v) ==
  LET j == journal[n] IN r > j.round \/ (r = j.round /\ kind >= j.step)

\* A later position, or the same position again with the same value.
MayRecord(n, kind, r, v) ==
  LET j == journal[n] IN
  \/ r > j.round
  \/ r = j.round /\ kind > j.step
  \/ r = j.round /\ kind = j.step /\ v = j.value

\* What is written: the position, and the lock if it is a non-nil precommit.
Recorded(j, kind, r, v) ==
  LET locks == kind = PRECOMMIT /\ v # Nil IN
  [round |-> r, step |-> kind, value |-> v,
   lockRound |-> IF locks THEN r ELSE j.lockRound,
   lockValue |-> IF locks THEN v ELSE j.lockValue]

Record(n, kind, r, v) ==
  journal' = [journal EXCEPT ![n] = Recorded(@, kind, r, v)]

\* A refused signature is swallowed by broadcast: the step is entered, silently.
CastPrevote(n, v) ==
  /\ step' = [step EXCEPT ![n] = "prevote"]
  /\ IF MayRecord(n, PREVOTE, round[n], v)
     THEN /\ Record(n, PREVOTE, round[n], v)
          /\ prevotes' = [prevotes EXCEPT ![round[n]][v] = @ \cup {n}]
     ELSE UNCHANGED <<journal, prevotes>>
  /\ UNCHANGED precommits

CastPrecommit(n, v) ==
  /\ step' = [step EXCEPT ![n] = "precommit"]
  /\ IF MayRecord(n, PRECOMMIT, round[n], v)
     THEN /\ Record(n, PRECOMMIT, round[n], v)
          /\ precommits' = [precommits EXCEPT ![round[n]][v] = @ \cup {n}]
     ELSE UNCHANGED <<journal, precommits>>
  /\ UNCHANGED prevotes

\* TwoPhaseNode.start_round: the proposer offers its valid value, or a new block.
StartRound(n, r, value, vround) ==
  /\ round' = [round EXCEPT ![n] = r]
  /\ step' = [step EXCEPT ![n] = "propose"]
  /\ IF Proposer[r] # n
     THEN UNCHANGED <<journal, proposals>>
     ELSE \E v \in IF value # Nil THEN {value} ELSE NewValues(r) :
            IF MayRecord(n, PROPOSAL, r, v)
            THEN /\ Record(n, PROPOSAL, r, v)
                 /\ proposals' = proposals \cup
                      {[round |-> r, value |-> v, validRound |-> vround]}
            ELSE UNCHANGED <<journal, proposals>>
  /\ UNCHANGED <<prevotes, precommits>>

-----------------------------------------------------------------------------
(* The rules of TwoPhaseNode.evaluate.                                      *)

Running(n) == decision[n] = Nil

\* _valid: Chain.execute accepts the block and clock_ok its timestamp.  The second
\* depends on local time, so it is a choice; the code keeps the first answer of
\* both for the height, here they may be asked again.
Mutant_ClockOnly(v, clockOk) == clockOk
Valid(v, clockOk) == v \in Executable /\ clockOk

\* _acceptable, once the block is known to be valid.
Judgeable(n, v, vr) == vr # -1 => vr < round[n] /\ Polka(vr, v)

Mutant_NoLockCheck(n, v, vr) == vr = -1 \/ lockedValue[n] = v \/ lockedRound[n] <= vr
Acceptable(n, v, vr) ==
  \/ lockedValue[n] = v
  \/ vr = -1 /\ lockedRound[n] = -1
  \/ vr # -1 /\ lockedRound[n] <= vr

\* Prevote for the proposal, or nil.
PrevoteProposal(n) ==
  /\ Running(n) /\ step[n] = "propose"
  /\ \E v \in Values, vr \in Rounds \cup {-1}, clockOk \in BOOLEAN :
       /\ Proposed(round[n], v, vr)
       /\ IF Valid(v, clockOk)
          THEN /\ Judgeable(n, v, vr)
               /\ CastPrevote(n, IF Acceptable(n, v, vr) THEN v ELSE Nil)
          ELSE CastPrevote(n, Nil)
  /\ UNCHANGED <<round, lockedRound, lockedValue, validRound, validValue,
                 polkaSeen, decision, pending, proposals, announced>>

\* A quorum of prevotes in the current round: remember it; lock and precommit
\* if the validator has prevoted and not yet precommitted.
ActOnPolka(n) ==
  /\ Running(n) /\ step[n] # "propose" /\ round[n] \notin polkaSeen[n]
  /\ \E v \in Values :
       /\ Offered(round[n], v) /\ Polka(round[n], v)
       /\ validValue' = [validValue EXCEPT ![n] = v]
       /\ IF step[n] = "prevote"
          THEN /\ lockedValue' = [lockedValue EXCEPT ![n] = v]
               /\ lockedRound' = [lockedRound EXCEPT ![n] = round[n]]
               /\ CastPrecommit(n, v)
          ELSE UNCHANGED <<lockedValue, lockedRound, step, journal,
                           prevotes, precommits>>
  /\ validRound' = [validRound EXCEPT ![n] = round[n]]
  /\ polkaSeen' = [polkaSeen EXCEPT ![n] = @ \cup {round[n]}]
  /\ UNCHANGED <<round, decision, pending, proposals, announced>>

\* A quorum of nil prevotes.
PrecommitNil(n) ==
  /\ Running(n) /\ step[n] = "prevote" /\ Polka(round[n], Nil)
  /\ CastPrecommit(n, Nil)
  /\ UNCHANGED <<round, lockedRound, lockedValue, validRound, validValue,
                 polkaSeen, decision, pending, proposals, announced>>

\* f + 1 validators are already in a later round.
SkipRound(n) ==
  /\ Running(n)
  /\ \E r \in Rounds :
       /\ r > round[n]
       /\ Cardinality(Present(r)) >= N - QuorumSize + 1
       /\ StartRound(n, r, validValue[n], validRound[n])
  /\ UNCHANGED <<lockedRound, lockedValue, validRound, validValue,
                 polkaSeen, decision, pending, announced>>

\* A quorum of precommits of any round decides, if the block is held and valid.
Decide(n) ==
  /\ Running(n)
  /\ \E v \in Executable, r \in Rounds :
       /\ Certified(r, v) /\ Available(v)
       /\ decision' = [decision EXCEPT ![n] = v]
       /\ announced' = announced \cup {v}
  /\ UNCHANGED <<round, step, lockedRound, lockedValue, validRound, validValue,
                 polkaSeen, pending, journal, proposals, prevotes, precommits>>

\* Another validator's DECIDE, after Chain.execute and Chain.check_certificate.
Adopt(n) ==
  /\ Running(n)
  /\ \E v \in Executable, r \in Rounds :
       /\ v \in announced \/ Faulty # {}
       /\ Certified(r, v) /\ HeaderRound[v] <= r
       /\ decision' = [decision EXCEPT ![n] = v]
  /\ UNCHANGED <<round, step, lockedRound, lockedValue, validRound, validValue,
                 polkaSeen, pending, journal, messages>>

-----------------------------------------------------------------------------
(* The run loop of net.py: timeouts, the held-back proposal, and restarts.  *)

\* TwoPhaseNode.tick; timeouts do not run while the proposal is held back.
TimeoutPropose(n) ==
  /\ Running(n) /\ pending[n] = -1 /\ step[n] = "propose"
  /\ CastPrevote(n, Nil)
  /\ UNCHANGED <<round, lockedRound, lockedValue, validRound, validValue,
                 polkaSeen, decision, pending, proposals, announced>>

TimeoutPrevote(n) ==
  /\ Running(n) /\ pending[n] = -1 /\ step[n] = "prevote"
  /\ CastPrecommit(n, Nil)
  /\ UNCHANGED <<round, lockedRound, lockedValue, validRound, validValue,
                 polkaSeen, decision, pending, proposals, announced>>

TimeoutPrecommit(n) ==
  /\ Running(n) /\ pending[n] = -1 /\ step[n] = "precommit"
  /\ round[n] + 1 \in Rounds
  /\ StartRound(n, round[n] + 1, validValue[n], validRound[n])
  /\ UNCHANGED <<lockedRound, lockedValue, validRound, validValue,
                 polkaSeen, decision, pending, announced>>

\* Work arrived, or the idle time is over: start the round the height began with.
ReleaseProposal(n) ==
  /\ pending[n] # -1
  /\ StartRound(n, pending[n], validValue[n], validRound[n])
  /\ pending' = [pending EXCEPT ![n] = -1]
  /\ UNCHANGED <<lockedRound, lockedValue, validRound, validValue,
                 polkaSeen, decision, announced>>

\* The process dies before the block is in the store, and starts again: memory
\* is gone, the journal gives the lock and the round (Validator._start_height).
Restart(n) ==
  LET first == IF journal[n].round >= 0 THEN journal[n].round ELSE 0 IN
  /\ n \in Crashing
  /\ lockedRound' = [lockedRound EXCEPT ![n] = journal[n].lockRound]
  /\ lockedValue' = [lockedValue EXCEPT ![n] = journal[n].lockValue]
  /\ validRound' = [validRound EXCEPT ![n] = -1]
  /\ validValue' = [validValue EXCEPT ![n] = Nil]
  /\ polkaSeen' = [polkaSeen EXCEPT ![n] = {}]
  /\ decision' = [decision EXCEPT ![n] = Nil]
  /\ IF n \in Waiting /\ Proposer[first] = n
     THEN /\ pending' = [pending EXCEPT ![n] = first]
          /\ round' = [round EXCEPT ![n] = 0]
          /\ step' = [step EXCEPT ![n] = "propose"]
          /\ UNCHANGED <<journal, proposals, prevotes, precommits>>
     ELSE /\ pending' = [pending EXCEPT ![n] = -1]
          /\ StartRound(n, first, Nil, -1)
  /\ UNCHANGED announced

-----------------------------------------------------------------------------
FreshJournal == [round |-> -1, step |-> 0, value |-> Nil,
                 lockRound |-> -1, lockValue |-> Nil]

\* Everybody begins the height; the proposer of round 0 proposes unless it waits.
Init ==
  /\ round = [n \in Honest |-> 0]
  /\ step = [n \in Honest |-> "propose"]
  /\ lockedRound = [n \in Honest |-> -1]
  /\ lockedValue = [n \in Honest |-> Nil]
  /\ validRound = [n \in Honest |-> -1]
  /\ validValue = [n \in Honest |-> Nil]
  /\ polkaSeen = [n \in Honest |-> {}]
  /\ decision = [n \in Honest |-> Nil]
  /\ pending = [n \in Honest |->
                  IF n \in Waiting /\ Proposer[0] = n THEN 0 ELSE -1]
  /\ prevotes = [r \in Rounds |-> [v \in VoteValues |-> {}]]
  /\ precommits = [r \in Rounds |-> [v \in VoteValues |-> {}]]
  /\ announced = {}
  /\ IF Proposer[0] \in Honest \ Waiting
     THEN \E v \in NewValues(0) :
            /\ proposals = {[round |-> 0, value |-> v, validRound |-> -1]}
            /\ journal = [n \in Honest |->
                 IF n = Proposer[0]
                 THEN Recorded(FreshJournal, PROPOSAL, 0, v)
                 ELSE FreshJournal]
     ELSE /\ proposals = {}
          /\ journal = [n \in Honest |-> FreshJournal]

Next ==
  \E n \in Honest :
    \/ PrevoteProposal(n) \/ ActOnPolka(n) \/ PrecommitNil(n) \/ SkipRound(n)
    \/ Decide(n) \/ Adopt(n)
    \/ TimeoutPropose(n) \/ TimeoutPrevote(n) \/ TimeoutPrecommit(n)
    \/ ReleaseProposal(n) \/ Restart(n)

Spec == Init /\ [][Next]_vars

-----------------------------------------------------------------------------
(* Properties.                                                              *)

TypeOK ==
  /\ round \in [Honest -> Rounds]
  /\ step \in [Honest -> Steps]
  /\ lockedRound \in [Honest -> Rounds \cup {-1}]
  /\ lockedValue \in [Honest -> VoteValues]
  /\ validRound \in [Honest -> Rounds \cup {-1}]
  /\ validValue \in [Honest -> VoteValues]
  /\ polkaSeen \in [Honest -> SUBSET Rounds]
  /\ decision \in [Honest -> VoteValues]
  /\ pending \in [Honest -> Rounds \cup {-1}]
  /\ journal \in [Honest -> Journals]
  /\ proposals \subseteq Proposals
  /\ prevotes \in Tables
  /\ precommits \in Tables
  /\ announced \subseteq Values

\* An honest validator never signs two values at one step of one round, through
\* any number of crashes and with its proposal held back (signguard.py).
NoDoubleSign ==
  \A r \in Rounds :
    /\ \A p, q \in proposals : p.round = r /\ q.round = r => p.value = q.value
    /\ \A v, w \in VoteValues :
         v # w => /\ prevotes[r][v] \cap prevotes[r][w] = {}
                  /\ precommits[r][v] \cap precommits[r][w] = {}

\* No two blocks can both collect a commit certificate at this height, even in
\* different rounds and even if nobody has assembled them yet.
Agreement ==
  \A r, s \in Rounds, v, w \in Values :
    Certified(r, v) /\ Certified(s, w) => v = w

\* The locking rule: after a precommit for a block, a prevote for another block
\* in a later round needs a quorum of prevotes for it at or after the lock.
LockRule ==
  \A r, s \in Rounds, v, w \in Values :
    r < s /\ v # w /\ precommits[r][v] \cap prevotes[s][w] # {}
      => \E t \in Rounds : r <= t /\ t < s /\ Polka(t, w)

\* The lock in memory is never behind a precommit the validator has signed,
\* whatever it was restored from.
LockCoversPrecommits ==
  \A r \in Rounds, v \in Values : \A n \in precommits[r][v] :
    \/ lockedRound[n] > r
    \/ lockedRound[n] = r /\ lockedValue[n] = v

\* What bft.py and signguard.py promise of the lock: having precommitted a block,
\* a validator stays locked on it until it locks another in a later round.  The
\* held-back proposal breaks it: ReleaseProposal takes a validator that skipped
\* ahead back to the round it was held back for, whose quorum it can act on again.
StaysLocked ==
  \A r \in Rounds, v \in Values : \A n \in precommits[r][v] :
    lockedValue[n] = v \/ lockedRound[n] > r

\* No block that the ledger rules reject gathers even one honest precommit.
OnlyExecutableCertified ==
  \A r \in Rounds, v \in Values \ Executable : precommits[r][v] = {}

\* A decided block carries a certificate that Chain.add_block accepts: its votes
\* are not of a round before the one in its header.  Not so if a faulty proposer
\* puts a later round into the header than it proposes the block in.
CertificateCommits ==
  \A n \in Honest : decision[n] # Nil =>
    \E r \in Rounds : Certified(r, decision[n]) /\ HeaderRound[decision[n]] <= r

\* The blocks that can be certified, and the decisions of the honest validators,
\* are those of a Consensus: at most one block is ever chosen for the height, for
\* good, and nobody decides another.
Chosen == {v \in Values : \E r \in Rounds : Certified(r, v)}
Abstract == INSTANCE Consensus WITH Nodes <- Honest, chosen <- Chosen
ImplementsConsensus == Abstract!Spec
=============================================================================
