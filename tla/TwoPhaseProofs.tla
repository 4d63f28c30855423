--------------------------- MODULE TwoPhaseProofs ---------------------------
(***************************************************************************)
(* Proofs about TwoPhase for every number of validators, every set of      *)
(* blocks and every set of rounds, under the fault bound                   *)
(* 3 * |Faulty| < N.                                                       *)
(***************************************************************************)
EXTENDS TwoPhase, FiniteSetTheorems, TLAPS

\* Two quorums of quorum(n) = 2n // 3 + 1 validators share an honest one.
LEMMA QuorumsShareHonest ==
  ASSUME NEW S \in SUBSET Validators, NEW T \in SUBSET Validators,
         IsQuorum(S), IsQuorum(T)
  PROVE  \E n \in Honest : n \in S /\ n \in T
<1>1. IsFiniteSet(Validators) /\ N \in Nat
  BY ConstantsAssumption, FS_Union, FS_CardinalityType DEF Validators, N
<1>2. /\ IsFiniteSet(S) /\ IsFiniteSet(T)
      /\ IsFiniteSet(S \cup T) /\ IsFiniteSet(S \cap T)
  BY <1>1, FS_Subset, FS_Union, FS_Intersection
<1>3. /\ Cardinality(S) \in Nat /\ Cardinality(T) \in Nat
      /\ Cardinality(S \cup T) \in Nat /\ Cardinality(S \cap T) \in Nat
      /\ Cardinality(Faulty) \in Nat
  BY <1>2, FS_CardinalityType, ConstantsAssumption
<1>4. Cardinality(S \cup T) = Cardinality(S) + Cardinality(T) - Cardinality(S \cap T)
  BY <1>2, FS_Union
<1>5. Cardinality(S \cup T) <= N
  BY <1>1, FS_Subset DEF N
<1>6. Cardinality(S \cap T) > Cardinality(Faulty)
  <2>1. Cardinality(S) >= QuorumSize /\ Cardinality(T) >= QuorumSize
    BY DEF IsQuorum
  <2> HIDE DEF N
  <2>2. QuorumSize = (2 * N) \div 3 + 1
    BY DEF QuorumSize
  <2>3. 3 * Cardinality(Faulty) < N
    BY FaultAssumption
  <2> QED
    BY <1>1, <1>3, <1>4, <1>5, <2>1, <2>2, <2>3
<1>7. ~ (S \cap T \subseteq Faulty)
  BY <1>3, <1>6, FS_Subset, ConstantsAssumption
<1> QED
  BY <1>7 DEF Validators

-----------------------------------------------------------------------------
(* What a step signs.  Every step signs nothing, or one message of one      *)
(* validator; the invariants about signatures need only these four cases.   *)

SignsNothing == UNCHANGED <<journal, proposals, prevotes, precommits>>

SignsProposal(n, r, v, vr) ==
  /\ Proposer[r] = n /\ MayRecord(n, PROPOSAL, r, v)
  /\ Record(n, PROPOSAL, r, v)
  /\ proposals' = proposals \cup {[round |-> r, value |-> v, validRound |-> vr]}
  /\ UNCHANGED <<prevotes, precommits>>

\* A prevote for a block is justified by the rule _acceptable.
SignsPrevote(n, v) ==
  /\ MayRecord(n, PREVOTE, round[n], v)
  /\ Record(n, PREVOTE, round[n], v)
  /\ prevotes' = [prevotes EXCEPT ![round[n]][v] = @ \cup {n}]
  /\ UNCHANGED <<proposals, precommits>>
  /\ v # Nil =>
       /\ step[n] = "propose" /\ v \in Executable
       /\ \E vr \in Rounds \cup {-1} : Judgeable(n, v, vr) /\ Acceptable(n, v, vr)

\* A precommit for a block is backed by a quorum of prevotes of its round.
SignsPrecommit(n, v) ==
  /\ MayRecord(n, PRECOMMIT, round[n], v)
  /\ Record(n, PRECOMMIT, round[n], v)
  /\ precommits' = [precommits EXCEPT ![round[n]][v] = @ \cup {n}]
  /\ UNCHANGED <<proposals, prevotes>>
  /\ v # Nil => Polka(round[n], v)

Signs ==
  \/ SignsNothing
  \/ \E n \in Honest, r \in Rounds, v \in Values, vr \in Rounds \cup {-1} :
       SignsProposal(n, r, v, vr)
  \/ \E n \in Honest, v \in VoteValues : SignsPrevote(n, v) \/ SignsPrecommit(n, v)

LEMMA StartRoundSigns ==
  ASSUME NEW n \in Honest, NEW r \in Rounds, NEW value \in VoteValues,
         NEW vround \in Rounds \cup {-1}, StartRound(n, r, value, vround)
  PROVE  Signs
<1>1. CASE UNCHANGED <<journal, proposals>>
  BY <1>1 DEF StartRound, Signs, SignsNothing
<1>2. CASE ~ UNCHANGED <<journal, proposals>>
  <2>1. PICK v \in IF value # Nil THEN {value} ELSE NewValues(r) :
          /\ MayRecord(n, PROPOSAL, r, v) /\ Record(n, PROPOSAL, r, v)
          /\ proposals' = proposals \cup
               {[round |-> r, value |-> v, validRound |-> vround]}
    BY <1>2 DEF StartRound
  <2>2. v \in Values
    BY <2>1 DEF NewValues, VoteValues
  <2>3. Proposer[r] = n
    BY <1>2 DEF StartRound
  <2> QED
    BY <2>1, <2>2, <2>3 DEF StartRound, Signs, SignsProposal
<1> QED
  BY <1>1, <1>2

LEMMA StepSigns == TypeOK /\ Next => Signs
<1> SUFFICES ASSUME TypeOK, NEW n \in Honest,
               \/ PrevoteProposal(n) \/ ActOnPolka(n) \/ PrecommitNil(n)
               \/ SkipRound(n) \/ Decide(n) \/ Adopt(n)
               \/ TimeoutPropose(n) \/ TimeoutPrevote(n) \/ TimeoutPrecommit(n)
               \/ ReleaseProposal(n) \/ Restart(n)
             PROVE  Signs
  BY DEF Next
<1> USE ConstantsAssumption
<1>1. CASE PrevoteProposal(n)
  <2>1. PICK v \in VoteValues :
          /\ CastPrevote(n, v)
          /\ v # Nil =>
               /\ step[n] = "propose" /\ v \in Executable
               /\ \E vr \in Rounds \cup {-1} :
                    Judgeable(n, v, vr) /\ Acceptable(n, v, vr)
    BY <1>1 DEF PrevoteProposal, Valid, VoteValues
  <2> QED
    BY <1>1, <2>1 DEF CastPrevote, PrevoteProposal, Signs, SignsNothing, SignsPrevote
<1>2. CASE ActOnPolka(n)
  <2>1. CASE step[n] = "prevote"
    <3>1. PICK v \in Values : Polka(round[n], v) /\ CastPrecommit(n, v)
      BY <1>2, <2>1 DEF ActOnPolka
    <3> QED
      BY <1>2, <3>1 DEF CastPrecommit, ActOnPolka, Signs, SignsNothing,
                        SignsPrecommit, VoteValues
  <2>2. CASE step[n] # "prevote"
    BY <1>2, <2>2 DEF ActOnPolka, Signs, SignsNothing
  <2> QED
    BY <2>1, <2>2
<1>3. CASE PrecommitNil(n) \/ TimeoutPrevote(n)
  <2>1. CastPrecommit(n, Nil) /\ UNCHANGED proposals /\ Nil \in VoteValues
    BY <1>3 DEF PrecommitNil, TimeoutPrevote, VoteValues
  <2> QED
    BY <2>1 DEF CastPrecommit, Signs, SignsNothing, SignsPrecommit
<1>4. CASE TimeoutPropose(n)
  <2>1. CastPrevote(n, Nil) /\ UNCHANGED proposals /\ Nil \in VoteValues
    BY <1>4 DEF TimeoutPropose, VoteValues
  <2> QED
    BY <2>1 DEF CastPrevote, Signs, SignsNothing, SignsPrevote
<1>5. CASE SkipRound(n) \/ TimeoutPrecommit(n) \/ ReleaseProposal(n)
  <2>1. \E r \in Rounds : StartRound(n, r, validValue[n], validRound[n])
    BY <1>5 DEF SkipRound, TimeoutPrecommit, ReleaseProposal, TypeOK
  <2> QED
    BY <2>1, StartRoundSigns DEF TypeOK
<1>6. CASE Restart(n)
  <2>1. CASE UNCHANGED <<journal, proposals, prevotes, precommits>>
    BY <2>1 DEF Signs, SignsNothing
  <2>2. CASE \E r \in Rounds : StartRound(n, r, Nil, -1)
    BY <2>2, StartRoundSigns DEF VoteValues
  <2>3. (IF journal[n].round >= 0 THEN journal[n].round ELSE 0) \in Rounds
    BY DEF TypeOK, Journals
  <2> QED
    BY <1>6, <2>1, <2>2, <2>3 DEF Restart
<1>7. CASE Decide(n) \/ Adopt(n)
  BY <1>7 DEF Decide, Adopt, Signs, SignsNothing, messages
<1> QED
  BY <1>1, <1>2, <1>3, <1>4, <1>5, <1>6, <1>7

-----------------------------------------------------------------------------
(* Type correctness.                                                        *)

LEMMA RecordTyped ==
  ASSUME TypeOK, NEW n \in Honest, NEW r \in Rounds, NEW v \in VoteValues,
         NEW kind \in {PROPOSAL, PREVOTE, PRECOMMIT}, Record(n, kind, r, v)
  PROVE  journal' \in [Honest -> Journals]
<1>1. Recorded(journal[n], kind, r, v) \in Journals
  BY DEF TypeOK, Journals, Recorded, PROPOSAL, PREVOTE, PRECOMMIT
<1> QED
  BY <1>1 DEF Record, TypeOK

LEMMA SignsTyped ==
  ASSUME TypeOK, Signs
  PROVE  /\ journal' \in [Honest -> Journals]
         /\ proposals' \subseteq Proposals
         /\ prevotes' \in Tables /\ precommits' \in Tables
<1>1. CASE SignsNothing
  BY <1>1 DEF SignsNothing, TypeOK
<1>2. ASSUME NEW n \in Honest, NEW r \in Rounds, NEW v \in Values,
             NEW vr \in Rounds \cup {-1}, SignsProposal(n, r, v, vr)
      PROVE  /\ journal' \in [Honest -> Journals]
             /\ proposals' \subseteq Proposals
             /\ prevotes' \in Tables /\ precommits' \in Tables
  <2>1. journal' \in [Honest -> Journals]
    BY <1>2, RecordTyped DEF SignsProposal, VoteValues
  <2>2. [round |-> r, value |-> v, validRound |-> vr] \in Proposals
    BY DEF Proposals
  <2> QED
    BY <1>2, <2>1, <2>2 DEF SignsProposal, TypeOK
<1>3. ASSUME NEW n \in Honest, NEW v \in VoteValues, SignsPrevote(n, v)
      PROVE  /\ journal' \in [Honest -> Journals]
             /\ proposals' \subseteq Proposals
             /\ prevotes' \in Tables /\ precommits' \in Tables
  <2>0. round[n] \in Rounds
    BY DEF TypeOK
  <2>1. journal' \in [Honest -> Journals]
    BY <1>3, <2>0, RecordTyped DEF SignsPrevote
  <2>2. prevotes' \in Tables
    BY <1>3, <2>0 DEF SignsPrevote, TypeOK, Tables
  <2> QED
    BY <1>3, <2>1, <2>2 DEF SignsPrevote, TypeOK
<1>4. ASSUME NEW n \in Honest, NEW v \in VoteValues, SignsPrecommit(n, v)
      PROVE  /\ journal' \in [Honest -> Journals]
             /\ proposals' \subseteq Proposals
             /\ prevotes' \in Tables /\ precommits' \in Tables
  <2>0. round[n] \in Rounds
    BY DEF TypeOK
  <2>1. journal' \in [Honest -> Journals]
    BY <1>4, <2>0, RecordTyped DEF SignsPrecommit
  <2>2. precommits' \in Tables
    BY <1>4, <2>0 DEF SignsPrecommit, TypeOK, Tables
  <2> QED
    BY <1>4, <2>1, <2>2 DEF SignsPrecommit, TypeOK
<1> QED
  BY <1>1, <1>2, <1>3, <1>4 DEF Signs

LEMMA StartRoundTyped ==
  ASSUME TypeOK, NEW n \in Honest, NEW r \in Rounds, NEW value \in VoteValues,
         NEW vround \in Rounds \cup {-1}, StartRound(n, r, value, vround)
  PROVE  round' \in [Honest -> Rounds] /\ step' \in [Honest -> Steps]
BY DEF StartRound, TypeOK, Steps

LEMMA InitTyped == Init => TypeOK
<1> SUFFICES ASSUME Init PROVE TypeOK
  OBVIOUS
<1> USE ConstantsAssumption
<1>1. FreshJournal \in Journals
  BY DEF FreshJournal, Journals, VoteValues
<1>2. \A v \in NewValues(0) : Recorded(FreshJournal, PROPOSAL, 0, v) \in Journals
  BY DEF FreshJournal, Journals, VoteValues, Recorded, PROPOSAL, PRECOMMIT, NewValues
<1>3. journal \in [Honest -> Journals] /\ proposals \subseteq Proposals
  <2>1. CASE Proposer[0] \in Honest \ Waiting
    <3>1. PICK v \in NewValues(0) :
            /\ proposals = {[round |-> 0, value |-> v, validRound |-> -1]}
            /\ journal = [n \in Honest |->
                 IF n = Proposer[0]
                 THEN Recorded(FreshJournal, PROPOSAL, 0, v)
                 ELSE FreshJournal]
      BY <2>1 DEF Init
    <3> QED
      BY <3>1, <1>1, <1>2 DEF Proposals, NewValues
  <2>2. CASE Proposer[0] \notin Honest \ Waiting
    BY <2>2, <1>1 DEF Init
  <2> QED
    BY <2>1, <2>2
<1>4. prevotes \in Tables /\ precommits \in Tables
  BY DEF Init, Tables
<1> QED
  BY <1>3, <1>4 DEF Init, TypeOK, Steps, VoteValues

LEMMA StepTyped == TypeOK /\ Next => TypeOK'
<1> SUFFICES ASSUME TypeOK, NEW n \in Honest,
               \/ PrevoteProposal(n) \/ ActOnPolka(n) \/ PrecommitNil(n)
               \/ SkipRound(n) \/ Decide(n) \/ Adopt(n)
               \/ TimeoutPropose(n) \/ TimeoutPrevote(n) \/ TimeoutPrecommit(n)
               \/ ReleaseProposal(n) \/ Restart(n)
             PROVE  TypeOK'
  BY DEF Next
<1>1. /\ journal' \in [Honest -> Journals]
      /\ proposals' \subseteq Proposals
      /\ prevotes' \in Tables /\ precommits' \in Tables
  BY StepSigns, SignsTyped DEF Next
<1> USE ConstantsAssumption
<1>2. CASE PrevoteProposal(n) \/ TimeoutPropose(n)
  <2>1. step' = [step EXCEPT ![n] = "prevote"]
    BY <1>2 DEF PrevoteProposal, TimeoutPropose, CastPrevote
  <2> QED
    BY <1>1, <1>2, <2>1 DEF PrevoteProposal, TimeoutPropose, TypeOK, Steps
<1>3. CASE PrecommitNil(n) \/ TimeoutPrevote(n)
  <2>1. step' = [step EXCEPT ![n] = "precommit"]
    BY <1>3 DEF PrecommitNil, TimeoutPrevote, CastPrecommit
  <2> QED
    BY <1>1, <1>3, <2>1 DEF PrecommitNil, TimeoutPrevote, TypeOK, Steps
<1>4. CASE ActOnPolka(n)
  <2>1. step' \in [Honest -> Steps]
    BY <1>4 DEF ActOnPolka, CastPrecommit, TypeOK, Steps
  <2>2. /\ lockedRound' \in [Honest -> Rounds \cup {-1}]
        /\ lockedValue' \in [Honest -> VoteValues]
        /\ validValue' \in [Honest -> VoteValues]
    BY <1>4 DEF ActOnPolka, TypeOK, VoteValues
  <2> QED
    BY <1>1, <1>4, <2>1, <2>2 DEF ActOnPolka, TypeOK
<1>5. CASE SkipRound(n) \/ TimeoutPrecommit(n) \/ ReleaseProposal(n)
  <2>1. \E r \in Rounds : StartRound(n, r, validValue[n], validRound[n])
    BY <1>5 DEF SkipRound, TimeoutPrecommit, ReleaseProposal, TypeOK
  <2>2. round' \in [Honest -> Rounds] /\ step' \in [Honest -> Steps]
    BY <2>1, StartRoundTyped DEF TypeOK
  <2> QED
    BY <1>1, <1>5, <2>2 DEF SkipRound, TimeoutPrecommit, ReleaseProposal, TypeOK
<1>6. CASE Restart(n)
  <2> DEFINE first == IF journal[n].round >= 0 THEN journal[n].round ELSE 0
  <2>1. /\ first \in Rounds /\ Nil \in VoteValues
        /\ journal[n].lockRound \in Rounds \cup {-1}
        /\ journal[n].lockValue \in VoteValues
    BY DEF TypeOK, Journals, VoteValues
  <2> HIDE DEF first
  <2>2. /\ round' \in [Honest -> Rounds] /\ step' \in [Honest -> Steps]
        /\ pending' \in [Honest -> Rounds \cup {-1}]
    <3>1. CASE n \in Waiting /\ Proposer[first] = n
      BY <1>6, <2>1, <3>1 DEF Restart, TypeOK, Steps, first
    <3>2. CASE ~ (n \in Waiting /\ Proposer[first] = n)
      <4>1. StartRound(n, first, Nil, -1) /\ pending' = [pending EXCEPT ![n] = -1]
        BY <1>6, <3>2 DEF Restart, first
      <4> QED
        BY <2>1, <4>1, StartRoundTyped DEF TypeOK
    <3> QED
      BY <3>1, <3>2
  <2> QED
    BY <1>1, <1>6, <2>1, <2>2 DEF Restart, TypeOK
<1>7. CASE Decide(n) \/ Adopt(n)
  BY <1>1, <1>7 DEF Decide, Adopt, TypeOK, messages, VoteValues
<1> QED
  BY <1>2, <1>3, <1>4, <1>5, <1>6, <1>7

\* Every variable keeps its type in every behaviour of the module.
THEOREM TypeCorrect == Spec => []TypeOK
<1>1. TypeOK /\ UNCHANGED vars => TypeOK'
  BY DEF TypeOK, vars, protocol, messages
<1> QED
  BY InitTyped, StepTyped, <1>1, PTL DEF Spec

-----------------------------------------------------------------------------
(* The journal: no two values are ever signed at one step.  The inductive   *)
(* invariant says that the journal of a validator is at, or past, every     *)
(* signature the validator has given.                                       *)

Covered(n, kind, r, v) ==
  LET j == journal[n] IN
  \/ j.round > r
  \/ j.round = r /\ j.step > kind
  \/ j.round = r /\ j.step = kind /\ j.value = v

SignaturesCovered ==
  /\ \A p \in proposals :
       /\ Proposer[p.round] \in Honest
       /\ Covered(Proposer[p.round], PROPOSAL, p.round, p.value)
  /\ \A r \in Rounds, v \in VoteValues :
       /\ \A n \in prevotes[r][v] : Covered(n, PREVOTE, r, v)
       /\ \A n \in precommits[r][v] : Covered(n, PRECOMMIT, r, v)

\* The position in a journal is a pair of integers.
LEMMA JournalPosition ==
  ASSUME TypeOK, NEW n \in Honest
  PROVE  journal[n].round \in Int /\ journal[n].step \in Int
<1>1. journal[n] \in Journals
  BY DEF TypeOK
<1>2. Rounds \cup {-1} \subseteq Int /\ 0 .. 3 \subseteq Int
  BY ConstantsAssumption
<1> QED
  BY <1>1, <1>2 DEF Journals

LEMMA RecordCovers ==
  ASSUME TypeOK, NEW n \in Honest, NEW r \in Rounds, NEW v \in VoteValues,
         NEW kind \in {PROPOSAL, PREVOTE, PRECOMMIT}, Record(n, kind, r, v)
  PROVE  Covered(n, kind, r, v)'
BY DEF Record, Recorded, Covered, TypeOK

LEMMA RecordKeepsCovered ==
  ASSUME TypeOK, NEW n \in Honest, NEW r \in Rounds, NEW v \in VoteValues,
         NEW kind \in {PROPOSAL, PREVOTE, PRECOMMIT},
         MayRecord(n, kind, r, v), Record(n, kind, r, v),
         NEW m \in Honest, NEW s \in Rounds, NEW w \in VoteValues,
         NEW sort \in {PROPOSAL, PREVOTE, PRECOMMIT}, Covered(m, sort, s, w)
  PROVE  Covered(m, sort, s, w)'
<1>1. s \in Nat /\ r \in Nat /\ sort \in 1 .. 3 /\ kind \in 1 .. 3
  BY ConstantsAssumption DEF PROPOSAL, PREVOTE, PRECOMMIT
<1>2. journal[m].round \in Int /\ journal[m].step \in Int
  BY JournalPosition
<1>3. CASE m = n
  BY <1>1, <1>2, <1>3 DEF MayRecord, Record, Recorded, Covered, TypeOK
<1>4. CASE m # n
  BY <1>4 DEF Record, Covered, TypeOK
<1> QED
  BY <1>3, <1>4

LEMMA OneValuePerPosition ==
  ASSUME TypeOK, NEW n \in Honest, NEW r \in Rounds, NEW v, NEW w,
         NEW kind \in {PROPOSAL, PREVOTE, PRECOMMIT},
         MayRecord(n, kind, r, v), Covered(n, kind, r, w)
  PROVE  v = w
<1>1. r \in Nat /\ kind \in 1 .. 3
  BY ConstantsAssumption DEF PROPOSAL, PREVOTE, PRECOMMIT
<1>2. journal[n].round \in Int /\ journal[n].step \in Int
  BY JournalPosition
<1> QED
  BY <1>1, <1>2 DEF MayRecord, Covered

LEMMA CoveredInit == Init => SignaturesCovered /\ NoDoubleSign
<1> SUFFICES ASSUME Init PROVE SignaturesCovered /\ NoDoubleSign
  OBVIOUS
<1> USE ConstantsAssumption
<1>1. \A r \in Rounds, v \in VoteValues : prevotes[r][v] = {} /\ precommits[r][v] = {}
  BY DEF Init
<1>2. CASE Proposer[0] \in Honest \ Waiting
  <2>1. PICK v \in NewValues(0) :
          /\ proposals = {[round |-> 0, value |-> v, validRound |-> -1]}
          /\ journal = [n \in Honest |->
               IF n = Proposer[0]
               THEN Recorded(FreshJournal, PROPOSAL, 0, v)
               ELSE FreshJournal]
    BY <1>2 DEF Init
  <2>2. Covered(Proposer[0], PROPOSAL, 0, v)
    BY <1>2, <2>1 DEF Covered, Recorded, FreshJournal
  <2> QED
    BY <1>1, <1>2, <2>1, <2>2 DEF SignaturesCovered, NoDoubleSign
<1>3. CASE Proposer[0] \notin Honest \ Waiting
  <2>1. proposals = {}
    BY <1>3 DEF Init
  <2> QED
    BY <1>1, <2>1 DEF SignaturesCovered, NoDoubleSign
<1> QED
  BY <1>2, <1>3

LEMMA SignsCovered ==
  ASSUME TypeOK, SignaturesCovered, NoDoubleSign, Signs
  PROVE  SignaturesCovered' /\ NoDoubleSign'
<1> USE ConstantsAssumption
<1>0. \A r \in Rounds, v \in VoteValues :
        prevotes[r][v] \subseteq Honest /\ precommits[r][v] \subseteq Honest
  BY DEF TypeOK, Tables
<1>1. CASE SignsNothing
  BY <1>1 DEF SignsNothing, SignaturesCovered, NoDoubleSign, Covered
<1>2. ASSUME NEW n \in Honest, NEW r \in Rounds, NEW v \in Values,
             NEW vr \in Rounds \cup {-1}, SignsProposal(n, r, v, vr)
      PROVE  SignaturesCovered' /\ NoDoubleSign'
  <2>1. /\ Proposer[r] = n /\ MayRecord(n, PROPOSAL, r, v)
        /\ Record(n, PROPOSAL, r, v)
        /\ proposals' = proposals \cup {[round |-> r, value |-> v, validRound |-> vr]}
        /\ prevotes' = prevotes /\ precommits' = precommits /\ v \in VoteValues
    BY <1>2 DEF SignsProposal, VoteValues
  <2>2. \A p \in proposals : p.round \in Rounds /\ p.value \in VoteValues
    BY DEF TypeOK, Proposals, VoteValues
  <2>3. SignaturesCovered'
    <3>1. ASSUME NEW p \in proposals'
          PROVE  /\ Proposer[p.round] \in Honest
                 /\ Covered(Proposer[p.round], PROPOSAL, p.round, p.value)'
      <4>1. CASE p \in proposals
        BY <2>1, <2>2, <4>1, RecordKeepsCovered DEF SignaturesCovered
      <4>2. CASE p = [round |-> r, value |-> v, validRound |-> vr]
        BY <2>1, <4>2, RecordCovers
      <4> QED
        BY <2>1, <4>1, <4>2
    <3>2. ASSUME NEW s \in Rounds, NEW w \in VoteValues
          PROVE  /\ \A m \in prevotes[s][w] : Covered(m, PREVOTE, s, w)'
                 /\ \A m \in precommits[s][w] : Covered(m, PRECOMMIT, s, w)'
      BY <1>0, <2>1, RecordKeepsCovered DEF SignaturesCovered
    <3> QED
      BY <2>1, <3>1, <3>2 DEF SignaturesCovered
  <2>4. NoDoubleSign'
    <3>1. ASSUME NEW p \in proposals, p.round = r
          PROVE  p.value = v
      <4>1. Covered(n, PROPOSAL, r, p.value)
        BY <2>1, <3>1 DEF SignaturesCovered
      <4> QED
        BY <2>1, <4>1, OneValuePerPosition
    <3>2. ASSUME NEW s \in Rounds, NEW p \in proposals', NEW q \in proposals',
                 p.round = s, q.round = s
          PROVE  p.value = q.value
      <4>1. p \in proposals \/ (p.round = r /\ p.value = v)
        BY <2>1
      <4>2. q \in proposals \/ (q.round = r /\ q.value = v)
        BY <2>1
      <4> QED
        BY <3>1, <3>2, <4>1, <4>2 DEF NoDoubleSign
    <3>3. \A s \in Rounds : \A p, q \in proposals' :
            p.round = s /\ q.round = s => p.value = q.value
      BY <3>2
    <3>4. \A s \in Rounds, x, y \in VoteValues :
            x # y => /\ prevotes'[s][x] \cap prevotes'[s][y] = {}
                     /\ precommits'[s][x] \cap precommits'[s][y] = {}
      <4>1. prevotes' = prevotes /\ precommits' = precommits
        BY <2>1
      <4> QED
        BY <4>1 DEF NoDoubleSign
    <3> QED
      BY <3>3, <3>4 DEF NoDoubleSign
  <2> QED
    BY <2>3, <2>4
<1>3. ASSUME NEW n \in Honest, NEW v \in VoteValues, SignsPrevote(n, v)
      PROVE  SignaturesCovered' /\ NoDoubleSign'
  <2>0. PICK r \in Rounds : r = round[n]
    BY DEF TypeOK
  <2>1. /\ MayRecord(n, PREVOTE, r, v) /\ Record(n, PREVOTE, r, v)
        /\ prevotes' = [prevotes EXCEPT ![r][v] = @ \cup {n}]
        /\ proposals' = proposals /\ precommits' = precommits
    BY <1>3, <2>0 DEF SignsPrevote
  <2>2. \A s \in Rounds, w \in VoteValues :
          prevotes'[s][w] = IF s = r /\ w = v THEN prevotes[s][w] \cup {n}
                            ELSE prevotes[s][w]
    BY <2>1 DEF TypeOK, Tables
  <2>3. SignaturesCovered'
    <3>1. ASSUME NEW p \in proposals
          PROVE  Covered(Proposer[p.round], PROPOSAL, p.round, p.value)'
      <4>1. p.round \in Rounds /\ p.value \in VoteValues /\ Proposer[p.round] \in Honest
        BY DEF SignaturesCovered, TypeOK, Proposals, VoteValues
      <4> QED
        BY <2>1, <4>1, RecordKeepsCovered DEF SignaturesCovered
    <3>2. ASSUME NEW s \in Rounds, NEW w \in VoteValues
          PROVE  /\ \A m \in prevotes'[s][w] : Covered(m, PREVOTE, s, w)'
                 /\ \A m \in precommits[s][w] : Covered(m, PRECOMMIT, s, w)'
      <4>1. \A m \in prevotes[s][w] : Covered(m, PREVOTE, s, w)'
        BY <1>0, <2>1, RecordKeepsCovered DEF SignaturesCovered
      <4>2. \A m \in precommits[s][w] : Covered(m, PRECOMMIT, s, w)'
        BY <1>0, <2>1, RecordKeepsCovered DEF SignaturesCovered
      <4>3. Covered(n, PREVOTE, r, v)'
        BY <2>1, RecordCovers
      <4> QED
        BY <2>2, <4>1, <4>2, <4>3
    <3> QED
      BY <2>1, <3>1, <3>2 DEF SignaturesCovered
  <2>4. NoDoubleSign'
    <3>1. \A w \in VoteValues : n \in prevotes[r][w] => w = v
      BY <2>1, OneValuePerPosition DEF SignaturesCovered
    <3> QED
      BY <2>1, <2>2, <3>1 DEF NoDoubleSign
  <2> QED
    BY <2>3, <2>4
<1>4. ASSUME NEW n \in Honest, NEW v \in VoteValues, SignsPrecommit(n, v)
      PROVE  SignaturesCovered' /\ NoDoubleSign'
  <2>0. PICK r \in Rounds : r = round[n]
    BY DEF TypeOK
  <2>1. /\ MayRecord(n, PRECOMMIT, r, v) /\ Record(n, PRECOMMIT, r, v)
        /\ precommits' = [precommits EXCEPT ![r][v] = @ \cup {n}]
        /\ proposals' = proposals /\ prevotes' = prevotes
    BY <1>4, <2>0 DEF SignsPrecommit
  <2>2. \A s \in Rounds, w \in VoteValues :
          precommits'[s][w] = IF s = r /\ w = v THEN precommits[s][w] \cup {n}
                              ELSE precommits[s][w]
    BY <2>1 DEF TypeOK, Tables
  <2>3. SignaturesCovered'
    <3>1. ASSUME NEW p \in proposals
          PROVE  Covered(Proposer[p.round], PROPOSAL, p.round, p.value)'
      <4>1. p.round \in Rounds /\ p.value \in VoteValues /\ Proposer[p.round] \in Honest
        BY DEF SignaturesCovered, TypeOK, Proposals, VoteValues
      <4> QED
        BY <2>1, <4>1, RecordKeepsCovered DEF SignaturesCovered
    <3>2. ASSUME NEW s \in Rounds, NEW w \in VoteValues
          PROVE  /\ \A m \in prevotes[s][w] : Covered(m, PREVOTE, s, w)'
                 /\ \A m \in precommits'[s][w] : Covered(m, PRECOMMIT, s, w)'
      <4>1. \A m \in prevotes[s][w] : Covered(m, PREVOTE, s, w)'
        BY <1>0, <2>1, RecordKeepsCovered DEF SignaturesCovered
      <4>2. \A m \in precommits[s][w] : Covered(m, PRECOMMIT, s, w)'
        BY <1>0, <2>1, RecordKeepsCovered DEF SignaturesCovered
      <4>3. Covered(n, PRECOMMIT, r, v)'
        BY <2>1, RecordCovers
      <4> QED
        BY <2>2, <4>1, <4>2, <4>3
    <3> QED
      BY <2>1, <3>1, <3>2 DEF SignaturesCovered
  <2>4. NoDoubleSign'
    <3>1. \A w \in VoteValues : n \in precommits[r][w] => w = v
      BY <2>1, OneValuePerPosition DEF SignaturesCovered
    <3> QED
      BY <2>1, <2>2, <3>1 DEF NoDoubleSign
  <2> QED
    BY <2>3, <2>4
<1> QED
  BY <1>1, <1>2, <1>3, <1>4 DEF Signs

\* An honest validator never signs two values at one step, whatever crashes and
\* however its proposal is delayed: no honest validator can be accused.
THEOREM NeverDoubleSigns == Spec => []NoDoubleSign
<1> DEFINE Inv == TypeOK /\ SignaturesCovered /\ NoDoubleSign
<1>1. Init => Inv
  BY InitTyped, CoveredInit
<1>2. Inv /\ [Next]_vars => Inv'
  <2>1. Inv /\ Next => Inv'
    BY StepTyped, StepSigns, SignsCovered
  <2>2. Inv /\ UNCHANGED vars => Inv'
    BY DEF vars, protocol, messages, TypeOK, SignaturesCovered, Covered, NoDoubleSign
  <2> QED
    BY <2>1, <2>2
<1> QED
  BY <1>1, <1>2, PTL DEF Spec

-----------------------------------------------------------------------------
(***************************************************************************)
(* Two blocks can never both be certified at one height, for every number  *)
(* of validators and every set of rounds, as long as no honest validator   *)
(* holds its proposal back (Waiting = {}).  With a held-back proposal the  *)
(* lock can go backwards (see the run of StaysLocked), and the argument    *)
(* does not go through.                                                    *)
(*                                                                         *)
(* The argument: a precommit is backed by a quorum of prevotes; the lock,  *)
(* in the journal and in memory, is never behind a precommit; hence a      *)
(* prevote against a precommit needs a quorum of prevotes in between; hence *)
(* once any block has a quorum of prevotes in round t, no other block can  *)
(* ever be certified in an earlier round.                                  *)
(***************************************************************************)

PolkaBehindPrecommits ==
  \A r \in Rounds, v \in Values : precommits[r][v] # {} => Polka(r, v)

\* The journal is at or past the precommit step of round r.
PastPrecommit(n, r) ==
  \/ journal[n].round > r
  \/ journal[n].round = r /\ journal[n].step = PRECOMMIT

\* A lock is empty, or on a block that had a quorum of prevotes in its round,
\* in which the validator can no longer prevote.
SoundLock(n, r, v) ==
  \/ r = -1 /\ v = Nil
  \/ r \in Rounds /\ v \in Values /\ Polka(r, v) /\ PastPrecommit(n, r)

\* A lock on (s, w) is not behind a precommit for (r, v).
NotBehind(s, w, r, v) == s > r \/ (s = r /\ w = v)

JournalLock ==
  \A n \in Honest :
    /\ SoundLock(n, journal[n].lockRound, journal[n].lockValue)
    /\ \A r \in Rounds, v \in Values : n \in precommits[r][v] =>
         NotBehind(journal[n].lockRound, journal[n].lockValue, r, v)

MemoryLock ==
  \A n \in Honest :
    /\ SoundLock(n, lockedRound[n], lockedValue[n])
    /\ \A r \in Rounds, v \in Values : n \in precommits[r][v] =>
         NotBehind(lockedRound[n], lockedValue[n], r, v)

\* A validator is never in a round before one it has signed in.
RoundCoversJournal ==
  \A n \in Honest : pending[n] = -1 /\ journal[n].round <= round[n]

\* Those that have precommitted v in round r, or still may.
MayPrecommit(r, v) ==
  {n \in Honest : n \in precommits[r][v] \/ MayRecord(n, PRECOMMIT, r, v)}

Choosable(r, v) == IsQuorum(MayPrecommit(r, v) \cup Faulty)

PolkaExcludes ==
  \A r, t \in Rounds, v, w \in Values :
    r < t /\ v # w /\ Polka(t, w) => ~ Choosable(r, v)

Base == TypeOK /\ SignaturesCovered /\ NoDoubleSign
Locks == PolkaBehindPrecommits /\ JournalLock /\ MemoryLock /\ RoundCoversJournal
SafetyInv == Base /\ Locks /\ LockRule /\ PolkaExcludes

-----------------------------------------------------------------------------
(* Quorums.                                                                 *)

LEMMA LargerQuorum ==
  ASSUME NEW S \in SUBSET Validators, NEW T \in SUBSET Validators,
         S \subseteq T, IsQuorum(S)
  PROVE  IsQuorum(T)
<1>1. IsFiniteSet(Validators)
  BY ConstantsAssumption, FS_Union DEF Validators
<1>2. IsFiniteSet(T) /\ IsFiniteSet(S)
  BY <1>1, FS_Subset
<1>3. Cardinality(S) <= Cardinality(T) /\ Cardinality(S) \in Nat /\ Cardinality(T) \in Nat
  BY <1>2, FS_Subset, FS_CardinalityType
<1>4. Cardinality(Validators) \in Nat
  BY <1>1, FS_CardinalityType
<1>5. QuorumSize \in Int
  BY <1>4 DEF QuorumSize, N
<1> QED
  BY <1>3, <1>5 DEF IsQuorum

LEMMA VotersAreHonest ==
  ASSUME TypeOK, NEW r \in Rounds, NEW v \in VoteValues
  PROVE  prevotes[r][v] \in SUBSET Honest /\ precommits[r][v] \in SUBSET Honest
BY DEF TypeOK, Tables

\* In one round at most one value gets a quorum of prevotes.
LEMMA OnePolkaPerRound ==
  ASSUME TypeOK, NoDoubleSign, NEW r \in Rounds, NEW v \in VoteValues,
         NEW w \in VoteValues, Polka(r, v), Polka(r, w)
  PROVE  v = w
<1>1. /\ prevotes[r][v] \cup Faulty \in SUBSET Validators
      /\ prevotes[r][w] \cup Faulty \in SUBSET Validators
  BY VotersAreHonest DEF Validators
<1>2. PICK n \in Honest : n \in prevotes[r][v] \cup Faulty /\ n \in prevotes[r][w] \cup Faulty
  BY <1>1, QuorumsShareHonest DEF Polka
<1>3. n \in prevotes[r][v] \cap prevotes[r][w]
  BY <1>2, ConstantsAssumption
<1> QED
  BY <1>3 DEF NoDoubleSign

\* Signed votes are never taken back, and one step signs in one round at most.
LEMMA VotesGrow ==
  ASSUME TypeOK, Signs
  PROVE  \A r \in Rounds, v \in VoteValues :
           /\ prevotes[r][v] \subseteq prevotes'[r][v]
           /\ precommits[r][v] \subseteq precommits'[r][v]
<1>1. CASE UNCHANGED <<prevotes, precommits>>
  BY <1>1
<1>2. ASSUME NEW n \in Honest, NEW w \in VoteValues,
             SignsPrevote(n, w) \/ SignsPrecommit(n, w)
      PROVE  \A r \in Rounds, v \in VoteValues :
               /\ prevotes[r][v] \subseteq prevotes'[r][v]
               /\ precommits[r][v] \subseteq precommits'[r][v]
  <2>1. PICK s \in Rounds : s = round[n]
    BY DEF TypeOK
  <2>2. \/ prevotes' = [prevotes EXCEPT ![s][w] = @ \cup {n}] /\ precommits' = precommits
        \/ precommits' = [precommits EXCEPT ![s][w] = @ \cup {n}] /\ prevotes' = prevotes
    BY <1>2, <2>1 DEF SignsPrevote, SignsPrecommit
  <2>3. prevotes \in Tables /\ precommits \in Tables
    BY DEF TypeOK
  <2>4. CASE prevotes' = [prevotes EXCEPT ![s][w] = @ \cup {n}] /\ precommits' = precommits
    BY <2>3, <2>4 DEF Tables
  <2>5. CASE precommits' = [precommits EXCEPT ![s][w] = @ \cup {n}] /\ prevotes' = prevotes
    BY <2>3, <2>5 DEF Tables
  <2> QED
    BY <2>2, <2>4, <2>5
<1> QED
  BY <1>1, <1>2 DEF Signs, SignsNothing, SignsProposal

LEMMA PolkaStays ==
  ASSUME TypeOK, TypeOK', Signs, NEW r \in Rounds, NEW v \in VoteValues, Polka(r, v)
  PROVE  Polka(r, v)'
<1>1. prevotes[r][v] \subseteq prevotes'[r][v]
  BY VotesGrow
<1>2. prevotes'[r][v] \subseteq Honest /\ prevotes[r][v] \subseteq Honest
  BY DEF TypeOK, Tables
<1>3. IsQuorum(prevotes[r][v] \cup Faulty) => IsQuorum(prevotes'[r][v] \cup Faulty)
  BY <1>1, <1>2, LargerQuorum DEF Validators
<1> QED
  BY <1>3 DEF Polka, IsQuorum

\* The journal never goes back to before a precommit step.
LEMMA PastStays ==
  ASSUME TypeOK, Signs, NEW n \in Honest, NEW r \in Rounds, PastPrecommit(n, r)
  PROVE  PastPrecommit(n, r)'
<1>1. CASE journal' = journal
  BY <1>1 DEF PastPrecommit
<1>2. ASSUME NEW m \in Honest, NEW s \in Rounds, NEW w \in VoteValues,
             NEW kind \in {PROPOSAL, PREVOTE, PRECOMMIT},
             MayRecord(m, kind, s, w), Record(m, kind, s, w)
      PROVE  PastPrecommit(n, r)'
  <2>1. s \in Int /\ r \in Int /\ kind \in 1 .. 3
    BY ConstantsAssumption DEF PROPOSAL, PREVOTE, PRECOMMIT
  <2>2. journal[n].round \in Int /\ journal[n].step \in Int
    BY JournalPosition
  <2>3. CASE m = n
    BY <1>2, <2>1, <2>2, <2>3
    DEF MayRecord, Record, Recorded, PastPrecommit, TypeOK, PRECOMMIT
  <2>4. CASE m # n
    BY <1>2, <2>4 DEF Record, PastPrecommit, TypeOK
  <2> QED
    BY <2>3, <2>4
<1>3. \A m \in Honest : round[m] \in Rounds
  BY DEF TypeOK
<1> QED
  BY <1>1, <1>2, <1>3 DEF Signs, SignsNothing, SignsProposal, SignsPrevote,
                          SignsPrecommit, VoteValues

-----------------------------------------------------------------------------
(* The journal side: precommits are backed and covered by the durable lock. *)

LEMMA SoundLockStays ==
  ASSUME TypeOK, TypeOK', Signs, NEW n \in Honest, NEW r, NEW v, SoundLock(n, r, v)
  PROVE  SoundLock(n, r, v)'
<1>1. CASE r = -1 /\ v = Nil
  BY <1>1 DEF SoundLock
<1>2. CASE r \in Rounds /\ v \in Values /\ Polka(r, v) /\ PastPrecommit(n, r)
  <2>1. Polka(r, v)'
    BY <1>2, PolkaStays DEF VoteValues
  <2>2. PastPrecommit(n, r)'
    BY <1>2, PastStays
  <2> QED
    BY <1>2, <2>1, <2>2 DEF SoundLock
<1> QED
  BY <1>1, <1>2 DEF SoundLock

\* The only precommits a step adds are the one a SignsPrecommit signs.
LEMMA NewPrecommit ==
  ASSUME TypeOK, Signs, NEW n \in Honest, NEW r \in Rounds, NEW v \in VoteValues,
         n \in precommits'[r][v], n \notin precommits[r][v]
  PROVE  SignsPrecommit(n, v) /\ r = round[n]
<1>1. CASE UNCHANGED precommits
  BY <1>1
<1>2. ASSUME NEW m \in Honest, NEW w \in VoteValues, SignsPrecommit(m, w)
      PROVE  SignsPrecommit(n, v) /\ r = round[n]
  <2>1. PICK s \in Rounds : s = round[m]
    BY DEF TypeOK
  <2>2. precommits' = [precommits EXCEPT ![s][w] = @ \cup {m}] /\ precommits \in Tables
    BY <1>2, <2>1 DEF SignsPrecommit, TypeOK
  <2>3. precommits'[r][v] = IF r = s /\ v = w THEN precommits[r][v] \cup {m}
                            ELSE precommits[r][v]
    BY <2>2 DEF Tables
  <2>4. r = s /\ v = w /\ n = m
    BY <2>3
  <2> QED
    BY <1>2, <2>1, <2>4
<1> QED
  BY <1>1, <1>2 DEF Signs, SignsNothing, SignsProposal, SignsPrevote

LEMMA NewPrevote ==
  ASSUME TypeOK, Signs, NEW n \in Honest, NEW r \in Rounds, NEW v \in VoteValues,
         n \in prevotes'[r][v], n \notin prevotes[r][v]
  PROVE  SignsPrevote(n, v) /\ r = round[n]
<1>1. CASE UNCHANGED prevotes
  BY <1>1
<1>2. ASSUME NEW m \in Honest, NEW w \in VoteValues, SignsPrevote(m, w)
      PROVE  SignsPrevote(n, v) /\ r = round[n]
  <2>1. PICK s \in Rounds : s = round[m]
    BY DEF TypeOK
  <2>2. prevotes' = [prevotes EXCEPT ![s][w] = @ \cup {m}] /\ prevotes \in Tables
    BY <1>2, <2>1 DEF SignsPrevote, TypeOK
  <2>3. prevotes'[r][v] = IF r = s /\ v = w THEN prevotes[r][v] \cup {m}
                          ELSE prevotes[r][v]
    BY <2>2 DEF Tables
  <2>4. r = s /\ v = w /\ n = m
    BY <2>3
  <2> QED
    BY <1>2, <2>1, <2>4
<1> QED
  BY <1>1, <1>2 DEF Signs, SignsNothing, SignsProposal, SignsPrecommit

LEMMA PolkaBehindStep ==
  ASSUME TypeOK, TypeOK', Signs, PolkaBehindPrecommits
  PROVE  PolkaBehindPrecommits'
<1> SUFFICES ASSUME NEW r \in Rounds, NEW v \in Values, precommits'[r][v] # {}
             PROVE  Polka(r, v)'
  BY DEF PolkaBehindPrecommits
<1>1. v \in VoteValues /\ v # Nil
  BY ConstantsAssumption DEF VoteValues
<1>2. PICK n \in Honest : n \in precommits'[r][v]
  BY <1>1 DEF TypeOK, Tables
<1>3. Polka(r, v)
  <2>1. CASE n \in precommits[r][v]
    BY <2>1 DEF PolkaBehindPrecommits
  <2>2. CASE n \notin precommits[r][v]
    <3>1. SignsPrecommit(n, v) /\ r = round[n]
      BY <1>1, <1>2, <2>2, NewPrecommit
    <3>2. Polka(round[n], v)
      BY <1>1, <3>1 DEF SignsPrecommit
    <3> QED
      BY <3>1, <3>2
  <2> QED
    BY <2>1, <2>2
<1> QED
  BY <1>1, <1>3, PolkaStays

\* A lock written by a new precommit is not behind any earlier one.
LEMMA PrecommitsAscend ==
  ASSUME Base, NEW n \in Honest, NEW v \in VoteValues, SignsPrecommit(n, v),
         NEW r \in Rounds, NEW w \in VoteValues, n \in precommits[r][w]
  PROVE  NotBehind(round[n], v, r, w)
<1>1. PICK s \in Rounds : s = round[n]
  BY DEF Base, TypeOK
<1>2. MayRecord(n, PRECOMMIT, s, v) /\ Covered(n, PRECOMMIT, r, w)
  BY <1>1 DEF SignsPrecommit, Base, SignaturesCovered
<1>3. /\ s \in Int /\ r \in Int
      /\ journal[n].round \in Int /\ journal[n].step \in 0 .. 3
  BY JournalPosition, ConstantsAssumption DEF Base, TypeOK, Journals
<1> QED
  BY <1>1, <1>2, <1>3 DEF MayRecord, Covered, NotBehind, PRECOMMIT

LEMMA JournalLockStep ==
  ASSUME Base, TypeOK', Signs, PolkaBehindPrecommits', JournalLock
  PROVE  JournalLock'
<1> SUFFICES ASSUME NEW n \in Honest
             PROVE  /\ SoundLock(n, journal[n].lockRound, journal[n].lockValue)'
                    /\ \A r \in Rounds, v \in Values : n \in precommits'[r][v] =>
                         NotBehind(journal'[n].lockRound, journal'[n].lockValue, r, v)
  BY DEF JournalLock, NotBehind
<1>0. TypeOK /\ journal \in [Honest -> Journals] /\ round[n] \in Rounds
  BY DEF Base, TypeOK
<1>1. CASE \E v \in Values : SignsPrecommit(n, v)
  <2>1. PICK v \in Values : SignsPrecommit(n, v)
    BY <1>1
  <2>2. v \in VoteValues /\ v # Nil
    BY ConstantsAssumption DEF VoteValues
  <2>0. PICK s \in Rounds : s = round[n]
    BY <1>0
  <2>3. /\ journal'[n].lockRound = s /\ journal'[n].lockValue = v
        /\ journal'[n].round = s /\ journal'[n].step = PRECOMMIT
    BY <1>0, <2>0, <2>1, <2>2 DEF SignsPrecommit, Record, Recorded
  <2>4. Polka(s, v)'
    <3>1. Polka(round[n], v)
      BY <2>1, <2>2 DEF SignsPrecommit
    <3>2. Polka(s, v)
      BY <2>0, <3>1
    <3> QED
      BY <1>0, <2>2, <3>2, PolkaStays
  <2>5. SoundLock(n, s, v)'
    BY <2>3, <2>4 DEF SoundLock, PastPrecommit
  <2>6. ASSUME NEW r \in Rounds, NEW w \in Values, n \in precommits'[r][w]
        PROVE  NotBehind(round[n], v, r, w)
    <3>1. w \in VoteValues
      BY DEF VoteValues
    <3>2. CASE n \in precommits[r][w]
      BY <2>1, <2>2, <3>1, <3>2, PrecommitsAscend
    <3>3. CASE n \notin precommits[r][w]
      <4>1. SignsPrecommit(n, w) /\ r = round[n]
        BY <1>0, <2>6, <3>1, <3>3, NewPrecommit
      <4>2. journal'[n].value = v /\ journal'[n].value = w
        BY <1>0, <2>1, <4>1 DEF SignsPrecommit, Record, Recorded
      <4> QED
        BY <4>1, <4>2 DEF NotBehind
    <3> QED
      BY <3>2, <3>3
  <2> QED
    BY <2>0, <2>3, <2>5, <2>6 DEF SoundLock, PastPrecommit, Polka, IsQuorum
<1>2. CASE ~ \E v \in Values : SignsPrecommit(n, v)
  <2>1. /\ journal'[n].lockRound = journal[n].lockRound
        /\ journal'[n].lockValue = journal[n].lockValue
    <3>1. CASE journal' = journal
      BY <3>1
    <3>2. ASSUME NEW m \in Honest, NEW s, NEW w, NEW kind,
                 Record(m, kind, s, w), kind # PRECOMMIT \/ w = Nil \/ m # n
          PROVE  /\ journal'[n].lockRound = journal[n].lockRound
                 /\ journal'[n].lockValue = journal[n].lockValue
      BY <1>0, <3>2 DEF Record, Recorded, Journals
    <3>3. \A m \in Honest, w \in VoteValues : SignsPrecommit(m, w) => w = Nil \/ m # n
      BY <1>2 DEF VoteValues
    <3>4. CASE SignsNothing
      BY <3>1, <3>4 DEF SignsNothing
    <3>5. ASSUME NEW m \in Honest, NEW s, NEW w, NEW t, SignsProposal(m, s, w, t)
          PROVE  /\ journal'[n].lockRound = journal[n].lockRound
                 /\ journal'[n].lockValue = journal[n].lockValue
      BY <3>2, <3>5 DEF SignsProposal, PROPOSAL, PRECOMMIT
    <3>6. ASSUME NEW m \in Honest, NEW w, SignsPrevote(m, w)
          PROVE  /\ journal'[n].lockRound = journal[n].lockRound
                 /\ journal'[n].lockValue = journal[n].lockValue
      BY <3>2, <3>6 DEF SignsPrevote, PREVOTE, PRECOMMIT
    <3>7. ASSUME NEW m \in Honest, NEW w \in VoteValues, SignsPrecommit(m, w)
          PROVE  /\ journal'[n].lockRound = journal[n].lockRound
                 /\ journal'[n].lockValue = journal[n].lockValue
      BY <3>2, <3>3, <3>7 DEF SignsPrecommit
    <3> QED
      BY <3>4, <3>5, <3>6, <3>7 DEF Signs
  <2>2. \A r \in Rounds, v \in Values :
          n \in precommits'[r][v] => n \in precommits[r][v]
    BY <1>0, <1>2, NewPrecommit DEF VoteValues
  <2>3. SoundLock(n, journal[n].lockRound, journal[n].lockValue)
    BY DEF JournalLock
  <2>4. PICK lr \in Rounds \cup {-1}, lv \in VoteValues :
          lr = journal[n].lockRound /\ lv = journal[n].lockValue
    BY <1>0 DEF Journals
  <2>5. SoundLock(n, lr, lv)'
    <3>1. SoundLock(n, lr, lv)
      BY <2>3, <2>4
    <3> QED
      BY <1>0, <3>1, SoundLockStays
  <2> QED
    BY <2>1, <2>2, <2>4, <2>5 DEF JournalLock, SoundLock, PastPrecommit, Polka, IsQuorum
<1> QED
  BY <1>1, <1>2

-----------------------------------------------------------------------------
(* The memory side.  Only ActOnPolka and Restart move the lock.             *)

LEMMA RoundCoversInit ==
  Init /\ Waiting = {} => RoundCoversJournal
<1> SUFFICES ASSUME Init, Waiting = {}, NEW n \in Honest
             PROVE  pending[n] = -1 /\ journal[n].round <= round[n]
  BY DEF RoundCoversJournal
<1>1. pending[n] = -1 /\ round[n] = 0
  BY DEF Init
<1>2. journal[n].round \in {-1, 0}
  <2>1. CASE Proposer[0] \in Honest \ Waiting
    <3>1. PICK v \in NewValues(0) :
            journal = [m \in Honest |->
               IF m = Proposer[0]
               THEN Recorded(FreshJournal, PROPOSAL, 0, v)
               ELSE FreshJournal]
      BY <2>1 DEF Init
    <3> QED
      BY <3>1 DEF Recorded, FreshJournal
  <2>2. CASE Proposer[0] \notin Honest \ Waiting
    BY <2>2 DEF Init, FreshJournal
  <2> QED
    BY <2>1, <2>2
<1> QED
  BY <1>1, <1>2

\* Entering a later round, or the journal's own round, keeps the journal covered.
LEMMA StartRoundCovers ==
  ASSUME TypeOK, NEW n \in Honest, NEW r \in Rounds, NEW value, NEW vround,
         StartRound(n, r, value, vround), journal[n].round <= r
  PROVE  /\ round'[n] = r /\ journal'[n].round <= r
         /\ \A m \in Honest \ {n} : round'[m] = round[m] /\ journal'[m] = journal[m]
<1>1. r \in Int
  BY ConstantsAssumption
<1>2. journal' = journal \/ \E v : Record(n, PROPOSAL, r, v)
  BY DEF StartRound
<1>3. journal'[n].round <= r /\ \A m \in Honest \ {n} : journal'[m] = journal[m]
  BY <1>1, <1>2 DEF Record, Recorded, TypeOK
<1> QED
  BY <1>3 DEF StartRound, TypeOK

\* A vote of the current round keeps the journal covered.
LEMMA VoteCovers ==
  ASSUME TypeOK, NEW n \in Honest, NEW v, CastPrevote(n, v) \/ CastPrecommit(n, v),
         RoundCoversJournal, round' = round, pending' = pending
  PROVE  RoundCoversJournal'
<1>1. journal' = journal \/ \E kind : Record(n, kind, round[n], v)
  BY DEF CastPrevote, CastPrecommit
<1>2. \A m \in Honest : journal'[m].round \in {journal[m].round, round[m]}
  BY <1>1 DEF Record, Recorded, TypeOK
<1>3. \A m \in Honest : round[m] \in Int
  <2>1. round \in [Honest -> Rounds] /\ Rounds \subseteq Int
    BY ConstantsAssumption DEF TypeOK
  <2> QED
    BY <2>1
<1> QED
  BY <1>2, <1>3 DEF RoundCoversJournal

LEMMA RoundCoversStep ==
  ASSUME TypeOK, Waiting = {}, Next, RoundCoversJournal
  PROVE  RoundCoversJournal'
<1> SUFFICES ASSUME NEW n \in Honest,
               \/ PrevoteProposal(n) \/ ActOnPolka(n) \/ PrecommitNil(n)
               \/ SkipRound(n) \/ Decide(n) \/ Adopt(n)
               \/ TimeoutPropose(n) \/ TimeoutPrevote(n) \/ TimeoutPrecommit(n)
               \/ ReleaseProposal(n) \/ Restart(n)
             PROVE  RoundCoversJournal'
  BY DEF Next
<1>0. /\ Rounds \subseteq Int
      /\ \A m \in Honest : round[m] \in Int /\ journal[m].round \in Int
  <2>1. round \in [Honest -> Rounds] /\ Rounds \subseteq Int
    BY ConstantsAssumption DEF TypeOK
  <2> QED
    BY <2>1, JournalPosition
<1>1. CASE PrevoteProposal(n) \/ PrecommitNil(n) \/ TimeoutPropose(n) \/ TimeoutPrevote(n)
  <2>1. /\ \E v : CastPrevote(n, v) \/ CastPrecommit(n, v)
        /\ round' = round /\ pending' = pending
    BY <1>1 DEF PrevoteProposal, PrecommitNil, TimeoutPropose, TimeoutPrevote
  <2> QED
    BY <2>1, VoteCovers
<1>2. CASE ActOnPolka(n)
  <2>1. round' = round /\ pending' = pending
    BY <1>2 DEF ActOnPolka
  <2>2. journal' = journal \/ \E v : CastPrecommit(n, v)
    BY <1>2 DEF ActOnPolka
  <2> QED
    BY <2>1, <2>2, VoteCovers DEF RoundCoversJournal
<1>3. CASE Decide(n) \/ Adopt(n)
  BY <1>3 DEF Decide, Adopt, RoundCoversJournal
<1>4. CASE SkipRound(n) \/ TimeoutPrecommit(n)
  <2>1. PICK r \in Rounds : r > round[n] /\ StartRound(n, r, validValue[n], validRound[n])
    BY <1>0, <1>4 DEF SkipRound, TimeoutPrecommit
  <2>2. pending' = pending
    BY <1>4 DEF SkipRound, TimeoutPrecommit
  <2>3. journal[n].round <= r
    BY <1>0, <2>1 DEF RoundCoversJournal
  <2> QED
    BY <2>1, <2>2, <2>3, StartRoundCovers DEF RoundCoversJournal
<1>5. CASE ReleaseProposal(n)
  BY <1>5 DEF ReleaseProposal, RoundCoversJournal
<1>6. CASE Restart(n)
  <2> DEFINE first == IF journal[n].round >= 0 THEN journal[n].round ELSE 0
  <2>1. first \in Rounds /\ journal[n].round <= first
    BY <1>0, ConstantsAssumption DEF TypeOK, Journals
  <2>2. StartRound(n, first, Nil, -1) /\ pending' = [pending EXCEPT ![n] = -1]
    BY <1>6 DEF Restart
  <2> HIDE DEF first
  <2> QED
    BY <2>1, <2>2, StartRoundCovers DEF RoundCoversJournal, TypeOK
<1> QED
  BY <1>1, <1>2, <1>3, <1>4, <1>5, <1>6

NoNewPrecommit(m) ==
  \A r \in Rounds, v \in Values : m \in precommits'[r][v] => m \in precommits[r][v]

\* A step leaves the lock of m alone, restores it from the journal, or locks a
\* block with a quorum of prevotes in the current round and precommits it.
LEMMA LockMoves ==
  ASSUME TypeOK, Next, NEW m \in Honest
  PROVE  \/ /\ lockedRound'[m] = lockedRound[m] /\ lockedValue'[m] = lockedValue[m]
            /\ NoNewPrecommit(m)
         \/ /\ lockedRound'[m] = journal[m].lockRound
            /\ lockedValue'[m] = journal[m].lockValue
            /\ NoNewPrecommit(m)
         \/ \E v \in Values :
              /\ lockedRound'[m] = round[m] /\ lockedValue'[m] = v
              /\ Polka(round[m], v) /\ CastPrecommit(m, v)
<1> DEFINE Goal ==
      \/ /\ lockedRound'[m] = lockedRound[m] /\ lockedValue'[m] = lockedValue[m]
         /\ NoNewPrecommit(m)
      \/ /\ lockedRound'[m] = journal[m].lockRound
         /\ lockedValue'[m] = journal[m].lockValue
         /\ NoNewPrecommit(m)
      \/ \E v \in Values :
           /\ lockedRound'[m] = round[m] /\ lockedValue'[m] = v
           /\ Polka(round[m], v) /\ CastPrecommit(m, v)
<1> SUFFICES ASSUME NEW n \in Honest,
               \/ PrevoteProposal(n) \/ ActOnPolka(n) \/ PrecommitNil(n)
               \/ SkipRound(n) \/ Decide(n) \/ Adopt(n)
               \/ TimeoutPropose(n) \/ TimeoutPrevote(n) \/ TimeoutPrecommit(n)
               \/ ReleaseProposal(n) \/ Restart(n)
             PROVE  Goal
  BY DEF Next
<1>0. /\ lockedRound \in [Honest -> Rounds \cup {-1}]
      /\ lockedValue \in [Honest -> VoteValues]
      /\ precommits \in Tables /\ round[n] \in Rounds /\ Nil \notin Values
  BY ConstantsAssumption DEF TypeOK
<1>1. ASSUME NEW v \in VoteValues, CastPrecommit(n, v), m # n \/ v = Nil
      PROVE  NoNewPrecommit(m)
  <2>1. \/ precommits' = precommits
        \/ precommits' = [precommits EXCEPT ![round[n]][v] = @ \cup {n}]
    BY <1>1 DEF CastPrecommit
  <2> QED
    BY <1>0, <1>1, <2>1 DEF NoNewPrecommit, Tables, VoteValues
<1>2. precommits' = precommits => NoNewPrecommit(m)
  BY DEF NoNewPrecommit
<1>3. CASE PrecommitNil(n) \/ TimeoutPrevote(n)
  <2>1. CastPrecommit(n, Nil) /\ UNCHANGED <<lockedRound, lockedValue>>
    BY <1>3 DEF PrecommitNil, TimeoutPrevote
  <2> QED
    BY <1>1, <2>1 DEF VoteValues
<1>4. CASE \/ PrevoteProposal(n) \/ TimeoutPropose(n) \/ SkipRound(n)
           \/ TimeoutPrecommit(n) \/ ReleaseProposal(n) \/ Decide(n) \/ Adopt(n)
  <2>1. UNCHANGED <<lockedRound, lockedValue, precommits>>
    BY <1>4 DEF PrevoteProposal, TimeoutPropose, SkipRound, TimeoutPrecommit,
                ReleaseProposal, Decide, Adopt, CastPrevote, StartRound, messages
  <2> QED
    BY <1>2, <2>1
<1>5. CASE Restart(n)
  <2>1. /\ lockedRound' = [lockedRound EXCEPT ![n] = journal[n].lockRound]
        /\ lockedValue' = [lockedValue EXCEPT ![n] = journal[n].lockValue]
        /\ precommits' = precommits
    BY <1>5 DEF Restart, StartRound
  <2>2. CASE m = n
    BY <1>0, <1>2, <2>1, <2>2
  <2>3. CASE m # n
    BY <1>0, <1>2, <2>1, <2>3
  <2> QED
    BY <2>2, <2>3
<1>6. CASE ActOnPolka(n)
  <2>1. CASE step[n] = "prevote"
    <3>1. PICK v \in Values :
            /\ Polka(round[n], v) /\ CastPrecommit(n, v)
            /\ lockedValue' = [lockedValue EXCEPT ![n] = v]
            /\ lockedRound' = [lockedRound EXCEPT ![n] = round[n]]
      BY <1>6, <2>1 DEF ActOnPolka
    <3>2. CASE m = n
      BY <1>0, <3>1, <3>2
    <3>3. CASE m # n
      <4>1. NoNewPrecommit(m)
        BY <1>1, <3>1, <3>3 DEF VoteValues
      <4> QED
        BY <1>0, <3>1, <3>3, <4>1
    <3> QED
      BY <3>2, <3>3
  <2>2. CASE step[n] # "prevote"
    BY <1>2, <1>6, <2>2 DEF ActOnPolka
  <2> QED
    BY <2>1, <2>2
<1> QED
  BY <1>3, <1>4, <1>5, <1>6

LEMMA MemoryLockStep ==
  ASSUME Base, TypeOK', Signs, Next, Locks
  PROVE  MemoryLock'
<1> SUFFICES ASSUME NEW m \in Honest
             PROVE  /\ SoundLock(m, lockedRound[m], lockedValue[m])'
                    /\ \A r \in Rounds, v \in Values : m \in precommits'[r][v] =>
                         NotBehind(lockedRound'[m], lockedValue'[m], r, v)
  BY DEF MemoryLock, NotBehind
<1>0. TypeOK
  BY DEF Base
<1>1. ASSUME NEW s \in Rounds \cup {-1}, NEW w \in VoteValues,
             lockedRound'[m] = s, lockedValue'[m] = w, SoundLock(m, s, w)',
             \A r \in Rounds, v \in Values :
               m \in precommits'[r][v] => NotBehind(s, w, r, v)
      PROVE  /\ SoundLock(m, lockedRound[m], lockedValue[m])'
             /\ \A r \in Rounds, v \in Values : m \in precommits'[r][v] =>
                  NotBehind(lockedRound'[m], lockedValue'[m], r, v)
  BY <1>1 DEF SoundLock, PastPrecommit, Polka, IsQuorum
<1>2. ASSUME NEW s \in Rounds \cup {-1}, NEW w \in VoteValues,
             lockedRound'[m] = s, lockedValue'[m] = w, SoundLock(m, s, w),
             NoNewPrecommit(m),
             \A r \in Rounds, v \in Values :
               m \in precommits[r][v] => NotBehind(s, w, r, v)
      PROVE  /\ SoundLock(m, lockedRound[m], lockedValue[m])'
             /\ \A r \in Rounds, v \in Values : m \in precommits'[r][v] =>
                  NotBehind(lockedRound'[m], lockedValue'[m], r, v)
  <2>1. SoundLock(m, s, w)'
    BY <1>0, <1>2, SoundLockStays
  <2> QED
    BY <1>1, <1>2, <2>1 DEF NoNewPrecommit
<1>3. CASE /\ lockedRound'[m] = lockedRound[m] /\ lockedValue'[m] = lockedValue[m]
           /\ NoNewPrecommit(m)
  <2>1. lockedRound[m] \in Rounds \cup {-1} /\ lockedValue[m] \in VoteValues
    BY <1>0 DEF TypeOK
  <2> QED
    BY <1>2, <1>3, <2>1 DEF Locks, MemoryLock
<1>4. CASE /\ lockedRound'[m] = journal[m].lockRound
           /\ lockedValue'[m] = journal[m].lockValue
           /\ NoNewPrecommit(m)
  <2>1. journal[m].lockRound \in Rounds \cup {-1} /\ journal[m].lockValue \in VoteValues
    BY <1>0 DEF TypeOK, Journals
  <2> QED
    BY <1>2, <1>4, <2>1 DEF Locks, JournalLock
<1>5. ASSUME NEW v \in Values,
             lockedRound'[m] = round[m], lockedValue'[m] = v,
             Polka(round[m], v), CastPrecommit(m, v)
      PROVE  /\ SoundLock(m, lockedRound[m], lockedValue[m])'
             /\ \A r \in Rounds, w \in Values : m \in precommits'[r][w] =>
                  NotBehind(lockedRound'[m], lockedValue'[m], r, w)
  <2>0. PICK s \in Rounds : s = round[m]
    BY <1>0 DEF TypeOK
  <2>1. v \in VoteValues /\ v # Nil /\ Polka(s, v)
    BY <1>5, <2>0, ConstantsAssumption DEF VoteValues
  <2>2. /\ s \in Int /\ Rounds \subseteq Int
        /\ journal[m].round \in Int /\ journal[m].step \in 0 .. 3
        /\ journal[m].round <= s
    BY <1>0, <2>0, JournalPosition, ConstantsAssumption
    DEF TypeOK, Journals, Locks, RoundCoversJournal
  <2>3. PastPrecommit(m, s)'
    BY <1>0, <1>5, <2>0, <2>2
    DEF CastPrecommit, MayRecord, Record, Recorded, PastPrecommit, TypeOK, PRECOMMIT
  <2>4. Polka(s, v)'
    BY <1>0, <2>1, PolkaStays
  <2>5. ASSUME NEW r \in Rounds, NEW w \in Values, m \in precommits'[r][w]
        PROVE  NotBehind(s, v, r, w)
    <3>1. w \in VoteValues
      BY DEF VoteValues
    <3>2. CASE m \in precommits[r][w]
      <4>1. Covered(m, PRECOMMIT, r, w)
        BY <3>1, <3>2 DEF Base, SignaturesCovered
      <4>2. r <= s
        BY <2>2, <4>1 DEF Covered
      <4>3. Polka(r, w)
        BY <3>2 DEF Locks, PolkaBehindPrecommits
      <4>4. r = s => w = v
        BY <1>0, <2>1, <3>1, <4>3, OnePolkaPerRound DEF Base
      <4> QED
        BY <2>2, <4>2, <4>4 DEF NotBehind
    <3>3. CASE m \notin precommits[r][w]
      <4>1. precommits' = [precommits EXCEPT ![s][v] = @ \cup {m}]
        BY <1>5, <2>0, <2>5, <3>3 DEF CastPrecommit
      <4>2. precommits \in Tables
        BY <1>0 DEF TypeOK
      <4> QED
        BY <2>1, <2>5, <3>1, <3>3, <4>1, <4>2 DEF Tables, NotBehind
    <3> QED
      BY <3>2, <3>3
  <2>6. SoundLock(m, s, v)'
    BY <2>3, <2>4 DEF SoundLock
  <2> QED
    BY <1>1, <1>5, <2>0, <2>1, <2>5, <2>6
<1> QED
  BY <1>0, <1>3, <1>4, <1>5, LockMoves

-----------------------------------------------------------------------------
(* The locking rule.                                                        *)

\* Between a precommit for v in round r and a prevote for w in round s.
Bridge(r, s, w) == \E t \in Rounds : r <= t /\ t < s /\ Polka(t, w)

LEMMA LockedRoundInt ==
  ASSUME TypeOK, NEW n \in Honest PROVE lockedRound[n] \in Int
<1>1. lockedRound \in [Honest -> Rounds \cup {-1}]
  BY DEF TypeOK
<1>2. Rounds \cup {-1} \subseteq Int
  BY ConstantsAssumption
<1> QED
  BY <1>1, <1>2

LEMMA LockRuleStep ==
  ASSUME Base, TypeOK', Signs, Locks, LockRule
  PROVE  LockRule'
<1> SUFFICES ASSUME NEW r \in Rounds, NEW s \in Rounds, NEW v \in Values, NEW w \in Values,
                    r < s, v # w, NEW n \in precommits'[r][v] \cap prevotes'[s][w]
             PROVE  Bridge(r, s, w)'
  BY DEF LockRule, Bridge
<1>0. TypeOK /\ v \in VoteValues /\ w \in VoteValues /\ v # Nil /\ w # Nil /\ Rounds \subseteq Int
  BY ConstantsAssumption DEF Base, VoteValues
<1>1. n \in Honest
  BY <1>0 DEF TypeOK, Tables
<1>2. Bridge(r, s, w) => Bridge(r, s, w)'
  <2> SUFFICES ASSUME NEW t \in Rounds, r <= t, t < s, Polka(t, w)
               PROVE  \E u \in Rounds : r <= u /\ u < s /\ Polka(u, w)'
    BY DEF Bridge
  <2> QED
    BY <1>0, PolkaStays
<1>3. CASE n \in precommits[r][v] /\ n \in prevotes[s][w]
  BY <1>2, <1>3 DEF LockRule, Bridge
<1>4. CASE n \notin precommits[r][v]
  <2>1. SignsPrecommit(n, v) /\ r = round[n]
    BY <1>0, <1>1, <1>4, NewPrecommit
  <2>2. n \in prevotes[s][w]
    <3>1. SignsPrecommit(n, v) => prevotes' = prevotes
      BY DEF SignsPrecommit
    <3> QED
      BY <2>1, <3>1
  <2>3. Covered(n, PREVOTE, s, w) /\ MayRecord(n, PRECOMMIT, r, v)
    BY <1>0, <2>1, <2>2 DEF Base, SignaturesCovered, SignsPrecommit
  <2>4. journal[n].round \in Int
    BY <1>0, <1>1, JournalPosition
  <2> QED
    BY <1>0, <2>3, <2>4 DEF Covered, MayRecord
<1>5. CASE n \in precommits[r][v] /\ n \notin prevotes[s][w]
  <2>1. SignsPrevote(n, w) /\ s = round[n]
    BY <1>0, <1>1, <1>5, NewPrevote
  <2>2. PICK vr \in Rounds \cup {-1} : Judgeable(n, w, vr) /\ Acceptable(n, w, vr)
    BY <1>0, <2>1 DEF SignsPrevote
  <2>3. MayRecord(n, PREVOTE, s, w)
    BY <2>1 DEF SignsPrevote
  <2>4. /\ SoundLock(n, lockedRound[n], lockedValue[n])
        /\ NotBehind(lockedRound[n], lockedValue[n], r, v)
    BY <1>1, <1>5 DEF Locks, MemoryLock
  <2>5. lockedRound[n] \in Int /\ lockedRound[n] >= r /\ lockedRound[n] # -1
    <3>1. lockedRound[n] \in Int
      BY <1>0, <1>1, LockedRoundInt
    <3>2. r \in Nat
      BY ConstantsAssumption
    <3>3. lockedRound[n] >= r
      BY <2>4, <3>1, <3>2 DEF NotBehind
    <3> QED
      BY <3>1, <3>2, <3>3
  <2>6. CASE vr # -1 /\ lockedRound[n] <= vr
    <3>1. vr \in Rounds /\ vr < s /\ Polka(vr, w)
      BY <2>1, <2>2, <2>6 DEF Judgeable
    <3>2. r <= vr
      BY <1>0, <2>5, <2>6, <3>1
    <3> QED
      BY <1>2, <3>1, <3>2 DEF Bridge
  <2>7. CASE lockedValue[n] = w
    <3>1. /\ lockedRound[n] \in Rounds /\ Polka(lockedRound[n], w)
          /\ PastPrecommit(n, lockedRound[n])
      BY <2>4, <2>5, <2>7 DEF SoundLock
    <3>2. lockedRound[n] < s
      <4>1. journal[n].round \in Int /\ journal[n].step \in Int
        BY <1>0, <1>1, JournalPosition
      <4> QED
        BY <1>0, <2>3, <2>5, <3>1, <4>1 DEF PastPrecommit, MayRecord, PREVOTE, PRECOMMIT
    <3> QED
      BY <1>2, <2>5, <3>1, <3>2 DEF Bridge
  <2> QED
    BY <2>2, <2>5, <2>6, <2>7 DEF Acceptable
<1> QED
  BY <1>3, <1>4, <1>5

-----------------------------------------------------------------------------
(* Agreement.                                                               *)

LEMMA ChoosableShrinks ==
  ASSUME Base, Signs, TypeOK', NEW r \in Rounds, NEW v \in Values, Choosable(r, v)'
  PROVE  Choosable(r, v)
<1> DEFINE after == {n \in Honest : n \in precommits'[r][v] \/ MayRecord(n, PRECOMMIT, r, v)'}
<1>0. TypeOK /\ v \in VoteValues /\ Rounds \subseteq Int
  BY ConstantsAssumption DEF Base, VoteValues
<1>1. ASSUME NEW n \in Honest, MayRecord(n, PRECOMMIT, r, v)'
      PROVE  MayRecord(n, PRECOMMIT, r, v)
  <2>1. CASE journal' = journal
    BY <1>1, <2>1 DEF MayRecord
  <2>2. ASSUME NEW m \in Honest, NEW s \in Rounds, NEW w \in VoteValues,
               NEW kind \in {PROPOSAL, PREVOTE, PRECOMMIT},
               MayRecord(m, kind, s, w), Record(m, kind, s, w)
        PROVE  MayRecord(n, PRECOMMIT, r, v)
    <3>1. s \in Int /\ r \in Int /\ kind \in 1 .. 3
      BY ConstantsAssumption DEF PROPOSAL, PREVOTE, PRECOMMIT
    <3>2. journal[n].round \in Int /\ journal[n].step \in Int
      BY <1>0, JournalPosition
    <3>3. CASE m = n
      BY <1>0, <1>1, <2>2, <3>1, <3>2, <3>3 DEF MayRecord, Record, Recorded, TypeOK, PRECOMMIT
    <3>4. CASE m # n
      BY <1>0, <1>1, <2>2, <3>4 DEF MayRecord, Record, TypeOK
    <3> QED
      BY <3>3, <3>4
  <2>3. \A m \in Honest : round[m] \in Rounds
    BY <1>0 DEF TypeOK
  <2> QED
    BY <2>1, <2>2, <2>3 DEF Signs, SignsNothing, SignsProposal, SignsPrevote,
                            SignsPrecommit, VoteValues
<1>2. ASSUME NEW n \in Honest, n \in precommits'[r][v], n \notin precommits[r][v]
      PROVE  MayRecord(n, PRECOMMIT, r, v)
  <2>1. SignsPrecommit(n, v) /\ r = round[n]
    BY <1>0, <1>2, NewPrecommit
  <2>2. MayRecord(n, PRECOMMIT, round[n], v)
    BY <2>1 DEF SignsPrecommit
  <2> QED
    BY <2>1, <2>2
<1>3. after \subseteq MayPrecommit(r, v)
  BY <1>1, <1>2 DEF MayPrecommit
<1>4. IsQuorum(after \cup Faulty)
  BY DEF Choosable, MayPrecommit, IsQuorum
<1> HIDE DEF after
<1>5. after \cup Faulty \subseteq MayPrecommit(r, v) \cup Faulty
  BY <1>3
<1>6. MayPrecommit(r, v) \cup Faulty \in SUBSET Validators
  BY DEF MayPrecommit, Validators
<1> QED
  BY <1>4, <1>5, <1>6, LargerQuorum DEF Choosable

LEMMA CertifiedIsChoosable ==
  ASSUME TypeOK, NEW r \in Rounds, NEW v \in Values, Certified(r, v)
  PROVE  Choosable(r, v)
<1>1. precommits[r][v] \in SUBSET Honest
  BY VotersAreHonest DEF VoteValues
<1>2. precommits[r][v] \cup Faulty \subseteq MayPrecommit(r, v) \cup Faulty
  BY <1>1 DEF MayPrecommit
<1> QED
  BY <1>1, <1>2, LargerQuorum DEF Certified, Choosable, MayPrecommit, Validators

LEMMA PolkaExcludesStep ==
  ASSUME Base, Base', Signs, PolkaBehindPrecommits', LockRule', PolkaExcludes
  PROVE  PolkaExcludes'
<1> SUFFICES ASSUME NEW r \in Rounds, NEW t \in Rounds, NEW v \in Values, NEW w \in Values,
                    r < t, v # w, Polka(t, w)', Choosable(r, v)'
             PROVE  FALSE
  BY DEF PolkaExcludes
<1>0. /\ TypeOK /\ TypeOK' /\ NoDoubleSign'
      /\ v \in VoteValues /\ w \in VoteValues /\ Rounds \subseteq Int
  BY ConstantsAssumption DEF Base, VoteValues
<1>1. Choosable(r, v)
  BY ChoosableShrinks, <1>0
<1>2. ~ Polka(t, w)
  BY <1>1 DEF PolkaExcludes
<1>3. \A s \in Rounds \ {t} : prevotes'[s] = prevotes[s]
  <2>1. CASE UNCHANGED prevotes
    BY <2>1
  <2>2. ASSUME NEW n \in Honest, NEW x \in VoteValues, SignsPrevote(n, x)
        PROVE  \A s \in Rounds \ {t} : prevotes'[s] = prevotes[s]
    <3>1. PICK u \in Rounds : u = round[n]
      BY <1>0 DEF TypeOK
    <3>2. prevotes' = [prevotes EXCEPT ![u][x] = @ \cup {n}] /\ prevotes \in Tables
      BY <1>0, <2>2, <3>1 DEF SignsPrevote, TypeOK
    <3>3. u = t
      <4> SUFFICES ASSUME u # t PROVE FALSE
        OBVIOUS
      <4>1. prevotes'[t][w] = prevotes[t][w]
        BY <1>0, <3>2 DEF Tables
      <4> QED
        BY <1>2, <4>1 DEF Polka, IsQuorum
    <3> QED
      BY <3>2, <3>3 DEF Tables
  <2> QED
    BY <2>1, <2>2 DEF Signs, SignsNothing, SignsProposal, SignsPrecommit
<1>4. PICK m \in Honest : m \in prevotes'[t][w] /\ m \in MayPrecommit(r, v)'
  <2> DEFINE may == {n \in Honest : n \in precommits'[r][v] \/ MayRecord(n, PRECOMMIT, r, v)'}
  <2>1. IsQuorum(may \cup Faulty) /\ IsQuorum(prevotes'[t][w] \cup Faulty)
    BY DEF Choosable, MayPrecommit, Polka, IsQuorum
  <2>2. /\ may \cup Faulty \in SUBSET Validators
        /\ prevotes'[t][w] \cup Faulty \in SUBSET Validators
    BY <1>0 DEF TypeOK, Tables, Validators
  <2> HIDE DEF may
  <2>3. PICK m \in Honest : m \in may \cup Faulty /\ m \in prevotes'[t][w] \cup Faulty
    BY <2>1, <2>2, QuorumsShareHonest
  <2> QED
    BY <2>3, ConstantsAssumption DEF may, MayPrecommit
<1>5. ~ MayRecord(m, PRECOMMIT, r, v)'
  <2>1. Covered(m, PREVOTE, t, w)'
    BY <1>0, <1>4 DEF Base, SignaturesCovered
  <2>2. journal'[m].round \in Int
    <3>1. journal'[m] \in Journals
      BY <1>0 DEF TypeOK
    <3>2. Rounds \cup {-1} \subseteq Int
      BY <1>0
    <3> QED
      BY <3>1, <3>2 DEF Journals
  <2> QED
    BY <1>0, <2>1, <2>2 DEF Covered, MayRecord
<1>6. m \in precommits'[r][v]
  BY <1>4, <1>5 DEF MayPrecommit
<1>7. PICK u \in Rounds : r <= u /\ u < t /\ Polka(u, w)'
  BY <1>4, <1>6 DEF LockRule
<1>8. CASE u = r
  <2>1. Polka(r, v)'
    BY <1>6 DEF PolkaBehindPrecommits
  <2>2. ASSUME NEW n \in Honest, n \in prevotes'[r][v], n \in prevotes'[r][w]
        PROVE  FALSE
    BY <1>0, <2>2 DEF NoDoubleSign
  <2>3. /\ prevotes'[r][v] \cup Faulty \in SUBSET Validators
        /\ prevotes'[r][w] \cup Faulty \in SUBSET Validators
    BY <1>0 DEF TypeOK, Tables, Validators
  <2>4. IsQuorum(prevotes'[r][v] \cup Faulty) /\ IsQuorum(prevotes'[r][w] \cup Faulty)
    BY <1>7, <1>8, <2>1 DEF Polka, IsQuorum
  <2> QED
    BY <2>2, <2>3, <2>4, QuorumsShareHonest, ConstantsAssumption
<1>9. CASE u # r
  <2>1. prevotes'[u] = prevotes[u] /\ r < u
    BY <1>0, <1>3, <1>7, <1>9
  <2>2. Polka(u, w)
    BY <1>7, <2>1 DEF Polka, IsQuorum
  <2> QED
    BY <1>1, <2>1, <2>2 DEF PolkaExcludes
<1> QED
  BY <1>8, <1>9

LEMMA SafetyGivesAgreement ==
  ASSUME SafetyInv PROVE Agreement
<1>0. TypeOK /\ Values \subseteq VoteValues /\ Rounds \subseteq Int
  BY ConstantsAssumption DEF SafetyInv, Base, VoteValues
<1>1. ASSUME NEW r \in Rounds, NEW v \in Values, Certified(r, v)
      PROVE  /\ precommits[r][v] \cup Faulty \in SUBSET Validators
             /\ IsQuorum(precommits[r][v] \cup Faulty)
             /\ Polka(r, v) /\ Choosable(r, v)
  <2>1. precommits[r][v] \in SUBSET Honest
    BY <1>0, VotersAreHonest
  <2>2. IsQuorum(precommits[r][v] \cup Faulty)
    BY <1>1 DEF Certified
  <2>3. PICK n \in Honest : n \in precommits[r][v] \cup Faulty
    BY <2>1, <2>2, QuorumsShareHonest DEF Validators
  <2>4. precommits[r][v] # {}
    BY <2>3, ConstantsAssumption
  <2> QED
    BY <1>0, <1>1, <2>1, <2>2, <2>4, CertifiedIsChoosable
    DEF SafetyInv, Locks, PolkaBehindPrecommits, Validators
<1>2. ASSUME NEW r \in Rounds, NEW s \in Rounds, NEW v \in Values, NEW w \in Values,
             Certified(r, v), Certified(s, w), r < s
      PROVE  v = w
  BY <1>1, <1>2 DEF SafetyInv, PolkaExcludes
<1>3. ASSUME NEW r \in Rounds, NEW v \in Values, NEW w \in Values,
             Certified(r, v), Certified(r, w)
      PROVE  v = w
  BY <1>0, <1>1, <1>3, OnePolkaPerRound DEF SafetyInv, Base
<1>4. \A r, s \in Rounds : r < s \/ s < r \/ r = s
  BY <1>0
<1> QED
  BY <1>2, <1>3, <1>4 DEF Agreement

LEMMA SafetyInit == Init /\ Waiting = {} => SafetyInv
<1> SUFFICES ASSUME Init, Waiting = {} PROVE SafetyInv
  OBVIOUS
<1>1. Base
  BY InitTyped, CoveredInit DEF Base
<1>2. \A r \in Rounds, v \in VoteValues : prevotes[r][v] = {} /\ precommits[r][v] = {}
  BY DEF Init
<1>3. Values \subseteq VoteValues
  BY DEF VoteValues
<1>4. \A n \in Honest : journal[n].lockRound = -1 /\ journal[n].lockValue = Nil
  <2>1. CASE Proposer[0] \in Honest \ Waiting
    <3>1. PICK v \in NewValues(0) :
            journal = [m \in Honest |->
               IF m = Proposer[0]
               THEN Recorded(FreshJournal, PROPOSAL, 0, v)
               ELSE FreshJournal]
      BY <2>1 DEF Init
    <3> QED
      BY <3>1 DEF Recorded, FreshJournal, PROPOSAL, PRECOMMIT
  <2>2. CASE Proposer[0] \notin Honest \ Waiting
    BY <2>2 DEF Init, FreshJournal
  <2> QED
    BY <2>1, <2>2
<1>5. JournalLock /\ MemoryLock
  BY <1>2, <1>3, <1>4 DEF Init, JournalLock, MemoryLock, SoundLock
<1>6. PolkaBehindPrecommits /\ LockRule
  BY <1>2, <1>3 DEF PolkaBehindPrecommits, LockRule
<1>7. \A r \in Rounds, v \in Values : ~ Polka(r, v)
  <2> SUFFICES ASSUME NEW r \in Rounds, NEW v \in Values, Polka(r, v) PROVE FALSE
    OBVIOUS
  <2>1. IsQuorum(Faulty)
    BY <1>2, <1>3 DEF Polka
  <2>2. PICK n \in Honest : n \in Faulty
    BY <2>1, QuorumsShareHonest DEF Validators
  <2> QED
    BY <2>2, ConstantsAssumption
<1> QED
  BY <1>1, <1>5, <1>6, <1>7, RoundCoversInit DEF SafetyInv, Locks, PolkaExcludes

LEMMA SafetyStep ==
  ASSUME Waiting = {}, SafetyInv, [Next]_vars
  PROVE  SafetyInv'
<1>1. CASE Next
  <2>1. Base /\ TypeOK /\ Signs
    BY <1>1, StepSigns DEF SafetyInv, Base
  <2>2. Base'
    BY <1>1, <2>1, StepTyped, SignsCovered DEF Base
  <2>3. TypeOK'
    BY <2>2 DEF Base
  <2>4. PolkaBehindPrecommits'
    BY <2>1, <2>3, PolkaBehindStep DEF SafetyInv, Locks
  <2>5. JournalLock' /\ MemoryLock' /\ RoundCoversJournal'
    BY <1>1, <2>1, <2>3, <2>4, JournalLockStep, MemoryLockStep, RoundCoversStep
    DEF SafetyInv, Locks
  <2>6. LockRule'
    BY <2>1, <2>3, LockRuleStep DEF SafetyInv
  <2>7. PolkaExcludes'
    BY <2>1, <2>2, <2>4, <2>6, PolkaExcludesStep DEF SafetyInv
  <2> QED
    BY <2>2, <2>4, <2>5, <2>6, <2>7 DEF SafetyInv, Locks
<1>2. CASE UNCHANGED vars
  <2>1. Base'
    BY <1>2 DEF SafetyInv, Base, vars, protocol, messages, TypeOK, SignaturesCovered,
                Covered, NoDoubleSign
  <2>2. Locks'
    BY <1>2 DEF SafetyInv, Locks, vars, protocol, messages, PolkaBehindPrecommits,
                JournalLock, MemoryLock, RoundCoversJournal, SoundLock, PastPrecommit,
                Polka, IsQuorum
  <2>3. LockRule' /\ PolkaExcludes'
    BY <1>2 DEF SafetyInv, vars, protocol, messages, LockRule, PolkaExcludes,
                Choosable, MayPrecommit, MayRecord, Polka, IsQuorum
  <2> QED
    BY <2>1, <2>2, <2>3 DEF SafetyInv
<1> QED
  BY <1>1, <1>2

\* As long as no honest validator holds its proposal back, no two blocks are
\* ever certified at one height, whatever the faulty validators sign and
\* however many rounds, crashes and restarts it takes.
THEOREM AgreementHolds ==
  ASSUME Waiting = {} PROVE Spec => []Agreement
<1>1. Init => SafetyInv
  BY SafetyInit
<1>2. SafetyInv /\ [Next]_vars => SafetyInv'
  BY SafetyStep
<1>3. SafetyInv => Agreement
  BY SafetyGivesAgreement
<1> QED
  BY <1>1, <1>2, <1>3, PTL DEF Spec

\* Nor is a vote ever cast against a precommit without a quorum of prevotes in
\* between, and the lock in memory is never behind a signed precommit.
THEOREM LockingHolds ==
  ASSUME Waiting = {} PROVE Spec => [](LockRule /\ LockCoversPrecommits)
<1>1. Init => SafetyInv
  BY SafetyInit
<1>2. SafetyInv /\ [Next]_vars => SafetyInv'
  BY SafetyStep
<1>3. SafetyInv => LockRule /\ LockCoversPrecommits
  <2> SUFFICES ASSUME SafetyInv, NEW r \in Rounds, NEW v \in Values,
                      NEW n \in precommits[r][v]
               PROVE  NotBehind(lockedRound[n], lockedValue[n], r, v)
    BY DEF SafetyInv, LockCoversPrecommits, NotBehind
  <2>1. n \in Honest
    BY DEF SafetyInv, Base, TypeOK, Tables, VoteValues
  <2> QED
    BY <2>1 DEF SafetyInv, Locks, MemoryLock
<1> QED
  BY <1>1, <1>2, <1>3, PTL DEF Spec

-----------------------------------------------------------------------------
(* The refinement.                                                          *)

LEMMA CertifiedStays ==
  ASSUME TypeOK, TypeOK', Signs, NEW r \in Rounds, NEW v \in Values, Certified(r, v)
  PROVE  Certified(r, v)'
<1>0. v \in VoteValues
  BY DEF VoteValues
<1>1. precommits[r][v] \subseteq precommits'[r][v]
  BY <1>0, VotesGrow
<1>2. precommits'[r][v] \subseteq Honest /\ precommits[r][v] \subseteq Honest
  BY <1>0 DEF TypeOK, Tables
<1>3. IsQuorum(precommits[r][v] \cup Faulty) => IsQuorum(precommits'[r][v] \cup Faulty)
  BY <1>1, <1>2, LargerQuorum DEF Validators
<1> QED
  BY <1>3 DEF Certified, IsQuorum

LEMMA ChosenInit == Init => Chosen = {}
<1> SUFFICES ASSUME Init, NEW r \in Rounds, NEW v \in Values, Certified(r, v)
             PROVE  FALSE
  BY DEF Chosen
<1>1. precommits[r][v] = {}
  BY DEF Init, VoteValues
<1>2. IsQuorum(Faulty)
  BY <1>1 DEF Certified
<1>3. PICK n \in Honest : n \in Faulty
  BY <1>2, QuorumsShareHonest DEF Validators
<1> QED
  BY <1>3, ConstantsAssumption

\* Every step chooses the one block, or leaves the chosen block alone.
LEMMA ChosenStep ==
  ASSUME SafetyInv, SafetyInv', Signs
  PROVE  \/ Chosen' = Chosen
         \/ Chosen = {} /\ \E v \in Values : Chosen' = {v}
<1>1. Agreement /\ Agreement'
  BY SafetyGivesAgreement, SafetyGivesAgreement, PTL
<1>2. Chosen \subseteq Chosen'
  BY CertifiedStays DEF SafetyInv, Base, Chosen
<1>3. \A v, w \in Chosen' : v = w
  BY <1>1 DEF Agreement, Chosen, Certified, IsQuorum
<1>4. Chosen' \subseteq Values
  BY DEF Chosen
<1> QED
  BY <1>2, <1>3, <1>4

\* A step that touches a decision signs nothing but a proposal.
LEMMA DecisionMoves ==
  ASSUME TypeOK, Next, Waiting = {}
  PROVE  \/ decision' = decision
         \/ /\ precommits' = precommits
            /\ \E n \in Honest :
                 \/ decision' = [decision EXCEPT ![n] = Nil]
                 \/ /\ decision[n] = Nil
                    /\ \E v \in Chosen : decision' = [decision EXCEPT ![n] = v]
<1> SUFFICES ASSUME NEW n \in Honest,
               \/ PrevoteProposal(n) \/ ActOnPolka(n) \/ PrecommitNil(n)
               \/ SkipRound(n) \/ Decide(n) \/ Adopt(n)
               \/ TimeoutPropose(n) \/ TimeoutPrevote(n) \/ TimeoutPrecommit(n)
               \/ ReleaseProposal(n) \/ Restart(n)
             PROVE  \/ decision' = decision
                    \/ /\ precommits' = precommits
                       /\ \/ decision' = [decision EXCEPT ![n] = Nil]
                          \/ /\ decision[n] = Nil
                             /\ \E v \in Chosen : decision' = [decision EXCEPT ![n] = v]
  BY DEF Next
<1>1. CASE Decide(n) \/ Adopt(n)
  <2>1. \E v \in Executable, r \in Rounds :
          Certified(r, v) /\ decision' = [decision EXCEPT ![n] = v]
    BY <1>1 DEF Decide, Adopt
  <2>2. decision[n] = Nil /\ precommits' = precommits
    BY <1>1 DEF Decide, Adopt, Running, messages
  <2> QED
    BY <2>1, <2>2, ConstantsAssumption DEF Chosen
<1>2. CASE Restart(n)
  BY <1>2 DEF Restart, StartRound
<1> QED
  BY <1>1, <1>2 DEF PrevoteProposal, ActOnPolka, PrecommitNil, SkipRound, TimeoutPropose,
                    TimeoutPrevote, TimeoutPrecommit, ReleaseProposal

\* The height is an implementation of Consensus: one block is chosen, for good,
\* and every honest decision is the chosen block.
THEOREM TwoPhaseImplementsConsensus ==
  ASSUME Waiting = {} PROVE Spec => ImplementsConsensus
<1>1. Init => SafetyInv /\ Abstract!Init
  <2>1. Init => Abstract!Init
    BY ChosenInit DEF Init, Abstract!Init
  <2> QED
    BY <2>1, SafetyInit
<1>2. SafetyInv /\ [Next]_vars => SafetyInv'
  BY SafetyStep
<1>3. SafetyInv /\ SafetyInv' /\ [Next]_vars => [Abstract!Next]_<<Chosen, decision>>
  <2> SUFFICES ASSUME SafetyInv, SafetyInv', [Next]_vars
               PROVE  [Abstract!Next]_<<Chosen, decision>>
    OBVIOUS
  <2>1. CASE Next
    <3>1. TypeOK /\ Signs
      BY <2>1, StepSigns DEF SafetyInv, Base
    <3>2. CASE decision' = decision
      BY <3>1, <3>2, ChosenStep DEF Abstract!Next, Abstract!Choose
    <3>3. CASE decision' # decision
      <4>1. precommits' = precommits
        BY <2>1, <3>1, <3>3, DecisionMoves
      <4>2. Chosen' = Chosen
        BY <4>1 DEF Chosen, Certified, IsQuorum
      <4>3. PICK n \in Honest :
              \/ decision' = [decision EXCEPT ![n] = Nil]
              \/ /\ decision[n] = Nil
                 /\ \E v \in Chosen : decision' = [decision EXCEPT ![n] = v]
        BY <2>1, <3>1, <3>3, DecisionMoves
      <4>4. CASE decision' = [decision EXCEPT ![n] = Nil]
        BY <4>2, <4>4 DEF Abstract!Next, Abstract!Forget
      <4>5. CASE /\ decision[n] = Nil
                 /\ \E v \in Chosen : decision' = [decision EXCEPT ![n] = v]
        <5>1. PICK v \in Chosen : decision' = [decision EXCEPT ![n] = v]
          BY <4>5
        <5>2. v \in Values
          BY DEF Chosen
        <5>3. Abstract!Learn(n, v)
          BY <4>2, <4>5, <5>1 DEF Abstract!Learn
        <5> QED
          BY <5>2, <5>3 DEF Abstract!Next
      <4> QED
        BY <4>3, <4>4, <4>5
    <3> QED
      BY <3>2, <3>3
  <2>2. CASE UNCHANGED vars
    BY <2>2 DEF vars, protocol, messages, Chosen, Certified, IsQuorum
  <2> QED
    BY <2>1, <2>2
<1> QED
  BY <1>1, <1>2, <1>3, PTL DEF Spec, ImplementsConsensus, Abstract!Spec

-----------------------------------------------------------------------------
(* Blocks the ledger rejects, with or without held-back proposals.          *)

OnlyExecutablePrevoted ==
  \A r \in Rounds, v \in Values \ Executable : prevotes[r][v] = {}

\* No honest validator precommits a block that Chain.execute rejects, even one
\* that faulty validators have voted for.
THEOREM OnlyExecutablePrecommitted == Spec => []OnlyExecutableCertified
<1> DEFINE Inv == TypeOK /\ OnlyExecutablePrevoted /\ OnlyExecutableCertified
<1>0. \A v \in Values : v \in VoteValues /\ v # Nil
  BY ConstantsAssumption DEF VoteValues
<1>1. Init => Inv
  BY <1>0, InitTyped DEF Init, OnlyExecutablePrevoted, OnlyExecutableCertified
<1>2. Inv /\ [Next]_vars => Inv'
  <2> SUFFICES ASSUME Inv, Next PROVE Inv'
    BY DEF vars, protocol, messages, TypeOK, OnlyExecutablePrevoted,
           OnlyExecutableCertified
  <2>1. TypeOK' /\ Signs
    BY StepTyped, StepSigns
  <2>2. ASSUME NEW r \in Rounds, NEW v \in Values \ Executable, ~ prevotes'[r][v] = {}
        PROVE  FALSE
    <3>1. PICK n \in Honest : n \in prevotes'[r][v]
      BY <1>0, <2>1, <2>2 DEF TypeOK, Tables
    <3>2. SignsPrevote(n, v)
      BY <1>0, <2>1, <3>1, NewPrevote DEF OnlyExecutablePrevoted
    <3> QED
      BY <1>0, <3>2 DEF SignsPrevote
  <2>3. ASSUME NEW r \in Rounds, NEW v \in Values \ Executable, ~ precommits'[r][v] = {}
        PROVE  FALSE
    <3>1. PICK n \in Honest : n \in precommits'[r][v]
      BY <1>0, <2>1, <2>3 DEF TypeOK, Tables
    <3>2. SignsPrecommit(n, v) /\ r = round[n]
      BY <1>0, <2>1, <3>1, NewPrecommit DEF OnlyExecutableCertified
    <3>3. IsQuorum(Faulty)
      <4>1. Polka(round[n], v)
        BY <1>0, <3>2 DEF SignsPrecommit
      <4>2. prevotes[round[n]][v] = {}
        BY <3>2 DEF OnlyExecutablePrevoted
      <4> QED
        BY <4>1, <4>2 DEF Polka
    <3>4. PICK m \in Honest : m \in Faulty
      BY <3>3, QuorumsShareHonest DEF Validators
    <3> QED
      BY <3>4, ConstantsAssumption
  <2> QED
    BY <2>1, <2>2, <2>3 DEF OnlyExecutablePrevoted, OnlyExecutableCertified
<1> QED
  BY <1>1, <1>2, PTL DEF Spec
=============================================================================
