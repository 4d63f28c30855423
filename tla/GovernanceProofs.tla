-------------------------- MODULE GovernanceProofs --------------------------
(***************************************************************************)
(* Governance preserves what consensus relies on: for any founding set, any *)
(* motions and any number of votes, slashings and key changes.             *)
(***************************************************************************)
EXTENDS Governance, FiniteSetTheorems, SequenceTheorems, TLAPS

\* Honest votes are for approved motions, and who may not be removed sits or is slashed.
HonestVotes ==
  /\ \A m \in Agenda \ Approved : tally[m] \subseteq Faulty
  /\ \A v \in ToSet(Genesis) \cap Faulty : Removal(v) \in Approved \/ v \in Active \cup slashed

\* The two inductive invariants.
Tallied == TypeOK /\ PendingUndecided
Governed == Tallied /\ HonestVotes /\ FaultsStayBelowThird

-----------------------------------------------------------------------------
(* Lists without repetitions.                                               *)

LEMMA FirstIndex ==
  ASSUME NEW s \in Seq(Keys), IsInjective(s), NEW i \in 1 .. Len(s)
  PROVE  RemoveFirst(s, s[i]) = SubSeq(s, 1, i - 1) \o SubSeq(s, i + 1, Len(s))
<1> DEFINE I == {j \in 1 .. Len(s) : s[j] = s[i]}
<1>1. I = {i}
  BY DEF IsInjective
<1>2. Min(I) = i
  BY <1>1 DEF Min
<1>3. SelectInSeq(s, LAMBDA v : v = s[i]) = i
  BY <1>1, <1>2 DEF SelectInSeq
<1> QED
  BY <1>3 DEF RemoveFirst, RemoveAt

\* list.remove takes out that element and no other.
LEMMA Removed ==
  ASSUME NEW s \in Seq(Keys), IsInjective(s), NEW v \in ToSet(s)
  PROVE  /\ RemoveFirst(s, v) \in Seq(Keys) /\ IsInjective(RemoveFirst(s, v))
         /\ ToSet(RemoveFirst(s, v)) = ToSet(s) \ {v}
         /\ Len(RemoveFirst(s, v)) = Len(s) - 1
<1>1. PICK i \in 1 .. Len(s) : v = s[i]
  BY DEF ToSet
<1> DEFINE a == SubSeq(s, 1, i - 1)
           b == SubSeq(s, i + 1, Len(s))
           t == a \o b
<1>2. RemoveFirst(s, v) = t
  BY <1>1, FirstIndex
<1>3. /\ Len(s) \in Nat /\ i \in Nat
      /\ \A j \in 1 .. i - 1 : s[j] \in Keys
      /\ \A j \in i + 1 .. Len(s) : s[j] \in Keys
  OBVIOUS
<1>4. /\ a \in Seq(Keys) /\ Len(a) = i - 1
      /\ \A j \in 1 .. i - 1 : a[j] = s[j]
  BY <1>3, SubSeqProperties
<1>5. /\ b \in Seq(Keys) /\ Len(b) = Len(s) - i
      /\ \A j \in 1 .. Len(s) - i : b[j] = s[i + j]
  <2> DEFINE m == i + 1
  <2>1. m \in Int /\ \A j \in m .. Len(s) : s[j] \in Keys
    BY <1>3
  <2> HIDE DEF m
  <2>2. /\ SubSeq(s, m, Len(s)) \in Seq(Keys)
        /\ Len(SubSeq(s, m, Len(s))) = IF m <= Len(s) THEN Len(s) - m + 1 ELSE 0
        /\ \A j \in 1 .. Len(s) - m + 1 : SubSeq(s, m, Len(s))[j] = s[m + j - 1]
    BY <1>3, <2>1, SubSeqProperties
  <2>3. b = SubSeq(s, m, Len(s))
    BY DEF m
  <2> HIDE DEF b
  <2>4. /\ b \in Seq(Keys) /\ Len(b) = Len(s) - i
        /\ \A j \in 1 .. Len(s) - i : b[j] = s[m + j - 1]
    BY <1>3, <2>2, <2>3 DEF m
  <2>5. \A j \in 1 .. Len(s) - i : m + j - 1 = i + j
    BY <1>3 DEF m
  <2> QED
    BY <2>4, <2>5
<1> HIDE DEF a, b
<1>6. /\ t \in Seq(Keys) /\ Len(t) = Len(s) - 1
      /\ \A j \in 1 .. Len(s) - 1 : t[j] = IF j < i THEN s[j] ELSE s[j + 1]
  <2>1. /\ t \in Seq(Keys) /\ Len(t) = Len(a) + Len(b)
        /\ \A j \in 1 .. Len(a) + Len(b) : t[j] = IF j <= Len(a) THEN a[j] ELSE b[j - Len(a)]
    BY <1>4, <1>5, ConcatProperties
  <2>2. \A j \in 1 .. Len(s) - 1 : ~ j < i => t[j] = s[j + 1]
    <3> SUFFICES ASSUME NEW j \in 1 .. Len(s) - 1, ~ j < i
                 PROVE  t[j] = s[j + 1]
      OBVIOUS
    <3>1. /\ j - (i - 1) \in 1 .. Len(s) - i /\ i + (j - (i - 1)) = j + 1
          /\ j \in 1 .. (i - 1) + (Len(s) - i) /\ ~ j <= i - 1
      BY <1>3
    <3>2. t[j] = b[j - (i - 1)]
      BY <1>4, <1>5, <2>1, <3>1
    <3> QED
      BY <1>5, <3>1, <3>2
  <2> QED
    BY <1>3, <1>4, <1>5, <2>1, <2>2
<1> HIDE DEF t
<1>7. DOMAIN t = 1 .. Len(s) - 1 /\ DOMAIN s = 1 .. Len(s)
  BY <1>6
<1>8. IsInjective(t)
  <2>1. \A j, k \in 1 .. Len(s) : s[j] = s[k] => j = k
    BY <1>7 DEF IsInjective
  <2>2. ASSUME NEW j \in 1 .. Len(s) - 1, NEW k \in 1 .. Len(s) - 1, t[j] = t[k]
        PROVE  j = k
    BY <1>3, <1>6, <2>1, <2>2
  <2> QED
    BY <1>7, <2>2 DEF IsInjective
<1>9. ToSet(t) = ToSet(s) \ {v}
  <2>1. ASSUME NEW j \in 1 .. Len(s) - 1
        PROVE  t[j] \in ToSet(s) \ {v}
    <3>1. PICK k \in 1 .. Len(s) : t[j] = s[k] /\ k # i
      BY <1>3, <1>6
    <3> QED
      BY <1>1, <1>7, <3>1 DEF ToSet, IsInjective
  <2>2. ASSUME NEW j \in 1 .. Len(s), s[j] # v
        PROVE  \E k \in 1 .. Len(s) - 1 : t[k] = s[j]
    <3>1. CASE j < i
      BY <1>3, <1>6, <3>1
    <3>2. CASE j > i
      <4>1. j - 1 \in 1 .. Len(s) - 1 /\ t[j - 1] = s[j]
        BY <1>3, <1>6, <3>2
      <4> QED BY <4>1
    <3> QED BY <1>1, <1>3, <2>2, <3>1, <3>2
  <2>3. ToSet(t) = {t[j] : j \in 1 .. Len(s) - 1} /\ ToSet(s) = {s[j] : j \in 1 .. Len(s)}
    BY <1>7 DEF ToSet
  <2>4. ASSUME NEW w \in ToSet(s), w # v
        PROVE  w \in ToSet(t)
    <3>1. PICK j \in 1 .. Len(s) : w = s[j]
      BY <2>3
    <3> QED
      BY <2>2, <2>3, <2>4, <3>1
  <2> QED
    BY <2>1, <2>3, <2>4
<1> QED
  BY <1>2, <1>6, <1>8, <1>9

LEMMA Appended ==
  ASSUME NEW s \in Seq(Keys), IsInjective(s), NEW v \in Keys \ ToSet(s)
  PROVE  /\ Append(s, v) \in Seq(Keys) /\ IsInjective(Append(s, v))
         /\ ToSet(Append(s, v)) = ToSet(s) \cup {v}
         /\ Len(Append(s, v)) = Len(s) + 1
<1> DEFINE t == Append(s, v)
<1>1. /\ t \in Seq(Keys) /\ Len(t) = Len(s) + 1 /\ Len(s) \in Nat
      /\ \A i \in 1 .. Len(s) : t[i] = s[i]
      /\ t[Len(s) + 1] = v
      /\ DOMAIN t = 1 .. Len(s) + 1 /\ DOMAIN s = 1 .. Len(s)
  OBVIOUS
<1> HIDE DEF t
<1>2. \A i \in 1 .. Len(s) : s[i] # v
  BY <1>1 DEF ToSet
<1>3. IsInjective(t)
  BY <1>1, <1>2 DEF IsInjective
<1>4. ToSet(t) = ToSet(s) \cup {v}
  BY <1>1 DEF ToSet
<1> QED
  BY <1>1, <1>3, <1>4 DEF t

LEMMA ListFinite ==
  ASSUME NEW s \in Seq(Keys)
  PROVE  IsFiniteSet(ToSet(s)) /\ Len(s) \in Nat
<1>1. Len(s) \in Nat /\ DOMAIN s = 1 .. Len(s) /\ s \in [1 .. Len(s) -> ToSet(s)]
  BY DEF ToSet
<1>2. s \in Surjection(1 .. Len(s), ToSet(s))
  BY <1>1 DEF Surjection, ToSet
<1>3. IsFiniteSet(1 .. Len(s))
  BY <1>1, FS_Interval
<1> QED
  BY <1>1, <1>2, <1>3, FS_Surjection

-----------------------------------------------------------------------------
LEMMA Quorums ==
  ASSUME NEW n \in Nat
  PROVE  Quorum(n) \in Nat /\ Quorum(n) >= 1 /\ 3 * Quorum(n) > 2 * n
BY DEF Quorum

\* What a motion that is enacted changes.
LEMMA Enacted ==
  ASSUME TypeOK, NEW m \in Agenda, Admissible(m), Enact(m)
  PROVE  /\ validators' \in Seq(Keys) /\ IsInjective(validators')
         /\ issuers' \subseteq Keys /\ policy' \in Nat
         /\ role' \in [Keys -> {"none", "citizen", "validator", "issuer"}]
         /\ \/ /\ m.action = "ADD" /\ m.target \in Keys /\ Eligible(m.target)
               /\ validators' = Append(validators, m.target) /\ Active' = Active \cup {m.target}
               /\ Len(validators') = Len(validators) + 1
               /\ UNCHANGED <<issuers, policy>>
            \/ /\ m.action = "REMOVE" /\ m.target \in Active
               /\ Active' = Active \ {m.target}
               /\ Len(validators') = Len(validators) - 1
               /\ UNCHANGED <<issuers, policy>>
            \/ /\ UNCHANGED validators
               /\ \/ m.action = "ADD_ISSUER" /\ issuers' = issuers \cup {m.target} /\ UNCHANGED policy
                  \/ m.action = "REMOVE_ISSUER" /\ issuers' = issuers \ {m.target} /\ UNCHANGED policy
                  \/ m.action = "SET_POLICY" /\ policy' = m.target /\ UNCHANGED issuers
<1>1. m \in Motions
  BY GovernanceAssumption
<1>2. CASE m.action = "ADD"
  <2>1. m.target \in Keys
    BY <1>1, <1>2 DEF Motions
  <2>2. /\ Eligible(m.target) /\ validators' = Append(validators, m.target)
        /\ role' = WithAccount(m.target, "validator") /\ UNCHANGED <<issuers, policy>>
    BY <1>2 DEF Admissible, Enact
  <2>3. role' \in [Keys -> {"none", "citizen", "validator", "issuer"}]
    BY <2>1, <2>2 DEF WithAccount, TypeOK
  <2> QED
    BY <1>2, <2>1, <2>2, <2>3, Appended DEF TypeOK, Eligible, Active
<1>3. CASE m.action = "REMOVE"
  <2>1. /\ m.target \in Active /\ validators' = RemoveFirst(validators, m.target)
        /\ UNCHANGED <<issuers, policy, role>>
    BY <1>3 DEF Admissible, Enact
  <2> QED
    BY <1>3, <2>1, Removed DEF TypeOK, Active
<1>4. CASE m.action = "ADD_ISSUER"
  <2>1. m.target \in Keys
    BY <1>1, <1>4 DEF Motions
  <2>2. /\ issuers' = issuers \cup {m.target} /\ role' = WithAccount(m.target, "issuer")
        /\ UNCHANGED <<validators, policy>>
    BY <1>4 DEF Enact
  <2> QED
    BY <1>4, <2>1, <2>2 DEF WithAccount, TypeOK
<1>5. CASE m.action = "REMOVE_ISSUER"
  <2>1. issuers' = issuers \ {m.target} /\ UNCHANGED <<validators, policy, role>>
    BY <1>5 DEF Enact
  <2> QED
    BY <1>5, <2>1 DEF TypeOK
<1>6. CASE m.action = "SET_POLICY"
  <2>1. m.target \in Nat
    BY <1>1, <1>6 DEF Motions
  <2>2. policy' = m.target /\ UNCHANGED <<validators, issuers, role>>
    BY <1>6 DEF Enact
  <2> QED
    BY <1>6, <2>1, <2>2 DEF TypeOK
<1> QED
  BY <1>1, <1>2, <1>3, <1>4, <1>5, <1>6 DEF Motions

-----------------------------------------------------------------------------
(* No tally has its quorum.                                                 *)

LEMMA EmptyTallies ==
  ASSUME NEW n \in Nat
  PROVE  /\ NoVotes \in [Agenda -> SUBSET Keys]
         /\ \A m \in Agenda : NoVotes[m] = {} /\ Cardinality(NoVotes[m]) < Quorum(n)
BY Quorums, FS_EmptySet DEF NoVotes

LEMMA TalliedInit == Init => Tallied
<1> SUFFICES ASSUME Init PROVE Tallied
  OBVIOUS
<1>1. TypeOK
  BY GovernanceAssumption DEF Init, TypeOK, NoVotes
<1>2. PendingUndecided
  BY <1>1, ListFinite, EmptyTallies DEF Init, TypeOK, PendingUndecided, SlashedStayOut
<1> QED
  BY <1>1, <1>2 DEF Tallied

\* A vote either joins its tally, or completes it.
LEMMA VoteCounts ==
  ASSUME Tallied, NEW v \in Keys, NEW m \in Agenda, ValidatorVote(v, m)
  PROVE  LET voters == tally[m] \cup {v} IN
         /\ voters \subseteq Active /\ voters \cap Active = voters
         /\ \/ /\ Cardinality(voters) >= Quorum(Len(validators))
               /\ Enact(m) /\ tally' = NoVotes
            \/ /\ ~ Cardinality(voters) >= Quorum(Len(validators))
               /\ tally' = [tally EXCEPT ![m] = voters]
               /\ UNCHANGED <<validators, issuers, policy, role>>
<1> DEFINE voters == tally[m] \cup {v}
<1>1. voters \subseteq Active
  BY DEF Tallied, PendingUndecided, ValidatorVote
<1>2. voters \cap Active = voters
  BY <1>1
<1> QED
  BY <1>1, <1>2 DEF ValidatorVote

LEMMA VoteKeepsTallied ==
  ASSUME Tallied, NEW v \in Keys, NEW m \in Agenda, ValidatorVote(v, m)
  PROVE  Tallied'
<1> DEFINE voters == tally[m] \cup {v}
<1>1. TypeOK /\ PendingUndecided /\ UNCHANGED <<slashed, replaced>> /\ Admissible(m)
  BY DEF Tallied, ValidatorVote
<1>2. CASE Enact(m) /\ tally' = NoVotes
  <2>1. TypeOK'
    BY <1>1, <1>2, Enacted, EmptyTallies DEF TypeOK
  <2>2. SlashedStayOut'
    BY <1>1, <1>2, Enacted DEF SlashedStayOut, PendingUndecided, Eligible, Active
  <2>3. Len(validators') \in Nat
    BY <2>1, ListFinite DEF TypeOK
  <2>4. PendingUndecided'
    BY <1>2, <2>2, <2>3, EmptyTallies DEF PendingUndecided
  <2> QED
    BY <2>1, <2>4 DEF Tallied
<1>3. CASE /\ ~ Cardinality(voters) >= Quorum(Len(validators))
           /\ tally' = [tally EXCEPT ![m] = voters]
           /\ UNCHANGED <<validators, issuers, policy, role>>
  <2>1. TypeOK'
    BY <1>1, <1>3 DEF TypeOK
  <2>2. Active' = Active /\ voters \subseteq Active /\ IsFiniteSet(Active)
    BY <1>1, <1>3, VoteCounts, ListFinite DEF Active, TypeOK
  <2>3. Cardinality(voters) \in Nat /\ Quorum(Len(validators)) \in Nat
    BY <1>1, <2>2, FS_Subset, FS_CardinalityType, Quorums, ListFinite DEF TypeOK
  <2>4. PendingUndecided'
    BY <1>1, <1>3, <2>2, <2>3 DEF PendingUndecided, SlashedStayOut, TypeOK
  <2> QED
    BY <2>1, <2>4 DEF Tallied
<1> QED
  BY <1>2, <1>3, VoteCounts

LEMMA EvidenceKeepsTallied ==
  ASSUME Tallied, NEW v \in Keys, Evidence(v)
  PROVE  /\ Tallied' /\ tally' = NoVotes /\ v \in Active /\ v \in Faulty
         /\ Active' = Active \ {v} /\ slashed' = slashed \cup {v}
         /\ Len(validators') = Len(validators) - 1
<1>1. /\ v \in Active /\ v \in Faulty /\ tally' = NoVotes /\ slashed' = slashed \cup {v}
      /\ validators' = RemoveFirst(validators, v)
      /\ UNCHANGED <<issuers, policy, role, replaced>>
  BY DEF Evidence, TalliesAfterSlash
<1>2. /\ validators' \in Seq(Keys) /\ IsInjective(validators') /\ Active' = Active \ {v}
      /\ Len(validators') = Len(validators) - 1
  BY <1>1, Removed DEF Tallied, TypeOK, Active
<1>3. TypeOK' /\ Len(validators') \in Nat
  BY <1>1, <1>2, EmptyTallies, ListFinite DEF Tallied, TypeOK
<1>4. PendingUndecided'
  BY <1>1, <1>2, <1>3, EmptyTallies DEF Tallied, PendingUndecided, SlashedStayOut
<1> QED
  BY <1>1, <1>2, <1>3, <1>4 DEF Tallied

\* The other transactions change neither the validators nor what they vote on.
LEMMA OthersKeepTallied ==
  ASSUME Tallied, \/ \E k \in Keys : Register(k)
                  \/ \E k, new \in Keys : KeyRotate(k, new)
                  \/ UNCHANGED vars
  PROVE  Tallied' /\ UNCHANGED <<validators, slashed, issuers, policy, tally>>
<1>1. /\ UNCHANGED <<validators, slashed, issuers, policy, tally>>
      /\ role' \in [Keys -> {"none", "citizen", "validator", "issuer"}] /\ replaced' \subseteq Keys
  BY DEF Register, KeyRotate, vars, Tallied, TypeOK
<1> QED
  BY <1>1 DEF Tallied, TypeOK, PendingUndecided, SlashedStayOut, Active

\* No change of the validators, by vote or by evidence, ever leaves behind a tally that
\* already has its quorum, or lets a slashed validator return.
THEOREM TalliesStayUndecided == Spec => []PendingUndecided
<1>1. Tallied /\ [Next]_vars => Tallied'
  BY VoteKeepsTallied, EvidenceKeepsTallied, OthersKeepTallied DEF Next
<1>2. Tallied => PendingUndecided
  BY DEF Tallied
<1> QED
  BY TalliedInit, <1>1, <1>2, PTL DEF Spec

-----------------------------------------------------------------------------
(* What is enacted, honest validators approved of.                          *)

LEMMA QuorumHasHonest ==
  ASSUME TypeOK, FaultsStayBelowThird, NEW S \in SUBSET Active,
         Cardinality(S) >= Quorum(Len(validators))
  PROVE  \E v \in S : v \notin Faulty
<1> SUFFICES ASSUME S \subseteq Active \cap Faulty PROVE FALSE
  OBVIOUS
<1>1. IsFiniteSet(Active) /\ Len(validators) \in Nat
  BY ListFinite DEF TypeOK, Active
<1>2. IsFiniteSet(Active \cap Faulty)
  BY <1>1, FS_Intersection
<1>3. Cardinality(S) <= Cardinality(Active \cap Faulty) /\ IsFiniteSet(S)
  BY <1>2, FS_Subset
<1>4. Cardinality(S) \in Nat /\ Cardinality(Active \cap Faulty) \in Nat
  BY <1>2, <1>3, FS_CardinalityType
<1>5. /\ Quorum(Len(validators)) \in Nat
      /\ 3 * Quorum(Len(validators)) > 2 * Len(validators)
  BY <1>1, Quorums
<1>6. 3 * Cardinality(Active \cap Faulty) < Len(validators)
  BY DEF FaultsStayBelowThird
<1> QED
  BY <1>1, <1>3, <1>4, <1>5, <1>6

LEMMA QuorumApproves ==
  ASSUME Governed, NEW v \in Keys, NEW m \in Agenda, ValidatorVote(v, m),
         Cardinality(tally[m] \cup {v}) >= Quorum(Len(validators))
  PROVE  m \in Approved
<1>1. PICK w \in tally[m] \cup {v} : w \notin Faulty
  BY VoteCounts, QuorumHasHonest DEF Governed, Tallied
<1> QED
  BY <1>1 DEF Governed, HonestVotes, ValidatorVote

\* Adding an honest validator, or taking out a faulty one, leaves faults below a third.
LEMMA FaultsAfterAdding ==
  ASSUME TypeOK, TypeOK', FaultsStayBelowThird, NEW v, v \notin Faulty,
         Active' = Active \cup {v}, Len(validators') = Len(validators) + 1
  PROVE  FaultsStayBelowThird'
<1>1. Active' \cap Faulty = Active \cap Faulty
  OBVIOUS
<1>2. Len(validators) \in Nat /\ IsFiniteSet(Active \cap Faulty)
  BY ListFinite, FS_Intersection DEF TypeOK, Active
<1>3. Cardinality(Active \cap Faulty) \in Nat /\ 3 * Cardinality(Active \cap Faulty) < Len(validators)
  BY <1>2, FS_CardinalityType DEF FaultsStayBelowThird
<1>4. 3 * Cardinality(Active \cap Faulty) < Len(validators) + 1
  BY <1>2, <1>3
<1> QED
  BY <1>1, <1>4 DEF FaultsStayBelowThird

LEMMA FaultsAfterRemoving ==
  ASSUME TypeOK, FaultsStayBelowThird, NEW v \in Active \cap Faulty,
         Active' = Active \ {v}, Len(validators') = Len(validators) - 1
  PROVE  FaultsStayBelowThird'
<1>1. Active' \cap Faulty = (Active \cap Faulty) \ {v}
  OBVIOUS
<1>2. Len(validators) \in Nat /\ IsFiniteSet(Active \cap Faulty)
  BY ListFinite, FS_Intersection DEF TypeOK, Active
<1>3. Cardinality(Active' \cap Faulty) = Cardinality(Active \cap Faulty) - 1
  BY <1>1, <1>2, FS_RemoveElement
<1>4. Cardinality(Active \cap Faulty) \in Nat /\ 3 * Cardinality(Active \cap Faulty) < Len(validators)
  BY <1>2, FS_CardinalityType DEF FaultsStayBelowThird
<1>5. 3 * (Cardinality(Active \cap Faulty) - 1) < Len(validators) - 1
  BY <1>2, <1>4
<1> QED
  BY <1>3, <1>5 DEF FaultsStayBelowThird

LEMMA GovernedInit == FewFaulty /\ Init => Governed
BY TalliedInit DEF FewFaulty, Init, Governed, HonestVotes, FaultsStayBelowThird, NoVotes, Active

\* One vote: what it enacts is approved, and the faults stay below a third.
LEMMA VoteKeepsGoverned ==
  ASSUME Prudent, Governed, NEW v \in Keys, NEW m \in Agenda, ValidatorVote(v, m)
  PROVE  Governed'
<1> DEFINE voters == tally[m] \cup {v}
<1>1. Tallied /\ TypeOK /\ TypeOK' /\ Tallied' /\ HonestVotes /\ UNCHANGED slashed /\ Admissible(m)
  BY VoteKeepsTallied DEF Governed, Tallied, ValidatorVote
<1>2. CASE m \in Approved /\ Enact(m) /\ tally' = NoVotes
  <2>1. CASE /\ m.action = "ADD" /\ Eligible(m.target) /\ Active' = Active \cup {m.target}
             /\ Len(validators') = Len(validators) + 1
    <3>1. m.target \notin Faulty
      BY <1>1, <1>2, <2>1 DEF Prudent, HonestVotes, Eligible
    <3>2. FaultsStayBelowThird'
      BY <1>1, <2>1, <3>1, FaultsAfterAdding DEF Governed
    <3>3. HonestVotes'
      BY <1>1, <1>2, <2>1 DEF HonestVotes, NoVotes
    <3> QED
      BY <1>1, <3>2, <3>3 DEF Governed
  <2>2. CASE /\ m.action = "REMOVE" /\ m.target \in Active /\ Active' = Active \ {m.target}
             /\ Len(validators') = Len(validators) - 1
    <3>1. m.target \in Faulty
      BY <1>2, <2>2 DEF Prudent
    <3>2. FaultsStayBelowThird'
      BY <1>1, <2>2, <3>1, FaultsAfterRemoving DEF Governed
    <3>3. m = Removal(m.target)
      BY <2>2, GovernanceAssumption DEF Motions, Removal
    <3>4. HonestVotes'
      BY <1>1, <1>2, <2>2, <3>3 DEF HonestVotes, NoVotes
    <3> QED
      BY <1>1, <3>2, <3>4 DEF Governed
  <2>3. CASE UNCHANGED validators
    <3>1. Active' = Active
      BY <2>3 DEF Active
    <3> QED
      BY <1>1, <1>2, <2>3, <3>1 DEF Governed, HonestVotes, NoVotes, FaultsStayBelowThird
  <2> QED
    BY <1>1, <1>2, <2>1, <2>2, <2>3, Enacted
<1>3. CASE tally' = [tally EXCEPT ![m] = voters] /\ UNCHANGED validators
  <2>1. Active' = Active /\ (v \in Faulty \/ m \in Approved)
    BY <1>3 DEF Active, ValidatorVote
  <2>2. HonestVotes'
    BY <1>1, <1>3, <2>1 DEF HonestVotes, TypeOK
  <2> QED
    BY <1>1, <1>3, <2>1, <2>2 DEF Governed, FaultsStayBelowThird
<1> QED
  BY <1>1, <1>2, <1>3, VoteCounts, QuorumApproves

LEMMA StepKeepsGoverned ==
  ASSUME Prudent, Governed, [Next]_vars
  PROVE  Governed'
<1>1. Tallied /\ TypeOK /\ HonestVotes /\ FaultsStayBelowThird
  BY DEF Governed, Tallied
<1>2. ASSUME NEW v \in Keys, Evidence(v)
      PROVE  Governed'
  <2>1. FaultsStayBelowThird' /\ Tallied'
    BY <1>1, <1>2, EvidenceKeepsTallied, FaultsAfterRemoving
  <2>2. HonestVotes'
    BY <1>1, <1>2, EvidenceKeepsTallied DEF HonestVotes, NoVotes
  <2> QED
    BY <2>1, <2>2 DEF Governed
<1>3. ASSUME \/ \E k \in Keys : Register(k)
             \/ \E k, new \in Keys : KeyRotate(k, new)
             \/ UNCHANGED vars
      PROVE  Governed'
  <2>1. Tallied' /\ UNCHANGED <<validators, slashed, tally>> /\ Active' = Active
    BY <1>1, <1>3, OthersKeepTallied DEF Active
  <2> QED
    BY <1>1, <2>1 DEF Governed, HonestVotes, FaultsStayBelowThird
<1> QED
  BY <1>2, <1>3, VoteKeepsGoverned DEF Next

\* If fewer than a third of the founding validators are faulty, so are fewer than a third
\* of the validators ever after, whoever is voted in or out or slashed.
THEOREM FaultsNeverReachThird ==
  ASSUME FewFaulty, Prudent
  PROVE  Spec => []FaultsStayBelowThird
<1>1. Init => Governed
  BY GovernedInit
<1>2. Governed /\ [Next]_vars => Governed'
  BY StepKeepsGoverned
<1>3. Governed => FaultsStayBelowThird
  BY DEF Governed
<1> QED
  BY <1>1, <1>2, <1>3, PTL DEF Spec

\* Faulty validators alone never change an issuer, the policy or an honest seat: every
\* change is a motion that honest validators approve of.
THEOREM HonestApproveChanges ==
  ASSUME FewFaulty, Prudent
  PROVE  Spec => OnlyApprovedEnacted
<1> DEFINE Step ==
      /\ \A i \in issuers \ issuers' : [action |-> "REMOVE_ISSUER", target |-> i] \in Approved
      /\ \A i \in issuers' \ issuers : [action |-> "ADD_ISSUER", target |-> i] \in Approved
      /\ \A v \in (Active \ Active') \ Faulty : [action |-> "REMOVE", target |-> v] \in Approved
      /\ \A v \in Active' \ Active : [action |-> "ADD", target |-> v] \in Approved
      /\ policy' # policy => [action |-> "SET_POLICY", target |-> policy'] \in Approved
<1>1. Init => Governed
  BY GovernedInit
<1>2. Governed /\ [Next]_vars => Governed'
  BY StepKeepsGoverned
<1>3. Governed /\ [Next]_vars => [Step]_vars
  <2> SUFFICES ASSUME Governed, Next PROVE Step
    BY DEF vars
  <2>1. Tallied /\ TypeOK
    BY DEF Governed, Tallied
  <2>2. ASSUME NEW v \in Keys, NEW m \in Agenda, ValidatorVote(v, m)
        PROVE  Step
    <3>1. CASE m \in Approved /\ Enact(m)
      <4>1. Admissible(m) /\ m = [action |-> m.action, target |-> m.target]
        BY <2>2, GovernanceAssumption DEF ValidatorVote, Motions
      <4> QED
        BY <2>1, <3>1, <4>1, Enacted DEF Active
    <3>2. CASE UNCHANGED <<validators, issuers, policy>>
      BY <3>2 DEF Active
    <3> QED
      BY <2>1, <2>2, <3>1, <3>2, VoteCounts, QuorumApproves
  <2>3. ASSUME NEW v \in Keys, Evidence(v)
        PROVE  Step
    BY <2>1, <2>3, EvidenceKeepsTallied DEF Evidence
  <2>4. ASSUME \/ \E k \in Keys : Register(k)
               \/ \E k, new \in Keys : KeyRotate(k, new)
        PROVE  Step
    BY <2>1, <2>4, OthersKeepTallied DEF Active
  <2> QED
    BY <2>2, <2>3, <2>4 DEF Next
<1> QED
  BY <1>1, <1>2, <1>3, PTL DEF Spec, OnlyApprovedEnacted
=============================================================================
