--------------------------- MODULE LaboratoryProofs ---------------------------
(***************************************************************************)
(* Proofs about Networks and SinglePhase, for every number of validators,  *)
(* of rounds and of blocks.                                                *)
(***************************************************************************)
EXTENDS SinglePhase, FiniteSetTheorems, WellFoundedInduction, TLAPS

-----------------------------------------------------------------------------
(* The laboratory: a quorum of votes in one round is a quorum for good, and *)
(* nobody honest votes twice in a round.                                    *)

Votes == {m \in sent : m.kind = "VOTE"}

\* A vote of an honest node is of a round it has voted in.
Cast(m) ==
  m.src \in liars \/ m.round < place[m.src].round
                  \/ (m.round = place[m.src].round /\ place[m.src].step = "vote")
LabTypeOK ==
  /\ liars \in SUBSET Voters /\ sent \subseteq Msg
  /\ place \in [Voters -> [round : 0 .. MaxRound, step : {"propose", "vote"}]]
  /\ decision \in [Voters -> SUBSET Blocks]
VotesOnce ==
  /\ \A m \in Votes : Cast(m)
  /\ \A m, o \in Votes : m.src = o.src /\ m.round = o.round /\ m.value # o.value => m.src \in liars
Backed ==
  /\ \A m \in sent : m.kind = "DECIDE" => Decidable(m.value)
  /\ \A i \in Voters : \A b \in decision[i] : Decidable(b)
LabInv == LabTypeOK /\ VotesOnce /\ Backed

LEMMA VotersFinite ==
  /\ IsFiniteSet(Voters) /\ Cardinality(Voters) = Len(Table) /\ Len(Table) \in Nat
<1>1. Table \in Seq(Voters) /\ IsInjective(Table) /\ Len(Table) \in Nat /\ DOMAIN Table = 1 .. Len(Table)
  BY SinglePhaseAssumption
<1>2. IsFiniteSet(1 .. Len(Table)) /\ Cardinality(1 .. Len(Table)) = Len(Table)
  <2>1. IF 1 > Len(Table) THEN Len(Table) = 0 ELSE Len(Table) - 1 + 1 = Len(Table)
    BY <1>1
  <2> QED
    BY <1>1, <2>1, FS_Interval
<1>3. Table \in Surjection(1 .. Len(Table), Voters) /\ Table \in Injection(1 .. Len(Table), Voters)
  BY <1>1 DEF Surjection, Injection, Voters, ToSet, IsInjective
<1> QED
  BY <1>1, <1>2, <1>3, FS_Surjection

\* What is sent stays sent: a block that had a quorum in some round has it.
LEMMA DecidableStays ==
  ASSUME LabTypeOK, LabTypeOK', sent \subseteq sent', NEW b, Decidable(b)
  PROVE  Decidable(b)'
<1>1. PICK r \in 0 .. MaxRound : Cardinality(Senders(r, b)) >= Quorum(Len(Table))
  BY DEF Decidable
<1>2. Senders(r, b) \subseteq Senders(r, b)' /\ Senders(r, b)' \subseteq Voters
  BY DEF Senders, LabTypeOK, Msg
<1>3. IsFiniteSet(Senders(r, b)') /\ IsFiniteSet(Senders(r, b)) /\ Cardinality(Senders(r, b)) <= Cardinality(Senders(r, b)')
  <2>1. IsFiniteSet(Senders(r, b)')
    BY <1>2, VotersFinite, FS_Subset
  <2> QED
    BY <1>2, <2>1, FS_Subset
<1>4. Cardinality(Senders(r, b)) \in Nat /\ Cardinality(Senders(r, b)') \in Nat /\ Quorum(Len(Table)) \in Int
  BY <1>3, FS_CardinalityType, VotersFinite DEF Quorum
<1>5. Cardinality(Senders(r, b)') >= Quorum(Len(Table))
  BY <1>1, <1>3, <1>4
<1> QED
  BY <1>5 DEF Decidable

\* Two quorums of votes share an honest validator.
LEMMA QuorumsMeet ==
  ASSUME NEW S \in SUBSET Voters, NEW T \in SUBSET Voters, liars \in SUBSET Voters, 3 * Cardinality(liars) < Len(Table),
         Cardinality(S) >= Quorum(Len(Table)), Cardinality(T) >= Quorum(Len(Table))
  PROVE  (S \cap T) \ liars # {}
<1>1. /\ IsFiniteSet(S) /\ IsFiniteSet(T) /\ IsFiniteSet(liars)
      /\ IsFiniteSet(S \cup T) /\ IsFiniteSet(S \cap T)
  BY VotersFinite, FS_Subset, FS_Union, FS_Intersection
<1>2. /\ Cardinality(S) \in Nat /\ Cardinality(T) \in Nat /\ Cardinality(liars) \in Nat
      /\ Cardinality(S \cup T) \in Nat /\ Cardinality(S \cap T) \in Nat
  BY <1>1, FS_CardinalityType
<1>3. Cardinality(S \cup T) = Cardinality(S) + Cardinality(T) - Cardinality(S \cap T)
  BY <1>1, FS_Union
<1>4. Cardinality(S \cup T) <= Len(Table)
  <2>1. S \cup T \in SUBSET Voters
    OBVIOUS
  <2> QED
    BY <2>1, VotersFinite, FS_Subset
<1>5. Cardinality(S \cap T) > Cardinality(liars)
  <2> DEFINE n == Len(Table)
  <2>1. n \in Nat /\ Quorum(n) = (2 * n) \div 3 + 1
    BY VotersFinite DEF Quorum
  <2>2. 3 * Cardinality(liars) < n /\ Cardinality(S) >= Quorum(n) /\ Cardinality(T) >= Quorum(n) /\ Cardinality(S \cup T) <= n
    BY <1>4
  <2> HIDE DEF n
  <2> QED
    BY <1>2, <1>3, <2>1, <2>2
<1> QED
  BY <1>1, <1>2, <1>5, FS_Subset

LEMMA LabStarts == LabInit => LabInv
<1> SUFFICES ASSUME LabInit
             PROVE  LabInv
  OBVIOUS
<1>1. liars \in SUBSET Voters /\ MaxRound \in Nat /\ 0 \in 0 .. MaxRound
  BY SinglePhaseAssumption DEF LabInit
<1>2. /\ place = [i \in Voters |-> [round |-> 0, step |-> "propose"]]
      /\ sent = (UNION {Begun(0, i) : i \in Voters \ liars}) \cup Lies
      /\ decision = [i \in Voters |-> {}]
  BY DEF LabInit
<1>3. \A m \in sent : m \in Msg /\ m.kind # "DECIDE" /\ (m.kind = "VOTE" => m.src \in liars)
  <2>1. ASSUME NEW i \in Voters, NEW m \in Begun(0, i)
        PROVE  m \in Msg /\ m.kind = "PROPOSAL"
    BY <1>1, <2>1 DEF Begun, Message, Msg, Blocks
  <2>2. ASSUME NEW m \in Lies
        PROVE  m \in Msg /\ m.kind # "DECIDE" /\ m.src \in liars
    BY <1>1, <2>2 DEF Lies, Message, Msg
  <2>3. ASSUME NEW m \in sent
        PROVE  m \in Lies \/ \E i \in Voters : m \in Begun(0, i)
    <3>1. m \in UNION {Begun(0, i) : i \in Voters \ liars} \/ m \in Lies
      BY <1>2
    <3>2. ASSUME m \in UNION {Begun(0, i) : i \in Voters \ liars}
          PROVE  \E i \in Voters : m \in Begun(0, i)
      BY <3>2, Zenon
    <3> QED
      BY <3>1, <3>2
  <2>4. "PROPOSAL" # "DECIDE" /\ "PROPOSAL" # "VOTE"
    OBVIOUS
  <2> QED
    BY <2>1, <2>2, <2>3, <2>4
<1>4. LabTypeOK
  BY <1>1, <1>2, <1>3 DEF LabTypeOK
<1> QED
  BY <1>2, <1>3, <1>4 DEF LabInv, VotesOnce, Backed, Votes, Cast

\* A step that casts no vote: nobody goes back, and what is announced has a quorum.
LEMMA NoVoteKeeps ==
  ASSUME LabInv, LabTypeOK', UNCHANGED liars, sent \subseteq sent',
         \A m \in sent' \ sent : m.kind # "VOTE" /\ (m.kind = "DECIDE" => Decidable(m.value)),
         \A i \in Voters : \/ place'[i].round > place[i].round
                           \/ place'[i].round = place[i].round /\ (place[i].step = "vote" => place'[i].step = "vote"),
         \A i \in Voters : \A b \in decision'[i] : Decidable(b)
  PROVE  LabInv'
<1>1. LabTypeOK /\ VotesOnce /\ Backed
  BY DEF LabInv
<1>2. Votes' = Votes /\ Votes \subseteq Msg
  BY <1>1 DEF Votes, LabTypeOK
<1>3. ASSUME NEW m \in Votes
      PROVE  Cast(m)'
  <2>1. Cast(m) /\ m.src \in Voters /\ m.round \in Nat
    BY <1>1, <1>2, SinglePhaseAssumption DEF VotesOnce, Msg
  <2>2. place[m.src].round \in Nat /\ place'[m.src].round \in Nat
    BY <1>1, <2>1, SinglePhaseAssumption DEF LabTypeOK
  <2> QED
    BY <2>1, <2>2 DEF Cast
<1>4. VotesOnce'
  BY <1>1, <1>2, <1>3 DEF VotesOnce
<1>5. \A b : Decidable(b) => Decidable(b)'
  BY <1>1, DecidableStays
<1>6. Backed'
  BY <1>1, <1>5 DEF Backed
<1> QED
  BY <1>4, <1>6 DEF LabInv

LEMMA CastVoteKeeps ==
  ASSUME LabInv, NEW i \in Voters, CastVote(i)
  PROVE  LabInv'
<1>1. LabTypeOK /\ VotesOnce /\ Backed
  BY DEF LabInv
<1>2. PICK value \in Offers(place[i].round) : sent' = sent \cup {Message("VOTE", place[i].round, value, i)}
  BY DEF CastVote
<1>3. /\ i \notin liars /\ place[i].step = "propose" /\ place' = [place EXCEPT ![i].step = "vote"]
      /\ UNCHANGED <<liars, decision>>
  BY DEF CastVote, Running, Free
<1> DEFINE v == Message("VOTE", place[i].round, value, i)
<1>4. value \in Blocks
  BY <1>1 DEF Offers, LabTypeOK, Msg
<1>5. v \in Msg /\ v.kind = "VOTE" /\ v.round = place[i].round /\ v.value = value /\ v.src = i
  BY <1>1, <1>4 DEF Message, Msg, LabTypeOK
<1> HIDE DEF v
<1>6. /\ place'[i].round = place[i].round /\ place'[i].step = "vote" /\ \A j \in Voters \ {i} : place'[j] = place[j]
      /\ LabTypeOK'
  BY <1>1, <1>2, <1>3, <1>5 DEF LabTypeOK, v
<1>7. Votes' = Votes \cup {v} /\ Votes \subseteq Msg /\ sent' = sent \cup {v}
  BY <1>1, <1>2, <1>5 DEF Votes, LabTypeOK, v
<1>8. \A m \in Votes : m.src \in Voters /\ m.round \in Nat
  BY <1>7, SinglePhaseAssumption DEF Msg
<1>9. ASSUME NEW m \in Votes'
      PROVE  Cast(m)'
  <2>1. CASE m = v
    BY <1>5, <1>6, <2>1 DEF Cast
  <2>2. CASE m \in Votes
    <3>1. Cast(m)
      BY <1>1, <2>2 DEF VotesOnce
    <3>2. CASE m.src = i
      BY <1>3, <1>6, <3>1, <3>2 DEF Cast
    <3>3. CASE m.src # i
      BY <1>3, <1>6, <1>8, <2>2, <3>1, <3>3 DEF Cast
    <3> QED
      BY <3>2, <3>3
  <2> QED
    BY <1>7, <2>1, <2>2
\* no vote of i in its round yet
<1>10. ASSUME NEW m \in Votes, m.src = i
       PROVE  m.round # v.round
  <2>1. m.round < place[i].round
    BY <1>1, <1>3, <1>10 DEF VotesOnce, Cast
  <2>2. place[i].round \in Nat /\ m.round \in Nat
    BY <1>1, <1>8, SinglePhaseAssumption DEF LabTypeOK
  <2> QED
    BY <1>5, <2>1, <2>2
<1>11. ASSUME NEW m \in Votes', NEW o \in Votes', m.src = o.src, m.round = o.round, m.value # o.value
       PROVE  m.src \in liars'
  <2>1. m \in Votes /\ o \in Votes
    BY <1>5, <1>7, <1>10, <1>11
  <2> QED
    BY <1>1, <1>3, <1>11, <2>1 DEF VotesOnce
<1>12. VotesOnce'
  BY <1>9, <1>11 DEF VotesOnce
<1>13. \A b : Decidable(b) => Decidable(b)'
  BY <1>1, <1>6, <1>7, DecidableStays
<1>14. Backed'
  <2>1. v.kind # "DECIDE"
    BY <1>5
  <2> QED
    BY <1>1, <1>3, <1>7, <1>13, <2>1 DEF Backed
<1> QED
  BY <1>6, <1>12, <1>14 DEF LabInv

LEMMA LabStep ==
  ASSUME LabInv, [LabNext]_<<vars, labVars>>
  PROVE  LabInv'
<1>1. LabTypeOK /\ VotesOnce /\ Backed
  BY DEF LabInv
<1>2. CASE UNCHANGED labVars
  BY <1>2 DEF labVars, LabInv, LabTypeOK, VotesOnce, Backed, Votes, Cast, Decidable, Senders
<1>3. ASSUME NEW i \in Voters, DecideBlock(i)
      PROVE  LabInv'
  <2>1. PICK value \in Blocks :
          /\ Decidable(value) /\ decision' = [decision EXCEPT ![i] = {value}]
          /\ sent' = sent \cup {Message("DECIDE", place[i].round, value, i)}
    BY <1>3 DEF DecideBlock
  <2>2. UNCHANGED <<liars, place>>
    BY <1>3 DEF DecideBlock
  <2> DEFINE d == Message("DECIDE", place[i].round, value, i)
  <2>3. d \in Msg /\ d.kind = "DECIDE" /\ d.value = value
    BY <1>1 DEF Message, Msg, LabTypeOK
  <2>4. sent' = sent \cup {d}
    BY <2>1
  <2> HIDE DEF d
  <2>5. LabTypeOK'
    BY <1>1, <2>1, <2>2, <2>3, <2>4 DEF LabTypeOK
  <2>6. \A m \in sent' \ sent : m.kind # "VOTE" /\ (m.kind = "DECIDE" => Decidable(m.value))
    BY <2>1, <2>3, <2>4
  <2>7. \A j \in Voters : \A b \in decision'[j] : Decidable(b)
    BY <1>1, <2>1 DEF LabTypeOK, Backed
  <2> QED
    BY <2>2, <2>4, <2>5, <2>6, <2>7, NoVoteKeeps
<1>4. ASSUME NEW i \in Voters, AdoptDecision(i)
      PROVE  LabInv'
  <2>1. PICK m \in sent : m.kind = "DECIDE" /\ decision' = [decision EXCEPT ![i] = {m.value}]
    BY <1>4 DEF AdoptDecision
  <2>2. UNCHANGED <<liars, place, sent>>
    BY <1>4 DEF AdoptDecision
  <2>3. m.value \in Blocks
    BY <1>1 DEF LabTypeOK, Msg
  <2>4. LabTypeOK'
    BY <1>1, <2>1, <2>2, <2>3 DEF LabTypeOK
  <2>5. \A j \in Voters : \A b \in decision'[j] : Decidable(b)
    BY <1>1, <2>1 DEF LabTypeOK, Backed
  <2> QED
    BY <2>2, <2>4, <2>5, NoVoteKeeps
<1>5. ASSUME NEW i \in Voters, Tick(i)
      PROVE  LabInv'
  <2>1. UNCHANGED <<liars, decision>>
    BY <1>5 DEF Tick
  <2>2. CASE place[i].step = "propose" /\ place' = [place EXCEPT ![i].step = "vote"] /\ UNCHANGED sent
    <3>1. LabTypeOK'
      BY <1>1, <2>1, <2>2 DEF LabTypeOK
    <3>2. \A j \in Voters : \/ place'[j].round > place[j].round
                            \/ place'[j].round = place[j].round /\ (place[j].step = "vote" => place'[j].step = "vote")
      BY <1>1, <2>2 DEF LabTypeOK
    <3> QED
      BY <1>1, <2>1, <2>2, <3>1, <3>2, NoVoteKeeps DEF Backed
  <2>3. CASE /\ place[i].round < MaxRound
             /\ place' = [place EXCEPT ![i] = [round |-> place[i].round + 1, step |-> "propose"]]
             /\ sent' = sent \cup Begun(place[i].round + 1, i)
    <3>1. place[i].round \in Nat /\ place[i].round + 1 \in 0 .. MaxRound /\ MaxRound \in Nat
      BY <1>1, <2>3, SinglePhaseAssumption DEF LabTypeOK
    <3>2. \A m \in Begun(place[i].round + 1, i) : m \in Msg /\ m.kind = "PROPOSAL"
      BY <3>1 DEF Begun, Message, Msg, Blocks
    <3>3. LabTypeOK'
      BY <1>1, <2>1, <2>3, <3>1, <3>2 DEF LabTypeOK
    <3>4. \A j \in Voters : \/ place'[j].round > place[j].round
                            \/ place'[j].round = place[j].round /\ (place[j].step = "vote" => place'[j].step = "vote")
      BY <1>1, <2>3, <3>1 DEF LabTypeOK
    <3>5. \A m \in sent' \ sent : m.kind # "VOTE" /\ m.kind # "DECIDE"
      BY <2>3, <3>2
    <3> QED
      BY <1>1, <2>1, <2>3, <3>3, <3>4, <3>5, NoVoteKeeps DEF Backed
  <2> QED
    BY <1>5, <2>2, <2>3 DEF Tick
<1> QED
  BY <1>2, <1>3, <1>4, <1>5, CastVoteKeeps DEF LabNext, labVars

LEMMA LabInvariant == LabSpec => []LabInv
<1>1. LabInv /\ [LabNext]_<<vars, labVars>> => LabInv'
  BY LabStep
<1> QED
  BY <1>1, LabStarts, PTL DEF LabSpec

\* SinglePhaseNode: with fewer than a third lying, two honest nodes that decided different
\* blocks were brought to it by an honest node that voted in two rounds.
THEOREM ForksTakeTwoRounds == LabSpec => []ForkNeedsTwoRounds
<1>1. ASSUME LabInv
      PROVE  ForkNeedsTwoRounds
  <2> SUFFICES ASSUME 3 * Cardinality(liars) < Len(Table),
                      NEW i \in Voters \ liars, NEW j \in Voters \ liars,
                      NEW a \in decision[i], NEW b \in decision[j], a # b
               PROVE  \E r, s \in 0 .. MaxRound : r # s /\ (Senders(r, a) \cap Senders(s, b)) \ liars # {}
    BY DEF ForkNeedsTwoRounds
  <2>1. LabTypeOK /\ VotesOnce /\ Decidable(a) /\ Decidable(b)
    BY <1>1 DEF LabInv, Backed
  <2>2. PICK r \in 0 .. MaxRound : Cardinality(Senders(r, a)) >= Quorum(Len(Table))
    BY <2>1 DEF Decidable
  <2>3. PICK s \in 0 .. MaxRound : Cardinality(Senders(s, b)) >= Quorum(Len(Table))
    BY <2>1 DEF Decidable
  <2>4. Senders(r, a) \in SUBSET Voters /\ Senders(s, b) \in SUBSET Voters /\ liars \in SUBSET Voters
    BY <2>1 DEF Senders, LabTypeOK, Msg
  <2>5. PICK v \in (Senders(r, a) \cap Senders(s, b)) \ liars : TRUE
    BY <2>2, <2>3, <2>4, QuorumsMeet
  <2>6. PICK m \in Votes : m.round = r /\ m.value = a /\ m.src = v
    BY <2>5 DEF Senders, Votes
  <2>7. PICK o \in Votes : o.round = s /\ o.value = b /\ o.src = v
    BY <2>5 DEF Senders, Votes
  <2>8. r # s
    BY <2>1, <2>5, <2>6, <2>7 DEF VotesOnce
  <2> QED
    BY <2>5, <2>8
<1> QED
  BY <1>1, LabInvariant, PTL
-----------------------------------------------------------------------------
(* Folds over sequences.  A fold is a function of the sets of indices, from *)
(* which the last index is taken off first; induction is the least element  *)
(* of a set of naturals.                                                    *)

LEMMA LeastNat ==
  ASSUME NEW T, T \subseteq Nat, T # {}
  PROVE  \E n \in T : \A m \in T : n <= m
<1> DEFINE R == OpToRel(<, Nat)
<1>1. IsWellFoundedOn(R, Nat)
  BY NatLessThanWellFounded
<1>2. \A m, n \in Nat : m < n => <<m, n>> \in R
  BY DEF OpToRel
<1> HIDE DEF R
<1>3. \E n \in T : \A m \in T : ~ (<<m, n>> \in R)
  BY <1>1, WFMin
<1>4. \A m, n \in Nat : ~ (<<m, n>> \in R) => n <= m
  BY <1>2
<1> QED
  BY <1>3, <1>4

LEMMA GreatestNat ==
  ASSUME NEW T, T \subseteq Nat, T # {}, NEW b \in Nat, \A m \in T : m <= b
  PROVE  \E n \in T : \A m \in T : n >= m
<1> DEFINE D == {b - m : m \in T}
<1>1. D \subseteq Nat /\ D # {}
  <2>1. \A m \in T : m \in Nat /\ m <= b
    OBVIOUS
  <2>2. \A m \in Nat : m <= b => b - m \in Nat
    OBVIOUS
  <2> QED
    BY <2>1, <2>2
<1> HIDE DEF D
<1>2. PICK d \in D : \A e \in D : d <= e
  BY <1>1, LeastNat
<1>3. PICK n \in T : d = b - n
  BY <1>2 DEF D
<1>4. \A m \in T : b - m \in D /\ d <= b - m
  BY <1>2 DEF D
<1>5. \A m \in T : m \in Nat
  OBVIOUS
<1> QED
  BY <1>3, <1>4, <1>5

\* A set of finite sets that is not empty has an element all of whose subsets by one
\* element less are outside.
LEMMA Minimal ==
  ASSUME NEW B, B # {}, \A s \in B : IsFiniteSet(s)
  PROVE  \E s \in B : \A x \in s : s \ {x} \notin B
<1> DEFINE T == {Cardinality(s) : s \in B}
<1>1. T \subseteq Nat /\ T # {}
  BY FS_CardinalityType
<1> HIDE DEF T
<1>2. PICK n \in T : \A m \in T : n <= m
  BY <1>1, LeastNat
<1>3. PICK s \in B : n = Cardinality(s)
  BY DEF T
<1>4. ASSUME NEW x \in s, s \ {x} \in B
      PROVE  FALSE
  <2>1. Cardinality(s \ {x}) = n - 1 /\ n \in Nat
    BY <1>1, <1>3, <1>4, FS_RemoveElement
  <2>2. Cardinality(s \ {x}) \in T
    BY <1>4 DEF T
  <2> QED
    BY <1>2, <2>1, <2>2
<1> QED
  BY <1>4

LEMMA LastIndex ==
  ASSUME NEW n \in Nat, NEW s \in SUBSET (1 .. n), s # {}
  PROVE  Max(s) \in s /\ \A j \in s : Max(s) >= j
<1>1. s \subseteq Nat /\ \A m \in s : m <= n
  OBVIOUS
<1>2. \E m \in s : \A j \in s : m >= j
  BY <1>1, GreatestNat
<1> QED
  BY <1>2 DEF Max

\* What holds of no index, and of a set of indices once it holds without the last.
LEMMA Preserved ==
  ASSUME NEW n \in Nat, NEW G, {} \in G,
         \A I \in SUBSET (1 .. n) : I # {} /\ I \ {Max(I)} \in G => I \in G
  PROVE  1 .. n \in G
<1> DEFINE B == {I \in SUBSET (1 .. n) : I \notin G}
<1> SUFFICES ASSUME B # {}
             PROVE  FALSE
  OBVIOUS
<1>1. \A I \in B : IsFiniteSet(I)
  <2>1. IsFiniteSet(1 .. n)
    BY FS_Interval
  <2> QED
    BY <2>1, FS_Subset
<1>2. PICK I \in B : \A x \in I : I \ {x} \notin B
  BY <1>1, Minimal
<1>3. I # {} /\ I \in SUBSET (1 .. n)
  BY <1>2
<1>4. Max(I) \in I /\ I \ {Max(I)} \in SUBSET (1 .. n)
  BY <1>3, LastIndex
<1> QED
  BY <1>2, <1>3, <1>4

\* h says what the first elements of a sequence make of base, by F.
IsRun(h, G, base, F, n) ==
  /\ h \in [SUBSET (1 .. n) -> G] /\ h[{}] = base
  /\ \A I \in SUBSET (1 .. n) : I # {} => h[I] = F[h[I \ {Max(I)}]][Max(I)]

\* A fold of steps that stay in G exists.
LEMMA Runs ==
  ASSUME NEW n \in Nat, NEW G, NEW base \in G, NEW F \in [G -> [1 .. n -> G]]
  PROVE  \E h : IsRun(h, G, base, F, n)
<1> DEFINE B == {m \in 0 .. n : ~ \E h : IsRun(h, G, base, F, m)}
<1>1. ASSUME B # {}
      PROVE  FALSE
  <2>1. PICK m \in B : \A k \in B : m <= k
    <3>1. B \subseteq Nat
      OBVIOUS
    <3> QED
      BY <1>1, <3>1, LeastNat
  <2>5. m \in 0 .. n /\ m \in Nat /\ ~ \E h : IsRun(h, G, base, F, m)
    OBVIOUS
  <2>6. ASSUME m # 0
        PROVE  m - 1 \in 0 .. n /\ m - 1 \notin B /\ m \in 1 .. n
    <3>1. ~ m <= m - 1 /\ m - 1 \in 0 .. n /\ m \in 1 .. n
      BY <2>5, <2>6
    <3> HIDE DEF B
    <3> QED
      BY <2>1, <3>1
  <2>2. CASE m = 0
    <3> DEFINE h == [I \in SUBSET (1 .. 0) |-> base]
    <3>2. 1 .. 0 = {} /\ \A I \in SUBSET {} : I = {}
      OBVIOUS
    <3>1. IsRun(h, G, base, F, 0)
      BY <3>2 DEF IsRun
    <3> QED
      BY <2>2, <2>5, <3>1
  <2>3. CASE m # 0
    <3>1. m - 1 \in 0 .. n /\ m - 1 \notin B /\ m \in 1 .. n /\ m \in Nat
      BY <2>3, <2>5, <2>6
    <3>2. PICK g : IsRun(g, G, base, F, m - 1)
      BY <3>1
    <3>3. /\ g \in [SUBSET (1 .. m - 1) -> G] /\ g[{}] = base
          /\ \A I \in SUBSET (1 .. m - 1) : I # {} => g[I] = F[g[I \ {Max(I)}]][Max(I)]
      BY <3>2 DEF IsRun
    <3> DEFINE h == [I \in SUBSET (1 .. m) |-> IF I = {} THEN base ELSE F[g[I \ {Max(I)}]][Max(I)]]
    <3>4. ASSUME NEW I \in SUBSET (1 .. m), I # {}
          PROVE  Max(I) \in 1 .. n /\ I \ {Max(I)} \in SUBSET (1 .. m - 1)
      <4>1. Max(I) \in I /\ (\A j \in I : Max(I) >= j)
        BY <3>1, <3>4, LastIndex
      <4> DEFINE last == Max(I)
      <4>2. last \in 1 .. m /\ \A j \in I : j \in 1 .. m /\ last >= j
        BY <3>4, <4>1
      <4> HIDE DEF last
      <4>3. \A j \in I : j # last => j \in 1 .. m - 1
        BY <3>1, <4>2
      <4>4. last \in 1 .. n /\ I \ {last} \in SUBSET (1 .. m - 1)
        BY <3>1, <4>2, <4>3
      <4> QED
        BY <4>4 DEF last
    <3>5. h \in [SUBSET (1 .. m) -> G] /\ h[{}] = base
      <4>1. ASSUME NEW I \in SUBSET (1 .. m), I # {}
            PROVE  F[g[I \ {Max(I)}]][Max(I)] \in G
        <5>1. g[I \ {Max(I)}] \in G /\ Max(I) \in 1 .. n
          BY <3>3, <3>4, <4>1
        <5> QED
          BY <5>1
      <4> QED
        BY <4>1
    <3>6. \A I \in SUBSET (1 .. m - 1) : I \in SUBSET (1 .. m) /\ h[I] = g[I]
      <4>1. \A I \in SUBSET (1 .. m - 1) : I \in SUBSET (1 .. m)
        BY <3>1
      <4> QED
        BY <3>3, <4>1
    <3>7. \A I \in SUBSET (1 .. m) : I # {} => h[I] = F[h[I \ {Max(I)}]][Max(I)]
      <4> SUFFICES ASSUME NEW I \in SUBSET (1 .. m), I # {}
                   PROVE  h[I] = F[h[I \ {Max(I)}]][Max(I)]
        OBVIOUS
      <4>1. h[I \ {Max(I)}] = g[I \ {Max(I)}]
        BY <3>4, <3>6
      <4> QED
        BY <4>1
    <3> HIDE DEF h
    <3>9. IsRun(h, G, base, F, m)
      BY <3>5, <3>7 DEF IsRun
    <3> QED
      BY <2>5, <3>9
  <2> QED
    BY <2>2, <2>3
<1>2. n \in 0 .. n
  OBVIOUS
<1> QED
  BY <1>1, <1>2

LEMMA LastOf ==
  ASSUME NEW n \in Nat, NEW I \in SUBSET (1 .. n), I # {}
  PROVE  Max(I) \in I /\ Max(I) \in 1 .. n /\ I \ {Max(I)} \in SUBSET (1 .. n)
<1>1. Max(I) \in I
  BY LastIndex
<1> QED
  BY <1>1

-----------------------------------------------------------------------------
(* What Only leaves.                                                        *)

Leaves(h, q, keep) ==
  /\ Only(q, keep) = h[1 .. Len(q)] /\ h[{}] = <<>>
  /\ \A I \in SUBSET (1 .. Len(q)) : I # {} =>
       h[I] = IF q[Max(I)] \in keep THEN Append(h[I \ {Max(I)}], q[Max(I)]) ELSE h[I \ {Max(I)}]

LEMMA OnlyRuns ==
  ASSUME NEW S, NEW q \in Seq(S), NEW keep
  PROVE  \E h : Leaves(h, q, keep)
<1> DEFINE n == Len(q)
           G == Seq(S)
           Next1(a, t) == IF t \in keep THEN Append(a, t) ELSE a
           R(h) == h = [I \in SUBSET (1 .. n) |-> IF I = {} THEN <<>> ELSE Next1(h[I \ {Max(I)}], q[Max(I)])]
           F == [a \in G |-> [i \in 1 .. n |-> Next1(a, q[i])]]
<1>1. n \in Nat /\ DOMAIN q = 1 .. n /\ \A i \in 1 .. n : q[i] \in S
  OBVIOUS
<1>2. Only(q, keep) = (CHOOSE h : R(h))[1 .. n]
  BY <1>1 DEF Only, FoldLeft, MapThenFoldSet
<1>3. <<>> \in G /\ \A a \in G, i \in 1 .. n : Next1(a, q[i]) \in G
  BY <1>1
<1> HIDE DEF n, G, Next1
<1>4. F \in [G -> [1 .. n -> G]] /\ \A a \in G, i \in 1 .. n : F[a][i] = Next1(a, q[i])
  BY <1>3
<1> HIDE DEF F
<1>5. PICK g : IsRun(g, G, <<>>, F, n)
  BY <1>1, <1>3, <1>4, Runs
<1>6. \A I \in SUBSET (1 .. n) : g[I] = IF I = {} THEN <<>> ELSE Next1(g[I \ {Max(I)}], q[Max(I)])
  BY <1>1, <1>4, <1>5, LastOf DEF IsRun
<1>7. R(g)
  BY <1>5, <1>6 DEF IsRun
<1> DEFINE h == CHOOSE x : R(x)
<1>8. R(h)
  BY <1>7
<1> HIDE DEF h
<1>9. h[{}] = <<>> /\ \A I \in SUBSET (1 .. n) : I # {} => h[I] = Next1(h[I \ {Max(I)}], q[Max(I)])
  BY <1>8
<1> QED
  BY <1>2, <1>9 DEF h, n, Next1, Leaves

LEMMA Appended ==
  ASSUME NEW S, NEW r \in Seq(S), NEW x \in S
  PROVE  /\ Append(r, x) \in Seq(S) /\ ToSet(Append(r, x)) = ToSet(r) \cup {x}
         /\ IsInjective(r) /\ x \notin ToSet(r) => IsInjective(Append(r, x))
<1> DEFINE a == Append(r, x)
           m == Len(r)
<1>1. /\ a \in Seq(S) /\ m \in Nat /\ DOMAIN r = 1 .. m /\ DOMAIN a = 1 .. m + 1
      /\ a[m + 1] = x /\ \A i \in 1 .. m : a[i] = r[i]
  OBVIOUS
<1> HIDE DEF a, m
<1>2. ToSet(a) = ToSet(r) \cup {x}
  <2>1. \A i \in 1 .. m + 1 : i = m + 1 \/ i \in 1 .. m
    BY <1>1
  <2>2. 1 .. m \subseteq 1 .. m + 1 /\ m + 1 \in 1 .. m + 1
    BY <1>1
  <2> QED
    BY <1>1, <2>1, <2>2 DEF ToSet
<1>3. ASSUME IsInjective(r), x \notin ToSet(r)
      PROVE  IsInjective(a)
  <2>1. ASSUME NEW i \in 1 .. m + 1, NEW j \in 1 .. m + 1, a[i] = a[j]
        PROVE  i = j
    <3>1. (i = m + 1 \/ i \in 1 .. m) /\ (j = m + 1 \/ j \in 1 .. m)
      BY <1>1
    <3>2. \A k \in 1 .. m : r[k] # x
      BY <1>1, <1>3 DEF ToSet
    <3>3. \A k, l \in 1 .. m : r[k] = r[l] => k = l
      BY <1>1, <1>3 DEF IsInjective
    <3> QED
      BY <1>1, <2>1, <3>1, <3>2, <3>3
  <2> QED
    BY <1>1, <2>1 DEF IsInjective
<1> QED
  BY <1>1, <1>2, <1>3 DEF a

LEMMA OnlyKeeps ==
  ASSUME NEW S, NEW q \in Seq(S), NEW keep
  PROVE  /\ Only(q, keep) \in Seq(S) /\ ToSet(Only(q, keep)) = ToSet(q) \cap keep
         /\ IsInjective(q) => IsInjective(Only(q, keep))
<1>9. PICK h : Leaves(h, q, keep)
  BY OnlyRuns
<1> DEFINE n == Len(q)
<1>1. n \in Nat /\ DOMAIN q = 1 .. n /\ \A i \in 1 .. n : q[i] \in S
  OBVIOUS
<1>2. /\ Only(q, keep) = h[1 .. n] /\ h[{}] = <<>>
      /\ \A I \in SUBSET (1 .. n) : I # {} =>
           h[I] = IF q[Max(I)] \in keep THEN Append(h[I \ {Max(I)}], q[Max(I)]) ELSE h[I \ {Max(I)}]
  BY <1>9 DEF Leaves
<1> HIDE DEF n
<1> DEFINE Good1(I) == /\ h[I] \in Seq(S) /\ ToSet(h[I]) = {q[i] : i \in I} \cap keep
                       /\ IsInjective(q) => IsInjective(h[I])
           G == {I \in SUBSET (1 .. n) : Good1(I)}
<1>3. {} \in G
  <2>1. <<>> \in Seq(S) /\ ToSet(<<>>) = {} /\ IsInjective(<<>>)
    BY DEF ToSet, IsInjective
  <2> QED
    BY <1>2, <2>1
<1>4. ASSUME NEW I \in SUBSET (1 .. n), I # {}, I \ {Max(I)} \in G
      PROVE  I \in G
  <2> DEFINE m == Max(I)
             J == I \ {m}
             x == q[m]
             r == h[J]
  <2>1. m \in I /\ m \in 1 .. n /\ J \in SUBSET (1 .. n) /\ x \in S /\ I = J \cup {m} /\ m \notin J
    BY <1>1, <1>4, LastOf
  <2>2. /\ r \in Seq(S) /\ ToSet(r) = {q[i] : i \in J} \cap keep
        /\ IsInjective(q) => IsInjective(r)
    BY <1>4
  <2>3. h[I] = IF x \in keep THEN Append(r, x) ELSE r
    BY <1>2, <1>4
  <2>4. {q[i] : i \in I} = {q[i] : i \in J} \cup {x}
    BY <2>1
  <2>5. IsInjective(q) => x \notin {q[i] : i \in J}
    BY <1>1, <2>1 DEF IsInjective
  <2> HIDE DEF m, J, x, r
  <2>6. CASE x \in keep
    <3>1. /\ Append(r, x) \in Seq(S) /\ ToSet(Append(r, x)) = ToSet(r) \cup {x}
          /\ IsInjective(r) /\ x \notin ToSet(r) => IsInjective(Append(r, x))
      BY <2>1, <2>2, Appended
    <3> QED
      BY <2>2, <2>3, <2>4, <2>5, <2>6, <3>1
  <2>7. CASE x \notin keep
    BY <2>2, <2>3, <2>4, <2>7
  <2> QED
    BY <2>6, <2>7
<1>5. \A I \in SUBSET (1 .. n) : I # {} /\ I \ {Max(I)} \in G => I \in G
  BY <1>4
<1>6. ToSet(q) = {q[i] : i \in 1 .. n}
  BY <1>1 DEF ToSet
<1> HIDE DEF G
<1>7. 1 .. n \in G
  BY <1>1, <1>3, <1>5, Preserved
<1> QED
  BY <1>2, <1>6, <1>7 DEF G

LEMMA RunStays ==
  ASSUME NEW n \in Nat, NEW G, NEW h, h[{}] \in G,
         \A I \in SUBSET (1 .. n) : I # {} /\ h[I \ {Max(I)}] \in G => h[I] \in G
  PROVE  h[1 .. n] \in G
<1> DEFINE T == {I \in SUBSET (1 .. n) : h[I] \in G}
<1>1. {} \in T
  OBVIOUS
<1>2. \A I \in SUBSET (1 .. n) : I # {} /\ I \ {Max(I)} \in T => I \in T
  OBVIOUS
<1> HIDE DEF T
<1>3. 1 .. n \in T
  BY <1>1, <1>2, Preserved
<1> QED
  BY <1>3 DEF T

-----------------------------------------------------------------------------
(* What a block does to the ledger.                                         *)

Ballots == [signer : Nodes, height : Nat, round : Nat, block : Nat]
Txs == [kind : {"vote", "evidence"}, sender : Nodes, nonce : Nat, about : Nodes, proof : SUBSET Ballots]
Ledgers == [validators : Seq(Nodes), slashed : SUBSET Nodes, nonce : [Nodes -> Nat],
            voters : SUBSET Nodes, issuer : BOOLEAN, by : Nodes]

LEMMA ApplyTyped ==
  ASSUME NEW s \in Ledgers, NEW t \in Txs
  PROVE  LET r == Apply(s, t) IN
         /\ r \in Ledgers
         /\ IsInjective(s.validators) => IsInjective(r.validators)
         /\ t.kind = "evidence" => /\ ToSet(r.validators) = ToSet(s.validators) \ {t.about}
                                   /\ r.slashed = s.slashed \cup {t.about}
         /\ t.kind = "vote" => r.validators = s.validators /\ r.slashed = s.slashed
         /\ r.nonce = [s.nonce EXCEPT ![t.sender] = @ + 1] /\ (s.issuer => r.issuer)
         /\ r.voters \subseteq s.voters \cup (IF t.kind = "vote" THEN {t.sender} ELSE {})
<1> DEFINE nonce == [s.nonce EXCEPT ![t.sender] = @ + 1]
           next == [s EXCEPT !.nonce[t.sender] = @ + 1]
           voters == s.voters \cup {t.sender}
           left == Only(s.validators, Nodes \ {t.about})
<1>1. /\ s = [validators |-> s.validators, slashed |-> s.slashed, nonce |-> s.nonce,
              voters |-> s.voters, issuer |-> s.issuer, by |-> s.by]
      /\ s.validators \in Seq(Nodes) /\ s.slashed \subseteq Nodes /\ s.nonce \in [Nodes -> Nat]
      /\ s.voters \subseteq Nodes /\ s.issuer \in BOOLEAN /\ s.by \in Nodes
  BY DEF Ledgers
<1>2. t.kind \in {"vote", "evidence"} /\ t.sender \in Nodes /\ t.about \in Nodes
  BY DEF Txs
<1>3. nonce \in [Nodes -> Nat] /\ voters \subseteq Nodes
  BY <1>1, <1>2
<1>4. next = [validators |-> s.validators, slashed |-> s.slashed, nonce |-> nonce,
              voters |-> s.voters, issuer |-> s.issuer, by |-> s.by]
  <2>1. next = [s EXCEPT !.nonce = nonce]
    BY <1>1
  <2> HIDE DEF next, nonce
  <2> QED
    BY <1>1, <2>1
<1>5. /\ left \in Seq(Nodes) /\ ToSet(left) = ToSet(s.validators) \cap (Nodes \ {t.about})
      /\ IsInjective(s.validators) => IsInjective(left)
  BY <1>1, OnlyKeeps
<1>6. ToSet(s.validators) \subseteq Nodes
  BY <1>1 DEF ToSet
<1>7. Apply(s, t) =
        IF t.kind = "evidence"
        THEN [next EXCEPT !.validators = left, !.slashed = s.slashed \cup {t.about}, !.voters = {}]
        ELSE IF Cardinality(voters \cap ToSet(s.validators)) >= Quorum(Len(s.validators))
        THEN [next EXCEPT !.issuer = TRUE, !.voters = {}]
        ELSE [next EXCEPT !.voters = voters]
  BY DEF Apply
<1> HIDE DEF nonce, next, voters, left
<1>8. CASE t.kind = "evidence"
  <2>1. Apply(s, t) = [validators |-> left, slashed |-> s.slashed \cup {t.about}, nonce |-> nonce,
                       voters |-> {}, issuer |-> s.issuer, by |-> s.by]
    BY <1>4, <1>7, <1>8
  <2>2. ToSet(left) = ToSet(s.validators) \ {t.about}
    BY <1>5, <1>6
  <2> QED
    BY <1>1, <1>2, <1>3, <1>5, <1>8, <2>1, <2>2 DEF Ledgers, nonce, voters
<1>9. CASE t.kind # "evidence" /\ Cardinality(voters \cap ToSet(s.validators)) >= Quorum(Len(s.validators))
  <2>1. Apply(s, t) = [validators |-> s.validators, slashed |-> s.slashed, nonce |-> nonce,
                       voters |-> {}, issuer |-> TRUE, by |-> s.by]
    BY <1>4, <1>7, <1>9
  <2> QED
    BY <1>1, <1>2, <1>3, <1>9, <2>1 DEF Ledgers, nonce, voters
<1>10. CASE t.kind # "evidence" /\ ~ (Cardinality(voters \cap ToSet(s.validators)) >= Quorum(Len(s.validators)))
  <2>1. Apply(s, t) = [validators |-> s.validators, slashed |-> s.slashed, nonce |-> nonce,
                       voters |-> voters, issuer |-> s.issuer, by |-> s.by]
    BY <1>4, <1>7, <1>10
  <2> QED
    BY <1>1, <1>2, <1>3, <1>10, <2>1 DEF Ledgers, nonce, voters
<1> QED
  BY <1>8, <1>9, <1>10

\* Whom the accusations in a block are about.
Accusable(txs) == {t.about : t \in {x \in ToSet(txs) : x.kind = "evidence"}}

\* A ledger that the transactions can have led to.
From(s, txs) ==
  {r \in Ledgers : /\ IsInjective(r.validators) /\ ToSet(r.validators) \subseteq ToSet(s.validators)
                   /\ ToSet(s.validators) \ Accusable(txs) \subseteq ToSet(r.validators)
                   /\ r.slashed \subseteq s.slashed \cup Accusable(txs)}

LEMMA BlockRemoves ==
  ASSUME NEW s \in Ledgers, IsInjective(s.validators), NEW txs \in Seq(Txs)
  PROVE  FoldLeft(Apply, s, txs) \in From(s, txs)
<1> DEFINE n == Len(txs)
           G == From(s, txs)
           R(h) == h = [I \in SUBSET (1 .. n) |-> IF I = {} THEN s ELSE Apply(h[I \ {Max(I)}], txs[Max(I)])]
           F == [a \in G |-> [i \in 1 .. n |-> Apply(a, txs[i])]]
<1>1. n \in Nat /\ DOMAIN txs = 1 .. n /\ \A i \in 1 .. n : txs[i] \in Txs /\ txs[i] \in ToSet(txs)
  BY DEF ToSet
<1>2. FoldLeft(Apply, s, txs) = (CHOOSE h : R(h))[1 .. n]
  BY <1>1 DEF FoldLeft, MapThenFoldSet
<1> HIDE DEF n
<1>3. s \in G
  BY DEF From
<1>4. ASSUME NEW a \in G, NEW i \in 1 .. n
      PROVE  Apply(a, txs[i]) \in G
  <2> DEFINE t == txs[i]
             r == Apply(a, t)
  <2>1. /\ a \in Ledgers /\ IsInjective(a.validators) /\ ToSet(a.validators) \subseteq ToSet(s.validators)
        /\ ToSet(s.validators) \ Accusable(txs) \subseteq ToSet(a.validators)
        /\ a.slashed \subseteq s.slashed \cup Accusable(txs)
    BY DEF From
  <2>2. t \in Txs /\ t.kind \in {"vote", "evidence"} /\ (t.kind = "evidence" => t.about \in Accusable(txs))
    BY <1>1 DEF Txs, Accusable
  <2> HIDE DEF t
  <2>3. /\ r \in Ledgers /\ IsInjective(r.validators)
        /\ t.kind = "evidence" => /\ ToSet(r.validators) = ToSet(a.validators) \ {t.about}
                                  /\ r.slashed = a.slashed \cup {t.about}
        /\ t.kind = "vote" => r.validators = a.validators /\ r.slashed = a.slashed
    BY <2>1, <2>2, ApplyTyped
  <2> HIDE DEF r
  <2>4. r \in G
    BY <2>1, <2>2, <2>3 DEF From
  <2> QED
    BY <2>4 DEF r, t
<1> HIDE DEF G
<1>5. F \in [G -> [1 .. n -> G]] /\ \A a \in G, i \in 1 .. n : F[a][i] = Apply(a, txs[i])
  BY <1>4
<1> HIDE DEF F
<1>6. PICK g : IsRun(g, G, s, F, n)
  BY <1>1, <1>3, <1>5, Runs
<1>7. \A I \in SUBSET (1 .. n) : g[I] = IF I = {} THEN s ELSE Apply(g[I \ {Max(I)}], txs[Max(I)])
  BY <1>1, <1>5, <1>6, LastOf DEF IsRun
<1>8. R(g)
  BY <1>6, <1>7 DEF IsRun
<1> DEFINE h == CHOOSE x : R(x)
<1>9. R(h)
  BY <1>8
<1> HIDE DEF h
<1>10. h[{}] = s /\ \A I \in SUBSET (1 .. n) : I # {} => h[I] = Apply(h[I \ {Max(I)}], txs[Max(I)])
  BY <1>9
<1>11. \A I \in SUBSET (1 .. n) : I # {} /\ h[I \ {Max(I)}] \in G => h[I] \in G
  BY <1>1, <1>4, <1>10, LastOf
<1>12. h[1 .. n] \in G
  BY <1>1, <1>3, <1>10, <1>11, RunStays
<1> QED
  BY <1>2, <1>12 DEF h, G

\* A block is made of transactions of the pool; its accusations are proved.
Founded(pool) == {t \in ToSet(pool) : t.kind = "evidence" => Proves(t.proof, t.about)}
Drafts(pool) == [s : Ledgers, txs : Seq(Founded(pool))]

LEMMA TakeTyped ==
  ASSUME NEW pool \in Seq(Txs), NEW acc \in Drafts(pool), NEW t \in ToSet(pool), NEW skip
  PROVE  Take(acc, t, skip) \in Drafts(pool)
<1>1. t \in Txs
  BY DEF ToSet
<1>2. CASE ~ (t \notin ToSet(acc.txs) /\ t.sender \notin skip /\ Valid(acc.s, t))
  BY <1>2 DEF Take
<1>3. CASE t \notin ToSet(acc.txs) /\ t.sender \notin skip /\ Valid(acc.s, t)
  <2>1. Take(acc, t, skip) = [s |-> Apply(acc.s, t), txs |-> Append(acc.txs, t)]
    BY <1>3 DEF Take
  <2>2. acc.s \in Ledgers /\ acc.txs \in Seq(Founded(pool))
    BY DEF Drafts
  <2>3. t.kind = "evidence" => Proves(t.proof, t.about)
    BY <1>3 DEF Valid
  <2>4. t \in Founded(pool)
    BY <2>3 DEF Founded
  <2>5. Apply(acc.s, t) \in Ledgers
    BY <1>1, <2>2, ApplyTyped
  <2>6. Append(acc.txs, t) \in Seq(Founded(pool))
    BY <2>2, <2>4
  <2> QED
    BY <2>1, <2>5, <2>6 DEF Drafts
<1> QED
  BY <1>2, <1>3

PassedBy(h, acc, pool, skip) ==
  /\ Pass(acc, pool, skip) = h[1 .. Len(pool)] /\ h[{}] = acc
  /\ \A I \in SUBSET (1 .. Len(pool)) : I # {} => h[I] = Take(h[I \ {Max(I)}], pool[Max(I)], skip)

LEMMA PassRuns ==
  ASSUME NEW pool \in Seq(Txs), NEW s \in Drafts(pool), NEW skip
  PROVE  \E h : PassedBy(h, s, pool, skip)
<1> DEFINE n == Len(pool)
           G == Drafts(pool)
           R(h) == h = [I \in SUBSET (1 .. n) |-> IF I = {} THEN s ELSE Take(h[I \ {Max(I)}], pool[Max(I)], skip)]
           F == [a \in G |-> [i \in 1 .. n |-> Take(a, pool[i], skip)]]
<1>1. n \in Nat /\ DOMAIN pool = 1 .. n /\ \A i \in 1 .. n : pool[i] \in ToSet(pool)
  BY DEF ToSet
<1>2. Pass(s, pool, skip) = (CHOOSE h : R(h))[1 .. n]
  BY <1>1 DEF Pass, FoldLeft, MapThenFoldSet
<1> HIDE DEF n
<1>3. s \in G
  OBVIOUS
<1>4. \A a \in G, i \in 1 .. n : Take(a, pool[i], skip) \in G
  BY <1>1, TakeTyped
<1> HIDE DEF G
<1>5. F \in [G -> [1 .. n -> G]] /\ \A a \in G, i \in 1 .. n : F[a][i] = Take(a, pool[i], skip)
  BY <1>4
<1> HIDE DEF F
<1>6. PICK g : IsRun(g, G, s, F, n)
  BY <1>1, <1>3, <1>5, Runs
<1>7. \A I \in SUBSET (1 .. n) : g[I] = IF I = {} THEN s ELSE Take(g[I \ {Max(I)}], pool[Max(I)], skip)
  BY <1>1, <1>5, <1>6, LastOf DEF IsRun
<1>8. R(g)
  BY <1>6, <1>7 DEF IsRun
<1> DEFINE h == CHOOSE x : R(x)
<1>9. R(h)
  BY <1>8
<1> HIDE DEF h
<1>10. h[{}] = s /\ \A I \in SUBSET (1 .. n) : I # {} => h[I] = Take(h[I \ {Max(I)}], pool[Max(I)], skip)
  BY <1>9
<1> QED
  BY <1>2, <1>10 DEF h, n, PassedBy

LEMMA PassTyped ==
  ASSUME NEW pool \in Seq(Txs), NEW s \in Drafts(pool), NEW skip
  PROVE  Pass(s, pool, skip) \in Drafts(pool)
<1> DEFINE n == Len(pool)
           G == Drafts(pool)
<1>1. n \in Nat /\ \A i \in 1 .. n : pool[i] \in ToSet(pool)
  BY DEF ToSet
<1>2. PICK h : PassedBy(h, s, pool, skip)
  BY PassRuns
<1>3. /\ Pass(s, pool, skip) = h[1 .. n] /\ h[{}] = s
      /\ \A I \in SUBSET (1 .. n) : I # {} => h[I] = Take(h[I \ {Max(I)}], pool[Max(I)], skip)
  BY <1>2 DEF PassedBy
<1> HIDE DEF n
<1>4. \A a \in G, i \in 1 .. n : Take(a, pool[i], skip) \in G
  BY <1>1, TakeTyped
<1>5. s \in G
  OBVIOUS
<1> HIDE DEF G
<1>6. \A I \in SUBSET (1 .. n) : I # {} /\ h[I \ {Max(I)}] \in G => h[I] \in G
  <2> SUFFICES ASSUME NEW I \in SUBSET (1 .. n), I # {}, h[I \ {Max(I)}] \in G
               PROVE  h[I] \in G
    OBVIOUS
  <2>1. Max(I) \in 1 .. n
    BY <1>1, LastOf
  <2> QED
    BY <1>3, <1>4, <2>1
<1>7. h[1 .. n] \in G
  BY <1>1, <1>3, <1>5, <1>6, RunStays
<1> QED
  BY <1>3, <1>7 DEF G

BuiltBy(h, ini, pool, skip) ==
  /\ Built(ini, pool, skip) = h[1 .. Len(pool)] /\ h[{}] = [s |-> ini, txs |-> <<>>]
  /\ \A I \in SUBSET (1 .. Len(pool)) : I # {} => h[I] = Pass(h[I \ {Max(I)}], pool, skip)

LEMMA BuiltRuns ==
  ASSUME NEW ini \in Ledgers, NEW pool \in Seq(Txs), NEW skip
  PROVE  \E h : BuiltBy(h, ini, pool, skip)
<1> DEFINE n == Len(pool)
           G == Drafts(pool)
           s == [s |-> ini, txs |-> <<>>]
           R(h) == h = [I \in SUBSET (1 .. n) |-> IF I = {} THEN s ELSE Pass(h[I \ {Max(I)}], pool, skip)]
           F == [a \in G |-> [i \in 1 .. n |-> Pass(a, pool, skip)]]
<1>1. n \in Nat /\ DOMAIN pool = 1 .. n
  OBVIOUS
<1>2. Built(ini, pool, skip) = (CHOOSE h : R(h))[1 .. n]
  BY <1>1 DEF Built, FoldLeft, MapThenFoldSet
<1> HIDE DEF n
<1>3. s \in G
  <2>1. <<>> \in Seq(Founded(pool))
    OBVIOUS
  <2> QED
    BY <2>1 DEF Drafts
<1> HIDE DEF s
<1>4. \A a \in G : Pass(a, pool, skip) \in G
  BY PassTyped
<1> HIDE DEF G
<1>5. F \in [G -> [1 .. n -> G]] /\ \A a \in G, i \in 1 .. n : F[a][i] = Pass(a, pool, skip)
  BY <1>4
<1> HIDE DEF F
<1>6. PICK g : IsRun(g, G, s, F, n)
  BY <1>1, <1>3, <1>5, Runs
<1>7. \A I \in SUBSET (1 .. n) : g[I] = IF I = {} THEN s ELSE Pass(g[I \ {Max(I)}], pool, skip)
  BY <1>1, <1>5, <1>6, LastOf DEF IsRun
<1>8. R(g)
  BY <1>6, <1>7 DEF IsRun
<1> DEFINE h == CHOOSE x : R(x)
<1>9. R(h)
  BY <1>8
<1> HIDE DEF h
<1>10. h[{}] = s /\ \A I \in SUBSET (1 .. n) : I # {} => h[I] = Pass(h[I \ {Max(I)}], pool, skip)
  BY <1>9
<1> QED
  BY <1>2, <1>10 DEF h, n, s, BuiltBy

LEMMA BuiltTyped ==
  ASSUME NEW ini \in Ledgers, NEW pool \in Seq(Txs), NEW skip
  PROVE  Built(ini, pool, skip).txs \in Seq(Founded(pool))
<1> DEFINE n == Len(pool)
           G == Drafts(pool)
<1>1. n \in Nat
  OBVIOUS
<1>2. PICK h : BuiltBy(h, ini, pool, skip)
  BY BuiltRuns
<1>3. /\ Built(ini, pool, skip) = h[1 .. n] /\ h[{}] = [s |-> ini, txs |-> <<>>]
      /\ \A I \in SUBSET (1 .. n) : I # {} => h[I] = Pass(h[I \ {Max(I)}], pool, skip)
  BY <1>2 DEF BuiltBy
<1> HIDE DEF n
<1>4. h[{}] \in G
  <2>1. <<>> \in Seq(Founded(pool))
    OBVIOUS
  <2> QED
    BY <1>3, <2>1 DEF Drafts
<1>5. \A a \in G : Pass(a, pool, skip) \in G
  BY PassTyped
<1> HIDE DEF G
<1>6. \A I \in SUBSET (1 .. n) : I # {} /\ h[I \ {Max(I)}] \in G => h[I] \in G
  BY <1>3, <1>5
<1>7. h[1 .. n] \in G
  BY <1>1, <1>4, <1>6, RunStays
<1>8. Built(ini, pool, skip) \in G
  BY <1>3, <1>7
<1> QED
  BY <1>8 DEF G, Drafts

-----------------------------------------------------------------------------
(* Accusations.  S: who may be accused with proof.                          *)

Just(S) == {t \in Txs : t.kind = "evidence" /\ Proves(t.proof, t.about) => t.about \in S}

LEMMA ToSetFinite ==
  ASSUME NEW S, NEW q \in Seq(S)
  PROVE  IsFiniteSet(ToSet(q))
<1>1. Len(q) \in Nat /\ q \in Surjection(1 .. Len(q), ToSet(q))
  BY DEF Surjection, ToSet
<1>2. IsFiniteSet(1 .. Len(q))
  BY <1>1, FS_Interval
<1> QED
  BY <1>1, <1>2, FS_Surjection

LEMMA NonceTyped ==
  ASSUME ledger \in Ledgers, NEW pool \in Seq(Txs), NEW n \in Nodes
  PROVE  NextNonce(n, pool) \in Nat
<1>2. IsFiniteSet(ToSet(pool))
  BY ToSetFinite
<1>3. Own(n, pool) \in Nat
  <2>1. IsFiniteSet({t \in ToSet(pool) : t.sender = n})
    BY <1>2, FS_Subset
  <2> QED
    BY <2>1, FS_CardinalityType DEF Own
<1>4. ledger.nonce[n] \in Nat
  BY DEF Ledgers
<1> QED
  BY <1>3, <1>4 DEF NextNonce

LEMMA FoundingTyped == Founding \in Seq(Nodes) /\ IsInjective(Founding) /\ Nodes = ToSet(Founding)
BY NetworksAssumption DEF Nodes

LEMMA AccuseTyped ==
  ASSUME ledger \in Ledgers, NEW S, NEW pool \in Seq(Just(S)), NEW v \in Nodes,
         NEW votes \in SUBSET Ballots, Proves(votes, v) => v \in S
  PROVE  Accuse(pool, v, votes) \in Seq(Just(S))
<1> DEFINE accusers == Only(Founding, Honest)
           seen == {x \in votes : x.signer = v}
           e(i) == EvidenceOf(accusers[i], NextNonce(accusers[i], pool), v, seen)
<1>1. accusers \in Seq(Nodes)
  BY FoundingTyped, OnlyKeeps
<1>2. pool \in Seq(Txs)
  <2>1. Just(S) \subseteq Txs
    BY DEF Just
  <2> QED
    BY <2>1
<1>3. seen \in SUBSET Ballots /\ (Proves(seen, v) => v \in S)
  BY DEF Proves
<1> HIDE DEF accusers, seen
<1>4. ASSUME NEW i \in 1 .. Len(accusers)
      PROVE  e(i) \in Just(S)
  <2>1. accusers[i] \in Nodes
    BY <1>1
  <2>2. NextNonce(accusers[i], pool) \in Nat
    BY <1>2, <2>1, NonceTyped
  <2> QED
    BY <1>3, <2>1, <2>2 DEF EvidenceOf, Just, Txs
<1> HIDE DEF e
<1>5. DOMAIN accusers = 1 .. Len(accusers) /\ Len(accusers) \in Nat
  BY <1>1
<1>6. [i \in 1 .. Len(accusers) |-> e(i)] \in Seq(Just(S))
  BY <1>4, <1>5
<1>7. Accuse(pool, v, votes) = pool \o [i \in 1 .. Len(accusers) |-> e(i)]
  BY <1>5 DEF Accuse, e, accusers, seen
<1> QED
  BY <1>6, <1>7

AccusedBy(h, q, votes) ==
  /\ q \in Seq(Nodes) /\ Accused(votes) = h[1 .. Len(q)] /\ h[{}] = mempool
  /\ \A I \in SUBSET (1 .. Len(q)) : I # {} => h[I] = Accuse(h[I \ {Max(I)}], q[Max(I)], votes)

LEMMA AccusedRuns ==
  ASSUME ledger \in Ledgers, NEW S, mempool \in Seq(Just(S)),
         NEW votes \in SUBSET Ballots, \A v \in Nodes : Proves(votes, v) => v \in S
  PROVE  \E q, h : AccusedBy(h, q, votes)
<1> DEFINE new == {v \in Nodes : Proves(votes, v) /\ ~ Proves(InSlot(round), v)}
           q == Only(Founding, new)
<1>1. q \in Seq(Nodes)
  BY FoundingTyped, OnlyKeeps
<1>2. Accused(votes) = FoldLeft(LAMBDA pool, v : Accuse(pool, v, votes), mempool, q)
  BY DEF Accused
<1> HIDE DEF q
<1> DEFINE n == Len(q)
           G == Seq(Just(S))
           R(h) == h = [I \in SUBSET (1 .. n) |-> IF I = {} THEN mempool ELSE Accuse(h[I \ {Max(I)}], q[Max(I)], votes)]
           F == [a \in G |-> [i \in 1 .. n |-> Accuse(a, q[i], votes)]]
<1>3. n \in Nat /\ DOMAIN q = 1 .. n /\ \A i \in 1 .. n : q[i] \in Nodes
  BY <1>1
<1>4. Accused(votes) = (CHOOSE h : R(h))[1 .. n]
  BY <1>2, <1>3 DEF FoldLeft, MapThenFoldSet
<1> HIDE DEF n
<1>5. \A a \in G, i \in 1 .. n : Accuse(a, q[i], votes) \in G
  BY <1>3, AccuseTyped
<1>6. mempool \in G
  OBVIOUS
<1> HIDE DEF G
<1>7. F \in [G -> [1 .. n -> G]] /\ \A a \in G, i \in 1 .. n : F[a][i] = Accuse(a, q[i], votes)
  BY <1>5
<1> HIDE DEF F
<1>8. PICK g : IsRun(g, G, mempool, F, n)
  BY <1>3, <1>6, <1>7, Runs
<1>9. \A I \in SUBSET (1 .. n) : g[I] = IF I = {} THEN mempool ELSE Accuse(g[I \ {Max(I)}], q[Max(I)], votes)
  BY <1>3, <1>7, <1>8, LastOf DEF IsRun
<1>10. R(g)
  BY <1>8, <1>9 DEF IsRun
<1> DEFINE h == CHOOSE x : R(x)
<1>11. R(h)
  BY <1>10
<1> HIDE DEF h
<1>12. h[{}] = mempool /\ \A I \in SUBSET (1 .. n) : I # {} => h[I] = Accuse(h[I \ {Max(I)}], q[Max(I)], votes)
  BY <1>11
<1>13. AccusedBy(h, q, votes)
  BY <1>1, <1>4, <1>12 DEF h, n, AccusedBy
<1> QED
  BY <1>1, <1>13

LEMMA AccusedTyped ==
  ASSUME ledger \in Ledgers, NEW S, mempool \in Seq(Just(S)),
         NEW votes \in SUBSET Ballots, \A v \in Nodes : Proves(votes, v) => v \in S
  PROVE  Accused(votes) \in Seq(Just(S))
<1>1. PICK q, h : AccusedBy(h, q, votes)
  BY AccusedRuns
<1> DEFINE n == Len(q)
           G == Seq(Just(S))
<1>2. n \in Nat /\ \A i \in 1 .. n : q[i] \in Nodes
  <2>1. q \in Seq(Nodes)
    BY <1>1 DEF AccusedBy
  <2> QED
    BY <2>1
<1>3. /\ Accused(votes) = h[1 .. n] /\ h[{}] = mempool
      /\ \A I \in SUBSET (1 .. n) : I # {} => h[I] = Accuse(h[I \ {Max(I)}], q[Max(I)], votes)
  BY <1>1 DEF AccusedBy
<1> HIDE DEF n
<1>4. \A a \in G, i \in 1 .. n : Accuse(a, q[i], votes) \in G
  BY <1>2, AccuseTyped
<1>5. mempool \in G
  OBVIOUS
<1> HIDE DEF G
<1>6. \A I \in SUBSET (1 .. n) : I # {} /\ h[I \ {Max(I)}] \in G => h[I] \in G
  <2> SUFFICES ASSUME NEW I \in SUBSET (1 .. n), I # {}, h[I \ {Max(I)}] \in G
               PROVE  h[I] \in G
    OBVIOUS
  <2>1. Max(I) \in 1 .. n
    BY <1>2, LastOf
  <2> QED
    BY <1>3, <1>4, <2>1
<1>7. h[1 .. n] \in G
  BY <1>2, <1>3, <1>5, <1>6, RunStays
<1> QED
  BY <1>3, <1>7 DEF G

LEMMA ProposerTyped ==
  ASSUME ledger \in Ledgers, height \in Nat, NEW r \in Nat, Len(ledger.validators) > 0
  PROVE  Proposer(r) \in Nodes /\ Proposer(r) \in ToSet(ledger.validators)
<1> DEFINE q == ledger.validators
           n == Len(q)
<1>1. q \in Seq(Nodes)
  BY DEF Ledgers
<1>2. n \in Nat /\ n > 0 /\ DOMAIN q = 1 .. n
  BY <1>1
<1>3. (height + r) % n \in 0 .. n - 1
  <2> HIDE DEF n
  <2> QED
    BY <1>2
<1>4. ((height + r) % n) + 1 \in 1 .. n
  <2> HIDE DEF n
  <2> QED
    BY <1>2, <1>3
<1> HIDE DEF n
<1>5. Proposer(r) = q[((height + r) % n) + 1]
  BY DEF Proposer, n
<1> QED
  BY <1>1, <1>2, <1>4, <1>5 DEF ToSet

LEMMA NoticesTyped ==
  ASSUME ledger \in Ledgers, height \in Nat, mempool \in Seq(Txs), NEW n \in Nodes, NEW S, NEW K,
         \A k \in K : k \in 0 .. Len(ledger.validators) - 1 => Proposer(k) \in S
  PROVE  Notices(n, K) \in Seq(Just(S))
<1> DEFINE L == Len(ledger.validators)
           turns == [k \in 1 .. L |-> k - 1]
           rounds == Only(turns, K)
           e(j) == EvidenceOf(n, NextNonce(n, mempool) + j - 1, Proposer(rounds[j]), TwoStories(rounds[j]))
<1>1. L \in Nat
  BY DEF Ledgers
<1>2. turns \in Seq(0 .. L - 1)
  <2> HIDE DEF L
  <2> QED
    BY <1>1
<1>3. rounds \in Seq(0 .. L - 1) /\ ToSet(rounds) \subseteq K
  <2> HIDE DEF turns, L, e
  <2>1. Only(turns, K) \in Seq(0 .. L - 1) /\ ToSet(Only(turns, K)) = ToSet(turns) \cap K
    BY <1>2, OnlyKeeps
  <2> QED
    BY <2>1
<1>4. Notices(n, K) = [j \in DOMAIN rounds |-> e(j)]
  BY DEF Notices
<1> HIDE DEF rounds, turns
<1>5. DOMAIN rounds = 1 .. Len(rounds) /\ Len(rounds) \in Nat
  BY <1>3
<1>6. ASSUME NEW j \in 1 .. Len(rounds)
      PROVE  e(j) \in Just(S)
  <2> DEFINE r == rounds[j]
             nonce == NextNonce(n, mempool)
  <2>1. r \in 0 .. L - 1 /\ r \in K
    <3>1. r \in ToSet(rounds)
      BY <1>5 DEF ToSet
    <3>2. r \in 0 .. L - 1
      BY <1>3
    <3> QED
      BY <1>3, <3>1, <3>2
  <2>2. r \in Nat /\ L > 0
    BY <1>1, <2>1
  <2>3. Proposer(r) \in Nodes /\ Proposer(r) \in S
    BY <2>1, <2>2, ProposerTyped
  <2>4. nonce \in Nat /\ j \in Nat /\ j >= 1
    BY <1>5, NonceTyped
  <2>5. nonce + j - 1 \in Nat
    <3> HIDE DEF nonce
    <3> QED
      BY <2>4
  <2> HIDE DEF r, nonce
  <2>6. TwoStories(r) \subseteq Ballots
    BY <2>2, <2>3 DEF TwoStories, Vote, Ballots
  <2>7. e(j) = EvidenceOf(n, nonce + j - 1, Proposer(r), TwoStories(r))
    BY DEF r, nonce
  <2> QED
    BY <2>3, <2>5, <2>6, <2>7 DEF EvidenceOf, Just, Txs
<1> HIDE DEF e
<1> QED
  BY <1>4, <1>5, <1>6

NoticedBy(h, q, saw) ==
  /\ Noticed(q, saw) = h[1 .. Len(q)] /\ h[{}] = <<>>
  /\ \A I \in SUBSET (1 .. Len(q)) : I # {} => h[I] = h[I \ {Max(I)}] \o Notices(q[Max(I)], saw[q[Max(I)]])

LEMMA NoticedRuns ==
  ASSUME NEW S, NEW q \in Seq(Nodes), NEW saw, \A n \in ToSet(q) : Notices(n, saw[n]) \in Seq(S)
  PROVE  \E h : NoticedBy(h, q, saw)
<1> DEFINE n == Len(q)
           G == Seq(S)
           Longer(a, i) == a \o Notices(q[i], saw[q[i]])
           R(h) == h = [I \in SUBSET (1 .. n) |-> IF I = {} THEN <<>> ELSE Longer(h[I \ {Max(I)}], Max(I))]
           F == [a \in G |-> [i \in 1 .. n |-> Longer(a, i)]]
<1>1. n \in Nat /\ DOMAIN q = 1 .. n /\ \A i \in 1 .. n : q[i] \in Nodes /\ q[i] \in ToSet(q)
  BY DEF ToSet
<1>2. Noticed(q, saw) = (CHOOSE h : R(h))[1 .. n]
  BY <1>1 DEF Noticed, FoldLeft, MapThenFoldSet
<1> HIDE DEF n
<1>3. \A i \in 1 .. n : Notices(q[i], saw[q[i]]) \in Seq(S)
  BY <1>1
<1>4. \A a \in G, i \in 1 .. n : Longer(a, i) \in G
  BY <1>3
<1>5. <<>> \in G
  OBVIOUS
<1> HIDE DEF G, Longer
<1>7. F \in [G -> [1 .. n -> G]] /\ \A a \in G, i \in 1 .. n : F[a][i] = Longer(a, i)
  BY <1>4
<1> HIDE DEF F
<1>8. PICK g : IsRun(g, G, <<>>, F, n)
  BY <1>1, <1>5, <1>7, Runs
<1>9. \A I \in SUBSET (1 .. n) : g[I] = IF I = {} THEN <<>> ELSE Longer(g[I \ {Max(I)}], Max(I))
  BY <1>1, <1>7, <1>8, LastOf DEF IsRun
<1>10. R(g)
  BY <1>8, <1>9 DEF IsRun
<1> DEFINE h == CHOOSE x : R(x)
<1>11. R(h)
  BY <1>10
<1> HIDE DEF h
<1>12. h[{}] = <<>> /\ \A I \in SUBSET (1 .. n) : I # {} => h[I] = Longer(h[I \ {Max(I)}], Max(I))
  BY <1>11
<1> QED
  BY <1>2, <1>12 DEF h, n, Longer, NoticedBy

LEMMA NoticedTyped ==
  ASSUME ledger \in Ledgers, height \in Nat, mempool \in Seq(Txs), NEW S, NEW q \in Seq(Nodes), NEW saw,
         \A n \in ToSet(q) : \A k \in saw[n] : k \in 0 .. Len(ledger.validators) - 1 => Proposer(k) \in S
  PROVE  Noticed(q, saw) \in Seq(Just(S))
<1> DEFINE n == Len(q)
           G == Seq(Just(S))
<1>1. n \in Nat /\ \A i \in 1 .. n : q[i] \in Nodes /\ q[i] \in ToSet(q)
  BY DEF ToSet
<1>2. \A m \in ToSet(q) : Notices(m, saw[m]) \in G
  <2>1. ToSet(q) \subseteq Nodes
    BY DEF ToSet
  <2> QED
    BY <2>1, NoticesTyped
<1>3. PICK h : NoticedBy(h, q, saw)
  BY <1>2, NoticedRuns
<1>4. /\ Noticed(q, saw) = h[1 .. n] /\ h[{}] = <<>>
      /\ \A I \in SUBSET (1 .. n) : I # {} => h[I] = h[I \ {Max(I)}] \o Notices(q[Max(I)], saw[q[Max(I)]])
  BY <1>3 DEF NoticedBy
<1> HIDE DEF n
<1>5. \A a, b \in G : a \o b \in G
  OBVIOUS
<1>6. <<>> \in G
  OBVIOUS
<1> HIDE DEF G
<1>7. \A I \in SUBSET (1 .. n) : I # {} /\ h[I \ {Max(I)}] \in G => h[I] \in G
  <2> SUFFICES ASSUME NEW I \in SUBSET (1 .. n), I # {}, h[I \ {Max(I)}] \in G
               PROVE  h[I] \in G
    OBVIOUS
  <2>1. Max(I) \in 1 .. n
    BY <1>1, LastOf
  <2> QED
    BY <1>1, <1>2, <1>4, <1>5, <2>1
<1>8. h[1 .. n] \in G
  BY <1>1, <1>4, <1>6, <1>7, RunStays
<1> QED
  BY <1>4, <1>8 DEF G

-----------------------------------------------------------------------------
(* The next block.                                                          *)

NetTypeOK ==
  /\ ledger \in Ledgers /\ IsInjective(ledger.validators)
  /\ mempool \in Seq(Txs) /\ height \in Nat /\ round \in Nat
  /\ signed \subseteq Ballots /\ \A x \in signed : x.height <= height /\ x.block <= MaxBlocks

Sound(S) == {t \in Txs : t.kind = "evidence" => t.about \in S}
Good == With("honest") \cup With("censor")
Seated == Good \cap ToSet(ledger.validators) # {}
Stuck == Cardinality(ToSet(ledger.validators) \ With("silent")) < Need

LEMMA FoundedSound ==
  ASSUME NEW S, NEW pool \in Seq(Just(S))
  PROVE  Founded(pool) \subseteq Sound(S) /\ pool \in Seq(Txs)
<1>1. \A t \in ToSet(pool) : t \in Just(S)
  BY DEF ToSet
<1>2. Just(S) \subseteq Txs
  BY DEF Just
<1>3. Founded(pool) \subseteq Sound(S)
  BY <1>1 DEF Founded, Sound, Just
<1> QED
  BY <1>2, <1>3

LEMMA Finalised ==
  ASSUME NetTypeOK, NEW S, NEW p \in Nodes, NEW pool \in Seq(Just(S)), NEW late \in Seq(Just(S)),
         NEW txs \in Seq(Sound(S)), Finalise(txs, p, pool, late)
  PROVE  /\ ledger' \in Ledgers /\ IsInjective(ledger'.validators)
         /\ mempool' \in Seq(Just(S)) /\ height' = height + 1 /\ round' = 0
         /\ ToSet(ledger'.validators) \subseteq ToSet(ledger.validators)
         /\ ToSet(ledger.validators) \ S \subseteq ToSet(ledger'.validators)
         /\ ledger'.slashed \subseteq ledger.slashed \cup S
<1> DEFINE r == FoldLeft(Apply, ledger, txs)
           next == [r EXCEPT !.by = p]
           left == Remaining(next, pool, txs)
<1>1. ledger \in Ledgers /\ IsInjective(ledger.validators) /\ txs \in Seq(Txs)
  <2>1. Sound(S) \subseteq Txs
    BY DEF Sound
  <2> QED
    BY <2>1 DEF NetTypeOK
<1>2. Accusable(txs) \subseteq S
  <2>1. \A t \in ToSet(txs) : t \in Sound(S)
    BY DEF ToSet
  <2> QED
    BY <2>1 DEF Accusable, Sound
<1>3. r \in From(ledger, txs)
  BY <1>1, BlockRemoves
<1> HIDE DEF r
<1>4. /\ r \in Ledgers /\ IsInjective(r.validators) /\ ToSet(r.validators) \subseteq ToSet(ledger.validators)
      /\ ToSet(ledger.validators) \ S \subseteq ToSet(r.validators)
      /\ r.slashed \subseteq ledger.slashed \cup S
  BY <1>2, <1>3 DEF From
<1>5. next \in Ledgers /\ next.validators = r.validators /\ next.slashed = r.slashed
  BY <1>4 DEF Ledgers
<1>6. left \in Seq(Just(S))
  <2>1. \A keep : Only(pool, keep) \in Seq(Just(S))
    BY OnlyKeeps
  <2>2. \A k, keep : Only(Only(pool, k), keep) \in Seq(Just(S))
    BY <2>1, OnlyKeeps
  <2> QED
    BY <2>2 DEF Remaining
<1> HIDE DEF next, left
<1>7. ledger' = next /\ height' = height + 1 /\ round' = 0
  BY DEF Finalise, next, r
<1>8. mempool' = left \o Only(late, {t \in ToSet(late) : t.nonce >= next.nonce[t.sender]})
  BY DEF Finalise, next, r, left
<1>9. \A keep : Only(late, keep) \in Seq(Just(S))
  BY OnlyKeeps
<1>10. mempool' \in Seq(Just(S))
  BY <1>6, <1>8, <1>9
<1> QED
  BY <1>4, <1>5, <1>7, <1>10

LEMMA HalvesApart == Halves[1] \subseteq Nodes /\ Halves[2] \subseteq Nodes /\ Halves[1] \cap Halves[2] = {}
<1> DEFINE n == Len(Founding)
           half == (n + 1) \div 2
           a == SubSeq(Founding, 1, half)
           b == SubSeq(Founding, half + 1, n)
<1>1. Founding \in Seq(Nodes) /\ n \in Nat /\ DOMAIN Founding = 1 .. n /\ IsInjective(Founding)
  BY FoundingTyped
<1>2. half \in Nat /\ half <= n
  <2>1. n = 0 \/ n >= 1
    BY <1>1
  <2> HIDE DEF n
  <2> QED
    BY <1>1, <2>1
<1>3. /\ \A i \in DOMAIN a : i \in 1 .. half /\ a[i] = Founding[i]
      /\ \A i \in DOMAIN b : half + i \in half + 1 .. n /\ b[i] = Founding[half + i]
  <2> HIDE DEF half, n
  <2> QED
    BY <1>1, <1>2
<1>4. Halves[1] = ToSet(a) /\ Halves[2] = ToSet(b)
  BY DEF Halves
<1>5. /\ ToSet(a) \subseteq {Founding[i] : i \in 1 .. half}
      /\ ToSet(b) \subseteq {Founding[i] : i \in half + 1 .. n}
  <2> HIDE DEF a, b, n, half
  <2> QED
    BY <1>3 DEF ToSet
<1>6. 1 .. half \subseteq 1 .. n /\ half + 1 .. n \subseteq 1 .. n /\ (1 .. half) \cap (half + 1 .. n) = {}
  <2> HIDE DEF half, n
  <2> QED
    BY <1>1, <1>2
<1> HIDE DEF a, b, half, n
<1>7. {Founding[i] : i \in 1 .. half} \cap {Founding[i] : i \in half + 1 .. n} = {}
  BY <1>1, <1>6 DEF IsInjective
<1>8. {Founding[i] : i \in 1 .. n} \subseteq Nodes
  BY <1>1
<1> QED
  BY <1>4, <1>5, <1>6, <1>7, <1>8

LEMMA DraftTyped ==
  ASSUME NetTypeOK, NEW S, NEW pool \in Seq(Just(S)), NEW skip
  PROVE  Draft(pool, skip) \in Seq(Sound(S))
<1>1. pool \in Seq(Txs) /\ Founded(pool) \subseteq Sound(S) /\ ledger \in Ledgers
  BY FoundedSound DEF NetTypeOK
<1>2. Draft(pool, skip) \in Seq(Founded(pool))
  BY <1>1, BuiltTyped DEF Draft
<1> QED
  BY <1>1, <1>2

LEMMA WholeTyped ==
  ASSUME NEW S, NEW txs \in Seq(Sound(S)), NEW ok \in BOOLEAN
  PROVE  /\ Len(Whole(txs, ok)) = 1 /\ DOMAIN Whole(txs, ok) = 1 .. 1
         /\ Whole(txs, ok)[1].txs \in Seq(Sound(S))
         /\ Whole(txs, ok)[1].to = Nodes /\ Whole(txs, ok)[1].ok = ok
<1>1. Len(<<[txs |-> txs, ok |-> ok, to |-> Nodes]>>) = 1
  OBVIOUS
<1>2. DOMAIN <<[txs |-> txs, ok |-> ok, to |-> Nodes]>> = 1 .. 1
  OBVIOUS
<1>3. <<[txs |-> txs, ok |-> ok, to |-> Nodes]>>[1] = [txs |-> txs, ok |-> ok, to |-> Nodes]
  OBVIOUS
<1> QED
  BY <1>1, <1>2, <1>3 DEF Whole

LEMMA OneBlock ==
  ASSUME NEW S, NEW txs \in Seq(Sound(S)), NEW ok \in BOOLEAN, NEW blocks, blocks = Whole(txs, ok)
  PROVE  /\ Len(blocks) = 1 /\ DOMAIN blocks = 1 .. 1
         /\ \A i \in 1 .. 1 : blocks[i].txs \in Seq(Sound(S)) /\ blocks[i].to \subseteq Nodes
         /\ blocks[1].to = Nodes /\ blocks[1].ok = ok
<1> HIDE DEF Whole
<1> QED
  BY WholeTyped

LEMMA BothTyped ==
  ASSUME NEW S, NEW first \in Seq(Sound(S)), NEW second \in Seq(Sound(S))
  PROVE  LET both == Both(first, second) IN
         /\ Len(both) = 2 /\ DOMAIN both = 1 .. 2
         /\ both[1].txs \in Seq(Sound(S)) /\ both[2].txs \in Seq(Sound(S))
         /\ both[1].to \subseteq Nodes /\ both[2].to \subseteq Nodes /\ both[1].to \cap both[2].to = {}
<1> DEFINE a == [txs |-> first, ok |-> TRUE, to |-> Halves[1]]
           b == [txs |-> second, ok |-> TRUE, to |-> Halves[2]]
<1>1. Both(first, second) = <<a, b>>
  BY DEF Both
<1>2. /\ a.txs \in Seq(Sound(S)) /\ b.txs \in Seq(Sound(S))
      /\ a.to \subseteq Nodes /\ b.to \subseteq Nodes /\ a.to \cap b.to = {}
  BY HalvesApart
<1> HIDE DEF a, b
<1> QED
  BY <1>1, <1>2

LEMMA ProposalsTyped ==
  ASSUME NetTypeOK, NEW S, mempool \in Seq(Just(S)), NEW p \in Nodes, NEW blocks \in Proposals(p)
  PROVE  /\ Len(blocks) \in 0 .. 2 /\ DOMAIN blocks = 1 .. Len(blocks)
         /\ \A i \in 1 .. Len(blocks) : blocks[i].txs \in Seq(Sound(S)) /\ blocks[i].to \subseteq Nodes
         /\ Len(blocks) = 2 => p \in With("equivocator") /\ blocks[1].to \cap blocks[2].to = {}
         /\ p \in Good => Len(blocks) = 1 /\ blocks[1].ok = TRUE /\ blocks[1].to = Nodes
         /\ p \in With("silent") => Len(blocks) = 0
<1>1. Reverse(mempool) \in Seq(Just(S))
  BY DEF Reverse
<1>2. \A skip : Draft(mempool, skip) \in Seq(Sound(S)) /\ Draft(Reverse(mempool), skip) \in Seq(Sound(S))
  BY <1>1, DraftTyped
<1>3. \A a, b \in Behaviours : a # b => With(a) \cap With(b) = {}
  BY DEF With
<1>4. Good \cap (With("silent") \cup With("equivocator") \cup With("forger")) = {}
  BY <1>3 DEF Good, Behaviours
<1> HIDE DEF Good
<1>5. CASE p \in With("silent")
  <2>1. p \notin With("equivocator") /\ p \notin With("forger") /\ p \notin With("censor")
    BY <1>3, <1>5 DEF Behaviours
  <2>2. blocks = <<>>
    BY <1>5, <2>1 DEF Proposals
  <2> QED
    BY <1>4, <1>5, <2>2
<1>6. CASE p \in With("equivocator")
  <2>1. p \notin With("silent") /\ p \notin With("forger") /\ p \notin With("censor") /\ p \notin Good
    BY <1>3, <1>4, <1>6 DEF Behaviours
  <2>2. blocks \in TwoTales
    BY <1>6, <2>1 DEF Proposals
  <2>3. PICK first \in Seq(Sound(S)), second \in Seq(Sound(S)) :
           blocks = Both(first, second) \/ blocks = Whole(first, TRUE)
    BY <1>2, <2>2 DEF TwoTales
  <2>4. CASE blocks = Both(first, second)
    <3>1. /\ Len(blocks) = 2 /\ DOMAIN blocks = 1 .. 2
          /\ blocks[1].txs \in Seq(Sound(S)) /\ blocks[2].txs \in Seq(Sound(S))
          /\ blocks[1].to \subseteq Nodes /\ blocks[2].to \subseteq Nodes /\ blocks[1].to \cap blocks[2].to = {}
      BY <2>4, BothTyped
    <3> QED
      BY <1>6, <2>1, <3>1
  <2>5. CASE blocks = Whole(first, TRUE)
    <3>1. /\ Len(blocks) = 1 /\ DOMAIN blocks = 1 .. 1
          /\ \A i \in 1 .. 1 : blocks[i].txs \in Seq(Sound(S)) /\ blocks[i].to \subseteq Nodes
      BY <2>5, OneBlock
    <3> QED
      BY <2>1, <3>1
  <2> QED
    BY <2>3, <2>4, <2>5
<1>7. CASE p \in With("forger")
  <2>1. p \notin With("silent") /\ p \notin With("censor") /\ p \notin Good /\ p \notin With("equivocator")
    BY <1>3, <1>4, <1>7 DEF Behaviours
  <2>2. blocks = Whole(Draft(mempool, {}), FALSE)
    BY <1>7, <2>1 DEF Proposals
  <2>3. /\ Len(blocks) = 1 /\ DOMAIN blocks = 1 .. 1
        /\ \A i \in 1 .. 1 : blocks[i].txs \in Seq(Sound(S)) /\ blocks[i].to \subseteq Nodes
        /\ blocks[1].to = Nodes /\ blocks[1].ok = FALSE
    BY <1>2, <2>2, OneBlock
  <2> QED
    BY <2>1, <2>3
<1>8. CASE p \in With("censor")
  <2>1. p \notin With("silent") /\ p \notin With("forger") /\ p \notin With("equivocator")
    BY <1>3, <1>8 DEF Behaviours
  <2>2. blocks = Whole(Draft(mempool, {Target}), TRUE)
    BY <1>8, <2>1 DEF Proposals
  <2>3. /\ Len(blocks) = 1 /\ DOMAIN blocks = 1 .. 1
        /\ \A i \in 1 .. 1 : blocks[i].txs \in Seq(Sound(S)) /\ blocks[i].to \subseteq Nodes
        /\ blocks[1].to = Nodes /\ blocks[1].ok = TRUE
    BY <1>2, <2>2, OneBlock
  <2> QED
    BY <2>1, <2>3
<1>9. CASE p \notin With("silent") /\ p \notin With("forger") /\ p \notin With("equivocator") /\ p \notin With("censor")
  <2>1. blocks = Whole(Draft(mempool, {}), TRUE)
    BY <1>9 DEF Proposals
  <2>3. /\ Len(blocks) = 1 /\ DOMAIN blocks = 1 .. 1
        /\ \A i \in 1 .. 1 : blocks[i].txs \in Seq(Sound(S)) /\ blocks[i].to \subseteq Nodes
        /\ blocks[1].to = Nodes /\ blocks[1].ok = TRUE
    BY <1>2, <2>1, OneBlock
  <2> QED
    BY <1>9, <2>3
<1> QED
  BY <1>5, <1>6, <1>7, <1>8, <1>9

-----------------------------------------------------------------------------
(* Whose turn it is.                                                        *)

LEMMA OneRemainder ==
  ASSUME NEW n \in Nat, n > 0, NEW q \in Int, NEW p \in Int, NEW r \in 0 .. n - 1, NEW s \in 0 .. n - 1,
         n * q + r = n * p + s
  PROVE  r = s
<1>1. CASE q = p
  BY <1>1
<1>2. CASE q >= p + 1
  <2>1. n * q >= n * (p + 1)
    BY <1>2
  <2> QED
    BY <2>1
<1>3. CASE p >= q + 1
  <2>1. n * p >= n * (q + 1)
    BY <1>3
  <2> QED
    BY <2>1
<1> QED
  BY <1>1, <1>2, <1>3

\* Everyone has a turn.
LEMMA TurnComes ==
  ASSUME NEW n \in Nat, n > 0, NEW h \in Nat, NEW j \in 0 .. n - 1
  PROVE  \E r \in 0 .. n - 1 : (h + r) % n = j
<1> DEFINE q == (j - h) \div n
           r == (j - h) % n
           p == (h + r) \div n
           s == (h + r) % n
<1>1. r \in 0 .. n - 1 /\ q \in Int /\ j - h = n * q + r
  OBVIOUS
<1> HIDE DEF q, r
<1>2. s \in 0 .. n - 1 /\ p \in Int /\ h + r = n * p + s
  BY <1>1
<1> HIDE DEF p, s
<1>3. h + r = n * (0 - q) + j
  BY <1>1
<1>4. s = j
  <2>1. n * p + s = n * (0 - q) + j /\ 0 - q \in Int
    BY <1>1, <1>2, <1>3
  <2> QED
    BY <1>2, <2>1, OneRemainder
<1> QED
  BY <1>1, <1>4 DEF s

LEMMA EveryTurn ==
  ASSUME ledger \in Ledgers, height \in Nat, NEW v \in ToSet(ledger.validators)
  PROVE  \E r \in 0 .. Len(ledger.validators) - 1 : Proposer(r) = v
<1> DEFINE n == Len(ledger.validators)
<1>1. ledger.validators \in Seq(Nodes) /\ n \in Nat /\ DOMAIN ledger.validators = 1 .. n
  BY DEF Ledgers
<1>2. PICK i \in 1 .. n : ledger.validators[i] = v
  BY <1>1 DEF ToSet
<1>3. \A r : Proposer(r) = ledger.validators[((height + r) % n) + 1]
  BY DEF Proposer
<1> HIDE DEF n
<1>4. n > 0 /\ i - 1 \in 0 .. n - 1
  BY <1>1
<1>5. PICK r \in 0 .. n - 1 : (height + r) % n = i - 1
  BY <1>1, <1>4, TurnComes
<1>6. Proposer(r) = v
  BY <1>1, <1>2, <1>3, <1>5
<1> QED
  BY <1>6 DEF n

LEMMA ListCounted ==
  ASSUME NEW S, NEW q \in Seq(S), IsInjective(q)
  PROVE  IsFiniteSet(ToSet(q)) /\ Cardinality(ToSet(q)) = Len(q) /\ Len(q) \in Nat
<1>1. Len(q) \in Nat /\ DOMAIN q = 1 .. Len(q)
  OBVIOUS
<1>2. IsFiniteSet(1 .. Len(q)) /\ Cardinality(1 .. Len(q)) = Len(q)
  <2>1. IF 1 > Len(q) THEN Len(q) = 0 ELSE Len(q) - 1 + 1 = Len(q)
    BY <1>1
  <2> QED
    BY <1>1, <2>1, FS_Interval
<1>3. q \in Surjection(1 .. Len(q), ToSet(q)) /\ q \in Injection(1 .. Len(q), ToSet(q))
  BY <1>1 DEF Surjection, Injection, ToSet, IsInjective
<1> QED
  BY <1>1, <1>2, <1>3, FS_Surjection

LEMMA ValidatorsCounted ==
  ASSUME ledger \in Ledgers, IsInjective(ledger.validators)
  PROVE  /\ IsFiniteSet(ToSet(ledger.validators)) /\ Need \in Nat \ {0}
         /\ Cardinality(ToSet(ledger.validators)) = Len(ledger.validators)
         /\ Len(ledger.validators) \in Nat
<1> DEFINE n == Len(ledger.validators)
<1>1. IsFiniteSet(ToSet(ledger.validators)) /\ Cardinality(ToSet(ledger.validators)) = n /\ n \in Nat
  <2>1. ledger.validators \in Seq(Nodes)
    BY DEF Ledgers
  <2> QED
    BY <2>1, ListCounted
<1>2. Need = ((2 * n) \div 3) + 1
  BY DEF Need, Quorum
<1> HIDE DEF n
<1>3. ((2 * n) \div 3) + 1 \in Nat \ {0}
  BY <1>1
<1> QED
  BY <1>1, <1>2, <1>3 DEF n

-----------------------------------------------------------------------------
(* One round of produce_block.                                              *)

NewVotes(blocks, p) ==
  UNION {{Vote(n, round, Proposed(round) + i) : n \in VotersFor(blocks[i], p)} : i \in DOMAIN blocks}
Won(blocks, p) == {i \in DOMAIN blocks : Cardinality(VotersFor(blocks[i], p)) >= Need}
Shown(blocks, p) == InSlot(round) \cup NewVotes(blocks, p)
Played(blocks, p) ==
  /\ Proposed(round) + Len(blocks) <= MaxBlocks /\ signed' = signed \cup Shown(blocks, p)
  /\ \/ /\ Won(blocks, p) # {}
        /\ Finalise(blocks[Min(Won(blocks, p))].txs, p, Accused(Shown(blocks, p)), <<>>)
     \/ /\ Won(blocks, p) = {}
        /\ round' = (round + 1) % Len(ledger.validators) /\ mempool' = Accused(Shown(blocks, p))
        /\ UNCHANGED <<ledger, height>>

LEMMA RoundPlayed ==
  ASSUME Round
  PROVE  /\ height < MaxHeight /\ round < Len(ledger.validators) /\ setup' = setup
         /\ \E blocks \in Proposals(Proposer(round)) : Played(blocks, Proposer(round))
<1> DEFINE p == Proposer(round)
<1>1. PICK blocks \in Proposals(p) :
       LET voters == [i \in DOMAIN blocks |-> VotersFor(blocks[i], p)]
           votes == InSlot(round) \cup
                    UNION {{Vote(n, round, Proposed(round) + i) : n \in voters[i]} : i \in DOMAIN blocks}
           won == {i \in DOMAIN blocks : Cardinality(voters[i]) >= Need} IN
       /\ Proposed(round) + Len(blocks) <= MaxBlocks
       /\ signed' = signed \cup votes
       /\ IF won # {} THEN Finalise(blocks[Min(won)].txs, p, Accused(votes), <<>>)
          ELSE /\ round' = (round + 1) % Len(ledger.validators)
               /\ mempool' = Accused(votes)
               /\ UNCHANGED <<ledger, height>>
  BY DEF Round
<1> DEFINE voters == [i \in DOMAIN blocks |-> VotersFor(blocks[i], p)]
<1>2. \A i \in DOMAIN blocks : voters[i] = VotersFor(blocks[i], p)
  OBVIOUS
<1> HIDE DEF voters
<1>3. {i \in DOMAIN blocks : Cardinality(voters[i]) >= Need} = Won(blocks, p)
  BY <1>2 DEF Won
<1>4. UNION {{Vote(n, round, Proposed(round) + i) : n \in voters[i]} : i \in DOMAIN blocks} = NewVotes(blocks, p)
  <2>1. \A i \in DOMAIN blocks : {Vote(n, round, Proposed(round) + i) : n \in voters[i]}
                                = {Vote(n, round, Proposed(round) + i) : n \in VotersFor(blocks[i], p)}
    BY <1>2
  <2> QED
    BY <2>1 DEF NewVotes
<1>5. Played(blocks, p)
  BY <1>1, <1>3, <1>4 DEF Played, Shown, voters
<1> QED
  BY <1>5 DEF Round

LEMMA ProposedTyped ==
  ASSUME NetTypeOK, NEW r
  PROVE  Proposed(r) \in Nat
<1> DEFINE T == {0} \cup {x.block : x \in InSlot(r)}
<1>1. \A x \in InSlot(r) : x \in Ballots /\ x.block \in Nat /\ x.block <= MaxBlocks
  BY DEF NetTypeOK, InSlot, Ballots
<1>2. MaxBlocks \in Nat
  BY NetworksAssumption
<1>3. T \subseteq Nat /\ T # {} /\ \A m \in T : m <= MaxBlocks
  BY <1>1, <1>2
<1> HIDE DEF T
<1>4. \E n \in T : \A m \in T : n >= m
  BY <1>2, <1>3, GreatestNat
<1>5. Max(T) \in T
  BY <1>4 DEF Max
<1> QED
  BY <1>3, <1>5 DEF Proposed, T

\* The votes of a round are of its slot; each is for one of the blocks proposed in it.
LEMMA CastTyped ==
  ASSUME NetTypeOK, NEW p \in Nodes, NEW blocks, DOMAIN blocks = 1 .. Len(blocks), Len(blocks) \in 0 .. 2,
         \A i \in 1 .. Len(blocks) : blocks[i].to \subseteq Nodes,
         Proposed(round) + Len(blocks) <= MaxBlocks, NEW x \in NewVotes(blocks, p)
  PROVE  /\ x \in Ballots /\ x.height = height /\ x.round = round /\ x.block <= MaxBlocks
         /\ \E i \in 1 .. Len(blocks) : x.block = Proposed(round) + i /\ x.signer \in VotersFor(blocks[i], p)
<1> DEFINE first == Proposed(round)
<1>1. PICK i \in 1 .. Len(blocks) : \E n \in VotersFor(blocks[i], p) : x = Vote(n, round, first + i)
  BY DEF NewVotes
<1>2. PICK n \in VotersFor(blocks[i], p) : x = Vote(n, round, first + i)
  BY <1>1
<1>3. first \in Nat /\ MaxBlocks \in Nat /\ height \in Nat /\ round \in Nat
  BY ProposedTyped, NetworksAssumption DEF NetTypeOK
<1> HIDE DEF first
<1>4. first + i \in Nat /\ first + i <= MaxBlocks
  <2>1. first + Len(blocks) <= MaxBlocks
    BY DEF first
  <2> QED
    BY <1>3, <2>1
<1>5. n \in Nodes
  BY <1>2 DEF VotersFor
<1>6. x = [signer |-> n, height |-> height, round |-> round, block |-> first + i]
  BY <1>2 DEF Vote
<1>7. x \in Ballots /\ x.height = height /\ x.round = round /\ x.block <= MaxBlocks /\ x.block = first + i /\ x.signer = n
  BY <1>3, <1>4, <1>5, <1>6 DEF Ballots
<1> QED
  BY <1>2, <1>7 DEF first

\* What a proposer of each kind may send, as it is used below.
Fair(blocks, p) ==
  /\ Len(blocks) \in 0 .. 2 /\ DOMAIN blocks = 1 .. Len(blocks)
  /\ \A i \in 1 .. Len(blocks) : blocks[i].to \subseteq Nodes
  /\ Len(blocks) = 2 => p \in With("equivocator") /\ blocks[1].to \cap blocks[2].to = {}
  /\ p \in Good => Len(blocks) = 1 /\ blocks[1].ok = TRUE /\ blocks[1].to = Nodes
  /\ p \in With("silent") => Len(blocks) = 0

\* In a slot nobody has voted in, only an equivocator votes twice.
LEMMA VotesApart ==
  ASSUME NetTypeOK, NEW p \in Nodes, NEW blocks, Fair(blocks, p), Proposed(round) + Len(blocks) <= MaxBlocks,
         NEW x \in NewVotes(blocks, p), NEW y \in NewVotes(blocks, p), x.signer = y.signer, x.block # y.block
  PROVE  x.signer \in With("equivocator")
<1> DEFINE first == Proposed(round)
           n == Len(blocks)
<1>1. /\ n \in 0 .. 2 /\ DOMAIN blocks = 1 .. n
      /\ \A i \in 1 .. n : blocks[i].to \subseteq Nodes
      /\ n = 2 => p \in With("equivocator") /\ blocks[1].to \cap blocks[2].to = {}
  BY DEF Fair
<1>2. PICK i \in 1 .. n : x.block = first + i /\ x.signer \in VotersFor(blocks[i], p)
  BY <1>1, CastTyped
<1>3. PICK j \in 1 .. n : y.block = first + j /\ y.signer \in VotersFor(blocks[j], p)
  BY <1>1, CastTyped
<1>4. first \in Nat
  BY ProposedTyped
<1> HIDE DEF first, n
<1>5. n = 2 /\ ((i = 1 /\ j = 2) \/ (i = 2 /\ j = 1))
  BY <1>1, <1>2, <1>3, <1>4
<1>6. x.signer \in {p} \cup blocks[i].to /\ x.signer \in {p} \cup blocks[j].to
  BY <1>2, <1>3 DEF VotersFor
<1> QED
  BY <1>1, <1>5, <1>6

\* A block of a good proposer that everyone has yet to vote for gets every vote there is.
LEMMA EveryoneVotes ==
  ASSUME NetTypeOK, NEW p \in Good, p \in ToSet(ledger.validators), NEW blocks, Fair(blocks, p),
         InSlot(round) = {}, ~ Stuck
  PROVE  Won(blocks, p) # {}
<1> DEFINE S == ToSet(ledger.validators) \ With("silent")
           V == VotersFor(blocks[1], p)
<1>1. DOMAIN blocks = 1 .. 1 /\ blocks[1].ok = TRUE /\ blocks[1].to = Nodes
  BY DEF Fair
<1>2. ToSet(ledger.validators) \subseteq Nodes
  BY DEF NetTypeOK, Ledgers, ToSet
<1>3. S \subseteq V
  BY <1>1, <1>2 DEF VotersFor, MayVote
<1>4. V \subseteq ToSet(ledger.validators)
  BY DEF VotersFor
<1>5. IsFiniteSet(ToSet(ledger.validators)) /\ Need \in Nat
  BY ValidatorsCounted DEF NetTypeOK
<1>6. IsFiniteSet(V) /\ IsFiniteSet(S)
  BY <1>4, <1>5, FS_Subset
<1>7. ~ (Cardinality(S) < Need)
  BY DEF Stuck
<1> HIDE DEF S, V
<1>8. Cardinality(S) <= Cardinality(V) /\ Cardinality(S) \in Nat /\ Cardinality(V) \in Nat
  BY <1>3, <1>6, FS_Subset, FS_CardinalityType
<1>9. Cardinality(V) >= Need
  BY <1>5, <1>7, <1>8
<1>10. 1 \in Won(blocks, p)
  BY <1>1, <1>9 DEF Won, V
<1> QED
  BY <1>10

\* Where too many are silent, no block has the votes.
LEMMA NobodyWins ==
  ASSUME NetTypeOK, NEW p \in ToSet(ledger.validators), NEW blocks, Fair(blocks, p), Stuck
  PROVE  Won(blocks, p) = {}
<1> SUFFICES ASSUME NEW i \in DOMAIN blocks, Cardinality(VotersFor(blocks[i], p)) >= Need
             PROVE  FALSE
  BY DEF Won
<1> DEFINE S == ToSet(ledger.validators) \ With("silent")
           V == VotersFor(blocks[i], p)
<1>1. p \notin With("silent")
  BY DEF Fair
<1>2. V \subseteq S
  BY <1>1 DEF VotersFor
<1>3. IsFiniteSet(ToSet(ledger.validators)) /\ Need \in Nat
  BY ValidatorsCounted DEF NetTypeOK
<1>4. IsFiniteSet(S)
  BY <1>3, FS_Subset
<1>5. Cardinality(S) < Need /\ Cardinality(V) >= Need
  BY DEF Stuck
<1> HIDE DEF S, V
<1>6. Cardinality(V) <= Cardinality(S) /\ Cardinality(S) \in Nat /\ Cardinality(V) \in Nat
  BY <1>2, <1>4, FS_Subset, FS_CardinalityType
<1> QED
  BY <1>3, <1>5, <1>6

LEMMA FairProposals ==
  ASSUME NetTypeOK, NEW p \in Nodes, NEW blocks \in Proposals(p)
  PROVE  Fair(blocks, p)
<1>1. mempool \in Seq(Just(Nodes))
  <2>1. mempool \in Seq(Txs) /\ Txs = Just(Nodes)
    BY DEF NetTypeOK, Just, Txs
  <2> QED
    BY <2>1
<1> QED
  BY <1>1, ProposalsTyped DEF Fair

\* What a round leaves behind: the next block, or the next turn.  S: who has been shown
\* to have equivocated.
Decided(S) ==
  /\ height' = height + 1 /\ round' = 0
  /\ ToSet(ledger'.validators) \subseteq ToSet(ledger.validators)
  /\ ToSet(ledger.validators) \ S \subseteq ToSet(ledger'.validators)
  /\ ledger'.slashed \subseteq ledger.slashed \cup S
Passed == round' = (round + 1) % Len(ledger.validators) /\ ledger' = ledger /\ height' = height

LEMMA RoundTyped ==
  ASSUME NetTypeOK, NEW S, mempool \in Seq(Just(S)), NEW p \in Nodes, NEW blocks \in Proposals(p), Played(blocks, p),
         round < Len(ledger.validators), \A v \in Nodes : Proves(Shown(blocks, p), v) => v \in S
  PROVE  /\ NetTypeOK' /\ mempool' \in Seq(Just(S))
         /\ (Won(blocks, p) # {} /\ Decided(S)) \/ (Won(blocks, p) = {} /\ Passed)
<1>1. Fair(blocks, p) /\ Proposed(round) + Len(blocks) <= MaxBlocks
  BY FairProposals DEF Played
<1>2. \A x \in NewVotes(blocks, p) : x \in Ballots /\ x.height = height /\ x.round = round /\ x.block <= MaxBlocks
  BY <1>1, CastTyped DEF Fair
<1>3. Shown(blocks, p) \subseteq Ballots /\ \A x \in Shown(blocks, p) : x.height = height /\ x.block <= MaxBlocks
  BY <1>2 DEF Shown, InSlot, NetTypeOK
<1>4. signed' \subseteq Ballots /\ \A x \in signed' : x.height <= height /\ x.block <= MaxBlocks
  <2>1. signed' = signed \cup Shown(blocks, p) /\ height \in Nat
    BY DEF Played, NetTypeOK
  <2>2. signed \subseteq Ballots /\ \A x \in signed : x.height <= height /\ x.block <= MaxBlocks
    BY DEF NetTypeOK
  <2> QED
    BY <1>3, <2>1, <2>2
<1>5. Accused(Shown(blocks, p)) \in Seq(Just(S))
  BY <1>3, AccusedTyped DEF NetTypeOK
<1>6. CASE Won(blocks, p) # {}
  <2> DEFINE b == blocks[Min(Won(blocks, p))]
  <2>1. Finalise(b.txs, p, Accused(Shown(blocks, p)), <<>>)
    BY <1>6 DEF Played
  <2>2. Min(Won(blocks, p)) \in 1 .. Len(blocks)
    <3>1. Won(blocks, p) \subseteq 1 .. Len(blocks) /\ Len(blocks) \in Nat
      BY <1>1 DEF Won, Fair
    <3>2. \E n \in Won(blocks, p) : \A m \in Won(blocks, p) : n <= m
      BY <1>6, <3>1, LeastNat
    <3>3. Min(Won(blocks, p)) \in Won(blocks, p)
      BY <3>2 DEF Min
    <3> QED
      BY <3>1, <3>3
  <2>3. b.txs \in Seq(Sound(S))
    BY <2>2, ProposalsTyped
  <2> HIDE DEF b
  <2>4. <<>> \in Seq(Just(S))
    OBVIOUS
  <2>5. /\ ledger' \in Ledgers /\ IsInjective(ledger'.validators)
        /\ mempool' \in Seq(Just(S)) /\ Decided(S)
    BY <1>5, <2>1, <2>3, <2>4, Finalised DEF Decided
  <2>6. NetTypeOK'
    <3>1. mempool' \in Seq(Txs)
      <4>1. Just(S) \subseteq Txs
        BY DEF Just
      <4> QED
        BY <2>5, <4>1
    <3>2. height' = height + 1 /\ round' = 0 /\ height \in Nat
      BY <2>5 DEF Decided, NetTypeOK
    <3>3. \A x \in signed' : x.height <= height'
      <4>1. \A x \in signed' : x.height \in Nat
        BY <1>4 DEF Ballots
      <4> QED
        BY <1>4, <3>2, <4>1
    <3> QED
      BY <1>4, <2>5, <3>1, <3>2, <3>3 DEF NetTypeOK
  <2> QED
    BY <1>6, <2>5, <2>6
<1>7. CASE Won(blocks, p) = {}
  <2>1. Passed /\ mempool' = Accused(Shown(blocks, p))
    BY <1>7 DEF Played, Passed
  <2>2. mempool' \in Seq(Txs)
    <3>1. Just(S) \subseteq Txs
      BY DEF Just
    <3> QED
      BY <1>5, <2>1, <3>1
  <2>3. round' \in Nat
    <3> DEFINE n == Len(ledger.validators)
    <3>1. n \in Nat /\ round \in Nat /\ n > 0
      <4>1. ledger.validators \in Seq(Nodes) /\ round \in Nat /\ round < n
        BY DEF NetTypeOK, Ledgers
      <4>2. n \in Nat
        BY <4>1
      <4> HIDE DEF n
      <4> QED
        BY <4>1, <4>2
    <3>2. round' = (round + 1) % n
      BY <2>1 DEF Passed
    <3> HIDE DEF n
    <3> QED
      BY <3>1, <3>2
  <2>4. NetTypeOK'
    BY <1>4, <2>1, <2>2, <2>3 DEF NetTypeOK, Passed
  <2> QED
    BY <1>5, <1>7, <2>1, <2>4
<1> QED
  BY <1>6, <1>7

-----------------------------------------------------------------------------
(* While a good validator is left and not too many are silent, every slot   *)
(* is voted in once: a good proposer's block is decided in the round it is  *)
(* proposed in, so the turns of a height end before they come round again.  *)

Cheats == With("equivocator")
Orderly ==
  /\ \A x \in signed : x.height = height => x.round < round
  /\ \A r \in 0 .. round - 1 : Proposer(r) \notin Good
  /\ \A x, y \in signed :
       x.signer = y.signer /\ x.height = y.height /\ x.round = y.round /\ x.block # y.block => x.signer \in Cheats
  /\ mempool \in Seq(Just(Cheats))
NetInv ==
  NetTypeOK /\ (Seated => ledger.slashed \subseteq Cheats /\ (Stuck \/ Orderly))

LEMMA JustTyped == ASSUME NetTypeOK PROVE mempool \in Seq(Just(Nodes)) /\ \A S : Just(S) \subseteq Txs
<1>1. mempool \in Seq(Txs) /\ Txs = Just(Nodes)
  BY DEF NetTypeOK, Just, Txs
<1> QED
  BY <1>1 DEF Just

LEMMA SlotEmpty ==
  ASSUME NetTypeOK, Orderly
  PROVE  InSlot(round) = {}
BY DEF Orderly, InSlot, NetTypeOK

\* Behaviour is chosen for good.
LEMMA SameBehaviour ==
  ASSUME setup' = setup
  PROVE  Good' = Good /\ Cheats' = Cheats /\ With("silent")' = With("silent")
BY DEF Good, Cheats, With

LEMMA OrderlyRound ==
  ASSUME NetTypeOK, Seated, ~ Stuck, Orderly, round < Len(ledger.validators),
         NEW blocks \in Proposals(Proposer(round)), Played(blocks, Proposer(round)), setup' = setup
  PROVE  /\ NetTypeOK' /\ Orderly'
         /\ Decided(Cheats) \/ (Passed /\ round' = round + 1)
<1> DEFINE p == Proposer(round)
           n == Len(ledger.validators)
           E == Cheats
<1>1. n \in Nat /\ round \in Nat /\ height \in Nat /\ ledger \in Ledgers
  BY ValidatorsCounted DEF NetTypeOK
<1>2. n > 0
  BY <1>1
<1>3. p \in Nodes /\ p \in ToSet(ledger.validators)
  BY <1>1, <1>2, ProposerTyped
<1>4. Fair(blocks, p) /\ Proposed(round) + Len(blocks) <= MaxBlocks
  BY <1>3, FairProposals DEF Played
<1>5. InSlot(round) = {} /\ Shown(blocks, p) = NewVotes(blocks, p)
  BY SlotEmpty DEF Shown
<1> HIDE DEF p
<1>6. \A x, y \in Shown(blocks, p) : x.signer = y.signer /\ x.block # y.block => x.signer \in E
  BY <1>3, <1>4, <1>5, VotesApart DEF Cheats
<1>7. \A v \in Nodes : Proves(Shown(blocks, p), v) => v \in E
  BY <1>6 DEF Proves
<1>8. mempool \in Seq(Just(E))
  BY DEF Orderly
<1>9. blocks \in Proposals(p) /\ Played(blocks, p)
  BY DEF p
<1>10. /\ NetTypeOK' /\ mempool' \in Seq(Just(E))
       /\ (Won(blocks, p) # {} /\ Decided(E)) \/ (Won(blocks, p) = {} /\ Passed)
  <2> HIDE DEF E
  <2> QED
    BY <1>3, <1>7, <1>8, <1>9, RoundTyped
<1>11. \A x \in Shown(blocks, p) : x.height = height /\ x.round = round
  <2>1. DOMAIN blocks = 1 .. Len(blocks) /\ Len(blocks) \in 0 .. 2 /\ \A i \in 1 .. Len(blocks) : blocks[i].to \subseteq Nodes
    BY <1>4 DEF Fair
  <2> QED
    BY <1>3, <1>4, <1>5, <2>1, CastTyped
<1>12. signed' = signed \cup Shown(blocks, p)
  BY <1>9 DEF Played
<1>13. \A x, y \in signed' :
         x.signer = y.signer /\ x.height = y.height /\ x.round = y.round /\ x.block # y.block => x.signer \in E
  <2>1. \A x, y \in signed :
          x.signer = y.signer /\ x.height = y.height /\ x.round = y.round /\ x.block # y.block => x.signer \in E
    BY DEF Orderly
  <2>2. \A x \in signed, y \in Shown(blocks, p) : ~ (x.height = y.height /\ x.round = y.round)
    <3>1. \A x \in signed : ~ (x.height = height /\ x.round = round)
      BY <1>5 DEF InSlot
    <3> QED
      BY <1>11, <3>1
  <2> HIDE DEF E
  <2> QED
    BY <1>6, <1>12, <2>1, <2>2
<1>14. E' = E /\ Good' = Good
  BY SameBehaviour
<1>15. CASE Decided(E)
  <2>1. height' = height + 1 /\ round' = 0
    BY <1>15 DEF Decided
  <2>2. \A x \in signed' : x.height = height' => x.round < round'
    <3>1. \A x \in signed' : x.height \in Nat /\ x.height <= height
      <4>1. \A x \in signed : x.height \in Nat /\ x.height <= height
        BY DEF NetTypeOK, Ballots
      <4> QED
        BY <1>1, <1>11, <1>12, <4>1
    <3> QED
      BY <1>1, <2>1, <3>1
  <2>3. Orderly'
    BY <1>10, <1>13, <1>14, <2>1, <2>2 DEF Orderly
  <2> QED
    BY <1>10, <1>15, <2>3
<1>16. CASE Won(blocks, p) = {} /\ Passed
  <2>1. p \notin Good
    BY <1>3, <1>4, <1>5, <1>16, EveryoneVotes
  <2>2. \A r \in 0 .. round : Proposer(r) \notin Good
    <3>1. \A r \in 0 .. round - 1 : Proposer(r) \notin Good
      BY DEF Orderly
    <3>2. \A r \in 0 .. round : r = round \/ r \in 0 .. round - 1
      BY <1>1
    <3> QED
      BY <2>1, <3>1, <3>2 DEF p
  <2>3. round + 1 < n
    <3>1. PICK v \in ToSet(ledger.validators) : v \in Good
      BY DEF Seated
    <3>2. PICK r \in 0 .. n - 1 : Proposer(r) = v
      BY <1>1, EveryTurn
    <3>3. ~ (r \in 0 .. round)
      BY <2>2, <3>1, <3>2
    <3> HIDE DEF n
    <3> QED
      BY <1>1, <3>3
  <2>4. round' = round + 1 /\ height' = height /\ ledger' = ledger
    <3>1. round' = (round + 1) % n /\ height' = height /\ ledger' = ledger
      BY <1>16 DEF Passed
    <3> HIDE DEF n
    <3>2. (round + 1) % n = round + 1
      BY <1>1, <2>3
    <3> QED
      BY <3>1, <3>2
  <2>5. \A x \in signed' : x.height = height' => x.round < round'
    <3>1. \A x \in signed : x.height = height => x.round < round /\ x.round \in Nat
      BY DEF Orderly, NetTypeOK, Ballots
    <3> QED
      BY <1>1, <1>11, <1>12, <2>4, <3>1
  <2>6. \A r \in 0 .. round' - 1 : Proposer(r)' \notin Good
    <3>1. \A r : Proposer(r)' = Proposer(r)
      BY <2>4 DEF Proposer
    <3>2. 0 .. round' - 1 = 0 .. round
      BY <1>1, <2>4
    <3> QED
      BY <2>2, <3>1, <3>2
  <2>7. Orderly'
    BY <1>10, <1>13, <1>14, <2>5, <2>6 DEF Orderly
  <2> QED
    BY <1>10, <1>16, <2>4, <2>7
<1> QED
  BY <1>10, <1>15, <1>16

\* Where too many are silent, or no good validator is left, a round may go on for ever.
LEMMA AnyRound ==
  ASSUME NetTypeOK, round < Len(ledger.validators), setup' = setup,
         NEW blocks \in Proposals(Proposer(round)), Played(blocks, Proposer(round))
  PROVE  NetTypeOK' /\ (Seated' => Seated) /\ (Stuck => ledger' = ledger /\ Stuck')
<1> DEFINE p == Proposer(round)
           n == Len(ledger.validators)
<1>1. n \in Nat /\ round \in Nat /\ height \in Nat /\ ledger \in Ledgers
  BY ValidatorsCounted DEF NetTypeOK
<1>2. p \in Nodes /\ p \in ToSet(ledger.validators)
  <2>1. n > 0
    BY <1>1
  <2> QED
    BY <1>1, <2>1, ProposerTyped
<1>3. blocks \in Proposals(p) /\ Played(blocks, p)
  OBVIOUS
<1>4. mempool \in Seq(Just(Nodes))
  BY JustTyped
<1> HIDE DEF p
<1>5. NetTypeOK' /\ ((Won(blocks, p) # {} /\ Decided(Nodes)) \/ (Won(blocks, p) = {} /\ Passed))
  BY <1>2, <1>3, <1>4, RoundTyped
<1>6. ToSet(ledger'.validators) \subseteq ToSet(ledger.validators)
  BY <1>5 DEF Decided, Passed
<1>7. Good' = Good /\ With("silent")' = With("silent")
  BY SameBehaviour
<1>8. Seated' => Seated
  BY <1>6, <1>7 DEF Seated
<1>9. Stuck => ledger' = ledger /\ Stuck'
  <2> SUFFICES ASSUME Stuck
               PROVE  ledger' = ledger /\ Stuck'
    OBVIOUS
  <2>1. Won(blocks, p) = {}
    BY <1>2, <1>3, FairProposals, NobodyWins
  <2>2. ledger' = ledger
    BY <1>5, <2>1 DEF Passed
  <2> QED
    BY <1>7, <2>2 DEF Stuck, Need
<1> QED
  BY <1>5, <1>8, <1>9

\* Whoever has not equivocated keeps his seat.
LEMMA SeatsKept ==
  ASSUME Seated, Decided(Cheats), setup' = setup
  PROVE  Seated'
<1>1. Good \cap Cheats = {}
  BY DEF Good, Cheats, With
<1>2. Good' = Good
  BY SameBehaviour
<1> QED
  BY <1>1, <1>2 DEF Seated, Decided

LEMMA RoundKeeps ==
  ASSUME NetInv, Round
  PROVE  /\ NetInv' /\ (Seated => Seated')
         /\ Seated /\ ~ Stuck => height' > height \/ round' > round
<1>1. round < Len(ledger.validators) /\ setup' = setup
  BY RoundPlayed
<1>2. PICK blocks \in Proposals(Proposer(round)) : Played(blocks, Proposer(round))
  BY RoundPlayed
<1>3. NetTypeOK
  BY DEF NetInv
<1>4. NetTypeOK' /\ (Seated' => Seated) /\ (Stuck => ledger' = ledger /\ Stuck')
  BY <1>1, <1>2, <1>3, AnyRound
<1>5. Cheats' = Cheats
  BY <1>1, SameBehaviour
<1>6. CASE Seated /\ ~ Stuck
  <2>1. Orderly /\ ledger.slashed \subseteq Cheats
    BY <1>6 DEF NetInv
  <2>2. Orderly' /\ (Decided(Cheats) \/ (Passed /\ round' = round + 1))
    BY <1>1, <1>2, <1>3, <1>6, <2>1, OrderlyRound
  <2>3. ledger'.slashed \subseteq Cheats
    BY <2>1, <2>2 DEF Decided, Passed
  <2>4. Seated'
    <3>1. CASE Decided(Cheats)
      BY <1>1, <1>6, <3>1, SeatsKept
    <3>2. CASE Passed
      <4>1. Good' = Good
        BY <1>1, SameBehaviour
      <4> QED
        BY <1>6, <3>2, <4>1 DEF Passed, Seated
    <3> QED
      BY <2>2, <3>1, <3>2
  <2>5. height' > height \/ round' > round
    <3>1. height \in Nat /\ round \in Nat
      BY <1>3 DEF NetTypeOK
    <3> QED
      BY <2>2, <3>1 DEF Decided
  <2> QED
    BY <1>4, <1>5, <2>2, <2>3, <2>4, <2>5 DEF NetInv
<1>7. CASE ~ (Seated /\ ~ Stuck)
  <2> SUFFICES ASSUME Seated
               PROVE  ledger'.slashed \subseteq Cheats' /\ Stuck' /\ Seated'
    BY <1>4, <1>7 DEF NetInv
  <2>1. Stuck /\ ledger' = ledger
    BY <1>4, <1>7
  <2>2. Good' = Good
    BY <1>1, SameBehaviour
  <2> QED
    BY <1>4, <1>5, <2>1, <2>2 DEF NetInv, Seated
<1> QED
  BY <1>6, <1>7

\* LedgerNetwork.produce_block: what equivocators told, they told.
LEMMA HeightKeeps ==
  ASSUME NetInv, NEW r \in 0 .. Len(ledger.validators) - 1, Height(r)
  PROVE  NetInv' /\ (Seated => Seated') /\ height' = height + 1
<1> DEFINE p == Proposer(r)
           n == Len(ledger.validators)
           present == Only(ledger.validators, Honest)
           turns == {k \in 0 .. n - 1 : Proposer(k) \in With("equivocator")}
           E == Cheats
<1>1. NetTypeOK /\ n \in Nat /\ height \in Nat /\ ledger \in Ledgers /\ IsInjective(ledger.validators) /\ mempool \in Seq(Txs)
  BY ValidatorsCounted DEF NetInv, NetTypeOK
<1>2. p \in Nodes
  <2>1. r \in Nat /\ n > 0
    BY <1>1
  <2> QED
    BY <1>1, <2>1, ProposerTyped
<1>3. ~ Stuck /\ setup' = setup /\ signed' = signed
  <2>1. Cardinality(ToSet(ledger.validators) \ With("silent")) >= Need
    BY DEF Height
  <2>2. IsFiniteSet(ToSet(ledger.validators)) /\ Need \in Nat
    BY <1>1, ValidatorsCounted
  <2>3. Cardinality(ToSet(ledger.validators) \ With("silent")) \in Nat
    BY <2>2, FS_Subset, FS_CardinalityType
  <2>4. ~ Stuck
    BY <2>1, <2>2, <2>3 DEF Stuck
  <2> QED
    BY <2>4 DEF Height
<1>4. PICK blocks \in Proposals(p), told \in SUBSET turns : \E i \in DOMAIN blocks, saw \in [ToSet(present) -> SUBSET told] :
        Finalise(blocks[i].txs, p, mempool, Noticed(present, saw))
  BY DEF Height
<1>5. PICK i \in DOMAIN blocks, saw \in [ToSet(present) -> SUBSET told] :
        Finalise(blocks[i].txs, p, mempool, Noticed(present, saw))
  BY <1>4
<1>6. present \in Seq(Nodes)
  <2>1. ledger.validators \in Seq(Nodes)
    BY <1>1 DEF Ledgers
  <2> QED
    BY <2>1, OnlyKeeps
<1>7. \A k \in told : Proposer(k) \in E
  BY DEF Cheats
<1>8. \A m \in ToSet(present) : \A k \in saw[m] : Proposer(k) \in E
  BY <1>7
<1> HIDE DEF E, present, turns
<1>9. Noticed(present, saw) \in Seq(Just(E))
  BY <1>1, <1>6, <1>8, NoticedTyped
<1>10. DOMAIN blocks = 1 .. Len(blocks)
  BY <1>1, <1>2, FairProposals DEF Fair
<1> HIDE DEF p
<1>11. ASSUME NEW S, E \subseteq S, mempool \in Seq(Just(S))
       PROVE  NetTypeOK' /\ mempool' \in Seq(Just(S)) /\ Decided(S)
  <2> DEFINE late == Noticed(present, saw)
             b == blocks[i]
  <2>1. b.txs \in Seq(Sound(S))
    BY <1>1, <1>2, <1>4, <1>10, <1>11, ProposalsTyped
  <2>2. late \in Seq(Just(S))
    <3>1. Just(E) \subseteq Just(S)
      BY <1>11 DEF Just
    <3> QED
      BY <1>9, <3>1
  <2>3. Finalise(b.txs, p, mempool, late)
    BY <1>5
  <2> HIDE DEF b, late
  <2>4. /\ ledger' \in Ledgers /\ IsInjective(ledger'.validators) /\ mempool' \in Seq(Just(S)) /\ Decided(S)
    BY <1>1, <1>2, <1>11, <2>1, <2>2, <2>3, Finalised DEF Decided
  <2>5. mempool' \in Seq(Txs)
    <3>1. Just(S) \subseteq Txs
      BY DEF Just
    <3> QED
      BY <2>4, <3>1
  <2>6. height' = height + 1 /\ round' = 0
    BY <2>4 DEF Decided
  <2>7. \A x \in signed' : x.height <= height' /\ x.block <= MaxBlocks
    BY <1>1, <1>3, <2>6 DEF NetTypeOK, Ballots
  <2> QED
    BY <1>1, <1>3, <2>4, <2>5, <2>6, <2>7 DEF NetTypeOK
<1>12. Good' = Good /\ Cheats' = Cheats
  BY <1>3, SameBehaviour
<1>13. NetTypeOK' /\ Decided(Nodes)
  <2>1. E \subseteq Nodes /\ mempool \in Seq(Just(Nodes))
    BY <1>1, JustTyped DEF E, Cheats, With
  <2> QED
    BY <1>11, <2>1
<1>14. height' = height + 1 /\ round' = 0 /\ (Seated' => Seated)
  BY <1>12, <1>13 DEF Decided, Seated
<1>15. ASSUME Seated
       PROVE  ledger'.slashed \subseteq Cheats /\ Orderly' /\ Seated'
  <2>1. Orderly /\ ledger.slashed \subseteq Cheats
    BY <1>3, <1>15 DEF NetInv
  <2>2. mempool \in Seq(Just(E))
    BY <2>1 DEF Orderly, E
  <2>3. mempool' \in Seq(Just(Cheats)) /\ Decided(Cheats)
    BY <1>11, <2>2 DEF E
  <2>4. \A x \in signed' : x.height = height' => x.round < round'
    BY <1>1, <1>3, <1>14 DEF NetTypeOK, Ballots
  <2>5. Orderly'
    BY <1>3, <1>12, <1>14, <2>1, <2>3, <2>4 DEF Orderly
  <2>6. Seated'
    BY <1>3, <1>15, <2>3, SeatsKept
  <2> QED
    BY <2>1, <2>3, <2>5, <2>6 DEF Decided
<1> QED
  BY <1>12, <1>13, <1>14, <1>15 DEF NetInv

LEMMA SubmitKeeps ==
  ASSUME NetInv, NEW t \in Txs, Submit(t), Orderly => t \in Just(Cheats)
  PROVE  NetInv' /\ (Seated => Seated') /\ height' = height /\ round' = round
<1>1. /\ mempool' = Append(mempool, t) /\ setup' = setup /\ ledger' = ledger
      /\ height' = height /\ round' = round /\ signed' = signed
  BY DEF Submit
<1>2. NetTypeOK'
  <2>1. mempool' \in Seq(Txs)
    BY <1>1 DEF NetInv, NetTypeOK
  <2> QED
    BY <1>1, <2>1 DEF NetInv, NetTypeOK
<1>3. Good' = Good /\ Cheats' = Cheats /\ With("silent")' = With("silent")
  BY <1>1, SameBehaviour
<1>4. Seated' = Seated /\ Stuck' = Stuck /\ \A r : Proposer(r)' = Proposer(r)
  BY <1>1, <1>3 DEF Seated, Stuck, Need, Proposer
<1>5. ASSUME Orderly
      PROVE  Orderly'
  <2>1. mempool \in Seq(Just(Cheats)) /\ t \in Just(Cheats)
    BY <1>5 DEF Orderly
  <2>2. mempool' \in Seq(Just(Cheats)')
    <3>1. mempool' \in Seq(Just(Cheats))
      BY <1>1, <2>1
    <3>2. Just(Cheats)' = Just(Cheats)
      BY <1>3 DEF Just
    <3> QED
      BY <3>1, <3>2
  <2> QED
    BY <1>1, <1>3, <1>4, <1>5, <2>2 DEF Orderly
<1> QED
  BY <1>1, <1>2, <1>3, <1>4, <1>5 DEF NetInv

LEMMA PoolNonce ==
  ASSUME NetTypeOK, NEW n \in Nodes
  PROVE  NextNonce(n, mempool) \in Nat
BY NonceTyped DEF NetTypeOK

LEMMA VoteKeeps ==
  ASSUME NetInv, NEW n \in Nodes, VoteForIssuer(n)
  PROVE  NetInv' /\ (Seated => Seated') /\ height' = height /\ round' = round
<1> DEFINE t == VoteOf(n, NextNonce(n, mempool))
<1>1. t \in Txs /\ t.kind = "vote"
  BY PoolNonce DEF NetInv, VoteOf, Txs
<1>2. t \in Just(Cheats)
  BY <1>1 DEF Just
<1>3. Submit(t)
  BY DEF VoteForIssuer
<1> HIDE DEF t
<1> QED
  BY <1>1, <1>2, <1>3, SubmitKeeps

LEMMA FrameKeeps ==
  ASSUME NetInv, NEW n \in Nodes, NEW a \in signed, NEW b \in signed, Frame(n, a, b)
  PROVE  NetInv' /\ (Seated => Seated') /\ height' = height /\ round' = round
<1> DEFINE t == EvidenceOf(n, NextNonce(n, mempool), a.signer, {a, b})
<1>1. a \in Ballots /\ b \in Ballots /\ a.signer \in Nodes
  BY DEF NetInv, NetTypeOK, Ballots
<1>2. NextNonce(n, mempool) \in Nat
  BY PoolNonce DEF NetInv
<1>3. t \in Txs /\ t.about = a.signer /\ t.proof = {a, b}
  BY <1>1, <1>2 DEF EvidenceOf, Txs
<1>4. ASSUME Orderly, Proves({a, b}, a.signer)
      PROVE  a.signer \in Cheats
  BY <1>4 DEF Orderly, Proves
<1>5. Orderly => t \in Just(Cheats)
  BY <1>3, <1>4 DEF Just
<1>6. Submit(t)
  BY DEF Frame
<1> HIDE DEF t
<1> QED
  BY <1>3, <1>5, <1>6, SubmitKeeps

LEMMA NetStarts ==
  ASSUME Init
  PROVE  NetInv /\ ledger.slashed = {} /\ ToSet(ledger.validators) = Nodes /\ setup \in Setups
<1>1. Head(Founding) \in Nodes
  <2>1. Founding # <<>>
    BY NetworksAssumption DEF Nodes, ToSet
  <2> QED
    BY <2>1, FoundingTyped
<1>2. /\ ledger = [validators |-> Founding, slashed |-> {}, nonce |-> [n \in Nodes |-> 0],
                   voters |-> {}, issuer |-> FALSE, by |-> Head(Founding)]
      /\ mempool = <<>> /\ height = 1 /\ round = 0 /\ signed = {} /\ setup \in Setups
  BY DEF Init
<1>3. ledger \in Ledgers
  <2>1. [n \in Nodes |-> 0] \in [Nodes -> Nat]
    OBVIOUS
  <2> QED
    BY <1>1, <1>2, <2>1, FoundingTyped DEF Ledgers
<1>4. ledger.validators = Founding /\ ledger.slashed = {}
  BY <1>2
<1>5. mempool \in Seq(Txs) /\ mempool \in Seq(Just(Cheats))
  BY <1>2
<1>6. NetTypeOK
  BY <1>2, <1>3, <1>4, <1>5, FoundingTyped DEF NetTypeOK
<1>7. Orderly
  BY <1>2, <1>5 DEF Orderly
<1>8. ToSet(ledger.validators) = Nodes
  BY <1>4, FoundingTyped
<1> QED
  BY <1>2, <1>4, <1>6, <1>7, <1>8 DEF NetInv

LEMMA NetStep ==
  ASSUME NetInv, Next
  PROVE  /\ NetInv' /\ (Seated => Seated') /\ setup' = setup
         /\ Seated /\ ~ Stuck /\ round' # round => height' > height \/ round' > round
<1>5. height \in Nat
  BY DEF NetInv, NetTypeOK
<1>1. CASE Round
  BY <1>1, RoundKeeps, RoundPlayed
<1>2. ASSUME NEW r \in 0 .. Len(ledger.validators) - 1, Height(r)
      PROVE  NetInv' /\ (Seated => Seated') /\ setup' = setup /\ height' > height
  <2>1. NetInv' /\ (Seated => Seated') /\ height' = height + 1
    BY <1>2, HeightKeeps
  <2>2. setup' = setup
    BY <1>2 DEF Height
  <2> QED
    BY <1>5, <2>1, <2>2
<1>3. ASSUME NEW n \in Nodes, VoteForIssuer(n)
      PROVE  NetInv' /\ (Seated => Seated') /\ setup' = setup /\ round' = round
  BY <1>3, VoteKeeps DEF VoteForIssuer, Submit
<1>4. ASSUME NEW n \in Nodes, NEW a \in signed, NEW b \in signed, Frame(n, a, b)
      PROVE  NetInv' /\ (Seated => Seated') /\ setup' = setup /\ round' = round
  BY <1>4, FrameKeeps DEF Frame, Submit
<1> QED
  BY <1>1, <1>2, <1>3, <1>4 DEF Next

LEMMA NetStutters ==
  ASSUME NetInv, UNCHANGED vars
  PROVE  NetInv' /\ (Seated => Seated') /\ setup' = setup
BY DEF vars, NetInv, NetTypeOK, Seated, Stuck, Orderly, Good, Cheats, With, Need, Proposer, Just

-----------------------------------------------------------------------------
(* Where a transaction stands in the mempool.                               *)

Of(T, n) == {t \in T : t.sender = n}

\* From b on, those of n are one per nonce up to c, where none is.
Line(T, n, b, c) ==
  /\ \A t \in Of(T, n) : t.nonce >= b /\ t.nonce # c
  /\ \A t, u \in Of(T, n) : t.nonce = u.nonce /\ t.nonce < c => t = u
  /\ \A k \in b .. c - 1 : \E t \in Of(T, n) : t.nonce = k
InLine(T, n, b) == \E c \in Nat : c >= b /\ Line(T, n, b, c)
\* And these are all.
Full(T, n, b, c) == c >= b /\ Line(T, n, b, c) /\ \A t \in Of(T, n) : t.nonce < c

LEMMA LineCounted ==
  ASSUME NEW T \in SUBSET Txs, IsFiniteSet(T), NEW n, NEW b \in Nat, NEW c \in Nat, c >= b, Line(T, n, b, c)
  PROVE  /\ Cardinality(Of(T, n)) \in Nat /\ Cardinality(Of(T, n)) >= c - b
         /\ Full(T, n, b, c) <=> Cardinality(Of(T, n)) = c - b
<1> DEFINE O == Of(T, n)
           P == {t \in O : t.nonce < c}
           f == [k \in b .. c - 1 |-> CHOOSE t \in P : t.nonce = k]
<1>1. O \subseteq T /\ \A t \in O : t.nonce \in Nat /\ t.nonce >= b /\ t.nonce # c
  BY DEF Of, Txs, Line
<1>2. \A t, u \in P : t.nonce = u.nonce => t = u
  BY DEF Line
<1>3. \A k \in b .. c - 1 : \E t \in P : t.nonce = k
  <2>1. \A k \in b .. c - 1 : \E t \in O : t.nonce = k
    BY DEF Line
  <2>2. \A k \in b .. c - 1 : k < c
    OBVIOUS
  <2> QED
    BY <2>1, <2>2
<1>4. Full(T, n, b, c) <=> P = O
  <2>1. Full(T, n, b, c) <=> \A t \in O : t.nonce < c
    BY DEF Full
  <2> QED
    BY <2>1
<1> HIDE DEF O
<1>5. /\ IsFiniteSet(O) /\ IsFiniteSet(P) /\ Cardinality(P) \in Nat /\ Cardinality(O) \in Nat
      /\ Cardinality(P) <= Cardinality(O) /\ (Cardinality(P) = Cardinality(O) => P = O)
  <2>1. IsFiniteSet(O)
    BY <1>1, FS_Subset
  <2>2. P \in SUBSET O
    OBVIOUS
  <2> HIDE DEF P
  <2> QED
    BY <2>1, <2>2, FS_Subset, FS_CardinalityType
<1>6. \A k \in b .. c - 1 : f[k] \in P /\ f[k].nonce = k
  BY <1>3
<1>7. \A t \in P : t.nonce \in b .. c - 1
  BY <1>1
<1>8. f \in Surjection(b .. c - 1, P) /\ f \in Injection(b .. c - 1, P)
  <2>1. f = [k \in b .. c - 1 |-> f[k]]
    OBVIOUS
  <2>2. \A t \in P : f[t.nonce] = t
    BY <1>2, <1>6, <1>7
  <2> HIDE DEF f, P
  <2> QED
    BY <1>6, <1>7, <2>1, <2>2 DEF Surjection, Injection, IsInjective
<1> HIDE DEF f, P
<1>9. IsFiniteSet(b .. c - 1) /\ Cardinality(b .. c - 1) = c - b
  <2>1. IsFiniteSet(b .. c - 1) /\ Cardinality(b .. c - 1) = IF b > c - 1 THEN 0 ELSE (c - 1) - b + 1
    BY FS_Interval
  <2>2. (IF b > c - 1 THEN 0 ELSE (c - 1) - b + 1) = c - b
    OBVIOUS
  <2> QED
    BY <2>1, <2>2
<1>10. Cardinality(P) = c - b
  BY <1>8, <1>9, FS_Surjection
<1> QED
  BY <1>4, <1>5, <1>10 DEF O

LEMMA InLineIf ==
  ASSUME NEW U, NEW n, NEW b, NEW c \in Nat, c >= b,
         \A t \in Of(U, n) : t.nonce >= b /\ t.nonce # c,
         \A t, u \in Of(U, n) : t.nonce = u.nonce /\ t.nonce < c => t = u,
         \A k \in b .. c - 1 : \E t \in Of(U, n) : t.nonce = k
  PROVE  InLine(U, n, b)
<1>1. Line(U, n, b, c)
  BY Zenon DEF Line
<1> QED
  BY <1>1 DEF InLine

\* What takes the nonce after all that wait joins the line, or comes after a gap.
LEMMA LineGrows ==
  ASSUME NEW T \in SUBSET Txs, IsFiniteSet(T), NEW n, NEW b \in Nat, InLine(T, n, b),
         NEW x \in Txs, x.sender = n, x.nonce = b + Cardinality(Of(T, n)),
         NEW U, Of(U, n) = Of(T, n) \cup {x}
  PROVE  InLine(U, n, b)
<1>1. PICK c \in Nat : c >= b /\ Line(T, n, b, c)
  BY DEF InLine
<1> DEFINE m == Cardinality(Of(T, n))
<1>2. m \in Nat /\ m >= c - b /\ (Full(T, n, b, c) <=> m = c - b)
  BY <1>1, LineCounted
<1>3. x.nonce = b + m
  OBVIOUS
<1> HIDE DEF m
<1> DEFINE P == Of(T, n)
           O == Of(U, n)
<1>4. O = P \cup {x} /\ (\A t \in P : t.nonce \in Nat) /\ x.nonce \in Nat
  BY DEF Of, Txs
<1>5. /\ \A t \in P : t.nonce >= b /\ t.nonce # c
      /\ \A t, u \in P : t.nonce = u.nonce /\ t.nonce < c => t = u
      /\ \A k \in b .. c - 1 : \E t \in P : t.nonce = k
  BY <1>1 DEF Line
<1>6. m = c - b => \A t \in P : t.nonce < c
  BY <1>2 DEF Full
<1> HIDE DEF P, O
<1>7. CASE m = c - b
  <2>1. x.nonce = c /\ \A t \in P : t.nonce < c
    BY <1>2, <1>3, <1>6, <1>7
  <2>2. /\ \A t \in O : t.nonce >= b /\ t.nonce # c + 1
        /\ \A t, u \in O : t.nonce = u.nonce /\ t.nonce < c + 1 => t = u
    BY <1>1, <1>4, <1>5, <2>1
  <2>3. \A k \in b .. c : \E t \in O : t.nonce = k
    <3>1. \A k \in b .. c : k \in b .. c - 1 \/ k = c
      OBVIOUS
    <3> QED
      BY <1>4, <1>5, <2>1, <3>1
  <2>4. c + 1 \in Nat /\ c + 1 >= b /\ b .. (c + 1) - 1 = b .. c
    BY <1>1
  <2> QED
    BY <2>2, <2>3, <2>4, InLineIf DEF O
<1>8. CASE m # c - b
  <2>1. x.nonce > c
    BY <1>1, <1>2, <1>3, <1>8
  <2>2. /\ \A t \in O : t.nonce >= b /\ t.nonce # c
        /\ \A t, u \in O : t.nonce = u.nonce /\ t.nonce < c => t = u
    BY <1>1, <1>4, <1>5, <2>1
  <2>3. \A k \in b .. c - 1 : \E t \in O : t.nonce = k
    BY <1>4, <1>5
  <2> QED
    BY <1>1, <2>2, <2>3, InLineIf DEF O
<1> QED
  BY <1>7, <1>8

LEMMA LineKept ==
  ASSUME NEW T, NEW U, NEW n, NEW b, InLine(T, n, b), Of(U, n) = Of(T, n)
  PROVE  InLine(U, n, b)
BY DEF InLine, Line

\* One line after another, with or without a gap between them.
LEMMA LinesJoin ==
  ASSUME NEW T \in SUBSET Txs, NEW U \in SUBSET Txs, NEW n,
         NEW b \in Nat, NEW c \in Nat, NEW d \in Nat, NEW e \in Nat,
         Full(T, n, b, c), Full(U, n, d, e), c <= d
  PROVE  InLine(T \cup U, n, b)
<1> DEFINE P == Of(T, n)
           Q == Of(U, n)
           O == Of(T \cup U, n)
<1>1. O = P \cup Q /\ \A t \in P \cup Q : t.nonce \in Nat
  BY DEF Of, Txs
<1>2. /\ c >= b /\ \A t \in P : t.nonce >= b /\ t.nonce < c
      /\ \A t, u \in P : t.nonce = u.nonce => t = u
      /\ \A k \in b .. c - 1 : \E t \in P : t.nonce = k
  BY DEF Full, Line
<1>3. /\ e >= d /\ \A t \in Q : t.nonce >= d /\ t.nonce < e
      /\ \A t, u \in Q : t.nonce = u.nonce => t = u
      /\ \A k \in d .. e - 1 : \E t \in Q : t.nonce = k
  BY DEF Full, Line
<1> HIDE DEF P, Q, O
<1>5. \A t \in P, u \in Q : t.nonce # u.nonce
  BY <1>1, <1>2, <1>3
<1>6. \A t, u \in O : t.nonce = u.nonce => t = u
  BY <1>1, <1>2, <1>3, <1>5
<1>7. CASE c = d
  <2>1. \A k \in b .. e - 1 : \E t \in O : t.nonce = k
    <3>1. \A k \in b .. e - 1 : k \in b .. c - 1 \/ k \in d .. e - 1
      BY <1>7
    <3> QED
      BY <1>1, <1>2, <1>3, <3>1
  <2>2. \A t \in O : t.nonce >= b /\ t.nonce # e
    BY <1>1, <1>2, <1>3, <1>7
  <2>3. e >= b
    BY <1>2, <1>3, <1>7
  <2> QED
    BY <1>6, <2>1, <2>2, <2>3, InLineIf DEF O
<1>8. CASE c < d
  <2>1. \A t \in O : t.nonce >= b /\ t.nonce # c
    BY <1>1, <1>2, <1>3, <1>8
  <2>2. \A k \in b .. c - 1 : \E t \in O : t.nonce = k
    BY <1>1, <1>2
  <2> QED
    BY <1>2, <1>6, <2>1, <2>2, InLineIf DEF O
<1> QED
  BY <1>7, <1>8

-----------------------------------------------------------------------------
(* What a block is made of, and what it does to the ledger.                 *)

AppliedBy(h, s, txs) ==
  /\ FoldLeft(Apply, s, txs) = h[1 .. Len(txs)] /\ h[{}] = s
  /\ \A I \in SUBSET (1 .. Len(txs)) : I # {} => h[I] = Apply(h[I \ {Max(I)}], txs[Max(I)])

LEMMA ApplyRuns ==
  ASSUME NEW s \in Ledgers, NEW txs \in Seq(Txs)
  PROVE  \E h : AppliedBy(h, s, txs)
<1> DEFINE n == Len(txs)
           G == Ledgers
           R(h) == h = [I \in SUBSET (1 .. n) |-> IF I = {} THEN s ELSE Apply(h[I \ {Max(I)}], txs[Max(I)])]
           F == [a \in G |-> [i \in 1 .. n |-> Apply(a, txs[i])]]
<1>1. n \in Nat /\ DOMAIN txs = 1 .. n /\ \A i \in 1 .. n : txs[i] \in Txs
  OBVIOUS
<1>2. FoldLeft(Apply, s, txs) = (CHOOSE h : R(h))[1 .. n]
  BY <1>1 DEF FoldLeft, MapThenFoldSet
<1> HIDE DEF n
<1>3. \A a \in G, i \in 1 .. n : Apply(a, txs[i]) \in G
  BY <1>1, ApplyTyped
<1>4. s \in G
  OBVIOUS
<1> HIDE DEF G
<1>5. F \in [G -> [1 .. n -> G]] /\ \A a \in G, i \in 1 .. n : F[a][i] = Apply(a, txs[i])
  BY <1>3
<1> HIDE DEF F
<1>6. PICK g : IsRun(g, G, s, F, n)
  BY <1>1, <1>4, <1>5, Runs
<1>7. \A I \in SUBSET (1 .. n) : g[I] = IF I = {} THEN s ELSE Apply(g[I \ {Max(I)}], txs[Max(I)])
  BY <1>1, <1>5, <1>6, LastOf DEF IsRun
<1>8. R(g)
  BY <1>6, <1>7 DEF IsRun
<1> DEFINE h == CHOOSE x : R(x)
<1>9. R(h)
  BY <1>8
<1> HIDE DEF h
<1>10. h[{}] = s /\ \A I \in SUBSET (1 .. n) : I # {} => h[I] = Apply(h[I \ {Max(I)}], txs[Max(I)])
  BY <1>9
<1> QED
  BY <1>2, <1>10 DEF h, n, AppliedBy

LEMMA ApplyNone ==
  ASSUME NEW s \in Ledgers
  PROVE  FoldLeft(Apply, s, <<>>) = s
<1>1. <<>> \in Seq(Txs) /\ Len(<<>>) = 0 /\ 1 .. 0 = {}
  OBVIOUS
<1>2. PICK h : AppliedBy(h, s, <<>>)
  BY <1>1, ApplyRuns
<1> QED
  BY <1>1, <1>2 DEF AppliedBy

LEMMA ApplyOneMore ==
  ASSUME NEW s \in Ledgers, NEW txs \in Seq(Txs), NEW t \in Txs
  PROVE  FoldLeft(Apply, s, Append(txs, t)) = Apply(FoldLeft(Apply, s, txs), t)
<1> DEFINE n == Len(txs)
           q == Append(txs, t)
<1>1. n \in Nat /\ q \in Seq(Txs) /\ Len(q) = n + 1 /\ q[n + 1] = t /\ \A i \in 1 .. n : q[i] = txs[i]
  OBVIOUS
<1> HIDE DEF q
<1>2. PICK h : AppliedBy(h, s, txs)
  BY ApplyRuns
<1>3. PICK g : AppliedBy(g, s, q)
  BY <1>1, ApplyRuns
<1> HIDE DEF n
<1>4. /\ FoldLeft(Apply, s, txs) = h[1 .. n] /\ h[{}] = s
      /\ \A I \in SUBSET (1 .. n) : I # {} => h[I] = Apply(h[I \ {Max(I)}], txs[Max(I)])
  BY <1>2 DEF AppliedBy, n
<1>5. /\ FoldLeft(Apply, s, q) = g[1 .. n + 1] /\ g[{}] = s
      /\ \A I \in SUBSET (1 .. n + 1) : I # {} => g[I] = Apply(g[I \ {Max(I)}], q[Max(I)])
  BY <1>1, <1>3 DEF AppliedBy
<1> DEFINE G == {I \in SUBSET (1 .. n) : g[I] = h[I]}
<1>6. {} \in G
  BY <1>4, <1>5
<1>7. \A I \in SUBSET (1 .. n) : I # {} /\ I \ {Max(I)} \in G => I \in G
  <2> SUFFICES ASSUME NEW I \in SUBSET (1 .. n), I # {}, I \ {Max(I)} \in G
               PROVE  g[I] = h[I]
    OBVIOUS
  <2>1. Max(I) \in 1 .. n
    BY <1>1, LastOf
  <2>2. I \in SUBSET (1 .. n + 1)
    BY <1>1
  <2> QED
    BY <1>1, <1>4, <1>5, <2>1, <2>2
<1> HIDE DEF G
<1>8. 1 .. n \in G
  BY <1>1, <1>6, <1>7, Preserved
<1>9. g[1 .. n] = h[1 .. n]
  BY <1>8 DEF G
<1> DEFINE A == 1 .. n + 1
<1>10. Max(A) = n + 1 /\ A \ {Max(A)} = 1 .. n /\ A # {}
  <2>1. n + 1 \in Nat /\ A \in SUBSET (1 .. n + 1) /\ n + 1 \in A
    BY <1>1
  <2>2. Max(A) \in A /\ \A j \in A : Max(A) >= j
    BY <2>1, LastIndex
  <2> DEFINE x == Max(A)
  <2>3. x \in 1 .. n + 1 /\ x >= n + 1
    BY <2>1, <2>2
  <2> HIDE DEF x
  <2>4. x = n + 1
    BY <1>1, <2>3
  <2>5. A \ {n + 1} = 1 .. n
    BY <1>1
  <2> QED
    BY <2>1, <2>4, <2>5 DEF x
<1>11. g[A] = Apply(g[A \ {Max(A)}], q[Max(A)])
  BY <1>5, <1>10
<1> QED
  BY <1>1, <1>4, <1>5, <1>9, <1>10, <1>11 DEF q

\* Transactions that led from one ledger to another, each valid when its turn came: those
\* of one sender in the order of their nonces, and none about somebody removed before.
Blamed(T) == {t.about : t \in {x \in T : x.kind = "evidence"}}
Voting(T) == {t.sender : t \in {x \in T : x.kind = "vote"}}
Follows(s, r, T) ==
  /\ \A n \in Nodes : Full(T, n, s.nonce[n], r.nonce[n])
  /\ ToSet(r.validators) = ToSet(s.validators) \ Blamed(T)
  /\ s.issuer => r.issuer
  /\ r.voters \subseteq s.voters \cup Voting(T)
  /\ \A t \in T : IF t.kind = "vote" THEN t.sender \in ToSet(s.validators) /\ ~ s.issuer
                  ELSE t.about \in ToSet(s.validators)

LEMMA NothingFollows ==
  ASSUME NEW s \in Ledgers
  PROVE  Follows(s, s, {})
<1>1. \A n \in Nodes : s.nonce[n] \in Nat
  BY DEF Ledgers
<1> QED
  BY <1>1 DEF Follows, Full, Line, Of, Blamed, Voting

LEMMA OneFollows ==
  ASSUME NEW s \in Ledgers, NEW r \in Ledgers, NEW T \in SUBSET Txs, Follows(s, r, T), NEW t \in Txs, Valid(r, t)
  PROVE  Follows(s, Apply(r, t), T \cup {t})
<1> DEFINE a == Apply(r, t)
           U == T \cup {t}
<1>1. /\ a \in Ledgers /\ a.nonce = [r.nonce EXCEPT ![t.sender] = @ + 1] /\ (r.issuer => a.issuer)
      /\ a.voters \subseteq r.voters \cup (IF t.kind = "vote" THEN {t.sender} ELSE {})
      /\ t.kind = "evidence" => ToSet(a.validators) = ToSet(r.validators) \ {t.about}
      /\ t.kind = "vote" => a.validators = r.validators
  BY ApplyTyped
<1> HIDE DEF a
<1>2. t.sender \in Nodes /\ t.nonce \in Nat /\ t.kind \in {"vote", "evidence"} /\ t.nonce = r.nonce[t.sender]
  BY DEF Txs, Valid
<1>3. /\ \A n \in Nodes : Full(T, n, s.nonce[n], r.nonce[n])
      /\ ToSet(r.validators) = ToSet(s.validators) \ Blamed(T)
      /\ s.issuer => r.issuer
      /\ r.voters \subseteq s.voters \cup Voting(T)
      /\ \A x \in T : IF x.kind = "vote" THEN x.sender \in ToSet(s.validators) /\ ~ s.issuer
                      ELSE x.about \in ToSet(s.validators)
  BY DEF Follows
<1>4. ASSUME NEW n \in Nodes
      PROVE  Full(U, n, s.nonce[n], a.nonce[n])
  <2> DEFINE b == s.nonce[n]
             c == r.nonce[n]
             P == Of(T, n)
             O == Of(U, n)
  <2>1. b \in Nat /\ c \in Nat /\ \A x \in P : x.nonce \in Nat
    BY DEF Ledgers, Of, Txs
  <2>2. /\ c >= b /\ \A x \in P : x.nonce >= b /\ x.nonce < c
        /\ \A x, y \in P : x.nonce = y.nonce => x = y
        /\ \A k \in b .. c - 1 : \E x \in P : x.nonce = k
    <3>1. Full(T, n, b, c)
      BY <1>3
    <3> QED
      BY <3>1 DEF Full, Line
  <2>3. CASE t.sender = n
    <3>1. a.nonce[n] = c + 1 /\ t.nonce = c
      <4>1. r.nonce \in [Nodes -> Nat]
        BY DEF Ledgers
      <4> QED
        BY <1>1, <1>2, <2>3, <4>1
    <3>2. O = P \cup {t}
      BY <2>3 DEF Of
    <3> HIDE DEF b, c, P, O
    <3>3. /\ c + 1 >= b /\ \A x \in O : x.nonce >= b /\ x.nonce # c + 1 /\ x.nonce < c + 1
          /\ \A x, y \in O : x.nonce = y.nonce => x = y
      BY <2>1, <2>2, <3>1, <3>2
    <3>4. \A k \in b .. (c + 1) - 1 : \E x \in O : x.nonce = k
      <4>1. \A k \in b .. (c + 1) - 1 : k \in b .. c - 1 \/ k = c
        BY <2>1
      <4> QED
        BY <2>2, <3>1, <3>2, <4>1
    <3>5. Line(U, n, b, c + 1)
      BY <3>3, <3>4, Zenon DEF Line, O
    <3>6. Full(U, n, b, c + 1)
      BY <3>3, <3>5, Zenon DEF Full, O
    <3> QED
      BY <3>1, <3>6 DEF b
  <2>4. CASE t.sender # n
    <3>1. a.nonce[n] = c
      <4>1. r.nonce \in [Nodes -> Nat]
        BY DEF Ledgers
      <4> QED
        BY <1>1, <1>2, <2>4, <4>1
    <3>2. O = P
      BY <2>4 DEF Of
    <3>3. Full(T, n, b, c)
      BY <1>3
    <3> QED
      BY <3>1, <3>2, <3>3 DEF Full, Line
  <2> QED
    BY <2>3, <2>4
<1>5. ToSet(a.validators) = ToSet(s.validators) \ Blamed(U)
  <2>1. CASE t.kind = "evidence"
    <3>1. Blamed(U) = Blamed(T) \cup {t.about}
      BY <2>1 DEF Blamed
    <3> QED
      BY <1>1, <1>3, <2>1, <3>1
  <2>2. CASE t.kind = "vote"
    <3>1. Blamed(U) = Blamed(T)
      BY <2>2 DEF Blamed
    <3> QED
      BY <1>1, <1>3, <2>2, <3>1
  <2> QED
    BY <1>2, <2>1, <2>2
<1>6. a.voters \subseteq s.voters \cup Voting(U)
  <2>1. Voting(T) \subseteq Voting(U) /\ (t.kind = "vote" => t.sender \in Voting(U))
    BY DEF Voting
  <2> QED
    BY <1>1, <1>3, <2>1
<1>7. IF t.kind = "vote" THEN t.sender \in ToSet(s.validators) /\ ~ s.issuer ELSE t.about \in ToSet(s.validators)
  BY <1>1, <1>3 DEF Valid
<1>8. Follows(s, a, U)
  <2>1. \A x \in U : IF x.kind = "vote" THEN x.sender \in ToSet(s.validators) /\ ~ s.issuer
                     ELSE x.about \in ToSet(s.validators)
    BY <1>3, <1>7
  <2>2. s.issuer => a.issuer
    BY <1>1, <1>3
  <2> HIDE DEF U
  <2> QED
    BY <1>4, <1>5, <1>6, <2>1, <2>2 DEF Follows
<1> QED
  BY <1>8 DEF a

\* What build_block has made of a pool so far, and what it could go on with.
Made(s, pool, acc) ==
  /\ acc \in Drafts(pool) /\ IsInjective(acc.txs)
  /\ acc.s = FoldLeft(Apply, s, acc.txs) /\ Follows(s, acc.s, ToSet(acc.txs))
Takeable(acc, t, skip) == t \notin ToSet(acc.txs) /\ t.sender \notin skip /\ Valid(acc.s, t)

LEMMA MadeOf ==
  ASSUME NEW s, NEW pool \in Seq(Txs), NEW acc, Made(s, pool, acc)
  PROVE  /\ acc.s \in Ledgers /\ acc.txs \in Seq(Txs) /\ ToSet(acc.txs) \subseteq ToSet(pool)
         /\ \A t \in ToSet(acc.txs) : t.kind = "evidence" => Proves(t.proof, t.about)
         /\ Len(acc.txs) \in Nat
<1>1. acc.s \in Ledgers /\ acc.txs \in Seq(Founded(pool))
  BY DEF Made, Drafts
<1>2. Founded(pool) \subseteq ToSet(pool) /\ ToSet(pool) \subseteq Txs
  BY DEF Founded, ToSet
<1>3. acc.txs \in Seq(Txs)
  BY <1>1, <1>2
<1>4. ToSet(acc.txs) \subseteq Founded(pool)
  BY <1>1 DEF ToSet
<1> QED
  BY <1>1, <1>2, <1>3, <1>4 DEF Founded

LEMMA TakeMakes ==
  ASSUME NEW s \in Ledgers, NEW pool \in Seq(Txs), NEW acc, Made(s, pool, acc), NEW t \in ToSet(pool), NEW skip
  PROVE  LET r == Take(acc, t, skip) IN
         /\ Made(s, pool, r)
         /\ IF Takeable(acc, t, skip) THEN Len(r.txs) = Len(acc.txs) + 1 ELSE r = acc
<1>1. t \in Txs
  BY DEF ToSet
<1>2. acc.s \in Ledgers /\ acc.txs \in Seq(Txs) /\ acc \in Drafts(pool)
  BY MadeOf DEF Made
<1>3. CASE ~ Takeable(acc, t, skip)
  BY <1>3 DEF Take, Takeable
<1>4. CASE Takeable(acc, t, skip)
  <2> DEFINE r == Take(acc, t, skip)
  <2>1. r = [s |-> Apply(acc.s, t), txs |-> Append(acc.txs, t)]
    BY <1>4 DEF Take, Takeable
  <2>2. r \in Drafts(pool)
    BY <1>2, TakeTyped
  <2> HIDE DEF r
  <2>3. r.s = Apply(acc.s, t) /\ r.txs = Append(acc.txs, t)
    BY <2>1
  <2>4. IsInjective(r.txs) /\ ToSet(r.txs) = ToSet(acc.txs) \cup {t} /\ Len(r.txs) = Len(acc.txs) + 1
    <3>1. IsInjective(acc.txs) /\ t \notin ToSet(acc.txs)
      BY <1>4 DEF Made, Takeable
    <3>2. Len(Append(acc.txs, t)) = Len(acc.txs) + 1
      BY <1>2
    <3> QED
      BY <1>1, <1>2, <2>3, <3>1, <3>2, Appended
  <2>5. r.s = FoldLeft(Apply, s, r.txs)
    BY <1>1, <1>2, <2>3, ApplyOneMore DEF Made
  <2>6. Follows(s, r.s, ToSet(r.txs))
    <3>1. Follows(s, acc.s, ToSet(acc.txs)) /\ Valid(acc.s, t)
      BY <1>4 DEF Made, Takeable
    <3>2. ToSet(acc.txs) \in SUBSET Txs
      BY <1>2 DEF ToSet
    <3> QED
      BY <1>1, <1>2, <2>3, <2>4, <3>1, <3>2, OneFollows
  <2>7. Made(s, pool, r)
    BY <2>2, <2>4, <2>5, <2>6 DEF Made
  <2> QED
    BY <1>4, <2>4, <2>7 DEF r
<1> QED
  BY <1>3, <1>4

\* A pass takes something, or could take nothing.
Went(s, pool, acc, next, I, skip) ==
  /\ Made(s, pool, next)
  /\ \/ Len(next.txs) > Len(acc.txs)
     \/ next = acc /\ \A i \in I : ~ Takeable(acc, pool[i], skip)

LEMMA TakeGoes ==
  ASSUME NEW s \in Ledgers, NEW pool \in Seq(Txs), NEW acc, Made(s, pool, acc), NEW skip,
         NEW J, NEW m \in 1 .. Len(pool), NEW a, Went(s, pool, acc, a, J, skip)
  PROVE  Went(s, pool, acc, Take(a, pool[m], skip), J \cup {m}, skip)
<1> DEFINE t == pool[m]
           r == Take(a, t, skip)
<1>1. t \in ToSet(pool) /\ Made(s, pool, a)
  BY DEF ToSet, Went
<1>2. \A i \in J \cup {m} : i \in J \/ pool[i] = t
  OBVIOUS
<1> HIDE DEF t
<1>3. Made(s, pool, r) /\ IF Takeable(a, t, skip) THEN Len(r.txs) = Len(a.txs) + 1 ELSE r = a
  BY <1>1, TakeMakes
<1> HIDE DEF r
<1>4. Len(acc.txs) \in Nat /\ Len(a.txs) \in Nat
  BY <1>1, MadeOf
<1>5. CASE Takeable(a, t, skip)
  <2>1. Len(a.txs) >= Len(acc.txs)
    BY <1>4 DEF Went
  <2>2. Len(r.txs) > Len(acc.txs)
    BY <1>3, <1>4, <1>5, <2>1
  <2> QED
    BY <1>3, <2>2 DEF Went, r, t
<1>6. CASE ~ Takeable(a, t, skip)
  <2>1. r = a
    BY <1>3, <1>6
  <2>2. CASE Len(a.txs) > Len(acc.txs)
    BY <1>3, <2>1, <2>2 DEF Went, r, t
  <2>3. CASE a = acc /\ \A i \in J : ~ Takeable(acc, pool[i], skip)
    <3>1. \A i \in J \cup {m} : ~ Takeable(acc, pool[i], skip)
      BY <1>2, <1>6, <2>3
    <3> QED
      BY <1>3, <2>1, <2>3, <3>1 DEF Went, r, t
  <2> QED
    BY <2>2, <2>3 DEF Went
<1> QED
  BY <1>5, <1>6

LEMMA PassGoes ==
  ASSUME NEW s \in Ledgers, NEW pool \in Seq(Txs), NEW acc, Made(s, pool, acc), NEW skip
  PROVE  Went(s, pool, acc, Pass(acc, pool, skip), 1 .. Len(pool), skip)
<1>0. PICK h : PassedBy(h, acc, pool, skip)
  BY PassRuns DEF Made
<1> DEFINE n == Len(pool)
<1>1. n \in Nat
  OBVIOUS
<1>2. /\ Pass(acc, pool, skip) = h[1 .. n] /\ h[{}] = acc
      /\ \A I \in SUBSET (1 .. n) : I # {} => h[I] = Take(h[I \ {Max(I)}], pool[Max(I)], skip)
  BY <1>0 DEF PassedBy
<1> HIDE DEF n
<1> DEFINE G == {I \in SUBSET (1 .. n) : Went(s, pool, acc, h[I], I, skip)}
<1>3. {} \in G
  BY <1>2 DEF Went
<1>4. \A I \in SUBSET (1 .. n) : I # {} /\ I \ {Max(I)} \in G => I \in G
  <2> SUFFICES ASSUME NEW I \in SUBSET (1 .. n), I # {}, I \ {Max(I)} \in G
               PROVE  Went(s, pool, acc, h[I], I, skip)
    OBVIOUS
  <2> DEFINE m == Max(I)
             J == I \ {m}
  <2>1. m \in I /\ m \in 1 .. Len(pool) /\ I = J \cup {m}
    BY <1>1, LastOf DEF n
  <2>2. Went(s, pool, acc, h[J], J, skip) /\ h[I] = Take(h[J], pool[m], skip)
    BY <1>2
  <2> HIDE DEF m, J
  <2>3. Went(s, pool, acc, Take(h[J], pool[m], skip), J \cup {m}, skip)
    BY <2>1, <2>2, TakeGoes
  <2> QED
    BY <2>1, <2>2, <2>3
<1> HIDE DEF G
<1>5. 1 .. n \in G
  BY <1>1, <1>3, <1>4, Preserved
<1> QED
  BY <1>2, <1>5 DEF G, n

LEMMA PassStops ==
  ASSUME NEW s \in Ledgers, NEW pool \in Seq(Txs), NEW acc, Made(s, pool, acc), NEW skip,
         \A t \in ToSet(pool) : ~ Takeable(acc, t, skip)
  PROVE  Pass(acc, pool, skip) = acc
<1>0. PICK h : PassedBy(h, acc, pool, skip)
  BY PassRuns DEF Made
<1> DEFINE n == Len(pool)
<1>1. n \in Nat /\ \A i \in 1 .. n : pool[i] \in ToSet(pool)
  BY DEF ToSet
<1>2. /\ Pass(acc, pool, skip) = h[1 .. n] /\ h[{}] = acc
      /\ \A I \in SUBSET (1 .. n) : I # {} => h[I] = Take(h[I \ {Max(I)}], pool[Max(I)], skip)
  BY <1>0 DEF PassedBy
<1> HIDE DEF n
<1>3. \A t \in ToSet(pool) : Take(acc, t, skip) = acc
  BY TakeMakes
<1> DEFINE G == {acc}
<1>4. \A I \in SUBSET (1 .. n) : I # {} /\ h[I \ {Max(I)}] \in G => h[I] \in G
  <2> SUFFICES ASSUME NEW I \in SUBSET (1 .. n), I # {}, h[I \ {Max(I)}] = acc
               PROVE  h[I] = acc
    OBVIOUS
  <2>1. Max(I) \in 1 .. n
    BY <1>1, LastOf
  <2> QED
    BY <1>1, <1>2, <1>3, <2>1
<1>5. h[{}] \in G
  BY <1>2
<1> HIDE DEF G
<1>6. h[1 .. n] \in G
  BY <1>1, <1>4, <1>5, RunStays
<1> QED
  BY <1>2, <1>6 DEF G

\* After k passes either k have been taken, or nothing is left to take.
Came(s, pool, acc, k, skip) ==
  /\ Made(s, pool, acc)
  /\ Len(acc.txs) >= k \/ \A t \in ToSet(pool) : ~ Takeable(acc, t, skip)

LEMMA PassComes ==
  ASSUME NEW s \in Ledgers, NEW pool \in Seq(Txs), NEW acc, NEW k \in Nat, NEW skip, Came(s, pool, acc, k, skip)
  PROVE  Came(s, pool, Pass(acc, pool, skip), k + 1, skip)
<1> DEFINE r == Pass(acc, pool, skip)
<1>1. Made(s, pool, acc)
  BY DEF Came
<1>2. Went(s, pool, acc, r, 1 .. Len(pool), skip)
  BY <1>1, PassGoes
<1> HIDE DEF r
<1>3. Made(s, pool, r) /\ Len(acc.txs) \in Nat /\ Len(r.txs) \in Nat
  BY <1>1, <1>2, MadeOf DEF Went
<1>4. CASE r = acc /\ \A i \in 1 .. Len(pool) : ~ Takeable(acc, pool[i], skip)
  <2>1. \A t \in ToSet(pool) : ~ Takeable(r, t, skip)
    BY <1>4 DEF ToSet
  <2> QED
    BY <1>3, <2>1 DEF Came, r
<1>5. CASE Len(r.txs) > Len(acc.txs) /\ Len(acc.txs) >= k
  <2>1. Len(r.txs) >= k + 1
    BY <1>3, <1>5
  <2> QED
    BY <1>3, <2>1 DEF Came, r
<1>6. CASE \A t \in ToSet(pool) : ~ Takeable(acc, t, skip)
  <2>1. r = acc
    <3>1. ASSUME Len(r.txs) > Len(acc.txs)
          PROVE  FALSE
      BY <1>1, <1>6, <3>1, PassStops DEF r
    <3> QED
      BY <1>2, <3>1 DEF Went
  <2> QED
    BY <1>3, <1>6, <2>1 DEF Came, r
<1> QED
  BY <1>2, <1>4, <1>5, <1>6 DEF Went, Came

\* As many passes as the pool is long take all that can be taken.
LEMMA BuiltAll ==
  ASSUME NEW s \in Ledgers, NEW pool \in Seq(Txs), NEW skip
  PROVE  /\ Made(s, pool, Built(s, pool, skip))
         /\ \A t \in ToSet(pool) : ~ Takeable(Built(s, pool, skip), t, skip)
<1> DEFINE n == Len(pool)
           start == [s |-> s, txs |-> <<>>]
           r == Built(s, pool, skip)
<1>1. n \in Nat
  OBVIOUS
<1>2. PICK h : BuiltBy(h, s, pool, skip)
  BY BuiltRuns
<1>3. /\ r = h[1 .. n] /\ h[{}] = start
      /\ \A I \in SUBSET (1 .. n) : I # {} => h[I] = Pass(h[I \ {Max(I)}], pool, skip)
  BY <1>2 DEF BuiltBy
<1>4. Came(s, pool, start, 0, skip)
  <2>1. start.s = s /\ start.txs = <<>> /\ ToSet(<<>>) = {} /\ Len(<<>>) = 0 /\ IsInjective(<<>>)
    BY DEF ToSet, IsInjective
  <2>2. start \in Drafts(pool)
    <3>1. <<>> \in Seq(Founded(pool))
      OBVIOUS
    <3> QED
      BY <3>1 DEF Drafts
  <2> HIDE DEF start
  <2>3. Made(s, pool, start)
    BY <2>1, <2>2, ApplyNone, NothingFollows DEF Made
  <2> QED
    BY <2>1, <2>3 DEF Came
<1> HIDE DEF n, start, r
<1> DEFINE G == {I \in SUBSET (1 .. n) : Came(s, pool, h[I], Cardinality(I), skip)}
<1>5. {} \in G
  BY <1>3, <1>4, FS_EmptySet
<1>6. \A I \in SUBSET (1 .. n) : I # {} /\ I \ {Max(I)} \in G => I \in G
  <2> SUFFICES ASSUME NEW I \in SUBSET (1 .. n), I # {}, I \ {Max(I)} \in G
               PROVE  Came(s, pool, h[I], Cardinality(I), skip)
    OBVIOUS
  <2> DEFINE J == I \ {Max(I)}
             k == Cardinality(J)
  <2>1. k \in Nat /\ Cardinality(I) = k + 1
    <3>1. Max(I) \in I
      BY <1>1, LastOf
    <3>2. IsFiniteSet(I)
      <4>1. IsFiniteSet(1 .. n)
        BY <1>1, FS_Interval
      <4> QED
        BY <4>1, FS_Subset
    <3>3. Cardinality(J) = Cardinality(I) - 1 /\ Cardinality(I) \in Nat /\ IsFiniteSet(J)
      BY <3>1, <3>2, FS_RemoveElement, FS_CardinalityType
    <3>4. Cardinality(J) \in Nat
      BY <3>3, FS_CardinalityType
    <3> HIDE DEF J
    <3> QED
      BY <3>3, <3>4
  <2>2. Came(s, pool, h[J], k, skip) /\ h[I] = Pass(h[J], pool, skip)
    BY <1>3
  <2> HIDE DEF J, k
  <2> QED
    BY <2>1, <2>2, PassComes
<1> HIDE DEF G
<1>7. 1 .. n \in G
  BY <1>1, <1>5, <1>6, Preserved
<1>8. Came(s, pool, r, n, skip)
  <2>1. Cardinality(1 .. n) = n
    <3>1. Cardinality(1 .. n) = IF 1 > n THEN 0 ELSE n - 1 + 1
      BY <1>1, FS_Interval
    <3>2. (IF 1 > n THEN 0 ELSE n - 1 + 1) = n
      BY <1>1
    <3> QED
      BY <3>1, <3>2
  <2> QED
    BY <1>3, <1>7, <2>1 DEF G
<1>9. Made(s, pool, r)
  BY <1>8 DEF Came
<1>10. CASE Len(r.txs) >= n
  <2>1. r.txs \in Seq(Txs) /\ ToSet(r.txs) \subseteq ToSet(pool) /\ IsInjective(r.txs)
    BY <1>9, MadeOf DEF Made
  <2>2. IsFiniteSet(ToSet(pool)) /\ Cardinality(ToSet(pool)) <= n
    <3>1. n \in Nat /\ pool \in Surjection(1 .. n, ToSet(pool))
      BY <1>1 DEF Surjection, ToSet, n
    <3>2. IsFiniteSet(1 .. n) /\ Cardinality(1 .. n) = IF 1 > n THEN 0 ELSE n - 1 + 1
      BY <1>1, FS_Interval
    <3>3. Cardinality(1 .. n) = n
      BY <1>1, <3>2
    <3> QED
      BY <3>1, <3>2, <3>3, FS_Surjection
  <2>3. Cardinality(ToSet(r.txs)) = Len(r.txs) /\ Len(r.txs) \in Nat
    BY <2>1, ListCounted
  <2>4. Cardinality(ToSet(r.txs)) <= Cardinality(ToSet(pool)) /\ Cardinality(ToSet(pool)) \in Nat
    BY <2>1, <2>2, FS_Subset, FS_CardinalityType
  <2>5. Cardinality(ToSet(r.txs)) = Cardinality(ToSet(pool))
    BY <1>1, <1>10, <2>2, <2>3, <2>4
  <2>6. ToSet(r.txs) = ToSet(pool)
    BY <2>1, <2>2, <2>5, FS_Subset
  <2>7. \A t \in ToSet(pool) : ~ Takeable(r, t, skip)
    BY <2>6 DEF Takeable
  <2> QED
    BY <1>9, <2>7 DEF r
<1>11. CASE \A t \in ToSet(pool) : ~ Takeable(r, t, skip)
  BY <1>9, <1>11 DEF r
<1> QED
  BY <1>8, <1>10, <1>11 DEF Came

-----------------------------------------------------------------------------
(* What a commit leaves in the mempool.                                     *)

Trial(next, pool, txs) == Built(next, Only(pool, ToSet(pool) \ ToSet(txs)), {})

LEMMA RemainingIs ==
  ASSUME NEW next \in Ledgers, NEW pool \in Seq(Txs), NEW txs
  PROVE  LET r == Trial(next, pool, txs)
             L == ToSet(Remaining(next, pool, txs)) IN
         /\ Remaining(next, pool, txs) \in Seq(Txs) /\ r.s \in Ledgers
         /\ L \subseteq ToSet(pool) \ ToSet(txs) /\ L \subseteq Txs /\ Follows(next, r.s, L)
         /\ \A t \in L : t.kind = "evidence" => Proves(t.proof, t.about)
         /\ \A t \in ToSet(pool) \ ToSet(txs) : t \in L \/ ~ Valid(r.s, t)
<1> DEFINE left == Only(pool, ToSet(pool) \ ToSet(txs))
           r == Built(next, left, {})
           L == ToSet(Only(left, ToSet(r.txs)))
<1>1. left \in Seq(Txs) /\ ToSet(left) = ToSet(pool) \ ToSet(txs)
  <2>1. Only(pool, ToSet(pool) \ ToSet(txs)) \in Seq(Txs)
        /\ ToSet(Only(pool, ToSet(pool) \ ToSet(txs))) = ToSet(pool) \cap (ToSet(pool) \ ToSet(txs))
    BY OnlyKeeps
  <2> QED
    BY <2>1
<1>2. Remaining(next, pool, txs) = Only(left, ToSet(r.txs)) /\ Trial(next, pool, txs) = r
  BY DEF Remaining, Trial
<1> HIDE DEF left
<1>3. Made(next, left, r) /\ \A t \in ToSet(left) : ~ Takeable(r, t, {})
  BY <1>1, BuiltAll
<1> HIDE DEF r
<1>4. /\ r.s \in Ledgers /\ r.txs \in Seq(Txs) /\ ToSet(r.txs) \subseteq ToSet(left)
      /\ \A t \in ToSet(r.txs) : t.kind = "evidence" => Proves(t.proof, t.about)
  BY <1>1, <1>3, MadeOf
<1>5. Only(left, ToSet(r.txs)) \in Seq(Txs) /\ L = ToSet(left) \cap ToSet(r.txs)
  BY <1>1, OnlyKeeps
<1>6. L = ToSet(r.txs) /\ L \subseteq Txs
  <2>1. ToSet(r.txs) \subseteq Txs
    BY <1>4 DEF ToSet
  <2> HIDE DEF L
  <2> QED
    BY <1>4, <1>5, <2>1
<1>7. Follows(next, r.s, L)
  BY <1>3, <1>6 DEF Made
<1>8. \A t \in ToSet(left) : t \in L \/ ~ Valid(r.s, t)
  BY <1>3, <1>6 DEF Takeable
<1> HIDE DEF L
<1> QED
  BY <1>1, <1>2, <1>4, <1>5, <1>6, <1>7, <1>8 DEF L

LEMMA BlockIs ==
  ASSUME NEW s \in Ledgers, NEW q \in Seq(Txs), NEW skip, NEW p \in Nodes, NEW txs, txs = Built(s, q, skip).txs
  PROVE  LET next == [FoldLeft(Apply, s, txs) EXCEPT !.by = p] IN
         /\ next \in Ledgers /\ next.by = p
         /\ ToSet(txs) \subseteq ToSet(q) /\ Follows(s, next, ToSet(txs))
         /\ \A t \in ToSet(q) \ ToSet(txs) : t.sender \notin skip => ~ Valid(next, t)
<1> DEFINE acc == Built(s, q, skip)
           r == acc.s
           next == [r EXCEPT !.by = p]
<1>1. Made(s, q, acc) /\ \A t \in ToSet(q) : ~ Takeable(acc, t, skip)
  BY BuiltAll
<1> HIDE DEF acc
<1>2. /\ r \in Ledgers /\ ToSet(txs) \subseteq ToSet(q) /\ r = FoldLeft(Apply, s, txs) /\ Follows(s, r, ToSet(txs))
      /\ acc.txs = txs
  BY <1>1, MadeOf DEF Made, acc
<1>3. /\ next \in Ledgers /\ next.by = p /\ next.nonce = r.nonce /\ next.validators = r.validators
      /\ next.voters = r.voters /\ next.issuer = r.issuer
  BY <1>2 DEF Ledgers
<1>4. Follows(s, next, ToSet(txs))
  BY <1>2, <1>3 DEF Follows
<1>5. \A t \in ToSet(q) \ ToSet(txs) : t.sender \notin skip => ~ Valid(next, t)
  BY <1>1, <1>2, <1>3 DEF Takeable, Valid
<1> HIDE DEF r, next
<1>6. next = [FoldLeft(Apply, s, txs) EXCEPT !.by = p]
  BY <1>2 DEF next
<1> QED
  BY <1>2, <1>3, <1>4, <1>5, <1>6

OneVote(T, voters) ==
  \A t \in T : t.kind = "vote" =>
    t.sender \notin voters /\ \A u \in T : u.kind = "vote" /\ u.sender = t.sender => u = t

\* Who voted in the block has no other vote in the mempool.
LEMMA OneVoteLeft ==
  ASSUME NEW P, OneVote(P, ledger.voters), NEW T \in SUBSET P, NEW next, Follows(ledger, next, T),
         NEW L \in SUBSET (P \ T)
  PROVE  OneVote(L, next.voters)
<1>1. next.voters \subseteq ledger.voters \cup Voting(T)
  BY DEF Follows
<1>2. ASSUME NEW t \in L, t.kind = "vote", t.sender \in Voting(T)
      PROVE  FALSE
  <2>1. PICK u \in T : u.kind = "vote" /\ u.sender = t.sender
    BY <1>2 DEF Voting
  <2>2. u = t
    BY <1>2, <2>1 DEF OneVote
  <2> QED
    BY <2>1, <2>2
<1> QED
  BY <1>1, <1>2 DEF OneVote

\* T: a block of some of P; L: what is left of P, executed on trial up to the ledger r.
Parted(s, next, r, P, T, L) ==
  /\ s \in Ledgers /\ next \in Ledgers /\ r \in Ledgers
  /\ P \subseteq Txs /\ T \subseteq P /\ L \subseteq P \ T /\ Follows(s, next, T) /\ Follows(next, r, L)
  /\ \A t \in L : t.kind = "evidence" => Proves(t.proof, t.about)
  /\ \A t \in P \ T : t \in L \/ ~ Valid(r, t)
\* e: an accusation in P whose subject survives the block, and nothing before e was lost.
Pending(s, next, P, L, e) ==
  /\ e \in P /\ e.kind = "evidence" /\ Proves(e.proof, e.about) /\ e.about \in ToSet(next.validators)
  /\ InLine(P, e.sender, s.nonce[e.sender])
  /\ \A k \in s.nonce[e.sender] .. e.nonce - 1 : \E t \in Of(P, e.sender) : t.nonce = k
  /\ \A t \in Of(P, e.sender) : t.nonce < e.nonce /\ next.nonce[e.sender] <= t.nonce => t \in L

LEMMA AccusationLeft ==
  ASSUME NEW s, NEW next, NEW r, NEW P, NEW T, NEW L, NEW e, Parted(s, next, r, P, T, L), Pending(s, next, P, L, e)
  PROVE  /\ \E x \in L : x.kind = "evidence" /\ Proves(x.proof, x.about) /\ x.about = e.about
         /\ e \notin T /\ next.nonce[e.sender] <= e.nonce /\ next.nonce[e.sender] \in Nat
         /\ next.nonce[e.sender] >= s.nonce[e.sender]
<1> USE DEF Parted, Pending
<1> DEFINE n == e.sender
           b == s.nonce[n]
           d == next.nonce[n]
           g == r.nonce[n]
           O == Of(P, n)
<1>1. n \in Nodes /\ e.nonce \in Nat /\ \A t \in O : t \in P /\ t.nonce \in Nat
  BY DEF Txs, Of
<1>2. b \in Nat /\ d \in Nat /\ g \in Nat
  BY <1>1 DEF Ledgers
<1>3. /\ d >= b /\ \A t \in Of(T, n) : t.nonce < d
      /\ \A k \in b .. d - 1 : \E t \in Of(T, n) : t.nonce = k
  <2>1. Full(T, n, b, d)
    BY <1>1 DEF Follows
  <2> QED
    BY <2>1 DEF Full, Line
<1>4. /\ g >= d /\ \A t \in Of(L, n) : t.nonce < g /\ t.nonce >= d
      /\ \A k \in d .. g - 1 : \E t \in Of(L, n) : t.nonce = k
  <2>1. Full(L, n, d, g)
    BY <1>1 DEF Follows
  <2> QED
    BY <2>1 DEF Full, Line
<1>5. PICK c \in Nat : c >= b /\ Line(P, n, b, c)
  BY DEF InLine
<1>6. /\ \A t \in O : t.nonce >= b /\ t.nonce # c
      /\ \A t, u \in O : t.nonce = u.nonce /\ t.nonce < c => t = u
  BY <1>5 DEF Line
<1>7. /\ e \in O /\ Of(T, n) \subseteq O /\ Of(L, n) \subseteq O
      /\ \A t \in O : (t \in T => t \in Of(T, n)) /\ (t \in L => t \in Of(L, n))
  BY DEF Of
<1>8. /\ \A k \in b .. e.nonce - 1 : \E t \in O : t.nonce = k
      /\ \A t \in O : t.nonce < e.nonce /\ d <= t.nonce => t \in L
  OBVIOUS
<1>9. e \notin T /\ ToSet(r.validators) = ToSet(next.validators) \ Blamed(L)
  BY DEF Follows, Blamed
<1> HIDE DEF n, b, d, g, O
<1>10. e.nonce >= b /\ e.nonce < c
  <2>1. e.nonce >= b /\ e.nonce # c
    BY <1>6, <1>7
  <2>2. ASSUME e.nonce > c
        PROVE  FALSE
    <3>1. c \in b .. e.nonce - 1
      BY <1>1, <1>2, <1>5, <2>2
    <3> QED
      BY <1>6, <1>8, <3>1
  <2> QED
    BY <1>1, <2>1, <2>2
<1>11. \A t \in O : t.nonce = e.nonce => t = e
  BY <1>6, <1>7, <1>10
<1>12. d <= e.nonce
  <2> SUFFICES ASSUME e.nonce < d
               PROVE  FALSE
    BY <1>1, <1>2
  <2>1. PICK t \in Of(T, n) : t.nonce = e.nonce
    BY <1>1, <1>2, <1>3, <1>10
  <2> QED
    BY <1>7, <1>9, <1>11, <2>1 DEF Of
<1>13. e.nonce <= g
  <2> SUFFICES ASSUME g < e.nonce
               PROVE  FALSE
    BY <1>1, <1>2
  <2>1. PICK t \in O : t.nonce = g
    BY <1>1, <1>2, <1>3, <1>4, <1>8
  <2>2. t \in Of(L, n)
    BY <1>4, <1>7, <1>8, <2>1
  <2> QED
    BY <1>1, <1>2, <1>4, <2>1, <2>2
<1>14. \E x \in L : x.kind = "evidence" /\ Proves(x.proof, x.about) /\ x.about = e.about
  <2>1. CASE e \in L
    BY <2>1
  <2>2. CASE e \notin L
    <3>1. e.nonce = g
      <4> SUFFICES ASSUME e.nonce < g
                   PROVE  FALSE
        BY <1>1, <1>2, <1>13
      <4>1. PICK t \in Of(L, n) : t.nonce = e.nonce
        BY <1>1, <1>2, <1>4, <1>12
      <4> QED
        BY <1>7, <1>11, <2>2, <4>1 DEF Of
    <3>2. ~ Valid(r, e)
      BY <1>9, <2>2
    <3>3. e.about \notin ToSet(r.validators)
      BY <3>1, <3>2 DEF Valid, g, n
    <3>4. e.about \in Blamed(L)
      BY <1>9, <3>3
    <3> QED
      BY <3>4 DEF Blamed
  <2> QED
    BY <2>1, <2>2
<1> QED
  BY <1>2, <1>3, <1>9, <1>12, <1>14 DEF d, n, b

\* A block of all that is valid has the accusation in it: what leads up to it could be
\* executed later, so it could in the block, as nobody has two votes in the mempool.
LEMMA HonestTakes ==
  ASSUME NEW s, NEW next, NEW r, NEW P, NEW T, NEW L, NEW e, Parted(s, next, r, P, T, L), Pending(s, next, P, L, e),
         OneVote(P, s.voters), NEW Q \in SUBSET P, e \in Q, \A t \in Q \ T : ~ Valid(next, t),
         \A k \in s.nonce[e.sender] .. e.nonce - 1 : \E t \in Of(Q, e.sender) : t.nonce = k
  PROVE  FALSE
<1>0. e \notin T /\ next.nonce[e.sender] <= e.nonce /\ next.nonce[e.sender] \in Nat
      /\ next.nonce[e.sender] >= s.nonce[e.sender]
  BY AccusationLeft
<1> USE DEF Parted, Pending
<1> DEFINE n == e.sender
           d == next.nonce[n]
<1>1. n \in Nodes /\ e.nonce \in Nat
  BY DEF Txs
<1>2. e.nonce # d
  BY <1>0 DEF Valid
<1>3. d \in s.nonce[n] .. e.nonce - 1
  <2>1. s.nonce[n] \in Nat
    BY <1>1 DEF Ledgers
  <2> QED
    BY <1>0, <1>1, <1>2, <2>1
<1>4. PICK t \in Of(Q, n) : t.nonce = d
  BY <1>3
<1>5. t \in Q /\ t.sender = n /\ t \in Of(P, n) /\ t \in Txs
  BY DEF Of
<1>6. t \in L /\ t \notin T
  <2>1. t.nonce < e.nonce /\ d <= t.nonce
    BY <1>1, <1>3, <1>4
  <2> QED
    BY <1>5, <2>1
<1>7. ~ Valid(next, t) /\ next.nonce[t.sender] = t.nonce
  BY <1>4, <1>5, <1>6
<1>8. IF t.kind = "vote" THEN t.sender \in ToSet(next.validators) /\ ~ next.issuer
      ELSE t.about \in ToSet(next.validators)
  BY <1>6 DEF Follows
<1>9. t.kind = "vote" /\ t.sender \in next.voters
  BY <1>5, <1>6, <1>7, <1>8 DEF Valid, Txs
<1>10. t.sender \notin s.voters /\ \A u \in P : u.kind = "vote" /\ u.sender = t.sender => u = t
  BY <1>6, <1>9 DEF OneVote
<1>11. t.sender \in Voting(T)
  BY <1>9, <1>10 DEF Follows
<1>12. PICK u \in T : u.kind = "vote" /\ u.sender = t.sender
  BY <1>11 DEF Voting
<1> QED
  BY <1>6, <1>10, <1>12

-----------------------------------------------------------------------------
(* The mempool grows at the end.                                            *)

LEMMA Joined ==
  ASSUME NEW S, NEW p \in Seq(S), NEW q \in Seq(S)
  PROVE  p \o q \in Seq(S) /\ ToSet(p \o q) = ToSet(p) \cup ToSet(q)
<1> DEFINE r == p \o q
           m == Len(p)
           k == Len(q)
<1>1. /\ m \in Nat /\ k \in Nat /\ DOMAIN p = 1 .. m /\ DOMAIN q = 1 .. k
      /\ r \in Seq(S) /\ DOMAIN r = 1 .. m + k
      /\ \A i \in 1 .. m + k : r[i] = IF i <= m THEN p[i] ELSE q[i - m]
  OBVIOUS
<1> HIDE DEF r, m, k
<1>2. \A i \in 1 .. m : i \in 1 .. m + k /\ r[i] = p[i]
  BY <1>1
<1>3. \A i \in 1 .. k : m + i \in 1 .. m + k /\ r[m + i] = q[i]
  <2> SUFFICES ASSUME NEW i \in 1 .. k
               PROVE  m + i \in 1 .. m + k /\ r[m + i] = q[i]
    OBVIOUS
  <2>1. m + i \in 1 .. m + k /\ ~ (m + i <= m) /\ (m + i) - m = i
    BY <1>1
  <2> QED
    BY <1>1, <2>1
<1>4. \A i \in 1 .. m + k : i \in 1 .. m \/ (i - m \in 1 .. k /\ r[i] = q[i - m])
  BY <1>1
<1>5. ToSet(r) = ToSet(p) \cup ToSet(q)
  <2>1. ToSet(r) \subseteq ToSet(p) \cup ToSet(q)
    BY <1>1, <1>2, <1>4 DEF ToSet
  <2>2. ToSet(p) \subseteq ToSet(r)
    BY <1>1, <1>2 DEF ToSet
  <2>3. ToSet(q) \subseteq ToSet(r)
    <3>1. \A i \in 1 .. k : r[m + i] \in ToSet(r)
      BY <1>1, <1>3 DEF ToSet
    <3>2. \A i \in 1 .. k : q[i] \in ToSet(r)
      BY <1>3, <3>1
    <3> QED
      BY <1>1, <3>2 DEF ToSet
  <2> QED
    BY <2>1, <2>2, <2>3
<1> QED
  BY <1>1, <1>5 DEF r

\* A pool that has grown: by accusations, and every line in it goes on.
Swelled(pool, old) ==
  /\ pool \in Seq(Txs) /\ ToSet(old) \subseteq ToSet(pool)
  /\ \A t \in ToSet(pool) \ ToSet(old) : t.kind = "evidence"
  /\ \A n \in Nodes : InLine(ToSet(old), n, ledger.nonce[n]) => InLine(ToSet(pool), n, ledger.nonce[n])

LEMMA OwnIs == \A n, pool : Own(n, pool) = Cardinality(Of(ToSet(pool), n))
BY DEF Own, Of

LEMMA AccuseSwells ==
  ASSUME ledger \in Ledgers, NEW old \in Seq(Txs), NEW pool, Swelled(pool, old),
         NEW v \in Nodes, NEW votes \in SUBSET Ballots
  PROVE  Swelled(Accuse(pool, v, votes), old)
<1> DEFINE accusers == Only(Founding, Honest)
           seen == {x \in votes : x.signer = v}
           e(i) == EvidenceOf(accusers[i], NextNonce(accusers[i], pool), v, seen)
           added == [i \in 1 .. Len(accusers) |-> e(i)]
           new == Accuse(pool, v, votes)
<1>1. accusers \in Seq(Nodes) /\ IsInjective(accusers)
  BY FoundingTyped, OnlyKeeps
<1>2. pool \in Seq(Txs) /\ seen \in SUBSET Ballots
  BY DEF Swelled
<1> HIDE DEF accusers, seen
<1>3. ASSUME NEW i \in 1 .. Len(accusers)
      PROVE  e(i) \in Txs /\ e(i).kind = "evidence" /\ e(i).sender = accusers[i]
             /\ e(i).nonce = NextNonce(accusers[i], pool)
  <2>1. accusers[i] \in Nodes
    BY <1>1
  <2>2. NextNonce(accusers[i], pool) \in Nat
    BY <1>2, <2>1, NonceTyped
  <2> QED
    BY <1>2, <2>1, <2>2 DEF EvidenceOf, Txs
<1> HIDE DEF e
<1>4. DOMAIN accusers = 1 .. Len(accusers) /\ Len(accusers) \in Nat
  BY <1>1
<1>5. added \in Seq(Txs) /\ ToSet(added) = {e(i) : i \in 1 .. Len(accusers)}
  <2>1. added \in [1 .. Len(accusers) -> Txs]
    BY <1>3
  <2>2. added \in Seq(Txs) /\ DOMAIN added = 1 .. Len(accusers)
    BY <1>4, <2>1
  <2> QED
    BY <2>2 DEF ToSet
<1>6. new = pool \o added
  BY <1>4 DEF Accuse, e, accusers, seen
<1> HIDE DEF added, new
<1>7. new \in Seq(Txs) /\ ToSet(new) = ToSet(pool) \cup {e(i) : i \in 1 .. Len(accusers)}
  BY <1>2, <1>5, <1>6, Joined
<1>8. ASSUME NEW n \in Nodes, InLine(ToSet(pool), n, ledger.nonce[n])
      PROVE  InLine(ToSet(new), n, ledger.nonce[n])
  <2>1. CASE \E i \in 1 .. Len(accusers) : accusers[i] = n
    <3>1. PICK i \in 1 .. Len(accusers) : accusers[i] = n
      BY <2>1
    <3>2. \A j \in 1 .. Len(accusers) : e(j).sender = n => j = i
      BY <1>1, <1>3, <1>4, <3>1 DEF IsInjective
    <3>3. Of(ToSet(new), n) = Of(ToSet(pool), n) \cup {e(i)}
      BY <1>3, <1>7, <3>1, <3>2 DEF Of
    <3>4. ToSet(pool) \in SUBSET Txs /\ IsFiniteSet(ToSet(pool)) /\ ledger.nonce[n] \in Nat
      <4>1. ToSet(pool) \in SUBSET Txs
        BY <1>2 DEF ToSet
      <4> QED
        BY <1>2, <4>1, ToSetFinite DEF Ledgers
    <3>5. /\ e(i) \in Txs /\ e(i).sender = n
          /\ e(i).nonce = ledger.nonce[n] + Cardinality(Of(ToSet(pool), n))
      BY <1>3, <3>1, OwnIs DEF NextNonce
    <3> QED
      BY <1>8, <3>3, <3>4, <3>5, LineGrows
  <2>2. CASE ~ \E i \in 1 .. Len(accusers) : accusers[i] = n
    <3>1. Of(ToSet(new), n) = Of(ToSet(pool), n)
      BY <1>3, <1>7, <2>2 DEF Of
    <3> QED
      BY <1>8, <3>1, LineKept
  <2> QED
    BY <2>1, <2>2
<1>9. Swelled(new, old)
  <2>1. /\ ToSet(old) \subseteq ToSet(pool) /\ \A t \in ToSet(pool) \ ToSet(old) : t.kind = "evidence"
        /\ \A n \in Nodes : InLine(ToSet(old), n, ledger.nonce[n]) => InLine(ToSet(pool), n, ledger.nonce[n])
    BY DEF Swelled
  <2>2. \A t \in ToSet(new) \ ToSet(old) : t.kind = "evidence"
    BY <1>3, <1>7, <2>1
  <2>3. ToSet(old) \subseteq ToSet(new)
    BY <1>7, <2>1
  <2> QED
    BY <1>7, <1>8, <2>1, <2>2, <2>3 DEF Swelled
<1> QED
  BY <1>9 DEF new

LEMMA AccusedSwells ==
  ASSUME NetTypeOK, NEW votes \in SUBSET Ballots
  PROVE  Swelled(Accused(votes), mempool)
<1> DEFINE G == {x \in Seq(Txs) : Swelled(x, mempool)}
<1>0. ledger \in Ledgers /\ mempool \in Seq(Txs) /\ mempool \in Seq(Just(Nodes))
  BY JustTyped DEF NetTypeOK
<1>1. PICK q, h : AccusedBy(h, q, votes)
  BY <1>0, AccusedRuns
<1> DEFINE n == Len(q)
<1>2. n \in Nat /\ \A i \in 1 .. n : q[i] \in Nodes
  <2>1. q \in Seq(Nodes)
    BY <1>1 DEF AccusedBy
  <2> QED
    BY <2>1
<1>3. /\ Accused(votes) = h[1 .. n] /\ h[{}] = mempool
      /\ \A I \in SUBSET (1 .. n) : I # {} => h[I] = Accuse(h[I \ {Max(I)}], q[Max(I)], votes)
  BY <1>1 DEF AccusedBy
<1> HIDE DEF n
<1>4. ASSUME NEW a \in G, NEW i \in 1 .. n
      PROVE  Accuse(a, q[i], votes) \in G
  <2>1. Swelled(Accuse(a, q[i], votes), mempool)
    BY <1>0, <1>2, AccuseSwells
  <2> QED
    BY <2>1 DEF Swelled
<1>5. mempool \in G
  BY <1>0 DEF Swelled
<1> HIDE DEF G
<1>6. \A I \in SUBSET (1 .. n) : I # {} /\ h[I \ {Max(I)}] \in G => h[I] \in G
  <2> SUFFICES ASSUME NEW I \in SUBSET (1 .. n), I # {}, h[I \ {Max(I)}] \in G
               PROVE  h[I] \in G
    OBVIOUS
  <2>1. Max(I) \in 1 .. n
    BY <1>2, LastOf
  <2> QED
    BY <1>3, <1>4, <2>1
<1>7. h[1 .. n] \in G
  BY <1>2, <1>3, <1>5, <1>6, RunStays
<1> QED
  BY <1>3, <1>7 DEF G

\* What one node has noticed: accusations numbered on from what it has in the mempool.
LEMMA NoticesLine ==
  ASSUME NetTypeOK, NEW n \in Nodes, NEW K
  PROVE  /\ Notices(n, K) \in Seq(Txs) /\ \A t \in ToSet(Notices(n, K)) : t.kind = "evidence" /\ t.sender = n
         /\ \E e \in Nat : Full(ToSet(Notices(n, K)), n, NextNonce(n, mempool), e)
<1> DEFINE L == Len(ledger.validators)
           rounds == Only([k \in 1 .. L |-> k - 1], K)
           N == NextNonce(n, mempool)
           e(j) == EvidenceOf(n, N + j - 1, Proposer(rounds[j]), TwoStories(rounds[j]))
           T == ToSet(Notices(n, K))
<1>1. ledger \in Ledgers /\ height \in Nat /\ mempool \in Seq(Txs) /\ L \in Nat /\ N \in Nat
  BY ValidatorsCounted, PoolNonce DEF NetTypeOK
<1>2. Notices(n, K) \in Seq(Txs)
  <2>1. \A k \in K : k \in 0 .. L - 1 => Proposer(k) \in Nodes
    <3>1. \A k \in 0 .. L - 1 : k \in Nat /\ L > 0
      BY <1>1
    <3> QED
      BY <1>1, <3>1, ProposerTyped
  <2>2. Notices(n, K) \in Seq(Just(Nodes)) /\ Just(Nodes) \subseteq Txs
    BY <1>1, <2>1, NoticesTyped, JustTyped
  <2> QED
    BY <2>2
<1>3. rounds \in Seq(0 .. L - 1)
  <2>1. [k \in 1 .. L |-> k - 1] \in Seq(0 .. L - 1)
    <3> HIDE DEF L
    <3> QED
      BY <1>1
  <2> HIDE DEF L
  <2> QED
    BY <2>1, OnlyKeeps
<1>4. Notices(n, K) = [j \in DOMAIN rounds |-> e(j)]
  BY DEF Notices
<1> DEFINE m == Len(rounds)
<1>5. m \in Nat /\ DOMAIN rounds = 1 .. m
  BY <1>3
<1> HIDE DEF m, rounds, L, N
<1>6. T = {e(j) : j \in 1 .. m}
  BY <1>4, <1>5 DEF ToSet
<1>7. \A j \in 1 .. m : e(j).kind = "evidence" /\ e(j).sender = n /\ e(j).nonce = N + j - 1
  BY DEF EvidenceOf
<1> HIDE DEF e
<1> HIDE DEF T
<1>8. Of(T, n) = T
  BY <1>6, <1>7 DEF Of
<1>9. /\ N + m \in Nat /\ N + m >= N
      /\ \A t \in T : t.nonce >= N /\ t.nonce # N + m /\ t.nonce < N + m
      /\ \A t, u \in T : t.nonce = u.nonce => t = u
  BY <1>1, <1>5, <1>6, <1>7
<1>10. \A k \in N .. (N + m) - 1 : \E t \in T : t.nonce = k
  <2>1. \A k \in N .. (N + m) - 1 : k - N + 1 \in 1 .. m /\ N + (k - N + 1) - 1 = k
    BY <1>1, <1>5
  <2>2. \A k \in N .. (N + m) - 1 : e(k - N + 1) \in T /\ e(k - N + 1).nonce = k
    BY <1>6, <1>7, <2>1
  <2> QED
    BY <2>2
<1>11. Full(T, n, N, N + m)
  <2>1. Line(T, n, N, N + m)
    BY <1>8, <1>9, <1>10 DEF Line
  <2> QED
    BY <1>8, <1>9, <2>1 DEF Full
<1>12. \A t \in T : t.kind = "evidence" /\ t.sender = n
  BY <1>6, <1>7
<1> QED
  BY <1>2, <1>9, <1>11, <1>12 DEF T, N

LEMMA NoticedLines ==
  ASSUME NetTypeOK, NEW q \in Seq(Nodes), NEW saw
  PROVE  /\ Noticed(q, saw) \in Seq(Txs) /\ \A t \in ToSet(Noticed(q, saw)) : t.kind = "evidence"
         /\ \A n \in Nodes : \E e \in Nat : Full(ToSet(Noticed(q, saw)), n, NextNonce(n, mempool), e)
<1> DEFINE n == Len(q)
           N(i) == Notices(q[i], saw[q[i]])
           Came2(x, I) == x \in Seq(Txs) /\ ToSet(x) = UNION {ToSet(N(i)) : i \in I}
<1>1. n \in Nat /\ \A i \in 1 .. n : q[i] \in Nodes
  OBVIOUS
<1>2. \A i \in 1 .. n : N(i) \in Seq(Txs) /\ \A t \in ToSet(N(i)) : t.kind = "evidence" /\ t.sender = q[i]
  BY <1>1, NoticesLine
<1>3. PICK h : NoticedBy(h, q, saw)
  <2>1. \A m \in ToSet(q) : Notices(m, saw[m]) \in Seq(Txs)
    BY NoticesLine DEF ToSet
  <2> QED
    BY <2>1, NoticedRuns
<1>4. /\ Noticed(q, saw) = h[1 .. n] /\ h[{}] = <<>>
      /\ \A I \in SUBSET (1 .. n) : I # {} => h[I] = h[I \ {Max(I)}] \o N(Max(I))
  BY <1>3 DEF NoticedBy
<1> HIDE DEF n, N
<1> DEFINE G == {I \in SUBSET (1 .. n) : Came2(h[I], I)}
<1>5. {} \in G
  <2>1. <<>> \in Seq(Txs) /\ ToSet(<<>>) = {}
    BY DEF ToSet
  <2> QED
    BY <1>4, <2>1
<1>6. \A I \in SUBSET (1 .. n) : I # {} /\ I \ {Max(I)} \in G => I \in G
  <2> SUFFICES ASSUME NEW I \in SUBSET (1 .. n), I # {}, I \ {Max(I)} \in G
               PROVE  Came2(h[I], I)
    OBVIOUS
  <2> DEFINE m == Max(I)
             J == I \ {m}
  <2>1. m \in I /\ m \in 1 .. n /\ I = J \cup {m}
    BY <1>1, LastOf
  <2>2. h[J] \in Seq(Txs) /\ ToSet(h[J]) = UNION {ToSet(N(i)) : i \in J} /\ h[I] = h[J] \o N(m)
    BY <1>4
  <2> HIDE DEF m, J
  <2>3. h[I] \in Seq(Txs) /\ ToSet(h[I]) = ToSet(h[J]) \cup ToSet(N(m))
    BY <1>2, <2>1, <2>2, Joined
  <2>4. UNION {ToSet(N(i)) : i \in I} = (UNION {ToSet(N(i)) : i \in J}) \cup ToSet(N(m))
    BY <2>1
  <2> QED
    BY <2>2, <2>3, <2>4
<1> HIDE DEF G
<1>7. 1 .. n \in G
  BY <1>1, <1>5, <1>6, Preserved
<1>8. Noticed(q, saw) \in Seq(Txs) /\ ToSet(Noticed(q, saw)) = UNION {ToSet(N(i)) : i \in 1 .. n}
  BY <1>4, <1>7 DEF G
<1>9. \A t \in ToSet(Noticed(q, saw)) : t.kind = "evidence"
  BY <1>2, <1>8
<1>10. ASSUME NEW m \in Nodes
       PROVE  \E e \in Nat : Full(ToSet(Noticed(q, saw)), m, NextNonce(m, mempool), e)
  <2> DEFINE T == ToSet(Noticed(q, saw))
  <2>1. CASE m \in ToSet(q)
    <3>1. Of(T, m) = ToSet(Notices(m, saw[m]))
      <4>1. \E i \in 1 .. n : q[i] = m
        BY <1>1, <2>1 DEF ToSet, n
      <4>2. \A i \in 1 .. n : q[i] = m => N(i) = Notices(m, saw[m])
        BY DEF N
      <4> QED
        BY <1>2, <1>8, <4>1, <4>2 DEF Of
    <3>2. Of(ToSet(Notices(m, saw[m])), m) = ToSet(Notices(m, saw[m]))
      BY NoticesLine DEF Of
    <3>3. PICK e \in Nat : Full(ToSet(Notices(m, saw[m])), m, NextNonce(m, mempool), e)
      BY NoticesLine
    <3>4. Full(T, m, NextNonce(m, mempool), e)
      BY <3>1, <3>2, <3>3 DEF Full, Line
    <3> QED
      BY <3>4
  <2>2. CASE m \notin ToSet(q)
    <3>1. Of(T, m) = {}
      <4>1. \A i \in 1 .. n : q[i] # m
        BY <2>2 DEF ToSet, n
      <4>2. \A t \in T : t.sender # m
        BY <1>2, <1>8, <4>1
      <4> QED
        BY <4>2 DEF Of
    <3>2. NextNonce(m, mempool) \in Nat
      BY PoolNonce
    <3>3. Full(T, m, NextNonce(m, mempool), NextNonce(m, mempool))
      BY <3>1, <3>2 DEF Full, Line
    <3> QED
      BY <3>2, <3>3
  <2> QED
    BY <2>1, <2>2
<1> QED
  BY <1>8, <1>9, <1>10

-----------------------------------------------------------------------------
(* What a commit does to the queues.                                        *)

LEMMA TrialFits ==
  ASSUME NEW P \in SUBSET Txs, IsFiniteSet(P), NEW n, NEW b \in Nat, NEW d \in Nat, NEW g \in Nat,
         NEW T \in SUBSET P, NEW L \in SUBSET (P \ T), Full(T, n, b, d), Full(L, n, d, g)
  PROVE  b + Cardinality(Of(P, n)) >= g
<1> DEFINE A == Of(T, n)
           B == Of(L, n)
           O == Of(P, n)
<1>1. IsFiniteSet(T) /\ IsFiniteSet(L) /\ IsFiniteSet(O)
  <2>1. T \subseteq P /\ L \subseteq P /\ O \subseteq P
    BY DEF Of
  <2> HIDE DEF O
  <2> QED
    BY <2>1, FS_Subset
<1>2. Cardinality(A) = d - b /\ Cardinality(B) = g - d
  <2>1. T \in SUBSET Txs /\ L \in SUBSET Txs /\ d >= b /\ Line(T, n, b, d) /\ g >= d /\ Line(L, n, d, g)
    BY DEF Full
  <2> QED
    BY <1>1, <2>1, LineCounted
<1>3. A \cap B = {} /\ A \cup B \subseteq O
  BY DEF Of
<1>4. IsFiniteSet(A) /\ IsFiniteSet(B)
  <2>1. A \subseteq T /\ B \subseteq L
    BY DEF Of
  <2> HIDE DEF A, B
  <2> QED
    BY <1>1, <2>1, FS_Subset
<1> HIDE DEF A, B, O
<1>5. Cardinality(A \cup B) = Cardinality(A) + Cardinality(B) - Cardinality({})
  BY <1>3, <1>4, FS_Union
<1>6. Cardinality({}) = 0
  BY FS_EmptySet
<1>7. Cardinality(A \cup B) <= Cardinality(O) /\ Cardinality(O) \in Nat
  BY <1>1, <1>3, FS_Subset, FS_CardinalityType
<1> QED
  BY <1>2, <1>5, <1>6, <1>7 DEF O

\* Every node's queue runs on from its nonce, and nobody has two votes waiting.
Queued ==
  /\ \A n \in Nodes : InLine(ToSet(mempool), n, ledger.nonce[n])
  /\ OneVote(ToSet(mempool), ledger.voters)

\* Accusations submitted after the commit: of a round, none; of a height, late.
Late(late, pool) ==
  /\ \A t \in ToSet(late) : t.kind = "evidence"
  /\ \/ late = <<>>
     \/ pool = mempool /\ \A n \in Nodes : \E e \in Nat : Full(ToSet(late), n, NextNonce(n, mempool), e)

\* T: the block; L: what is left of the pool; r: the ledger it leads to.
Outcome(q, skip, p, P, late, T, L, r) ==
  /\ ledger' \in Ledgers /\ r \in Ledgers /\ ledger'.by = p /\ height' = height + 1
  /\ T \subseteq ToSet(q) /\ L \subseteq P \ T /\ Follows(ledger, ledger', T) /\ Follows(ledger', r, L)
  /\ \A t \in L : t.kind = "evidence" => Proves(t.proof, t.about)
  /\ \A t \in P \ T : t \in L \/ ~ Valid(r, t)
  /\ \A t \in ToSet(q) \ T : t.sender \notin skip => ~ Valid(ledger', t)
  /\ ToSet(mempool') = L \cup {t \in ToSet(late) : t.nonce >= ledger'.nonce[t.sender]}

LEMMA Outcomes ==
  ASSUME NetTypeOK, NEW p \in Nodes, NEW q \in Seq(Txs), NEW skip, NEW txs, txs = Built(ledger, q, skip).txs,
         NEW pool \in Seq(Txs), NEW late \in Seq(Txs), Finalise(txs, p, pool, late)
  PROVE  \E L, r : Outcome(q, skip, p, ToSet(pool), late, ToSet(txs), L, r)
<1> DEFINE next == [FoldLeft(Apply, ledger, txs) EXCEPT !.by = p]
           L == ToSet(Remaining(next, pool, txs))
           r == Trial(next, pool, txs).s
           kept == Only(late, {t \in ToSet(late) : t.nonce >= next.nonce[t.sender]})
<1>1. ledger' = next /\ mempool' = Remaining(next, pool, txs) \o kept /\ height' = height + 1
  BY DEF Finalise
<1>2. /\ next \in Ledgers /\ next.by = p
      /\ ToSet(txs) \subseteq ToSet(q) /\ Follows(ledger, next, ToSet(txs))
      /\ \A t \in ToSet(q) \ ToSet(txs) : t.sender \notin skip => ~ Valid(next, t)
  <2>1. ledger \in Ledgers
    BY DEF NetTypeOK
  <2> QED
    BY <2>1, BlockIs
<1> HIDE DEF next
<1>3. /\ Remaining(next, pool, txs) \in Seq(Txs) /\ r \in Ledgers
      /\ L \subseteq ToSet(pool) \ ToSet(txs) /\ Follows(next, r, L)
      /\ \A t \in L : t.kind = "evidence" => Proves(t.proof, t.about)
      /\ \A t \in ToSet(pool) \ ToSet(txs) : t \in L \/ ~ Valid(r, t)
  BY <1>2, RemainingIs
<1>4. kept \in Seq(Txs) /\ ToSet(kept) = {t \in ToSet(late) : t.nonce >= next.nonce[t.sender]}
  <2> DEFINE K == {t \in ToSet(late) : t.nonce >= next.nonce[t.sender]}
  <2>1. Only(late, K) \in Seq(Txs) /\ ToSet(Only(late, K)) = ToSet(late) \cap K
    BY OnlyKeeps
  <2> QED
    BY <2>1
<1> HIDE DEF r, kept
<1>5. ToSet(mempool') = L \cup {t \in ToSet(late) : t.nonce >= next.nonce[t.sender]}
  BY <1>1, <1>3, <1>4, Joined
<1> HIDE DEF L
<1>6. Outcome(q, skip, p, ToSet(pool), late, ToSet(txs), L, r)
  BY <1>1, <1>2, <1>3, <1>5 DEF Outcome
<1> QED
  BY <1>6

\* The queues run on after a commit: what was accused late comes after all that waited.
LEMMA CommitQueues ==
  ASSUME NetTypeOK, NEW q, NEW skip, NEW p, NEW pool \in Seq(Txs), NEW late \in Seq(Txs), NEW T, NEW L, NEW r,
         Outcome(q, skip, p, ToSet(pool), late, T, L, r), ToSet(q) \subseteq ToSet(pool),
         Late(late, pool), OneVote(ToSet(pool), ledger.voters)
  PROVE  Queued'
<1> DEFINE P == ToSet(pool)
           X == {t \in ToSet(late) : t.nonce >= ledger'.nonce[t.sender]}
           M == ToSet(mempool')
<1>1. /\ ledger' \in Ledgers /\ r \in Ledgers /\ T \subseteq P /\ L \subseteq P \ T
      /\ Follows(ledger, ledger', T) /\ Follows(ledger', r, L) /\ M = L \cup X
  BY DEF Outcome
<1>2. P \in SUBSET Txs /\ IsFiniteSet(P) /\ ToSet(late) \in SUBSET Txs /\ L \in SUBSET Txs
  <2>1. P \in SUBSET Txs /\ ToSet(late) \in SUBSET Txs
    BY DEF ToSet
  <2> QED
    BY <1>1, <2>1, ToSetFinite
<1> HIDE DEF P, M
<1>3. ASSUME NEW n \in Nodes
      PROVE  InLine(M, n, ledger'.nonce[n])
  <2> DEFINE b == ledger.nonce[n]
             d == ledger'.nonce[n]
             g == r.nonce[n]
  <2>1. b \in Nat /\ d \in Nat /\ g \in Nat
    BY <1>1 DEF NetTypeOK, Ledgers
  <2>2. Full(T, n, b, d) /\ Full(L, n, d, g)
    BY <1>1 DEF Follows
  <2>3. d >= b /\ g >= d
    BY <2>2 DEF Full
  <2>4. CASE late = <<>>
    <3>1. X = {}
      BY <2>4 DEF ToSet
    <3>2. M = L
      BY <1>1, <3>1
    <3> QED
      BY <2>1, <2>2, <3>2 DEF InLine, Full
  <2>5. CASE pool = mempool /\ \A m \in Nodes : \E e \in Nat : Full(ToSet(late), m, NextNonce(m, mempool), e)
    <3> DEFINE N == NextNonce(n, mempool)
    <3>1. PICK e \in Nat : Full(ToSet(late), n, N, e)
      BY <2>5
    <3>2. N \in Nat /\ N = b + Cardinality(Of(P, n))
      BY <2>5, OwnIs, PoolNonce DEF NextNonce, P
    <3>3. N >= g
      <4>1. T \in SUBSET P /\ L \in SUBSET (P \ T)
        BY <1>1
      <4> HIDE DEF N, b, d, g
      <4> QED
        BY <1>2, <2>1, <2>2, <3>2, <4>1, TrialFits
    <3>4. \A t \in Of(ToSet(late), n) : t.nonce \in Nat /\ t.nonce >= N
      <4>1. \A t \in Of(ToSet(late), n) : t.nonce >= N
        BY <3>1, Zenon DEF Full, Line
      <4>2. \A t \in Of(ToSet(late), n) : t.nonce \in Nat
        BY <1>2 DEF Of, Txs
      <4> QED
        BY <4>1, <4>2
    <3>5. \A t \in Of(ToSet(late), n) : t.nonce >= d
      <4> HIDE DEF N, b, d, g
      <4> QED
        BY <2>1, <2>3, <3>2, <3>3, <3>4
    <3>6. Of(M, n) = Of(L \cup ToSet(late), n)
      <4>1. Of(X, n) = Of(ToSet(late), n)
        BY <3>5 DEF Of
      <4> HIDE DEF X
      <4> QED
        BY <1>1, <4>1 DEF Of
    <3>7. InLine(L \cup ToSet(late), n, d)
      <4> HIDE DEF N, b, d, g
      <4> QED
        BY <1>2, <2>1, <2>2, <3>1, <3>2, <3>3, LinesJoin
    <3> QED
      BY <3>6, <3>7, LineKept DEF d
  <2> QED
    BY <2>4, <2>5 DEF Late
<1>4. OneVote(M, ledger'.voters)
  <2>1. OneVote(L, ledger'.voters)
    <3>1. T \in SUBSET P /\ L \in SUBSET (P \ T)
      BY <1>1
    <3>2. OneVote(P, ledger.voters)
      BY DEF P
    <3> QED
      BY <1>1, <3>1, <3>2, OneVoteLeft
  <2>2. \A t \in M : t.kind = "vote" => t \in L
    BY <1>1 DEF Late
  <2> QED
    BY <2>1, <2>2 DEF OneVote
<1> QED
  BY <1>3, <1>4 DEF Queued, M

-----------------------------------------------------------------------------
(* What a step does to the queues.                                          *)

LEMMA WholeHas ==
  ASSUME NEW txs, NEW ok, NEW blocks, blocks = Whole(txs, ok), NEW i \in DOMAIN blocks
  PROVE  blocks[i].txs = txs
<1> DEFINE b == [txs |-> txs, ok |-> ok, to |-> Nodes]
<1>1. blocks = <<b>> /\ b.txs = txs
  BY DEF Whole
<1> HIDE DEF b
<1> QED
  BY <1>1

LEMMA BothHas ==
  ASSUME NEW first, NEW second, NEW blocks, blocks = Both(first, second), NEW i \in DOMAIN blocks
  PROVE  blocks[i].txs \in {first, second}
<1> DEFINE a == [txs |-> first, ok |-> TRUE, to |-> Halves[1]]
           b == [txs |-> second, ok |-> TRUE, to |-> Halves[2]]
<1>1. blocks = <<a, b>> /\ a.txs = first /\ b.txs = second
  BY DEF Both
<1> HIDE DEF a, b
<1> QED
  BY <1>1

\* A block is made of the mempool in some order; an honest one of all of it.
MadeFrom(p, q, skip, txs) ==
  /\ q \in Seq(Txs) /\ ToSet(q) \subseteq ToSet(mempool) /\ txs = Built(ledger, q, skip).txs
  /\ p \in Honest => q = mempool /\ skip = {}

LEMMA ProposalsBuilt ==
  ASSUME NetTypeOK, NEW p \in Nodes, NEW blocks \in Proposals(p), NEW i \in DOMAIN blocks
  PROVE  \E q, skip : MadeFrom(p, q, skip, blocks[i].txs)
<1>1. /\ Reverse(mempool) \in Seq(Txs) /\ ToSet(Reverse(mempool)) \subseteq ToSet(mempool)
      /\ mempool \in Seq(Txs)
  <2>1. mempool \in Seq(Txs)
    BY DEF NetTypeOK
  <2>2. Reverse(mempool) \in Seq(Txs)
    BY <2>1 DEF Reverse
  <2> DEFINE n == Len(mempool)
  <2>3. n \in Nat /\ DOMAIN mempool = 1 .. n
    BY <2>1
  <2>4. DOMAIN Reverse(mempool) = 1 .. n /\ \A j \in 1 .. n : Reverse(mempool)[j] = mempool[(n - j) + 1]
    BY DEF Reverse
  <2> HIDE DEF n
  <2>5. \A j \in 1 .. n : (n - j) + 1 \in 1 .. n
    BY <2>3
  <2>6. ToSet(Reverse(mempool)) \subseteq ToSet(mempool)
    BY <2>3, <2>4, <2>5 DEF ToSet
  <2> QED
    BY <2>1, <2>2, <2>6
<1>2. \A a, b \in Behaviours : a # b => With(a) \cap With(b) = {}
  BY DEF With
<1>3. CASE p \in With("silent")
  <2>1. blocks = <<>>
    BY <1>2, <1>3 DEF Proposals, Behaviours
  <2> QED
    BY <2>1
<1>4. CASE p \in With("equivocator")
  <2>1. p \notin With("silent") /\ p \notin With("forger") /\ p \notin With("censor") /\ p \notin Honest
    BY <1>2, <1>4 DEF Behaviours, Honest
  <2>2. blocks \in TwoTales
    BY <1>4, <2>1 DEF Proposals
  <2>3. PICK first, second, skip : /\ first = Draft(mempool, {}) /\ second = Draft(Reverse(mempool), skip)
                                   /\ blocks = Both(first, second) \/ blocks = Whole(first, TRUE)
    BY <2>2 DEF TwoTales
  <2>4. MadeFrom(p, mempool, {}, first)
    BY <1>1, <2>1, <2>3 DEF MadeFrom, Draft
  <2>5. MadeFrom(p, Reverse(mempool), skip, second)
    BY <1>1, <2>1, <2>3 DEF MadeFrom, Draft
  <2>6. blocks[i].txs \in {first, second}
    <3>1. CASE blocks = Both(first, second)
      BY <3>1, BothHas
    <3>2. CASE blocks = Whole(first, TRUE)
      <4>1. blocks[i].txs = first
        BY <3>2, WholeHas
      <4> QED
        BY <4>1
    <3> QED
      BY <2>3, <3>1, <3>2
  <2> QED
    BY <2>4, <2>5, <2>6
<1>5. CASE p \in With("censor")
  <2>1. p \notin With("silent") /\ p \notin With("equivocator") /\ p \notin With("forger") /\ p \notin Honest
    BY <1>2, <1>5 DEF Behaviours, Honest
  <2>2. blocks = Whole(Draft(mempool, {Target}), TRUE)
    BY <1>5, <2>1 DEF Proposals
  <2>3. blocks[i].txs = Draft(mempool, {Target})
    BY <2>2, WholeHas
  <2>4. MadeFrom(p, mempool, {Target}, blocks[i].txs)
    BY <1>1, <2>1, <2>3 DEF MadeFrom, Draft
  <2> QED
    BY <2>4
<1>6. CASE p \notin With("silent") /\ p \notin With("equivocator") /\ p \notin With("censor")
  <2>1. PICK ok : blocks = Whole(Draft(mempool, {}), ok)
    BY <1>6 DEF Proposals
  <2>2. blocks[i].txs = Draft(mempool, {})
    BY <2>1, WholeHas
  <2>3. MadeFrom(p, mempool, {}, blocks[i].txs)
    BY <1>1, <2>2 DEF MadeFrom, Draft
  <2> QED
    BY <2>3
<1> QED
  BY <1>3, <1>4, <1>5, <1>6

\* A step commits a block, or only adds to the mempool.
Commits ==
  \E p, q, skip, txs, pool, late :
    /\ p \in Nodes /\ MadeFrom(p, q, skip, txs) /\ Swelled(pool, mempool) /\ late \in Seq(Txs) /\ Late(late, pool)
    /\ Finalise(txs, p, pool, late)
Adds == ledger' = ledger /\ height' = height /\ ToSet(mempool) \subseteq ToSet(mempool') /\ (Queued => Queued')

LEMMA SwellsOneVote ==
  ASSUME NEW pool, Swelled(pool, mempool), OneVote(ToSet(mempool), ledger.voters)
  PROVE  OneVote(ToSet(pool), ledger.voters)
BY DEF Swelled, OneVote

LEMMA RoundCommits ==
  ASSUME NetTypeOK, Round
  PROVE  Commits \/ Adds
<1> DEFINE p == Proposer(round)
<1>1. PICK blocks \in Proposals(p) : Played(blocks, p)
  BY RoundPlayed
<1>2. p \in Nodes
  <2>1. round < Len(ledger.validators) /\ round \in Nat /\ height \in Nat /\ ledger \in Ledgers
        /\ Len(ledger.validators) \in Nat
    BY RoundPlayed, ValidatorsCounted DEF NetTypeOK
  <2>2. Len(ledger.validators) > 0
    BY <2>1
  <2> QED
    BY <2>1, <2>2, ProposerTyped
<1> HIDE DEF p
<1>3. Fair(blocks, p) /\ Proposed(round) + Len(blocks) <= MaxBlocks
  BY <1>1, <1>2, FairProposals DEF Played
<1>4. Shown(blocks, p) \in SUBSET Ballots
  <2>1. DOMAIN blocks = 1 .. Len(blocks) /\ Len(blocks) \in 0 .. 2 /\ \A i \in 1 .. Len(blocks) : blocks[i].to \subseteq Nodes
    BY <1>3 DEF Fair
  <2>2. NewVotes(blocks, p) \subseteq Ballots
    BY <1>2, <1>3, <2>1, CastTyped
  <2> QED
    BY <2>2 DEF Shown, InSlot, NetTypeOK
<1> DEFINE pool == Accused(Shown(blocks, p))
<1>5. Swelled(pool, mempool)
  BY <1>4, AccusedSwells
<1> HIDE DEF pool
<1>6. CASE Won(blocks, p) # {}
  <2> DEFINE i == Min(Won(blocks, p))
  <2>1. Finalise(blocks[i].txs, p, pool, <<>>)
    BY <1>1, <1>6 DEF Played, pool
  <2>2. i \in DOMAIN blocks
    <3>1. Won(blocks, p) \subseteq DOMAIN blocks /\ Won(blocks, p) \subseteq Nat
      BY <1>3 DEF Won, Fair
    <3>2. \E n \in Won(blocks, p) : \A m \in Won(blocks, p) : n <= m
      BY <1>6, <3>1, LeastNat
    <3>3. Min(Won(blocks, p)) \in Won(blocks, p)
      BY <3>2 DEF Min
    <3> QED
      BY <3>1, <3>3
  <2> HIDE DEF i
  <2>3. PICK q, skip : MadeFrom(p, q, skip, blocks[i].txs)
    BY <1>1, <1>2, <2>2, ProposalsBuilt
  <2>4. <<>> \in Seq(Txs) /\ Late(<<>>, pool)
    BY DEF Late, ToSet
  <2>5. Commits
    BY <1>2, <1>5, <2>1, <2>3, <2>4 DEF Commits
  <2> QED
    BY <2>5
<1>7. CASE Won(blocks, p) = {}
  <2>1. mempool' = pool /\ ledger' = ledger /\ height' = height
    BY <1>1, <1>7 DEF Played, pool
  <2>2. ASSUME Queued
        PROVE  Queued'
    <3>1. \A n \in Nodes : InLine(ToSet(pool), n, ledger.nonce[n])
      BY <1>5, <2>2 DEF Queued, Swelled
    <3>2. OneVote(ToSet(pool), ledger.voters)
      BY <1>5, <2>2, SwellsOneVote DEF Queued
    <3> QED
      BY <2>1, <3>1, <3>2 DEF Queued
  <2>3. ToSet(mempool) \subseteq ToSet(mempool')
    BY <1>5, <2>1 DEF Swelled
  <2>4. Adds
    BY <2>1, <2>2, <2>3 DEF Adds
  <2> QED
    BY <2>4
<1> QED
  BY <1>6, <1>7

LEMMA HeightCommits ==
  ASSUME NetTypeOK, NEW r \in 0 .. Len(ledger.validators) - 1, Height(r)
  PROVE  Commits
<1> DEFINE p == Proposer(r)
           turns == {k \in 0 .. Len(ledger.validators) - 1 : Proposer(k) \in With("equivocator")}
           present == Only(ledger.validators, Honest)
<1>1. Len(ledger.validators) \in Nat /\ height \in Nat /\ ledger \in Ledgers
      /\ mempool \in Seq(Txs) /\ ledger.validators \in Seq(Nodes)
  BY ValidatorsCounted DEF NetTypeOK, Ledgers
<1>2. p \in Nodes
  <2>1. r \in Nat /\ Len(ledger.validators) > 0
    BY <1>1
  <2> QED
    BY <1>1, <2>1, ProposerTyped
<1>3. PICK blocks \in Proposals(p), told \in SUBSET turns :
        \E i \in DOMAIN blocks, saw \in [ToSet(present) -> SUBSET told] :
          Finalise(blocks[i].txs, p, mempool, Noticed(present, saw))
  BY DEF Height
<1>4. PICK i \in DOMAIN blocks, saw \in [ToSet(present) -> SUBSET told] :
        Finalise(blocks[i].txs, p, mempool, Noticed(present, saw))
  BY <1>3
<1>5. present \in Seq(Nodes)
  BY <1>1, OnlyKeeps
<1> HIDE DEF present, turns, p
<1>6. PICK q, skip : MadeFrom(p, q, skip, blocks[i].txs)
  BY <1>2, <1>3, <1>4, ProposalsBuilt
<1> DEFINE late == Noticed(present, saw)
<1>7. /\ late \in Seq(Txs) /\ \A t \in ToSet(late) : t.kind = "evidence"
      /\ \A n \in Nodes : \E e \in Nat : Full(ToSet(late), n, NextNonce(n, mempool), e)
  BY <1>5, NoticedLines
<1>8. Swelled(mempool, mempool)
  BY <1>1 DEF Swelled
<1>9. Finalise(blocks[i].txs, p, mempool, late)
  BY <1>4
<1> HIDE DEF late
<1>10. Late(late, mempool)
  BY <1>7 DEF Late
<1> QED
  BY <1>2, <1>6, <1>7, <1>8, <1>9, <1>10 DEF Commits

LEMMA SubmitAdds ==
  ASSUME NetTypeOK, NEW t \in Txs, Submit(t), t.nonce = NextNonce(t.sender, mempool),
         t.kind = "vote" => /\ t.sender \notin ledger.voters
                            /\ \A u \in ToSet(mempool) : u.kind = "vote" => u.sender # t.sender
  PROVE  Adds
<1>1. mempool' = Append(mempool, t) /\ ledger' = ledger /\ height' = height /\ t \notin ToSet(mempool)
  BY DEF Submit
<1>2. mempool \in Seq(Txs) /\ ledger.nonce \in [Nodes -> Nat]
  BY DEF NetTypeOK, Ledgers
<1>3. ToSet(mempool') = ToSet(mempool) \cup {t}
  BY <1>1, <1>2, Appended
<1>4. ToSet(mempool) \in SUBSET Txs /\ IsFiniteSet(ToSet(mempool))
  <2>1. ToSet(mempool) \in SUBSET Txs
    BY <1>2 DEF ToSet
  <2> QED
    BY <1>2, <2>1, ToSetFinite
<1>5. ASSUME Queued, NEW n \in Nodes
      PROVE  InLine(ToSet(mempool'), n, ledger.nonce[n])
  <2>0. InLine(ToSet(mempool), n, ledger.nonce[n])
    BY <1>5 DEF Queued
  <2>1. CASE t.sender = n
    <3>1. Of(ToSet(mempool'), n) = Of(ToSet(mempool), n) \cup {t}
      BY <1>3, <2>1 DEF Of
    <3>2. t.nonce = ledger.nonce[n] + Cardinality(Of(ToSet(mempool), n))
      BY <2>1, OwnIs DEF NextNonce
    <3> QED
      BY <1>2, <1>4, <2>0, <2>1, <3>1, <3>2, LineGrows
  <2>2. CASE t.sender # n
    <3>1. Of(ToSet(mempool'), n) = Of(ToSet(mempool), n)
      BY <1>3, <2>2 DEF Of
    <3> QED
      BY <2>0, <3>1, LineKept
  <2> QED
    BY <2>1, <2>2
<1>6. ASSUME Queued
      PROVE  OneVote(ToSet(mempool'), ledger.voters)
  BY <1>3, <1>6 DEF Queued, OneVote
<1> QED
  BY <1>1, <1>3, <1>5, <1>6 DEF Adds, Queued

LEMMA StepIs ==
  ASSUME NetInv, Next
  PROVE  Commits \/ Adds
<1>1. NetTypeOK /\ ledger \in Ledgers /\ mempool \in Seq(Txs)
  BY DEF NetInv, NetTypeOK
<1>2. CASE Round
  BY <1>1, <1>2, RoundCommits
<1>3. ASSUME NEW r \in 0 .. Len(ledger.validators) - 1, Height(r)
      PROVE  Commits
  BY <1>1, <1>3, HeightCommits
<1>4. ASSUME NEW n \in Nodes, VoteForIssuer(n)
      PROVE  Adds
  <2> DEFINE t == VoteOf(n, NextNonce(n, mempool))
  <2>1. t \in Txs /\ t.kind = "vote" /\ t.sender = n /\ t.nonce = NextNonce(n, mempool)
    BY <1>1, PoolNonce DEF VoteOf, Txs
  <2>2. Submit(t) /\ n \notin ledger.voters /\ \A u \in ToSet(mempool) : u.kind = "vote" => u.sender # n
    BY <1>4 DEF VoteForIssuer
  <2> HIDE DEF t
  <2> QED
    BY <1>1, <2>1, <2>2, SubmitAdds
<1>5. ASSUME NEW n \in Nodes, NEW a \in signed, NEW b \in signed, Frame(n, a, b)
      PROVE  Adds
  <2> DEFINE t == EvidenceOf(n, NextNonce(n, mempool), a.signer, {a, b})
  <2>1. a \in Ballots /\ b \in Ballots /\ a.signer \in Nodes
    BY <1>1 DEF NetTypeOK, Ballots
  <2>2. t \in Txs /\ t.kind = "evidence" /\ t.sender = n /\ t.nonce = NextNonce(n, mempool)
    BY <1>1, <2>1, PoolNonce DEF EvidenceOf, Txs
  <2>3. Submit(t)
    BY <1>5 DEF Frame
  <2> HIDE DEF t
  <2> QED
    BY <1>1, <2>2, <2>3, SubmitAdds
<1> QED
  BY <1>2, <1>3, <1>4, <1>5 DEF Next

\* A commit as it happened.
Closes(p, q, skip, pool, late, T, L, r) ==
  /\ p \in Nodes /\ (p \in Honest => q = mempool /\ skip = {}) /\ ToSet(q) \subseteq ToSet(pool)
  /\ pool \in Seq(Txs) /\ Swelled(pool, mempool) /\ OneVote(ToSet(pool), ledger.voters)
  /\ late \in Seq(Txs) /\ Late(late, pool)
  /\ Outcome(q, skip, p, ToSet(pool), late, T, L, r)

LEMMA CommitIs ==
  ASSUME NetTypeOK, Queued, Commits
  PROVE  \E p, q, skip, pool, late, T, L, r : Closes(p, q, skip, pool, late, T, L, r)
<1>1. PICK p, q, skip, txs, pool, late :
        /\ p \in Nodes /\ MadeFrom(p, q, skip, txs) /\ Swelled(pool, mempool) /\ late \in Seq(Txs) /\ Late(late, pool)
        /\ Finalise(txs, p, pool, late)
  BY DEF Commits
<1>2. q \in Seq(Txs) /\ txs = Built(ledger, q, skip).txs /\ pool \in Seq(Txs) /\ ToSet(q) \subseteq ToSet(pool)
      /\ (p \in Honest => q = mempool /\ skip = {})
  BY <1>1 DEF MadeFrom, Swelled
<1>3. OneVote(ToSet(pool), ledger.voters)
  BY <1>1, SwellsOneVote DEF Queued
<1>4. PICK L, r : Outcome(q, skip, p, ToSet(pool), late, ToSet(txs), L, r)
  BY <1>1, <1>2, Outcomes
<1>5. Closes(p, q, skip, pool, late, ToSet(txs), L, r)
  BY <1>1, <1>2, <1>3, <1>4 DEF Closes
<1> QED
  BY <1>5

LEMMA QueuedStarts == Init => Queued
<1> SUFFICES ASSUME Init
             PROVE  Queued
  OBVIOUS
<1>1. ToSet(mempool) = {} /\ \A n \in Nodes : ledger.nonce[n] = 0
  BY DEF Init, ToSet
<1>2. ASSUME NEW n \in Nodes
      PROVE  InLine({}, n, 0)
  <2>1. Line({}, n, 0, 0)
    BY DEF Line, Of
  <2> QED
    BY <2>1 DEF InLine
<1> QED
  BY <1>1, <1>2 DEF Queued, OneVote

LEMMA QueuedStep ==
  ASSUME NetInv, Queued, Next
  PROVE  Queued'
<1>1. NetTypeOK
  BY DEF NetInv
<1>2. CASE Adds
  BY <1>2 DEF Adds
<1>3. CASE Commits
  <2>1. PICK p, q, skip, pool, late, T, L, r : Closes(p, q, skip, pool, late, T, L, r)
    BY <1>1, <1>3, CommitIs
  <2> QED
    BY <1>1, <2>1, CommitQueues DEF Closes
<1> QED
  BY <1>2, <1>3, StepIs

LEMMA QueuedStutters ==
  ASSUME Queued, UNCHANGED vars
  PROVE  Queued'
BY DEF vars, Queued

\* What leads up to an accusation is still there after the block, or was in it: nothing
\* else in the pool has those nonces, and what is submitted late comes after them.
LEMMA LeadsOn ==
  ASSUME NetTypeOK, Queued, NEW q, NEW skip, NEW p, NEW pool \in Seq(Txs), NEW late \in Seq(Txs), NEW T, NEW L, NEW r,
         Outcome(q, skip, p, ToSet(pool), late, T, L, r), Swelled(pool, mempool), Late(late, pool),
         NEW e \in Accusations, Leads(e), ~ Spoilt(e),
         NEW t \in Of(ToSet(pool), e.sender), t.nonce < e.nonce, ledger'.nonce[e.sender] <= t.nonce
  PROVE  t \in L
<1> DEFINE P == ToSet(pool)
           M == ToSet(mempool)
           n == e.sender
           b == ledger.nonce[n]
           O == Of(P, n)
<1>1. /\ P \in SUBSET Txs /\ M \in SUBSET Txs /\ M \subseteq P /\ e \in M /\ IsFiniteSet(P)
      /\ n \in Nodes /\ e.nonce \in Nat /\ b \in Nat /\ t.nonce \in Nat
  <2>0. mempool \in Seq(Txs)
    BY DEF NetTypeOK
  <2>1. P \in SUBSET Txs /\ M \in SUBSET Txs /\ M \subseteq P /\ e \in M
    <3>1. P \in SUBSET Txs /\ M \in SUBSET Txs
      BY <2>0 DEF ToSet
    <3>2. M \subseteq P /\ e \in M
      BY DEF Swelled, Accusations
    <3> QED
      BY <3>1, <3>2
  <2>2. n \in Nodes /\ e.nonce \in Nat /\ t.nonce \in Nat
    BY <2>1 DEF Txs, Of
  <2> QED
    BY <2>1, <2>2, ToSetFinite DEF NetTypeOK, Ledgers
<1>2. PICK c \in Nat : c >= b /\ Line(P, n, b, c)
  <2>1. InLine(P, n, b)
    BY <1>1 DEF Queued, Swelled
  <2> QED
    BY <2>1 DEF InLine
<1>3. /\ \A x \in O : x.nonce >= b /\ x.nonce # c
      /\ \A x, y \in O : x.nonce = y.nonce /\ x.nonce < c => x = y
  BY <1>2 DEF Line
<1>4. /\ \A k \in b .. e.nonce - 1 : \E x \in M : x.sender = n /\ x.nonce = k
      /\ \A x \in M : x.sender = n => x \in O
  BY <1>1 DEF Leads, Of
<1>5. \A x \in M : x.sender = n /\ ledger'.nonce[n] <= x.nonce /\ x.nonce < e.nonce => x \in ToSet(mempool')
  BY DEF Spoilt
<1>6. t \in O /\ e \in O /\ t.sender = n /\ t.nonce < e.nonce /\ ledger'.nonce[n] <= t.nonce
  BY <1>1 DEF Of
<1>7. ToSet(mempool') = L \cup {x \in ToSet(late) : x.nonce >= ledger'.nonce[x.sender]}
  BY DEF Outcome
<1>12. c - b <= Cardinality(Of(P, n)) /\ Cardinality(Of(P, n)) \in Nat
  BY <1>1, <1>2, LineCounted
<1> HIDE DEF P, M, n, b, O
<1>8. e.nonce < c
  <2>1. e.nonce # c
    BY <1>3, <1>6
  <2>2. ASSUME e.nonce > c
        PROVE  FALSE
    <3>1. c \in b .. e.nonce - 1
      BY <1>1, <1>2, <2>2
    <3>2. PICK x \in M : x.sender = n /\ x.nonce = c
      BY <1>4, <3>1
    <3> QED
      BY <1>3, <1>4, <3>2
  <2> QED
    BY <1>1, <2>1, <2>2
<1>9. t \in M
  <2>1. t.nonce \in b .. e.nonce - 1
    BY <1>1, <1>3, <1>6
  <2>2. PICK x \in M : x.sender = n /\ x.nonce = t.nonce
    BY <1>4, <2>1
  <2>3. x = t
    BY <1>1, <1>3, <1>4, <1>6, <1>8, <2>2
  <2> QED
    BY <2>2, <2>3
<1>10. t \in ToSet(mempool')
  BY <1>5, <1>6, <1>9
<1>11. t \notin ToSet(late)
  <2>1. CASE late = <<>>
    BY <2>1 DEF ToSet
  <2>2. CASE pool = mempool /\ \A m \in Nodes : \E g \in Nat : Full(ToSet(late), m, NextNonce(m, mempool), g)
    <3> DEFINE N == NextNonce(n, mempool)
    <3>1. PICK g \in Nat : Full(ToSet(late), n, N, g)
      BY <1>1, <2>2
    <3>2. t \in ToSet(late) => t.nonce >= N
      <4>1. t \in ToSet(late) => t \in Of(ToSet(late), n)
        BY <1>6 DEF Of
      <4>2. \A x \in Of(ToSet(late), n) : x.nonce >= N
        BY <3>1, Zenon DEF Full, Line
      <4> HIDE DEF N
      <4> QED
        BY <4>1, <4>2
    <3>3. N = b + Cardinality(Of(P, n))
      BY <2>2, OwnIs DEF NextNonce, P, b
    <3> HIDE DEF N
    <3>4. N >= c
      BY <1>1, <1>2, <1>12, <3>3
    <3>5. t.nonce < c
      BY <1>1, <1>6, <1>8
    <3> QED
      BY <1>1, <3>2, <3>3, <3>4, <3>5, <1>12
  <2> QED
    BY <2>1, <2>2 DEF Late
<1> QED
  BY <1>7, <1>10, <1>11

LEMMA AccusationStands ==
  ASSUME NetTypeOK, Queued, Commits \/ Adds,
         NEW e \in Accusations, Leads(e), ~ Spoilt(e), e.about \in ToSet(ledger'.validators)
  PROVE  /\ e.about \in {t.about : t \in Accusations'}
         /\ height' > height => ledger'.by \notin Honest
<1>0. height \in Nat /\ ledger \in Ledgers /\ mempool \in Seq(Txs)
  BY DEF NetTypeOK
<1>1. CASE Adds
  <2>1. e \in Accusations' /\ height' = height
    BY <1>1 DEF Adds, Accusations
  <2> QED
    BY <1>0, <2>1
<1>2. CASE Commits
  <2>1. PICK p, q, skip, pool, late, T, L, r : Closes(p, q, skip, pool, late, T, L, r)
    BY <1>2, CommitIs
  <2> DEFINE P == ToSet(pool)
             M == ToSet(mempool)
             n == e.sender
             b == ledger.nonce[n]
             d == ledger'.nonce[n]
  <2>2. /\ Outcome(q, skip, p, P, late, T, L, r) /\ pool \in Seq(Txs) /\ ToSet(q) \subseteq P
        /\ OneVote(P, ledger.voters)
        /\ Swelled(pool, mempool) /\ late \in Seq(Txs) /\ Late(late, pool) /\ M \subseteq P
        /\ p \in Honest => q = mempool /\ skip = {}
    BY <2>1 DEF Closes, Swelled
  <2>3. P \subseteq Txs
    BY <2>2 DEF ToSet
  <2>4. e \in M /\ e \in P /\ e.kind = "evidence" /\ Proves(e.proof, e.about) /\ n \in Nodes
    BY <2>2, <2>3 DEF Accusations, Txs
  <2>5. /\ InLine(P, n, b)
        /\ \A k \in b .. e.nonce - 1 : \E t \in Of(M, n) : t.nonce = k
        /\ \A k \in b .. e.nonce - 1 : \E t \in Of(P, n) : t.nonce = k
    <3>1. InLine(P, n, b)
      BY <2>2, <2>4 DEF Queued, Swelled
    <3>2. \A k \in b .. e.nonce - 1 : \E t \in Of(M, n) : t.nonce = k
      BY DEF Leads, Of
    <3>3. Of(M, n) \subseteq Of(P, n)
      BY <2>2 DEF Of
    <3> QED
      BY <3>1, <3>2, <3>3
  <2>6. \A t \in Of(P, n) : t.nonce < e.nonce /\ d <= t.nonce => t \in L
    BY <2>2, LeadsOn
  <2>7. Pending(ledger, ledger', P, L, e)
    BY <2>4, <2>5, <2>6 DEF Pending
  <2> HIDE DEF P
  <2>8. Parted(ledger, ledger', r, P, T, L) /\ ledger'.by = p /\ L \subseteq ToSet(mempool')
    BY <1>0, <2>2, <2>3 DEF Parted, Outcome
  <2>9. e.about \in {t.about : t \in Accusations'}
    <3>1. PICK x \in L : x.kind = "evidence" /\ Proves(x.proof, x.about) /\ x.about = e.about
      BY <2>7, <2>8, AccusationLeft
    <3>2. x \in Accusations'
      BY <2>8, <3>1 DEF Accusations
    <3> QED
      BY <3>1, <3>2
  <2>10. ASSUME p \in Honest
         PROVE  FALSE
    <3>1. M \in SUBSET P /\ \A t \in M \ T : ~ Valid(ledger', t)
      BY <2>2, <2>10 DEF Outcome
    <3> HIDE DEF M
    <3> QED
      BY <2>2, <2>4, <2>5, <2>7, <2>8, <3>1, HonestTakes
  <2> QED
    BY <2>8, <2>9, <2>10
<1> QED
  BY <1>1, <1>2

-----------------------------------------------------------------------------
(* The properties of the runs.                                              *)

\* While fewer than a third misbehave, good validators are left and have a quorum.
LEMMA FewFaulty ==
  ASSUME NetTypeOK, 3 * Cardinality(Faulty) < Len(ledger.validators)
  PROVE  Seated /\ ~ Stuck
<1> DEFINE V == ToSet(ledger.validators)
           S == V \ With("silent")
           G == V \ Faulty
           n == Len(ledger.validators)
<1>1. IsFiniteSet(V) /\ Cardinality(V) = n /\ n \in Nat /\ Need = ((2 * n) \div 3) + 1
  BY ValidatorsCounted DEF NetTypeOK, Need, Quorum
<1>2. Faulty \subseteq V /\ IsFiniteSet(Faulty)
  BY <1>1, FS_Subset DEF Faulty
<1>3. Cardinality(G) = n - Cardinality(Faulty) /\ IsFiniteSet(G)
  <2>1. V \cap Faulty = Faulty
    BY <1>2
  <2> HIDE DEF V, n
  <2> QED
    BY <1>1, <2>1, FS_Difference
<1>4. G \subseteq Good
  BY DEF Faulty, Good, Honest
<1>5. G \subseteq S
  BY <1>4 DEF Good, With
<1>6. IsFiniteSet(S)
  BY <1>1, FS_Subset
<1>7. 3 * Cardinality(Faulty) < n
  OBVIOUS
<1>8. Seated <=> Good \cap V # {}
  BY DEF Seated
<1>9. Stuck <=> Cardinality(S) < Need
  BY DEF Stuck
<1>10. G \subseteq V
  OBVIOUS
<1> HIDE DEF V, S, G, n
<1>11. Cardinality(Faulty) \in Nat /\ Cardinality(G) \in Nat /\ Cardinality(S) \in Nat /\ Cardinality(G) <= Cardinality(S)
  BY <1>2, <1>3, <1>5, <1>6, FS_CardinalityType, FS_Subset
<1>12. Cardinality(G) >= ((2 * n) \div 3) + 1
  BY <1>1, <1>3, <1>7, <1>11
<1>13. G # {}
  <2>1. Cardinality(G) # 0
    BY <1>1, <1>11, <1>12
  <2> QED
    BY <2>1, FS_EmptySet
<1> QED
  BY <1>1, <1>4, <1>8, <1>9, <1>10, <1>11, <1>12, <1>13

\* While fewer than a third of the validators misbehave, a call of produce_block never
\* comes back to where it was without a block (consensus.py: Network.produce_block).
THEOREM ProducesAlways == LabSpec => AlwaysProduces
<1>1. LabInit => NetInv
  BY NetStarts DEF LabInit
<1>2. NetInv /\ [LabNext]_<<vars, labVars>> => NetInv'
  BY NetStep, NetStutters DEF LabNext
<1>3. NetInv /\ [LabNext]_<<vars, labVars>> =>
        [3 * Cardinality(Faulty) < Len(ledger.validators) /\ round' # round => round' > round \/ height' > height]_vars
  <2> SUFFICES ASSUME NetInv, LabNext, 3 * Cardinality(Faulty) < Len(ledger.validators), round' # round, ~ UNCHANGED vars
               PROVE  round' > round \/ height' > height
    OBVIOUS
  <2>1. Next
    BY DEF LabNext
  <2>2. Seated /\ ~ Stuck
    BY FewFaulty DEF NetInv
  <2> QED
    BY <2>1, <2>2, NetStep
<1> QED
  BY <1>1, <1>2, <1>3, PTL DEF LabSpec, AlwaysProduces

\* Provided a network has somebody honest, or a censor, to begin with: only equivocators
\* are removed, and nobody honest can be shown to have equivocated in the laboratory,
\* whatever the others send and submit (state.py: submit_evidence, bft.py: equivocators).
THEOREM HonestNeverHarmed ==
  ASSUME Productive
  PROVE  LabSpec => []HonestUnharmed
<1> DEFINE Inv == /\ LabInv /\ NetInv /\ setup \in Setups
                  /\ Laboratory => ledger.slashed = {}
                  /\ ~ Laboratory => Seated
<1>1. LabInit => Inv
  <2> SUFFICES ASSUME LabInit
               PROVE  Inv
    OBVIOUS
  <2>1. NetInv /\ ledger.slashed = {} /\ ToSet(ledger.validators) = Nodes /\ setup \in Setups
    BY NetStarts DEF LabInit
  <2>2. ASSUME ~ Laboratory
        PROVE  Seated
    BY <2>1, <2>2 DEF Productive, Laboratory, Seated, Good, With
  <2> QED
    BY <2>1, <2>2, LabStarts
<1>2. Inv /\ [LabNext]_<<vars, labVars>> => Inv'
  <2> SUFFICES ASSUME Inv, [LabNext]_<<vars, labVars>>
               PROVE  Inv'
    OBVIOUS
  <2>1. LabInv'
    BY LabStep
  <2>2. NetInv' /\ (Seated => Seated') /\ setup' = setup
    BY NetStep, NetStutters DEF LabNext
  <2>3. Laboratory => ledger' = ledger
    BY DEF LabNext, vars
  <2>4. Laboratory' = Laboratory
    BY <2>2 DEF Laboratory
  <2> QED
    BY <2>1, <2>2, <2>3, <2>4
<1>3. Inv => HonestUnharmed
  <2> SUFFICES ASSUME Inv
               PROVE  HonestUnharmed
    OBVIOUS
  <2>1. NeverGuilty
    BY DEF LabInv, VotesOnce, Votes, NeverGuilty, Equivocators
  <2>2. OnlyEquivocatorsSlashed
    BY DEF NetInv, Cheats, OnlyEquivocatorsSlashed
  <2> QED
    BY <2>1, <2>2 DEF HonestUnharmed
<1> QED
  BY <1>1, <1>2, <1>3, PTL DEF LabSpec

\* Whatever waits with it, an accusation that proves what it says stands: until its subject
\* is removed it, or another of the same, is in the mempool, and an honest proposer's block
\* removes him (state.py: submit_evidence, consensus.py: build_block, Node.commit).
THEOREM AccusationsHold == LabSpec => AccusationsStand
<1>1. LabInit => NetInv /\ Queued
  BY NetStarts, QueuedStarts DEF LabInit
<1>2. NetInv /\ Queued /\ [LabNext]_<<vars, labVars>> => NetInv' /\ Queued'
  BY NetStep, NetStutters, QueuedStep, QueuedStutters DEF LabNext
<1>3. NetInv /\ Queued /\ [LabNext]_<<vars, labVars>> =>
        [\A e \in Accusations :
           Leads(e) /\ ~ Spoilt(e) =>
             \/ e.about \notin ToSet(ledger'.validators)
             \/ /\ e.about \in {t.about : t \in Accusations'}
                /\ height' > height => ledger'.by \notin Honest]_vars
  <2> SUFFICES ASSUME NetInv, Queued, LabNext, ~ UNCHANGED vars,
                      NEW e \in Accusations, Leads(e), ~ Spoilt(e), e.about \in ToSet(ledger'.validators)
               PROVE  /\ e.about \in {t.about : t \in Accusations'}
                      /\ height' > height => ledger'.by \notin Honest
    OBVIOUS
  <2>1. Next /\ NetTypeOK
    BY DEF LabNext, NetInv
  <2> QED
    BY <2>1, StepIs, AccusationStands
<1> QED
  BY <1>1, <1>2, <1>3, PTL DEF LabSpec, AccusationsStand
=============================================================================
