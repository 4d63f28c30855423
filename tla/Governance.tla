----------------------------- MODULE Governance -----------------------------
(***************************************************************************)
(* Who may validate, attest and set policy, and who decides it: state.py   *)
(* (_validator_vote, _evidence, _register, _key_rotate), and how the       *)
(* network of net.py goes on addressing the validators afterwards.  One    *)
(* step is one transaction applied in a block; that all validators apply   *)
(* the same transactions in the same order is the subject of TwoPhase.     *)
(*                                                                         *)
(* Honest validators vote only for motions in Approved; faulty ones vote   *)
(* for anything, and have signed two votes of one round somewhere.         *)
(***************************************************************************)
EXTENDS Integers, Sequences, SequencesExt, FiniteSets

CONSTANTS
  Keys,       \* account addresses
  Genesis,    \* the validators of the founding record, in order
  Issuers,    \* the issuers of the founding record
  Faulty,     \* the keys of faulty validators
  Agenda,     \* bound: the motions anybody may vote for
  Approved,   \* the motions honest validators vote for
  Registering \* the keys people may register as ordinary accounts

\* A motion is about a key, or about the value of the policy parameter.
Motions == [action : {"ADD", "REMOVE", "ADD_ISSUER", "REMOVE_ISSUER"}, target : Keys]
             \cup [action : {"SET_POLICY"}, target : Nat]

ASSUME GovernanceAssumption ==
  /\ Genesis \in Seq(Keys) /\ IsInjective(Genesis) /\ Genesis # <<>>
  /\ Issuers \subseteq Keys \ ToSet(Genesis)
  /\ Faulty \subseteq Keys /\ Registering \subseteq Keys
  /\ Agenda \subseteq Motions
  /\ Approved \subseteq Agenda

VARIABLES
  validators, \* State.validators
  slashed,    \* State.slashed
  issuers,    \* State.issuers
  policy,     \* State.policy: one parameter
  tally,      \* State.gov_votes
  role,       \* the role of each account, "none" for a key without one
  replaced    \* keys whose account moved to a successor
vars == <<validators, slashed, issuers, policy, tally, role, replaced>>

-----------------------------------------------------------------------------
Mutant_Third(n) == n \div 3
Mutant_Unanimous(n) == n
Quorum(n) == (2 * n) \div 3 + 1
Active == ToSet(validators)
NoVotes == [m \in Agenda |-> {}]

CanSend(k) == role[k] # "none" /\ k \notin replaced

\* Who may be voted in: neither a validator nor ever slashed.
Mutant_SlashedReturn(k) == k \notin Active
Eligible(k) == k \notin Active \cup slashed

\* What makes a motion admissible at the moment of a vote.
Admissible(m) ==
  CASE m.action = "ADD"           -> Eligible(m.target)
    [] m.action = "REMOVE"        -> m.target \in Active /\ Len(validators) > 1
    [] m.action = "ADD_ISSUER"    -> role[m.target] = "none"
    [] m.action = "REMOVE_ISSUER" -> m.target \in issuers
    [] OTHER                      -> TRUE

\* accounts.setdefault: a key that has an account keeps its role.
WithAccount(k, r) == IF role[k] = "none" THEN [role EXCEPT ![k] = r] ELSE role

Enact(m) ==
  CASE m.action = "ADD" ->
         /\ validators' = Append(validators, m.target)
         /\ role' = WithAccount(m.target, "validator")
         /\ UNCHANGED <<issuers, policy>>
    [] m.action = "REMOVE" ->
         /\ validators' = RemoveFirst(validators, m.target)
         /\ UNCHANGED <<issuers, policy, role>>
    [] m.action = "ADD_ISSUER" ->
         /\ issuers' = issuers \cup {m.target}
         /\ role' = WithAccount(m.target, "issuer")
         /\ UNCHANGED <<validators, policy>>
    [] m.action = "REMOVE_ISSUER" ->
         /\ issuers' = issuers \ {m.target}
         /\ UNCHANGED <<validators, policy, role>>
    [] OTHER ->
         /\ policy' = m.target
         /\ UNCHANGED <<validators, issuers, role>>

-----------------------------------------------------------------------------
(* The transactions.                                                        *)

\* _validator_vote.  An enacted motion voids every pending tally.
ValidatorVote(v, m) ==
  /\ v \in Active /\ CanSend(v)
  /\ v \in Faulty \/ m \in Approved
  /\ Admissible(m)
  /\ v \notin tally[m]
  /\ LET voters == tally[m] \cup {v} IN
     IF Cardinality(voters \cap Active) >= Quorum(Len(validators))
     THEN Enact(m) /\ tally' = NoVotes
     ELSE /\ tally' = [tally EXCEPT ![m] = voters]
          /\ UNCHANGED <<validators, issuers, policy, role>>
  /\ UNCHANGED <<slashed, replaced>>

\* _evidence: two valid votes of one round by an active validator.
Mutant_KeepTallies == tally
TalliesAfterSlash == NoVotes
Evidence(v) ==
  /\ v \in Active \cap Faulty
  /\ validators' = RemoveFirst(validators, v)
  /\ slashed' = slashed \cup {v}
  /\ tally' = TalliesAfterSlash
  /\ UNCHANGED <<issuers, policy, role, replaced>>

\* _register
Register(k) ==
  /\ k \in Registering /\ role[k] = "none"
  /\ role' = [role EXCEPT ![k] = "citizen"]
  /\ UNCHANGED <<validators, slashed, issuers, policy, tally, replaced>>

\* _key_rotate: the account moves to a fresh key.
KeyRotate(k, new) ==
  /\ CanSend(k) /\ role[k] \notin {"validator", "issuer"}
  /\ new \in Registering /\ role[new] = "none"
  /\ role' = [role EXCEPT ![new] = role[k]]
  /\ replaced' = replaced \cup {k}
  /\ UNCHANGED <<validators, slashed, issuers, policy, tally>>

-----------------------------------------------------------------------------
Init ==
  /\ validators = Genesis /\ slashed = {} /\ issuers = Issuers /\ policy = 0
  /\ tally = NoVotes
  /\ role = [k \in Keys |-> IF k \in ToSet(Genesis) THEN "validator"
                            ELSE IF k \in Issuers THEN "issuer" ELSE "none"]
  /\ replaced = {}

Next ==
  \/ \E v \in Keys, m \in Agenda : ValidatorVote(v, m)
  \/ \E v \in Keys : Evidence(v)
  \/ \E k \in Keys : Register(k)
  \/ \E k, new \in Keys : KeyRotate(k, new)

Spec == Init /\ [][Next]_vars

\* An honest validator goes on voting for what it approves of.
Fairness ==
  \A v \in Keys \ Faulty, m \in Approved : WF_vars(ValidatorVote(v, m))
FairSpec == Spec /\ Fairness

-----------------------------------------------------------------------------
(* What the promises below rest on, of the people involved.                 *)

Removal(v) == [action |-> "REMOVE", target |-> v]

\* Fewer than a third of the founding validators are faulty, and honest ones remove
\* only faulty ones and bring in none, except a founding one that they never remove
\* either (it cannot come back: it goes only by being slashed).
FewFaulty == 3 * Cardinality(ToSet(Genesis) \cap Faulty) < Len(Genesis)
Prudent ==
  \A m \in Approved :
    /\ m.action = "REMOVE" => m.target \in Faulty
    /\ m.action = "ADD" /\ m.target \in Faulty =>
         m.target \in ToSet(Genesis) /\ Removal(m.target) \notin Approved

-----------------------------------------------------------------------------
\* The shape of the state; no validator is listed twice.
TypeOK ==
  /\ validators \in Seq(Keys) /\ IsInjective(validators)
  /\ slashed \subseteq Keys /\ issuers \subseteq Keys /\ policy \in Nat
  /\ tally \in [Agenda -> SUBSET Keys]
  /\ role \in [Keys -> {"none", "citizen", "validator", "issuer"}]
  /\ replaced \subseteq Keys

\* A slashed validator is out for good, whatever was being voted on (state.py: "slashed
\* validators cannot return"), and no tally already has its quorum: a motion is enacted by
\* the vote that completes it, and no change of the set leaves behind votes that would now
\* suffice.
SlashedStayOut == slashed \cap Active = {}
PendingUndecided ==
  /\ SlashedStayOut
  /\ \A m \in Agenda :
       tally[m] \subseteq Active /\ Cardinality(tally[m]) < Quorum(Len(validators))

\* Governance preserves what consensus relies on: if fewer than a third of the
\* founding validators are faulty, so are fewer than a third of every later set.
FaultsStayBelowThird ==
  3 * Cardinality(Active \cap Faulty) < Len(validators)

\* Issuers, policy and the seats of honest validators change only by a motion that
\* honest validators voted for.
OnlyApprovedEnacted ==
  [][ /\ \A i \in issuers \ issuers' : [action |-> "REMOVE_ISSUER", target |-> i] \in Approved
      /\ \A i \in issuers' \ issuers : [action |-> "ADD_ISSUER", target |-> i] \in Approved
      /\ \A v \in (Active \ Active') \ Faulty : [action |-> "REMOVE", target |-> v] \in Approved
      /\ \A v \in Active' \ Active : [action |-> "ADD", target |-> v] \in Approved
      /\ policy' # policy => [action |-> "SET_POLICY", target |-> policy'] \in Approved ]_vars

\* Every motion honest validators approve of is eventually enacted or pointless,
\* in spite of the tallies other motions and evidence void in between.
ApprovedIsEnacted ==
  \A m \in Approved : m.action # "SET_POLICY" => <>(~ Admissible(m))

\* A validator's key is never replaced (state.py: "validators and issuers change
\* keys through governance votes").  Not so for a citizen who was voted in: its role
\* stays what it was.
ValidatorsKeepTheirKeys == Active \cap replaced = {}

\* Peers take consensus messages only from the index they know a validator by: its
\* place in the current list must be its place in the founding record.
Heard(v) ==
  \E i \in DOMAIN validators \cap DOMAIN Genesis : validators[i] = v /\ Genesis[i] = v

\* A quorum of the validators can be heard, so the ledger can go on.  Not so after the
\* removal of a validator that others follow in the list.
QuorumIsHeard ==
  Cardinality({v \in Active : Heard(v)}) >= Quorum(Len(validators))
=============================================================================
