------------------------------ MODULE SinglePhase ------------------------------
(***************************************************************************)
(* The laboratory of bft.py: one height decided by SinglePhaseNode, in one  *)
(* round of votes, on a Sim whose adversary delays messages for as long as  *)
(* it likes.  What TwoPhase has locks for goes wrong here.                  *)
(*                                                                         *)
(* Nothing is lost and everything is relayed, so a node may have seen any   *)
(* part of what was sent; more of it never takes a possibility away, and    *)
(* whatever a node acts on it has seen by then.  A vote for no block counts *)
(* nowhere and is left out.                                                 *)
(***************************************************************************)
EXTENDS Networks

CONSTANTS
  Table,     \* the validators of the laboratory, in their order
  Liars,     \* bound: the sets of them that may lie
  MaxRound   \* bound

Voters == ToSet(Table)
ASSUME SinglePhaseAssumption ==
  Table \in Seq(Voters) /\ IsInjective(Table) /\ Liars \subseteq SUBSET Voters /\ MaxRound \in Nat

VARIABLES
  liars,    \* what the run chose of Liars
  place,    \* where each node is: its round and its step
  sent,     \* the signed messages
  decision  \* what each node decided: at most one block
labVars == <<liars, place, sent, decision>>

\* A block is named after its round and the story it tells; honest ones tell one.
Blocks == [round : 0 .. MaxRound, story : 1 .. 2]
Msg == [kind : {"PROPOSAL", "VOTE", "DECIDE"}, round : 0 .. MaxRound, value : Blocks, src : Voters]
Message(kind, r, value, src) == [kind |-> kind, round |-> r, value |-> value, src |-> src]

Turn(r) == Table[(r % Len(Table)) + 1]

\* The proposals of a round; those of others than its proposer are not recorded.
Offers(r) == {m.value : m \in {x \in sent : x.kind = "PROPOSAL" /\ x.round = r /\ x.src = Turn(r)}}
Senders(r, value) == {m.src : m \in {x \in sent : x.kind = "VOTE" /\ x.round = r /\ x.value = value}}
\* A quorum of votes in any round.
Decidable(value) == \E r \in 0 .. MaxRound : Cardinality(Senders(r, value)) >= Quorum(Len(Table))

-----------------------------------------------------------------------------
\* start_round: the proposer makes a new block in every round.
Begun(r, i) == IF Turn(r) = i THEN {Message("PROPOSAL", r, [round |-> r, story |-> 1], i)} ELSE {}

Running(i) == i \notin liars /\ decision[i] = {}

\* evaluate: vote for a proposal of the current round, once.
Mutant_AnyStep(i) == TRUE
Free(i) == place[i].step = "propose"
CastVote(i) ==
  /\ Running(i) /\ Free(i)
  /\ \E value \in Offers(place[i].round) :
       sent' = sent \cup {Message("VOTE", place[i].round, value, i)}
  /\ place' = [place EXCEPT ![i].step = "vote"]
  /\ UNCHANGED <<liars, decision>>

\* _decide, and the announcement of it.
DecideBlock(i) ==
  /\ Running(i)
  /\ \E value \in Blocks :
       /\ Decidable(value)
       /\ decision' = [decision EXCEPT ![i] = {value}]
       /\ sent' = sent \cup {Message("DECIDE", place[i].round, value, i)}
  /\ UNCHANGED <<liars, place>>

\* _adopt: an announcement is taken without its votes.
AdoptDecision(i) ==
  /\ Running(i)
  /\ \E m \in sent : m.kind = "DECIDE" /\ decision' = [decision EXCEPT ![i] = {m.value}]
  /\ UNCHANGED <<liars, place, sent>>

\* tick: the timers are unconditional.
Tick(i) ==
  /\ Running(i)
  /\ IF place[i].step = "propose"
     THEN place' = [place EXCEPT ![i].step = "vote"] /\ UNCHANGED sent
     ELSE /\ place[i].round < MaxRound
          /\ place' = [place EXCEPT ![i] = [round |-> @.round + 1, step |-> "propose"]]
          /\ sent' = sent \cup Begun(place[i].round + 1, i)
  /\ UNCHANGED <<liars, decision>>

\* ByzantineNode and ColludingNode: any proposals and votes in their own name, but no
\* announcement.  What they may ever say is there from the start, as nobody need see it.
Lies ==
  {Message(kind, r, value, i) : kind \in {"PROPOSAL", "VOTE"}, r \in 0 .. MaxRound, value \in Blocks, i \in liars}

\* A run is about a network or about the laboratory.
Laboratory == setup.network = "laboratory"
LabInit ==
  /\ Init
  /\ liars \in IF Laboratory THEN Liars ELSE {{}}
  /\ place = [i \in Voters |-> [round |-> 0, step |-> "propose"]]
  /\ sent = (UNION {Begun(0, i) : i \in Voters \ liars}) \cup Lies
  /\ decision = [i \in Voters |-> {}]

LabNext ==
  \/ ~ Laboratory /\ Next /\ UNCHANGED labVars
  \/ Laboratory /\ UNCHANGED vars /\ \E i \in Voters :
       CastVote(i) \/ DecideBlock(i) \/ AdoptDecision(i) \/ Tick(i)

LabSpec == LabInit /\ [][LabNext]_<<vars, labVars>>

-----------------------------------------------------------------------------
\* equivocators: who signed two blocks in one round.
Mutant_AnyRound(votes) ==
  {v \in Voters : \E m, o \in votes : m.src = v /\ o.src = v /\ m.value # o.value}
Equivocators(votes) ==
  {v \in Voters : \E m, o \in votes : m.src = v /\ o.src = v /\ m.round = o.round /\ m.value # o.value}

\* With fewer than a third lying, one round of votes never forks by itself: it takes an
\* honest validator that voted for both blocks, in two rounds, as it may (bft.py: "that
\* validator's lock is what makes two conflicting decisions impossible").
ForkNeedsTwoRounds ==
  3 * Cardinality(liars) < Len(Table) =>
    \A a, b \in UNION {decision[i] : i \in Voters \ liars} :
      a # b => \E r, s \in 0 .. MaxRound : r # s /\ (Senders(r, a) \cap Senders(s, b)) \ liars # {}

\* Nobody honest is removed for equivocation, or could be shown to have equivocated in the
\* laboratory, in however many rounds it voted, whatever it is told and whoever accuses it.
NeverGuilty == Equivocators({m \in sent : m.kind = "VOTE"}) \subseteq liars
HonestUnharmed == OnlyEquivocatorsSlashed /\ NeverGuilty
=============================================================================
