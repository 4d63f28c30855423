------------------------------- MODULE CatchUp -------------------------------
(***************************************************************************)
(* How a validator that was down, or is simply late, gets the blocks it    *)
(* missed: Validator of net.py (_handle, _start_height, _install_snapshot).*)
(* One validator is followed; the others hold the same ledger and go on    *)
(* voting on its next block, round after round, whether or not they can    *)
(* finalise it without the late one.                                       *)
(*                                                                         *)
(* A block is its height and every certificate is genuine; what the store  *)
(* does is the subject of Store, what votes decide of TwoPhase.            *)
(***************************************************************************)
EXTENDS Integers, Sequences, FiniteSetsExt

CONSTANTS
  Peers,       \* the other validators
  Mute,        \* those that answer no request (they crashed, or cannot reach us)
  MaxTip,      \* bound: the ledger has this many blocks
  Window,      \* FUTURE_HEIGHTS: messages this far ahead are buffered
  PerHeight,   \* FUTURE_PER_HEIGHT: and this many per height
  Batch,       \* the blocks one reply holds
  Keeps,       \* the values of prune_every of the peers, 0 if they never prune
  MaxVotes,    \* bound: votes are heard while a height has fewer buffered messages
  MaxRestarts  \* bound: the late validator restarts this often

ASSUME CatchUpAssumption ==
  /\ Mute \subseteq Peers
  /\ {MaxTip, MaxVotes, MaxRestarts} \cup Keeps \subseteq Nat
  /\ {Window, PerHeight, Batch} \subseteq Nat \ {0}

VARIABLES
  keep,      \* what the run chose of Keeps
  tip,       \* the height of the others
  base,      \* up to which they have pruned
  height,    \* the height of the late validator
  future,    \* Validator.future: buffered messages by height
  decided,   \* a buffered DECIDE has decided the next block
  announced, \* DECIDE messages under way, by height
  requests,  \* get_blocks under way
  replies,   \* blocks and snapshots under way
  restarts,
  jumped     \* history: the heights snapshots made this process jump over

others == <<keep, tip, base>>
network == <<announced, requests, replies>>
vars == <<others, height, future, decided, network, restarts, jumped>>

Numbers == 1 .. MaxTip + 1
Kinds == {"vote", "decide"}
Request == [to : Peers, from : Numbers]
Reply == [t : {"blocks", "snapshot"}, from : Peers, first : Numbers, last : 0 .. MaxTip]
Empty == [h \in Numbers |-> <<>>]

-----------------------------------------------------------------------------
(* The other validators.                                                    *)

\* They finalise a block and announce it; they prune now and then.
Advance ==
  /\ tip < MaxTip
  /\ tip' = tip + 1
  /\ base' = IF keep # 0 /\ tip' % keep = 0 /\ tip' - base > keep THEN tip' - keep ELSE base
  /\ announced' = announced \cup {tip'}
  /\ UNCHANGED <<keep, height, future, decided, requests, replies, restarts, jumped>>

\* The answer to get_blocks: the state, if the blocks were pruned.
Answer(r) ==
  IF r.from <= base
  THEN [t |-> "snapshot", from |-> r.to, first |-> r.from, last |-> base]
  ELSE [t |-> "blocks", from |-> r.to, first |-> r.from, last |-> Min({r.from + Batch - 1, tip})]

Serve(r) ==
  /\ r \in requests
  /\ requests' = requests \ {r}
  /\ replies' = IF r.to \in Mute THEN replies ELSE replies \cup {Answer(r)}
  /\ UNCHANGED <<others, height, future, decided, announced, restarts, jumped>>

-----------------------------------------------------------------------------
(* The late validator.                                                      *)

\* _start_height: the messages buffered for the new height are handled.
Mutant_KeepBuffer(heights) == future
Without(heights) == [h \in Numbers |-> IF h \in heights THEN <<>> ELSE future[h]]

StartHeight(new, handled) ==
  /\ height' = new
  /\ future' = Without(handled)
  /\ decided' = (new < MaxTip /\ "decide" \in {future[new + 1][k] : k \in DOMAIN future[new + 1]})

Mutant_SkipsOne == height + 2
NextMissing == height + 1

\* There is room for a message of height h, further ahead than the next.
Mutant_NoWindow(h) == Len(future[h]) < PerHeight
Mutant_OneMore(h) == h <= height + Window /\ Len(future[h]) <= PerHeight
Room(h) == h <= height + Window /\ Len(future[h]) < PerHeight

\* A message for a height beyond the next is buffered; the first one of its height
\* makes the validator ask the sender for the blocks in between.
Buffer(p, h, kind) ==
  /\ h > height + 1
  /\ Room(h)
  /\ future' = [future EXCEPT ![h] = Append(@, kind)]
  /\ requests' = IF future[h] = <<>> THEN requests \cup {[to |-> p, from |-> NextMissing]} ELSE requests
  /\ UNCHANGED <<others, height, decided, replies, restarts, jumped>>

\* A vote of the height the others are working on, or a delayed one.
HearVote(p, h) ==
  /\ h <= tip + 1 /\ Len(future[h]) < MaxVotes
  /\ Buffer(p, h, "vote")
  /\ UNCHANGED announced

\* A DECIDE for the next height is adopted and committed; a later one is buffered
\* if there is room, an earlier one dropped.
HearDecide(p, h) ==
  /\ h \in announced
  /\ announced' = announced \ {h}
  /\ \/ Buffer(p, h, "decide")
     \/ /\ h = height + 1
        /\ StartHeight(h, {h + 1})
        /\ UNCHANGED <<others, requests, replies, restarts, jumped>>
     \/ /\ h <= height \/ (h > height + 1 /\ ~ Room(h))
        /\ UNCHANGED <<others, height, future, decided, requests, replies, restarts, jumped>>

\* The run loop commits what a buffered DECIDE decided.
CommitDecided ==
  /\ decided
  /\ StartHeight(height + 1, {height + 2})
  /\ UNCHANGED <<others, network, restarts, jumped>>

\* Blocks are taken as long as each is the next one.
Follows(r) == r.first <= height + 1 /\ height < r.last

ReceiveBlocks(r) ==
  /\ r \in replies /\ r.t = "blocks"
  /\ replies' = replies \ {r}
  /\ IF Follows(r) THEN StartHeight(r.last, height + 2 .. r.last + 1)
                   ELSE UNCHANGED <<height, future, decided>>
  /\ UNCHANGED <<others, announced, requests, restarts, jumped>>

\* _install_snapshot: jump, and ask its sender for what follows.  The messages buffered
\* for the heights in between stay.
ReceiveSnapshot(r) ==
  /\ r \in replies /\ r.t = "snapshot"
  /\ replies' = replies \ {r}
  /\ IF r.last > height
     THEN /\ StartHeight(r.last, {r.last + 1})
          /\ requests' = requests \cup {[to |-> r.from, from |-> r.last + 1]}
          /\ jumped' = jumped \cup (height + 2 .. r.last)
     ELSE UNCHANGED <<height, future, decided, requests, jumped>>
  /\ UNCHANGED <<others, announced, restarts>>

\* The process dies and starts again from its store; what was under way is lost.
Restart ==
  /\ restarts < MaxRestarts
  /\ restarts' = restarts + 1
  /\ future' = Empty /\ decided' = FALSE /\ jumped' = {}
  /\ announced' = {} /\ requests' = {} /\ replies' = {}
  /\ UNCHANGED <<others, height>>

Init ==
  /\ keep \in Keeps
  /\ tip = 0 /\ base = 0 /\ height = 0 /\ restarts = 0
  /\ future = Empty /\ decided = FALSE /\ jumped = {}
  /\ announced = {} /\ requests = {} /\ replies = {}

Next ==
  \/ Advance \/ CommitDecided \/ Restart
  \/ \E p \in Peers, h \in Numbers : HearVote(p, h) \/ HearDecide(p, h)
  \/ \E r \in requests : Serve(r)
  \/ \E r \in replies : ReceiveBlocks(r) \/ ReceiveSnapshot(r)

Spec == Init /\ [][Next]_vars

\* Peers vote in every round, connections deliver, and the run loop never stops.
\* Nobody promises that the others get any further without the late validator.
Fairness ==
  /\ \A p \in Peers : WF_vars(HearVote(p, tip + 1))
  /\ WF_vars(\E p \in Peers, h \in Numbers : HearDecide(p, h))
  /\ WF_vars(CommitDecided)
  /\ WF_vars(\E r \in requests : Serve(r))
  /\ WF_vars(\E r \in replies : ReceiveBlocks(r) \/ ReceiveSnapshot(r))
FairSpec == Spec /\ Fairness

-----------------------------------------------------------------------------
\* The shape of the state.
TypeOK ==
  /\ keep \in Keeps /\ tip \in 0 .. MaxTip /\ base \in 0 .. tip /\ height \in 0 .. tip
  /\ future \in [Numbers -> Seq(Kinds)]
  /\ decided \in BOOLEAN
  /\ announced \subseteq 1 .. tip
  /\ requests \subseteq Request /\ replies \subseteq Reply
  /\ restarts \in 0 .. MaxRestarts /\ jumped \subseteq Numbers

\* A validator that is behind gets every block the others have, even if they cannot
\* finalise another one without it (net.py: "get_blocks ... how a node that was down,
\* or simply late, catches up"); as long as it is never further behind than what it
\* buffers and one reply reach (InReach): it drops messages from beyond, and does not
\* ask again for what a reply left out.  From peers that prune it gets at least what they
\* pruned: a snapshot that a DECIDE overtakes is ignored, and with it the request
\* for the blocks after it, until the others finalise another one.
Owed == IF keep = 0 THEN tip ELSE base
InReach == tip < height + Window /\ tip <= height + Batch
CatchesUp == []InReach => \A h \in 1 .. MaxTip : (Owed >= h) ~> (height >= h)

\* At most PerHeight messages are buffered for a height, and only for the heights a
\* window ahead, as the validator moves on by commits, by blocks and by snapshots
\* (net.py: "bounded: cannot be used to fill memory").  What it had buffered for heights
\* a snapshot jumped over stays until it restarts.
BufferBounded ==
  \A h \in Numbers : future[h] # <<>> =>
    /\ Len(future[h]) <= PerHeight
    /\ h \in (height + 2 .. height + Window) \cup jumped
=============================================================================
