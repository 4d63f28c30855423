-------------------------------- MODULE Peers --------------------------------
(***************************************************************************)
(* How a vote gets from one validator process to another: Transport, the    *)
(* listener and its readers, and who may say what, of net.py.  The same     *)
(* validator is followed as in CatchUp; here the others vote, round after   *)
(* round, and it matters whether it hears them.                             *)
(*                                                                         *)
(* Processes die and come back, machines disappear without a word, clients  *)
(* come and go, and a validator is removed.  Places in the founding list    *)
(* name connections, places in the current list name votes.                 *)
(***************************************************************************)
EXTENDS CatchUp, SequencesExt

CONSTANTS
  Us,          \* the validator that is followed
  Founding,    \* the validators of the founding record, in their order
  Scenes,      \* bound: whether a run is about blocks or about connections
  Slots,       \* MAX_CONNECTIONS
  MaxVisits,   \* bound: clients that are served at the same time
  MaxDeaths    \* bound: processes or machines that die

ASSUME PeersAssumption ==
  /\ IsInjective(Founding) /\ ToSet(Founding) = Peers \cup {Us} /\ Us \notin Peers
  /\ Scenes \subseteq {"blocks", "connections"}
  /\ Slots \in Nat \ {0} /\ {MaxVisits, MaxDeaths} \subseteq Nat

VARIABLES
  scene,    \* what the run chose of Scenes
  running,  \* the validators that are up
  members,  \* the validators of the ledger, in their order
  socks,    \* the others that keep a socket to us
  open,     \* of which a reader of ours listens to the other end
  closing,  \* readers whose other end was closed
  dead,     \* readers whose other end is gone without having been closed
  visits,   \* readers that serve a client
  heard,    \* whose votes of this round we took
  deaths
conns == <<socks, open, closing, dead, visits>>
peerVars == <<scene, running, members, conns, heard, deaths>>

-----------------------------------------------------------------------------
\* A vote carries the place of its sender in the current list, its connection the one
\* that was proved with the key of the founding list.
Place(list, v) == IndexFirstSubSeq(<<v>>, list)
Accepted(v) == v \in ToSet(members) /\ Place(members, v) = Place(Founding, v)

Used == Cardinality(open) + closing + dead + visits

\* broadcast: the vote for a round that has begun, over the socket that is kept.
Speaks(p) == scene = "connections" /\ {p, Us} \subseteq running \cap ToSet(members)
Heard(p) == IF Accepted(p) THEN heard \cup {p} ELSE heard

Deliver(p) ==
  /\ Speaks(p) /\ p \in socks \cap open
  /\ heard' = Heard(p) /\ heard' # heard
  /\ UNCHANGED <<scene, running, members, conns, deaths>>

\* We have died since: the first frame is lost, and one of the next fails.
Discard(p) ==
  /\ scene = "connections" /\ p \in (socks \ open) \cap running
  /\ socks' = socks \ {p}
  /\ UNCHANGED <<scene, running, members, open, closing, dead, visits, heard, deaths>>

\* No socket: connect, answer the challenge, and send.  Where the listener has no free
\* slot it refuses, and the vote is lost.
Connect(p) ==
  /\ Speaks(p) /\ p \notin socks /\ Used < Slots
  /\ socks' = socks \cup {p} /\ open' = open \cup {p} /\ heard' = Heard(p)
  /\ UNCHANGED <<scene, running, members, closing, dead, visits, deaths>>

\* A reader notices that its other end was closed, and gives its slot back.
Mutant_Keep(n) == n
Release(n) == n - 1
Close ==
  /\ closing > 0 /\ closing' = Release(closing)
  /\ UNCHANGED <<scene, running, members, socks, open, dead, visits, heard, deaths>>

\* Client._call: connect, ask, read the answer, close.
Visit ==
  /\ scene = "connections" /\ Us \in running /\ visits < MaxVisits /\ Used < Slots
  /\ visits' = visits + 1
  /\ UNCHANGED <<scene, running, members, socks, open, closing, dead, heard, deaths>>
Leave ==
  /\ visits > 0 /\ visits' = visits - 1 /\ closing' = closing + 1
  /\ UNCHANGED <<scene, running, members, socks, open, dead, heard, deaths>>

\* The timeouts begin a new round, in which everyone votes again.
NewRound ==
  /\ scene = "connections" /\ heard # {} /\ heard' = {}
  /\ UNCHANGED <<scene, running, members, conns, deaths>>

-----------------------------------------------------------------------------
\* Another process dies, and the system closes its sockets; or its machine does.
Die(p, silently) ==
  /\ scene = "connections" /\ deaths < MaxDeaths /\ p \in running
  /\ deaths' = deaths + 1 /\ running' = running \ {p}
  /\ socks' = socks \ {p} /\ open' = open \ {p}
  /\ IF p \notin open THEN UNCHANGED <<closing, dead>>
     ELSE IF silently THEN dead' = dead + 1 /\ UNCHANGED closing
     ELSE closing' = closing + 1 /\ UNCHANGED dead
  /\ UNCHANGED <<scene, members, visits, heard>>

\* Our process dies: nobody is listened to any more, and nobody is told.
DieOurselves ==
  /\ scene = "connections" /\ deaths < MaxDeaths /\ Us \in running
  /\ deaths' = deaths + 1 /\ running' = running \ {Us}
  /\ open' = {} /\ closing' = 0 /\ dead' = 0 /\ visits' = 0
  /\ heard' = {}
  /\ UNCHANGED <<scene, members, socks>>

\* A validator that was removed finds no place for itself when it starts.
Start(v) ==
  /\ scene = "connections" /\ v \in ToSet(members) \ running
  /\ running' = running \cup {v}
  /\ UNCHANGED <<scene, members, conns, heard, deaths>>

\* The validators have voted to remove one of them: all commit the block that says so.
RemoveMember(v) ==
  /\ scene = "connections" /\ Len(members) = Len(Founding) /\ heard = Peers
  /\ members' = SelectSeq(members, LAMBDA m : m # v)
  /\ UNCHANGED <<scene, running, conns, heard, deaths>>

PeersInit ==
  /\ Init
  /\ scene \in Scenes /\ (scene = "connections" => \A k \in Keeps : keep <= k)
  /\ running = Peers \cup {Us} /\ members = Founding
  /\ socks = {} /\ open = {} /\ closing = 0 /\ dead = 0 /\ visits = 0
  /\ heard = {} /\ deaths = 0

Connections ==
  \/ \E p \in Peers : Deliver(p) \/ Discard(p) \/ Connect(p)
  \/ \E p \in Peers, silently \in BOOLEAN : Die(p, silently)
  \/ \E v \in Peers \cup {Us} : Start(v) \/ RemoveMember(v)
  \/ Close \/ Visit \/ Leave \/ NewRound \/ DieOurselves

PeersNext ==
  \/ scene = "blocks" /\ Next /\ UNCHANGED peerVars
  \/ Connections /\ UNCHANGED vars

allVars == <<vars, peerVars>>

\* Rounds time out, so there is always another vote to send, and one of the attempts to
\* connect meets a free slot if there is one again and again; sockets fail when they are
\* used; readers run and clients finish.
PeersSpec ==
  /\ PeersInit /\ [][PeersNext]_allVars
  /\ Fairness
  /\ \A p \in Peers : WF_peerVars(Deliver(p)) /\ WF_peerVars(Discard(p)) /\ SF_peerVars(Connect(p))
  /\ WF_peerVars(Close) /\ WF_peerVars(Leave)

-----------------------------------------------------------------------------
\* The votes of a validator that runs reach us again and again, however often either
\* was started anew: slots and sockets come back.  Except when its place in the list has
\* changed, because one before it was removed (net.py: "a peer may only speak for
\* itself"), or when readers of connections that vanished hold the slots it needs.
Reaches(p) ==
  /\ {p, Us} \subseteq running \cap ToSet(members) /\ Accepted(p)
  /\ dead + MaxVisits + Cardinality(Peers) <= Slots
VotesGetThrough ==
  scene = "connections" => \A p \in Peers : <>[]Reaches(p) => []<>(p \in heard)
=============================================================================
