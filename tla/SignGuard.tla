------------------------------ MODULE SignGuard ------------------------------
(***************************************************************************)
(* The durable signing journal of jurisledger/signguard.py: one validator's *)
(* key over many heights, through crashes, power cuts and failed writes.   *)
(* The protocol may ask for any signature in any order; what it asks for   *)
(* at one height is the subject of TwoPhase.                               *)
(*                                                                         *)
(* A save is os.replace of a synced temporary file followed by an fsync of *)
(* the directory.  disk is the file the operating system shows, durable    *)
(* what is sure to survive a power cut; they differ between the two calls, *)
(* and for good where the directory cannot be synced (DirFsync = FALSE).   *)
(***************************************************************************)
EXTENDS Integers

CONSTANTS
  Heights, Rounds,    \* subsets of Nat
  Values, Nil,        \* block hashes, and the nil vote
  DirFsync,           \* whether the filesystem can sync a directory
  Histories           \* what strikes in the life of a validator: sets of
                      \* "kill" (the process) and "power"

ASSUME GuardAssumption ==
  /\ Heights \subseteq Nat \ {0} /\ Rounds \subseteq Nat
  /\ Nil \notin Values
  /\ DirFsync \in BOOLEAN
  /\ Histories \subseteq SUBSET {"kill", "power"}

VARIABLES
  mem,        \* the SignGuard object
  disk,       \* sign_state.json
  durable,    \* what a power cut is sure to leave
  saving,     \* the record a save is writing: replaced, not yet returned
  up,         \* the process is running
  failures,   \* what strikes in this life
  released    \* signatures handed to the caller

guardVars == <<mem, disk, durable, saving, up, failures, released>>

Votes == [height : Heights, round : Rounds, step : 1..3, value : Values \cup {Nil}]
Records == [height : Heights \cup {0}, round : Rounds \cup {-1}, step : 0..3,
            value : Values \cup {Nil},
            lockHeight : Heights \cup {0}, lockRound : Rounds \cup {-1},
            lockValue : Values \cup {Nil}]

Fresh == [height |-> 0, round |-> -1, step |-> 0, value |-> Nil,
          lockHeight |-> 0, lockRound |-> -1, lockValue |-> Nil]
None == [Fresh EXCEPT !.height = -1]    \* no save under way

-----------------------------------------------------------------------------
\* The order of positions (height, round, step).
Before(p, q) ==
  \/ p.height < q.height
  \/ p.height = q.height /\ p.round < q.round
  \/ p.height = q.height /\ p.round = q.round /\ p.step < q.step

SamePosition(p, q) ==
  p.height = q.height /\ p.round = q.round /\ p.step = q.step

\* The record after vote s: the lock moves with a non-nil precommit.
Mutant_LockOnNil(j, s) ==
  LET locks == s.step = 3 IN
  [height |-> s.height, round |-> s.round, step |-> s.step, value |-> s.value,
   lockHeight |-> IF locks THEN s.height ELSE j.lockHeight,
   lockRound |-> IF locks THEN s.round ELSE j.lockRound,
   lockValue |-> IF locks THEN s.value ELSE j.lockValue]
Successor(j, s) ==
  LET locks == s.step = 3 /\ s.value # Nil IN
  [height |-> s.height, round |-> s.round, step |-> s.step, value |-> s.value,
   lockHeight |-> IF locks THEN s.height ELSE j.lockHeight,
   lockRound |-> IF locks THEN s.round ELSE j.lockRound,
   lockValue |-> IF locks THEN s.value ELSE j.lockValue]

\* lock_for and resume_round: where a restarted validator takes up a height.
LockFor(j, h) ==
  IF j.lockHeight = h THEN <<j.lockRound, j.lockValue>> ELSE <<-1, Nil>>
ResumeRound(j, h) ==
  IF j.height = h /\ j.round > 0 THEN j.round ELSE 0

-----------------------------------------------------------------------------
Idle == up /\ saving = None

\* The same vote again: the stored signature is returned.  An earlier position,
\* or another value at this one, is refused, which changes nothing here.
Repeat(s) ==
  /\ Idle /\ SamePosition(s, mem) /\ s.value = mem.value
  /\ released' = released \cup {s}
  /\ UNCHANGED <<mem, disk, durable, saving, up, failures>>

\* A later position: the file is replaced first.  A write that fails before
\* os.replace raises, and leaves memory and file as they were.
Replace(s) ==
  /\ Idle /\ Before(mem, s)
  /\ saving' = Successor(mem, s)
  /\ disk' = saving'
  /\ UNCHANGED <<mem, durable, up, released, failures>>

\* The directory is synced, or cannot be (the OSError is swallowed); memory
\* follows the file and the signature is handed out.
Mutant_ReleaseFirst(s) ==
  /\ Idle /\ Before(mem, s)
  /\ mem' = Successor(mem, s)
  /\ released' = released \cup {s}
  /\ UNCHANGED <<disk, durable, saving, up, failures>>
Finish(s) ==
  /\ up /\ saving # None /\ SamePosition(s, saving) /\ s.value = saving.value
  /\ durable' = IF DirFsync THEN saving ELSE durable
  /\ mem' = saving
  /\ released' = released \cup {s}
  /\ saving' = None
  /\ UNCHANGED <<disk, up, failures>>

\* The process is killed, at any point of a save.
Kill ==
  /\ up /\ "kill" \in failures
  /\ up' = FALSE
  /\ saving' = None
  /\ UNCHANGED <<mem, disk, durable, released, failures>>

\* The machine loses power: an unsynced rename may or may not be undone.
PowerCut ==
  /\ "power" \in failures
  /\ up' = FALSE
  /\ saving' = None
  /\ disk' \in {disk, durable}
  /\ durable' = disk'
  /\ UNCHANGED <<mem, released, failures>>

\* SignGuard.open.
Open ==
  /\ ~ up
  /\ up' = TRUE
  /\ mem' = disk
  /\ UNCHANGED <<disk, durable, saving, released, failures>>

GuardInit ==
  /\ mem = Fresh /\ disk = Fresh /\ durable = Fresh
  /\ saving = None
  /\ up = TRUE
  /\ failures \in Histories
  /\ released = {}

GuardNext ==
  \/ \E s \in Votes : Repeat(s) \/ Replace(s) \/ Finish(s)
  \/ Kill \/ PowerCut \/ Open

GuardSpec == GuardInit /\ [][GuardNext]_guardVars

-----------------------------------------------------------------------------
GuardTypeOK ==
  /\ mem \in Records /\ disk \in Records /\ durable \in Records
  /\ saving \in Records \cup {None}
  /\ up \in BOOLEAN
  /\ failures \in Histories
  /\ released \subseteq Votes

\* No two signatures for one position of one height are ever handed out, through
\* any number of crashes, power cuts and restarts.
NoDoubleSign ==
  \A s, t \in released : SamePosition(s, t) => s.value = t.value

\* The files a restart may find, whatever of failures strikes first.
AfterFailure == {disk} \cup IF "power" \in failures THEN {durable} ELSE {}

\* A vote is cast and then the process, or the machine, dies: the validator that
\* starts again resumes the height in the round of the vote or a later one, and
\* if the vote was a precommit for a block, locked on that block or on a later one.
ResumesWhereItLeft ==
  \A s \in released, j \in AfterFailure :
    /\ j.height >= s.height
    /\ j.height = s.height => ResumeRound(j, s.height) >= s.round
    /\ s.step = 3 /\ s.value # Nil /\ j.lockHeight <= s.height =>
         LET lock == LockFor(j, s.height) IN
         lock = <<s.round, s.value>> \/ (lock[1] > s.round /\ lock[2] # Nil)
=============================================================================
