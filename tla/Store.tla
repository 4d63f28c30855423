-------------------------------- MODULE Store --------------------------------
(***************************************************************************)
(* A validator's chain in memory and its store on disk: storage.py         *)
(* (BlockStore), as Validator of net.py drives it.  Blocks are committed   *)
(* to memory, appended to blocks.jsonl, and from time to time pruned into  *)
(* a certified snapshot; a peer's snapshot may replace everything.  The    *)
(* process may die between any two writes, and a write may fail.           *)
(*                                                                         *)
(* There is one true ledger (agreement is the subject of TwoPhase), so a   *)
(* block is its height.  Certificates are abstracted to one fact: who      *)
(* trusts which validator set.  From block changedAt on, blocks are        *)
(* certified by a set the founding validators cannot vouch for.            *)
(***************************************************************************)
EXTENDS Integers, Sequences, FiniteSetsExt

CONSTANTS
  MaxHeight,     \* bound: the ledger has this many blocks
  Keep,          \* prune_every: prune above this many blocks, keep this many
  Settings       \* the circumstances considered, records of:
                 \*   archive    whether pruned blocks go to archive/
                 \*   changedAt  the first block certified by another validator set
                 \*   snapshots  heights of the snapshots peers may send

ASSUME StoreAssumption ==
  /\ MaxHeight \in Nat /\ Keep \in Nat \ {0}
  /\ Settings \subseteq [archive : BOOLEAN, changedAt : Nat \ {0}, snapshots : SUBSET (1 .. MaxHeight)]

VARIABLES
  up,        \* the process is running
  base,      \* height of the snapshot the chain in memory starts from, or 0
  height,    \* height of the chain in memory
  phase,     \* "idle", or the next write of the operation under way
  job,       \* what is being pruned or installed
  file,      \* the complete lines of blocks.jsonl: heights, or Damaged
  torn,      \* blocks.jsonl ends in an incomplete line
  snap,      \* height of snapshot.json, or 0
  anchor,    \* height of the snapshot anchor.json vouches for, or 0
  archive,   \* the blocks in archive/
  setting,   \* the circumstances of this validator
  failed     \* history: a write has failed

memory == <<up, base, height, phase, job>>
disk == <<file, torn, snap, anchor, archive>>
history == <<setting, failed>>
vars == <<memory, disk, history>>

Heights == 1 .. MaxHeight
Damaged == 0          \* a complete line that does not parse
Refused == -1         \* the store does not open
Jobs == [base : 0 .. MaxHeight, keep : Seq(Heights), retired : SUBSET Heights,
         height : 0 .. MaxHeight]
NoJob == [base |-> 0, keep |-> <<>>, retired |-> {}, height |-> 0]

-----------------------------------------------------------------------------
(* Opening the store.                                                       *)

\* The set that certifies block h, as far as anybody can tell them apart.
CertifiedBy(h) == IF h >= setting.changedAt THEN "voted" ELSE "founders"

\* Who can vouch for snapshot.json: the founders, the signed anchor, or the
\* archive replayed from the first block.
Trusted ==
  \/ CertifiedBy(snap) = "founders"
  \/ anchor = snap
  \/ 1 .. snap \subseteq archive

\* The height of the chain after the first n lines, if none is an error.
Reached(n) == Max({snap} \cup {file[i] : i \in 1 .. n})

\* A line is covered by the snapshot, the next block, or an error.
Mutant_NoSkip(i) == file[i] = Reached(i - 1) + 1
Mutant_AnyHeight(i) == file[i] # Damaged
Replayable(i) == file[i] # Damaged /\ file[i] <= Reached(i - 1) + 1

\* The height the store opens at.
Recovered ==
  IF (snap = 0 \/ Trusted) /\ \A i \in DOMAIN file : Replayable(i)
  THEN Reached(Len(file)) ELSE Refused

-----------------------------------------------------------------------------
(* Committing a block: Validator._commit.                                   *)

Idle == up /\ phase = "idle"

\* Node.commit: the chain in memory grows first.
Commit ==
  /\ Idle /\ height < MaxHeight
  /\ height' = height + 1
  /\ phase' = "append"
  /\ UNCHANGED <<up, base, job, disk, history>>

PruneDue == height % Keep = 0 /\ height - base > Keep

\* What the write under way does to the disk.  A line appended after an incomplete
\* one does not parse.
Written ==
  \/ /\ phase = "append"
     /\ file' = Append(file, IF torn THEN Damaged ELSE height)
     /\ torn' = FALSE
     /\ UNCHANGED <<snap, anchor, archive>>
  \/ /\ phase = "archive"
     /\ archive' = IF setting.archive THEN archive \cup job.retired ELSE archive
     /\ UNCHANGED <<file, torn, snap, anchor>>
  \/ phase = "snapshot" /\ snap' = job.base /\ UNCHANGED <<file, torn, anchor, archive>>
  \/ phase = "anchor" /\ anchor' = job.base /\ UNCHANGED <<file, torn, snap, archive>>
  \/ phase = "blocks" /\ file' = job.keep /\ torn' = FALSE /\ UNCHANGED <<snap, anchor, archive>>

\* BlockStore.append
StoreBlock ==
  /\ up /\ phase = "append" /\ Written
  /\ phase' = IF PruneDue THEN "prune" ELSE "idle"
  /\ UNCHANGED <<up, base, height, job, history>>

\* A write raises, before or after it took effect; an append may stop half-way
\* through the line.  The operation is abandoned: the run loop goes on with the
\* block in memory, and the next block it commits comes from a peer.
WriteFails ==
  /\ up /\ phase \notin {"idle", "prune"}
  /\ \/ UNCHANGED disk
     \/ phase = "append" /\ torn' = TRUE /\ UNCHANGED <<file, snap, anchor, archive>>
     \/ Written
  /\ phase' = "idle"
  /\ job' = NoJob
  /\ failed' = TRUE
  /\ UNCHANGED <<up, base, height, setting>>

-----------------------------------------------------------------------------
(* Pruning and installing: compact, install_snapshot.  Every write is atomic. *)

\* The lines that stay when everything up to block new is retired.
Mutant_OneTooFew(new) == [i \in 1 .. Keep - 1 |-> new + i]
Kept(new) == [i \in 1 .. Keep |-> new + i]

\* compact reads the chain back from the disk.
StartPrune ==
  /\ up /\ phase = "prune"
  /\ LET new == Recovered - Keep IN
     IF Recovered = Refused \/ new <= snap
     THEN phase' = "idle" /\ UNCHANGED job
     ELSE /\ phase' = "archive"
          /\ job' = [base |-> new, keep |-> Kept(new),
                     retired |-> snap + 1 .. new, height |-> height]
  /\ UNCHANGED <<up, base, height, disk, history>>

\* _install_snapshot: a peer's snapshot, certified by the set this node trusts.
Install(h) ==
  /\ Idle /\ h > height
  /\ CertifiedBy(h) = CertifiedBy(height + 1)
  /\ phase' = "archive"
  /\ job' = [base |-> h, keep |-> <<>>, retired |-> base + 1 .. height, height |-> h]
  /\ UNCHANGED <<up, base, height, disk, history>>

WriteArchive ==
  /\ up /\ phase = "archive" /\ Written
  /\ phase' = "snapshot"
  /\ UNCHANGED <<up, base, height, job, history>>

WriteSnapshot ==
  /\ up /\ phase = "snapshot" /\ Written
  /\ phase' = "anchor"
  /\ UNCHANGED <<up, base, height, job, history>>

WriteAnchor ==
  /\ up /\ phase = "anchor" /\ Written
  /\ phase' = "blocks"
  /\ UNCHANGED <<up, base, height, job, history>>

\* The retired lines go, and the chain in memory lets go of them too.
WriteBlocks ==
  /\ up /\ phase = "blocks" /\ Written
  /\ base' = job.base
  /\ height' = job.height
  /\ phase' = "idle"
  /\ job' = NoJob
  /\ UNCHANGED <<up, history>>

-----------------------------------------------------------------------------
\* The process dies; an append under way may leave part of its line.
Crash ==
  /\ up
  /\ up' = FALSE
  /\ phase' = "idle"
  /\ job' = NoJob
  /\ torn' \in IF phase = "append" THEN {torn, TRUE} ELSE {torn}
  /\ UNCHANGED <<base, height, file, snap, anchor, archive, history>>

\* BlockStore.load: an incomplete last line is cut off.
Open ==
  /\ ~ up /\ Recovered # Refused
  /\ up' = TRUE
  /\ base' = snap
  /\ height' = Recovered
  /\ torn' = FALSE
  /\ UNCHANGED <<phase, job, file, snap, anchor, archive, history>>

Init ==
  /\ up = TRUE /\ base = 0 /\ height = 0 /\ phase = "idle" /\ job = NoJob
  /\ file = <<>> /\ torn = FALSE /\ snap = 0 /\ anchor = 0 /\ archive = {}
  /\ setting \in Settings /\ failed = FALSE

Next ==
  \/ Commit \/ StoreBlock \/ WriteFails
  \/ StartPrune \/ WriteArchive \/ WriteSnapshot \/ WriteAnchor \/ WriteBlocks
  \/ \E h \in setting.snapshots : Install(h)
  \/ Crash \/ Open

Spec == Init /\ [][Next]_vars

-----------------------------------------------------------------------------
\* The shape of the state; base never overtakes the chain it belongs to.
TypeOK ==
  /\ up \in BOOLEAN /\ torn \in BOOLEAN
  /\ base \in 0 .. height /\ height \in 0 .. MaxHeight
  /\ phase \in {"idle", "append", "prune", "archive", "snapshot", "anchor", "blocks"}
  /\ job \in Jobs
  /\ file \in Seq({Damaged} \cup Heights)
  /\ snap \in 0 .. MaxHeight /\ anchor \in 0 .. MaxHeight
  /\ archive \subseteq Heights
  /\ setting \in Settings /\ failed \in BOOLEAN

\* Every snapshot can be vouched for before its anchor is written: the founders certify
\* all blocks, or all blocks were pruned into the archive and none skipped.
Vouched == \A s \in Settings : s.changedAt <= MaxHeight => s.archive /\ s.snapshots = {}

\* Whenever the process dies, the store still opens (storage.py: "a crash at any
\* point leaves a store that still opens"), as long as no write has failed; between
\* operations exactly where the process is: it acts on no block it could forget.  Even
\* on a disk that fails, a store that opens holds every block between its snapshot and
\* its height: damage and gaps make it refuse, never skip a block.
MemoryIsStored == Idle => Recovered = height
FailsClosed ==
  Recovered # Refused => snap + 1 .. Recovered \subseteq {file[i] : i \in DOMAIN file}
StillOpens == FailsClosed /\ (~ failed => Recovered # Refused /\ MemoryIsStored)

\* No crash, pruning or installation takes back the height a restart resumes
\* from: what was stored stays stored, or covered by a trusted snapshot.
NothingLost == [][~ failed' => Recovered' >= Recovered]_vars
=============================================================================
