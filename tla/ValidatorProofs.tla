--------------------------- MODULE ValidatorProofs ---------------------------
(***************************************************************************)
(* Proofs about what one validator keeps, for every set of heights, rounds *)
(* and values: SignGuard, whose journal keeps its promises if only the     *)
(* process can be killed, or if only the power can fail and the directory  *)
(* can be synced; and CatchUp within Peers, where the messages of a late   *)
(* validator are for few heights.                                          *)
(*                                                                         *)
(* The invariant of the journal says that the file, and what a power cut   *)
(* would leave of it, is at or past every signature handed out.            *)
(***************************************************************************)
EXTENDS SignGuard, Peers, TLAPS

-----------------------------------------------------------------------------
(* The journal.                                                             *)

\* Journal j is at or past vote s, and does not contradict it.
Covers(j, s) ==
  \/ Before(s, j)
  \/ SamePosition(s, j) /\ s.value = j.value

\* The lock in j is not behind s, if s is a precommit for a block.
LockCovers(j, s) ==
  s.step = 3 /\ s.value # Nil =>
    \/ j.lockHeight > s.height
    \/ j.lockHeight = s.height /\ j.lockRound > s.round /\ j.lockValue # Nil
    \/ j.lockHeight = s.height /\ j.lockRound = s.round /\ j.lockValue = s.value

\* A precommit for a block is itself the lock.
LocksItself(j) ==
  j.step = 3 /\ j.value # Nil =>
    j.lockHeight = j.height /\ j.lockRound = j.round /\ j.lockValue = j.value

CoversReleased(j) ==
  /\ LocksItself(j)
  /\ \A s \in released : Covers(j, s) /\ LockCovers(j, s)

Power == "power" \in failures

\* What the guard can survive: kills alone, or power cuts alone if directories sync.
Benign(F) == "power" \notin F \/ ("kill" \notin F /\ DirFsync)

Files ==
  /\ CoversReleased(disk)
  /\ up /\ saving = None => mem = disk
  /\ up /\ saving # None => /\ disk = saving
                            /\ CoversReleased(mem)
                            /\ \E s \in Votes : Before(mem, s) /\ saving = Successor(mem, s)
  /\ ~ up => saving = None
  /\ Power => /\ CoversReleased(durable)
              /\ saving = None => durable = disk

Inv == GuardTypeOK /\ NoDoubleSign /\ Files

LEMMA Ints ==
  /\ \A s \in Votes : s.height \in Nat /\ s.round \in Nat /\ s.step \in 1 .. 3
  /\ \A j \in Records : /\ j.height \in Int /\ j.round \in Int /\ j.step \in 0 .. 3
                        /\ j.lockHeight \in Int /\ j.lockRound \in Int
<1>1. /\ Heights \subseteq Nat /\ Rounds \subseteq Nat
      /\ Heights \cup {0} \subseteq Int /\ Rounds \cup {-1} \subseteq Int
  BY GuardAssumption
<1> QED
  BY <1>1 DEF Votes, Records

LEMMA FreshTyped == Fresh \in Records /\ None \notin Records /\ Fresh # None
<1>1. Fresh \in Records
  BY DEF Fresh, Records
<1>2. None.height = -1
  BY DEF None, Fresh
<1>3. \A j \in Records : j.height # -1
  BY GuardAssumption DEF Records
<1> QED
  BY <1>1, <1>2, <1>3

\* Writing a later vote types, covers what was covered, and covers the vote.
LEMMA SuccessorCovers ==
  ASSUME NEW j \in Records, NEW s \in Votes, Before(j, s)
  PROVE  /\ Successor(j, s) \in Records
         /\ Covers(Successor(j, s), s) /\ LockCovers(Successor(j, s), s)
         /\ LocksItself(Successor(j, s))
         /\ SamePosition(s, Successor(j, s)) /\ s.value = Successor(j, s).value
         /\ \A t \in Votes : Covers(j, t) /\ LockCovers(j, t) =>
              Covers(Successor(j, s), t) /\ LockCovers(Successor(j, s), t)
<1> DEFINE k == Successor(j, s)
<1>1. k \in Records
  BY DEF Successor, Records, Votes
<1>2. k.height = s.height /\ k.round = s.round /\ k.step = s.step /\ k.value = s.value
  BY DEF Successor
<1>3. CASE s.step = 3 /\ s.value # Nil
  <2>1. k.lockHeight = s.height /\ k.lockRound = s.round /\ k.lockValue = s.value
    BY <1>3 DEF Successor
  <2> HIDE DEF k
  <2>2. Covers(k, s) /\ LockCovers(k, s) /\ LocksItself(k) /\ SamePosition(s, k)
    BY <1>2, <2>1 DEF Covers, LockCovers, LocksItself, SamePosition
  <2>3. ASSUME NEW t \in Votes, Covers(j, t)
        PROVE  /\ Before(t, s) /\ Before(t, k)
               /\ t.step = 3 /\ t.height = s.height => t.round < s.round
    BY <1>2, <1>3, <2>3, Ints DEF Covers, Before, SamePosition
  <2>4. ASSUME NEW t \in Votes, Covers(j, t)
        PROVE  Covers(k, t) /\ LockCovers(k, t)
    BY <1>3, <2>1, <2>3, <2>4, Ints DEF Covers, LockCovers, Before
  <2> QED
    BY <1>1, <1>2, <2>2, <2>4 DEF k
<1>4. CASE ~ (s.step = 3 /\ s.value # Nil)
  <2>1. /\ k.lockHeight = j.lockHeight /\ k.lockRound = j.lockRound
        /\ k.lockValue = j.lockValue
    BY <1>4 DEF Successor
  <2> HIDE DEF k
  <2> QED
    BY <1>1, <1>2, <1>4, <2>1, Ints DEF Covers, LockCovers, LocksItself, Before,
                                  SamePosition, k
<1> QED
  BY <1>3, <1>4

LEMMA InitInv == GuardInit => Inv
BY FreshTyped DEF GuardInit, Inv, GuardTypeOK, NoDoubleSign, Files, CoversReleased,
              LocksItself, Fresh

\* Handing out a signature the file covers with the same value.
LEMMA ReleaseSafe ==
  ASSUME Inv, NEW s \in Votes, NEW j \in Records,
         \A t \in released : Covers(j, t), SamePosition(s, j), s.value = j.value,
         released' = released \cup {s}
  PROVE  NoDoubleSign'
<1>1. ASSUME NEW t \in released, SamePosition(s, t)
      PROVE  s.value = t.value
  <2>1. Covers(j, t) /\ t \in Votes
    BY <1>1 DEF Inv, GuardTypeOK
  <2> QED
    BY <1>1, <2>1, Ints DEF Covers, Before, SamePosition
<1> QED
  BY <1>1 DEF Inv, NoDoubleSign, SamePosition

LEMMA StepInv ==
  ASSUME Inv, [GuardNext]_guardVars, \A F \in Histories : Benign(F)
  PROVE  Inv'
<1>0. /\ GuardTypeOK /\ NoDoubleSign /\ Files
      /\ "power" \notin failures \/ ("kill" \notin failures /\ DirFsync)
  BY DEF Inv, GuardTypeOK, Benign
<1>1. ASSUME NEW s \in Votes, Repeat(s)
      PROVE  Inv'
  <2>1. /\ up /\ saving = None /\ mem = disk /\ disk \in Records
        /\ SamePosition(s, disk) /\ s.value = disk.value
        /\ released' = released \cup {s}
        /\ UNCHANGED <<mem, disk, durable, saving, up, failures>>
    BY <1>0, <1>1 DEF Repeat, Idle, Files, GuardTypeOK
  <2>2. NoDoubleSign'
    BY <1>0, <2>1, ReleaseSafe DEF Files, CoversReleased
  <2>3. Covers(disk, s) /\ LockCovers(disk, s)
    BY <1>0, <2>1 DEF Covers, LockCovers, Files, CoversReleased, LocksItself, SamePosition
  <2>4. CoversReleased(disk)'
    BY <1>0, <2>1, <2>3 DEF Files, CoversReleased, Covers, LockCovers, LocksItself
  <2>5. Files'
    BY <1>0, <2>1, <2>4 DEF Files, CoversReleased, Power
  <2>6. GuardTypeOK'
    BY <1>0, <2>1 DEF GuardTypeOK
  <2> QED
    BY <2>2, <2>5, <2>6 DEF Inv
<1>2. ASSUME NEW s \in Votes, Replace(s)
      PROVE  Inv'
  <2>1. /\ up /\ saving = None /\ mem = disk /\ disk \in Records
        /\ Before(mem, s) /\ saving' = Successor(mem, s) /\ disk' = saving'
        /\ UNCHANGED <<mem, durable, up, released, failures>>
    BY <1>0, <1>2 DEF Replace, Idle, Files, GuardTypeOK
  <2>2. Successor(mem, s) \in Records /\ CoversReleased(Successor(mem, s))
    BY <1>0, <2>1, SuccessorCovers DEF Files, CoversReleased, GuardTypeOK
  <2>3. CoversReleased(disk)' /\ CoversReleased(mem)'
    BY <1>0, <2>1, <2>2 DEF Files, CoversReleased
  <2>4. CoversReleased(durable) => CoversReleased(durable)'
    BY <2>1 DEF CoversReleased
  <2>5. Files'
    BY <1>0, <2>1, <2>2, <2>3, <2>4, FreshTyped DEF Files, Power
  <2>6. GuardTypeOK' /\ NoDoubleSign'
    BY <1>0, <2>1, <2>2 DEF GuardTypeOK, NoDoubleSign
  <2> QED
    BY <2>5, <2>6 DEF Inv
<1>3. ASSUME NEW s \in Votes, Finish(s)
      PROVE  Inv'
  <2>1. /\ up /\ saving # None /\ disk = saving /\ saving \in Records
        /\ SamePosition(s, disk) /\ s.value = disk.value
        /\ durable' = IF DirFsync THEN saving ELSE durable
        /\ mem' = disk /\ disk' = disk /\ up' = up /\ saving' = None /\ failures' = failures
        /\ released' = released \cup {s}
    BY <1>0, <1>3 DEF Finish, Files, GuardTypeOK
  <2>2. NoDoubleSign'
    BY <1>0, <2>1, ReleaseSafe DEF Files, CoversReleased
  <2>3. Covers(disk, s) /\ LockCovers(disk, s)
    BY <1>0, <2>1 DEF Covers, LockCovers, Files, CoversReleased, LocksItself, SamePosition
  <2>4. CoversReleased(disk)'
    BY <1>0, <2>1, <2>3 DEF Files, CoversReleased, Covers, LockCovers, LocksItself
  <2>5. Power => durable' = disk'
    BY <2>1, <1>0 DEF Power, Files
  <2>6. Files'
    BY <1>0, <2>1, <2>4, <2>5 DEF Files, CoversReleased, Power
  <2>7. GuardTypeOK'
    BY <1>0, <2>1 DEF GuardTypeOK
  <2> QED
    BY <2>2, <2>6, <2>7 DEF Inv
<1>4. CASE Kill
  <2>1. ~ Power
    BY <1>0, <1>4 DEF Kill, Power
  <2> QED
    BY <1>0, <1>4, <2>1 DEF Kill, Inv, GuardTypeOK, NoDoubleSign, Files, CoversReleased, Power
<1>5. CASE PowerCut
  <2>1. /\ Power /\ disk' \in {disk, durable} /\ durable' = disk' /\ up' = FALSE
        /\ saving' = None /\ mem' = mem /\ released' = released /\ failures' = failures
    BY <1>5 DEF PowerCut, Power
  <2>2. CoversReleased(disk)' /\ CoversReleased(durable)'
    BY <1>0, <2>1 DEF Files, CoversReleased
  <2> QED
    BY <1>0, <2>1, <2>2 DEF Inv, GuardTypeOK, NoDoubleSign, Files, Power
<1>6. CASE Open
  BY <1>0, <1>6 DEF Open, Inv, GuardTypeOK, NoDoubleSign, Files, CoversReleased, Power
<1>7. CASE UNCHANGED guardVars
  BY <1>0, <1>7 DEF guardVars, Inv, GuardTypeOK, NoDoubleSign, Files, CoversReleased, Power
<1> QED
  BY <1>1, <1>2, <1>3, <1>4, <1>5, <1>6, <1>7 DEF GuardNext

LEMMA InvResumes == Inv => ResumesWhereItLeft
<1> SUFFICES ASSUME Inv, NEW s \in released, NEW j \in AfterFailure
             PROVE  /\ j.height >= s.height
                    /\ j.height = s.height => ResumeRound(j, s.height) >= s.round
                    /\ s.step = 3 /\ s.value # Nil /\ j.lockHeight <= s.height =>
                         LET lock == LockFor(j, s.height) IN
                         lock = <<s.round, s.value>> \/ (lock[1] > s.round /\ lock[2] # Nil)
  BY DEF ResumesWhereItLeft
<1>1. s \in Votes /\ j \in Records
  BY DEF Inv, GuardTypeOK, AfterFailure
<1>2. Covers(j, s) /\ LockCovers(j, s)
  BY DEF Inv, Files, AfterFailure, CoversReleased, Power
<1> QED
  BY <1>1, <1>2, Ints DEF Covers, LockCovers, Before, SamePosition, ResumeRound, LockFor

\* What the guard can survive keeps the invariant, whatever is asked of it.
LEMMA GuardInvariant ==
  ASSUME \A F \in Histories : Benign(F)
  PROVE  GuardSpec => []Inv
<1>1. Inv /\ [GuardNext]_guardVars => Inv'
  BY StepInv
<1> QED
  BY InitInv, <1>1, PTL DEF GuardSpec

\* Two signatures for one step are never handed out, if processes die but the power
\* does not fail, or the power fails but every process stops only with it and the
\* directory can be synced.
THEOREM GuardSignsOnce ==
  ASSUME \A F \in Histories : Benign(F)
  PROVE  GuardSpec => []NoDoubleSign
<1>1. Inv => NoDoubleSign
  BY DEF Inv
<1> QED
  BY GuardInvariant, <1>1, PTL

\* In the same circumstances a restarted validator resumes where its last signature
\* was, locked on what it precommitted.
THEOREM GuardKeepsItsPromises ==
  ASSUME \A F \in Histories : Benign(F)
  PROVE  GuardSpec => [](GuardTypeOK /\ ResumesWhereItLeft)
<1>1. Inv => GuardTypeOK /\ ResumesWhereItLeft
  BY InvResumes DEF Inv
<1> QED
  BY GuardInvariant, <1>1, PTL

-----------------------------------------------------------------------------
(* Catching up.                                                              *)

LEMMA Limits ==
  /\ MaxTip \in Nat /\ Keeps \subseteq Nat /\ MaxRestarts \in Nat
  /\ Window \in Nat /\ Window > 0 /\ PerHeight \in Nat /\ Batch \in Nat /\ Batch > 0
BY CatchUpAssumption DEF CatchUpAssumption

\* Nobody speaks of a block that the others do not have yet.
Reached ==
  /\ \A h \in Numbers : (\E k \in DOMAIN future[h] : future[h][k] = "decide") => h <= tip
  /\ \A r \in replies : r.last <= tip
  /\ decided => height < tip
LateInv == TypeOK /\ Reached /\ BufferBounded

\* What LateInv says of the messages, of a next state f at height n that jumped over J.
Fits(f, n, t, J) ==
  /\ f \in [Numbers -> Seq(Kinds)]
  /\ \A h \in Numbers :
       /\ Len(f[h]) <= PerHeight
       /\ (\E k \in DOMAIN f[h] : f[h][k] = "decide") => h <= t
       /\ f[h] # <<>> => h \in (n + 2 .. n + Window) \cup J

LEMMA LateTyped ==
  ASSUME LateInv
  PROVE  /\ keep \in Nat /\ tip \in Nat /\ tip <= MaxTip /\ base \in Nat /\ base <= tip
         /\ height \in Nat /\ height <= tip /\ Fits(future, height, tip, jumped) /\ MaxTip \in Nat
         /\ Numbers = 1 .. MaxTip + 1 /\ Window \in Nat
BY Limits DEF LateInv, TypeOK, Reached, BufferBounded, Fits, Numbers

LEMMA LateStarts == Init => LateInv
<1> SUFFICES ASSUME Init
             PROVE  LateInv
  OBVIOUS
<1>1. /\ keep \in Keeps /\ tip = 0 /\ base = 0 /\ height = 0 /\ restarts = 0
      /\ future = [h \in Numbers |-> <<>>] /\ decided = FALSE
      /\ announced = {} /\ requests = {} /\ replies = {} /\ jumped = {}
  BY DEF Init, Empty
<1>2. <<>> \in Seq(Kinds) /\ Len(<<>>) = 0 /\ DOMAIN <<>> = {}
  OBVIOUS
<1>3. /\ tip \in 0 .. MaxTip /\ base \in 0 .. tip /\ height \in 0 .. tip /\ restarts \in 0 .. MaxRestarts
      /\ PerHeight >= 0
  BY <1>1, Limits
<1>4. /\ future \in [Numbers -> Seq(Kinds)]
      /\ \A h \in Numbers : Len(future[h]) <= PerHeight
  BY <1>1, <1>2, <1>3
<1>5. TypeOK
  BY <1>1, <1>3, <1>4 DEF TypeOK
<1> QED
  BY <1>1, <1>2, <1>5 DEF LateInv, Reached, BufferBounded

\* A new height, which the others have reached: the heights up to the one after next are
\* freed or jumped over.
LEMMA HeightStarts ==
  ASSUME LateInv, NEW new \in Nat, new > height, new <= tip, NEW handled,
         StartHeight(new, handled),
         jumped \subseteq jumped', jumped' \subseteq Numbers,
         \A h \in height + 2 .. new + 1 : h \in handled \cup jumped'
  PROVE  /\ height' = new /\ Fits(future', new, tip, jumped') /\ decided' \in BOOLEAN /\ (decided' => new < tip)
<1>1. /\ height' = new /\ future' = [h \in Numbers |-> IF h \in handled THEN <<>> ELSE future[h]]
      /\ decided' = (new < MaxTip /\ "decide" \in {future[new + 1][k] : k \in DOMAIN future[new + 1]})
  BY DEF StartHeight, Without
<1>2. /\ tip \in Nat /\ tip <= MaxTip /\ height \in Nat /\ MaxTip \in Nat /\ Window \in Nat
      /\ Numbers = 1 .. MaxTip + 1 /\ Fits(future, height, tip, jumped)
  BY LateTyped
<1>3. ASSUME decided'
      PROVE  new < tip
  <2>0. new < MaxTip /\ "decide" \in {future[new + 1][k] : k \in DOMAIN future[new + 1]}
    BY <1>1, <1>3
  <2>1. new + 1 \in Numbers /\ \E k \in DOMAIN future[new + 1] : future[new + 1][k] = "decide"
    <3>1. new + 1 \in Numbers
      BY <1>2, <2>0
    <3> QED
      BY <2>0, <3>1
  <2>2. new + 1 <= tip
    BY <1>2, <2>1 DEF Fits
  <2> QED
    BY <1>2, <2>2
<1>4. <<>> \in Seq(Kinds) /\ Len(<<>>) = 0 /\ DOMAIN <<>> = {} /\ PerHeight \in Nat
  BY Limits
<1>5. future' \in [Numbers -> Seq(Kinds)]
  BY <1>1, <1>2, <1>4 DEF Fits
<1>6. ASSUME NEW h \in Numbers
      PROVE  /\ Len(future'[h]) <= PerHeight
             /\ (\E k \in DOMAIN future'[h] : future'[h][k] = "decide") => h <= tip
             /\ future'[h] # <<>> => h \in (new + 2 .. new + Window) \cup jumped'
  <2>1. CASE h \in handled
    BY <1>1, <1>4, <2>1
  <2>2. CASE h \notin handled
    <3>1. future'[h] = future[h]
      BY <1>1, <2>2
    <3>2. /\ Len(future[h]) <= PerHeight
          /\ (\E k \in DOMAIN future[h] : future[h][k] = "decide") => h <= tip
          /\ future[h] # <<>> => h \in (height + 2 .. height + Window) \cup jumped
      BY <1>2 DEF Fits
    <3>3. future[h] # <<>> => h \in (new + 2 .. new + Window) \cup jumped'
      BY <1>2, <2>2, <3>2
    <3> QED
      BY <3>1, <3>2, <3>3
  <2> QED
    BY <2>1, <2>2
<1>7. Fits(future', new, tip, jumped')
  BY <1>5, <1>6 DEF Fits
<1> QED
  BY <1>1, <1>3, <1>7

\* One more message, if there is room for it.
LEMMA BufferFits ==
  ASSUME LateInv, NEW p \in Peers, NEW h \in Numbers, NEW kind \in Kinds,
         Buffer(p, h, kind), kind = "decide" => h <= tip
  PROVE  /\ height' = height /\ decided' = decided /\ Fits(future', height, tip, jumped')
         /\ requests' \subseteq Request /\ jumped' = jumped
<1>1. /\ h > height + 1 /\ h <= height + Window /\ Len(future[h]) < PerHeight
      /\ future' = [future EXCEPT ![h] = Append(@, kind)]
      /\ requests' = IF future[h] = <<>> THEN requests \cup {[to |-> p, from |-> height + 1]} ELSE requests
      /\ height' = height /\ decided' = decided /\ jumped' = jumped
  BY DEF Buffer, Room, NextMissing
<1>2. /\ tip \in Nat /\ tip <= MaxTip /\ height \in Nat /\ height <= tip /\ MaxTip \in Nat /\ Window \in Nat
      /\ Numbers = 1 .. MaxTip + 1 /\ Fits(future, height, tip, jumped) /\ requests \subseteq Request
  BY LateTyped DEF LateInv, TypeOK
<1>3. [to |-> p, from |-> height + 1] \in Request
  BY <1>2 DEF Request
<1>4. /\ future[h] \in Seq(Kinds) /\ PerHeight \in Nat /\ h \in Nat
      /\ future \in [Numbers -> Seq(Kinds)]
  BY <1>2, Limits DEF Fits
<1> DEFINE q == Append(future[h], kind)
<1>5. /\ q \in Seq(Kinds) /\ Len(q) = Len(future[h]) + 1
      /\ (\E k \in DOMAIN q : q[k] = "decide") => kind = "decide" \/ \E k \in DOMAIN future[h] : future[h][k] = "decide"
  BY <1>4
<1> HIDE DEF q
<1>6. /\ Len(q) <= PerHeight
      /\ (\E k \in DOMAIN q : q[k] = "decide") => h <= tip
      /\ h \in height + 2 .. height + Window
  BY <1>1, <1>2, <1>4, <1>5 DEF Fits
<1>7. future' = [g \in Numbers |-> IF g = h THEN q ELSE future[g]]
  BY <1>1, <1>4 DEF q
<1>8. Fits(future', height, tip, jumped')
  BY <1>1, <1>2, <1>4, <1>5, <1>6, <1>7 DEF Fits
<1> QED
  BY <1>1, <1>2, <1>3, <1>8

\* What of the network and the others a step must keep.
Network(t, b, req, rep) ==
  /\ t \in Nat /\ t <= MaxTip /\ b \in Nat /\ b <= t
  /\ req \subseteq Request /\ rep \subseteq Reply
  /\ \A r \in rep : r.last <= t

LEMMA LateKept ==
  ASSUME LateInv, keep' = keep, Network(tip', base', requests', replies'),
         height' \in Nat, height' <= tip', Fits(future', height', tip', jumped'),
         decided' \in BOOLEAN, decided' => height' < tip', announced' \subseteq 1 .. tip',
         restarts' \in 0 .. MaxRestarts, jumped' \subseteq Numbers
  PROVE  LateInv'
<1>1. keep \in Keeps /\ MaxTip \in Nat
  BY Limits DEF LateInv, TypeOK
<1>2. TypeOK'
  BY <1>1 DEF TypeOK, Network, Fits
<1>3. Reached' /\ BufferBounded'
  BY DEF Reached, BufferBounded, Network, Fits
<1> QED
  BY <1>2, <1>3 DEF LateInv

\* An action at a time.
LEMMA OthersAdvance ==
  ASSUME LateInv, Advance
  PROVE  LateInv'
<1>1. /\ tip < MaxTip /\ tip' = tip + 1
      /\ base' = IF keep # 0 /\ tip' % keep = 0 /\ tip' - base > keep THEN tip' - keep ELSE base
      /\ announced' = announced \cup {tip'}
      /\ keep' = keep /\ height' = height /\ future' = future /\ decided' = decided
      /\ requests' = requests /\ replies' = replies /\ restarts' = restarts
      /\ jumped' = jumped
  BY DEF Advance
<1>2. /\ keep \in Nat /\ tip \in Nat /\ MaxTip \in Nat /\ base \in Nat /\ base <= tip
      /\ height \in Nat /\ height <= tip /\ Fits(future, height, tip, jumped) /\ Numbers = 1 .. MaxTip + 1
  BY LateTyped
<1>3. /\ decided \in BOOLEAN /\ announced \subseteq 1 .. tip /\ restarts \in 0 .. MaxRestarts
      /\ requests \subseteq Request /\ replies \subseteq Reply
      /\ \A r \in replies : r.last <= tip
      /\ decided => height < tip
  BY DEF LateInv, TypeOK, Reached
<1>4. /\ tip' \in Nat /\ tip' <= MaxTip /\ base' \in Nat /\ base' <= tip'
      /\ announced' \subseteq 1 .. tip'
  BY <1>1, <1>2, <1>3
<1>5. \A r \in replies : r.last \in Nat
  BY <1>3, <1>2 DEF Reply
<1>6. Network(tip', base', requests', replies')
  BY <1>1, <1>2, <1>3, <1>4, <1>5 DEF Network
<1>7. Fits(future', height', tip', jumped')
  BY <1>1, <1>2 DEF Fits
<1> QED
  BY <1>1, <1>2, <1>3, <1>4, <1>6, <1>7, LateKept DEF LateInv, TypeOK

LEMMA PeerServes ==
  ASSUME LateInv, NEW r \in requests, Serve(r)
  PROVE  LateInv'
<1>1. /\ requests' = requests \ {r}
      /\ replies' = IF r.to \in Mute THEN replies ELSE replies \cup {Answer(r)}
      /\ tip' = tip /\ base' = base /\ keep' = keep /\ height' = height /\ future' = future
      /\ decided' = decided /\ announced' = announced /\ restarts' = restarts
      /\ jumped' = jumped
  BY DEF Serve, others
<1>2. /\ keep \in Nat /\ tip \in Nat /\ tip <= MaxTip /\ MaxTip \in Nat /\ base \in Nat /\ base <= tip
      /\ height \in Nat /\ height <= tip /\ Fits(future, height, tip, jumped) /\ Numbers = 1 .. MaxTip + 1
  BY LateTyped
<1>3. /\ decided \in BOOLEAN /\ announced \subseteq 1 .. tip /\ restarts \in 0 .. MaxRestarts
      /\ requests \subseteq Request /\ replies \subseteq Reply
      /\ \A s \in replies : s.last <= tip
      /\ decided => height < tip
  BY DEF LateInv, TypeOK, Reached
<1>4. r.to \in Peers /\ r.from \in 1 .. MaxTip + 1
  BY <1>2, <1>3 DEF Request
<1>5. /\ Answer(r) \in Reply /\ Answer(r).last <= tip
  <2>1. CASE r.from <= base
    <3>1. Answer(r) = [t |-> "snapshot", from |-> r.to, first |-> r.from, last |-> base]
      BY <2>1 DEF Answer
    <3> QED
      BY <1>2, <1>3, <1>4, <2>1, <3>1 DEF Reply
  <2>2. CASE ~ r.from <= base
    <3> DEFINE m == Min({r.from + Batch - 1, tip})
    <3>1. Answer(r) = [t |-> "blocks", from |-> r.to, first |-> r.from, last |-> m]
      BY <2>2 DEF Answer
    <3>2. m \in Nat /\ m <= tip
      <4>1. r.from + Batch - 1 \in Nat
        BY <1>2, <1>4, Limits
      <4> DEFINE low == IF r.from + Batch - 1 <= tip THEN r.from + Batch - 1 ELSE tip
      <4>2. low \in {r.from + Batch - 1, tip} /\ \A y \in {r.from + Batch - 1, tip} : low <= y
        BY <1>2, <4>1
      <4>3. m \in {r.from + Batch - 1, tip} /\ \A y \in {r.from + Batch - 1, tip} : m <= y
        BY <4>2 DEF Min
      <4> QED
        BY <1>2, <4>1, <4>3
    <3> HIDE DEF m
    <3>3. m \in 0 .. MaxTip
      BY <1>2, <3>2
    <3> QED
      BY <1>2, <1>4, <3>1, <3>2, <3>3 DEF Reply
  <2> QED
    BY <2>1, <2>2
<1>6. Network(tip', base', requests', replies')
  BY <1>1, <1>2, <1>3, <1>5 DEF Network
<1> QED
  BY <1>1, <1>2, <1>3, <1>6, LateKept DEF LateInv, TypeOK

\* What the actions of the late validator find, and need not restore one by one.
LEMMA LateFacts ==
  ASSUME LateInv
  PROVE  /\ tip \in Nat /\ tip <= MaxTip /\ height \in Nat /\ height <= tip /\ MaxTip \in Nat
         /\ Numbers = 1 .. MaxTip + 1 /\ Fits(future, height, tip, jumped)
         /\ decided \in BOOLEAN /\ (decided => height < tip) /\ announced \subseteq 1 .. tip
         /\ restarts \in 0 .. MaxRestarts /\ requests \subseteq Request /\ replies \subseteq Reply
         /\ Network(tip, base, requests, replies) /\ jumped \subseteq Numbers
BY LateTyped DEF LateInv, TypeOK, Reached, Network

\* The others are left alone: what is asked and answered may shrink, or grow by a request.
LEMMA LateMoves ==
  ASSUME LateInv, keep' = keep, tip' = tip, base' = base,
         requests' \subseteq Request, replies' \subseteq replies, announced' \subseteq announced,
         restarts' \in 0 .. MaxRestarts, height' \in Nat, height' <= tip, Fits(future', height', tip, jumped'),
         decided' \in BOOLEAN, decided' => height' < tip, jumped' \subseteq Numbers
  PROVE  LateInv'
<1>1. Network(tip', base', requests', replies')
  BY LateFacts DEF Network
<1>2. announced' \subseteq 1 .. tip'
  BY LateFacts
<1> QED
  BY <1>1, <1>2, LateKept

LEMMA VoteHeard ==
  ASSUME LateInv, NEW p \in Peers, NEW h \in Numbers, HearVote(p, h)
  PROVE  LateInv'
<1>1. /\ Buffer(p, h, "vote") /\ announced' = announced
      /\ keep' = keep /\ tip' = tip /\ base' = base /\ replies' = replies /\ restarts' = restarts
      /\ jumped' = jumped
  BY DEF HearVote, Buffer, others
<1>2. "vote" \in Kinds
  BY DEF Kinds
<1>3. height' = height /\ decided' = decided /\ Fits(future', height, tip, jumped') /\ requests' \subseteq Request
  BY <1>1, <1>2, BufferFits
<1> QED
  BY <1>1, <1>3, LateFacts, LateMoves

LEMMA DecideHeard ==
  ASSUME LateInv, NEW p \in Peers, NEW h \in Numbers, HearDecide(p, h)
  PROVE  LateInv'
<1>1. h \in announced /\ announced' = announced \ {h} /\ h \in Nat /\ h <= tip
  BY LateFacts DEF HearDecide
<1>2. CASE Buffer(p, h, "decide")
  <2>1. /\ keep' = keep /\ tip' = tip /\ base' = base /\ replies' = replies /\ restarts' = restarts
        /\ jumped' = jumped /\ "decide" \in Kinds
    BY <1>2 DEF Buffer, others, Kinds
  <2>2. height' = height /\ decided' = decided /\ Fits(future', height, tip, jumped') /\ requests' \subseteq Request
    BY <1>1, <1>2, <2>1, BufferFits
  <2> QED
    BY <1>1, <2>1, <2>2, LateFacts, LateMoves
<1>3. CASE h = height + 1 /\ StartHeight(h, {h + 1}) /\ UNCHANGED <<others, requests, replies, restarts, jumped>>
  <2>1. /\ keep' = keep /\ tip' = tip /\ base' = base
        /\ requests' = requests /\ replies' = replies /\ restarts' = restarts /\ jumped' = jumped
    BY <1>3 DEF others
  <2>2. /\ h > height /\ \A g \in height + 2 .. h + 1 : g \in {h + 1} \cup jumped'
    BY <1>3, LateFacts
  <2>3. height' = h /\ Fits(future', h, tip, jumped') /\ decided' \in BOOLEAN /\ (decided' => h < tip)
    BY <1>1, <1>3, <2>1, <2>2, LateFacts, HeightStarts
  <2> QED
    BY <1>1, <2>1, <2>3, LateFacts, LateMoves
<1>4. CASE UNCHANGED <<others, height, future, decided, requests, replies, restarts, jumped>>
  <2>1. /\ keep' = keep /\ tip' = tip /\ base' = base /\ height' = height /\ future' = future
        /\ decided' = decided /\ requests' = requests /\ replies' = replies /\ restarts' = restarts
        /\ jumped' = jumped
    BY <1>4 DEF others
  <2> QED
    BY <1>1, <2>1, LateFacts, LateMoves
<1> QED
  BY <1>2, <1>3, <1>4 DEF HearDecide

LEMMA DecidedCommits ==
  ASSUME LateInv, CommitDecided
  PROVE  LateInv'
<1>1. /\ decided /\ StartHeight(height + 1, {height + 2})
      /\ keep' = keep /\ tip' = tip /\ base' = base /\ announced' = announced
      /\ requests' = requests /\ replies' = replies /\ restarts' = restarts /\ jumped' = jumped
  BY DEF CommitDecided, others, network
<1>2. /\ height + 1 \in Nat /\ height + 1 > height /\ height + 1 <= tip
      /\ \A g \in height + 2 .. (height + 1) + 1 : g \in {height + 2} \cup jumped'
  BY <1>1, LateFacts
<1>3. height' = height + 1 /\ Fits(future', height + 1, tip, jumped') /\ decided' \in BOOLEAN /\ (decided' => height + 1 < tip)
  BY <1>1, <1>2, LateFacts, HeightStarts
<1> QED
  BY <1>1, <1>2, <1>3, LateFacts, LateMoves

LEMMA BlocksReceived ==
  ASSUME LateInv, NEW r \in replies, ReceiveBlocks(r)
  PROVE  LateInv'
<1>1. /\ replies' = replies \ {r} /\ announced' = announced /\ requests' = requests /\ restarts' = restarts
      /\ keep' = keep /\ tip' = tip /\ base' = base /\ jumped' = jumped
  BY DEF ReceiveBlocks, others
<1>2. CASE Follows(r)
  <2>1. StartHeight(r.last, height + 2 .. r.last + 1) /\ height < r.last
    BY <1>2 DEF ReceiveBlocks, Follows
  <2>2. r.last \in Nat /\ r.last <= tip /\ r.last > height
    BY <2>1, LateFacts DEF Reply, Network
  <2>3. \A g \in height + 2 .. r.last + 1 : g \in (height + 2 .. r.last + 1) \cup jumped'
    OBVIOUS
  <2>4. height' = r.last /\ Fits(future', r.last, tip, jumped') /\ decided' \in BOOLEAN /\ (decided' => r.last < tip)
    BY <1>1, <2>1, <2>2, <2>3, LateFacts, HeightStarts
  <2> QED
    BY <1>1, <2>2, <2>4, LateFacts, LateMoves
<1>3. CASE ~ Follows(r)
  <2>1. height' = height /\ future' = future /\ decided' = decided
    BY <1>3 DEF ReceiveBlocks
  <2> QED
    BY <1>1, <2>1, LateFacts, LateMoves
<1> QED
  BY <1>2, <1>3

\* A snapshot leaves the messages of the heights it jumps over.
LEMMA SnapshotReceived ==
  ASSUME LateInv, NEW r \in replies, ReceiveSnapshot(r)
  PROVE  LateInv'
<1>1. /\ replies' = replies \ {r} /\ announced' = announced /\ restarts' = restarts
      /\ keep' = keep /\ tip' = tip /\ base' = base /\ r.t = "snapshot"
  BY DEF ReceiveSnapshot, others
<1>3. CASE r.last > height
  <2>1. /\ StartHeight(r.last, {r.last + 1})
        /\ requests' = requests \cup {[to |-> r.from, from |-> r.last + 1]}
        /\ jumped' = jumped \cup (height + 2 .. r.last)
    BY <1>3 DEF ReceiveSnapshot
  <2>2. r.last \in Nat /\ r.last <= tip /\ r.last <= MaxTip /\ r.from \in Peers
    BY LateFacts DEF Reply, Network
  <2>3. [to |-> r.from, from |-> r.last + 1] \in Request
    BY <2>2, LateFacts DEF Request
  <2>4. height' = r.last /\ Fits(future', r.last, tip, jumped') /\ decided' \in BOOLEAN /\ (decided' => r.last < tip)
    <3>1. \A g \in height + 2 .. r.last + 1 : g \in {r.last + 1} \cup jumped'
      BY <2>1, <2>2, LateFacts
    <3>2. jumped \subseteq jumped' /\ jumped' \subseteq Numbers
      BY <2>1, <2>2, LateFacts
    <3> QED
      BY <1>3, <2>1, <2>2, <3>1, <3>2, HeightStarts
  <2>5. requests' \subseteq Request /\ replies' \subseteq replies /\ jumped' \subseteq Numbers
    BY <1>1, <2>1, <2>2, <2>3, LateFacts
  <2> QED
    BY <1>1, <2>2, <2>4, <2>5, LateFacts, LateMoves
<1>4. CASE ~ r.last > height
  <2>1. /\ height' = height /\ future' = future /\ decided' = decided /\ requests' = requests
        /\ jumped' = jumped
    BY <1>4 DEF ReceiveSnapshot
  <2> QED
    BY <1>1, <2>1, LateFacts, LateMoves
<1> QED
  BY <1>3, <1>4

LEMMA LateRestarts ==
  ASSUME LateInv, Restart
  PROVE  LateInv'
<1>1. /\ restarts < MaxRestarts /\ restarts' = restarts + 1 /\ decided' = FALSE
      /\ future' = [h \in Numbers |-> <<>>]
      /\ announced' = {} /\ requests' = {} /\ replies' = {} /\ jumped' = {}
      /\ keep' = keep /\ tip' = tip /\ base' = base /\ height' = height
  BY DEF Restart, Empty, others
<1>2. restarts' \in 0 .. MaxRestarts
  BY <1>1, LateFacts, Limits
<1>3. <<>> \in Seq(Kinds) /\ Len(<<>>) = 0 /\ DOMAIN <<>> = {} /\ 0 <= PerHeight
  BY Limits
<1>4. Fits(future', height', tip, jumped')
  BY <1>1, <1>3 DEF Fits
<1> QED
  BY <1>1, <1>2, <1>4, LateFacts, LateMoves

LEMMA LateStep ==
  ASSUME LateInv, [Next]_(vars)
  PROVE  LateInv'
<1>1. CASE Next
  BY <1>1, OthersAdvance, DecidedCommits, LateRestarts, VoteHeard, DecideHeard, PeerServes,
     BlocksReceived, SnapshotReceived DEF Next
<1>2. CASE UNCHANGED vars
  <2>1. /\ keep' = keep /\ tip' = tip /\ base' = base /\ height' = height /\ future' = future
        /\ decided' = decided /\ announced' = announced /\ requests' = requests
        /\ replies' = replies /\ restarts' = restarts /\ jumped' = jumped
    BY <1>2 DEF vars, others, network
  <2> QED
    BY <2>1, LateFacts, LateMoves
<1> QED
  BY <1>1, <1>2

\* The messages a late validator keeps for later are for the heights a window ahead of it,
\* or for heights a snapshot made it jump over, and no more than PerHeight each, whatever
\* its peers say and however often it starts again (net.py: "bounded: cannot be used to
\* fill memory"): on its own, and among the connections of Peers.
THEOREM LateBufferIsBounded == (Spec => []BufferBounded) /\ (PeersSpec => []BufferBounded)
<1>1. PeersInit => LateInv
  BY LateStarts DEF PeersInit
<1>2. LateInv /\ [PeersNext]_(allVars) => LateInv'
  <2>1. [PeersNext]_(allVars) => [Next]_(vars)
    BY DEF PeersNext, allVars
  <2> QED
    BY <2>1, LateStep
<1>3. LateInv => BufferBounded
  BY DEF LateInv
<1>4. Spec => []BufferBounded
  BY LateStarts, LateStep, <1>3, PTL DEF Spec
<1>5. PeersSpec => []BufferBounded
  BY <1>1, <1>2, <1>3, PTL DEF PeersSpec
<1> QED
  BY <1>4, <1>5
=============================================================================
