----------------------------- MODULE StoreProofs -----------------------------
(***************************************************************************)
(* Proofs about Store: a store opens after a crash between any two writes, *)
(* where the process was, and one that opens after failed writes has every *)
(* block from its snapshot on; for every length of the ledger and every    *)
(* pruning period, where snapshots can be vouched for (Vouched).           *)
(***************************************************************************)
EXTENDS Store, WellFoundedInduction, TLAPS

-----------------------------------------------------------------------------
(* What memory, the job under way and the files have to do with each other. *)

\* The height a store with these files is at.
Top(s, f) == Max({s} \cup {f[i] : i \in DOMAIN f})

\* Every line is covered by the snapshot or by a line before, or the next block after one.
Chains(s, f) ==
  \A i \in DOMAIN f : f[i] # Damaged /\ (f[i] <= s + 1 \/ \E j \in DOMAIN f : j < i /\ f[i] <= f[j] + 1)

Pruning == phase \in {"archive", "snapshot", "anchor", "blocks"}

\* Whatever has failed: lines are blocks that memory has or had.
WithinMemory ==
  /\ job.base <= job.height /\ \A i \in DOMAIN job.keep : job.keep[i] <= height
  /\ Pruning => height <= job.height
  /\ up => \A i \in DOMAIN file : file[i] <= height
  /\ ~ up => phase = "idle" /\ job = NoJob

\* The kept lines are the blocks from the new snapshot up to the height there will be.
JobFits ==
  /\ DOMAIN job.keep = 1 .. Len(job.keep) /\ \A i \in DOMAIN job.keep : job.keep[i] = job.base + i
  /\ job.base + Len(job.keep) = job.height

Archived == setting.changedAt <= MaxHeight => 1 .. snap \subseteq archive

\* As long as no write has failed.
Intact ==
  /\ Chains(snap, file) /\ Archived
  /\ up => ~ torn
  /\ up /\ phase \in {"idle", "prune"} => Top(snap, file) = height
  /\ phase = "append" => Top(snap, file) + 1 = height
  /\ Pruning => JobFits
  /\ phase \in {"archive", "snapshot"} =>
       /\ Top(snap, file) = height /\ snap < job.base
       /\ job.height \in {job.base, height} /\ height <= job.height
  /\ phase = "archive" /\ setting.changedAt <= MaxHeight => job.retired = snap + 1 .. job.base
  /\ phase = "snapshot" /\ setting.changedAt <= MaxHeight => 1 .. job.base \subseteq archive
  /\ phase \in {"anchor", "blocks"} => snap = job.base /\ Top(snap, file) = job.height

StoreInv == TypeOK /\ WithinMemory /\ (~ failed => Intact)

-----------------------------------------------------------------------------
(* The greatest of finitely many heights.                                    *)

LEMMA LeastNat ==
  ASSUME NEW T, T \subseteq Nat, T # {}
  PROVE  \E n \in T : \A m \in T : n <= m
<1> DEFINE R == OpToRel(<, Nat)
<1>1. IsWellFoundedOn(R, Nat)
  BY NatLessThanWellFounded
<1>2. \A m, n \in Nat : m < n => <<m, n>> \in R
  BY DEF OpToRel
<1> HIDE DEF R
<1>3. \E n \in T : \A m \in T : ~ (<<m, n>> \in R)
  BY <1>1, WFMin
<1>4. \A m, n \in Nat : ~ (<<m, n>> \in R) => n <= m
  BY <1>2
<1> QED
  BY <1>3, <1>4

Numbers == 0 .. MaxHeight

LEMMA MaxIs ==
  ASSUME NEW T, T \subseteq Numbers, T # {}
  PROVE  Max(T) \in T /\ \A m \in T : m <= Max(T)
<1> DEFINE D == {MaxHeight - m : m \in T}
<1>1. MaxHeight \in Nat /\ \A m \in T : m \in Nat /\ MaxHeight - m \in Nat
  BY StoreAssumption DEF Numbers
<1>2. D \subseteq Nat /\ D # {}
  BY <1>1
<1> HIDE DEF D
<1>3. PICK d \in D : \A e \in D : d <= e
  BY <1>2, LeastNat
<1>4. PICK n \in T : d = MaxHeight - n
  BY <1>3 DEF D
<1>5. \A m \in T : MaxHeight - m \in D /\ d <= MaxHeight - m
  BY <1>3 DEF D
<1>6. \A m \in T : n >= m
  BY <1>1, <1>4, <1>5
<1>7. Max(T) \in T /\ \A m \in T : Max(T) >= m
  BY <1>6 DEF Max
<1> QED
  BY <1>1, <1>7

LEMMA TopIs ==
  ASSUME NEW s \in Numbers, NEW f \in Seq(Numbers)
  PROVE  /\ Top(s, f) \in Numbers /\ s <= Top(s, f) /\ \A i \in DOMAIN f : f[i] <= Top(s, f)
         /\ Top(s, f) = s \/ \E i \in DOMAIN f : Top(s, f) = f[i]
         /\ {s, Top(s, f)} \subseteq Nat /\ \A i \in DOMAIN f : f[i] \in Nat
<1> DEFINE T == {s} \cup {f[i] : i \in DOMAIN f}
<1>1. T \subseteq Numbers /\ T # {}
  <2>1. \A i \in DOMAIN f : f[i] \in Numbers
    OBVIOUS
  <2> QED
    BY <2>1
<1>2. Top(s, f) = Max(T)
  BY DEF Top
<1>3. s \in T /\ \A i \in DOMAIN f : f[i] \in T
  OBVIOUS
<1>4. \A m \in T : m = s \/ \E i \in DOMAIN f : m = f[i]
  OBVIOUS
<1>5. s \in Nat /\ \A i \in DOMAIN f : f[i] \in Nat
  BY <1>1, StoreAssumption DEF Numbers
<1>6. \A m \in Numbers : m \in Nat
  BY StoreAssumption DEF Numbers
<1> HIDE DEF T
<1>7. Max(T) \in T /\ \A m \in T : m <= Max(T)
  BY <1>1, MaxIs
<1> QED
  BY <1>1, <1>2, <1>3, <1>4, <1>5, <1>6, <1>7

\* The next block is appended.
LEMMA TopAppend ==
  ASSUME NEW s \in Numbers, NEW f \in Seq(Numbers), NEW h \in Heights, h = Top(s, f) + 1, Chains(s, f)
  PROVE  Top(s, Append(f, h)) = h /\ Chains(s, Append(f, h))
<1> DEFINE g == Append(f, h)
<1>0. MaxHeight \in Nat /\ Heights \subseteq Numbers /\ Numbers \subseteq Nat
  BY StoreAssumption DEF Heights, Numbers
<1>1. /\ g \in Seq(Numbers) /\ Len(f) \in Nat /\ DOMAIN g = 1 .. Len(f) + 1 /\ DOMAIN f = 1 .. Len(f)
      /\ g[Len(f) + 1] = h /\ \A i \in DOMAIN f : g[i] = f[i]
  BY <1>0
<1> HIDE DEF g
<1>2. /\ Top(s, f) \in Numbers /\ s <= Top(s, f) /\ \A i \in DOMAIN f : f[i] <= Top(s, f)
      /\ Top(s, f) = s \/ \E i \in DOMAIN f : Top(s, f) = f[i]
      /\ {s, Top(s, f)} \subseteq Nat /\ \A i \in DOMAIN f : f[i] \in Nat
  BY TopIs
<1>3. /\ Top(s, g) \in Numbers /\ s <= Top(s, g) /\ \A i \in DOMAIN g : g[i] <= Top(s, g)
      /\ Top(s, g) = s \/ \E i \in DOMAIN g : Top(s, g) = g[i]
      /\ {s, Top(s, g)} \subseteq Nat /\ \A i \in DOMAIN g : g[i] \in Nat
  BY <1>1, TopIs
<1>4. \A i \in DOMAIN g : i \in DOMAIN f \/ i = Len(f) + 1
  BY <1>1
<1>5. h \in Nat /\ h > 0
  BY DEF Heights
<1>6. h <= Top(s, g)
  BY <1>1, <1>3
<1>7. s <= h /\ \A i \in DOMAIN g : g[i] <= h
  <2>1. ASSUME NEW i \in DOMAIN g
        PROVE  g[i] <= h
    <3>1. CASE i \in DOMAIN f
      <4>1. f[i] \in Nat /\ f[i] <= Top(s, f) /\ g[i] = f[i]
        BY <1>0, <1>1, <1>2, <3>1
      <4> QED
        BY <1>0, <1>2, <1>5, <4>1
    <3>2. CASE i = Len(f) + 1
      BY <1>1, <1>5, <3>2
    <3> QED
      BY <1>4, <3>1, <3>2
  <2> QED
    BY <1>0, <1>2, <1>5, <2>1
<1>8. Top(s, g) = h
  BY <1>0, <1>3, <1>5, <1>6, <1>7
<1>9. ASSUME NEW i \in DOMAIN g
      PROVE  g[i] # Damaged /\ (g[i] <= s + 1 \/ \E j \in DOMAIN g : j < i /\ g[i] <= g[j] + 1)
  <2>1. CASE i \in DOMAIN f
    <3>1. f[i] # Damaged /\ (f[i] <= s + 1 \/ \E j \in DOMAIN f : j < i /\ f[i] <= f[j] + 1)
      BY <2>1 DEF Chains
    <3>2. \A j \in DOMAIN f : j \in DOMAIN g /\ g[j] = f[j]
      BY <1>1
    <3> QED
      BY <2>1, <3>1, <3>2
  <2>2. CASE i = Len(f) + 1
    <3>1. g[i] = h /\ \A j \in DOMAIN f : j < i /\ j \in DOMAIN g /\ g[j] = f[j]
      BY <1>1, <2>2
    <3> QED
      BY <1>0, <1>2, <1>5, <3>1 DEF Damaged
  <2> QED
    BY <1>4, <2>1, <2>2
<1> QED
  BY <1>8, <1>9 DEF Chains, g

\* A later snapshot is written.
LEMMA TopSnap ==
  ASSUME NEW s \in Numbers, NEW f \in Seq(Numbers), NEW t \in Numbers, s <= t, Chains(s, f)
  PROVE  /\ Top(t, f) = (IF t > Top(s, f) THEN t ELSE Top(s, f)) /\ Chains(t, f)
<1>0. Numbers \subseteq Nat
  BY StoreAssumption DEF Numbers
<1>1. /\ Top(s, f) \in Numbers /\ s <= Top(s, f) /\ \A i \in DOMAIN f : f[i] <= Top(s, f)
      /\ Top(s, f) = s \/ \E i \in DOMAIN f : Top(s, f) = f[i]
      /\ {s, Top(s, f)} \subseteq Nat /\ \A i \in DOMAIN f : f[i] \in Nat
  BY TopIs
<1>2. /\ Top(t, f) \in Numbers /\ t <= Top(t, f) /\ \A i \in DOMAIN f : f[i] <= Top(t, f)
      /\ Top(t, f) = t \/ \E i \in DOMAIN f : Top(t, f) = f[i]
      /\ {t, Top(t, f)} \subseteq Nat /\ \A i \in DOMAIN f : f[i] \in Nat
  BY TopIs
<1>3. Top(s, f) <= Top(t, f) /\ Top(t, f) <= (IF t > Top(s, f) THEN t ELSE Top(s, f))
  BY <1>0, <1>1, <1>2
<1>4. Top(t, f) = (IF t > Top(s, f) THEN t ELSE Top(s, f))
  BY <1>0, <1>1, <1>2, <1>3
<1>5. ASSUME NEW i \in DOMAIN f
      PROVE  f[i] # Damaged /\ (f[i] <= t + 1 \/ \E j \in DOMAIN f : j < i /\ f[i] <= f[j] + 1)
  <2>1. f[i] # Damaged /\ (f[i] <= s + 1 \/ \E j \in DOMAIN f : j < i /\ f[i] <= f[j] + 1)
    BY DEF Chains
  <2>2. f[i] \in Nat
    BY <1>2
  <2> QED
    BY <1>0, <2>1, <2>2
<1> QED
  BY <1>4, <1>5 DEF Chains

\* The lines are the blocks that follow the snapshot.
LEMMA TopKept ==
  ASSUME NEW s \in Numbers, NEW f \in Seq(Numbers), \A i \in DOMAIN f : f[i] = s + i
  PROVE  Top(s, f) = s + Len(f) /\ Chains(s, f)
<1>0. Numbers \subseteq Nat /\ s \in Nat /\ Len(f) \in Nat /\ DOMAIN f = 1 .. Len(f)
  BY StoreAssumption DEF Numbers
<1>1. /\ Top(s, f) \in Numbers /\ s <= Top(s, f) /\ \A i \in DOMAIN f : f[i] <= Top(s, f)
      /\ Top(s, f) = s \/ \E i \in DOMAIN f : Top(s, f) = f[i]
      /\ {s, Top(s, f)} \subseteq Nat /\ \A i \in DOMAIN f : f[i] \in Nat
  BY TopIs
<1>2. Top(s, f) <= s + Len(f)
  BY <1>0, <1>1
<1>3. Top(s, f) >= s + Len(f)
  <2>1. CASE Len(f) = 0
    BY <1>0, <1>1, <2>1
  <2>2. CASE Len(f) > 0
    <3>1. Len(f) \in DOMAIN f
      BY <1>0, <2>2
    <3> QED
      BY <1>0, <1>1, <3>1
  <2> QED
    BY <1>0, <2>1, <2>2
<1>4. Top(s, f) = s + Len(f)
  BY <1>0, <1>1, <1>2, <1>3
<1>5. ASSUME NEW i \in DOMAIN f
      PROVE  f[i] # Damaged /\ (f[i] <= s + 1 \/ \E j \in DOMAIN f : j < i /\ f[i] <= f[j] + 1)
  <2>1. f[i] = s + i /\ i \in Nat /\ i > 0
    BY <1>0
  <2>2. CASE i = 1
    BY <1>0, <2>1, <2>2 DEF Damaged
  <2>3. CASE i > 1
    <3>1. i - 1 \in DOMAIN f /\ i - 1 < i /\ f[i - 1] = s + (i - 1)
      BY <1>0, <2>1, <2>3
    <3>2. f[i] <= f[i - 1] + 1 /\ f[i] # 0
      BY <1>0, <2>1, <3>1
    <3> QED
      BY <3>1, <3>2 DEF Damaged
  <2> QED
    BY <2>1, <2>2, <2>3
<1> QED
  BY <1>4, <1>5 DEF Chains

-----------------------------------------------------------------------------
(* Opening a store.                                                          *)

LEMMA Typed == TypeOK => /\ file \in Seq(Numbers) /\ snap \in Numbers /\ height \in Numbers /\ base \in Numbers
                         /\ job.base \in Numbers /\ job.height \in Numbers /\ job.keep \in Seq(Numbers)
                         /\ setting \in Settings
<1> SUFFICES ASSUME TypeOK
             PROVE  /\ file \in Seq(Numbers) /\ snap \in Numbers /\ height \in Numbers /\ base \in Numbers
                    /\ job.base \in Numbers /\ job.height \in Numbers /\ job.keep \in Seq(Numbers)
                    /\ setting \in Settings
  OBVIOUS
<1>1. {Damaged} \cup Heights = Numbers /\ Heights \subseteq Numbers
  BY StoreAssumption DEF Damaged, Heights, Numbers
<1>2. file \in Seq(Numbers)
  BY <1>1 DEF TypeOK
<1>3. snap \in Numbers /\ height \in Numbers /\ base \in Numbers /\ setting \in Settings
  BY StoreAssumption DEF TypeOK, Numbers
<1>4. job.base \in Numbers /\ job.height \in Numbers /\ job.keep \in Seq(Heights)
  BY DEF TypeOK, Jobs, Numbers
<1>5. job.keep \in Seq(Numbers)
  BY <1>1, <1>4
<1> QED
  BY <1>2, <1>3, <1>4, <1>5

LEMMA ReplaysIs == TypeOK => ((\A i \in DOMAIN file : Replayable(i)) <=> Chains(snap, file))
<1> SUFFICES ASSUME TypeOK
             PROVE  (\A i \in DOMAIN file : Replayable(i)) <=> Chains(snap, file)
  OBVIOUS
<1>1. /\ file \in Seq(Numbers) /\ snap \in Numbers /\ DOMAIN file = 1 .. Len(file) /\ Len(file) \in Nat
      /\ \A i \in DOMAIN file : file[i] \in Numbers
  BY Typed
<1>2. \A m \in Numbers : m \in Nat
  BY StoreAssumption DEF Numbers
<1>3. ASSUME NEW i \in DOMAIN file
      PROVE  Replayable(i) <=>
               file[i] # Damaged /\ (file[i] <= snap + 1 \/ \E j \in DOMAIN file : j < i /\ file[i] <= file[j] + 1)
  <2> DEFINE T == {snap} \cup {file[j] : j \in 1 .. i - 1}
  <2>1. \A j \in 1 .. i - 1 : j \in DOMAIN file /\ j < i
    BY <1>1
  <2>2. \A j \in DOMAIN file : j < i => j \in 1 .. i - 1
    BY <1>1
  <2>3. T \subseteq Numbers /\ T # {}
    BY <1>1, <2>1
  <2>4. Reached(i - 1) = Max(T)
    BY DEF Reached
  <2>5. snap \in T /\ \A j \in 1 .. i - 1 : file[j] \in T
    OBVIOUS
  <2>6. \A m \in T : m = snap \/ \E j \in 1 .. i - 1 : m = file[j]
    OBVIOUS
  <2> HIDE DEF T
  <2>7. Max(T) \in T /\ \A m \in T : m <= Max(T)
    BY <2>3, MaxIs
  <2>8. Max(T) \in Nat /\ snap \in Nat /\ file[i] \in Nat /\ \A j \in DOMAIN file : file[j] \in Nat
    BY <1>1, <1>2, <2>3, <2>7
  <2>9. ASSUME file[i] <= Max(T) + 1
        PROVE  file[i] <= snap + 1 \/ \E j \in DOMAIN file : j < i /\ file[i] <= file[j] + 1
    BY <2>1, <2>6, <2>7, <2>9
  <2>10. ASSUME file[i] <= snap + 1
         PROVE  file[i] <= Max(T) + 1
    BY <2>5, <2>7, <2>8, <2>10
  <2>11. ASSUME NEW j \in DOMAIN file, j < i, file[i] <= file[j] + 1
         PROVE  file[i] <= Max(T) + 1
    <3>1. file[j] <= Max(T) /\ file[j] \in Nat
      BY <2>2, <2>5, <2>7, <2>8, <2>11
    <3> QED
      BY <2>8, <2>11, <3>1
  <2> QED
    BY <2>4, <2>9, <2>10, <2>11 DEF Replayable
<1> QED
  BY <1>3 DEF Chains

LEMMA RecoveredIs ==
  TypeOK => Recovered = IF (snap = 0 \/ Trusted) /\ Chains(snap, file) THEN Top(snap, file) ELSE Refused
<1> SUFFICES ASSUME TypeOK
             PROVE  Recovered = IF (snap = 0 \/ Trusted) /\ Chains(snap, file) THEN Top(snap, file) ELSE Refused
  OBVIOUS
<1>1. DOMAIN file = 1 .. Len(file)
  BY Typed
<1>2. Reached(Len(file)) = Top(snap, file)
  BY <1>1 DEF Reached, Top
<1> QED
  BY <1>2, ReplaysIs DEF Recovered

\* _open_chain: whatever lines there are, a store that opens has every block it says.
LEMMA OpensComplete == TypeOK => FailsClosed
<1> SUFFICES ASSUME TypeOK, Recovered # Refused, NEW h \in snap + 1 .. Recovered
             PROVE  \E i \in DOMAIN file : file[i] = h
  BY DEF FailsClosed
<1>1. Recovered = Top(snap, file) /\ Chains(snap, file)
  BY RecoveredIs
<1>2. file \in Seq(Numbers) /\ snap \in Numbers /\ DOMAIN file \subseteq Nat
  BY Typed
<1>3. /\ Top(snap, file) \in Numbers /\ snap <= Top(snap, file) /\ \A i \in DOMAIN file : file[i] <= Top(snap, file)
      /\ Top(snap, file) = snap \/ \E i \in DOMAIN file : Top(snap, file) = file[i]
      /\ {snap, Top(snap, file)} \subseteq Nat /\ \A i \in DOMAIN file : file[i] \in Nat
  BY <1>2, TopIs
<1>4. h \in Nat /\ snap < h /\ h <= Top(snap, file)
  BY <1>1, <1>3
<1> DEFINE T == {i \in DOMAIN file : h <= file[i]}
<1>5. T \subseteq Nat /\ T # {}
  BY <1>2, <1>3, <1>4
<1>6. PICK i \in T : \A j \in T : i <= j
  BY <1>5, LeastNat
<1>7. i \in DOMAIN file /\ h <= file[i] /\ i \in Nat
  BY <1>2, <1>6
<1>8. file[i] <= snap + 1 \/ \E j \in DOMAIN file : j < i /\ file[i] <= file[j] + 1
  BY <1>1, <1>7 DEF Chains
<1>9. CASE file[i] <= snap + 1
  BY <1>3, <1>4, <1>7, <1>9
<1>10. ASSUME NEW j \in DOMAIN file, j < i, file[i] <= file[j] + 1
       PROVE  file[i] = h
  <2>1. j \notin T /\ j \in Nat
    BY <1>2, <1>6, <1>7, <1>10
  <2>2. file[j] < h
    BY <1>3, <1>4, <2>1
  <2> QED
    BY <1>3, <1>4, <1>7, <1>10, <2>2
<1> QED
  BY <1>7, <1>8, <1>9, <1>10

\* Somebody can vouch for the snapshot, and so the store opens at what it has.
LEMMA OpensWhereItIs == Vouched /\ StoreInv /\ ~ failed => Recovered = Top(snap, file)
<1> SUFFICES ASSUME Vouched, StoreInv, ~ failed
             PROVE  Recovered = Top(snap, file)
  OBVIOUS
<1>1. TypeOK /\ Chains(snap, file) /\ Archived
  BY DEF StoreInv, Intact
<1>2. ASSUME setting.changedAt <= MaxHeight
      PROVE  Trusted
  BY <1>1, <1>2 DEF Archived, Trusted
<1>3. ASSUME ~ (setting.changedAt <= MaxHeight)
      PROVE  Trusted
  <2>1. setting.changedAt \in Nat /\ snap \in Nat /\ snap <= MaxHeight /\ MaxHeight \in Nat
    BY <1>1, Typed, StoreAssumption DEF Numbers
  <2>2. CertifiedBy(snap) = "founders"
    BY <1>3, <2>1 DEF CertifiedBy
  <2> QED
    BY <2>2 DEF Trusted
<1>4. snap = 0 \/ Trusted
  BY <1>2, <1>3
<1> QED
  BY <1>1, <1>4, RecoveredIs

-----------------------------------------------------------------------------
(* One step after the other.                                                 *)

\* The height a restart resumes from has not gone back.
Onward == ~ failed' => Top(snap', file') >= Top(snap, file)

LEMMA StoreStarts == Init => StoreInv
<1> SUFFICES ASSUME Init
             PROVE  StoreInv
  OBVIOUS
<1>1. /\ up = TRUE /\ base = 0 /\ height = 0 /\ phase = "idle" /\ job = NoJob
      /\ file = <<>> /\ torn = FALSE /\ snap = 0 /\ anchor = 0 /\ archive = {}
      /\ setting \in Settings /\ failed = FALSE /\ MaxHeight \in Nat
  BY StoreAssumption DEF Init
<1>2. file \in Seq({Damaged} \cup Heights) /\ file \in Seq(Numbers) /\ DOMAIN file = {}
  BY <1>1
<1>3. NoJob \in Jobs /\ NoJob.base = 0 /\ NoJob.height = 0 /\ DOMAIN NoJob.keep = {}
  <2>1. <<>> \in Seq(Heights) /\ {} \in SUBSET Heights /\ 0 \in 0 .. MaxHeight
    BY <1>1
  <2> QED
    BY <2>1 DEF NoJob, Jobs
<1>4. TypeOK
  <2>1. base \in 0 .. height /\ height \in 0 .. MaxHeight /\ snap \in 0 .. MaxHeight /\ anchor \in 0 .. MaxHeight
    BY <1>1
  <2>2. job \in Jobs /\ archive \subseteq Heights
    BY <1>1, <1>3
  <2> QED
    BY <1>1, <1>2, <2>1, <2>2 DEF TypeOK
<1>5. WithinMemory
  BY <1>1, <1>2, <1>3 DEF WithinMemory, Pruning
<1>6. Top(0, file) = 0
  <2>1. 0 \in Numbers
    BY <1>1 DEF Numbers
  <2> QED
    BY <1>2, <2>1, TopIs
<1>7. Intact
  <2>1. Chains(snap, file) /\ Archived
    BY <1>1, <1>2 DEF Chains, Archived
  <2> QED
    BY <1>1, <1>6, <2>1 DEF Intact, Pruning
<1> QED
  BY <1>4, <1>5, <1>7 DEF StoreInv

LEMMA CommitKeeps ==
  ASSUME StoreInv, Commit
  PROVE  StoreInv' /\ Onward
<1>1. /\ up /\ phase = "idle" /\ height < MaxHeight /\ height' = height + 1 /\ phase' = "append"
      /\ UNCHANGED <<up, base, job, file, torn, snap, anchor, archive, setting, failed>>
  BY DEF Commit, Idle, disk, history
<1>2. TypeOK /\ WithinMemory /\ (~ failed => Intact) /\ file \in Seq(Numbers) /\ snap \in Numbers
  BY Typed DEF StoreInv
<1>3. /\ Top(snap, file) \in Nat /\ \A i \in DOMAIN file : file[i] \in Nat
  BY <1>2, TopIs
<1>4. height \in Nat /\ base \in Nat /\ MaxHeight \in Nat
  BY <1>2, StoreAssumption DEF TypeOK
<1>5. TypeOK'
  <2>1. base' \in 0 .. height' /\ height' \in 0 .. MaxHeight
    BY <1>1, <1>2, <1>4 DEF TypeOK
  <2> QED
    BY <1>1, <1>2, <2>1 DEF TypeOK
<1>6. WithinMemory'
  <2>1. \A i \in DOMAIN job.keep : job.keep[i] \in Nat
    BY <1>2, Typed, StoreAssumption DEF Numbers
  <2>2. \A i \in DOMAIN file : file[i] <= height + 1
    BY <1>1, <1>2, <1>3, <1>4 DEF WithinMemory
  <2>3. \A i \in DOMAIN job.keep : job.keep[i] <= height + 1
    BY <1>2, <1>4, <2>1 DEF WithinMemory
  <2> QED
    BY <1>1, <1>2, <2>2, <2>3 DEF WithinMemory, Pruning
<1>7. ~ failed' => Intact'
  <2> HAVE ~ failed'
  <2>1. Intact
    BY <1>1, <1>2
  <2> QED
    BY <1>1, <2>1 DEF Intact, Pruning, Archived
<1> QED
  BY <1>1, <1>3, <1>5, <1>6, <1>7 DEF StoreInv, Onward

LEMMA StoreBlockKeeps ==
  ASSUME StoreInv, StoreBlock
  PROVE  StoreInv' /\ Onward
<1>1. /\ up /\ phase = "append" /\ phase' \in {"prune", "idle"} /\ torn' = FALSE
      /\ file' = Append(file, IF torn THEN Damaged ELSE height)
      /\ UNCHANGED <<up, base, height, job, snap, anchor, archive, setting, failed>>
  BY DEF StoreBlock, Written, history
<1>2. TypeOK /\ WithinMemory /\ (~ failed => Intact) /\ file \in Seq(Numbers) /\ snap \in Numbers
  BY Typed DEF StoreInv
<1>3. /\ Top(snap, file) \in Nat /\ \A i \in DOMAIN file : file[i] \in Nat
  BY <1>2, TopIs
<1>4. height \in Nat /\ base \in Nat /\ MaxHeight \in Nat
  BY <1>2, StoreAssumption DEF TypeOK
<1> DEFINE line == IF torn THEN Damaged ELSE height
<1>5. line \in {Damaged} \cup Heights /\ line <= height
  BY <1>2, <1>4 DEF TypeOK, Heights, Damaged
<1>6. file' = Append(file, line)
  BY <1>1
<1> HIDE DEF line
<1>7. TypeOK'
  <2>1. file' \in Seq({Damaged} \cup Heights)
    BY <1>2, <1>5, <1>6 DEF TypeOK
  <2> QED
    BY <1>1, <1>2, <2>1 DEF TypeOK
<1>8. WithinMemory'
  <2>1. \A i \in DOMAIN file' : (i \in DOMAIN file /\ file'[i] = file[i]) \/ file'[i] = line
    BY <1>2, <1>5, <1>6
  <2>2. \A i \in DOMAIN file' : file'[i] <= height
    BY <1>1, <1>2, <1>5, <2>1 DEF WithinMemory
  <2> QED
    BY <1>1, <1>2, <2>2 DEF WithinMemory, Pruning
<1>9. ASSUME ~ failed'
      PROVE  Intact' /\ Top(snap', file') >= Top(snap, file)
  <2>1. Intact /\ ~ torn /\ height = Top(snap, file) + 1 /\ Chains(snap, file)
    BY <1>1, <1>2, <1>9 DEF Intact
  <2>2. file' = Append(file, height) /\ height \in Heights
    BY <1>1, <1>2, <1>3, <1>4, <2>1 DEF Heights, TypeOK
  <2>3. Top(snap, file') = height /\ Chains(snap, file')
    BY <1>2, <2>1, <2>2, TopAppend
  <2>4. Intact'
    BY <1>1, <2>1, <2>3 DEF Intact, Pruning, Archived
  <2> QED
    BY <1>1, <1>3, <2>1, <2>3, <2>4
<1> QED
  BY <1>7, <1>8, <1>9 DEF StoreInv, Onward

LEMMA WriteFailsKeeps ==
  ASSUME StoreInv, WriteFails
  PROVE  StoreInv' /\ Onward
<1>1. /\ up /\ phase' = "idle" /\ job' = NoJob /\ failed' = TRUE
      /\ UNCHANGED <<up, base, height, setting>>
      /\ UNCHANGED disk \/ (torn' = TRUE /\ UNCHANGED <<file, snap, anchor, archive>>) \/ Written
  BY DEF WriteFails
<1>2. TypeOK /\ WithinMemory /\ job \in Jobs
  BY DEF StoreInv, TypeOK
<1>3. NoJob \in Jobs /\ NoJob.base = 0 /\ NoJob.height = 0 /\ DOMAIN NoJob.keep = {}
  <2>1. <<>> \in Seq(Heights) /\ {} \in SUBSET Heights /\ 0 \in 0 .. MaxHeight
    BY StoreAssumption
  <2> QED
    BY <2>1 DEF NoJob, Jobs
<1>4. /\ file' \in Seq({Damaged} \cup Heights) /\ torn' \in BOOLEAN /\ snap' \in 0 .. MaxHeight
      /\ anchor' \in 0 .. MaxHeight /\ archive' \subseteq Heights /\ \A i \in DOMAIN file' : file'[i] <= height
  <2>1. CASE UNCHANGED <<file, snap, anchor, archive>> /\ torn' \in {torn, TRUE}
    BY <1>1, <1>2, <2>1 DEF TypeOK, WithinMemory
  <2>2. CASE phase = "append" /\ Written
    <3> DEFINE line == IF torn THEN Damaged ELSE height
    <3>1. line \in {Damaged} \cup Heights /\ line <= height
      BY <1>2, StoreAssumption DEF TypeOK, Heights, Damaged
    <3>2. file' = Append(file, line) /\ torn' = FALSE /\ UNCHANGED <<snap, anchor, archive>>
      BY <2>2 DEF Written
    <3>3. file \in Seq({Damaged} \cup Heights)
      BY <1>2 DEF TypeOK
    <3> HIDE DEF line
    <3>4. file' \in Seq({Damaged} \cup Heights)
      BY <3>1, <3>2, <3>3
    <3>5. \A i \in DOMAIN file' : (i \in DOMAIN file /\ file'[i] = file[i]) \/ file'[i] = line
      BY <3>1, <3>2, <3>3
    <3>6. \A i \in DOMAIN file' : file'[i] <= height
      BY <1>1, <1>2, <3>1, <3>5 DEF WithinMemory
    <3> QED
      BY <1>2, <3>2, <3>4, <3>6 DEF TypeOK
  <2>3. CASE phase = "archive" /\ Written
    BY <1>1, <1>2, <2>3 DEF Written, TypeOK, WithinMemory, Jobs
  <2>4. CASE phase = "snapshot" /\ Written
    BY <1>1, <1>2, <2>4 DEF Written, TypeOK, WithinMemory, Jobs
  <2>5. CASE phase = "anchor" /\ Written
    BY <1>1, <1>2, <2>5 DEF Written, TypeOK, WithinMemory, Jobs
  <2>6. CASE phase = "blocks" /\ Written
    <3>1. file' = job.keep /\ torn' = FALSE /\ UNCHANGED <<snap, anchor, archive>>
      BY <2>6 DEF Written
    <3>2. job.keep \in Seq({Damaged} \cup Heights)
      <4>1. job.keep \in Seq(Heights)
        BY <1>2 DEF Jobs
      <4> QED
        BY <4>1
    <3> QED
      BY <1>2, <3>1, <3>2 DEF TypeOK, WithinMemory
  <2> QED
    BY <1>1, <1>2, <2>1, <2>2, <2>3, <2>4, <2>5, <2>6 DEF Written, disk, TypeOK
<1>5. TypeOK'
  BY <1>1, <1>2, <1>3, <1>4 DEF TypeOK
<1>6. WithinMemory'
  BY <1>1, <1>3, <1>4 DEF WithinMemory, Pruning
<1> QED
  BY <1>1, <1>5, <1>6 DEF StoreInv, Onward

LEMMA StartPruneKeeps ==
  ASSUME Vouched, StoreInv, StartPrune
  PROVE  StoreInv' /\ Onward
<1>1. /\ up /\ phase = "prune" /\ UNCHANGED <<up, base, height, file, torn, snap, anchor, archive, setting, failed>>
  BY DEF StartPrune, disk, history
<1>2. TypeOK /\ WithinMemory /\ (~ failed => Intact) /\ file \in Seq(Numbers) /\ snap \in Numbers
  BY Typed DEF StoreInv
<1>3. /\ Top(snap, file) \in Numbers /\ snap <= Top(snap, file) /\ \A i \in DOMAIN file : file[i] <= Top(snap, file)
      /\ Top(snap, file) = snap \/ \E i \in DOMAIN file : Top(snap, file) = file[i]
      /\ {snap, Top(snap, file)} \subseteq Nat /\ \A i \in DOMAIN file : file[i] \in Nat
  BY <1>2, TopIs
<1>4. height \in Nat /\ MaxHeight \in Nat /\ Keep \in Nat /\ Keep > 0
  BY <1>2, StoreAssumption DEF TypeOK
<1>5. CASE phase' = "idle" /\ UNCHANGED job
  <2>1. TypeOK'
    BY <1>1, <1>2, <1>5 DEF TypeOK
  <2>2. WithinMemory'
    BY <1>1, <1>2, <1>5 DEF WithinMemory, Pruning
  <2>3. ~ failed' => Intact'
    BY <1>1, <1>2, <1>5 DEF Intact, Pruning, Archived
  <2> QED
    BY <1>1, <1>3, <2>1, <2>2, <2>3 DEF StoreInv, Onward
<1> DEFINE new == Recovered - Keep
           plan == [base |-> new, keep |-> Kept(new), retired |-> snap + 1 .. new, height |-> height]
<1>6. CASE ~ (Recovered = Refused \/ new <= snap) /\ phase' = "archive" /\ job' = plan
  <2>1. Recovered = Top(snap, file) /\ Chains(snap, file)
    BY <1>2, <1>6, RecoveredIs
  <2>2. new \in Nat /\ snap < new /\ new < Top(snap, file) /\ Top(snap, file) <= height /\ new + Keep = Top(snap, file)
    <3>1. snap < Top(snap, file) - Keep /\ new = Top(snap, file) - Keep
      BY <1>3, <1>4, <1>6, <2>1
    <3>2. Top(snap, file) # snap
      BY <1>3, <1>4, <3>1
    <3>3. Top(snap, file) <= height
      BY <1>1, <1>2, <1>3, <3>2 DEF WithinMemory
    <3> QED
      BY <1>3, <1>4, <3>1, <3>3
  <2> HIDE DEF new
  <2>3. height <= MaxHeight /\ height \in 0 .. MaxHeight
    BY <1>2 DEF TypeOK
  <2>4. Kept(new) \in Seq(Heights) /\ Len(Kept(new)) = Keep /\ DOMAIN Kept(new) = 1 .. Keep
    <3>1. \A i \in 1 .. Keep : new + i \in Heights
      BY <1>3, <1>4, <2>2, <2>3 DEF Heights
    <3>2. Kept(new) \in [1 .. Keep -> Heights]
      BY <3>1 DEF Kept
    <3> QED
      BY <1>4, <3>2
  <2>5. \A i \in DOMAIN Kept(new) : Kept(new)[i] = new + i /\ Kept(new)[i] <= height
    BY <1>3, <1>4, <2>2, <2>4 DEF Kept
  <2>6. snap + 1 .. new \subseteq Heights
    BY <1>3, <1>4, <2>2, <2>3 DEF Heights
  <2>7. plan \in Jobs /\ plan.base = new /\ plan.keep = Kept(new) /\ plan.retired = snap + 1 .. new /\ plan.height = height
    <3>1. new \in 0 .. MaxHeight
      BY <1>3, <1>4, <2>2, <2>3
    <3> QED
      BY <2>3, <2>4, <2>6, <3>1 DEF Jobs
  <2> HIDE DEF plan
  <2>8. TypeOK'
    BY <1>1, <1>2, <1>6, <2>7 DEF TypeOK
  <2>9. WithinMemory'
    <3>1. new <= height
      BY <1>3, <1>4, <2>2
    <3> QED
      BY <1>1, <1>2, <1>4, <1>6, <2>5, <2>7, <3>1 DEF WithinMemory, Pruning
  <2>10. ASSUME ~ failed'
         PROVE  Intact'
    <3>1. Intact /\ Top(snap, file) = height
      BY <1>1, <1>2, <2>10 DEF Intact
    <3>2. JobFits'
      BY <1>6, <2>2, <2>4, <2>5, <2>7, <3>1 DEF JobFits
    <3> QED
      BY <1>1, <1>4, <1>6, <2>2, <2>7, <3>1, <3>2 DEF Intact, Pruning, Archived
  <2> QED
    BY <1>1, <1>3, <2>8, <2>9, <2>10 DEF StoreInv, Onward
<1> QED
  BY <1>5, <1>6 DEF StartPrune

LEMMA InstallKeeps ==
  ASSUME Vouched, StoreInv, NEW h \in setting.snapshots, Install(h)
  PROVE  StoreInv' /\ Onward
<1>1. /\ up /\ phase = "idle" /\ h > height /\ phase' = "archive"
      /\ job' = [base |-> h, keep |-> <<>>, retired |-> base + 1 .. height, height |-> h]
      /\ UNCHANGED <<up, base, height, file, torn, snap, anchor, archive, setting, failed>>
  BY DEF Install, Idle, disk, history
<1>2. /\ TypeOK /\ WithinMemory /\ (~ failed => Intact) /\ file \in Seq(Numbers) /\ snap \in Numbers
      /\ setting \in Settings /\ height \in 0 .. MaxHeight /\ base \in 0 .. height
  BY Typed DEF StoreInv, TypeOK
<1>3. /\ Top(snap, file) \in Nat /\ snap \in Nat /\ snap <= Top(snap, file)
  BY <1>2, TopIs
<1>4. h \in 1 .. MaxHeight /\ (setting.changedAt <= MaxHeight => setting.snapshots = {}) /\ MaxHeight \in Nat
  BY <1>2, StoreAssumption DEF Vouched
<1> DEFINE plan == [base |-> h, keep |-> <<>>, retired |-> base + 1 .. height, height |-> h]
<1>5. /\ plan \in Jobs /\ plan.base = h /\ plan.keep = <<>> /\ plan.height = h
  <2>1. <<>> \in Seq(Heights) /\ base + 1 .. height \subseteq Heights /\ h \in 0 .. MaxHeight
    BY <1>2, <1>4 DEF Heights
  <2> QED
    BY <2>1 DEF Jobs
<1>6. job' = plan
  BY <1>1
<1> HIDE DEF plan
<1>7. TypeOK'
  BY <1>1, <1>2, <1>5, <1>6 DEF TypeOK
<1>8. WithinMemory'
  BY <1>1, <1>2, <1>4, <1>5, <1>6 DEF WithinMemory, Pruning
<1>9. ASSUME ~ failed'
      PROVE  Intact'
  <2>1. Intact /\ Top(snap, file) = height
    BY <1>1, <1>2, <1>9 DEF Intact
  <2>2. JobFits'
    <3>1. Len(<<>>) = 0 /\ DOMAIN <<>> = {} /\ 1 .. 0 = {}
      OBVIOUS
    <3> QED
      BY <1>4, <1>5, <1>6, <3>1 DEF JobFits
  <2>3. ~ (setting.changedAt <= MaxHeight)
    BY <1>4
  <2>4. snap < h /\ height <= h
    BY <1>1, <1>2, <1>3, <1>4, <2>1
  <2> QED
    BY <1>1, <1>5, <1>6, <2>1, <2>2, <2>3, <2>4 DEF Intact, Pruning, Archived
<1> QED
  BY <1>1, <1>3, <1>7, <1>8, <1>9 DEF StoreInv, Onward

LEMMA WriteArchiveKeeps ==
  ASSUME Vouched, StoreInv, WriteArchive
  PROVE  StoreInv' /\ Onward
<1>1. /\ up /\ phase = "archive" /\ phase' = "snapshot"
      /\ archive' = (IF setting.archive THEN archive \cup job.retired ELSE archive)
      /\ UNCHANGED <<up, base, height, job, file, torn, snap, anchor, setting, failed>>
  BY DEF WriteArchive, Written, history
<1>2. TypeOK /\ WithinMemory /\ (~ failed => Intact) /\ setting \in Settings /\ snap \in Numbers /\ file \in Seq(Numbers)
  BY Typed DEF StoreInv
<1>3. Top(snap, file) \in Nat
  BY <1>2, TopIs
<1>4. TypeOK'
  <2>1. job.retired \subseteq Heights
    BY <1>2 DEF TypeOK, Jobs
  <2>2. archive' \subseteq Heights
    BY <1>1, <1>2, <2>1 DEF TypeOK
  <2> QED
    BY <1>1, <1>2, <2>2 DEF TypeOK
<1>5. WithinMemory'
  BY <1>1, <1>2 DEF WithinMemory, Pruning
<1>6. ASSUME ~ failed'
      PROVE  Intact'
  <2>1. Intact
    BY <1>1, <1>2, <1>6
  <2>2. archive \subseteq archive'
    BY <1>1
  <2>3. Archived'
    BY <1>1, <2>1, <2>2 DEF Intact, Archived
  <2>4. ASSUME setting.changedAt <= MaxHeight
        PROVE  1 .. job.base \subseteq archive'
    <3>1. setting.archive /\ job.retired = snap + 1 .. job.base /\ 1 .. snap \subseteq archive
      BY <1>1, <1>2, <2>1, <2>4 DEF Vouched, Intact, Archived
    <3>2. 1 .. job.base \subseteq 1 .. snap \cup snap + 1 .. job.base
      <4>1. job.base \in Nat /\ snap \in Nat
        BY <1>2, Typed, StoreAssumption DEF Numbers
      <4> QED
        BY <4>1
    <3> QED
      BY <1>1, <3>1, <3>2
  <2> QED
    BY <1>1, <2>1, <2>3, <2>4 DEF Intact, Pruning, JobFits
<1> QED
  BY <1>1, <1>3, <1>4, <1>5, <1>6 DEF StoreInv, Onward

LEMMA WriteSnapshotKeeps ==
  ASSUME StoreInv, WriteSnapshot
  PROVE  StoreInv' /\ Onward
<1>1. /\ up /\ phase = "snapshot" /\ phase' = "anchor" /\ snap' = job.base
      /\ UNCHANGED <<up, base, height, job, file, torn, anchor, archive, setting, failed>>
  BY DEF WriteSnapshot, Written, history
<1>2. /\ TypeOK /\ WithinMemory /\ (~ failed => Intact) /\ snap \in Numbers /\ file \in Seq(Numbers)
      /\ job.base \in Numbers /\ job.height \in Numbers /\ height \in Numbers
  BY Typed DEF StoreInv
<1>3. Top(snap, file) \in Nat /\ job.base \in Nat /\ job.height \in Nat /\ height \in Nat /\ snap \in Nat
  BY <1>2, TopIs, StoreAssumption DEF Numbers
<1>4. TypeOK'
  BY <1>1, <1>2 DEF TypeOK, Numbers
<1>5. WithinMemory'
  BY <1>1, <1>2 DEF WithinMemory, Pruning
<1>6. ASSUME ~ failed'
      PROVE  Intact' /\ Top(snap', file') >= Top(snap, file)
  <2>1. Intact /\ snap < job.base /\ Top(snap, file) = height /\ job.height \in {job.base, height} /\ height <= job.height
    BY <1>1, <1>2, <1>6 DEF Intact
  <2>2. Top(job.base, file) = (IF job.base > Top(snap, file) THEN job.base ELSE Top(snap, file)) /\ Chains(job.base, file)
    BY <1>2, <1>3, <2>1, TopSnap DEF Intact
  <2>3. Top(job.base, file) = job.height
    BY <1>2, <1>3, <2>1, <2>2 DEF WithinMemory
  <2>4. Archived'
    BY <1>1, <2>1 DEF Intact, Archived
  <2>5. Intact'
    BY <1>1, <2>1, <2>2, <2>3, <2>4 DEF Intact, Pruning, JobFits
  <2> QED
    BY <1>1, <1>3, <2>1, <2>3, <2>5
<1> QED
  BY <1>4, <1>5, <1>6 DEF StoreInv, Onward

LEMMA WriteAnchorKeeps ==
  ASSUME StoreInv, WriteAnchor
  PROVE  StoreInv' /\ Onward
<1>1. /\ up /\ phase = "anchor" /\ phase' = "blocks" /\ anchor' = job.base
      /\ UNCHANGED <<up, base, height, job, file, torn, snap, archive, setting, failed>>
  BY DEF WriteAnchor, Written, history
<1>2. /\ TypeOK /\ WithinMemory /\ (~ failed => Intact) /\ snap \in Numbers /\ file \in Seq(Numbers)
      /\ job.base \in Numbers
  BY Typed DEF StoreInv
<1>3. Top(snap, file) \in Nat
  BY <1>2, TopIs
<1>4. TypeOK'
  BY <1>1, <1>2 DEF TypeOK, Numbers
<1>5. WithinMemory'
  BY <1>1, <1>2 DEF WithinMemory, Pruning
<1>6. ~ failed' => Intact'
  BY <1>1, <1>2 DEF Intact, Pruning, JobFits, Archived
<1> QED
  BY <1>1, <1>3, <1>4, <1>5, <1>6 DEF StoreInv, Onward

LEMMA WriteBlocksKeeps ==
  ASSUME StoreInv, WriteBlocks
  PROVE  StoreInv' /\ Onward
<1>1. /\ up /\ phase = "blocks" /\ phase' = "idle" /\ file' = job.keep /\ torn' = FALSE
      /\ base' = job.base /\ height' = job.height /\ job' = NoJob
      /\ UNCHANGED <<up, snap, anchor, archive, setting, failed>>
  BY DEF WriteBlocks, Written, history
<1>2. /\ TypeOK /\ WithinMemory /\ (~ failed => Intact) /\ snap \in Numbers /\ file \in Seq(Numbers)
      /\ job.base \in Numbers /\ job.height \in Numbers /\ job.keep \in Seq(Numbers) /\ job.keep \in Seq(Heights)
      /\ height \in Numbers
  BY Typed DEF StoreInv, TypeOK, Jobs
<1>3. Top(snap, file) \in Nat /\ job.base \in Nat /\ job.height \in Nat /\ snap \in Nat /\ height \in Nat
  BY <1>2, TopIs, StoreAssumption DEF Numbers
<1>4. NoJob \in Jobs /\ NoJob.base = 0 /\ NoJob.height = 0 /\ DOMAIN NoJob.keep = {}
  <2>1. <<>> \in Seq(Heights) /\ {} \in SUBSET Heights /\ 0 \in 0 .. MaxHeight
    BY StoreAssumption
  <2> QED
    BY <2>1 DEF NoJob, Jobs
<1>5. TypeOK'
  <2>1. file' \in Seq({Damaged} \cup Heights)
    BY <1>1, <1>2
  <2>2. base' \in 0 .. height' /\ height' \in 0 .. MaxHeight
    BY <1>1, <1>2, <1>3 DEF Numbers, WithinMemory
  <2> QED
    BY <1>1, <1>2, <1>4, <2>1, <2>2 DEF TypeOK
<1>6. WithinMemory'
  <2>1. \A i \in DOMAIN job.keep : job.keep[i] <= height /\ job.keep[i] \in Nat
    BY <1>2, StoreAssumption DEF WithinMemory, Heights
  <2>2. height <= job.height
    BY <1>1, <1>2 DEF WithinMemory, Pruning
  <2>3. \A i \in DOMAIN job.keep : job.keep[i] <= job.height
    BY <1>3, <2>1, <2>2
  <2> QED
    BY <1>1, <1>4, <2>3 DEF WithinMemory, Pruning
<1>7. ASSUME ~ failed'
      PROVE  Intact' /\ Top(snap', file') >= Top(snap, file)
  <2>1. Intact /\ JobFits /\ snap = job.base /\ Top(snap, file) = job.height
    BY <1>1, <1>2, <1>7 DEF Intact, Pruning
  <2>2. Top(snap, job.keep) = snap + Len(job.keep) /\ Chains(snap, job.keep)
    BY <1>2, <2>1, TopKept DEF JobFits
  <2>3. Top(snap', file') = job.height /\ Chains(snap', file')
    BY <1>1, <2>1, <2>2 DEF JobFits
  <2>4. Intact'
    BY <1>1, <2>1, <2>3 DEF Intact, Pruning, Archived
  <2> QED
    BY <1>3, <2>1, <2>3, <2>4
<1> QED
  BY <1>5, <1>6, <1>7 DEF StoreInv, Onward

LEMMA CrashKeeps ==
  ASSUME StoreInv, Crash
  PROVE  StoreInv' /\ Onward
<1>1. /\ up' = FALSE /\ phase' = "idle" /\ job' = NoJob /\ torn' \in {torn, TRUE}
      /\ UNCHANGED <<base, height, file, snap, anchor, archive, setting, failed>>
  BY DEF Crash, history
<1>2. TypeOK /\ WithinMemory /\ (~ failed => Intact) /\ snap \in Numbers /\ file \in Seq(Numbers)
  BY Typed DEF StoreInv
<1>3. Top(snap, file) \in Nat
  BY <1>2, TopIs
<1>4. NoJob \in Jobs /\ NoJob.base = 0 /\ NoJob.height = 0 /\ DOMAIN NoJob.keep = {}
  <2>1. <<>> \in Seq(Heights) /\ {} \in SUBSET Heights /\ 0 \in 0 .. MaxHeight
    BY StoreAssumption
  <2> QED
    BY <2>1 DEF NoJob, Jobs
<1>5. TypeOK'
  BY <1>1, <1>2, <1>4 DEF TypeOK
<1>6. WithinMemory'
  BY <1>1, <1>4 DEF WithinMemory, Pruning
<1>7. ~ failed' => Intact'
  BY <1>1, <1>2 DEF Intact, Pruning, Archived
<1> QED
  BY <1>1, <1>3, <1>5, <1>6, <1>7 DEF StoreInv, Onward

LEMMA OpenKeeps ==
  ASSUME StoreInv, Open
  PROVE  StoreInv' /\ Onward
<1>1. /\ up' = TRUE /\ base' = snap /\ height' = Recovered /\ Recovered # Refused /\ torn' = FALSE /\ ~ up
      /\ UNCHANGED <<phase, job, file, snap, anchor, archive, setting, failed>>
  BY DEF Open, history
<1>2. /\ TypeOK /\ WithinMemory /\ (~ failed => Intact) /\ snap \in Numbers /\ file \in Seq(Numbers)
      /\ phase = "idle" /\ job = NoJob
  BY <1>1, Typed DEF StoreInv, WithinMemory
<1>3. /\ Top(snap, file) \in Numbers /\ snap <= Top(snap, file) /\ \A i \in DOMAIN file : file[i] <= Top(snap, file)
      /\ {snap, Top(snap, file)} \subseteq Nat
  BY <1>2, TopIs
<1>4. height' = Top(snap, file)
  BY <1>1, <1>2, RecoveredIs
<1>5. TypeOK'
  <2>1. base' \in 0 .. height' /\ height' \in 0 .. MaxHeight
    BY <1>1, <1>3, <1>4 DEF Numbers
  <2> QED
    BY <1>1, <1>2, <2>1 DEF TypeOK
<1>6. WithinMemory'
  <2>1. NoJob.base = 0 /\ NoJob.height = 0 /\ DOMAIN NoJob.keep = {}
    BY DEF NoJob
  <2>2. \A i \in DOMAIN file : file[i] <= height'
    BY <1>3, <1>4
  <2> QED
    BY <1>1, <1>2, <2>1, <2>2 DEF WithinMemory, Pruning
<1>7. ~ failed' => Intact'
  BY <1>1, <1>2, <1>4 DEF Intact, Pruning, Archived
<1> QED
  BY <1>1, <1>3, <1>5, <1>6, <1>7 DEF StoreInv, Onward

LEMMA StoreStep ==
  ASSUME Vouched, StoreInv, [Next]_vars
  PROVE  StoreInv' /\ Onward
<1>1. CASE UNCHANGED vars
  <2>1. StoreInv'
    BY <1>1 DEF vars, memory, disk, history, StoreInv, TypeOK, WithinMemory, Intact, Pruning, Archived, JobFits
  <2>2. Top(snap, file) \in Nat
    BY Typed, TopIs DEF StoreInv
  <2> QED
    BY <1>1, <2>1, <2>2 DEF vars, disk, Onward
<1>2. CASE Next
  BY <1>2, CommitKeeps, StoreBlockKeeps, WriteFailsKeeps, StartPruneKeeps, InstallKeeps, WriteArchiveKeeps,
     WriteSnapshotKeeps, WriteAnchorKeeps, WriteBlocksKeeps, CrashKeeps, OpenKeeps DEF Next
<1> QED
  BY <1>1, <1>2

LEMMA StoreInvariant ==
  ASSUME Vouched
  PROVE  Spec => []StoreInv
<1>1. StoreInv /\ [Next]_vars => StoreInv'
  BY StoreStep
<1> QED
  BY <1>1, StoreStarts, PTL DEF Spec

\* BlockStore: after a crash between any two writes the store opens, and where the process
\* was; after failed writes it has every block it says, or refuses.
THEOREM StoreOpens ==
  ASSUME Vouched
  PROVE  Spec => []StillOpens
<1>1. StoreInv => StillOpens
  <2> SUFFICES ASSUME StoreInv
               PROVE  StillOpens
    OBVIOUS
  <2>1. FailsClosed
    BY OpensComplete DEF StoreInv
  <2>2. ASSUME ~ failed
        PROVE  Recovered # Refused /\ MemoryIsStored
    <3>1. Recovered = Top(snap, file) /\ Top(snap, file) \in Nat
      BY <2>2, OpensWhereItIs, Typed, TopIs DEF StoreInv
    <3>2. Idle => Top(snap, file) = height
      BY <2>2 DEF StoreInv, Intact, Idle
    <3> QED
      BY <3>1, <3>2 DEF Refused, MemoryIsStored
  <2> QED
    BY <2>1, <2>2 DEF StillOpens
<1> QED
  BY <1>1, StoreInvariant, PTL

\* BlockStore: no crash, pruning or installation takes a restart further back.
THEOREM StoreForgetsNothing ==
  ASSUME Vouched
  PROVE  Spec => NothingLost
<1>1. (StoreInv /\ ~ failed => Recovered = Top(snap, file))'
  BY OpensWhereItIs, PTL
<1>2. StoreInv /\ [Next]_vars => [~ failed' => Recovered' >= Recovered]_vars
  <2> SUFFICES ASSUME StoreInv, [Next]_vars, ~ failed'
               PROVE  Recovered' >= Recovered
    OBVIOUS
  <2>1. StoreInv' /\ Onward
    BY StoreStep
  <2>2. ~ failed
    BY DEF Next, Commit, StoreBlock, WriteFails, StartPrune, Install, WriteArchive, WriteSnapshot, WriteAnchor,
           WriteBlocks, Crash, Open, history, vars
  <2>3. Recovered' = Top(snap', file')
    BY <1>1, <2>1
  <2>4. Recovered = Top(snap, file)
    BY <2>2, OpensWhereItIs
  <2> QED
    BY <2>1, <2>3, <2>4 DEF Onward
<1> QED
  BY <1>2, StoreInvariant, PTL DEF Spec, NothingLost
=============================================================================
