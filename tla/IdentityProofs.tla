--------------------------- MODULE IdentityProofs ---------------------------
(***************************************************************************)
(* What a person owns stays with one key that can sign, and with its owner *)
(* while fewer issuers are corrupt than the threshold; and an owner has a  *)
(* whole waiting period against a recovery, as long as neither issuers nor *)
(* threshold change.  For any number of people, keys and issuers, however  *)
(* often keys change.                                                      *)
(***************************************************************************)
EXTENDS Identity, FiniteSetTheorems, TLAPS

\* Fewer corrupt issuers than any threshold governance sets.
Few ==
  \A w \in Worlds : IsFiniteSet(w.corrupt) /\ \A n \in Thresholds : Cardinality(w.corrupt) < n

Request == [new_key : Keys \cup {NoKey}, issuers : SUBSET Issuers, effective : Int]

\* Only live accounts have a recovery pending, and an approved one names a key.
Shape ==
  /\ world \in Worlds /\ height \in Nat /\ need \in Thresholds /\ accounts \subseteq Keys
  /\ successor \in [Keys -> Keys \cup {NoKey}]
  /\ estate \in [Keys -> SUBSET (DOMAIN First)] /\ hidden \in [Keys -> SUBSET (DOMAIN First)]
  /\ attested \in [Keys -> SUBSET Issuers]
  /\ recoveries \in [Keys -> Request]
  /\ \A k \in Keys :
       /\ successor[k] # NoKey => k \in accounts
       /\ hidden[k] # {} => k \in accounts
       /\ Pending(k) => Live(k)
       /\ recoveries[k].effective # Never => recoveries[k].new_key \in Keys

\* Nobody but a corrupt issuer asks for somebody else's key.
Requests ==
  \A k \in Keys : \A i \in recoveries[k].issuers \ world.corrupt :
    Owner[recoveries[k].new_key] = Owner[k]

\* What keeps the date of a recovery honest: its requests come from issuers that attest
\* the account, and once dated it has had enough of them for long enough.
Dated(k) ==
  LET r == recoveries[k] IN
  /\ r.issuers \subseteq attested[k]
  /\ r.effective # Never => /\ Enough(Cardinality(r.issuers))
                            /\ since[k] # Never /\ since[k] + Delay <= r.effective

\* The inductive invariants: Kept for all issuers, Owned for few corrupt ones, Timed
\* for issuers nobody removes.
Kept == Shape /\ HeldOnce
Owned == Requests /\ StaysWithOwner
Timed ==
  /\ issuers \subseteq Issuers
  /\ \A k \in Keys : /\ IsFiniteSet(recoveries[k].issuers)
                      /\ since[k] \in Int /\ since[k] <= height
  /\ issuers = Issuers => \A k \in Keys : Dated(k)

-----------------------------------------------------------------------------
\* An account is with one key k that can sign, as HeldOnce says it.
HeldBy(k, p) ==
  /\ successor[k] = NoKey
  /\ \A l \in Keys : p \in estate[l] <=> l = k
  /\ \A l \in Keys : Live(l) => (p \in hidden[l] <=> l = k)

\* Moving an account to a fresh key keeps it whole and live (_migrate).
LEMMA MigrateKeeps ==
  ASSUME Kept, NEW old \in Keys, NEW new \in Keys,
         Live(old), new \notin accounts, Migrate(old, new), UNCHANGED <<world, height, need>>
  PROVE  Kept'
<1> USE DEF Kept, Migrate, Live, Pending
<1>1. NoKey \notin Keys /\ new # old /\ new # NoKey
  BY IdentityAssumption DEF IdentityAssumption, Shape
<1>2. NoRecovery \in Request /\ NoRecovery.effective = Never
  BY DEF NoRecovery, Unasked, Request, Never
<1>3. Shape'
  BY <1>1, <1>2 DEF Shape
<1>4. HeldOnce'
  <2> SUFFICES ASSUME NEW p \in DOMAIN First
               PROVE  \E k \in accounts' : HeldBy(k, p)'
    BY DEF HeldOnce, HeldBy
  <2>1. PICK k \in accounts : HeldBy(k, p)
    BY DEF HeldOnce, HeldBy
  <2>2. CASE k = old
    <3>1. new \in accounts' /\ successor'[new] = NoKey
      BY <1>1 DEF Shape
    <3>2. \A l \in Keys : p \in estate'[l] <=> l = new
      BY <1>1, <2>1, <2>2 DEF Shape, HeldBy
    <3>3. \A l \in Keys : Live(l)' => (p \in hidden'[l] <=> l = new)
      BY <1>1, <2>1, <2>2 DEF Shape, HeldBy
    <3> QED BY <3>1, <3>2, <3>3 DEF HeldBy
  <2>3. CASE k # old
    <3>1. k \in accounts' /\ successor'[k] = NoKey
      BY <2>1, <2>3 DEF Shape, HeldBy
    <3>2. \A l \in Keys : p \in estate'[l] <=> l = k
      BY <1>1, <2>1, <2>3 DEF Shape, HeldBy
    <3>3. \A l \in Keys : Live(l)' => (p \in hidden'[l] <=> l = k)
      BY <1>1, <2>1, <2>3 DEF Shape, HeldBy
    <3> QED BY <3>1, <3>2, <3>3 DEF HeldBy
  <2> QED BY <2>2, <2>3
<1> QED BY <1>3, <1>4

\* Moving it to a key of the same owner leaves it with that owner.
LEMMA MigrateOwned ==
  ASSUME Kept, Owned, NEW old \in Keys, NEW new \in Keys,
         Owner[new] = Owner[old], Migrate(old, new), UNCHANGED world
  PROVE  Owned'
<1> USE DEF Kept, Owned, Migrate
<1>1. Requests'
  BY DEF Requests, Shape, NoRecovery, Unasked
<1>2. StaysWithOwner'
  BY DEF StaysWithOwner, Shape
<1> QED BY <1>1, <1>2

\* What a revocation leaves of a request (_attest_revoke).
LEMMA RevokedRequest ==
  ASSUME NEW q \in Request, NEW i
  PROVE  LET r == WithoutIssuer(q, i) IN
         /\ r \in Request /\ r.new_key = q.new_key /\ r.issuers \subseteq q.issuers \ {i}
         /\ r.effective # Never => /\ q.effective # Never /\ r.effective = q.effective
                                   /\ r = q \/ Enough(Cardinality(r.issuers))
         /\ q = NoRecovery => r = NoRecovery
<1> DEFINE r == WithoutIssuer(q, i)
<1>1. CASE i \notin q.issuers
  BY <1>1 DEF WithoutIssuer
<1>2. CASE i \in q.issuers
  <2> DEFINE left == q.issuers \ {i}
             e == IF Enough(Cardinality(left)) THEN q.effective ELSE Never
  <2>1. r = [new_key |-> q.new_key, issuers |-> left, effective |-> e]
    BY <1>2 DEF WithoutIssuer
  <2>2. e \in Int /\ (e # Never => e = q.effective /\ Enough(Cardinality(left)))
    BY DEF Request, Never
  <2>3. q # NoRecovery
    BY <1>2 DEF NoRecovery, Unasked
  <2> HIDE DEF e
  <2> QED BY <2>1, <2>2, <2>3 DEF Request
<1> QED BY <1>1, <1>2

\* What a request becomes when an issuer joins it (_recovery_request).
LEMMA JoinedRequest ==
  ASSUME Shape, NEW i \in Issuers, NEW k \in Keys, NEW new \in Keys, RecoveryRequest(i, k, new)
  PROVE  \E r \in Request :
           /\ recoveries' = [recoveries EXCEPT ![k] = r]
           /\ r.new_key = new /\ r.issuers = Joined(k, new).issuers \cup {i}
           /\ r.effective # Joined(k, new).effective =>
                r.effective = Deadline /\ Enough(Cardinality(r.issuers))
<1> DEFINE before == Joined(k, new)
           asked == before.issuers \cup {i}
           e == IF Enough(Cardinality(asked)) /\ before.effective = Never THEN Deadline ELSE before.effective
           r == [new_key |-> new, issuers |-> asked, effective |-> e]
<1>1. Deadline \in Int
  BY IdentityAssumption DEF Deadline, Shape, IdentityAssumption
<1>2. before.issuers \subseteq Issuers /\ before.effective \in Int
  BY DEF Shape, Request, Joined, Unasked, Never
<1>3. r \in Request
  BY <1>1, <1>2 DEF Request
<1>4. recoveries' = [recoveries EXCEPT ![k] = r]
  BY DEF RecoveryRequest
<1>5. r.effective # before.effective => r.effective = Deadline /\ Enough(Cardinality(r.issuers))
  OBVIOUS
<1> QED BY <1>3, <1>4, <1>5

\* A set of issuers as large as the threshold has an honest one.
LEMMA SomeHonest ==
  ASSUME Few, Shape, NEW S, Enough(Cardinality(S))
  PROVE  \E i \in S : i \notin world.corrupt
<1> SUFFICES ASSUME S \subseteq world.corrupt PROVE FALSE
  OBVIOUS
<1>1. Cardinality(S) <= Cardinality(world.corrupt) /\ IsFiniteSet(S)
  BY FS_Subset DEF Few, Shape
<1>2. Cardinality(S) \in Nat /\ Cardinality(world.corrupt) \in Nat
  BY <1>1, FS_CardinalityType DEF Few, Shape
<1>3. need \in Nat /\ Cardinality(world.corrupt) < need
  BY IdentityAssumption DEF Few, Shape, IdentityAssumption
<1> QED BY <1>1, <1>2, <1>3 DEF Enough

-----------------------------------------------------------------------------
LEMMA InitInvariants == Init => Kept /\ Owned
<1> SUFFICES ASSUME Init PROVE Kept /\ Owned
  OBVIOUS
<1> USE DEF Init, Pending, Live
<1>1. Shape
  BY IdentityAssumption DEF Shape, Request, IdentityAssumption, NoRecovery, Unasked, Never
<1>2. Requests
  BY DEF Requests, NoRecovery, Unasked
<1>3. HeldOnce
  <2> SUFFICES ASSUME NEW p \in DOMAIN First
               PROVE  \E k \in accounts : HeldBy(k, p)
    BY DEF HeldOnce, HeldBy
  <2>1. First[p] \in accounts /\ successor[First[p]] = NoKey
    BY IdentityAssumption DEF IdentityAssumption
  <2> QED BY <2>1 DEF HeldBy
<1>4. StaysWithOwner
  BY IdentityAssumption DEF StaysWithOwner, IdentityAssumption
<1> QED BY <1>1, <1>2, <1>3, <1>4 DEF Kept, Owned

LEMMA StepKept == Kept /\ [Next]_vars => Kept'
<1> SUFFICES ASSUME Kept, [Next]_vars PROVE Kept'
  OBVIOUS
<1> USE DEF Kept
<1>1. CASE UNCHANGED vars
  BY <1>1 DEF vars, state, Shape, Pending, Live, HeldOnce
<1>2. ASSUME NEW k \in Keys, Register(k) PROVE Kept'
  BY <1>2 DEF Register, Shape, Pending, Live, HeldOnce
<1>3. ASSUME NEW i \in Issuers, NEW k \in Keys, Attest(i, k) PROVE Kept'
  BY <1>3 DEF Attest, Shape, Pending, Live, HeldOnce
<1>4. ASSUME NEW i \in Issuers, NEW k \in Keys, Revoke(i, k) PROVE Kept'
  <2> DEFINE r == WithoutIssuer(recoveries[k], i)
  <2>1. recoveries[k] \in Request
    BY DEF Shape
  <2>2. recoveries' = [recoveries EXCEPT ![k] = r]
    BY <1>4 DEF Revoke
  <2>3. /\ r \in Request /\ r.new_key = recoveries[k].new_key
        /\ r.effective # Never => recoveries[k].effective # Never
        /\ recoveries[k] = NoRecovery => r = NoRecovery
    BY <2>1, RevokedRequest
  <2> HIDE DEF r
  <2> QED BY <1>4, <2>2, <2>3 DEF Revoke, Shape, Pending, Live, HeldOnce
<1>5. ASSUME NEW k \in Keys, NEW new \in Keys, KeyRotate(k, new) PROVE Kept'
  BY <1>5, MigrateKeeps DEF KeyRotate
<1>6. ASSUME NEW i \in Issuers, NEW k \in Keys, NEW new \in Keys, RecoveryRequest(i, k, new) PROVE Kept'
  <2>1. PICK r \in Request : recoveries' = [recoveries EXCEPT ![k] = r] /\ r.new_key = new
    BY <1>6, JoinedRequest
  <2>2. Live(k) /\ UNCHANGED <<world, height, need, accounts, successor, estate, hidden, attested>>
    BY <1>6 DEF RecoveryRequest
  <2>3. Shape'
    BY <2>1, <2>2 DEF Shape, Pending, Live
  <2> QED BY <2>2, <2>3 DEF HeldOnce, Live
<1>7. ASSUME NEW k \in Keys, RecoveryVeto(k) PROVE Kept'
  <2>1. NoRecovery \in Request /\ NoRecovery.effective = Never
    BY DEF NoRecovery, Unasked, Request, Never
  <2> QED BY <1>7, <2>1 DEF RecoveryVeto, Shape, Pending, Live, HeldOnce
<1>8. ASSUME NEW k \in Keys, RecoveryFinalize(k) PROVE Kept'
  <2>1. recoveries[k].new_key \in Keys /\ Live(k)
    BY <1>8 DEF RecoveryFinalize, Shape
  <2> QED BY <1>8, <2>1, MigrateKeeps DEF RecoveryFinalize
<1>9. ASSUME NEW i \in Issuers, RemoveIssuer(i) PROVE Kept'
  BY <1>9 DEF RemoveIssuer, Shape, Pending, Live, HeldOnce
<1>10. ASSUME NEW n \in Thresholds, SetThreshold(n) PROVE Kept'
  BY <1>10 DEF SetThreshold, Shape, Pending, Live, HeldOnce
<1>11. CASE NextBlock
  BY <1>11 DEF NextBlock, Shape, Pending, Live, HeldOnce
<1> QED
  BY <1>1, <1>2, <1>3, <1>4, <1>5, <1>6, <1>7, <1>8, <1>9, <1>10, <1>11 DEF Next, Transaction

LEMMA StepOwned == Few /\ Kept /\ Owned /\ [Next]_vars => Owned'
<1> SUFFICES ASSUME Few, Kept, Owned, [Next]_vars PROVE Owned'
  OBVIOUS
<1> USE DEF Owned
<1>1. CASE UNCHANGED <<world, estate, hidden, recoveries>>
  BY <1>1 DEF Requests, StaysWithOwner
<1>2. ASSUME NEW i \in Issuers, NEW k \in Keys, Revoke(i, k) PROVE Owned'
  <2> DEFINE r == WithoutIssuer(recoveries[k], i)
  <2>1. r.new_key = recoveries[k].new_key /\ r.issuers \subseteq recoveries[k].issuers
    BY RevokedRequest DEF Kept, Shape
  <2>2. recoveries' = [recoveries EXCEPT ![k] = r] /\ world' = world
    BY <1>2 DEF Revoke
  <2> HIDE DEF r
  <2>3. Requests'
    BY <2>1, <2>2 DEF Requests, Kept, Shape
  <2> QED BY <1>2, <2>3 DEF Revoke, StaysWithOwner
<1>3. ASSUME NEW k \in Keys, NEW new \in Keys, KeyRotate(k, new) PROVE Owned'
  BY <1>3, MigrateOwned DEF KeyRotate
<1>4. ASSUME NEW i \in Issuers, NEW k \in Keys, NEW new \in Keys, RecoveryRequest(i, k, new) PROVE Owned'
  <2>1. PICK r \in Request : /\ recoveries' = [recoveries EXCEPT ![k] = r]
                            /\ r.new_key = new /\ r.issuers = Joined(k, new).issuers \cup {i}
    BY <1>4, JoinedRequest DEF Kept
  <2>2. \A j \in r.issuers \ world.corrupt : Owner[new] = Owner[k]
    BY <1>4, <2>1 DEF RecoveryRequest, Requests, Joined, Unasked
  <2>3. world' = world
    BY <1>4 DEF RecoveryRequest
  <2>4. Requests'
    BY <2>1, <2>2, <2>3 DEF Requests, Kept, Shape
  <2> QED BY <1>4, <2>4 DEF RecoveryRequest, StaysWithOwner
<1>5. ASSUME NEW k \in Keys, RecoveryVeto(k) PROVE Owned'
  <2>1. NoRecovery.issuers = {}
    BY DEF NoRecovery, Unasked
  <2>2. Requests'
    BY <1>5, <2>1 DEF RecoveryVeto, Requests, Kept, Shape
  <2> QED BY <1>5, <2>2 DEF RecoveryVeto, StaysWithOwner
<1>6. ASSUME NEW k \in Keys, RecoveryFinalize(k) PROVE Owned'
  <2> USE <1>6 DEF RecoveryFinalize
  <2>1. PICK i \in Authority(k) : i \notin world.corrupt
    BY SomeHonest DEF Kept
  <2>2. Owner[recoveries[k].new_key] = Owner[k]
    BY <2>1 DEF Requests, Authority
  <2>3. recoveries[k].new_key \in Keys
    BY DEF Kept, Shape
  <2> QED BY <2>2, <2>3, MigrateOwned
<1> QED
  BY <1>1, <1>2, <1>3, <1>4, <1>5, <1>6
  DEF Next, Transaction, vars, state, Register, Attest, RemoveIssuer, SetThreshold, NextBlock

-----------------------------------------------------------------------------
\* What a step may do to the request of an account without hurrying it: keep its date
\* while it keeps its authority, lose the date, or set it a waiting period from now.
Unhurried(k) ==
  LET r == recoveries[k]
      s == recoveries'[k] IN
  /\ IsFiniteSet(s.issuers) /\ s.issuers \subseteq attested'[k]
  /\ s.effective # Never =>
       /\ Enough(Cardinality(s.issuers))
       /\ \/ s.effective = Deadline
          \/ s.effective = r.effective /\ s.new_key = r.new_key

\* Then the date never precedes the end of the waiting period (History).
LEMMA HistoryKeeps ==
  ASSUME Kept, Kept', Timed, History, need' = need, height' >= height,
         issuers' \subseteq issuers, \A k \in Keys : IsFiniteSet(recoveries'[k].issuers),
         issuers' = Issuers => issuers = Issuers /\ \A k \in Keys : Unhurried(k)
  PROVE  Timed'
<1>1. height \in Nat /\ height' \in Nat /\ Delay \in Nat
  BY IdentityAssumption DEF Kept, Shape, IdentityAssumption
<1>2. \A k \in Keys : since'[k] \in {Never, height, since[k]}
  BY DEF History
<1>3. \A k \in Keys : since'[k] \in Int /\ (since'[k] <= height')
  BY <1>1, <1>2 DEF Timed, Never
<1>4. ASSUME issuers' = Issuers, NEW k \in Keys
      PROVE  Dated(k)'
  <2> DEFINE r == recoveries[k]
             s == recoveries'[k]
  <2>1. Unhurried(k) /\ Dated(k) /\ since[k] <= height /\ since[k] \in Int
    BY <1>4 DEF Timed
  <2>2. s.issuers \subseteq attested'[k] /\ attested'[k] \subseteq Issuers /\ s \in Request
    BY <2>1 DEF Unhurried, Kept, Shape
  <2> SUFFICES ASSUME s.effective # Never
               PROVE  /\ Enough(Cardinality(recoveries[k].issuers))'
                      /\ since'[k] # Never /\ since'[k] + Delay <= s.effective
    BY <2>2 DEF Dated
  <2>3. Enough(Cardinality(recoveries[k].issuers))'
    BY <2>1 DEF Unhurried, Enough
  <2>4. Pending(k)' /\ Authority(k)' = recoveries'[k].issuers
    BY <1>4, <2>2 DEF Pending, Authority, NoRecovery, Unasked
  <2>5. since'[k] = IF since[k] = Never \/ s.new_key # r.new_key THEN height ELSE since[k]
    <3>1. Enough(Cardinality(Authority(k)))'
      BY <2>3, <2>4 DEF Enough
    <3> QED BY <2>4, <3>1 DEF History
  <2>6. CASE s.effective = Deadline
    BY <1>1, <2>1, <2>3, <2>5, <2>6 DEF Deadline, Never
  <2>7. CASE s.effective = r.effective /\ s.new_key = r.new_key
    BY <1>1, <2>1, <2>3, <2>5, <2>7 DEF Dated
  <2> QED BY <2>1, <2>6, <2>7 DEF Unhurried
<1> QED BY <1>3, <1>4 DEF Timed

\* A step that leaves a request and its attestations alone does not hurry it.
LEMMA Untouched ==
  ASSUME Timed, issuers = Issuers, NEW k \in Keys,
         recoveries'[k] = recoveries[k], attested[k] \subseteq attested'[k]
  PROVE  Unhurried(k)
BY DEF Timed, Dated, Unhurried

\* Nor does a step that ends it.
LEMMA Forgotten ==
  ASSUME NEW k \in Keys, recoveries'[k] = NoRecovery
  PROVE  Unhurried(k)
BY FS_EmptySet DEF Unhurried, NoRecovery, Unasked

LEMMA MigrateUnhurried ==
  ASSUME Kept, Timed, issuers = Issuers, NEW old \in Keys, NEW new \in Keys,
         Live(old), new \notin accounts, Migrate(old, new), NEW k \in Keys
  PROVE  Unhurried(k)
<1>1. recoveries' = [recoveries EXCEPT ![old] = NoRecovery] /\ recoveries[new] = NoRecovery
      /\ attested' = [attested EXCEPT ![new] = attested[old], ![old] = {}]
  BY DEF Migrate, Kept, Shape, Pending, Live
<1>2. CASE k \in {old, new}
  <2>1. recoveries'[k] = NoRecovery
    BY <1>1, <1>2 DEF Kept, Shape
  <2> QED BY <2>1, Forgotten
<1>3. CASE k \notin {old, new}
  BY <1>1, <1>3, Untouched DEF Kept, Shape
<1> QED BY <1>2, <1>3

\* An issuer more on a finite request that had enough leaves it with enough.
LEMMA OneMore ==
  ASSUME Kept, NEW S, IsFiniteSet(S), NEW i, i \notin S
  PROVE  /\ IsFiniteSet(S \cup {i})
         /\ Enough(Cardinality(S)) => Enough(Cardinality(S \cup {i}))
<1>1. IsFiniteSet(S \cup {i}) /\ Cardinality(S \cup {i}) = Cardinality(S) + 1
  BY FS_AddElement
<1>2. Cardinality(S) \in Nat /\ need \in Nat
  BY FS_CardinalityType, IdentityAssumption DEF Kept, Shape, IdentityAssumption
<1> QED BY <1>1, <1>2 DEF Enough

\* The steps that change requests.
LEMMA RevokeUnhurried ==
  ASSUME Kept, Timed, NEW i \in Issuers, NEW k \in Keys, Revoke(i, k), NEW l \in Keys
  PROVE  IsFiniteSet(recoveries'[l].issuers) /\ (issuers = Issuers => Unhurried(l))
<1> DEFINE q == recoveries[k]
           r == WithoutIssuer(q, i)
<1>1. recoveries' = [recoveries EXCEPT ![k] = r] /\ attested' = [attested EXCEPT ![k] = @ \ {i}]
  BY DEF Revoke
<1>2. /\ r.new_key = q.new_key /\ r.issuers \subseteq q.issuers \ {i}
      /\ r.effective # Never => /\ q.effective # Never /\ r.effective = q.effective
                                /\ r = q \/ Enough(Cardinality(r.issuers))
  BY RevokedRequest DEF Kept, Shape
<1>3. IsFiniteSet(q.issuers) /\ IsFiniteSet(recoveries[l].issuers)
  BY DEF Timed
<1> HIDE DEF r
<1>4. CASE l = k
  <2>1. recoveries'[l] = r /\ attested'[l] = attested[l] \ {i}
    BY <1>1, <1>4 DEF Kept, Shape
  <2>2. IsFiniteSet(r.issuers)
    BY <1>2, <1>3, FS_Subset
  <2>3. issuers = Issuers => q.issuers \subseteq attested[l]
                             /\ (q.effective # Never => Enough(Cardinality(q.issuers)))
    BY <1>4 DEF Timed, Dated
  <2> QED BY <1>2, <1>4, <2>1, <2>2, <2>3 DEF Unhurried
<1>5. CASE l # k
  BY <1>1, <1>3, <1>5, Untouched DEF Kept, Shape
<1> QED BY <1>4, <1>5

LEMMA RequestUnhurried ==
  ASSUME Kept, Timed, NEW i \in Issuers, NEW k \in Keys, NEW new \in Keys,
         RecoveryRequest(i, k, new), NEW l \in Keys
  PROVE  IsFiniteSet(recoveries'[l].issuers) /\ (issuers = Issuers => Unhurried(l))
<1> DEFINE q == Joined(k, new)
<1>1. PICK r \in Request :
        /\ recoveries' = [recoveries EXCEPT ![k] = r]
        /\ r.new_key = new /\ r.issuers = q.issuers \cup {i}
        /\ r.effective # q.effective => r.effective = Deadline /\ Enough(Cardinality(r.issuers))
  BY JoinedRequest DEF Kept
<1>2. i \in attested[k] /\ i \notin q.issuers /\ attested' = attested
  BY DEF RecoveryRequest
<1>3. IsFiniteSet(recoveries[k].issuers) /\ IsFiniteSet(recoveries[l].issuers)
  BY DEF Timed
<1>4. \/ q = recoveries[k] /\ q.new_key = new
      \/ q.issuers = {} /\ q.effective = Never
  BY DEF Joined, Unasked
<1>5. IsFiniteSet(q.issuers)
  BY <1>3, <1>4, FS_EmptySet
<1> HIDE DEF q
<1>6. IsFiniteSet(r.issuers) /\ (Enough(Cardinality(q.issuers)) => Enough(Cardinality(r.issuers)))
  BY <1>1, <1>2, <1>5, OneMore
<1>7. CASE l = k
  <2>1. recoveries'[l] = r
    BY <1>1, <1>7 DEF Kept, Shape
  <2>2. issuers = Issuers => /\ recoveries[k].issuers \subseteq attested[k]
                             /\ recoveries[k].effective # Never => Enough(Cardinality(recoveries[k].issuers))
    BY DEF Timed, Dated
  <2> QED BY <1>1, <1>2, <1>4, <1>6, <1>7, <2>1, <2>2 DEF Unhurried
<1>8. CASE l # k
  BY <1>1, <1>2, <1>3, <1>8, Untouched DEF Kept, Shape
<1> QED BY <1>7, <1>8

LEMMA InitTimed == Init => Timed
<1> SUFFICES ASSUME Init PROVE Timed
  OBVIOUS
<1>1. NoRecovery.issuers = {} /\ NoRecovery.effective = Never /\ IsFiniteSet({})
  BY FS_EmptySet DEF NoRecovery, Unasked
<1> QED BY <1>1 DEF Init, Timed, Dated, Never

LEMMA StepTimed == OneThreshold /\ Kept /\ Timed /\ [Next]_vars => Timed'
<1> SUFFICES ASSUME OneThreshold, Kept, Timed, [Next]_vars PROVE Timed'
  OBVIOUS
<1>1. CASE UNCHANGED vars
  BY <1>1 DEF vars, state, Timed, Dated, Enough
<1>2. CASE Next
  <2>1. Kept' /\ need' = need /\ History /\ height \in Nat
    BY <1>2, StepKept DEF Kept, Shape, OneThreshold, Next
  <2>2. \A k \in Keys : IsFiniteSet(recoveries[k].issuers)
    BY DEF Timed
  <2> DEFINE Fair == /\ height' >= height /\ issuers' \subseteq issuers
                     /\ issuers' = Issuers => issuers = Issuers
                     /\ \A l \in Keys : /\ IsFiniteSet(recoveries'[l].issuers)
                                        /\ issuers = Issuers => Unhurried(l)
  <2> SUFFICES Fair
    BY <2>1, HistoryKeeps
  <2>3. CASE UNCHANGED <<recoveries, issuers>> /\ height' >= height
             /\ \A l \in Keys : attested[l] \subseteq attested'[l]
    BY <2>2, <2>3, Untouched
  <2>4. ASSUME NEW i \in Issuers, NEW k \in Keys, Revoke(i, k) PROVE Fair
    <3>1. UNCHANGED <<height, issuers>>
      BY <2>4 DEF Revoke
    <3>2. \A l \in Keys : IsFiniteSet(recoveries'[l].issuers) /\ (issuers = Issuers => Unhurried(l))
      BY <2>4, RevokeUnhurried
    <3> QED BY <2>1, <3>1, <3>2
  <2>5. ASSUME NEW i \in Issuers, NEW k \in Keys, NEW new \in Keys, RecoveryRequest(i, k, new)
        PROVE  Fair
    <3>1. UNCHANGED <<height, issuers>>
      BY <2>5 DEF RecoveryRequest
    <3>2. \A l \in Keys : IsFiniteSet(recoveries'[l].issuers) /\ (issuers = Issuers => Unhurried(l))
      BY <2>5, RequestUnhurried
    <3> QED BY <2>1, <3>1, <3>2
  <2>6. ASSUME NEW old \in Keys, NEW new \in Keys, Live(old), new \notin accounts,
               Migrate(old, new), UNCHANGED <<height, issuers>>
        PROVE  Fair
    <3>1. \A l \in Keys : issuers = Issuers => Unhurried(l)
      BY <2>6, MigrateUnhurried
    <3>2. \A l \in Keys : IsFiniteSet(recoveries'[l].issuers)
      BY <2>2, <2>6, FS_EmptySet DEF Migrate, Kept, Shape, NoRecovery, Unasked
    <3> QED BY <2>1, <2>6, <3>1, <3>2
  <2>7. ASSUME NEW k \in Keys, RecoveryVeto(k) PROVE Fair
    <3>1. recoveries' = [recoveries EXCEPT ![k] = NoRecovery] /\ UNCHANGED <<height, issuers, attested>>
      BY <2>7 DEF RecoveryVeto
    <3>2. ASSUME NEW l \in Keys
          PROVE  IsFiniteSet(recoveries'[l].issuers) /\ (issuers = Issuers => Unhurried(l))
      <4>1. CASE l = k
        BY <3>1, <4>1, Forgotten, FS_EmptySet DEF Kept, Shape, NoRecovery, Unasked
      <4>2. CASE l # k
        BY <2>2, <3>1, <4>2, Untouched DEF Kept, Shape
      <4> QED BY <4>1, <4>2
    <3> QED BY <2>1, <3>1, <3>2
  <2>8. ASSUME NEW i \in Issuers, RemoveIssuer(i) PROVE Fair
    <3>1. issuers' # Issuers /\ issuers' \subseteq issuers
      BY <2>8 DEF RemoveIssuer, Timed
    <3>2. ASSUME NEW l \in Keys PROVE issuers = Issuers => Unhurried(l)
      BY <2>8, Untouched DEF RemoveIssuer
    <3> QED BY <2>1, <2>2, <2>8, <3>1, <3>2 DEF RemoveIssuer
  <2>9. ASSUME NEW i \in Issuers, NEW k \in Keys, Attest(i, k) PROVE Fair
    BY <2>1, <2>3, <2>9 DEF Attest, Kept, Shape
  <2>10. ASSUME NEW k \in Keys, RecoveryFinalize(k) PROVE Fair
    <3>1. recoveries[k].new_key \in Keys /\ Live(k)
      BY <2>10 DEF RecoveryFinalize, Kept, Shape
    <3> QED BY <2>6, <2>10, <3>1 DEF RecoveryFinalize
  <2>11. ASSUME NEW k \in Keys, NEW new \in Keys, KeyRotate(k, new) PROVE Fair
    BY <2>6, <2>11 DEF KeyRotate
  <2>12. CASE \/ \E k \in Keys : Register(k)
              \/ \E n \in Thresholds : SetThreshold(n)
              \/ NextBlock
    BY <2>1, <2>3, <2>12 DEF Register, SetThreshold, NextBlock
  <2> QED
    BY <1>2, <2>4, <2>5, <2>7, <2>8, <2>9, <2>10, <2>11, <2>12 DEF Next, Transaction
<1> QED BY <1>1, <1>2

-----------------------------------------------------------------------------
\* Rotations and recoveries leave what a person owns with one key that can sign
\* (state.py, _migrate: replaced keys keep only a dead copy of the hidden part),
\* whatever the issuers do.
THEOREM AccountsHeldOnce == Spec => []HeldOnce
<1>1. Init => Kept
  BY InitInvariants
<1>2. Kept => HeldOnce
  BY DEF Kept
<1> QED BY <1>1, <1>2, StepKept, PTL DEF Spec

\* With fewer corrupt issuers than the threshold, no account is ever moved to
\* somebody else's key (state.py, _recovery_request and _recovery_finalize).
THEOREM AccountsStayWithOwners == Few => (Spec => []StaysWithOwner)
<1> SUFFICES ASSUME Few PROVE Spec => []StaysWithOwner
  OBVIOUS
<1>1. Init => Kept /\ Owned
  BY InitInvariants
<1>2. Kept /\ Owned /\ [Next]_vars => (Kept /\ Owned)'
  BY StepKept, StepOwned
<1>3. Owned => StaysWithOwner
  BY DEF Owned
<1> QED BY <1>1, <1>2, <1>3, PTL DEF Spec

\* A recovery is finalised no earlier than a waiting period after it gained its
\* authority, so that the owner can veto it (state.py, _recovery_request and
\* _recovery_finalize): while no issuer is removed and the threshold stays.
THEOREM OwnersHaveTime == OneThreshold => (Spec => OwnerHasTime)
<1> SUFFICES ASSUME OneThreshold PROVE Spec => OwnerHasTime
  OBVIOUS
<1>1. Init => Kept /\ Timed
  BY InitInvariants, InitTimed
<1>2. Kept /\ Timed /\ [Next]_vars => (Kept /\ Timed)'
  BY StepKept, StepTimed
<1>3. ASSUME Kept, Timed, issuers = Issuers, NEW k \in Keys, RecoveryFinalize(k)
      PROVE  HasTime(k)
  <2>1. Dated(k) /\ since[k] \in Int
    BY <1>3 DEF Timed
  <2>2. recoveries[k].effective # Never /\ height >= recoveries[k].effective
    BY <1>3 DEF RecoveryFinalize
  <2>3. height \in Nat /\ Delay \in Nat /\ recoveries[k].effective \in Int
    BY <1>3, IdentityAssumption DEF Kept, Shape, Request, IdentityAssumption
  <2> QED BY <2>1, <2>2, <2>3 DEF Dated, HasTime
<1>4. Kept /\ Timed => (issuers = Issuers => \A k \in Keys : RecoveryFinalize(k) => HasTime(k))
  BY <1>3
<1> QED BY <1>1, <1>2, <1>4, PTL DEF Spec, OwnerHasTime
=============================================================================
