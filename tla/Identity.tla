------------------------------ MODULE Identity ------------------------------
(***************************************************************************)
(* Attestations, key rotation and the recovery of lost keys: state.py      *)
(* (_attest ... _migrate), under protocol version 2.  One step is one      *)
(* transaction applied in the block of the current height.                 *)
(*                                                                         *)
(* What an account owns is two sets, named by the people it comes from:    *)
(* the estate (balance, contracts, roles in disputes), which a new key     *)
(* takes over, and the hidden part (hidden balance, unclaimed payments),   *)
(* of which the replaced key keeps a copy.  Honest issuers request a       *)
(* recovery only to a key of the same person; corrupt ones to any key.     *)
(***************************************************************************)
EXTENDS Integers, FiniteSets

CONSTANTS
  People, Keys,
  Owner,      \* whose private key it is: [Keys -> People]
  First,      \* the account of each person in the founding record
  Issuers,    \* the accredited issuers of the founding record
  Worlds,     \* who may request any recovery, and who looks at their account in
              \* every waiting period: [corrupt : SUBSET Issuers, watched : SUBSET People]
  Removable,  \* the issuers governance may remove
  Thresholds, \* bound: the values of min_attestations, at least 1
  Delay,      \* recovery_delay
  MaxHeight   \* bound: the ledger has this many blocks

NoKey == "no key"
Never == -1

ASSUME IdentityAssumption ==
  /\ Owner \in [Keys -> People] /\ NoKey \notin Keys
  /\ DOMAIN First \subseteq People /\ \A p \in DOMAIN First : First[p] \in Keys /\ Owner[First[p]] = p
  /\ Worlds \subseteq [corrupt : SUBSET Issuers, watched : SUBSET People] /\ Removable \subseteq Issuers
  /\ Thresholds \subseteq Nat \ {0} /\ Thresholds # {}
  /\ Delay \in Nat /\ MaxHeight \in Nat

VARIABLES
  world,      \* what the run chose of Worlds
  height,     \* the block being built
  issuers,    \* State.issuers
  need,       \* policy min_attestations
  accounts,   \* keys with an account
  successor,  \* the key that replaced this one
  estate,     \* whose balance, contracts and roles in disputes each account holds
  hidden,     \* whose hidden balance and unclaimed payments it holds
  attested,   \* the issuers attesting each account
  recoveries, \* State.recoveries
  since       \* history: since when each pending recovery has had enough authority
state == <<world, height, issuers, need, accounts, successor, estate, hidden, attested, recoveries>>
vars == <<state, since>>

Unasked(new) == [new_key |-> new, issuers |-> {}, effective |-> Never]
NoRecovery == Unasked(NoKey)
Recovery == [new_key : Keys \cup {NoKey}, issuers : SUBSET Issuers,
             effective : {Never} \cup 0 .. MaxHeight + Delay]

-----------------------------------------------------------------------------
Live(k) == k \in accounts /\ successor[k] = NoKey
Pending(k) == recoveries[k] # NoRecovery

\* The issuers whose request still counts: accredited, and attesting the account.
Authority(k) == recoveries[k].issuers \cap issuers \cap attested[k]

Enough(n) == n >= need

Mutant_NoWaiting == height
Deadline == height + Delay

\* _migrate: the account is copied to the new key.  On the old one, which can sign no
\* more, the balance is cleared and the attestations dropped; contracts and disputes
\* name the new key; the hidden balance and the unclaimed payments stay as well.
Mutant_LeavesEstate(old, new) ==
  /\ accounts' = accounts \cup {new}
  /\ successor' = [successor EXCEPT ![old] = new]
  /\ estate' = [estate EXCEPT ![new] = estate[old]]
  /\ hidden' = [hidden EXCEPT ![new] = hidden[old]]
  /\ attested' = [attested EXCEPT ![new] = attested[old], ![old] = {}]
  /\ recoveries' = [recoveries EXCEPT ![old] = NoRecovery]
Mutant_StaysLive(old, new) ==
  /\ accounts' = accounts \cup {new}
  /\ estate' = [estate EXCEPT ![new] = estate[old], ![old] = {}]
  /\ hidden' = [hidden EXCEPT ![new] = hidden[old]]
  /\ attested' = [attested EXCEPT ![new] = attested[old], ![old] = {}]
  /\ recoveries' = [recoveries EXCEPT ![old] = NoRecovery]
  /\ UNCHANGED successor
Migrate(old, new) ==
  /\ accounts' = accounts \cup {new}
  /\ successor' = [successor EXCEPT ![old] = new]
  /\ estate' = [estate EXCEPT ![new] = estate[old], ![old] = {}]
  /\ hidden' = [hidden EXCEPT ![new] = hidden[old]]
  /\ attested' = [attested EXCEPT ![new] = attested[old], ![old] = {}]
  /\ recoveries' = [recoveries EXCEPT ![old] = NoRecovery]

-----------------------------------------------------------------------------
(* The transactions.                                                        *)

\* _register: the key starts an account of its own.
Register(k) ==
  /\ k \notin accounts
  /\ accounts' = accounts \cup {k}
  /\ UNCHANGED <<world, height, issuers, need, successor, estate, hidden, attested, recoveries>>

Attest(i, k) ==
  /\ i \in issuers /\ Live(k)
  /\ attested' = [attested EXCEPT ![k] = @ \cup {i}]
  /\ UNCHANGED <<world, height, issuers, need, accounts, successor, estate, hidden, recoveries>>

\* The revoking issuer withdraws its request too; approval may lapse.
Mutant_KeepsRequest(r, i) == r
WithoutIssuer(r, i) ==
  LET left == r.issuers \ {i} IN
  IF i \notin r.issuers THEN r
  ELSE [new_key |-> r.new_key, issuers |-> left,
        effective |-> IF Enough(Cardinality(left)) THEN r.effective ELSE Never]

Revoke(i, k) ==
  /\ i \in attested[k]
  /\ attested' = [attested EXCEPT ![k] = @ \ {i}]
  /\ recoveries' = [recoveries EXCEPT ![k] = WithoutIssuer(@, i)]
  /\ UNCHANGED <<world, height, issuers, need, accounts, successor, estate, hidden>>

KeyRotate(k, new) ==
  /\ Live(k) /\ new \notin accounts
  /\ Owner[new] = Owner[k]
  /\ Migrate(k, new)
  /\ UNCHANGED <<world, height, issuers, need>>

\* The request a new one joins: only one for the same key.
Mutant_JoinsAny(k, new) ==
  IF Pending(k) THEN [recoveries[k] EXCEPT !.new_key = new] ELSE Unasked(new)
Joined(k, new) ==
  IF recoveries[k].new_key = new THEN recoveries[k] ELSE Unasked(new)

RecoveryRequest(i, k, new) ==
  /\ i \in issuers /\ Live(k) /\ i \in attested[k] /\ new \notin accounts
  /\ i \in world.corrupt \/ Owner[new] = Owner[k]
  /\ LET r == Joined(k, new)
         asked == r.issuers \cup {i} IN
     /\ i \notin r.issuers
     /\ recoveries' = [recoveries EXCEPT ![k] =
          [new_key |-> new, issuers |-> asked,
           effective |-> IF Enough(Cardinality(asked)) /\ r.effective = Never
                         THEN Deadline ELSE r.effective]]
  /\ UNCHANGED <<world, height, issuers, need, accounts, successor, estate, hidden, attested>>

\* By the key itself, while it is live.
RecoveryVeto(k) ==
  /\ Live(k) /\ Pending(k)
  /\ recoveries' = [recoveries EXCEPT ![k] = NoRecovery]
  /\ UNCHANGED <<world, height, issuers, need, accounts, successor, estate, hidden, attested>>

RecoveryFinalize(k) ==
  LET r == recoveries[k] IN
  /\ Pending(k) /\ r.effective # Never
  /\ height >= r.effective
  /\ Enough(Cardinality(Authority(k)))
  /\ r.new_key \notin accounts
  /\ Migrate(k, r.new_key)
  /\ UNCHANGED <<world, height, issuers, need>>

\* Enacted validator votes.
RemoveIssuer(i) ==
  /\ i \in issuers \cap Removable
  /\ issuers' = issuers \ {i}
  /\ UNCHANGED <<world, height, need, accounts, successor, estate, hidden, attested, recoveries>>

SetThreshold(n) ==
  /\ need' = n
  /\ UNCHANGED <<world, height, issuers, accounts, successor, estate, hidden, attested, recoveries>>

\* The next block.  Those who watch have vetoed a recovery to another's key before
\* it can take effect.
NextBlock ==
  /\ height < MaxHeight
  /\ \A k \in Keys :
       Live(k) /\ Pending(k) /\ Owner[k] \in world.watched /\ Owner[recoveries[k].new_key] # Owner[k]
         => recoveries[k].effective \in {Never} \cup {h \in Nat : h > height + 1}
  /\ height' = height + 1
  /\ UNCHANGED <<world, issuers, need, accounts, successor, estate, hidden, attested, recoveries>>

Transaction ==
  \/ \E k \in Keys : Register(k) \/ RecoveryVeto(k) \/ RecoveryFinalize(k)
  \/ \E i \in Issuers, k \in Keys : Attest(i, k) \/ Revoke(i, k)
  \/ \E k, new \in Keys : KeyRotate(k, new)
  \/ \E i \in Issuers, k, new \in Keys : RecoveryRequest(i, k, new)
  \/ \E i \in Issuers : RemoveIssuer(i)
  \/ \E n \in Thresholds : SetThreshold(n)
  \/ NextBlock

\* A recovery has enough authority from the block in which it gets it, without a
\* break and for the same key.
History ==
  since' = [k \in Keys |->
    IF ~ (Pending(k)' /\ Enough(Cardinality(Authority(k)))') THEN Never
    ELSE IF since[k] = Never \/ recoveries'[k].new_key # recoveries[k].new_key THEN height
    ELSE since[k]]

Init ==
  /\ world \in Worlds
  /\ height = 0 /\ issuers = Issuers /\ need \in Thresholds
  /\ accounts = {First[p] : p \in DOMAIN First}
  /\ successor = [k \in Keys |-> NoKey]
  /\ estate = [k \in Keys |-> {p \in DOMAIN First : First[p] = k}]
  /\ hidden = estate
  /\ attested = [k \in Keys |-> {}]
  /\ recoveries = [k \in Keys |-> NoRecovery]
  /\ since = [k \in Keys |-> Never]

Next == Transaction /\ History

Spec == Init /\ [][Next]_vars

-----------------------------------------------------------------------------
\* The shape of the state; a replaced key points at a key that has an account.
TypeOK ==
  /\ world \in Worlds /\ height \in 0 .. MaxHeight /\ issuers \subseteq Issuers /\ need \in Thresholds
  /\ accounts \subseteq Keys
  /\ successor \in [Keys -> accounts \cup {NoKey}]
  /\ estate \in [Keys -> SUBSET People] /\ hidden \in [Keys -> SUBSET People]
  /\ attested \in [Keys -> SUBSET Issuers]
  /\ recoveries \in [Keys -> Recovery]
  /\ since \in [Keys -> {Never} \cup 0 .. MaxHeight]

\* Through any chain of rotations and recoveries what a person owns stays with one
\* key that can sign: that key alone has the estate, and no other key that can sign
\* has the hidden part.  Replaced keys keep a copy of the hidden part (_migrate copies
\* the account and clears only the balance), which nobody can spend.
HeldOnce ==
  \A p \in DOMAIN First : \E k \in accounts :
    /\ successor[k] = NoKey
    /\ \A l \in Keys : p \in estate[l] <=> l = k
    /\ \A l \in Keys : Live(l) => (p \in hidden[l] <=> l = k)

\* No account moves away from its owner, whatever is requested, attested and revoked
\* and whoever is removed meanwhile: as long as fewer issuers are corrupt than the
\* threshold, or the owner looks at it once in every waiting period.
StaysWithOwner ==
  \A k \in Keys : \A p \in estate[k] \cup hidden[k] : Owner[k] = p

\* A recovery takes effect no earlier than a full waiting period after it last
\* gained its authority (state.py: "approval lapses; the waiting period restarts").
HasTime(k) == since[k] # Never /\ height >= since[k] + Delay
OwnerAlwaysHasTime ==
  [][\A k \in Keys : RecoveryFinalize(k) => HasTime(k)]_vars

\* What the code keeps of it: as long as no issuer has been removed by vote, and
\* governance never changes min_attestations.
OneThreshold == \A m, n \in Thresholds : m = n
OwnerHasTime ==
  [][issuers = Issuers => \A k \in Keys : RecoveryFinalize(k) => HasTime(k)]_vars
=============================================================================
