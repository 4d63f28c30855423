--------------------------- MODULE DocumentsProofs ---------------------------
(***************************************************************************)
(* Three promises of the documents on the ledger and in the vault, proved  *)
(* for all drafts, disputes, awards, readers, custodians and plans: what   *)
(* is in force has been signed by all it binds, an award only relieves,    *)
(* and who can open a sealed text has left a receipt.                      *)
(***************************************************************************)
EXTENDS Vault, FiniteSetTheorems, SequenceTheorems, WellFoundedInduction, TLAPS

-----------------------------------------------------------------------------
(* Contracts.  cs stands for the contracts before or after a step, h for    *)
(* the height.                                                               *)

Contract(c) ==
  [status : Status, signatures : SUBSET Accounts, activated : Nat \cup {NoOne},
   grantees : SUBSET Accounts, terms : [Duties(c) -> Terms]]
Shape(cs) == cs = [c \in Ids |-> cs[c]] /\ \A c \in Ids : cs[c] \in Contract(c)
Effective(cs, c) == cs[c].status \in {"ACTIVE", "SUPERSEDED"}

\* InForce, with what it needs of the heights at which contracts came into force.
Standing(cs, h) ==
  /\ Shape(cs)
  /\ \A c \in Ids :
       /\ Effective(cs, c) => /\ cs[c].signatures = Parties(c)
                              /\ cs[c].activated \in Nat /\ cs[c].activated <= h
       /\ cs[c].status = "SUPERSEDED" =>
            \E n \in Ids : /\ c \in Text[n].supersedes /\ Parties(c) \subseteq Parties(n)
                           /\ Effective(cs, n)
       /\ cs[c].status = "ACTIVE" =>
            \A n \in Ids : c \in Text[n].supersedes /\ Parties(c) \subseteq Parties(n) /\ Effective(cs, n)
                             => cs[c].activated >= cs[n].activated

LEMMA StandingInForce ==
  ASSUME NEW h, Standing(contracts, h)
  PROVE  InForce
BY DEF Standing, InForce, Effective

\* A step that changes nobody's standing.
LEMMA StandingKept ==
  ASSUME NEW cs, NEW h, Standing(cs, h), NEW r, Shape(r),
         \A c \in Ids : /\ r[c].signatures = cs[c].signatures /\ r[c].activated = cs[c].activated
                        /\ r[c].status = cs[c].status \/ (~ Effective(cs, c) /\ ~ Effective(r, c))
  PROVE  Standing(r, h)
<1>1. \A c \in Ids : /\ Effective(r, c) <=> Effective(cs, c)
                     /\ r[c].status = "ACTIVE" <=> cs[c].status = "ACTIVE"
                     /\ r[c].status = "SUPERSEDED" <=> cs[c].status = "SUPERSEDED"
  BY DEF Effective
<1> QED
  BY <1>1 DEF Standing

\* What a signature does: nothing more, or it brings the contract into force in place of
\* those it may replace.
LEMMA SignedIs ==
  ASSUME NEW cs, Shape(cs), height \in Nat, NEW c \in Ids, NEW a \in Accounts, cs[c].status = "DRAFT"
  PROVE  LET r == Signed(cs, c, a) IN
         /\ Shape(r) /\ \A o \in Ids : r[o].terms = cs[o].terms
         /\ \/ r[c].status = "DRAFT" /\ \A o \in Ids \ {c} : r[o] = cs[o]
            \/ /\ r[c].status = "ACTIVE" /\ r[c].activated = height /\ r[c].signatures = Parties(c)
               /\ \A o \in Ids \ {c} :
                    IF o \in Text[c].supersedes /\ cs[o].status = "ACTIVE" /\ MayReplace(o, c)
                    THEN r[o] = [cs[o] EXCEPT !.status = "SUPERSEDED"]
                    ELSE r[o] = cs[o]
<1> DEFINE s == [cs EXCEPT ![c].signatures = @ \cup {a}]
           r == Signed(cs, c, a)
           Ends(o) == o \in Text[c].supersedes /\ cs[o].status = "ACTIVE" /\ MayReplace(o, c)
<1>1. r = Activated(s, c)
  BY DEF Signed
<1>2. /\ cs = [o \in Ids |-> cs[o]] /\ \A o \in Ids : cs[o] \in Contract(o)
      /\ Status = {"NONE", "DRAFT", "ACTIVE", "SUPERSEDED"}
  BY DEF Shape, Status
<1>3. /\ s = [o \in Ids |-> s[o]] /\ \A o \in Ids \ {c} : s[o] = cs[o]
      /\ s[c] = [cs[c] EXCEPT !.signatures = @ \cup {a}]
  BY <1>2
<1>4. /\ s[c] \in Contract(c) /\ s[c].status = "DRAFT" /\ s[c].terms = cs[c].terms
      /\ \A o \in Ids : s[o] \in Contract(o)
  BY <1>2, <1>3 DEF Contract
<1> HIDE DEF s, r
<1>5. CASE s[c].signatures # Parties(c)
  <2>1. r = s
    BY <1>1, <1>5 DEF Activated
  <2> QED
    BY <1>2, <1>3, <1>4, <2>1 DEF Shape, r
<1>6. CASE s[c].signatures = Parties(c)
  <2>1. r = [o \in Ids |->
               CASE o = c -> [s[c] EXCEPT !.status = "ACTIVE", !.activated = height]
                 [] o \in Text[c].supersedes /\ s[o].status = "ACTIVE" /\ MayReplace(o, c) ->
                      [s[o] EXCEPT !.status = "SUPERSEDED"]
                 [] OTHER -> s[o]]
    BY <1>1, <1>6 DEF Activated
  <2>2. r = [o \in Ids |-> r[o]]
    BY <2>1
  <2>3. r[c] = [s[c] EXCEPT !.status = "ACTIVE", !.activated = height]
    BY <1>4, <2>1
  <2>4. /\ r[c] \in Contract(c) /\ r[c].status = "ACTIVE" /\ r[c].activated = height
        /\ r[c].signatures = Parties(c) /\ r[c].terms = cs[c].terms
    BY <1>2, <1>4, <1>6, <2>3 DEF Contract
  <2>5. ASSUME NEW o \in Ids \ {c}
        PROVE  r[o] = IF Ends(o) THEN [cs[o] EXCEPT !.status = "SUPERSEDED"] ELSE cs[o]
    BY <1>3, <2>1
  <2>6. \A o \in Ids \ {c} : r[o] \in Contract(o) /\ r[o].terms = cs[o].terms
    <3> TAKE o \in Ids \ {c}
    <3>1. cs[o] \in Contract(o)
      BY <1>2
    <3>2. CASE Ends(o)
      <4>1. r[o] = [cs[o] EXCEPT !.status = "SUPERSEDED"]
        BY <2>5, <3>2
      <4> HIDE DEF Ends
      <4> QED
        BY <1>2, <3>1, <4>1 DEF Contract
    <3>3. CASE ~ Ends(o)
      BY <2>5, <3>1, <3>3
    <3> QED
      BY <3>2, <3>3
  <2>7. Shape(r)
    BY <2>2, <2>4, <2>6 DEF Shape
  <2> QED
    BY <2>4, <2>5, <2>6, <2>7 DEF r
<1> QED
  BY <1>5, <1>6

LEMMA SignStands ==
  ASSUME NEW cs, Standing(cs, height), height \in Nat, NEW c \in Ids, NEW a \in Accounts,
         cs[c].status = "DRAFT"
  PROVE  LET r == Signed(cs, c, a) IN
         Standing(r, height) /\ \A o \in Ids : r[o].terms = cs[o].terms
<1> DEFINE r == Signed(cs, c, a)
<1>1. Shape(cs) /\ \A o \in Ids : cs[o] \in Contract(o)
  BY DEF Standing, Shape
<1>2. /\ Shape(r) /\ \A o \in Ids : r[o].terms = cs[o].terms
      /\ \/ r[c].status = "DRAFT" /\ \A o \in Ids \ {c} : r[o] = cs[o]
         \/ /\ r[c].status = "ACTIVE" /\ r[c].activated = height /\ r[c].signatures = Parties(c)
            /\ \A o \in Ids \ {c} :
                 IF o \in Text[c].supersedes /\ cs[o].status = "ACTIVE" /\ MayReplace(o, c)
                 THEN r[o] = [cs[o] EXCEPT !.status = "SUPERSEDED"]
                 ELSE r[o] = cs[o]
  BY <1>1, SignedIs
<1> HIDE DEF r
<1>3. CASE r[c].status = "DRAFT" /\ \A o \in Ids \ {c} : r[o] = cs[o]
  <2>1. ~ Effective(cs, c) /\ ~ Effective(r, c)
    BY <1>3 DEF Effective
  <2>2. \A o \in Ids \ {c} : r[o] = cs[o]
    BY <1>3
  <2>3. \A o \in Ids : Effective(r, o) => o # c /\ Effective(cs, o)
    BY <2>1, <2>2 DEF Effective
  <2>4. \A o \in Ids : Effective(cs, o) => o # c /\ Effective(r, o)
    BY <2>1, <2>2 DEF Effective
  <2>5. ASSUME NEW o \in Ids
        PROVE  /\ Effective(r, o) => /\ r[o].signatures = Parties(o)
                                     /\ r[o].activated \in Nat /\ r[o].activated <= height
               /\ r[o].status = "SUPERSEDED" =>
                    \E n \in Ids : /\ o \in Text[n].supersedes /\ Parties(o) \subseteq Parties(n)
                                   /\ Effective(r, n)
               /\ r[o].status = "ACTIVE" =>
                    \A n \in Ids : o \in Text[n].supersedes /\ Parties(o) \subseteq Parties(n) /\ Effective(r, n)
                                     => r[o].activated >= r[n].activated
    <3>1. CASE o = c
      BY <1>3, <2>1, <3>1
    <3>2. CASE o # c
      <4>1. r[o] = cs[o]
        BY <2>2, <3>2
      <4> QED
        BY <2>2, <2>3, <2>4, <4>1 DEF Standing
    <3> QED
      BY <3>1, <3>2
  <2> QED
    BY <1>2, <2>5 DEF Standing, r
<1>4. CASE /\ r[c].status = "ACTIVE" /\ r[c].activated = height /\ r[c].signatures = Parties(c)
           /\ \A o \in Ids \ {c} :
                IF o \in Text[c].supersedes /\ cs[o].status = "ACTIVE" /\ MayReplace(o, c)
                THEN r[o] = [cs[o] EXCEPT !.status = "SUPERSEDED"]
                ELSE r[o] = cs[o]
  <2>1. ~ Effective(cs, c) /\ Effective(r, c)
    BY <1>4 DEF Effective
  <2>2. ASSUME NEW o \in Ids \ {c}
        PROVE  /\ Effective(r, o) <=> Effective(cs, o)
               /\ r[o].signatures = cs[o].signatures /\ r[o].activated = cs[o].activated
               /\ r[o].status # cs[o].status =>
                    r[o].status = "SUPERSEDED" /\ o \in Text[c].supersedes /\ Parties(o) \subseteq Parties(c)
               /\ o \in Text[c].supersedes /\ Parties(o) \subseteq Parties(c) => r[o].status # "ACTIVE"
    BY <1>1, <1>4 DEF Effective, Contract, MayReplace
  <2>3. ASSUME NEW o \in Ids, Effective(r, o)
        PROVE  r[o].signatures = Parties(o) /\ r[o].activated \in Nat /\ r[o].activated <= height
    <3>1. CASE o = c
      BY <1>4, <3>1
    <3>2. CASE o # c
      BY <2>2, <2>3, <3>2 DEF Standing
    <3> QED
      BY <3>1, <3>2
  <2>4. ASSUME NEW o \in Ids, r[o].status = "SUPERSEDED"
        PROVE  \E n \in Ids : /\ o \in Text[n].supersedes /\ Parties(o) \subseteq Parties(n)
                              /\ Effective(r, n)
    <3>1. o # c
      BY <1>4, <2>4
    <3>2. CASE cs[o].status = "SUPERSEDED"
      <4>1. PICK n \in Ids : /\ o \in Text[n].supersedes /\ Parties(o) \subseteq Parties(n)
                             /\ Effective(cs, n)
        BY <3>2 DEF Standing
      <4> QED
        BY <2>1, <2>2, <4>1
    <3>3. CASE cs[o].status # "SUPERSEDED"
      BY <2>1, <2>2, <2>4, <3>1, <3>3
    <3> QED
      BY <3>2, <3>3
  <2>5. ASSUME NEW o \in Ids, r[o].status = "ACTIVE", NEW n \in Ids, o \in Text[n].supersedes,
               Parties(o) \subseteq Parties(n), Effective(r, n)
        PROVE  r[o].activated >= r[n].activated
    <3>1. CASE o = c
      BY <1>4, <2>3, <2>5, <3>1
    <3>2. CASE o # c
      <4>1. n # c /\ cs[o].status = "ACTIVE" /\ Effective(cs, n)
        BY <2>2, <2>5, <3>2
      <4> QED
        BY <2>2, <2>5, <3>2, <4>1 DEF Standing
    <3> QED
      BY <3>1, <3>2
  <2> QED
    BY <1>2, <2>3, <2>4, <2>5 DEF Standing, r
<1> QED
  BY <1>2, <1>3, <1>4

-----------------------------------------------------------------------------
(* The steps of the ledger.                                                  *)

\* What is asked of an open dispute, and of the accesses counted.
Dispute ==
  [contract : Ids, claimant : Accounts, duties : SUBSET AllDuties, status : {"OPEN", "WITHDRAWN", "CLOSED"},
   opened : Nat, closed : Nat \cup {NoOne}, filings : SUBSET Accounts]
Sensible(d) == d \in Dispute /\ d.claimant \in Parties(d.contract) /\ d.duties \subseteq Duties(d.contract)
Claimed(ds) ==
  /\ ds = [p \in Claims |-> ds[p]]
  /\ \A p \in Claims : ds[p] = [status |-> "NONE"] \/ Sensible(ds[p])
Counts == [Ids \X Accounts \X {"VIEW", "USE", "CITE"} -> Nat]
LedgerInv ==
  /\ case \in Cases /\ height \in Nat
  /\ Standing(contracts, height) /\ Claimed(disputes) /\ log \in Counts

LEMMA LedgerStarts == LedgerInit => LedgerInv
<1> SUFFICES ASSUME LedgerInit
             PROVE  LedgerInv
  OBVIOUS
<1>1. /\ case \in Cases /\ height = 1
      /\ contracts = [c \in Ids |-> [status |-> "NONE", signatures |-> {}, activated |-> NoOne, grantees |-> {},
                                     terms |-> [d \in Duties(c) |-> Original(c, d)]]]
      /\ disputes = [p \in Claims |-> [status |-> "NONE"]]
      /\ log = [e \in Ids \X Accounts \X {"VIEW", "USE", "CITE"} |-> 0]
  BY DEF LedgerInit
<1>2. ASSUME NEW c \in Ids
      PROVE  contracts[c] \in Contract(c) /\ contracts[c].status = "NONE"
  <2>1. \A d \in Duties(c) : Original(c, d) \in Terms
    BY ContractsAssumption DEF Original, Terms, Duty
  <2> QED
    BY <1>1, <2>1 DEF Contract, Status
<1>3. Shape(contracts)
  BY <1>1, <1>2 DEF Shape
<1>4. Standing(contracts, height)
  BY <1>2, <1>3 DEF Standing, Effective
<1>5. Claimed(disputes) /\ log \in Counts
  BY <1>1 DEF Claimed, Counts
<1> QED
  BY <1>1, <1>4, <1>5 DEF LedgerInv

\* What a step on the ledger keeps: the invariant, all receipts, and all terms but those
\* an award changes.
Kept == LedgerInv' /\ \A e \in DOMAIN log : log'[e] >= log[e]
SameTerms == \A c \in Ids : contracts'[c].terms = contracts[c].terms

LEMMA CreateKeeps ==
  ASSUME LedgerInv, NEW c \in Ids, Create(c)
  PROVE  Kept /\ SameTerms
<1> DEFINE t == Text[c]
           drafted == [contracts EXCEPT ![c].status = "DRAFT"]
<1>1. /\ contracts[c].status = "NONE" /\ case' = case /\ height' = height /\ disputes' = disputes
      /\ contracts' = IF t.creator \in t.parties THEN Signed(drafted, c, t.creator) ELSE drafted
      /\ log' = [e \in DOMAIN log |->
                   IF e[1] \in t.supersedes \cup t.cites /\ e[2] = t.creator /\ e[3] = "CITE"
                   THEN log[e] + 1 ELSE log[e]]
  BY DEF Create, Created
<1>2. /\ contracts = [o \in Ids |-> contracts[o]] /\ \A o \in Ids : contracts[o] \in Contract(o)
      /\ Standing(contracts, height) /\ height \in Nat /\ log \in Counts
  BY DEF LedgerInv, Standing, Shape
<1>3. /\ drafted = [o \in Ids |-> drafted[o]] /\ \A o \in Ids \ {c} : drafted[o] = contracts[o]
      /\ drafted[c] = [contracts[c] EXCEPT !.status = "DRAFT"]
  BY <1>2
<1>4. t.creator \in Accounts
  BY ContractsAssumption
<1> HIDE DEF drafted, t
<1>5. /\ drafted[c] \in Contract(c) /\ drafted[c].status = "DRAFT"
      /\ drafted[c].signatures = contracts[c].signatures /\ drafted[c].activated = contracts[c].activated
      /\ drafted[c].terms = contracts[c].terms
  BY <1>2, <1>3 DEF Contract, Status
<1>6. Shape(drafted) /\ \A o \in Ids : drafted[o].terms = contracts[o].terms
  BY <1>2, <1>3, <1>5 DEF Shape
<1>7. ~ Effective(contracts, c) /\ ~ Effective(drafted, c)
  BY <1>1, <1>5 DEF Effective
<1>8. \A o \in Ids : /\ drafted[o].signatures = contracts[o].signatures
                     /\ drafted[o].activated = contracts[o].activated
                     /\ \/ drafted[o].status = contracts[o].status
                        \/ ~ Effective(contracts, o) /\ ~ Effective(drafted, o)
  BY <1>3, <1>5, <1>7
<1>9. Standing(drafted, height)
  BY <1>2, <1>6, <1>8, StandingKept
<1>10. Standing(contracts', height) /\ \A o \in Ids : contracts'[o].terms = contracts[o].terms
  BY <1>1, <1>2, <1>4, <1>5, <1>6, <1>9, SignStands
<1>11. log' \in Counts /\ \A e \in DOMAIN log : log'[e] >= log[e]
  BY <1>1, <1>2 DEF Counts
<1> QED
  BY <1>1, <1>10, <1>11 DEF Kept, SameTerms, LedgerInv

LEMMA SignKeeps ==
  ASSUME LedgerInv, NEW c \in Ids, NEW a \in Accounts, Sign(a, c)
  PROVE  Kept /\ SameTerms
<1>1. /\ contracts[c].status = "DRAFT" /\ contracts' = Signed(contracts, c, a)
      /\ case' = case /\ height' = height /\ disputes' = disputes /\ log' = log
  BY DEF Sign
<1>2. Standing(contracts, height) /\ height \in Nat /\ log \in Counts
  BY DEF LedgerInv
<1>3. Standing(contracts', height) /\ \A o \in Ids : contracts'[o].terms = contracts[o].terms
  BY <1>1, <1>2, SignStands
<1> QED
  BY <1>1, <1>2, <1>3 DEF Kept, SameTerms, LedgerInv, Counts

\* A recorded access, and nothing else of what matters here.
LEMMA LogKeeps ==
  ASSUME LedgerInv, NEW c \in Ids, NEW a \in Accounts, NEW action \in {"VIEW", "USE"},
         log' = Logged(c, a, action),
         case' = case, height' = height, contracts' = contracts, disputes' = disputes
  PROVE  Kept /\ SameTerms
<1>1. log' = [log EXCEPT ![<<c, a, action>>] = @ + 1] /\ log \in Counts
  BY DEF Logged, LedgerInv
<1>2. log' \in Counts /\ \A e \in DOMAIN log : log'[e] >= log[e]
  BY <1>1 DEF Counts
<1> QED
  BY <1>2 DEF Kept, SameTerms, LedgerInv

LEMMA GrantKeeps ==
  ASSUME LedgerInv, NEW c \in Ids, NEW a \in Accounts, NEW g \in Accounts, Grant(a, c, g)
  PROVE  Kept /\ SameTerms
<1>1. /\ contracts' = [contracts EXCEPT ![c].grantees = @ \cup {g}]
      /\ case' = case /\ height' = height /\ disputes' = disputes /\ log' = log
  BY DEF Grant
<1>2. /\ contracts = [o \in Ids |-> contracts[o]] /\ \A o \in Ids : contracts[o] \in Contract(o)
      /\ Standing(contracts, height) /\ log \in Counts
  BY DEF LedgerInv, Standing, Shape
<1>3. /\ contracts' = [o \in Ids |-> contracts'[o]] /\ \A o \in Ids \ {c} : contracts'[o] = contracts[o]
      /\ contracts'[c] = [contracts[c] EXCEPT !.grantees = @ \cup {g}]
  BY <1>1, <1>2
<1>4. /\ contracts'[c] \in Contract(c) /\ contracts'[c].status = contracts[c].status
      /\ contracts'[c].signatures = contracts[c].signatures
      /\ contracts'[c].activated = contracts[c].activated
      /\ contracts'[c].terms = contracts[c].terms
  BY <1>2, <1>3 DEF Contract
<1>5. Shape(contracts')
  BY <1>2, <1>3, <1>4 DEF Shape
<1>6. \A o \in Ids : /\ contracts'[o].signatures = contracts[o].signatures
                     /\ contracts'[o].activated = contracts[o].activated
                     /\ \/ contracts'[o].status = contracts[o].status
                        \/ ~ Effective(contracts, o) /\ ~ Effective(contracts', o)
  BY <1>3, <1>4
<1>7. Standing(contracts', height)
  BY <1>2, <1>5, <1>6, StandingKept
<1> QED
  BY <1>1, <1>2, <1>3, <1>4, <1>7 DEF Kept, SameTerms, LedgerInv, Counts

\* A step on one dispute.
LEMMA DisputeKeeps ==
  ASSUME LedgerInv, Claimed(disputes'), case' = case, height' = height, contracts' = contracts, log' = log
  PROVE  Kept /\ SameTerms
BY DEF Kept, SameTerms, LedgerInv, Counts

LEMMA OpenDisputeKeeps ==
  ASSUME LedgerInv, NEW p \in Claims, NEW a \in Accounts, NEW c \in Ids, NEW ds \in SUBSET Duties(c),
         OpenDispute(p, a, c, ds)
  PROVE  Kept /\ SameTerms
<1> DEFINE new == [contract |-> c, claimant |-> a, duties |-> ds, status |-> "OPEN",
                   opened |-> height, closed |-> NoOne, filings |-> {}]
<1>1. /\ a \in Parties(c) /\ disputes' = [disputes EXCEPT ![p] = new]
      /\ case' = case /\ height' = height /\ contracts' = contracts /\ log' = log
  BY DEF OpenDispute
<1>2. Claimed(disputes) /\ height \in Nat
  BY DEF LedgerInv
<1>3. Sensible(new)
  <2>1. ds \subseteq AllDuties
    BY DEF AllDuties
  <2> QED
    BY <1>1, <1>2, <2>1 DEF Sensible, Dispute
<1> HIDE DEF new
<1>4. Claimed(disputes')
  BY <1>1, <1>2, <1>3 DEF Claimed
<1> QED
  BY <1>1, <1>4, DisputeKeeps

\* A step on an open dispute that leaves it one, or ends it.
LEMMA DisputeChanged ==
  ASSUME Claimed(disputes), NEW p \in Claims, Open(p), NEW new, new \in Dispute,
         new.contract = disputes[p].contract, new.claimant = disputes[p].claimant,
         new.duties = disputes[p].duties, disputes' = [disputes EXCEPT ![p] = new]
  PROVE  Claimed(disputes')
<1>1. Sensible(disputes[p])
  BY DEF Open, Claimed
<1>2. Sensible(new)
  BY <1>1 DEF Sensible
<1> QED
  BY <1>2 DEF Claimed

LEMMA OpenTyped ==
  ASSUME LedgerInv, NEW p \in Claims, Open(p)
  PROVE  Sensible(disputes[p]) /\ Claimed(disputes) /\ disputes = [q \in Claims |-> disputes[q]]
         /\ height \in Nat
BY DEF LedgerInv, Open, Claimed

LEMMA FileKeeps ==
  ASSUME LedgerInv, NEW p \in Claims, NEW a \in Accounts, File(p, a)
  PROVE  Kept /\ SameTerms
<1> DEFINE new == [disputes[p] EXCEPT !.filings = @ \cup {a}]
<1>1. /\ Open(p) /\ disputes' = [disputes EXCEPT ![p].filings = @ \cup {a}]
      /\ case' = case /\ height' = height /\ contracts' = contracts /\ log' = log
  BY DEF File
<1>2. Sensible(disputes[p]) /\ Claimed(disputes) /\ disputes = [q \in Claims |-> disputes[q]]
  BY <1>1, OpenTyped
<1>3. disputes' = [disputes EXCEPT ![p] = new]
  BY <1>1, <1>2
<1>4. /\ new \in Dispute /\ new.contract = disputes[p].contract
      /\ new.claimant = disputes[p].claimant /\ new.duties = disputes[p].duties
  BY <1>2 DEF Sensible, Dispute
<1> HIDE DEF new
<1>5. Claimed(disputes')
  BY <1>1, <1>2, <1>3, <1>4, DisputeChanged
<1> QED
  BY <1>1, <1>5, DisputeKeeps

\* A dispute that ends, by withdrawal or by an award.
LEMMA Ended ==
  ASSUME LedgerInv, NEW p \in Claims, Open(p), NEW status \in {"WITHDRAWN", "CLOSED"},
         disputes' = [disputes EXCEPT ![p].status = status, ![p].closed = height]
  PROVE  Claimed(disputes') /\ disputes'[p].status = status
<1> DEFINE old == disputes[p]
           new == [contract |-> old.contract, claimant |-> old.claimant, duties |-> old.duties,
                   status |-> status, opened |-> old.opened, closed |-> height, filings |-> old.filings]
<1>1. /\ Sensible(old) /\ Claimed(disputes) /\ disputes = [q \in Claims |-> disputes[q]]
      /\ height \in Nat
  BY OpenTyped
<1>2. disputes' = [disputes EXCEPT ![p] = [@ EXCEPT !.status = status, !.closed = height]]
  BY <1>1
<1>6. [old EXCEPT !.status = status, !.closed = height] = new
  <2> HIDE DEF old
  <2>1. old = [contract |-> old.contract, claimant |-> old.claimant, duties |-> old.duties,
               status |-> old.status, opened |-> old.opened, closed |-> old.closed, filings |-> old.filings]
    BY <1>1 DEF Sensible, Dispute
  <2> DEFINE b == [old EXCEPT !.status = status]
  <2>2. b = [contract |-> old.contract, claimant |-> old.claimant, duties |-> old.duties,
             status |-> status, opened |-> old.opened, closed |-> old.closed, filings |-> old.filings]
    BY <2>1
  <2>3. [old EXCEPT !.status = status, !.closed = height] = [b EXCEPT !.closed = height]
    BY <2>1
  <2> HIDE DEF b
  <2>4. [b EXCEPT !.closed = height] = new
    BY <2>2
  <2> QED
    BY <2>3, <2>4
<1>3. disputes' = [disputes EXCEPT ![p] = new]
  BY <1>2, <1>6
<1>4. /\ new \in Dispute /\ new.contract = old.contract
      /\ new.claimant = old.claimant /\ new.duties = old.duties /\ new.status = status
  BY <1>1 DEF Sensible, Dispute
<1> HIDE DEF new
<1>5. Claimed(disputes')
  BY <1>1, <1>3, <1>4, DisputeChanged
<1> QED
  BY <1>1, <1>3, <1>4, <1>5

LEMMA WithdrawKeeps ==
  ASSUME LedgerInv, NEW p \in Claims, Withdraw(p)
  PROVE  Kept /\ SameTerms
<1>1. /\ Open(p) /\ disputes' = [disputes EXCEPT ![p].status = "WITHDRAWN", ![p].closed = height]
      /\ case' = case /\ height' = height /\ contracts' = contracts /\ log' = log
  BY DEF Withdraw
<1>2. Claimed(disputes')
  BY <1>1, Ended
<1> QED
  BY <1>1, <1>2, DisputeKeeps

\* What the law of adjustments allows.
LEMMA LawfulRelieves ==
  ASSUME NEW a \in Awards, NEW prior \in Terms, Lawful(a, prior), height \in Nat
  PROVE  /\ Applied(a, prior) \in Terms
         /\ Applied(a, prior).amount <= prior.amount /\ Applied(a, prior).due >= prior.due
         /\ prior.waived => Applied(a, prior).waived
<1>1. /\ a.amount \in Nat \cup {NoOne} /\ a.due \in Nat \cup {NoOne} /\ a.waived \in BOOLEAN
      /\ prior.amount \in Nat /\ prior.due \in Nat /\ prior.waived \in BOOLEAN /\ NoOne \notin Int
  BY ContractsAssumption DEF Terms
<1>2. /\ a.amount # NoOne => a.amount \in 1 .. prior.amount
      /\ a.due # NoOne => a.due >= prior.due
  BY DEF Lawful, Bounded
<1> DEFINE r == Applied(a, prior)
<1>3. /\ r.height = height /\ r.amount = IF a.amount = NoOne THEN prior.amount ELSE a.amount
      /\ r.due = IF a.due = NoOne THEN prior.due ELSE a.due
      /\ r.waived = (prior.waived \/ a.waived)
      /\ r = [height |-> r.height, amount |-> r.amount, due |-> r.due, waived |-> r.waived]
  BY DEF Applied
<1> HIDE DEF r
<1>4. r.amount \in Nat /\ r.amount <= prior.amount /\ r.due \in Nat /\ r.due >= prior.due
  BY <1>1, <1>2, <1>3
<1>5. r.waived \in BOOLEAN /\ (prior.waived => r.waived)
  BY <1>1, <1>3
<1>6. r \in Terms
  BY <1>3, <1>4, <1>5 DEF Terms
<1> QED
  BY <1>4, <1>5, <1>6 DEF r

\* The terms a step changes are those of a contract in an open dispute, which it closes.
Relieved ==
  \A c \in Ids : \A d \in Duties(c) :
    LET old == contracts[c].terms[d]
        new == contracts'[c].terms[d] IN
    old # new =>
      /\ new.amount <= old.amount /\ new.due >= old.due /\ (old.waived => new.waived)
      /\ \E p \in Claims : /\ Open(p) /\ disputes[p].contract = c /\ d \in disputes[p].duties
                           /\ disputes[p].claimant \in Parties(c) /\ disputes'[p].status = "CLOSED"

LEMMA AwardKeeps ==
  ASSUME LedgerInv, NEW p \in Claims, NEW D \in SUBSET AllDuties, NEW adjust \in [D -> Awards],
         Award(p, adjust)
  PROVE  Kept /\ Relieved
<1> DEFINE c == disputes[p].contract
           terms == [d \in DOMAIN contracts[c].terms |->
                       IF d \in D THEN Applied(adjust[d], Prior(c, d)) ELSE contracts[c].terms[d]]
<1>1. /\ Open(p) /\ D \subseteq disputes[p].duties /\ \A d \in D : Lawful(adjust[d], Prior(c, d))
      /\ disputes' = [disputes EXCEPT ![p].status = "CLOSED", ![p].closed = height]
      /\ case' = case /\ height' = height /\ log' = log
  BY DEF Award
<1>2. contracts' = [contracts EXCEPT ![c].terms =
                      [d \in DOMAIN @ |-> IF d \in D THEN Applied(adjust[d], Prior(c, d)) ELSE @[d]]]
  BY DEF Award
<1>3. /\ Sensible(disputes[p]) /\ height \in Nat /\ c \in Ids
      /\ D \subseteq Duties(c) /\ disputes[p].claimant \in Parties(c)
  BY <1>1, OpenTyped DEF Sensible, Dispute
<1>4. /\ contracts = [o \in Ids |-> contracts[o]] /\ \A o \in Ids : contracts[o] \in Contract(o)
      /\ Standing(contracts, height) /\ log \in Counts
  BY DEF LedgerInv, Standing, Shape
<1>5. contracts[c].terms \in [Duties(c) -> Terms]
  BY <1>3, <1>4 DEF Contract
<1>6. contracts' = [contracts EXCEPT ![c] = [@ EXCEPT !.terms = terms]]
  BY <1>2, <1>3, <1>4
<1>7. /\ terms \in [Duties(c) -> Terms]
      /\ \A d \in Duties(c) : terms[d] # contracts[c].terms[d] =>
           /\ d \in D
           /\ terms[d].amount <= contracts[c].terms[d].amount /\ terms[d].due >= contracts[c].terms[d].due
           /\ contracts[c].terms[d].waived => terms[d].waived
  <2> SUFFICES ASSUME NEW d \in Duties(c)
               PROVE  /\ terms[d] \in Terms
                      /\ terms[d] # contracts[c].terms[d] =>
                           /\ d \in D
                           /\ terms[d].amount <= contracts[c].terms[d].amount
                           /\ terms[d].due >= contracts[c].terms[d].due
                           /\ contracts[c].terms[d].waived => terms[d].waived
    BY <1>5
  <2>1. CASE d \notin D
    BY <1>5, <2>1
  <2>2. CASE d \in D
    <3> DEFINE prior == contracts[c].terms[d]
    <3>1. prior \in Terms /\ Prior(c, d) = prior
      BY <1>5 DEF Prior
    <3>2. adjust[d] \in Awards /\ Lawful(adjust[d], prior) /\ terms[d] = Applied(adjust[d], prior)
      BY <1>1, <1>5, <2>2, <3>1
    <3> HIDE DEF prior, terms
    <3>3. /\ terms[d] \in Terms /\ terms[d].amount <= prior.amount /\ terms[d].due >= prior.due
          /\ prior.waived => terms[d].waived
      BY <1>3, <3>1, <3>2, LawfulRelieves
    <3> QED
      BY <2>2, <3>3 DEF prior
  <2> QED
    BY <2>1, <2>2
<1> HIDE DEF terms, c
<1>8. /\ contracts' = [o \in Ids |-> contracts'[o]] /\ \A o \in Ids \ {c} : contracts'[o] = contracts[o]
      /\ contracts'[c] = [contracts[c] EXCEPT !.terms = terms]
  BY <1>3, <1>4, <1>6
<1>9. /\ contracts'[c] \in Contract(c) /\ contracts'[c].status = contracts[c].status
      /\ contracts'[c].signatures = contracts[c].signatures
      /\ contracts'[c].activated = contracts[c].activated
      /\ contracts'[c].terms = terms
  <2> DEFINE b == contracts[c]
             a == contracts'[c]
  <2>1. b \in Contract(c) /\ a = [b EXCEPT !.terms = terms]
    BY <1>3, <1>4, <1>8
  <2>2. terms \in [Duties(c) -> Terms]
    BY <1>7
  <2> HIDE DEF a, b
  <2>3. a \in Contract(c) /\ a.status = b.status /\ a.signatures = b.signatures
        /\ a.activated = b.activated /\ a.terms = terms
    BY <2>1, <2>2 DEF Contract
  <2> QED
    BY <2>3 DEF a, b
<1>10. Shape(contracts')
  BY <1>4, <1>8, <1>9 DEF Shape
<1>11. \A o \in Ids : /\ contracts'[o].signatures = contracts[o].signatures
                      /\ contracts'[o].activated = contracts[o].activated
                      /\ \/ contracts'[o].status = contracts[o].status
                         \/ ~ Effective(contracts, o) /\ ~ Effective(contracts', o)
  BY <1>8, <1>9
<1>12. Standing(contracts', height)
  BY <1>4, <1>10, <1>11, StandingKept
<1>13. Claimed(disputes') /\ disputes'[p].status = "CLOSED"
  BY <1>1, Ended
<1>14. Kept
  BY <1>1, <1>4, <1>12, <1>13 DEF Kept, LedgerInv, Counts
<1>15. Relieved
  <2> SUFFICES ASSUME NEW o \in Ids, NEW d \in Duties(o), contracts[o].terms[d] # contracts'[o].terms[d]
               PROVE  /\ contracts'[o].terms[d].amount <= contracts[o].terms[d].amount
                      /\ contracts'[o].terms[d].due >= contracts[o].terms[d].due
                      /\ contracts[o].terms[d].waived => contracts'[o].terms[d].waived
                      /\ \E q \in Claims : /\ Open(q) /\ disputes[q].contract = o /\ d \in disputes[q].duties
                                           /\ disputes[q].claimant \in Parties(o)
                                           /\ disputes'[q].status = "CLOSED"
    BY DEF Relieved
  <2>1. o = c
    BY <1>8
  <2>2. contracts'[o].terms = terms
    BY <1>9, <2>1
  <2>3. /\ d \in D /\ terms[d].amount <= contracts[c].terms[d].amount
        /\ terms[d].due >= contracts[c].terms[d].due /\ (contracts[c].terms[d].waived => terms[d].waived)
    BY <1>7, <2>1, <2>2
  <2>4. disputes[p].contract = o /\ d \in disputes[p].duties
    BY <1>1, <2>1, <2>3 DEF c
  <2> QED
    BY <1>1, <1>3, <1>13, <2>1, <2>2, <2>3, <2>4
<1> QED
  BY <1>14, <1>15

LEMMA LedgerStep ==
  ASSUME LedgerInv, [LedgerNext]_ledgerVars
  PROVE  Kept /\ Relieved
<1>1. SameTerms => Relieved
  BY DEF SameTerms, Relieved
<1>2. CASE UNCHANGED ledgerVars
  <2>1. Kept /\ SameTerms
    BY <1>2 DEF ledgerVars, Kept, SameTerms, LedgerInv, Counts
  <2> QED
    BY <1>1, <2>1
<1>3. ASSUME NEW c \in Ids, Create(c)
      PROVE  Kept /\ Relieved
  BY <1>1, <1>3, CreateKeeps
<1>4. ASSUME NEW c \in Ids, NEW a \in Accounts,
             \/ Sign(a, c)
             \/ \E action \in {"VIEW", "USE"} : Access(a, c, action)
             \/ \E g \in Accounts : Grant(a, c, g)
             \/ \E p \in Claims : \E ds \in SUBSET Duties(c) : OpenDispute(p, a, c, ds)
      PROVE  Kept /\ Relieved
  <2>1. CASE Sign(a, c)
    BY <1>1, <2>1, SignKeeps
  <2>2. ASSUME NEW action \in {"VIEW", "USE"}, Access(a, c, action)
        PROVE  Kept /\ Relieved
    <3>1. /\ log' = Logged(c, a, action) /\ case' = case /\ height' = height
          /\ contracts' = contracts /\ disputes' = disputes
      BY <2>2 DEF Access
    <3> QED
      BY <1>1, <3>1, LogKeeps
  <2>3. ASSUME NEW g \in Accounts, Grant(a, c, g)
        PROVE  Kept /\ Relieved
    BY <1>1, <2>3, GrantKeeps
  <2>4. ASSUME NEW p \in Claims, NEW ds \in SUBSET Duties(c), OpenDispute(p, a, c, ds)
        PROVE  Kept /\ Relieved
    BY <1>1, <2>4, OpenDisputeKeeps
  <2> QED
    BY <1>4, <2>1, <2>2, <2>3, <2>4
<1>5. ASSUME NEW c \in Ids, NEW d \in Duties(c), NEW amount \in 1 .. Text[c].owes[d].amount, Pay(c, d, amount)
      PROVE  Kept /\ Relieved
  <2>1. /\ log' = Logged(c, Text[c].owes[d].payer, "USE") /\ case' = case /\ height' = height
        /\ contracts' = contracts /\ disputes' = disputes
    BY <1>5 DEF Pay
  <2>2. Text[c].owes[d].payer \in Accounts
    BY ContractsAssumption DEF Duty
  <2> QED
    BY <1>1, <2>1, <2>2, LogKeeps
<1>6. ASSUME NEW p \in Claims,
             \/ \E a \in Accounts : File(p, a)
             \/ Withdraw(p)
             \/ \E D \in SUBSET AllDuties : \E adjust \in [D -> Awards] : Award(p, adjust)
      PROVE  Kept /\ Relieved
  <2>1. CASE \E a \in Accounts : File(p, a)
    BY <1>1, <2>1, FileKeeps
  <2>2. CASE Withdraw(p)
    BY <1>1, <2>2, WithdrawKeeps
  <2>3. CASE \E D \in SUBSET AllDuties : \E adjust \in [D -> Awards] : Award(p, adjust)
    BY <2>3, AwardKeeps
  <2> QED
    BY <1>6, <2>1, <2>2, <2>3
<1>7. CASE NextBlock
  <2>1. /\ height' = height + 1 /\ case' = case /\ contracts' = contracts /\ disputes' = disputes /\ log' = log
    BY <1>7 DEF NextBlock
  <2>2. Standing(contracts, height) /\ height \in Nat
    BY DEF LedgerInv
  <2>3. Standing(contracts, height + 1)
    <3>1. \A x \in Nat : x <= height => x <= height + 1
      BY <2>2
    <3> QED
      BY <2>2, <3>1 DEF Standing
  <2>4. Kept /\ SameTerms
    BY <2>1, <2>2, <2>3 DEF Kept, SameTerms, LedgerInv, Counts
  <2> QED
    BY <1>1, <2>4
<1> QED
  BY <1>2, <1>3, <1>4, <1>5, <1>6, <1>7 DEF LedgerNext

\* The vault only reads the ledger.
LEMMA VaultReadsLedger == [Next]_vars => [LedgerNext]_ledgerVars
<1> SUFFICES ASSUME [Next]_vars
             PROVE  [LedgerNext]_ledgerVars
  OBVIOUS
<1>1. CASE UNCHANGED vars
  BY <1>1 DEF vars
<1>2. CASE LedgerNext /\ UNCHANGED vaultVars
  BY <1>2
<1>3. CASE VaultNext
  <2>1. CASE Seal
    BY <2>1 DEF Seal
  <2>2. ASSUME NEW k \in Custodians, NEW a \in case.readers, NEW f \in ToSet(files),
               Release(k, a, f) \/ DieReleasing(k, a, f) \/ FailWrite(k, a, f) \/ Leak(k, a, f)
        PROVE  UNCHANGED ledgerVars
    BY <2>2 DEF Release, DieReleasing, FailWrite, Leak
  <2>3. ASSUME NEW k \in Custodians, Die(k) \/ Start(k)
        PROVE  UNCHANGED ledgerVars
    BY <2>3 DEF Die, Start
  <2>4. ASSUME NEW part \in SUBSET Custodians, NEW plan \in Plans, Reshare(part, plan)
        PROVE  UNCHANGED ledgerVars
    BY <2>4 DEF Reshare
  <2> QED
    BY <1>3, <2>1, <2>2, <2>3, <2>4 DEF VaultNext
<1> QED
  BY <1>1, <1>2, <1>3 DEF Next

LEMMA LedgerInvariant == Spec => []LedgerInv
<1>1. Init => LedgerInv
  BY LedgerStarts DEF Init
<1>2. LedgerInv /\ [Next]_vars => LedgerInv'
  BY LedgerStep, VaultReadsLedger DEF Kept
<1> QED
  BY <1>1, <1>2, PTL DEF Spec

\* State._maybe_activate: whatever is in force, all its parties have signed; what is not
\* in force any more, they replaced.
THEOREM ContractsInForce == Spec => []InForce
<1>1. LedgerInv => InForce
  BY StandingInForce DEF LedgerInv
<1> QED
  BY <1>1, LedgerInvariant, PTL

\* State._arbitrate: through any number of disputes about the same duties an award only
\* lessens, postpones or waives what is owed, and only where a party asked.
THEOREM AwardsOnlyRelieve == Spec => ReliefStands
<1>1. ASSUME LedgerInv, [Next]_vars
      PROVE  [Relieved]_ledgerVars
  BY <1>1, LedgerStep, VaultReadsLedger
<1>2. [Relieved]_ledgerVars =>
        [\A c \in Ids : \A d \in Duties(c) :
           LET old == contracts[c].terms[d]
               new == contracts'[c].terms[d] IN
           old # new =>
             /\ new.amount <= old.amount /\ new.due >= old.due /\ (old.waived => new.waived)
             /\ \E p \in Claims : /\ Open(p) /\ disputes[p].contract = c /\ d \in disputes[p].duties
                                  /\ disputes[p].claimant \in Parties(c) /\ disputes'[p].status = "CLOSED"]_ledgerVars
  BY DEF Relieved
<1> QED
  BY <1>1, <1>2, LedgerInvariant, PTL DEF Spec, ReliefStands

-----------------------------------------------------------------------------
(* Journals.                                                                 *)

LEMMA LeastNat ==
  ASSUME NEW T, T \subseteq Nat, T # {}
  PROVE  \E n \in T : \A m \in T : n <= m
<1> DEFINE R == OpToRel(<, Nat)
<1>1. IsWellFoundedOn(R, Nat)
  BY NatLessThanWellFounded
<1>2. \A m, n \in Nat : m < n => <<m, n>> \in R
  BY DEF OpToRel
<1> HIDE DEF R
<1>3. \E n \in T : \A m \in T : ~ (<<m, n>> \in R)
  BY <1>1, WFMin
<1>4. \A m, n \in Nat : ~ (<<m, n>> \in R) => n <= m
  BY <1>2
<1> QED
  BY <1>3, <1>4

LEMMA GreatestNat ==
  ASSUME NEW T, T \subseteq Nat, T # {}, NEW b \in Nat, \A m \in T : m <= b
  PROVE  \E n \in T : \A m \in T : n >= m
<1> DEFINE D == {b - m : m \in T}
<1>1. D \subseteq Nat /\ D # {}
  <2>1. \A m \in T : m \in Nat /\ m <= b
    OBVIOUS
  <2>2. \A m \in Nat : m <= b => b - m \in Nat
    OBVIOUS
  <2> QED
    BY <2>1, <2>2
<1> HIDE DEF D
<1>2. PICK d \in D : \A e \in D : d <= e
  BY <1>1, LeastNat
<1>3. PICK n \in T : d = b - n
  BY <1>2 DEF D
<1>4. \A m \in T : b - m \in D /\ d <= b - m
  BY <1>2 DEF D
<1>5. \A m \in T : m \in Nat
  OBVIOUS
<1> QED
  BY <1>3, <1>4, <1>5

Lines == [reader : Accounts \cup {NoOne}, receipt : Nat, prev : Int]
Custodian == [status : {"up", "down", "refusing"}, head : Nat, released : [Accounts -> Nat], disk : Seq(Lines),
              torn : BOOLEAN, failed : BOOLEAN]

\* What a journal counts for a reader is one of its receipts, and none is greater.
LEMMA CountedIs ==
  ASSUME NEW disk \in Seq(Lines), NEW a \in Accounts, NEW b \in Nat,
         \A i \in DOMAIN disk : disk[i].reader = a => disk[i].receipt <= b
  PROVE  /\ Counted(disk)[a] \in Nat /\ Counted(disk)[a] <= b
         /\ \A i \in DOMAIN disk : disk[i].reader = a => disk[i].receipt <= Counted(disk)[a]
<1> DEFINE T == {0} \cup {disk[i].receipt : i \in {j \in DOMAIN disk : disk[j].reader = a}}
<1>1. Counted(disk)[a] = Max(T)
  BY DEF Counted
<1>2. \A i \in DOMAIN disk : disk[i].receipt \in Nat
  <2>1. \A i \in DOMAIN disk : disk[i] \in Lines
    OBVIOUS
  <2> QED
    BY <2>1 DEF Lines
<1>3. T \subseteq Nat /\ T # {} /\ \A m \in T : m <= b
  BY <1>2
<1>4. \A i \in DOMAIN disk : disk[i].reader = a => disk[i].receipt \in T
  OBVIOUS
<1> HIDE DEF T
<1>5. \E x \in T : \A y \in T : x >= y
  BY <1>3, GreatestNat
<1>6. Max(T) \in T /\ \A y \in T : Max(T) >= y
  BY <1>5 DEF Max
<1> QED
  BY <1>1, <1>2, <1>3, <1>4, <1>6

\* A line more, and the counts are no less.
LEMMA CountedGrows ==
  ASSUME NEW disk \in Seq(Lines), NEW line \in Lines, NEW a \in Accounts, NEW b \in Nat,
         \A i \in DOMAIN disk : disk[i].reader = a => disk[i].receipt <= b,
         line.reader = a => line.receipt <= b
  PROVE  /\ Counted(disk)[a] <= Counted(Append(disk, line))[a] /\ Counted(disk)[a] \in Nat
         /\ Counted(Append(disk, line))[a] \in Nat
         /\ line.reader = a => line.receipt <= Counted(Append(disk, line))[a]
<1> DEFINE new == Append(disk, line)
<1>1. /\ new \in Seq(Lines) /\ Len(disk) \in Nat /\ DOMAIN new = 1 .. Len(disk) + 1
      /\ DOMAIN disk = 1 .. Len(disk) /\ new[Len(disk) + 1] = line
      /\ \A i \in DOMAIN disk : new[i] = disk[i] /\ i \in DOMAIN new
  OBVIOUS
<1> HIDE DEF new
<1>2. \A i \in DOMAIN new : new[i].reader = a => new[i].receipt <= b
  BY <1>1
<1>3. /\ Counted(new)[a] \in Nat /\ Counted(new)[a] <= b
      /\ \A i \in DOMAIN new : new[i].reader = a => new[i].receipt <= Counted(new)[a]
  BY <1>1, <1>2, CountedIs
<1>4. \A i \in DOMAIN disk : disk[i].reader = a => disk[i].receipt <= Counted(new)[a]
  BY <1>1, <1>3
<1>5. /\ Counted(disk)[a] \in Nat /\ Counted(disk)[a] <= Counted(new)[a]
  BY <1>3, <1>4, CountedIs
<1>6. line.reader = a => line.receipt <= Counted(new)[a]
  BY <1>1, <1>3
<1> QED
  BY <1>3, <1>5, <1>6 DEF new

\* A journal is sound after a line has been added if it was, and the line follows it.
LEMMA SoundAppend ==
  ASSUME NEW disk \in Seq(Lines), NEW line \in Lines
  PROVE  Sound(Append(disk, line)) <=> Sound(disk) /\ line.prev = Len(disk)
<1> DEFINE new == Append(disk, line)
<1>1. /\ Len(disk) \in Nat /\ DOMAIN new = 1 .. Len(disk) + 1
      /\ DOMAIN disk = 1 .. Len(disk) /\ new[Len(disk) + 1] = line
      /\ \A i \in DOMAIN disk : new[i] = disk[i] /\ i \in DOMAIN new
  OBVIOUS
<1> HIDE DEF new
<1>2. \A i \in DOMAIN new : i \in DOMAIN disk \/ i = Len(disk) + 1
  BY <1>1
<1>3. Len(disk) + 1 \in DOMAIN new /\ (Len(disk) + 1) - 1 = Len(disk)
  BY <1>1
<1> QED
  BY <1>1, <1>2, <1>3 DEF Sound, new

\* A custodian c that has really released to each reader what s says, views being the
\* receipts on the ledger.
Faithful(c, s, views) ==
  /\ c \in Custodian /\ s \in [Accounts -> Nat] /\ views \in [Accounts -> Nat]
  /\ \A i \in DOMAIN c.disk : c.disk[i].reader \in Accounts => c.disk[i].receipt <= views[c.disk[i].reader]
  /\ ~ c.failed => Sound(c.disk) /\ (c.status = "up" => c.head = Len(c.disk) /\ ~ c.torn)
  /\ \A a \in Accounts : /\ s[a] <= views[a]
                         /\ c.status = "up" => s[a] <= c.released[a]
                         /\ Sound(c.disk) => s[a] <= Counted(c.disk)[a]
  /\ c.status = "refusing" => c.failed
Receipts == [a \in Accounts |-> Views(a)]

\* More receipts do no harm.
LEMMA FaithfulKept ==
  ASSUME NEW c, NEW s, NEW views, Faithful(c, s, views), NEW more \in [Accounts -> Nat],
         \A a \in Accounts : views[a] <= more[a]
  PROVE  Faithful(c, s, more)
<1>1. c.disk \in Seq(Lines) /\ views \in [Accounts -> Nat] /\ s \in [Accounts -> Nat]
  BY DEF Faithful, Custodian
<1>2. \A i \in DOMAIN c.disk : c.disk[i] \in Lines
  BY <1>1
<1>3. ASSUME NEW i \in DOMAIN c.disk, c.disk[i].reader \in Accounts
      PROVE  c.disk[i].receipt <= more[c.disk[i].reader]
  <2>1. c.disk[i].receipt \in Nat
    BY <1>2 DEF Lines
  <2>2. c.disk[i].receipt <= views[c.disk[i].reader]
    BY <1>3 DEF Faithful
  <2> QED
    BY <1>1, <1>3, <2>1, <2>2
<1>4. \A a \in Accounts : s[a] <= more[a]
  BY <1>1 DEF Faithful
<1> QED
  BY <1>3, <1>4 DEF Faithful

\* What the record of a custodian is after a write.
LEMMA WrittenIs ==
  ASSUME NEW c \in Custodian, NEW line \in Lines, NoOne \notin Int
  PROVE  LET w == Written(c, line)
             added == IF c.torn THEN Damaged ELSE line IN
         /\ w \in Custodian /\ added \in Lines /\ w.disk = Append(c.disk, added) /\ w.torn = FALSE
         /\ w.status = c.status /\ w.head = c.head /\ w.released = c.released /\ w.failed = c.failed
<1> DEFINE added == IF c.torn THEN Damaged ELSE line
           w == Written(c, line)
           d == [c EXCEPT !.disk = Append(@, added)]
<1>1. added \in Lines
  BY DEF Damaged, Line, Lines
<1>2. w = [d EXCEPT !.torn = FALSE]
  BY DEF Written, Custodian
<1> HIDE DEF added, w
<1>3. /\ d \in Custodian /\ d.disk = Append(c.disk, added) /\ d.torn = c.torn
      /\ d.status = c.status /\ d.head = c.head /\ d.released = c.released /\ d.failed = c.failed
  <2>1. Append(c.disk, added) \in Seq(Lines)
    BY <1>1 DEF Custodian
  <2> QED
    BY <2>1 DEF Custodian
<1> HIDE DEF d
<1>4. /\ w \in Custodian /\ w.disk = d.disk /\ w.torn = FALSE
      /\ w.status = d.status /\ w.head = d.head /\ w.released = d.released /\ w.failed = d.failed
  BY <1>2, <1>3 DEF Custodian
<1> QED
  BY <1>1, <1>3, <1>4 DEF added, w

\* A line for the next receipt of a reader that has one more, whether its share leaves
\* (then the custodian counts it) or the custodian dies or fails on it.
LEMMA WriteFaithful ==
  ASSUME NEW c, NEW s, NEW views, Faithful(c, s, views), NEW a \in Accounts, c.status = "up",
         c.released[a] < views[a], NoOne \notin Accounts \cup Int
  PROVE  LET line == Line(a, c.released[a] + 1, c.head)
             w == Written(c, line) IN
         /\ w \in Custodian /\ w.status = c.status /\ w.head = c.head /\ w.released = c.released
         /\ w.failed = c.failed /\ ~ w.torn
         /\ \A i \in DOMAIN w.disk : w.disk[i].reader \in Accounts => w.disk[i].receipt <= views[w.disk[i].reader]
         /\ Sound(w.disk) => /\ Sound(c.disk) /\ ~ c.torn /\ c.head = Len(c.disk) /\ w.head + 1 = Len(w.disk)
                             /\ s[a] + 1 <= Counted(w.disk)[a]
                             /\ \A b \in Accounts : s[b] <= Counted(w.disk)[b]
         /\ ~ c.failed => Sound(w.disk)
<1> DEFINE line == Line(a, c.released[a] + 1, c.head)
           w == Written(c, line)
           added == IF c.torn THEN Damaged ELSE line
           disk == c.disk
<1>1. /\ c \in Custodian /\ s \in [Accounts -> Nat] /\ views \in [Accounts -> Nat]
      /\ disk \in Seq(Lines) /\ c.released \in [Accounts -> Nat] /\ c.head \in Nat /\ c.torn \in BOOLEAN
  BY DEF Faithful, Custodian
<1>2. line \in Lines /\ line.reader = a /\ line.receipt = c.released[a] + 1 /\ line.prev = c.head
  BY <1>1 DEF Line, Lines
<1>3. Damaged \in Lines /\ Damaged.reader = NoOne /\ Damaged.prev = -1
  BY DEF Damaged, Line, Lines
<1> HIDE DEF line
<1>4. /\ w \in Custodian /\ added \in Lines /\ w.disk = Append(disk, added) /\ w.torn = FALSE
      /\ w.status = c.status /\ w.head = c.head /\ w.released = c.released /\ w.failed = c.failed
  BY <1>1, <1>2, WrittenIs
<1>5. /\ c.torn => added = Damaged
      /\ ~ c.torn => added = line
  OBVIOUS
<1> HIDE DEF w, added
<1>6. added.reader \in Accounts => added.receipt <= views[added.reader]
  <2>1. CASE c.torn
    BY <1>3, <1>5, <2>1
  <2>2. CASE ~ c.torn
    BY <1>1, <1>2, <1>5, <2>2
  <2> QED
    BY <1>1, <2>1, <2>2
<1>7. Len(disk) \in Nat /\ Len(w.disk) = Len(disk) + 1
  BY <1>1, <1>4
<1>8. \A i \in DOMAIN w.disk : w.disk[i].reader \in Accounts => w.disk[i].receipt <= views[w.disk[i].reader]
  <2> TAKE i \in DOMAIN w.disk
  <2>1. \/ i \in DOMAIN disk /\ w.disk[i] = disk[i]
        \/ w.disk[i] = added
    BY <1>1, <1>4
  <2> QED
    BY <1>6, <2>1 DEF Faithful
<1>9. Sound(w.disk) <=> Sound(disk) /\ added.prev = Len(disk)
  BY <1>1, <1>4, SoundAppend
<1>10. \A b \in Accounts : /\ Counted(disk)[b] <= Counted(w.disk)[b] /\ Counted(disk)[b] \in Nat
                           /\ Counted(w.disk)[b] \in Nat
                           /\ added.reader = b => added.receipt <= Counted(w.disk)[b]
  <2> TAKE b \in Accounts
  <2>1. \A i \in DOMAIN disk : disk[i].reader = b => disk[i].receipt <= views[b]
    BY DEF Faithful
  <2>2. added.reader = b => added.receipt <= views[b]
    BY <1>6
  <2>3. views[b] \in Nat /\ disk \in Seq(Lines) /\ added \in Lines
    BY <1>1, <1>4
  <2> HIDE DEF disk
  <2>4. /\ Counted(disk)[b] <= Counted(Append(disk, added))[b] /\ Counted(disk)[b] \in Nat
        /\ Counted(Append(disk, added))[b] \in Nat
        /\ added.reader = b => added.receipt <= Counted(Append(disk, added))[b]
    BY <2>1, <2>2, <2>3, CountedGrows
  <2> QED
    BY <1>4, <2>4
<1>11. ASSUME Sound(w.disk)
       PROVE  /\ Sound(c.disk) /\ ~ c.torn /\ c.head = Len(c.disk) /\ w.head + 1 = Len(w.disk)
              /\ s[a] + 1 <= Counted(w.disk)[a]
              /\ \A b \in Accounts : s[b] <= Counted(w.disk)[b]
  <2>1. Sound(disk) /\ ~ c.torn /\ added = line
    BY <1>3, <1>5, <1>7, <1>9, <1>11
  <2>2. c.head = Len(disk)
    BY <1>2, <1>9, <1>11, <2>1
  <2>3. s[a] <= c.released[a] /\ \A b \in Accounts : s[b] <= Counted(disk)[b]
    BY <2>1 DEF Faithful
  <2>4. s[a] + 1 <= Counted(w.disk)[a]
    BY <1>1, <1>2, <1>10, <2>1, <2>3
  <2>5. ASSUME NEW b \in Accounts
        PROVE  s[b] <= Counted(w.disk)[b]
    <3>1. s[b] \in Nat /\ Counted(disk)[b] \in Nat /\ Counted(w.disk)[b] \in Nat
      BY <1>1, <1>10
    <3>2. s[b] <= Counted(disk)[b] /\ Counted(disk)[b] <= Counted(w.disk)[b]
      BY <1>10, <2>3
    <3> QED
      BY <3>1, <3>2
  <2> QED
    BY <1>4, <1>7, <2>1, <2>2, <2>4, <2>5
<1>12. ~ c.failed => Sound(w.disk)
  <2> HAVE ~ c.failed
  <2>1. Sound(disk) /\ c.head = Len(disk) /\ ~ c.torn
    BY DEF Faithful
  <2> QED
    BY <1>2, <1>5, <1>9, <2>1
<1> QED
  BY <1>4, <1>8, <1>11, <1>12 DEF w, line

-----------------------------------------------------------------------------
(* The custodians and the readers.                                           *)

JournalInv ==
  /\ cust = [k \in Custodians |-> cust[k]] /\ sent = [k \in Custodians |-> sent[k]]
  /\ \A k \in Custodians : Faithful(cust[k], sent[k], Receipts)

\* Where a share that a reader has comes from: a slot of a file, and a custodian that
\* released it unless it is a liar.
Traced(g) ==
  \E n \in DOMAIN files : \E k \in ToSet(files[n].custodians) :
    /\ g[2].epoch = files[n].epoch /\ g[2].x = Slot(files[n].custodians, k)
    /\ k \notin Liars => k \in Custodians /\ g[1] \in Accounts /\ sent[k][g[1]] > 0
Planned(f) == \E p \in Plans \cup {FirstPlan} : f.custodians = p[1] /\ f.threshold = p[2]
FilesInv ==
  /\ \E S : files \in Seq(S)
  /\ \A n \in DOMAIN files : files[n].epoch = n - 1 /\ Planned(files[n])
VaultInv == LedgerInv /\ JournalInv /\ FilesInv /\ \A g \in got : Traced(g)

LEMMA ReceiptsGrow ==
  ASSUME LedgerInv, Kept
  PROVE  /\ Receipts \in [Accounts -> Nat] /\ Receipts' \in [Accounts -> Nat]
         /\ \A a \in Accounts : Receipts[a] <= Receipts'[a]
<1>1. log \in Counts /\ log' \in Counts
  BY DEF LedgerInv, Kept
<1>2. \A a \in Accounts : <<Sealed, a, "VIEW">> \in DOMAIN log /\ <<Sealed, a, "VIEW">> \in DOMAIN log'
  BY <1>1, VaultAssumption DEF Counts
<1> QED
  BY <1>1, <1>2 DEF Receipts, Views, Kept, Counts

LEMMA ReceiptsSame ==
  ASSUME UNCHANGED ledgerVars
  PROVE  Receipts' = Receipts
BY DEF ledgerVars, Receipts, Views

LEMMA VaultStarts == Init => VaultInv
<1> SUFFICES ASSUME Init
             PROVE  VaultInv
  OBVIOUS
<1>1. LedgerInv
  BY LedgerStarts DEF Init
<1>2. /\ files = <<>> /\ got = {} /\ LedgerInit
      /\ cust = [k \in Custodians |-> [status |-> "up", head |-> 0, released |-> [a \in Accounts |-> 0],
                                       disk |-> <<>>, torn |-> FALSE, failed |-> FALSE]]
      /\ sent = [k \in Custodians |-> [a \in Accounts |-> 0]]
  BY DEF Init
<1>3. Receipts = [a \in Accounts |-> 0]
  BY <1>2, VaultAssumption DEF LedgerInit, Receipts, Views
<1>4. ASSUME NEW k \in Custodians
      PROVE  Faithful(cust[k], sent[k], Receipts)
  <2> DEFINE c == cust[k]
  <2>1. /\ c.status = "up" /\ c.head = 0 /\ c.released = [a \in Accounts |-> 0] /\ c.disk = <<>>
        /\ c.torn = FALSE /\ c.failed = FALSE /\ sent[k] = [a \in Accounts |-> 0]
        /\ c = [status |-> "up", head |-> 0, released |-> [a \in Accounts |-> 0],
                disk |-> <<>>, torn |-> FALSE, failed |-> FALSE]
    BY <1>2
  <2> HIDE DEF c
  <2>2. <<>> \in Seq(Lines) /\ DOMAIN <<>> = {} /\ Len(<<>>) = 0
    OBVIOUS
  <2>3. c \in Custodian
    BY <2>1, <2>2 DEF Custodian
  <2>4. ASSUME NEW a \in Accounts
        PROVE  0 <= Counted(c.disk)[a]
    <3>1. Counted(c.disk)[a] \in Nat
      BY <2>1, <2>2, CountedIs
    <3> QED
      BY <3>1
  <2>5. Sound(c.disk)
    BY <2>1, <2>2 DEF Sound
  <2>6. Faithful(c, sent[k], Receipts)
    BY <1>3, <2>1, <2>2, <2>3, <2>4, <2>5 DEF Faithful
  <2> QED
    BY <2>6 DEF c
<1>5. JournalInv
  BY <1>2, <1>4 DEF JournalInv
<1>6. FilesInv
  BY <1>2 DEF FilesInv
<1> QED
  BY <1>1, <1>2, <1>5, <1>6 DEF VaultInv

\* A step of custodian k only.
LEMMA CustodianStep ==
  ASSUME JournalInv, NEW k \in Custodians, NEW c, NEW s,
         cust' = [cust EXCEPT ![k] = c], sent' = [sent EXCEPT ![k] = s],
         Receipts' = Receipts, Faithful(c, s, Receipts)
  PROVE  JournalInv'
<1>1. /\ cust' = [j \in Custodians |-> cust'[j]] /\ sent' = [j \in Custodians |-> sent'[j]]
      /\ cust'[k] = c /\ sent'[k] = s
      /\ \A j \in Custodians \ {k} : cust'[j] = cust[j] /\ sent'[j] = sent[j]
  BY DEF JournalInv
<1>2. \A j \in Custodians : Faithful(cust'[j], sent'[j], Receipts)
  BY <1>1 DEF JournalInv
<1>3. \A j \in Custodians : Faithful(cust'[j], sent'[j], Receipts')
  BY <1>2
<1> QED
  BY <1>1, <1>3 DEF JournalInv

\* The write alone: the custodian died on it, or failed.
LEMMA WriteKeeps ==
  ASSUME NEW c, NEW s, NEW views, Faithful(c, s, views), NEW a \in Accounts, c.status = "up",
         c.released[a] < views[a], NEW w, w \in {Torn(c), Written(c, Line(a, c.released[a] + 1, c.head))}
  PROVE  /\ w \in Custodian /\ w.released = c.released /\ w.status = "up" /\ w.failed = c.failed
         /\ \A i \in DOMAIN w.disk : w.disk[i].reader \in Accounts => w.disk[i].receipt <= views[w.disk[i].reader]
         /\ Sound(w.disk) => \A b \in Accounts : s[b] <= Counted(w.disk)[b]
         /\ ~ c.failed => Sound(w.disk)
<1>1. c \in Custodian /\ s \in [Accounts -> Nat] /\ views \in [Accounts -> Nat]
  BY DEF Faithful
<1>2. CASE w = Torn(c)
  <2>1. /\ w \in Custodian /\ w.disk = c.disk /\ w.released = c.released
        /\ w.status = c.status /\ w.failed = c.failed
    BY <1>1, <1>2 DEF Torn, Custodian
  <2> QED
    BY <2>1 DEF Faithful
<1>3. CASE w = Written(c, Line(a, c.released[a] + 1, c.head))
  <2>1. NoOne \notin Accounts \cup Int
    BY ContractsAssumption
  <2> QED
    BY <1>3, <2>1, WriteFaithful
<1> QED
  BY <1>2, <1>3

LEMMA UpIs ==
  ASSUME JournalInv, NEW k \in Custodians, NEW a \in case.readers, NEW f, LedgerInv, MayRelease(k, a, f)
  PROVE  /\ a \in Accounts /\ Faithful(cust[k], sent[k], Receipts) /\ cust[k].status = "up"
         /\ cust[k].released[a] < Receipts[a] /\ Holds(k, f)
         /\ Entry(k, a) = Line(a, cust[k].released[a] + 1, cust[k].head)
<1>1. a \in Accounts
  BY ContractsAssumption DEF LedgerInv
<1> QED
  BY <1>1 DEF JournalInv, MayRelease, Receipts, Entry

LEMMA ReleaseKeeps ==
  ASSUME JournalInv, LedgerInv, NEW k \in Custodians, NEW a \in case.readers, NEW f, Release(k, a, f)
  PROVE  JournalInv' /\ sent' = [sent EXCEPT ![k][a] = @ + 1] /\ sent[k] \in [Accounts -> Nat] /\ a \in Accounts
<1> DEFINE c == cust[k]
           s == sent[k]
           w == Written(c, Line(a, c.released[a] + 1, c.head))
           n == [w EXCEPT !.head = c.head + 1, !.released[a] = c.released[a] + 1]
           t == [s EXCEPT ![a] = @ + 1]
<1>1. /\ MayRelease(k, a, f) /\ cust' = [cust EXCEPT ![k] = Released(@, a, Entry(k, a))]
      /\ sent' = [sent EXCEPT ![k][a] = @ + 1] /\ UNCHANGED ledgerVars
  BY DEF Release
<1>2. /\ a \in Accounts /\ Faithful(c, s, Receipts) /\ c.status = "up" /\ c.released[a] < Receipts[a]
      /\ Entry(k, a) = Line(a, c.released[a] + 1, c.head)
  BY <1>1, UpIs
<1>3. /\ cust = [j \in Custodians |-> cust[j]] /\ sent = [j \in Custodians |-> sent[j]]
  BY DEF JournalInv
<1>4. cust' = [cust EXCEPT ![k] = n] /\ sent' = [sent EXCEPT ![k] = t]
  <2>1. Released(cust[k], a, Entry(k, a)) = n
    BY <1>2 DEF Released
  <2>2. cust' = [cust EXCEPT ![k] = Released(cust[k], a, Entry(k, a))]
    BY <1>1
  <2>3. cust' = [cust EXCEPT ![k] = n]
    <3> HIDE DEF n
    <3> QED
      BY <2>1, <2>2
  <2>4. sent' = [sent EXCEPT ![k] = t]
    BY <1>1, <1>3
  <2> QED
    BY <2>3, <2>4
<1>5. Receipts' = Receipts
  BY <1>1, ReceiptsSame
<1>6. NoOne \notin Accounts \cup Int
  BY ContractsAssumption
<1> HIDE DEF c, s
<1>7. /\ w \in Custodian /\ w.status = c.status /\ w.head = c.head /\ w.released = c.released
      /\ w.failed = c.failed /\ ~ w.torn
      /\ \A i \in DOMAIN w.disk : w.disk[i].reader \in Accounts => w.disk[i].receipt <= Receipts[w.disk[i].reader]
      /\ Sound(w.disk) => /\ Sound(c.disk) /\ ~ c.torn /\ c.head = Len(c.disk) /\ w.head + 1 = Len(w.disk)
                          /\ s[a] + 1 <= Counted(w.disk)[a]
                          /\ \A b \in Accounts : s[b] <= Counted(w.disk)[b]
      /\ ~ c.failed => Sound(w.disk)
  BY <1>2, <1>6, WriteFaithful
<1>8. c \in Custodian /\ s \in [Accounts -> Nat] /\ Receipts \in [Accounts -> Nat]
  BY <1>2 DEF Faithful
<1> HIDE DEF w
<1>9. /\ n.head = c.head + 1 /\ n.released = [w.released EXCEPT ![a] = c.released[a] + 1] /\ n.disk = w.disk
      /\ n.status = w.status /\ n.failed = w.failed /\ n.torn = w.torn
  BY <1>7 DEF Custodian
<1>10. n \in Custodian
  <2>1. n.released \in [Accounts -> Nat] /\ n.head \in Nat
    <3>1. /\ w.released \in [Accounts -> Nat] /\ w.head \in Nat /\ w.head = c.head
          /\ w.released[a] = c.released[a] /\ c.released[a] \in Nat
      BY <1>2, <1>7, <1>8 DEF Custodian
    <3> HIDE DEF n
    <3>2. n.head \in Nat
      BY <1>9, <3>1
    <3>3. n.released \in [Accounts -> Nat]
      BY <1>2, <1>9, <3>1
    <3> QED
      BY <3>2, <3>3
  <2> QED
    BY <1>7, <1>9, <2>1 DEF Custodian
<1>11. t \in [Accounts -> Nat] /\ t[a] = s[a] + 1 /\ \A b \in Accounts \ {a} : t[b] = s[b]
  BY <1>2, <1>8
<1>12. n.released[a] = c.released[a] + 1 /\ \A b \in Accounts \ {a} : n.released[b] = c.released[b]
  BY <1>2, <1>7, <1>8, <1>9 DEF Custodian
<1>13. c.released[a] \in Nat /\ s[a] \in Nat /\ Receipts[a] \in Nat /\ s[a] <= c.released[a]
  BY <1>2, <1>8 DEF Faithful, Custodian
<1> HIDE DEF n, t
<1>14. ASSUME NEW b \in Accounts
       PROVE  t[b] <= Receipts[b] /\ t[b] <= n.released[b] /\ (Sound(n.disk) => t[b] <= Counted(n.disk)[b])
  <2>1. CASE b = a
    BY <1>2, <1>7, <1>9, <1>11, <1>12, <1>13, <2>1
  <2>2. CASE b # a
    <3>1. s[b] <= Receipts[b] /\ s[b] <= c.released[b]
      BY <1>2 DEF Faithful
    <3> QED
      BY <1>7, <1>9, <1>11, <1>12, <2>2, <3>1
  <2> QED
    BY <2>1, <2>2
<1>15. Faithful(n, t, Receipts)
  BY <1>2, <1>7, <1>8, <1>9, <1>10, <1>11, <1>14 DEF Faithful
<1>16. JournalInv'
  BY <1>4, <1>5, <1>15, CustodianStep
<1> QED
  BY <1>1, <1>2, <1>8, <1>16 DEF s

\* The custodian died on the write, or the write failed.
LEMMA BadWriteKeeps ==
  ASSUME JournalInv, LedgerInv, NEW k \in Custodians, NEW a \in case.readers, NEW f,
         DieReleasing(k, a, f) \/ FailWrite(k, a, f)
  PROVE  JournalInv'
<1> DEFINE c == cust[k]
           s == sent[k]
<1>1. MayRelease(k, a, f) /\ sent' = sent /\ UNCHANGED ledgerVars
  BY DEF DieReleasing, FailWrite
<1>2. /\ a \in Accounts /\ Faithful(c, s, Receipts) /\ c.status = "up" /\ c.released[a] < Receipts[a]
      /\ Entry(k, a) = Line(a, c.released[a] + 1, c.head)
  BY <1>1, UpIs
<1>3. PICK w \in {Torn(c), Written(c, Line(a, c.released[a] + 1, c.head))} :
        \/ cust' = [cust EXCEPT ![k] = [w EXCEPT !.status = "down"]]
        \/ cust' = [cust EXCEPT ![k] = [w EXCEPT !.failed = TRUE]]
  BY <1>2 DEF DieReleasing, FailWrite
<1>4. Receipts' = Receipts
  BY <1>1, ReceiptsSame
<1>5. sent' = [sent EXCEPT ![k] = s]
  BY <1>1 DEF JournalInv
<1> HIDE DEF c, s
<1>6. /\ w \in Custodian /\ w.released = c.released /\ w.status = "up" /\ w.failed = c.failed
      /\ \A i \in DOMAIN w.disk : w.disk[i].reader \in Accounts => w.disk[i].receipt <= Receipts[w.disk[i].reader]
      /\ Sound(w.disk) => \A b \in Accounts : s[b] <= Counted(w.disk)[b]
      /\ ~ c.failed => Sound(w.disk)
  BY <1>2, WriteKeeps
<1>7. CASE cust' = [cust EXCEPT ![k] = [w EXCEPT !.status = "down"]]
  <2> DEFINE n == [w EXCEPT !.status = "down"]
  <2>1. /\ n \in Custodian /\ n.status = "down" /\ n.released = w.released /\ n.disk = w.disk
        /\ n.failed = w.failed
    BY <1>6 DEF Custodian
  <2>3. cust' = [cust EXCEPT ![k] = n]
    BY <1>7
  <2> HIDE DEF n
  <2>2. Faithful(n, s, Receipts)
    BY <1>2, <1>6, <2>1 DEF Faithful
  <2> QED
    BY <1>4, <1>5, <2>2, <2>3, CustodianStep
<1>8. CASE cust' = [cust EXCEPT ![k] = [w EXCEPT !.failed = TRUE]]
  <2> DEFINE n == [w EXCEPT !.failed = TRUE]
  <2>1. /\ n \in Custodian /\ n.status = w.status /\ n.released = w.released /\ n.disk = w.disk
        /\ n.failed = TRUE
    BY <1>6 DEF Custodian
  <2>3. cust' = [cust EXCEPT ![k] = n]
    BY <1>8
  <2> HIDE DEF n
  <2>2. Faithful(n, s, Receipts)
    BY <1>2, <1>6, <2>1 DEF Faithful
  <2> QED
    BY <1>4, <1>5, <2>2, <2>3, CustodianStep
<1> QED
  BY <1>3, <1>7, <1>8

LEMMA DieKeeps ==
  ASSUME JournalInv, NEW k \in Custodians, Die(k)
  PROVE  JournalInv'
<1> DEFINE c == cust[k]
           s == sent[k]
           n == [c EXCEPT !.status = "down"]
<1>1. /\ cust' = [cust EXCEPT ![k].status = "down"] /\ sent' = sent /\ UNCHANGED ledgerVars
  BY DEF Die
<1>2. cust' = [cust EXCEPT ![k] = n] /\ sent' = [sent EXCEPT ![k] = s] /\ Faithful(c, s, Receipts)
  BY <1>1 DEF JournalInv
<1>3. Receipts' = Receipts
  BY <1>1, ReceiptsSame
<1> HIDE DEF c, s
<1>4. /\ n \in Custodian /\ n.status = "down" /\ n.released = c.released /\ n.disk = c.disk
      /\ n.failed = c.failed
  BY <1>2 DEF Faithful, Custodian
<1> HIDE DEF n
<1>5. Faithful(n, s, Receipts)
  BY <1>2, <1>4 DEF Faithful
<1> QED
  BY <1>2, <1>3, <1>5, CustodianStep

LEMMA StartKeeps ==
  ASSUME JournalInv, NEW k \in Custodians, Start(k)
  PROVE  JournalInv'
<1> DEFINE c == cust[k]
           s == sent[k]
           n == Started(c)
<1>1. /\ cust' = [cust EXCEPT ![k] = Started(@)] /\ sent' = sent /\ UNCHANGED ledgerVars
  BY DEF Start
<1>2. cust' = [cust EXCEPT ![k] = n] /\ sent' = [sent EXCEPT ![k] = s] /\ Faithful(c, s, Receipts)
  BY <1>1 DEF JournalInv
<1>3. Receipts' = Receipts
  BY <1>1, ReceiptsSame
<1> HIDE DEF c, s
<1>4. c \in Custodian /\ c.disk \in Seq(Lines) /\ s \in [Accounts -> Nat] /\ Receipts \in [Accounts -> Nat]
  BY <1>2 DEF Faithful, Custodian
<1>5. CASE ~ Sound(c.disk)
  <2>1. n = [c EXCEPT !.status = "refusing"]
    BY <1>5 DEF Started
  <2> HIDE DEF n
  <2>2. /\ n \in Custodian /\ n.status = "refusing" /\ n.disk = c.disk /\ n.failed = c.failed
    BY <1>4, <2>1 DEF Custodian
  <2> QED
    BY <1>2, <1>3, <1>5, <2>2, CustodianStep DEF Faithful
<1>6. CASE Sound(c.disk)
  <2>1. n = [c EXCEPT !.status = "up", !.torn = FALSE, !.head = Len(c.disk), !.released = Counted(c.disk)]
    BY <1>4, <1>6 DEF Started, Custodian
  <2>2. Counted(c.disk) \in [Accounts -> Nat]
    <3>1. ASSUME NEW a \in Accounts
          PROVE  Counted(c.disk)[a] \in Nat
      <4>1. \A i \in DOMAIN c.disk : c.disk[i].reader = a => c.disk[i].receipt <= Receipts[a]
        BY <1>2 DEF Faithful
      <4>2. Receipts[a] \in Nat
        BY <1>4
      <4> QED
        BY <1>4, <4>1, <4>2, CountedIs
    <3> QED
      BY <3>1 DEF Counted
  <2> HIDE DEF n
  <2>3. /\ n.status = "up" /\ n.disk = c.disk /\ n.failed = c.failed /\ n.torn = FALSE
        /\ n.head = Len(c.disk) /\ n.released = Counted(c.disk)
    BY <1>4, <2>1 DEF Custodian
  <2>4. n \in Custodian
    <3>1. Len(c.disk) \in Nat
      BY <1>4
    <3> QED
      BY <1>4, <2>1, <2>2, <3>1 DEF Custodian
  <2>5. Faithful(n, s, Receipts)
    BY <1>2, <1>6, <2>3, <2>4 DEF Faithful
  <2> QED
    BY <1>2, <1>3, <2>5, CustodianStep
<1> QED
  BY <1>5, <1>6

LEMMA AppendKeeps ==
  ASSUME NEW S, NEW q \in Seq(S), NEW f, NEW n \in DOMAIN q
  PROVE  n \in DOMAIN Append(q, f) /\ Append(q, f)[n] = q[n]
<1>1. q \in Seq(S \cup {f}) /\ f \in S \cup {f} /\ n \in 1 .. Len(q) /\ Len(q) \in Nat
  OBVIOUS
<1>2. DOMAIN Append(q, f) = 1 .. Len(q) + 1
  BY <1>1
<1> QED
  BY <1>1, <1>2

\* A new file, and what has been released stays traced.
LEMMA TracedKept ==
  ASSUME FilesInv, NEW g, Traced(g),
         files' = files \/ \E f : files' = Append(files, f),
         JournalInv, JournalInv', \A k \in Custodians, a \in Accounts : sent'[k][a] >= sent[k][a]
  PROVE  Traced(g)'
<1>1. PICK n \in DOMAIN files : \E k \in ToSet(files[n].custodians) :
        /\ g[2].epoch = files[n].epoch /\ g[2].x = Slot(files[n].custodians, k)
        /\ k \notin Liars => k \in Custodians /\ g[1] \in Accounts /\ sent[k][g[1]] > 0
  BY DEF Traced
<1>2. PICK k \in ToSet(files[n].custodians) :
        /\ g[2].epoch = files[n].epoch /\ g[2].x = Slot(files[n].custodians, k)
        /\ k \notin Liars => k \in Custodians /\ g[1] \in Accounts /\ sent[k][g[1]] > 0
  BY <1>1
<1>3. n \in DOMAIN files' /\ files'[n] = files[n]
  <2>1. PICK S : files \in Seq(S)
    BY DEF FilesInv
  <2>2. ASSUME NEW f, files' = Append(files, f)
        PROVE  n \in DOMAIN files' /\ files'[n] = files[n]
    BY <1>1, <2>1, <2>2, AppendKeeps
  <2> QED
    BY <1>1, <2>2
<1>4. k \notin Liars => k \in Custodians /\ g[1] \in Accounts /\ sent'[k][g[1]] > 0
  <2> HAVE k \notin Liars
  <2>1. k \in Custodians /\ g[1] \in Accounts /\ sent[k][g[1]] > 0 /\ sent'[k][g[1]] >= sent[k][g[1]]
    BY <1>2
  <2>2. sent[k] \in [Accounts -> Nat] /\ sent'[k] \in [Accounts -> Nat]
    BY <2>1 DEF JournalInv, Faithful
  <2> QED
    BY <2>1, <2>2
<1> QED
  BY <1>2, <1>3, <1>4 DEF Traced

LEMMA SentKept ==
  ASSUME JournalInv, sent' = sent
  PROVE  \A k \in Custodians, a \in Accounts : sent'[k][a] >= sent[k][a]
BY DEF JournalInv, Faithful

LEMMA CurrentIs ==
  ASSUME FilesInv, files # <<>>
  PROVE  Len(files) \in DOMAIN files /\ Current.epoch = Len(files) - 1 /\ Len(files) \in Nat
BY DEF FilesInv, Current

LEMMA FilesAppend ==
  ASSUME FilesInv, NEW f, files' = Append(files, f), f.epoch = Len(files),
         Planned(f)
  PROVE  FilesInv'
<1>1. PICK S : files \in Seq(S)
  BY DEF FilesInv
<1>2. files \in Seq(S \cup {f}) /\ files' \in Seq(S \cup {f})
  BY <1>1
<1>3. /\ Len(files) \in Nat /\ DOMAIN files' = 1 .. Len(files) + 1 /\ DOMAIN files = 1 .. Len(files)
      /\ files'[Len(files) + 1] = f /\ \A n \in DOMAIN files : files'[n] = files[n]
  BY <1>1
<1>4. ASSUME NEW n \in DOMAIN files'
      PROVE  /\ files'[n].epoch = n - 1
             /\ Planned(files'[n])
  <2>1. n \in DOMAIN files \/ n = Len(files) + 1
    BY <1>3
  <2> QED
    BY <1>3, <2>1 DEF FilesInv
<1> QED
  BY <1>2, <1>4 DEF FilesInv

LEMMA SealKeeps ==
  ASSUME FilesInv, Seal
  PROVE  FilesInv' /\ \E f : files' = Append(files, f)
<1> DEFINE Sealed1(p) == Sealing(0, FirstPlan[1], FirstPlan[2], p,
                                 [k \in ToSet(FirstPlan[1]) |-> Eval(p, Slot(FirstPlan[1], k))])
<1>1. files = <<>> /\ \E p \in Drawn(Secret, FirstPlan[2]) : files' = <<Sealed1(p)>>
  BY DEF Seal
<1>2. PICK p \in Drawn(Secret, FirstPlan[2]) : files' = <<Sealed1(p)>>
  BY <1>1
<1> DEFINE f == Sealed1(p)
<1>3. /\ f.epoch = 0 /\ f.custodians = FirstPlan[1] /\ f.threshold = FirstPlan[2]
  BY DEF Sealing
<1>4. Planned(f)
  BY <1>3 DEF Planned
<1> HIDE DEF f
<1>5. files' = Append(files, f) /\ Len(files) = 0
  BY <1>1, <1>2 DEF f
<1> QED
  BY <1>3, <1>4, <1>5, FilesAppend

\* The files after a re-sharing, finished or not.
LEMMA ReshareKeeps ==
  ASSUME FilesInv, NEW part, NEW plan \in Plans, Reshare(part, plan)
  PROVE  FilesInv' /\ (files' = files \/ \E f : files' = Append(files, f))
<1>1. /\ files # <<>>
      /\ files' = files \/ \E p, s : files' = Append(files, Sealing(Current.epoch + 1, plan[1], plan[2], p, s))
  BY DEF Reshare
<1>2. CASE files' = files
  BY <1>2 DEF FilesInv
<1>3. CASE \E p, s : files' = Append(files, Sealing(Current.epoch + 1, plan[1], plan[2], p, s))
  <2>1. PICK p, s : files' = Append(files, Sealing(Current.epoch + 1, plan[1], plan[2], p, s))
    BY <1>3
  <2> DEFINE f == Sealing(Current.epoch + 1, plan[1], plan[2], p, s)
  <2>2. /\ f.epoch = Len(files) /\ f.custodians = plan[1] /\ f.threshold = plan[2]
    <3>1. Current.epoch + 1 = Len(files)
      BY <1>1, CurrentIs
    <3> QED
      BY <3>1 DEF Sealing
  <2>3. Planned(f)
    BY <2>2 DEF Planned
  <2> HIDE DEF f
  <2>4. files' = Append(files, f)
    BY <2>1 DEF f
  <2> QED
    BY <2>2, <2>3, <2>4, FilesAppend
<1> QED
  BY <1>1, <1>2, <1>3

\* A share that leaves a custodian of a file, which has now given one to the reader, or
\* which is a liar, is traced.
LEMMA ShareTraced ==
  ASSUME FilesInv, UNCHANGED files, NEW k \in Custodians, NEW a \in Accounts, NEW f \in ToSet(files),
         Holds(k, f), k \notin Liars => sent'[k][a] > 0,
         NEW g, g[1] = a, g[2].epoch = Share(k, f).epoch, g[2].x = Share(k, f).x
  PROVE  Traced(g)'
<1>1. PICK n \in DOMAIN files : f = files[n]
  BY DEF ToSet
<1>2. Share(k, f).epoch = files[n].epoch /\ Share(k, f).x = Slot(files[n].custodians, k)
  BY <1>1 DEF Share
<1>3. k \in ToSet(files[n].custodians)
  BY <1>1 DEF Holds
<1> QED
  BY <1>1, <1>2, <1>3 DEF Traced

\* One step of the vault alone.
LEMMA VaultStep ==
  ASSUME VaultInv, VaultNext
  PROVE  VaultInv'
<1>1. /\ LedgerInv /\ JournalInv /\ FilesInv /\ \A g \in got : Traced(g)
  BY DEF VaultInv
<1>2. UNCHANGED ledgerVars
  BY DEF VaultNext, Seal, Release, DieReleasing, FailWrite, Leak, Die, Start, Reshare
<1>3. LedgerInv'
  BY <1>1, <1>2 DEF LedgerInv, ledgerVars
<1>4. ASSUME FilesInv', JournalInv', \A k \in Custodians, a \in Accounts : sent'[k][a] >= sent[k][a],
             files' = files \/ \E f : files' = Append(files, f),
             \A g \in got' \ got : Traced(g)'
      PROVE  VaultInv'
  <2>1. \A g \in got : Traced(g)'
    BY <1>1, <1>4, TracedKept
  <2> QED
    BY <1>3, <1>4, <2>1 DEF VaultInv
<1>5. ASSUME UNCHANGED <<cust, sent>>
      PROVE  JournalInv' /\ \A k \in Custodians, a \in Accounts : sent'[k][a] >= sent[k][a]
  <2>1. Receipts' = Receipts
    BY <1>2, ReceiptsSame
  <2>2. \A k \in Custodians : Faithful(cust'[k], sent'[k], Receipts')
    BY <1>1, <1>5, <2>1 DEF JournalInv
  <2>3. JournalInv'
    BY <1>1, <1>5, <2>2 DEF JournalInv
  <2> QED
    BY <1>1, <1>5, <2>3, SentKept
<1>6. ASSUME UNCHANGED files
      PROVE  FilesInv'
  BY <1>1, <1>6 DEF FilesInv
<1>7. CASE Seal
  <2>1. UNCHANGED <<cust, sent, got>>
    BY <1>7 DEF Seal
  <2>2. FilesInv' /\ \E f : files' = Append(files, f)
    BY <1>1, <1>7, SealKeeps
  <2> QED
    BY <1>4, <1>5, <2>1, <2>2
<1>8. ASSUME NEW k \in Custodians, NEW a \in case.readers, NEW f \in ToSet(files), Release(k, a, f)
      PROVE  VaultInv'
  <2>1. /\ JournalInv' /\ sent' = [sent EXCEPT ![k][a] = @ + 1] /\ sent[k] \in [Accounts -> Nat] /\ a \in Accounts
    BY <1>1, <1>8, ReleaseKeeps
  <2>2. files' = files /\ got' = got \cup {<<a, Share(k, f)>>} /\ Holds(k, f)
    BY <1>8 DEF Release, MayRelease
  <2>3. sent'[k][a] > 0 /\ \A j \in Custodians, b \in Accounts : sent'[j][b] >= sent[j][b]
    <3>1. sent = [j \in Custodians |-> sent[j]] /\ \A j \in Custodians : sent[j] \in [Accounts -> Nat]
      BY <1>1 DEF JournalInv, Faithful
    <3>2. sent'[k] = [sent[k] EXCEPT ![a] = @ + 1] /\ \A j \in Custodians \ {k} : sent'[j] = sent[j]
      BY <2>1, <3>1
    <3>3. sent'[k][a] = sent[k][a] + 1 /\ \A b \in Accounts \ {a} : sent'[k][b] = sent[k][b]
      BY <2>1, <3>2
    <3>4. sent[k][a] \in Nat
      BY <2>1
    <3>5. ASSUME NEW j \in Custodians, NEW b \in Accounts
          PROVE  sent'[j][b] >= sent[j][b]
      <4>1. sent[j][b] \in Nat
        BY <3>1
      <4>2. CASE j = k /\ b = a
        BY <3>3, <3>4, <4>2
      <4>3. CASE j = k /\ b # a
        BY <3>3, <4>1, <4>3
      <4>4. CASE j # k
        BY <3>2, <4>1, <4>4
      <4> QED
        BY <4>2, <4>3, <4>4
    <3> QED
      BY <3>3, <3>4, <3>5
  <2>4. Traced(<<a, Share(k, f)>>)'
    BY <1>1, <2>1, <2>2, <2>3, ShareTraced
  <2>5. FilesInv'
    BY <1>6, <2>2
  <2>6. \A g \in got' \ got : Traced(g)'
    BY <2>2, <2>4
  <2> QED
    BY <1>4, <2>1, <2>2, <2>3, <2>5, <2>6
<1>9. ASSUME NEW k \in Custodians, NEW a \in case.readers, NEW f \in ToSet(files),
             DieReleasing(k, a, f) \/ FailWrite(k, a, f)
      PROVE  VaultInv'
  <2>1. JournalInv'
    BY <1>1, <1>9, BadWriteKeeps
  <2>2. UNCHANGED <<files, sent, got>>
    BY <1>9 DEF DieReleasing, FailWrite
  <2> QED
    BY <1>1, <1>4, <1>6, <2>1, <2>2, SentKept
<1>10. ASSUME NEW k \in Custodians, NEW a \in case.readers, NEW f \in ToSet(files), Leak(k, a, f)
       PROVE  VaultInv'
  <2>1. /\ UNCHANGED <<files, cust, sent>> /\ k \in Liars /\ Holds(k, f)
        /\ \E y : got' = got \cup {<<a, [Share(k, f) EXCEPT !.y = y]>>}
    BY <1>10 DEF Leak
  <2>2. PICK y : got' = got \cup {<<a, [Share(k, f) EXCEPT !.y = y]>>}
    BY <2>1
  <2>3. [Share(k, f) EXCEPT !.y = y].epoch = Share(k, f).epoch /\ [Share(k, f) EXCEPT !.y = y].x = Share(k, f).x
    BY DEF Share
  <2>4. a \in Accounts
    <3>1. case \in Cases
      BY <1>1 DEF LedgerInv
    <3> QED
      BY <3>1, ContractsAssumption
  <2>5. Traced(<<a, [Share(k, f) EXCEPT !.y = y]>>)'
    BY <1>1, <2>1, <2>3, <2>4, ShareTraced
  <2>6. \A g \in got' \ got : Traced(g)'
    BY <2>2, <2>5
  <2> QED
    BY <1>4, <1>5, <1>6, <2>1, <2>6
<1>11. ASSUME NEW k \in Custodians, Die(k) \/ Start(k)
       PROVE  VaultInv'
  <2>1. JournalInv'
    BY <1>1, <1>11, DieKeeps, StartKeeps
  <2>2. UNCHANGED <<files, sent, got>>
    BY <1>11 DEF Die, Start
  <2> QED
    BY <1>1, <1>4, <1>6, <2>1, <2>2, SentKept
<1>12. ASSUME NEW part, NEW plan \in Plans, Reshare(part, plan)
       PROVE  VaultInv'
  <2>1. UNCHANGED <<cust, sent, got>>
    BY <1>12 DEF Reshare
  <2>2. FilesInv' /\ (files' = files \/ \E f : files' = Append(files, f))
    BY <1>1, <1>12, ReshareKeeps
  <2> QED
    BY <1>4, <1>5, <2>1, <2>2
<1> QED
  BY <1>7, <1>8, <1>9, <1>10, <1>11, <1>12 DEF VaultNext

LEMMA VaultInvariant == Spec => []VaultInv
<1>1. ASSUME VaultInv, [Next]_vars
      PROVE  VaultInv'
  <2>1. CASE VaultNext
    BY <1>1, <2>1, VaultStep
  <2>2. CASE [LedgerNext]_ledgerVars /\ UNCHANGED vaultVars
    <3>1. LedgerInv /\ JournalInv /\ FilesInv /\ UNCHANGED <<files, cust, sent, got>>
      BY <1>1, <2>2 DEF VaultInv, vaultVars
    <3>2. LedgerInv' /\ Kept
      BY <2>2, <3>1, LedgerStep DEF Kept
    <3>3. /\ Receipts \in [Accounts -> Nat] /\ Receipts' \in [Accounts -> Nat]
          /\ \A a \in Accounts : Receipts[a] <= Receipts'[a]
      BY <3>1, <3>2, ReceiptsGrow
    <3>4. ASSUME NEW k \in Custodians
          PROVE  Faithful(cust'[k], sent'[k], Receipts')
      <4>1. Faithful(cust[k], sent[k], Receipts)
        BY <3>1 DEF JournalInv
      <4>2. Faithful(cust[k], sent[k], Receipts')
        BY <3>3, <4>1, FaithfulKept
      <4> QED
        BY <3>1, <4>2
    <3>5. JournalInv'
      BY <3>1, <3>4 DEF JournalInv
    <3>6. FilesInv'
      BY <3>1 DEF FilesInv
    <3>7. \A g \in got' : Traced(g)'
      BY <1>1, <3>1 DEF VaultInv, Traced
    <3> QED
      BY <3>2, <3>5, <3>6, <3>7 DEF VaultInv
  <2> QED
    BY <1>1, <2>1, <2>2 DEF Next, vars, vaultVars
<1> QED
  BY <1>1, VaultStarts, PTL DEF Spec

\* A reader that can open a file has a share of a custodian who is not a liar: the liars
\* hold fewer slots than the threshold.
LEMMA OpensNeedsHonest ==
  ASSUME VaultInv, NEW a \in Accounts, NEW n \in DOMAIN files,
         Opens(files[n], {p[2] : p \in {q \in got : q[1] = a}})
  PROVE  \E k \in Custodians : sent[k][a] > 0
<1> DEFINE f == files[n]
           rs == {p[2] : p \in {q \in got : q[1] = a}}
           cs == f.custodians
           L == ToSet(cs) \cap Liars
           T == {Slot(cs, k) : k \in L}
<1>1. PICK S \in SUBSET {r.x : r \in Good(f, rs)} : Cardinality(S) = f.threshold
  BY DEF Opens
<1>2. Planned(f) /\ f.epoch = n - 1 /\ \A m \in DOMAIN files : files[m].epoch = m - 1
  BY DEF VaultInv, FilesInv
<1>3. PICK p \in Plans \cup {FirstPlan} : cs = p[1] /\ f.threshold = p[2]
  BY <1>2 DEF Planned
<1>4. cs \in Seq(Custodians) /\ Cardinality(L) < f.threshold /\ f.threshold \in 1 .. Len(cs)
  BY <1>3, VaultAssumption
<1> SUFFICES ASSUME ~ \E k \in Custodians : sent[k][a] > 0
             PROVE  FALSE
  OBVIOUS
<1>5. DOMAIN files \subseteq Int
  <2>1. PICK X : files \in Seq(X)
    BY DEF VaultInv, FilesInv
  <2> QED
    BY <2>1
<1>6. S \subseteq T
  <2>1. ASSUME NEW r \in Good(f, rs)
        PROVE  r.x \in T
    <3>1. r.epoch = f.epoch /\ r \in rs
      BY DEF Good, Usable
    <3>2. PICK g \in got : g[1] = a /\ g[2] = r
      BY <3>1
    <3>3. Traced(g)
      BY DEF VaultInv
    <3>4. PICK m \in DOMAIN files : \E k \in ToSet(files[m].custodians) :
            /\ r.epoch = files[m].epoch /\ r.x = Slot(files[m].custodians, k)
            /\ k \notin Liars => k \in Custodians /\ a \in Accounts /\ sent[k][a] > 0
      BY <3>2, <3>3 DEF Traced
    <3>5. m = n
      BY <1>2, <1>5, <3>1, <3>4
    <3>6. PICK k \in ToSet(cs) : r.x = Slot(cs, k) /\ (k \notin Liars => k \in Custodians /\ sent[k][a] > 0)
      BY <3>4, <3>5
    <3> QED
      BY <3>6
  <2>2. {r.x : r \in Good(f, rs)} \subseteq T
    BY <2>1
  <2> QED
    BY <2>2
<1> HIDE DEF rs
<1>7. IsFiniteSet(L)
  <2>1. Len(cs) \in Nat /\ DOMAIN cs = 1 .. Len(cs)
    BY <1>4
  <2>2. IsFiniteSet(1 .. Len(cs))
    BY <2>1, FS_Interval
  <2>3. cs \in Surjection(1 .. Len(cs), ToSet(cs))
    BY <1>4, <2>1 DEF Surjection, ToSet
  <2>4. IsFiniteSet(ToSet(cs))
    BY <2>2, <2>3, FS_Surjection
  <2> QED
    BY <2>4, FS_Subset
<1>8. IsFiniteSet(T) /\ Cardinality(T) <= Cardinality(L)
  <2> DEFINE h == [k \in L |-> Slot(cs, k)]
  <2>1. h \in Surjection(L, T)
    BY DEF Surjection
  <2> HIDE DEF h, L, T
  <2> QED
    BY <1>7, <2>1, FS_Surjection
<1> HIDE DEF L, T
<1>9. IsFiniteSet(S) /\ Cardinality(S) <= Cardinality(T)
  BY <1>6, <1>8, FS_Subset
<1>10. Cardinality(S) \in Nat /\ Cardinality(T) \in Nat /\ Cardinality(L) \in Nat
  BY <1>7, <1>8, <1>9, FS_CardinalityType
<1> QED
  BY <1>1, <1>4, <1>8, <1>9, <1>10

\* Custodian.release: no more shares leave a custodian than the reader has receipts on the
\* ledger, through crashes and failed writes; who can open any file, with whatever fewer
\* liars than the threshold leak, has left a receipt first; and a custodian that only
\* crashed starts again.
THEOREM ReadsLeaveReceipts == Spec => []ReadsAreReceipted
<1>1. ASSUME VaultInv
      PROVE  ReadsAreReceipted
  <2>1. ASSUME NEW k \in Custodians, NEW a \in Accounts
        PROVE  sent[k][a] <= Views(a) /\ sent[k][a] \in Nat /\ Views(a) \in Nat
    <3>1. Faithful(cust[k], sent[k], Receipts)
      BY <1>1 DEF VaultInv, JournalInv
    <3>2. Receipts[a] = Views(a)
      BY DEF Receipts
    <3> QED
      BY <3>1, <3>2 DEF Faithful
  <2>2. ASSUME NEW a \in Accounts, NEW n \in DOMAIN files,
               Opens(files[n], {p[2] : p \in {q \in got : q[1] = a}})
        PROVE  Views(a) > 0
    <3>1. PICK k \in Custodians : sent[k][a] > 0
      BY <1>1, <2>2, OpensNeedsHonest
    <3> QED
      BY <2>1, <3>1
  <2>3. CrashesNeverStop
    BY <1>1 DEF VaultInv, JournalInv, Faithful, CrashesNeverStop
  <2> QED
    BY <2>1, <2>2, <2>3 DEF ReadsAreReceipted
<1> QED
  BY <1>1, VaultInvariant, PTL

-----------------------------------------------------------------------------
(* Sums.  A sum over a set is the value there of a function of its subsets,  *)
(* which takes one element off after the other.                              *)

Added(w, S) == FoldSet(LAMBDA x, n : n + w[x], 0, S)
First(s) == CHOOSE x \in s : TRUE
Unrolled(f, w, S) ==
  f = [s \in SUBSET S |-> IF s = {} THEN 0 ELSE f[s \ {First(s)}] + w[First(s)]]
UnrolledTo(n, f, w, S) ==
  \A s \in SUBSET S : Cardinality(s) <= n =>
    f[s] = IF s = {} THEN 0 ELSE f[s \ {First(s)}] + w[First(s)]

LEMMA AddedIs ==
  ASSUME NEW S, IsFiniteSet(S), NEW w
  PROVE  \E f : Unrolled(f, w, S) /\ Added(w, S) = f[S]
<1> DEFINE B == {n \in Nat : ~ \E f : UnrolledTo(n, f, w, S)}
<1>1. ASSUME NEW s \in SUBSET S
      PROVE  /\ IsFiniteSet(s) /\ Cardinality(s) \in Nat /\ Cardinality(s) <= Cardinality(S)
             /\ Cardinality(s) = 0 => s = {}
             /\ s # {} => First(s) \in s /\ s \ {First(s)} \in SUBSET S
                          /\ Cardinality(s \ {First(s)}) = Cardinality(s) - 1
  <2>1. IsFiniteSet(s) /\ Cardinality(s) \in Nat /\ Cardinality(s) <= Cardinality(S)
    BY FS_Subset, FS_CardinalityType
  <2>2. Cardinality(s) = 0 => s = {}
    BY <2>1, FS_EmptySet
  <2>3. s # {} => First(s) \in s
    BY DEF First
  <2>4. s # {} => Cardinality(s \ {First(s)}) = Cardinality(s) - 1
    BY <2>1, <2>3, FS_RemoveElement
  <2> QED
    BY <2>1, <2>2, <2>3, <2>4
<1>2. B = {}
  <2> SUFFICES ASSUME B # {}
               PROVE  FALSE
    OBVIOUS
  <2>1. PICK n \in B : \A m \in B : n <= m
    BY LeastNat
  <2>2. CASE n = 0
    <3> DEFINE f == [s \in SUBSET S |-> 0]
    <3>2. \A s \in SUBSET S : Cardinality(s) <= 0 => s = {}
      <4>1. \A k \in Nat : k <= 0 => k = 0
        OBVIOUS
      <4> QED
        BY <1>1, <4>1
    <3>1. UnrolledTo(0, f, w, S)
      BY <3>2 DEF UnrolledTo
    <3> QED
      BY <2>1, <2>2, <3>1
  <2>3. CASE n # 0
    <3>1. n - 1 \in Nat /\ n - 1 \notin B /\ n \in Nat
      BY <2>1, <2>3
    <3>2. PICK g : UnrolledTo(n - 1, g, w, S)
      BY <3>1
    <3> DEFINE f == [s \in SUBSET S |-> IF s = {} THEN 0 ELSE g[s \ {First(s)}] + w[First(s)]]
    <3>3. ASSUME NEW s \in SUBSET S, Cardinality(s) <= n - 1
          PROVE  f[s] = g[s]
      BY <3>2, <3>3 DEF UnrolledTo
    <3>4. ASSUME NEW s \in SUBSET S, Cardinality(s) <= n, s # {}
          PROVE  f[s \ {First(s)}] = g[s \ {First(s)}]
      <4>1. s \ {First(s)} \in SUBSET S /\ Cardinality(s \ {First(s)}) <= n - 1
        BY <1>1, <3>1, <3>4
      <4> HIDE DEF f
      <4> QED
        BY <3>3, <4>1
    <3>6. \A s \in SUBSET S : f[s] = IF s = {} THEN 0 ELSE g[s \ {First(s)}] + w[First(s)]
      OBVIOUS
    <3> HIDE DEF f
    <3>5. UnrolledTo(n, f, w, S)
      BY <3>4, <3>6 DEF UnrolledTo
    <3> QED
      BY <2>1, <3>5
  <2> QED
    BY <2>1, <2>2, <2>3
<1>3. PICK f : UnrolledTo(Cardinality(S), f, w, S)
  <2>1. S \in SUBSET S /\ Cardinality(S) \in Nat
    BY <1>1
  <2> QED
    BY <1>2, <2>1
<1> DEFINE h == [s \in SUBSET S |-> f[s]]
<1>4. Unrolled(h, w, S)
  <2>1. \A s \in SUBSET S : f[s] = IF s = {} THEN 0 ELSE f[s \ {First(s)}] + w[First(s)]
    BY <1>1, <1>3 DEF UnrolledTo
  <2>2. \A s \in SUBSET S : s # {} => h[s \ {First(s)}] = f[s \ {First(s)}]
    BY <1>1
  <2> QED
    BY <2>1, <2>2 DEF Unrolled
<1>5. Added(w, S) = (CHOOSE g : Unrolled(g, w, S))[S]
  BY DEF Added, FoldSet, MapThenFoldSet, Unrolled, First
<1> QED
  BY <1>4, <1>5

LEMMA AddedGrows ==
  ASSUME NEW S, IsFiniteSet(S), NEW w, NEW v,
         \A x \in S : w[x] \in Nat /\ v[x] \in Nat /\ w[x] <= v[x]
  PROVE  Added(w, S) \in Nat /\ Added(v, S) \in Nat /\ Added(w, S) <= Added(v, S)
<1>1. PICK f : Unrolled(f, w, S) /\ Added(w, S) = f[S]
  BY AddedIs
<1>2. PICK g : Unrolled(g, v, S) /\ Added(v, S) = g[S]
  BY AddedIs
<1> DEFINE Ordered(s) == f[s] \in Nat /\ g[s] \in Nat /\ f[s] <= g[s]
           C == {Cardinality(s) : s \in {r \in SUBSET S : ~ Ordered(r)}}
<1>3. C = {}
  <2> SUFFICES ASSUME C # {}
               PROVE  FALSE
    OBVIOUS
  <2>1. \A s \in SUBSET S : IsFiniteSet(s) /\ Cardinality(s) \in Nat
    BY FS_Subset, FS_CardinalityType
  <2>2. C \subseteq Nat
    BY <2>1
  <2>3. PICK n \in C : \A m \in C : n <= m
    BY <2>2, LeastNat
  <2>4. PICK s \in SUBSET S : ~ Ordered(s) /\ n = Cardinality(s)
    OBVIOUS
  <2> DEFINE x == First(s)
  <2>5. s # {} /\ x \in s
    BY <1>1, <1>2, <2>4 DEF Unrolled, First
  <2>6. Cardinality(s \ {x}) = n - 1 /\ n \in Nat /\ s \ {x} \in SUBSET S
    BY <2>1, <2>4, <2>5, FS_RemoveElement
  <2>7. Ordered(s \ {x})
    BY <2>3, <2>6
  <2>8. f[s] = f[s \ {x}] + w[x] /\ g[s] = g[s \ {x}] + v[x]
    BY <1>1, <1>2, <2>5 DEF Unrolled
  <2>9. w[x] \in Nat /\ v[x] \in Nat /\ w[x] <= v[x]
    BY <2>5
  <2> HIDE DEF x
  <2>10. Ordered(s)
    BY <2>7, <2>8, <2>9
  <2> QED
    BY <2>4, <2>10
<1>4. Ordered(S)
  BY <1>3
<1> QED
  BY <1>1, <1>2, <1>4

-----------------------------------------------------------------------------
(* Reports.  A verdict is what Report says of a duty, given the sums paid by *)
(* height, the terms that count and whether it is in dispute.                *)

Early(h) == {k \in Heights : k <= h}
SettledBy(w, t, at) == {h \in Heights : h <= at /\ Added(w, Early(h)) >= t.amount}
Verdict(w, t, disputed, at) ==
  CASE SettledBy(w, t, at) # {} -> IF Min(SettledBy(w, t, at)) <= t.due THEN "PAID" ELSE "PAID_LATE"
    [] OTHER ->
       CASE t.waived                -> "WAIVED"
         [] disputed /\ ~ t.waived  -> "DISPUTED"
         [] ~ disputed /\ ~ t.waived /\ at > t.due -> "OVERDUE"
         [] OTHER -> IF Added(w, Early(at)) > 0 THEN "PARTIAL" ELSE "PENDING"

LEMMA ReportIs ==
  ASSUME NEW c, NEW d, NEW at
  PROVE  Report(c, d, at) = Verdict(paid[c][d], TermsAt(c, d, at), InDispute(c, d, at), at)
<1>1. \A h : PaidBy(c, d, h) = Added(paid[c][d], Early(h))
  BY DEF PaidBy, Added, Early
<1>2. SettledAt(c, d, at) = SettledBy(paid[c][d], TermsAt(c, d, at), at)
  BY <1>1 DEF SettledAt, SettledBy
<1> QED
  BY <1>1, <1>2 DEF Report, Verdict

\* After a step, about a given block and about the one then under construction.
LEMMA ReportAfter ==
  ASSUME NEW c, NEW d, NEW at
  PROVE  Report(c, d, at)' = Verdict(paid'[c][d], TermsAt(c, d, at)', InDispute(c, d, at)', at)
<1>1. \A h : PaidBy(c, d, h)' = Added(paid'[c][d], Early(h))
  BY DEF PaidBy, Added, Early, FoldSet, MapThenFoldSet
<1>2. SettledAt(c, d, at)' = SettledBy(paid'[c][d], TermsAt(c, d, at)', at)
  BY <1>1 DEF SettledAt, SettledBy
<1>3. PaidBy(c, d, at)' = Added(paid'[c][d], Early(at))
  BY DEF PaidBy, Added, Early, FoldSet, MapThenFoldSet
<1> QED
  BY <1>2, <1>3 DEF Report, Verdict

LEMMA ReportThen ==
  ASSUME NEW c, NEW d
  PROVE  Report(c, d, height)' =
           Verdict(paid'[c][d], TermsAt(c, d, height)', InDispute(c, d, height)', height')
<1>1. \A h : PaidBy(c, d, h)' = Added(paid'[c][d], Early(h))
  BY DEF PaidBy, Added, Early, FoldSet, MapThenFoldSet
<1>2. SettledAt(c, d, height)' = SettledBy(paid'[c][d], TermsAt(c, d, height)', height')
  BY <1>1 DEF SettledAt, SettledBy
<1>3. PaidBy(c, d, height)' = Added(paid'[c][d], Early(height'))
  BY DEF PaidBy, Added, Early, FoldSet, MapThenFoldSet
<1> QED
  BY <1>2, <1>3 DEF Report, Verdict

LEMMA EarlyFinite == \A h : IsFiniteSet(Early(h))
<1>1. IsFiniteSet(Heights)
  BY ContractsAssumption, FS_Interval DEF Heights
<1> QED
  BY <1>1, FS_Subset DEF Early

LEMMA LeastSettled ==
  ASSUME NEW T \in SUBSET Heights, T # {}
  PROVE  Min(T) \in T /\ \A h \in T : Min(T) <= h
<1>1. T \subseteq Nat
  BY DEF Heights
<1>2. \E m \in T : \A h \in T : m <= h
  BY <1>1, LeastNat
<1> QED
  BY <1>2 DEF Min

\* More money paid, less asked, more time, and a later report: what was paid stays paid.
LEMMA VerdictStays ==
  ASSUME NEW w \in [Heights -> Nat], NEW v \in [Heights -> Nat], \A h \in Heights : w[h] <= v[h],
         NEW t \in Terms, NEW u \in Terms, u.amount <= t.amount, u.due >= t.due,
         NEW at \in Heights, NEW later \in Heights, at <= later, NEW x, NEW y
  PROVE  /\ Verdict(w, t, x, at) = "PAID" => Verdict(v, u, y, later) = "PAID"
         /\ Verdict(w, t, x, at) = "PAID_LATE" => Verdict(v, u, y, later) \in {"PAID", "PAID_LATE"}
<1> DEFINE S == SettledBy(w, t, at)
           U == SettledBy(v, u, later)
<1>1. ASSUME NEW h \in Heights
      PROVE  /\ Added(w, Early(h)) \in Nat /\ Added(v, Early(h)) \in Nat
             /\ Added(w, Early(h)) <= Added(v, Early(h))
  <2>1. IsFiniteSet(Early(h)) /\ Early(h) \subseteq Heights
    BY EarlyFinite DEF Early
  <2>2. \A k \in Early(h) : w[k] \in Nat /\ v[k] \in Nat /\ w[k] <= v[k]
    BY <2>1
  <2> QED
    BY <2>1, <2>2, AddedGrows
<1>2. /\ t.amount \in Nat /\ u.amount \in Nat /\ t.due \in Nat /\ u.due \in Nat
      /\ at \in Nat /\ later \in Nat /\ Heights \subseteq Nat
  BY DEF Terms, Heights
<1>3. S \subseteq U /\ S \in SUBSET Heights /\ U \in SUBSET Heights
  <2>1. ASSUME NEW h \in Heights, h <= at, Added(w, Early(h)) >= t.amount
        PROVE  h <= later /\ Added(v, Early(h)) >= u.amount
    BY <1>1, <1>2, <2>1
  <2> QED
    BY <2>1 DEF SettledBy
<1>4. S # {} => U # {} /\ Min(U) \in Nat /\ Min(S) \in Nat /\ Min(U) <= Min(S)
  BY <1>2, <1>3, LeastSettled
<1> HIDE DEF S, U
<1>5. Verdict(w, t, x, at) \in {"PAID", "PAID_LATE"} => S # {}
  BY DEF Verdict, S
<1>6. S # {} => Verdict(v, u, y, later) = IF Min(U) <= u.due THEN "PAID" ELSE "PAID_LATE"
  BY <1>4 DEF Verdict, U
<1>7. S # {} => Verdict(w, t, x, at) = IF Min(S) <= t.due THEN "PAID" ELSE "PAID_LATE"
  BY DEF Verdict, S
<1> QED
  BY <1>2, <1>4, <1>5, <1>6, <1>7

\* Money paid after a block makes no difference to the report about that block.
LEMMA VerdictSame ==
  ASSUME NEW w \in [Heights -> Nat], NEW v \in [Heights -> Nat], NEW at \in Heights,
         \A h \in Heights : h <= at => w[h] = v[h], NEW t, NEW x
  PROVE  Verdict(w, t, x, at) = Verdict(v, t, x, at)
<1>1. ASSUME NEW h \in Heights, h <= at
      PROVE  Added(w, Early(h)) = Added(v, Early(h))
  <2>1. IsFiniteSet(Early(h)) /\ Early(h) \subseteq Heights
    BY EarlyFinite DEF Early
  <2>2. \A k \in Early(h) : w[k] \in Nat /\ v[k] \in Nat /\ w[k] = v[k]
    BY <1>1, <2>1 DEF Early, Heights
  <2>3. \A k \in Early(h) : w[k] <= v[k] /\ v[k] <= w[k]
    BY <2>2
  <2>4. Added(w, Early(h)) \in Nat /\ Added(v, Early(h)) \in Nat /\ Added(w, Early(h)) <= Added(v, Early(h))
    BY <2>1, <2>2, <2>3, AddedGrows
  <2>5. Added(v, Early(h)) <= Added(w, Early(h))
    BY <2>1, <2>2, <2>3, AddedGrows
  <2> QED
    BY <2>4, <2>5
<1>2. SettledBy(w, t, at) = SettledBy(v, t, at)
  BY <1>1 DEF SettledBy
<1>3. Added(w, Early(at)) = Added(v, Early(at))
  BY <1>1 DEF Heights
<1> QED
  BY <1>2, <1>3 DEF Verdict

\* Sums paid are natural numbers, and terms that are not the original ones have the height
\* of a block that is not in the future.
Dated(cs, h) ==
  \A c \in Ids : \A d \in Duties(c) :
    /\ cs[c].terms[d].height <= h
    /\ cs[c].terms[d].height = 0 => cs[c].terms[d] = Original(c, d)
Sums(p) ==
  /\ p = [c \in Ids |-> p[c]]
  /\ \A c \in Ids : p[c] = [d \in Duties(c) |-> p[c][d]] /\ \A d \in Duties(c) : p[c][d] \in [Heights -> Nat]
\* An open dispute has no closing date.
Pending == \A p \in Claims : Open(p) => disputes[p].closed = NoOne
ReportInv ==
  /\ LedgerInv /\ height \in Heights /\ height <= case.blocks
  /\ Dated(contracts, height) /\ Sums(paid) /\ Pending

\* What a step may do to what reports are about: pay in the block under construction,
\* open or close disputes there, and date new terms there.
PaysNow ==
  /\ Sums(paid')
  /\ \A c \in Ids : \A d \in Duties(c) : \A h \in Heights :
       paid[c][d][h] <= paid'[c][d][h] /\ (h < height => paid'[c][d][h] = paid[c][d][h])
DisputesNow ==
  Pending' /\ \A p \in Claims :
    \/ disputes'[p] = disputes[p]
    \/ disputes[p].status = "NONE" /\ disputes'[p].opened = height
    \/ /\ disputes[p].status # "NONE" /\ disputes'[p].status # "NONE"
       /\ disputes'[p].contract = disputes[p].contract /\ disputes'[p].duties = disputes[p].duties
       /\ disputes'[p].opened = disputes[p].opened
       /\ \/ disputes'[p].closed = disputes[p].closed
          \/ disputes[p].closed = NoOne /\ disputes'[p].closed = height
TermsNow ==
  \A c \in Ids : \A d \in Duties(c) :
    contracts'[c].terms[d] # contracts[c].terms[d] => contracts'[c].terms[d].height = height
Later == height' \in Heights /\ height <= height' /\ height' <= case'.blocks
Present == PaysNow /\ DisputesNow /\ TermsNow /\ Later

LEMMA PresentStands ==
  ASSUME ReportInv, LedgerInv', Relieved, Present
  PROVE  /\ ReportInv'
         /\ \A c \in Ids : \A d \in Duties(c) :
              PaidStaysPaid(c, d) /\ \A at \in Heights : PastStands(c, d, at)
<1>1. /\ LedgerInv /\ height \in Heights /\ Dated(contracts, height) /\ Sums(paid)
      /\ Standing(contracts, height) /\ Standing(contracts', height') /\ height \in Nat /\ height >= 1
      /\ height' \in Heights /\ height <= height' /\ height' \in Nat
  BY DEF ReportInv, Present, Later, LedgerInv, Heights
<1>2. ASSUME NEW c \in Ids, NEW d \in Duties(c)
      PROVE  /\ contracts[c].terms[d] \in Terms /\ contracts'[c].terms[d] \in Terms
             /\ paid[c][d] \in [Heights -> Nat] /\ paid'[c][d] \in [Heights -> Nat]
             /\ contracts'[c].terms[d].height <= height' /\ contracts[c].terms[d].height <= height
             /\ contracts'[c].terms[d].height = 0 => contracts'[c].terms[d] = Original(c, d)
             /\ contracts[c].terms[d].height = 0 => contracts[c].terms[d] = Original(c, d)
             /\ contracts'[c].terms[d].amount <= contracts[c].terms[d].amount
             /\ contracts'[c].terms[d].due >= contracts[c].terms[d].due
  <2>1. contracts[c].terms[d] \in Terms /\ contracts'[c].terms[d] \in Terms
    BY <1>1 DEF Standing, Shape, Contract
  <2>2. paid[c][d] \in [Heights -> Nat] /\ paid'[c][d] \in [Heights -> Nat]
    BY <1>1 DEF Present, PaysNow, Sums
  <2>3. /\ contracts[c].terms[d].height <= height
        /\ contracts[c].terms[d].height = 0 => contracts[c].terms[d] = Original(c, d)
    BY <1>1 DEF Dated
  <2>4. contracts'[c].terms[d] = contracts[c].terms[d] \/ contracts'[c].terms[d].height = height
    BY DEF Present, TermsNow
  <2>5. /\ contracts[c].terms[d].height \in Nat /\ contracts'[c].terms[d].height \in Nat
        /\ contracts[c].terms[d].amount \in Nat /\ contracts[c].terms[d].due \in Nat
    BY <2>1 DEF Terms
  <2>6. /\ contracts'[c].terms[d].height <= height'
        /\ contracts'[c].terms[d].height = 0 => contracts'[c].terms[d] = Original(c, d)
    BY <1>1, <2>3, <2>4, <2>5
  <2>7. /\ contracts'[c].terms[d].amount <= contracts[c].terms[d].amount
        /\ contracts'[c].terms[d].due >= contracts[c].terms[d].due
    BY <2>5 DEF Relieved
  <2> QED
    BY <2>1, <2>2, <2>3, <2>6, <2>7
<1>3. ReportInv'
  BY <1>1, <1>2 DEF ReportInv, Dated, Present, PaysNow, DisputesNow, Later
<1>4. ASSUME NEW c \in Ids, NEW d \in Duties(c)
      PROVE  PaidStaysPaid(c, d)
  <2> DEFINE t == contracts[c].terms[d]
             u == contracts'[c].terms[d]
             w == paid[c][d]
             v == paid'[c][d]
  <2>1. TermsAt(c, d, height) = t /\ TermsAt(c, d, height)' = u
    BY <1>2 DEF TermsAt
  <2>2. /\ Report(c, d, height) = Verdict(w, t, InDispute(c, d, height), height)
        /\ Report(c, d, height)' = Verdict(v, u, InDispute(c, d, height)', height')
    BY <2>1, ReportIs, ReportThen
  <2>3. \A h \in Heights : w[h] <= v[h]
    BY DEF Present, PaysNow
  <2>4. /\ w \in [Heights -> Nat] /\ v \in [Heights -> Nat] /\ t \in Terms /\ u \in Terms
        /\ u.amount <= t.amount /\ u.due >= t.due
    BY <1>2
  <2> HIDE DEF t, u, w, v
  <2>5. \A x, y : /\ Verdict(w, t, x, height) = "PAID" => Verdict(v, u, y, height') = "PAID"
                  /\ Verdict(w, t, x, height) = "PAID_LATE" =>
                       Verdict(v, u, y, height') \in {"PAID", "PAID_LATE"}
    BY <1>1, <2>3, <2>4, VerdictStays
  <2> QED
    BY <2>2, <2>5 DEF PaidStaysPaid
<1>5. ASSUME NEW c \in Ids, NEW d \in Duties(c), NEW at \in Heights
      PROVE  PastStands(c, d, at)
  <2> SUFFICES ASSUME at < height,
                      ~ (contracts[c].terms[d].height \in 1 .. at /\ contracts'[c].terms[d].height = height)
               PROVE  Report(c, d, at)' = Report(c, d, at)
    BY DEF PastStands
  <2> DEFINE t == contracts[c].terms[d]
             u == contracts'[c].terms[d]
             w == paid[c][d]
             v == paid'[c][d]
  <2>1. at \in Nat /\ t.height \in Nat /\ u.height \in Nat
    BY <1>2 DEF Heights, Terms
  <2>2. TermsAt(c, d, at)' = TermsAt(c, d, at)
    <3>1. CASE u = t
      BY <3>1 DEF TermsAt
    <3>2. CASE u # t
      <4>1. u.height = height
        BY <3>2 DEF Present, TermsNow
      <4>2. TermsAt(c, d, at)' = Original(c, d)
        BY <1>1, <2>1, <4>1 DEF TermsAt, Original
      <4>3. TermsAt(c, d, at) = Original(c, d)
        <5>1. t.height = 0 \/ t.height > at
          BY <2>1, <4>1
        <5> QED
          BY <1>2, <2>1, <5>1 DEF TermsAt
      <4> QED
        BY <4>2, <4>3
    <3> QED
      BY <3>1, <3>2
  <2>3. InDispute(c, d, at)' = InDispute(c, d, at)
    <3> DEFINE In(q, p) == /\ q[p].status # "NONE" /\ q[p].contract = c
                           /\ d \in q[p].duties /\ q[p].opened <= at
                           /\ q[p].closed = NoOne \/ q[p].closed > at
    <3>1. \A p \in Claims : In(disputes', p) = In(disputes, p)
      <4> TAKE p \in Claims
      <4>1. CASE disputes'[p] = disputes[p]
        BY <4>1
      <4>2. CASE disputes[p].status = "NONE" /\ disputes'[p].opened = height
        BY <1>1, <2>1, <4>2
      <4>3. CASE /\ disputes[p].status # "NONE" /\ disputes'[p].status # "NONE"
                 /\ disputes'[p].contract = disputes[p].contract /\ disputes'[p].duties = disputes[p].duties
                 /\ disputes'[p].opened = disputes[p].opened
                 /\ \/ disputes'[p].closed = disputes[p].closed
                    \/ disputes[p].closed = NoOne /\ disputes'[p].closed = height
        BY <1>1, <2>1, <4>3
      <4> QED
        BY <4>1, <4>2, <4>3 DEF Present, DisputesNow
    <3>2. InDispute(c, d, at) = (\E p \in Claims : In(disputes, p))
      BY DEF InDispute
    <3>3. InDispute(c, d, at)' = (\E p \in Claims : In(disputes', p))
      BY DEF InDispute
    <3> HIDE DEF In
    <3> QED
      BY <3>1, <3>2, <3>3
  <2>4. w \in [Heights -> Nat] /\ v \in [Heights -> Nat]
    BY <1>2
  <2>5. \A h \in Heights : h <= at => w[h] = v[h]
    <3>1. \A h \in Heights : h <= at => h < height
      BY <1>1, <2>1 DEF Heights
    <3> QED
      BY <3>1 DEF Present, PaysNow
  <2>6. /\ Report(c, d, at) = Verdict(w, TermsAt(c, d, at), InDispute(c, d, at), at)
        /\ Report(c, d, at)' = Verdict(v, TermsAt(c, d, at)', InDispute(c, d, at)', at)
    BY ReportIs, ReportAfter
  <2> HIDE DEF t, u, w, v
  <2>7. \A x, y : Verdict(w, x, y, at) = Verdict(v, x, y, at)
    BY <2>4, <2>5, VerdictSame
  <2> QED
    BY <2>2, <2>3, <2>6, <2>7
<1> QED
  BY <1>3, <1>4, <1>5

\* A step that pays nothing, at the same height.
LEMMA NothingPaid ==
  ASSUME ReportInv, paid' = paid, height' = height, case' = case, DisputesNow, TermsNow
  PROVE  Present
<1>1. Sums(paid) /\ height \in Heights /\ height \in Nat /\ height <= case.blocks
  BY DEF ReportInv, Heights
<1>2. \A c \in Ids : \A d \in Duties(c) : \A h \in Heights : paid[c][d][h] \in Nat
  BY <1>1 DEF Sums
<1>3. \A c \in Ids : \A d \in Duties(c) : \A h \in Heights : paid[c][d][h] <= paid'[c][d][h]
  BY <1>2
<1>4. PaysNow
  BY <1>1, <1>3 DEF PaysNow
<1>5. Later
  BY <1>1 DEF Later
<1> QED
  BY <1>4, <1>5 DEF Present

LEMMA NothingDisputed ==
  ASSUME ReportInv, disputes' = disputes
  PROVE  DisputesNow
BY DEF ReportInv, DisputesNow, Pending, Open

LEMMA PayPresent ==
  ASSUME ReportInv, NEW c \in Ids, NEW d \in Duties(c), NEW amount \in 1 .. Text[c].owes[d].amount, Pay(c, d, amount)
  PROVE  Present
<1>1. /\ paid' = [paid EXCEPT ![c][d][height] = @ + amount]
      /\ case' = case /\ height' = height /\ contracts' = contracts /\ disputes' = disputes
  BY DEF Pay
<1>2. Sums(paid) /\ height \in Heights /\ height <= case.blocks /\ height \in Nat
  BY DEF ReportInv, Heights
<1>3. amount \in Nat
  BY ContractsAssumption DEF Duty
<1> DEFINE q == [paid[c] EXCEPT ![d] = [paid[c][d] EXCEPT ![height] = paid[c][d][height] + amount]]
<1>4. /\ paid' = [paid EXCEPT ![c] = q]
      /\ q = [e \in Duties(c) |-> q[e]]
      /\ q[d] = [paid[c][d] EXCEPT ![height] = paid[c][d][height] + amount]
      /\ \A e \in Duties(c) \ {d} : q[e] = paid[c][e]
  BY <1>1, <1>2 DEF Sums
<1> HIDE DEF q
<1>5. /\ paid' = [o \in Ids |-> paid'[o]] /\ paid'[c] = q
      /\ \A o \in Ids \ {c} : paid'[o] = paid[o]
  BY <1>2, <1>4 DEF Sums
<1>6. paid[c][d] \in [Heights -> Nat]
  BY <1>2 DEF Sums
<1>7. q[d] \in [Heights -> Nat] /\ \A h \in Heights : paid[c][d][h] <= q[d][h] /\ (h # height => q[d][h] = paid[c][d][h])
  BY <1>2, <1>3, <1>4, <1>6
<1>8. ASSUME NEW o \in Ids, NEW e \in Duties(o)
      PROVE  /\ paid'[o][e] \in [Heights -> Nat]
             /\ \A h \in Heights : paid[o][e][h] <= paid'[o][e][h]
                                   /\ (h # height => paid'[o][e][h] = paid[o][e][h])
  <2>1. CASE o = c /\ e = d
    BY <1>5, <1>7, <2>1
  <2>2. CASE ~ (o = c /\ e = d)
    <3>1. paid'[o][e] = paid[o][e] /\ paid[o][e] \in [Heights -> Nat]
      BY <1>2, <1>4, <1>5, <2>2 DEF Sums
    <3>2. \A h \in Heights : paid[o][e][h] \in Nat
      BY <3>1
    <3> QED
      BY <3>1, <3>2
  <2> QED
    BY <2>1, <2>2
<1>9. ASSUME NEW o \in Ids
      PROVE  paid'[o] = [e \in Duties(o) |-> paid'[o][e]]
  <2>1. CASE o = c
    BY <1>4, <1>5, <2>1
  <2>2. CASE o # c
    <3>1. paid'[o] = paid[o] /\ paid[o] = [e \in Duties(o) |-> paid[o][e]]
      BY <1>2, <1>5, <2>2 DEF Sums
    <3> QED
      BY <3>1
  <2> QED
    BY <2>1, <2>2
<1>10. PaysNow
  <2>1. Sums(paid')
    BY <1>5, <1>8, <1>9 DEF Sums
  <2>2. \A h \in Heights : h < height => h # height
    BY <1>2 DEF Heights
  <2> QED
    BY <1>8, <2>1, <2>2 DEF PaysNow
<1>11. DisputesNow /\ TermsNow /\ Later
  BY <1>1, <1>2, NothingDisputed DEF TermsNow, Later
<1> QED
  BY <1>10, <1>11 DEF Present

\* Opening, filing in and ending a dispute.
LEMMA DisputePresent ==
  ASSUME ReportInv, NEW p \in Claims, NEW new, disputes' = [disputes EXCEPT ![p] = new],
         \/ disputes[p].status = "NONE" /\ new.opened = height /\ new.closed = NoOne
         \/ /\ Open(p) /\ new.status # "NONE" /\ new.contract = disputes[p].contract
            /\ new.duties = disputes[p].duties /\ new.opened = disputes[p].opened
            /\ \/ new.closed = NoOne
               \/ new.closed = height /\ new.status # "OPEN"
  PROVE  DisputesNow
<1>1. Pending /\ disputes = [q \in Claims |-> disputes[q]]
  BY DEF ReportInv, LedgerInv, Claimed
<1>2. disputes'[p] = new /\ \A q \in Claims \ {p} : disputes'[q] = disputes[q]
  BY <1>1
<1>3. Pending'
  BY <1>1, <1>2 DEF Pending, Open
<1>4. Open(p) => disputes[p].status # "NONE" /\ disputes[p].closed = NoOne
  BY <1>1 DEF Pending, Open
<1> QED
  BY <1>2, <1>3, <1>4 DEF DisputesNow

\* A dispute that ends.
LEMMA EndPresent ==
  ASSUME ReportInv, NEW p \in Claims, Open(p), NEW status \in {"WITHDRAWN", "CLOSED"},
         disputes' = [disputes EXCEPT ![p].status = status, ![p].closed = height]
  PROVE  DisputesNow
<1>1. Sensible(disputes[p]) /\ disputes = [q \in Claims |-> disputes[q]]
  BY OpenTyped DEF ReportInv
<1> DEFINE old == disputes[p]
           new == [old EXCEPT !.status = status, !.closed = height]
<1>2. disputes' = [disputes EXCEPT ![p] = new]
  BY <1>1
<1> HIDE DEF old
<1>3. /\ new.contract = old.contract /\ new.duties = old.duties /\ new.opened = old.opened
      /\ new.closed = height /\ new.status = status
  <2>1. old = [contract |-> old.contract, claimant |-> old.claimant, duties |-> old.duties,
               status |-> old.status, opened |-> old.opened, closed |-> old.closed, filings |-> old.filings]
    BY <1>1 DEF Sensible, Dispute, old
  <2> DEFINE b == [old EXCEPT !.status = status]
  <2>2. b = [contract |-> old.contract, claimant |-> old.claimant, duties |-> old.duties,
             status |-> status, opened |-> old.opened, closed |-> old.closed, filings |-> old.filings]
    BY <2>1
  <2>3. new = [b EXCEPT !.closed = height]
    BY <2>1
  <2> HIDE DEF b, new
  <2> QED
    BY <2>2, <2>3
<1> HIDE DEF new
<1> QED
  BY <1>2, <1>3, DisputePresent DEF old

LEMMA AwardDates ==
  ASSUME ReportInv, NEW p \in Claims, NEW D \in SUBSET AllDuties, NEW adjust \in [D -> Awards],
         Award(p, adjust)
  PROVE  TermsNow
<1> DEFINE c == disputes[p].contract
<1>1. contracts' = [contracts EXCEPT ![c].terms =
                      [d \in DOMAIN @ |-> IF d \in D THEN Applied(adjust[d], Prior(c, d)) ELSE @[d]]]
  BY DEF Award
<1>2. /\ contracts = [o \in Ids |-> contracts[o]] /\ \A o \in Ids : contracts[o] \in Contract(o)
  BY DEF ReportInv, LedgerInv, Standing, Shape
<1>3. \A a, prior : Applied(a, prior).height = height
  BY DEF Applied
<1> HIDE DEF c
<1>4. ASSUME NEW o \in Ids, NEW d \in Duties(o), contracts'[o].terms[d] # contracts[o].terms[d]
      PROVE  contracts'[o].terms[d].height = height
  <2>1. o = c
    BY <1>1, <1>2, <1>4
  <2>2. contracts[o].terms \in [Duties(o) -> Terms] /\ contracts[o] \in Contract(o)
    BY <1>2 DEF Contract
  <2> DEFINE terms == [e \in DOMAIN contracts[o].terms |->
                         IF e \in D THEN Applied(adjust[e], Prior(o, e)) ELSE contracts[o].terms[e]]
  <2>3. contracts'[o] = [contracts[o] EXCEPT !.terms = terms]
    BY <1>1, <1>2, <2>1
  <2>4. terms[d] = IF d \in D THEN Applied(adjust[d], Prior(o, d)) ELSE contracts[o].terms[d]
    BY <2>2
  <2> HIDE DEF terms
  <2>5. contracts'[o].terms = terms
    BY <2>2, <2>3 DEF Contract
  <2> QED
    BY <1>3, <1>4, <2>4, <2>5
<1> QED
  BY <1>4 DEF TermsNow

LEMMA StepPresent ==
  ASSUME ReportInv, [LedgerNext]_ledgerVars
  PROVE  Present
<1>1. LedgerInv /\ (SameTerms => TermsNow)
  BY DEF ReportInv, SameTerms, TermsNow
<1>2. CASE UNCHANGED ledgerVars
  <2>1. TermsNow /\ DisputesNow
    BY <1>2, NothingDisputed DEF ledgerVars, TermsNow
  <2> QED
    BY <1>2, <2>1, NothingPaid DEF ledgerVars
<1>3. ASSUME NEW c \in Ids, Create(c)
      PROVE  Present
  <2>1. paid' = paid /\ height' = height /\ case' = case /\ disputes' = disputes
    BY <1>3 DEF Create
  <2> QED
    BY <1>1, <1>3, <2>1, CreateKeeps, NothingDisputed, NothingPaid
<1>4. ASSUME NEW c \in Ids, NEW a \in Accounts,
             \/ Sign(a, c)
             \/ \E action \in {"VIEW", "USE"} : Access(a, c, action)
             \/ \E g \in Accounts : Grant(a, c, g)
             \/ \E p \in Claims : \E ds \in SUBSET Duties(c) : OpenDispute(p, a, c, ds)
      PROVE  Present
  <2>1. CASE Sign(a, c)
    <3>1. paid' = paid /\ height' = height /\ case' = case /\ disputes' = disputes
      BY <2>1 DEF Sign
    <3> QED
      BY <1>1, <2>1, <3>1, SignKeeps, NothingDisputed, NothingPaid
  <2>2. ASSUME NEW action \in {"VIEW", "USE"}, Access(a, c, action)
        PROVE  Present
    <3>1. /\ paid' = paid /\ height' = height /\ case' = case /\ disputes' = disputes
          /\ contracts' = contracts
      BY <2>2 DEF Access
    <3>2. SameTerms
      BY <3>1 DEF SameTerms
    <3> QED
      BY <1>1, <3>1, <3>2, NothingDisputed, NothingPaid
  <2>3. ASSUME NEW g \in Accounts, Grant(a, c, g)
        PROVE  Present
    <3>1. paid' = paid /\ height' = height /\ case' = case /\ disputes' = disputes
      BY <2>3 DEF Grant
    <3>2. SameTerms
      BY <1>1, <2>3, GrantKeeps
    <3> QED
      BY <1>1, <3>1, <3>2, NothingDisputed, NothingPaid
  <2>4. ASSUME NEW p \in Claims, NEW ds \in SUBSET Duties(c), OpenDispute(p, a, c, ds)
        PROVE  Present
    <3> DEFINE new == [contract |-> c, claimant |-> a, duties |-> ds, status |-> "OPEN",
                       opened |-> height, closed |-> NoOne, filings |-> {}]
    <3>1. /\ paid' = paid /\ height' = height /\ case' = case /\ contracts' = contracts
          /\ disputes[p].status = "NONE" /\ disputes' = [disputes EXCEPT ![p] = new]
      BY <2>4 DEF OpenDispute
    <3>2. new.opened = height /\ new.closed = NoOne
      OBVIOUS
    <3> HIDE DEF new
    <3>3. DisputesNow
      BY <3>1, <3>2, DisputePresent
    <3>4. SameTerms
      BY <3>1 DEF SameTerms
    <3> QED
      BY <1>1, <3>1, <3>3, <3>4, NothingPaid
  <2> QED
    BY <1>4, <2>1, <2>2, <2>3, <2>4
<1>5. ASSUME NEW c \in Ids, NEW d \in Duties(c), NEW amount \in 1 .. Text[c].owes[d].amount, Pay(c, d, amount)
      PROVE  Present
  BY <1>5, PayPresent
<1>6. ASSUME NEW p \in Claims,
             \/ \E a \in Accounts : File(p, a)
             \/ Withdraw(p)
             \/ \E D \in SUBSET AllDuties : \E adjust \in [D -> Awards] : Award(p, adjust)
      PROVE  Present
  <2>1. ASSUME NEW a \in Accounts, File(p, a)
        PROVE  Present
    <3> DEFINE new == [disputes[p] EXCEPT !.filings = @ \cup {a}]
    <3>1. /\ Open(p) /\ disputes' = [disputes EXCEPT ![p].filings = @ \cup {a}]
          /\ paid' = paid /\ height' = height /\ case' = case /\ contracts' = contracts
      BY <2>1 DEF File
    <3>2. /\ Sensible(disputes[p]) /\ disputes = [q \in Claims |-> disputes[q]]
          /\ disputes[p].closed = NoOne
      BY <1>1, <3>1, OpenTyped DEF ReportInv, Pending
    <3>3. disputes' = [disputes EXCEPT ![p] = new]
      BY <3>1, <3>2
    <3>4. /\ new.status = disputes[p].status /\ new.closed = disputes[p].closed
          /\ new.contract = disputes[p].contract /\ new.duties = disputes[p].duties
          /\ new.opened = disputes[p].opened
      BY <3>2 DEF Sensible, Dispute
    <3> HIDE DEF new
    <3>5. new.status # "NONE"
      BY <3>1, <3>4 DEF Open
    <3>6. DisputesNow
      BY <3>1, <3>2, <3>3, <3>4, <3>5, DisputePresent
    <3>7. SameTerms
      BY <3>1 DEF SameTerms
    <3> QED
      BY <1>1, <3>1, <3>6, <3>7, NothingPaid
  <2>2. CASE Withdraw(p)
    <3>1. /\ Open(p) /\ disputes' = [disputes EXCEPT ![p].status = "WITHDRAWN", ![p].closed = height]
          /\ paid' = paid /\ height' = height /\ case' = case /\ contracts' = contracts
      BY <2>2 DEF Withdraw
    <3>2. SameTerms
      BY <3>1 DEF SameTerms
    <3> QED
      BY <1>1, <3>1, <3>2, EndPresent, NothingPaid
  <2>3. ASSUME NEW D \in SUBSET AllDuties, NEW adjust \in [D -> Awards], Award(p, adjust)
        PROVE  Present
    <3>1. /\ Open(p) /\ disputes' = [disputes EXCEPT ![p].status = "CLOSED", ![p].closed = height]
          /\ paid' = paid /\ height' = height /\ case' = case
      BY <2>3 DEF Award
    <3> QED
      BY <2>3, <3>1, AwardDates, EndPresent, NothingPaid
  <2> QED
    BY <1>6, <2>1, <2>2, <2>3
<1>7. CASE NextBlock
  <2>1. /\ height' = height + 1 /\ case' = case /\ contracts' = contracts /\ disputes' = disputes
        /\ paid' = paid /\ height < case.blocks
    BY <1>7 DEF NextBlock
  <2>2. /\ height \in Heights /\ case.blocks \in Heights /\ MaxHeight \in Nat /\ Sums(paid)
    BY ContractsAssumption DEF ReportInv, LedgerInv
  <2>3. Later
    BY <2>1, <2>2 DEF Later, Heights
  <2>4. \A c \in Ids : \A d \in Duties(c) : \A h \in Heights : paid[c][d][h] \in Nat
    BY <2>2 DEF Sums
  <2>5. \A c \in Ids : \A d \in Duties(c) : \A h \in Heights : paid[c][d][h] <= paid'[c][d][h]
    BY <2>1, <2>4
  <2>6. PaysNow
    BY <2>1, <2>2, <2>5 DEF PaysNow
  <2>7. DisputesNow /\ TermsNow
    BY <2>1, NothingDisputed DEF TermsNow
  <2> QED
    BY <2>3, <2>6, <2>7 DEF Present
<1> QED
  BY <1>2, <1>3, <1>4, <1>5, <1>6, <1>7 DEF LedgerNext

LEMMA ReportStarts == Init => ReportInv
<1> SUFFICES ASSUME Init
             PROVE  ReportInv
  OBVIOUS
<1>1. LedgerInv /\ LedgerInit
  BY LedgerStarts DEF Init
<1>2. /\ case \in Cases /\ height = 1
      /\ contracts = [c \in Ids |-> [status |-> "NONE", signatures |-> {}, activated |-> NoOne, grantees |-> {},
                                     terms |-> [d \in Duties(c) |-> Original(c, d)]]]
      /\ disputes = [p \in Claims |-> [status |-> "NONE"]]
      /\ paid = [c \in Ids |-> [d \in Duties(c) |-> [h \in Heights |-> 0]]]
  BY <1>1 DEF LedgerInit
<1>3. case.blocks \in Heights /\ MaxHeight \in Nat
  BY <1>2, ContractsAssumption
<1>4. height \in Heights /\ height <= case.blocks
  BY <1>2, <1>3 DEF Heights
<1>5. Dated(contracts, height)
  <2>1. \A c \in Ids : \A d \in Duties(c) : contracts[c].terms[d] = Original(c, d)
    BY <1>2
  <2>2. \A c \in Ids : \A d \in Duties(c) : Original(c, d).height = 0
    BY DEF Original
  <2> QED
    BY <1>2, <2>1, <2>2 DEF Dated
<1>6. Sums(paid)
  BY <1>2 DEF Sums
<1>7. Pending
  BY <1>2 DEF Pending, Open
<1> QED
  BY <1>1, <1>4, <1>5, <1>6, <1>7 DEF ReportInv

\* legal.compliance: a duty reported as paid stays paid, and what was reported as of an
\* earlier block stands, but for duties that a second award is about; whatever is paid,
\* disputed and awarded, for any drafts, any number of disputes, awards and blocks.
THEOREM PastReportsStand == Spec => ReportsStand
<1> DEFINE Stand == \A c \in Ids : \A d \in Duties(c) :
                      PaidStaysPaid(c, d) /\ \A at \in Heights : PastStands(c, d, at)
<1>1. ASSUME ReportInv, [Next]_vars
      PROVE  ReportInv' /\ Stand
  <2>1. [LedgerNext]_ledgerVars /\ LedgerInv
    BY <1>1, VaultReadsLedger DEF ReportInv
  <2>2. LedgerInv' /\ Relieved
    BY <2>1, LedgerStep DEF Kept
  <2>3. Present
    BY <1>1, <2>1, StepPresent
  <2> QED
    BY <1>1, <2>2, <2>3, PresentStands
<1>2. ReportInv /\ [Next]_vars => ReportInv'
  BY <1>1
<1>3. ReportInv /\ [Next]_vars => [Stand]_ledgerVars
  BY <1>1
<1> QED
  BY <1>2, <1>3, ReportStarts, PTL DEF Spec, ReportsStand
=============================================================================
