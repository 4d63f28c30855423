------------------------------ MODULE Contracts ------------------------------
(***************************************************************************)
(* Contracts, access receipts and disputes of State.apply (state.py), and  *)
(* what legal.compliance reports of them.  Protocol version 2.             *)
(*                                                                         *)
(* Transactions are applied one by one to the block at `height'; reports   *)
(* are about the blocks below it.  Balances are the subject of Ledger: a   *)
(* payer here can always pay.  A text is known by its contract, so a       *)
(* signature is always one for the exact text.                             *)
(***************************************************************************)
EXTENDS Integers, FiniteSetsExt, SequencesExt

CONSTANTS
  Accounts,   \* registered accounts
  Verified,   \* of which with a valid attestation, or in no need of one
  Text,       \* the drafts people may register: a function from ids to terms
  Claims,     \* ids of the disputes that may be opened
  Cases,      \* bound: the contracts, kinds of transactions, readers and blocks a run is about
  Awards,     \* bound: the amounts and due heights an award may name
  MaxHeight,  \* bound: blocks in any of them
  MaxViews,   \* bound: receipts per reader
  MaxPaid,    \* bound: uses per payer
  MaxFilings, \* bound: who files, per dispute
  NoOne       \* no arbitrator, no value

Ids == DOMAIN Text
Duties(c) == DOMAIN Text[c].owes
AllDuties == UNION {Duties(c) : c \in Ids}
Heights == 1 .. MaxHeight

Duty == [payer : Accounts, payee : Accounts, amount : Nat, due : Nat]
\* The terms in force of a duty: height is that of the latest award about it, or 0.
Terms == [height : Nat, amount : Nat, due : Nat, waived : BOOLEAN]

ASSUME ContractsAssumption ==
  /\ Verified \subseteq Accounts /\ NoOne \notin Accounts \cup Int
  /\ \A c \in Ids :
       /\ Text[c].creator \in Accounts /\ Text[c].parties \subseteq Accounts
       /\ Text[c].supersedes \cup Text[c].cites \subseteq Ids /\ Text[c].public \in BOOLEAN
       /\ Text[c].arbitrator \in Accounts \cup {NoOne}
       /\ Text[c].owes \in [Duties(c) -> Duty]
  /\ Cases \subseteq [contracts : SUBSET Ids, kinds : SUBSET STRING, readers : SUBSET Accounts,
                       blocks : Heights]
  /\ Awards \subseteq [amount : Nat \cup {NoOne}, due : Nat \cup {NoOne}, waived : BOOLEAN]
  /\ {MaxHeight, MaxViews, MaxPaid, MaxFilings} \subseteq Nat

VARIABLES
  case,       \* what the run chose of Cases
  height,     \* of the block under construction
  contracts,  \* per contract: its status, who signed, since when it is in force, who was
              \* granted access, and the terms in force of its duties
  disputes,   \* per claim: the contract, the claimant, the duties, and its life
  paid,       \* per contract, duty and height: the sum paid
  log         \* access_log: how often each account viewed, used or cited each contract
ledgerVars == <<case, height, contracts, disputes, paid, log>>

-----------------------------------------------------------------------------
Status == {"NONE", "DRAFT", "ACTIVE", "SUPERSEDED"}
Created(c) == contracts[c].status # "NONE"
Allowed(kind) == kind \in case.kinds
Parties(c) == Text[c].parties

\* A recorded access, of who to c.
Logged(c, who, action) == [log EXCEPT ![<<c, who, action>>] = @ + 1]

\* What _contract_create and _check_obligations ask of a draft.
WellFormed(c) ==
  LET t == Text[c] IN
  /\ t.parties # {} /\ t.parties \subseteq Verified
  /\ \A r \in t.supersedes \cup t.cites : Created(r)
  /\ t.arbitrator \notin t.parties
  /\ \A d \in Duties(c) :
       /\ {t.owes[d].payer, t.owes[d].payee} \subseteq t.parties /\ t.owes[d].payer # t.owes[d].payee
       /\ t.owes[d].amount > 0 /\ t.owes[d].due > 0

\* _maybe_activate: the last signature brings c into force, and takes out of force what
\* it supersedes if that is in force and all its parties are parties to c.
Mutant_AnyParty(old, c) == Parties(old) \cap Parties(c) # {}
MayReplace(old, c) == Parties(old) \subseteq Parties(c)
Activated(cs, c) ==
  IF cs[c].signatures # Parties(c) THEN cs
  ELSE [old \in Ids |->
         CASE old = c -> [cs[c] EXCEPT !.status = "ACTIVE", !.activated = height]
           [] old \in Text[c].supersedes /\ cs[old].status = "ACTIVE" /\ MayReplace(old, c) ->
                [cs[old] EXCEPT !.status = "SUPERSEDED"]
           [] OTHER -> cs[old]]
Signed(cs, c, a) == Activated([cs EXCEPT ![c].signatures = @ \cup {a}], c)

Create(c) ==
  LET t == Text[c]
      drafted == [contracts EXCEPT ![c].status = "DRAFT"] IN
  /\ c \in case.contracts /\ ~ Created(c) /\ WellFormed(c)
  /\ contracts' = IF t.creator \in t.parties THEN Signed(drafted, c, t.creator) ELSE drafted
  /\ log' = [e \in DOMAIN log |->
               IF e[1] \in t.supersedes \cup t.cites /\ e[2] = t.creator /\ e[3] = "CITE"
               THEN log[e] + 1 ELSE log[e]]
  /\ UNCHANGED <<case, height, disputes, paid>>

Sign(a, c) ==
  /\ contracts[c].status = "DRAFT"
  /\ a \in (Parties(c) \ contracts[c].signatures) \cap Verified
  /\ contracts' = Signed(contracts, c, a)
  /\ UNCHANGED <<case, height, disputes, paid, log>>

-----------------------------------------------------------------------------
CanRead(c, a) ==
  /\ Created(c)
  /\ Text[c].public \/ a \in Parties(c) \cup contracts[c].grantees \cup {Text[c].arbitrator}

Access(a, c, action) ==
  /\ Allowed(action) /\ a \in case.readers /\ CanRead(c, a) /\ log[<<c, a, action>>] < MaxViews
  /\ log' = Logged(c, a, action)
  /\ UNCHANGED <<case, height, contracts, disputes, paid>>

Grant(a, c, grantee) ==
  /\ Created(c) /\ a \in Parties(c)
  /\ grantee \in case.readers \ contracts[c].grantees
  /\ contracts' = [contracts EXCEPT ![c].grantees = @ \cup {grantee}]
  /\ UNCHANGED <<case, height, disputes, paid, log>>

\* A payment that names a contract and one of its duties.
Pay(c, d, amount) ==
  LET owed == Text[c].owes[d] IN
  /\ Allowed("pay") /\ contracts[c].status = "ACTIVE"
  /\ log[<<c, owed.payer, "USE">>] < MaxPaid
  /\ paid' = [paid EXCEPT ![c][d][height] = @ + amount]
  /\ log' = Logged(c, owed.payer, "USE")
  /\ UNCHANGED <<case, height, contracts, disputes>>

-----------------------------------------------------------------------------
Open(p) == disputes[p].status = "OPEN"

OpenDispute(p, a, c, ds) ==
  /\ Allowed("dispute") /\ disputes[p].status = "NONE"
  /\ contracts[c].status \in {"ACTIVE", "SUPERSEDED"}
  /\ a \in Parties(c) /\ Text[c].arbitrator # NoOne
  /\ disputes' = [disputes EXCEPT ![p] =
                    [contract |-> c, claimant |-> a, duties |-> ds, status |-> "OPEN",
                     opened |-> height, closed |-> NoOne, filings |-> {}]]
  /\ UNCHANGED <<case, height, contracts, paid, log>>

File(p, a) ==
  LET c == disputes[p].contract IN
  /\ Allowed("file") /\ Open(p) /\ a \in Parties(c) \cup {Text[c].arbitrator}
  /\ Cardinality(disputes[p].filings) < MaxFilings
  /\ disputes' = [disputes EXCEPT ![p].filings = @ \cup {a}]
  /\ UNCHANGED <<case, height, contracts, paid, log>>

Withdraw(p) ==
  /\ Open(p)
  /\ disputes' = [disputes EXCEPT ![p].status = "WITHDRAWN", ![p].closed = height]
  /\ UNCHANGED <<case, height, contracts, paid, log>>

\* The terms an award measures itself against: those in force, earlier awards
\* included (protocol 1 took the original ones).
Original(c, d) == [height |-> 0, amount |-> Text[c].owes[d].amount, due |-> Text[c].owes[d].due,
                   waived |-> FALSE]
Mutant_Original(c, d) == Original(c, d)
Prior(c, d) == contracts[c].terms[d]

\* An adjustment may reduce, postpone or waive, and must do one of them.
Mutant_Bounded(a, prior) == a.amount # NoOne => a.amount \in 1 .. prior.amount
Bounded(a, prior) ==
  /\ a.amount # NoOne => a.amount \in 1 .. prior.amount
  /\ a.due # NoOne => a.due >= prior.due
Lawful(a, prior) ==
  /\ a.amount # NoOne \/ a.due # NoOne \/ a.waived
  /\ prior.waived => a.amount = NoOne /\ a.due = NoOne
  /\ Bounded(a, prior)
Applied(a, prior) ==
  [height |-> height,
   amount |-> IF a.amount = NoOne THEN prior.amount ELSE a.amount,
   due    |-> IF a.due = NoOne THEN prior.due ELSE a.due,
   waived |-> prior.waived \/ a.waived]

\* The arbitrator's decision: adjustments of some of the duties in dispute.
Award(p, adjust) ==
  LET c == disputes[p].contract IN
  /\ Open(p) /\ DOMAIN adjust \subseteq disputes[p].duties
  /\ \A d \in DOMAIN adjust : Lawful(adjust[d], Prior(c, d))
  /\ contracts' = [contracts EXCEPT ![c].terms =
                     [d \in DOMAIN @ |-> IF d \in DOMAIN adjust THEN Applied(adjust[d], Prior(c, d)) ELSE @[d]]]
  /\ disputes' = [disputes EXCEPT ![p].status = "CLOSED", ![p].closed = height]
  /\ UNCHANGED <<case, height, paid, log>>

NextBlock ==
  /\ height < case.blocks /\ height' = height + 1
  /\ UNCHANGED <<case, contracts, disputes, paid, log>>

-----------------------------------------------------------------------------
(* legal.compliance, for one duty, as of the block at height `at'.          *)

\* Only the latest award is kept: before it, the original terms are reported.
Mutant_LatestTerms(c, d, at) == contracts[c].terms[d]
TermsAt(c, d, at) ==
  IF contracts[c].terms[d].height <= at THEN contracts[c].terms[d] ELSE Original(c, d)
PaidBy(c, d, at) == FoldSet(LAMBDA h, n : n + paid[c][d][h], 0, {h \in Heights : h <= at})
SettledAt(c, d, at) == {h \in Heights : h <= at /\ PaidBy(c, d, h) >= TermsAt(c, d, at).amount}
InDispute(c, d, at) ==
  \E p \in Claims : /\ disputes[p].status # "NONE" /\ disputes[p].contract = c
                    /\ d \in disputes[p].duties /\ disputes[p].opened <= at
                    /\ disputes[p].closed = NoOne \/ disputes[p].closed > at

Report(c, d, at) ==
  LET terms == TermsAt(c, d, at) IN
  CASE SettledAt(c, d, at) # {} -> IF Min(SettledAt(c, d, at)) <= terms.due THEN "PAID" ELSE "PAID_LATE"
    [] OTHER ->
       CASE terms.waived       -> "WAIVED"
         [] InDispute(c, d, at) /\ ~ terms.waived -> "DISPUTED"
         [] ~ InDispute(c, d, at) /\ ~ terms.waived /\ at > terms.due -> "OVERDUE"
         [] OTHER -> IF PaidBy(c, d, at) > 0 THEN "PARTIAL" ELSE "PENDING"

-----------------------------------------------------------------------------
LedgerInit ==
  /\ case \in Cases
  /\ height = 1
  /\ contracts = [c \in Ids |-> [status |-> "NONE", signatures |-> {}, activated |-> NoOne, grantees |-> {},
                                 terms |-> [d \in Duties(c) |-> Original(c, d)]]]
  /\ disputes = [p \in Claims |-> [status |-> "NONE"]]
  /\ paid = [c \in Ids |-> [d \in Duties(c) |-> [h \in Heights |-> 0]]]
  /\ log = [e \in Ids \X Accounts \X {"VIEW", "USE", "CITE"} |-> 0]

LedgerNext ==
  \/ \E c \in Ids : Create(c)
  \/ \E c \in Ids, a \in Accounts :
       \/ Sign(a, c)
       \/ \E action \in {"VIEW", "USE"} : Access(a, c, action)
       \/ \E g \in Accounts : Grant(a, c, g)
       \/ \E p \in Claims : \E ds \in SUBSET Duties(c) : OpenDispute(p, a, c, ds)
  \/ \E c \in Ids : \E d \in Duties(c) : \E amount \in 1 .. Text[c].owes[d].amount : Pay(c, d, amount)
  \/ \E p \in Claims :
       \/ \E a \in Accounts : File(p, a)
       \/ Withdraw(p)
       \/ \E D \in SUBSET AllDuties : \E adjust \in [D -> Awards] : Award(p, adjust)
  \/ NextBlock

-----------------------------------------------------------------------------
\* A contract is in force once all its parties have signed it, and goes out of force only
\* when they have all signed another one that says so and came into force later
\* (docs/LEGAL.md: "a new contract signed by at least the same parties").  A contract
\* whose last signature comes after that of its replacement stays in force.
InForce ==
  \A c \in Ids :
    /\ contracts[c].status \in {"ACTIVE", "SUPERSEDED"} => contracts[c].signatures = Parties(c)
    /\ contracts[c].status = "SUPERSEDED" =>
         \E n \in Ids : /\ c \in Text[n].supersedes /\ Parties(c) \subseteq contracts[n].signatures
                        /\ contracts[n].status \in {"ACTIVE", "SUPERSEDED"}
    /\ contracts[c].status = "ACTIVE" =>
         \A n \in Ids : c \in Text[n].supersedes /\ Parties(c) \subseteq Parties(n)
                        /\ contracts[n].status \in {"ACTIVE", "SUPERSEDED"}
                          => contracts[c].activated >= contracts[n].activated

\* Over any number of disputes and awards, what a duty asks of its payer only gets
\* less, later or nothing (the audit's finding H9), and only by closing a dispute in
\* which a party named it.
ReliefStands ==
  [][\A c \in Ids : \A d \in Duties(c) :
       LET old == contracts[c].terms[d]
           new == contracts'[c].terms[d] IN
       old # new =>
         /\ new.amount <= old.amount /\ new.due >= old.due /\ (old.waived => new.waived)
         /\ \E p \in Claims : /\ Open(p) /\ disputes[p].contract = c /\ d \in disputes[p].duties
                              /\ disputes[p].claimant \in Parties(c) /\ disputes'[p].status = "CLOSED"]_ledgerVars

\* A duty once reported as paid in time stays so, and one paid late stays paid, through
\* later awards, disputes and replacements of the contract (a report is about the last
\* block, and the block under construction may end with any transaction).  And what is
\* reported as of an earlier block does not change any more, unless the duty has been the
\* subject of one award before that block and is of another now: the report then falls
\* back to the original terms.
PaidStaysPaid(c, d) ==
  LET before == Report(c, d, height)
      after == Report(c, d, height)' IN
  /\ before = "PAID" => after = "PAID"
  /\ before = "PAID_LATE" => after \in {"PAID", "PAID_LATE"}
PastStands(c, d, at) ==
  at < height /\ Report(c, d, at)' # Report(c, d, at)
    => contracts[c].terms[d].height \in 1 .. at /\ contracts'[c].terms[d].height = height
ReportsStand ==
  [][\A c \in Ids : \A d \in Duties(c) :
       PaidStaysPaid(c, d) /\ \A at \in Heights : PastStands(c, d, at)]_ledgerVars
=============================================================================
