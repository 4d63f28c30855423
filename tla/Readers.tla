------------------------------- MODULE Readers -------------------------------
(***************************************************************************)
(* Those who read the chain: the statistics (stats.py), the supply and use *)
(* tables (accounts.py) and the index that is kept beside it (index.py).   *)
(* They read copies of the chain (chain.py), which may lag behind, start   *)
(* from a snapshot, or be of another history with the same founding record.*)
(*                                                                         *)
(* The transactions are those that matter to a reader: balances are the    *)
(* subject of Ledger, who may recover a key that of Identity.  One         *)
(* contract, for Evidence.                                                 *)
(***************************************************************************)
EXTENDS Integers, SequencesExt, FiniteSetsExt, TLC

CONSTANTS
  Founding,   \* the accounts of the founding record: a function to their role and sector
  Newcomers,  \* the same, of the keys that may register
  Named,      \* the parties a contract names
  Fork,       \* the blocks of the other history
  Cases,      \* bound: the transactions a run is about, the blocks and transactions per
              \* block, who reads (index or not), and the copies that may be had
  NoOne

Tx == [kind : {"register", "pay", "rotate", "recover", "create", "sign"},
       by : STRING, old : STRING, to : STRING, amount : Nat, purpose : STRING]
Roles == {"household", "firm", "government", "foreign", "bank", "validator", "issuer"}

ASSUME ReadersAssumption ==
  /\ \A k \in DOMAIN Founding : Founding[k].role \in Roles
  /\ \A k \in DOMAIN Newcomers : Newcomers[k].role \in Roles
  /\ Cases \subseteq [txs : SUBSET Tx, blocks : Nat, size : Nat, index : BOOLEAN, bases : SUBSET Nat,
                      forks : BOOLEAN]
  /\ NoOne \notin Roles

VARIABLES
  case,   \* what the run chose of Cases
  chain,  \* the final blocks, each a sequence of transactions
  index   \* the database of the index
readerVars == <<case, chain, index>>

-----------------------------------------------------------------------------
(* What of State.apply a reader sees.                                       *)

Goods == {"FINAL_CONSUMPTION", "INTERMEDIATE", "INVESTMENT", "GOVERNMENT_PURCHASE", "EXPORT"}
Taxes == {"TAX production", "TAX income"}
\* PAYMENT_RULES: who may pay whom for what.
Mutant_MayBePaid(purpose) ==
  IF purpose \in {"EXPORT", "TRANSFER"} THEN {"firm"} ELSE IF purpose = "INTERMEDIATE" THEN {"firm", "foreign", "bank"}
  ELSE {"firm", "foreign", "household", "government"}
MayBePaid(purpose) ==
  CASE purpose = "EXPORT"    -> {"firm"}
    [] purpose \in Goods \ {"EXPORT"} -> {"firm", "foreign"}
    [] purpose = "WAGES"     -> {"household"}
    [] purpose \in Taxes     -> {"government"}
    [] purpose = "TRANSFER"  -> {"household", "firm"}
    [] purpose = "FINANCIAL" -> Roles \ {"validator", "issuer"}
MayPay(purpose) ==
  CASE purpose = "FINAL_CONSUMPTION" -> {"household"}
    [] purpose = "INTERMEDIATE" -> {"firm"}
    [] purpose = "INVESTMENT" -> {"firm", "household"}
    [] purpose \in {"GOVERNMENT_PURCHASE", "TRANSFER"} -> {"government"}
    [] purpose = "EXPORT"    -> {"foreign"}
    [] purpose = "WAGES"     -> {"firm", "government", "bank"}
    [] purpose \in Taxes     -> {"household", "firm", "bank", "foreign"}
    [] purpose = "FINANCIAL" -> Roles \ {"validator", "issuer"}

\* A state: the accounts, which keys were replaced, the contract's parties and signatures.
Genesis == [acct |-> Founding, replaced |-> {}, creator |-> NoOne, parties |-> {}, signed |-> {}]
Drafted(s) == s.creator # NoOne
InForce(s) == Drafted(s) /\ s.signed = s.parties

Valid(s, t) ==
  /\ t.kind # "register" => t.by \in DOMAIN s.acct \ s.replaced
  /\ CASE t.kind = "register" -> t.by \in DOMAIN Newcomers \ DOMAIN s.acct
       [] t.kind = "pay" -> /\ t.to \in DOMAIN s.acct \ (s.replaced \cup {t.by})
                            /\ s.acct[t.by].role \in MayPay(t.purpose)
                            /\ s.acct[t.to].role \in MayBePaid(t.purpose)
       [] t.kind \in {"rotate", "recover"} ->
            /\ t.kind = "rotate" => t.old = t.by
            /\ t.old \in DOMAIN s.acct \ s.replaced /\ t.to \notin DOMAIN s.acct
            /\ s.acct[t.old].role \notin {"validator", "issuer"}
            /\ t.kind = "recover" => s.acct[t.old].role # "government"
       [] t.kind = "create" -> ~ Drafted(s) /\ Named \subseteq DOMAIN s.acct
       [] t.kind = "sign" -> Drafted(s) /\ ~ InForce(s) /\ t.by \in s.parties \ s.signed

Swapped(S, t) == {IF k = t.old THEN t.to ELSE k : k \in S}
After(s, t) ==
  CASE t.kind = "register" -> [s EXCEPT !.acct = @ @@ (t.by :> Newcomers[t.by])]
    [] t.kind = "pay"      -> s
    [] t.kind \in {"rotate", "recover"} ->
         [s EXCEPT !.acct = @ @@ (t.to :> @[t.old]), !.replaced = @ \cup {t.old},
                   !.parties = Swapped(@, t), !.signed = Swapped(@, t)]
    [] t.kind = "create"   -> [s EXCEPT !.creator = t.by, !.parties = Named, !.signed = Named \cap {t.by}]
    [] t.kind = "sign"     -> [s EXCEPT !.signed = @ \cup {t.by}]

\* iter_txs, and the state after the first h blocks of a history.
Txs(blocks, from, to) == FlattenSeq(SubSeq(blocks, from, to))
StateAt(blocks, h) == FoldLeft(After, Genesis, Txs(blocks, 1, h))
Runs(s, q) == \A i \in DOMAIN q : Valid(FoldLeft(After, s, SubSeq(q, 1, i - 1)), q[i])

\* A copy of a history up to a height, from a snapshot at base (or from the start).
Copy(blocks, base, height) == [blocks |-> SubSeq(blocks, 1, height), base |-> base, height |-> height]
Copies ==
  {Copy(chain, b, h) : b \in {x \in case.bases : x <= Len(chain)}, h \in 0 .. Len(chain)}
    \cup (IF case.forks THEN {Copy(Fork, b, Len(Fork)) : b \in case.bases} ELSE {})
RealCopies == {c \in Copies : c.base <= c.height}

-----------------------------------------------------------------------------
(* stats.gdp, of payments q between accounts of these roles.                *)

Sum(q, Counts(_)) == FoldLeft(LAMBDA n, t : IF t.kind = "pay" /\ Counts(t) THEN n + t.amount ELSE n, 0, q)
RoleOf(acct, k) == IF k \in DOMAIN acct THEN acct[k].role ELSE NoOne
For(q, purpose) == Sum(q, LAMBDA t : t.purpose = purpose)

GovWages(acct, q) == Sum(q, LAMBDA t : t.purpose = "WAGES" /\ RoleOf(acct, t.by) = "government")
Imports(acct, q) == Sum(q, LAMBDA t : t.purpose \in Goods /\ RoleOf(acct, t.to) = "foreign")
Gdp(acct, q) ==
  [C |-> For(q, "FINAL_CONSUMPTION"), I |-> For(q, "INVESTMENT"),
   G |-> For(q, "GOVERNMENT_PURCHASE") + GovWages(acct, q), X |-> For(q, "EXPORT"), M |-> Imports(acct, q)]
Expenditure(r) == r.C + r.I + r.G + r.X - r.M
ValueAdded(acct, q, f) ==
  Sum(q, LAMBDA t : t.purpose \in Goods /\ t.to = f) - Sum(q, LAMBDA t : t.purpose = "INTERMEDIATE" /\ t.by = f)
Production(acct, q) ==
  LET firms == {f \in DOMAIN acct : acct[f].role = "firm"} IN
  FoldSet(LAMBDA f, n : n + ValueAdded(acct, q, f), 0, firms) + GovWages(acct, q)

-----------------------------------------------------------------------------
(* accounts.build: the supply and use tables of the same payments.          *)

\* A firm names its sector itself, and these names stand in the same columns.
Reserved == {"government", "government services", "imports", "financial (not measured)"}
Sectors(acct) == {acct[k].sector : k \in {x \in DOMAIN acct : acct[x].role = "firm"}}
ProductOf(acct, t) == IF acct[t.to].role = "foreign" THEN "imports" ELSE acct[t.to].sector
IndustryOf(acct, t) ==
  CASE acct[t.by].role = "firm" -> acct[t.by].sector
    [] acct[t.by].role = "government" -> "government"
    [] OTHER -> "financial (not measured)"
Industries(acct) == SetToSeq(Sectors(acct)) \o <<"government", "financial (not measured)">>
Products(acct) == SetToSeq(Sectors(acct)) \o <<"government services", "imports">>

Output(acct, q, i) ==
  Sum(q, LAMBDA t : t.purpose \in Goods /\ acct[t.to].role # "foreign" /\ acct[t.to].sector = i)
    + (IF i = "government" THEN GovWages(acct, q) ELSE 0)
Supply(acct, q, p) ==
  CASE p = "imports" -> Imports(acct, q)
    [] p = "government services" -> Output(acct, q, "government")
    [] OTHER -> Output(acct, q, p)
Used(acct, q, p, i) ==
  Sum(q, LAMBDA t : t.purpose = "INTERMEDIATE" /\ ProductOf(acct, t) = p /\ IndustryOf(acct, t) = i)
FinalUse(acct, q, p) ==
  Sum(q, LAMBDA t : t.purpose \in Goods \ {"INTERMEDIATE"} /\ ProductOf(acct, t) = p)
    + (IF p = "government services" THEN GovWages(acct, q) ELSE 0)

Over(names, f(_)) == FoldLeft(LAMBDA n, x : n + f(x), 0, names)
Intermediate(acct, q, i) == Over(Products(acct), LAMBDA p : Used(acct, q, p, i))
Use(acct, q, p) == Over(Industries(acct), LAMBDA i : Used(acct, q, p, i)) + FinalUse(acct, q, p)
TableProduction(acct, q) ==
  Over(Industries(acct), LAMBDA i : Output(acct, q, i) - Intermediate(acct, q, i))
TableExpenditure(acct, q) == Over(Products(acct), LAMBDA p : FinalUse(acct, q, p)) - Imports(acct, q)

-----------------------------------------------------------------------------
(* Index.  hist stands for the hash of the last block indexed, which is of  *)
(* all the blocks before it (before any is, of those before the snapshot    *)
(* its accounts are from); first is the block before the first indexed;     *)
(* grafted (which it cannot know), that the blocks it was fed were not the  *)
(* next of these.                                                           *)

NoIndex == [made |-> FALSE, first |-> 0, hist |-> <<>>, acct |-> << >>, at |-> 0, metrics |-> << >>,
            grafted |-> FALSE]

\* The first time: the founding accounts, or those of the snapshot (a transaction of its own).
Prepared(x, c) ==
  IF x.made THEN x
  ELSE [x EXCEPT !.made = TRUE, !.hist = SubSeq(c.blocks, 1, c.base),
                 !.acct = IF c.base = 0 THEN Founding ELSE StateAt(c.blocks, c.base).acct]

Mutant_Follows(x, c) == x.at <= c.height
Follows(x, c) ==
  /\ x.at <= c.height
  /\ ~ (0 < x.at /\ x.at < c.base)
  /\ x.at > c.base => x.hist = SubSeq(c.blocks, 1, x.at)

\* _add_block, of one transaction: the accounts, then what the payment counts as.
Known(acct, t) ==
  CASE t.kind = "register" -> acct @@ (t.by :> Newcomers[t.by])
    [] t.kind \in {"rotate", "recover"} /\ t.old \in DOMAIN acct -> acct @@ (t.to :> acct[t.old])
    [] OTHER -> acct
Mutant_Indexed(x, t) ==
  [acct |-> IF t.kind = "register" THEN Known(x.acct, t) ELSE x.acct,
   q |-> IF t.kind = "pay" THEN Append(x.q, Gdp(x.acct, <<t>>)) ELSE x.q]
Indexed(x, t) ==
  [acct |-> Known(x.acct, t), q |-> IF t.kind = "pay" THEN Append(x.q, Gdp(x.acct, <<t>>)) ELSE x.q]
Metrics(q) == [k \in {"C", "I", "G", "X", "M"} |-> FoldLeft(LAMBDA n, r : n + r[k], 0, q)]
Added(x, blk) ==
  LET read == FoldLeft(Indexed, [acct |-> x.acct, q |-> <<>>], blk) IN
  [x EXCEPT !.acct = read.acct, !.metrics = @ @@ (x.at + 1 :> Metrics(read.q)), !.at = @ + 1]

\* All blocks the index has not seen, in one transaction.
Fed(x, c) ==
  LET from == IF x.at > c.base THEN x.at ELSE c.base
      known == IF x.at = 0 THEN c.base ELSE x.at
      start == [x EXCEPT !.at = from, !.first = IF x.at = 0 THEN c.base ELSE @,
                         !.grafted = @ \/ x.hist # SubSeq(c.blocks, 1, known)] IN
  IF from = c.height THEN x
  ELSE [FoldLeft(Added, start, SubSeq(c.blocks, from + 1, c.height)) EXCEPT !.hist = SubSeq(c.blocks, 1, c.height)]

\* sync.  It may die between the two transactions, or refuse the copy after the first.
SyncIndex(c) ==
  /\ case.index
  /\ index' = IF Follows(Prepared(index, c), c) THEN Fed(Prepared(index, c), c) ELSE Prepared(index, c)
  /\ UNCHANGED <<case, chain>>
DieSyncing(c) ==
  /\ case.index /\ ~ index.made
  /\ index' = Prepared(index, c)
  /\ UNCHANGED <<case, chain>>

\* An index of an older version is dropped, and built again by the next sync.
Outdated ==
  /\ index.made /\ case.forks
  /\ index' = NoIndex
  /\ UNCHANGED <<case, chain>>

Finalise(q) ==
  /\ Len(chain) < case.blocks
  /\ Runs(StateAt(chain, Len(chain)), q)
  /\ chain' = Append(chain, q)
  /\ UNCHANGED <<case, index>>

Blocks == UNION {[1 .. n -> case.txs] : n \in 1 .. case.size}

Init == case \in Cases /\ chain = <<>> /\ index = NoIndex
Next ==
  \/ \E q \in Blocks : Finalise(q)
  \/ \E c \in RealCopies : SyncIndex(c) \/ DieSyncing(c)
  \/ Outdated

Spec == Init /\ [][Next]_readerVars

-----------------------------------------------------------------------------
\* What the index says of a block is what the statistics say of it, read from the chain:
\* through key changes, restarts, copies that lag behind and snapshots.  Not, if the index
\* was prepared from one snapshot and first fed from the copy of a later one, or took a
\* snapshot of exactly its height for its own history (no block is left to compare).
\* Nothing indexed is lost or replaced, no block is left out once the index has begun, and
\* it goes on along the history it has followed (index.py: "if the chain offered next time
\* does not extend the history already indexed, the index refuses"), but for that snapshot.
TellsTheTruth ==
  ~ index.grafted =>
    \A h \in DOMAIN index.metrics :
      index.metrics[h] = Gdp(StateAt(index.hist, index.at).acct, index.hist[h])
Extends ==
  index'.made =>
    /\ index'.at > 0 => DOMAIN index'.metrics = index'.first + 1 .. index'.at
    /\ \A h \in DOMAIN index.metrics : h \in DOMAIN index'.metrics /\ index'.metrics[h] = index.metrics[h]
    /\ \/ index.at = 0
       \/ index.hist = SubSeq(index'.hist, 1, index.at)
       \/ index'.grafted /\ index'.at > index.at
IndexFaithful == [][TellsTheTruth' /\ Extends]_index

\* On any valid history the tables balance, product by product, and give the figures the
\* statistics give in both ways (accounts.py: "the identities hold exactly"), unless a
\* firm has named its sector like a column of the tables.
AccountsBalance ==
  LET acct == StateAt(chain, Len(chain)).acct IN
  Sectors(acct) \cap Reserved = {} =>
    \A h \in 0 .. Len(chain) :
      LET q == IF h = 0 THEN Txs(chain, 1, Len(chain)) ELSE chain[h] IN
      /\ \A p \in ToSet(Products(acct)) : Supply(acct, q, p) = Use(acct, q, p)
      /\ {TableProduction(acct, q), TableExpenditure(acct, q), Production(acct, q)}
           = {Expenditure(Gdp(acct, q))}
=============================================================================
