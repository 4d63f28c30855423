-------------------------------- MODULE Vault --------------------------------
(***************************************************************************)
(* The threshold-encrypted vault (vault.py), beside the ledger of          *)
(* Contracts: one contract's text is sealed, its key is shared among       *)
(* custodians, who release shares against VIEW receipts on the ledger and  *)
(* may be replaced by re-sharing.  Version 2 files, journals of 0.26.      *)
(*                                                                         *)
(* Shares are real Shamir shares over a small prime field.  A commitment   *)
(* to a polynomial is the polynomial, which only Valid and the public      *)
(* checks look at: it hides what it commits to.  Encryption to a key is a  *)
(* value only its holder is given.  The journal's keyed chain is the       *)
(* number of lines it covers.                                              *)
(***************************************************************************)
EXTENDS Contracts

CONSTANTS
  Custodians,
  Liars,      \* custodians who may do anything but have others' shares
  Sealed,     \* the contract whose text is in the vault
  Q,          \* the prime of the field
  Secret,     \* the key of the text
  FirstPlan,  \* the custodians, in their slots, and the threshold the text is sealed for
  Plans,      \* bound: those it may be re-shared to
  Coins       \* bound: the random coefficients drawn

Field == 0 .. Q - 1
Slots(cs) == DOMAIN cs
Slot(cs, k) == CHOOSE i \in DOMAIN cs : cs[i] = k

ASSUME VaultAssumption ==
  /\ Liars \subseteq Custodians /\ Sealed \in Ids
  /\ Q \in Nat \ {0, 1} /\ \A n \in 2 .. Q - 1 : Q % n # 0
  /\ Secret \in Field \ {0} /\ Coins \subseteq Field
  /\ \A p \in Plans \cup {FirstPlan} :
                         /\ p[1] \in Seq(Custodians) /\ IsInjective(p[1])
                         /\ p[2] \in 1 .. Len(p[1]) /\ Len(p[1]) < Q
                         /\ Cardinality(ToSet(p[1]) \cap Liars) < p[2]

VARIABLES
  files,  \* the sealed files, one per epoch: the first from seal, the others from reshare
  deals,  \* the contributions of every re-sharing tried, successful or not
  cust,   \* per custodian: up, what it counts as released, its journal on disk
  sent,   \* per custodian and reader: the shares that really left
  got     \* the shares readers have received
vaultVars == <<files, deals, cust, sent, got>>
vars == <<ledgerVars, vaultVars>>

-----------------------------------------------------------------------------
(* Shamir's scheme.  A polynomial is the sequence of its coefficients.      *)

Mod(n) == ((n % Q) + Q) % Q
Total(S, f(_)) == Mod(FoldSet(LAMBDA i, n : n + f(i), 0, S))
Eval(p, x) == Total(DOMAIN p, LAMBDA j : p[j] * x ^ (j - 1))
Over(a, b) == CHOOSE c \in Field : Mod(c * b) = Mod(a)

\* lagrange_at_zero: the weight of the point at x in the value at 0.
Weights == [xs \in SUBSET (Field \ {0}) |->
              [x \in xs |-> FoldSet(LAMBDA y, w : Mod(w * Over(-y, x - y)), 1, xs \ {x})]]
Weight(xs, x) == Weights[xs][x]
\* combine: the value at 0 of the polynomial through the points.
Combine(ys) == Total(DOMAIN ys, LAMBDA x : ys[x] * Weight(DOMAIN ys, x))

\* _poly: a given value at 0, the other coefficients at random.
Mutant_SeededOnce(y, k) == {[i \in 1 .. k |-> IF i = 1 THEN y ELSE CHOOSE c \in Coins : TRUE]}
Polys(y, k) == {<<y>> \o r : r \in [1 .. k - 1 -> Field]}
Drawn(y, k) == {p \in Polys(y, k) : \A i \in 2 .. k : p[i] \in Coins}

\* share_valid, and the checks of open_sealed on a release.
ShareValid(p, x, y) == y = Eval(p, x)
Usable(f, r) == r.epoch = f.epoch /\ ShareValid(f.poly, r.x, r.y)
\* open_sealed: enough usable releases in different slots, and the key they give.
Good(f, rs) == {r \in rs : Usable(f, r)}
Opens(f, rs) ==
  \E S \in SUBSET {r.x : r \in Good(f, rs)} :
    /\ Cardinality(S) = f.threshold
    /\ Combine([x \in S |-> Eval(f.poly, x)]) = Secret

-----------------------------------------------------------------------------
(* Custodians.                                                              *)

Current == files[Len(files)]
Holds(k, f) == k \in ToSet(f.custodians)
Views(a) == log[<<Sealed, a, "VIEW">>]

\* __post_init__: the lines of a journal, read in order; a torn last line is cut.
Line(a, n, prev) == [reader |-> a, receipt |-> n, prev |-> prev]
Damaged == Line(NoOne, 0, -1)
Sound(disk) == \A i \in DOMAIN disk : disk[i].prev = i - 1
Counted(disk) ==
  [a \in Accounts |-> Max({0} \cup {disk[i].receipt : i \in {j \in DOMAIN disk : disk[j].reader = a}})]

\* What a write adds to the file: after a half-written line the next one is glued to it.
Written(c, line) == [c EXCEPT !.disk = Append(@, IF c.torn THEN Damaged ELSE line), !.torn = FALSE]
Torn(c) == [c EXCEPT !.torn = TRUE]

\* release, up to the write: the checks, and the line to be journalled.
MayRelease(k, a, f) ==
  /\ cust[k].status = "up" /\ Holds(k, f) /\ CanRead(Sealed, a)
  /\ cust[k].released[a] < Views(a)
Entry(k, a) == Line(a, cust[k].released[a] + 1, cust[k].head)
Released(c, a, line) == [Written(c, line) EXCEPT !.head = c.head + 1, !.released[a] = c.released[a] + 1]
Share(k, f) == [epoch |-> f.epoch, x |-> Slot(f.custodians, k), y |-> f.shares[k]]

\* The line is durable, then the share leaves.
Release(k, a, f) ==
  /\ k \notin Liars /\ MayRelease(k, a, f)
  /\ cust' = [cust EXCEPT ![k] = Released(@, a, Entry(k, a))]
  /\ sent' = [sent EXCEPT ![k][a] = @ + 1]
  /\ got' = got \cup {<<a, Share(k, f)>>}
  /\ UNCHANGED <<ledgerVars, files, deals>>

\* The process dies while it writes the line, or between the write and the answer.
DieReleasing(k, a, f) ==
  /\ "die" \in case.kinds /\ k \notin Liars /\ MayRelease(k, a, f)
  /\ \E c \in {Torn(cust[k]), Written(cust[k], Entry(k, a))} :
       cust' = [cust EXCEPT ![k] = [c EXCEPT !.status = "down"]]
  /\ UNCHANGED <<ledgerVars, files, deals, sent, got>>

\* The write fails (a full disk, an I/O error): release raises, the custodian goes on.
FailWrite(k, a, f) ==
  /\ "fail" \in case.kinds /\ k \notin Liars /\ MayRelease(k, a, f) /\ ~ cust[k].failed
  /\ \E c \in {Torn(cust[k]), Written(cust[k], Entry(k, a))} :
       cust' = [cust EXCEPT ![k] = [c EXCEPT !.failed = TRUE]]
  /\ UNCHANGED <<ledgerVars, files, deals, sent, got>>

Die(k) ==
  /\ "die" \in case.kinds /\ k \notin Liars /\ cust[k].status = "up"
  /\ cust' = [cust EXCEPT ![k].status = "down"]
  /\ UNCHANGED <<ledgerVars, files, deals, sent, got>>

\* A new Custodian on the journal: it counts what the journal says, or refuses.
Mutant_CutAtDamage(c) ==
  LET good == SubSeq(c.disk, 1, Max({0} \cup {n \in DOMAIN c.disk : Sound(SubSeq(c.disk, 1, n))})) IN
  [c EXCEPT !.status = "up", !.disk = good, !.torn = FALSE, !.head = Len(good), !.released = Counted(good)]
Mutant_TornRefused(c) ==
  IF c.torn THEN [c EXCEPT !.status = "refusing"]
  ELSE [c EXCEPT !.status = "up", !.head = Len(c.disk), !.released = Counted(c.disk)]
Started(c) ==
  IF ~ Sound(c.disk) THEN [c EXCEPT !.status = "refusing"]
  ELSE [c EXCEPT !.status = "up", !.torn = FALSE, !.head = Len(c.disk), !.released = Counted(c.disk)]
Start(k) ==
  /\ cust[k].status = "down"
  /\ cust' = [cust EXCEPT ![k] = Started(@)]
  /\ UNCHANGED <<ledgerVars, files, deals, sent, got>>

\* A liar gives its share, or a false one, to whom it likes.
Leak(k, a, f) ==
  /\ "leak" \in case.kinds /\ k \in Liars /\ Holds(k, f)
  /\ \E y \in {f.shares[k], Mod(f.shares[k] + 1)} : got' = got \cup {<<a, [Share(k, f) EXCEPT !.y = y]>>}
  /\ UNCHANGED <<ledgerVars, files, deals, cust, sent>>

-----------------------------------------------------------------------------
(* Sealing and re-sharing.                                                  *)

Sealing(epoch, cs, k, p, shares) ==
  [epoch |-> epoch, custodians |-> cs, threshold |-> k, poly |-> p, shares |-> shares]

Seal ==
  /\ "seal" \in case.kinds /\ Created(Sealed) /\ files = <<>>
  /\ \E p \in Drawn(Secret, FirstPlan[2]) :
       files' = <<Sealing(0, FirstPlan[1], FirstPlan[2], p,
                          [k \in ToSet(FirstPlan[1]) |-> Eval(p, Slot(FirstPlan[1], k))])>>
  /\ UNCHANGED <<ledgerVars, deals, cust, sent, got>>

\* contribute: polynomials that start from the own share; a liar may start from another
\* value, or send a sub-share that is not on its polynomial (bad).
Contributions(f, k, threshold) ==
  LET y == f.shares[k] IN
  [poly : Drawn(y, threshold) \cup (IF k \in Liars THEN Drawn(Mod(y + 1), threshold) ELSE {}),
   bad  : IF k \in Liars THEN BOOLEAN ELSE {FALSE}]

\* contribution_valid: the public check against the sender's committed share.
StartsFromShare(f, k, c) == c.poly[1] = Eval(f.poly, Slot(f.custodians, k))

\* Who is left of the contributors: the public check, then the accusations of the new
\* custodians, true ones and (from liars among them) false ones.
Survivors(f, offers, blamed) ==
  {k \in DOMAIN offers : StartsFromShare(f, k, offers[k]) /\ ~ offers[k].bad} \ blamed

\* The Lagrange combination of the survivors' polynomials is the new one.
Mutant_AllWeights(f, offers, left, threshold) ==
  LET slot == [k \in DOMAIN offers |-> Slot(f.custodians, k)]
      xs == {slot[k] : k \in DOMAIN offers} IN
  [j \in 1 .. threshold |-> Total(left, LAMBDA k : offers[k].poly[j] * Weight(xs, slot[k]))]
Combined(f, offers, left, threshold) ==
  LET slot == [k \in left |-> Slot(f.custodians, k)]
      xs == {slot[k] : k \in left} IN
  [j \in 1 .. threshold |-> Total(left, LAMBDA k : offers[k].poly[j] * Weight(xs, slot[k]))]

\* adopt: the combination of the survivors' sub-shares for the own slot.
Adopted(f, offers, left, new, n) ==
  LET slot == [k \in left |-> Slot(f.custodians, k)]
      xs == {slot[k] : k \in left} IN
  Total(left, LAMBDA k : Eval(offers[k].poly, Slot(new, n)) * Weight(xs, slot[k]))

\* reshare, among the old custodians who take part.
Reshare(part, plan) ==
  LET f == Current
      new == plan[1]
      threshold == plan[2] IN
  /\ files # <<>> /\ Len(deals) < Cardinality(case.kinds \cap {"reshare", "again"})
  /\ part \subseteq ToSet(f.custodians)
  /\ \E offers \in {o \in [part -> UNION {Contributions(f, k, threshold) : k \in part}] :
                      \A k \in part : o[k] \in Contributions(f, k, threshold)} :
     \E blamed \in IF ToSet(new) \cap Liars = {} THEN {{}} ELSE SUBSET part :
       LET left == Survivors(f, offers, blamed) IN
       /\ deals' = Append(deals, [epoch |-> f.epoch, new |-> new, threshold |-> threshold, offers |-> offers, left |-> left])
       /\ IF Cardinality(left) < f.threshold THEN UNCHANGED files
          ELSE files' = Append(files, Sealing(f.epoch + 1, new, threshold, Combined(f, offers, left, threshold),
                                        [n \in ToSet(new) |-> Adopted(f, offers, left, new, n)]))
  /\ UNCHANGED <<ledgerVars, cust, sent, got>>

-----------------------------------------------------------------------------
Init ==
  /\ LedgerInit
  /\ files = <<>> /\ deals = <<>> /\ got = {}
  /\ cust = [k \in Custodians |-> [status |-> "up", head |-> 0, released |-> [a \in Accounts |-> 0],
                                   disk |-> <<>>, torn |-> FALSE, failed |-> FALSE]]
  /\ sent = [k \in Custodians |-> [a \in Accounts |-> 0]]

VaultNext ==
  \/ Seal
  \/ \E k \in Custodians, a \in case.readers : \E f \in ToSet(files) :
       Release(k, a, f) \/ DieReleasing(k, a, f) \/ FailWrite(k, a, f) \/ Leak(k, a, f)
  \/ \E k \in Custodians : Die(k) \/ Start(k)
  \/ \E part \in SUBSET Custodians, plan \in Plans : Reshare(part, plan)

Next == (LedgerNext /\ UNCHANGED vaultVars) \/ VaultNext

Spec == Init /\ [][Next]_vars

-----------------------------------------------------------------------------
\* One receipt buys one share from each custodian, through crashes, restarts and failed
\* writes, and whoever can open the text has left a receipt on the ledger first,
\* whatever fewer liars than the threshold give away (vault.py: "every read leaves a
\* trace on the public ledger *before* it can happen").  A custodian that dies at any point
\* can start again: only one whose write failed, and which went on, may find its own
\* journal unusable.
CrashesNeverStop == \A k \in Custodians : cust[k].status = "refusing" => cust[k].failed
ReadsAreReceipted ==
  /\ \A k \in Custodians, a \in Accounts : sent[k][a] <= Views(a)
  /\ \A a \in Accounts, n \in DOMAIN files :
       Opens(files[n], {p[2] : p \in {q \in got : q[1] = a}}) => Views(a) > 0
  /\ CrashesNeverStop

\* Re-sharing keeps the key, whoever takes part, is dropped or lies: every share of the
\* last file is valid and any threshold of them opens the text.
StillOpens ==
  \A n \in DOMAIN files :
    LET f == files[n] IN
    /\ \A k \in ToSet(f.custodians) : ShareValid(f.poly, Slot(f.custodians, k), f.shares[k])
    /\ \A S \in SUBSET ToSet(f.custodians) :
         Cardinality(S) = f.threshold =>
           Combine([x \in {Slot(f.custodians, k) : k \in S} |-> f.shares[f.custodians[x]]]) = Secret

\* What the liars see of the first file and of all re-sharings, their own contributions
\* included, fits every key: fewer than the threshold learn nothing.
\* Fitting: the keys and the polynomials of the current file that fit what they saw.
Seen(cs) == {i \in DOMAIN cs : cs[i] \in Liars}
Fits(p, q, slots) == \A i \in slots : Eval(p, i) = Eval(q, i)
OfferFits(d, f, k, c, p) ==
  {q \in Polys(Eval(p, Slot(f.custodians, k)), Len(c.poly)) :
     IF k \in Liars THEN q = c.poly ELSE Fits(q, c.poly, Seen(d.new))}
AfterDeal(fits, d) ==
  LET f == files[d.epoch + 1]
      slot == [k \in d.left |-> Slot(f.custodians, k)]
      xs == {slot[k] : k \in d.left}
      \* what the polynomials of the survivors, one after the other, may add up to
      Sums(p) == FoldSet(LAMBDA k, acc : {[j \in DOMAIN a |-> Mod(a[j] + q[j] * Weight(xs, slot[k]))] :
                                            a \in acc, q \in OfferFits(d, f, k, d.offers[k], p)},
                         {[j \in 1 .. d.threshold |-> 0]}, d.left)
      Shown(p) == \A k \in DOMAIN d.offers \ Liars : OfferFits(d, f, k, d.offers[k], p) # {} IN
  IF Cardinality(d.left) < f.threshold THEN {kp \in fits : Shown(kp[2])}
  ELSE UNION {{<<kp[1], p>> : p \in Sums(kp[2])} : kp \in {x \in fits : Shown(x[2])}}
FewerLearnNothing ==
  files # <<>> =>
    LET first == {<<s, p>> : s \in Field, p \in UNION {Polys(s, files[1].threshold) : s \in Field}}
        start == {kp \in first : kp[2][1] = kp[1] /\ Fits(kp[2], files[1].poly, Seen(files[1].custodians))}
        final == FoldLeft(AfterDeal, start, deals) IN
    {kp[1] : kp \in final} = Field
=============================================================================
