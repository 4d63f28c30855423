-------------------------------- MODULE Fraud --------------------------------
(***************************************************************************)
(* Two of the screens anyone can run on the ledger (fraud.py): money that  *)
(* returns to its origin through a ring of similar payments, and payments  *)
(* that stay just under a reporting threshold.                             *)
(***************************************************************************)
EXTENDS Readers

CONSTANTS
  MaxLen,     \* circular_flows: the longest ring,
  Window,     \* the blocks it may take
  Threshold,  \* structuring: the amount that has to be reported,
  Low,        \* threshold * (1 - band)
  MinCount,   \* the payments that make a case
  Within      \* the blocks they may take

ASSUME FraudAssumption == {MaxLen, Window, Threshold, Low, MinCount, Within} \subseteq Nat

\* _payments, in the order of the chain.
Payments ==
  SelectSeq(FlattenSeq([h \in DOMAIN chain |-> [n \in DOMAIN chain[h] |-> [tx |-> chain[h][n], height |-> h]]]),
            LAMBDA e : e.tx.kind = "pay")

-----------------------------------------------------------------------------
(* circular_flows.  A path is a sequence of places in the list e.           *)

Flows == SelectSeq(Payments, LAMBDA e : e.tx.purpose \notin Taxes \cup {"WAGES", "TRANSFER"})
Similar(a, b) == 9 * a <= 10 * b /\ 10 * b <= 11 * a

Fits(e, p, n) ==
  /\ e[n].tx.by = e[Last(p)].tx.to
  /\ Similar(e[p[1]].tx.amount, e[n].tx.amount)
  /\ e[n].height \in e[Last(p)].height .. e[p[1]].height + Window
Visited(e, p) == {e[p[1]].tx.by} \cup {e[n].tx.to : n \in ToSet(p)}

\* walk: a path may close with its second payment.
Mutant_Closes(e, p, n) == e[n].tx.to = e[p[1]].tx.by /\ Len(p) > 1
Closes(e, p, n) == e[n].tx.to = e[p[1]].tx.by

RECURSIVE Walk(_, _)
Walk(e, p) ==
  UNION { IF Closes(e, p, n) THEN {Append(p, n)}
          ELSE IF e[n].tx.to \notin Visited(e, p) /\ Len(p) + 1 < MaxLen THEN Walk(e, Append(p, n))
          ELSE {} : n \in {m \in DOMAIN e : Fits(e, p, m)} }
Found(e) == UNION {Walk(e, <<n>>) : n \in DOMAIN e}

\* One report per set of accounts, of the ring with the earliest start.
Members(e, p) == {e[n].tx.by : n \in ToSet(p)}
Reports(e) ==
  { CHOOSE p \in Found(e) : /\ Members(e, p) = ring
                            /\ \A o \in Found(e) : Members(e, o) = ring => e[p[1]].height <= e[o[1]].height :
    ring \in {Members(e, p) : p \in Found(e)} }

-----------------------------------------------------------------------------
(* structuring.                                                             *)

Hits(a) == SelectSeq(Payments, LAMBDA e : e.tx.by = a /\ Low <= e.tx.amount /\ e.tx.amount < Threshold)
Mutant_RunFrom(hits, i) == SelectSeq(hits, LAMBDA e : e.height - hits[i].height \in 0 .. Within - 1)
RunFrom(hits, i) == SelectSeq(SubSeq(hits, i, Len(hits)), LAMBDA e : e.height - hits[i].height <= Within)
Best(hits) == Max({0} \cup {Len(RunFrom(hits, i)) : i \in DOMAIN hits})
Structurers == {a \in DOMAIN StateAt(chain, Len(chain)).acct : Best(Hits(a)) >= MinCount}

-----------------------------------------------------------------------------
\* What a ring is: payments of different accounts, each to the next and the last to the
\* first, of amounts like the first, in blocks that do not go back.
Ring(e, p) ==
  /\ IsInjective([i \in DOMAIN p |-> e[p[i]].tx.by])
  /\ \A i \in DOMAIN p :
       /\ e[p[i]].tx.to = e[p[IF i = Len(p) THEN 1 ELSE i + 1]].tx.by
       /\ Similar(e[p[1]].tx.amount, e[p[i]].tx.amount)
       /\ i > 1 => e[p[i - 1]].height <= e[p[i]].height
  /\ e[Last(p)].height <= e[p[1]].height + Window

\* Every ring is reported, by its accounts and from its earliest start, nothing else is, and
\* none twice (fraud.py: "each ring is reported once"); and who made enough payments just
\* under the threshold within the window, wherever they lie among others, is flagged, and
\* nobody else.
RingsReported ==
  LET e == Flows
      rings == UNION {{p \in [1 .. n -> DOMAIN e] : Ring(e, p)} : n \in 2 .. MaxLen} IN
  /\ \A p \in rings : \E r \in Reports(e) : Members(e, r) = Members(e, p) /\ e[r[1]].height <= e[p[1]].height
  /\ Reports(e) \subseteq rings
SplitsReported ==
  Structurers = { a \in DOMAIN StateAt(chain, Len(chain)).acct :
                    \E S \in kSubset(MinCount, DOMAIN Hits(a)) :
                      \A m, n \in S : Hits(a)[n].height - Hits(a)[m].height <= Within }
FlagsAreRight == RingsReported /\ SplitsReported
=============================================================================
