---------------------------- MODULE LedgerProofs ----------------------------
(***************************************************************************)
(* The ledger and the confidential wallet beside it, for any accounts,     *)
(* balances, limits and loads: money is conserved, the quota holds, honest *)
(* blocks are executed and mempools drop only what is dead, whatever is    *)
(* submitted and however the blocks are built; the wallet matches the      *)
(* ledger and forgets nothing.                                             *)
(*                                                                         *)
(* Sums and blocks are folds.  The first two parts say what folds are:     *)
(* induction, which they take, is the least element of a set of naturals.  *)
(***************************************************************************)
EXTENDS Wallet, FiniteSetTheorems, SequenceTheorems, WellFoundedInduction, TLAPS

LEMMA LeastNat ==
  ASSUME NEW T, T \subseteq Nat, T # {}
  PROVE  \E n \in T : \A m \in T : n <= m
<1> DEFINE R == OpToRel(<, Nat)
<1>1. IsWellFoundedOn(R, Nat)
  BY NatLessThanWellFounded
<1>2. \A m, n \in Nat : m < n => <<m, n>> \in R
  BY DEF OpToRel
<1> HIDE DEF R
<1>3. \E n \in T : \A m \in T : ~ (<<m, n>> \in R)
  BY <1>1, WFMin
<1>4. \A m, n \in Nat : ~ (<<m, n>> \in R) => n <= m
  BY <1>2
<1> QED
  BY <1>3, <1>4

LEMMA GreatestNat ==
  ASSUME NEW T, T \subseteq Nat, T # {}, NEW b \in Nat, \A m \in T : m <= b
  PROVE  \E n \in T : \A m \in T : n >= m
<1> DEFINE D == {b - m : m \in T}
<1>1. D \subseteq Nat /\ D # {}
  <2>1. \A m \in T : m \in Nat /\ m <= b
    OBVIOUS
  <2>2. \A m \in Nat : m <= b => b - m \in Nat
    OBVIOUS
  <2> QED
    BY <2>1, <2>2
<1> HIDE DEF D
<1>2. PICK d \in D : \A e \in D : d <= e
  BY <1>1, LeastNat
<1>3. PICK n \in T : d = b - n
  BY <1>2 DEF D
<1>4. \A m \in T : b - m \in D /\ d <= b - m
  BY <1>2 DEF D
<1>5. \A m \in T : m \in Nat
  OBVIOUS
<1> QED
  BY <1>3, <1>4, <1>5

\* A set of finite sets that is not empty has an element all of whose subsets by one
\* element less are outside.
LEMMA Minimal ==
  ASSUME NEW B, B # {}, \A s \in B : IsFiniteSet(s)
  PROVE  \E s \in B : \A x \in s : s \ {x} \notin B
<1> DEFINE T == {Cardinality(s) : s \in B}
<1>1. T \subseteq Nat /\ T # {}
  BY FS_CardinalityType
<1> HIDE DEF T
<1>2. PICK n \in T : \A m \in T : n <= m
  BY <1>1, LeastNat
<1>3. PICK s \in B : n = Cardinality(s)
  BY DEF T
<1>4. ASSUME NEW x \in s, s \ {x} \in B
      PROVE  FALSE
  <2>1. Cardinality(s \ {x}) = n - 1 /\ n \in Nat
    BY <1>1, <1>3, <1>4, FS_RemoveElement
  <2>2. Cardinality(s \ {x}) \in T
    BY <1>4 DEF T
  <2> QED
    BY <1>2, <2>1, <2>2
<1> QED
  BY <1>4

-----------------------------------------------------------------------------
(* Sums.  total gives every subset of S the sum of the weights w of its     *)
(* elements.                                                                *)

Additive(total, w, S) ==
  /\ total \in [SUBSET S -> Nat] /\ total[{}] = 0
  /\ \A s \in SUBSET S : \A x \in s : total[s] = w[x] + total[s \ {x}]

LEMMA AdditiveExists ==
  ASSUME NEW S, IsFiniteSet(S), NEW w, \A x \in S : w[x] \in Nat
  PROVE  \E total : Additive(total, w, S)
<1> DEFINE B == {s \in SUBSET S : ~ \E total : Additive(total, w, s)}
<1> SUFFICES ASSUME B # {}
             PROVE  FALSE
  OBVIOUS
<1>1. \A s \in B : IsFiniteSet(s)
  BY FS_Subset
<1>2. PICK s \in B : \A x \in s : s \ {x} \notin B
  BY <1>1, Minimal
<1>3. CASE s = {}
  <2> DEFINE g == [r \in SUBSET s |-> 0]
  <2>1. Additive(g, w, s)
    BY <1>3 DEF Additive
  <2> QED
    BY <1>2, <2>1
<1>4. CASE s # {}
  <2>1. PICK x \in s : TRUE
    BY <1>4
  <2>2. PICK f : Additive(f, w, s \ {x})
    BY <1>2
  <2> DEFINE g == [r \in SUBSET s |-> IF x \in r THEN w[x] + f[r \ {x}] ELSE f[r]]
  <2>3. x \in S /\ s \subseteq S
    BY <1>2
  <2>4. /\ f \in [SUBSET (s \ {x}) -> Nat] /\ f[{}] = 0
        /\ \A r \in SUBSET (s \ {x}) : \A y \in r : f[r] = w[y] + f[r \ {y}]
    BY <2>2 DEF Additive
  <2>5. g \in [SUBSET s -> Nat] /\ g[{}] = 0
    <3>1. \A r \in SUBSET s : /\ r \ {x} \in SUBSET (s \ {x})
                              /\ x \notin r => r \in SUBSET (s \ {x})
      OBVIOUS
    <3>2. \A r \in SUBSET s : (IF x \in r THEN w[x] + f[r \ {x}] ELSE f[r]) \in Nat
      BY <2>3, <2>4, <3>1
    <3> QED
      BY <2>4, <3>2
  <2>6. ASSUME NEW r \in SUBSET s, NEW y \in r
        PROVE  g[r] = w[y] + g[r \ {y}]
    <3>1. CASE y = x
      BY <3>1
    <3>2. CASE y # x /\ x \in r
      <4>1. /\ r \ {x} \in SUBSET (s \ {x}) /\ y \in r \ {x} /\ x \in r \ {y}
            /\ (r \ {y}) \ {x} = (r \ {x}) \ {y} /\ r \ {y} \in SUBSET s
            /\ (r \ {x}) \ {y} \in SUBSET (s \ {x})
        BY <3>2
      <4>2. g[r] = w[x] + f[r \ {x}] /\ g[r \ {y}] = w[x] + f[(r \ {x}) \ {y}]
        BY <3>2, <4>1
      <4>3. f[r \ {x}] = w[y] + f[(r \ {x}) \ {y}]
        BY <2>4, <4>1
      <4>4. w[x] \in Nat /\ w[y] \in Nat /\ f[(r \ {x}) \ {y}] \in Nat
        BY <2>3, <2>4, <4>1
      <4> QED
        BY <4>2, <4>3, <4>4
    <3>3. CASE y # x /\ x \notin r
      <4>1. r \in SUBSET (s \ {x}) /\ x \notin r \ {y} /\ r \ {y} \in SUBSET s
        BY <3>3
      <4> QED
        BY <2>4, <3>3, <4>1
    <3> QED
      BY <3>1, <3>2, <3>3
  <2>7. Additive(g, w, s)
    BY <2>5, <2>6 DEF Additive
  <2> QED
    BY <1>2, <2>7
<1> QED
  BY <1>3, <1>4

\* Two functions of sets that add up the same way are the same.
LEMMA SameSteps ==
  ASSUME NEW S, IsFiniteSet(S), NEW f, NEW g, f[{}] = g[{}],
         \A s \in SUBSET S : s # {} => \E x \in s : f[s \ {x}] = g[s \ {x}] => f[s] = g[s]
  PROVE  f[S] = g[S]
<1> DEFINE B == {s \in SUBSET S : f[s] # g[s]}
<1> SUFFICES ASSUME B # {}
             PROVE  FALSE
  OBVIOUS
<1>1. \A s \in B : IsFiniteSet(s)
  BY FS_Subset
<1>2. PICK s \in B : \A x \in s : s \ {x} \notin B
  BY <1>1, Minimal
<1>3. s # {} /\ s \in SUBSET S
  BY <1>2
<1>4. PICK x \in s : f[s \ {x}] = g[s \ {x}] => f[s] = g[s]
  BY <1>3
<1>5. s \ {x} \in SUBSET S
  BY <1>3
<1>6. f[s \ {x}] = g[s \ {x}]
  BY <1>2, <1>5
<1> QED
  BY <1>2, <1>4, <1>6

\* What the folds of the ledger compute.
LEMMA SumIs ==
  ASSUME NEW S, IsFiniteSet(S), NEW w \in [S -> Nat], NEW total, Additive(total, w, S)
  PROVE  Sum(w) = total[S]
<1> DEFINE Pick(s) == CHOOSE x \in s : TRUE
           IsIter(h) == h = [s \in SUBSET S |-> IF s = {} THEN 0 ELSE w[Pick(s)] + h[s \ {Pick(s)}]]
<1>1. \A s \in SUBSET S : s # {} => Pick(s) \in s
  OBVIOUS
<1>2. /\ total \in [SUBSET S -> Nat] /\ total[{}] = 0
      /\ \A s \in SUBSET S : \A x \in s : total[s] = w[x] + total[s \ {x}]
  BY DEF Additive
<1>3. Sum(w) = (CHOOSE h : IsIter(h))[S]
  BY DEF Sum, FoldFunction, FoldFunctionOnSet, MapThenFoldSet
<1> HIDE DEF Pick
<1>4. IsIter(total)
  <2>1. \A s \in SUBSET S : total[s] = IF s = {} THEN 0 ELSE w[Pick(s)] + total[s \ {Pick(s)}]
    BY <1>1, <1>2
  <2> QED
    BY <1>2, <2>1
<1>5. ASSUME NEW h, IsIter(h)
      PROVE  total[S] = h[S]
  <2>1. /\ h[{}] = 0
        /\ \A s \in SUBSET S : s # {} => h[s] = w[Pick(s)] + h[s \ {Pick(s)}]
    BY <1>5
  <2> HIDE DEF IsIter
  <2>2. ASSUME NEW s \in SUBSET S, s # {}
        PROVE  \E x \in s : total[s \ {x}] = h[s \ {x}] => total[s] = h[s]
    <3>1. Pick(s) \in s
      BY <1>1, <2>2
    <3>2. total[s] = w[Pick(s)] + total[s \ {Pick(s)}] /\ h[s] = w[Pick(s)] + h[s \ {Pick(s)}]
      BY <1>2, <2>1, <2>2, <3>1
    <3> QED
      BY <3>1, <3>2
  <2>3. total[{}] = h[{}]
    BY <1>2, <2>1
  <2> QED
    BY <2>2, <2>3, SameSteps
<1> HIDE DEF IsIter
<1>6. IsIter(CHOOSE h : IsIter(h))
  BY <1>4
<1> QED
  BY <1>3, <1>5, <1>6

Owed(I) == FoldSet(LAMBDA e, n : n + e.amount, 0, I)

LEMMA OwedIs ==
  ASSUME NEW S, IsFiniteSet(S), NEW w, \A e \in S : w[e] = e.amount /\ e.amount \in Nat,
         NEW total, Additive(total, w, S)
  PROVE  Owed(S) = total[S]
<1> DEFINE Pick(s) == CHOOSE x \in s : TRUE
           IsIter(h) == h = [s \in SUBSET S |-> IF s = {} THEN 0 ELSE h[s \ {Pick(s)}] + Pick(s).amount]
<1>1. \A s \in SUBSET S : s # {} => Pick(s) \in s
  OBVIOUS
<1>2. /\ total \in [SUBSET S -> Nat] /\ total[{}] = 0
      /\ \A s \in SUBSET S : \A x \in s : total[s] = w[x] + total[s \ {x}]
  BY DEF Additive
<1>3. Owed(S) = (CHOOSE h : IsIter(h))[S]
  BY DEF Owed, FoldSet, MapThenFoldSet
<1> HIDE DEF Pick
<1>4. IsIter(total)
  <2>1. \A s \in SUBSET S : total[s] = IF s = {} THEN 0 ELSE total[s \ {Pick(s)}] + Pick(s).amount
    <3> SUFFICES ASSUME NEW s \in SUBSET S, s # {}
                 PROVE  total[s] = total[s \ {Pick(s)}] + Pick(s).amount
      BY <1>2
    <3>1. Pick(s) \in s /\ s \ {Pick(s)} \in SUBSET S
      BY <1>1
    <3>2. total[s] = w[Pick(s)] + total[s \ {Pick(s)}] /\ w[Pick(s)] = Pick(s).amount
          /\ total[s \ {Pick(s)}] \in Nat /\ w[Pick(s)] \in Nat
      BY <1>2, <3>1
    <3> QED
      BY <3>2
  <2> QED
    BY <1>2, <2>1
<1>5. ASSUME NEW h, IsIter(h)
      PROVE  total[S] = h[S]
  <2>1. /\ h[{}] = 0
        /\ \A s \in SUBSET S : s # {} => h[s] = h[s \ {Pick(s)}] + Pick(s).amount
    BY <1>5
  <2>2. /\ total[{}] = 0
        /\ \A s \in SUBSET S : s # {} => total[s] = total[s \ {Pick(s)}] + Pick(s).amount
    BY <1>4
  <2> HIDE DEF IsIter
  <2>3. ASSUME NEW s \in SUBSET S, s # {}
        PROVE  \E x \in s : total[s \ {x}] = h[s \ {x}] => total[s] = h[s]
    BY <1>1, <2>1, <2>2, <2>3
  <2>4. total[{}] = h[{}]
    BY <2>1, <2>2
  <2> QED
    BY <2>3, <2>4, SameSteps
<1> HIDE DEF IsIter
<1>6. IsIter(CHOOSE h : IsIter(h))
  BY <1>4
<1> QED
  BY <1>3, <1>5, <1>6

\* Two weightings that differ in one place have sums that differ by as much.
LEMMA SumDiffers ==
  ASSUME NEW S, IsFiniteSet(S), NEW w \in [S -> Nat], NEW w2 \in [S -> Nat], NEW a \in S,
         \A x \in S \ {a} : w2[x] = w[x]
  PROVE  /\ Sum(w) \in Nat /\ Sum(w2) \in Nat
         /\ Sum(w2) - w2[a] = Sum(w) - w[a]
<1>1. \A x \in S : w[x] \in Nat /\ w2[x] \in Nat
  OBVIOUS
<1>2. PICK f : Additive(f, w, S)
  BY <1>1, AdditiveExists
<1>3. PICK g : Additive(g, w2, S)
  BY <1>1, AdditiveExists
<1>4. /\ f \in [SUBSET S -> Nat] /\ f[{}] = 0
      /\ \A s \in SUBSET S : \A x \in s : f[s] = w[x] + f[s \ {x}]
  BY <1>2 DEF Additive
<1>5. /\ g \in [SUBSET S -> Nat] /\ g[{}] = 0
      /\ \A s \in SUBSET S : \A x \in s : g[s] = w2[x] + g[s \ {x}]
  BY <1>3 DEF Additive
<1>6. IsFiniteSet(S \ {a})
  BY FS_Subset
<1>7. ASSUME NEW s \in SUBSET (S \ {a}), s # {}
      PROVE  \E x \in s : f[s \ {x}] = g[s \ {x}] => f[s] = g[s]
  <2>1. PICK x \in s : TRUE
    BY <1>7
  <2>2. s \in SUBSET S /\ w2[x] = w[x]
    OBVIOUS
  <2> QED
    BY <1>4, <1>5, <2>1, <2>2
<1>8. f[S \ {a}] = g[S \ {a}]
  <2>1. f[{}] = g[{}]
    BY <1>4, <1>5
  <2> QED
    BY <1>6, <1>7, <2>1, SameSteps
<1>9. /\ f[S] = w[a] + f[S \ {a}] /\ g[S] = w2[a] + g[S \ {a}] /\ f[S \ {a}] \in Nat
      /\ w[a] \in Nat /\ w2[a] \in Nat /\ f[S] \in Nat /\ g[S] \in Nat
  BY <1>1, <1>4, <1>5
<1>10. Sum(w) = f[S] /\ Sum(w2) = g[S]
  BY <1>1, <1>2, <1>3, SumIs
<1> QED
  BY <1>8, <1>9, <1>10

LEMMA OwedUpdated ==
  ASSUME NEW I, IsFiniteSet(I), \A x \in I : x.amount \in Nat, NEW e, e.amount \in Nat
  PROVE  /\ Owed(I) \in Nat
         /\ e \notin I => Owed(I \cup {e}) = Owed(I) + e.amount
         /\ e \in I => Owed(I \ {e}) = Owed(I) - e.amount
<1> DEFINE S == I \cup {e}
           w == [x \in S |-> x.amount]
<1>1. IsFiniteSet(S) /\ \A x \in S : w[x] = x.amount /\ w[x] \in Nat /\ x.amount \in Nat
  BY FS_AddElement
<1> HIDE DEF w
<1>2. PICK f : Additive(f, w, S)
  BY <1>1, AdditiveExists
<1>3. /\ f \in [SUBSET S -> Nat] /\ f[{}] = 0
      /\ \A s \in SUBSET S : \A x \in s : f[s] = w[x] + f[s \ {x}]
  BY <1>2 DEF Additive
<1>4. ASSUME NEW T \in SUBSET S
      PROVE  Owed(T) = f[T] /\ f[T] \in Nat
  <2> DEFINE g == [s \in SUBSET T |-> f[s]]
  <2>1. \A s \in SUBSET T : s \in SUBSET S /\ g[s] = f[s]
    BY <1>4
  <2>2. \A s \in SUBSET T : \A x \in s : g[s] = w[x] + g[s \ {x}]
    BY <1>3, <2>1
  <2>3. g \in [SUBSET T -> Nat] /\ g[{}] = 0
    BY <1>3, <2>1
  <2> HIDE DEF g
  <2>4. Additive(g, w, T)
    BY <2>2, <2>3 DEF Additive
  <2>5. IsFiniteSet(T) /\ \A x \in T : w[x] = x.amount /\ x.amount \in Nat
    BY <1>1, <1>4, FS_Subset
  <2>6. Owed(T) = g[T]
    BY <2>4, <2>5, OwedIs
  <2> QED
    BY <1>3, <2>1, <2>6
<1>5. I \in SUBSET S /\ S \in SUBSET S /\ I \ {e} \in SUBSET S
  OBVIOUS
<1>6. ASSUME e \notin I
      PROVE  Owed(S) = Owed(I) + e.amount
  <2>1. S \ {e} = I /\ e \in S
    BY <1>6
  <2>2. f[S] = w[e] + f[I] /\ w[e] = e.amount
    BY <1>1, <1>3, <1>5, <2>1
  <2> QED
    BY <1>1, <1>4, <1>5, <2>2
<1>7. ASSUME e \in I
      PROVE  Owed(I \ {e}) = Owed(I) - e.amount
  <2>1. f[I] = w[e] + f[I \ {e}] /\ w[e] = e.amount
    BY <1>1, <1>3, <1>5, <1>7
  <2> QED
    BY <1>1, <1>4, <1>5, <2>1
<1> QED
  BY <1>4, <1>5, <1>6, <1>7

-----------------------------------------------------------------------------
(* Transactions.                                                            *)

Entries == [from : Accounts, nonce : Nat, amount : Nat]
State == [known : SUBSET Accounts, nonce : Amounts, balance : Amounts, hidden : Amounts,
          inbox : [Accounts -> SUBSET Entries], cap : Nat, count : Amounts]

\* Inboxes are finite, and an unclaimed payment has used up its nonce: no other one can
\* come to be the same.
Filed(s) ==
  \A a \in Accounts : IsFiniteSet(s.inbox[a]) /\ \A e \in s.inbox[a] : e.nonce < s.nonce[e.from]
Sound(s) == s \in State /\ Filed(s)
Wealth(s) == Sum(s.balance) + Sum(s.hidden) + Sum(Unclaimed(s))

LEMMA UnclaimedIs ==
  ASSUME NEW s, Sound(s)
  PROVE  /\ Unclaimed(s) = [a \in Accounts |-> Owed(s.inbox[a])]
         /\ Unclaimed(s) \in Amounts
<1>1. Unclaimed(s) = [a \in Accounts |-> Owed(s.inbox[a])]
  BY DEF Unclaimed, Owed
<1>2. ASSUME NEW a \in Accounts
      PROVE  Owed(s.inbox[a]) \in Nat
  <2>1. IsFiniteSet(s.inbox[a]) /\ \A e \in s.inbox[a] : e.amount \in Nat
    BY DEF Sound, Filed, State, Entries
  <2>2. [amount |-> 0].amount \in Nat
    OBVIOUS
  <2> QED
    BY <2>1, <2>2, OwedUpdated
<1> QED
  BY <1>1, <1>2 DEF Amounts

\* Wealth adds up natural numbers.
LEMMA WealthTyped ==
  ASSUME NEW s, Sound(s)
  PROVE  Sum(s.balance) \in Nat /\ Sum(s.hidden) \in Nat /\ Sum(Unclaimed(s)) \in Nat
<1>1. /\ s.balance \in [Accounts -> Nat] /\ s.hidden \in [Accounts -> Nat]
      /\ Unclaimed(s) \in [Accounts -> Nat] /\ IsFiniteSet(Accounts)
  BY UnclaimedIs, LedgerAssumption DEF Sound, State, Amounts
<1>2. Target \in Accounts
  BY LedgerAssumption
<1> QED
  BY <1>1, <1>2, SumDiffers

\* What is unclaimed changes by what one inbox gains or loses.
LEMMA InboxDiffers ==
  ASSUME NEW s, Sound(s), NEW r \in State, \A b \in Accounts : IsFiniteSet(r.inbox[b]),
         NEW a \in Accounts, \A b \in Accounts \ {a} : r.inbox[b] = s.inbox[b]
  PROVE  /\ Sum(Unclaimed(r)) - Owed(r.inbox[a]) = Sum(Unclaimed(s)) - Owed(s.inbox[a])
         /\ Sum(Unclaimed(r)) \in Nat
<1>1. /\ Unclaimed(s) \in [Accounts -> Nat] /\ IsFiniteSet(Accounts)
      /\ Unclaimed(s) = [b \in Accounts |-> Owed(s.inbox[b])]
      /\ Unclaimed(r) = [b \in Accounts |-> Owed(r.inbox[b])]
  BY UnclaimedIs, LedgerAssumption DEF Unclaimed, Owed, Amounts
<1>2. ASSUME NEW b \in Accounts
      PROVE  Owed(r.inbox[b]) \in Nat
  <2>1. IsFiniteSet(r.inbox[b]) /\ \A e \in r.inbox[b] : e.amount \in Nat
    BY DEF State, Entries
  <2>2. [amount |-> 0].amount \in Nat
    OBVIOUS
  <2> QED
    BY <2>1, <2>2, OwedUpdated
<1>3. /\ Unclaimed(r) \in [Accounts -> Nat]
      /\ \A b \in Accounts \ {a} : Unclaimed(r)[b] = Unclaimed(s)[b]
      /\ Unclaimed(r)[a] = Owed(r.inbox[a]) /\ Unclaimed(s)[a] = Owed(s.inbox[a])
  BY <1>1, <1>2
<1>4. /\ Sum(Unclaimed(r)) - Unclaimed(r)[a] = Sum(Unclaimed(s)) - Unclaimed(s)[a]
      /\ Sum(Unclaimed(r)) \in Nat
  BY <1>1, <1>3, SumDiffers
<1> QED
  BY <1>3, <1>4

\* What a handler leaves: nothing lost, and entries whose nonces are used or just being used.
Settled(s, t, r) ==
  /\ r \in State /\ r.nonce = s.nonce /\ Wealth(r) = Wealth(s)
  /\ \A a \in Accounts :
       /\ IsFiniteSet(r.inbox[a])
       /\ \A e \in r.inbox[a] : e.nonce <= s.nonce[e.from] /\ (e.from # t.sender => e.nonce < s.nonce[e.from])

\* Money between two pots of one account, or between two accounts.
LEMMA Moved ==
  ASSUME NEW s, Sound(s), NEW t \in Tx, NEW r, r \in State, r.nonce = s.nonce, r.inbox = s.inbox,
         Sum(r.balance) + Sum(r.hidden) = Sum(s.balance) + Sum(s.hidden)
  PROVE  Settled(s, t, r)
<1>1. Unclaimed(r) = Unclaimed(s)
  BY DEF Unclaimed
<1>2. Wealth(r) = Wealth(s)
  BY <1>1 DEF Wealth
<1>3. ASSUME NEW a \in Accounts, NEW e \in s.inbox[a]
      PROVE  e.nonce \in Nat /\ s.nonce[e.from] \in Nat
  BY <1>3 DEF Sound, State, Entries, Amounts
<1> QED
  BY <1>2, <1>3 DEF Sound, Filed, Settled

LEMMA HandledSettles ==
  ASSUME NEW s, Sound(s), NEW t \in Tx, Valid(s, t)
  PROVE  Settled(s, t, Handled(s, t))
<1> DEFINE r == Handled(s, t)
           p == t.sender
           x == t.amount
<1>1. /\ t.kind \in Kinds /\ p \in Accounts /\ t.nonce \in Nat /\ t.to \in Accounts /\ x \in Nat /\ t.proof \in Nat
      /\ IsFiniteSet(Accounts)
  BY LedgerAssumption DEF Tx
<1>2. /\ s \in State /\ s.balance \in [Accounts -> Nat] /\ s.hidden \in [Accounts -> Nat]
      /\ s.inbox \in [Accounts -> SUBSET Entries] /\ s.known \subseteq Accounts
      /\ s.nonce \in [Accounts -> Nat]
      /\ Sum(s.balance) \in Nat /\ Sum(s.hidden) \in Nat /\ Sum(Unclaimed(s)) \in Nat
  BY WealthTyped DEF Sound, State, Amounts
<1>3. t.kind # "register" => s.nonce[p] = t.nonce /\ Admissible(s, t)
  BY DEF Valid
<1>4. CASE t.kind = "register"
  <2>1. r = [s EXCEPT !.known = @ \cup {p}]
    BY <1>4 DEF Handled
  <2>2. r \in State /\ r.nonce = s.nonce /\ r.inbox = s.inbox /\ r.balance = s.balance /\ r.hidden = s.hidden
    BY <1>1, <1>2, <2>1 DEF State
  <2> QED
    BY <2>2, Moved
<1>5. CASE t.kind = "policy"
  <2>1. r = [s EXCEPT !.cap = x]
    BY <1>5 DEF Handled
  <2>2. r \in State /\ r.nonce = s.nonce /\ r.inbox = s.inbox /\ r.balance = s.balance /\ r.hidden = s.hidden
    BY <1>1, <1>2, <2>1 DEF State
  <2> QED
    BY <2>2, Moved
<1>6. CASE t.kind = "pay"
  <2>1. t.to # p /\ s.balance[p] >= x
    BY <1>3, <1>6 DEF Admissible, CanPay
  <2> DEFINE b1 == [s.balance EXCEPT ![p] = @ - x]
             b2 == [b1 EXCEPT ![t.to] = @ + x]
  <2>2. r = [s EXCEPT !.balance[p] = @ - x, !.balance[t.to] = @ + x]
    BY <1>6 DEF Handled
  <2> HIDE DEF r
  <2>9. r.balance = b2 /\ r.hidden = s.hidden /\ r.nonce = s.nonce /\ r.inbox = s.inbox
    BY <1>1, <1>2, <2>1, <2>2 DEF State, Amounts
  <2>3. /\ b1 \in [Accounts -> Nat] /\ b1[p] = s.balance[p] - x
        /\ \A a \in Accounts \ {p} : b1[a] = s.balance[a]
    BY <1>1, <1>2, <2>1
  <2>4. /\ b2 \in [Accounts -> Nat] /\ b2[t.to] = b1[t.to] + x
        /\ \A a \in Accounts \ {t.to} : b2[a] = b1[a]
    BY <1>1, <2>3
  <2> HIDE DEF b1, b2
  <2>5. Sum(b1) - b1[p] = Sum(s.balance) - s.balance[p] /\ Sum(b1) \in Nat
    BY <1>1, <1>2, <2>3, SumDiffers
  <2>6. Sum(b2) - b2[t.to] = Sum(b1) - b1[t.to] /\ Sum(b2) \in Nat
    BY <1>1, <2>3, <2>4, SumDiffers
  <2>7. Sum(b2) = Sum(s.balance)
    <3>1. s.balance[p] \in Nat /\ b1[t.to] \in Nat
      BY <1>1, <1>2, <2>3
    <3> QED
      BY <1>1, <1>2, <2>3, <2>4, <2>5, <2>6, <3>1
  <2>8. r \in State
    BY <1>2, <2>2, <2>4, <2>9 DEF State, Amounts
  <2>10. Settled(s, t, r)
    BY <2>7, <2>8, <2>9, Moved
  <2> QED
    BY <2>10 DEF r
\* Shielding and unshielding.
<1>7. ASSUME r.balance \in [Accounts -> Nat], r.hidden \in [Accounts -> Nat],
             r.balance[p] + r.hidden[p] = s.balance[p] + s.hidden[p],
             \A a \in Accounts \ {p} : r.balance[a] = s.balance[a] /\ r.hidden[a] = s.hidden[a],
             r \in State, r.nonce = s.nonce, r.inbox = s.inbox
      PROVE  Settled(s, t, r)
  <2> HIDE DEF r
  <2>1. /\ Sum(r.balance) - r.balance[p] = Sum(s.balance) - s.balance[p] /\ Sum(r.balance) \in Nat
        /\ Sum(r.hidden) - r.hidden[p] = Sum(s.hidden) - s.hidden[p] /\ Sum(r.hidden) \in Nat
    <3>1. p \in Accounts /\ \A a \in Accounts \ {p} : r.balance[a] = s.balance[a]
      BY <1>1, <1>7
    <3>2. \A a \in Accounts \ {p} : r.hidden[a] = s.hidden[a]
      BY <1>7
    <3> HIDE DEF p
    <3>3. Sum(r.balance) - r.balance[p] = Sum(s.balance) - s.balance[p] /\ Sum(r.balance) \in Nat
      BY <1>1, <1>2, <1>7, <3>1, SumDiffers
    <3>4. Sum(r.hidden) - r.hidden[p] = Sum(s.hidden) - s.hidden[p] /\ Sum(r.hidden) \in Nat
      BY <1>1, <1>2, <1>7, <3>1, <3>2, SumDiffers
    <3> QED
      BY <3>3, <3>4
  <2>2. /\ r.balance[p] \in Nat /\ r.hidden[p] \in Nat /\ s.balance[p] \in Nat /\ s.hidden[p] \in Nat
    BY <1>1, <1>2, <1>7
  <2>3. Sum(r.balance) + Sum(r.hidden) = Sum(s.balance) + Sum(s.hidden)
    BY <1>2, <1>7, <2>1, <2>2
  <2> QED
    BY <1>7, <2>3, Moved
<1>8. CASE t.kind = "shield"
  <2>1. s.balance[p] >= x
    BY <1>3, <1>8 DEF Admissible
  <2>2. r = [s EXCEPT !.balance[p] = @ - x, !.hidden[p] = @ + x]
    BY <1>8 DEF Handled
  <2>4. s.balance[p] \in Nat /\ s.hidden[p] \in Nat
    BY <1>1, <1>2
  <2> HIDE DEF r
  <2>5. /\ r.balance = [s.balance EXCEPT ![p] = @ - x] /\ r.hidden = [s.hidden EXCEPT ![p] = @ + x]
        /\ r.nonce = s.nonce /\ r.inbox = s.inbox
    BY <1>1, <1>2, <2>1, <2>2 DEF State, Amounts
  <2>6. /\ r.balance \in [Accounts -> Nat] /\ r.hidden \in [Accounts -> Nat]
        /\ r.balance[p] = s.balance[p] - x /\ r.hidden[p] = s.hidden[p] + x
        /\ \A a \in Accounts \ {p} : r.balance[a] = s.balance[a] /\ r.hidden[a] = s.hidden[a]
    BY <1>1, <1>2, <2>1, <2>4, <2>5
  <2>7. r \in State
    BY <1>2, <2>2, <2>5, <2>6 DEF State, Amounts
  <2> QED
    BY <1>1, <1>7, <2>4, <2>5, <2>6, <2>7 DEF r
<1>9. CASE t.kind = "unshield"
  <2>1. s.hidden[p] >= x
    BY <1>1, <1>2, <1>3, <1>9, LedgerAssumption DEF Admissible, Provable
  <2>2. r = [s EXCEPT !.hidden[p] = @ - x, !.balance[p] = @ + x]
    BY <1>9 DEF Handled
  <2>4. s.balance[p] \in Nat /\ s.hidden[p] \in Nat
    BY <1>1, <1>2
  <2> HIDE DEF r
  <2>5. /\ r.hidden = [s.hidden EXCEPT ![p] = @ - x] /\ r.balance = [s.balance EXCEPT ![p] = @ + x]
        /\ r.nonce = s.nonce /\ r.inbox = s.inbox
    BY <1>1, <1>2, <2>1, <2>2 DEF State, Amounts
  <2>6. /\ r.balance \in [Accounts -> Nat] /\ r.hidden \in [Accounts -> Nat]
        /\ r.hidden[p] = s.hidden[p] - x /\ r.balance[p] = s.balance[p] + x
        /\ \A a \in Accounts \ {p} : r.balance[a] = s.balance[a] /\ r.hidden[a] = s.hidden[a]
    BY <1>1, <1>2, <2>1, <2>4, <2>5
  <2>7. r \in State
    BY <1>2, <2>2, <2>5, <2>6 DEF State, Amounts
  <2> QED
    BY <1>1, <1>7, <2>4, <2>5, <2>6, <2>7 DEF r
<1>10. CASE t.kind = "confidential"
  <2>1. s.hidden[p] >= x /\ s.nonce[p] = t.nonce
    BY <1>1, <1>2, <1>3, <1>10, LedgerAssumption DEF Admissible, Provable
  <2> DEFINE e == Entry(t)
  <2>2. r = [s EXCEPT !.hidden[p] = @ - x, !.inbox[t.to] = @ \cup {e}]
    BY <1>10 DEF Handled
  <2>3. e \in Entries /\ e.amount = x /\ e.from = p /\ e.nonce = t.nonce
    BY <1>1 DEF Entry, Entries
  <2> HIDE DEF e
  <2> HIDE DEF r
  <2>12. /\ r.hidden = [s.hidden EXCEPT ![p] = @ - x] /\ r.inbox = [s.inbox EXCEPT ![t.to] = @ \cup {e}]
         /\ r.nonce = s.nonce /\ r.balance = s.balance
    BY <1>1, <1>2, <2>2 DEF State, Amounts
  <2>13. /\ r.hidden \in [Accounts -> Nat] /\ r.hidden[p] = s.hidden[p] - x
         /\ \A a \in Accounts \ {p} : r.hidden[a] = s.hidden[a]
         /\ r.inbox \in [Accounts -> SUBSET Entries]
    BY <1>1, <1>2, <2>1, <2>3, <2>12
  <2>14. r \in State
    BY <1>2, <2>2, <2>12, <2>13 DEF State, Amounts
  <2>4. /\ r.hidden \in [Accounts -> Nat] /\ r.hidden[p] = s.hidden[p] - x
        /\ \A a \in Accounts \ {p} : r.hidden[a] = s.hidden[a]
        /\ r.inbox = [s.inbox EXCEPT ![t.to] = @ \cup {e}]
        /\ r \in State /\ r.nonce = s.nonce /\ r.balance = s.balance
    BY <2>12, <2>13, <2>14
  <2>5. Sum(r.hidden) - r.hidden[p] = Sum(s.hidden) - s.hidden[p] /\ Sum(r.hidden) \in Nat
    BY <1>1, <1>2, <2>4, SumDiffers
  <2>6. e \notin s.inbox[t.to]
    BY <1>1, <1>2, <2>1, <2>3 DEF Sound, Filed
  <2>7. ASSUME NEW a \in Accounts
        PROVE  /\ IsFiniteSet(r.inbox[a])
               /\ \A y \in r.inbox[a] : y \in s.inbox[a] \/ y = e
    <3>1. r.inbox[a] = s.inbox[a] \/ r.inbox[a] = s.inbox[a] \cup {e}
      BY <1>2, <2>4
    <3>2. IsFiniteSet(s.inbox[a])
      BY DEF Sound, Filed
    <3> QED
      BY <3>1, <3>2, FS_AddElement
  <2>8. Sum(Unclaimed(r)) = Sum(Unclaimed(s)) + x
    <3> DEFINE I == s.inbox[t.to]
    <3>1. /\ \A a \in Accounts : IsFiniteSet(r.inbox[a])
          /\ \A a \in Accounts \ {t.to} : r.inbox[a] = s.inbox[a]
          /\ r.inbox[t.to] = I \cup {e}
      BY <1>1, <1>2, <2>4, <2>7
    <3>2. IsFiniteSet(I) /\ \A y \in I : y.amount \in Nat
      BY <1>1, <1>2 DEF Sound, Filed, Entries
    <3>5. r \in State /\ t.to \in Accounts
      BY <1>1, <2>4
    <3>6. /\ Sum(Unclaimed(r)) - Owed(r.inbox[t.to]) = Sum(Unclaimed(s)) - Owed(s.inbox[t.to])
          /\ Sum(Unclaimed(r)) \in Nat
      BY <3>1, <3>5, InboxDiffers
    <3>3. /\ Sum(Unclaimed(r)) - Owed(I \cup {e}) = Sum(Unclaimed(s)) - Owed(I)
          /\ Sum(Unclaimed(r)) \in Nat
      BY <3>1, <3>6
    <3> HIDE DEF I
    <3>4. Owed(I) \in Nat /\ Owed(I \cup {e}) = Owed(I) + x
      BY <1>1, <2>3, <2>6, <3>2, OwedUpdated DEF I
    <3> QED
      BY <1>1, <1>2, <3>3, <3>4
  <2>9. Wealth(r) = Wealth(s)
    <3>1. s.hidden[p] \in Nat
      BY <1>1, <1>2
    <3> QED
      BY <1>1, <1>2, <2>4, <2>5, <2>8, <3>1 DEF Wealth
  <2>10. ASSUME NEW a \in Accounts, NEW y \in r.inbox[a]
         PROVE  y.nonce <= s.nonce[y.from] /\ (y.from # p => y.nonce < s.nonce[y.from])
    <3>1. CASE y = e
      BY <1>1, <1>2, <2>1, <2>3, <3>1
    <3>2. CASE y \in s.inbox[a]
      <4>1. y.nonce \in Nat /\ s.nonce[y.from] \in Nat
        BY <1>2, <3>2 DEF Entries
      <4> QED
        BY <3>2, <4>1 DEF Sound, Filed
    <3> QED
      BY <2>7, <3>1, <3>2
  <2>11. Settled(s, t, r)
    BY <2>4, <2>7, <2>9, <2>10 DEF Settled
  <2> QED
    BY <2>11 DEF r
<1>11. CASE t.kind \in {"accept", "refuse"}
  <2> DEFINE e == CHOOSE e \in Claimed(s, t) : TRUE
             to == IF t.kind = "accept" THEN p ELSE t.to
  <2>1. Claimed(s, t) # {}
    BY <1>3, <1>11 DEF Admissible
  <2>2. e \in s.inbox[p] /\ e \in Entries /\ e.amount \in Nat
    <3>1. e \in Claimed(s, t)
      BY <2>1
    <3> HIDE DEF e
    <3> QED
      BY <1>1, <1>2, <3>1 DEF Claimed, Entries
  <2>3. r = [s EXCEPT !.inbox[p] = @ \ {e}, !.hidden[to] = @ + e.amount]
    BY <1>11 DEF Handled, Popped, Refunded
  <2> HIDE DEF e
  <2>4. to \in Accounts
    BY <1>1
  <2> HIDE DEF to
  <2> HIDE DEF r
  <2>12. /\ r.hidden = [s.hidden EXCEPT ![to] = @ + e.amount] /\ r.inbox = [s.inbox EXCEPT ![p] = @ \ {e}]
         /\ r.nonce = s.nonce /\ r.balance = s.balance
    BY <1>1, <1>2, <2>3, <2>4 DEF State, Amounts
  <2>13. /\ r.hidden \in [Accounts -> Nat] /\ r.hidden[to] = s.hidden[to] + e.amount
         /\ \A a \in Accounts \ {to} : r.hidden[a] = s.hidden[a]
         /\ r.inbox \in [Accounts -> SUBSET Entries]
    BY <1>1, <1>2, <2>2, <2>4, <2>12
  <2>14. r \in State
    BY <1>2, <2>3, <2>12, <2>13 DEF State, Amounts
  <2>5. /\ r.hidden \in [Accounts -> Nat] /\ r.hidden[to] = s.hidden[to] + e.amount
        /\ \A a \in Accounts \ {to} : r.hidden[a] = s.hidden[a]
        /\ r.inbox = [s.inbox EXCEPT ![p] = @ \ {e}]
        /\ r \in State /\ r.nonce = s.nonce /\ r.balance = s.balance
    BY <2>12, <2>13, <2>14
  <2>6. Sum(r.hidden) - r.hidden[to] = Sum(s.hidden) - s.hidden[to] /\ Sum(r.hidden) \in Nat
    BY <1>1, <1>2, <2>4, <2>5, SumDiffers
  <2>7. ASSUME NEW a \in Accounts
        PROVE  IsFiniteSet(r.inbox[a]) /\ r.inbox[a] \subseteq s.inbox[a]
    <3>1. r.inbox[a] \subseteq s.inbox[a]
      BY <1>2, <2>5
    <3>2. IsFiniteSet(s.inbox[a])
      BY DEF Sound, Filed
    <3> QED
      BY <3>1, <3>2, FS_Subset
  <2>8. Sum(Unclaimed(r)) = Sum(Unclaimed(s)) - e.amount
    <3> DEFINE I == s.inbox[p]
    <3>1. /\ \A a \in Accounts : IsFiniteSet(r.inbox[a])
          /\ \A a \in Accounts \ {p} : r.inbox[a] = s.inbox[a]
          /\ r.inbox[p] = I \ {e}
      BY <1>1, <1>2, <2>5, <2>7
    <3>2. IsFiniteSet(I) /\ \A y \in I : y.amount \in Nat
      BY <1>1, <1>2 DEF Sound, Filed, Entries
    <3>5. r \in State /\ p \in Accounts
      BY <1>1, <2>5
    <3>6. /\ Sum(Unclaimed(r)) - Owed(r.inbox[p]) = Sum(Unclaimed(s)) - Owed(s.inbox[p])
          /\ Sum(Unclaimed(r)) \in Nat
      BY <3>1, <3>5, InboxDiffers
    <3>3. /\ Sum(Unclaimed(r)) - Owed(I \ {e}) = Sum(Unclaimed(s)) - Owed(I)
          /\ Sum(Unclaimed(r)) \in Nat
      BY <3>1, <3>6
    <3>7. e \in I
      BY <2>2
    <3> HIDE DEF I
    <3>4. Owed(I) \in Nat /\ Owed(I \ {e}) = Owed(I) - e.amount
      BY <2>2, <3>2, <3>7, OwedUpdated
    <3> QED
      BY <1>2, <2>2, <3>3, <3>4
  <2>9. Wealth(r) = Wealth(s)
    <3>1. s.hidden[to] \in Nat
      BY <1>2, <2>4
    <3> QED
      BY <1>2, <2>2, <2>5, <2>6, <2>8, <3>1 DEF Wealth
  <2>10. ASSUME NEW a \in Accounts, NEW y \in r.inbox[a]
         PROVE  y.nonce <= s.nonce[y.from] /\ (y.from # p => y.nonce < s.nonce[y.from])
    <3>1. y \in s.inbox[a]
      BY <2>7
    <3>2. y.nonce \in Nat /\ s.nonce[y.from] \in Nat
      BY <1>2, <3>1 DEF Entries
    <3> QED
      BY <3>1, <3>2 DEF Sound, Filed
  <2>11. Settled(s, t, r)
    BY <2>5, <2>7, <2>9, <2>10 DEF Settled
  <2> QED
    BY <2>11 DEF r
<1> QED
  BY <1>1, <1>4, <1>5, <1>6, <1>8, <1>9, <1>10, <1>11 DEF Kinds

\* A valid transaction leaves a sound state, and as much money as there was.
LEMMA ApplyConserves ==
  ASSUME NEW s, Sound(s), NEW t \in Tx, Valid(s, t)
  PROVE  Sound(After(s, t)) /\ Wealth(After(s, t)) = Wealth(s)
<1> DEFINE r == Handled(s, t)
           q == After(s, t)
<1>1. Settled(s, t, r)
  BY HandledSettles
<1>2. q = [r EXCEPT !.nonce[t.sender] = @ + 1, !.count[t.sender] = IF r.cap = 0 THEN @ ELSE @ + 1]
  BY DEF After
<1> HIDE DEF r, q
<1>3. /\ r \in State /\ r.nonce = s.nonce /\ Wealth(r) = Wealth(s)
      /\ \A a \in Accounts :
           /\ IsFiniteSet(r.inbox[a])
           /\ \A e \in r.inbox[a] : e.nonce <= s.nonce[e.from] /\ (e.from # t.sender => e.nonce < s.nonce[e.from])
  BY <1>1 DEF Settled
<1>4. t.sender \in Accounts /\ s.nonce \in [Accounts -> Nat]
  BY DEF Tx, Sound, State, Amounts
<1>8. r.count \in [Accounts -> Nat]
  BY <1>3 DEF State, Amounts
<1>9. /\ q.nonce = [s.nonce EXCEPT ![t.sender] = @ + 1]
      /\ q.count = [r.count EXCEPT ![t.sender] = IF r.cap = 0 THEN @ ELSE @ + 1]
      /\ q.inbox = r.inbox /\ q.balance = r.balance /\ q.hidden = r.hidden
  BY <1>2, <1>3 DEF State
<1>10. q.nonce \in [Accounts -> Nat] /\ q.count \in [Accounts -> Nat]
  BY <1>4, <1>8, <1>9
<1>5. /\ q \in State /\ q.inbox = r.inbox /\ q.balance = r.balance /\ q.hidden = r.hidden
      /\ q.nonce[t.sender] = s.nonce[t.sender] + 1
      /\ \A a \in Accounts \ {t.sender} : q.nonce[a] = s.nonce[a]
  <2>1. q \in State
    BY <1>2, <1>3, <1>10 DEF State, Amounts
  <2> QED
    BY <1>4, <1>9, <2>1
<1>6. Wealth(q) = Wealth(r)
  BY <1>5 DEF Wealth, Unclaimed
<1>7. ASSUME NEW a \in Accounts, NEW e \in r.inbox[a]
      PROVE  e.nonce < q.nonce[e.from]
  <2>1. e.from \in Accounts /\ e.nonce \in Nat
    BY <1>3, <1>7 DEF State, Entries
  <2>2. s.nonce[e.from] \in Nat
    BY <1>4, <2>1
  <2> QED
    BY <1>3, <1>5, <1>7, <2>1, <2>2
<1> QED
  BY <1>3, <1>5, <1>6, <1>7 DEF Sound, Filed, q

-----------------------------------------------------------------------------
(* Blocks.  A fold over a sequence is a function of the sets of its indices, *)
(* of which those of the prefixes matter; the last index is taken off first. *)

LEMMA LastIndex ==
  ASSUME NEW n \in Nat, NEW s \in SUBSET (1 .. n), s # {}
  PROVE  Max(s) \in s /\ \A j \in s : Max(s) >= j
<1>1. s \subseteq Nat /\ \A m \in s : m <= n
  OBVIOUS
<1>2. \E m \in s : \A j \in s : m >= j
  BY <1>1, GreatestNat
<1> QED
  BY <1>2 DEF Max

LEMMA WithoutLast ==
  ASSUME NEW n \in Nat, NEW s \in SUBSET (1 .. n), s # {}
  PROVE  /\ Max(s) \in 1 .. n /\ s \ {Max(s)} \in SUBSET (1 .. n - 1)
         /\ s = 1 .. n => Max(s) = n /\ s \ {Max(s)} = 1 .. n - 1
<1>1. Max(s) \in s /\ \A j \in s : Max(s) >= j
  BY LastIndex
<1>2. Max(s) \in 1 .. n /\ \A j \in s : j \in 1 .. n
  BY <1>1
<1>3. \A j \in s : j # Max(s) => j \in 1 .. n - 1
  BY <1>1, <1>2
<1>4. s = 1 .. n => Max(s) = n
  BY <1>1, <1>2
<1>5. s \ {Max(s)} \in SUBSET (1 .. n - 1)
  BY <1>3
<1>6. s = 1 .. n => s \ {Max(s)} = 1 .. n - 1
  <2> HAVE s = 1 .. n
  <2>1. Max(s) = n
    BY <1>4
  <2>2. (1 .. n) \ {n} = 1 .. n - 1
    OBVIOUS
  <2> QED
    BY <2>1, <2>2
<1> QED
  BY <1>2, <1>4, <1>5, <1>6

\* Two functions of sets of indices that take the same steps are the same.
LEMMA SameRuns ==
  ASSUME NEW n \in Nat, NEW f, NEW g, f[{}] = g[{}],
         \A s \in SUBSET (1 .. n) : s # {} /\ f[s \ {Max(s)}] = g[s \ {Max(s)}] => f[s] = g[s]
  PROVE  f[1 .. n] = g[1 .. n]
<1>1. ASSUME NEW s \in SUBSET (1 .. n), s # {}
      PROVE  \E x \in s : f[s \ {x}] = g[s \ {x}] => f[s] = g[s]
  <2>1. Max(s) \in s
    BY <1>1, LastIndex
  <2> QED
    BY <1>1, <2>1
<1>2. IsFiniteSet(1 .. n)
  BY FS_Interval
<1> QED
  BY <1>1, <1>2, SameSteps

\* What holds of no index, and of a set of indices once it holds without the last.
LEMMA Preserved ==
  ASSUME NEW n \in Nat, NEW G, {} \in G,
         \A I \in SUBSET (1 .. n) : I # {} /\ I \ {Max(I)} \in G => I \in G
  PROVE  1 .. n \in G
<1> DEFINE f == [I \in SUBSET (1 .. n) |-> TRUE]
           g == [I \in SUBSET (1 .. n) |-> I \in G]
<1>1. f[{}] = g[{}]
  OBVIOUS
<1>2. ASSUME NEW I \in SUBSET (1 .. n), I # {}, f[I \ {Max(I)}] = g[I \ {Max(I)}]
      PROVE  f[I] = g[I]
  <2>1. I \ {Max(I)} \in SUBSET (1 .. n)
    OBVIOUS
  <2> QED
    BY <1>2, <2>1
<1>4. \A I \in SUBSET (1 .. n) : I # {} /\ f[I \ {Max(I)}] = g[I \ {Max(I)}] => f[I] = g[I]
  BY <1>2
<1>5. 1 .. n \in SUBSET (1 .. n)
  OBVIOUS
<1> HIDE DEF f, g
<1>3. f[1 .. n] = g[1 .. n]
  BY <1>1, <1>4, SameRuns
<1> QED
  BY <1>3, <1>5 DEF f, g

\* The folds of Ledger.  how says which: the blocks' transactions applied in turn,
\* those of a pool offered to a block, the passes over it, what is left of it, or a
\* wallet that looks at the blocks.
Step(how, a, t) ==
  CASE how.of = "apply" -> After(a, t)
    [] how.of = "offer" -> Offer(a, t, how.skip, how.limit)
    [] how.of = "pass"  -> Pass(a, how.pool, how.skip, how.limit)
    [] how.of = "only"  -> IF t \in how.keep THEN Append(a, t) ELSE a
    [] how.of = "look"  -> Looked(a, t)

Offering(skip, limit) == [of |-> "offer", skip |-> skip, limit |-> limit]
Passing(pool, skip, limit) == [of |-> "pass", pool |-> pool, skip |-> skip, limit |-> limit]
Leaving(keep) == [of |-> "only", keep |-> keep]
Offers(s, q, skip, limit) == FoldLeft(LAMBDA a, t : Offer(a, t, skip, limit), s, q)
Repeated(s, q, pool, skip, limit) == FoldLeft(LAMBDA acc, k : Pass(acc, pool, skip, limit), s, q)

\* h: what the first elements of q make of s.
IsRun(how, h, s, q, n) ==
  h = [I \in SUBSET (1 .. n) |-> IF I = {} THEN s ELSE Step(how, h[I \ {Max(I)}], q[Max(I)])]

LEMMA RunExists ==
  ASSUME NEW how, NEW s, NEW q, NEW n \in Nat
  PROVE  \E h : IsRun(how, h, s, q, n)
<1> DEFINE B == {m \in Nat : ~ \E h : IsRun(how, h, s, q, m)}
<1> SUFFICES ASSUME B # {}
             PROVE  FALSE
  OBVIOUS
<1>1. PICK m \in B : \A k \in B : m <= k
  BY LeastNat
<1>2. CASE m = 0
  <2> DEFINE h == [I \in SUBSET (1 .. 0) |-> s]
  <2>1. IsRun(how, h, s, q, 0)
    BY DEF IsRun
  <2> QED
    BY <1>1, <1>2, <2>1
<1>3. CASE m # 0
  <2>1. m - 1 \in Nat /\ m - 1 \notin B /\ m \in Nat
    BY <1>1, <1>3
  <2>2. PICK g : IsRun(how, g, s, q, m - 1)
    BY <2>1
  <2>3. \A I \in SUBSET (1 .. m - 1) : g[I] = IF I = {} THEN s ELSE Step(how, g[I \ {Max(I)}], q[Max(I)])
    BY <2>2 DEF IsRun
  <2> DEFINE h == [I \in SUBSET (1 .. m) |-> IF I = {} THEN s ELSE Step(how, g[I \ {Max(I)}], q[Max(I)])]
  <2>4. \A I \in SUBSET (1 .. m - 1) : I \in SUBSET (1 .. m) /\ h[I] = g[I]
    BY <2>1, <2>3
  <2>5. ASSUME NEW I \in SUBSET (1 .. m), I # {}
        PROVE  h[I \ {Max(I)}] = g[I \ {Max(I)}]
    BY <2>1, <2>4, <2>5, WithoutLast
  <2>6. h = [I \in SUBSET (1 .. m) |-> IF I = {} THEN s ELSE Step(how, h[I \ {Max(I)}], q[Max(I)])]
    BY <2>5
  <2>7. IsRun(how, h, s, q, m)
    BY <2>6 DEF IsRun
  <2> QED
    BY <1>1, <2>7
<1> QED
  BY <1>2, <1>3

LEMMA RunSteps ==
  ASSUME NEW how, NEW h, NEW s, NEW q, NEW n \in Nat, IsRun(how, h, s, q, n)
  PROVE  /\ h[{}] = s
         /\ \A I \in SUBSET (1 .. n) : I # {} =>
              Max(I) \in 1 .. n /\ h[I] = Step(how, h[I \ {Max(I)}], q[Max(I)])
<1>1. h[{}] = s
  BY DEF IsRun
<1>2. \A I \in SUBSET (1 .. n) : I # {} => Max(I) \in 1 .. n
  BY WithoutLast
<1>3. \A I \in SUBSET (1 .. n) : I # {} => h[I] = Step(how, h[I \ {Max(I)}], q[Max(I)])
  BY DEF IsRun
<1> QED
  BY <1>1, <1>2, <1>3

LEMMA FoldOfApply ==
  ASSUME NEW s, NEW q, NEW n \in Nat, DOMAIN q = 1 .. n
  PROVE  \E h : IsRun([of |-> "apply"], h, s, q, n) /\ FoldLeft(After, s, q) = h[1 .. n]
<1> DEFINE R(h) == h = [I \in SUBSET (1 .. n) |-> IF I = {} THEN s ELSE After(h[I \ {Max(I)}], q[Max(I)])]
<1>1. \A h : R(h) <=> IsRun([of |-> "apply"], h, s, q, n)
  BY DEF IsRun, Step
<1>2. FoldLeft(After, s, q) = (CHOOSE h : R(h))[1 .. n]
  BY DEF FoldLeft, MapThenFoldSet
<1>3. \E h : R(h)
  BY <1>1, RunExists
<1> QED
  BY <1>1, <1>2, <1>3

LEMMA FoldOfOffers ==
  ASSUME NEW s, NEW q, NEW n \in Nat, DOMAIN q = 1 .. n, NEW skip, NEW limit
  PROVE  \E h : /\ IsRun(Offering(skip, limit), h, s, q, n)
                /\ Offers(s, q, skip, limit) = h[1 .. n]
<1> DEFINE R(h) == h = [I \in SUBSET (1 .. n) |-> IF I = {} THEN s ELSE
                                                     Offer(h[I \ {Max(I)}], q[Max(I)], skip, limit)]
<1>1. \A h : R(h) <=> IsRun(Offering(skip, limit), h, s, q, n)
  BY DEF IsRun, Step, Offering
<1>2. Offers(s, q, skip, limit) = (CHOOSE h : R(h))[1 .. n]
  BY DEF Offers, FoldLeft, MapThenFoldSet
<1>3. \E h : R(h)
  BY <1>1, RunExists
<1> QED
  BY <1>1, <1>2, <1>3

LEMMA FoldOfPasses ==
  ASSUME NEW s, NEW q, NEW n \in Nat, DOMAIN q = 1 .. n, NEW pool, NEW skip, NEW limit
  PROVE  \E h : /\ IsRun(Passing(pool, skip, limit), h, s, q, n)
                /\ Repeated(s, q, pool, skip, limit) = h[1 .. n]
<1> DEFINE R(h) == h = [I \in SUBSET (1 .. n) |-> IF I = {} THEN s ELSE
                                                     Pass(h[I \ {Max(I)}], pool, skip, limit)]
<1>1. \A h : R(h) <=> IsRun(Passing(pool, skip, limit), h, s, q, n)
  BY DEF IsRun, Step, Passing
<1>2. Repeated(s, q, pool, skip, limit) = (CHOOSE h : R(h))[1 .. n]
  BY DEF Repeated, FoldLeft, MapThenFoldSet
<1>3. \E h : R(h)
  BY <1>1, RunExists
<1> QED
  BY <1>1, <1>2, <1>3

LEMMA FoldOfOnly ==
  ASSUME NEW q, NEW n \in Nat, DOMAIN q = 1 .. n, NEW keep
  PROVE  \E h : IsRun(Leaving(keep), h, <<>>, q, n) /\ Only(q, keep) = h[1 .. n]
<1> DEFINE R(h) == h = [I \in SUBSET (1 .. n) |-> IF I = {} THEN <<>> ELSE
                          IF q[Max(I)] \in keep THEN Append(h[I \ {Max(I)}], q[Max(I)]) ELSE h[I \ {Max(I)}]]
<1>1. \A h : R(h) <=> IsRun(Leaving(keep), h, <<>>, q, n)
  BY DEF IsRun, Step, Leaving
<1>2. Only(q, keep) = (CHOOSE h : R(h))[1 .. n]
  BY DEF Only, FoldLeft, MapThenFoldSet
<1>3. \E h : R(h)
  BY <1>1, RunExists
<1> QED
  BY <1>1, <1>2, <1>3

-----------------------------------------------------------------------------
(* What a block chooses, and what a mempool keeps, are transactions.         *)

\* What goes through the passes over a pool.
Choice(acc, S) == acc = [s |-> acc.s, chosen |-> acc.chosen, done |-> acc.done] /\ acc.chosen \in Seq(S)

LEMMA OnlyTyped ==
  ASSUME NEW S, NEW q \in Seq(S), NEW keep
  PROVE  Only(q, keep) \in Seq(S)
<1> DEFINE n == Len(q)
<1>1. n \in Nat /\ DOMAIN q = 1 .. n /\ \A i \in 1 .. n : q[i] \in S
  OBVIOUS
<1> HIDE DEF n
<1>2. PICK h : IsRun(Leaving(keep), h, <<>>, q, n) /\ Only(q, keep) = h[1 .. n]
  BY <1>1, FoldOfOnly
<1>3. /\ h[{}] = <<>>
      /\ \A I \in SUBSET (1 .. n) : I # {} =>
           Max(I) \in 1 .. n /\ h[I] = Step(Leaving(keep), h[I \ {Max(I)}], q[Max(I)])
  <2> DEFINE how == Leaving(keep)
  <2>1. IsRun(how, h, <<>>, q, n)
    BY <1>2
  <2> HIDE DEF how
  <2>2. /\ h[{}] = <<>>
        /\ \A I \in SUBSET (1 .. n) : I # {} =>
             Max(I) \in 1 .. n /\ h[I] = Step(how, h[I \ {Max(I)}], q[Max(I)])
    BY <1>1, <2>1, RunSteps
  <2> QED
    BY <2>2 DEF how
<1> DEFINE G == {I \in SUBSET (1 .. n) : h[I] \in Seq(S)}
<1>4. {} \in G
  <2>1. <<>> \in Seq(S) /\ {} \in SUBSET (1 .. n)
    OBVIOUS
  <2> QED
    BY <1>3, <2>1
<1>5. ASSUME NEW I \in SUBSET (1 .. n), I # {}, I \ {Max(I)} \in G
      PROVE  I \in G
  <2>1. h[I] = IF q[Max(I)] \in keep THEN Append(h[I \ {Max(I)}], q[Max(I)]) ELSE h[I \ {Max(I)}]
    BY <1>3, <1>5 DEF Step, Leaving
  <2>2. q[Max(I)] \in S
    BY <1>1, <1>3, <1>5
  <2>3. h[I \ {Max(I)}] \in Seq(S)
    BY <1>5
  <2>4. Append(h[I \ {Max(I)}], q[Max(I)]) \in Seq(S)
    BY <2>2, <2>3
  <2>5. h[I] \in Seq(S)
    BY <2>1, <2>3, <2>4
  <2> QED
    BY <2>5
<1>6. \A I \in SUBSET (1 .. n) : I # {} /\ I \ {Max(I)} \in G => I \in G
  BY <1>5
<1> HIDE DEF G
<1>7. 1 .. n \in G
  BY <1>1, <1>4, <1>6, Preserved
<1> QED
  BY <1>2, <1>7 DEF G

LEMMA OfferTyped ==
  ASSUME NEW S, NEW acc, Choice(acc, S), NEW t \in S, NEW skip, NEW limit
  PROVE  Choice(Offer(acc, t, skip, limit), S)
<1>1. acc.chosen \in Seq(S) /\ Append(acc.chosen, t) \in Seq(S)
  BY DEF Choice
<1>2. \A x : LET a == [acc EXCEPT !.s = x] IN
             a = [s |-> x, chosen |-> acc.chosen, done |-> acc.done]
  BY DEF Choice
<1>7. acc = [s |-> acc.s, chosen |-> acc.chosen, done |-> acc.done]
  BY DEF Choice
<1>3. ASSUME NEW x, NEW y
      PROVE  [acc EXCEPT !.s = x, !.chosen = y] = [s |-> x, chosen |-> y, done |-> acc.done]
  <2> DEFINE b == [acc EXCEPT !.s = x]
  <2>1. b = [s |-> x, chosen |-> acc.chosen, done |-> acc.done]
    BY <1>7
  <2>2. [acc EXCEPT !.s = x, !.chosen = y] = [b EXCEPT !.chosen = y]
    BY <1>7
  <2> HIDE DEF b
  <2>3. [b EXCEPT !.chosen = y] = [s |-> x, chosen |-> y, done |-> acc.done]
    BY <2>1
  <2> QED
    BY <2>2, <2>3
<1>4. CASE t \in ToSet(acc.chosen) \/ t.sender \in skip \/ Len(acc.chosen) >= limit
  BY <1>4 DEF Offer
<1>5. CASE ~ (t \in ToSet(acc.chosen) \/ t.sender \in skip \/ Len(acc.chosen) >= limit) /\ Valid(acc.s, t)
  <2>1. Offer(acc, t, skip, limit) = [acc EXCEPT !.s = After(acc.s, t), !.chosen = Append(acc.chosen, t)]
    BY <1>5 DEF Offer
  <2> QED
    BY <1>1, <1>3, <2>1 DEF Choice
<1>6. CASE ~ (t \in ToSet(acc.chosen) \/ t.sender \in skip \/ Len(acc.chosen) >= limit) /\ ~ Valid(acc.s, t)
  <2>1. Offer(acc, t, skip, limit) = [acc EXCEPT !.s = Residue(acc.s, t)]
    BY <1>6 DEF Offer
  <2> QED
    BY <1>1, <1>2, <2>1 DEF Choice
<1> QED
  BY <1>4, <1>5, <1>6

LEMMA PassTyped ==
  ASSUME NEW S, NEW acc, Choice(acc, S), NEW pool \in Seq(S), NEW skip, NEW limit
  PROVE  Choice(Pass(acc, pool, skip, limit), S)
<1> DEFINE n == Len(pool)
           next == Offers(acc, pool, skip, limit)
<1>1. n \in Nat /\ DOMAIN pool = 1 .. n /\ \A i \in 1 .. n : pool[i] \in S
  OBVIOUS
<1>8. Pass(acc, pool, skip, limit) = IF acc.done THEN acc ELSE [next EXCEPT !.done = next.chosen = acc.chosen]
  BY DEF Pass, Offers
<1> HIDE DEF n
<1>2. PICK h : IsRun(Offering(skip, limit), h, acc, pool, n) /\ next = h[1 .. n]
  BY <1>1, FoldOfOffers
<1> HIDE DEF next
<1>3. /\ h[{}] = acc
      /\ \A I \in SUBSET (1 .. n) : I # {} =>
           Max(I) \in 1 .. n /\ h[I] = Step(Offering(skip, limit), h[I \ {Max(I)}], pool[Max(I)])
  <2>1. IsRun(Offering(skip, limit), h, acc, pool, n) /\ n \in Nat
    BY <1>1, <1>2
  <2> QED
    BY <2>1, RunSteps
<1> DEFINE G == {I \in SUBSET (1 .. n) : Choice(h[I], S)}
<1>4. {} \in G
  BY <1>3
<1>5. ASSUME NEW I \in SUBSET (1 .. n), I # {}, I \ {Max(I)} \in G
      PROVE  I \in G
  <2>1. h[I] = Offer(h[I \ {Max(I)}], pool[Max(I)], skip, limit)
    BY <1>3, <1>5 DEF Step, Offering
  <2>2. pool[Max(I)] \in S
    BY <1>1, <1>3, <1>5
  <2>3. Choice(h[I \ {Max(I)}], S)
    BY <1>5
  <2> QED
    BY <2>1, <2>2, <2>3, OfferTyped
<1>6. \A I \in SUBSET (1 .. n) : I # {} /\ I \ {Max(I)} \in G => I \in G
  BY <1>5
<1> HIDE DEF G
<1>7. 1 .. n \in G
  BY <1>1, <1>4, <1>6, Preserved
<1>9. Choice(next, S)
  BY <1>2, <1>7 DEF G
<1>10. \A x : [next EXCEPT !.done = x] = [s |-> next.s, chosen |-> next.chosen, done |-> x]
  BY <1>9 DEF Choice
<1> QED
  BY <1>8, <1>9, <1>10 DEF Choice

LEMMA ChosenTyped ==
  ASSUME NEW S, NEW s, NEW pool \in Seq(S), NEW skip, NEW limit
  PROVE  Chosen(s, pool, skip, limit).chosen \in Seq(S)
<1> DEFINE n == Passes(pool)
           start == [s |-> s, chosen |-> <<>>, done |-> FALSE]
           q == [k \in 1 .. n |-> k]
<1>1. n \in Nat /\ DOMAIN q = 1 .. n
  BY DEF Passes
<1>2. Chosen(s, pool, skip, limit) = Repeated(start, q, pool, skip, limit)
  BY DEF Chosen, Repeated
<1>8. Choice(start, S)
  BY DEF Choice
<1> HIDE DEF n, q, start
<1>3. PICK h : IsRun(Passing(pool, skip, limit), h, start, q, n) /\ Chosen(s, pool, skip, limit) = h[1 .. n]
  BY <1>1, <1>2, FoldOfPasses
<1>4. /\ h[{}] = start
      /\ \A I \in SUBSET (1 .. n) : I # {} =>
           Max(I) \in 1 .. n /\ h[I] = Step(Passing(pool, skip, limit), h[I \ {Max(I)}], q[Max(I)])
  <2> DEFINE how == Passing(pool, skip, limit)
  <2>1. IsRun(how, h, start, q, n) /\ n \in Nat
    BY <1>1, <1>3
  <2> HIDE DEF how
  <2>2. h[{}] = start
    BY <2>1, RunSteps
  <2>3. \A I \in SUBSET (1 .. n) : I # {} =>
          Max(I) \in 1 .. n /\ h[I] = Step(how, h[I \ {Max(I)}], q[Max(I)])
    <3> TAKE I \in SUBSET (1 .. n)
    <3> HAVE I # {}
    <3>1. Max(I) \in 1 .. n
      BY <2>1, WithoutLast
    <3>2. h = [J \in SUBSET (1 .. n) |-> IF J = {} THEN start ELSE Step(how, h[J \ {Max(J)}], q[Max(J)])]
      BY <2>1 DEF IsRun
    <3> QED
      BY <3>1, <3>2
  <2> QED
    BY <2>2, <2>3 DEF how
<1> DEFINE G == {I \in SUBSET (1 .. n) : Choice(h[I], S)}
<1>5. {} \in G
  BY <1>4, <1>8
<1>6. ASSUME NEW I \in SUBSET (1 .. n), I # {}, I \ {Max(I)} \in G
      PROVE  I \in G
  <2>1. h[I] = Pass(h[I \ {Max(I)}], pool, skip, limit)
    BY <1>4, <1>6 DEF Step, Passing
  <2>2. Choice(h[I \ {Max(I)}], S)
    BY <1>6
  <2> QED
    BY <2>1, <2>2, PassTyped
<1>9. \A I \in SUBSET (1 .. n) : I # {} /\ I \ {Max(I)} \in G => I \in G
  BY <1>6
<1> HIDE DEF G
<1>7. 1 .. n \in G
  BY <1>1, <1>5, <1>9, Preserved
<1> QED
  BY <1>3, <1>7 DEF G, Choice

-----------------------------------------------------------------------------
(* Blocks.                                                                   *)

LEMMA PrefixFold ==
  ASSUME NEW s, NEW S, NEW q \in Seq(S), NEW h, IsRun([of |-> "apply"], h, s, q, Len(q)), NEW i \in 0 .. Len(q)
  PROVE  FoldLeft(After, s, SubSeq(q, 1, i)) = h[1 .. i]
<1> DEFINE p == SubSeq(q, 1, i)
           how == [of |-> "apply"]
<1>1. /\ i \in Nat /\ Len(q) \in Nat /\ DOMAIN p = 1 .. i /\ \A j \in 1 .. i : p[j] = q[j]
  OBVIOUS
<1> HIDE DEF p
<1>2. PICK f : IsRun([of |-> "apply"], f, s, p, i) /\ FoldLeft(After, s, p) = f[1 .. i]
  BY <1>1, FoldOfApply
<1> HIDE DEF how
<1>3. IsRun(how, f, s, p, i) /\ IsRun(how, h, s, q, Len(q))
  BY <1>2 DEF how
<1>4. f[{}] = h[{}]
  BY <1>3 DEF IsRun
<1>5. ASSUME NEW I \in SUBSET (1 .. i), I # {}, f[I \ {Max(I)}] = h[I \ {Max(I)}]
      PROVE  f[I] = h[I]
  <2>1. Max(I) \in 1 .. i /\ I \in SUBSET (1 .. Len(q))
    <3>1. Max(I) \in 1 .. i
      BY <1>1, <1>5, WithoutLast
    <3>2. \A j \in 1 .. i : j \in 1 .. Len(q)
      BY <1>1
    <3> QED
      BY <3>1, <3>2
  <2>2. f[I] = Step(how, f[I \ {Max(I)}], p[Max(I)])
    BY <1>3, <1>5 DEF IsRun
  <2>3. h[I] = Step(how, h[I \ {Max(I)}], q[Max(I)])
    BY <1>3, <1>5, <2>1 DEF IsRun
  <2> QED
    BY <1>1, <1>5, <2>1, <2>2, <2>3
<1>6. \A I \in SUBSET (1 .. i) : I # {} /\ f[I \ {Max(I)}] = h[I \ {Max(I)}] => f[I] = h[I]
  BY <1>5
<1>7. f[1 .. i] = h[1 .. i]
  BY <1>1, <1>4, <1>6, SameRuns
<1> QED
  BY <1>2, <1>7 DEF p

\* The states a block goes through, one transaction after the other.
Through(h, s, q) ==
  /\ h[1 .. 0] = s /\ FoldLeft(After, s, q) = h[1 .. Len(q)]
  /\ \A i \in 1 .. Len(q) : /\ q[i] \in Tx /\ Valid(h[1 .. i - 1], q[i])
                            /\ h[1 .. i] = After(h[1 .. i - 1], q[i])

LEMMA BlockRun ==
  ASSUME NEW s, NEW q \in Seq(Tx), Runs(s, q)
  PROVE  \E h : Through(h, s, q)
<1>1. Len(q) \in Nat /\ DOMAIN q = 1 .. Len(q) /\ SubSeq(q, 1, Len(q)) = q
  BY SubSeqFull
<1>2. PICK h : IsRun([of |-> "apply"], h, s, q, Len(q))
  BY <1>1, RunExists
<1>3. h[1 .. 0] = s
  BY <1>1, <1>2 DEF IsRun
<1>4. ASSUME NEW i \in 1 .. Len(q)
      PROVE  /\ q[i] \in Tx /\ Valid(h[1 .. i - 1], q[i])
             /\ h[1 .. i] = After(h[1 .. i - 1], q[i])
  <2>1. Valid(FoldLeft(After, s, SubSeq(q, 1, i - 1)), q[i])
    BY <1>1 DEF Runs
  <2>2. i - 1 \in 0 .. Len(q)
    BY <1>1
  <2>3. FoldLeft(After, s, SubSeq(q, 1, i - 1)) = h[1 .. i - 1]
    BY <1>2, <2>2, PrefixFold
  <2>4. i \in Nat /\ 1 .. i \in SUBSET (1 .. i) /\ 1 .. i # {} /\ 1 .. i \in SUBSET (1 .. Len(q))
    <3>1. i \in 1 .. i /\ i \in Nat
      BY <1>1
    <3>2. \A j \in 1 .. i : j \in 1 .. Len(q)
      BY <1>1
    <3> QED
      BY <3>1, <3>2
  <2>5. Max(1 .. i) = i /\ (1 .. i) \ {Max(1 .. i)} = 1 .. i - 1
    BY <2>4, WithoutLast
  <2>6. h[1 .. i] = Step([of |-> "apply"], h[1 .. i - 1], q[i])
    BY <1>2, <2>4, <2>5 DEF IsRun
  <2>7. h[1 .. i] = After(h[1 .. i - 1], q[i])
    BY <2>6 DEF Step
  <2>8. q[i] \in Tx
    BY <1>1
  <2>9. Valid(h[1 .. i - 1], q[i])
    BY <2>1, <2>3
  <2> QED
    BY <2>7, <2>8, <2>9
<1>5. FoldLeft(After, s, q) = h[1 .. Len(q)]
  <2>1. Len(q) \in 0 .. Len(q)
    BY <1>1
  <2>2. FoldLeft(After, s, SubSeq(q, 1, Len(q))) = h[1 .. Len(q)]
    BY <1>2, <2>1, PrefixFold
  <2> QED
    BY <1>1, <2>2
<1> QED
  BY <1>3, <1>4, <1>5 DEF Through

\* A block whose transactions are valid in their turn conserves money.
LEMMA BlockConserves ==
  ASSUME NEW s, Sound(s), NEW q \in Seq(Tx), Runs(s, q)
  PROVE  Sound(FoldLeft(After, s, q)) /\ Wealth(FoldLeft(After, s, q)) = Wealth(s)
<1>4. PICK h : Through(h, s, q)
  BY BlockRun
<1>1. /\ h[1 .. 0] = s /\ FoldLeft(After, s, q) = h[1 .. Len(q)]
      /\ \A i \in 1 .. Len(q) : /\ q[i] \in Tx /\ Valid(h[1 .. i - 1], q[i])
                                /\ h[1 .. i] = After(h[1 .. i - 1], q[i])
  BY <1>4 DEF Through
<1> DEFINE Good(i) == Sound(h[1 .. i]) /\ Wealth(h[1 .. i]) = Wealth(s)
           B == {i \in Nat : i <= Len(q) /\ ~ Good(i)}
<1>2. B = {}
  <2> SUFFICES ASSUME B # {}
               PROVE  FALSE
    OBVIOUS
  <2>1. PICK i \in B : \A j \in B : i <= j
    BY LeastNat
  <2>2. i # 0
    BY <1>1, <2>1
  <2>3. i \in 1 .. Len(q) /\ i - 1 \in Nat /\ i - 1 <= Len(q) /\ i - 1 \notin B
    BY <2>1, <2>2
  <2>4. Good(i - 1)
    BY <2>3
  <2>5. Good(i)
    BY <1>1, <2>3, <2>4, ApplyConserves
  <2> QED
    BY <2>1, <2>5
<1>3. Good(Len(q))
  BY <1>2
<1> QED
  BY <1>1, <1>3

-----------------------------------------------------------------------------
(* The blocks committed one after the other.                                 *)

\* A mempool is a sequence of submitted transactions and stays one.
Pools == mempool \in [Nodes -> Seq(load.txs)]
MoneyInv == load \in Loads /\ Sound(ledger) /\ Pools /\ MoneyConserved

LEMMA FreshHeight ==
  ASSUME NEW s, Sound(s)
  PROVE  Sound(NewHeight(s)) /\ Wealth(NewHeight(s)) = Wealth(s)
<1> DEFINE r == NewHeight(s)
<1>1. s \in State /\ Filed(s) /\ Zero \in Amounts
  BY DEF Sound, Zero, Amounts
<1>2. r = [s EXCEPT !.count = Zero]
  BY DEF NewHeight
<1> HIDE DEF r
<1>3. /\ r \in State /\ r.nonce = s.nonce /\ r.inbox = s.inbox
      /\ r.balance = s.balance /\ r.hidden = s.hidden
  BY <1>1, <1>2 DEF State
<1> QED
  BY <1>1, <1>3 DEF Sound, Filed, Wealth, Unclaimed, r

LEMMA BlockTyped ==
  ASSUME load \in Loads, Pools, NEW n \in Nodes
  PROVE  Block(n).txs \in Seq(load.txs) /\ Block(n).txs \in Seq(Tx)
<1>1. mempool[n] \in Seq(load.txs)
  BY DEF Pools
<1>3. load.txs \subseteq Tx
  BY LedgerAssumption
<1>2. Block(n).txs = Chosen(NewHeight(ledger), mempool[n], Skipped(n), MaxTxs).chosen
  BY DEF Block
<1>4. Block(n).txs \in Seq(load.txs)
  BY <1>1, <1>2, ChosenTyped
<1>5. Block(n).txs \in Seq(Tx)
  <2> DEFINE q == Block(n).txs
  <2>1. q \in Seq(load.txs)
    BY <1>4
  <2> HIDE DEF q
  <2>2. q \in Seq(Tx)
    BY <1>3, <2>1
  <2> QED
    BY <2>2 DEF q
<1> QED
  BY <1>4, <1>5

LEMMA SumOfNothing ==
  ASSUME NEW w \in Amounts, \A a \in Accounts : w[a] = 0
  PROVE  Sum(w) = 0
<1> DEFINE total == [s \in SUBSET Accounts |-> 0]
<1>1. Additive(total, w, Accounts)
  BY DEF Additive
<1>2. IsFiniteSet(Accounts) /\ w \in [Accounts -> Nat] /\ total[Accounts] = 0
  BY LedgerAssumption DEF Amounts
<1> HIDE DEF total
<1> QED
  BY <1>1, <1>2, SumIs

LEMMA OwedNothing == Owed({}) = 0
<1> DEFINE total == [s \in SUBSET {} |-> 0]
           w == [e \in {} |-> 0]
<1>1. Additive(total, w, {}) /\ total[{}] = 0
  BY DEF Additive
<1>2. IsFiniteSet({}) /\ \A e \in {} : w[e] = e.amount /\ e.amount \in Nat
  BY FS_EmptySet
<1> HIDE DEF total, w
<1> QED
  BY <1>1, <1>2, OwedIs

LEMMA MoneyInit == Init => MoneyInv
<1> SUFFICES ASSUME Init
             PROVE  MoneyInv
  OBVIOUS
<1>1. /\ load \in Loads
      /\ ledger = [known |-> Known, nonce |-> Zero, balance |-> Balance, hidden |-> Hidden,
                   inbox |-> [a \in Accounts |-> {}], cap |-> load.cap, count |-> Zero]
      /\ mempool = [n \in Nodes |-> <<>>]
  BY DEF Init
<1>2. /\ Zero \in Amounts /\ Balance \in Amounts /\ Hidden \in Amounts /\ Known \subseteq Accounts
      /\ load.cap \in Nat
  BY <1>1, LedgerAssumption DEF Zero, Amounts
<1>3. ledger \in State
  BY <1>1, <1>2 DEF State
<1>4. Sound(ledger)
  <2>1. IsFiniteSet({})
    BY FS_EmptySet
  <2> QED
    BY <1>1, <1>3, <2>1 DEF Sound, Filed
<1>5. Pools
  BY <1>1 DEF Pools
<1>6. \A a \in Accounts : Unclaimed(ledger)[a] = 0
  <2>1. \A a \in Accounts : ledger.inbox[a] = {} /\ Owed({}) = 0
    BY <1>1, OwedNothing
  <2> QED
    BY <1>4, <2>1, UnclaimedIs
<1>7. Sum(Unclaimed(ledger)) = 0
  BY <1>4, <1>6, UnclaimedIs, SumOfNothing
<1>8. Sum(Balance) \in Nat /\ Sum(Hidden) \in Nat
  <2>1. ASSUME NEW w \in Amounts
        PROVE  Sum(w) \in Nat
    <3>1. IsFiniteSet(Accounts) /\ w \in [Accounts -> Nat] /\ \A x \in Accounts : w[x] \in Nat
      BY LedgerAssumption DEF Amounts
    <3>2. PICK total : Additive(total, w, Accounts)
      BY <3>1, AdditiveExists
    <3>3. Sum(w) = total[Accounts]
      BY <3>1, <3>2, SumIs
    <3> QED
      BY <3>2, <3>3 DEF Additive
  <2> QED
    BY <1>2, <2>1
<1> QED
  BY <1>1, <1>4, <1>5, <1>7, <1>8 DEF MoneyInv, MoneyConserved

LEMMA MoneyStep == MoneyInv /\ [Next]_vars => MoneyInv'
<1> SUFFICES ASSUME MoneyInv, [Next]_vars
             PROVE  MoneyInv'
  OBVIOUS
<1>1. load \in Loads /\ Sound(ledger) /\ Pools /\ MoneyConserved
  BY DEF MoneyInv
<1>2. CASE UNCHANGED vars
  BY <1>1, <1>2 DEF vars, MoneyInv, Pools, MoneyConserved
<1>3. ASSUME NEW n \in Nodes, NEW t \in load.txs, Receive(n, t)
      PROVE  MoneyInv'
  <2>1. mempool \in [Nodes -> Seq(load.txs)]
    BY <1>1 DEF Pools
  <2>2. mempool' = [mempool EXCEPT ![n] = Append(@, t)] /\ ledger' = ledger /\ load' = load
    BY <1>3 DEF Receive
  <2>3. Append(mempool[n], t) \in Seq(load.txs)
    BY <2>1
  <2>4. Pools'
    BY <2>1, <2>2, <2>3 DEF Pools
  <2> QED
    BY <1>1, <2>2, <2>4 DEF MoneyInv, MoneyConserved
<1>4. ASSUME NEW n \in Nodes, Produce(n)
      PROVE  MoneyInv'
  <2> DEFINE b == Block(n)
             next == Result(ledger, b)
             s == NewHeight(ledger)
  <2>1. /\ Executable(ledger, b) /\ ledger' = next /\ load' = load
        /\ mempool' = [m \in Nodes |-> Kept(next, mempool[m], b)]
    BY <1>4 DEF Produce
  <2>2. b.txs \in Seq(Tx)
    BY <1>1, BlockTyped
  <2>3. Sound(s) /\ Wealth(s) = Wealth(ledger)
    BY <1>1, FreshHeight
  <2>4. Runs(s, b.txs) /\ next = FoldLeft(After, s, b.txs)
    BY <2>1 DEF Executable, Result
  <2> HIDE DEF b, s, next
  <2>5. Sound(next) /\ Wealth(next) = Wealth(ledger)
    BY <2>2, <2>3, <2>4, BlockConserves
  <2>6. \A m \in Nodes : Kept(next, mempool[m], b) \in Seq(load.txs)
    BY <1>1, OnlyTyped DEF Pools, Kept
  <2>7. Pools'
    BY <2>1, <2>6 DEF Pools
  <2>8. Wealth(ledger) = Sum(Balance) + Sum(Hidden)
    BY <1>1 DEF MoneyConserved, Wealth
  <2>9. MoneyConserved'
    BY <2>1, <2>5, <2>8 DEF MoneyConserved, Wealth
  <2> QED
    BY <1>1, <2>1, <2>5, <2>7, <2>9 DEF MoneyInv
<1> QED
  BY <1>2, <1>3, <1>4 DEF Next

\* State.apply: whatever the transactions of a block pay, shield, claim or refuse, and
\* whatever the proposers choose, leave out and drop, the money there is stays what it
\* was when the chain was founded.
THEOREM MoneyIsConserved == Spec => []MoneyConserved
<1>1. MoneyInv => MoneyConserved
  BY DEF MoneyInv
<1> QED
  BY <1>1, MoneyInit, MoneyStep, PTL DEF Spec

-----------------------------------------------------------------------------
(* The quota.                                                                *)

\* What every valid transaction does to the nonces, the counts and the quota.
LEMMA ApplyCounts ==
  ASSUME NEW s, Sound(s), NEW t \in Tx, Valid(s, t)
  PROVE  LET r == After(s, t) IN
         /\ r.nonce = [s.nonce EXCEPT ![t.sender] = @ + 1]
         /\ t.kind # "policy" =>
              /\ r.cap = s.cap
              /\ s.cap # 0 => r.count = [s.count EXCEPT ![t.sender] = @ + 1]
<1> DEFINE r == Handled(s, t)
           q == After(s, t)
<1>1. Settled(s, t, r)
  BY HandledSettles
<1>2. r \in State /\ r.nonce = s.nonce /\ s \in State /\ t.kind \in Kinds
  BY <1>1 DEF Settled, Sound, Tx
<1>3. t.kind # "policy" => r.cap = s.cap /\ r.count = s.count
  <2> HAVE t.kind # "policy"
  <2>1. CASE t.kind = "register"
    BY <1>2, <2>1 DEF Handled, State
  <2>2. CASE t.kind = "pay"
    BY <1>2, <2>2 DEF Handled, State
  <2>3. CASE t.kind = "shield"
    BY <1>2, <2>3 DEF Handled, State
  <2>4. CASE t.kind = "unshield"
    BY <1>2, <2>4 DEF Handled, State
  <2>5. CASE t.kind = "confidential"
    BY <1>2, <2>5 DEF Handled, State
  <2>6. CASE t.kind \in {"accept", "refuse"}
    <3> DEFINE e == CHOOSE e \in Claimed(s, t) : TRUE
               to == IF t.kind = "accept" THEN t.sender ELSE Refunded(t)
    <3>1. r = [s EXCEPT !.inbox[t.sender] = Popped(@, e), !.hidden[to] = @ + e.amount]
      BY <2>6 DEF Handled
    <3> HIDE DEF e, to, r
    <3> QED
      BY <1>2, <3>1 DEF State
  <2> QED
    BY <1>2, <2>1, <2>2, <2>3, <2>4, <2>5, <2>6 DEF Kinds
<1>4. q = [r EXCEPT !.nonce[t.sender] = @ + 1, !.count[t.sender] = IF r.cap = 0 THEN @ ELSE @ + 1]
  BY DEF After
<1> HIDE DEF r, q
<1>5. /\ q.nonce = [r.nonce EXCEPT ![t.sender] = @ + 1] /\ q.cap = r.cap
      /\ q.count = [r.count EXCEPT ![t.sender] = IF r.cap = 0 THEN @ ELSE @ + 1]
  BY <1>2, <1>4 DEF State
<1> QED
  BY <1>2, <1>3, <1>5 DEF q

\* In a block without a vote on the quota, an account uses no more nonces than the quota.
LEMMA BlockWithinQuota ==
  ASSUME NEW s, Sound(s), s.count = Zero, s.cap # 0, NEW q \in Seq(Tx), Runs(s, q),
         NEW a \in Accounts \ Exempt,
         \A i \in 1 .. Len(q) : q[i].kind # "policy"
  PROVE  FoldLeft(After, s, q).nonce[a] <= s.nonce[a] + s.cap
<1>1. PICK h : Through(h, s, q)
  BY BlockRun
<1>2. /\ h[1 .. 0] = s /\ FoldLeft(After, s, q) = h[1 .. Len(q)]
      /\ \A i \in 1 .. Len(q) : /\ q[i] \in Tx /\ Valid(h[1 .. i - 1], q[i])
                                /\ h[1 .. i] = After(h[1 .. i - 1], q[i])
  BY <1>1 DEF Through
<1> DEFINE Good(i) == /\ Sound(h[1 .. i]) /\ h[1 .. i].cap = s.cap
                      /\ h[1 .. i].nonce[a] = s.nonce[a] + h[1 .. i].count[a]
                      /\ h[1 .. i].count[a] <= s.cap
           B == {i \in Nat : i <= Len(q) /\ ~ Good(i)}
<1>3. s.nonce[a] \in Nat /\ s.cap \in Nat /\ s.count[a] = 0
  BY DEF Sound, State, Amounts, Zero
<1>4. B = {}
  <2> SUFFICES ASSUME B # {}
               PROVE  FALSE
    OBVIOUS
  <2>1. PICK i \in B : \A j \in B : i <= j
    BY LeastNat
  <2>2. i # 0
    BY <1>2, <1>3, <2>1
  <2>3. i \in 1 .. Len(q) /\ i - 1 \in Nat /\ i - 1 <= Len(q) /\ i - 1 \notin B
    BY <2>1, <2>2
  <2>4. Good(i - 1)
    BY <2>3
  <2> DEFINE u == h[1 .. i - 1]
             r == h[1 .. i]
             t == q[i]
  <2>5. t \in Tx /\ Valid(u, t) /\ r = After(u, t) /\ t.kind # "policy"
    BY <1>2, <2>3
  <2>6. /\ Sound(u) /\ u.cap = s.cap /\ u.nonce[a] = s.nonce[a] + u.count[a]
        /\ u.count[a] <= s.cap
    BY <2>4
  <2> HIDE DEF u, r, t
  <2>7. Sound(r)
    BY <2>5, <2>6, ApplyConserves
  <2>8. /\ r.nonce = [u.nonce EXCEPT ![t.sender] = @ + 1] /\ r.cap = s.cap
        /\ r.count = [u.count EXCEPT ![t.sender] = @ + 1]
    BY <2>5, <2>6, ApplyCounts
  <2>9. u.nonce \in [Accounts -> Nat] /\ u.count \in [Accounts -> Nat]
    BY <2>6 DEF Sound, State, Amounts
  <2>10. t.sender = a => u.count[a] < s.cap
    BY <2>5, <2>6 DEF Valid, WithinQuota
  <2>11. r.nonce[a] = s.nonce[a] + r.count[a] /\ r.count[a] <= s.cap
    BY <1>3, <2>6, <2>8, <2>9, <2>10
  <2>12. Good(i)
    BY <2>7, <2>8, <2>11 DEF r
  <2> QED
    BY <2>1, <2>12
<1>5. Good(Len(q))
  BY <1>4
<1> HIDE DEF B
<1>6. h[1 .. Len(q)].count[a] \in Nat
  BY <1>5 DEF Sound, State, Amounts
<1> QED
  BY <1>2, <1>3, <1>5, <1>6

\* The transactions of a block have used up their nonces.
LEMMA BlockNonces ==
  ASSUME NEW s, Sound(s), NEW q \in Seq(Tx), Runs(s, q), NEW k \in 1 .. Len(q)
  PROVE  q[k].kind # "register" =>
           s.nonce[q[k].sender] <= q[k].nonce /\ q[k].nonce < FoldLeft(After, s, q).nonce[q[k].sender]
<1> DEFINE p == q[k].sender
<1>1. PICK h : Through(h, s, q)
  BY BlockRun
<1>2. /\ h[1 .. 0] = s /\ FoldLeft(After, s, q) = h[1 .. Len(q)]
      /\ \A i \in 1 .. Len(q) : /\ q[i] \in Tx /\ Valid(h[1 .. i - 1], q[i])
                                /\ h[1 .. i] = After(h[1 .. i - 1], q[i])
  BY <1>1 DEF Through
<1> SUFFICES ASSUME q[k].kind # "register"
             PROVE  s.nonce[p] <= q[k].nonce /\ q[k].nonce < h[1 .. Len(q)].nonce[p]
  BY <1>2
<1> DEFINE Good(i) == /\ Sound(h[1 .. i]) /\ s.nonce[p] <= h[1 .. i].nonce[p]
                      /\ k <= i => q[k].nonce < h[1 .. i].nonce[p]
           B == {i \in Nat : i <= Len(q) /\ ~ Good(i)}
<1>3. p \in Accounts /\ q[k].nonce \in Nat /\ s.nonce \in [Accounts -> Nat]
  BY <1>2 DEF Tx, Sound, State, Amounts
<1>4. B = {}
  <2> SUFFICES ASSUME B # {}
               PROVE  FALSE
    OBVIOUS
  <2>1. PICK i \in B : \A j \in B : i <= j
    BY LeastNat
  <2>2. i # 0
    BY <1>2, <1>3, <2>1
  <2>3. i \in 1 .. Len(q) /\ i - 1 \in Nat /\ i - 1 <= Len(q) /\ i - 1 \notin B
    BY <2>1, <2>2
  <2>4. Good(i - 1)
    BY <2>3
  <2> DEFINE u == h[1 .. i - 1]
             r == h[1 .. i]
             t == q[i]
  <2>5. t \in Tx /\ Valid(u, t) /\ r = After(u, t)
    BY <1>2, <2>3
  <2>6. Sound(u) /\ s.nonce[p] <= u.nonce[p] /\ (k <= i - 1 => q[k].nonce < u.nonce[p])
    BY <2>4
  <2>13. k = i => t = q[k]
    OBVIOUS
  <2> HIDE DEF u, r, t
  <2>7. Sound(r)
    BY <2>5, <2>6, ApplyConserves
  <2>8. r.nonce = [u.nonce EXCEPT ![t.sender] = @ + 1]
    BY <2>5, <2>6, ApplyCounts
  <2>9. u.nonce \in [Accounts -> Nat]
    BY <2>6 DEF Sound, State, Amounts
  <2>10. k = i => u.nonce[p] = q[k].nonce /\ t.sender = p
    BY <2>5, <2>13 DEF Valid
  <2>11. s.nonce[p] <= r.nonce[p] /\ (k <= i => q[k].nonce < r.nonce[p])
    BY <1>3, <2>3, <2>6, <2>8, <2>9, <2>10
  <2>12. Good(i)
    BY <2>7, <2>11 DEF r
  <2> QED
    BY <2>1, <2>12
<1>5. Good(Len(q)) /\ Good(k - 1)
  BY <1>4
<1> HIDE DEF B
<1>6. s.nonce[p] <= h[1 .. k - 1].nonce[p] /\ q[k].nonce < h[1 .. Len(q)].nonce[p]
  BY <1>5
<1>7. h[1 .. k - 1].nonce[p] = q[k].nonce
  BY <1>2 DEF Valid
<1> QED
  BY <1>6, <1>7

LEMMA QuotaStep ==
  ASSUME MoneyInv, [Next]_vars, NEW a \in Accounts \ Exempt, ledger.cap # 0, ~ Voted
  PROVE  ledger'.nonce[a] <= ledger.nonce[a] + ledger.cap
<1>1. Sound(ledger) /\ load \in Loads /\ Pools
  BY DEF MoneyInv
<1>2. ledger.nonce[a] \in Nat /\ ledger.cap \in Nat
  BY <1>1 DEF Sound, State, Amounts
<1>3. CASE UNCHANGED vars
  BY <1>2, <1>3 DEF vars
<1>4. CASE \E n \in Nodes, t \in load.txs : Receive(n, t)
  BY <1>2, <1>4 DEF Receive
<1>5. ASSUME NEW n \in Nodes, Produce(n)
      PROVE  ledger'.nonce[a] <= ledger.nonce[a] + ledger.cap
  <2> DEFINE b == Block(n)
             q == b.txs
             s == NewHeight(ledger)
  <2>1. Executable(ledger, b) /\ ledger' = Result(ledger, b)
    BY <1>5 DEF Produce
  <2>2. q \in Seq(Tx) /\ q \in Seq(load.txs)
    BY <1>1, BlockTyped
  <2>3. Sound(s)
    BY <1>1, FreshHeight
  <2>4. /\ s.count = Zero /\ s.cap = ledger.cap /\ s.nonce = ledger.nonce
    BY <1>1 DEF NewHeight, Sound, State
  <2>5. Runs(s, q) /\ ledger' = FoldLeft(After, s, q)
    BY <2>1 DEF Executable, Result
  <2> HIDE DEF q, b, s
  <2>6. ASSUME NEW i \in 1 .. Len(q), q[i].kind = "policy"
        PROVE  FALSE
    <3>1. q[i] \in load.txs
      BY <2>2
    <3>2. /\ s.nonce[q[i].sender] <= q[i].nonce
          /\ q[i].nonce < FoldLeft(After, s, q).nonce[q[i].sender]
      BY <2>2, <2>3, <2>5, <2>6, BlockNonces
    <3> QED
      BY <2>4, <2>5, <2>6, <3>1, <3>2 DEF Voted
  <2>7. \A i \in 1 .. Len(q) : q[i].kind # "policy"
    BY <2>6
  <2>8. FoldLeft(After, s, q).nonce[a] <= s.nonce[a] + s.cap
    BY <2>2, <2>3, <2>4, <2>5, <2>7, BlockWithinQuota
  <2> QED
    BY <2>4, <2>5, <2>8
<1> QED
  BY <1>3, <1>4, <1>5 DEF Next

\* State.apply and Node.build_block: in a block that does not change the quota nobody
\* without an institutional role gets more transactions than it, for any quota, any pool
\* and any number of passes.
THEOREM QuotaHolds == Spec => QuotaKept
<1>1. MoneyInv /\ [Next]_vars =>
        [\A a \in Accounts \ Exempt :
           ledger.cap # 0 /\ ~ Voted => ledger'.nonce[a] <= ledger.nonce[a] + ledger.cap]_vars
  BY QuotaStep
<1> QED
  BY <1>1, MoneyInit, MoneyStep, PTL DEF Spec, QuotaKept

-----------------------------------------------------------------------------
(* Honest blocks.                                                            *)

\* The values of a sequence.
LEMMA Member ==
  ASSUME NEW S, NEW q \in Seq(S), NEW i \in DOMAIN q
  PROVE  q[i] \in S
OBVIOUS

LEMMA OwnValues ==
  ASSUME NEW S, NEW q \in Seq(S)
  PROVE  q \in Seq(ToSet(q))
<1>1. \A i \in 1 .. Len(q) : q[i] \in ToSet(q)
  BY DEF ToSet
<1>2. q \in [1 .. Len(q) -> ToSet(q)] /\ Len(q) \in Nat
  BY <1>1
<1> QED
  BY <1>2

LEMMA FiniteRange ==
  ASSUME NEW S, NEW q \in Seq(S)
  PROVE  IsFiniteSet(ToSet(q))
<1>1. IsFiniteSet(DOMAIN q)
  <2>1. DOMAIN q = 1 .. Len(q) /\ Len(q) \in Nat
    OBVIOUS
  <2> QED
    BY <2>1, FS_Interval
<1> DEFINE f == [x \in ToSet(q) |-> CHOOSE i \in DOMAIN q : q[i] = x]
<1>2. \A x \in ToSet(q) : f[x] \in DOMAIN q /\ q[f[x]] = x
  BY DEF ToSet
<1>3. f \in [ToSet(q) -> DOMAIN q] /\ \A x, y \in ToSet(q) : f[x] = f[y] => x = y
  BY <1>2
<1> HIDE DEF f
<1>4. f \in Injection(ToSet(q), DOMAIN q)
  BY <1>3 DEF Injection, IsInjective
<1> QED
  BY <1>1, <1>4, FS_Injection

\* A sound state and finitely many transactions that cannot overfill an inbox.
Calm(s, P) == Sound(s) /\ P \subseteq Tx /\ IsFiniteSet(P) /\ ~ Crowded(s, P)

\* An inbox of u holds what it did in s, or what a transaction of P has sent to it.
SentFrom(s, P, u) == \A a \in Accounts : u.inbox[a] \subseteq Arriving(s, P, a)

\* As many entries as transactions they come from, at most.
LEMMA FewEntries ==
  ASSUME NEW I, NEW T, IsFiniteSet(T), \A e \in I : \E t \in T : e = Entry(t)
  PROVE  IsFiniteSet(I) /\ Cardinality(I) <= Cardinality(T)
<1> DEFINE f == [e \in I |-> CHOOSE t \in T : e = Entry(t)]
<1>1. \A e \in I : f[e] \in T /\ e = Entry(f[e])
  OBVIOUS
<1>2. f \in [I -> T]
  BY <1>1
<1>3. \A d, e \in I : f[d] = f[e] => d = e
  BY <1>1
<1> HIDE DEF f
<1>4. f \in Injection(I, T)
  BY <1>2, <1>3 DEF Injection, IsInjective
<1> QED
  BY <1>4, FS_Injection

\* What may arrive in an inbox that is not overfilled.
LEMMA ArrivingFits ==
  ASSUME NEW s, NEW P, Calm(s, P), NEW a \in Accounts, NEW b \in Accounts
  PROVE  /\ IsFiniteSet(Arriving(s, P, a)) /\ Cardinality(Arriving(s, P, a)) <= MaxIncoming
         /\ Cardinality({e \in Arriving(s, P, a) : e.from = b}) <= PerSender
<1> DEFINE T == {u \in P : u.kind = "confidential" /\ u.to = a}
           I == {Entry(t) : t \in T}
           J == {e \in Arriving(s, P, a) : e.from = b}
<1>1. IsFiniteSet(T)
  BY FS_Subset DEF Calm
<1> HIDE DEF T
<1>2. IsFiniteSet(I)
  BY <1>1, FewEntries
<1> HIDE DEF I
<1>3. Arriving(s, P, a) = s.inbox[a] \cup I
  BY DEF Arriving, I, T
<1>4. IsFiniteSet(s.inbox[a])
  BY DEF Calm, Sound, Filed
<1>5. IsFiniteSet(Arriving(s, P, a))
  BY <1>2, <1>3, <1>4, FS_Union
<1>6. IsFiniteSet(J)
  BY <1>5, FS_Subset
<1>7. ~ Cardinality(Arriving(s, P, a)) > MaxIncoming /\ ~ Cardinality(J) > PerSender
  BY DEF Calm, Crowded
<1> HIDE DEF J
<1>8. /\ Cardinality(Arriving(s, P, a)) \in Nat /\ Cardinality(J) \in Nat
      /\ MaxIncoming \in Nat /\ PerSender \in Nat
  BY <1>5, <1>6, FS_CardinalityType, LedgerAssumption
<1>9. Cardinality(Arriving(s, P, a)) <= MaxIncoming /\ Cardinality(J) <= PerSender
  BY <1>7, <1>8
<1> QED
  BY <1>5, <1>9 DEF J

\* A set with one element more still fits where a larger one does.
LEMMA OneLess ==
  ASSUME NEW A, IsFiniteSet(A), NEW B, B \subseteq A, NEW x \in A, x \notin B,
         NEW m \in Nat, Cardinality(A) <= m
  PROVE  Cardinality(B) < m
<1>1. IsFiniteSet(A \ {x}) /\ Cardinality(A \ {x}) = Cardinality(A) - 1
  BY FS_RemoveElement
<1>2. B \subseteq A \ {x}
  OBVIOUS
<1>3. Cardinality(B) <= Cardinality(A \ {x}) /\ IsFiniteSet(B)
  BY <1>1, <1>2, FS_Subset
<1>4. Cardinality(A) \in Nat /\ Cardinality(B) \in Nat
  BY <1>3, FS_CardinalityType
<1> QED
  BY <1>1, <1>3, <1>4

\* If no inbox can be overfilled, a transaction that is refused has changed nothing: the
\* only one that could is a confidential payment that finds no room.
LEMMA NothingLeft ==
  ASSUME NEW s, NEW P, Calm(s, P), NEW u, Sound(u), SentFrom(s, P, u), NEW t \in P, ~ Valid(u, t)
  PROVE  Residue(u, t) = u
<1> SUFFICES ASSUME t.kind = "confidential", WithinQuota(u, t),
                    t.sender \in u.known, u.nonce[t.sender] = t.nonce,
                    t.to \in u.known \ {t.sender}, Provable(u, t)
             PROVE  FALSE
  BY DEF Residue
<1>1. ~ Room(u, t)
  BY DEF Valid, Admissible
<1> DEFINE a == t.to
           b == t.sender
           A == Arriving(s, P, a)
           B == {e \in A : e.from = b}
           I == u.inbox[a]
           J == {e \in I : e.from = b}
           x == Entry(t)
<1>2. a \in Accounts /\ b \in Accounts /\ t.nonce \in Nat
  BY DEF Calm, Tx
<1>3. /\ IsFiniteSet(A) /\ Cardinality(A) <= MaxIncoming /\ Cardinality(B) <= PerSender
      /\ IsFiniteSet(B)
  <2> HIDE DEF a, b
  <2>1. IsFiniteSet(A) /\ Cardinality(A) <= MaxIncoming /\ Cardinality(B) <= PerSender
    BY <1>2, ArrivingFits
  <2>2. IsFiniteSet(B)
    BY <2>1, FS_Subset
  <2> QED
    BY <2>1, <2>2
<1>4. x \in A /\ x.from = b /\ x.nonce = t.nonce
  BY DEF Arriving, Entry
<1>5. x \notin I
  <2>1. \A e \in I : e.nonce < u.nonce[e.from]
    BY <1>2 DEF Sound, Filed
  <2> HIDE DEF I, x
  <2> QED
    BY <1>2, <1>4, <2>1
<1>6. I \subseteq A
  BY <1>2 DEF SentFrom
<1>7. x \in B /\ x \notin J /\ J \subseteq B
  BY <1>4, <1>5, <1>6
<1>8. MaxIncoming \in Nat /\ PerSender \in Nat
  BY LedgerAssumption
<1> HIDE DEF A, B, I, J, x
<1>9. Cardinality(I) < MaxIncoming /\ Cardinality(J) < PerSender
  BY <1>3, <1>4, <1>5, <1>6, <1>7, <1>8, OneLess
<1> QED
  BY <1>1, <1>9 DEF Room, I, J

LEMMA ApplySends ==
  ASSUME NEW o, NEW P, P \subseteq Tx, NEW s, Sound(s), SentFrom(o, P, s), NEW t \in P, Valid(s, t)
  PROVE  SentFrom(o, P, After(s, t))
<1> DEFINE r == Handled(s, t)
           q == After(s, t)
<1>1. t \in Tx
  OBVIOUS
<1>2. s \in State /\ t.kind \in Kinds /\ t.sender \in Accounts /\ t.to \in Accounts
  BY <1>1 DEF Sound, Tx
<1>3. r.inbox = s.inbox \/ \E a \in Accounts :
        \/ r.inbox = [s.inbox EXCEPT ![a] = @ \cup {Entry(t)}] /\ t.kind = "confidential" /\ a = t.to
        \/ \E e : r.inbox = [s.inbox EXCEPT ![a] = @ \ {e}]
  <2>1. CASE t.kind = "register"
    BY <1>2, <2>1 DEF Handled, State
  <2>2. CASE t.kind = "pay"
    BY <1>2, <2>2 DEF Handled, State
  <2>3. CASE t.kind = "shield"
    BY <1>2, <2>3 DEF Handled, State
  <2>4. CASE t.kind = "unshield"
    BY <1>2, <2>4 DEF Handled, State
  <2>5. CASE t.kind = "confidential"
    BY <1>2, <2>5 DEF Handled, State
  <2>6. CASE t.kind \in {"accept", "refuse"}
    <3> DEFINE e == CHOOSE e \in Claimed(s, t) : TRUE
               to == IF t.kind = "accept" THEN t.sender ELSE Refunded(t)
    <3>1. r = [s EXCEPT !.inbox[t.sender] = Popped(@, e), !.hidden[to] = @ + e.amount]
      BY <2>6 DEF Handled
    <3> HIDE DEF e, to, r
    <3>2. r.inbox = [s.inbox EXCEPT ![t.sender] = @ \ {e}]
      BY <1>2, <3>1 DEF State, Popped
    <3> QED
      BY <1>2, <3>2
  <2>7. CASE t.kind = "policy"
    BY <1>2, <2>7 DEF Handled, State
  <2> QED
    BY <1>2, <2>1, <2>2, <2>3, <2>4, <2>5, <2>6, <2>7 DEF Kinds
<1>4. r \in State
  BY <1>1, HandledSettles DEF Settled
<1>5. q.inbox = r.inbox
  BY <1>4 DEF After, State
<1> HIDE DEF r, q
<1>6. ASSUME NEW b \in Accounts, NEW e \in r.inbox[b]
      PROVE  e \in s.inbox[b] \/ (e = Entry(t) /\ t.kind = "confidential" /\ b = t.to)
  <2>1. s.inbox = [c \in Accounts |-> s.inbox[c]]
    BY <1>2 DEF State
  <2>2. CASE r.inbox = s.inbox
    BY <1>6, <2>2
  <2>3. ASSUME NEW a \in Accounts, t.kind = "confidential", a = t.to,
               r.inbox = [s.inbox EXCEPT ![a] = @ \cup {Entry(t)}]
        PROVE  e \in s.inbox[b] \/ (e = Entry(t) /\ t.kind = "confidential" /\ b = t.to)
    BY <1>6, <2>1, <2>3
  <2>4. ASSUME NEW a \in Accounts, NEW d, r.inbox = [s.inbox EXCEPT ![a] = @ \ {d}]
        PROVE  e \in s.inbox[b]
    BY <1>6, <2>1, <2>4
  <2> QED
    BY <1>3, <2>2, <2>3, <2>4
<1> QED
  BY <1>5, <1>6 DEF SentFrom, Arriving, q

\* One more transaction at the end of a block.
LEMMA RunsAppend ==
  ASSUME NEW s, NEW q \in Seq(Tx), Runs(s, q), NEW t \in Tx, Valid(FoldLeft(After, s, q), t)
  PROVE  /\ Runs(s, Append(q, t))
         /\ FoldLeft(After, s, Append(q, t)) = After(FoldLeft(After, s, q), t)
<1> DEFINE r == Append(q, t)
           n == Len(q)
<1>1. /\ n \in Nat /\ r \in Seq(Tx) /\ Len(r) = n + 1 /\ r[n + 1] = t
      /\ DOMAIN q = 1 .. n /\ DOMAIN r = 1 .. n + 1 /\ \A i \in 1 .. n : r[i] = q[i]
  OBVIOUS
<1>2. \A i \in 0 .. n : SubSeq(r, 1, i) = SubSeq(q, 1, i)
  OBVIOUS
<1>3. SubSeq(q, 1, n) = q /\ SubSeq(r, 1, n + 1) = r
  OBVIOUS
<1> HIDE DEF n, r
<1>4. PICK h : IsRun([of |-> "apply"], h, s, r, Len(r))
  BY <1>1, RunExists
<1>5. \A i \in 0 .. Len(r) : FoldLeft(After, s, SubSeq(r, 1, i)) = h[1 .. i]
  BY <1>1, <1>4, PrefixFold
<1>6. FoldLeft(After, s, q) = h[1 .. n] /\ FoldLeft(After, s, r) = h[1 .. n + 1]
  <2>1. n \in 0 .. Len(r) /\ n + 1 \in 0 .. Len(r) /\ n \in 0 .. n
    BY <1>1
  <2> QED
    BY <1>1, <1>2, <1>3, <1>5, <2>1
<1>7. h[1 .. n + 1] = After(h[1 .. n], t)
  <2>1. 1 .. n + 1 \in SUBSET (1 .. Len(r)) /\ 1 .. n + 1 # {}
    <3>1. n + 1 \in 1 .. n + 1
      BY <1>1
    <3> QED
      BY <1>1, <3>1
  <2>2. Max(1 .. n + 1) = n + 1 /\ (1 .. n + 1) \ {n + 1} = 1 .. n
    <3>1. n + 1 \in Nat /\ 1 .. n + 1 \in SUBSET (1 .. n + 1) /\ (n + 1) - 1 = n
      BY <1>1
    <3> QED
      BY <2>1, <3>1, WithoutLast
  <2>3. h[1 .. n + 1] = Step([of |-> "apply"], h[1 .. n], r[n + 1])
    BY <1>4, <2>1, <2>2 DEF IsRun
  <2> QED
    BY <1>1, <2>3 DEF Step
<1>8. ASSUME NEW i \in DOMAIN r
      PROVE  Valid(FoldLeft(After, s, SubSeq(r, 1, i - 1)), r[i])
  <2>1. CASE i \in 1 .. n
    <3>1. i - 1 \in 0 .. n /\ i \in DOMAIN q
      BY <1>1, <2>1
    <3> QED
      BY <1>1, <1>2, <2>1, <3>1 DEF Runs
  <2>2. CASE i = n + 1
    <3>1. i - 1 = n /\ n \in 0 .. n
      BY <1>1, <2>2
    <3> QED
      BY <1>1, <1>2, <1>3, <2>2, <3>1
  <2> QED
    BY <1>1, <2>1, <2>2
<1> QED
  BY <1>6, <1>7, <1>8 DEF Runs, r

\* What building a block is at: the transactions chosen are valid in their turn, and the
\* state kept beside them is the one they lead to.
Built(s, P, acc) ==
  /\ Choice(acc, P) /\ Runs(s, acc.chosen)
  /\ acc.s = FoldLeft(After, s, acc.chosen) /\ Sound(acc.s) /\ SentFrom(s, P, acc.s)

LEMMA OfferBuilt ==
  ASSUME NEW s, NEW P, Calm(s, P), NEW acc, Built(s, P, acc), NEW t \in P, NEW skip, NEW limit
  PROVE  Built(s, P, Offer(acc, t, skip, limit))
<1> DEFINE r == Offer(acc, t, skip, limit)
<1>1. /\ Choice(acc, P) /\ Runs(s, acc.chosen)
      /\ acc.s = FoldLeft(After, s, acc.chosen) /\ Sound(acc.s) /\ SentFrom(s, P, acc.s)
  BY DEF Built
<1>2. P \subseteq Tx /\ t \in Tx
  BY DEF Calm
<1>3. Choice(r, P)
  BY <1>1, OfferTyped
<1>4. CASE t \in ToSet(acc.chosen) \/ t.sender \in skip \/ Len(acc.chosen) >= limit
  BY <1>4 DEF Offer
<1>5. CASE ~ (t \in ToSet(acc.chosen) \/ t.sender \in skip \/ Len(acc.chosen) >= limit) /\ Valid(acc.s, t)
  <2>1. r = [acc EXCEPT !.s = After(acc.s, t), !.chosen = Append(acc.chosen, t)]
    BY <1>5 DEF Offer
  <2>2. r.s = After(acc.s, t) /\ r.chosen = Append(acc.chosen, t)
    BY <1>1, <2>1 DEF Choice
  <2>3. acc.chosen \in Seq(Tx)
    BY <1>1, <1>2 DEF Choice
  <2> HIDE DEF r
  <2>4. /\ Runs(s, r.chosen) /\ r.s = FoldLeft(After, s, r.chosen)
    BY <1>1, <1>2, <1>5, <2>2, <2>3, RunsAppend
  <2>5. Sound(r.s)
    BY <1>1, <1>2, <1>5, <2>2, ApplyConserves
  <2>6. SentFrom(s, P, r.s)
    BY <1>1, <1>2, <1>5, <2>2, ApplySends
  <2> QED
    BY <1>3, <2>4, <2>5, <2>6 DEF Built, r
<1>6. CASE ~ (t \in ToSet(acc.chosen) \/ t.sender \in skip \/ Len(acc.chosen) >= limit) /\ ~ Valid(acc.s, t)
  <2>1. r = [acc EXCEPT !.s = Residue(acc.s, t)]
    BY <1>6 DEF Offer
  <2>2. Residue(acc.s, t) = acc.s
    BY <1>1, <1>6, NothingLeft
  <2>3. r = acc
    BY <1>1, <2>1, <2>2 DEF Choice
  <2> QED
    BY <2>3
<1> QED
  BY <1>4, <1>5, <1>6

LEMMA PassBuilt ==
  ASSUME NEW s, NEW P, Calm(s, P), NEW acc, Built(s, P, acc), NEW pool \in Seq(P), NEW skip, NEW limit
  PROVE  Built(s, P, Pass(acc, pool, skip, limit))
<1> DEFINE n == Len(pool)
           next == Offers(acc, pool, skip, limit)
<1>1. n \in Nat /\ DOMAIN pool = 1 .. n /\ \A i \in 1 .. n : pool[i] \in P
  OBVIOUS
<1>8. Pass(acc, pool, skip, limit) = IF acc.done THEN acc ELSE [next EXCEPT !.done = next.chosen = acc.chosen]
  BY DEF Pass, Offers
<1> HIDE DEF n
<1>2. PICK h : IsRun(Offering(skip, limit), h, acc, pool, n) /\ next = h[1 .. n]
  BY <1>1, FoldOfOffers
<1> HIDE DEF next
<1>3. /\ h[{}] = acc
      /\ \A I \in SUBSET (1 .. n) : I # {} =>
           Max(I) \in 1 .. n /\ h[I] = Step(Offering(skip, limit), h[I \ {Max(I)}], pool[Max(I)])
  <2>1. h = [I \in SUBSET (1 .. n) |-> IF I = {} THEN acc ELSE
                                     Step(Offering(skip, limit), h[I \ {Max(I)}], pool[Max(I)])]
    BY <1>2 DEF IsRun
  <2>2. h[{}] = acc
    BY <2>1
  <2>3. \A I \in SUBSET (1 .. n) : I # {} => Max(I) \in 1 .. n
    BY <1>1, WithoutLast
  <2>4. \A I \in SUBSET (1 .. n) : I # {} => h[I] = Step(Offering(skip, limit), h[I \ {Max(I)}], pool[Max(I)])
    BY <2>1
  <2> QED
    BY <2>2, <2>3, <2>4
<1> DEFINE G == {I \in SUBSET (1 .. n) : Built(s, P, h[I])}
<1>4. {} \in G
  BY <1>3
<1>5. ASSUME NEW I \in SUBSET (1 .. n), I # {}, I \ {Max(I)} \in G
      PROVE  I \in G
  <2>1. h[I] = Offer(h[I \ {Max(I)}], pool[Max(I)], skip, limit)
    BY <1>3, <1>5 DEF Step, Offering
  <2>2. pool[Max(I)] \in P
    BY <1>1, <1>3, <1>5
  <2>3. Built(s, P, h[I \ {Max(I)}])
    BY <1>5
  <2> QED
    BY <2>1, <2>2, <2>3, OfferBuilt
<1>6. \A I \in SUBSET (1 .. n) : I # {} /\ I \ {Max(I)} \in G => I \in G
  BY <1>5
<1> HIDE DEF G
<1>7. 1 .. n \in G
  BY <1>1, <1>4, <1>6, Preserved
<1>9. Built(s, P, next)
  BY <1>2, <1>7 DEF G
<1>10. \A x : [next EXCEPT !.done = x] = [s |-> next.s, chosen |-> next.chosen, done |-> x]
  BY <1>9 DEF Built, Choice
<1> QED
  BY <1>8, <1>9, <1>10 DEF Built, Choice

LEMMA ChosenBuilt ==
  ASSUME NEW s, NEW P, Calm(s, P), NEW pool \in Seq(P), NEW skip, NEW limit
  PROVE  Built(s, P, Chosen(s, pool, skip, limit))
<1> DEFINE n == Passes(pool)
           start == [s |-> s, chosen |-> <<>>, done |-> FALSE]
           q == [k \in 1 .. n |-> k]
<1>1. n \in Nat /\ DOMAIN q = 1 .. n
  BY DEF Passes
<1>2. Chosen(s, pool, skip, limit) = Repeated(start, q, pool, skip, limit)
  BY DEF Chosen, Repeated
<1>8. Built(s, P, start)
  <2>1. Choice(start, P)
    BY DEF Choice
  <2>2. DOMAIN <<>> = 1 .. 0 /\ 0 \in Nat
    OBVIOUS
  <2>3. PICK h : IsRun([of |-> "apply"], h, s, <<>>, 0) /\ FoldLeft(After, s, <<>>) = h[1 .. 0]
    BY <2>2, FoldOfApply
  <2>4. h[1 .. 0] = s
    BY <2>3 DEF IsRun
  <2>5. Runs(s, <<>>)
    BY DEF Runs
  <2> QED
    BY <2>1, <2>3, <2>4, <2>5 DEF Built, Calm, SentFrom, Arriving
<1> HIDE DEF n, q, start
<1>3. PICK h : IsRun(Passing(pool, skip, limit), h, start, q, n) /\ Chosen(s, pool, skip, limit) = h[1 .. n]
  BY <1>1, <1>2, FoldOfPasses
<1> DEFINE how == Passing(pool, skip, limit)
<1>4. h = [J \in SUBSET (1 .. n) |-> IF J = {} THEN start ELSE Step(how, h[J \ {Max(J)}], q[Max(J)])]
  BY <1>3 DEF IsRun
<1> DEFINE G == {I \in SUBSET (1 .. n) : Built(s, P, h[I])}
<1>5. {} \in G
  BY <1>4, <1>8
<1>6. ASSUME NEW I \in SUBSET (1 .. n), I # {}, I \ {Max(I)} \in G
      PROVE  I \in G
  <2>1. h[I] = Step(how, h[I \ {Max(I)}], q[Max(I)])
    BY <1>4, <1>6
  <2>2. h[I] = Pass(h[I \ {Max(I)}], pool, skip, limit)
    BY <2>1 DEF Step, Passing
  <2>3. Built(s, P, h[I \ {Max(I)}])
    BY <1>6
  <2> QED
    BY <2>2, <2>3, PassBuilt
<1>9. \A I \in SUBSET (1 .. n) : I # {} /\ I \ {Max(I)} \in G => I \in G
  BY <1>6
<1> HIDE DEF G
<1>7. 1 .. n \in G
  BY <1>1, <1>5, <1>9, Preserved
<1> QED
  BY <1>3, <1>7 DEF G

\* A mempool that cannot overfill an inbox, on top of a state like the ledger.
LEMMA CalmPool ==
  ASSUME NEW s, Sound(s), NEW u, Sound(u), u.inbox = s.inbox,
         load \in Loads, NEW pool \in Seq(load.txs), ~ Crowded(s, ToSet(pool))
  PROVE  Calm(u, ToSet(pool)) /\ pool \in Seq(ToSet(pool))
<1>1. \A i \in DOMAIN pool : pool[i] \in load.txs
  BY Member
<1>2. ToSet(pool) \subseteq load.txs /\ load.txs \subseteq Tx
  BY <1>1, LedgerAssumption DEF ToSet
<1>3. ~ Crowded(u, ToSet(pool))
  BY DEF Crowded, Arriving
<1>4. pool \in Seq(ToSet(pool))
  BY OwnValues
<1> QED
  BY <1>2, <1>3, <1>4, FiniteRange DEF Calm

\* Node.build_block and execute: the block any proposer builds, for any pool, any number
\* of passes and whomever it leaves out, is executed by every node, to the state root it
\* names; unless the pool may overfill an inbox.
THEOREM HonestBlocksAreExecuted == Spec => []HonestBlocksExecute
<1>1. MoneyInv => HonestBlocksExecute
  <2> SUFFICES ASSUME MoneyInv, NEW n \in Nodes, ~ Crowded(ledger, ToSet(mempool[n]))
               PROVE  Executable(ledger, Block(n))
    BY DEF HonestBlocksExecute
  <2> DEFINE s == NewHeight(ledger)
             P == ToSet(mempool[n])
             built == Chosen(s, mempool[n], Skipped(n), MaxTxs)
  <2>1. load \in Loads /\ Sound(ledger) /\ mempool[n] \in Seq(load.txs)
    BY DEF MoneyInv, Pools
  <2>2. Sound(s) /\ s.inbox = ledger.inbox
    BY <2>1, FreshHeight DEF NewHeight, Sound, State
  <2>3. Block(n) = [txs |-> built.chosen, root |-> Root(built.s)]
    BY DEF Block
  <2> HIDE DEF s
  <2>4. Calm(s, P) /\ mempool[n] \in Seq(P)
    BY <2>1, <2>2, CalmPool
  <2> HIDE DEF P
  <2>5. Built(s, P, built)
    BY <2>4, ChosenBuilt
  <2> HIDE DEF built
  <2>6. Runs(s, built.chosen) /\ built.s = FoldLeft(After, s, built.chosen)
    BY <2>5 DEF Built
  <2> QED
    BY <2>3, <2>6 DEF Executable, Result, s
<1> QED
  BY <1>1, MoneyInit, MoneyStep, PTL DEF Spec

-----------------------------------------------------------------------------
(* The wallet: what it has to do with the transactions on the ledger.        *)


Claims == {"accept", "refuse"}
Mine == {t \in Tx : t.sender = Me /\ t.kind \in Hiding}
Paying(t) == t.kind = "confidential"
\* t answers the payment p, or refuses one of ours.
Answers(t, p) == t.kind \in Claims /\ t.sender = p.to /\ t.to = p.sender /\ t.proof = p.nonce
Returns(t, p) == t.kind = "refuse" /\ t.to = Me /\ t.proof = p.nonce

\* What the state s has in common with the set C of the transactions that led to it: they
\* have used up their nonces, what is unclaimed was paid, and what was claimed was paid, is
\* not there any more and was claimed once.
Used(s, C) ==
  /\ C \subseteq Tx /\ IsFiniteSet(C) /\ Me \in s.known
  /\ \A t \in C : t.nonce < s.nonce[t.sender] /\ (Paying(t) => t.to # t.sender)
  /\ \A t, u \in C :
       t.sender = u.sender /\ t.nonce = u.nonce /\ "register" \notin {t.kind, u.kind} => t = u
Paid(s, C) == \A a \in Accounts : \A e \in s.inbox[a] : \E p \in C : Paying(p) /\ p.to = a /\ e = Entry(p)
Answered(s, C) ==
  \A t \in C : t.kind \in Claims =>
    /\ \E p \in C : Paying(p) /\ Answers(t, p)
    /\ \A e \in s.inbox[t.sender] : ~ (e.from = t.to /\ e.nonce = t.proof)
    /\ \A u \in C : u.kind \in Claims /\ u.sender = t.sender /\ u.to = t.to /\ u.proof = t.proof => u = t
Booked(s, C) == Used(s, C) /\ Paid(s, C) /\ Answered(s, C)

\* The queue of a wallet: what each transaction leaves if those before it do what they should.
Queue(w) == {w.pending[i].tx : i \in DOMAIN w.pending}
At(w, i) == IF i = 0 THEN w.confirmed ELSE w.pending[i].after
Outcome(C, t, x, y) ==
  CASE t.kind = "shield" -> y = x + t.amount
    [] t.kind \in {"unshield", "confidential"} -> y = x - t.amount
    [] t.kind = "accept" -> \E p \in C : Paying(p) /\ Answers(t, p) /\ y = x + p.amount
    [] t.kind = "refuse" -> y = x
WalletType(C) ==
  [nonce : Nat, amount : Nat, confirmed : Nat, pending : Seq([tx : Mine, after : Nat]),
   sent : SUBSET {t \in Mine : Paying(t)}, seen : SUBSET C]
Queued(w, C) ==
  /\ w \in WalletType(C)
  /\ \A i \in DOMAIN w.pending :
       /\ w.pending[i].tx.nonce < w.nonce
       /\ \A j \in DOMAIN w.pending : i < j => w.pending[i].tx.nonce < w.pending[j].tx.nonce
       /\ Outcome(C, w.pending[i].tx, At(w, i - 1), At(w, i))
  /\ w.amount = At(w, Len(w.pending))

\* What others submit, in any load.
Submitted == UNION {l.txs : l \in Loads}

\* What became of the transactions sg a wallet has handed out, gv of them rolled back; F are
\* those of C the node that is asked still has, ms what it had pruned before.
Followed(w, C, F, sg, gv, ms) ==
  /\ sg \subseteq Mine /\ Queue(w) \subseteq sg /\ F \subseteq C
  /\ sg \subseteq gv \cup C \cup Queue(w)
  /\ \A t \in sg \ gv : t.nonce < w.nonce
  /\ C \subseteq Submitted \cup sg
  /\ \A p \in sg : Paying(p) => p \in w.sent \/ \E t \in w.seen : Returns(t, p)
  /\ \A t \in C \ w.seen : t.to = Me /\ t.kind \in {"confidential", "refuse"} => t \in F \cup ms

\* A payment that was looked at and still waits has been answered.
Remembered(w, s, gv) ==
  \A t \in w.seen : Paying(t) /\ t.to = Me /\ Entry(t) \in s.inbox[Me] =>
    \E c \in Queue(w) \cup gv : Answers(c, t)

\* What came back to the owner, which the wallet has not seen.
Returned(w, C) == {Entry(p) : p \in {q \in C : Paying(q) /\ q.sender = Me /\ \E t \in C \ w.seen : Returns(t, q)}}

\* As long as nothing that was rolled back is on the ledger, and nothing was missed, the
\* transactions on the ledger are the first of the queue and the hidden balance is what
\* they leave; or one of the queue has been overtaken for good.
Squared(w, s, C, F, gv, ms) ==
  gv \cap C = {} /\ ms = {} =>
    /\ Queue(w) \cap C \subseteq F
    /\ \/ \E i, j \in DOMAIN w.pending : i < j /\ w.pending[i].tx \notin C /\ w.pending[j].tx \in C
       \/ \E m \in 0 .. Len(w.pending) :
            /\ \A k \in DOMAIN w.pending : w.pending[k].tx \in C <=> k <= m
            /\ s.hidden[Me] = At(w, m) + Owed(Returned(w, C))

\* What a valid transaction does to nonces, inboxes and hidden balances.
Effect(s, t, r) ==
  /\ r.nonce = [s.nonce EXCEPT ![t.sender] = @ + 1] /\ s.known \subseteq r.known
  /\ \/ t.kind \in {"register", "pay", "policy"} /\ r.inbox = s.inbox /\ r.hidden = s.hidden
     \/ t.kind = "shield" /\ r.inbox = s.inbox /\ r.hidden = [s.hidden EXCEPT ![t.sender] = @ + t.amount]
     \/ t.kind = "unshield" /\ r.inbox = s.inbox /\ r.hidden = [s.hidden EXCEPT ![t.sender] = @ - t.amount]
     \/ /\ t.kind = "confidential" /\ t.to # t.sender
        /\ r.inbox = [s.inbox EXCEPT ![t.to] = @ \cup {Entry(t)}]
        /\ r.hidden = [s.hidden EXCEPT ![t.sender] = @ - t.amount]
     \/ /\ t.kind \in Claims
        /\ \E e \in s.inbox[t.sender] :
             /\ e.from = t.to /\ e.nonce = t.proof
             /\ r.inbox = [s.inbox EXCEPT ![t.sender] = @ \ {e}]
             /\ r.hidden = [s.hidden EXCEPT ![IF t.kind = "accept" THEN t.sender ELSE t.to] = @ + e.amount]

LEMMA EffectOf ==
  ASSUME NEW s, Sound(s), NEW t \in Tx, Valid(s, t)
  PROVE  Sound(After(s, t)) /\ Effect(s, t, After(s, t))
<1> DEFINE r == Handled(s, t)
           q == After(s, t)
<1> SUFFICES Effect(s, t, q)
  BY ApplyConserves
<1>1. s \in State /\ t.kind \in Kinds /\ t.sender \in Accounts /\ t.to \in Accounts
  BY DEF Sound, Tx
<1>2. t.kind # "register" => Admissible(s, t)
  BY DEF Valid
<1>3. r \in State /\ r.nonce = s.nonce
  BY HandledSettles DEF Settled
<1>4. /\ q.nonce = [r.nonce EXCEPT ![t.sender] = @ + 1] /\ q.known = r.known
      /\ q.inbox = r.inbox /\ q.hidden = r.hidden
  <2> HIDE DEF r
  <2>1. q = [r EXCEPT !.nonce[t.sender] = @ + 1, !.count[t.sender] = IF r.cap = 0 THEN @ ELSE @ + 1]
    BY DEF After, r
  <2> HIDE DEF q
  <2> QED
    BY <1>3, <2>1 DEF State
<1>5. CASE t.kind = "register"
  <2>1. r.known = s.known \cup {t.sender} /\ r.inbox = s.inbox /\ r.hidden = s.hidden
    BY <1>1, <1>5 DEF Handled, State
  <2> HIDE DEF r, q
  <2> QED
    BY <1>3, <1>4, <1>5, <2>1 DEF Effect
<1>6. CASE t.kind \in {"pay", "policy"}
  <2>1. r.known = s.known /\ r.inbox = s.inbox /\ r.hidden = s.hidden
    BY <1>1, <1>6 DEF Handled, State
  <2> HIDE DEF r, q
  <2> QED
    BY <1>3, <1>4, <1>6, <2>1 DEF Effect
<1>7. CASE t.kind = "shield"
  <2>1. r.known = s.known /\ r.inbox = s.inbox /\ r.hidden = [s.hidden EXCEPT ![t.sender] = @ + t.amount]
    BY <1>1, <1>7 DEF Handled, State
  <2> HIDE DEF r, q
  <2> QED
    BY <1>3, <1>4, <1>7, <2>1 DEF Effect
<1>8. CASE t.kind = "unshield"
  <2>1. r.known = s.known /\ r.inbox = s.inbox /\ r.hidden = [s.hidden EXCEPT ![t.sender] = @ - t.amount]
    BY <1>1, <1>8 DEF Handled, State
  <2> HIDE DEF r, q
  <2> QED
    BY <1>3, <1>4, <1>8, <2>1 DEF Effect
<1>9. CASE t.kind = "confidential"
  <2>1. /\ r.known = s.known /\ r.hidden = [s.hidden EXCEPT ![t.sender] = @ - t.amount]
        /\ r.inbox = [s.inbox EXCEPT ![t.to] = @ \cup {Entry(t)}]
    BY <1>1, <1>9 DEF Handled, State
  <2>2. t.to # t.sender
    BY <1>2, <1>9 DEF Admissible
  <2> HIDE DEF r, q
  <2> QED
    BY <1>3, <1>4, <1>9, <2>1, <2>2 DEF Effect
<1>10. CASE t.kind \in Claims
  <2> DEFINE e == CHOOSE e \in Claimed(s, t) : TRUE
             to == IF t.kind = "accept" THEN t.sender ELSE t.to
  <2>1. Claimed(s, t) # {}
    BY <1>2, <1>10 DEF Admissible, Claims
  <2>2. e \in s.inbox[t.sender] /\ e.from = t.to /\ e.nonce = t.proof
    <3>1. e \in Claimed(s, t)
      BY <2>1
    <3> HIDE DEF e
    <3> QED
      BY <3>1 DEF Claimed
  <2>3. r = [s EXCEPT !.inbox[t.sender] = @ \ {e}, !.hidden[to] = @ + e.amount]
    BY <1>10 DEF Handled, Popped, Refunded, Claims
  <2> HIDE DEF e, r, q
  <2>4. /\ r.known = s.known /\ r.inbox = [s.inbox EXCEPT ![t.sender] = @ \ {e}]
        /\ r.hidden = [s.hidden EXCEPT ![to] = @ + e.amount]
    BY <1>1, <2>3 DEF State
  <2> QED
    BY <1>3, <1>4, <1>10, <2>2, <2>4 DEF Effect
<1>11. t.kind \in {"register", "pay", "policy", "shield", "unshield", "confidential"} \cup Claims
  BY <1>1 DEF Kinds, Claims
<1> HIDE DEF q, r
<1> QED
  BY <1>5, <1>6, <1>7, <1>8, <1>9, <1>10, <1>11

\* A transaction that is executed is a new one.
Fresh(t, C) == t.kind # "register" => \A u \in C : u.sender = t.sender => u.nonce < t.nonce

LEMMA UsedNext ==
  ASSUME NEW s, Sound(s), NEW t \in Tx, Valid(s, t), NEW r, Effect(s, t, r), NEW C, Used(s, C)
  PROVE  Used(r, C \cup {t}) /\ Fresh(t, C)
<1>1. /\ t.sender \in Accounts /\ t.nonce \in Nat /\ s.nonce \in [Accounts -> Nat]
      /\ r.nonce = [s.nonce EXCEPT ![t.sender] = @ + 1] /\ s.known \subseteq r.known
      /\ Paying(t) => t.to # t.sender
  BY DEF Effect, Sound, State, Amounts, Tx, Claims, Paying
<1>2. t.nonce <= s.nonce[t.sender] /\ (t.kind # "register" => t.nonce = s.nonce[t.sender])
  BY <1>1 DEF Valid
<1>3. /\ C \subseteq Tx /\ Me \in s.known
      /\ \A u \in C : u.sender \in Accounts /\ u.nonce \in Nat /\ u.nonce < s.nonce[u.sender]
                      /\ (Paying(u) => u.to # u.sender)
  BY DEF Used, Tx
<1>4. \A a \in Accounts : r.nonce[a] = IF a = t.sender THEN s.nonce[a] + 1 ELSE s.nonce[a]
  BY <1>1
<1>5. Fresh(t, C)
  BY <1>2, <1>3 DEF Fresh
<1>6. \A u \in C \cup {t} : u.nonce < r.nonce[u.sender] /\ (Paying(u) => u.to # u.sender)
  BY <1>1, <1>2, <1>3, <1>4
<1>7. ASSUME NEW u \in C \cup {t}, NEW v \in C \cup {t}, u.sender = v.sender, u.nonce = v.nonce,
             "register" \notin {u.kind, v.kind}
      PROVE  u = v
  <2>1. \A w \in C : w.sender = t.sender /\ t.kind # "register" => w.nonce < t.nonce /\ w.nonce \in Nat
    BY <1>3, <1>5 DEF Fresh
  <2>2. CASE u \in C /\ v \in C
    BY <1>7, <2>2 DEF Used
  <2> QED
    BY <1>1, <1>7, <2>1, <2>2
<1>8. IsFiniteSet(C \cup {t})
  BY FS_AddElement DEF Used
<1> QED
  BY <1>1, <1>3, <1>5, <1>6, <1>7, <1>8 DEF Used

LEMMA InboxNext ==
  ASSUME NEW s, Sound(s), NEW t \in Tx, NEW r, Effect(s, t, r), NEW a \in Accounts, NEW e \in r.inbox[a]
  PROVE  e \in s.inbox[a] \/ (Paying(t) /\ a = t.to /\ e = Entry(t))
<1>3. t.sender \in Accounts /\ t.to \in Accounts /\ s.inbox \in [Accounts -> SUBSET Entries]
  BY DEF Sound, State, Tx
<1>1. CASE r.inbox = s.inbox
  BY <1>1
<1>2. CASE t.kind = "confidential" /\ r.inbox = [s.inbox EXCEPT ![t.to] = @ \cup {Entry(t)}]
  BY <1>2, <1>3 DEF Paying
<1>4. CASE t.kind \in Claims /\ \E d : r.inbox = [s.inbox EXCEPT ![t.sender] = @ \ {d}]
  BY <1>3, <1>4
<1> QED
  BY <1>1, <1>2, <1>4 DEF Effect

LEMMA BooksNext ==
  ASSUME NEW s, Sound(s), NEW t \in Tx, Valid(s, t), NEW r, Effect(s, t, r), NEW C, Booked(s, C)
  PROVE  Booked(r, C \cup {t})
<1> DEFINE D == C \cup {t}
<1>1. Used(s, C) /\ Paid(s, C) /\ Answered(s, C)
  BY DEF Booked
<1>2. Used(r, D) /\ Fresh(t, C)
  BY <1>1, UsedNext
<1>3. /\ t.sender \in Accounts /\ t.to \in Accounts /\ s.inbox \in [Accounts -> SUBSET Entries]
      /\ C \subseteq Tx /\ t.nonce \in Nat
  BY <1>1 DEF Used, Sound, State, Tx
\* What the inboxes have gained and lost.
<1>4. \A a \in Accounts : \A e \in r.inbox[a] :
        e \in s.inbox[a] \/ (Paying(t) /\ a = t.to /\ e = Entry(t))
  BY InboxNext
<1>5. Paid(r, D)
  <2> SUFFICES ASSUME NEW a \in Accounts, NEW e \in r.inbox[a]
               PROVE  \E p \in D : Paying(p) /\ p.to = a /\ e = Entry(p)
    BY DEF Paid
  <2>1. CASE e \in s.inbox[a]
    BY <1>1, <2>1 DEF Paid
  <2> QED
    BY <1>4, <2>1
<1>6. ASSUME NEW p \in C, NEW q \in C, Paying(p), Paying(q), p.sender = q.sender, p.nonce = q.nonce
      PROVE  p = q
  BY <1>1, <1>6 DEF Used, Paying
\* An answer on the ledger is about a payment on the ledger, which is not in an inbox.
<1>7. ASSUME NEW u \in C, u.kind \in Claims
      PROVE  /\ \E p \in D : Paying(p) /\ Answers(u, p)
             /\ \A e \in r.inbox[u.sender] : ~ (e.from = u.to /\ e.nonce = u.proof)
  <2>1. PICK p \in C : Paying(p) /\ Answers(u, p)
    BY <1>1, <1>7 DEF Answered
  <2>2. \A e \in s.inbox[u.sender] : ~ (e.from = u.to /\ e.nonce = u.proof)
    BY <1>1, <1>7 DEF Answered
  <2>3. u.sender \in Accounts
    BY <1>3 DEF Tx
  <2>4. ASSUME Paying(t), NEW e, e = Entry(t), e.from = u.to, e.nonce = u.proof
        PROVE  FALSE
    <3>1. p.sender = t.sender /\ p.nonce = t.nonce
      BY <2>1, <2>4 DEF Answers, Entry
    <3>2. p.nonce < t.nonce
      BY <1>2, <2>4, <3>1 DEF Fresh, Paying
    <3> QED
      BY <1>3, <3>1, <3>2
  <2> QED
    BY <1>4, <2>1, <2>2, <2>3, <2>4
<1>8. ASSUME t.kind \in Claims
      PROVE  /\ \E p \in C : Paying(p) /\ Answers(t, p)
             /\ \A e \in r.inbox[t.sender] : ~ (e.from = t.to /\ e.nonce = t.proof)
             /\ \A u \in C : u.kind \in Claims => ~ (u.sender = t.sender /\ u.to = t.to /\ u.proof = t.proof)
  <2>1. PICK e \in s.inbox[t.sender] : /\ e.from = t.to /\ e.nonce = t.proof
                                       /\ r.inbox = [s.inbox EXCEPT ![t.sender] = @ \ {e}]
    BY <1>8 DEF Effect, Claims
  <2>2. PICK p \in C : Paying(p) /\ p.to = t.sender /\ e = Entry(p)
    BY <1>1, <1>3, <2>1 DEF Paid
  <2>3. p.sender = t.to /\ p.nonce = t.proof
    BY <2>1, <2>2 DEF Entry
  <2>4. ASSUME NEW d \in r.inbox[t.sender], d.from = t.to, d.nonce = t.proof
        PROVE  FALSE
    <3>1. d \in s.inbox[t.sender] /\ d # e
      BY <1>3, <2>1, <2>4
    <3>2. PICK q \in C : Paying(q) /\ q.to = t.sender /\ d = Entry(q)
      BY <1>1, <1>3, <3>1 DEF Paid
    <3>3. q.sender = t.to /\ q.nonce = t.proof
      BY <2>4, <3>2 DEF Entry
    <3>4. q = p
      BY <1>6, <2>2, <2>3, <3>2, <3>3
    <3> QED
      BY <2>2, <3>1, <3>2, <3>4
  <2>5. ASSUME NEW u \in C, u.kind \in Claims, u.sender = t.sender, u.to = t.to, u.proof = t.proof
        PROVE  FALSE
    BY <1>1, <2>1, <2>5 DEF Answered
  <2> QED
    BY <1>8, <2>2, <2>3, <2>4, <2>5 DEF Answers
<1>9. Answered(r, D)
  <2> SUFFICES ASSUME NEW u \in D, u.kind \in Claims
               PROVE  /\ \E p \in D : Paying(p) /\ Answers(u, p)
                      /\ \A e \in r.inbox[u.sender] : ~ (e.from = u.to /\ e.nonce = u.proof)
                      /\ \A v \in D :
                           v.kind \in Claims /\ v.sender = u.sender /\ v.to = u.to /\ v.proof = u.proof => v = u
    BY DEF Answered
  <2>1. CASE u = t
    BY <1>8, <2>1
  <2>2. CASE u \in C
    <3>1. \A v \in C : v.kind \in Claims /\ v.sender = u.sender /\ v.to = u.to /\ v.proof = u.proof => v = u
      BY <1>1, <2>2 DEF Answered
    <3> QED
      BY <1>7, <1>8, <2>2, <3>1
  <2> QED
    BY <2>1, <2>2
<1> QED
  BY <1>2, <1>5, <1>9 DEF Booked

\* The wallet does not notice.
LEMMA QueuedNext ==
  ASSUME NEW w, NEW C, NEW D, C \subseteq D, Queued(w, C)
  PROVE  Queued(w, D)
<1>1. w \in WalletType(D)
  BY DEF Queued, WalletType
<1>2. ASSUME NEW i \in DOMAIN w.pending
      PROVE  Outcome(D, w.pending[i].tx, At(w, i - 1), At(w, i))
  <2>1. w.pending[i].tx.kind \in Hiding
    <3>1. w.pending \in Seq([tx : Mine, after : Nat])
      BY <1>1 DEF WalletType
    <3>2. w.pending[i] \in [tx : Mine, after : Nat]
      BY <3>1, Member
    <3> QED
      BY <3>2 DEF Mine
  <2>2. Outcome(C, w.pending[i].tx, At(w, i - 1), At(w, i))
    BY DEF Queued
  <2> QED
    BY <2>1, <2>2 DEF Outcome, Hiding
<1> QED
  BY <1>1, <1>2 DEF Queued

LEMMA FollowedNext ==
  ASSUME NEW w, NEW C, NEW F, NEW sg, NEW gv, NEW ms, NEW t \in Submitted \cup sg, Followed(w, C, F, sg, gv, ms)
  PROVE  Followed(w, C \cup {t}, F \cup {t}, sg, gv, ms)
BY DEF Followed

LEMMA RememberedNext ==
  ASSUME NEW s, Sound(s), NEW t \in Tx, NEW r, Effect(s, t, r), NEW C, Used(s, C), Fresh(t, C),
         NEW w, w.seen \subseteq C, NEW gv, Remembered(w, s, gv)
  PROVE  Remembered(w, r, gv)
<1> SUFFICES ASSUME NEW u \in w.seen, Paying(u), u.to = Me, Entry(u) \in r.inbox[Me]
             PROVE  Entry(u) \in s.inbox[Me]
  BY DEF Remembered
<1>1. Me \in Accounts /\ u \in Tx /\ u \in C
  BY DEF Used, Tx
<1>2. ASSUME Paying(t), Entry(u) = Entry(t)
      PROVE  FALSE
  <2>1. u.sender = t.sender /\ u.nonce = t.nonce /\ t.nonce \in Nat
    BY <1>2 DEF Entry, Tx
  <2> QED
    BY <1>1, <1>2, <2>1 DEF Fresh, Paying
<1> QED
  BY <1>1, <1>2, InboxNext

\* What the queue of a wallet holds.
LEMMA QueueTyped ==
  ASSUME NEW w, NEW C, Queued(w, C)
  PROVE  /\ w.pending \in Seq([tx : Mine, after : Nat]) /\ Len(w.pending) \in Nat
         /\ DOMAIN w.pending = 1 .. Len(w.pending)
         /\ w.nonce \in Nat /\ w.amount \in Nat /\ w.confirmed \in Nat /\ w.seen \subseteq C
         /\ w.sent \subseteq {t \in Mine : Paying(t)}
         /\ \A i \in DOMAIN w.pending :
              /\ w.pending[i] \in [tx : Mine, after : Nat] /\ w.pending[i].tx \in Queue(w)
              /\ w.pending[i].tx \in Mine /\ w.pending[i].after \in Nat
         /\ \A i \in 0 .. Len(w.pending) : At(w, i) \in Nat
<1>1. w \in WalletType(C)
  BY DEF Queued
<1>2. /\ w.pending \in Seq([tx : Mine, after : Nat]) /\ w.nonce \in Nat /\ w.amount \in Nat
      /\ w.confirmed \in Nat /\ w.seen \subseteq C /\ w.sent \subseteq {t \in Mine : Paying(t)}
  BY <1>1 DEF WalletType
<1>3. Len(w.pending) \in Nat /\ DOMAIN w.pending = 1 .. Len(w.pending)
  BY <1>2
<1>4. ASSUME NEW i \in DOMAIN w.pending
      PROVE  /\ w.pending[i] \in [tx : Mine, after : Nat] /\ w.pending[i].tx \in Queue(w)
             /\ w.pending[i].tx \in Mine /\ w.pending[i].after \in Nat
  <2>1. w.pending[i] \in [tx : Mine, after : Nat]
    BY <1>2, Member
  <2> QED
    BY <2>1 DEF Queue
<1>5. ASSUME NEW i \in 0 .. Len(w.pending)
      PROVE  At(w, i) \in Nat
  <2>1. i # 0 => i \in DOMAIN w.pending
    BY <1>3
  <2> QED
    BY <1>2, <1>4, <2>1 DEF At
<1> QED
  BY <1>2, <1>3, <1>4, <1>5

\* A transaction waits once.
LEMMA QueuedOnce ==
  ASSUME NEW w, NEW C, Queued(w, C), NEW i \in DOMAIN w.pending, NEW j \in DOMAIN w.pending,
         w.pending[i].tx.nonce = w.pending[j].tx.nonce
  PROVE  i = j
<1>1. DOMAIN w.pending = 1 .. Len(w.pending) /\ Len(w.pending) \in Nat
  BY QueueTyped
<1>2. w.pending[i].tx.nonce \in Nat /\ w.pending[j].tx.nonce \in Nat
  BY QueueTyped DEF Mine, Tx
<1>3. \A k, l \in DOMAIN w.pending : k < l => w.pending[k].tx.nonce < w.pending[l].tx.nonce
  BY DEF Queued
<1>4. ~ (i < j) /\ ~ (j < i)
  BY <1>2, <1>3
<1> QED
  BY <1>1, <1>4

\* Of two payments of one account with one nonce.
LEMMA PaidOnce ==
  ASSUME NEW s, NEW C, Used(s, C), NEW p \in C, NEW q \in C, Paying(p), Paying(q),
         p.sender = q.sender, p.nonce = q.nonce
  PROVE  p = q
BY DEF Used, Paying

\* A payment is returned once.
LEMMA ReturnedOnce ==
  ASSUME NEW s, NEW C, Booked(s, C), NEW p \in C, Paying(p), p.sender = Me,
         NEW u \in C, Returns(u, p)
  PROVE  /\ Answers(u, p) /\ u.sender \in Accounts
         /\ \A t \in C : Returns(t, p) => t = u
         /\ \A e \in s.inbox[p.to] : ~ (e.from = Me /\ e.nonce = p.nonce)
<1>1. ASSUME NEW t \in C, Returns(t, p)
      PROVE  Answers(t, p)
  <2>1. PICK q \in C : Paying(q) /\ Answers(t, q)
    BY <1>1 DEF Booked, Answered, Returns, Claims
  <2>2. q = p
    BY <1>1, <2>1, PaidOnce DEF Booked, Answers, Returns
  <2> QED
    BY <2>1, <2>2
<1>2. u.sender \in Accounts
  BY DEF Booked, Used, Tx
<1>3. \A t \in C : Returns(t, p) => t = u
  BY <1>1 DEF Booked, Answered, Answers
<1>4. \A e \in s.inbox[p.to] : ~ (e.from = Me /\ e.nonce = p.nonce)
  BY <1>1 DEF Booked, Answered, Answers
<1> QED
  BY <1>1, <1>2, <1>3, <1>4

LEMMA ReturnedFinite ==
  ASSUME NEW s, NEW C, Used(s, C), NEW w
  PROVE  IsFiniteSet(Returned(w, C)) /\ \A e \in Returned(w, C) : e.amount \in Nat
<1> DEFINE Q == {q \in C : Paying(q) /\ q.sender = Me /\ \E t \in C \ w.seen : Returns(t, q)}
<1>1. IsFiniteSet(Q) /\ Q \subseteq Tx
  BY FS_Subset DEF Used
<1>2. Returned(w, C) = {Entry(p) : p \in Q}
  BY DEF Returned
<1> HIDE DEF Q
<1>3. IsFiniteSet(Returned(w, C))
  BY <1>1, <1>2, FewEntries
<1> QED
  BY <1>1, <1>2, <1>3 DEF Entry, Tx

\* A new transaction returns nothing, unless it refuses a payment of the owner.
LEMMA ReturnedSame ==
  ASSUME NEW s, NEW C, Booked(s, C), NEW t \in Tx, Fresh(t, C), NEW w, w.seen \subseteq C,
         ~ (t.kind = "refuse" /\ t.to = Me)
  PROVE  Returned(w, C \cup {t}) = Returned(w, C)
<1>1. \A q : ~ Returns(t, q)
  BY DEF Returns
<1>2. ASSUME Paying(t), t.sender = Me, NEW u \in C, Returns(u, t)
      PROVE  FALSE
  <2>1. PICK q \in C : Paying(q) /\ Answers(u, q)
    BY <1>2 DEF Booked, Answered, Returns, Claims
  <2>2. q.sender = t.sender /\ q.nonce = t.nonce /\ t.nonce \in Nat
    BY <1>2, <2>1 DEF Answers, Returns, Tx
  <2> QED
    BY <1>2, <2>2 DEF Fresh, Paying
<1>3. \A q : /\ q \in C \cup {t} /\ Paying(q) /\ q.sender = Me /\ (\E u \in (C \cup {t}) \ w.seen : Returns(u, q))
             <=> q \in C /\ Paying(q) /\ q.sender = Me /\ (\E u \in C \ w.seen : Returns(u, q))
  BY <1>1, <1>2
<1> QED
  BY <1>3 DEF Returned

\* The refusal of a payment of the owner returns it.
LEMMA ReturnedMore ==
  ASSUME NEW s, Sound(s), NEW C, Booked(s, C), NEW t \in Tx, Fresh(t, C), NEW w, w.seen \subseteq C,
         t.kind = "refuse", t.to = Me, NEW e \in s.inbox[t.sender], e.from = Me, e.nonce = t.proof
  PROVE  e \notin Returned(w, C) /\ Returned(w, C \cup {t}) = Returned(w, C) \cup {e}
<1>1. PICK p \in C : Paying(p) /\ p.to = t.sender /\ e = Entry(p)
  BY DEF Booked, Paid, Tx
<1>2. p.sender = Me /\ p.nonce = t.proof
  BY <1>1 DEF Entry
<1>3. Returns(t, p) /\ t \notin C
  BY <1>2 DEF Returns, Fresh, Tx
<1>4. ASSUME NEW u \in C, Returns(u, p)
      PROVE  FALSE
  <2>1. \A d \in s.inbox[p.to] : ~ (d.from = Me /\ d.nonce = p.nonce)
    BY <1>1, <1>2, <1>4, ReturnedOnce
  <2> QED
    BY <1>1, <1>2, <2>1
<1>5. ASSUME NEW q \in C, Paying(q), q.sender = Me, q.nonce = p.nonce
      PROVE  q = p
  BY <1>1, <1>2, <1>5, PaidOnce DEF Booked
<1>6. e \notin Returned(w, C)
  <2> SUFFICES ASSUME NEW q \in C, Paying(q), q.sender = Me, e = Entry(q), NEW u \in C, Returns(u, q)
               PROVE  FALSE
    BY DEF Returned
  <2>1. q = p
    BY <1>1, <1>5 DEF Entry
  <2> QED
    BY <1>4, <2>1
<1>7. ~ (Paying(t))
  BY DEF Paying
<1>8. \A q \in C : Paying(q) /\ q.sender = Me /\ Returns(t, q) => q = p
  BY <1>2, <1>5 DEF Returns
<1>9. Returned(w, C \cup {t}) \subseteq Returned(w, C) \cup {e}
  BY <1>1, <1>7, <1>8 DEF Returned
<1>10. Returned(w, C) \subseteq Returned(w, C \cup {t})
  BY DEF Returned
<1>11. e \in Returned(w, C \cup {t})
  BY <1>1, <1>2, <1>3 DEF Returned
<1> QED
  BY <1>6, <1>9, <1>10, <1>11

\* What a claim claims.
LEMMA ClaimOf ==
  ASSUME NEW s, Sound(s), NEW C, Booked(s, C), NEW t \in Tx, t.kind \in Claims, NEW r, Effect(s, t, r)
  PROVE  \E p \in C : /\ Paying(p) /\ Answers(t, p) /\ t.to # t.sender /\ Entry(p) \in s.inbox[t.sender]
                      /\ r.hidden = [s.hidden EXCEPT ![IF t.kind = "accept" THEN t.sender ELSE t.to] = @ + p.amount]
<1>1. PICK e \in s.inbox[t.sender] :
        /\ e.from = t.to /\ e.nonce = t.proof
        /\ r.hidden = [s.hidden EXCEPT ![IF t.kind = "accept" THEN t.sender ELSE t.to] = @ + e.amount]
  BY DEF Effect, Claims
<1>2. PICK p \in C : Paying(p) /\ p.to = t.sender /\ e = Entry(p)
  BY DEF Booked, Paid, Tx
<1>3. p.sender = t.to /\ p.nonce = t.proof /\ e.amount = p.amount /\ p.to # p.sender
  BY <1>1, <1>2 DEF Entry, Booked, Used
<1> QED
  BY <1>1, <1>2, <1>3 DEF Answers

\* The transaction whose turn it is leaves what the wallet counts on.
LEMMA MyTurn ==
  ASSUME NEW s, Sound(s), NEW C, Booked(s, C), NEW t \in Tx, NEW r, Effect(s, t, r),
         t.sender = Me, t.kind \in Hiding, NEW x \in Nat, NEW y \in Nat, Outcome(C, t, x, y),
         NEW o \in Nat, s.hidden[Me] = x + o
  PROVE  r.hidden[Me] = y + o
<1>1. Me \in Accounts /\ s.hidden \in [Accounts -> Nat] /\ t.amount \in Nat /\ t.to \in Accounts
  BY DEF Sound, State, Amounts, Tx
<1>2. CASE t.kind = "shield"
  <2>1. r.hidden = [s.hidden EXCEPT ![Me] = @ + t.amount] /\ y = x + t.amount
    BY <1>2 DEF Effect, Claims, Outcome
  <2> QED
    BY <1>1, <2>1
<1>3. CASE t.kind \in {"unshield", "confidential"}
  <2>1. r.hidden = [s.hidden EXCEPT ![Me] = @ - t.amount]
    BY <1>3 DEF Effect, Claims
  <2>2. y = x - t.amount
    BY <1>3 DEF Outcome
  <2> QED
    BY <1>1, <2>1, <2>2
<1>4. CASE t.kind \in Claims
  <2>1. PICK p \in C :
          /\ Paying(p) /\ Answers(t, p) /\ t.to # t.sender /\ Entry(p) \in s.inbox[t.sender]
          /\ r.hidden = [s.hidden EXCEPT ![IF t.kind = "accept" THEN t.sender ELSE t.to] = @ + p.amount]
    BY <1>4, ClaimOf
  <2>2. p.amount \in Nat
    BY DEF Booked, Used, Tx
  <2>3. CASE t.kind = "accept"
    <3>1. PICK q \in C : Paying(q) /\ Answers(t, q) /\ y = x + q.amount
      BY <2>3 DEF Outcome
    <3>2. p.sender = q.sender /\ p.nonce = q.nonce /\ Used(s, C)
      BY <2>1, <3>1 DEF Booked, Answers
    <3>3. q = p
      BY <2>1, <3>1, <3>2, PaidOnce
    <3> QED
      BY <1>1, <2>1, <2>2, <2>3, <3>1, <3>3
  <2>4. CASE t.kind = "refuse"
    <3>1. y = x
      BY <2>4 DEF Outcome
    <3> QED
      BY <1>1, <2>1, <2>2, <2>4, <3>1
  <2> QED
    BY <1>4, <2>3, <2>4 DEF Claims
<1> QED
  BY <1>2, <1>3, <1>4 DEF Hiding, Claims

\* Another one changes the hidden balance by what it returns.
LEMMA AnotherTurn ==
  ASSUME NEW s, Sound(s), NEW C, Booked(s, C), NEW t \in Tx, Fresh(t, C), NEW r, Effect(s, t, r),
         t.sender = Me => t.kind \notin Hiding, NEW w, w.seen \subseteq C,
         NEW x \in Nat, s.hidden[Me] = x + Owed(Returned(w, C))
  PROVE  r.hidden[Me] = x + Owed(Returned(w, C \cup {t}))
<1>1. Me \in Accounts /\ s.hidden \in [Accounts -> Nat] /\ t.amount \in Nat /\ t.to \in Accounts /\ t.sender \in Accounts
  <2>1. Me \in Accounts
    BY DEF Sound, State, Booked, Used
  <2> QED
    BY <2>1 DEF Sound, State, Amounts, Tx
<1>2. Used(s, C)
  BY DEF Booked
<1>3. CASE t.kind = "refuse" /\ t.to = Me
  <2>1. PICK p \in C : /\ Paying(p) /\ Answers(t, p) /\ Entry(p) \in s.inbox[t.sender]
                       /\ r.hidden = [s.hidden EXCEPT ![Me] = @ + p.amount]
    BY <1>3, ClaimOf DEF Claims
  <2> DEFINE e == Entry(p)
  <2>2. /\ e.from = Me /\ e.nonce = t.proof /\ e.amount = p.amount /\ p.amount \in Nat
    BY <1>2, <1>3, <2>1 DEF Entry, Answers, Used, Tx
  <2>3. e \in s.inbox[t.sender]
    BY <2>1
  <2> HIDE DEF e
  <2>4. e \notin Returned(w, C) /\ Returned(w, C \cup {t}) = Returned(w, C) \cup {e}
    BY <1>3, <2>2, <2>3, ReturnedMore
  <2>5. Owed(Returned(w, C)) \in Nat /\ Owed(Returned(w, C) \cup {e}) = Owed(Returned(w, C)) + e.amount
    BY <1>2, <2>2, <2>4, ReturnedFinite, OwedUpdated
  <2>6. r.hidden[Me] = s.hidden[Me] + p.amount
    BY <1>1, <2>1
  <2> QED
    BY <2>2, <2>4, <2>5, <2>6
<1>4. CASE ~ (t.kind = "refuse" /\ t.to = Me)
  <2>1. Returned(w, C \cup {t}) = Returned(w, C)
    BY <1>4, ReturnedSame
  <2>2. r.hidden[Me] = s.hidden[Me]
    <3>1. CASE r.hidden = s.hidden
      BY <3>1
    <3>2. CASE t.kind \in {"shield", "unshield", "confidential"}
      <4>1. t.sender # Me
        BY <3>2 DEF Hiding
      <4>2. \/ r.hidden = [s.hidden EXCEPT ![t.sender] = @ + t.amount]
            \/ r.hidden = [s.hidden EXCEPT ![t.sender] = @ - t.amount]
        BY <3>2 DEF Effect, Claims
      <4> QED
        BY <1>1, <4>1, <4>2
    <3>3. CASE t.kind \in Claims
      <4>1. t.sender # Me
        BY <3>3 DEF Hiding, Claims
      <4>2. PICK p \in C :
              r.hidden = [s.hidden EXCEPT ![IF t.kind = "accept" THEN t.sender ELSE t.to] = @ + p.amount]
        BY <3>3, ClaimOf
      <4> QED
        BY <1>1, <1>4, <3>3, <4>1, <4>2 DEF Claims
    <3> QED
      BY <3>1, <3>2, <3>3 DEF Effect
  <2> QED
    BY <2>1, <2>2
<1> QED
  BY <1>3, <1>4

LEMMA SquaredNext ==
  ASSUME OneWallet, NEW s, Sound(s), NEW C, Booked(s, C), NEW w, Queued(w, C),
         NEW F, NEW sg, NEW gv, NEW ms, Followed(w, C, F, sg, gv, ms), Squared(w, s, C, F, gv, ms),
         NEW t \in Submitted \cup sg, t \in Tx, Valid(s, t), NEW r, Effect(s, t, r)
  PROVE  Squared(w, r, C \cup {t}, F \cup {t}, gv, ms)
<1> DEFINE D == C \cup {t}
           N == Len(w.pending)
           tx(i) == w.pending[i].tx
<1> SUFFICES ASSUME gv \cap D = {}, ms = {}
             PROVE  /\ Queue(w) \cap D \subseteq F \cup {t}
                    /\ \/ \E i, j \in DOMAIN w.pending : i < j /\ tx(i) \notin D /\ tx(j) \in D
                       \/ \E m \in 0 .. N :
                            /\ \A k \in DOMAIN w.pending : tx(k) \in D <=> k <= m
                            /\ r.hidden[Me] = At(w, m) + Owed(Returned(w, D))
  BY DEF Squared
<1>1. /\ Queue(w) \cap C \subseteq F
      /\ \/ \E i, j \in DOMAIN w.pending : i < j /\ tx(i) \notin C /\ tx(j) \in C
         \/ \E m \in 0 .. N :
              /\ \A k \in DOMAIN w.pending : tx(k) \in C <=> k <= m
              /\ s.hidden[Me] = At(w, m) + Owed(Returned(w, C))
  BY DEF Squared
<1>2. /\ N \in Nat /\ DOMAIN w.pending = 1 .. N /\ w.seen \subseteq C
      /\ \A i \in 1 .. N : /\ tx(i) \in Queue(w) /\ tx(i).sender = Me /\ tx(i).kind \in Hiding
                           /\ tx(i).nonce \in Nat /\ At(w, i) \in Nat
                           /\ Outcome(C, tx(i), At(w, i - 1), At(w, i))
                           /\ \A j \in 1 .. N : i < j => tx(i).nonce < tx(j).nonce
      /\ At(w, 0) \in Nat
  <2>1. /\ N \in Nat /\ DOMAIN w.pending = 1 .. N /\ w.seen \subseteq C
        /\ \A i \in 1 .. N : tx(i) \in Queue(w) /\ tx(i) \in Mine
        /\ \A i \in 0 .. N : At(w, i) \in Nat
    BY QueueTyped
  <2>2. \A i \in 1 .. N : tx(i).sender = Me /\ tx(i).kind \in Hiding /\ tx(i).nonce \in Nat
    BY <2>1 DEF Mine, Tx
  <2>3. \A i \in 1 .. N : /\ Outcome(C, tx(i), At(w, i - 1), At(w, i))
                          /\ \A j \in 1 .. N : i < j => tx(i).nonce < tx(j).nonce
    BY <2>1 DEF Queued
  <2> QED
    BY <2>1, <2>2, <2>3
<1>3. Used(s, C) /\ Fresh(t, C)
  BY UsedNext DEF Booked
<1>4. Queue(w) \cap D \subseteq F \cup {t}
  BY <1>1
<1>5. t.sender = Me /\ t.kind \in Hiding => t.nonce = s.nonce[Me] /\ t.nonce \in Nat
  BY DEF Valid, Hiding, Tx
<1>6. \A i \in 1 .. N : tx(i) \in C => tx(i).nonce < s.nonce[Me]
  BY <1>2, <1>3 DEF Used
<1>7. s.nonce[Me] \in Nat
  BY <1>3 DEF Used, Sound, State, Amounts
<1> HIDE DEF tx, N, D
<1>8. ASSUME NEW i \in 1 .. N, NEW j \in 1 .. N, i < j, tx(i) \notin C, tx(j) \in C
      PROVE  tx(i) \notin D /\ tx(j) \in D
  <2>1. tx(i).nonce < tx(j).nonce /\ tx(j).nonce < s.nonce[Me]
    BY <1>2, <1>6, <1>8
  <2>2. tx(i) # t
    BY <1>2, <1>5, <1>7, <2>1
  <2> QED
    BY <1>8, <2>2 DEF D
<1>9. ASSUME NEW m \in 0 .. N, \A k \in 1 .. N : tx(k) \in C <=> k <= m,
             s.hidden[Me] = At(w, m) + Owed(Returned(w, C))
      PROVE  \/ \E i, j \in 1 .. N : i < j /\ tx(i) \notin D /\ tx(j) \in D
             \/ \E l \in 0 .. N :
                  /\ \A k \in 1 .. N : tx(k) \in D <=> k <= l
                  /\ r.hidden[Me] = At(w, l) + Owed(Returned(w, D))
  <2>1. At(w, m) \in Nat
    BY <1>2
  <2>2. CASE t.sender = Me /\ t.kind \in Hiding
    <3>1. t \notin C
      BY <1>3, <2>2, <1>5 DEF Fresh, Hiding
    <3>2. t \in Queue(w)
      <4>1. t \notin Submitted
        BY <2>2 DEF OneWallet, Submitted
      <4>2. t \notin gv
        BY DEF D
      <4> QED
        BY <3>1, <4>1, <4>2 DEF Followed
    <3>3. PICK k \in 1 .. N : tx(k) = t
      BY <1>2, <3>2 DEF Queue, tx
    <3>4. \A j \in 1 .. N : tx(j) = t => j = k
      BY <1>2, <3>3
    <3>5. k > m
      BY <1>9, <3>1, <3>3
    <3>6. CASE k = m + 1
      <4>1. \A j \in 1 .. N : tx(j) \in D <=> j <= k
        BY <1>2, <1>9, <3>3, <3>4, <3>6 DEF D
      <4>2. Returned(w, D) = Returned(w, C)
        <5>1. ~ (t.kind = "refuse" /\ t.to = Me)
          BY <2>2, ClaimOf DEF Claims
        <5> QED
          BY <1>2, <1>3, <5>1, ReturnedSame DEF D
      <4>3. Owed(Returned(w, C)) \in Nat
        BY <1>3, ReturnedFinite, OwedUpdated
      <4>4. Outcome(C, t, At(w, m), At(w, k)) /\ At(w, k) \in Nat
        <5>1. k - 1 = m
          BY <3>6
        <5> QED
          BY <1>2, <3>3, <5>1
      <4>5. r.hidden[Me] = At(w, k) + Owed(Returned(w, C))
        BY <1>9, <2>1, <2>2, <4>3, <4>4, MyTurn
      <4>6. k \in 0 .. N
        BY <1>2
      <4> QED
        BY <4>1, <4>2, <4>5, <4>6
    <3>7. CASE k # m + 1
      <4>1. m + 1 \in 1 .. N /\ m + 1 < k
        BY <1>2, <3>5, <3>7
      <4>2. tx(m + 1) \notin D
        BY <1>9, <3>4, <3>7, <4>1 DEF D
      <4> QED
        BY <3>3, <4>1, <4>2 DEF D
    <3> QED
      BY <3>6, <3>7
  <2>3. CASE ~ (t.sender = Me /\ t.kind \in Hiding)
    <3>1. \A k \in 1 .. N : tx(k) \in D <=> k <= m
      BY <1>2, <1>9, <2>3 DEF D
    <3>2. r.hidden[Me] = At(w, m) + Owed(Returned(w, D))
      BY <1>2, <1>3, <1>9, <2>1, <2>3, AnotherTurn DEF D
    <3> QED
      BY <3>1, <3>2
  <2> QED
    BY <2>2, <2>3
<1>10. \/ \E i, j \in 1 .. N : i < j /\ tx(i) \notin D /\ tx(j) \in D
       \/ \E l \in 0 .. N :
            /\ \A k \in 1 .. N : tx(k) \in D <=> k <= l
            /\ r.hidden[Me] = At(w, l) + Owed(Returned(w, D))
  <2>1. CASE \E i, j \in 1 .. N : i < j /\ tx(i) \notin C /\ tx(j) \in C
    BY <1>8, <2>1
  <2>2. CASE \E m \in 0 .. N : /\ \A k \in 1 .. N : tx(k) \in C <=> k <= m
                               /\ s.hidden[Me] = At(w, m) + Owed(Returned(w, C))
    BY <1>9, <2>2
  <2> QED
    BY <1>1, <1>2, <2>1, <2>2 DEF tx, N
<1> QED
  BY <1>2, <1>4, <1>10

-----------------------------------------------------------------------------
(* What the wallet does: it hands out a transaction, is credited with what   *)
(* came back, and looks at the blocks.                                       *)

\* All of it.
Sane(w, s, C, F, sg, gv, ms) ==
  /\ Queued(w, C) /\ Followed(w, C, F, sg, gv, ms) /\ Remembered(w, s, gv)
  /\ OneWallet => Squared(w, s, C, F, gv, ms)

\* w with one transaction more at the end of its queue.
Grown(w, t, after, sent, seen) ==
  [nonce |-> w.nonce + 1, amount |-> after, confirmed |-> w.confirmed,
   pending |-> Append(w.pending, [tx |-> t, after |-> after]), sent |-> sent, seen |-> seen]

Longer(r, w, t, after) ==
  /\ DOMAIN r.pending = 1 .. Len(w.pending) + 1 /\ Len(r.pending) = Len(w.pending) + 1
  /\ \A i \in 1 .. Len(w.pending) : r.pending[i] = w.pending[i]
  /\ r.pending[Len(w.pending) + 1] = [tx |-> t, after |-> after]
  /\ r.pending \in Seq([tx : Mine, after : Nat])
  /\ \A i \in 0 .. Len(w.pending) : At(r, i) = At(w, i)
  /\ At(r, Len(w.pending) + 1) = after
  /\ Queue(r) = Queue(w) \cup {t}

LEMMA GrownQueue ==
  ASSUME NEW w, NEW C, Queued(w, C), NEW t \in Mine, NEW after \in Nat, NEW sent, NEW seen,
         NEW r, r = Grown(w, t, after, sent, seen)
  PROVE  Longer(r, w, t, after)
<1> DEFINE q == w.pending
           e == [tx |-> t, after |-> after]
           S == [tx : Mine, after : Nat]
<1>1. q \in Seq(S) /\ e \in S /\ r.pending = Append(q, e) /\ r.confirmed = w.confirmed
      /\ e.tx = t /\ e.after = after
  BY QueueTyped DEF Grown
<1> HIDE DEF S, e
<1>2. /\ Len(q) \in Nat /\ DOMAIN q = 1 .. Len(q) /\ r.pending \in Seq(S)
      /\ DOMAIN r.pending = 1 .. Len(q) + 1 /\ Len(r.pending) = Len(q) + 1
      /\ \A i \in 1 .. Len(q) : r.pending[i] = q[i] /\ i \in DOMAIN q
      /\ r.pending[Len(q) + 1] = e
  <2> HIDE DEF q
  <2> QED
    BY <1>1
<1>3. (\A i \in 0 .. Len(q) : At(r, i) = At(w, i)) /\ At(r, Len(q) + 1) = after
  BY <1>1, <1>2 DEF At
<1>4. Queue(r) = Queue(w) \cup {t}
  <2>1. \A i \in DOMAIN r.pending : i \in DOMAIN q \/ i = Len(q) + 1
    BY <1>2
  <2>2. \A i \in DOMAIN q : i \in DOMAIN r.pending /\ Len(q) + 1 \in DOMAIN r.pending
    BY <1>2
  <2>3. Len(q) + 1 \in DOMAIN r.pending
    BY <1>2
  <2>4. Queue(r) \subseteq Queue(w) \cup {t}
    BY <1>1, <1>2, <2>1 DEF Queue
  <2>5. Queue(w) \cup {t} \subseteq Queue(r)
    BY <1>1, <1>2, <2>2, <2>3 DEF Queue
  <2> QED
    BY <2>4, <2>5
<1> QED
  BY <1>2, <1>3, <1>4 DEF e, S, Longer

LEMMA GrownSane ==
  ASSUME NEW s, NEW C, NEW F, NEW sg, NEW gv, NEW ms, NEW w, Sane(w, s, C, F, sg, gv, ms),
         NEW t \in Mine, t.nonce = w.nonce, NEW after \in Nat, Outcome(C, t, w.amount, after),
         NEW sent \in SUBSET {u \in Mine : Paying(u)}, w.sent \subseteq sent, Paying(t) => t \in sent,
         NEW seen \in SUBSET C, w.seen \subseteq seen, \A u \in seen \ w.seen : Paying(u) /\ (u.to = Me => Answers(t, u))
  PROVE  Sane(Grown(w, t, after, sent, seen), s, C, F, sg \cup {t}, gv, ms)
<1> DEFINE N == Len(w.pending)
<1> SUFFICES ASSUME NEW r, r = Grown(w, t, after, sent, seen)
             PROVE  Sane(r, s, C, F, sg \cup {t}, gv, ms)
  OBVIOUS
<1>1. Queued(w, C) /\ Followed(w, C, F, sg, gv, ms) /\ Remembered(w, s, gv)
  BY DEF Sane
<1>2. /\ N \in Nat /\ w.pending \in Seq([tx : Mine, after : Nat]) /\ DOMAIN w.pending = 1 .. N
      /\ w.nonce \in Nat /\ w.amount \in Nat /\ w.confirmed \in Nat /\ w.seen \subseteq C
      /\ \A i \in 1 .. N : w.pending[i].tx \in Mine /\ w.pending[i].after \in Nat
  BY <1>1, QueueTyped
<1>3. /\ DOMAIN r.pending = 1 .. N + 1 /\ Len(r.pending) = N + 1
      /\ \A i \in 1 .. N : r.pending[i] = w.pending[i]
      /\ r.pending[N + 1] = [tx |-> t, after |-> after]
      /\ r.pending \in Seq([tx : Mine, after : Nat])
      /\ \A i \in 0 .. N : At(r, i) = At(w, i)
      /\ At(r, N + 1) = after /\ Queue(r) = Queue(w) \cup {t}
  <2>1. Longer(r, w, t, after)
    BY <1>1, GrownQueue
  <2> QED
    BY <2>1 DEF N, Longer
<1>4. /\ r.nonce = w.nonce + 1 /\ r.amount = after /\ r.confirmed = w.confirmed
      /\ r.sent = sent /\ r.seen = seen
  BY DEF Grown
<1>5. r \in WalletType(C)
  <2>1. r = [nonce |-> r.nonce, amount |-> r.amount, confirmed |-> r.confirmed, pending |-> r.pending,
             sent |-> r.sent, seen |-> r.seen]
    BY DEF Grown
  <2> QED
    BY <1>2, <1>3, <1>4, <2>1 DEF WalletType
<1> HIDE DEF N
<1>6. Queued(r, C)
  <2>1. ASSUME NEW i \in DOMAIN r.pending
        PROVE  /\ r.pending[i].tx.nonce < r.nonce
               /\ \A j \in DOMAIN r.pending : i < j => r.pending[i].tx.nonce < r.pending[j].tx.nonce
               /\ Outcome(C, r.pending[i].tx, At(r, i - 1), At(r, i))
    <3>1. CASE i \in 1 .. N
      <4>1. /\ w.pending[i].tx.nonce < w.nonce /\ w.pending[i].tx.nonce \in Nat
            /\ \A j \in 1 .. N : i < j => w.pending[i].tx.nonce < w.pending[j].tx.nonce
            /\ Outcome(C, w.pending[i].tx, At(w, i - 1), At(w, i))
        <5>1. w.pending[i].tx.nonce \in Nat
          BY <1>2, <3>1 DEF Mine, Tx
        <5> QED
          BY <1>1, <1>2, <3>1, <5>1 DEF Queued
      <4>2. i - 1 \in 0 .. N /\ i \in 0 .. N
        BY <1>2, <3>1
      <4>3. \A j \in DOMAIN r.pending : j \in 1 .. N \/ j = N + 1
        BY <1>2, <1>3
      <4>4. r.pending[i] = w.pending[i] /\ At(r, i - 1) = At(w, i - 1) /\ At(r, i) = At(w, i)
        BY <1>3, <3>1, <4>2
      <4>5. Outcome(C, r.pending[i].tx, At(r, i - 1), At(r, i))
        BY <4>1, <4>4
      <4>6. r.pending[i].tx.nonce < r.nonce
        BY <1>2, <1>4, <4>1, <4>4
      <4>7. r.pending[N + 1].tx.nonce = w.nonce
        BY <1>3
      <4>8. \A j \in DOMAIN r.pending : i < j => r.pending[i].tx.nonce < r.pending[j].tx.nonce
        BY <1>3, <4>1, <4>3, <4>4, <4>7
      <4> QED
        BY <4>5, <4>6, <4>8
    <3>2. CASE i = N + 1
      <4>1. w.amount = At(w, N) /\ N \in 0 .. N /\ i - 1 = N
        BY <1>1, <1>2, <3>2 DEF Queued, N
      <4>2. \A j \in DOMAIN r.pending : ~ (i < j)
        BY <1>2, <1>3, <3>2
      <4> QED
        BY <1>2, <1>3, <1>4, <3>2, <4>1, <4>2
    <3> QED
      BY <1>2, <1>3, <2>1, <3>1, <3>2
  <2>2. r.amount = At(r, Len(r.pending))
    BY <1>3, <1>4
  <2> QED
    BY <1>5, <2>1, <2>2 DEF Queued
<1>7. Followed(r, C, F, sg \cup {t}, gv, ms)
  <2>1. /\ sg \subseteq Mine /\ Queue(w) \subseteq sg /\ F \subseteq C
        /\ sg \subseteq gv \cup C \cup Queue(w) /\ C \subseteq Submitted \cup sg
        /\ \A u \in sg \ gv : u.nonce < w.nonce
        /\ \A p \in sg : Paying(p) => p \in w.sent \/ \E u \in w.seen : Returns(u, p)
        /\ \A u \in C \ w.seen : u.to = Me /\ u.kind \in {"confidential", "refuse"} => u \in F \cup ms
    BY <1>1 DEF Followed
  <2>2. \A u \in (sg \cup {t}) \ gv : u.nonce < r.nonce
    <3>1. \A u \in sg : u.nonce \in Nat
      BY <2>1 DEF Mine, Tx
    <3> QED
      BY <1>2, <1>4, <2>1, <3>1
  <2>3. sg \cup {t} \subseteq Mine /\ Queue(r) \subseteq sg \cup {t} /\ sg \cup {t} \subseteq gv \cup C \cup Queue(r)
    BY <1>3, <2>1
  <2>4. \A p \in sg \cup {t} : Paying(p) => p \in r.sent \/ \E u \in r.seen : Returns(u, p)
    BY <1>4, <2>1
  <2> QED
    BY <1>4, <2>1, <2>2, <2>3, <2>4 DEF Followed
<1>8. Remembered(r, s, gv)
  BY <1>1, <1>3, <1>4 DEF Remembered
<1>9. ASSUME OneWallet, gv \cap C = {}, ms = {}
      PROVE  /\ Queue(r) \cap C \subseteq F
             /\ \/ \E i, j \in DOMAIN r.pending : i < j /\ r.pending[i].tx \notin C /\ r.pending[j].tx \in C
                \/ \E m \in 0 .. Len(r.pending) :
                     /\ \A k \in DOMAIN r.pending : r.pending[k].tx \in C <=> k <= m
                     /\ s.hidden[Me] = At(r, m) + Owed(Returned(r, C))
  <2>1. t \notin C
    <3>1. t.sender = Me /\ t.kind \in Hiding
      BY DEF Mine
    <3>2. t \notin Submitted
      BY <1>9, <3>1 DEF OneWallet, Submitted
    <3>3. t \in sg \ gv => t.nonce < w.nonce
      BY <1>1 DEF Followed
    <3> QED
      BY <1>1, <1>2, <1>9, <3>2, <3>3 DEF Followed
  <2>2. Returned(r, C) = Returned(w, C)
    <3>1. \A u \in seen \ w.seen : \A q : ~ Returns(u, q)
      BY DEF Paying, Returns
    <3> QED
      BY <1>4, <3>1 DEF Returned
  <2>3. Squared(w, s, C, F, gv, ms)
    BY <1>9 DEF Sane
  <2>4. Queue(r) \cap C \subseteq F
    BY <1>3, <1>9, <2>1, <2>3 DEF Squared
  <2>5. CASE \E i, j \in DOMAIN w.pending : i < j /\ w.pending[i].tx \notin C /\ w.pending[j].tx \in C
    <3>1. \A i \in DOMAIN w.pending : i \in DOMAIN r.pending /\ r.pending[i] = w.pending[i]
      BY <1>2, <1>3
    <3> QED
      BY <2>4, <2>5, <3>1
  <2>6. CASE \E m \in 0 .. N : /\ \A k \in DOMAIN w.pending : w.pending[k].tx \in C <=> k <= m
                               /\ s.hidden[Me] = At(w, m) + Owed(Returned(w, C))
    <3>1. PICK m \in 0 .. N : /\ \A k \in DOMAIN w.pending : w.pending[k].tx \in C <=> k <= m
                              /\ s.hidden[Me] = At(w, m) + Owed(Returned(w, C))
      BY <2>6
    <3>2. m \in 0 .. Len(r.pending) /\ At(r, m) = At(w, m)
      BY <1>2, <1>3
    <3>3. ASSUME NEW k \in DOMAIN r.pending
          PROVE  r.pending[k].tx \in C <=> k <= m
      <4>1. CASE k \in 1 .. N
        BY <1>2, <1>3, <3>1, <4>1
      <4>2. CASE k = N + 1
        BY <1>2, <1>3, <2>1, <4>2
      <4> QED
        BY <1>2, <1>3, <4>1, <4>2
    <3> QED
      BY <2>2, <2>4, <3>1, <3>2, <3>3
  <2> QED
    BY <1>9, <2>3, <2>5, <2>6 DEF Squared, N
<1>10. OneWallet => Squared(r, s, C, F, gv, ms)
  BY <1>9 DEF Squared
<1> QED
  BY <1>6, <1>7, <1>8, <1>10 DEF Sane

\* w after a credit of a for the payment p, which t returned.
Credited(w, a, p, t) ==
  [nonce |-> w.nonce, amount |-> w.amount + a, confirmed |-> w.confirmed + a,
   pending |-> [n \in DOMAIN w.pending |-> [tx |-> w.pending[n].tx, after |-> w.pending[n].after + a]],
   sent |-> w.sent \ {p}, seen |-> w.seen \cup {t}]

LEMMA ReturnedLess ==
  ASSUME NEW s, NEW C, Booked(s, C), NEW w, NEW p \in C, Paying(p), p.sender = Me, NEW t \in C \ w.seen, Returns(t, p),
         NEW r, r.seen = w.seen \cup {t}
  PROVE  Entry(p) \in Returned(w, C) /\ Returned(r, C) = Returned(w, C) \ {Entry(p)}
<1>1. Entry(p) \in Returned(w, C)
  BY DEF Returned
<1>2. \A u \in C : Returns(u, p) => u = t
  BY ReturnedOnce
<1>3. ASSUME NEW q \in C, Paying(q), q.sender = Me, Entry(q) = Entry(p)
      PROVE  q = p
  <2>1. q.nonce = p.nonce /\ Used(s, C)
    BY <1>3 DEF Entry, Booked
  <2> QED
    BY <1>3, <2>1, PaidOnce
<1>4. Entry(p) \notin Returned(r, C)
  BY <1>2, <1>3 DEF Returned
<1>5. Returned(r, C) \subseteq Returned(w, C)
  BY DEF Returned
<1>6. ASSUME NEW q \in C, Paying(q), q.sender = Me, Entry(q) # Entry(p), NEW u \in C \ w.seen, Returns(u, q)
      PROVE  Entry(q) \in Returned(r, C)
  <2>1. u # t
    <3> SUFFICES ASSUME Returns(t, q)
                 PROVE  FALSE
      BY <1>6
    <3>1. q.nonce = p.nonce /\ Used(s, C)
      BY DEF Returns, Booked
    <3>2. q = p
      BY <1>6, <3>1, PaidOnce
    <3> QED
      BY <1>6, <3>2
  <2> QED
    BY <1>6, <2>1 DEF Returned
<1>7. Returned(w, C) \ {Entry(p)} \subseteq Returned(r, C)
  BY <1>6 DEF Returned
<1> QED
  BY <1>1, <1>4, <1>5, <1>7

LEMMA CreditedSane ==
  ASSUME NEW s, NEW C, Booked(s, C), NEW F, NEW sg, NEW gv, NEW ms, NEW w, Sane(w, s, C, F, sg, gv, ms),
         s.hidden[Me] \in Nat, NEW p \in C, p \in w.sent, NEW t \in C \ w.seen, Returns(t, p)
  PROVE  /\ Sane(Credited(w, p.amount, p, t), s, C, F, sg, gv, ms)
         /\ Queue(Credited(w, p.amount, p, t)) = Queue(w)
<1> DEFINE N == Len(w.pending)
<1> SUFFICES ASSUME NEW a, a = p.amount, NEW r, r = Credited(w, a, p, t)
             PROVE  Sane(r, s, C, F, sg, gv, ms) /\ Queue(r) = Queue(w)
  OBVIOUS
<1>1. Queued(w, C) /\ Followed(w, C, F, sg, gv, ms) /\ Remembered(w, s, gv)
  BY DEF Sane
<1>2. /\ N \in Nat /\ w.pending \in Seq([tx : Mine, after : Nat]) /\ DOMAIN w.pending = 1 .. N
      /\ w.nonce \in Nat /\ w.amount \in Nat /\ w.confirmed \in Nat /\ w.seen \subseteq C
      /\ w.sent \subseteq {u \in Mine : Paying(u)}
      /\ \A i \in 1 .. N : w.pending[i].tx \in Mine /\ w.pending[i].after \in Nat
      /\ \A i \in 0 .. N : At(w, i) \in Nat
  BY <1>1, QueueTyped
<1>3. /\ p \in Mine /\ Paying(p) /\ p.sender = Me /\ a \in Nat
  <2>1. p \in Mine /\ Paying(p)
    BY <1>2
  <2> QED
    BY <2>1 DEF Mine, Tx
<1>4. /\ r.nonce = w.nonce /\ r.amount = w.amount + a /\ r.confirmed = w.confirmed + a
      /\ r.sent = w.sent \ {p} /\ r.seen = w.seen \cup {t} /\ DOMAIN r.pending = 1 .. N
      /\ \A i \in 1 .. N : r.pending[i] = [tx |-> w.pending[i].tx, after |-> w.pending[i].after + a]
  BY <1>2 DEF Credited
<1> HIDE DEF N
<1>5. r.pending \in Seq([tx : Mine, after : Nat]) /\ Len(r.pending) = N
  <2>1. r.pending = [i \in 1 .. N |-> [tx |-> w.pending[i].tx, after |-> w.pending[i].after + a]]
    BY <1>2 DEF Credited
  <2>2. \A i \in 1 .. N : [tx |-> w.pending[i].tx, after |-> w.pending[i].after + a] \in [tx : Mine, after : Nat]
    BY <1>2, <1>3
  <2> DEFINE f(i) == [tx |-> w.pending[i].tx, after |-> w.pending[i].after + a]
             q == r.pending
  <2>3. q = [i \in 1 .. N |-> f(i)] /\ \A i \in 1 .. N : f(i) \in [tx : Mine, after : Nat]
    BY <2>1, <2>2
  <2> HIDE DEF f, q
  <2>4. q \in Seq([tx : Mine, after : Nat]) /\ Len(q) = N
    BY <1>2, <2>3
  <2> QED
    BY <2>4 DEF q
<1>6. r \in WalletType(C)
  <2>1. r = [nonce |-> r.nonce, amount |-> r.amount, confirmed |-> r.confirmed, pending |-> r.pending,
             sent |-> r.sent, seen |-> r.seen]
    BY DEF Credited
  <2> QED
    BY <1>2, <1>3, <1>4, <1>5, <2>1 DEF WalletType
<1>13. \A i \in 1 .. N : r.pending[i].tx = w.pending[i].tx /\ r.pending[i].after = w.pending[i].after + a
  <2> SUFFICES ASSUME NEW i \in 1 .. N
               PROVE  r.pending[i].tx = w.pending[i].tx /\ r.pending[i].after = w.pending[i].after + a
    OBVIOUS
  <2>1. r.pending[i] = [tx |-> w.pending[i].tx, after |-> w.pending[i].after + a]
    BY <1>4
  <2> QED
    BY <2>1
<1>7. \A i \in 0 .. N : At(r, i) = At(w, i) + a
  BY <1>2, <1>4, <1>13 DEF At
<1>8. Queue(r) = Queue(w)
  <2>1. DOMAIN r.pending = DOMAIN w.pending /\ \A i \in DOMAIN w.pending : r.pending[i].tx = w.pending[i].tx
    BY <1>2, <1>4, <1>13
  <2> QED
    BY <2>1 DEF Queue
<1>9. Queued(r, C)
  <2>1. ASSUME NEW i \in DOMAIN r.pending
        PROVE  /\ r.pending[i].tx.nonce < r.nonce
               /\ \A j \in DOMAIN r.pending : i < j => r.pending[i].tx.nonce < r.pending[j].tx.nonce
               /\ Outcome(C, r.pending[i].tx, At(r, i - 1), At(r, i))
    <3>1. \A j \in 1 .. N : r.pending[j].tx = w.pending[j].tx
      BY <1>13
    <3>2. i \in 1 .. N /\ i - 1 \in 0 .. N /\ i \in 0 .. N
      BY <1>2, <1>4
    <3>3. /\ w.pending[i].tx.nonce < w.nonce
          /\ \A j \in 1 .. N : i < j => w.pending[i].tx.nonce < w.pending[j].tx.nonce
          /\ Outcome(C, w.pending[i].tx, At(w, i - 1), At(w, i))
      BY <1>1, <1>2, <3>2 DEF Queued
    <3>4. w.pending[i].tx.kind \in Hiding /\ w.pending[i].tx.amount \in Nat
      BY <1>2, <3>2 DEF Mine, Tx
    <3>5. At(r, i - 1) = At(w, i - 1) + a /\ At(r, i) = At(w, i) + a /\ At(w, i - 1) \in Nat /\ At(w, i) \in Nat
      BY <1>2, <1>7, <3>2
    <3>6. ASSUME NEW u, u.kind \in Hiding, u.amount \in Nat, NEW x \in Nat, NEW y \in Nat, Outcome(C, u, x, y)
          PROVE  Outcome(C, u, x + a, y + a)
      <4>1. CASE u.kind = "accept"
        <5>1. PICK q \in C : Paying(q) /\ Answers(u, q) /\ y = x + q.amount
          BY <3>6, <4>1 DEF Outcome
        <5>2. q.amount \in Nat
          BY DEF Booked, Used, Tx
        <5> QED
          BY <1>3, <3>6, <4>1, <5>1, <5>2 DEF Outcome
      <4>2. CASE u.kind = "shield"
        BY <1>3, <3>6, <4>2 DEF Outcome
      <4>3. CASE u.kind \in {"unshield", "confidential"}
        <5>1. y = x - u.amount
          BY <3>6, <4>3 DEF Outcome
        <5>2. y + a = (x + a) - u.amount
          BY <1>3, <3>6, <5>1
        <5> QED
          BY <4>3, <5>2 DEF Outcome
      <4>4. CASE u.kind = "refuse"
        BY <1>3, <3>6, <4>4 DEF Outcome
      <4> QED
        BY <3>6, <4>1, <4>2, <4>3, <4>4 DEF Hiding
    <3>7. Outcome(C, w.pending[i].tx, At(w, i - 1) + a, At(w, i) + a)
      BY <3>3, <3>4, <3>5, <3>6
    <3> QED
      BY <1>4, <3>1, <3>2, <3>3, <3>5, <3>7
  <2>2. r.amount = At(r, Len(r.pending))
    <3>1. w.amount = At(w, N)
      BY <1>1 DEF Queued, N
    <3> QED
      BY <1>2, <1>4, <1>5, <1>7, <3>1
  <2> QED
    BY <1>6, <2>1, <2>2 DEF Queued
<1>10. Followed(r, C, F, sg, gv, ms)
  BY <1>1, <1>4, <1>8 DEF Followed
<1>11. Remembered(r, s, gv)
  BY <1>1, <1>4, <1>8 DEF Remembered, Paying, Returns
<1>12. ASSUME OneWallet
       PROVE  Squared(r, s, C, F, gv, ms)
  <2>1. Squared(w, s, C, F, gv, ms)
    BY <1>12 DEF Sane
  <2>2. Entry(p) \in Returned(w, C) /\ Returned(r, C) = Returned(w, C) \ {Entry(p)}
    BY <1>3, <1>4, ReturnedLess
  <2>3. Owed(Returned(w, C)) \in Nat /\ Owed(Returned(r, C)) = Owed(Returned(w, C)) - a
    <3>1. Entry(p).amount = a /\ Entry(p).amount \in Nat
      BY <1>3 DEF Entry
    <3>2. IsFiniteSet(Returned(w, C)) /\ \A e \in Returned(w, C) : e.amount \in Nat
      BY ReturnedFinite DEF Booked
    <3> QED
      BY <2>2, <3>1, <3>2, OwedUpdated
  <2>4. \A k \in 1 .. N : r.pending[k].tx = w.pending[k].tx
    BY <1>13
  <2>5. \A m \in 0 .. N : s.hidden[Me] = At(w, m) + Owed(Returned(w, C)) =>
                          s.hidden[Me] = At(r, m) + Owed(Returned(r, C))
    BY <1>2, <1>3, <1>7, <2>3
  <2>6. SUFFICES ASSUME gv \cap C = {}, ms = {}
                 PROVE  \/ \E i, j \in 1 .. N : i < j /\ r.pending[i].tx \notin C /\ r.pending[j].tx \in C
                        \/ \E m \in 0 .. N : /\ \A k \in 1 .. N : r.pending[k].tx \in C <=> k <= m
                                             /\ s.hidden[Me] = At(r, m) + Owed(Returned(r, C))
    <3>1. Queue(r) = Queue(w) /\ DOMAIN r.pending = 1 .. N /\ Len(r.pending) = N
      BY <1>4, <1>5, <1>8
    <3> QED
      BY <2>1, <3>1 DEF Squared
  <2>7. \/ \E i, j \in 1 .. N : i < j /\ w.pending[i].tx \notin C /\ w.pending[j].tx \in C
        \/ \E m \in 0 .. N : /\ \A k \in 1 .. N : w.pending[k].tx \in C <=> k <= m
                             /\ s.hidden[Me] = At(w, m) + Owed(Returned(w, C))
    BY <1>2, <2>1, <2>6 DEF Squared, N
  <2> QED
    BY <2>4, <2>5, <2>7
<1> QED
  BY <1>8, <1>9, <1>10, <1>11, <1>12 DEF Sane

\* The wallet has seen a payment it need not claim.
LEMMA SeenSane ==
  ASSUME NEW s, NEW C, NEW F, NEW sg, NEW gv, NEW ms, NEW w, Sane(w, s, C, F, sg, gv, ms),
         NEW t \in C, Paying(t), Entry(t) \notin s.inbox[Me],
         NEW r, r = [w EXCEPT !.seen = @ \cup {t}]
  PROVE  Sane(r, s, C, F, sg, gv, ms) /\ Queue(r) = Queue(w)
<1>1. Queued(w, C) /\ Followed(w, C, F, sg, gv, ms) /\ Remembered(w, s, gv)
  BY DEF Sane
<1>2. w \in WalletType(C)
  BY <1>1 DEF Queued
<1>3. /\ r.nonce = w.nonce /\ r.amount = w.amount /\ r.confirmed = w.confirmed /\ r.pending = w.pending
      /\ r.sent = w.sent /\ r.seen = w.seen \cup {t} /\ r \in WalletType(C)
  BY <1>2 DEF WalletType
<1>4. Queue(r) = Queue(w) /\ \A i : At(r, i) = At(w, i)
  BY <1>3 DEF Queue, At
<1>5. Queued(r, C)
  BY <1>1, <1>3, <1>4 DEF Queued
<1>6. Followed(r, C, F, sg, gv, ms)
  BY <1>1, <1>3, <1>4 DEF Followed
<1>7. Remembered(r, s, gv)
  BY <1>1, <1>3, <1>4 DEF Remembered
<1>8. Returned(r, C) = Returned(w, C)
  BY <1>3 DEF Returned, Returns, Paying
<1>9. OneWallet => Squared(r, s, C, F, gv, ms)
  BY <1>3, <1>4, <1>8 DEF Sane, Squared
<1> QED
  BY <1>4, <1>5, <1>6, <1>7, <1>9 DEF Sane

\* What the wallet does with one transaction of the blocks.
LEMMA LookedCases ==
  ASSUME NEW w, NEW C, Queued(w, C), NEW t, NEW r, r = Looked(w, t)
  PROVE  \/ r = w /\ (t \in w.seen \/ ((t.kind # "confidential" \/ t.to # Me) /\ Refused(w, t) = {}))
         \/ t \notin w.seen /\ \E p \in Refused(w, t) : r = Credited(w, p.amount, p, t)
         \/ /\ t \notin w.seen /\ t.kind = "confidential" /\ t.to = Me /\ Entry(t) \notin ledger.inbox[Me]
            /\ r = [w EXCEPT !.seen = @ \cup {t}]
         \/ /\ t \notin w.seen /\ t.kind = "confidential" /\ t.to = Me /\ Entry(t) \in ledger.inbox[Me]
            /\ r = Grown(w, Claim(w, t), IF t.amount \in Spoilt THEN w.amount ELSE w.amount + t.amount,
                         w.sent, w.seen \cup {t})
<1>1. w = [nonce |-> w.nonce, amount |-> w.amount, confirmed |-> w.confirmed, pending |-> w.pending,
           sent |-> w.sent, seen |-> w.seen]
  BY DEF Queued, WalletType
<1>2. CASE t \in w.seen
  BY <1>2 DEF Looked
<1>3. CASE t \notin w.seen /\ Refused(w, t) # {}
  <2> DEFINE p == CHOOSE p \in Refused(w, t) : TRUE
  <2>1. p \in Refused(w, t)
    BY <1>3
  <2>2. r = [Credit(w, p.amount) EXCEPT !.sent = @ \ {p}, !.seen = @ \cup {t}]
    BY <1>3 DEF Looked
  <2> HIDE DEF p
  <2>3. Credit(w, p.amount) =
          [nonce |-> w.nonce, amount |-> w.amount + p.amount, confirmed |-> w.confirmed + p.amount,
           pending |-> [n \in DOMAIN w.pending |-> [tx |-> w.pending[n].tx, after |-> w.pending[n].after + p.amount]],
           sent |-> w.sent, seen |-> w.seen]
    <3> DEFINE q == [n \in DOMAIN w.pending |-> [tx |-> w.pending[n].tx, after |-> w.pending[n].after + p.amount]]
    <3>1. Credit(w, p.amount) = [w EXCEPT !.amount = @ + p.amount, !.confirmed = @ + p.amount, !.pending = q]
      BY DEF Credit
    <3> HIDE DEF q
    <3>2. Credit(w, p.amount) =
            [nonce |-> w.nonce, amount |-> w.amount + p.amount, confirmed |-> w.confirmed + p.amount,
             pending |-> q, sent |-> w.sent, seen |-> w.seen]
      BY <1>1, <3>1
    <3> QED
      BY <3>2 DEF q
  <2>4. r = Credited(w, p.amount, p, t)
    <3> DEFINE q == [n \in DOMAIN w.pending |-> [tx |-> w.pending[n].tx, after |-> w.pending[n].after + p.amount]]
               k == Credit(w, p.amount)
    <3>1. k = [nonce |-> w.nonce, amount |-> w.amount + p.amount, confirmed |-> w.confirmed + p.amount,
               pending |-> q, sent |-> w.sent, seen |-> w.seen]
      BY <2>3
    <3>2. Credited(w, p.amount, p, t) =
            [nonce |-> w.nonce, amount |-> w.amount + p.amount, confirmed |-> w.confirmed + p.amount,
             pending |-> q, sent |-> w.sent \ {p}, seen |-> w.seen \cup {t}]
      BY DEF Credited
    <3>3. r = [k EXCEPT !.sent = @ \ {p}, !.seen = @ \cup {t}]
      BY <2>2
    <3> HIDE DEF q, k
    <3> QED
      BY <3>1, <3>2, <3>3
  <2> QED
    BY <1>3, <2>1, <2>4
<1>4. CASE t \notin w.seen /\ Refused(w, t) = {} /\ (t.kind # "confidential" \/ t.to # Me)
  BY <1>4 DEF Looked
<1>5. CASE t \notin w.seen /\ Refused(w, t) = {} /\ t.kind = "confidential" /\ t.to = Me /\ Entry(t) \notin ledger.inbox[Me]
  BY <1>5 DEF Looked
<1>6. CASE t \notin w.seen /\ Refused(w, t) = {} /\ t.kind = "confidential" /\ t.to = Me /\ Entry(t) \in ledger.inbox[Me]
  <2> DEFINE c == Claim(w, t)
             after == IF t.amount \in Spoilt THEN w.amount ELSE w.amount + t.amount
  <2>1. r = [Stage(w, c, after) EXCEPT !.seen = @ \cup {t}]
    BY <1>6 DEF Looked
  <2> HIDE DEF c, after
  <2>2. r = Grown(w, c, after, w.sent, w.seen \cup {t})
    BY <1>1, <2>1 DEF Stage, Grown
  <2> QED
    BY <1>6, <2>2 DEF c, after
<1> QED
  BY <1>2, <1>3, <1>4, <1>5, <1>6

LEMMA LookedSane ==
  ASSUME Sound(ledger), NEW C, C = ToSet(chain), Booked(ledger, C), NEW F, NEW sg, NEW gv, NEW ms,
         NEW w, Sane(w, ledger, C, F, sg, gv, ms), NEW t \in C
  PROVE  LET r == Looked(w, t) IN
         /\ Sane(r, ledger, C, F, sg \cup Queue(r), gv, ms)
         /\ Queue(w) \subseteq Queue(r) /\ w.seen \subseteq r.seen /\ (r # w => t \in r.seen \ w.seen)
         /\ Paying(t) /\ t.to = Me => t \in r.seen
<1> SUFFICES ASSUME NEW r, r = Looked(w, t)
             PROVE  /\ Sane(r, ledger, C, F, sg \cup Queue(r), gv, ms)
                    /\ Queue(w) \subseteq Queue(r) /\ w.seen \subseteq r.seen /\ (r # w => t \in r.seen \ w.seen)
                    /\ Paying(t) /\ t.to = Me => t \in r.seen
  OBVIOUS
<1>1. Queued(w, C) /\ Followed(w, C, F, sg, gv, ms) /\ Queue(w) \subseteq sg
  BY DEF Sane, Followed
<1>2. /\ w.nonce \in Nat /\ w.amount \in Nat /\ w.seen \subseteq C /\ w.sent \subseteq {u \in Mine : Paying(u)}
      /\ t \in Tx /\ Me \in Accounts /\ Used(ledger, C)
  <2>1. C \subseteq Tx /\ Me \in ledger.known /\ ledger.known \subseteq Accounts
    BY DEF Booked, Used, Sound, State
  <2> QED
    BY <1>1, <2>1, QueueTyped DEF Booked
<1>3. CASE r = w /\ (t \in w.seen \/ ((t.kind # "confidential" \/ t.to # Me) /\ Refused(w, t) = {}))
  <2>1. sg \cup Queue(r) = sg
    BY <1>1, <1>3
  <2> QED
    BY <1>3, <2>1 DEF Paying
<1>4. ASSUME t \notin w.seen, NEW p \in Refused(w, t), r = Credited(w, p.amount, p, t)
      PROVE  /\ Sane(r, ledger, C, F, sg \cup Queue(r), gv, ms)
             /\ Queue(w) \subseteq Queue(r) /\ w.seen \subseteq r.seen /\ t \in r.seen \ w.seen
  <2>1. p \in w.sent /\ p \in C /\ t \in C \ w.seen /\ Returns(t, p)
    BY <1>4 DEF Refused, Returns
  <2>2. ledger.hidden[Me] \in Nat
    BY <1>2 DEF Sound, State, Amounts
  <2>3. Sane(r, ledger, C, F, sg, gv, ms) /\ Queue(r) = Queue(w)
    BY <1>4, <2>1, <2>2, CreditedSane
  <2>4. sg \cup Queue(r) = sg
    BY <1>1, <2>3
  <2>5. r.seen = w.seen \cup {t}
    BY <1>4 DEF Credited
  <2> QED
    BY <1>4, <2>3, <2>4, <2>5
<1>5. CASE /\ t \notin w.seen /\ t.kind = "confidential" /\ t.to = Me /\ Entry(t) \notin ledger.inbox[Me]
           /\ r = [w EXCEPT !.seen = @ \cup {t}]
  <2>1. Sane(r, ledger, C, F, sg, gv, ms) /\ Queue(r) = Queue(w)
    BY <1>5, SeenSane DEF Paying
  <2>2. sg \cup Queue(r) = sg
    BY <1>1, <2>1
  <2>3. r.seen = w.seen \cup {t}
    BY <1>1, <1>5 DEF Queued, WalletType
  <2> QED
    BY <1>5, <2>1, <2>2, <2>3
<1>6. CASE /\ t \notin w.seen /\ t.kind = "confidential" /\ t.to = Me /\ Entry(t) \in ledger.inbox[Me]
           /\ r = Grown(w, Claim(w, t), IF t.amount \in Spoilt THEN w.amount ELSE w.amount + t.amount,
                        w.sent, w.seen \cup {t})
  <2> DEFINE c == Claim(w, t)
             after == IF t.amount \in Spoilt THEN w.amount ELSE w.amount + t.amount
             seen == w.seen \cup {t}
  <2>1. /\ c = [kind |-> IF t.amount \in Spoilt THEN "refuse" ELSE "accept", sender |-> Me, nonce |-> w.nonce,
                to |-> t.sender, amount |-> 0, proof |-> t.nonce]
    BY DEF Claim, Signed
  <2>2. c \in Mine /\ c.nonce = w.nonce /\ ~ Paying(c) /\ Answers(c, t)
    <3>1. t.sender \in Accounts /\ t.nonce \in Nat
      BY <1>2 DEF Tx
    <3> HIDE DEF c
    <3>2. c \in Tx /\ c.kind \in Claims /\ c.sender = Me /\ c.nonce = w.nonce /\ c.to = t.sender /\ c.proof = t.nonce
      BY <1>2, <2>1, <3>1 DEF Tx, Kinds, Claims
    <3> QED
      BY <1>6, <3>2 DEF Mine, Hiding, Claims, Paying, Answers
  <2>3. after \in Nat
    BY <1>2 DEF Tx
  <2>4. Outcome(C, c, w.amount, after)
    <3>1. Paying(t) /\ t \in C
      BY <1>6 DEF Paying
    <3>2. CASE t.amount \in Spoilt
      <4>1. c.kind = "refuse" /\ after = w.amount
        BY <2>1, <3>2
      <4> QED
        BY <4>1 DEF Outcome
    <3>3. CASE t.amount \notin Spoilt
      <4>1. c.kind = "accept" /\ after = w.amount + t.amount
        BY <2>1, <3>3
      <4> HIDE DEF c, after
      <4> QED
        BY <2>2, <3>1, <4>1 DEF Outcome
    <3> QED
      BY <3>2, <3>3
  <2>5. seen \in SUBSET C /\ w.seen \subseteq seen /\ \A u \in seen \ w.seen : Paying(u) /\ (u.to = Me => Answers(c, u))
    BY <1>2, <1>6, <2>2 DEF Paying
  <2>6. r = Grown(w, c, after, w.sent, seen)
    BY <1>6
  <2> HIDE DEF c, after, seen
  <2>7. Sane(r, ledger, C, F, sg \cup {c}, gv, ms)
    BY <1>2, <2>2, <2>3, <2>4, <2>5, <2>6, GrownSane
  <2>8. Queue(r) = Queue(w) \cup {c} /\ r.seen = seen
    BY <1>1, <2>2, <2>3, <2>6, GrownQueue DEF Longer, Grown
  <2>9. sg \cup Queue(r) = sg \cup {c}
    BY <1>1, <2>8
  <2> QED
    BY <1>6, <2>7, <2>8, <2>9 DEF seen
<1> QED
  BY <1>1, <1>3, <1>4, <1>5, <1>6, LookedCases DEF Paying

-----------------------------------------------------------------------------
(* sync: what is final goes, the first that never will be takes the rest.    *)

\* p is q from a to b.
Part(p, q, a, b) == Len(p) = b - a + 1 /\ \A j \in 1 .. b - a + 1 : p[j] = q[a + j - 1]

LEMMA OnlyPart ==
  ASSUME NEW S, NEW q \in Seq(S), NEW keep, NEW b \in 0 .. Len(q), NEW a \in 1 .. b + 1,
         \A k \in 1 .. Len(q) : q[k] \in keep <=> a <= k /\ k <= b
  PROVE  Only(q, keep) \in Seq(S) /\ Part(Only(q, keep), q, a, b)
<1> DEFINE n == Len(q)
           size(i) == IF i < a THEN 0 ELSE IF i <= b THEN i - a + 1 ELSE b - a + 1
<1>1. n \in Nat /\ DOMAIN q = 1 .. n /\ (\A i \in 1 .. n : q[i] \in S) /\ b \in Nat /\ a \in Nat /\ a >= 1 /\ b <= n
  OBVIOUS
<1> HIDE DEF n
<1>2. PICK h : IsRun(Leaving(keep), h, <<>>, q, n) /\ Only(q, keep) = h[1 .. n]
  BY <1>1, FoldOfOnly
<1> DEFINE Good(i) == /\ h[1 .. i] \in Seq(S) /\ Len(h[1 .. i]) = size(i)
                      /\ \A j \in 1 .. size(i) : h[1 .. i][j] = q[a + j - 1]
           B == {i \in Nat : i <= n /\ ~ Good(i)}
<1>3. Good(0)
  <2>1. 1 .. 0 = {} /\ size(0) = 0
    BY <1>1
  <2>2. h[1 .. 0] = <<>>
    BY <1>1, <1>2, <2>1, RunSteps
  <2> QED
    BY <2>1, <2>2
<1>4. ASSUME NEW i \in 1 .. n, Good(i - 1)
      PROVE  Good(i)
  <2>1. i \in Nat /\ 1 .. i \in SUBSET (1 .. i) /\ 1 .. i # {} /\ 1 .. i \in SUBSET (1 .. n)
    <3>1. i \in 1 .. i /\ i \in Nat
      BY <1>1
    <3>2. \A j \in 1 .. i : j \in 1 .. n
      BY <1>1
    <3> QED
      BY <3>1, <3>2
  <2>2. Max(1 .. i) = i /\ (1 .. i) \ {Max(1 .. i)} = 1 .. i - 1
    BY <2>1, WithoutLast
  <2>3. h[1 .. i] = Step(Leaving(keep), h[1 .. i - 1], q[i])
    BY <1>2, <2>1, <2>2 DEF IsRun
  <2>4. h[1 .. i] = IF q[i] \in keep THEN Append(h[1 .. i - 1], q[i]) ELSE h[1 .. i - 1]
    BY <2>3 DEF Step, Leaving
  <2> DEFINE p == h[1 .. i - 1]
             r == h[1 .. i]
  <2>5. p \in Seq(S) /\ Len(p) = size(i - 1) /\ \A j \in 1 .. size(i - 1) : p[j] = q[a + j - 1]
    BY <1>4
  <2>6. r = IF q[i] \in keep THEN Append(p, q[i]) ELSE p
    BY <2>4
  <2> HIDE DEF p, r
  <2>7. CASE a <= i /\ i <= b
    <3>1. size(i) = size(i - 1) + 1 /\ a + size(i) - 1 = i /\ size(i - 1) \in Nat
      BY <1>1, <2>1, <2>7
    <3>2. r = Append(p, q[i]) /\ q[i] \in S
      BY <1>1, <2>6, <2>7 DEF n
    <3> HIDE DEF size
    <3>3. r \in Seq(S) /\ Len(r) = size(i) /\ r[size(i)] = q[i] /\ \A j \in 1 .. size(i - 1) : r[j] = p[j]
      BY <2>5, <3>1, <3>2
    <3>4. \A j \in 1 .. size(i) : r[j] = q[a + j - 1]
      <4> SUFFICES ASSUME NEW j \in 1 .. size(i)
                   PROVE  r[j] = q[a + j - 1]
        OBVIOUS
      <4>1. j \in 1 .. size(i - 1) \/ j = size(i)
        BY <3>1
      <4>2. CASE j \in 1 .. size(i - 1)
        BY <2>5, <3>3, <4>2
      <4>3. CASE j = size(i)
        BY <3>1, <3>3, <4>3
      <4> QED
        BY <4>1, <4>2, <4>3
    <3> QED
      BY <3>3, <3>4 DEF r
  <2>8. CASE ~ (a <= i /\ i <= b)
    <3>1. size(i) = size(i - 1)
      BY <1>1, <2>1, <2>8
    <3>2. r = p
      BY <1>1, <2>6, <2>8 DEF n
    <3> HIDE DEF size
    <3> QED
      BY <2>5, <3>1, <3>2 DEF r
  <2> QED
    BY <2>7, <2>8
<1>5. B = {}
  <2> SUFFICES ASSUME B # {}
               PROVE  FALSE
    OBVIOUS
  <2> HIDE DEF Good
  <2>1. PICK i \in B : \A j \in B : i <= j
    BY LeastNat
  <2>2. i # 0
    BY <1>3, <2>1
  <2>3. i \in 1 .. n /\ i - 1 \in Nat /\ i - 1 <= n /\ i - 1 \notin B
    BY <1>1, <2>1, <2>2
  <2>4. Good(i)
    BY <1>4, <2>3
  <2> QED
    BY <2>1, <2>4
<1>6. Good(n)
  <2> HIDE DEF Good
  <2> QED
    BY <1>1, <1>5
<1>7. size(n) = b - a + 1
  BY <1>1
<1> QED
  BY <1>2, <1>6, <1>7 DEF Part

\* The transactions of the queue that are final come first, up to the first hopeless one.
LEMMA FinalFirst ==
  ASSUME NEW C, Booked(ledger, C), Sound(ledger), Final \subseteq C, NEW w, Queued(w, C),
         NEW l \in 1 .. Len(w.pending) + 1, \A k \in Failing(w) : k >= l
  PROVE  \E m \in 0 .. l - 1 : \A k \in 1 .. l - 1 : w.pending[k].tx \in Final <=> k <= m
<1> DEFINE N == Len(w.pending)
           T == {k \in 1 .. l - 1 : w.pending[k].tx \notin Final}
<1>1. /\ N \in Nat /\ DOMAIN w.pending = 1 .. N
      /\ \A k \in 1 .. N : w.pending[k].tx.nonce \in Nat /\ w.pending[k].tx.sender = Me
      /\ \A j, k \in 1 .. N : j < k => w.pending[j].tx.nonce < w.pending[k].tx.nonce
  <2>1. N \in Nat /\ DOMAIN w.pending = 1 .. N /\ \A k \in 1 .. N : w.pending[k].tx \in Mine
    BY QueueTyped
  <2>2. \A j, k \in 1 .. N : j < k => w.pending[j].tx.nonce < w.pending[k].tx.nonce
    BY <2>1 DEF Queued
  <2> QED
    BY <2>1, <2>2 DEF Mine, Tx
<1>2. ledger.nonce[Me] \in Nat /\ \A u \in C : u.sender = Me => u.nonce < ledger.nonce[Me]
  BY DEF Booked, Used, Sound, State, Amounts
<1> HIDE DEF N
<1>3. l \in Nat /\ l - 1 <= N
  BY <1>1 DEF N
<1>4. CASE T = {}
  <2>1. \A k \in 1 .. l - 1 : w.pending[k].tx \in Final <=> k <= l - 1
    BY <1>3, <1>4
  <2>2. l - 1 \in 0 .. l - 1
    BY <1>3
  <2> QED
    BY <2>1, <2>2
<1>5. CASE T # {}
  <2>1. PICK j \in T : \A k \in T : j <= k
    <3>1. T \subseteq Nat
      BY <1>3
    <3> QED
      BY <1>5, <3>1, LeastNat
  <2>2. j \in 1 .. l - 1 /\ j \in 1 .. N /\ w.pending[j].tx \notin Final
    BY <1>1, <1>3, <2>1
  <2>3. ASSUME NEW k \in 1 .. l - 1, k >= j, w.pending[k].tx \in Final
        PROVE  FALSE
    <3>1. k > j /\ k \in 1 .. N
      BY <1>1, <1>3, <2>2, <2>3
    <3>2. w.pending[j].tx.nonce < ledger.nonce[Me]
      <4>1. w.pending[j].tx.nonce < w.pending[k].tx.nonce
        BY <1>1, <2>2, <3>1
      <4>2. w.pending[k].tx \in C /\ w.pending[k].tx.sender = Me
        BY <1>1, <2>3, <3>1
      <4>3. w.pending[k].tx.nonce < ledger.nonce[Me]
        BY <1>2, <4>2
      <4> QED
        BY <1>1, <1>2, <2>2, <3>1, <4>1, <4>3
    <3>3. j \in Failing(w)
      BY <1>1, <2>2, <3>2 DEF Failing, Hopeless
    <3> QED
      BY <1>3, <2>2, <3>3
  <2>4. \A k \in 1 .. l - 1 : w.pending[k].tx \in Final <=> k <= j - 1
    BY <1>3, <2>1, <2>2, <2>3
  <2>5. j - 1 \in 0 .. l - 1
    BY <1>3, <2>2
  <2> QED
    BY <2>4, <2>5
<1> QED
  BY <1>4, <1>5

\* r is w after a sync: of its queue, those before l have their turn still or had it, the
\* first m of them are final.
Trimmed(r, w, l, m) ==
  LET N == Len(w.pending) IN
  /\ r = [nonce |-> r.nonce, amount |-> r.amount, confirmed |-> At(w, m), pending |-> r.pending,
          sent |-> w.sent, seen |-> w.seen]
  /\ \A k \in 1 .. l - 1 : w.pending[k].tx \in Final <=> k <= m
  /\ \/ /\ Failing(w) = {} /\ l = N + 1 /\ RolledBack(w) = {}
        /\ r.nonce = w.nonce /\ r.amount = w.amount
        /\ r.pending \in Seq([tx : Mine, after : Nat]) /\ Len(r.pending) = N - m
        /\ \A j \in 1 .. N - m : r.pending[j] = w.pending[m + j]
     \/ /\ Failing(w) # {} /\ l <= N
        /\ RolledBack(w) = {w.pending[k].tx : k \in {j \in 1 .. N : j >= l \/ w.pending[j].tx \notin Final}}
        /\ r.nonce = ledger.nonce[Me] /\ r.amount = At(w, m) /\ r.pending = <<>>

LEMMA SyncedIs ==
  ASSUME NEW C, Booked(ledger, C), Sound(ledger), Final \subseteq C, NEW w, Queued(w, C)
  PROVE  \E l \in 1 .. Len(w.pending) + 1 : \E m \in 0 .. l - 1 : Trimmed(Synced(w), w, l, m)
<1> DEFINE N == Len(w.pending)
           S == [tx : Mine, after : Nat]
           q == w.pending
<1>1. /\ N \in Nat /\ DOMAIN q = 1 .. N /\ q \in Seq(S) /\ w.amount = At(w, N)
      /\ \A k \in 1 .. N : q[k] \in S
  BY QueueTyped DEF Queued
<1>2. w = [nonce |-> w.nonce, amount |-> w.amount, confirmed |-> w.confirmed, pending |-> w.pending,
           sent |-> w.sent, seen |-> w.seen]
  BY DEF Queued, WalletType
<1>3. Failing(w) \subseteq 1 .. N
  BY <1>1 DEF Failing
<1> HIDE DEF S
<1>4. \A k \in 1 .. N : /\ q[k] \in Included(w) <=> q[k].tx \in Final
                        /\ q[k] \in ToSet(q) \ Included(w) <=> q[k].tx \notin Final
  BY <1>1 DEF Included, ToSet
\* What is done is the first part of what stands.
<1>5. ASSUME NEW l \in 1 .. N + 1, NEW m \in 0 .. l - 1, \A k \in 1 .. l - 1 : q[k].tx \in Final <=> k <= m,
             NEW p \in Seq(S), Len(p) = l - 1, \A k \in 1 .. l - 1 : p[k] = q[k],
             NEW done, done = Only(p, Included(w))
      PROVE  (IF done = <<>> THEN w.confirmed ELSE Last(done).after) = At(w, m)
  <2>1. l \in Nat /\ m \in Nat /\ m <= l - 1 /\ l - 1 <= N /\ l - 1 \in Nat
    BY <1>1
  <2>2. \A k \in 1 .. l - 1 : p[k] \in Included(w) <=> 1 <= k /\ k <= m
    BY <1>4, <1>5, <2>1
  <2>3. done \in Seq(S) /\ Part(done, p, 1, m)
    <3>1. m \in 0 .. Len(p) /\ 1 \in 1 .. m + 1
      BY <1>5, <2>1
    <3> QED
      BY <1>5, <2>2, <3>1, OnlyPart
  <2>4. Len(done) = m /\ \A j \in 1 .. m : done[j] = p[j]
    BY <2>1, <2>3 DEF Part
  <2>5. CASE m = 0
    <3>1. done = <<>>
      BY <2>3, <2>4, <2>5
    <3> QED
      BY <2>5, <3>1 DEF At
  <2>6. CASE m # 0
    <3>1. done # <<>> /\ Last(done) = done[m]
      BY <2>3, <2>4, <2>6 DEF Last
    <3>2. done[m] = q[m]
      BY <1>5, <2>1, <2>4, <2>6
    <3> QED
      BY <2>6, <3>1, <3>2 DEF At
  <2> QED
    BY <2>5, <2>6
<1>6. CASE Failing(w) = {}
  <2> DEFINE keep == Only(q, ToSet(q) \ Included(w))
             done == Only(q, Included(w))
             confirmed == IF done = <<>> THEN w.confirmed ELSE Last(done).after
  <2>1. N + 1 \in 1 .. N + 1 /\ N + 1 - 1 = N
    BY <1>1
  <2>2. PICK m \in 0 .. N : \A k \in 1 .. N : q[k].tx \in Final <=> k <= m
    <3> DEFINE l == N + 1
    <3>1. l \in 1 .. N + 1 /\ l - 1 = N /\ \A k \in Failing(w) : k >= l
      BY <1>6, <2>1
    <3> HIDE DEF l
    <3>2. \E m \in 0 .. l - 1 : \A k \in 1 .. l - 1 : q[k].tx \in Final <=> k <= m
      BY <3>1, FinalFirst
    <3> QED
      BY <3>1, <3>2
  <2>3. keep \in Seq(S) /\ Part(keep, q, m + 1, N)
    <3>1. \A k \in 1 .. N : q[k] \in ToSet(q) \ Included(w) <=> m + 1 <= k /\ k <= N
      BY <1>1, <1>4, <2>2
    <3>2. N \in 0 .. Len(q) /\ m + 1 \in 1 .. N + 1
      BY <1>1, <2>2
    <3> QED
      BY <1>1, <3>1, <3>2, OnlyPart
  <2>4. Len(keep) = N - m /\ \A j \in 1 .. N - m : keep[j] = q[m + j]
    <3> HIDE DEF N, q, keep
    <3>1. N - (m + 1) + 1 = N - m /\ \A j \in 1 .. N - m : (m + 1) + j - 1 = m + j
      BY <1>1, <2>2
    <3>2. Len(keep) = N - (m + 1) + 1 /\ \A j \in 1 .. N - (m + 1) + 1 : keep[j] = q[(m + 1) + j - 1]
      BY <2>3 DEF Part
    <3> QED
      BY <3>1, <3>2
  <2>5. confirmed = At(w, m)
    <3>1. \A k \in 1 .. N + 1 - 1 : q[k].tx \in Final <=> k <= m
      BY <2>1, <2>2
    <3>2. m \in 0 .. N + 1 - 1 /\ Len(q) = N + 1 - 1
      BY <2>1, <2>2
    <3>3. done = Only(q, Included(w))
      OBVIOUS
    <3> HIDE DEF done, q, N
    <3>4. \A k \in 1 .. N + 1 - 1 : q[k] = q[k]
      OBVIOUS
    <3> QED
      BY <1>1, <1>5, <2>1, <3>1, <3>2, <3>3, <3>4
  <2>6. Synced(w) = [w EXCEPT !.confirmed = confirmed, !.pending = keep,
                              !.amount = IF keep = <<>> THEN confirmed ELSE Last(keep).after, !.nonce = @]
    BY <1>6 DEF Synced, Standing
  <2> HIDE DEF keep, confirmed
  <2>7. (IF keep = <<>> THEN confirmed ELSE Last(keep).after) = w.amount
    <3>1. CASE m = N
      <4>1. keep = <<>>
        BY <1>1, <2>3, <2>4, <3>1
      <4> QED
        BY <1>1, <2>5, <3>1, <4>1
    <3>2. CASE m # N
      <4>1. N - m \in 1 .. N - m /\ m + (N - m) = N /\ N # 0
        BY <1>1, <2>2, <3>2
      <4>2. keep # <<>> /\ Last(keep) = keep[N - m]
        BY <2>3, <2>4, <4>1 DEF Last
      <4>3. keep[N - m] = q[N]
        BY <2>4, <4>1
      <4> QED
        BY <1>1, <4>1, <4>2, <4>3 DEF At
    <3> QED
      BY <3>1, <3>2
  <2>8. Synced(w) = [nonce |-> w.nonce, amount |-> w.amount, confirmed |-> At(w, m), pending |-> keep,
                     sent |-> w.sent, seen |-> w.seen]
    <3> HIDE DEF N, q, done
    <3>1. Synced(w) = [w EXCEPT !.confirmed = At(w, m), !.pending = keep, !.amount = w.amount, !.nonce = w.nonce]
      BY <2>5, <2>6, <2>7
    <3> QED
      BY <1>2, <3>1
  <2>9. RolledBack(w) = {}
    BY <1>6 DEF RolledBack
  <2> DEFINE r == Synced(w)
  <2>10. /\ r.nonce = w.nonce /\ r.amount = w.amount /\ r.pending = keep
         /\ r = [nonce |-> r.nonce, amount |-> r.amount, confirmed |-> At(w, m), pending |-> r.pending,
                 sent |-> w.sent, seen |-> w.seen]
    BY <2>8
  <2> HIDE DEF r
  <2>11. Trimmed(r, w, N + 1, m)
    BY <1>6, <2>1, <2>2, <2>3, <2>4, <2>9, <2>10 DEF Trimmed, S
  <2> QED
    BY <2>1, <2>2, <2>11 DEF r
<1>7. CASE Failing(w) # {}
  <2> DEFINE l == Min(Failing(w))
             p == SubSeq(q, 1, l - 1)
             done == Only(p, Included(w))
             confirmed == IF done = <<>> THEN w.confirmed ELSE Last(done).after
  <2>1. l \in 1 .. N /\ \A k \in Failing(w) : l <= k
    <3>1. \E n \in Failing(w) : \A k \in Failing(w) : n <= k
      BY <1>1, <1>3, <1>7, LeastNat
    <3>2. l \in Failing(w) /\ \A k \in Failing(w) : l <= k
      BY <3>1 DEF Min
    <3> QED
      BY <1>3, <3>2
  <2>2. Synced(w) = [w EXCEPT !.confirmed = confirmed, !.pending = <<>>,
                              !.amount = IF <<>> = <<>> THEN confirmed ELSE Last(<<>>).after,
                              !.nonce = ledger.nonce[Me]]
    BY <1>7 DEF Synced, Standing
  <2>3. RolledBack(w) = {w.pending[k].tx : k \in {j \in 1 .. N : j >= l \/ w.pending[j].tx \notin Final}}
    BY <1>1, <1>7 DEF RolledBack
  <2> HIDE DEF l
  <2>4. l \in 1 .. N + 1 /\ \A k \in Failing(w) : k >= l
    BY <1>1, <1>3, <2>1
  <2>5. PICK m \in 0 .. l - 1 : \A k \in 1 .. l - 1 : q[k].tx \in Final <=> k <= m
    BY <2>4, FinalFirst
  <2>6. p \in Seq(S) /\ Len(p) = l - 1 /\ \A k \in 1 .. l - 1 : p[k] = q[k]
    <3> HIDE DEF q
    <3>1. l - 1 \in 0 .. Len(q) /\ \A k \in 1 .. l - 1 : k \in 1 .. N
      BY <1>1, <2>1 DEF q
    <3>2. Len(p) = l - 1 /\ \A k \in 1 .. l - 1 : p[k] = q[k]
      BY <1>1, <2>1, <3>1
    <3>3. p \in Seq(S)
      BY <1>1, <2>1, <3>1
    <3> QED
      BY <3>2, <3>3
  <2> HIDE DEF p
  <2>7. confirmed = At(w, m)
    BY <1>5, <2>4, <2>5, <2>6
  <2> HIDE DEF confirmed
  <2> DEFINE r == Synced(w)
  <2>8. r = [nonce |-> ledger.nonce[Me], amount |-> At(w, m), confirmed |-> At(w, m), pending |-> <<>>,
             sent |-> w.sent, seen |-> w.seen]
    BY <1>2, <2>2, <2>7
  <2>9. /\ r.nonce = ledger.nonce[Me] /\ r.amount = At(w, m) /\ r.pending = <<>>
        /\ r = [nonce |-> r.nonce, amount |-> r.amount, confirmed |-> At(w, m), pending |-> r.pending,
                sent |-> w.sent, seen |-> w.seen]
    BY <2>8
  <2> HIDE DEF r
  <2>10. Trimmed(r, w, l, m)
    BY <1>7, <2>1, <2>3, <2>5, <2>9 DEF Trimmed
  <2> QED
    BY <2>4, <2>5, <2>10 DEF r
<1> QED
  BY <1>6, <1>7

\* What has been claimed on the ledger does not wait any more.
LEMMA AnsweredGone ==
  ASSUME NEW s, NEW C, Booked(s, C), NEW c \in C, NEW t, Answers(c, t), Entry(t) \in s.inbox[t.to]
  PROVE  FALSE
<1>1. c.kind \in Claims /\ c.sender = t.to /\ c.to = t.sender /\ c.proof = t.nonce
  BY DEF Answers
<1>2. Entry(t).from = t.sender /\ Entry(t).nonce = t.nonce
  BY DEF Entry
<1> QED
  BY <1>1, <1>2 DEF Booked, Answered

\* What a sync does to the queue: it stays one; what goes is final or is given up.
LEMMA SyncedQueue ==
  ASSUME NEW C, Booked(ledger, C), Sound(ledger), Final \subseteq C, NEW w, Queued(w, C), NEW r,
         NEW l \in 1 .. Len(w.pending) + 1, NEW m \in 0 .. l - 1, Trimmed(r, w, l, m)
  PROVE  /\ Queued(r, C) /\ Queue(r) \subseteq Queue(w) /\ Queue(w) \subseteq C \cup Queue(r) \cup RolledBack(w)
         /\ r.sent = w.sent /\ r.seen = w.seen /\ At(r, 0) = At(w, m)
         /\ \/ RolledBack(w) = {} /\ r.nonce = w.nonce
            \/ r.nonce = ledger.nonce[Me] /\ r.pending = <<>>
<1> DEFINE N == Len(w.pending)
<1>1. /\ N \in Nat /\ DOMAIN w.pending = 1 .. N /\ w.nonce \in Nat /\ w.amount \in Nat /\ w.amount = At(w, N)
      /\ w.seen \subseteq C /\ w.sent \subseteq {t \in Mine : Paying(t)}
      /\ \A i \in 1 .. N : w.pending[i].tx \in Queue(w)
      /\ \A i \in 0 .. N : At(w, i) \in Nat
      /\ \A i \in 1 .. N : /\ w.pending[i].tx.nonce < w.nonce
                           /\ \A j \in 1 .. N : i < j => w.pending[i].tx.nonce < w.pending[j].tx.nonce
                           /\ Outcome(C, w.pending[i].tx, At(w, i - 1), At(w, i))
  BY QueueTyped DEF Queued
<1>2. /\ r = [nonce |-> r.nonce, amount |-> r.amount, confirmed |-> At(w, m), pending |-> r.pending,
              sent |-> w.sent, seen |-> w.seen]
      /\ \A k \in 1 .. l - 1 : w.pending[k].tx \in Final <=> k <= m
  BY DEF Trimmed
<1>3. r.confirmed = At(w, m) /\ r.sent = w.sent /\ r.seen = w.seen
  BY <1>2
<1>4. m \in 0 .. N /\ l \in 1 .. N + 1 /\ m \in Nat /\ l \in Nat /\ m <= l - 1
  BY <1>1
<1>5. At(r, 0) = At(w, m) /\ At(w, m) \in Nat
  BY <1>1, <1>3, <1>4 DEF At
<1>6. CASE /\ l = N + 1 /\ RolledBack(w) = {} /\ r.nonce = w.nonce /\ r.amount = w.amount
           /\ r.pending \in Seq([tx : Mine, after : Nat]) /\ Len(r.pending) = N - m
           /\ \A j \in 1 .. N - m : r.pending[j] = w.pending[m + j]
  <2> HIDE DEF N
  <2>1. r \in WalletType(C)
    BY <1>1, <1>2, <1>3, <1>5, <1>6 DEF WalletType
  <2>2. DOMAIN r.pending = 1 .. N - m
    BY <1>6
  <2>3. \A j \in 0 .. N - m : At(r, j) = At(w, m + j)
    <3> SUFFICES ASSUME NEW j \in 0 .. N - m
                 PROVE  At(r, j) = At(w, m + j)
      OBVIOUS
    <3>1. CASE j = 0
      BY <1>4, <1>5, <3>1
    <3>2. CASE j # 0
      <4>1. j \in 1 .. N - m /\ m + j # 0
        BY <1>1, <1>4, <3>2
      <4>2. r.pending[j] = w.pending[m + j]
        BY <1>6, <4>1
      <4> QED
        BY <3>2, <4>1, <4>2 DEF At
    <3> QED
      BY <3>1, <3>2
  <2>4. ASSUME NEW i \in 1 .. N - m
        PROVE  /\ r.pending[i].tx.nonce < r.nonce
               /\ \A j \in 1 .. N - m : i < j => r.pending[i].tx.nonce < r.pending[j].tx.nonce
               /\ Outcome(C, r.pending[i].tx, At(r, i - 1), At(r, i))
    <3>1. m + i \in 1 .. N /\ i - 1 \in 0 .. N - m /\ i \in 0 .. N - m /\ m + (i - 1) = (m + i) - 1
      BY <1>1, <1>4
    <3>2. r.pending[i] = w.pending[m + i] /\ At(r, i - 1) = At(w, (m + i) - 1) /\ At(r, i) = At(w, m + i)
      BY <1>6, <2>3, <3>1
    <3>3. \A j \in 1 .. N - m : i < j => m + i < m + j /\ m + j \in 1 .. N /\ r.pending[j] = w.pending[m + j]
      BY <1>1, <1>4, <1>6
    <3>4. Outcome(C, r.pending[i].tx, At(r, i - 1), At(r, i))
      BY <1>1, <3>1, <3>2
    <3>5. r.pending[i].tx.nonce < r.nonce
      BY <1>1, <1>6, <3>1, <3>2
    <3>6. \A j \in 1 .. N - m : i < j => r.pending[i].tx.nonce < r.pending[j].tx.nonce
      BY <1>1, <3>1, <3>2, <3>3
    <3> QED
      BY <3>4, <3>5, <3>6
  <2>5. r.amount = At(r, Len(r.pending))
    <3>1. N - m \in 0 .. N - m /\ m + (N - m) = N
      BY <1>1, <1>4
    <3> QED
      BY <1>1, <1>6, <2>3, <3>1
  <2>6. Queued(r, C)
    BY <2>1, <2>2, <2>4, <2>5 DEF Queued
  <2>7. Queue(r) \subseteq Queue(w)
    <3> SUFFICES ASSUME NEW j \in 1 .. N - m
                 PROVE  r.pending[j].tx \in Queue(w)
      BY <2>2 DEF Queue
    <3>1. m + j \in 1 .. N
      BY <1>1, <1>4
    <3>2. r.pending[j] = w.pending[m + j]
      BY <1>6
    <3> QED
      BY <1>1, <3>1, <3>2
  <2>8. Queue(w) \subseteq C \cup Queue(r)
    <3> SUFFICES ASSUME NEW k \in 1 .. N
                 PROVE  w.pending[k].tx \in C \cup Queue(r)
      BY <1>1 DEF Queue
    <3>1. CASE k <= m
      <4>1. k \in 1 .. l - 1
        BY <1>1, <1>6
      <4> QED
        BY <1>2, <3>1, <4>1
    <3>2. CASE ~ (k <= m)
      <4>1. k - m \in 1 .. N - m /\ m + (k - m) = k
        BY <1>1, <1>4, <3>2
      <4> QED
        BY <1>6, <2>2, <4>1 DEF Queue
    <3> QED
      BY <3>1, <3>2
  <2> QED
    BY <1>3, <1>5, <1>6, <2>6, <2>7, <2>8
<1>7. CASE /\ RolledBack(w) = {w.pending[k].tx : k \in {j \in 1 .. N : j >= l \/ w.pending[j].tx \notin Final}}
           /\ r.nonce = ledger.nonce[Me] /\ r.amount = At(w, m) /\ r.pending = <<>>
  <2>1. ledger.nonce[Me] \in Nat
    BY DEF Booked, Used, Sound, State, Amounts
  <2>2. r \in WalletType(C) /\ r.pending = <<>> /\ DOMAIN r.pending = {} /\ Len(r.pending) = 0
    <3>1. r.pending \in Seq([tx : Mine, after : Nat]) /\ DOMAIN r.pending = {} /\ Len(r.pending) = 0
      BY <1>7
    <3>2. r \in WalletType(C)
      BY <1>1, <1>2, <1>3, <1>5, <1>7, <2>1, <3>1 DEF WalletType
    <3> QED
      BY <1>7, <3>1, <3>2
  <2>3. Queued(r, C)
    BY <1>5, <1>7, <2>2 DEF Queued
  <2>4. Queue(r) = {}
    BY <2>2 DEF Queue
  <2>5. Queue(w) \subseteq C \cup RolledBack(w)
    BY <1>1, <1>7 DEF Queue
  <2> QED
    BY <1>3, <1>5, <1>7, <2>3, <2>4, <2>5
<1> QED
  BY <1>6, <1>7 DEF Trimmed

LEMMA SyncedSquared ==
  ASSUME NEW C, Booked(ledger, C), Sound(ledger), Final \subseteq C, NEW w, Queued(w, C), NEW gv, NEW ms,
         Squared(w, ledger, C, Final, gv, ms), NEW r, Queued(r, C), Queue(r) \subseteq Queue(w), r.seen = w.seen,
         NEW l \in 1 .. Len(w.pending) + 1, NEW m \in 0 .. l - 1, Trimmed(r, w, l, m), At(r, 0) = At(w, m)
  PROVE  Squared(r, ledger, C, Final, gv \cup RolledBack(w), ms)
<1> DEFINE N == Len(w.pending)
<1>1. /\ N \in Nat /\ DOMAIN w.pending = 1 .. N /\ \A i \in 1 .. N : w.pending[i].tx \in Queue(w)
      /\ Len(r.pending) \in Nat /\ DOMAIN r.pending = 1 .. Len(r.pending)
  BY QueueTyped
<1>2. \A k \in 1 .. l - 1 : w.pending[k].tx \in Final <=> k <= m
  BY DEF Trimmed
<1>3. m \in Nat /\ l \in Nat /\ m <= l - 1 /\ l - 1 <= N /\ m \in 0 .. N
  BY <1>1
<1>4. Returned(r, C) = Returned(w, C)
  BY DEF Returned
<1> SUFFICES ASSUME (gv \cup RolledBack(w)) \cap C = {}, ms = {}
             PROVE  /\ Queue(r) \cap C \subseteq Final
                    /\ \A k \in DOMAIN r.pending : r.pending[k].tx \notin C
                    /\ ledger.hidden[Me] = At(w, m) + Owed(Returned(w, C))
  <2>1. 0 \in 0 .. Len(r.pending) /\ \A k \in DOMAIN r.pending : ~ (k <= 0)
    BY <1>1
  <2> QED
    BY <1>4, <2>1 DEF Squared
<1>5. /\ Queue(w) \cap C \subseteq Final
      /\ \/ \E i, j \in 1 .. N : i < j /\ w.pending[i].tx \notin C /\ w.pending[j].tx \in C
         \/ \E n \in 0 .. N : /\ \A k \in 1 .. N : w.pending[k].tx \in C <=> k <= n
                              /\ ledger.hidden[Me] = At(w, n) + Owed(Returned(w, C))
  BY <1>1 DEF Squared
<1>6. Queue(r) \cap C \subseteq Final
  BY <1>5
\* Those on the ledger are the first m.
<1>7. \A k \in 1 .. N : w.pending[k].tx \in C <=> k <= m
  <2>1. \A k \in 1 .. l - 1 : w.pending[k].tx \in C <=> k <= m
    <3> SUFFICES ASSUME NEW k \in 1 .. l - 1
                 PROVE  w.pending[k].tx \in C <=> w.pending[k].tx \in Final
      BY <1>2
    <3>1. w.pending[k].tx \in Queue(w)
      BY <1>1, <1>3
    <3> QED
      BY <1>5, <3>1
  <2>2. ASSUME NEW k \in 1 .. N, ~ (k <= l - 1)
        PROVE  w.pending[k].tx \notin C
    <3>1. Failing(w) # {} /\ k >= l
      BY <1>1, <1>3, <2>2 DEF Trimmed
    <3>2. w.pending[k].tx \in RolledBack(w)
      BY <1>1, <3>1 DEF Trimmed
    <3> QED
      BY <3>2
  <2>3. \A k \in 1 .. N : k \in 1 .. l - 1 \/ (~ (k <= l - 1) /\ ~ (k <= m))
    BY <1>1, <1>3
  <2> QED
    BY <2>1, <2>2, <2>3
<1>8. ledger.hidden[Me] = At(w, m) + Owed(Returned(w, C))
  <2>1. ~ \E i, j \in 1 .. N : i < j /\ w.pending[i].tx \notin C /\ w.pending[j].tx \in C
    BY <1>1, <1>3, <1>7
  <2>2. PICK n \in 0 .. N : /\ \A k \in 1 .. N : w.pending[k].tx \in C <=> k <= n
                            /\ ledger.hidden[Me] = At(w, n) + Owed(Returned(w, C))
    BY <1>5, <2>1
  <2>3. n = m
    <3>1. \A k \in 1 .. N : k <= n <=> k <= m
      BY <1>7, <2>2
    <3>2. n < m => n + 1 \in 1 .. N
      BY <1>1, <1>3
    <3>3. m < n => m + 1 \in 1 .. N
      BY <1>1, <1>3
    <3> QED
      BY <1>3, <3>1, <3>2, <3>3
  <2> QED
    BY <2>2, <2>3
<1>9. ASSUME NEW k \in DOMAIN r.pending
      PROVE  r.pending[k].tx \notin C
  <2>1. CASE Failing(w) = {}
    <3>1. k \in 1 .. N - m /\ r.pending[k] = w.pending[m + k]
      BY <1>1, <2>1 DEF Trimmed
    <3>2. m + k \in 1 .. N /\ ~ (m + k <= m)
      BY <1>1, <1>3, <3>1
    <3> QED
      BY <1>7, <3>1, <3>2
  <2>2. CASE Failing(w) # {}
    BY <2>2 DEF Trimmed
  <2> QED
    BY <2>1, <2>2
<1> QED
  BY <1>6, <1>8, <1>9

LEMMA SyncedSane ==
  ASSUME Sound(ledger), NEW C, Booked(ledger, C), Final \subseteq C, NEW sg, NEW gv, NEW ms,
         NEW w, Sane(w, ledger, C, Final, sg, gv, ms)
  PROVE  Sane(Synced(w), ledger, C, Final, sg, gv \cup RolledBack(w), ms) /\ Synced(w).seen = w.seen
<1> SUFFICES ASSUME NEW r, r = Synced(w)
             PROVE  Sane(r, ledger, C, Final, sg, gv \cup RolledBack(w), ms) /\ r.seen = w.seen
  OBVIOUS
<1> DEFINE hv == gv \cup RolledBack(w)
<1>1. Queued(w, C) /\ Followed(w, C, Final, sg, gv, ms) /\ Remembered(w, ledger, gv)
  BY DEF Sane
<1>2. PICK l \in 1 .. Len(w.pending) + 1 : \E m \in 0 .. l - 1 : Trimmed(r, w, l, m)
  BY <1>1, SyncedIs
<1>3. PICK m \in 0 .. l - 1 : Trimmed(r, w, l, m)
  BY <1>2
<1>4. /\ Queued(r, C) /\ Queue(r) \subseteq Queue(w) /\ Queue(w) \subseteq C \cup Queue(r) \cup RolledBack(w)
      /\ r.sent = w.sent /\ r.seen = w.seen /\ At(r, 0) = At(w, m)
      /\ \/ RolledBack(w) = {} /\ r.nonce = w.nonce
         \/ r.nonce = ledger.nonce[Me] /\ r.pending = <<>>
  BY <1>1, <1>3, SyncedQueue
<1>5. /\ sg \subseteq Mine /\ Queue(w) \subseteq sg /\ Final \subseteq C
      /\ sg \subseteq gv \cup C \cup Queue(w)
      /\ \A t \in sg \ gv : t.nonce < w.nonce
      /\ C \subseteq Submitted \cup sg
      /\ \A p \in sg : Paying(p) => p \in w.sent \/ \E t \in w.seen : Returns(t, p)
      /\ \A t \in C \ w.seen : t.to = Me /\ t.kind \in {"confidential", "refuse"} => t \in Final \cup ms
  BY <1>1 DEF Followed
<1>6. sg \subseteq hv \cup C \cup Queue(r)
  BY <1>4, <1>5
<1>7. \A t \in sg \ hv : t.nonce < r.nonce
  <2>1. CASE r.nonce = w.nonce
    BY <1>5, <2>1
  <2>2. CASE r.nonce = ledger.nonce[Me] /\ r.pending = <<>>
    <3>1. Queue(r) = {}
      BY <2>2 DEF Queue
    <3>2. \A t \in sg \ hv : t \in C /\ t.sender = Me
      BY <1>5, <1>6, <3>1 DEF Mine
    <3> QED
      BY <2>2, <3>2 DEF Booked, Used
  <2> QED
    BY <1>4, <2>1, <2>2
<1>8. Followed(r, C, Final, sg, hv, ms)
  BY <1>4, <1>5, <1>6, <1>7 DEF Followed
<1>9. Remembered(r, ledger, hv)
  <2> SUFFICES ASSUME NEW t \in r.seen, Paying(t), t.to = Me, Entry(t) \in ledger.inbox[Me]
               PROVE  \E c \in Queue(r) \cup hv : Answers(c, t)
    BY DEF Remembered
  <2>1. PICK c \in Queue(w) \cup gv : Answers(c, t)
    BY <1>1, <1>4 DEF Remembered
  <2>2. c \notin C
    BY <2>1, AnsweredGone
  <2> QED
    BY <1>4, <2>1, <2>2
<1>10. OneWallet => Squared(r, ledger, C, Final, hv, ms)
  BY <1>1, <1>3, <1>4, SyncedSquared DEF Sane
<1> QED
  BY <1>4, <1>8, <1>9, <1>10 DEF Sane

-----------------------------------------------------------------------------
(* scan: a sync, then one look after the other.                              *)

Looks(w, q) == FoldLeft(Looked, w, q)

LEMMA FoldOfLooks ==
  ASSUME NEW w, NEW q, NEW n \in Nat, DOMAIN q = 1 .. n
  PROVE  \E h : /\ h[1 .. 0] = w /\ Looks(w, q) = h[1 .. n]
                /\ \A i \in 1 .. n : h[1 .. i] = Looked(h[1 .. i - 1], q[i])
<1> DEFINE R(h) == h = [I \in SUBSET (1 .. n) |-> IF I = {} THEN w ELSE Looked(h[I \ {Max(I)}], q[Max(I)])]
           how == [of |-> "look"]
<1>1. \A h : R(h) <=> IsRun(how, h, w, q, n)
  BY DEF IsRun, Step
<1>2. Looks(w, q) = (CHOOSE h : R(h))[1 .. n]
  BY DEF Looks, FoldLeft, MapThenFoldSet
<1>3. \E h : R(h)
  BY <1>1, RunExists
<1>4. PICK h : R(h) /\ IsRun(how, h, w, q, n) /\ Looks(w, q) = h[1 .. n]
  BY <1>1, <1>2, <1>3
<1> HIDE DEF R
<1>5. h[1 .. 0] = w
  BY <1>4 DEF IsRun
<1>6. ASSUME NEW i \in 1 .. n
      PROVE  h[1 .. i] = Looked(h[1 .. i - 1], q[i])
  <2>1. i \in Nat /\ 1 .. i \in SUBSET (1 .. i) /\ 1 .. i # {} /\ 1 .. i \in SUBSET (1 .. n)
    <3>1. i \in 1 .. i /\ i \in Nat
      OBVIOUS
    <3>2. \A j \in 1 .. i : j \in 1 .. n
      OBVIOUS
    <3> QED
      BY <3>1, <3>2
  <2>2. Max(1 .. i) = i /\ (1 .. i) \ {Max(1 .. i)} = 1 .. i - 1
    BY <2>1, WithoutLast
  <2>3. h[1 .. i] = Step(how, h[1 .. i - 1], q[i])
    BY <1>4, <2>1, <2>2 DEF IsRun
  <2> QED
    BY <2>3 DEF Step
<1> QED
  BY <1>4, <1>5, <1>6

LEMMA ScannedSane ==
  ASSUME Sound(ledger), NEW C, C = ToSet(chain), Booked(ledger, C), NEW n \in Nat,
         DOMAIN SubSeq(chain, base + 1, Len(chain)) = 1 .. n, NEW sg, NEW gv, NEW ms,
         NEW w, Sane(w, ledger, C, Final, sg, gv, ms)
  PROVE  LET r == Scanned(w) IN
         /\ Sane(r, ledger, C, Final, sg \cup Queue(r), gv \cup RolledBack(w), ms)
         /\ w.seen \subseteq r.seen /\ \A t \in Final : Paying(t) /\ t.to = Me => t \in r.seen
         /\ r.seen = w.seen => r = Synced(w) /\ \A t \in Final : Looked(r, t) = r
<1> DEFINE q == SubSeq(chain, base + 1, Len(chain))
           v == Synced(w)
           hv == gv \cup RolledBack(w)
<1>1. DOMAIN q = 1 .. n /\ Final = {q[i] : i \in 1 .. n} /\ Scanned(w) = Looks(v, q)
  BY DEF Final, ToSet, Scanned, Looks
<1>2. Final \subseteq C
  BY DEF Sane, Followed
<1>3. Sane(v, ledger, C, Final, sg, hv, ms) /\ v.seen = w.seen
  BY <1>2, SyncedSane
<1> HIDE DEF q, v, hv
<1>4. PICK h : /\ h[1 .. 0] = v /\ Scanned(w) = h[1 .. n]
               /\ \A i \in 1 .. n : h[1 .. i] = Looked(h[1 .. i - 1], q[i])
  <2>1. PICK h : /\ h[1 .. 0] = v /\ Looks(v, q) = h[1 .. n]
                 /\ \A i \in 1 .. n : h[1 .. i] = Looked(h[1 .. i - 1], q[i])
    BY <1>1, FoldOfLooks
  <2> QED
    BY <1>1, <2>1
<1> DEFINE Good(i) == /\ Sane(h[1 .. i], ledger, C, Final, sg \cup Queue(h[1 .. i]), hv, ms)
                      /\ w.seen \subseteq h[1 .. i].seen
                      /\ \A j \in 1 .. i : Paying(q[j]) /\ q[j].to = Me => q[j] \in h[1 .. i].seen
                      /\ h[1 .. i].seen = w.seen => h[1 .. i] = v /\ \A j \in 1 .. i : Looked(v, q[j]) = v
           B == {i \in Nat : i <= n /\ ~ Good(i)}
<1>5. Good(0)
  <2>1. sg \cup Queue(v) = sg
    BY <1>3 DEF Sane, Followed
  <2>2. h[1 .. 0] = v /\ \A j \in 1 .. 0 : FALSE
    BY <1>4
  <2> QED
    BY <1>3, <2>1, <2>2
<1>6. ASSUME NEW i \in 1 .. n, Good(i - 1)
      PROVE  Good(i)
  <2> DEFINE u == h[1 .. i - 1]
             r == h[1 .. i]
             t == q[i]
  <2>1. /\ Sane(u, ledger, C, Final, sg \cup Queue(u), hv, ms) /\ w.seen \subseteq u.seen
        /\ \A j \in 1 .. i - 1 : Paying(q[j]) /\ q[j].to = Me => q[j] \in u.seen
        /\ u.seen = w.seen => u = v /\ \A j \in 1 .. i - 1 : Looked(v, q[j]) = v
    BY <1>6
  <2>2. r = Looked(u, t) /\ t \in Final /\ t \in C
    BY <1>1, <1>2, <1>4
  <2>3. \A j \in 1 .. i : j \in 1 .. i - 1 \/ q[j] = t
    OBVIOUS
  <2> HIDE DEF u, r, t
  <2>4. /\ Sane(r, ledger, C, Final, (sg \cup Queue(u)) \cup Queue(r), hv, ms)
        /\ Queue(u) \subseteq Queue(r) /\ u.seen \subseteq r.seen /\ (r # u => t \in r.seen \ u.seen)
        /\ Paying(t) /\ t.to = Me => t \in r.seen
    BY <2>1, <2>2, LookedSane
  <2>5. (sg \cup Queue(u)) \cup Queue(r) = sg \cup Queue(r)
    BY <2>4
  <2>6. Sane(r, ledger, C, Final, sg \cup Queue(r), hv, ms)
    BY <2>4, <2>5
  <2>7. w.seen \subseteq r.seen /\ \A j \in 1 .. i : Paying(q[j]) /\ q[j].to = Me => q[j] \in r.seen
    BY <2>1, <2>3, <2>4
  <2>8. ASSUME r.seen = w.seen
        PROVE  r = v /\ \A j \in 1 .. i : Looked(v, q[j]) = v
    <3>1. u.seen = w.seen /\ r = u
      BY <2>1, <2>4, <2>8
    <3> QED
      BY <2>1, <2>2, <2>3, <3>1
  <2> QED
    BY <2>6, <2>7, <2>8 DEF r
<1>7. B = {}
  <2> SUFFICES ASSUME B # {}
               PROVE  FALSE
    OBVIOUS
  <2> HIDE DEF Good
  <2>1. PICK i \in B : \A j \in B : i <= j
    BY LeastNat
  <2>2. i # 0
    BY <1>5, <2>1
  <2>3. i \in 1 .. n /\ i - 1 \in Nat /\ i - 1 <= n /\ i - 1 \notin B
    BY <2>1, <2>2
  <2>4. Good(i)
    BY <1>6, <2>3
  <2> QED
    BY <2>1, <2>4
<1>8. Good(n)
  <2> HIDE DEF Good
  <2> QED
    BY <1>7
<1>9. /\ Sane(h[1 .. n], ledger, C, Final, sg \cup Queue(h[1 .. n]), hv, ms)
      /\ w.seen \subseteq h[1 .. n].seen
      /\ \A t \in Final : Paying(t) /\ t.to = Me => t \in h[1 .. n].seen
      /\ h[1 .. n].seen = w.seen => h[1 .. n] = v /\ \A t \in Final : Looked(v, t) = v
  BY <1>1, <1>8
<1> QED
  BY <1>4, <1>9 DEF v, hv

-----------------------------------------------------------------------------
(* What the blocks do to all of it.                                          *)

Tracked(w, s, C, F, sg, gv, ms) == Sound(s) /\ Booked(s, C) /\ Sane(w, s, C, F, sg, gv, ms)

LEMMA ApplySane ==
  ASSUME NEW w, NEW s, NEW C, NEW F, NEW sg, NEW gv, NEW ms, Tracked(w, s, C, F, sg, gv, ms),
         NEW t \in Submitted \cup sg, t \in Tx, Valid(s, t)
  PROVE  Tracked(w, After(s, t), C \cup {t}, F \cup {t}, sg, gv, ms)
<1>1. /\ Sound(s) /\ Booked(s, C) /\ Queued(w, C) /\ Followed(w, C, F, sg, gv, ms) /\ Remembered(w, s, gv)
      /\ OneWallet => Squared(w, s, C, F, gv, ms)
  BY DEF Tracked, Sane
<1> DEFINE r == After(s, t)
<1>2. Sound(r) /\ Effect(s, t, r)
  BY <1>1, EffectOf
<1> HIDE DEF r
<1>3. Booked(r, C \cup {t})
  BY <1>1, <1>2, BooksNext
<1>4. Used(s, C) /\ Fresh(t, C) /\ w.seen \subseteq C
  BY <1>1, <1>2, UsedNext, QueueTyped DEF Booked
<1>5. Queued(w, C \cup {t}) /\ Followed(w, C \cup {t}, F \cup {t}, sg, gv, ms)
  <2>1. C \subseteq C \cup {t}
    OBVIOUS
  <2> QED
    BY <1>1, <2>1, QueuedNext, FollowedNext
<1>6. Remembered(w, r, gv)
  BY <1>1, <1>2, <1>4, RememberedNext
<1>7. OneWallet => Squared(w, r, C \cup {t}, F \cup {t}, gv, ms)
  BY <1>1, <1>2, SquaredNext
<1> QED
  BY <1>2, <1>3, <1>5, <1>6, <1>7 DEF Tracked, Sane, r

LEMMA HeightSane ==
  ASSUME NEW w, NEW s, NEW C, NEW F, NEW sg, NEW gv, NEW ms, Tracked(w, s, C, F, sg, gv, ms)
  PROVE  Tracked(w, NewHeight(s), C, F, sg, gv, ms)
<1> DEFINE r == NewHeight(s)
<1>1. Sound(s) /\ Sound(r)
  BY FreshHeight DEF Tracked
<1>2. r.known = s.known /\ r.nonce = s.nonce /\ r.inbox = s.inbox /\ r.hidden = s.hidden
  BY <1>1 DEF NewHeight, Sound, State
<1> HIDE DEF r
<1>3. Booked(r, C)
  BY <1>2 DEF Tracked, Booked, Used, Paid, Answered
<1>4. Remembered(w, r, gv) /\ (OneWallet => Squared(w, r, C, F, gv, ms))
  BY <1>2 DEF Tracked, Sane, Remembered, Squared
<1> QED
  BY <1>1, <1>3, <1>4 DEF Tracked, Sane, r

LEMMA BlockSane ==
  ASSUME NEW w, NEW s, NEW C, NEW F, NEW sg, NEW gv, NEW ms, Tracked(w, s, C, F, sg, gv, ms),
         NEW q \in Seq(Tx), Runs(s, q), ToSet(q) \subseteq Submitted \cup sg
  PROVE  Tracked(w, FoldLeft(After, s, q), C \cup ToSet(q), F \cup ToSet(q), sg, gv, ms)
<1>1. PICK h : Through(h, s, q)
  BY BlockRun
<1>2. /\ h[1 .. 0] = s /\ FoldLeft(After, s, q) = h[1 .. Len(q)]
      /\ \A i \in 1 .. Len(q) : /\ q[i] \in Tx /\ Valid(h[1 .. i - 1], q[i])
                                /\ h[1 .. i] = After(h[1 .. i - 1], q[i])
  BY <1>1 DEF Through
<1>3. Len(q) \in Nat /\ DOMAIN q = 1 .. Len(q) /\ ToSet(q) = {q[i] : i \in 1 .. Len(q)}
  BY DEF ToSet
<1> DEFINE Run(i) == {q[j] : j \in 1 .. i}
           Good(i) == Tracked(w, h[1 .. i], C \cup Run(i), F \cup Run(i), sg, gv, ms)
           B == {i \in Nat : i <= Len(q) /\ ~ Good(i)}
<1>4. Good(0)
  <2>1. C \cup Run(0) = C /\ F \cup Run(0) = F
    OBVIOUS
  <2> QED
    BY <1>2, <2>1
<1>5. ASSUME NEW i \in 1 .. Len(q), Good(i - 1)
      PROVE  Good(i)
  <2>1. Run(i) = Run(i - 1) \cup {q[i]}
    <3>1. \A j : j \in 1 .. i <=> j \in 1 .. i - 1 \/ j = i
      OBVIOUS
    <3> QED
      BY <3>1
  <2>2. C \cup Run(i) = (C \cup Run(i - 1)) \cup {q[i]} /\ F \cup Run(i) = (F \cup Run(i - 1)) \cup {q[i]}
    BY <2>1
  <2>3. q[i] \in Submitted \cup sg /\ q[i] \in Tx /\ Valid(h[1 .. i - 1], q[i])
    BY <1>2, <1>3
  <2> HIDE DEF Run
  <2>4. Tracked(w, After(h[1 .. i - 1], q[i]), (C \cup Run(i - 1)) \cup {q[i]}, (F \cup Run(i - 1)) \cup {q[i]}, sg, gv, ms)
    BY <1>5, <2>3, ApplySane
  <2> QED
    BY <1>2, <2>2, <2>4
<1>6. B = {}
  <2> SUFFICES ASSUME B # {}
               PROVE  FALSE
    OBVIOUS
  <2> HIDE DEF Good
  <2>1. PICK i \in B : \A j \in B : i <= j
    BY LeastNat
  <2>2. i # 0
    BY <1>4, <2>1
  <2>3. i \in 1 .. Len(q) /\ i - 1 \in Nat /\ i - 1 <= Len(q) /\ i - 1 \notin B
    BY <2>1, <2>2
  <2>4. Good(i)
    BY <1>5, <2>3
  <2> QED
    BY <2>1, <2>4
<1>7. Good(Len(q))
  <2> HIDE DEF Good
  <2> QED
    BY <1>3, <1>6
<1> QED
  BY <1>2, <1>3, <1>7

-----------------------------------------------------------------------------
(* The blocks the node that is asked still has.                              *)

Values(c, I) == {c[i] : i \in I}

LEMMA LaterPart ==
  ASSUME NEW S, NEW c \in Seq(S), NEW b \in 0 .. Len(c)
  PROVE  /\ DOMAIN SubSeq(c, b + 1, Len(c)) = 1 .. Len(c) - b /\ Len(c) - b \in Nat
         /\ ToSet(SubSeq(c, b + 1, Len(c))) = Values(c, b + 1 .. Len(c))
<1> DEFINE n == Len(c)
           d == SubSeq(c, b + 1, n)
           D == 1 .. n - b
           C == b + 1 .. n
<1>1. n \in Nat /\ b \in Nat /\ b <= n
  OBVIOUS
<1>2. DOMAIN d = D /\ \A i \in D : d[i] = c[b + i]
  <2>1. Len(d) = n - b /\ d \in Seq(S)
    BY <1>1
  <2> QED
    BY <1>1, <2>1
<1>3. \A i \in D : \E k \in C : d[i] = c[k]
  <2>1. \A i \in D : b + i \in C
    BY <1>1
  <2> QED
    BY <1>2, <2>1
<1>4. \A k \in C : \E i \in D : d[i] = c[k]
  <2>1. \A k \in C : k - b \in D /\ b + (k - b) = k
    BY <1>1
  <2>2. \A k \in C : d[k - b] = c[k]
    BY <1>2, <2>1
  <2> QED
    BY <2>1, <2>2
<1>5. ToSet(d) = Values(c, C)
  <2> HIDE DEF d, D, C
  <2>1. ToSet(d) = {d[i] : i \in D}
    BY <1>2 DEF ToSet
  <2> QED
    BY <1>3, <1>4, <2>1 DEF Values
<1>6. n - b \in Nat
  BY <1>1
<1> QED
  BY <1>2, <1>5, <1>6

Extends(d, c, q, b) ==
  /\ b \in 0 .. Len(d) /\ ToSet(d) = ToSet(c) \cup ToSet(q)
  /\ ToSet(SubSeq(d, b + 1, Len(d))) = ToSet(SubSeq(c, b + 1, Len(c))) \cup ToSet(q)

LEMMA LongerChain ==
  ASSUME NEW S, NEW c \in Seq(S), NEW q \in Seq(S), NEW b \in 0 .. Len(c), NEW d, d = c \o q
  PROVE  d \in Seq(S) /\ Extends(d, c, q, b)
<1> DEFINE n == Len(c)
           m == Len(q)
<1>1. /\ n \in Nat /\ m \in Nat /\ d \in Seq(S) /\ Len(d) = n + m /\ b \in Nat /\ b <= n
      /\ \A i \in 1 .. n : d[i] = c[i]
      /\ \A i \in 1 .. m : d[n + i] = q[i]
  OBVIOUS
<1>2. b \in 0 .. Len(d)
  BY <1>1
<1>3. ToSet(SubSeq(c, b + 1, Len(c))) = Values(c, b + 1 .. Len(c))
  BY LaterPart
<1>4. ToSet(SubSeq(d, b + 1, Len(d))) = Values(d, b + 1 .. Len(d))
  <2> HIDE DEF n, m
  <2> QED
    BY <1>1, <1>2, LaterPart
<1>5. ToSet(c) = Values(c, 1 .. n) /\ ToSet(q) = Values(q, 1 .. m) /\ ToSet(d) = Values(d, 1 .. Len(d))
  BY <1>1 DEF ToSet, Values
<1> HIDE DEF n, m
<1>6. ASSUME NEW k \in 0 .. n
      PROVE  Values(d, k + 1 .. n + m) = Values(c, k + 1 .. n) \cup Values(q, 1 .. m)
  <2> DEFINE D == k + 1 .. n + m
             K == k + 1 .. n
             M == 1 .. m
  <2>1. ASSUME NEW i \in D
        PROVE  (i \in K /\ d[i] = c[i]) \/ \E j \in M : d[i] = q[j]
    <3>1. CASE i <= n
      BY <1>1, <3>1
    <3>2. CASE i > n
      <4>1. i - n \in M /\ n + (i - n) = i
        BY <1>1, <3>2
      <4> QED
        BY <1>1, <4>1
    <3> QED
      BY <1>1, <3>1, <3>2
  <2>2. \A i \in K : i \in D /\ d[i] = c[i]
    BY <1>1
  <2>3. ASSUME NEW j \in M
        PROVE  \E i \in D : d[i] = q[j]
    <3>1. n + j \in D /\ d[n + j] = q[j]
      BY <1>1
    <3> QED
      BY <3>1
  <2> HIDE DEF D, K, M
  <2>4. Values(d, D) = Values(c, K) \cup Values(q, M)
    <3>1. \A x \in Values(d, D) : x \in Values(c, K) \/ x \in Values(q, M)
      BY <2>1 DEF Values
    <3>2. \A x \in Values(c, K) : x \in Values(d, D)
      BY <2>2 DEF Values
    <3>3. \A x \in Values(q, M) : x \in Values(d, D)
      BY <2>3 DEF Values
    <3> QED
      BY <3>1, <3>2, <3>3
  <2> QED
    BY <2>4 DEF D, K, M
<1>7. 0 \in 0 .. n /\ b \in 0 .. n /\ 0 + 1 = 1
  BY <1>1
<1>8. Values(d, 1 .. n + m) = Values(c, 1 .. n) \cup Values(q, 1 .. m)
  BY <1>6, <1>7
<1>9. Values(d, b + 1 .. n + m) = Values(c, b + 1 .. n) \cup Values(q, 1 .. m)
  BY <1>6, <1>7
<1> QED
  BY <1>1, <1>2, <1>3, <1>4, <1>5, <1>8, <1>9 DEF n, Extends

-----------------------------------------------------------------------------
(* The steps of the owner, of the ledger and of the node.                    *)

WishType == [kind : {"shield", "confidential", "unshield"}, amount : Nat]
WalletInv ==
  /\ load \in Loads /\ mempool \in [Nodes -> Seq(load.txs \cup signed)]
  /\ chain \in Seq(Tx) /\ base \in 0 .. Len(chain) /\ wishes \subseteq WishType
  /\ Tracked(wallet, ledger, ToSet(chain), Final, signed, given, missed)

LEMMA WalletStarts == WalletInit => WalletInv
<1> SUFFICES ASSUME WalletInit
             PROVE  WalletInv
  OBVIOUS
<1>1. /\ chain = <<>> /\ base = 0 /\ wishes = Wishes[load] /\ signed = {} /\ given = {} /\ missed = {}
      /\ wallet = [nonce |-> 0, amount |-> Hidden[Me], confirmed |-> Hidden[Me], pending |-> <<>>,
                   sent |-> {}, seen |-> {}]
      /\ load \in Loads
      /\ ledger = [known |-> Known, nonce |-> Zero, balance |-> Balance, hidden |-> Hidden,
                   inbox |-> [a \in Accounts |-> {}], cap |-> load.cap, count |-> Zero]
      /\ mempool = [n \in Nodes |-> <<>>]
  BY DEF WalletInit, Init
<1>2. Sound(ledger)
  BY MoneyInit DEF WalletInit, MoneyInv
<1>3. mempool \in [Nodes -> Seq(load.txs \cup signed)]
  BY <1>1
<1>4. chain \in Seq(Tx) /\ base \in 0 .. Len(chain) /\ ToSet(chain) = {} /\ Final = {}
  BY <1>1 DEF ToSet, Final
<1>5. wishes \subseteq WishType
  BY <1>1, WalletAssumption DEF WishType
<1>6. Booked(ledger, {})
  <2>1. Me \in ledger.known /\ \A a \in Accounts : ledger.inbox[a] = {}
    BY <1>1, WalletAssumption
  <2>2. IsFiniteSet({})
    BY FS_EmptySet
  <2> QED
    BY <2>1, <2>2 DEF Booked, Used, Paid, Answered
<1>7. Hidden[Me] \in Nat
  BY WalletAssumption, LedgerAssumption
<1>8. Queued(wallet, {}) /\ Queue(wallet) = {} /\ At(wallet, 0) = Hidden[Me] /\ Len(wallet.pending) = 0
  <2>1. wallet \in WalletType({})
    BY <1>1, <1>7 DEF WalletType
  <2>2. DOMAIN wallet.pending = {} /\ Len(wallet.pending) = 0
    BY <1>1
  <2>3. At(wallet, 0) = Hidden[Me] /\ wallet.amount = Hidden[Me]
    BY <1>1 DEF At
  <2>4. Queued(wallet, {})
    BY <2>1, <2>2, <2>3 DEF Queued
  <2>5. Queue(wallet) = {}
    BY <2>2 DEF Queue
  <2> QED
    BY <2>2, <2>3, <2>4, <2>5
<1>9. Followed(wallet, {}, {}, {}, {}, {}) /\ Remembered(wallet, ledger, {})
  BY <1>1, <1>8 DEF Followed, Remembered
<1>10. Squared(wallet, ledger, {}, {}, {}, {})
  <2>1. Returned(wallet, {}) = {}
    BY DEF Returned
  <2>2. 0 \in 0 .. Len(wallet.pending) /\ DOMAIN wallet.pending = {}
    BY <1>1
  <2>3. ledger.hidden[Me] = At(wallet, 0) + Owed(Returned(wallet, {}))
    <3>1. ledger.hidden[Me] = Hidden[Me] /\ Owed(Returned(wallet, {})) = 0
      BY <1>1, <2>1, OwedNothing
    <3>2. At(wallet, 0) = Hidden[Me]
      BY <1>8
    <3> QED
      BY <1>7, <3>1, <3>2
  <2> QED
    BY <2>2, <2>3 DEF Squared
<1> QED
  BY <1>1, <1>2, <1>3, <1>4, <1>5, <1>6, <1>8, <1>9, <1>10 DEF WalletInv, Tracked, Sane

LEMMA WalletReceives ==
  ASSUME WalletInv, NEW n \in Nodes, NEW t \in load.txs \cup signed, Receive(n, t), UNCHANGED walletVars
  PROVE  WalletInv'
<1>1. mempool' = [mempool EXCEPT ![n] = Append(@, t)] /\ ledger' = ledger /\ load' = load
  BY DEF Receive
<1>2. mempool \in [Nodes -> Seq(load.txs \cup signed)]
  BY DEF WalletInv
<1>3. Append(mempool[n], t) \in Seq(load.txs \cup signed)
  BY <1>2
<1>4. mempool' \in [Nodes -> Seq(load.txs \cup signed)]
  BY <1>1, <1>2, <1>3
<1> QED
  BY <1>1, <1>4 DEF WalletInv, walletVars, Final

LEMMA WalletProduces ==
  ASSUME WalletInv, NEW n \in Nodes, Produce(n), chain' = chain \o Block(n).txs,
         UNCHANGED <<base, wallet, wishes, signed, given, missed>>
  PROVE  WalletInv'
<1> DEFINE b == Block(n)
           next == Result(ledger, b)
           S == load.txs \cup signed
           q == b.txs
<1>1. /\ Executable(ledger, b) /\ ledger' = next /\ load' = load
      /\ mempool' = [m \in Nodes |-> Kept(next, mempool[m], b)]
  BY DEF Produce
<1>2. /\ load \in Loads /\ mempool \in [Nodes -> Seq(S)] /\ chain \in Seq(Tx) /\ base \in 0 .. Len(chain)
      /\ wishes \subseteq WishType /\ Tracked(wallet, ledger, ToSet(chain), Final, signed, given, missed)
  BY DEF WalletInv
<1>3. S \subseteq Tx /\ S \subseteq Submitted \cup signed
  <2>1. signed \subseteq Tx
    BY <1>2 DEF Tracked, Sane, Followed, Mine
  <2> QED
    BY <1>2, <2>1, LedgerAssumption DEF Submitted
<1>4. q \in Seq(S)
  <2>1. q = Chosen(NewHeight(ledger), mempool[n], Skipped(n), MaxTxs).chosen
    BY DEF Block
  <2> QED
    BY <1>2, <2>1, ChosenTyped
<1> HIDE DEF S
<1>5. Runs(NewHeight(ledger), q) /\ next = FoldLeft(After, NewHeight(ledger), q)
  BY <1>1 DEF Executable, Result
<1>6. \A m \in Nodes : Kept(next, mempool[m], b) \in Seq(S)
  BY <1>2, OnlyTyped DEF Kept
<1> HIDE DEF b, q, next
<1>7. q \in Seq(Tx) /\ ToSet(q) \subseteq Submitted \cup signed
  <2>1. ToSet(q) \subseteq S
    BY <1>4 DEF ToSet
  <2>2. q \in Seq(Tx)
    BY <1>3, <1>4
  <2> QED
    BY <1>3, <2>1, <2>2
<1>8. Tracked(wallet, NewHeight(ledger), ToSet(chain), Final, signed, given, missed)
  BY <1>2, HeightSane
<1>9. Tracked(wallet, next, ToSet(chain) \cup ToSet(q), Final \cup ToSet(q), signed, given, missed)
  BY <1>5, <1>7, <1>8, BlockSane
<1>10. /\ chain' \in Seq(Tx) /\ base \in 0 .. Len(chain') /\ ToSet(chain') = ToSet(chain) \cup ToSet(q)
       /\ ToSet(SubSeq(chain', base + 1, Len(chain'))) = Final \cup ToSet(q)
  <2> DEFINE c == chain
             d == chain'
  <2>1. d = c \o q /\ c \in Seq(Tx) /\ base \in 0 .. Len(c)
    BY <1>2 DEF q, b
  <2> HIDE DEF c, d
  <2>2. d \in Seq(Tx) /\ Extends(d, c, q, base)
    BY <1>7, <2>1, LongerChain
  <2> QED
    BY <2>2 DEF Extends, Final, c, d
<1>11. Final' = Final \cup ToSet(q)
  BY <1>10 DEF Final
<1>12. mempool' \in [Nodes -> Seq(S)]
  BY <1>1, <1>6
<1> QED
  BY <1>1, <1>2, <1>9, <1>10, <1>11, <1>12 DEF WalletInv, S

\* shield, pay and unshield.
LEMMA WalletWishes ==
  ASSUME WalletInv, NEW wish \in wishes, NEW to \in Accounts \ {Me}, Wish(wish, to)
  PROVE  WalletInv'
<1> DEFINE w == wallet
           C == ToSet(chain)
<1>1. /\ load \in Loads /\ mempool \in [Nodes -> Seq(load.txs \cup signed)] /\ chain \in Seq(Tx)
      /\ base \in 0 .. Len(chain) /\ wishes \subseteq WishType
      /\ Sound(ledger) /\ Booked(ledger, C) /\ Sane(w, ledger, C, Final, signed, given, missed)
  BY DEF WalletInv, Tracked
<1>2. /\ wallet' = Asked(w, wish, to) /\ wishes' = wishes \ {wish}
      /\ signed' = signed \cup {Last(wallet'.pending).tx}
      /\ UNCHANGED <<vars, chain, base, given, missed>> /\ (wish.kind = "shield" \/ wish.amount <= w.amount)
  BY DEF Wish
<1>3. /\ w.pending \in Seq([tx : Mine, after : Nat]) /\ w.nonce \in Nat /\ w.amount \in Nat /\ w.seen \in SUBSET C
      /\ w.sent \subseteq {t \in Mine : Paying(t)}
      /\ w = [nonce |-> w.nonce, amount |-> w.amount, confirmed |-> w.confirmed, pending |-> w.pending,
              sent |-> w.sent, seen |-> w.seen]
  <2>1. Queued(w, C)
    BY <1>1 DEF Sane
  <2> HIDE DEF w
  <2>2. w \in WalletType(C)
    BY <2>1 DEF Queued
  <2> QED
    BY <2>1, <2>2, QueueTyped DEF WalletType
<1>4. Me \in Accounts /\ wish.amount \in Nat /\ wish.kind \in {"shield", "confidential", "unshield"}
  BY <1>1, WalletAssumption, LedgerAssumption DEF WishType
<1> DEFINE t == IF wish.kind = "shield" THEN Signed(w, "shield", Me, wish.amount, 0)
                ELSE IF wish.kind = "unshield" THEN Signed(w, "unshield", Me, wish.amount, w.amount)
                ELSE Signed(w, "confidential", to, wish.amount, w.amount)
           after == IF wish.kind = "shield" THEN w.amount + wish.amount ELSE w.amount - wish.amount
           sent == IF wish.kind = "confidential" THEN w.sent \cup {t} ELSE w.sent
<1>5. t \in Mine /\ t.nonce = w.nonce /\ t.kind = wish.kind /\ t.amount = wish.amount
  BY <1>3, <1>4 DEF Mine, Hiding, Signed, Tx, Kinds
<1>6. after \in Nat /\ Outcome(C, t, w.amount, after)
  <2>1. after \in Nat
    BY <1>2, <1>3, <1>4
  <2> HIDE DEF t
  <2> QED
    BY <1>4, <1>5, <2>1 DEF Outcome
<1>7. sent \in SUBSET {u \in Mine : Paying(u)} /\ w.sent \subseteq sent /\ (Paying(t) => t \in sent)
  <2> HIDE DEF t
  <2> QED
    BY <1>3, <1>5 DEF Paying
<1>8. wallet' = Grown(w, t, after, sent, w.seen)
  <2>1. CASE wish.kind = "shield"
    BY <1>2, <1>3, <2>1 DEF Asked, Stage, Grown
  <2>2. CASE wish.kind = "unshield"
    BY <1>2, <1>3, <2>2 DEF Asked, Stage, Grown
  <2>3. CASE wish.kind = "confidential"
    BY <1>2, <1>3, <2>3 DEF Asked, Stage, Grown
  <2> QED
    BY <1>4, <2>1, <2>2, <2>3
<1>9. signed' = signed \cup {t}
  <2>1. wallet'.pending = Append(w.pending, [tx |-> t, after |-> after])
    BY <1>8 DEF Grown
  <2> HIDE DEF t, after, w
  <2>2. Last(wallet'.pending) = [tx |-> t, after |-> after]
    BY <1>3, <2>1 DEF Last
  <2> QED
    BY <1>2, <2>2
<1> HIDE DEF t, after, sent, w
<1>10. Sane(Grown(w, t, after, sent, w.seen), ledger, C, Final, signed \cup {t}, given, missed)
  BY <1>1, <1>3, <1>5, <1>6, <1>7, GrownSane
<1>11. mempool \in [Nodes -> Seq(load.txs \cup signed')]
  <2>1. \A n \in Nodes : mempool[n] \in Seq(load.txs \cup signed')
    BY <1>1, <1>9
  <2> QED
    BY <1>1, <2>1
<1> QED
  BY <1>1, <1>2, <1>8, <1>9, <1>10, <1>11 DEF WalletInv, Tracked, Final, vars

LEMMA WalletLooks ==
  ASSUME WalletInv, Sync \/ Scan
  PROVE  WalletInv'
<1> DEFINE C == ToSet(chain)
           n == Len(chain) - base
           hv == given \cup RolledBack(wallet)
<1>1. /\ load \in Loads /\ mempool \in [Nodes -> Seq(load.txs \cup signed)] /\ chain \in Seq(Tx)
      /\ base \in 0 .. Len(chain) /\ wishes \subseteq WishType
      /\ Sound(ledger) /\ Booked(ledger, C) /\ Sane(wallet, ledger, C, Final, signed, given, missed)
  BY DEF WalletInv, Tracked
<1>2. PICK r : Look(r) /\ r \in {Synced(wallet), Scanned(wallet)}
  BY DEF Sync, Scan
<1>3. /\ wallet' = r /\ signed' = signed \cup Queue(r) /\ given' = hv
      /\ UNCHANGED <<vars, chain, base, wishes, missed>>
  BY <1>2 DEF Look, Queue, ToSet
<1>4. Sane(r, ledger, C, Final, signed \cup Queue(r), hv, missed)
  <2>1. CASE r = Synced(wallet)
    <3>1. Final \subseteq C
      BY <1>1 DEF Sane, Followed
    <3>2. Sane(r, ledger, C, Final, signed, hv, missed)
      BY <1>1, <2>1, <3>1, SyncedSane
    <3>3. signed \cup Queue(r) = signed
      BY <3>2 DEF Sane, Followed
    <3> QED
      BY <3>2, <3>3
  <2>2. CASE r = Scanned(wallet)
    <3>1. n \in Nat /\ DOMAIN SubSeq(chain, base + 1, Len(chain)) = 1 .. n
      BY <1>1, LaterPart
    <3> HIDE DEF n
    <3> QED
      BY <1>1, <2>2, <3>1, ScannedSane
  <2> QED
    BY <1>2, <2>1, <2>2
<1>5. mempool \in [Nodes -> Seq(load.txs \cup signed')]
  <2>1. \A k \in Nodes : mempool[k] \in Seq(load.txs \cup signed')
    BY <1>1, <1>3
  <2> QED
    BY <1>1, <2>1
<1> QED
  BY <1>1, <1>3, <1>4, <1>5 DEF WalletInv, Tracked, Final, vars

LEMMA WalletLoses ==
  ASSUME WalletInv, Prune
  PROVE  WalletInv'
<1> DEFINE w == wallet
           C == ToSet(chain)
           ms == missed \cup {t \in Final : News(w, t)}
<1>1. /\ load \in Loads /\ mempool \in [Nodes -> Seq(load.txs \cup signed)] /\ chain \in Seq(Tx)
      /\ base \in 0 .. Len(chain) /\ wishes \subseteq WishType
      /\ Sound(ledger) /\ Booked(ledger, C) /\ Sane(w, ledger, C, Final, signed, given, missed)
  BY DEF WalletInv, Tracked
<1>2. base' = Len(chain) /\ missed' = ms /\ UNCHANGED <<vars, chain, wallet, wishes, signed, given>>
  BY DEF Prune
<1>3. base' \in 0 .. Len(chain')
  BY <1>1, <1>2
<1>4. Final' = {}
  <2>1. ToSet(SubSeq(chain, Len(chain) + 1, Len(chain))) = {}
    <3>1. SubSeq(chain, Len(chain) + 1, Len(chain)) = <<>>
      BY <1>1
    <3> QED
      BY <3>1 DEF ToSet
  <2> QED
    BY <1>2, <2>1 DEF Final
<1>5. Queued(w, C) /\ Followed(w, C, Final, signed, given, missed) /\ Remembered(w, ledger, given)
      /\ (OneWallet => Squared(w, ledger, C, Final, given, missed))
  BY <1>1 DEF Sane
<1>6. Followed(w, C, {}, signed, given, ms)
  BY <1>5 DEF Followed, News
<1>7. Squared(w, ledger, C, Final, given, missed) => Squared(w, ledger, C, {}, given, ms)
  <2>1. ms = {} => missed = {} /\ Queue(w) \cap Final = {}
    BY DEF News, Queue, ToSet
  <2> HIDE DEF ms, w
  <2> QED
    BY <2>1 DEF Squared
<1>8. Sane(w, ledger, C, {}, signed, given, ms)
  BY <1>5, <1>6, <1>7 DEF Sane
<1> QED
  BY <1>1, <1>2, <1>3, <1>4, <1>8 DEF WalletInv, Tracked, vars

LEMMA WalletStep == WalletInv /\ [WalletNext]_allVars => WalletInv'
<1> SUFFICES ASSUME WalletInv, [WalletNext]_allVars
             PROVE  WalletInv'
  OBVIOUS
<1>1. CASE UNCHANGED allVars
  BY <1>1 DEF allVars, vars, walletVars, WalletInv, Tracked, Final
<1>2. CASE \E n \in Nodes :
             /\ Produce(n) /\ chain' = chain \o Block(n).txs
             /\ UNCHANGED <<base, wallet, wishes, signed, given, missed>>
  BY <1>2, WalletProduces
<1>3. CASE \E n \in Nodes, t \in load.txs \cup signed : Receive(n, t) /\ UNCHANGED walletVars
  BY <1>3, WalletReceives
<1>4. CASE \E wish \in wishes, to \in Accounts \ {Me} : Wish(wish, to)
  BY <1>4, WalletWishes
<1>5. CASE Sync \/ Scan
  BY <1>5, WalletLooks
<1>6. CASE Prune
  BY <1>6, WalletLoses
<1> QED
  BY <1>1, <1>2, <1>3, <1>4, <1>5, <1>6 DEF WalletNext

\* After a scan that finds nothing new: it takes nothing from the queue, and the blocks
\* there are hold nothing to look at.
LEMMA NothingNew ==
  ASSUME WalletInv, UpToDate
  PROVE  /\ Synced(wallet) = wallet /\ \A t \in Final : Looked(wallet, t) = wallet
         /\ \A t \in Final : Paying(t) /\ t.to = Me => t \in wallet.seen
<1> DEFINE C == ToSet(chain)
           n == Len(chain) - base
<1>1. /\ chain \in Seq(Tx) /\ base \in 0 .. Len(chain)
      /\ Sound(ledger) /\ Booked(ledger, C) /\ Sane(wallet, ledger, C, Final, signed, given, missed)
  BY DEF WalletInv, Tracked
<1>2. n \in Nat /\ DOMAIN SubSeq(chain, base + 1, Len(chain)) = 1 .. n
  BY <1>1, LaterPart
<1> HIDE DEF n
<1>3. LET r == Scanned(wallet) IN
      /\ \A t \in Final : Paying(t) /\ t.to = Me => t \in r.seen
      /\ r.seen = wallet.seen => r = Synced(wallet) /\ \A t \in Final : Looked(r, t) = r
  BY <1>1, <1>2, ScannedSane
<1> QED
  BY <1>3 DEF UpToDate

LEMMA Unforgotten ==
  ASSUME WalletInv
  PROVE  NothingForgotten
<1> SUFFICES ASSUME UpToDate, NEW e \in ledger.inbox[Me], e \notin {Entry(t) : t \in missed}
             PROVE  \E p \in ToSet(wallet.pending) \cup {[tx |-> t] : t \in given} :
                      p.tx.kind \in {"accept", "refuse"} /\ p.tx.to = e.from /\ p.tx.proof = e.nonce
  BY DEF NothingForgotten
<1> DEFINE C == ToSet(chain)
<1>1. /\ Booked(ledger, C) /\ Followed(wallet, C, Final, signed, given, missed)
      /\ Remembered(wallet, ledger, given)
  BY DEF WalletInv, Tracked, Sane
<1>2. Me \in Accounts
  BY WalletAssumption, LedgerAssumption
<1>3. PICK p \in C : Paying(p) /\ p.to = Me /\ e = Entry(p)
  BY <1>1, <1>2 DEF Booked, Paid
<1>4. p \in wallet.seen
  <2>1. \A t \in Final : Paying(t) /\ t.to = Me => t \in wallet.seen
    BY NothingNew
  <2>2. p \notin missed
    BY <1>3
  <2> QED
    BY <1>1, <1>3, <2>1, <2>2 DEF Followed, Paying
<1>5. PICK c \in Queue(wallet) \cup given : Answers(c, p)
  BY <1>1, <1>3, <1>4 DEF Remembered
<1>6. c.kind \in {"accept", "refuse"} /\ c.to = e.from /\ c.proof = e.nonce
  BY <1>3, <1>5 DEF Answers, Claims, Entry
<1>7. CASE c \in given
  <2>1. [tx |-> c] \in {[tx |-> t] : t \in given} /\ [tx |-> c].tx = c
    BY <1>7
  <2> QED
    BY <1>6, <2>1
<1>8. CASE c \in Queue(wallet)
  <2>1. PICK i \in DOMAIN wallet.pending : c = wallet.pending[i].tx
    BY <1>8 DEF Queue
  <2>2. wallet.pending[i] \in ToSet(wallet.pending)
    BY DEF ToSet
  <2> QED
    BY <1>6, <2>1, <2>2
<1> QED
  BY <1>5, <1>7, <1>8

\* Nothing has come back that the wallet has not been credited with.
LEMMA NothingReturned ==
  ASSUME WalletInv, OneWallet, UpToDate, missed = {}
  PROVE  Returned(wallet, ToSet(chain)) = {}
<1> DEFINE C == ToSet(chain)
<1>1. /\ Booked(ledger, C) /\ Queued(wallet, C) /\ Followed(wallet, C, Final, signed, given, missed)
  BY DEF WalletInv, Tracked, Sane
<1> SUFFICES ASSUME NEW p \in C, Paying(p), p.sender = Me, NEW u \in C \ wallet.seen, Returns(u, p)
             PROVE  FALSE
  BY DEF Returned
<1>2. wallet.seen \subseteq C
  BY <1>1, QueueTyped
<1>3. p \in signed
  <2>1. p \notin Submitted
    BY DEF OneWallet, Submitted, Paying, Hiding
  <2> QED
    BY <1>1, <2>1 DEF Followed
<1>4. p \in wallet.sent
  <2>1. \A t \in C : Returns(t, p) => t = u
    BY <1>1, ReturnedOnce
  <2> QED
    BY <1>1, <1>2, <1>3, <2>1 DEF Followed
<1>5. u \in Final
  BY <1>1 DEF Followed, Returns
<1>6. p \in Refused(wallet, u)
  BY <1>4 DEF Refused, Returns
<1>7. Looked(wallet, u) = wallet
  BY <1>5, NothingNew
<1>8. \E q \in Refused(wallet, u) : wallet = Credited(wallet, q.amount, q, u)
  BY <1>1, <1>6, <1>7, LookedCases DEF Returns
<1> QED
  BY <1>8 DEF Credited

LEMMA Matching ==
  ASSUME WalletInv, OneWallet
  PROVE  Matches
<1> SUFFICES ASSUME UpToDate, given \cap ToSet(chain) = {}, missed = {}
             PROVE  wallet.confirmed = ledger.hidden[Me]
  BY DEF Matches
<1> DEFINE C == ToSet(chain)
           N == Len(wallet.pending)
           tx(k) == wallet.pending[k].tx
<1>1. /\ Sound(ledger) /\ Booked(ledger, C) /\ Queued(wallet, C) /\ Final \subseteq C
      /\ Squared(wallet, ledger, C, Final, given, missed)
  BY DEF WalletInv, Tracked, Sane, Followed
<1>2. /\ N \in Nat /\ DOMAIN wallet.pending = 1 .. N /\ wallet.confirmed \in Nat
      /\ \A k \in 1 .. N : tx(k) \in Queue(wallet)
  BY <1>1, QueueTyped
<1>3. \A k \in 1 .. N : tx(k) \notin Final
  <2>1. PICK l \in 1 .. N + 1 : \E m \in 0 .. l - 1 : Trimmed(wallet, wallet, l, m)
    <3>1. \E l \in 1 .. Len(wallet.pending) + 1 : \E m \in 0 .. l - 1 : Trimmed(Synced(wallet), wallet, l, m)
      BY <1>1, SyncedIs
    <3> QED
      BY <3>1, NothingNew
  <2>2. PICK m \in 0 .. l - 1 : Trimmed(wallet, wallet, l, m)
    BY <2>1
  <2>3. /\ \A k \in 1 .. l - 1 : tx(k) \in Final <=> k <= m
        /\ (l = N + 1 /\ Len(wallet.pending) = N - m) \/ wallet.pending = <<>>
    BY <2>2 DEF Trimmed
  <2>4. CASE l = N + 1 /\ Len(wallet.pending) = N - m
    <3>1. m = 0 /\ \A k \in 1 .. N : k \in 1 .. l - 1 /\ ~ (k <= 0)
      BY <1>2, <2>4
    <3> QED
      BY <2>3, <3>1
  <2>5. CASE wallet.pending = <<>>
    BY <2>5
  <2> QED
    BY <2>3, <2>4, <2>5
<1>4. \A k \in 1 .. N : tx(k) \notin C
  BY <1>1, <1>2, <1>3 DEF Squared
<1>5. PICK m \in 0 .. N : /\ \A k \in 1 .. N : tx(k) \in C <=> k <= m
                          /\ ledger.hidden[Me] = At(wallet, m) + Owed(Returned(wallet, C))
  BY <1>1, <1>2, <1>4 DEF Squared
<1>6. m = 0
  <2>1. m # 0 => m \in 1 .. N /\ m <= m
    BY <1>2
  <2> QED
    BY <1>4, <1>5, <2>1
<1>7. Owed(Returned(wallet, C)) = 0
  BY NothingReturned, OwedNothing
<1>8. At(wallet, 0) = wallet.confirmed
  BY DEF At
<1> QED
  BY <1>2, <1>5, <1>6, <1>7, <1>8

\* ConfidentialWallet.scan: when a scan finds nothing new, every confidential payment that
\* waits for the owner has a claim in the queue, unless that claim has been rolled back or
\* the payment is in a block that was pruned before the wallet saw it; whatever is paid,
\* refused, accepted, included late or dropped, and whoever proposes.
THEOREM WalletForgetsNothing == WalletSpec => []NothingForgotten
<1>1. WalletInv => NothingForgotten
  BY Unforgotten
<1> QED
  BY <1>1, WalletStarts, WalletStep, PTL DEF WalletSpec

\* ConfidentialWallet.matches_ledger: when a scan finds nothing new, the confirmed opening
\* opens the commitment on the ledger, whatever was paid, claimed, refused, returned or
\* rolled back on the way; unless a transaction the wallet has rolled back was included
\* after all, or a block was pruned that it had not seen.
THEOREM WalletMatches == OneWallet => (WalletSpec => []Matches)
<1> SUFFICES ASSUME OneWallet
             PROVE  WalletSpec => []Matches
  OBVIOUS
<1>1. WalletInv => Matches
  BY Matching
<1> QED
  BY <1>1, WalletStarts, WalletStep, PTL DEF WalletSpec

-----------------------------------------------------------------------------
(* What the mempools drop.                                                   *)

\* A transaction whose nonce is used, or whose sender is registered.
Spent(s, t) == t.nonce < s.nonce[t.sender] /\ (t.kind = "register" => t.sender \in s.known)

LEMMA ApplySpends ==
  ASSUME NEW s, Sound(s), NEW u \in Tx, Valid(s, u), NEW t \in Tx, t = u \/ Spent(s, t)
  PROVE  Spent(After(s, u), t)
<1> DEFINE r == After(s, u)
<1>1. r.nonce = [s.nonce EXCEPT ![u.sender] = @ + 1] /\ s.known \subseteq r.known
  BY EffectOf DEF Effect
<1>2. u.kind = "register" => u.sender \in r.known
  <2> SUFFICES ASSUME u.kind = "register"
               PROVE  u.sender \in r.known
    OBVIOUS
  <2> DEFINE w == Handled(s, u)
  <2>1. w.known = s.known \cup {u.sender}
    BY DEF Handled, Sound, State
  <2>2. w \in State
    BY HandledSettles DEF Settled
  <2>3. r = [w EXCEPT !.nonce[u.sender] = @ + 1, !.count[u.sender] = IF w.cap = 0 THEN @ ELSE @ + 1]
    BY DEF After
  <2> HIDE DEF w, r
  <2>4. r.known = w.known
    BY <2>2, <2>3 DEF State
  <2> QED
    BY <2>1, <2>4
<1>3. s.nonce \in [Accounts -> Nat] /\ t.sender \in Accounts /\ t.nonce \in Nat /\ u.sender \in Accounts
  BY DEF Sound, State, Amounts, Tx
<1>4. s.nonce[u.sender] \in Nat /\ (u.nonce = 0 \/ u.nonce = s.nonce[u.sender])
  BY <1>3 DEF Valid
<1> SUFFICES Spent(r, t)
  OBVIOUS
<1> HIDE DEF r
<1>5. CASE t = u
  <2>1. u.nonce < r.nonce[u.sender]
    BY <1>1, <1>3, <1>4
  <2> QED
    BY <1>2, <1>5, <2>1 DEF Spent
<1>6. CASE Spent(s, t)
  BY <1>1, <1>3, <1>6 DEF Spent
<1> QED
  BY <1>5, <1>6

LEMMA SpentIsOver ==
  ASSUME NEW s, Sound(s), NEW t \in Tx, Spent(s, t)
  PROVE  ~ Valid(NoQuota(s), t)
<1>1. NoQuota(s).nonce = s.nonce /\ NoQuota(s).known = s.known
  BY DEF NoQuota, NewHeight, Sound, State
<1>2. s.nonce[t.sender] \in Nat /\ t.nonce \in Nat
  BY DEF Sound, State, Amounts, Tx
<1> QED
  BY <1>1, <1>2 DEF Valid, Spent

\* The transactions of a block are spent after it, and so are those that were before it.
LEMMA BlockSpends ==
  ASSUME NEW s, Sound(s), NEW q \in Seq(Tx), Runs(s, q), NEW t \in Tx, t \in ToSet(q) \/ Spent(s, t)
  PROVE  Spent(FoldLeft(After, s, q), t)
<1>1. PICK h : Through(h, s, q)
  BY BlockRun
<1>2. /\ h[1 .. 0] = s /\ FoldLeft(After, s, q) = h[1 .. Len(q)]
      /\ \A i \in 1 .. Len(q) : /\ q[i] \in Tx /\ Valid(h[1 .. i - 1], q[i])
                                /\ h[1 .. i] = After(h[1 .. i - 1], q[i])
  BY <1>1 DEF Through
<1>3. PICK k \in 0 .. Len(q) : (k = 0 /\ Spent(s, t)) \/ (k > 0 /\ t = q[k])
  <2>1. DOMAIN q = 1 .. Len(q) /\ Len(q) \in Nat
    OBVIOUS
  <2>2. CASE Spent(s, t)
    BY <2>1, <2>2
  <2>3. CASE t \in ToSet(q)
    BY <2>1, <2>3 DEF ToSet
  <2> QED
    BY <2>2, <2>3
<1> DEFINE Good(i) == Sound(h[1 .. i]) /\ (k <= i => Spent(h[1 .. i], t))
           B == {i \in Nat : i <= Len(q) /\ ~ Good(i)}
<1>4. B = {}
  <2> SUFFICES ASSUME B # {}
               PROVE  FALSE
    OBVIOUS
  <2>1. PICK i \in B : \A j \in B : i <= j
    BY LeastNat
  <2>2. i # 0
    BY <1>2, <1>3, <2>1
  <2>3. i \in 1 .. Len(q) /\ i - 1 \in Nat /\ i - 1 <= Len(q) /\ i - 1 \notin B
    BY <2>1, <2>2
  <2>4. Good(i - 1)
    BY <2>3
  <2> DEFINE u == h[1 .. i - 1]
             r == h[1 .. i]
             v == q[i]
  <2>5. v \in Tx /\ Valid(u, v) /\ r = After(u, v)
    BY <1>2, <2>3
  <2>6. Sound(u) /\ (k <= i - 1 => Spent(u, t))
    BY <2>4
  <2>7. k = i => t = v
    BY <1>3, <2>3
  <2> HIDE DEF u, r, v
  <2>8. Sound(r)
    BY <2>5, <2>6, ApplyConserves
  <2>9. k <= i => t = v \/ Spent(u, t)
    BY <2>3, <2>6, <2>7
  <2>10. k <= i => Spent(r, t)
    BY <2>5, <2>6, <2>9, ApplySpends
  <2>11. Good(i)
    BY <2>8, <2>10 DEF r
  <2> QED
    BY <2>1, <2>11
<1>5. Good(Len(q))
  BY <1>4
<1> QED
  BY <1>2, <1>3, <1>5

\* What nothing can make of it any more: taken, left out, or not valid.
Stuck(acc, t, skip, limit) ==
  t \in ToSet(acc.chosen) \/ t.sender \in skip \/ Len(acc.chosen) >= limit \/ ~ Valid(acc.s, t)

\* Nothing of a pool is taken twice.
Picked(acc, pool) == IsInjective(acc.chosen) /\ ToSet(acc.chosen) \subseteq ToSet(pool)

LEMMA AppendOnce ==
  ASSUME NEW S, NEW q \in Seq(S), NEW t \in S, t \notin ToSet(q), IsInjective(q)
  PROVE  /\ IsInjective(Append(q, t)) /\ ToSet(Append(q, t)) = ToSet(q) \cup {t}
         /\ Len(Append(q, t)) = Len(q) + 1
<1> DEFINE n == Len(q)
           r == Append(q, t)
<1>1. /\ n \in Nat /\ DOMAIN q = 1 .. n /\ DOMAIN r = 1 .. n + 1 /\ Len(r) = n + 1
      /\ r[n + 1] = t /\ \A i \in 1 .. n : r[i] = q[i]
  OBVIOUS
<1>2. \A i \in 1 .. n : q[i] # t
  BY <1>1 DEF ToSet
<1>3. \A i, j \in 1 .. n : q[i] = q[j] => i = j
  BY <1>1 DEF IsInjective
<1>4. \A i \in 1 .. n + 1 : i \in 1 .. n \/ i = n + 1
  BY <1>1
<1> HIDE DEF n, r
<1>5. \A i, j \in 1 .. n + 1 : r[i] = r[j] => i = j
  BY <1>1, <1>2, <1>3, <1>4
<1>6. IsInjective(r)
  BY <1>1, <1>5 DEF IsInjective
<1>7. ToSet(r) = ToSet(q) \cup {t}
  <2>1. \A i \in 1 .. n : i \in 1 .. n + 1
    BY <1>1
  <2>2. n + 1 \in 1 .. n + 1
    BY <1>1
  <2> QED
    BY <1>1, <1>4, <2>1, <2>2 DEF ToSet
<1> QED
  BY <1>1, <1>6, <1>7 DEF n, r

\* An offer is taken, or nothing happens and nothing could.
LEMMA OfferTaken ==
  ASSUME NEW s, NEW P, Calm(s, P), NEW acc, Built(s, P, acc), NEW pool \in Seq(P), Picked(acc, pool),
         NEW t \in ToSet(pool), NEW skip, NEW limit
  PROVE  LET r == Offer(acc, t, skip, limit) IN
         /\ Built(s, P, r) /\ Picked(r, pool)
         /\ (Len(r.chosen) = Len(acc.chosen) + 1) \/ (r = acc /\ Stuck(acc, t, skip, limit))
<1> DEFINE r == Offer(acc, t, skip, limit)
<1>1. t \in P
  BY DEF ToSet
<1>2. Built(s, P, r)
  BY <1>1, OfferBuilt
<1>3. Choice(acc, P) /\ Sound(acc.s) /\ SentFrom(s, P, acc.s)
  BY DEF Built
<1>4. CASE t \in ToSet(acc.chosen) \/ t.sender \in skip \/ Len(acc.chosen) >= limit
  <2>1. r = acc /\ Stuck(acc, t, skip, limit)
    BY <1>4 DEF Offer, Stuck
  <2> HIDE DEF r
  <2> QED
    BY <1>2, <2>1 DEF r
<1>5. CASE ~ (t \in ToSet(acc.chosen) \/ t.sender \in skip \/ Len(acc.chosen) >= limit) /\ Valid(acc.s, t)
  <2>1. r = [acc EXCEPT !.s = After(acc.s, t), !.chosen = Append(acc.chosen, t)]
    BY <1>5 DEF Offer
  <2>2. r.chosen = Append(acc.chosen, t)
    BY <1>3, <2>1 DEF Choice
  <2>3. acc.chosen \in Seq(P) /\ t \notin ToSet(acc.chosen)
    BY <1>3, <1>5 DEF Choice
  <2> SUFFICES Built(s, P, r) /\ Picked(r, pool) /\ Len(r.chosen) = Len(acc.chosen) + 1
    OBVIOUS
  <2> HIDE DEF r
  <2>4. IsInjective(acc.chosen) /\ ToSet(acc.chosen) \subseteq ToSet(pool)
    BY DEF Picked
  <2>5. IsInjective(r.chosen) /\ ToSet(r.chosen) = ToSet(acc.chosen) \cup {t} /\ Len(r.chosen) = Len(acc.chosen) + 1
    BY <1>1, <2>2, <2>3, <2>4, AppendOnce
  <2> QED
    BY <1>2, <2>4, <2>5 DEF Picked
<1>6. CASE ~ (t \in ToSet(acc.chosen) \/ t.sender \in skip \/ Len(acc.chosen) >= limit) /\ ~ Valid(acc.s, t)
  <2>1. r = [acc EXCEPT !.s = Residue(acc.s, t)]
    BY <1>6 DEF Offer
  <2>2. Residue(acc.s, t) = acc.s
    BY <1>1, <1>3, <1>6, NothingLeft
  <2>3. r = acc
    BY <1>3, <2>1, <2>2 DEF Choice
  <2>4. Stuck(acc, t, skip, limit)
    BY <1>6 DEF Stuck
  <2> HIDE DEF r
  <2> QED
    BY <1>2, <2>3, <2>4 DEF r
<1> QED
  BY <1>4, <1>5, <1>6

\* A pass takes something, or nothing happens and nothing could.
PassedOver(s, P, acc, next, pool, I, skip, limit) ==
  /\ Built(s, P, next) /\ Picked(next, pool) /\ Len(next.chosen) >= Len(acc.chosen)
  /\ Len(next.chosen) = Len(acc.chosen) => next = acc /\ \A i \in I : Stuck(acc, pool[i], skip, limit)

LEMMA PassTakes ==
  ASSUME NEW s, NEW P, Calm(s, P), NEW acc, Built(s, P, acc), NEW pool \in Seq(P), Picked(acc, pool),
         NEW skip, NEW limit
  PROVE  PassedOver(s, P, acc, Offers(acc, pool, skip, limit), pool, 1 .. Len(pool), skip, limit)
<1> DEFINE n == Len(pool)
           how == Offering(skip, limit)
<1>1. n \in Nat /\ DOMAIN pool = 1 .. n /\ \A i \in 1 .. n : pool[i] \in ToSet(pool)
  BY DEF ToSet
<1> HIDE DEF n
<1>2. PICK h : IsRun(how, h, acc, pool, n) /\ Offers(acc, pool, skip, limit) = h[1 .. n]
  BY <1>1, FoldOfOffers
<1> HIDE DEF how
<1>3. /\ h[{}] = acc
      /\ \A I \in SUBSET (1 .. n) : I # {} =>
           Max(I) \in 1 .. n /\ h[I] = Step(how, h[I \ {Max(I)}], pool[Max(I)])
  BY <1>1, <1>2, RunSteps
<1> DEFINE Over(I) == PassedOver(s, P, acc, h[I], pool, I, skip, limit)
           G == {I \in SUBSET (1 .. n) : Over(I)}
<1>4. \A b : Built(s, P, b) => Len(b.chosen) \in Nat
  BY DEF Built, Choice
<1>5. {} \in G
  BY <1>3, <1>4 DEF PassedOver
<1>6. ASSUME NEW I \in SUBSET (1 .. n), I # {}, I \ {Max(I)} \in G
      PROVE  I \in G
  <2> DEFINE a == h[I \ {Max(I)}]
             t == pool[Max(I)]
             J == I \ {Max(I)}
  <2>1. h[I] = Offer(a, t, skip, limit) /\ Max(I) \in 1 .. n /\ t \in ToSet(pool)
    BY <1>1, <1>3, <1>6 DEF Step, Offering, how
  <2>2. PassedOver(s, P, acc, a, pool, J, skip, limit)
    BY <1>6
  <2>3. \A i \in I : i \in J \/ pool[i] = t
    OBVIOUS
  <2> HIDE DEF a, t, J
  <2>4. /\ Built(s, P, h[I]) /\ Picked(h[I], pool)
        /\ (Len(h[I].chosen) = Len(a.chosen) + 1) \/ (h[I] = a /\ Stuck(a, t, skip, limit))
    BY <2>1, <2>2, OfferTaken DEF PassedOver
  <2>5. Len(a.chosen) \in Nat /\ Len(h[I].chosen) \in Nat /\ Len(acc.chosen) \in Nat
    BY <1>4, <2>2, <2>4 DEF PassedOver
  <2>6. Len(h[I].chosen) >= Len(acc.chosen)
    BY <2>2, <2>4, <2>5 DEF PassedOver
  <2>7. Len(h[I].chosen) = Len(acc.chosen) => h[I] = acc /\ \A i \in I : Stuck(acc, pool[i], skip, limit)
    <3> HAVE Len(h[I].chosen) = Len(acc.chosen)
    <3>1. Len(a.chosen) >= Len(acc.chosen)
      BY <2>2 DEF PassedOver
    <3>2. h[I] = a /\ Stuck(a, t, skip, limit)
      BY <2>4, <2>5, <3>1
    <3>3. a = acc /\ \A i \in J : Stuck(acc, pool[i], skip, limit)
      BY <2>2, <3>2 DEF PassedOver
    <3> QED
      BY <2>3, <3>2, <3>3
  <2> QED
    BY <2>4, <2>6, <2>7 DEF PassedOver
<1>7. \A I \in SUBSET (1 .. n) : I # {} /\ I \ {Max(I)} \in G => I \in G
  BY <1>6
<1> HIDE DEF G
<1>8. 1 .. n \in G
  BY <1>1, <1>5, <1>7, Preserved
<1> QED
  BY <1>2, <1>8 DEF G, n

\* What k passes over a pool have reached: they have stopped for good, or taken k and more.
Exhausted(acc, pool, skip, limit) == \A i \in 1 .. Len(pool) : Stuck(acc, pool[i], skip, limit)
Reached(s, P, acc, pool, k, skip, limit) ==
  /\ Built(s, P, acc) /\ Picked(acc, pool)
  /\ acc.done \in BOOLEAN
  /\ IF acc.done THEN Exhausted(acc, pool, skip, limit) ELSE Len(acc.chosen) >= k

LEMMA PassReaches ==
  ASSUME NEW s, NEW P, Calm(s, P), NEW acc, NEW pool \in Seq(P), NEW k \in Nat, NEW skip, NEW limit,
         Reached(s, P, acc, pool, k, skip, limit)
  PROVE  Reached(s, P, Pass(acc, pool, skip, limit), pool, k + 1, skip, limit)
<1> DEFINE next == Offers(acc, pool, skip, limit)
           r == Pass(acc, pool, skip, limit)
<1>1. Built(s, P, acc) /\ Picked(acc, pool) /\ acc.done \in BOOLEAN
  BY DEF Reached
<1>2. r = IF acc.done THEN acc ELSE [next EXCEPT !.done = next.chosen = acc.chosen]
  BY DEF Pass, Offers
<1>3. PassedOver(s, P, acc, next, pool, 1 .. Len(pool), skip, limit)
  BY <1>1, PassTakes
<1>4. CASE acc.done
  <2>1. r = acc
    BY <1>2, <1>4
  <2> HIDE DEF r
  <2> QED
    BY <1>4, <2>1 DEF Reached, r
<1>5. CASE ~ acc.done
  <2> SUFFICES Reached(s, P, r, pool, k + 1, skip, limit)
    OBVIOUS
  <2> HIDE DEF next, r
  <2>1. next = [s |-> next.s, chosen |-> next.chosen, done |-> next.done] /\ next.chosen \in Seq(P)
    BY <1>3 DEF PassedOver, Built, Choice
  <2>2. r = [s |-> next.s, chosen |-> next.chosen, done |-> next.chosen = acc.chosen]
    BY <1>2, <1>5, <2>1
  <2>3. r.s = next.s /\ r.chosen = next.chosen /\ r.done = (next.chosen = acc.chosen)
    BY <2>2
  <2>4. Built(s, P, r) /\ Picked(r, pool)
    BY <1>3, <2>1, <2>2, <2>3 DEF PassedOver, Built, Choice, Picked
  <2>5. r.done => Exhausted(r, pool, skip, limit)
    <3> HAVE r.done
    <3>1. next = acc /\ \A i \in 1 .. Len(pool) : Stuck(acc, pool[i], skip, limit)
      BY <1>3, <2>3 DEF PassedOver
    <3> QED
      BY <2>3, <3>1 DEF Exhausted, Stuck
  <2>6. ~ r.done => Len(r.chosen) >= k + 1
    <3> HAVE ~ r.done
    <3>1. next.chosen # acc.chosen /\ Len(acc.chosen) >= k
      BY <1>5, <2>3 DEF Reached
    <3>2. Len(next.chosen) >= Len(acc.chosen) /\ Len(next.chosen) # Len(acc.chosen)
      BY <1>3, <3>1 DEF PassedOver
    <3>3. Len(next.chosen) \in Nat /\ Len(acc.chosen) \in Nat
      BY <1>1, <2>1 DEF Built, Choice
    <3> QED
      BY <2>3, <3>1, <3>2, <3>3
  <2>7. r.done \in BOOLEAN
    BY <2>3
  <2> QED
    BY <2>4, <2>5, <2>6, <2>7 DEF Reached
<1> QED
  BY <1>4, <1>5

\* As long as what it is taken from, at most; shorter, if something is not taken.
LEMMA PickedFew ==
  ASSUME NEW S, NEW q \in Seq(S), NEW p \in Seq(S), IsInjective(q), ToSet(q) \subseteq ToSet(p)
  PROVE  /\ Len(q) <= Len(p)
         /\ \A t \in ToSet(p) \ ToSet(q) : Len(q) < Len(p)
<1> DEFINE n == Len(q)
           m == Len(p)
           f == [i \in 1 .. n |-> CHOOSE j \in 1 .. m : p[j] = q[i]]
<1>1. /\ n \in Nat /\ m \in Nat /\ DOMAIN q = 1 .. n /\ DOMAIN p = 1 .. m
      /\ \A i, j \in 1 .. n : q[i] = q[j] => i = j
  BY DEF IsInjective
<1>2. \A i \in 1 .. n : \E j \in 1 .. m : p[j] = q[i]
  BY <1>1 DEF ToSet
<1>3. \A i \in 1 .. n : f[i] \in 1 .. m /\ p[f[i]] = q[i]
  BY <1>2
<1>4. \A i, j \in 1 .. n : f[i] = f[j] => i = j
  BY <1>1, <1>3
<1>5. f = [i \in 1 .. n |-> f[i]]
  OBVIOUS
<1> HIDE DEF f, n, m
<1>6. /\ IsFiniteSet(1 .. m) /\ Cardinality(1 .. m) = m
      /\ IsFiniteSet(1 .. n) /\ Cardinality(1 .. n) = n
  <2>1. \A k \in Nat : IsFiniteSet(1 .. k) /\ Cardinality(1 .. k) = IF 1 > k THEN 0 ELSE k - 1 + 1
    BY FS_Interval
  <2>2. \A k \in Nat : (IF 1 > k THEN 0 ELSE k - 1 + 1) = k
    OBVIOUS
  <2> QED
    BY <1>1, <2>1, <2>2
<1>7. ASSUME NEW T \in SUBSET (1 .. m), \A i \in 1 .. n : f[i] \in T
      PROVE  n <= Cardinality(T)
  <2>1. f \in Injection(1 .. n, T)
    BY <1>4, <1>5, <1>7 DEF Injection, IsInjective
  <2>2. IsFiniteSet(T)
    BY <1>6, FS_Subset
  <2> QED
    BY <1>6, <2>1, <2>2, FS_Injection
<1>8. n <= m
  BY <1>3, <1>6, <1>7
<1>9. ASSUME NEW t \in ToSet(p) \ ToSet(q)
      PROVE  n < m
  <2>1. PICK j \in 1 .. m : p[j] = t
    BY <1>1 DEF ToSet
  <2>2. \A i \in 1 .. n : f[i] # j
    BY <1>1, <1>3, <2>1 DEF ToSet
  <2>3. n <= Cardinality((1 .. m) \ {j})
    BY <1>3, <1>7, <2>2
  <2>4. Cardinality((1 .. m) \ {j}) = m - 1
    BY <1>6, FS_RemoveElement
  <2> QED
    BY <1>1, <2>3, <2>4
<1> QED
  BY <1>8, <1>9 DEF n, m

\* The passes over a pool go on until nothing of it can be taken any more.
LEMMA ChosenExhausts ==
  ASSUME NEW s, NEW P, Calm(s, P), NEW pool \in Seq(P), NEW skip, NEW limit
  PROVE  LET acc == Chosen(s, pool, skip, limit) IN
         Built(s, P, acc) /\ Picked(acc, pool) /\ Exhausted(acc, pool, skip, limit)
<1> DEFINE n == Len(pool) + 1
           start == [s |-> s, chosen |-> <<>>, done |-> FALSE]
           q == [k \in 1 .. n |-> k]
<1>1. n \in Nat /\ DOMAIN q = 1 .. n /\ Len(pool) \in Nat
  OBVIOUS
<1>2. Chosen(s, pool, skip, limit) = Repeated(start, q, pool, skip, limit)
  BY DEF Chosen, Repeated, Passes
<1>3. Reached(s, P, start, pool, 0, skip, limit)
  <2>1. Choice(start, P)
    BY DEF Choice
  <2>2. DOMAIN <<>> = 1 .. 0 /\ 0 \in Nat
    OBVIOUS
  <2>3. PICK h : IsRun([of |-> "apply"], h, s, <<>>, 0) /\ FoldLeft(After, s, <<>>) = h[1 .. 0]
    BY <2>2, FoldOfApply
  <2>4. h[1 .. 0] = s
    BY <2>3 DEF IsRun
  <2>5. Runs(s, <<>>)
    BY DEF Runs
  <2>6. Built(s, P, start)
    BY <2>1, <2>3, <2>4, <2>5 DEF Built, Calm, SentFrom, Arriving
  <2>7. Picked(start, pool)
    BY DEF Picked, IsInjective, ToSet
  <2> QED
    BY <2>6, <2>7 DEF Reached
<1> HIDE DEF start, q
<1>4. PICK h : /\ IsRun(Passing(pool, skip, limit), h, start, q, n)
               /\ Chosen(s, pool, skip, limit) = h[1 .. n]
  BY <1>1, <1>2, FoldOfPasses
<1> DEFINE how == Passing(pool, skip, limit)
<1>5. h = [J \in SUBSET (1 .. n) |-> IF J = {} THEN start ELSE Step(how, h[J \ {Max(J)}], q[Max(J)])]
  BY <1>4 DEF IsRun
<1>6. ASSUME NEW i \in 1 .. n
      PROVE  h[1 .. i] = Pass(h[1 .. i - 1], pool, skip, limit)
  <2>1. i \in Nat /\ 1 .. i # {} /\ 1 .. i \in SUBSET (1 .. i) /\ 1 .. i \in SUBSET (1 .. n)
    <3>1. i \in 1 .. i /\ i \in Nat
      BY <1>1
    <3>2. \A j \in 1 .. i : j \in 1 .. n
      BY <1>1
    <3> QED
      BY <3>1, <3>2
  <2>2. Max(1 .. i) = i /\ (1 .. i) \ {Max(1 .. i)} = 1 .. i - 1
    BY <2>1, WithoutLast
  <2> HIDE DEF how, n
  <2>3. h[1 .. i] = Step(how, h[1 .. i - 1], q[i])
    BY <1>5, <2>1, <2>2
  <2> QED
    BY <2>3 DEF Step, how, Passing
<1> DEFINE Good(i) == Reached(s, P, h[1 .. i], pool, i, skip, limit)
           B == {i \in Nat : i <= n /\ ~ Good(i)}
<1>7. B = {}
  <2> SUFFICES ASSUME B # {}
               PROVE  FALSE
    OBVIOUS
  <2>1. PICK i \in B : \A j \in B : i <= j
    BY LeastNat
  <2>2. i # 0
    <3>1. h[1 .. 0] = start
      BY <1>5
    <3> QED
      BY <1>3, <2>1, <3>1
  <2>3. i \in 1 .. n /\ i - 1 \in Nat /\ i - 1 <= n /\ i - 1 \notin B
    BY <2>1, <2>2
  <2>4. Good(i - 1)
    BY <2>3
  <2> DEFINE u == h[1 .. i - 1]
             r == h[1 .. i]
  <2>5. r = Pass(u, pool, skip, limit)
    BY <1>6, <2>3
  <2>6. Reached(s, P, u, pool, i - 1, skip, limit)
    BY <2>4
  <2> HIDE DEF u, r
  <2>7. Reached(s, P, r, pool, (i - 1) + 1, skip, limit)
    BY <2>3, <2>5, <2>6, PassReaches
  <2>8. Good(i)
    BY <2>3, <2>7 DEF r
  <2> QED
    BY <2>1, <2>8
<1> DEFINE acc == h[1 .. n]
<1>8. Reached(s, P, acc, pool, n, skip, limit)
  BY <1>1, <1>7
<1> HIDE DEF acc, B
<1>9. acc.chosen \in Seq(P) /\ Picked(acc, pool)
  BY <1>8 DEF Reached, Built, Choice
<1>10. Len(acc.chosen) <= Len(pool) /\ Len(acc.chosen) \in Nat
  BY <1>9, PickedFew DEF Picked
<1>11. acc.done
  BY <1>1, <1>8, <1>10 DEF Reached
<1> QED
  BY <1>4, <1>8, <1>11 DEF Reached, acc

LEMMA WaitsAnew ==
  ASSUME NEW s, Sound(s)
  PROVE  /\ Sound(NoQuota(s)) /\ NoQuota(s).cap = 0 /\ NoQuota(s).count = Zero
         /\ NoQuota(s).nonce = s.nonce /\ NoQuota(s).known = s.known /\ NoQuota(s).inbox = s.inbox
<1> DEFINE u == NewHeight(s)
           r == NoQuota(s)
<1>1. Sound(u) /\ u.count = Zero /\ u.nonce = s.nonce /\ u.known = s.known /\ u.inbox = s.inbox
  BY FreshHeight DEF NewHeight, Sound, State
<1>2. r = [u EXCEPT !.cap = 0]
  BY DEF NoQuota
<1> SUFFICES Sound(r) /\ r.cap = 0 /\ r.count = Zero /\ r.nonce = u.nonce /\ r.known = u.known /\ r.inbox = u.inbox
  BY <1>1
<1> HIDE DEF u, r
<1>3. /\ r \in State /\ r.cap = 0 /\ r.count = u.count /\ r.nonce = u.nonce /\ r.known = u.known
      /\ r.inbox = u.inbox
  BY <1>1, <1>2 DEF Sound, State
<1> QED
  BY <1>1, <1>3 DEF Sound, Filed

\* A transaction that is only refused for its number.
LEMMA OnlyQuota ==
  ASSUME NEW s, Sound(s), NEW t \in Tx, ~ Valid(s, t), Valid(NoQuota(s), t)
  PROVE  s.cap # 0 /\ t.sender \notin Exempt /\ s.count[t.sender] >= s.cap
<1> DEFINE r == NoQuota(s)
<1>1. /\ r.known = s.known /\ r.nonce = s.nonce /\ r.balance = s.balance /\ r.hidden = s.hidden
      /\ r.inbox = s.inbox
  BY DEF NoQuota, NewHeight, Sound, State
<1>2. s.cap \in Nat /\ s.count[t.sender] \in Nat
  BY DEF Sound, State, Amounts, Tx
<1> HIDE DEF r
<1>3. Admissible(r, t) = Admissible(s, t)
  <2>1. CanPay(r, t) = CanPay(s, t)
    BY <1>1 DEF CanPay
  <2>2. Provable(r, t) = Provable(s, t) /\ Room(r, t) = Room(s, t) /\ Claimed(r, t) = Claimed(s, t)
    BY <1>1 DEF Provable, Room, Claimed
  <2> QED
    BY <1>1, <2>1, <2>2 DEF Admissible
<1>4. ~ WithinQuota(s, t)
  BY <1>1, <1>3 DEF Valid, r
<1> QED
  BY <1>2, <1>4 DEF WithinQuota

\* How many of the first k transactions are somebody's.
Own(q, a, k) == {j \in 1 .. k : q[j].sender = a}

LEMMA OwnGrows ==
  ASSUME NEW q, NEW a, NEW k \in Nat
  PROVE  /\ IsFiniteSet(Own(q, a, k)) /\ Cardinality(Own(q, a, k)) \in Nat
         /\ Cardinality(Own(q, a, k + 1)) = Cardinality(Own(q, a, k)) + (IF q[k + 1].sender = a THEN 1 ELSE 0)
<1>1. IsFiniteSet(1 .. k)
  BY FS_Interval
<1>2. IsFiniteSet(Own(q, a, k))
  BY <1>1, FS_Subset DEF Own
<1>3. \A j \in 1 .. k + 1 : j \in 1 .. k \/ j = k + 1
  OBVIOUS
<1>4. k + 1 \notin 1 .. k /\ k + 1 \in 1 .. k + 1 /\ \A j \in 1 .. k : j \in 1 .. k + 1
  OBVIOUS
<1>5. Own(q, a, k + 1) = IF q[k + 1].sender = a THEN Own(q, a, k) \cup {k + 1} ELSE Own(q, a, k)
  BY <1>3, <1>4 DEF Own
<1>6. k + 1 \notin Own(q, a, k)
  BY <1>4 DEF Own
<1>7. Cardinality(Own(q, a, k)) \in Nat
  BY <1>2, FS_CardinalityType
<1>8. Cardinality(Own(q, a, k) \cup {k + 1}) = Cardinality(Own(q, a, k)) + 1
  BY <1>2, <1>6, FS_AddElement
<1> QED
  BY <1>2, <1>5, <1>7, <1>8

\* What a transaction does to the quota and the counts.
LEMMA TrialStep ==
  ASSUME NEW s, Sound(s), NEW t \in Tx, Valid(s, t)
  PROVE  LET r == After(s, t) IN
         /\ (t.kind = "policy" /\ r.cap = t.amount) \/ r.cap = s.cap
         /\ r.count = s.count \/ r.count = [s.count EXCEPT ![t.sender] = @ + 1]
<1> DEFINE w == Handled(s, t)
           r == After(s, t)
<1>1. s \in State /\ t.kind \in Kinds
  BY DEF Sound, Tx
<1>2. w \in State
  BY HandledSettles DEF Settled
<1>3. w.count = s.count /\ ((t.kind = "policy" /\ w.cap = t.amount) \/ w.cap = s.cap)
  <2>1. CASE t.kind = "register"
    BY <1>1, <2>1 DEF Handled, State
  <2>2. CASE t.kind = "pay"
    BY <1>1, <2>2 DEF Handled, State
  <2>3. CASE t.kind = "shield"
    BY <1>1, <2>3 DEF Handled, State
  <2>4. CASE t.kind = "unshield"
    BY <1>1, <2>4 DEF Handled, State
  <2>5. CASE t.kind = "confidential"
    BY <1>1, <2>5 DEF Handled, State
  <2>6. CASE t.kind \in {"accept", "refuse"}
    <3> DEFINE e == CHOOSE e \in Claimed(s, t) : TRUE
               to == IF t.kind = "accept" THEN t.sender ELSE Refunded(t)
    <3>1. w = [s EXCEPT !.inbox[t.sender] = Popped(@, e), !.hidden[to] = @ + e.amount]
      BY <2>6 DEF Handled
    <3> HIDE DEF e, to, w
    <3> QED
      BY <1>1, <3>1 DEF State
  <2>7. CASE t.kind = "policy"
    BY <1>1, <2>7 DEF Handled, State
  <2> QED
    BY <1>1, <2>1, <2>2, <2>3, <2>4, <2>5, <2>6, <2>7 DEF Kinds
<1>4. r = [w EXCEPT !.nonce[t.sender] = @ + 1, !.count[t.sender] = IF w.cap = 0 THEN @ ELSE @ + 1]
  BY DEF After
<1> HIDE DEF w, r
<1>5. r.cap = w.cap /\ r.count = [w.count EXCEPT ![t.sender] = IF w.cap = 0 THEN @ ELSE @ + 1]
  BY <1>2, <1>4 DEF State
<1>6. w.cap = 0 => r.count = w.count
  BY <1>2, <1>5 DEF State, Amounts
<1>7. w.cap # 0 => r.count = [w.count EXCEPT ![t.sender] = @ + 1]
  BY <1>5
<1> QED
  BY <1>3, <1>5, <1>6, <1>7 DEF r

\* In a trial without a quota, the quota is one that was voted in it, and nobody counts
\* for more than the transactions that were tried.
LEMMA TrialQuota ==
  ASSUME NEW s, Sound(s), s.cap = 0, s.count = Zero, NEW q \in Seq(Tx), Runs(s, q)
  PROVE  LET r == FoldLeft(After, s, q) IN
         /\ r.cap # 0 => \E i \in 1 .. Len(q) : q[i].kind = "policy" /\ q[i].amount = r.cap
         /\ \A a \in Accounts : r.count[a] <= Cardinality(Own(q, a, Len(q)))
<1>1. PICK h : Through(h, s, q)
  BY BlockRun
<1>2. /\ h[1 .. 0] = s /\ FoldLeft(After, s, q) = h[1 .. Len(q)]
      /\ \A i \in 1 .. Len(q) : /\ q[i] \in Tx /\ Valid(h[1 .. i - 1], q[i])
                                /\ h[1 .. i] = After(h[1 .. i - 1], q[i])
  BY <1>1 DEF Through
<1> DEFINE Voter(r, k) == r.cap # 0 => \E j \in 1 .. k : q[j].kind = "policy" /\ q[j].amount = r.cap
           Count(r, k) == \A a \in Accounts : r.count[a] <= Cardinality(Own(q, a, k))
           Good(i) == Sound(h[1 .. i]) /\ Voter(h[1 .. i], i) /\ Count(h[1 .. i], i)
           B == {i \in Nat : i <= Len(q) /\ ~ Good(i)}
<1>3. Good(0)
  <2>1. Sound(h[1 .. 0]) /\ Voter(h[1 .. 0], 0)
    BY <1>2
  <2>2. \A a \in Accounts : Cardinality(Own(q, a, 0)) \in Nat /\ s.count[a] = 0
    BY OwnGrows DEF Zero
  <2> QED
    BY <1>2, <2>1, <2>2
<1>4. B = {}
  <2> SUFFICES ASSUME B # {}
               PROVE  FALSE
    OBVIOUS
  <2>1. PICK i \in B : \A j \in B : i <= j
    BY LeastNat
  <2>2. i # 0
    BY <1>3, <2>1
  <2>3. i \in 1 .. Len(q) /\ i - 1 \in Nat /\ i - 1 <= Len(q) /\ i - 1 \notin B /\ (i - 1) + 1 = i
    BY <2>1, <2>2
  <2>4. Good(i - 1)
    BY <2>3
  <2> DEFINE u == h[1 .. i - 1]
             r == h[1 .. i]
             t == q[i]
  <2>5. t \in Tx /\ Valid(u, t) /\ r = After(u, t)
    BY <1>2, <2>3
  <2>6. Sound(u) /\ Voter(u, i - 1) /\ Count(u, i - 1)
    BY <2>4
  <2>7. \A j \in 1 .. i - 1 : j \in 1 .. i
    BY <2>3
  <2> HIDE DEF u, r, Voter, Count
  <2>8. Sound(r)
    BY <2>5, <2>6, ApplyConserves
  <2>9. /\ (t.kind = "policy" /\ r.cap = t.amount) \/ r.cap = u.cap
        /\ r.count = u.count \/ r.count = [u.count EXCEPT ![t.sender] = @ + 1]
    <3> HIDE DEF t
    <3> QED
      BY <2>5, <2>6, TrialStep
  <2>10. Voter(r, i)
    BY <2>3, <2>6, <2>7, <2>9 DEF Voter
  <2>11. Count(r, i)
    <3> SUFFICES ASSUME NEW a \in Accounts
                 PROVE  r.count[a] <= Cardinality(Own(q, a, i))
      BY DEF Count
    <3>1. u.count \in [Accounts -> Nat] /\ t.sender \in Accounts
      BY <2>5, <2>6 DEF Sound, State, Amounts, Tx
    <3>2. u.count[a] <= Cardinality(Own(q, a, i - 1))
      BY <2>6 DEF Count
    <3>3. /\ Cardinality(Own(q, a, i - 1)) \in Nat
          /\ Cardinality(Own(q, a, i)) = Cardinality(Own(q, a, i - 1)) + (IF t.sender = a THEN 1 ELSE 0)
      <4> DEFINE k == i - 1
      <4>1. k \in Nat /\ k + 1 = i
        BY <2>3
      <4> HIDE DEF k
      <4>2. /\ Cardinality(Own(q, a, k)) \in Nat
            /\ Cardinality(Own(q, a, k + 1)) = Cardinality(Own(q, a, k)) + (IF q[k + 1].sender = a THEN 1 ELSE 0)
        BY <4>1, OwnGrows
      <4>3. /\ Cardinality(Own(q, a, k)) \in Nat
            /\ Cardinality(Own(q, a, i)) = Cardinality(Own(q, a, k)) + (IF t.sender = a THEN 1 ELSE 0)
        BY <4>1, <4>2
      <4> QED
        BY <4>3 DEF k
    <3> QED
      BY <2>9, <3>1, <3>2, <3>3
  <2>12. Good(i)
    BY <2>8, <2>10, <2>11 DEF r
  <2> QED
    BY <2>1, <2>12
<1>5. Good(Len(q))
  BY <1>4
<1> QED
  BY <1>2, <1>5

LEMMA AppendSet ==
  ASSUME NEW S, NEW q \in Seq(S), NEW t \in S
  PROVE  ToSet(Append(q, t)) = ToSet(q) \cup {t} /\ Append(q, t) \in Seq(S)
<1> DEFINE n == Len(q)
           r == Append(q, t)
<1>1. /\ n \in Nat /\ DOMAIN q = 1 .. n /\ DOMAIN r = 1 .. n + 1
      /\ r[n + 1] = t /\ \A i \in 1 .. n : r[i] = q[i]
  OBVIOUS
<1>2. r \in Seq(S)
  OBVIOUS
<1> HIDE DEF n, r
<1>3. \A i \in 1 .. n + 1 : i \in 1 .. n \/ i = n + 1
  BY <1>1
<1>4. n + 1 \in 1 .. n + 1 /\ \A i \in 1 .. n : i \in 1 .. n + 1
  BY <1>1
<1> QED
  BY <1>1, <1>2, <1>3, <1>4 DEF ToSet, n, r

LEMMA SeqWidened ==
  ASSUME NEW S, NEW T, S \subseteq T, NEW q \in Seq(S)
  PROVE  q \in Seq(T) /\ Len(q) \in Nat /\ DOMAIN q = 1 .. Len(q)
OBVIOUS

LEMMA SeqIsFunction ==
  ASSUME NEW S, NEW q \in Seq(S), NEW T, \A i \in 1 .. Len(q) : q[i] \in T
  PROVE  q \in [1 .. Len(q) -> T]
OBVIOUS

\* Different indices with values in a set are no more than its elements.
LEMMA FewIndices ==
  ASSUME NEW I, NEW q, NEW T, IsFiniteSet(T), \A i \in I : q[i] \in T,
         \A i, j \in I : q[i] = q[j] => i = j
  PROVE  IsFiniteSet(I) /\ Cardinality(I) <= Cardinality(T)
<1> DEFINE f == [i \in I |-> q[i]]
<1>1. f \in [I -> T] /\ \A i, j \in I : f[i] = f[j] => i = j
  OBVIOUS
<1> HIDE DEF f
<1>2. f \in Injection(I, T)
  BY <1>1 DEF Injection, IsInjective
<1> QED
  BY <1>2, FS_Injection

\* Filtering keeps what it is asked to keep.
LEMMA OnlyExact ==
  ASSUME NEW S, NEW q \in Seq(S), NEW keep
  PROVE  ToSet(Only(q, keep)) = ToSet(q) \cap keep
<1> DEFINE n == Len(q)
<1>1. n \in Nat /\ DOMAIN q = 1 .. n /\ \A i \in 1 .. n : q[i] \in S
  OBVIOUS
<1> HIDE DEF n
<1> DEFINE how == Leaving(keep)
<1>2. PICK h : IsRun(how, h, <<>>, q, n) /\ Only(q, keep) = h[1 .. n]
  BY <1>1, FoldOfOnly
<1> HIDE DEF how
<1>3. /\ h[{}] = <<>>
      /\ \A I \in SUBSET (1 .. n) : I # {} =>
           Max(I) \in 1 .. n /\ h[I] = Step(how, h[I \ {Max(I)}], q[Max(I)])
  <2>1. \A I \in SUBSET (1 .. n) : I # {} => Max(I) \in 1 .. n
    BY <1>1, WithoutLast
  <2>2. h = [I \in SUBSET (1 .. n) |-> IF I = {} THEN <<>> ELSE Step(how, h[I \ {Max(I)}], q[Max(I)])]
    BY <1>2 DEF IsRun
  <2> QED
    BY <2>1, <2>2
<1> DEFINE G == {I \in SUBSET (1 .. n) : h[I] \in Seq(S) /\ ToSet(h[I]) = Values(q, I) \cap keep}
<1>4. {} \in G
  <2>1. <<>> \in Seq(S) /\ ToSet(<<>>) = {} /\ Values(q, {}) = {}
    BY DEF ToSet, Values
  <2> QED
    BY <1>3, <2>1
<1>5. ASSUME NEW I \in SUBSET (1 .. n), I # {}, I \ {Max(I)} \in G
      PROVE  I \in G
  <2> DEFINE m == Max(I)
             a == h[I \ {m}]
  <2>1. h[I] = (IF q[m] \in keep THEN Append(a, q[m]) ELSE a) /\ m \in 1 .. n /\ m \in I
    <3>1. m \in I
      BY <1>1, <1>5, LastIndex
    <3> QED
      BY <1>3, <1>5, <3>1 DEF Step, Leaving, how
  <2>2. a \in Seq(S) /\ ToSet(a) = Values(q, I \ {m}) \cap keep /\ q[m] \in S
    BY <1>1, <1>5, <2>1
  <2>3. Values(q, I) = Values(q, I \ {m}) \cup {q[m]}
    <3> HIDE DEF m
    <3> QED
      BY <2>1 DEF Values
  <2> HIDE DEF a, m
  <2>4. ToSet(Append(a, q[m])) = ToSet(a) \cup {q[m]} /\ Append(a, q[m]) \in Seq(S)
    BY <2>2, AppendSet
  <2>5. h[I] \in Seq(S)
    BY <2>1, <2>2, <2>4
  <2>6. ToSet(h[I]) = Values(q, I) \cap keep
    BY <2>1, <2>2, <2>3, <2>4
  <2> QED
    BY <2>5, <2>6
<1>6. \A I \in SUBSET (1 .. n) : I # {} /\ I \ {Max(I)} \in G => I \in G
  BY <1>5
<1> HIDE DEF G
<1>7. 1 .. n \in G
  BY <1>1, <1>4, <1>6, Preserved
<1>8. Values(q, 1 .. n) = ToSet(q)
  BY <1>1 DEF Values, ToSet
<1> QED
  BY <1>2, <1>7, <1>8 DEF G

\* A transaction that the trial of a commit does not take: the trial says why.
LEMMA DeadOrRationed ==
  ASSUME load \in Loads, NEW s, Sound(s), NEW pool \in Seq(load.txs), NEW left \in Seq(load.txs),
         ~ Crowded(s, ToSet(pool)), ToSet(left) \subseteq ToSet(pool), \A u \in ToSet(pool) \ ToSet(left) : Spent(s, u),
         NEW t \in ToSet(left), t \notin ToSet(Chosen(NoQuota(s), left, {}, Len(left)).chosen)
  PROVE  Rationed(s, ToSet(pool)) \/ Dead(NoQuota(s), ToSet(pool), t)
<1> DEFINE r == NoQuota(s)
           acc == Chosen(r, left, {}, Len(left))
           q == acc.chosen
           e == FoldLeft(After, r, q)
           P == ToSet(pool)
<1>1. /\ Sound(r) /\ r.cap = 0 /\ r.count = Zero /\ r.nonce = s.nonce /\ r.known = s.known
      /\ r.inbox = s.inbox
  BY WaitsAnew
<1>2. /\ P \subseteq load.txs /\ load.txs \subseteq Tx /\ IsFiniteSet(P) /\ t \in P /\ t \in Tx
  <2>1. load.txs \subseteq Tx
    BY LedgerAssumption
  <2>2. P \subseteq load.txs /\ t \in P
    <3>1. \A i \in DOMAIN pool : pool[i] \in load.txs
      BY Member
    <3>2. P \subseteq load.txs
      BY <3>1 DEF ToSet
    <3> QED
      BY <3>2
  <2>3. IsFiniteSet(P)
    BY FiniteRange
  <2> HIDE DEF P
  <2> QED
    BY <2>1, <2>2, <2>3
<1> HIDE DEF r
<1>13. Calm(r, P)
  BY <1>1, CalmPool
<1>14. left \in Seq(P)
  <2>1. left \in Seq(ToSet(left))
    BY OwnValues
  <2> QED
    BY <2>1, SeqWidened
<1> HIDE DEF P
<1>3. Built(r, P, acc) /\ Picked(acc, left) /\ Exhausted(acc, left, {}, Len(left))
  BY <1>13, <1>14, ChosenExhausts
<1> USE DEF P
<1> HIDE DEF acc
<1>4. q \in Seq(P) /\ Runs(r, q) /\ acc.s = e /\ Sound(e) /\ IsInjective(q) /\ ToSet(q) \subseteq ToSet(left)
  BY <1>3 DEF Built, Choice, Picked
<1>5. t \notin ToSet(q)
  BY DEF acc, r
<1>6. Len(q) < Len(left)
  BY <1>4, <1>5, <1>14, PickedFew
<1>7. q \in Seq(Tx) /\ Len(q) \in Nat /\ Len(left) \in Nat /\ DOMAIN q = 1 .. Len(q)
  BY <1>2, <1>4, SeqWidened
<1>8. \A u \in ToSet(left) \ ToSet(q) : ~ Valid(e, u)
  <2> TAKE u \in ToSet(left) \ ToSet(q)
  <2>1. PICK i \in 1 .. Len(left) : left[i] = u
    BY DEF ToSet
  <2>2. Stuck(acc, u, {}, Len(left))
    BY <1>3, <2>1 DEF Exhausted
  <2> QED
    BY <1>4, <1>6, <1>7, <2>2 DEF Stuck
<1>9. \A u \in Tx : u \in ToSet(q) \/ Spent(s, u) => Spent(e, u)
  <2> TAKE u \in Tx
  <2> HAVE u \in ToSet(q) \/ Spent(s, u)
  <2>1. u \in ToSet(q) \/ Spent(r, u)
    BY <1>1 DEF Spent
  <2> QED
    BY <1>1, <1>4, <1>7, <2>1, BlockSpends
<1>10. \A u \in P : u \in ToSet(left) \ ToSet(q) \/ ~ Valid(NoQuota(e), u)
  <2> TAKE u \in P
  <2>1. u \in Tx /\ (u \in ToSet(left) \/ Spent(s, u))
    BY <1>2
  <2>2. CASE u \in ToSet(left) \ ToSet(q)
    BY <2>2
  <2>3. CASE u \in ToSet(q) \/ Spent(s, u)
    BY <1>4, <1>9, <2>1, <2>3, SpentIsOver
  <2> QED
    BY <2>1, <2>2, <2>3
<1> HIDE DEF q, e
<1>11. CASE \A u \in P : ~ Valid(NoQuota(e), u)
  <2>1. \A i \in 1 .. Len(q) : q[i] \in P \ {t}
    BY <1>4, <1>5, <1>7 DEF ToSet
  <2>2. q \in [1 .. Len(q) -> P \ {t}]
    BY <1>7, <2>1, SeqIsFunction
  <2>3. Len(q) \in 0 .. Cardinality(P)
    <3>1. \A i, j \in 1 .. Len(q) : q[i] = q[j] => i = j
      BY <1>4, <1>7 DEF IsInjective
    <3>2. Cardinality(1 .. Len(q)) <= Cardinality(P) /\ Cardinality(P) \in Nat
      BY <1>2, <2>1, <3>1, FewIndices, FS_CardinalityType
    <3>3. Cardinality(1 .. Len(q)) = Len(q)
      <4>1. \A k \in Nat : Cardinality(1 .. k) = IF 1 > k THEN 0 ELSE k - 1 + 1
        BY FS_Interval
      <4>2. \A k \in Nat : (IF 1 > k THEN 0 ELSE k - 1 + 1) = k
        OBVIOUS
      <4> QED
        BY <1>7, <4>1, <4>2
    <3> QED
      BY <1>7, <3>2, <3>3
  <2> QED
    BY <1>4, <1>11, <2>2, <2>3 DEF Dead, e, r
<1>12. ASSUME NEW u \in P, Valid(NoQuota(e), u)
       PROVE  Rationed(s, P)
  <2>1. u \in ToSet(left) \ ToSet(q) /\ u \in Tx
    BY <1>2, <1>10, <1>12
  <2>2. e.cap # 0 /\ u.sender \notin Exempt /\ e.count[u.sender] >= e.cap
    BY <1>4, <1>8, <1>12, <2>1, OnlyQuota
  <2>3. /\ e.cap # 0 => \E i \in 1 .. Len(q) : q[i].kind = "policy" /\ q[i].amount = e.cap
        /\ \A a \in Accounts : e.count[a] <= Cardinality(Own(q, a, Len(q)))
    BY <1>1, <1>4, <1>7, TrialQuota DEF e
  <2>4. PICK i \in 1 .. Len(q) : q[i].kind = "policy" /\ q[i].amount = e.cap
    BY <2>2, <2>3
  <2> DEFINE v == q[i]
             a == u.sender
             T == {x \in P : x.sender = a}
  <2>5. v \in P /\ v \in Tx
    BY <1>2, <1>4, <1>7 DEF ToSet
  <2>6. s.nonce[v.sender] <= v.nonce
    BY <1>1, <1>4, <1>7, <2>4, BlockNonces
  <2>7. a \in Accounts \ Exempt
    BY <2>1, <2>2 DEF Tx
  <2>8. /\ IsFiniteSet(T) /\ Cardinality(T) \in Nat /\ Cardinality(Own(q, a, Len(q))) \in Nat
        /\ Cardinality(Own(q, a, Len(q))) <= Cardinality(T) - 1
    <3>1. IsFiniteSet(T) /\ u \in T
      BY <1>2, FS_Subset
    <3>2. Cardinality(T) \in Nat /\ IsFiniteSet(T \ {u}) /\ Cardinality(T \ {u}) = Cardinality(T) - 1
      BY <3>1, FS_CardinalityType, FS_RemoveElement
    <3>3. IsFiniteSet(Own(q, a, Len(q))) /\ Cardinality(Own(q, a, Len(q))) \in Nat
      BY <1>7, OwnGrows
    <3>4. \A j \in Own(q, a, Len(q)) : q[j] \in T \ {u}
      BY <1>2, <1>4, <1>7, <2>1 DEF Own, ToSet
    <3>5. \A j, k \in Own(q, a, Len(q)) : q[j] = q[k] => j = k
      BY <1>4, <1>7 DEF Own, IsInjective
    <3> HIDE DEF T, a
    <3>6. Cardinality(Own(q, a, Len(q))) <= Cardinality(T \ {u})
      BY <3>2, <3>4, <3>5, FewIndices
    <3> QED
      BY <3>1, <3>2, <3>3, <3>6
  <2>9. e.cap \in Nat
    BY <1>4 DEF Sound, State
  <2>10. e.count[a] \in Nat /\ e.count[a] <= Cardinality(T) - 1
    BY <1>4, <2>3, <2>7, <2>8 DEF Sound, State, Amounts
  <2>11. v.amount \in 1 .. Cardinality(T) - 1
    <3> HIDE DEF T
    <3> QED
      BY <2>2, <2>4, <2>8, <2>9, <2>10
  <2>12. v.kind = "policy"
    BY <2>4
  <2> HIDE DEF v, a
  <2> QED
    BY <2>5, <2>6, <2>7, <2>11, <2>12 DEF Rationed
<1> QED
  BY <1>11, <1>12 DEF r

LEMMA DroppedStep ==
  ASSUME MoneyInv, [Next]_vars, NEW n \in Nodes, NEW t \in ToSet(mempool[n]) \ ToSet(mempool'[n])
  PROVE  \/ ledger'.nonce[t.sender] > t.nonce
         \/ Rationed(ledger', ToSet(mempool[n]))
         \/ Crowded(ledger', ToSet(mempool[n]))
         \/ Dead(NoQuota(ledger'), ToSet(mempool[n]), t)
<1>1. load \in Loads /\ Sound(ledger) /\ mempool \in [Nodes -> Seq(load.txs)]
  BY DEF MoneyInv, Pools
<1>2. CASE UNCHANGED vars
  BY <1>2 DEF vars
<1>3. ASSUME NEW m \in Nodes, NEW u \in load.txs, Receive(m, u)
      PROVE  FALSE
  <2>1. mempool' = [mempool EXCEPT ![m] = Append(@, u)] /\ mempool[m] \in Seq(load.txs)
    BY <1>1, <1>3 DEF Receive
  <2>2. ToSet(mempool[m]) \subseteq ToSet(Append(mempool[m], u))
    BY <2>1, <1>3, AppendSet
  <2> QED
    BY <1>1, <2>1, <2>2
<1>4. ASSUME NEW m \in Nodes, Produce(m)
      PROVE  \/ ledger'.nonce[t.sender] > t.nonce
             \/ Rationed(ledger', ToSet(mempool[n]))
             \/ Crowded(ledger', ToSet(mempool[n]))
             \/ Dead(NoQuota(ledger'), ToSet(mempool[n]), t)
  <2> DEFINE b == Block(m)
             q == b.txs
             s == NewHeight(ledger)
             next == Result(ledger, b)
             pool == mempool[n]
             left == Only(pool, ToSet(pool) \ ToSet(q))
             acc == Chosen(NoQuota(next), left, {}, Len(left))
  <2>1. Executable(ledger, b) /\ ledger' = next /\ mempool'[n] = Kept(next, pool, b)
    BY <1>4 DEF Produce
  <2>2. q \in Seq(load.txs) /\ q \in Seq(Tx) /\ load.txs \subseteq Tx
    BY <1>1, BlockTyped, LedgerAssumption DEF Pools
  <2>3. Sound(s)
    BY <1>1, FreshHeight
  <2>4. Runs(s, q) /\ next = FoldLeft(After, s, q)
    BY <2>1 DEF Executable, Result
  <2>5. pool \in Seq(load.txs)
    BY <1>1
  <2>6. mempool'[n] = Only(left, ToSet(acc.chosen))
    BY <2>1 DEF Kept
  <2> HIDE DEF b, q, s, next, pool
  <2>7. Sound(next)
    BY <2>2, <2>3, <2>4, BlockConserves
  <2>8. left \in Seq(load.txs) /\ ToSet(left) = ToSet(pool) \ ToSet(q)
    <3>1. ToSet(left) = ToSet(pool) \cap (ToSet(pool) \ ToSet(q))
      BY <2>5, OnlyExact
    <3> QED
      BY <2>5, <3>1, OnlyTyped
  <2> HIDE DEF left, acc
  <2>9. ToSet(mempool'[n]) = ToSet(left) \cap ToSet(acc.chosen)
    BY <2>6, <2>8, OnlyExact
  <2>10. \A u \in ToSet(pool) : u \in Tx
    BY <2>2, <2>5 DEF ToSet
  <2>11. \A u \in ToSet(pool) \ ToSet(left) : Spent(next, u)
    <3> TAKE u \in ToSet(pool) \ ToSet(left)
    <3>1. u \in Tx /\ u \in ToSet(q)
      BY <2>8, <2>10
    <3> QED
      BY <2>2, <2>3, <2>4, <3>1, BlockSpends
  <2>12. t \in ToSet(pool) /\ t \notin ToSet(mempool'[n])
    BY DEF pool
  <2>13. CASE t \notin ToSet(left)
    <3>1. Spent(next, t)
      BY <2>11, <2>12, <2>13
    <3>2. t \in Tx /\ next.nonce[t.sender] \in Nat
      BY <2>7, <2>10, <2>12 DEF Sound, State, Amounts, Tx
    <3>3. next.nonce[t.sender] > t.nonce
      BY <3>1, <3>2 DEF Spent, Tx
    <3> QED
      BY <2>1, <3>3
  <2>14. CASE t \in ToSet(left)
    <3>1. t \notin ToSet(acc.chosen)
      BY <2>9, <2>12, <2>14
    <3>2. ToSet(left) \subseteq ToSet(pool)
      BY <2>8
    <3>3. Crowded(next, ToSet(pool)) \/ Rationed(next, ToSet(pool)) \/ Dead(NoQuota(next), ToSet(pool), t)
      BY <1>1, <2>5, <2>7, <2>8, <2>11, <2>14, <3>1, <3>2, DeadOrRationed DEF acc
    <3> QED
      BY <2>1, <3>3 DEF pool
  <2> QED
    BY <2>13, <2>14
<1> QED
  BY <1>2, <1>3, <1>4 DEF Next

\* Node.commit: a mempool drops a transaction only when its nonce is used, or when what
\* waits with it can be executed to a point where nothing of it can follow, whatever the
\* order of the pool, its length and the quota; unless a waiting vote lowers that quota,
\* or the pool may overfill an inbox.
THEOREM DroppedAreDead == Spec => DroppedOnlyIfDead
<1>1. MoneyInv /\ [Next]_vars =>
        [\A n \in Nodes : \A t \in ToSet(mempool[n]) \ ToSet(mempool'[n]) :
           \/ ledger'.nonce[t.sender] > t.nonce
           \/ Rationed(ledger', ToSet(mempool[n]))
           \/ Crowded(ledger', ToSet(mempool[n]))
           \/ Dead(NoQuota(ledger'), ToSet(mempool[n]), t)]_vars
  BY DroppedStep
<1> QED
  BY <1>1, MoneyInit, MoneyStep, PTL DEF Spec, DroppedOnlyIfDead
=============================================================================
