------------------------------- MODULE Merkle -------------------------------
(***************************************************************************)
(* The tree of hashes over the transactions of a block, and the paths that *)
(* prove one of them to somebody who has the root only (crypto.py).  A hash *)
(* is the term it was computed from; leaves and inner nodes are hashed with *)
(* different prefixes.                                                      *)
(***************************************************************************)
EXTENDS Integers, SequencesExt, FiniteSetsExt

CONSTANT MaxLeaves  \* bound: the trees for which the paths are tried
ASSUME MerkleAssumption == MaxLeaves \in Nat

Leaf(x) == <<"leaf", x>>
Node(l, r) == <<"node", l, r>>

\* An unpaired node is promoted unchanged.
Mutant_Duplicated(level) ==
  [i \in 1 .. (Len(level) + 1) \div 2 |-> Node(level[2 * i - 1], level[IF 2 * i <= Len(level) THEN 2 * i ELSE 2 * i - 1])]
Paired(level) ==
  [i \in 1 .. (Len(level) + 1) \div 2 |->
     IF 2 * i <= Len(level) THEN Node(level[2 * i - 1], level[2 * i]) ELSE level[2 * i - 1]]
Levels(items) ==
  FoldLeft(LAMBDA levels, x : IF Len(Last(levels)) = 1 THEN levels ELSE Append(levels, Paired(Last(levels))),
           <<[i \in DOMAIN items |-> Leaf(items[i])]>>, items)
Root(items) == Last(Levels(items))[1]

\* The siblings from the leaf up, each with its side; places count from 0 here.
Sibling(n) == IF n % 2 = 0 THEN n + 1 ELSE n - 1
Beside(level, n) ==
  IF Sibling(n) >= Len(level) THEN <<>>
  ELSE <<<<IF Sibling(n) < n THEN "L" ELSE "R", level[Sibling(n) + 1]>>>>
Path(items, i) ==
  LET levels == Levels(items) IN
  FlattenSeq([k \in 1 .. Len(levels) - 1 |-> Beside(levels[k], (i - 1) \div 2 ^ (k - 1))])

Verified(x, path, root) ==
  root = FoldLeft(LAMBDA acc, p : IF p[1] = "L" THEN Node(p[2], acc) ELSE Node(acc, p[2]), Leaf(x), path)

-----------------------------------------------------------------------------
\* Of all the paths that can be put together from the nodes of a tree, none proves anything
\* but what is in the block, at its place, not even two hashes passed off as a transaction;
\* and no two lists have the same root (crypto.py: "Duplicating it ... permits the
\* CVE-2012-2459 mutation").
Items(n) == [i \in 1 .. n |-> <<i>>]
NodesOf(q) == UNION {ToSet(Levels(q)[k]) : k \in DOMAIN Levels(q)}
Forged(q) == {<<h[2], h[3]>> : h \in {x \in NodesOf(q) : Len(x) = 3}} \cup {<<0>>}
OnlyMembersProven ==
  \A n \in 1 .. MaxLeaves :
    LET q == Items(n)
        root == Root(q)
        honest == {<<q[i], Path(q, i)>> : i \in 1 .. n} IN
    \A path \in BoundedSeq({"L", "R"} \X NodesOf(q), Len(Levels(q)) - 1) :
      \A x \in ToSet(q) \cup Forged(q) : Verified(x, path, root) <=> <<x, path>> \in honest
Lists == UNION {[1 .. n -> {<<1>>, <<2>>}] : n \in 1 .. MaxLeaves}
RootsDiffer == Cardinality({Root(q) : q \in Lists}) = Cardinality(Lists)
=============================================================================
