------------------------------ MODULE Evidence ------------------------------
(***************************************************************************)
(* Evidence bundles (legal.py): the transactions of a contract and the key *)
(* changes of its parties, each with a proof that it is final, taken from  *)
(* a copy of the chain, and what somebody who only trusts a list of        *)
(* validators concludes from such a file, whoever assembled it.            *)
(***************************************************************************)
EXTENDS Readers, Merkle

CONSTANT
  Alien   \* items that do not belong in a bundle about this ledger: of another network,
          \* or not proven final

\* tx_proof: the block's header with its votes, which we take to be enough, and the path
\* to the transaction.
Item(block, height, n) ==
  [tx |-> block[n], height |-> height, ours |-> TRUE,
   final |-> Verified(block[n], Path(block, n), Root(block))]
ASSUME EvidenceAssumption ==
  \A i \in Alien : /\ i.tx \in Tx /\ i.height \in Nat
                   /\ {i.ours, i.final} \subseteq BOOLEAN /\ ~ (i.ours /\ i.final)

Relates(t) == t.kind \in {"create", "sign"}
KeyChange(t) == t.kind \in {"rotate", "recover"}

\* evidence_bundle: what the copy holds of the contract, and of the keys of its parties.
Held(c) ==
  FlattenSeq([h \in 1 .. c.height |->
    IF h <= c.base THEN <<>> ELSE [n \in DOMAIN c.blocks[h] |-> Item(c.blocks[h], h, n)]])
Followed(found, i) ==
  IF ~ KeyChange(i.tx) \/ i.tx.old \notin found.keys THEN found
  ELSE [keys |-> found.keys \cup {i.tx.to}, items |-> Append(found.items, i)]
Bundle(c) ==
  [items |-> {i \in ToSet(Held(c)) : Relates(i.tx)},
   changes |-> FoldLeft(Followed, [keys |-> Named, items |-> <<>>], Held(c)).items]
HasBundle(c) == \E i \in ToSet(Held(c)) : i.tx.kind = "create"

-----------------------------------------------------------------------------
(* verify_evidence_bundle.                                                  *)

Parsed(b) == {i \in b.items : i.ours /\ i.final}
Mutant_Proven(b) == SelectSeq(b.changes, LAMBDA i : i.final)
Proven(b) == SelectSeq(b.changes, LAMBDA i : i.ours /\ i.final /\ KeyChange(i.tx))
ByHeight(q) == FlattenSeq([h \in 1 .. case.blocks |-> SelectSeq(q, LAMBDA i : i.height = h)])

\* keys_of: every key this identity has held, and since when.
Took(history, i) ==
  IF i.tx.old # Last(history).key \/ \E n \in DOMAIN history : history[n].key = i.tx.to THEN history
  ELSE Append(history, [since |-> i.height, key |-> i.tx.to])
KeysOf(b, a) == FoldLeft(Took, <<[since |-> 0, key |-> a]>>, ByHeight(Proven(b)))
Mutant_HeldAt(history, key, height) ==
  \E n \in DOMAIN history : /\ history[n].key = key /\ history[n].since <= height
                            /\ n < Len(history) => height < history[n + 1].since
HeldAt(history, key, height) ==
  \E n \in DOMAIN history : /\ history[n].key = key /\ history[n].since <= height
                            /\ n < Len(history) => height <= history[n + 1].since

OneSigner(b) ==
  \E a, o \in Named : a # o /\ \E n \in DOMAIN KeysOf(b, a), m \in DOMAIN KeysOf(b, o) :
                                  KeysOf(b, a)[n].key = KeysOf(b, o)[m].key
Signers(b) == {a \in Named : \E i \in Parsed(b) : HeldAt(KeysOf(b, a), i.tx.by, i.height)}
SignedBy(b) == {Last(KeysOf(b, a)).key : a \in Signers(b)}
HasCreation(b) == \E i \in b.items : i.tx.kind = "create"
FullySigned(b) == HasCreation(b) /\ Signers(b) = Named /\ ~ OneSigner(b)

Sound(b) ==
  /\ Parsed(b) = b.items /\ Proven(b) = b.changes
  /\ \A i, k \in ToSet(b.changes) : i.tx.old = k.tx.old => i.tx.to = k.tx.to
  /\ HasCreation(b) /\ ~ OneSigner(b)

-----------------------------------------------------------------------------
\* A draft may name a key that its owner has already replaced.  Nobody can sign for it on the
\* ledger, but its successor may register the draft, which the bundle takes for a signature.
NamesReplacedKey ==
  \E h \in DOMAIN chain : \E n \in DOMAIN chain[h] :
    /\ chain[h][n].kind = "create"
    /\ Named \cap FoldLeft(After, StateAt(chain, h - 1), SubSeq(chain[h], 1, n)).replaced # {}

\* From any copy that still holds the creation, pruned or behind, the bundle verifies and says
\* of every party what the ledger says at that height, through rotations and recoveries, also
\* in the block of the signature.
Complete ==
  \A c \in RealCopies :
    HasBundle(c) =>
      LET b == Bundle(c)
          s == StateAt(c.blocks, c.height) IN
      /\ Sound(b) /\ SignedBy(b) = s.signed /\ (FullySigned(b) <=> InForce(s))

\* Whatever is left out of a bundle, reordered, or added from elsewhere, it is not reported as
\* signed by all unless the contract is in force (the audit's finding F03: key changes
\* borrowed from another network).
Proof ==
  LET whole == Bundle(Copy(chain, 0, Len(chain))) IN
  \A items \in SUBSET (whole.items \cup Alien) :
    \A changes \in SUBSET (ToSet(whole.changes) \cup Alien) :
      \A order \in SetToSeqs(changes) :
        FullySigned([items |-> items, changes |-> order]) => InForce(StateAt(chain, Len(chain)))

\* A bundle says what the ledger says, and nobody can make it say more, nor prove a
\* transaction that is not in the block; unless the contract names a key that had been
\* replaced when its successor registered it.
BundleFaithful ==
  /\ OnlyMembersProven /\ RootsDiffer
  /\ ~ NamesReplacedKey => Complete /\ Proof
=============================================================================
