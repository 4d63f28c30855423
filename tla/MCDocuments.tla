----------------------------- MODULE MCDocuments -----------------------------
(* Instances of Contracts and Vault: a lease, the one that replaces it and   *)
(* others' drafts; a deed whose text two of three custodians can open        *)
(* together, one of them a liar.                                             *)
EXTENDS Vault, TLC

CONSTANTS landlord, tenant, judge, stranger, rent, claim1, claim2, k1, k2, k3, k4

Owes(amount, due) == rent :> [payer |-> tenant, payee |-> landlord, amount |-> amount, due |-> due]
Draft(creator, parties, supersedes, arbitrator, owes) ==
  [creator |-> creator, parties |-> parties, supersedes |-> supersedes, cites |-> {}, public |-> FALSE,
   arbitrator |-> arbitrator, owes |-> owes]
Nothing == [d \in {} |-> 0]

Texts ==
  [ lease   |-> Draft(landlord, {landlord, tenant}, {}, judge, Owes(2, 1)),
    renewal |-> Draft(tenant, {landlord, tenant}, {"lease"}, NoOne, Nothing),
    sequel  |-> Draft(judge, {landlord, tenant}, {"renewal"}, NoOne, Nothing),
    bogus   |-> Draft(stranger, {stranger, tenant}, {"lease"}, NoOne, Nothing),
    unfair  |-> Draft(landlord, {landlord, tenant}, {}, landlord, Nothing),
    deed    |-> Draft(landlord, {landlord}, {}, NoOne, Nothing) ]

Case(drafts, kinds, readers, n) == [contracts |-> drafts, kinds |-> kinds, readers |-> readers, blocks |-> n]
OnLedger ==
  { Case({"lease"}, {"pay", "dispute"}, {}, 2),
    Case({"lease", "renewal", "sequel", "bogus", "unfair"}, {}, {}, 2),
    Case({"lease", "renewal"}, {"dispute"}, {}, 2),
    Case({"lease"}, {"file", "dispute"}, {}, 2),
    Case({"lease", "renewal"}, {"pay", "VIEW", "USE"}, {stranger}, 2) }
InVault ==
  { Case({"deed"}, {"VIEW", "seal", "die", "fail"}, {landlord}, 1),
    Case({"deed"}, {"seal", "reshare", "again"}, {}, 1),
    Case({"deed"}, {"seal", "reshare", "leak"}, {stranger}, 1),
    Case({"deed"}, {"seal", "leak", "VIEW"}, {stranger}, 1) }
AllCases == OnLedger \cup InVault

Change(amount, due, waived) == [amount |-> amount, due |-> due, waived |-> waived]
SomeAwards == {Change(1, NoOne, FALSE), Change(2, NoOne, FALSE), Change(NoOne, 2, FALSE),
               Change(1, 1, FALSE), Change(NoOne, NoOne, TRUE), Change(NoOne, NoOne, FALSE)}

First == <<<<k1, k2, k3>>, 2>>
SomePlans == {<<<<k2, k3, k4>>, 2>>, <<<<k4, k3, k1>>, 3>>}

ClaimSymmetry == Permutations(Claims)
=============================================================================
