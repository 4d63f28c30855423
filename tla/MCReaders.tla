------------------------------ MODULE MCReaders ------------------------------
(* Instances of Readers and Evidence: a small economy; importers who change  *)
(* their keys; a contract whose parties do.                                  *)
EXTENDS Evidence, Fraud

Of(role, sector) == [role |-> role, sector |-> sector]
People ==
  [ mill |-> Of("firm", "steel"), farm |-> Of("firm", "food"), home |-> Of("household", ""),
    state |-> Of("government", ""), abroad |-> Of("foreign", ""), bank |-> Of("bank", "") ]
Others == [ importer |-> Of("foreign", ""), shop |-> Of("firm", "imports") ]

Nothing(kind, by) == [kind |-> kind, by |-> by, old |-> by, to |-> by, amount |-> 0, purpose |-> ""]
Pay(by, to, amount, purpose) ==
  [Nothing("pay", by) EXCEPT !.to = to, !.amount = amount, !.purpose = purpose]
Change(kind, by, old, to) == [Nothing(kind, by) EXCEPT !.old = old, !.to = to]

Economy ==
  { Pay("home", "farm", 1, "FINAL_CONSUMPTION"), Pay("home", "abroad", 2, "FINAL_CONSUMPTION"),
    Pay("farm", "mill", 1, "INTERMEDIATE"), Pay("farm", "abroad", 2, "INTERMEDIATE"),
    Pay("mill", "bank", 1, "INTERMEDIATE"), Pay("mill", "farm", 2, "INVESTMENT"),
    Pay("state", "mill", 1, "GOVERNMENT_PURCHASE"), Pay("abroad", "mill", 2, "EXPORT"),
    Pay("state", "home", 1, "WAGES"), Pay("bank", "home", 2, "WAGES"),
    Pay("mill", "state", 1, "TAX production"), Pay("state", "farm", 1, "TRANSFER"),
    Pay("bank", "mill", 2, "FINANCIAL"), Nothing("register", "shop"),
    Pay("home", "shop", 1, "FINAL_CONSUMPTION") }
Trade ==
  { Nothing("register", "importer"), Pay("home", "importer", 1, "FINAL_CONSUMPTION"),
    Change("rotate", "importer", "importer", "importer2"), Change("recover", "home", "importer", "importer3"),
    Pay("home", "importer2", 2, "FINAL_CONSUMPTION"), Pay("home", "farm", 1, "FINAL_CONSUMPTION") }
OtherHistory == <<<<Pay("home", "abroad", 2, "FINAL_CONSUMPTION")>>, <<Pay("home", "farm", 1, "FINAL_CONSUMPTION")>>>>

\* The contract between the mill and the farm, registered by one of them, or by a clerk.
Sides == {"mill", "farm"}
Contract ==
  { Nothing("create", "mill"), Nothing("create", "mill2"), Nothing("create", "bank"),
    Nothing("sign", "mill"), Nothing("sign", "farm"), Nothing("sign", "mill2"), Nothing("sign", "farm2"),
    Change("rotate", "mill", "mill", "mill2"), Change("recover", "home", "mill2", "mill3"),
    Change("rotate", "farm", "farm", "farm2") }
Strangers ==
  { [tx |-> Change("rotate", "mill", "mill", "bank"), height |-> 1, ours |-> FALSE, final |-> TRUE],
    [tx |-> Nothing("sign", "farm"), height |-> 2, ours |-> TRUE, final |-> FALSE] }

\* Rings of two and three, larger and smaller payments, and payments just under 11.
Suspect ==
  { Pay("mill", "farm", 10, "INTERMEDIATE"), Pay("farm", "mill", 10, "INTERMEDIATE"),
    Pay("farm", "bank", 11, "FINANCIAL"), Pay("bank", "mill", 9, "FINANCIAL"),
    Pay("bank", "mill", 12, "FINANCIAL"), Pay("mill", "home", 10, "WAGES") }

Case(txs, n, size, indexed, bases, forks) ==
  [txs |-> txs, blocks |-> n, size |-> size, index |-> indexed, bases |-> bases, forks |-> forks]
AllCases == {Case(Economy, 3, 1, FALSE, {}, FALSE), Case(Trade, 3, 1, TRUE, 0 .. 2, TRUE),
             Case(Contract, 3, 2, FALSE, 0 .. 2, FALSE),
             Case(Suspect, 4, 1, FALSE, {}, FALSE), Case(Suspect, 2, 2, FALSE, {}, FALSE)}
=============================================================================
