SPECIFICATION WalletSpec
CONSTANTS
  alice = alice
  bob = bob
  Accounts = {alice, bob}
  Known = {alice, bob}
  Exempt = {}
  Nodes = {"n1"}
  Target = alice
  Balance <- Money
  Hidden <- Coins
  Loads <- AllLoads
  MaxTxs = 2
  MaxMempool = 2
  MaxIncoming = 2
  PerSender = 2
  MaxHidden = 127
  Me = alice
  Wishes <- AllWishes
  Spoilt = {32}
  Prunes = TRUE
INVARIANTS
  Matches
  NothingForgotten
CHECK_DEADLOCK FALSE
