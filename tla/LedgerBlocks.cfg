SPECIFICATION FairSpec
CONSTANTS
  alice = alice
  bob = bob
  carol = carol
  gov = gov
  Accounts = {alice, bob, carol, gov}
  Known = {alice, bob, gov}
  Exempt = {gov}
  Nodes = {"n1", "n2"}
  Target = alice
  Balance <- Savings
  Hidden <- Behind
  Loads <- Everyday
  MaxTxs = 2
  MaxMempool = 3
  MaxIncoming = 2
  PerSender = 2
  MaxHidden = 8
INVARIANTS
  MoneyConserved
  HonestBlocksExecute
PROPERTIES
  DroppedOnlyIfDead
  QuotaKept
  EventuallyIncluded
CHECK_DEADLOCK FALSE
