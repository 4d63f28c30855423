SPECIFICATION Spec
CONSTANTS
  Founding <- People
  Newcomers <- Others
  Named <- Sides
  Alien <- Strangers
  Fork <- OtherHistory
  Cases <- AllCases
  NoOne = NoOne
  MaxLeaves = 5
  MaxLen = 3
  Window = 2
  Threshold = 11
  Low = 9
  MinCount = 3
  Within = 2
INVARIANTS
  AccountsBalance
  FlagsAreRight
  BundleFaithful
PROPERTIES
  IndexFaithful
CHECK_DEADLOCK FALSE
