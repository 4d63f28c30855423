SPECIFICATION LabSpec
CONSTANTS
  v1 = v1
  v2 = v2
  v3 = v3
  v4 = v4
  v5 = v5
  Founding <- MCFounding
  Setups <- MCSetups
  Target = v1
  MaxHeight = 4
  MaxBlocks = 3
  Table <- MCTable
  Liars <- MCLiars
  MaxRound = 1
INVARIANTS HonestUnharmed ForkNeedsTwoRounds
PROPERTIES AlwaysProduces AccusationsStand
CHECK_DEADLOCK FALSE
