SPECIFICATION Spec
CONSTANTS
  MaxHeight = 8
  Keep = 2
  Settings <- ArchiveOrPeers
INVARIANTS StillOpens
PROPERTY NothingLost
CHECK_DEADLOCK FALSE
