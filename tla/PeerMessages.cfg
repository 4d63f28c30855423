SPECIFICATION PeersSpec
CONSTANTS
  p1 = p1
  p2 = p2
  us = us
  Peers = {p1, p2}
  Us = us
  Founding <- MCFounding
  Scenes = {"blocks", "connections"}
  Slots = 4
  MaxVisits = 1
  MaxDeaths = 2
  Mute = {}
  MaxTip = 3
  Window = 3
  PerHeight = 2
  Batch = 2
  Keeps = {0, 1}
  MaxVotes = 2
  MaxRestarts = 1
INVARIANT BufferBounded
PROPERTIES
  CatchesUp
  VotesGetThrough
CHECK_DEADLOCK FALSE
