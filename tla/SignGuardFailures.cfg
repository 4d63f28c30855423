CONSTANTS
  a = a  b = b  Nil = Nil
  Heights = {1}
  Rounds = {0, 1}
  Values = {a, b}
  DirFsync = TRUE
  Histories <- KillsOrCuts
SPECIFICATION GuardSpec
INVARIANTS NoDoubleSign ResumesWhereItLeft
