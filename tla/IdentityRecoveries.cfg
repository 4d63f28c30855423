SPECIFICATION Spec
CONSTANTS
  alice = alice
  mallory = mallory
  a1 = a1
  a2 = a2
  m1 = m1
  i1 = i1
  i2 = i2
  i3 = i3
  People = {alice, mallory}
  Keys = {a1, a2, m1}
  Owner <- MCOwner
  First <- MCFirst
  Issuers = {i1, i2, i3}
  Worlds <- FewOrWatched
  Removable = {i1, i3}
  Thresholds = {2}
  Delay = 1
  MaxHeight = 2
INVARIANTS
  HeldOnce
  StaysWithOwner
PROPERTY OwnerHasTime
CHECK_DEADLOCK FALSE
