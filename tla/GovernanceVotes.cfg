SPECIFICATION FairSpec
CONSTANTS
  v1 = v1
  v2 = v2
  v3 = v3
  b = b
  c = c
  i = i
  j = j
  k = k
  Keys = {v1, v2, v3, b, c, i, j, k}
  Issuers = {i}
  Faulty = {b}
  Registering = {j, k}
  Genesis <- MCGenesis
  Agenda <- FullAgenda
  Approved <- ReformAgenda
INVARIANTS
  PendingUndecided
  FaultsStayBelowThird
PROPERTIES
  OnlyApprovedEnacted
  ApprovedIsEnacted
CHECK_DEADLOCK FALSE
