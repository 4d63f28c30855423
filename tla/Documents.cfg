SPECIFICATION Spec
CONSTANTS
  landlord = landlord
  tenant = tenant
  judge = judge
  stranger = stranger
  rent = rent
  claim1 = claim1
  claim2 = claim2
  k1 = k1
  k2 = k2
  k3 = k3
  k4 = k4
  NoOne = NoOne
  Accounts = {landlord, tenant, judge, stranger}
  Verified = {landlord, tenant, stranger}
  Text <- Texts
  Claims = {claim1, claim2}
  Cases <- AllCases
  Awards <- SomeAwards
  MaxHeight = 2
  MaxViews = 2
  MaxPaid = 2
  MaxFilings = 1
  Custodians = {k1, k2, k3, k4}
  Liars = {k3}
  Sealed = "deed"
  Q = 5
  Secret = 3
  FirstPlan <- First
  Plans <- SomePlans
  Coins = {2}
INVARIANTS
  InForce
  ReadsAreReceipted
  StillOpens
  FewerLearnNothing
PROPERTIES
  ReliefStands
  ReportsStand
SYMMETRY ClaimSymmetry
CHECK_DEADLOCK FALSE
