CONSTANTS
  e1 = e1
  e2 = e2
  Instances = {e1, e2}
  Addresses = {"none", "10.126.126.1", "10.126.126.2"}
  NoAddress = "none"
  Routes = {"none", "lan"}
  NoRoutes = "none"
  NoRequest = NoRequest
  Given <- TwoAddresses
  MaxChanges = 1
  MaxExports = 1
SPECIFICATION FairSpec
INVARIANTS
  LastRequestKept
  NoSecondRequest
PROPERTIES
  TunFollowsNode
CHECK_DEADLOCK FALSE
