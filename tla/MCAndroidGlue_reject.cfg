CONSTANTS
  e1 = e1
  e2 = e2
  Instances = {e1}
  Addresses = {"none", "10.126.126.1"}
  NoAddress = "none"
  Routes = {"none", "lan"}
  NoRoutes = "none"
  NoRequest = NoRequest
  Given <- OneAddress
  MaxChanges = 2
  MaxExports = 0
SPECIFICATION FairSpec
PROPERTIES
  AnsweredRequestsMakeWay
CHECK_DEADLOCK FALSE
