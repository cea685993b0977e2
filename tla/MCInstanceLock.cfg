CONSTANTS
  p1 = p1
  p2 = p2
  p3 = p3
  p4 = p4
  NoPort = none
  Processes = {p1, p2, p3, p4}
  Built <- Releases
  Daemons = {p3, p4}
SPECIFICATION StartFairSpec
INVARIANTS
  OneServer
  FileNamesServer
  ReadersFindServer
PROPERTIES
  EveryoneSettles
CHECK_DEADLOCK FALSE
