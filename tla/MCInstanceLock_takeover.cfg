CONSTANTS
  p1 = p1
  p2 = p2
  p3 = p3
  p4 = p4
  NoPort = none
  Processes = {p1, p2, p3}
  Built <- TwoReleases
  Daemons = {}
SPECIFICATION StartSpec
PROPERTIES
  GivingUpIsJustified
CHECK_DEADLOCK FALSE
