CONSTANTS
  g1 = g1
  g2 = g2
  g3 = g3
  h = h
  a = a
  b = b
  Host = h
  Names = {"Steve", "Alex"}
  HostName = "Steve"
  Guests = {g1, g2}
  Machines = {h, a, b}
  Timeout = 2
  MaxSkew = 1
  MaxJumps = 1
  Versions = 2
SPECIFICATION Spec
INVARIANTS
  TableWellFormed
  HeardGuestsStay
  SweepRemovesExpired
PROPERTIES
  ChangesAreVersioned
