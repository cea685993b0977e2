CONSTANTS
  g1 = g1
  g2 = g2
  Host = 2
  Names = {"Steve", "Alex"}
  HostName = "Steve"
  Guests = {g1, g2}
  Machines = {1, 2, 3}
  NameOf <- TwoNames
  MachinesOf <- ThreeCases
  Timeout = 2
  MaxSkew = 1
  MaxJumps = 1
  Versions = 1
SPECIFICATION SyncFairSpec
INVARIANTS
  NoFalseAlarm
PROPERTIES
  ViewsConverge
  GoneGuestsLeave
