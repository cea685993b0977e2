CONSTANTS
  p = p
  q = q
  r = r
  Servers = {p, q, r}
  Expiry = 2
  MaxBack = 1
SPECIFICATION ScannerFairSpec
INVARIANTS
  FirstIsKnown
PROPERTIES
  SilentServersVanish
  SomeServerIsFound
