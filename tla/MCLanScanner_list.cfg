CONSTANTS
  p = p
  q = q
  r = r
  Servers = {p, q, r}
  Expiry = 3
  MaxBack = 0
SPECIFICATION ScannerSpec
INVARIANTS
  ListComplete
