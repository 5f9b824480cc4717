SPECIFICATION Spec
CONSTANTS
  r1 = r1
  r2 = r2
  r3 = r3
  r4 = r4
  F = F
  B = B
  Requests = {r1, r2, r3}
  NoRequest = NoRequest
  Series = {F, B}
  Methods = {"INVOICE", "CASH"}
  LastDay = 2
  MaxVouchers = 2
  UnpostedIds <- MCUnposted
SYMMETRY RequestSymmetry
INVARIANTS
  GaplessNumbers
  OneMethod
PROPERTIES
  NoPostingIntoLockedPeriod
