SPECIFICATION FairSpec
CONSTANTS
  r1 = r1
  r2 = r2
  r3 = r3
  r4 = r4
  F = F
  B = B
  Requests = {r1, r2, r3}
  NoRequest = NoRequest
  Series = {F, B}
  Methods = {"INVOICE", "CASH"}
  LastDay = 1
  MaxVouchers = 2
  UnpostedIds <- MCNone
INVARIANTS
  LockedPeriodIsReviewed
PROPERTIES
  ImplementsBooks
  EveryRequestEnds
