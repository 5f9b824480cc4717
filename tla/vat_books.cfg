SPECIFICATION Spec
CONSTANTS
  r1 = r1
  r2 = r2
  r3 = r3
  r4 = r4
  r5 = r5
  Requests = {r1, r2, r3, r4, r5}
  NoRequest = NoRequest
  MaxVat = 2
  Kinds <- AllKinds
  Threads = 2
SYMMETRY RequestSymmetry
INVARIANTS
  PaymentIsOfTheFiling
PROPERTIES
  SettlementIsOfThePeriod
