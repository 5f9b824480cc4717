SPECIFICATION FairSpec
CONSTANTS
  r1 = r1
  r2 = r2
  r3 = r3
  r4 = r4
  r5 = r5
  p = p
  blank = blank
  s = s
  e0 = e0
  e1 = e1
  e2 = e2
  b = b
  Requests = {r1, r2, r3}
  NoRequest = NoRequest
  Total = 2
  Refs = {p}
  Blank = blank
  Sessions = {s}
  Events = {e0, e1, e2}
  SessionOf <- MCSessionOf
  PaidEvents = {e1, e2}
  BankRows = {b}
  NoRow = NoRow
  Kinds <- AllKinds
  Threads = 3
INVARIANTS
  IssuedIsNeverDeleted
PROPERTIES
  EveryRequestEnds
