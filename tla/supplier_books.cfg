SPECIFICATION Spec
CONSTANTS
  r1 = r1
  r2 = r2
  r3 = r3
  r4 = r4
  r5 = r5
  i1 = i1
  i2 = i2
  a = a
  blank = blank
  p = p
  q = q
  Requests = {r1, r2, r3, r4, r5}
  NoRequest = NoRequest
  Slots = {i1, i2}
  Total = 2
  References = {a}
  Blank = blank
  Refs = {p, q}
  Within <- MCApart
  NetOf <- MCNoVat
  Kinds <- AllKinds
  Targets <- AllTargets
  Threads = 2
SYMMETRY RequestSymmetry
INVARIANTS
  PayablesAreSound
  RowsAreSound
