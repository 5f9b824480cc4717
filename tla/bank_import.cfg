SPECIFICATION Spec
CONSTANTS
  p1 = p1
  p2 = p2
  coffee = coffee
  Pages = {p1, p2}
  Contents = {coffee}
  Files <- TwoFiles
  MaxClicks = 5
  MaxInFlight = 2
SYMMETRY SamePages
INVARIANTS
  OneEntryPerRow
  ShownRowsAreOfTheChosenFile
  HiddenRowIsHandled
