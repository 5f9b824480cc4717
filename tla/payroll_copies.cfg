SPECIFICATION Spec
CONSTANTS
  c1 = c1
  c2 = c2
  anna = anna
  Clients = {c1}
  Employees = {anna}
  Months = {1}
  Salaries = {2}
  TaxRates = {50}
  EmployerRate = 31
  Kinds <- AllKinds
  MaxClicks = 4
  MaxInFlight = 2
INVARIANTS
  CopiesAreSound
  StoredIsKept
PROPERTIES
  AutosaveFollowsLoad
