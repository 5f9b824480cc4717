SPECIFICATION ReadinessSpec
CONSTANTS
  LimitedCompany = TRUE
  Budget <- MCBudget
  Bookable <- Books
  Page <- SoundPage
  Changing <- OddLists
  MaxSideSteps = 2
INVARIANTS
  ReadinessTypeOK
  LockedMonthIsComplete
  
  UnbalancedBooksAreNowhereCalm
  GatesAgree
PROPERTIES
  RepairNeverHurts
CHECK_DEADLOCK FALSE
