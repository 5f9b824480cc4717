SPECIFICATION Spec
CONSTANTS
  Watchable <- OwnAndOthers
  MaxChanges = 1
  MaxClicks = 2
  MaxInFlight = 2
INVARIANTS
  TypeOK
  TrialBalanceIsOfNewestRequest
  PatientUserSeesOwnChanges
PROPERTIES
  SessionEnds
