SPECIFICATION Spec
CONSTANTS
  Kinds = {"quote", "job", "rutRotJob", "sie", "bokio"}
  MaxClicks = 7
  MaxInFlight = 2
INVARIANTS
  SieImportedOnce
  ImportButtonComesBack
  ClaimFollowsPayment
