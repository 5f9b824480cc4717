SPECIFICATION BackupSpec
CONSTANTS
  e1 = e1
  e2 = e2
  f1 = f1
  f2 = f2
  none = none
  Expenses = {e1}
  Files = {f1, f2}
  OwnerOf <- MCOwnerOf
  None = none
  Databases <- Drills
  MaxWal <- MCMaxWal
  MaxScripts = 2
  MaxDamage = 1
  MaxProbes = 2
CHECK_DEADLOCK FALSE
INVARIANTS
  BackupTypeOK
  PackageRestores
  ProductionPackageIsOfItsPosition
  AcceptedIsWhatWasBackedUp
PROPERTIES
  CertifiedPackageIsLeftAlone

