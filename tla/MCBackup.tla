------------------------------ MODULE MCBackup ------------------------------
(* A small instance of Backup, over the databases of the restore drills.   *)
EXTENDS Backup, RestoreDrills

CONSTANTS e1, e2, f1, f2, none

\* the server writes into the sound database; of the others a backup is made as they are
MCMaxWal(b) == IF b = Fixture THEN 3 ELSE 1

MCOwnerOf == [f \in {f1, f2} |-> e1]
=============================================================================
