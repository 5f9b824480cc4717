---------------------------- MODULE MCWorkspace ----------------------------
(* Small instances of Workspace.                                           *)
EXTENDS Workspace

\* The lists users fill, and one register of each other kind.
OwnAndOthers ==
  OwnLists \cup {"trialBalance", "vatReport", "closeCheck", "journalIntegrity", "auditIntegrity",
                "reminders", "stripePayouts"}
=============================================================================
