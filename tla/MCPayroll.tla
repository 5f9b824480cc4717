----------------------------- MODULE MCPayroll -----------------------------
(* Small instances of Payroll.                                             *)
EXTENDS Payroll, TLC

CONSTANTS c1, c2, anna

\* Without loads, restores and taxes.
DraftKinds == {"session", "draft", "delete", "book"}
=============================================================================
