---------------------------- MODULE MCBankImport ----------------------------
(* Small instances of BankImport.                                          *)
EXTENDS BankImport, TLC

CONSTANTS p1, p2, coffee

\* Two equal rows, and a file that has one of them.
TwoFiles == {<<coffee, coffee>>, <<coffee>>}
SamePages == Permutations(Pages)
=============================================================================
