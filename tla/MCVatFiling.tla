---------------------------- MODULE MCVatFiling ----------------------------
(* Small instances of VatFiling.                                           *)
EXTENDS VatFiling, TLC

CONSTANTS r1, r2, r3, r4, r5

RequestSymmetry == Permutations(Requests)
=============================================================================
