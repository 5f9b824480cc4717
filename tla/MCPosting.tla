----------------------------- MODULE MCPosting -----------------------------
(* Small instances of Posting.                                             *)
EXTENDS PostingBooks, TLC

CONSTANTS r1, r2, r3, r4, F, B

MCUnposted == {[series |-> F, number |-> 1]}
MCNone == {}
RequestSymmetry == Permutations(Requests)
=============================================================================
