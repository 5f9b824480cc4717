----------------------------- MODULE MCSupplier -----------------------------
(* Small instances of Supplier.                                            *)
EXTENDS Supplier, TLC

CONSTANTS r1, r2, r3, r4, r5, i1, i2, a, blank, p, q

\* Texts that do not contain each other; a text that contains the other.
MCApart == {}
MCWithin == {<<p, q>>}
\* An invoice without VAT.
MCNoVat == [n \in Amounts |-> n]
RequestSymmetry == Permutations(Requests)

AllTargets == Open \cup {"partial"}
=============================================================================
