----------------------------- MODULE MCInvoice -----------------------------
(* Small instances of Invoice.                                             *)
EXTENDS InvoiceReceivable, TLC

CONSTANTS r1, r2, r3, r4, r5, p, blank, s, e0, e1, e2, b

MCSessionOf == [e \in Events |-> s]
RequestSymmetry == Permutations(Requests)

\* The requests that lock the row, and the checkout that only reads it.
LockingKinds == AllKinds \ {"policy", "remind"}
=============================================================================
