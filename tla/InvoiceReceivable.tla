------------------------- MODULE InvoiceReceivable -------------------------
(***************************************************************************)
(* Invoice implements Receivable.  The stage is read off the status column,*)
(* the money off the journal: a step that changes one without the other is *)
(* no step of Receivable.                                                  *)
(***************************************************************************)
EXTENDS Invoice

Stage ==
  CASE invoice.status = "DRAFT" -> "draft"
    [] invoice.status \in Receiving -> "open"
    [] invoice.status = "CREDITED" -> "credited"
    [] invoice.status = "DELETED" -> "gone"

Account == INSTANCE Receivable WITH
  stage <- Stage, received <- ledger.received, returned <- ledger.refunded

\* Whatever the client, the bank import and Stripe send, and however often,
\* the journal and the status move as one receivable: money is received only
\* while it is open and returned only after the credit note.
ImplementsReceivable == Account!ReceivableSpec

\* The same, and the status never falls back within a stage.
MovesAsReceivable == ImplementsReceivable /\ StatusNeverMovesBack
=============================================================================
