----------------------------- MODULE Receivable -----------------------------
(***************************************************************************)
(* What a customer invoice promises to the bookkeeping: one receivable,    *)
(* seen through its status and the money the journal says was received and *)
(* returned.  No requests, locks, events or stale copies; Invoice          *)
(* implements this module as long as every writer locks the row.           *)
(***************************************************************************)
EXTENDS Integers

CONSTANT Total
VARIABLES stage, received, returned

receivableVars == <<stage, received, returned>>

ReceivableInit == stage = "draft" /\ received = 0 /\ returned = 0

\* The draft is issued, or deleted and gone.
Settle ==
  /\ stage = "draft" /\ stage' \in {"open", "gone"}
  /\ UNCHANGED <<received, returned>>

\* Money comes in while the receivable is open, never more than is left.
Receive ==
  /\ stage = "open"
  /\ \E a \in 1 .. Total - received : received' = received + a
  /\ UNCHANGED <<stage, returned>>

\* A credit note closes it, paid or not, ...
CreditNote ==
  /\ stage = "open" /\ stage' = "credited"
  /\ UNCHANGED <<received, returned>>

\* ... and then what was paid may be returned, never more.
Return ==
  /\ stage = "credited"
  /\ \E a \in 1 .. received - returned : returned' = returned + a
  /\ UNCHANGED <<stage, received>>

ReceivableNext == Settle \/ Receive \/ CreditNote \/ Return

ReceivableSpec == ReceivableInit /\ [][ReceivableNext]_receivableVars
=============================================================================
