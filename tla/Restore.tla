------------------------------ MODULE Restore ------------------------------
(***************************************************************************)
(* What scripts/backup-restore-verify.mjs asks of a database that it has   *)
(* restored into an isolated PostgreSQL: a throw is a conjunct that does   *)
(* not hold, what is only reported is a gap.                               *)
(*                                                                         *)
(* b is the part of a database that the verification reads row by row.     *)
(* An amount is in thousandths of a krona next to its copy in ore.         *)
(* What a missing table would hold is empty.                               *)
(***************************************************************************)
EXTENDS Integers, FiniteSets, Functions

Absent == "absent"

\* the triggers and the functions they call; a trigger with other arguments does not count
Guards == {"money", "auditRows", "auditTruncate", "evidence", "contents", "originals"}
GuardFunctions == {"guard_operational_money_integrity", "protect_audit_event",
              "protect_voucher_evidence", "protect_invoice_original"}
FunctionOf(guard) ==
  CASE guard = "money" -> "guard_operational_money_integrity"
    [] guard \in {"auditRows", "auditTruncate"} -> "protect_audit_event"
    [] guard \in {"evidence", "contents"} -> "protect_voucher_evidence"
    [] OTHER -> "protect_invoice_original"

Installed(b, guard) == guard \in b.triggers
Refuses(b, guard) == Installed(b, guard) /\ FunctionOf(guard) \in b.refusing

-----------------------------------------------------------------------------
(* The money model and the journal *)

LinesOf(b, voucher) == {l \in b.lines : l.voucher = voucher}
VouchersOf(b) == {l.voucher : l \in b.lines}
Total(lines, side) == FoldFunction(+, 0, [l \in lines |-> l[side]])

AmountsAreExact(b) ==
  \A m \in b.amounts : m.kronor % 1000 = 0 /\ m.minor * 10 = m.kronor /\ m.currency = "SEK"

MoneyWasChecked(b) == b.check.verified /\ \A t \in b.guardedAt : b.check.finishedAt >= t

MoneyGuardsWork(b) == Refuses(b, "money")

VouchersBalance(b) ==
  /\ \A v \in VouchersOf(b) : v # Absent /\ Total(LinesOf(b, v), "debit") = Total(LinesOf(b, v), "credit")
  /\ \A l \in b.lines : l.debit >= 0 /\ l.credit >= 0 /\ ~(l.debit > 0 /\ l.credit > 0)

LinesAreDated(b) ==
  /\ \A l \in b.lines : l.account # Absent /\ l.day # Absent
  /\ \A l, k \in b.lines : l.voucher = k.voucher => l.day = k.day

RegistryIsSealed(b) ==
  /\ VouchersOf(b) = {r.voucher : r \in b.registry}
  /\ \A r \in b.registry : r.sealed

verifyMoneyModel(b) ==
  /\ {"money", "registry"} \cap b.missing = {} /\ b.exponent = 2
  /\ AmountsAreExact(b) /\ MoneyWasChecked(b) /\ MoneyGuardsWork(b)
  /\ VouchersBalance(b) /\ LinesAreDated(b) /\ RegistryIsSealed(b)

\* the triggers of both kinds must be there, only TRUNCATE is tried
verifyAuditTrailProtection(b) ==
  Installed(b, "auditRows") /\ Installed(b, "auditTruncate") /\ Refuses(b, "auditTruncate")

\* an archive without rows has nothing on which to try its guard
verifyImmutableArchiveGuard(b, guard, rows) == Installed(b, guard) /\ (rows = {} \/ Refuses(b, guard))

-----------------------------------------------------------------------------
(* Voucher evidence, invoice originals and the mail ledger *)

EvidenceSchema == {"evidence", "contents", "evidenceLink"}
EvidenceIsLegacy(b) == EvidenceSchema \subseteq b.missing

LinksAreWhole(b) ==
  /\ \A e \in b.evidence : \E l \in b.lines : l.evidence = e.id
  /\ \A l \in b.lines : l.evidence # Absent =>
        \E e \in b.evidence : e.id = l.evidence /\ e.voucher = l.voucher
  /\ \A l, k \in b.lines : l.voucher = k.voucher => l.evidence = k.evidence

verifyVoucherEvidence(b) ==
  \/ EvidenceIsLegacy(b)
  \/ /\ EvidenceSchema \cap b.missing = {}
     /\ verifyImmutableArchiveGuard(b, "evidence", b.evidence)
     /\ verifyImmutableArchiveGuard(b, "contents", b.evidence)
     /\ \A e \in b.evidence : e.content = "intact"
     /\ LinksAreWhole(b)

\* vouchers of the series M and IB must have a document
VouchersMissingEvidence(b) == {l.voucher : l \in {k \in b.lines : k.manual /\ k.evidence = Absent}}

verifyInvoiceOriginals(b) ==
  "originals" \in b.missing
  \/ /\ verifyImmutableArchiveGuard(b, "originals", b.originals)
     /\ \A o \in b.originals : o.content = "intact" /\ o.invoice \in b.issued

IssuedWithoutOriginals(b) ==
  IF "originals" \in b.missing THEN b.issued ELSE b.issued \ {o.invoice : o \in b.originals}

Unresolved == {"PENDING", "UNCERTAIN"}

verifyEmailDeliveryEvidence(b) ==
  "mail" \in b.missing
  \/ \A a \in b.mails :
        /\ a.status \in Unresolved \cup {"SENT", "NOT_DELIVERED"}
        /\ a.sentAt <=> a.status = "SENT"
        /\ a.attachment # "damaged" /\ (a.kind = "INVOICE_EMAIL" => a.attachment # Absent)
        /\ a.status = "NOT_DELIVERED" => a.audited

OriginalOf(b, a) == {o \in b.originals : o.invoice = a.invoice}

UnlinkedAttempts(b) ==
  {a \in b.mails : a.invoice \notin b.invoices \/ (a.kind = "INVOICE_EMAIL" /\ OriginalOf(b, a) = {})}
AttachmentMismatches(b) ==
  {a \in b.mails : a.kind = "INVOICE_EMAIL" /\ OriginalOf(b, a) # {} /\ a.attachment # "original"}

-----------------------------------------------------------------------------
(* The gaps that assessRestoredEvidence turns into reasons for a review *)

GapsOfBooks(b) ==
  {g \in {"voucher_evidence_archive_absent", "vouchers_missing_evidence", "invoice_original_archive_absent",
          "issued_invoices_without_originals", "email_delivery_ledger_absent",
          "unresolved_email_deliveries", "email_attempts_without_invoice_or_original",
          "email_attachments_differ_from_originals"} :
     CASE g = "voucher_evidence_archive_absent" -> EvidenceIsLegacy(b)
       [] g = "vouchers_missing_evidence" -> VouchersMissingEvidence(b) # {}
       [] g = "invoice_original_archive_absent" -> "originals" \in b.missing
       [] g = "issued_invoices_without_originals" -> IssuedWithoutOriginals(b) # {}
       [] g = "email_delivery_ledger_absent" -> "mail" \in b.missing
       [] g = "unresolved_email_deliveries" -> \E a \in b.mails : a.status \in Unresolved
       [] g = "email_attempts_without_invoice_or_original" -> UnlinkedAttempts(b) # {}
       [] g = "email_attachments_differ_from_originals" -> AttachmentMismatches(b) # {}}

\* a receipt needs its path and its hash
ReceiptRowsAreWhole(b) == b.receiptRows = "whole"

BooksVerify(b) ==
  /\ ReceiptRowsAreWhole(b) /\ verifyMoneyModel(b) /\ verifyAuditTrailProtection(b) /\ verifyVoucherEvidence(b)
  /\ verifyInvoiceOriginals(b) /\ verifyEmailDeliveryEvidence(b)
=============================================================================
