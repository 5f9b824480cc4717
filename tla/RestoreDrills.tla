--------------------------- MODULE RestoreDrills ---------------------------
(***************************************************************************)
(* The databases that scripts/backup-restore-test.mjs backs up and         *)
(* restores: a sound one, and what its statements make of it, damage by    *)
(* damage and gap by gap.                                                  *)
(***************************************************************************)
EXTENDS Restore

Debit(voucher, day) ==
  [voucher |-> voucher, row |-> 1, manual |-> FALSE, debit |-> 125, credit |-> 0,
   account |-> "1930", day |-> day, evidence |-> Absent]
Credit(voucher, day) == [Debit(voucher, day) EXCEPT !.row = 2, !.debit = 0, !.credit = 125, !.account = "3001"]
Manual(line, evidence) == [line EXCEPT !.manual = TRUE, !.evidence = evidence]

V1 == {Debit("V-1", "1 Sep"), Credit("V-1", "1 Sep")}
M1 == {Manual(Debit("M-1", "2 Sep"), "doc"), Manual(Credit("M-1", "2 Sep"), "doc")}
Legacy == {Manual(Debit("M-legacy", "3 Sep"), Absent), Manual(Credit("M-legacy", "3 Sep"), Absent)}
Sealed(voucher) == [voucher |-> voucher, sealed |-> TRUE]

Evidence == [id |-> "doc", voucher |-> "M-1", content |-> "intact"]
Original == [invoice |-> 1, content |-> "intact"]
Mail == [kind |-> "INVOICE_EMAIL", invoice |-> 1, status |-> "SENT", sentAt |-> TRUE,
         attachment |-> "original", audited |-> FALSE]
Expense == [kronor |-> 125000, minor |-> 12500, currency |-> "SEK"]

\* the fixture: every guard works, the full money check is the last thing done
Fixture ==
  [missing |-> {}, triggers |-> Guards, refusing |-> GuardFunctions, exponent |-> 2, amounts |-> {Expense},
   check |-> [verified |-> TRUE, finishedAt |-> 2], guardedAt |-> {1},
   lines |-> V1 \cup M1, registry |-> {Sealed("V-1"), Sealed("M-1")},
   evidence |-> {Evidence}, originals |-> {Original}, invoices |-> {1}, issued |-> {1}, mails |-> {Mail},
   receiptRows |-> "whole", relocated |-> FALSE]

\* a trigger that is disabled, dropped or has other arguments; a function that refuses nothing
GuardDrills ==
  {[Fixture EXCEPT !.triggers = @ \ {g}] : g \in Guards} \cup
  {[Fixture EXCEPT !.refusing = @ \ {f}] : f \in GuardFunctions}

MailDrills ==
  {[Fixture EXCEPT !.mails = {m}] : m \in
     {[Mail EXCEPT !.attachment = "damaged"],
      [Mail EXCEPT !.status = "UNCERTAIN", !.sentAt = FALSE],
      [Mail EXCEPT !.status = "NOT_DELIVERED", !.sentAt = FALSE],
      [Mail EXCEPT !.status = "NOT_DELIVERED", !.sentAt = FALSE, !.audited = TRUE],
      [Mail EXCEPT !.status = "NOT_DELIVERED", !.audited = TRUE],
      [Mail EXCEPT !.status = "FORGED", !.sentAt = FALSE],
      [Mail EXCEPT !.invoice = 999],
      [Mail EXCEPT !.kind = "INVOICE_REMINDER", !.invoice = 999],
      [Mail EXCEPT !.attachment = "other"]}}

OriginalDrills ==
  {[Fixture EXCEPT !.originals = {[Original EXCEPT !.content = "damaged"]}],
   [Fixture EXCEPT !.originals = {}],
   [Fixture EXCEPT !.originals = {}, !.missing = {"originals"}]}

RegistryDrills ==
  {[Fixture EXCEPT !.registry = r] : r \in
     {{Sealed("M-1")},
      {[Sealed("V-1") EXCEPT !.sealed = FALSE], Sealed("M-1")},
      {Sealed("V-1"), Sealed("M-1"), Sealed("V-orphan")}}}

Relinked(voucher, row, evidence) ==
  {IF l.voucher = voucher /\ l.row \in row THEN [l EXCEPT !.evidence = evidence] ELSE l : l \in V1 \cup M1}

EvidenceDrills ==
  {[Fixture EXCEPT !.evidence = {[Evidence EXCEPT !.content = c]}] : c \in {"damaged", "gone"}} \cup
  {[Fixture EXCEPT !.lines = Relinked("V-1", {1, 2}, "doc")],
   [Fixture EXCEPT !.lines = Relinked("M-1", {2}, Absent)],
   [Fixture EXCEPT !.lines = V1 \cup M1 \cup Legacy,
                   !.registry = {Sealed("V-1"), Sealed("M-1"), Sealed("M-legacy")}],
   [Fixture EXCEPT !.lines = Relinked("M-1", {1, 2}, Absent), !.evidence = {}, !.missing = EvidenceSchema]}

MoneyDrills ==
  {[Fixture EXCEPT !.guardedAt = {1, 3}], [Fixture EXCEPT !.check.verified = FALSE]} \cup
  {[Fixture EXCEPT !.amounts = @ \cup {m}] : m \in
     {[Expense EXCEPT !.minor = 12501], [Expense EXCEPT !.kronor = 125001],
      [Expense EXCEPT !.kronor = 125500, !.minor = 12550]}}

Line(row, field, value) == {IF l.voucher = "V-1" /\ l.row = row THEN [l EXCEPT ![field] = value] ELSE l : l \in V1}

JournalDrills ==
  {[Fixture EXCEPT !.lines = M1 \cup lines] : lines \in
     {Line(1, "account", Absent), Line(1, "day", Absent), Line(1, "day", "4 Sep"), Line(2, "credit", 124),
      {[l EXCEPT !.debit = 125, !.credit = 125] : l \in V1}}}

ReceiptDrills ==
  {[Fixture EXCEPT !.receiptRows = r] : r \in {"hash without path", "path without hash"}} \cup
  {[Fixture EXCEPT !.relocated = TRUE]}

Drills ==
  {Fixture} \cup ReceiptDrills \cup GuardDrills \cup MailDrills \cup OriginalDrills \cup RegistryDrills
  \cup EvidenceDrills \cup MoneyDrills \cup JournalDrills
=============================================================================
