------------------------------ MODULE Supplier ------------------------------
(***************************************************************************)
(* The invoices of one supplier: created, moved between statuses, paid,    *)
(* cancelled, and their voucher corrected by number.  Status changes,      *)
(* payments and cancellations lock the row of the invoice                  *)
(* (SupplierInvoiceRepository.lockById), then the settings row; a new      *)
(* invoice locks only the settings row, a correction the rows of the       *)
(* voucher and then the settings row.  All locks last to commit.           *)
(*                                                                         *)
(* Dates, the period lock and voucher numbers are module Posting.          *)
(***************************************************************************)
EXTENDS Integers, FiniteSetsExt

CONSTANTS
  Requests,     \* the requests of a behaviour
  NoRequest,    \* "nobody holds this lock"
  Slots,        \* invoices that may be created
  Total,        \* the amount of each invoice, in kronor
  References,   \* references the supplier puts on invoices
  Blank,        \* no reference
  Refs,         \* references of payments; one stands for reference and date
  Within,       \* <<p, q>>: the journal text of a payment p contains q
  NetOf,        \* a paid amount without VAT, a line of its own under CASH
  Kinds,        \* kinds of requests the behaviour has
  Targets,      \* statuses the status endpoint is asked for
  Threads       \* bound: requests in progress at once

AllKinds == {"create", "status", "pay", "cancel", "delete", "correct", "policy"}
Amounts == 1 .. Total

ASSUME TotalAssumption == Total \in Nat \ {0}
ASSUME NoRequestAssumption == NoRequest \notin Requests
ASSUME BlankAssumption == Blank \notin References
ASSUME TextAssumption == Within \subseteq Refs \X Refs
ASSUME NetAssumption == NetOf \in [Amounts -> 0 .. Total]
ASSUME KindsAssumption ==
  /\ Kinds \subseteq AllKinds /\ Threads \in Nat
  /\ Targets \subseteq {"unpaid", "prepared", "booked", "partial"}

VARIABLES
  invoices,        \* the rows of supplier_invoices with their payments
  ledger,          \* the journal rows of each invoice, per kind of voucher
  method,          \* accounting method in force
  rowHolder,       \* who holds the row lock of each invoice
  voucherHolder,   \* who holds the journal rows of its booking voucher
  settingsHolder,  \* who holds the app_settings row lock
  pc,              \* how far each request has come
  job,             \* what it was asked to do
  seen             \* the invoice it loaded

books == <<invoices, ledger, method>>
locks == <<rowHolder, voucherHolder, settingsHolder>>
vars == <<books, locks, pc, job, seen>>

Open == {"unpaid", "prepared", "booked"}
Statuses == Open \cup {"partial", "paid", "cancelled"}
Payments == [by: Requests, ref: Refs, amount: Amounts]
Absent == [status |-> "absent", paid |-> 0, payments |-> {}]
Invoices ==
  [status: Statuses, reference: References \cup {Blank}, paid: 0 .. Total, payments: SUBSET Payments]

\* A payment voucher: its amount, and the amounts of the lines that carry
\* the reference in their text.
PaymentVouchers == [ref: Refs, amount: Amounts, lines: SUBSET (0 .. Total)]
Ledgers == [booked: {0, Total}, payments: SUBSET PaymentVouchers, cancelled: {0, Total}, corrected: Nat]
NoVouchers == [booked |-> 0, payments |-> {}, cancelled |-> 0, corrected |-> 0]

Jobs ==
  [kind: {"create"}, reference: References \cup {Blank}]
    \cup [kind: {"status"}, slot: Slots, target: Targets]
    \cup [kind: {"pay"}, slot: Slots, amount: Amounts, ref: Refs]
    \cup [kind: {"cancel", "delete", "correct"}, slot: Slots]
    \cup [kind: {"policy"}]
NoJob == [kind |-> "none"]
Waiting == {"started", "row", "found", "locked", "checked"}

TypeOK ==
  /\ invoices \in [Slots -> Invoices \cup {Absent}]
  /\ ledger \in [Slots -> Ledgers]
  /\ method \in {"INVOICE", "CASH"}
  /\ rowHolder \in [Slots -> Requests \cup {NoRequest}]
  /\ voucherHolder \in [Slots -> Requests \cup {NoRequest}]
  /\ settingsHolder \in Requests \cup {NoRequest}
  /\ pc \in [Requests -> Waiting \cup {"idle", "done"}]
  /\ job \in [Requests -> Jobs \cup {NoJob}]
  /\ seen \in [Requests -> Invoices \cup {Absent}]

Init ==
  /\ invoices = [i \in Slots |-> Absent]
  /\ ledger = [i \in Slots |-> NoVouchers]
  /\ method \in {"INVOICE", "CASH"}
  /\ rowHolder = [i \in Slots |-> NoRequest]
  /\ voucherHolder = [i \in Slots |-> NoRequest]
  /\ settingsHolder = NoRequest
  /\ pc = [t \in Requests |-> "idle"]
  /\ job = [t \in Requests |-> NoJob]
  /\ seen = [t \in Requests |-> Absent]

----------------------------------------------------------------------------
(* What the handlers compute from the invoice they loaded.                 *)

Move(t, place) == pc' = [pc EXCEPT ![t] = place]
Is(t, kinds) == job[t].kind \in kinds
Status(t) == seen[t].status
Target(t) == job[t].target
Vouchers(t) == ledger[job[t].slot]

HasPayments(t) == seen[t].paid > 0 \/ Status(t) \in {"paid", "partial"}
HasEntries(t) == Vouchers(t) # NoVouchers

\* requireSupplierInvoiceStatusChangeAllowed; a payment asks for "paid".
NotCancelled(t) == Status(t) # "cancelled"
MayGoBack(t) == Target(t) \in {"unpaid", "prepared"} => ~HasEntries(t)
StatusMayChange(t) ==
  IF Target(t) = "booked" THEN seen[t].paid = 0 ELSE ~HasPayments(t) /\ MayGoBack(t)

\* The guards before the settings row is locked.
AllowedByRow(t) ==
  /\ NotCancelled(t) /\ ~Is(t, {"delete"})
  /\ Is(t, {"status"}) => StatusMayChange(t)
  /\ Is(t, {"cancel"}) => ~HasPayments(t)

\* SupplierInvoice.hasPayment, and the unique index behind it.
\* Faulty variant: a payment sent again is not recognised.
AlwaysNew(t) == TRUE
PaymentIsNew(t) ==
  \A p \in seen[t].payments : p.ref # job[t].ref \/ p.amount # job[t].amount

UpToRemaining(t) == job[t].amount <= Total - seen[t].paid
PaymentAllowed(t) == UpToRemaining(t) /\ PaymentIsNew(t)

\* createSupplierInvoiceEntries: nothing under the cash method, and once.
Booking(i) ==
  IF method = "INVOICE" /\ ledger[i].booked = 0 THEN Total ELSE ledger[i].booked

\* hasSupplierInvoicePaymentEntry: a line of that amount whose text contains
\* the reference.
\* Faulty variant: the reference is not compared.
AmountBooked(t) == \E p \in Vouchers(t).payments : job[t].amount \in p.lines
PaymentEntryExists(t) ==
  \E p \in Vouchers(t).payments :
    /\ job[t].amount \in p.lines
    /\ p.ref = job[t].ref \/ <<p.ref, job[t].ref>> \in Within

PaymentVoucher(t) ==
  [ref |-> job[t].ref, amount |-> job[t].amount,
   lines |-> {job[t].amount} \cup
     (IF method = "CASH" THEN {NetOf[job[t].amount]} ELSE {})]

\* existsBySupplier_IdAndReferenceIgnoreCase.
ReferenceIsNew(t) ==
  job[t].reference = Blank \/
    \A i \in Slots : invoices[i] # Absent => invoices[i].reference # job[t].reference

----------------------------------------------------------------------------
(* A request arrives and takes its locks.                                  *)

Arrivals ==
  {j \in Jobs :
     /\ j.kind \in Kinds
     /\ j.kind \notin {"create", "policy"} => invoices[j.slot] # Absent}

Begin(t) ==
  /\ pc[t] = "idle"
  /\ Cardinality({u \in Requests : pc[u] \in Waiting}) < Threads
  /\ \E j \in Arrivals : job' = [job EXCEPT ![t] = j]
  /\ Move(t, "started")
  /\ UNCHANGED <<books, locks, seen>>

\* Faulty variant: the row is loaded without SELECT ... FOR UPDATE.
RowNeverWaits(t, i) == TRUE
RowIsFree(t, i) == rowHolder[i] \in {NoRequest, t}

LockById(t) ==
  /\ pc[t] = "started" /\ Is(t, {"status", "pay", "cancel", "delete"})
  /\ RowIsFree(t, job[t].slot)
  /\ rowHolder' = [rowHolder EXCEPT ![job[t].slot] = t]
  /\ seen' = [seen EXCEPT ![t] = invoices[job[t].slot]]
  /\ Move(t, "row")
  /\ UNCHANGED <<books, voucherHolder, settingsHolder, job>>

\* createCorrectionEntry: findByVoucherNumberForCorrection locks the rows of
\* the voucher, findByCorrectionOfVoucherNumber must find none.
Correctable(t) ==
  Vouchers(t).booked > 0 /\ Vouchers(t).cancelled + Vouchers(t).corrected = 0

FindVoucher(t) ==
  /\ pc[t] = "started" /\ Is(t, {"correct"})
  /\ voucherHolder[job[t].slot] = NoRequest
  /\ Correctable(t)
  /\ voucherHolder' = [voucherHolder EXCEPT ![job[t].slot] = t]
  /\ Move(t, "found")
  /\ UNCHANGED <<books, rowHolder, settingsHolder, job, seen>>

\* requireUnlockedAccountingDate: the settings row.
\* Faulty variant: the settings are read without the lock.
NeverWait(t) == TRUE
SettingsAreFree(t) == settingsHolder \in {NoRequest, t}

LockSettingsForAccounting(t) ==
  /\ \/ pc[t] = "started" /\ Is(t, {"create", "policy"})
     \/ pc[t] = "row" /\ AllowedByRow(t)
     \/ pc[t] = "found"
  /\ SettingsAreFree(t)
  /\ settingsHolder' = t
  /\ Move(t, "locked")
  /\ UNCHANGED <<books, rowHolder, voucherHolder, job, seen>>

\* createSupplierInvoice looks for the reference under the settings lock.
CheckReference(t) ==
  /\ pc[t] = "locked" /\ Is(t, {"create"})
  /\ ReferenceIsNew(t)
  /\ Move(t, "checked")
  /\ UNCHANGED <<books, locks, job, seen>>

----------------------------------------------------------------------------
(* The transactions end; commit and rollback release every lock.           *)

Finish(t) ==
  /\ rowHolder' = [i \in Slots |-> IF rowHolder[i] = t THEN NoRequest ELSE rowHolder[i]]
  /\ voucherHolder' = [i \in Slots |-> IF voucherHolder[i] = t THEN NoRequest ELSE voucherHolder[i]]
  /\ settingsHolder' = IF settingsHolder = t THEN NoRequest ELSE settingsHolder
  /\ job' = [job EXCEPT ![t] = NoJob]
  /\ seen' = [seen EXCEPT ![t] = Absent]
  /\ Move(t, "done")

\* The row is saved and createSupplierInvoiceEntries books it.
StoreInvoice(t) ==
  /\ pc[t] = "checked"
  /\ \E i \in Slots :
       /\ invoices[i] = Absent
       /\ invoices' = [invoices EXCEPT ![i] =
            [status |-> "unpaid", reference |-> job[t].reference, paid |-> 0, payments |-> {}]]
       /\ ledger' = [ledger EXCEPT ![i].booked = Booking(i)]
  /\ Finish(t)
  /\ UNCHANGED method

\* updateSupplierInvoiceStatus, any status but "paid" and "cancelled".
ChangeStatus(t) ==
  LET i == job[t].slot IN
  /\ pc[t] = "locked" /\ Is(t, {"status"})
  /\ invoices' = [invoices EXCEPT ![i] = [seen[t] EXCEPT !.status = Target(t)]]
  /\ ledger' = IF Target(t) = "booked" THEN [ledger EXCEPT ![i].booked = Booking(i)]
                                       ELSE ledger
  /\ Finish(t)
  /\ UNCHANGED method

\* updateSupplierInvoiceStatus, "paid": the invoice is booked if it was not
\* yet, the payment unless its entry exists, and the row takes the payment.
RegisterPayment(t) ==
  LET i == job[t].slot
      paid == seen[t].paid + job[t].amount
  IN
  /\ pc[t] = "locked" /\ Is(t, {"pay"})
  /\ PaymentAllowed(t)
  /\ invoices' = [invoices EXCEPT ![i] =
       [seen[t] EXCEPT !.paid = paid,
          !.status = IF paid = Total THEN "paid" ELSE "partial",
          !.payments = @ \cup {[by |-> t, ref |-> job[t].ref, amount |-> job[t].amount]}]]
  /\ ledger' = [ledger EXCEPT ![i].booked = Booking(i),
       ![i].payments = IF PaymentEntryExists(t) THEN @ ELSE @ \cup {PaymentVoucher(t)}]
  /\ Finish(t)
  /\ UNCHANGED method

\* cancelSupplierInvoice: the booking voucher, if there is one, is reversed
\* by a voucher linked to the invoice; a second linked one is refused.
MayCancel(t) == Vouchers(t).cancelled = 0

CancelInvoice(t) ==
  LET i == job[t].slot IN
  /\ pc[t] = "locked" /\ Is(t, {"cancel"})
  /\ MayCancel(t)
  /\ invoices' = [invoices EXCEPT ![i] = [seen[t] EXCEPT !.status = "cancelled"]]
  /\ ledger' = [ledger EXCEPT ![i].cancelled = ledger[i].booked]
  /\ Finish(t)
  /\ UNCHANGED method

ReturnCancelled(t) ==
  /\ pc[t] = "row" /\ Is(t, {"cancel"}) /\ Status(t) = "cancelled"
  /\ Finish(t)
  /\ UNCHANGED books

\* createCorrectionEntry: the reversing voucher carries the number of the
\* original and no link to the invoice.
CorrectVoucher(t) ==
  /\ pc[t] = "locked" /\ Is(t, {"correct"})
  /\ ledger' = [ledger EXCEPT ![job[t].slot].corrected = @ + Total]
  /\ Finish(t)
  /\ UNCHANGED <<invoices, method>>

\* updateSettings: the method may change while the journal is empty.
ChangePolicy(t) ==
  /\ pc[t] = "locked" /\ Is(t, {"policy"})
  /\ \A i \in Slots : ledger[i] = NoVouchers
  /\ method' \in {"INVOICE", "CASH"} \ {method}
  /\ Finish(t)
  /\ UNCHANGED <<invoices, ledger>>

\* A guard refuses and the transaction rolls back; deleteSupplierInvoice
\* refuses always.
Refused(t) ==
  \/ pc[t] = "row" /\ ~AllowedByRow(t) /\ ~(Is(t, {"cancel"}) /\ Status(t) = "cancelled")
  \/ pc[t] = "started" /\ Is(t, {"correct"}) /\ ~Correctable(t)
  \/ /\ pc[t] = "locked"
     /\ \/ Is(t, {"create"}) /\ ~ReferenceIsNew(t)
        \/ Is(t, {"pay"}) /\ ~PaymentAllowed(t)
        \/ Is(t, {"cancel"}) /\ ~MayCancel(t)
        \/ Is(t, {"policy"}) /\ \E i \in Slots : ledger[i] # NoVouchers
Refuse(t) == Refused(t) /\ Finish(t) /\ UNCHANGED books

\* Anything else that fails: a locked date, the audit row, a crash.
Abort(t) == pc[t] \in Waiting /\ Finish(t) /\ UNCHANGED books

\* Every slot is used: the next invoice is outside the bound.
NoSlotLeft(t) ==
  /\ pc[t] = "checked" /\ \A i \in Slots : invoices[i] # Absent
  /\ Finish(t)
  /\ UNCHANGED books

Work(t) ==
  \/ LockById(t) \/ FindVoucher(t) \/ LockSettingsForAccounting(t)
  \/ CheckReference(t) \/ StoreInvoice(t) \/ ChangeStatus(t)
  \/ RegisterPayment(t) \/ CancelInvoice(t) \/ ReturnCancelled(t)
  \/ CorrectVoucher(t) \/ ChangePolicy(t) \/ Refuse(t) \/ NoSlotLeft(t)

Quiet == (\A t \in Requests : pc[t] = "done") /\ UNCHANGED vars

Next == (\E t \in Requests : Begin(t) \/ Work(t) \/ Abort(t)) \/ Quiet

Spec == Init /\ [][Next]_vars

----------------------------------------------------------------------------
(* Properties.                                                             *)

AmountsOf(ps) == MapThenSumSet(LAMBDA p : p.amount, ps)

\* Account 2440 never carries a debit nobody owes: under the invoice method
\* a payment finds the invoice booked, whatever the method was when it was
\* registered, and payments and cancellation together stay within it.
PayableNeverOverdrawn ==
  \A i \in Slots :
    /\ method = "INVOICE" => AmountsOf(ledger[i].payments) + ledger[i].cancelled <= ledger[i].booked
    /\ invoices[i].status = "cancelled" => ledger[i].cancelled = ledger[i].booked

\* Every payment on the row is in the journal against bank:
\* docs/berakningskontroll.md, "vid betalning mot 1930".
PaymentsAreBooked ==
  \A i \in Slots :
    /\ AmountsOf(invoices[i].payments) = invoices[i].paid
    /\ AmountsOf(ledger[i].payments) = invoices[i].paid

\* A payment sent again is on the invoice once, in whatever order the two
\* requests arrive (SupplierInvoice.hasPayment under the row lock).
PaymentSentOnceIsBookedOnce ==
  \A i \in Slots : \A p, q \in invoices[i].payments :
    p.ref = q.ref /\ p.amount = q.amount => p = q

\* A supplier's reference is registered once, although two requests may
\* look for it at the same time (existsBySupplier_IdAndReferenceIgnoreCase).
ReferenceUsedOnce ==
  \A i, j \in Slots :
    /\ invoices[i] # Absent /\ invoices[j] # Absent
    /\ invoices[i].reference = invoices[j].reference
    /\ invoices[i].reference # Blank
    => i = j

\* The status says what was paid, as PayablesReportService.toAgingInvoice
\* requires before it reports anything: "paid" is the whole amount, and a
\* payment is never hidden behind a status without payments.  That "partial"
\* has a payment does not hold: the status endpoint accepts it by hand.
StatusFitsPayments ==
  \A i \in Slots : invoices[i] # Absent =>
    /\ invoices[i].status = "paid" <=> invoices[i].paid = Total
    /\ invoices[i].paid > 0 => invoices[i].status \in {"partial", "paid"}

\* A cancelled invoice is neither paid nor reactivated: docs/
\* supplier-payment-safety.md, "Makulerade fakturor kan inte ateraktiveras".
CancelledIsFinal ==
  \A i \in Slots : invoices[i] # Absent =>
    /\ invoices[i].status = "cancelled" => invoices[i].payments = {} /\ ledger[i].payments = {}
    /\ ledger[i].cancelled > 0 => invoices[i].status = "cancelled"

\* Status, payments and reference of every row agree, whatever is sent twice
\* or changed by hand meanwhile (module SupplierProofs proves it).
RowsAreSound ==
  StatusFitsPayments /\ PaymentSentOnceIsBookedOnce /\ ReferenceUsedOnce /\ CancelledIsFinal

\* The journal carries the payments of the row and no debit nobody owes,
\* whatever is sent twice, changed by hand or booked late: the type, and the
\* two conjuncts above.
PayablesAreSound == TypeOK /\ PayableNeverOverdrawn /\ PaymentsAreBooked

-----------------------------------------------------------------------------
(* Does not hold: see the README, section 5.                               *)

\* A voucher is reversed once, by its cancellation or by a correction:
\* createCorrectionEntry refuses when "Voucher already has a correction
\* voucher", cancelSupplierInvoice looks only at vouchers of the invoice.
ReversedOnce ==
  \A i \in Slots : ledger[i].cancelled + ledger[i].corrected <= ledger[i].booked
=============================================================================
