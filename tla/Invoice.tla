------------------------------ MODULE Invoice ------------------------------
(***************************************************************************)
(* One customer invoice and everybody who writes it: the client (issue,    *)
(* e-mail, payment, refund, credit, delete), the bank import, the Stripe   *)
(* checkout and its webhook events, and the two reminder handlers.  All    *)
(* but the checkout and the reminders lock the row (OrderRepository.       *)
(* lockById) before they load it and keep the lock to commit, so what they *)
(* write is one step here.  The reminders load it without a transaction    *)
(* and merge the copy later.                                               *)
(*                                                                         *)
(* Journal rows are kept as the sums per kind of voucher of this invoice;  *)
(* dates, the period lock and voucher numbers are module Posting.          *)
(***************************************************************************)
EXTENDS Integers, FiniteSetsExt

CONSTANTS
  Requests,     \* the requests of a behaviour
  NoRequest,    \* "nobody holds this lock"
  Total,        \* the amount of the invoice, in kronor
  Refs,         \* payment references a client uses; a reference stands for
                \* reference and date, the pair Order.hasPayment compares
  Blank,        \* the empty reference, allowed for bank rows
  Sessions,     \* Stripe checkout sessions
  Events,       \* Stripe events; each may be delivered any number of times
  SessionOf,    \* the session an event is about
  PaidEvents,   \* events that report the session paid; others are only recorded
  BankRows,     \* rows of an imported bank statement
  NoRow,        \* "not from the bank import"
  Kinds,        \* kinds of requests the behaviour has
  Threads       \* bound: requests in progress at once

AllKinds == {"issue", "email", "pay", "refund", "credit", "delete", "checkout",
             "webhook", "skip", "unskip", "policy", "remind"}
Keys == Events \cup Sessions \cup BankRows

ASSUME TotalAssumption == Total \in Nat \ {0}
ASSUME NoRequestAssumption == NoRequest \notin Requests
ASSUME EventsAssumption == SessionOf \in [Events -> Sessions] /\ PaidEvents \subseteq Events
ASSUME NoRowAssumption == NoRow \notin BankRows
ASSUME RefsAssumption == Blank \notin Refs /\ (Refs \cup {Blank}) \cap Sessions = {}
ASSUME KeysAssumption == Events \cap Sessions = {} /\ (Events \cup Sessions) \cap BankRows = {}
ASSUME KindsAssumption == Kinds \subseteq AllKinds /\ Threads \in Nat

VARIABLES
  invoice,     \* the row: status, paid and refunded amount
  payments,    \* the rows of invoice_payments
  ledger,      \* journal rows of this invoice, summed per kind of voucher
  archived,    \* the original PDF is archived
  method,      \* accounting method in force
  marks,       \* rows of stripe_webhook_events: events and booked sessions
  bankRows,    \* import rows in bank_reconciliation_entries: booked, skipped
  sessions,    \* the amount each checkout session asks for, 0 before it exists
  rowHolder,   \* who holds the row lock of the invoice
  keyHolder,   \* who holds the advisory lock of an event, session or bank row
  pc,          \* how far each request has come
  job,         \* what it was asked to do
  seen,        \* the invoice it loaded
  current      \* the invoice its merge loaded

books == <<invoice, payments, ledger, archived>>
register == <<marks, bankRows, sessions, method>>
locks == <<rowHolder, keyHolder>>
local == <<job, seen, current>>
vars == <<books, register, locks, pc, local>>

Issued == {"SENT", "PARTIALLY_PAID", "PAID", "CREDITED"}
Receiving == {"SENT", "PARTIALLY_PAID", "PAID"}
Invoices == [status: {"DELETED", "DRAFT"} \cup Issued, paid: 0 .. Total, refunded: 0 .. Total]
Payments == [by: Requests, ref: Refs \cup Sessions \cup {Blank}, amount: 1 .. Total]
Copies == [row: Invoices, payments: SUBSET Payments]
Draft == [status |-> "DRAFT", paid |-> 0, refunded |-> 0]
NothingLoaded == [row |-> Draft, payments |-> {}]
NoVouchers == [invoiced |-> 0, received |-> 0, credited |-> 0, refunded |-> 0]

Amounts == 1 .. Total
Jobs ==
  [kind: {"issue", "email", "credit", "delete", "policy", "remind"}]
    \cup [kind: {"pay"}, amount: Amounts, ref: Refs, row: BankRows \cup {NoRow}]
    \cup [kind: {"pay"}, amount: Amounts, ref: {Blank}, row: BankRows]
    \cup [kind: {"refund"}, amount: Amounts]
    \cup [kind: {"checkout"}, session: Sessions]
    \cup [kind: {"webhook"}, event: Events]
    \cup [kind: {"skip", "unskip"}, row: BankRows]
NoJob == [kind |-> "none"]
Waiting == {"started", "eventLocked", "repeated", "keyed", "locked", "read", "merging"}

TypeOK ==
  /\ invoice \in Invoices
  /\ payments \subseteq Payments
  /\ ledger \in [invoiced: Nat, received: Nat, credited: Nat, refunded: Nat]
  /\ archived \in BOOLEAN
  /\ method \in {"INVOICE", "CASH"}
  /\ marks \subseteq Events \cup Sessions
  /\ bankRows \in [BankRows -> [booked: Nat, skipped: Nat]]
  /\ sessions \in [Sessions -> 0 .. Total]
  /\ rowHolder \in Requests \cup {NoRequest}
  /\ keyHolder \in [Keys -> Requests \cup {NoRequest}]
  /\ pc \in [Requests -> Waiting \cup {"idle", "done"}]
  /\ job \in [Requests -> Jobs \cup {NoJob}]
  /\ seen \in [Requests -> Copies]
  /\ current \in [Requests -> Copies]

\* A draft that OrderController.createOrder has just committed.
Init ==
  /\ invoice = Draft
  /\ payments = {}
  /\ ledger = NoVouchers
  /\ archived = FALSE
  /\ method \in {"INVOICE", "CASH"}
  /\ marks = {}
  /\ bankRows = [b \in BankRows |-> [booked |-> 0, skipped |-> 0]]
  /\ sessions = [s \in Sessions |-> 0]
  /\ rowHolder = NoRequest
  /\ keyHolder = [k \in Keys |-> NoRequest]
  /\ pc = [t \in Requests |-> "idle"]
  /\ job = [t \in Requests |-> NoJob]
  /\ seen = [t \in Requests |-> NothingLoaded]
  /\ current = [t \in Requests |-> NothingLoaded]

----------------------------------------------------------------------------
(* What the handlers compute from the invoice they loaded.                 *)

Move(t, place) == pc' = [pc EXCEPT ![t] = place]
Stored == [row |-> invoice, payments |-> payments]
Row(t) == seen[t].row
Is(t, kinds) == job[t].kind \in kinds

\* Order.getRemainingAmount and getRefundableAmount.
Remaining(row) == IF row.status \in Receiving THEN Total - row.paid ELSE 0
Refundable(row) == IF row.status = "CREDITED" THEN row.paid - row.refunded ELSE 0

AmountOf(t) == IF Is(t, {"webhook"}) THEN sessions[SessionOf[job[t].event]] ELSE job[t].amount
RefOf(t) == IF Is(t, {"webhook"}) THEN SessionOf[job[t].event] ELSE job[t].ref
FromBank(t) == Is(t, {"pay"}) /\ job[t].row # NoRow

\* Order.hasPayment, and the unique index behind it.
\* Faulty variant: a payment sent again is not recognised.
AlwaysNew(t) == TRUE
PaymentIsNew(t) ==
  job[t].ref = Blank
    \/ \A p \in seen[t].payments : p.ref # job[t].ref \/ p.amount # job[t].amount

\* The guards of markInvoiceAsPaid and of handleWebhook.
PaymentAllowed(t) ==
  /\ Row(t).status \in Receiving
  /\ Is(t, {"webhook"}) => Row(t).status # "PAID"
  /\ AmountOf(t) <= Remaining(Row(t))
  /\ Is(t, {"pay"}) => PaymentIsNew(t)

\* createInvoiceEntries: nothing under the cash method, and once only.
\* Faulty variant: the method is not asked for.
AlwaysVoucher == Total
InvoiceVoucher == IF method = "INVOICE" /\ ledger.invoiced = 0 THEN Total ELSE 0

\* createCreditInvoiceEntries: nothing under the cash method.
CreditVoucher == IF method = "INVOICE" THEN Total ELSE 0

IssueAllowed(t) == Row(t).status = "DRAFT" /\ ~archived
\* markInvoiceAsSent returns a sent invoice as it is; sendInvoiceEmail sends
\* an issued one again.
NothingToIssue(t) ==
  \/ Is(t, {"issue"}) /\ Row(t).status = "SENT"
  \/ Is(t, {"email"}) /\ Row(t).status \in Receiving
\* Faulty variant: an earlier refund is not counted.
PaidAmountAllowed(t) == Row(t).status = "CREDITED" /\ job[t].amount <= Row(t).paid
RefundAllowed(t) == Row(t).status = "CREDITED" /\ job[t].amount <= Refundable(Row(t))
CreditAllowed(t) == Row(t).status \in Receiving
\* Faulty variant: the status alone decides.
IsDraft(t) == Row(t).status = "DRAFT"
\* deleteInvoice: only a draft, without journal rows (deleteEntriesForInvoice)
\* and not archived (foreign key of invoice_originals).
DeleteAllowed(t) == Row(t).status = "DRAFT" /\ ledger = NoVouchers /\ ~archived

Used(b) == bankRows[b].booked + bankRows[b].skipped > 0

----------------------------------------------------------------------------
(* A request arrives and takes its locks.                                  *)

Arrivals ==
  {j \in Jobs :
     /\ j.kind \in Kinds
     /\ j.kind = "checkout" => sessions[j.session] = 0
     /\ j.kind = "webhook" => sessions[SessionOf[j.event]] > 0}

Begin(t) ==
  /\ pc[t] = "idle"
  /\ Cardinality({u \in Requests : pc[u] \in Waiting}) < Threads
  /\ \E j \in Arrivals : job' = [job EXCEPT ![t] = j]
  /\ Move(t, "started")
  /\ UNCHANGED <<books, register, locks, seen, current>>

\* Faulty variant: the advisory lock is not taken.
NeverWait(t, k) == TRUE
KeyIsFree(t, k) == keyHolder[k] \in {NoRequest, t}

LockKey(t, k) ==
  /\ KeyIsFree(t, k)
  /\ keyHolder' = [keyHolder EXCEPT ![k] = t]
  /\ UNCHANGED <<books, register, rowHolder, local>>

\* handleWebhook: lockProcessingKey of the event, then of its session; under
\* each lock it looks for the mark that says the work is done.
LockEvent(t) ==
  /\ pc[t] = "started" /\ Is(t, {"webhook"})
  /\ LockKey(t, job[t].event)
  /\ Move(t, IF job[t].event \in marks THEN "repeated" ELSE "eventLocked")

LockSession(t) ==
  /\ pc[t] = "eventLocked" /\ job[t].event \in PaidEvents
  /\ LockKey(t, RefOf(t))
  /\ Move(t, IF RefOf(t) \in marks THEN "repeated" ELSE "keyed")

\* BankImportBookingService.reserve and removeSkipped: lockBankRow, then
\* reserve looks for an entry of the row.
LockBankRow(t) ==
  /\ pc[t] = "started"
  /\ FromBank(t) \/ Is(t, {"skip", "unskip"})
  /\ LockKey(t, job[t].row)
  /\ Move(t, IF Used(job[t].row) /\ ~Is(t, {"unskip"}) THEN "repeated" ELSE "keyed")

\* Faulty variant: the row is loaded without SELECT ... FOR UPDATE.
RowNeverWaits(t) == TRUE
RowIsFree(t) == rowHolder \in {NoRequest, t}

\* lockById, then findById: the row and its payments are loaded under the
\* lock, after the checks on the event, the session or the bank row.
ReadyForRow(t) ==
  \/ pc[t] = "started" /\ Is(t, {"issue", "email", "refund", "credit", "delete"})
  \/ pc[t] = "started" /\ Is(t, {"pay"}) /\ ~FromBank(t)
  \/ pc[t] = "keyed" /\ Is(t, {"pay", "webhook"})

LockById(t) ==
  /\ ReadyForRow(t)
  /\ RowIsFree(t)
  /\ rowHolder' = t
  /\ seen' = [seen EXCEPT ![t] = Stored]
  /\ Move(t, "locked")
  /\ UNCHANGED <<books, register, keyHolder, job, current>>

----------------------------------------------------------------------------
(* The transactions end; commit and rollback release every lock.           *)

\* Faulty variant: the advisory locks are those of the session.
KeepKeys(t) ==
  /\ rowHolder' = IF rowHolder = t THEN NoRequest ELSE rowHolder
  /\ job' = [job EXCEPT ![t] = NoJob]
  /\ seen' = [seen EXCEPT ![t] = NothingLoaded]
  /\ current' = [current EXCEPT ![t] = NothingLoaded]
  /\ Move(t, "done")
  /\ UNCHANGED keyHolder
Finish(t) ==
  /\ rowHolder' = IF rowHolder = t THEN NoRequest ELSE rowHolder
  /\ keyHolder' = [k \in Keys |-> IF keyHolder[k] = t THEN NoRequest ELSE keyHolder[k]]
  /\ job' = [job EXCEPT ![t] = NoJob]
  /\ seen' = [seen EXCEPT ![t] = NothingLoaded]
  /\ current' = [current EXCEPT ![t] = NothingLoaded]
  /\ Move(t, "done")

\* markInvoiceAsSent, and the draft branch of sendInvoiceEmail.
IssueInvoice(t) ==
  /\ pc[t] = "locked" /\ Is(t, {"issue", "email"})
  /\ IssueAllowed(t)
  /\ invoice' = [Row(t) EXCEPT !.status = "SENT"]
  /\ ledger' = [ledger EXCEPT !.invoiced = @ + InvoiceVoucher]
  /\ archived' = TRUE
  /\ Finish(t)
  /\ UNCHANGED <<payments, register>>

ReturnIssued(t) ==
  /\ pc[t] = "locked" /\ NothingToIssue(t)
  /\ Finish(t)
  /\ UNCHANGED <<books, register>>

\* What handleWebhook records with the payment.
BookedMarks(t) == {job[t].event, RefOf(t)}

\* createPaymentEntries, Order.registerPayment, and what the source of the
\* payment records: the bank row, or the event and its session.
RegisterPayment(t) ==
  LET paid == Row(t).paid + AmountOf(t) IN
  /\ pc[t] = "locked" /\ Is(t, {"pay", "webhook"})
  /\ PaymentAllowed(t)
  /\ invoice' = [Row(t) EXCEPT !.paid = paid,
                   !.status = IF paid >= Total THEN "PAID" ELSE "PARTIALLY_PAID"]
  /\ payments' = payments \cup {[by |-> t, ref |-> RefOf(t), amount |-> AmountOf(t)]}
  /\ ledger' = [ledger EXCEPT !.received = @ + AmountOf(t)]
  /\ marks' = IF Is(t, {"webhook"}) THEN marks \cup BookedMarks(t) ELSE marks
  /\ bankRows' = IF FromBank(t) THEN [bankRows EXCEPT ![job[t].row].booked = @ + 1]
                                ELSE bankRows
  /\ Finish(t)
  /\ UNCHANGED <<archived, sessions, method>>

\* markInvoiceRefunded: createRefundEntries and Order.registerRefund.
Refund(t) ==
  /\ pc[t] = "locked" /\ Is(t, {"refund"})
  /\ RefundAllowed(t)
  /\ invoice' = [Row(t) EXCEPT !.refunded = @ + job[t].amount]
  /\ ledger' = [ledger EXCEPT !.refunded = @ + job[t].amount]
  /\ Finish(t)
  /\ UNCHANGED <<payments, archived, register>>

\* createCreditInvoice: the credit note is a new row of its own, issued at once.
Credit(t) ==
  /\ pc[t] = "locked" /\ Is(t, {"credit"})
  /\ CreditAllowed(t)
  /\ invoice' = [Row(t) EXCEPT !.status = "CREDITED"]
  /\ ledger' = [ledger EXCEPT !.credited = @ + CreditVoucher]
  /\ Finish(t)
  /\ UNCHANGED <<payments, archived, register>>

DeleteInvoice(t) ==
  /\ pc[t] = "locked" /\ Is(t, {"delete"})
  /\ DeleteAllowed(t)
  /\ invoice' = [Draft EXCEPT !.status = "DELETED"]
  /\ payments' = {}
  /\ Finish(t)
  /\ UNCHANGED <<ledger, archived, register>>

\* handleWebhook: a delivery seen before changes nothing; an event that
\* reports no payment, or a session already booked, is only recorded.
IgnoreEvent(t) ==
  /\ pc[t] = "repeated" /\ Is(t, {"webhook"}) /\ job[t].event \in marks
  /\ Finish(t)
  /\ UNCHANGED <<books, register>>

RecordEvent(t) ==
  /\ \/ pc[t] = "eventLocked" /\ job[t].event \notin PaidEvents
     \/ pc[t] = "repeated" /\ Is(t, {"webhook"}) /\ job[t].event \notin marks
  /\ marks' = marks \cup {job[t].event}
  /\ Finish(t)
  /\ UNCHANGED <<books, bankRows, sessions, method>>

\* BankImportBookingService.skip and removeSkipped.
SkipRow(t) ==
  /\ pc[t] = "keyed" /\ Is(t, {"skip"})
  /\ bankRows' = [bankRows EXCEPT ![job[t].row].skipped = @ + 1]
  /\ Finish(t)
  /\ UNCHANGED <<books, marks, sessions, method>>

RemoveSkipped(t) ==
  /\ pc[t] = "keyed" /\ Is(t, {"unskip"})
  /\ bankRows' = [bankRows EXCEPT ![job[t].row].skipped = 0]
  /\ Finish(t)
  /\ UNCHANGED <<books, marks, sessions, method>>

\* updateSettings, as far as the invoice sees it: the method may change while
\* the journal is empty.  The other vouchers of the company are not here.
ChangePolicy(t) ==
  /\ pc[t] = "started" /\ Is(t, {"policy"})
  /\ ledger = NoVouchers
  /\ method' \in {"INVOICE", "CASH"} \ {method}
  /\ Finish(t)
  /\ UNCHANGED <<books, marks, bankRows, sessions>>

----------------------------------------------------------------------------
(* Two requests that do not lock the row.                                  *)

\* createCheckoutSession and the first read of a reminder: findById in a
\* transaction of its own.
ReadInvoice(t) ==
  /\ pc[t] = "started" /\ Is(t, {"checkout", "remind"})
  /\ invoice.status # "DELETED"
  /\ Is(t, {"checkout"}) => Remaining(invoice) > 0
  /\ seen' = [seen EXCEPT ![t] = Stored]
  /\ Move(t, "read")
  /\ UNCHANGED <<books, register, locks, job, current>>

\* Stripe creates the session for the balance read before the call; the
\* session id is stored by a targeted update (the column is not modelled).
CreateSession(t) ==
  /\ pc[t] = "read" /\ Is(t, {"checkout"})
  /\ sessions[job[t].session] = 0
  /\ sessions' = [sessions EXCEPT ![job[t].session] = Remaining(Row(t))]
  /\ Finish(t)
  /\ UNCHANGED <<books, marks, bankRows, method>>

\* orderRepository.save of the detached copy: merge loads the row again ...
MergeLoad(t) ==
  /\ pc[t] = "read" /\ Is(t, {"remind"})
  /\ invoice.status # "DELETED"
  /\ current' = [current EXCEPT ![t] = Stored]
  /\ Move(t, "merging")
  /\ UNCHANGED <<books, register, locks, job, seen>>

\* ... and its flush waits for the row lock (foreign key of the new history
\* row), writes every column if any differs or the reminder date is new, and
\* makes the payments those of the copy (orphanRemoval, cascaded merge).
SaveMerged(t) ==
  /\ pc[t] = "merging"
  /\ rowHolder = NoRequest
  /\ invoice.status # "DELETED"
  /\ \/ invoice' = Row(t)
     \/ Row(t) = current[t].row /\ invoice' = invoice
  /\ payments' = (payments \ (current[t].payments \ seen[t].payments))
                   \cup (seen[t].payments \ current[t].payments)
  /\ Finish(t)
  /\ UNCHANGED <<ledger, archived, register>>

----------------------------------------------------------------------------

\* A guard of the handler refuses and the transaction rolls back.  (A merge
\* that finds the row deleted inserts a copy under a new id, which is another
\* invoice and not followed here.)
Refused(t) ==
  \/ /\ pc[t] = "locked"
     /\ \/ Is(t, {"issue", "email"}) /\ ~IssueAllowed(t) /\ ~NothingToIssue(t)
        \/ Is(t, {"pay", "webhook"}) /\ ~PaymentAllowed(t)
        \/ Is(t, {"refund"}) /\ ~RefundAllowed(t)
        \/ Is(t, {"credit"}) /\ ~CreditAllowed(t)
        \/ Is(t, {"delete"}) /\ ~DeleteAllowed(t)
  \/ pc[t] = "repeated" /\ Is(t, {"pay", "skip"})
  \/ /\ pc[t] = "started" /\ Is(t, {"checkout", "remind"})
     /\ invoice.status = "DELETED" \/ (Is(t, {"checkout"}) /\ Remaining(invoice) = 0)
  \/ pc[t] = "started" /\ Is(t, {"policy"}) /\ ledger # NoVouchers
  \/ pc[t] = "read" /\ Is(t, {"checkout"}) /\ sessions[job[t].session] # 0
  \/ pc[t] \in {"read", "merging"} /\ Is(t, {"remind"}) /\ invoice.status = "DELETED"

\* Faulty variant: a refused event is recorded all the same.
RefuseAndRecord(t) ==
  /\ Refused(t)
  /\ marks' = IF Is(t, {"webhook"}) THEN marks \cup {job[t].event} ELSE marks
  /\ Finish(t)
  /\ UNCHANGED <<books, bankRows, sessions, method>>
Refuse(t) == Refused(t) /\ Finish(t) /\ UNCHANGED <<books, register>>

\* Anything else that fails: a locked accounting date, SMTP, the audit row,
\* the connection, a crash of the server.
Abort(t) == pc[t] \in Waiting /\ Finish(t) /\ UNCHANGED <<books, register>>

Work(t) ==
  \/ LockEvent(t) \/ LockSession(t) \/ LockBankRow(t) \/ LockById(t)
  \/ IssueInvoice(t) \/ ReturnIssued(t) \/ RegisterPayment(t) \/ Refund(t)
  \/ Credit(t) \/ DeleteInvoice(t) \/ IgnoreEvent(t) \/ RecordEvent(t)
  \/ SkipRow(t) \/ RemoveSkipped(t) \/ ChangePolicy(t)
  \/ ReadInvoice(t) \/ CreateSession(t) \/ MergeLoad(t) \/ SaveMerged(t)
  \/ Refuse(t)

Quiet == (\A t \in Requests : pc[t] = "done") /\ UNCHANGED vars

Next == (\E t \in Requests : Begin(t) \/ Work(t) \/ Abort(t)) \/ Quiet

Spec == Init /\ [][Next]_vars

\* A request thread runs on, and a lock that stays free is granted.
FairSpec == Spec /\ \A t \in Requests : WF_vars(Work(t))

----------------------------------------------------------------------------
(* Properties.                                                             *)

AmountsOf(ps) == MapThenSumSet(LAMBDA p : p.amount, ps)

\* The journal says of the invoice what its row and its payment rows say:
\* what docs/subledger-control.md compares, for every order of the handlers
\* that lock the row (markInvoiceAsSent to createCreditInvoice).
BooksMatchInvoice ==
  /\ ledger.received = invoice.paid /\ AmountsOf(payments) = invoice.paid
  /\ ledger.refunded = invoice.refunded
  /\ ledger.credited = IF invoice.status = "CREDITED" THEN ledger.invoiced ELSE 0

\* An issued invoice is in the journal exactly when the invoice method is in
\* force: docs/systemdokumentation-bokforing.md, row "Kundfaktura med
\* faktureringsmetoden" (createInvoiceEntries).
IssuedInvoiceIsBooked ==
  ledger.invoiced = IF invoice.status \in Issued /\ method = "INVOICE" THEN Total ELSE 0

\* The status only moves forward, from a draft over the payments to the
\* credit note: a handler never writes back the status of an older read.
Rank(status) ==
  CASE status = "DRAFT" -> 0 [] status = "SENT" -> 1 [] status = "PARTIALLY_PAID" -> 2
    [] status = "PAID" -> 3 [] status \in {"CREDITED", "DELETED"} -> 4
StatusNeverMovesBack == [][Rank(invoice'.status) >= Rank(invoice.status)]_vars

\* A payment a client sends again, in whatever order the two arrive, is on
\* the invoice once (Order.hasPayment under the row lock).
PaymentSentOnceIsBookedOnce ==
  \A p, q \in payments :
    p.ref \in Refs /\ p.ref = q.ref /\ p.amount = q.amount => p = q

\* Once Stripe has had its answer, a paid event is booked: no delivery is
\* recorded without its payment (handleWebhook records last, in the
\* transaction of the booking).
RecordedEventIsBooked ==
  \A e \in PaidEvents \cap marks :
    Cardinality({p \in payments : p.ref = SessionOf[e]}) = 1

\* A row of the bank statement is booked once or skipped, never both, even
\* when two requests reserve it at the same time (BankImportBookingService).
BankRowUsedOnce == \A b \in BankRows : bankRows[b].booked + bankRows[b].skipped <= 1

\* The row, the journal, the events of Stripe and the rows of the bank agree:
\* the type, and the three conjuncts above, which TLC checks together.
InvoiceIsSound == TypeOK /\ IssuedInvoiceIsBooked /\ RecordedEventIsBooked /\ BankRowUsedOnce

\* An invoice that was issued or has journal rows is never deleted, not even
\* when a merge has written the draft status back (deleteInvoice).
IssuedIsNeverDeleted ==
  archived \/ ledger # NoVouchers => invoice.status # "DELETED"

\* Every request ends: keys are locked before the row, and only in the order
\* event, session, row or bank row, row.
EveryRequestEnds == \A t \in Requests : pc[t] \in Waiting ~> pc[t] = "done"

-----------------------------------------------------------------------------
(* Does not hold: see the README, section 5.                               *)

\* A payment that is registered stays registered.  OrderRepository.lockById
\* says "Lock the row before loading eager payment/history collections and
\* checking balances"; the two reminder handlers do not.
PaymentsAreKept == [][payments \subseteq payments']_vars
=============================================================================
