----------------------------- MODULE VatFiling -----------------------------
(***************************************************************************)
(* The declaration of one VAT period: vouchers posted in the period, its   *)
(* settlement voucher, the archived filing with its status and the voucher *)
(* of its payment.  Everything that posts takes the settings row lock;     *)
(* VatFilingService reads the filing and the report without a lock and     *)
(* takes it only when it books a payment.                                  *)
(*                                                                         *)
(* Voucher numbers, the period lock and other periods are module Posting.  *)
(***************************************************************************)
EXTENDS Integers, FiniteSets

CONSTANTS
  Requests,     \* the requests of a behaviour
  NoRequest,    \* "nobody holds the settings row"
  MaxVat,       \* bound: the VAT of the period, in kronor
  Kinds,        \* kinds of requests the behaviour has
  Threads       \* bound: requests in progress at once

AllKinds == {"post", "settle", "create", "update"}

ASSUME MaxVatAssumption == MaxVat \in Nat
ASSUME NoRequestAssumption == NoRequest \notin Requests
ASSUME KindsAssumption == Kinds \subseteq AllKinds /\ Threads \in Nat

VARIABLES
  vat,             \* VAT of the period, settlement vouchers left out
  settlements,     \* the settlement vouchers of the period
  payments,        \* the payment vouchers of the filing
  filing,          \* the row of vat_filings
  settingsHolder,  \* who holds the app_settings row lock
  pc,              \* how far each request has come
  job,             \* what it was asked to do
  seen             \* the filing it loaded or is about to insert, and for a
                   \* settlement its amount

books == <<vat, settlements, payments, filing>>
vars == <<books, settingsHolder, pc, job, seen>>

Statuses == {"DRAFT", "SUBMITTED", "PAID"}
Amounts == 0 .. MaxVat
Filings == [status: Statuses, vatToPay: Amounts]
Absent == [status |-> "absent", vatToPay |-> 0]
Vouchers == [by: Requests, amount: Amounts]

\* "late": the voucher is dated after the end of the period.
Jobs ==
  [kind: {"post"}, change: {-1, 1}, late: {FALSE}]
    \cup [kind: {"settle"}, late: BOOLEAN]
    \cup [kind: {"create", "update"}, status: Statuses \cup {""}, late: BOOLEAN]
NoJob == [kind |-> "none"]
Waiting == {"started", "loaded", "validated", "locked", "checked"}

TypeOK ==
  /\ vat \in Amounts
  /\ settlements \subseteq Vouchers /\ payments \subseteq Vouchers
  /\ filing \in Filings \cup {Absent}
  /\ settingsHolder \in Requests \cup {NoRequest}
  /\ pc \in [Requests -> Waiting \cup {"idle", "done"}]
  /\ job \in [Requests -> Jobs \cup {NoJob}]
  /\ seen \in [Requests -> Filings \cup {Absent}]

Init ==
  /\ vat = 0 /\ settlements = {} /\ payments = {}
  /\ filing = Absent
  /\ settingsHolder = NoRequest
  /\ pc = [t \in Requests |-> "idle"]
  /\ job = [t \in Requests |-> NoJob]
  /\ seen = [t \in Requests |-> Absent]

----------------------------------------------------------------------------
(* The guards.                                                             *)

Move(t, place) == pc' = [pc EXCEPT ![t] = place]
Is(t, kinds) == job[t].kind \in kinds

\* normalizeStatus: no status means a draft.
Normalized(t) == IF job[t].status = "" THEN "DRAFT" ELSE job[t].status

\* statusRank, validateStatusTransition.
Rank(status) == IF status = "PAID" THEN 2 ELSE IF status = "SUBMITTED" THEN 1 ELSE 0
Forward(t) == Is(t, {"update"}) => Rank(Normalized(t)) >= Rank(seen[t].status)

\* validateControlsBeforeFiling: the report of now, and a settlement voucher
\* if it has VAT.
ControlsPass(t) == Normalized(t) = "DRAFT" \/ vat = 0 \/ settlements # {}

PaymentDue(t) ==
  /\ Normalized(t) = "PAID" /\ seen[t].vatToPay # 0
  /\ (Is(t, {"create"}) \/ seen[t].status # "PAID")

\* createVatFilingPaymentEntry, before it locks the settings.
IsSettled(t) == settlements # {}

\* A second voucher of the period is refused.
PaymentIsNew(t) == payments = {}
SettlementAllowed(t) == vat # 0 /\ settlements = {}

\* requireUnlockedAccountingDate: no filed period on or after the date.
DateIsOpen(t) == job[t].late \/ filing.status \in {"absent", "DRAFT"}

\* Unique index vat_filings_period_unique.
\* Faulty variant: there is none, and the row of the period is replaced.
AlwaysUnique(t) == TRUE
PeriodIsUnique(t) == filing = Absent

----------------------------------------------------------------------------
(* The requests.                                                           *)

Begin(t) ==
  /\ pc[t] = "idle"
  /\ Cardinality({u \in Requests : pc[u] \in Waiting}) < Threads
  /\ \E j \in Jobs : j.kind \in Kinds /\ job' = [job EXCEPT ![t] = j]
  /\ Move(t, "started")
  /\ UNCHANGED <<books, settingsHolder, seen>>

\* create: findByPeriodFromAndPeriodTo finds nothing, and the report of now
\* becomes the amounts of the new filing.
ReadReport(t) ==
  /\ pc[t] = "started" /\ Is(t, {"create"})
  /\ filing = Absent
  /\ seen' = [seen EXCEPT ![t] = [status |-> "DRAFT", vatToPay |-> vat]]
  /\ Move(t, "loaded")
  /\ UNCHANGED <<books, settingsHolder, job>>

\* updateStatus: findById, without a lock.
FindById(t) ==
  /\ pc[t] = "started" /\ Is(t, {"update"})
  /\ filing # Absent
  /\ seen' = [seen EXCEPT ![t] = filing]
  /\ Move(t, "loaded")
  /\ UNCHANGED <<books, settingsHolder, job>>

Validate(t) ==
  /\ pc[t] = "loaded"
  /\ Forward(t) /\ ControlsPass(t)
  /\ Move(t, "validated")
  /\ UNCHANGED <<books, settingsHolder, job, seen>>

\* requireUnlockedAccountingDate, of a posting, a settlement or a payment.
\* Faulty variant: the settings are read without the lock.
NeverWait(t) == TRUE
LockIsFree(t) == settingsHolder = NoRequest

LockSettingsForAccounting(t) ==
  /\ \/ pc[t] = "started" /\ Is(t, {"post", "settle"})
     \/ pc[t] = "validated" /\ PaymentDue(t) /\ IsSettled(t)
  /\ LockIsFree(t)
  /\ DateIsOpen(t)
  /\ settingsHolder' = t
  /\ Move(t, "locked")
  /\ UNCHANGED <<books, job, seen>>

\* createVatSettlementEntry: the report, and no settlement voucher yet.
CheckSettlement(t) ==
  /\ pc[t] = "locked" /\ Is(t, {"settle"})
  /\ SettlementAllowed(t)
  /\ seen' = [seen EXCEPT ![t] = [status |-> "DRAFT", vatToPay |-> vat]]
  /\ Move(t, "checked")
  /\ UNCHANGED <<books, settingsHolder, job>>

\* createVatFilingPaymentEntry: no payment voucher yet.
CheckPayment(t) ==
  /\ pc[t] = "locked" /\ Is(t, {"create", "update"})
  /\ PaymentIsNew(t)
  /\ Move(t, "checked")
  /\ UNCHANGED <<books, settingsHolder, job, seen>>

Finish(t) ==
  /\ settingsHolder' = IF settingsHolder = t THEN NoRequest ELSE settingsHolder
  /\ job' = [job EXCEPT ![t] = NoJob]
  /\ seen' = [seen EXCEPT ![t] = Absent]
  /\ Move(t, "done")

\* Any voucher of the period that carries VAT, a credit included.
CommitVoucher(t) ==
  /\ pc[t] = "locked" /\ Is(t, {"post"})
  /\ vat + job[t].change \in Amounts
  /\ vat' = vat + job[t].change
  /\ Finish(t)
  /\ UNCHANGED <<settlements, payments, filing>>

CommitSettlement(t) ==
  /\ pc[t] = "checked" /\ Is(t, {"settle"})
  /\ settlements' = settlements \cup {[by |-> t, amount |-> seen[t].vatToPay]}
  /\ Finish(t)
  /\ UNCHANGED <<vat, payments, filing>>

\* The row is inserted, or every column of the copy written back, and with
\* it the payment voucher if one was due.
Stored(t) == [seen[t] EXCEPT !.status = Normalized(t)]

CommitFiling(t) ==
  /\ \/ pc[t] = "validated" /\ ~PaymentDue(t) /\ UNCHANGED payments
     \/ /\ pc[t] = "checked" /\ Is(t, {"create", "update"})
        /\ payments' = payments \cup {[by |-> t, amount |-> seen[t].vatToPay]}
  /\ Is(t, {"create"}) => PeriodIsUnique(t)
  /\ filing' = Stored(t)
  /\ Finish(t)
  /\ UNCHANGED <<vat, settlements>>

\* A guard throws, or a voucher is outside the bound, and the transaction
\* rolls back.
Refused(t) ==
  \/ pc[t] = "started" /\ Is(t, {"create"}) /\ filing # Absent
  \/ pc[t] = "started" /\ Is(t, {"update"}) /\ filing = Absent
  \/ pc[t] = "loaded" /\ ~(Forward(t) /\ ControlsPass(t))
  \/ pc[t] = "validated" /\ PaymentDue(t) /\ ~IsSettled(t)
  \/ pc[t] = "locked" /\ Is(t, {"settle"}) /\ ~SettlementAllowed(t)
  \/ pc[t] = "locked" /\ Is(t, {"create", "update"}) /\ ~PaymentIsNew(t)
  \/ pc[t] \in {"validated", "checked"} /\ Is(t, {"create"}) /\ ~PeriodIsUnique(t)
  \/ pc[t] = "locked" /\ Is(t, {"post"}) /\ vat + job[t].change \notin Amounts
  \/ pc[t] = "started" /\ Is(t, {"post", "settle"}) /\ ~DateIsOpen(t)
  \/ pc[t] = "validated" /\ PaymentDue(t) /\ ~DateIsOpen(t)
Refuse(t) == Refused(t) /\ Finish(t) /\ UNCHANGED books

\* Critical control issues, a locked period, a failing write, a crash.
Abort(t) == pc[t] \in Waiting /\ Finish(t) /\ UNCHANGED books

Quiet == (\A t \in Requests : pc[t] = "done") /\ UNCHANGED vars

Next ==
  \/ \E t \in Requests :
       \/ Begin(t) \/ ReadReport(t) \/ FindById(t) \/ Validate(t)
       \/ LockSettingsForAccounting(t) \/ CheckSettlement(t) \/ CheckPayment(t)
       \/ CommitVoucher(t) \/ CommitSettlement(t) \/ CommitFiling(t)
       \/ Refuse(t) \/ Abort(t)
  \/ Quiet

Spec == Init /\ [][Next]_vars

----------------------------------------------------------------------------
(* Properties.                                                             *)

\* A period is settled once, although two requests may look for its
\* settlement at the same time ("VAT period already has a settlement
\* voucher").
SettledOnce == Cardinality(settlements) <= 1

\* A settlement clears what the period holds when it commits: nothing is
\* posted between its report and its voucher (createVatSettlementEntry).
SettlementIsOfThePeriod ==
  [][\A s \in settlements' \ settlements : s.amount = vat /\ s.amount # 0]_vars

\* The tax is paid once, although filings may be created and marked as paid
\* at the same time ("VAT filing already has a payment voucher").
PaidOnce == Cardinality(payments) <= 1

\* The voucher pays what the filing of the period says, whichever of two
\* filings created at once remains.
PaymentIsOfTheFiling ==
  \A p \in payments : filing # Absent /\ p.amount = filing.vatToPay

\* What createVatFilingProofReport demands of a paid filing: "VAT filing is
\* marked as paid/refunded but the payment voucher is missing" never shows.
PaidFilingHasVoucher ==
  filing.status = "PAID" /\ filing.vatToPay # 0 => payments # {}

\* Nothing is paid before it was settled, a filing whose VAT was credited
\* after it was drafted included (createVatFilingPaymentEntry).
PaymentFollowsSettlement == payments # {} => settlements # {}

-----------------------------------------------------------------------------
(* Does not hold: see the README, section 5.                               *)

\* validateStatusTransition: "VAT filing status cannot move backwards.
\* Create a correction note instead of downgrading the filing."
StatusNeverMovesBack == [][Rank(filing'.status) >= Rank(filing.status)]_vars
=============================================================================
