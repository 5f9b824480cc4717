# AliBooks in TLA+

AliBooks is a bookkeeping program for a small Swedish company: a Spring Boot server
over one PostgreSQL database (`backend/`), a React client that keeps drafts and a
good part of the control logic in the browser (`frontend/`), and scripts that back the
books up (`scripts/`). This directory holds TLA+ models of the three, the TLC runs that
check them, and TLAPS proofs about them. Paths below are relative to `src/`; Java files
are in `backend/src/main/java/se/cloudshop/`, `main.jsx` is `frontend/src/main.jsx`.

What is hard about the server is the concurrency of requests: each is one transaction at
READ COMMITTED, several touch the same rows, JPA keeps rows it read earlier, and some
handlers read before they lock, or never lock. No entity has a version column. What is
hard about the client is that nothing is cancelled and nothing is ordered: handlers go on
after an answer with the state they were called with, and lists of the browser become
documents of the server. What is hard about the backups is that a database and a
directory of receipts are copied one after the other.

## 1. Inventory

| Component | State it keeps | Operations | Talks to | What must hold |
|---|---|---|---|---|
| Posting (`accounting/AccountingService`, `VoucherNumberService`) | journal rows, numbered per series | one handler per kind of voucher: invoice, payment, refund, credit, supplier, expense, Stripe, owner, manual, correction, VAT, payroll | settings lock, series lock, every register | numbers gapless and unique, nothing dated in a locked period, one accounting method |
| Settings (`settings/SettingsService`) | row 1: lock date, method, company | read, update, lock for accounting, move the lock date | everyone | the lock date only moves forward; method fixed once there are vouchers |
| Period lock (`AccountingPeriodLockService`) | none of its own | check, close | settings, reports, approvals | a locked period was complete and reviewed, and stays so |
| Voucher approval (`VoucherApprovalService`) | one review per voucher number | update, delete | posting (date check) | final once the date is locked |
| VAT filing (`VatFilingService`) | one filing per period: DRAFT, SUBMITTED, PAID | create, change status, settle, pay | posting, date check | one settlement, one payment, both of what was declared |
| Customer invoices (`order/`, `invoice/`) | invoice row, payments, archived original | create, issue, pay, refund, credit, delete, remind | posting, Stripe, bank import, e-mail | journal equals invoice; never overpaid; an issued invoice stays issued |
| Stripe (`payment/`) | checkout session, events seen | create session, webhook | invoices | one booking per event and session |
| Bank (`bank/`, `main.jsx` 6802-7300) | rows of a file in the page, one history entry per row | read a file, book, skip, take back, match | invoices, suppliers, expenses | a row is handled once, and none is hidden unhandled |
| Supplier invoices (`supplier/`) | invoice row, payments, status | create, status, pay, cancel, delete | posting, bank | payable in the journal equals the invoice |
| Payroll (`main.jsx` 11700-13100, `payroll/`) | drafts, payments and tax marks in the browser; a snapshot and its revisions | draft, book, pay, settle tax, save, load, restore | posting | what a copy marks as booked is booked; the snapshot is never replaced by an empty page |
| Workspace (`main.jsx` 2300-6800, 14200-14400) | some thirty registers, the token, the view | load, patch, switch view, sign in and out, recover | every controller | a patient user sees the own changes; an expired session ends |
| Document conversion (`main.jsx` 3560-5060, 7824-8150) | quotes, jobs, claims, SIE vouchers, Bokio rows of the browser | make an invoice, voucher or expense of it | orders, expenses, manual vouchers | one document per item, a claim of the paid invoice |
| Control centres (`main.jsx` 14641-26189) | verdicts of a render; month lock, client backup | judge, lock the month, download and validate a backup | period check of the server | a period that may be locked is complete; the centres agree |
| Backups (`scripts/backup-*.mjs`, `verify-backup-bundle.mjs`) | a package: dump, receipts, manifest | back up, verify, certify | database, receipts volume | a certified package restores, and is what was backed up |
| Payouts, owner transactions, card purchases, contracts, expenses | one row per item, booked or not | create, book, change status, delete | posting | booked once |
| E-mail (`email/`, `reminder/`) | delivery attempts | start, sent, uncertain, resolve | SMTP, invoices | never resent blindly |
| Authentication (`auth/`) | login attempts, MFA challenges, recovery codes | login, enrol, verify | every controller | one use per challenge and code |
| Audit, reports, exports, schema patch, money arithmetic, AI, admin | see `PROJECT.json` | | | |

Hard behaviours, each at its line, are the `hazards` of `PROJECT.json`.

## 2. Plan and order

The server's money first, then what the client adds to it, then the copies of it:

1. `Posting` with `Books` and `PostingBooks`: the transaction every handler shares.
2. `Invoice` with `Receivable` and `InvoiceReceivable`; `Supplier`; `VatFiling`.
3. `Payroll`, `BankImport`, `Conversion`, `Workspace`: the client and its requests.
4. `Ledger`, `Closing`, `DataBackup`, `Centres`, `Gates`, `Controls`, `Readiness`: what
   the client concludes from the books, and the month lock it offers.
5. `Restore`, `RestoreDrills`, `Backup`: what is copied, and what is accepted as a copy.

Abstract specifications: `Books` is the ledger as single steps on committed rows,
`Receivable` what the books promise about one invoice. Both are checked as PROPERTY of
the detailed specification and proved.

All of this is done. What could follow, in order: the registers of the server that read
an item before they lock (card purchases, owner transactions, annual result), e-mail
attempts with a crash between SMTP and the row, login attempts and MFA challenges.

## 3. The modules

### Posting, Books, PostingBooks

A request of `Posting` is one transaction. `pc` says how far it is, `job` what it was
asked, `seen` the settings row in its persistence context, `number` and `pending`
what it has not committed. The committed state is `settings` (lock date and method),
`journal`, `approved` and `filedThrough`.

| Code | Actions |
|---|---|
| a posting handler (`createInvoiceEntries`, ...) | `Begin`, `LockSettingsForAccounting`, `RequireUnlockedAccountingDate`, `NextVoucherNumber`, `SaveVoucher`, `PostAnother`, `CommitPosting` |
| `AccountingPeriodLockService.closePeriod` | `LockSettingsForAccounting`, `CheckPeriod`, `CommitClosing` |
| `SettingsService.updateSettings` | `LockSettingsForAccounting`, `ValidateAccountingPolicyChange`, `CommitPolicy` |
| `VoucherApprovalService.update`, `delete` | `FindVoucher`, then the lock and the date check when the voucher has rows, `CommitReview` |
| `VatFilingService.create`, `updateStatus` as postings see them | `ValidateFiling`, `CommitFiling` |
| a guard that throws; any other failure, a crash | `Refuse`; `Abort` |

The settings row is read once before the lock (`Begin`) because JPA returns the cached
row afterwards; `RefreshedSettings` is the `refresh(PESSIMISTIC_WRITE)` that undoes
this. `Books` is the abstract ledger: postings, closings, policy choices and reviews as
single steps on committed rows. `PostingBooks` instantiates it with the committed
variables of the same names; a transaction is one `Books` step, at its commit.

Abstracted: a voucher is its series, number, date and method; which accounts it debits
is not here. Reviews are approved or not. Of the blockers of `checkPeriod` the two that
are state of the model are kept; the rest compare amounts.

### Invoice, Receivable, InvoiceReceivable

`Invoice` is one invoice with everyone who writes it. The row (`invoice`, `payments`),
its journal rows as sums per kind of voucher (`ledger`), the archived original, the
Stripe marks, the bank rows, and the locks: `rowHolder` is the row lock of
`OrderRepository.lockById`, `keyHolder` the advisory locks of events, sessions and
bank rows.

| Code | Actions |
|---|---|
| `markInvoiceAsSent`, `sendInvoiceEmail` | `LockById`, `IssueInvoice` or `ReturnIssued` |
| `markInvoiceAsPaid`, from a client or from a bank row | `LockBankRow`, `LockById`, `RegisterPayment` |
| `markInvoiceRefunded`, `createCreditInvoice`, `deleteInvoice` | `LockById`, `Refund`, `Credit`, `DeleteInvoice` |
| `StripePaymentService.createCheckoutSession` | `ReadInvoice`, `CreateSession` |
| `StripePaymentService.handleWebhook` | `LockEvent`, `LockSession`, `LockById`, `RegisterPayment`, `IgnoreEvent`, `RecordEvent` |
| `BankImportBookingService.skip`, `removeSkipped` | `LockBankRow`, `SkipRow`, `RemoveSkipped` |
| `markInvoiceReminderSent`, `markInvoiceReminderDraftOpened` | `ReadInvoice`, `MergeLoad`, `SaveMerged` |
| `SettingsService.updateSettings`, of the method | `ChangePolicy` |

A handler that locks the row does the rest in one step: nobody else who locks the row
can act between its load and its commit, and the reminders, which do not lock it, read
only committed rows and wait with their flush. `Receivable` is what the books promise
about an invoice (issued once, paid within its amount, credited, refunded within what
was paid); `InvoiceReceivable` maps the row and the journal sums to it.

Abstracted: an amount is a small number of kronor, VAT and accounts are left out; a
payment reference stands for reference and date, the pair `Order.hasPayment` compares;
the statuses of approval before sending are a draft; the checkout session id stored on
the row and the reminder history are left out; the credit note is a row of its own and
not followed; a reminder that merges onto a deleted row inserts a new invoice, which is
not followed either. Dates, numbers and period locks are `Posting`.

### Supplier

`Supplier` is the invoices of one supplier. `invoices` holds each row with its payments,
`ledger` its journal rows per kind: the booking voucher, payment vouchers with the
amounts of the lines that carry the reference, the cancellation, and corrections by
voucher number, which carry no link to the invoice. `rowHolder` is
`SupplierInvoiceRepository.lockById`, `voucherHolder` the rows of the booking voucher,
`settingsHolder` the settings row.

| Code | Actions |
|---|---|
| `createSupplierInvoice` | `LockSettingsForAccounting`, `CheckReference`, `StoreInvoice` |
| `updateSupplierInvoiceStatus` | `LockById`, `LockSettingsForAccounting`, `RegisterPayment` for "paid", otherwise `ChangeStatus` |
| `cancelSupplierInvoice` | `LockById`, `ReturnCancelled`, or `LockSettingsForAccounting`, `CancelInvoice` |
| `deleteSupplierInvoice` | `LockById`, `Refuse` |
| `createCorrectionEntry` of a booking voucher | `FindVoucher`, `LockSettingsForAccounting`, `CorrectVoucher` |
| `SettingsService.updateSettings`, of the method | `LockSettingsForAccounting`, `ChangePolicy` |

Abstracted: all invoices have one amount, VAT is only the constant `NetOf`, the amount
without VAT that is a line of its own under the cash method; a payment reference stands
for reference and date; that one text contains another is the relation `Within`. Only
the booking voucher is corrected; dates and numbers are `Posting`.

### VatFiling

`VatFiling` is one VAT period: `vat` is what `createVatReport` sums (settlement vouchers
left out), `settlements` and `payments` the two kinds of vouchers it looks for by their
text, `filing` the row of `vat_filings`.

| Code | Actions |
|---|---|
| any handler that posts VAT in the period | `LockSettingsForAccounting`, `CommitVoucher` |
| `createVatSettlementEntry` | `LockSettingsForAccounting`, `CheckSettlement`, `CommitSettlement` |
| `VatFilingService.create` | `ReadReport`, `Validate`, `CommitFiling`; when paid at once `LockSettingsForAccounting`, `CheckPayment` before it |
| `VatFilingService.updateStatus` | `FindById`, `Validate`, then the same |

`ReadReport` and `FindById` hold no lock: what they read may be old when `CommitFiling`
writes it. Abstracted: the VAT of the period is one amount between 0 and `MaxVat` (a
period that gets money back differs only in its accounts), a date is in the period or
after it, and the critical control issues that stop a filing are an `Abort`.

### Payroll

`page[c]` is the payroll state of browser `c` (employees, drafts, batches, what is marked
as paid or taxed), which is also its localStorage; `stored` and `revisions` are the two
tables of `PayrollSnapshotController`, `vouchers` what the server has booked, in order.
Requests in flight are sets: `bookings`, `saves`, `loads`.

| Code (`main.jsx`) | Actions |
|---|---|
| `savePayrollEmployee`, `removePayrollEmployee`, `handleSavePayrollDraft`, `deletePayrollDraft`, `downloadPayrollBankPaymentCsv`, `markPayrollPaymentBatchPaid`, `updatePayrollPaymentStatus` | `SaveEmployee`, `RemoveEmployee`, `CreateDraft`, `DeleteDraft`, `CreateBatch`, `MarkBatchPaid`, `TickPaid` |
| `bookPayrollDraft`, `bookPayrollReportMonth`, `bookPayrollTaxAccountTransfer`, `bookPayrollTaxSettlement` | `BookDraft`, `BookMonth`, `BookTax`; the server's `PostVoucher`, `RefuseVoucher`; `AnswerBooking`, `AnswerTax`, `LoseConnection` |
| `savePayrollSnapshotToDatabase`, the auto save effect, `PUT /payroll/snapshot` | `SaveNow`, `Autosave`; `StoreSnapshot`, `StopSave` |
| `loadPayrollSnapshotFromDatabase`, `restorePayrollSnapshotRevision` | `LoadNow`, `ReadSnapshot`, `AnswerLoad`, `FailLoad`, `Restore` |
| the token, the auto sync box, reload, `clearLocalPreferences` | `SignInOrOut`, `SwitchAutoSync`, `ReloadPage`, `ClearLocalPreferences` |

React runs an effect right after the change it depends on, so an action is a handler
with the effects of its change. A salary and its tax are whole percents
(`PayrollCalculation`); pay slips and the tax file are output.

### BankImport

`readers` are files being read and hashed, `rows` and `skipped` what each page shows,
`entries` the table `bank_reconciliation_entries`. A row's identity is its content and
how often it came before in its file (`identifyBankRows`).

| Code | Actions |
|---|---|
| `handleBankCsvUpload` | `ChooseFile`, `ParseFile`, `ShowRows`, `RejectFile` |
| `registerBankImportPayment`, `createExpenseFromBankImport`, `skipBankImportRow`, `restoreSkippedBankImportRow` | `Book`, `skipBankImportRow`, `restoreSkippedBankImportRow`, `Answer`, `LoseAnswer` |
| `BankImportBookingService.reserve`, `record`, `skip`, `removeSkipped` | `Lock`, `Reserve`, `Record`, `RemoveSkipped`, `Refuse` |

### Conversion

One item of the browser (`item`), the documents the server made of it, and the requests
in flight. Items do not depend on one another, so a behaviour follows one of the five
kinds: quote, job, RUT/ROT job, SIE voucher, Bokio row.

| Code (`main.jsx`) | Actions |
|---|---|
| `updateQuoteStatus`, `updateServiceJobStatus`, `updateBokioImportRow`, delete, choosing a file | the actions of these names, `RemoveItem`, `ChooseEvidence` |
| `markServiceJobCustomerPaid`, `markServiceJobRutRotRequested`, `...Received` | the actions of these names |
| `createInvoiceFromQuote`, `createInvoiceFromServiceJob`, `createManualVoucherFromSie`, `createExpenseFromBokioImport` | `Convert` with the guard of that name; `Commit`, `Refuse`, `Answer`, `AnswerReceipt`, `LoseConnection` |

### Workspace

The page as a cache of the server. `Loaders` says of each of thirty registers what its
loader does with an answer, a refusal and a lost connection; `EffectsOn` says which
handlers touch it, whether they patch it and which loaders they call. A behaviour
follows one register (`watched`) through everything that touches it; what it shows is the
set of changes it was read with, or the word for an empty, refused or broken state.

| Code (`main.jsx`) | Actions |
|---|---|
| a loader | `Calling`; `ReadLoad`, `RefuseLoad`, `AnswerLoad`, `AnswerRefused`, `FailLoad`, and `AnswerParent`, `FailParent` where another loader calls it |
| a handler | `Send`, `Commit`, `AnswerPost`, `FailPost` |
| mount, its effects, `handleAuth`, `confirmMfaSetup`, `clearAuthenticatedState`, the session timer | `Start`, `SignIn`, `RenewToken`, `SignOut`, `SessionExpired`, `Expire` |
| the error boundary | `Crash` |
| views, period, refresh buttons, reload | `SwitchView`, `ChoosePeriod`, `Refresh`, `ReloadPage` |
| other pages and the scheduler | `OthersChange` |

### Ledger, Closing, DataBackup, Centres, Gates, Controls, Readiness

Each extends the one before. `Ledger` has the vouchers with the accounts they debit and
credit, and the figures computed from them; `Facts(d)` is everything the check lists ask
of the page, under the names of the code. `Closing`, `Centres`, `Gates` and `Controls`
are the lists themselves, one operator per list, one field per row. `DataBackup` is the
JSON backup of the client. `Readiness` is the state machine: `d` is the data of the page,
`verdicts` those of its last render, and `ReadinessNext == Act /\ verdicts' = Render(d')`.
`Render` keeps the order of the lines, in stages from `RenderClose` to `RenderPlan`, each of
which adds its verdicts to those before (`With`): a list that reads a verdict above its
computation sees the declared value.

| Code | Actions |
|---|---|
| the handlers that book, upload a receipt, approve or reopen | `Book`, `UploadReceipt`, `Approve`, `Reopen` |
| the statement balance, the period check | `EnterStatement`, `AskPeriodCheck`, `LosePeriodCheck` |
| `downloadDataBackupJson`, `validateBackupFile` | `DownloadBackup`, `ValidateBackup` |
| `closeSelectedAccountingPeriod`, and the server's `checkPeriod` | `CloseMonth` |
| anything else that fills or empties a list | `Change` |

Abstracted: each kind of voucher is there once, with amounts of one sale, one purchase,
one asset and one budget; there are two months and a horizon of 30 days; the verdicts
"good" and "ok" are one; the year lock is a fact of the page; nothing is booked into a VAT
period that was settled; an "approved" decision on a voucher that the chain calls
critical is left out. A code of a client backup is the value it is computed from.

### Restore, RestoreDrills, Backup

`Restore` is what `backup-restore-verify.mjs` asks of a restored database, guard by guard;
`RestoreDrills` the damaged databases of `backup-restore-test.mjs`. `Backup` is a package
directory, the log of the source database, the receipts volume, and one script at a time.

| Code | Actions |
|---|---|
| a server that was not stopped (`ExpenseController`) | `CreateExpense`, `StoreReceipt`, `CommitReceipt`, `DropReceipt`, `UpdateRow`, `Checkpoint` |
| `createLocalBundle`, `createProductionBundle` | `StartLocal`, `StartProduction`, `CountSource`, `MakeDirectory`, `DumpDatabase`, `ListReceipts`, `CopyReceipt`, `EndCopy`, then the verification, `CompareWithSource`, `WriteManifest` |
| `verifyBackup` in its isolated PostgreSQL | `CreateContainer`, `NotReadyYet`, `Ready`, `RestoreDump`, `RestoreReceipts`, `Judge` |
| `verifyBackupBundle` | `StartCheck`, the verification, `Accept` |
| any throw | `Stop` |
| disks and operators | `DamageReceipt`, `DamageDump`, `MixDumps`, `RemoveDirectory` |

What a dump holds is one state of the log; PostgreSQL, docker and the hashes are modelled
from how the scripts use them.

## 4. What the runs check

| Run | Bounds | Shows |
|---|---|---|
| `posting_numbers` | 3 requests of any kind, 2 series, 2 dates, 2 methods, 2 vouchers per request, one number reviewed early | numbers gapless and unique, one method, nothing posted into a locked period |
| `posting_books` | 3 requests, 2 series, 1 date, 2 methods, 2 vouchers per request, no early review | a locked period stays reviewed; committed rows implement `Books`; every request ends |
| `invoice_books` | 5 requests of every kind that locks the row and the checkout, 3 at once, 1 bank row, 1 session with 2 paying events and 1 other | journal equals invoice; issued means booked; a payment sent again, an event or a bank row used again is booked once; the status never moves back; `Receivable` implemented |
| `invoice_live` | 3 requests of all kinds, all at once, merges and policy changes included | every request ends; an issued invoice is never deleted, whatever the merges write back |
| `supplier_books` | 5 requests of all kinds, 2 at once, 2 invoices of 2 kronor, 2 references that do not contain each other, no VAT | the payable is never overdrawn; payments are in the journal and registered once; a reference is used once; the status says what was paid; a cancelled invoice is final |
| `vat_books` | 5 requests of all kinds, 2 at once, up to 2 kronor of VAT, dates in and after the period | a settlement is of what the period holds, a payment is of the filing |
| `payroll_copies` | 1 browser, 1 employee, 1 month, 4 user actions, 2 requests in flight | what any copy marks as booked is booked; the snapshot is in its history; an unread page is never saved by itself |
| `bank_import` | 2 pages, 2 files over two equal rows, 5 user actions, 2 requests in flight | one entry per row; the rows shown are of the file chosen last; no row is hidden unhandled |
| `conversion` | all 5 kinds of items, 7 user actions, 2 requests in flight | one voucher per SIE voucher unless an answer was lost; the button comes back; a claim is of the paid invoice |
| `workspace` | the 13 lists a user fills and 7 other registers, 1 change, 2 user actions, 2 loads and 2 handlers in flight | the trial balance is of the newest request; a patient user sees the own changes; an expired session ends |
| `readiness` | limited company; invoice, payment, expense, VAT settlement; 5 lists that change; 2 changes besides booking | a closed month stays complete; what may be locked is complete; unbalanced books are nowhere calm; gates agree; repairs never hurt |
| `backup` | 1 expense, 2 files, 3 states of the database, all drills, 2 scripts, 1 fault, 2 probes | certified packages restore, are of their position and are left alone; what is accepted is what was backed up |

The server runs and the client runs check for deadlock; a behaviour that has used up its
requests or clicks stutters in `Quiet`. `readiness` and `backup` do not: a user who has
booked everything, and scripts that were all run, stop.

Why the bounds are enough. On the server two requests make every race here (read against
commit, two locks in two orders); the third to fifth supply the state the race needs: a
voucher to review, an invoice to pay, its longest life of issue, pay, pay, credit, refund.
Two dates give a closed and an open one, two series the orders in which series locks can
be taken; an amount of 2 kronor gives a part payment, a full payment and an overpayment;
two events for one session give the repeated event and the repeated session. In the
client two requests in flight give every order of two answers; four actions on the
payroll reach draft, book, save and restore, five on a bank file choose, choose again,
skip, restore and book, seven on an item both conversions with a status change between
them. Two pages make the races for a bank row. In `readiness` every
verdict is a function of the data, so what matters is that each list of the page is
filled and empty with each stage of the books; two changes give every pair of them.
`canBeLocked`, `readyForReports` and a gate to real data without critical rows are all
reached. In `backup` one expense with two files gives a receipt, its replacement and an
orphan; three states of the log give a writer between any two steps.

`supplier_books` takes references that do not contain each other and net amounts that
equal no other payment; section 5 says what happens otherwise. `invoice_books` leaves the
reminders and policy changes to `invoice_live`.

Symmetry over requests or pages is used in safety runs where no property names one. The
liveness runs have none.

Fairness: in `Posting` and `Invoice`, `WF` of `Work(t)` for each request. A servlet thread
runs on, and PostgreSQL grants a row or advisory lock that stays free; requests are
finite, so nobody is overtaken for ever. No fairness is given to a request's arrival, to
`PostAnother` or to `Abort`. In `Workspace`, `WF` of `Start`, `Crash` and `SessionExpired`:
a browser starts a page it loads, shows the error boundary when a render throws, and runs
the timers of an open page. No answer of the network is fair.

## 5. What does not hold

The properties under the heading "Does not hold" at the end of a module are what a doc, a
comment or a test of the repository says and the model refutes; add one to a run of its
module to see the behaviour (`MCSupplier.MCWithin` and `MCPayroll.DraftKinds` are there
for it).

- `Posting.NoPostingIntoFiledPeriod`: `docs/berakningskontroll.md:14` wants no posting
  into a declared period. `requireUnlockedAccountingDate` (AccountingService:3622) reads
  the last filing once; `VatFilingService` takes no lock, so a filing may commit between
  that read and the commit of the voucher.
- `Posting.LockedReviewsAreFinal`: `VoucherApprovalServiceTest:56` wants the review of a
  voucher in a locked period refused. For a number without rows
  `requireVoucherApprovalEditable` (line 62) checks nothing and takes no lock.
- `Invoice.PaymentsAreKept`: `OrderRepository:16` says to lock before balances are
  checked. The two reminder handlers (OrderController:337, 391) save a detached copy:
  status and amount fall back, and orphan removal deletes payments that arrived meanwhile.
- `Supplier.PaymentsAreBooked` with references that contain each other
  (`Within <- MCWithin`): `hasSupplierInvoicePaymentEntry` (AccountingService:611) looks
  for the reference as a part of the text, so a payment "A1" is taken for "A10" of the
  same date and amount and is registered without rows.
- `Supplier.ReversedOnce`: `docs/money-safety.md:277` promises one reversal.
  `createSupplierInvoiceCancellationEntries` (646) looks only at rows linked to the
  invoice; the rows of a correction carry no link.
- `VatFiling.StatusNeverMovesBack`: `VatFilingServiceTest:94`. `updateStatus` (54) reads
  without a lock; of two updates the later one writes its older copy back.
- `Payroll.BookedPayrollIsKept`: `deletePayrollDraft` refuses booked drafts, but a draft
  may be deleted while its booking is on the way.
- `Workspace.RecoversOnce`: the flag that allows one automatic reload is removed when the
  page mounts, so a refused `/reminders`, whose answer is used as a list, reloads for ever.
- `Readiness.CriticalCalculationsBlockTheLock`: the blocker at `main.jsx:18080` reads
  `calculationCriticalCount`, declared 0 at 14683 and assigned at 18951; the list never
  has that row. `legalArchiveItems` reads two risk lists before they are computed too.

What else showed while the models were written, and bounds what the runs say:

- Server: "partial" is accepted for a supplier invoice without payments, and the payables
  report then stops (`PayablesReportService:105`); the method may change under an invoice
  issued under the cash method, which leaves no rows (`SettingsService:115`).
- Client requests: `createVatSettlementVoucher` (2984) sends its JSON without a content
  type and is refused with 415; refresh buttons hand the click event to a loader as its
  token (35881, 35903, 36355, 36674, 38709, 28393), which empties the list. Of the loaders
  only the trial balance has a request number: late answers show an older period, another
  user's data after a sign-out, or drop a row just added.
- Conversion: `createInvoiceFromServiceJob` goes on with a null invoice when it was refused
  (4999); quotes, jobs and Bokio rows have no guard while a request is on its way, so a
  second click makes a second document, and a lost receipt upload leaves its row unmarked;
  a received claim can be reset and made again; a deleted quote frees its number (3573).
- Bank files: `normalizeBankImportMatchText` removes all blanks (6977); a restore that is
  answered after another file was chosen adds a row of the older file.
- Verdicts: account 2641 is expected on the credit side (17261) where the server expects
  debit (AccountingService:1743), so unsettled input VAT blocks the lock; annual expenses
  include 8999, so the result row is never in order; `taxPlanOverdueCount` (18073) counts
  done items; a reserve plan with nothing to reserve is called tight (19217); rows that
  compare a sum with itself cannot fail. The period check of the server and a validated
  backup stay "ok" after later bookings. A downloaded backup is called verified without
  the audit count that `validateBackupFile` asks for (13840).
- Assets: preparing a depreciation never marks it booked (4304), and a small monthly
  depreciation rounds to zero (4207).
- Backups: a dump that rots after its verification is certified with its new hash; the
  local script compares row counts only.

Client and server read the month differently: the client judges the ledger of the year,
the server the rows up to the end of the month, and vouchers dated later are in one but
not in the other. `ReadyPeriodIsComplete` therefore claims receipts, approvals and
balance, not the signs of the accounts. A page without any data is vacuously ready for
reports.

## 6. What is proved

Each component follows one argument: an inductive invariant `IInv`, `Init => IInv`,
one lemma per part of it that a step may disturb, `SpecIInv`, and the properties from it.
`TransferProofs` holds those of two components that share no state, and so does
`ClientProofs`; the specification and the invariant of the second are `BackupSpec` and
`BackupIInv`, `ReadinessSpec` and `ReadinessIInv`.

| Module | The invariant needs, beyond the properties | Proved for all values of the constants |
|---|---|---|
| `PostingProofs` | a transaction past the lock is the one holder; only the holder has pending vouchers; what it checked still holds; numbers dense with the pending ones counted in | `GaplessNumbers`, `OneMethod`, `NoPostingIntoLockedPeriod`, the lock date never back, series locked under the settings row, numbers never refused; with `UnpostedIds = {}`, `LockedPeriodIsReviewed` and the refinement `ImplementsBooks` |
| `VatFilingProofs` | a request past the settings lock holds it, and what it read of settlements, payments and filing under the lock is still so | settled and paid once, `PaymentIsOfTheFiling`, a paid filing has its voucher, payment follows settlement, `SettlementIsOfThePeriod` |
| `PayrollProofs` | `BookingsAreSound`: what a booking in flight has booked is for its purpose; `SavedPagesAreBased`; `RevisionsComeFirst` | `CopiesAreSound`, `StoredIsKept`, `AutosaveFollowsLoad`; a salary voucher balances for every salary and rate |
| `BankImportProofs` | `CurrentReaders`: the newest reader reads the chosen file; `RowLocks`: one request per row past the lock, and none has an entry; `DoneIsBooked`; `HiddenRows` | rows of a file have different identities; `OneEntryPerRow`, a booked entry stays, `ShownRowsAreOfTheChosenFile`, `HiddenRowIsHandled` |
| `InvoiceProofs` | `LockedCopyIsTrue`; `EventIsNew`, `RowIsUnused`: what was new under an advisory lock is new at the commit; `EventsFollowSessions`; `SessionsAreBooked`; `RowFitsBooks`; `PaymentsAddUp`, `CreditReversesInvoice` | `IssuedIsNeverDeleted` for all kinds of requests; without reminders `PaymentSentOnceIsBookedOnce`, `MovesAsReceivable` with its refinement of `Receivable`, and, without changes of the method, `InvoiceIsSound` and `BooksMatchInvoice` |
| `SupplierProofs` | `LocksAreHeld`, `CopiesAreTrue`: a request past its guards holds the row with a true copy of it; `ChecksStillHold`; `NothingHidden`; `RowAddsUp`: every payment voucher is that of one payment | `RowsAreSound`: status, payments, reference and cancellation agree; `PayableNeverOverdrawn`; with `TextsAreApart`, `PaymentsAreBooked` under the invoice method; with `PaidWithoutVat` too, `PayablesAreSound` |
| `TransferProofs`: `Conversion` | `OneHeard`: at most one request of the page is waited for when the guard is up; `SieVouchers`; `PaymentIsOfTheInvoice` | `SieImportedOnce`, `ImportButtonComesBack`, `ClaimFollowsPayment` |
| `TransferProofs`: `Backup` | `CopiesAreHashed`: a copy that is good now was good when its hash was taken; `RestoredIsTheDump`; `JudgedVerifies`; `DumpIsSincePosition`; `ManifestIsTrue`; `AcceptedWasVerified` | `PackageRestores`, `ProductionPackageIsOfItsPosition`, `AcceptedIsWhatWasBackedUp`, `CertifiedPackageIsLeftAlone`, for every content of the database, number of scripts, writers and faults |
| `ClientProofs`: `Workspace` | `NewestIsOfAsked`: the newest load of the trial balance is for the period asked last; `OwnChangesComeBack`; `AnswersAreOfHandlers`: what was committed is what the handler changes; `StartsEmpty` | `TrialBalanceIsOfNewestRequest`, `PatientUserSeesOwnChanges`, for every register and any number of actions, changes and requests in flight |
| `ClientProofs`: `Readiness` | `ReadinessIInv`: `verdicts = Render(d)`; a backup that counts as verified has its stamp, hash and audit count; `MonthIsComplete` once it is locked; the lists of the page are none of the computed facts | the five invariants: `ReadinessTypeOK`, `LockedMonthIsComplete`, `ReadyPeriodIsComplete`, `UnbalancedBooksAreNowhereCalm`, `GatesAgree`, and of two renders, before and after a step, `RepairNeverHurts`, for every set of vouchers and lists and any number of steps |

The sums of payments are those of the community modules, folds that choose an element
at a time. That a sum grows by the amount of a new payment is proved for every finite set
of payments from a smallest set for which it would fail (`WFMin` of the library with
`FS_StrictSubsetOrdering`), once in `InvoiceProofs` and once in `SupplierProofs`.

In `Backup` the argument runs along one script. While it copies, what is good in the
package is good in the list of hashes. When the verification ends, books and receipts of
the dump it restored have been judged. A production dump is of a position at or after the
one noted first; if the log still has that length at the end, it is of that position.
So the manifest describes a verified dump, and a package that agrees with it is one. A check
judges what it restored itself and compares it again at the end.

In `Workspace`, `OwnChangesComeBack` says how a careful user gets the own changes back:
either one handler is waited for and no load, or loads that were called after the answer,
and those that were read already have every own change. The steps that call loaders all
do one of two things (`CallingFields`, `CallingTwiceFields`): they leave the table of loads
and what is shown, or they put a load on its way that will see what is committed now.
`HandlersCover` goes through the table of handlers: each of the 54 patches or loads every
own list it changes. A sign-out empties some registers with nothing on its way; the
invariant says nothing of those until a sign-in loads them (`Lasts`), and every emptied
own list is among the loads of the token. The property therefore rests on the tables
and not only on the steps: a handler that forgets a list makes `HandlersCover` false.

In `Readiness` the state is small and the function of it is large. Three things carry the
argument. The ledger adds up to zero whatever is booked: a sum over the accounts is
compared with the postings one account at a time, again by a smallest set for which it
would fail. A verdict is computed once: the names a stage adds are others than those of
the stages before it, so it leaves what they computed (`StagesKeep`), and what a gate read of
another is still what the page shows. And a row that reads a fact is counted: each list
assigns "ok", "warning" or "critical" to a fixed set of rows (`IsJudged`), so that one
critical row makes the count positive, and a count of zero makes every row of the list
good. `UnbalancedBooksAreNowhereCalm` follows along the order of the render, list by
list; `GatesAgree` and `ReadyPeriodIsComplete` read the same rows in the other direction.
`LockedMonthIsComplete` is the one that needs the steps: the guard of `CloseMonth` is the
server's decision, and afterwards nothing dated in the month is posted, reopened or
changed. `ReadinessAssumption` says that no list of the page has the name of a fact
that is computed from the books (`DerivedFacts`): the code has those as `const`s of the
render, which no load and no handler assigns.

`RepairNeverHurts` compares two renders. The invariant says of both that the page shows
`Render(d)`, so it is enough to follow what a repair changes in the data. It satisfies
`Repaired`: the vouchers, the ledger and the lists stay, receipts and approvals only grow, a
backup that was in order still is, and the bank balance is as it was or the true one. Hence
its facts are `Better`: one about a missing receipt holds only if it did before, one about
a receipt or backup that is there still holds if it did, and all others are equal, those
that are computed from sums included. Then every list is read once for both pages: a row
that is critical now was critical before (`FewerCritical`). A list also reads the
summaries of earlier ones, so the lemmas are put together in the order of the render
(`RepairedPeriod` to `RepairedReports`): the calculation, the account signs and the blocked
decisions of the period are equal, its archive warnings only vanish, and every other
list is `Milder`, with no more critical rows. The security score is a rounded mean, and
one below its limit makes a row critical: none of its parts falls, so the mean does not
(`MeanRises`).

With `UnpostedIds = {}` means: no number is reviewed before its voucher exists. Without
reminders means `"remind" \notin Kinds`: their merge writes a row that was read without
its lock; without changes of the method, `"policy" \notin Kinds`. `TextsAreApart`: no
reference of a payment is part of another's text, by which the code finds a payment that is
booked already. `PaidWithoutVat`: under the cash method the voucher of a payment also has
a line for its amount without VAT, and a later payment with the same reference and that
amount is then taken for it. Without these assumptions the properties are false (section 5). The other
assumptions on constants are the named ASSUMEs of the modules; TLC evaluates them in
every run. `DatabasesAssumption` of `Backup` says that amounts are whole and that what a
missing table would hold is empty, which is how `Restore` writes such a database down.

Only model-checked: liveness, everywhere. It is out of the reach of the prover.

## 7. What is not modelled

- Registers of the server that read an item before they lock it: card purchases, owner
  transactions, payouts, the annual result, contract status. They are hazards without a
  property; the client's view of them is in `Workspace`.
- E-mail attempts, the scheduled reminders, login attempts and MFA on the server.
- Amounts per VAT rate and the apportioning of kronor (`money/`).
- The audit trail beyond its counts, and its hash chain.
- PDF, CSV, SIE and e-mail layout, texts, the views themselves, the AI assistant, test
  data, health and CSV escaping.
- Scripts that look for texts in source files, and the shell scripts around deployment:
  they have no state of the system.
- Containers of a verification that are left behind by a failure.
