----------------------------- MODULE Workspace -----------------------------
(***************************************************************************)
(* The page of the browser as a cache of the server.  It shows about       *)
(* thirty registers and reports, each filled by a loader of its own; a     *)
(* handler sends a request and, when it is answered, patches what is shown *)
(* or calls loaders.  Nothing is cancelled and nothing is ordered: answers *)
(* come as they come, after a sign-out and for a period no longer chosen,  *)
(* and a handler goes on with the token and the period it was called with. *)
(*                                                                         *)
(* Registers do not depend on one another, so a behaviour follows one of   *)
(* them, `watched`, through everything that touches it.                    *)
(***************************************************************************)
EXTENDS Integers, FiniteSets

CONSTANTS
  Watchable,    \* registers a behaviour may follow
  MaxChanges,   \* bound: changes of the register on the server
  MaxClicks,    \* bound: user actions
  MaxInFlight   \* bound: loads in flight, and handlers in flight

----------------------------------------------------------------------------
(* What each loader does with an answer: whether it empties the register   *)
(* when it is called, what it shows when the server refuses and when the   *)
(* connection fails, whether it drops the answer of all but its newest     *)
(* call, and whether it asks for the chosen period.                        *)

Loader(first, refused, failed) ==
  [first |-> first, refused |-> refused, failed |-> failed, newestOnly |-> FALSE, periodic |-> FALSE]
ListLoader == Loader("keep", "clear", "keep")
ControlLoader == [Loader("keep", "clear", "clear") EXCEPT !.periodic = TRUE]
KeepingLoader == Loader("keep", "keep", "keep")
ReportLoader == [Loader("clear", "keep", "keep") EXCEPT !.periodic = TRUE]

loadServices == ListLoader
loadAdminServices == ListLoader
loadVatReport == ReportLoader
loadVatControlReport == ControlLoader
loadVatVoucherControlReport == ControlLoader
loadVatFilingProofReport == ControlLoader
loadVatFilings == Loader("keep", "clear", "clear")
loadAuditEvents == Loader("keep", "clear", "clear")
loadAuditIntegrityReport == Loader("keep", "clear", "clear")
loadExpenses == ListLoader
loadCardPurchases == ListLoader
loadSuppliers == KeepingLoader
loadSupplierInvoices == KeepingLoader
loadOwnerTransactions == KeepingLoader
loadContracts == ListLoader
\* The next two, and the settings, show whatever object the server answers with.
loadReminders == Loader("keep", "accept", "keep")
loadAdvisorSummary == Loader("keep", "accept", "keep")
loadBankReconciliations == KeepingLoader
loadSettings == Loader("keep", "accept", "keep")
loadProfitAndLoss == ReportLoader
loadBalanceReport == ReportLoader
\* Faulty variant: the request counter is not compared.
TrialOfAnyRequest == ReportLoader
loadTrialBalanceReport == [ReportLoader EXCEPT !.newestOnly = TRUE]
loadJournalEntries == ListLoader
loadJournalIntegrityReport == ControlLoader
loadArchiveYearReport == ControlLoader
loadStripePayouts == Loader("keep", "clear", "clear")
loadAccounts == ListLoader
loadCustomers == ListLoader
loadInvoices == ListLoader
loadBackendPeriodCloseCheck == ControlLoader
loadVoucherApprovals == KeepingLoader
loadSystemStatus == Loader("keep", "accept", "accept")

Loaders ==
  [services |-> loadServices, adminServices |-> loadAdminServices,
   vatReport |-> loadVatReport, vatControl |-> loadVatControlReport,
   voucherControl |-> loadVatVoucherControlReport, filingProof |-> loadVatFilingProofReport,
   vatFilings |-> loadVatFilings, auditEvents |-> loadAuditEvents,
   auditIntegrity |-> loadAuditIntegrityReport, expenses |-> loadExpenses,
   cardPurchases |-> loadCardPurchases, suppliers |-> loadSuppliers,
   supplierInvoices |-> loadSupplierInvoices, ownerTransactions |-> loadOwnerTransactions,
   contracts |-> loadContracts, reminders |-> loadReminders,
   advisorSummary |-> loadAdvisorSummary, bankReconciliations |-> loadBankReconciliations,
   settings |-> loadSettings, profitAndLoss |-> loadProfitAndLoss,
   balanceReport |-> loadBalanceReport, trialBalance |-> loadTrialBalanceReport,
   journalEntries |-> loadJournalEntries, journalIntegrity |-> loadJournalIntegrityReport,
   archiveYear |-> loadArchiveYearReport, stripePayouts |-> loadStripePayouts,
   accounts |-> loadAccounts, customers |-> loadCustomers, invoices |-> loadInvoices,
   closeCheck |-> loadBackendPeriodCloseCheck, voucherApprovals |-> loadVoucherApprovals,
   systemStatus |-> loadSystemStatus]
Registers == DOMAIN Loaders

ASSUME WatchableAssumption == Watchable \subseteq Registers
ASSUME BoundsAssumption ==
  MaxChanges \in Nat /\ MaxClicks \in Nat /\ MaxInFlight \in Nat \ {0, 1}

\* A loader that calls another one once it has shown its answer.
CalledBy == [auditIntegrity |-> "auditEvents", journalIntegrity |-> "journalEntries"]

\* The effect of the token, the loads of handleAuth, the registers with an
\* effect of their view and period, those clearAuthenticatedState empties.
LoadedWithToken ==
  Registers \ {"services", "journalIntegrity", "archiveYear", "closeCheck"}
LoadedBySignIn ==
  {"invoices", "customers", "journalEntries", "accounts", "vatReport", "expenses", "reminders",
   "advisorSummary", "settings", "profitAndLoss", "balanceReport", "stripePayouts"}
VatView == {"vatReport", "vatControl", "voucherControl", "filingProof", "vatFilings"}
LoadedByView == VatView \cup {"journalIntegrity", "archiveYear", "closeCheck"}
ClearedAtSignOut ==
  {"invoices", "customers", "journalEntries", "accounts", "expenses", "contracts", "reminders",
   "advisorSummary", "settings", "profitAndLoss", "balanceReport", "vatReport", "stripePayouts",
   "trialBalance"}
\* onClick={loadInvoices}: the click event is taken for the token.
RefreshedWithEvent == {"invoices", "journalEntries", "cardPurchases", "auditEvents"}
RefreshedWithToken ==
  {"reminders", "closeCheck", "archiveYear", "expenses", "accounts", "trialBalance"}

----------------------------------------------------------------------------
(* The handlers: the rows each changes on the server, whether it posts     *)
(* vouchers, what it patches from the answer, what it loads afterwards.    *)

Ledger ==
  {"journalEntries", "journalIntegrity", "vatReport", "vatControl", "voucherControl", "filingProof",
   "profitAndLoss", "balanceReport", "trialBalance", "archiveYear"}
Results == {"journalEntries", "profitAndLoss", "balanceReport"}
Reports == Results \cup {"vatReport"}
Summaries == {"reminders", "advisorSummary"}
Saves(rows, patches, loads) == [rows |-> rows, patches |-> patches, loads |-> loads, accepted |-> TRUE]
Posts(rows, patches, loads) == Saves(rows \cup Ledger, patches, loads)

runAutomaticInvoiceReminders == Saves({"invoices"}, {}, {"invoices", "reminders"})
createVatFiling == Posts({"vatFilings"}, {"vatFilings"},
  {"journalEntries", "vatReport", "balanceReport", "filingProof", "auditEvents"})
updateVatFilingStatus == Posts({"vatFilings"}, {"vatFilings"},
  {"journalEntries", "vatReport", "balanceReport", "filingProof", "auditEvents"})
\* A JSON body sent without its content type: the server refuses it.
createVatSettlementVoucher == [Posts({}, {},
  {"journalEntries", "auditEvents"} \cup VatView) EXCEPT !.accepted = FALSE]
createInvoiceRequest == Saves({"invoices"}, {}, {"invoices", "auditEvents"} \cup Reports \cup Summaries)

handleCreateSupplier == Saves({"suppliers"}, {"suppliers"}, {})
handleCreateSupplierInvoice == Posts({"supplierInvoices"}, {"supplierInvoices"}, {})
updateSupplierInvoiceStatus == Posts({"supplierInvoices"}, {"supplierInvoices"}, {})
cancelSupplierInvoice == Posts({"supplierInvoices"}, {"supplierInvoices"}, Results)

handleCreateOwnerTransaction == Saves({"ownerTransactions"}, {"ownerTransactions"}, {})
updateOwnerTransactionStatus == Saves({"ownerTransactions"}, {"ownerTransactions"}, {})
bookOwnerTransaction == Posts({"ownerTransactions"}, {"ownerTransactions"}, Results)
deleteOwnerTransaction == Saves({"ownerTransactions"}, {"ownerTransactions"}, {})

handleCreateContract == Saves({"contracts"}, {"contracts"}, {})
\* Faulty variant: the contracts, whose next date moved, are not loaded.
InvoiceWithoutContract == Saves({"contracts", "invoices"}, {}, {"invoices"} \cup Reports \cup Summaries)
createContractInvoice ==
  Saves({"contracts", "invoices"}, {}, {"contracts", "invoices"} \cup Reports \cup Summaries)
createAllDueContractInvoices ==
  Saves({"contracts", "invoices"}, {}, {"contracts", "invoices"} \cup Reports \cup Summaries)
toggleContractActive == Saves({"contracts"}, {"contracts"}, {})
deleteContract == Saves({"contracts"}, {"contracts"}, {})

saveSettingsChanges == Saves({"settings", "accounts", "balanceReport"}, {"settings"}, {"accounts", "balanceReport"})
closeSelectedAccountingPeriod == Saves({"settings"}, {}, {"settings", "auditEvents"})

handleCreateExpense == Posts({"expenses"}, {"expenses"}, Reports \cup Summaries)
handleCreateCardPurchase == Saves({"cardPurchases"}, {"cardPurchases"}, {})
bookCardPurchase == Posts({"cardPurchases", "expenses"}, {"cardPurchases"}, {"expenses"} \cup Reports)
attachReceiptToExpense == Saves({"expenses"}, {"expenses"}, {"expenses"})
repairReceiptHashes == Saves({"expenses"}, {}, {"expenses", "journalEntries", "journalIntegrity", "auditEvents"})

handleCreateManualJournalEntry == Posts({"stripePayouts"}, {"journalEntries"}, {"stripePayouts"} \cup Reports)
handleAttachVoucherEvidence == Saves({"journalEntries"}, {}, {"journalEntries"})
handleCreateOpeningBalance == Posts({}, {"journalEntries"}, {"trialBalance", "auditEvents"} \cup Reports)
createCorrectionVoucher ==
  Posts({"voucherApprovals"}, {"journalEntries"}, {"voucherApprovals", "auditEvents"} \cup Reports)
bookAnnualResultVoucher == Posts({}, {"journalEntries"}, {"trialBalance"} \cup Results)

handleCreateCustomer == Saves({"customers"}, {"customers"}, {})
updateCustomerArchive == Saves({"customers"}, {"customers"}, {})
deleteCustomer == Saves({"customers"}, {"customers"}, {})
handleSaveService == Saves({"services", "adminServices"}, {}, {"services", "adminServices"})

updateInvoiceStatus == Posts({"invoices"}, {"invoices"}, Reports \cup Summaries)
registerInvoiceRefund == Posts({"invoices"}, {"invoices"}, {"advisorSummary"} \cup Reports)
saveInvoiceReminderStatus == Saves({"invoices"}, {"invoices"}, {})
openInvoiceReminderEmail == Saves({"invoices"}, {"invoices"}, {})
sendInvoiceReminderEmail == Saves({"invoices"}, {"invoices"}, {})
sendInvoiceEmail == Posts({"invoices"}, {"invoices"}, {})
deleteInvoice == Saves({"invoices"}, {"invoices"}, Reports \cup Summaries)
createCreditInvoice == Posts({"invoices"}, {}, {"invoices"} \cup Reports \cup Summaries)
createStripePayout == Posts({"stripePayouts"}, {}, Reports)
createStripeWebsiteSale == Posts({}, {}, Reports)

skipBankImportRow == Saves({"bankReconciliations"}, {"bankReconciliations"}, {})
restoreSkippedBankImportRow == Saves({"bankReconciliations"}, {"bankReconciliations"}, {})
clearBankReconciliationHistory == Saves({"bankReconciliations"}, {"bankReconciliations"}, {})
registerBankImportPayment ==
  Posts({"invoices", "bankReconciliations"}, {"invoices"}, {"bankReconciliations"} \cup Reports \cup Summaries)
createExpenseFromBankImport ==
  Posts({"expenses", "bankReconciliations"}, {"expenses"}, {"bankReconciliations"} \cup Reports \cup Summaries)
createManualVoucherFromSie == Posts({}, {}, {"advisorSummary"} \cup Reports)
createExpenseFromBokioImport == Posts({"expenses"}, {"expenses"}, Reports \cup Summaries)

bookPayroll == Posts({}, {}, Results)
bookPayrollTax == Posts({}, {}, {"journalEntries", "balanceReport"})
downloadAuditTrail == Saves({}, {}, {"auditEvents", "auditIntegrity"})

Handlers ==
  {runAutomaticInvoiceReminders, createVatFiling, updateVatFilingStatus, createVatSettlementVoucher,
   createInvoiceRequest, handleCreateSupplier, handleCreateSupplierInvoice,
   updateSupplierInvoiceStatus, cancelSupplierInvoice, handleCreateOwnerTransaction,
   updateOwnerTransactionStatus, bookOwnerTransaction, deleteOwnerTransaction,
   handleCreateContract, createContractInvoice, createAllDueContractInvoices,
   toggleContractActive, deleteContract, saveSettingsChanges, closeSelectedAccountingPeriod,
   handleCreateExpense, handleCreateCardPurchase, bookCardPurchase, attachReceiptToExpense,
   repairReceiptHashes, handleCreateManualJournalEntry, handleAttachVoucherEvidence,
   handleCreateOpeningBalance, createCorrectionVoucher, bookAnnualResultVoucher,
   handleCreateCustomer, updateCustomerArchive, deleteCustomer, handleSaveService,
   updateInvoiceStatus, registerInvoiceRefund, saveInvoiceReminderStatus,
   openInvoiceReminderEmail, sendInvoiceReminderEmail, sendInvoiceEmail, deleteInvoice,
   createCreditInvoice, createStripePayout, createStripeWebsiteSale, skipBankImportRow,
   restoreSkippedBankImportRow, clearBankReconciliationHistory, registerBankImportPayment,
   createExpenseFromBankImport, createManualVoucherFromSie, createExpenseFromBokioImport,
   bookPayroll, bookPayrollTax, downloadAuditTrail}

\* What a handler means for the register w.
Touching(w) == {w} \cup {CalledBy[x] : x \in {w} \cap DOMAIN CalledBy}
EffectOn(w, h) ==
  [changes |-> w \in h.rows, patches |-> w \in h.patches, accepted |-> h.accepted,
   calls |-> h.loads \cap Touching(w)]
EffectsOn == [w \in Registers |-> {EffectOn(w, h) : h \in Handlers}]

----------------------------------------------------------------------------
(* The page, the requests and the server.                                  *)

VARIABLES
  watched,    \* the register that is followed
  open,       \* "starting", "open", or "fallback", the page of the error boundary
  token,      \* the session of localStorage and of the page: "none", "valid", "expired"
  view,       \* activeView: "overview", or "other", the view of the register
  period,     \* the period chosen in the page
  shown,      \* what the page shows of the register
  loads,      \* the loads in flight, by slot
  posts,      \* the handlers that wait for the answer to their request
  changes,    \* the changes of the register the server has committed
  recovered,  \* alibooks-render-recovery-attempted, in localStorage
  clicks,     \* how many times the user acted
  asked,      \* history: what was committed, and chosen, at the newest load
  mine,       \* history: the changes this page was told of
  careful,    \* history: the user always waited and nothing failed
  restarts    \* history: reloads by the error boundary since the user acted
page == <<open, token, view, period, shown, loads, posts, recovered>>
history == <<clicks, asked, mine, careful, restarts>>
vars == <<watched, page, changes, history>>

Blank == [kind |-> "none", seen |-> {}, period |-> 0]
Idle == [step |-> "idle", auth |-> FALSE, period |-> 0, newest |-> FALSE, seen |-> {}]
\* The chosen period and the active view are followed where they matter.
Viewed == LoadedByView \cup {"reminders"}
Slots == 1 .. MaxInFlight
Periods == {1, 2}
Committed == 1 .. changes

TypeOK ==
  /\ watched \in Watchable
  /\ open \in {"starting", "open", "fallback"} /\ token \in {"none", "valid", "expired"}
  /\ view \in {"overview", "other"} /\ period \in Periods
  /\ shown \in [kind: {"none", "data", "error"}, seen: SUBSET Committed, period: {0} \cup Periods]
  /\ loads \in [Slots -> [step: {"idle", "before", "sent", "read", "refused"}, auth: BOOLEAN,
                          period: {0} \cup Periods, newest: BOOLEAN, seen: SUBSET Committed]]
  /\ posts \subseteq [id: 1 .. MaxClicks, effect: EffectsOn[watched], period: Periods,
                      done: BOOLEAN, change: {0} \cup Committed]
  /\ changes \in 0 .. MaxChanges /\ clicks \in 0 .. MaxClicks
  /\ recovered \in BOOLEAN /\ careful \in BOOLEAN /\ restarts \in 0 .. 2
  /\ asked \in [seen: SUBSET Committed, period: {0} \cup Periods] /\ mine \subseteq Committed

Init ==
  /\ watched \in Watchable
  /\ open = "starting" /\ token \in {"none", "valid", "expired"}
  /\ view \in {"overview", "other"} /\ (view = "other" => watched \in Viewed) /\ period = 1
  /\ shown = Blank /\ loads = [i \in Slots |-> Idle] /\ posts = {}
  /\ changes = 0 /\ recovered = FALSE
  /\ clicks = 0 /\ asked = [seen |-> {}, period |-> 0] /\ mine = {} /\ careful = TRUE
  /\ restarts = 0

\* The overview renders reminders.map(...), and no other register is used so.
Broken ==
  /\ open = "open" /\ watched = "reminders" /\ shown.kind = "error"
  /\ token # "none" /\ view = "overview"
Running == open = "open" /\ ~Broken

FreeSlots(table) == {i \in Slots : table[i] = Idle}
Waiting == posts # {} \/ FreeSlots(loads) # Slots
Click ==
  /\ Running /\ clicks < MaxClicks
  /\ clicks' = clicks + 1
  /\ careful' = (careful /\ ~Waiting)
  /\ restarts' = 0

----------------------------------------------------------------------------
(* Loads.                                                                  *)

NotNewest(table) == [i \in Slots |-> IF table[i] = Idle THEN Idle ELSE [table[i] EXCEPT !.newest = FALSE]]
Asking(table, step, auth, p) ==
  LET slot == CHOOSE i \in FreeSlots(table) : TRUE
  IN  [NotNewest(table) EXCEPT ![slot] =
         [step |-> step, auth |-> auth, period |-> p, newest |-> TRUE, seen |-> {}]]

\* The loaders of `called` are called, on a page that shows s, with the loads
\* of `table` in flight, when there is room.
Calling(called, table, s, auth, p) ==
  LET direct == watched \in called
      viaParent == watched \in DOMAIN CalledBy /\ CalledBy[watched] \in called
      first == IF direct THEN Asking(table, "sent", auth, p) ELSE table
  IN  /\ (IF direct THEN 1 ELSE 0) + (IF viaParent THEN 1 ELSE 0) <= Cardinality(FreeSlots(table))
      /\ loads' = IF viaParent THEN Asking(first, "before", auth, p) ELSE first
      /\ shown' = IF direct /\ Loaders[watched].first = "clear" THEN Blank ELSE s
      /\ asked' = IF direct THEN [seen |-> Committed, period |-> p] ELSE asked

\* The effect of the view.
ViewEffects(v) == IF v = "other" THEN LoadedByView ELSE {}

\* An effect of both calls the loader twice.
CallingTwice(called, again, table, s) ==
  IF watched \in called \cap again
  THEN FreeSlots(table) # {} /\ Calling({watched}, Asking(table, "sent", TRUE, period), s, TRUE, period)
  ELSE Calling(called \cup again, table, s, TRUE, period)

ReadLoad(i) ==
  /\ loads[i].step = "sent" /\ loads[i].auth /\ token # "expired"
  /\ loads' = [loads EXCEPT ![i].step = "read", ![i].seen = Committed]
  /\ UNCHANGED <<watched, open, token, view, period, shown, posts, changes, recovered, history>>

\* An invalid, expired or revoked token, or an error of the server.
RefuseLoad(i) ==
  /\ loads[i].step = "sent"
  /\ loads' = [loads EXCEPT ![i].step = "refused"]
  /\ UNCHANGED <<watched, open, token, view, period, shown, posts, changes, recovered, history>>

\* The loader goes on with the answer.
Shows(i, s) == shown' = IF Loaders[watched].newestOnly /\ ~loads[i].newest THEN shown ELSE s
Ended(i) ==
  /\ Running
  /\ loads' = [loads EXCEPT ![i] = Idle]
  /\ UNCHANGED <<watched, open, token, view, period, posts, changes, recovered,
                 clicks, asked, mine, restarts>>

AnswerLoad(i) ==
  /\ loads[i].step = "read"
  /\ Shows(i, [kind |-> "data", seen |-> loads[i].seen, period |-> loads[i].period])
  /\ Ended(i)
  /\ UNCHANGED careful

\* Faulty variant: whatever the server answers becomes what is shown.
AnswerAsData(what) == IF what = "keep" THEN shown ELSE [kind |-> what, seen |-> {}, period |-> 0]
After(what) ==
  CASE what = "clear" -> Blank
    [] what = "accept" -> [kind |-> "error", seen |-> {}, period |-> 0]
    [] OTHER -> shown
AnswerRefused(i) ==
  /\ loads[i].step = "refused"
  /\ Shows(i, After(Loaders[watched].refused))
  /\ Ended(i)
  /\ careful' = FALSE

FailLoad(i) ==
  /\ loads[i].step \in {"sent", "read", "refused"}
  /\ Shows(i, After(Loaders[watched].failed))
  /\ Ended(i)
  /\ careful' = FALSE

\* The loader that calls this one is answered, or not: journal entries that
\* do not come at all also empty their integrity report.
AnswerParent(i) ==
  /\ Running
  /\ loads[i].step = "before" /\ loads[i].auth
  /\ loads' = [loads EXCEPT ![i].step = "sent"]
  /\ UNCHANGED <<watched, open, token, view, period, shown, posts, changes, recovered, history>>

FailParent(i) ==
  /\ loads[i].step = "before"
  /\ shown' \in {shown} \cup (IF watched = "journalIntegrity" THEN {Blank} ELSE {})
  /\ Ended(i)
  /\ careful' = FALSE

----------------------------------------------------------------------------
(* Handlers.                                                               *)

Send(e) ==
  /\ Click
  /\ token # "none" /\ Cardinality(posts) < MaxInFlight
  /\ posts' = posts \cup {[id |-> clicks', effect |-> e, period |-> period, done |-> FALSE, change |-> 0]}
  /\ UNCHANGED <<watched, open, token, view, period, shown, loads, changes, recovered, asked, mine>>

Commit(p) ==
  /\ ~p.done /\ p.effect.accepted /\ token # "expired"
  /\ p.effect.changes => changes < MaxChanges
  /\ changes' = IF p.effect.changes THEN changes + 1 ELSE changes
  /\ posts' = (posts \ {p}) \cup
              {[p EXCEPT !.done = TRUE, !.change = IF p.effect.changes THEN changes' ELSE 0]}
  /\ UNCHANGED <<watched, open, token, view, period, shown, loads, recovered, history>>

\* The handler goes on with the token and the period it was called with.
AnswerPost(p) ==
  /\ Running /\ p.done
  /\ LET told == {p.change} \ {0}
         patched == IF p.effect.patches THEN [shown EXCEPT !.kind = "data", !.seen = @ \cup told]
                    ELSE shown
     IN  /\ Calling(p.effect.calls, loads, patched, TRUE, p.period)
         /\ mine' = mine \cup told
  /\ posts' = posts \ {p}
  /\ UNCHANGED <<watched, open, token, view, period, changes, recovered, clicks, careful, restarts>>

\* Refused, or no answer comes, whether it was committed or not.
FailPost(p) ==
  /\ posts' = posts \ {p}
  /\ careful' = FALSE
  /\ UNCHANGED <<watched, open, token, view, period, shown, loads, changes, recovered,
                 clicks, asked, mine, restarts>>

\* Another page, or the scheduler.
OthersChange ==
  /\ changes < MaxChanges
  /\ changes' = changes + 1
  /\ UNCHANGED <<watched, page, history>>

----------------------------------------------------------------------------
(* The session and the views.                                              *)

\* Module start and mount: an expired token is dropped from localStorage,
\* the recovery flag is removed, the effects run once.
Start ==
  /\ open = "starting"
  /\ open' = "open"
  /\ token' = IF token = "expired" THEN "none" ELSE token
  /\ view' = IF token' = "none" THEN "overview" ELSE view
  /\ recovered' = FALSE
  /\ IF token' = "none" THEN Calling({"services"}, loads, Blank, TRUE, period)
     ELSE CallingTwice(LoadedWithToken \cup {"services"}, ViewEffects(view'), loads, Blank)
  /\ posts' = {} /\ mine' = {} /\ careful' = TRUE
  /\ UNCHANGED <<watched, period, changes, clicks, restarts>>

\* The page is left: nobody hears the answers.
Leave ==
  /\ open' = "starting"
  /\ shown' = Blank /\ loads' = [i \in Slots |-> Idle]
  /\ posts' = {} /\ asked' = [seen |-> {}, period |-> 0]
ReloadPage ==
  /\ Click
  /\ Leave
  /\ UNCHANGED <<watched, token, view, period, changes, recovered, mine>>

\* componentDidCatch: once, it loads the page again at its overview.
Crash ==
  /\ Broken
  /\ recovered' = TRUE
  /\ IF recovered THEN open' = "fallback" /\ UNCHANGED <<shown, loads, posts, asked, restarts>>
     ELSE Leave /\ restarts' = IF restarts = 2 THEN 2 ELSE restarts + 1
  /\ view' = "overview"
  /\ UNCHANGED <<watched, token, period, changes, clicks, mine, careful>>

\* handleAuth calls loaders with the token, and so does the effect of it.
SignIn ==
  /\ Click
  /\ token = "none" /\ token' = "valid"
  /\ CallingTwice(LoadedWithToken, LoadedBySignIn, loads, shown)
  /\ UNCHANGED <<watched, open, view, period, posts, changes, recovered, mine>>

\* confirmMfaSetup: the answer may carry a new token.
RenewToken ==
  /\ Click
  /\ token = "valid" \/ token = "expired"
  /\ token' = "valid"
  /\ CallingTwice(LoadedWithToken, ViewEffects(view), loads, shown)
  /\ UNCHANGED <<watched, open, view, period, posts, changes, recovered, mine>>

\* clearAuthenticatedState: loads in flight are not cancelled.
\* Faulty variant: the token is left.
KeepsTheToken == token' = token
DropsTheToken == token' = "none"
clearAuthenticatedState ==
  /\ DropsTheToken
  /\ shown' = IF watched \in ClearedAtSignOut THEN Blank ELSE shown
  /\ loads' = IF watched = "trialBalance" THEN NotNewest(loads) ELSE loads
  /\ view' = "overview"

\* handleLogout, and disableMfa once it is answered.
SignOut ==
  /\ Click
  /\ token # "none"
  /\ clearAuthenticatedState
  /\ UNCHANGED <<watched, open, period, posts, changes, recovered, asked, mine>>

\* The timer looks every thirty seconds.
SessionExpired ==
  /\ Running
  /\ token = "expired"
  /\ clearAuthenticatedState
  /\ UNCHANGED <<watched, open, period, posts, changes, recovered, history>>

Expire ==
  /\ token = "valid" /\ token' = "expired"
  /\ UNCHANGED <<watched, open, view, period, shown, loads, posts, changes, recovered, history>>

SwitchView ==
  /\ Click
  /\ token # "none" /\ watched \in Viewed
  /\ view' = IF view = "overview" THEN "other" ELSE "overview"
  /\ Calling(ViewEffects(view'), loads, shown, TRUE, period)
  /\ UNCHANGED <<watched, open, token, period, posts, changes, recovered, mine>>

ChoosePeriod ==
  /\ Click
  /\ token # "none" /\ (Loaders[watched].periodic \/ watched \in LoadedByView)
  /\ period' \in Periods \ {period}
  /\ Calling(ViewEffects(view), loads, shown, TRUE, period')
  /\ UNCHANGED <<watched, open, token, view, posts, changes, recovered, mine>>

Refresh ==
  /\ Click
  /\ token # "none"
  /\ \/ watched \in RefreshedWithToken /\ Calling({watched}, loads, shown, TRUE, period)
     \/ \E r \in RefreshedWithEvent \cap Touching(watched) :
          Calling({r}, loads, shown, FALSE, period)
  /\ UNCHANGED <<watched, open, token, view, period, posts, changes, recovered, mine>>

----------------------------------------------------------------------------
(* The specification.                                                      *)

Clicks ==
  \/ \E e \in EffectsOn[watched] : Send(e)
  \/ ReloadPage \/ SignIn \/ RenewToken \/ SignOut \/ SwitchView \/ ChoosePeriod \/ Refresh
Network ==
  \/ \E i \in Slots :
       ReadLoad(i) \/ RefuseLoad(i) \/ AnswerLoad(i) \/ AnswerRefused(i) \/ FailLoad(i)
         \/ AnswerParent(i) \/ FailParent(i)
  \/ \E p \in posts : Commit(p) \/ AnswerPost(p) \/ FailPost(p)
  \/ OthersChange
Quiet == clicks = MaxClicks /\ ~Waiting /\ Running /\ UNCHANGED vars

Next == Clicks \/ Network \/ Start \/ Crash \/ SessionExpired \/ Expire \/ Quiet

\* A browser starts a page it loads, shows the error boundary when a render
\* throws, and runs the timers of an open page.
Spec == Init /\ [][Next]_vars /\ WF_vars(Start) /\ WF_vars(Crash) /\ WF_vars(SessionExpired)

----------------------------------------------------------------------------
(* Properties.                                                             *)

\* loadTrialBalanceReport compares its request number: in whatever order the
\* answers come, a trial balance is never shown for another period than the
\* one of the newest request, nor from before that request was sent.
TrialBalanceIsOfNewestRequest ==
  watched = "trialBalance" /\ shown.kind = "data" =>
    shown.period = asked.period /\ asked.seen \subseteq shown.seen

OwnLists ==
  {"invoices", "expenses", "contracts", "suppliers", "supplierInvoices", "ownerTransactions",
   "cardPurchases", "customers", "vatFilings", "bankReconciliations", "voucherApprovals",
   "services", "adminServices"}

\* What a handler patches and what it loads again is enough: a user who waits
\* for every answer, and whose requests all succeed, sees each of the own
\* changes in the registers that list them, whatever others do meanwhile.
PatientUserSeesOwnChanges ==
  watched \in OwnLists /\ careful /\ Running /\ token # "none" /\ ~Waiting => mine \subseteq shown.seen

\* The timer of handleSessionExpired: a page left open with an expired token
\* signs itself out, unless the error boundary has replaced it.
SessionEnds == token = "expired" ~> token # "expired" \/ open = "fallback"

-----------------------------------------------------------------------------
(* Does not hold: see the README, section 5.                               *)

\* componentDidCatch and alibooks-render-recovery-attempted: the page is
\* loaded again automatically at most once before the user acts.
RecoversOnce == restarts <= 1
=============================================================================
