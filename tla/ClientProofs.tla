---------------------------- MODULE ClientProofs ----------------------------
(***************************************************************************)
(* Proofs about the two components that model the client: Workspace, what  *)
(* a session of the page reads and shows while its requests overtake each  *)
(* other, and Readiness, what a render makes of the data of the page.      *)
(* They share no state: each has a specification and an inductive          *)
(* invariant of its own.                                                   *)
(*                                                                         *)
(* Workspace, for every register, any number of user actions, of changes   *)
(* on the server and of requests in flight.  Readiness, for both company   *)
(* forms, every budget, all vouchers that may be booked, every set of      *)
(* lists that are filled or change, and any number of steps.               *)
(***************************************************************************)
EXTENDS Workspace, Readiness, FiniteSetTheorems, TLAPS

-----------------------------------------------------------------------------
(* Workspace: the inductive invariant                                      *)

\* The newest load of the trial balance asks for what was asked last.
NewestIsOfAsked ==
  watched = "trialBalance" =>
    /\ shown.kind # "error"
    /\ \A i \in Slots : loads[i].newest =>
         /\ loads[i].step # "before" /\ loads[i].period = asked.period
         /\ loads[i].step = "read" => asked.seen \subseteq loads[i].seen

Still == \A i \in Slots : loads[i] = Idle
\* A sign-out empties some registers, and signing in loads them.
Lasts == token # "none" \/ watched \notin ClearedAtSignOut

\* A careful user has one handler in flight and nothing else, or loads that
\* were called after it: their answers have the own changes.
OwnChangesComeBack ==
  watched \in OwnLists /\ careful /\ open = "open" =>
    /\ \A p, q \in posts : p = q
    /\ posts # {} => Still
    /\ \A i \in Slots : loads[i].step # "before" /\ (loads[i].step = "read" => mine \subseteq loads[i].seen)
    /\ Lasts /\ Still => mine \subseteq shown.seen

\* What was committed was accepted, and changed what the handler changes.
AnswersAreOfHandlers ==
  \A p \in posts : p.done /\ p.change # 0 => p.effect.accepted /\ p.effect.changes
StartsEmpty == open = "starting" => posts = {} /\ Still

IInv ==
  /\ TypeOK /\ TrialBalanceIsOfNewestRequest /\ NewestIsOfAsked
  /\ OwnChangesComeBack /\ AnswersAreOfHandlers /\ StartsEmpty

-----------------------------------------------------------------------------
(* The tables of loaders and handlers                                      *)

LEMMA OwnListLoaders ==
  ASSUME NEW w \in OwnLists
  PROVE  Loaders[w].newestOnly = FALSE /\ Loaders[w].first = "keep" /\ w \notin DOMAIN CalledBy
<1>1. \A r \in {ListLoader, KeepingLoader, Loader("keep", "clear", "clear")} :
         r.newestOnly = FALSE /\ r.first = "keep"
  BY DEF ListLoader, KeepingLoader, Loader
<1>2. Loaders[w] \in {ListLoader, KeepingLoader, Loader("keep", "clear", "clear")}
  BY DEF Loaders, OwnLists, loadInvoices, loadExpenses, loadContracts, loadSuppliers, loadSupplierInvoices,
         loadOwnerTransactions, loadCardPurchases, loadCustomers, loadVatFilings, loadBankReconciliations,
         loadVoucherApprovals, loadServices, loadAdminServices
<1>3. w \notin DOMAIN CalledBy
  BY DEF CalledBy, OwnLists
<1> QED BY <1>1, <1>2, <1>3

LEMMA TrialBalanceLoader ==
  /\ Loaders["trialBalance"].newestOnly = TRUE /\ Loaders["trialBalance"].first = "clear"
  /\ Loaders["trialBalance"].refused = "keep" /\ Loaders["trialBalance"].failed = "keep"
  /\ "trialBalance" \notin DOMAIN CalledBy /\ "trialBalance" \in Registers
<1>1. Loaders["trialBalance"] = loadTrialBalanceReport
  BY DEF Loaders
<1>2. "trialBalance" \notin DOMAIN CalledBy /\ "trialBalance" \in Registers
  BY DEF CalledBy, Registers, Loaders
<1> QED BY <1>1, <1>2 DEF loadTrialBalanceReport, ReportLoader, Loader

\* A handler patches or loads the own lists it changes.
Covers(h) ==
  /\ h.accepted => h.rows \cap OwnLists \subseteq h.patches \cup h.loads
  /\ "trialBalance" \notin h.patches

LEMMA HandlersCover == \A h \in Handlers : Covers(h)
<1> USE DEF Covers, Saves, Posts, OwnLists, Ledger, Results, Reports, Summaries, VatView
<1>1. /\ Covers(runAutomaticInvoiceReminders) /\ Covers(createVatFiling) /\ Covers(updateVatFilingStatus)
      /\ Covers(createVatSettlementVoucher) /\ Covers(createInvoiceRequest) /\ Covers(handleCreateSupplier)
      /\ Covers(handleCreateSupplierInvoice) /\ Covers(updateSupplierInvoiceStatus)
  BY DEF runAutomaticInvoiceReminders, createVatFiling, updateVatFilingStatus, createVatSettlementVoucher,
         createInvoiceRequest, handleCreateSupplier, handleCreateSupplierInvoice, updateSupplierInvoiceStatus
<1>2. /\ Covers(cancelSupplierInvoice) /\ Covers(handleCreateOwnerTransaction)
      /\ Covers(updateOwnerTransactionStatus) /\ Covers(bookOwnerTransaction)
      /\ Covers(deleteOwnerTransaction) /\ Covers(handleCreateContract) /\ Covers(createContractInvoice)
      /\ Covers(createAllDueContractInvoices) /\ Covers(toggleContractActive) /\ Covers(deleteContract)
  BY DEF cancelSupplierInvoice, handleCreateOwnerTransaction, updateOwnerTransactionStatus,
         bookOwnerTransaction, deleteOwnerTransaction, handleCreateContract, createContractInvoice,
         createAllDueContractInvoices, toggleContractActive, deleteContract
<1>3. /\ Covers(saveSettingsChanges) /\ Covers(closeSelectedAccountingPeriod) /\ Covers(handleCreateExpense)
      /\ Covers(handleCreateCardPurchase) /\ Covers(bookCardPurchase) /\ Covers(attachReceiptToExpense)
      /\ Covers(repairReceiptHashes) /\ Covers(handleCreateManualJournalEntry)
      /\ Covers(handleAttachVoucherEvidence)
  BY DEF saveSettingsChanges, closeSelectedAccountingPeriod, handleCreateExpense, handleCreateCardPurchase,
         bookCardPurchase, attachReceiptToExpense, repairReceiptHashes, handleCreateManualJournalEntry,
         handleAttachVoucherEvidence
<1>4. /\ Covers(handleCreateOpeningBalance) /\ Covers(createCorrectionVoucher)
      /\ Covers(bookAnnualResultVoucher) /\ Covers(handleCreateCustomer) /\ Covers(updateCustomerArchive)
      /\ Covers(deleteCustomer) /\ Covers(handleSaveService) /\ Covers(updateInvoiceStatus)
      /\ Covers(registerInvoiceRefund) /\ Covers(saveInvoiceReminderStatus)
  BY DEF handleCreateOpeningBalance, createCorrectionVoucher, bookAnnualResultVoucher, handleCreateCustomer,
         updateCustomerArchive, deleteCustomer, handleSaveService, updateInvoiceStatus, registerInvoiceRefund,
         saveInvoiceReminderStatus
<1>5. /\ Covers(openInvoiceReminderEmail) /\ Covers(sendInvoiceReminderEmail) /\ Covers(sendInvoiceEmail)
      /\ Covers(deleteInvoice) /\ Covers(createCreditInvoice) /\ Covers(createStripePayout)
      /\ Covers(createStripeWebsiteSale) /\ Covers(skipBankImportRow) /\ Covers(restoreSkippedBankImportRow)
      /\ Covers(clearBankReconciliationHistory)
  BY DEF openInvoiceReminderEmail, sendInvoiceReminderEmail, sendInvoiceEmail, deleteInvoice,
         createCreditInvoice, createStripePayout, createStripeWebsiteSale, skipBankImportRow,
         restoreSkippedBankImportRow, clearBankReconciliationHistory
<1>6. /\ Covers(registerBankImportPayment) /\ Covers(createExpenseFromBankImport)
      /\ Covers(createManualVoucherFromSie) /\ Covers(createExpenseFromBokioImport) /\ Covers(bookPayroll)
      /\ Covers(bookPayrollTax) /\ Covers(downloadAuditTrail)
  BY DEF registerBankImportPayment, createExpenseFromBankImport, createManualVoucherFromSie,
         createExpenseFromBokioImport, bookPayroll, bookPayrollTax, downloadAuditTrail
<1> HIDE DEF Covers
<1> QED BY <1>1, <1>2, <1>3, <1>4, <1>5, <1>6 DEF Handlers

LEMMA EffectsCover ==
  ASSUME NEW w \in Registers, NEW e \in EffectsOn[w]
  PROVE  /\ w = "trialBalance" => ~e.patches
         /\ w \in OwnLists /\ e.accepted /\ e.changes => e.patches \/ w \in e.calls
<1>1. PICK h \in Handlers : e = EffectOn(w, h)
  BY DEF EffectsOn
<1>2. /\ e.changes <=> w \in h.rows
      /\ e.patches <=> w \in h.patches
      /\ e.accepted = h.accepted
      /\ w \in h.loads => w \in e.calls
  BY <1>1 DEF EffectOn, Touching
<1> QED BY <1>2, HandlersCover DEF Covers

-----------------------------------------------------------------------------
(* Loads that are called                                                   *)

LoadsUpTo(n) == [step: {"idle", "before", "sent", "read", "refused"}, auth: BOOLEAN,
                 period: {0} \cup Periods, newest: BOOLEAN, seen: SUBSET (1 .. n)]
ShownUpTo(n) == [kind: {"none", "data", "error"}, seen: SUBSET (1 .. n), period: {0} \cup Periods]
Tables == [Slots -> LoadsUpTo(changes)]
Sent(step, auth, p) == [step |-> step, auth |-> auth, period |-> p, newest |-> TRUE, seen |-> {}]

LEMMA IdleFields ==
  /\ Idle.step = "idle" /\ Idle.newest = FALSE /\ Idle \in LoadsUpTo(changes)
  /\ Blank.kind = "none" /\ Blank.seen = {} /\ Blank \in ShownUpTo(changes)
BY DEF Idle, Blank, LoadsUpTo, ShownUpTo

LEMMA NotNewestFields ==
  ASSUME NEW table \in Tables
  PROVE  /\ NotNewest(table) \in Tables
         /\ \A i \in Slots :
              LET n == NotNewest(table)[i]
              IN  /\ n.newest = FALSE /\ (table[i] = Idle => n = Idle)
                  /\ n.step = table[i].step /\ n.seen = table[i].seen
<1>1. ASSUME NEW i \in Slots
      PROVE  LET n == NotNewest(table)[i]
             IN  /\ n \in LoadsUpTo(changes) /\ n.newest = FALSE /\ (table[i] = Idle => n = Idle)
                 /\ n.step = table[i].step /\ n.seen = table[i].seen
  <2>1. CASE table[i] = Idle
    BY <2>1, IdleFields DEF NotNewest
  <2>2. CASE table[i] # Idle
    <3>1. NotNewest(table)[i] = [table[i] EXCEPT !.newest = FALSE]
      BY <2>2 DEF NotNewest
    <3>2. table[i] \in LoadsUpTo(changes)
      BY DEF Tables
    <3> QED BY <2>2, <3>1, <3>2 DEF LoadsUpTo
  <2> QED BY <2>1, <2>2
<1> QED BY <1>1 DEF NotNewest, Tables

\* One loader is called: the new load is the newest one.
LEMMA AskingFields ==
  ASSUME NEW table \in Tables, NEW step \in {"before", "sent"}, NEW auth \in BOOLEAN, NEW p \in Periods
  PROVE  /\ Asking(table, step, auth, p) \in Tables
         /\ \A i \in Slots :
              \/ Asking(table, step, auth, p)[i] = Sent(step, auth, p)
              \/ /\ Asking(table, step, auth, p)[i].newest = FALSE
                 /\ Asking(table, step, auth, p)[i].step = table[i].step
                 /\ Asking(table, step, auth, p)[i].seen = table[i].seen
         /\ FreeSlots(table) # {} => \E i \in Slots : Asking(table, step, auth, p)[i] = Sent(step, auth, p)
<1> DEFINE slot == CHOOSE i \in FreeSlots(table) : TRUE
           old == NotNewest(table)
<1>1. /\ old \in Tables /\ Sent(step, auth, p) \in LoadsUpTo(changes)
      /\ \A i \in Slots : old[i].newest = FALSE /\ old[i].step = table[i].step /\ old[i].seen = table[i].seen
  BY NotNewestFields DEF Sent, LoadsUpTo
<1>2. FreeSlots(table) # {} => slot \in Slots
  BY DEF FreeSlots
<1>3. Asking(table, step, auth, p) = [old EXCEPT ![slot] = Sent(step, auth, p)]
  BY DEF Asking, Sent
<1> HIDE DEF slot, old
<1> QED BY <1>1, <1>2, <1>3 DEF Tables

\* Whatever is called, loads and asked keep their types.
LEMMA CallingTypes ==
  ASSUME NEW table \in Tables, NEW called, NEW s \in ShownUpTo(changes), NEW auth \in BOOLEAN, NEW p \in Periods,
         asked \in [seen: SUBSET Committed, period: {0} \cup Periods], UNCHANGED changes,
         Calling(called, table, s, auth, p)
  PROVE  /\ loads' \in Tables /\ shown' \in ShownUpTo(changes)
         /\ asked' \in [seen: SUBSET Committed, period: {0} \cup Periods]
<1>1. Asking(table, "sent", auth, p) \in Tables
  BY AskingFields
<1>2. /\ Asking(Asking(table, "sent", auth, p), "before", auth, p) \in Tables
      /\ Asking(table, "before", auth, p) \in Tables
  BY <1>1, AskingFields
<1>3. Blank \in ShownUpTo(changes)
  BY IdleFields
<1> QED BY <1>1, <1>2, <1>3 DEF Calling

\* The watched register is loaded now, for p.
NowAsked(p) ==
  /\ asked' = [seen |-> Committed, period |-> p]
  /\ \A i \in Slots : loads'[i].newest => loads'[i].step = "sent" /\ loads'[i].period = p
  /\ \E i \in Slots : loads'[i].step = "sent"
Loading(s) ==
  /\ \E p \in Periods : NowAsked(p)
  /\ shown' = IF Loaders[watched].first = "clear" THEN Blank ELSE s
Showing(s) == Loading(s) \/ (UNCHANGED <<loads, asked>> /\ shown' = s)
\* Loads that were in flight stay where they are.
StayOnTheirWay(table) ==
  \A i \in Slots :
    \/ loads'[i].step = "sent"
    \/ loads'[i].step = table[i].step /\ loads'[i].seen = table[i].seen

LEMMA Asked ==
  ASSUME NEW table \in Tables, NEW called, NEW s, NEW auth \in BOOLEAN, NEW p \in Periods,
         watched \notin DOMAIN CalledBy, Calling(called, table, s, auth, p), watched \in called
  PROVE  /\ NowAsked(p) /\ shown' = IF Loaders[watched].first = "clear" THEN Blank ELSE s
         /\ StayOnTheirWay(table)
<1>1. /\ 1 <= Cardinality(FreeSlots(table)) /\ loads' = Asking(table, "sent", auth, p)
      /\ asked' = [seen |-> Committed, period |-> p]
      /\ shown' = IF Loaders[watched].first = "clear" THEN Blank ELSE s
  BY DEF Calling
<1>2. FreeSlots(table) # {}
  BY <1>1, FS_EmptySet
<1> DEFINE new == Asking(table, "sent", auth, p)
<1>3. /\ new \in Tables
      /\ \A i \in Slots :
           \/ new[i] = Sent("sent", auth, p)
           \/ /\ new[i].newest = FALSE
              /\ new[i].step = table[i].step
              /\ new[i].seen = table[i].seen
      /\ FreeSlots(table) # {} => \E i \in Slots : new[i] = Sent("sent", auth, p)
  BY AskingFields, "sent" \in {"before", "sent"}, ZenonT(30)
<1>4. Sent("sent", auth, p).step = "sent" /\ Sent("sent", auth, p).period = p
  BY DEF Sent
<1> HIDE DEF new
<1>5. loads' = new
  BY <1>1 DEF new
<1> QED BY <1>1, <1>2, <1>3, <1>4, <1>5 DEF NowAsked, StayOnTheirWay

LEMMA CallingFields ==
  ASSUME TypeOK, NEW called, NEW s, NEW auth \in BOOLEAN, NEW p \in Periods,
         watched \notin DOMAIN CalledBy, Calling(called, loads, s, auth, p)
  PROVE  Showing(s) /\ (watched \in called => Loading(s)) /\ StayOnTheirWay(loads)
<1>1. loads \in Tables
  BY DEF TypeOK, Tables, LoadsUpTo, Committed
<1>2. CASE watched \in called
  BY <1>1, <1>2, Asked DEF Loading, Showing
<1>3. CASE watched \notin called
  BY <1>3 DEF Calling, Showing, StayOnTheirWay
<1> QED BY <1>2, <1>3

LEMMA CallingTwiceFields ==
  ASSUME TypeOK, NEW called, NEW again, NEW s,
         watched \notin DOMAIN CalledBy, CallingTwice(called, again, loads, s)
  PROVE  Showing(s) /\ (watched \in called \cup again => Loading(s)) /\ StayOnTheirWay(loads)
<1>1. loads \in Tables /\ period \in Periods
  BY DEF TypeOK, Tables, LoadsUpTo, Committed
<1>2. CASE watched \in called \cap again
  <2> DEFINE first == Asking(loads, "sent", TRUE, period)
  <2>1. first \in Tables /\ FreeSlots(loads) # {} /\ Calling({watched}, first, s, TRUE, period)
    BY <1>1, <1>2, AskingFields DEF CallingTwice
  <2>2. \A i \in Slots : \/ first[i] = Sent("sent", TRUE, period)
                         \/ /\ first[i].newest = FALSE
                            /\ first[i].step = loads[i].step /\ first[i].seen = loads[i].seen
    BY <1>1, AskingFields
  <2>3. Sent("sent", TRUE, period).step = "sent"
    BY DEF Sent
  <2> HIDE DEF first
  <2>4. /\ NowAsked(period) /\ shown' = IF Loaders[watched].first = "clear" THEN Blank ELSE s
        /\ StayOnTheirWay(first)
    BY <1>1, <2>1, Asked
  <2> QED BY <1>1, <1>2, <2>2, <2>3, <2>4 DEF Showing, Loading, StayOnTheirWay
<1>3. CASE watched \notin called \cap again
  BY <1>1, <1>3, CallingFields DEF CallingTwice
<1> QED BY <1>2, <1>3

LEMMA CallingTwiceTypes ==
  ASSUME TypeOK, UNCHANGED changes, NEW called, NEW again, NEW s \in ShownUpTo(changes),
         CallingTwice(called, again, loads, s)
  PROVE  /\ loads' \in Tables /\ shown' \in ShownUpTo(changes)
         /\ asked' \in [seen: SUBSET Committed, period: {0} \cup Periods]
<1>1. loads \in Tables /\ period \in Periods /\ asked \in [seen: SUBSET Committed, period: {0} \cup Periods]
  BY DEF TypeOK, Tables, LoadsUpTo, Committed
<1>2. Asking(loads, "sent", TRUE, period) \in Tables
  BY <1>1, AskingFields
<1> QED BY <1>1, <1>2, CallingTypes DEF CallingTwice

-----------------------------------------------------------------------------
(* Types                                                                   *)

PostsUpTo(n) == [id: 1 .. MaxClicks, effect: EffectsOn[watched], period: Periods,
                 done: BOOLEAN, change: {0} \cup (1 .. n)]
Asks == [seen: SUBSET Committed, period: {0} \cup Periods]
Counters == clicks \in 0 .. MaxClicks /\ recovered \in BOOLEAN /\ careful \in BOOLEAN /\ restarts \in 0 .. 2
Selections ==
  /\ watched \in Watchable
  /\ open \in {"starting", "open", "fallback"} /\ token \in {"none", "valid", "expired"}
  /\ view \in {"overview", "other"} /\ period \in Periods

LEMMA TypeParts ==
  TypeOK <=>
    /\ Selections /\ shown \in ShownUpTo(changes) /\ loads \in Tables /\ posts \subseteq PostsUpTo(changes)
    /\ changes \in 0 .. MaxChanges /\ Counters /\ asked \in Asks /\ mine \subseteq Committed
BY DEF TypeOK, Selections, ShownUpTo, Tables, LoadsUpTo, PostsUpTo, Counters, Asks, Committed

\* Types still hold when the server commits a change.
LEMMA TypesGrow ==
  ASSUME TypeOK, changes' = changes \/ (changes < MaxChanges /\ changes' = changes + 1)
  PROVE  /\ changes' \in 0 .. MaxChanges /\ Committed \subseteq Committed'
         /\ \A s \in ShownUpTo(changes) : s \in ShownUpTo(changes')
         /\ \A t \in Tables : t \in [Slots -> LoadsUpTo(changes')]
         /\ \A a \in Asks : a \in Asks'
         /\ \A p \in PostsUpTo(changes) : p \in [id: 1 .. MaxClicks, effect: EffectsOn[watched], period: Periods,
                                                done: BOOLEAN, change: {0} \cup (1 .. changes')]
<1>1. changes \in Nat /\ changes' \in Nat /\ changes <= changes' /\ changes' \in 0 .. MaxChanges
  BY BoundsAssumption DEF TypeOK
<1>2. 1 .. changes \subseteq 1 .. changes'
  BY <1>1
<1> QED BY <1>1, <1>2 DEF Committed, ShownUpTo, Tables, LoadsUpTo, Asks, PostsUpTo

\* A user action, and what is shown when it is answered.
LEMMA ClickFields ==
  ASSUME TypeOK, Click
  PROVE  /\ clicks' \in 0 .. MaxClicks /\ clicks' \in 1 .. MaxClicks /\ restarts' = 0
         /\ careful' \in BOOLEAN /\ (careful' => careful /\ posts = {} /\ Still) /\ open = "open"
<1>1. clicks' \in 0 .. MaxClicks /\ clicks' \in 1 .. MaxClicks /\ restarts' = 0 /\ open = "open"
  BY BoundsAssumption DEF TypeOK, Click, Running
<1>2. careful' = (careful /\ ~Waiting)
  BY DEF Click
<1>3. ~Waiting => posts = {} /\ Still
  BY DEF Waiting, FreeSlots, Still
<1> QED BY <1>1, <1>2, <1>3

\* Steps that call loaders.
CallSteps ==
  Start \/ SignIn \/ RenewToken \/ SwitchView \/ ChoosePeriod \/ Refresh \/ \E p \in posts : AnswerPost(p)

LEMMA CallStepTypes ==
  ASSUME TypeOK, CallSteps
  PROVE  TypeOK'
<1>0. /\ Selections /\ shown \in ShownUpTo(changes) /\ loads \in Tables /\ posts \subseteq PostsUpTo(changes)
      /\ changes \in 0 .. MaxChanges /\ Counters /\ asked \in Asks /\ mine \subseteq Committed
  BY TypeParts
<1>1. SUFFICES /\ changes' = changes /\ Selections' /\ shown' \in ShownUpTo(changes) /\ loads' \in Tables
               /\ asked' \in Asks /\ posts' \subseteq posts /\ Counters' /\ mine' \subseteq Committed
  <2>1. watched' = watched
    BY DEF CallSteps, Start, SignIn, RenewToken, SwitchView, ChoosePeriod, Refresh, AnswerPost
  <2> QED BY <1>0, <2>1, TypeParts DEF TypeOK, Selections, ShownUpTo, Tables, LoadsUpTo, Counters, Asks, Committed
<1> USE DEF Selections, Counters, Asks
<1>2. CASE Start
  <2>1. Blank \in ShownUpTo(changes) /\ TRUE \in BOOLEAN
    BY IdleFields
  <2>2. loads' \in Tables /\ shown' \in ShownUpTo(changes) /\ asked' \in Asks
    BY <1>0, <1>2, <2>1, CallingTypes, CallingTwiceTypes DEF Start
  <2> QED BY <1>0, <1>2, <2>2 DEF Start
<1>3. CASE SignIn
  <2>1. loads' \in Tables /\ shown' \in ShownUpTo(changes) /\ asked' \in Asks
    BY <1>0, <1>3, CallingTwiceTypes DEF SignIn
  <2>2. clicks' \in 0 .. MaxClicks /\ restarts' = 0 /\ careful' \in BOOLEAN
    BY <1>3, ClickFields DEF SignIn
  <2> QED BY <1>0, <1>3, <2>1, <2>2 DEF SignIn
<1>4. CASE RenewToken
  <2>1. loads' \in Tables /\ shown' \in ShownUpTo(changes) /\ asked' \in Asks
    BY <1>0, <1>4, CallingTwiceTypes DEF RenewToken
  <2>2. clicks' \in 0 .. MaxClicks /\ restarts' = 0 /\ careful' \in BOOLEAN
    BY <1>4, ClickFields DEF RenewToken
  <2> QED BY <1>0, <1>4, <2>1, <2>2 DEF RenewToken
<1>5. CASE SwitchView
  <2>1. loads' \in Tables /\ shown' \in ShownUpTo(changes) /\ asked' \in Asks
    BY <1>0, <1>5, CallingTypes DEF SwitchView
  <2>2. clicks' \in 0 .. MaxClicks /\ restarts' = 0 /\ careful' \in BOOLEAN
    BY <1>5, ClickFields DEF SwitchView
  <2> QED BY <1>0, <1>5, <2>1, <2>2 DEF SwitchView
<1>6. CASE ChoosePeriod
  <2>0. period' \in Periods
    BY <1>6 DEF ChoosePeriod
  <2>1. loads' \in Tables /\ shown' \in ShownUpTo(changes) /\ asked' \in Asks
    BY <1>0, <1>6, <2>0, CallingTypes DEF ChoosePeriod
  <2>2. clicks' \in 0 .. MaxClicks /\ restarts' = 0 /\ careful' \in BOOLEAN
    BY <1>6, ClickFields DEF ChoosePeriod
  <2> QED BY <1>0, <1>6, <2>0, <2>1, <2>2 DEF ChoosePeriod
<1>7. CASE Refresh
  <2>1. loads' \in Tables /\ shown' \in ShownUpTo(changes) /\ asked' \in Asks
    BY <1>0, <1>7, CallingTypes DEF Refresh
  <2>2. clicks' \in 0 .. MaxClicks /\ restarts' = 0 /\ careful' \in BOOLEAN
    BY <1>7, ClickFields DEF Refresh
  <2> QED BY <1>0, <1>7, <2>1, <2>2 DEF Refresh
<1>8. ASSUME NEW p \in posts, AnswerPost(p)
      PROVE  /\ changes' = changes /\ Selections' /\ shown' \in ShownUpTo(changes) /\ loads' \in Tables
             /\ asked' \in Asks /\ posts' \subseteq posts /\ Counters' /\ mine' \subseteq Committed
  <2> DEFINE told == {p.change} \ {0}
             patched == IF p.effect.patches THEN [shown EXCEPT !.kind = "data", !.seen = @ \cup told] ELSE shown
  <2>1. told \subseteq Committed /\ p.period \in Periods
    BY <1>0 DEF PostsUpTo, Committed
  <2>2. patched \in ShownUpTo(changes)
    BY <1>0, <2>1 DEF ShownUpTo, Committed
  <2>3. /\ Calling(p.effect.calls, loads, patched, TRUE, p.period) /\ mine' = mine \cup told
        /\ posts' = posts \ {p}
        /\ UNCHANGED <<watched, open, token, view, period, changes, recovered, clicks, careful, restarts>>
    BY <1>8 DEF AnswerPost
  <2> HIDE DEF told, patched
  <2>4. loads' \in Tables /\ shown' \in ShownUpTo(changes) /\ asked' \in Asks
    BY <1>0, <2>1, <2>2, <2>3, CallingTypes
  <2> QED BY <1>0, <2>1, <2>3, <2>4
<1> QED BY <1>2, <1>3, <1>4, <1>5, <1>6, <1>7, <1>8 DEF CallSteps

\* Steps of one load, of one handler, and of the page itself.
LoadSteps ==
  \E i \in Slots :
    ReadLoad(i) \/ RefuseLoad(i) \/ AnswerLoad(i) \/ AnswerRefused(i) \/ FailLoad(i)
      \/ AnswerParent(i) \/ FailParent(i)
PostSteps ==
  \/ \E e \in EffectsOn[watched] : Send(e)
  \/ \E p \in posts : Commit(p) \/ FailPost(p)
  \/ OthersChange
PageSteps == ReloadPage \/ Crash \/ SignOut \/ SessionExpired \/ Expire

LEMMA StepCases == [Next]_vars => CallSteps \/ LoadSteps \/ PostSteps \/ PageSteps \/ UNCHANGED vars
BY DEF Next, Clicks, Network, Quiet, CallSteps, LoadSteps, PostSteps, PageSteps

\* What a load shows when it ends.
LEMMA EndedFields ==
  ASSUME NEW i \in Slots, Ended(i)
  PROVE  /\ loads' = [loads EXCEPT ![i] = Idle] /\ Running
         /\ UNCHANGED <<watched, open, token, view, period, posts, changes, recovered, clicks, asked, mine, restarts>>
BY DEF Ended

LEMMA AfterTypes ==
  ASSUME TypeOK
  PROVE  \A what : After(what) \in ShownUpTo(changes)
BY TypeParts, IdleFields DEF After, ShownUpTo

LEMMA LoadStepTypes ==
  ASSUME TypeOK, LoadSteps
  PROVE  TypeOK'
<1>0. /\ Selections /\ shown \in ShownUpTo(changes) /\ loads \in Tables /\ posts \subseteq PostsUpTo(changes)
      /\ changes \in 0 .. MaxChanges /\ Counters /\ asked \in Asks /\ mine \subseteq Committed
  BY TypeParts
<1>1. SUFFICES /\ UNCHANGED <<watched, open, token, view, period, posts, changes, recovered, clicks, asked, mine, restarts>>
               /\ shown' \in ShownUpTo(changes) /\ loads' \in Tables /\ careful' \in BOOLEAN
  BY <1>0, TypeParts DEF TypeOK, Selections, ShownUpTo, Tables, LoadsUpTo, Counters, Asks, Committed
<1>2. PICK i \in Slots : ReadLoad(i) \/ RefuseLoad(i) \/ AnswerLoad(i) \/ AnswerRefused(i) \/ FailLoad(i)
                           \/ AnswerParent(i) \/ FailParent(i)
  BY DEF LoadSteps
<1>3. loads[i] \in LoadsUpTo(changes) /\ careful \in BOOLEAN
  BY <1>0 DEF Tables, Counters
<1>4. CASE ReadLoad(i) \/ RefuseLoad(i) \/ AnswerParent(i)
  <2>1. \E step \in {"sent", "read", "refused"}, seen \in {loads[i].seen, Committed} :
           loads' = [loads EXCEPT ![i] = [loads[i] EXCEPT !.step = step, !.seen = seen]]
    <3>1. CASE ReadLoad(i)
      BY <3>1 DEF ReadLoad
    <3>2. CASE RefuseLoad(i)
      <4>1. [loads[i] EXCEPT !.step = "refused"] = [loads[i] EXCEPT !.step = "refused", !.seen = loads[i].seen]
        BY <1>3 DEF LoadsUpTo
      <4> QED BY <3>2, <4>1 DEF RefuseLoad
    <3>3. CASE AnswerParent(i)
      <4>1. [loads[i] EXCEPT !.step = "sent"] = [loads[i] EXCEPT !.step = "sent", !.seen = loads[i].seen]
        BY <1>3 DEF LoadsUpTo
      <4> QED BY <3>3, <4>1 DEF AnswerParent
    <3> QED BY <1>4, <3>1, <3>2, <3>3
  <2>2. \A step \in {"sent", "read", "refused"}, seen \in {loads[i].seen, Committed} :
           [loads[i] EXCEPT !.step = step, !.seen = seen] \in LoadsUpTo(changes)
    BY <1>3 DEF LoadsUpTo, Committed
  <2>3. loads' \in Tables
    BY <1>0, <2>1, <2>2 DEF Tables
  <2>4. /\ UNCHANGED <<watched, open, token, view, period, posts, changes, recovered, clicks, asked, mine, restarts>>
        /\ UNCHANGED <<shown, careful>>
    BY <1>4 DEF ReadLoad, RefuseLoad, AnswerParent, history
  <2> QED BY <1>0, <1>3, <2>3, <2>4
<1>5. CASE AnswerLoad(i) \/ AnswerRefused(i) \/ FailLoad(i) \/ FailParent(i)
  <2>1. Ended(i) /\ careful' \in {careful, FALSE}
    BY <1>5 DEF AnswerLoad, AnswerRefused, FailLoad, FailParent
  <2>2. loads' \in Tables
    BY <1>0, <2>1, EndedFields, IdleFields DEF Tables
  <2>3. [kind |-> "data", seen |-> loads[i].seen, period |-> loads[i].period] \in ShownUpTo(changes)
    BY <1>3 DEF ShownUpTo, LoadsUpTo
  <2>4. shown' \in ShownUpTo(changes)
    BY <1>0, <1>5, <2>3, AfterTypes, IdleFields DEF AnswerLoad, AnswerRefused, FailLoad, FailParent, Shows
  <2> QED BY <1>3, <2>1, <2>2, <2>4, EndedFields
<1> QED BY <1>2, <1>4, <1>5

LEMMA PostStepTypes ==
  ASSUME TypeOK, PostSteps
  PROVE  TypeOK'
<1>0. /\ Selections /\ shown \in ShownUpTo(changes) /\ loads \in Tables /\ posts \subseteq PostsUpTo(changes)
      /\ changes \in 0 .. MaxChanges /\ Counters /\ asked \in Asks /\ mine \subseteq Committed
  BY TypeParts
<1> DEFINE Grown == [id: 1 .. MaxClicks, effect: EffectsOn[watched], period: Periods,
                     done: BOOLEAN, change: {0} \cup (1 .. changes')]
           Grows == changes' = changes \/ (changes < MaxChanges /\ changes' = changes + 1)
<1>1. SUFFICES /\ UNCHANGED <<watched, open, token, view, period, shown, loads, recovered, asked, mine>>
               /\ Grows /\ posts' \subseteq Grown
               /\ clicks' \in 0 .. MaxClicks /\ careful' \in BOOLEAN /\ restarts' \in 0 .. 2
  <2>1. /\ changes' \in 0 .. MaxChanges /\ Committed \subseteq Committed'
        /\ shown \in ShownUpTo(changes') /\ loads \in [Slots -> LoadsUpTo(changes')] /\ asked \in Asks'
    BY <1>0, <1>1, TypesGrow
  <2>2. Selections' /\ Counters'
    BY <1>0, <1>1 DEF Selections, Counters
  <2>3. posts' \subseteq PostsUpTo(changes)'
    BY <1>1 DEF PostsUpTo
  <2>4. shown' \in ShownUpTo(changes)' /\ loads' \in Tables' /\ asked' \in Asks' /\ mine' \subseteq Committed'
    BY <1>0, <1>1, <2>1 DEF ShownUpTo, Tables, LoadsUpTo
  <2> QED BY <2>1, <2>2, <2>3, <2>4, TypeParts DEF TypeOK, Selections, ShownUpTo, Tables, LoadsUpTo, PostsUpTo, Counters,
                                               Asks, Committed
<1>2. Grows => posts \subseteq Grown
  BY <1>0, TypesGrow
<1>3. ASSUME NEW e \in EffectsOn[watched], Send(e)
      PROVE  /\ UNCHANGED <<watched, open, token, view, period, shown, loads, recovered, asked, mine>>
             /\ Grows /\ posts' \subseteq Grown
             /\ clicks' \in 0 .. MaxClicks /\ careful' \in BOOLEAN /\ restarts' \in 0 .. 2
  <2>1. /\ clicks' \in 0 .. MaxClicks /\ clicks' \in 1 .. MaxClicks /\ careful' \in BOOLEAN /\ restarts' = 0
    BY <1>3, ClickFields DEF Send
  <2>2. [id |-> clicks', effect |-> e, period |-> period, done |-> FALSE, change |-> 0] \in Grown
    BY <1>0, <2>1 DEF Selections
  <2>3. /\ UNCHANGED <<watched, open, token, view, period, shown, loads, changes, recovered, asked, mine>>
        /\ posts' = posts \cup {[id |-> clicks', effect |-> e, period |-> period, done |-> FALSE, change |-> 0]}
    BY <1>3 DEF Send
  <2>4. Grows
    BY <2>3
  <2> HIDE DEF Grown, Grows
  <2>5. posts' \subseteq Grown
    BY <1>2, <2>2, <2>3, <2>4
  <2>6. restarts' \in 0 .. 2
    BY <2>1
  <2> QED BY <2>1, <2>3, <2>4, <2>5, <2>6
<1>4. ASSUME NEW p \in posts, Commit(p)
      PROVE  /\ UNCHANGED <<watched, open, token, view, period, shown, loads, recovered, asked, mine>>
             /\ Grows /\ posts' \subseteq Grown /\ UNCHANGED <<clicks, careful, restarts>>
  <2>1. /\ UNCHANGED <<watched, open, token, view, period, shown, loads, recovered, asked, mine>>
        /\ Grows /\ UNCHANGED <<clicks, careful, restarts>>
    BY <1>4 DEF Commit, history
  <2>2. changes' \in Nat /\ (p.effect.changes => changes' \in 1 .. changes')
    BY <1>0, <1>4, BoundsAssumption DEF Commit
  <2>3. p \in Grown
    BY <1>2, <2>1
  <2>4. [p EXCEPT !.done = TRUE, !.change = IF p.effect.changes THEN changes' ELSE 0] \in Grown
    BY <2>2, <2>3
  <2>5. posts' = (posts \ {p}) \cup {[p EXCEPT !.done = TRUE, !.change = IF p.effect.changes THEN changes' ELSE 0]}
    BY <1>4 DEF Commit
  <2> HIDE DEF Grown
  <2> QED BY <1>2, <2>1, <2>4, <2>5
<1>5. ASSUME NEW p \in posts, FailPost(p)
      PROVE  /\ UNCHANGED <<watched, open, token, view, period, shown, loads, recovered, asked, mine>>
             /\ Grows /\ posts' \subseteq posts
             /\ clicks' = clicks /\ careful' = FALSE /\ restarts' = restarts
  BY <1>5 DEF FailPost
<1>6. ASSUME OthersChange
      PROVE  /\ UNCHANGED <<watched, open, token, view, period, shown, loads, recovered, asked, mine>>
             /\ Grows /\ UNCHANGED <<posts, clicks, careful, restarts>>
  BY <1>6 DEF OthersChange, page, history
<1> HIDE DEF Grown, Grows
<1> QED BY <1>0, <1>2, <1>3, <1>4, <1>5, <1>6 DEF PostSteps, Counters

\* A page that is left or signed out keeps what the user chose, or empties it.
LEMMA PageStepTypes ==
  ASSUME TypeOK, PageSteps
  PROVE  TypeOK'
<1>0. /\ Selections /\ shown \in ShownUpTo(changes) /\ loads \in Tables /\ posts \subseteq PostsUpTo(changes)
      /\ changes \in 0 .. MaxChanges /\ Counters /\ asked \in Asks /\ mine \subseteq Committed
  BY TypeParts
<1>1. SUFFICES /\ changes' = changes /\ Selections' /\ shown' \in ShownUpTo(changes) /\ loads' \in Tables
               /\ asked' \in Asks /\ posts' \subseteq posts /\ Counters' /\ mine' = mine
  <2>1. watched' = watched
    BY DEF PageSteps, ReloadPage, Crash, SignOut, SessionExpired, Expire
  <2> QED BY <1>0, <2>1, TypeParts DEF TypeOK, Selections, ShownUpTo, Tables, LoadsUpTo, Counters, Asks, Committed
<1>2. /\ Blank \in ShownUpTo(changes) /\ [i \in Slots |-> Idle] \in Tables /\ [seen |-> {}, period |-> 0] \in Asks
      /\ NotNewest(loads) \in Tables
  BY <1>0, IdleFields, NotNewestFields DEF Tables, Asks
<1> USE DEF Selections, Counters
<1>3. CASE ReloadPage
  <2>1. clicks' \in 0 .. MaxClicks /\ restarts' = 0 /\ careful' \in BOOLEAN
    BY <1>3, ClickFields DEF ReloadPage
  <2> QED BY <1>0, <1>2, <1>3, <2>1 DEF ReloadPage, Leave
<1>4. CASE Crash
  <2>1. /\ recovered' = TRUE /\ view' = "overview" /\ open' \in {"starting", "fallback"}
        /\ UNCHANGED <<watched, token, period, changes, clicks, mine, careful>>
    BY <1>4 DEF Crash, Leave
  <2>2. restarts' \in 0 .. 2
    BY <1>0, <1>4 DEF Crash
  <2>3. shown' \in ShownUpTo(changes) /\ loads' \in Tables /\ asked' \in Asks /\ posts' \subseteq posts
    BY <1>0, <1>2, <1>4 DEF Crash, Leave
  <2> QED BY <1>0, <2>1, <2>2, <2>3
<1>5. CASE SignOut
  <2>1. clicks' \in 0 .. MaxClicks /\ restarts' = 0 /\ careful' \in BOOLEAN
    BY <1>5, ClickFields DEF SignOut
  <2> QED BY <1>0, <1>2, <1>5, <2>1 DEF SignOut, clearAuthenticatedState, DropsTheToken
<1>6. CASE SessionExpired
  BY <1>0, <1>2, <1>6 DEF SessionExpired, clearAuthenticatedState, DropsTheToken, history
<1>7. CASE Expire
  BY <1>0, <1>7 DEF Expire, history
<1> QED BY <1>3, <1>4, <1>5, <1>6, <1>7 DEF PageSteps

LEMMA StepType ==
  ASSUME TypeOK, [Next]_vars
  PROVE  TypeOK'
<1>1. CASE UNCHANGED vars
  BY <1>1 DEF vars, page, history, TypeOK, Committed
<1> QED BY <1>1, StepCases, CallStepTypes, LoadStepTypes, PostStepTypes, PageStepTypes

-----------------------------------------------------------------------------
(* The trial balance                                                       *)

\* What one step of a load does to the table and to what is shown.
LEMMA LoadFields ==
  ASSUME TypeOK, NEW i \in Slots,
         ReadLoad(i) \/ RefuseLoad(i) \/ AnswerLoad(i) \/ AnswerRefused(i) \/ FailLoad(i)
           \/ AnswerParent(i) \/ FailParent(i)
  PROVE  /\ UNCHANGED <<watched, open, token, posts, changes, asked, mine>>
         /\ loads[i].step # "idle"
         /\ \A j \in Slots \ {i} : loads'[j] = loads[j]
         /\ \/ /\ loads'[i].step = "read" /\ loads'[i].seen = Committed /\ shown' = shown /\ careful' = careful
               /\ loads'[i].newest = loads[i].newest /\ loads'[i].period = loads[i].period /\ loads[i].step = "sent"
            \/ /\ loads'[i].step \in {"sent", "refused"} /\ shown' = shown /\ careful' = careful
               /\ loads'[i].newest = loads[i].newest /\ loads'[i].period = loads[i].period
               /\ loads'[i].step = "sent" => loads[i].step = "before"
            \/ AnswerLoad(i) /\ loads'[i] = Idle /\ careful' = careful /\ loads[i].step = "read"
            \/ (AnswerRefused(i) \/ FailLoad(i) \/ FailParent(i)) /\ loads'[i] = Idle /\ careful' = FALSE
<1>1. loads \in Tables /\ loads[i] \in LoadsUpTo(changes)
  BY TypeParts DEF Tables
<1> USE DEF Tables, LoadsUpTo
<1>2. CASE ReadLoad(i)
  BY <1>1, <1>2 DEF ReadLoad, history
<1>3. CASE RefuseLoad(i)
  BY <1>1, <1>3 DEF RefuseLoad, history
<1>4. CASE AnswerParent(i)
  BY <1>1, <1>4 DEF AnswerParent, history
<1>5. CASE AnswerLoad(i)
  BY <1>1, <1>5, EndedFields DEF AnswerLoad
<1>6. CASE AnswerRefused(i) \/ FailLoad(i) \/ FailParent(i)
  BY <1>1, <1>6, EndedFields DEF AnswerRefused, FailLoad, FailParent
<1> QED BY <1>2, <1>3, <1>4, <1>5, <1>6

LEMMA StepNewest ==
  ASSUME IInv, [Next]_vars
  PROVE  TrialBalanceIsOfNewestRequest' /\ NewestIsOfAsked'
<1>0. watched' = watched
  BY StepCases, LoadFields
  DEF CallSteps, Start, SignIn, RenewToken, SwitchView, ChoosePeriod, Refresh, AnswerPost, LoadSteps, PostSteps, Send,
      Commit, FailPost, OthersChange, PageSteps, ReloadPage, Crash, SignOut, SessionExpired, Expire, vars, IInv
<1> SUFFICES ASSUME watched = "trialBalance"
             PROVE  /\ shown'.kind # "error"
                    /\ shown'.kind = "data" => shown'.period = asked'.period /\ asked'.seen \subseteq shown'.seen
                    /\ \A i \in Slots : loads'[i].newest =>
                         /\ loads'[i].step # "before" /\ loads'[i].period = asked'.period
                         /\ loads'[i].step = "read" => asked'.seen \subseteq loads'[i].seen
  BY <1>0 DEF TrialBalanceIsOfNewestRequest, NewestIsOfAsked
<1>1. /\ TypeOK /\ shown.kind # "error"
      /\ shown.kind = "data" => shown.period = asked.period /\ asked.seen \subseteq shown.seen
      /\ \A i \in Slots : loads[i].newest =>
           /\ loads[i].step # "before" /\ loads[i].period = asked.period
           /\ loads[i].step = "read" => asked.seen \subseteq loads[i].seen
      /\ asked.seen \subseteq Committed
      /\ watched \notin DOMAIN CalledBy /\ watched \in Registers
      /\ Loaders[watched].first = "clear" /\ Loaders[watched].newestOnly = TRUE
      /\ Loaders[watched].refused = "keep" /\ Loaders[watched].failed = "keep"
      /\ Idle.newest = FALSE /\ Blank.kind = "none"
  BY TrialBalanceLoader, IdleFields DEF IInv, TrialBalanceIsOfNewestRequest, NewestIsOfAsked, TypeOK
<1>2. ASSUME NEW s \in {shown, Blank}, Showing(s)
      PROVE  /\ shown'.kind # "error"
             /\ shown'.kind = "data" => shown'.period = asked'.period /\ asked'.seen \subseteq shown'.seen
             /\ \A i \in Slots : loads'[i].newest =>
                  /\ loads'[i].step # "before" /\ loads'[i].period = asked'.period
                  /\ loads'[i].step = "read" => asked'.seen \subseteq loads'[i].seen
  BY <1>1, <1>2 DEF Showing, Loading, NowAsked
<1>3. CASE CallSteps
  <2>1. Showing(shown) \/ Showing(Blank)
    <3>0. period \in Periods /\ TRUE \in BOOLEAN /\ FALSE \in BOOLEAN
      BY <1>1 DEF TypeOK
    <3>1. CASE Start
      BY <1>1, <3>0, <3>1, CallingFields, CallingTwiceFields DEF Start
    <3>2. CASE SignIn
      BY <1>1, <3>0, <3>2, CallingTwiceFields DEF SignIn
    <3>3. CASE RenewToken
      BY <1>1, <3>0, <3>3, CallingTwiceFields DEF RenewToken
    <3>4. CASE SwitchView
      BY <1>1, <3>0, <3>4, CallingFields DEF SwitchView
    <3>5. CASE ChoosePeriod
      <4>1. period' \in Periods /\ Calling(ViewEffects(view), loads, shown, TRUE, period')
        BY <3>5 DEF ChoosePeriod
      <4> QED BY <1>1, <3>0, <4>1, CallingFields
    <3>6. CASE Refresh
      BY <1>1, <3>0, <3>6, CallingFields DEF Refresh
    <3>7. ASSUME NEW p \in posts, AnswerPost(p) PROVE Showing(shown)
      <4>1. p.effect \in EffectsOn[watched] /\ p.period \in Periods
        BY <1>1 DEF TypeOK
      <4>2. ~p.effect.patches
        BY <1>1, <4>1, EffectsCover
      <4>3. Calling(p.effect.calls, loads, shown, TRUE, p.period)
        BY <3>7, <4>2 DEF AnswerPost
      <4> QED BY <1>1, <3>0, <4>1, <4>3, CallingFields
    <3> QED BY <1>3, <3>1, <3>2, <3>3, <3>4, <3>5, <3>6, <3>7 DEF CallSteps
  <2> QED BY <1>2, <2>1
<1>4. CASE LoadSteps
  <2>1. PICK i \in Slots : ReadLoad(i) \/ RefuseLoad(i) \/ AnswerLoad(i) \/ AnswerRefused(i) \/ FailLoad(i)
                             \/ AnswerParent(i) \/ FailParent(i)
    BY <1>4 DEF LoadSteps
  <2>2. asked' = asked /\ \A j \in Slots \ {i} : loads'[j] = loads[j]
    BY <1>1, <2>1, LoadFields
  <2>3. loads'[i].newest =>
          /\ loads'[i].step # "before" /\ loads'[i].period = asked'.period
          /\ loads'[i].step = "read" => asked'.seen \subseteq loads'[i].seen
    BY <1>1, <2>1, LoadFields
  <2>4. \/ shown' = shown
        \/ loads[i].newest /\ loads[i].step = "read"
             /\ shown' = [kind |-> "data", seen |-> loads[i].seen, period |-> loads[i].period]
    <3>1. After("keep") = shown
      BY DEF After
    <3> QED BY <1>1, <2>1, <3>1 DEF ReadLoad, RefuseLoad, AnswerParent, AnswerLoad, AnswerRefused, FailLoad, FailParent, Shows
  <2> QED BY <1>1, <2>2, <2>3, <2>4
<1>5. CASE PostSteps \/ UNCHANGED vars
  <2>1. UNCHANGED <<shown, loads, asked>>
    BY <1>5 DEF PostSteps, Send, Commit, FailPost, OthersChange, page, history, vars
  <2> QED BY <1>1, <2>1
<1>6. CASE PageSteps
  <2>1. \/ shown' = Blank /\ loads' = [i \in Slots |-> Idle]
        \/ shown' \in {shown, Blank} /\ loads' \in {loads, NotNewest(loads)} /\ asked' = asked
    BY <1>6 DEF PageSteps, ReloadPage, Crash, Leave, SignOut, SessionExpired, clearAuthenticatedState, Expire, history
  <2>2. \A i \in Slots : NotNewest(loads)[i].newest = FALSE
    BY <1>1, TypeParts, NotNewestFields
  <2> QED BY <1>1, <2>1, <2>2
<1> QED BY <1>3, <1>4, <1>5, <1>6, StepCases

-----------------------------------------------------------------------------
(* Handlers and the page that starts                                       *)

LEMMA StepAnswers ==
  ASSUME IInv, [Next]_vars
  PROVE  AnswersAreOfHandlers'
<1>0. posts \subseteq PostsUpTo(changes) /\ \A p \in posts : p.done /\ p.change # 0 => p.effect.accepted /\ p.effect.changes
  BY TypeParts DEF IInv, AnswersAreOfHandlers
<1>1. CASE posts' \subseteq posts
  BY <1>0, <1>1 DEF AnswersAreOfHandlers
<1>2. ASSUME NEW e \in EffectsOn[watched], Send(e)
      PROVE  AnswersAreOfHandlers'
  <2> DEFINE new == [id |-> clicks', effect |-> e, period |-> period, done |-> FALSE, change |-> 0]
  <2>1. posts' = posts \cup {new} /\ new.done = FALSE
    BY <1>2 DEF Send
  <2> HIDE DEF new
  <2> QED BY <1>0, <2>1 DEF AnswersAreOfHandlers
<1>3. ASSUME NEW p \in posts, Commit(p)
      PROVE  AnswersAreOfHandlers'
  <2> DEFINE new == [p EXCEPT !.done = TRUE, !.change = IF p.effect.changes THEN changes' ELSE 0]
  <2>1. posts' = (posts \ {p}) \cup {new} /\ p.effect.accepted
    BY <1>3 DEF Commit
  <2>2. new.effect = p.effect /\ new.change = IF p.effect.changes THEN changes' ELSE 0
    BY <1>0 DEF PostsUpTo
  <2>3. new.change # 0 => p.effect.changes
    BY <2>2
  <2> HIDE DEF new
  <2> QED BY <1>0, <2>1, <2>2, <2>3 DEF AnswersAreOfHandlers
<1>4. CallSteps \/ LoadSteps \/ PageSteps \/ UNCHANGED vars => posts' \subseteq posts
  BY LoadFields
  DEF CallSteps, Start, SignIn, RenewToken, SwitchView, ChoosePeriod, Refresh, AnswerPost, LoadSteps,
      PageSteps, ReloadPage, Crash, Leave, SignOut, SessionExpired, Expire, vars, page, IInv
<1>5. (\E p \in posts : FailPost(p)) \/ OthersChange => posts' \subseteq posts
  BY DEF FailPost, OthersChange, page
<1> QED BY <1>1, <1>2, <1>3, <1>4, <1>5, StepCases DEF PostSteps

\* Nothing is in flight before the page has started.
LEMMA StepStarts ==
  ASSUME IInv, [Next]_vars
  PROVE  StartsEmpty'
<1>0. TypeOK /\ (open = "starting" => posts = {} /\ Still)
  BY DEF IInv, StartsEmpty
<1>1. CASE UNCHANGED <<open, posts, loads>>
  BY <1>0, <1>1 DEF StartsEmpty, Still
<1>2. CASE Leave
  BY <1>2 DEF StartsEmpty, Still, Leave
<1>3. CASE open' # "starting"
  BY <1>3 DEF StartsEmpty
<1>4. ASSUME Click, UNCHANGED open
      PROVE  open' # "starting"
  BY <1>0, <1>4, ClickFields
<1>5. CASE CallSteps
  BY <1>3, <1>4, <1>5 DEF CallSteps, Start, SignIn, RenewToken, SwitchView, ChoosePeriod, Refresh, AnswerPost, Running
<1>6. CASE LoadSteps
  <2>1. PICK i \in Slots : ReadLoad(i) \/ RefuseLoad(i) \/ AnswerLoad(i) \/ AnswerRefused(i) \/ FailLoad(i)
                             \/ AnswerParent(i) \/ FailParent(i)
    BY <1>6 DEF LoadSteps
  <2>2. loads[i].step # "idle" /\ UNCHANGED open
    BY <1>0, <2>1, LoadFields
  <2>3. ~Still
    BY <2>2, IdleFields DEF Still
  <2> QED BY <1>0, <1>3, <2>2, <2>3
<1>7. CASE PostSteps
  BY <1>0, <1>1, <1>3, <1>4, <1>7 DEF PostSteps, Send, Commit, FailPost, OthersChange, page
<1>8. CASE PageSteps
  <2>1. CASE ReloadPage
    BY <1>2, <2>1 DEF ReloadPage
  <2>2. CASE Crash
    BY <1>2, <1>3, <2>2 DEF Crash
  <2>3. CASE SignOut
    BY <1>3, <1>4, <2>3 DEF SignOut
  <2>4. CASE SessionExpired
    BY <1>3, <2>4 DEF SessionExpired, Running
  <2>5. CASE Expire
    BY <1>1, <2>5 DEF Expire
  <2> QED BY <1>8, <2>1, <2>2, <2>3, <2>4, <2>5 DEF PageSteps
<1>9. CASE UNCHANGED vars
  BY <1>1, <1>9 DEF vars, page
<1> QED BY <1>5, <1>6, <1>7, <1>8, <1>9, StepCases

-----------------------------------------------------------------------------
(* Own changes                                                             *)

LEMMA WatchedStays ==
  ASSUME TypeOK, [Next]_vars
  PROVE  watched' = watched
BY StepCases, LoadFields
DEF CallSteps, Start, SignIn, RenewToken, SwitchView, ChoosePeriod, Refresh, AnswerPost, LoadSteps, PostSteps, Send,
    Commit, FailPost, OthersChange, PageSteps, ReloadPage, Crash, SignOut, SessionExpired, Expire, vars

\* What is in flight has the changes of c, or is asked for them.
FlightsHave(c) ==
  /\ \A p, q \in posts : p = q
  /\ posts # {} => Still
  /\ \A i \in Slots : loads[i].step # "before" /\ (loads[i].step = "read" => c \subseteq loads[i].seen)

LEMMA OwnParts ==
  OwnChangesComeBack <=>
    (watched \in OwnLists /\ careful /\ open = "open" =>
       FlightsHave(mine) /\ (Lasts /\ Still => mine \subseteq shown.seen))
BY DEF OwnChangesComeBack, FlightsHave

\* Loaders called by a page that is still.
LEMMA CalledWhenStill ==
  ASSUME TypeOK, Still, posts' = {}, NEW s, Showing(s), StayOnTheirWay(loads)
  PROVE  /\ FlightsHave(mine)'
         /\ Loading(s) => ~Still'
         /\ ~Loading(s) => shown' = s
<1>1. \A i \in Slots : loads'[i].step \in {"sent", "idle"}
  BY IdleFields DEF Still, StayOnTheirWay
<1>2. FlightsHave(mine)'
  BY <1>1 DEF FlightsHave
<1>3. Loading(s) => ~Still'
  BY IdleFields DEF Loading, NowAsked, Still
<1> QED BY <1>2, <1>3 DEF Showing

LEMMA OwnChangesOfClicks ==
  ASSUME TypeOK, OwnChangesComeBack, watched \in OwnLists, careful', open' = "open",
         SignIn \/ RenewToken \/ SwitchView \/ ChoosePeriod \/ Refresh
  PROVE  FlightsHave(mine)' /\ (Lasts' /\ Still' => mine' \subseteq shown'.seen)
<1>1. Click /\ UNCHANGED <<watched, open, posts, mine>>
  BY DEF SignIn, RenewToken, SwitchView, ChoosePeriod, Refresh
<1>2. careful /\ posts = {} /\ Still /\ open = "open"
  BY <1>1, ClickFields
<1>3. Lasts => mine \subseteq shown.seen
  BY <1>2, OwnParts
<1>4. watched \notin DOMAIN CalledBy /\ period \in Periods /\ TRUE \in BOOLEAN /\ FALSE \in BOOLEAN
  BY OwnListLoaders DEF TypeOK
<1>5. Showing(shown) /\ StayOnTheirWay(loads) /\ (Lasts \/ Loading(shown))
  <2>1. CASE SignIn
    <3>1. watched \in LoadedWithToken \/ watched \notin ClearedAtSignOut
      BY DEF OwnLists, LoadedWithToken, ClearedAtSignOut, Registers, Loaders
    <3> QED BY <1>4, <2>1, <3>1, CallingTwiceFields DEF SignIn, Lasts
  <2>2. CASE RenewToken
    BY <1>4, <2>2, CallingTwiceFields DEF RenewToken, Lasts
  <2>3. CASE SwitchView
    BY <1>4, <2>3, CallingFields DEF SwitchView, Lasts
  <2>4. CASE ChoosePeriod
    <3>1. period' \in Periods /\ Calling(ViewEffects(view), loads, shown, TRUE, period') /\ token # "none"
      BY <2>4 DEF ChoosePeriod
    <3> QED BY <1>4, <3>1, CallingFields DEF Lasts
  <2>5. CASE Refresh
    BY <1>4, <2>5, CallingFields DEF Refresh, Lasts
  <2> QED BY <2>1, <2>2, <2>3, <2>4, <2>5
<1>6. FlightsHave(mine)' /\ (Loading(shown) => ~Still') /\ (~Loading(shown) => shown' = shown)
  BY <1>1, <1>2, <1>5, CalledWhenStill
<1> QED BY <1>1, <1>3, <1>5, <1>6

LEMMA OwnChangesOfAnswer ==
  ASSUME TypeOK, OwnChangesComeBack, AnswersAreOfHandlers,
         watched \in OwnLists, careful', open' = "open", NEW p \in posts, AnswerPost(p)
  PROVE  FlightsHave(mine)' /\ (Lasts' /\ Still' => mine' \subseteq shown'.seen)
<1> DEFINE told == {p.change} \ {0}
           patched == IF p.effect.patches THEN [shown EXCEPT !.kind = "data", !.seen = @ \cup told] ELSE shown
<1>1. /\ p.done /\ Calling(p.effect.calls, loads, patched, TRUE, p.period) /\ mine' = mine \cup told
      /\ posts' = posts \ {p} /\ UNCHANGED <<watched, open, token, careful>>
  BY DEF AnswerPost
<1>2. posts' = {} /\ Still /\ (Lasts => mine \subseteq shown.seen)
  BY <1>1, OwnParts DEF FlightsHave
<1>3. watched \notin DOMAIN CalledBy /\ p.period \in Periods /\ TRUE \in BOOLEAN /\ p.effect \in EffectsOn[watched]
  BY OwnListLoaders DEF TypeOK
<1>4. Showing(patched) /\ (watched \in p.effect.calls => Loading(patched)) /\ StayOnTheirWay(loads)
  <2> HIDE DEF patched
  <2> QED BY <1>1, <1>3, CallingFields
<1>5. FlightsHave(mine)' /\ (Loading(patched) => ~Still') /\ (~Loading(patched) => shown' = patched)
  <2> HIDE DEF patched
  <2> QED BY <1>2, <1>4, CalledWhenStill
<1>6. Lasts' <=> Lasts
  BY <1>1 DEF Lasts
<1>7. /\ shown.seen \subseteq patched.seen
      /\ p.effect.patches => told \subseteq patched.seen
  BY TypeParts DEF ShownUpTo
<1>8. told # {} => p.effect.patches \/ watched \in p.effect.calls
  <2>1. watched \in Registers
    BY WatchableAssumption DEF TypeOK
  <2>2. told # {} => p.effect.accepted /\ p.effect.changes
    BY <1>1 DEF AnswersAreOfHandlers
  <2> QED BY <1>3, <2>1, <2>2, EffectsCover
<1> HIDE DEF told, patched
<1>9. CASE Loading(patched)
  BY <1>5, <1>9
<1>10. CASE ~Loading(patched)
  BY <1>1, <1>2, <1>4, <1>5, <1>6, <1>7, <1>8, <1>10
<1> QED BY <1>9, <1>10

LEMMA OwnChangesOfLoads ==
  ASSUME TypeOK, OwnChangesComeBack, watched \in OwnLists, careful', open' = "open", LoadSteps
  PROVE  FlightsHave(mine)' /\ (Lasts' /\ Still' => mine' \subseteq shown'.seen)
<1>1. PICK i \in Slots : ReadLoad(i) \/ RefuseLoad(i) \/ AnswerLoad(i) \/ AnswerRefused(i) \/ FailLoad(i)
                           \/ AnswerParent(i) \/ FailParent(i)
  BY DEF LoadSteps
<1>2. /\ UNCHANGED <<watched, open, token, posts, changes, asked, mine>>
      /\ loads[i].step # "idle" /\ careful' = careful
      /\ \A j \in Slots \ {i} : loads'[j] = loads[j]
      /\ \/ loads'[i].step = "read" /\ loads'[i].seen = Committed
         \/ loads'[i].step = "sent" /\ loads[i].step = "before"
         \/ loads'[i].step = "refused"
         \/ AnswerLoad(i) /\ loads'[i] = Idle /\ loads[i].step = "read"
  BY <1>1, LoadFields
<1>3. posts = {}
  BY <1>2, OwnParts, IdleFields DEF FlightsHave, Still
<1>4. FlightsHave(mine) /\ mine \subseteq Committed
  BY <1>2, OwnParts DEF TypeOK
<1>5. \A j \in Slots : loads'[j].step # "before" /\ (loads'[j].step = "read" => mine \subseteq loads'[j].seen)
  BY <1>2, <1>4, IdleFields DEF FlightsHave
<1>6. FlightsHave(mine)'
  BY <1>2, <1>3, <1>5 DEF FlightsHave
<1>7. Still' => mine \subseteq shown'.seen
  <2> SUFFICES ASSUME Still' PROVE mine \subseteq shown'.seen
    OBVIOUS
  <2>1. AnswerLoad(i) /\ loads[i].step = "read"
    BY <1>2, IdleFields DEF Still
  <2>2. shown' = [kind |-> "data", seen |-> loads[i].seen, period |-> loads[i].period]
    BY <2>1, OwnListLoaders DEF AnswerLoad, Shows
  <2> QED BY <1>4, <2>1, <2>2 DEF FlightsHave
<1> QED BY <1>2, <1>6, <1>7

LEMMA OwnChangesOfPosts ==
  ASSUME TypeOK, OwnChangesComeBack, watched \in OwnLists, careful', open' = "open", PostSteps
  PROVE  FlightsHave(mine)' /\ (Lasts' /\ Still' => mine' \subseteq shown'.seen)
<1>1. UNCHANGED <<watched, open, token, shown, loads, mine>>
  BY DEF PostSteps, Send, Commit, FailPost, OthersChange, page, history
<1>2. (Still' <=> Still) /\ (Lasts' <=> Lasts)
  BY <1>1 DEF Still, Lasts
<1>3. careful
  BY ClickFields DEF PostSteps, Send, Commit, FailPost, OthersChange, history
<1>4. FlightsHave(mine) /\ (Lasts /\ Still => mine \subseteq shown.seen)
  BY <1>1, <1>3, OwnParts
<1>5. (\A p, q \in posts' : p = q) /\ (posts' # {} => Still)
  <2>1. ASSUME NEW e \in EffectsOn[watched], Send(e)
        PROVE  (\A p, q \in posts' : p = q) /\ (posts' # {} => Still)
    <3>1. posts = {} /\ Still
      BY <2>1, ClickFields DEF Send
    <3> QED BY <2>1, <3>1 DEF Send
  <2>2. ASSUME NEW p \in posts, Commit(p)
        PROVE  (\A r, q \in posts' : r = q) /\ (posts' # {} => Still)
    <3>1. posts \ {p} = {} /\ Still
      BY <1>4 DEF FlightsHave
    <3> QED BY <2>2, <3>1 DEF Commit
  <2>3. ASSUME NEW p \in posts, FailPost(p)
        PROVE  FALSE
    BY <2>3 DEF FailPost
  <2>4. CASE OthersChange
    BY <1>4, <2>4 DEF OthersChange, page, FlightsHave
  <2> QED BY <2>1, <2>2, <2>3, <2>4 DEF PostSteps
<1>6. FlightsHave(mine)'
  BY <1>1, <1>2, <1>4, <1>5 DEF FlightsHave
<1> QED BY <1>1, <1>2, <1>4, <1>6

LEMMA OwnChangesOfPage ==
  ASSUME TypeOK, OwnChangesComeBack, watched \in OwnLists, careful', open' = "open", PageSteps
  PROVE  FlightsHave(mine)' /\ (Lasts' /\ Still' => mine' \subseteq shown'.seen)
<1>1. ~ReloadPage /\ ~Crash
  BY DEF ReloadPage, Crash, Leave
<1>2. /\ UNCHANGED <<watched, open, posts, loads, mine>> /\ careful
      /\ Lasts' => Lasts /\ shown' = shown
  <2>0. watched # "trialBalance"
    BY DEF OwnLists
  <2>1. CASE SignOut
    BY <2>0, <2>1, ClickFields DEF SignOut, clearAuthenticatedState, DropsTheToken, Lasts
  <2>2. CASE SessionExpired
    BY <2>0, <2>2 DEF SessionExpired, clearAuthenticatedState, DropsTheToken, Lasts, history
  <2>3. CASE Expire
    BY <2>3 DEF Expire, Lasts, history
  <2> QED BY <1>1, <2>1, <2>2, <2>3 DEF PageSteps
<1>3. FlightsHave(mine) /\ (Lasts /\ Still => mine \subseteq shown.seen)
  BY <1>2, OwnParts
<1>4. (Still' <=> Still) /\ (FlightsHave(mine)' <=> FlightsHave(mine))
  BY <1>2 DEF Still, FlightsHave
<1> QED BY <1>2, <1>3, <1>4

LEMMA StepOwn ==
  ASSUME IInv, [Next]_vars
  PROVE  OwnChangesComeBack'
<1>0. TypeOK /\ OwnChangesComeBack /\ AnswersAreOfHandlers /\ (open = "starting" => posts = {} /\ Still)
  BY DEF IInv, StartsEmpty
<1>1. OwnChangesComeBack' <=>
        (watched' \in OwnLists /\ careful' /\ open' = "open" =>
           FlightsHave(mine)' /\ (Lasts' /\ Still' => mine' \subseteq shown'.seen))
  BY DEF OwnChangesComeBack, FlightsHave
<1>2. watched' = watched
  BY <1>0, WatchedStays
<1> SUFFICES ASSUME watched \in OwnLists, careful', open' = "open"
             PROVE  FlightsHave(mine)' /\ (Lasts' /\ Still' => mine' \subseteq shown'.seen)
  BY <1>1, <1>2
<1>3. CASE Start
  <2>1. Still /\ posts' = {} /\ mine' = {}
    BY <1>0, <1>3 DEF Start
  <2>2. watched \notin DOMAIN CalledBy /\ period \in Periods /\ TRUE \in BOOLEAN
    BY <1>0, OwnListLoaders DEF TypeOK
  <2>3. Showing(Blank) /\ StayOnTheirWay(loads)
    BY <1>0, <1>3, <2>2, CallingFields, CallingTwiceFields DEF Start
  <2>4. FlightsHave(mine)'
    BY <1>0, <2>1, <2>3, CalledWhenStill
  <2> QED BY <2>1, <2>4
<1>4. CASE SignIn \/ RenewToken \/ SwitchView \/ ChoosePeriod \/ Refresh
  BY <1>0, <1>4, OwnChangesOfClicks
<1>5. CASE \E p \in posts : AnswerPost(p)
  BY <1>0, <1>5, OwnChangesOfAnswer
<1>6. CASE LoadSteps
  BY <1>0, <1>6, OwnChangesOfLoads
<1>7. CASE PostSteps
  BY <1>0, <1>7, OwnChangesOfPosts
<1>8. CASE PageSteps
  BY <1>0, <1>8, OwnChangesOfPage
<1>9. CASE UNCHANGED vars
  <2>1. OwnChangesComeBack' <=> OwnChangesComeBack
    BY <1>9 DEF vars, page, history, OwnChangesComeBack, Still, Lasts
  <2> QED BY <1>0, <1>1, <1>2, <2>1
<1> QED BY <1>3, <1>4, <1>5, <1>6, <1>7, <1>8, <1>9, StepCases DEF CallSteps

-----------------------------------------------------------------------------
(* The theorems                                                            *)

LEMMA InitIInv == Init => IInv
<1> SUFFICES ASSUME Init PROVE IInv
  OBVIOUS
<1>1. Still
  BY DEF Init, Still
<1>2. TypeOK
  <2>0. Selections
    BY DEF Init, Selections, Periods
  <2>1. Counters
    <3>1. clicks = 0 /\ recovered = FALSE /\ careful = TRUE /\ restarts = 0
      BY DEF Init
    <3>2. clicks \in 0 .. MaxClicks /\ restarts \in 0 .. 2
      BY <3>1, BoundsAssumption
    <3> QED BY <3>1, <3>2 DEF Counters
  <2>2. shown \in ShownUpTo(changes) /\ loads \in Tables
    BY IdleFields DEF Init, Tables
  <2>3. changes \in 0 .. MaxChanges /\ asked \in Asks /\ mine \subseteq Committed /\ posts \subseteq PostsUpTo(changes)
    BY BoundsAssumption DEF Init, Asks, Committed
  <2> QED BY <2>0, <2>1, <2>2, <2>3, TypeParts
<1>3. NewestIsOfAsked /\ TrialBalanceIsOfNewestRequest
  BY <1>1, IdleFields DEF Init, NewestIsOfAsked, TrialBalanceIsOfNewestRequest, Still
<1>4. OwnChangesComeBack /\ AnswersAreOfHandlers /\ StartsEmpty
  BY <1>1 DEF Init, OwnChangesComeBack, AnswersAreOfHandlers, StartsEmpty
<1> QED BY <1>2, <1>3, <1>4 DEF IInv

LEMMA Invariance == Spec => []IInv
<1>1. IInv /\ [Next]_vars => IInv'
  <2> SUFFICES ASSUME IInv, [Next]_vars PROVE IInv'
    OBVIOUS
  <2>1. TypeOK'
    BY StepType DEF IInv
  <2> QED BY <2>1, StepNewest, StepOwn, StepAnswers, StepStarts DEF IInv
<1> QED BY <1>1, InitIInv, PTL DEF Spec

\* Every value has its type, whatever the register and the bounds.
THEOREM WorkspaceTypeCorrect == Spec => []TypeOK
<1>1. IInv => TypeOK
  BY DEF IInv
<1> QED BY <1>1, Invariance, PTL

\* loadTrialBalanceReport compares its request number: no order of answers,
\* sign-outs and chosen periods shows a trial balance of an older request.
THEOREM WorkspaceTrialBalanceIsOfNewestRequest == Spec => []TrialBalanceIsOfNewestRequest
<1>1. IInv => TrialBalanceIsOfNewestRequest
  BY DEF IInv
<1> QED BY <1>1, Invariance, PTL

\* The patches and the loads of the handlers are enough: a user who waits for
\* every answer sees the own changes in every register that lists them.
THEOREM WorkspaceOwnChangesAreSeen == Spec => []PatientUserSeesOwnChanges
<1>1. IInv => PatientUserSeesOwnChanges
  <2> SUFFICES ASSUME IInv, watched \in OwnLists, careful, Running, token # "none", ~Waiting
               PROVE  mine \subseteq shown.seen
    BY DEF PatientUserSeesOwnChanges
  <2>1. open = "open" /\ Lasts
    BY DEF Running, Lasts
  <2>2. Still
    BY DEF Waiting, FreeSlots, Still
  <2> QED BY <2>1, <2>2, OwnParts DEF IInv
<1> QED BY <1>1, Invariance, PTL

----------------------------------------------------------------------------
(* Sums over the accounts.  The library picks one account after the other; *)
(* a set on which a statement about the sum fails has a smallest subset on *)
(* which it fails, and that one has an account to take away.               *)

Picked(s) == CHOOSE x \in s : TRUE
IsSumUpTo(f, w, S) ==
  f = [s \in SUBSET S |-> IF s = {} THEN 0 ELSE w[Picked(s)] + f[s \ {Picked(s)}]]

LEMMA SumIsChosen == \A w, S : SumFunctionOnSet(w, S) = (CHOOSE f : IsSumUpTo(f, w, S))[S]
BY DEF SumFunctionOnSet, FoldFunctionOnSet, MapThenFoldSet, IsSumUpTo, Picked

LEMMA PickedIsIn == \A s : s # {} => Picked(s) \in s
BY DEF Picked

\* Of the subsets of a finite set that are bad, one has no bad subset.
LEMMA SmallestSet ==
  ASSUME NEW S, IsFiniteSet(S), NEW Bad, Bad \subseteq SUBSET S, Bad # {}
  PROVE  \E s \in Bad : IsFiniteSet(s) /\ \A t \in SUBSET s : t # s => t \notin Bad
<1>1. \A s \in SUBSET S : IsFiniteSet(s)
  BY FS_Subset
<1>2. Bad \subseteq FiniteSubsetsOf(S)
  BY <1>1 DEF FiniteSubsetsOf
<1>3. PICK s \in Bad : \A t \in Bad : <<t, s>> \notin StrictSubsetOrdering(S)
  BY <1>2, FS_StrictSubsetOrderingWellFounded, WFMin
<1>4. ASSUME NEW t \in SUBSET s, t # s, t \in Bad PROVE FALSE
  BY <1>3, <1>4 DEF StrictSubsetOrdering
<1> QED BY <1>1, <1>3, <1>4

\* The recursion says the same of a set, whatever set it was started from,
LEMMA SumsAgree ==
  ASSUME NEW w, NEW S, IsFiniteSet(S), NEW T \in SUBSET S,
         NEW f, IsSumUpTo(f, w, S), NEW g, IsSumUpTo(g, w, T)
  PROVE  f[T] = g[T]
<1> DEFINE Bad == {s \in SUBSET T : f[s] # g[s]}
<1>1. SUFFICES ASSUME Bad # {} PROVE FALSE
  BY <1>1
<1>2. IsFiniteSet(T)
  BY FS_Subset
<1>3. PICK s \in Bad : \A t \in SUBSET s : t # s => t \notin Bad
  <2> HIDE DEF Bad
  <2>1. Bad \subseteq SUBSET T
    BY DEF Bad
  <2> QED BY <1>1, <1>2, <2>1, SmallestSet
<1>4. s # {} => f[s \ {Picked(s)}] = g[s \ {Picked(s)}]
  BY <1>3, PickedIsIn
<1>5. f[s] = IF s = {} THEN 0 ELSE w[Picked(s)] + f[s \ {Picked(s)}]
  BY DEF IsSumUpTo
<1>6. g[s] = IF s = {} THEN 0 ELSE w[Picked(s)] + g[s \ {Picked(s)}]
  BY DEF IsSumUpTo
<1> QED BY <1>3, <1>4, <1>5, <1>6

\* and a function that satisfies it exists.
LEMMA SumExists ==
  ASSUME NEW w, NEW S, IsFiniteSet(S)
  PROVE  \E f : IsSumUpTo(f, w, S)
<1> DEFINE Bad == {s \in SUBSET S : ~ \E f : IsSumUpTo(f, w, s)}
<1>1. SUFFICES ASSUME Bad # {} PROVE FALSE
  BY <1>1
<1>2. PICK s \in Bad : IsFiniteSet(s) /\ \A t \in SUBSET s : t # s => t \notin Bad
  <2> HIDE DEF Bad
  <2>1. Bad \subseteq SUBSET S
    BY DEF Bad
  <2> QED BY <1>1, <2>1, SmallestSet
<1> DEFINE G(t) == CHOOSE f : IsSumUpTo(f, w, t)
           h == [t \in SUBSET s |-> IF t = {} THEN 0 ELSE w[Picked(t)] + G(t \ {Picked(t)})[t \ {Picked(t)}]]
<1>3. ASSUME NEW t \in SUBSET s, t # s PROVE IsSumUpTo(G(t), w, t) /\ IsFiniteSet(t)
  <2>1. \E f : IsSumUpTo(f, w, t)
    BY <1>2, <1>3
  <2> QED BY <1>2, <2>1, FS_Subset
<1>4. ASSUME NEW u \in SUBSET s, u # s PROVE h[u] = G(u)[u]
  <2> DEFINE v == u \ {Picked(u)}
  <2>1. G(u)[u] = IF u = {} THEN 0 ELSE w[Picked(u)] + G(u)[v]
    <3>1. IsSumUpTo(G(u), w, u)
      BY <1>3, <1>4
    <3> HIDE DEF G
    <3> QED BY <3>1 DEF IsSumUpTo
  <2>2. u # {} => G(u)[v] = G(v)[v]
    <3>1. SUFFICES ASSUME u # {} PROVE G(u)[v] = G(v)[v]
      OBVIOUS
    <3>2. v \in SUBSET u /\ v \in SUBSET s /\ v # s
      BY <1>4
    <3>3. IsSumUpTo(G(u), w, u) /\ IsFiniteSet(u) /\ IsSumUpTo(G(v), w, v)
      BY <1>3, <1>4, <3>2
    <3> HIDE DEF G, v
    <3> QED BY <3>2, <3>3, SumsAgree
  <2> HIDE DEF G
  <2> QED BY <2>1, <2>2
<1>5. ASSUME NEW t \in SUBSET s
      PROVE  h[t] = IF t = {} THEN 0 ELSE w[Picked(t)] + h[t \ {Picked(t)}]
  <2>1. t # {} => h[t \ {Picked(t)}] = G(t \ {Picked(t)})[t \ {Picked(t)}]
    BY <1>4, PickedIsIn
  <2> HIDE DEF G
  <2> QED BY <2>1
<1>6. IsSumUpTo(h, w, s)
  <2>1. h = [t \in SUBSET s |-> h[t]]
    OBVIOUS
  <2> HIDE DEF h
  <2> QED BY <1>5, <2>1, Zenon DEF IsSumUpTo
<1> QED BY <1>2, <1>6

\* One account is picked, and the others are summed.
LEMMA SumUnfolds ==
  ASSUME NEW w, NEW S, IsFiniteSet(S)
  PROVE  SumFunctionOnSet(w, S) =
           IF S = {} THEN 0 ELSE w[Picked(S)] + SumFunctionOnSet(w, S \ {Picked(S)})
<1> DEFINE F(T) == CHOOSE f : IsSumUpTo(f, w, T)
           T == S \ {Picked(S)}
<1>1. IsFiniteSet(T)
  BY FS_RemoveElement
<1>2. IsSumUpTo(F(S), w, S) /\ IsSumUpTo(F(T), w, T)
  BY <1>1, SumExists
<1>3. F(S)[S] = IF S = {} THEN 0 ELSE w[Picked(S)] + F(S)[T]
  BY <1>2 DEF IsSumUpTo
<1>4. F(S)[T] = F(T)[T]
  <2> HIDE DEF F
  <2> QED BY <1>2, SumsAgree
<1>5. SumFunctionOnSet(w, S) = F(S)[S] /\ SumFunctionOnSet(w, T) = F(T)[T]
  BY SumIsChosen
<1> QED BY <1>3, <1>4, <1>5

LEMMA SumIsInt ==
  ASSUME NEW w, NEW S, IsFiniteSet(S), \A a \in S : w[a] \in Int
  PROVE  SumFunctionOnSet(w, S) \in Int
<1> DEFINE Bad == {s \in SUBSET S : SumFunctionOnSet(w, s) \notin Int}
<1>1. SUFFICES ASSUME Bad # {} PROVE FALSE
  BY <1>1
<1>2. PICK s \in Bad : IsFiniteSet(s) /\ \A t \in SUBSET s : t # s => t \notin Bad
  <2> HIDE DEF Bad
  <2>1. Bad \subseteq SUBSET S
    BY DEF Bad
  <2> QED BY <1>1, <2>1, SmallestSet
<1>3. s # {} => w[Picked(s)] \in Int /\ SumFunctionOnSet(w, s \ {Picked(s)}) \in Int
  BY <1>2, PickedIsIn
<1>4. SumFunctionOnSet(w, s) =
        IF s = {} THEN 0 ELSE w[Picked(s)] + SumFunctionOnSet(w, s \ {Picked(s)})
  BY <1>2, SumUnfolds
<1> QED BY <1>3, <1>4

\* Adding to one account adds to the sum, wherever the recursion comes to it.
DiffersAt(a, x, w, u, S) == \A b \in S : w[b] \in Int /\ u[b] = IF b = a THEN w[b] + x ELSE w[b]

LEMMA SumOfChange ==
  ASSUME NEW w, NEW u, NEW S, IsFiniteSet(S), NEW a, NEW x \in Int, DiffersAt(a, x, w, u, S)
  PROVE  SumFunctionOnSet(u, S) = SumFunctionOnSet(w, S) + (IF a \in S THEN x ELSE 0)
<1> DEFINE Bad == {s \in SUBSET S :
                     SumFunctionOnSet(u, s) # SumFunctionOnSet(w, s) + (IF a \in s THEN x ELSE 0)}
<1>1. SUFFICES ASSUME Bad # {} PROVE FALSE
  BY <1>1
<1>2. PICK s \in Bad : IsFiniteSet(s) /\ \A t \in SUBSET s : t # s => t \notin Bad
  <2> HIDE DEF Bad
  <2>1. Bad \subseteq SUBSET S
    BY DEF Bad
  <2> QED BY <1>1, <2>1, SmallestSet
<1> DEFINE b == Picked(s)
           r == s \ {b}
<1>3. /\ SumFunctionOnSet(w, s) = IF s = {} THEN 0 ELSE w[b] + SumFunctionOnSet(w, r)
      /\ SumFunctionOnSet(u, s) = IF s = {} THEN 0 ELSE u[b] + SumFunctionOnSet(u, r)
  BY <1>2, SumUnfolds
<1>4. s # {} => b \in s
  BY PickedIsIn
<1>5. SumFunctionOnSet(w, r) \in Int
  <2>1. IsFiniteSet(r) /\ \A c \in r : w[c] \in Int
    BY <1>2, FS_RemoveElement DEF DiffersAt
  <2> QED BY <2>1, SumIsInt
<1> HIDE DEF b
<1>6. CASE s = {}
  BY <1>2, <1>3, <1>6
<1>7. CASE s # {}
  <2>1. SumFunctionOnSet(u, r) = SumFunctionOnSet(w, r) + (IF a \in r THEN x ELSE 0)
    BY <1>2, <1>4, <1>7
  <2>2. u[b] = (IF b = a THEN w[b] + x ELSE w[b]) /\ w[b] \in Int
    BY <1>2, <1>4, <1>7 DEF DiffersAt
  <2>3. SumFunctionOnSet(u, s) = SumFunctionOnSet(w, s) + (IF a \in s THEN x ELSE 0)
    <3>1. SumFunctionOnSet(u, s) = u[b] + SumFunctionOnSet(u, r) /\ SumFunctionOnSet(w, s) = w[b] + SumFunctionOnSet(w, r)
      BY <1>3, <1>7
    <3>2. CASE b = a
      <4>1. a \in s /\ a \notin r
        BY <1>4, <1>7, <3>2
      <4> HIDE DEF r
      <4> QED BY <1>5, <2>1, <2>2, <3>1, <3>2, <4>1
    <3>3. CASE b # a
      <4>1. a \in s <=> a \in r
        BY <3>3
      <4> HIDE DEF r
      <4> QED BY <1>5, <2>1, <2>2, <3>1, <3>3, <4>1
    <3> QED BY <3>2, <3>3
  <2> QED BY <1>2, <2>3
<1> QED BY <1>6, <1>7

----------------------------------------------------------------------------
(* Vouchers.  A voucher has one line for an account, or none.              *)

LEMMA FourAreFinite == \A a, b, c, e : IsFiniteSet({a, b, c, e})
<1> TAKE a, b, c, e
<1>1. IsFiniteSet({a} \cup {b}) /\ IsFiniteSet({c} \cup {e})
  BY FS_Singleton, FS_AddElement
<1>2. IsFiniteSet(({a} \cup {b}) \cup ({c} \cup {e}))
  BY <1>1, FS_Union, Zenon
<1>3. {a, b, c, e} = ({a} \cup {b}) \cup ({c} \cup {e})
  OBVIOUS
<1> QED BY <1>2, <1>3

LEMMA EightAreFinite == \A a, b, c, e, f, g, h, i : IsFiniteSet({a, b, c, e, f, g, h, i})
<1> TAKE a, b, c, e, f, g, h, i
<1>1. IsFiniteSet({a, b, c, e}) /\ IsFiniteSet({f, g, h, i})
  BY FourAreFinite, Zenon
<1>2. IsFiniteSet({a, b, c, e} \cup {f, g, h, i})
  BY <1>1, FS_Union, Zenon
<1>3. {a, b, c, e, f, g, h, i} = {a, b, c, e} \cup {f, g, h, i}
  OBVIOUS
<1> QED BY <1>2, <1>3

LEMMA AccountsAreFinite == IsFiniteSet(Accounts)
<1>1. Accounts = {"3041", "5410", "6570", "7010", "7510", "1510", "1580", "1630"}
                 \cup {"1650", "1930", "2012", "2019", "2099", "2611", "2641", "2650"}
                 \cup {"2710", "2731", "8999", "8999"}
  BY DEF Accounts, IncomeAccounts, CostAccounts
<1> QED BY <1>1, FourAreFinite, EightAreFinite, FS_Union

IsAmountUpTo(f, S) == f = [s \in SUBSET S |-> IF s = {} THEN 0 ELSE Picked(s)[2] + f[s \ {Picked(s)}]]

ChosenAmount(S) == (CHOOSE f : IsAmountUpTo(f, S))[S]

LEMMA AmountIsChosen ==
  \A lines, a : \E S : (\A l : l \in S <=> l \in lines /\ l[1] = a) /\ Amount(lines, {a}) = ChosenAmount(S)
<1> TAKE lines, a
<1> DEFINE S == {l \in lines : l[1] \in {a}}
<1>1. \A l : l \in S <=> l \in lines /\ l[1] = a
  OBVIOUS
<1>2. Amount(lines, {a}) = ChosenAmount(S)
  BY DEF Amount, MapThenSumSet, MapThenFoldSet, Picked, IsAmountUpTo, ChosenAmount
<1> HIDE DEF S
<1> QED BY <1>1, <1>2

LEMMA AmountOfNone ==
  ASSUME NEW lines, NEW a, \A l \in lines : l[1] # a
  PROVE  Amount(lines, {a}) = 0
<1> DEFINE F == CHOOSE f : IsAmountUpTo(f, {})
           g == [s \in SUBSET {} |-> 0]
<1>1. PICK S : (\A l : l \in S <=> l \in lines /\ l[1] = a) /\ Amount(lines, {a}) = ChosenAmount(S)
  BY AmountIsChosen
<1>2. Amount(lines, {a}) = F[{}]
  <2>1. S = {}
    BY <1>1
  <2> QED BY <1>1, <2>1 DEF ChosenAmount
<1>3. IsAmountUpTo(g, {})
  BY DEF IsAmountUpTo
<1>4. IsAmountUpTo(F, {})
  BY <1>3
<1>5. F[{}] = 0
  <2> HIDE DEF F
  <2> QED BY <1>4 DEF IsAmountUpTo
<1> QED BY <1>2, <1>5

LEMMA AmountOfOne ==
  ASSUME NEW lines, NEW a, NEW k \in lines, k[1] = a, k[2] \in Int, \A l \in lines : l[1] = a => l = k
  PROVE  Amount(lines, {a}) = k[2]
<1>1. PICK S : (\A l : l \in S <=> l \in lines /\ l[1] = a) /\ Amount(lines, {a}) = ChosenAmount(S)
  BY AmountIsChosen
<1>3. S = {k}
  BY <1>1
<1> DEFINE F == CHOOSE f : IsAmountUpTo(f, S)
           g == [s \in SUBSET S |-> IF s = {} THEN 0 ELSE k[2]]
<1>4. \A s \in SUBSET S : s # {} => s = S /\ Picked(s) = k /\ s \ {Picked(s)} = {}
  BY <1>3, PickedIsIn
<1>5. IsAmountUpTo(g, S)
  <2>1. ASSUME NEW s \in SUBSET S
        PROVE g[s] = IF s = {} THEN 0 ELSE Picked(s)[2] + g[s \ {Picked(s)}]
    <3>1. CASE s = {}
      BY <3>1
    <3>2. CASE s # {}
      <4>1. Picked(s) = k /\ s \ {Picked(s)} = {}
        BY <1>4, <3>2
      <4>2. g[s] = k[2] /\ g[{}] = 0
        BY <3>2
      <4> HIDE DEF g
      <4>3. Picked(s)[2] + g[s \ {Picked(s)}] = k[2] + 0
        BY <4>1, <4>2
      <4> QED BY <3>2, <4>2, <4>3
    <3> QED BY <3>1, <3>2
  <2>2. g = [s \in SUBSET S |-> g[s]]
    OBVIOUS
  <2> HIDE DEF g
  <2> QED BY <2>1, <2>2, Zenon DEF IsAmountUpTo
<1>6. IsAmountUpTo(F, S)
  <2> HIDE DEF g
  <2> QED BY <1>5
<1>7. F[S] = k[2]
  <2> HIDE DEF F
  <2>1. F[S] = Picked(S)[2] + F[S \ {Picked(S)}]
    BY <1>3, <1>6 DEF IsAmountUpTo
  <2>2. F[{}] = 0
    BY <1>6 DEF IsAmountUpTo
  <2>3. Picked(S) = k /\ S \ {Picked(S)} = {}
    BY <1>3, <1>4
  <2>4. F[S] = k[2] + 0
    BY <2>1, <2>2, <2>3
  <2> QED BY <2>4
<1> QED BY <1>1, <1>7 DEF ChosenAmount

\* A voucher has at most one line for an account.
AreLines(lines) ==
  /\ \A l \in lines : l[1] \in Accounts /\ l[2] \in Int
  /\ \A l, k \in lines : l[1] = k[1] => l = k

LEMMA AmountOfAccount ==
  ASSUME NEW lines, AreLines(lines), NEW a
  PROVE  /\ \A k \in lines : k[1] = a => Amount(lines, {a}) = k[2]
         /\ (\A k \in lines : k[1] # a) => Amount(lines, {a}) = 0
         /\ Amount(lines, {a}) \in Int
<1>1. ASSUME NEW k \in lines, k[1] = a PROVE Amount(lines, {a}) = k[2] /\ k[2] \in Int
  BY <1>1, AmountOfOne DEF AreLines
<1>2. (\A k \in lines : k[1] # a) => Amount(lines, {a}) = 0
  BY AmountOfNone
<1> QED BY <1>1, <1>2

LEMMA AddedIsLedger ==
  ASSUME NEW ledger \in [Accounts -> Int], NEW lines, AreLines(lines)
  PROVE  Added(ledger, lines) \in [Accounts -> Int]
<1>1. ASSUME NEW a \in Accounts PROVE ledger[a] + Amount(lines, {a}) \in Int
  <2>1. Amount(lines, {a}) \in Int
    BY AmountOfAccount
  <2> QED BY <2>1
<1> QED BY <1>1 DEF Added

LEMMA SumOfAccounts ==
  ASSUME NEW w \in [Accounts -> Int], NEW u \in [Accounts -> Int], NEW a \in Accounts, NEW x \in Int,
         \A b \in Accounts : u[b] = IF b = a THEN w[b] + x ELSE w[b]
  PROVE  SumFunction(u) = SumFunction(w) + x
<1>1. SumFunctionOnSet(u, Accounts) = SumFunctionOnSet(w, Accounts) + (IF a \in Accounts THEN x ELSE 0)
  <2>1. PICK S : S = Accounts
    OBVIOUS
  <2>2. DiffersAt(a, x, w, u, S)
    BY <2>1 DEF DiffersAt
  <2>3. IsFiniteSet(S)
    BY <2>1, AccountsAreFinite
  <2>4. SumFunctionOnSet(u, S) = SumFunctionOnSet(w, S) + (IF a \in S THEN x ELSE 0)
    BY <2>2, <2>3, SumOfChange
  <2> QED BY <2>1, <2>4
<1>2. DOMAIN u = Accounts /\ DOMAIN w = Accounts
  OBVIOUS
<1> QED BY <1>1, <1>2 DEF SumFunction

\* One more line adds its amount to the sum.
LEMMA OneMoreLine ==
  ASSUME NEW ledger \in [Accounts -> Int], NEW lines, AreLines(lines), NEW a \in Accounts, NEW x \in Int,
         \A l \in lines : l[1] # a
  PROVE  /\ AreLines(lines \cup {<<a, x>>})
         /\ SumFunction(Added(ledger, lines \cup {<<a, x>>})) = SumFunction(Added(ledger, lines)) + x
<1>1. PICK more : more = lines \cup {<<a, x>>}
  OBVIOUS
<1>2. AreLines(more)
  BY <1>1 DEF AreLines
<1>3. Amount(more, {a}) = x /\ Amount(lines, {a}) = 0
  <2>1. PICK k \in more : k[1] = a /\ k[2] = x
    <3>1. <<a, x>> \in more
      BY <1>1
    <3> QED BY <3>1
  <2>2. Amount(more, {a}) = k[2]
    BY <1>2, <2>1, AmountOfAccount
  <2>3. Amount(lines, {a}) = 0
    BY AmountOfNone
  <2> QED BY <2>1, <2>2, <2>3
<1>4. ASSUME NEW b \in Accounts, b # a PROVE Amount(more, {b}) = Amount(lines, {b})
  <2>1. CASE \E k \in lines : k[1] = b
    <3>1. PICK k \in lines : k[1] = b
      BY <2>1
    <3>2. k \in more
      BY <1>1
    <3> QED BY <1>2, <3>1, <3>2, AmountOfAccount
  <2>2. CASE \A k \in lines : k[1] # b
    <3>1. \A k \in more : k[1] # b
      BY <1>1, <1>4, <2>2
    <3>2. Amount(more, {b}) = 0
      BY <3>1, AmountOfNone
    <3>3. Amount(lines, {b}) = 0
      BY <2>2, AmountOfNone
    <3> QED BY <3>2, <3>3
  <2> QED BY <2>1, <2>2
<1>5. Added(ledger, lines) \in [Accounts -> Int] /\ Added(ledger, more) \in [Accounts -> Int]
  BY <1>2, AddedIsLedger
<1>6. ASSUME NEW b \in Accounts
      PROVE  Added(ledger, more)[b] = IF b = a THEN Added(ledger, lines)[b] + x ELSE Added(ledger, lines)[b]
  <2>1. /\ Added(ledger, more)[b] = ledger[b] + Amount(more, {b})
        /\ Added(ledger, lines)[b] = ledger[b] + Amount(lines, {b})
        /\ ledger[b] \in Int
    BY DEF Added
  <2>2. CASE b = a
    BY <1>3, <2>1, <2>2
  <2>3. CASE b # a
    BY <1>4, <2>1, <2>3
  <2> QED BY <2>2, <2>3
<1>7. SumFunction(Added(ledger, more)) = SumFunction(Added(ledger, lines)) + x
  BY <1>5, <1>6, SumOfAccounts
<1> QED BY <1>1, <1>2, <1>7

LEMMA NoLines ==
  ASSUME NEW ledger \in [Accounts -> Int]
  PROVE  AreLines({}) /\ Added(ledger, {}) = ledger
<1>1. \A a : Amount({}, {a}) = 0
  BY AmountOfNone
<1> QED BY <1>1 DEF AreLines, Added

Two(a, x, b, y) == {<<a, x>>, <<b, y>>}
Three(a, x, b, y, c, z) == {<<a, x>>, <<b, y>>, <<c, z>>}
One(a, x) == {<<a, x>>}
More(lines, a, x) == lines \cup {<<a, x>>}
Without(lines, a) == \A l \in lines : l[1] # a
AddsUp(ledger, lines, x) == AreLines(lines) /\ SumFunction(Added(ledger, lines)) = SumFunction(ledger) + x

LEMMA SumOfLedger ==
  ASSUME NEW ledger \in [Accounts -> Int]
  PROVE  SumFunction(ledger) \in Int
<1>1. PICK S : S = DOMAIN ledger
  OBVIOUS
<1>2. IsFiniteSet(S) /\ \A a \in S : ledger[a] \in Int
  BY <1>1, AccountsAreFinite
<1> QED BY <1>1, <1>2, SumIsInt DEF SumFunction

LEMMA AnotherLine ==
  ASSUME NEW ledger \in [Accounts -> Int], NEW lines, NEW a \in Accounts, NEW x \in Int, NEW y \in Int,
         AddsUp(ledger, lines, x), Without(lines, a)
  PROVE  AddsUp(ledger, More(lines, a, y), x + y)
<1>1. PICK more : more = lines \cup {<<a, y>>}
  OBVIOUS
<1>2. AreLines(more) /\ SumFunction(Added(ledger, more)) = SumFunction(Added(ledger, lines)) + y
  BY <1>1, OneMoreLine DEF AddsUp, Without
<1>3. SumFunction(Added(ledger, more)) = SumFunction(ledger) + (x + y)
  BY <1>2, SumOfLedger DEF AddsUp
<1> QED BY <1>1, <1>2, <1>3 DEF AddsUp, More

LEMMA OneLine ==
  ASSUME NEW ledger \in [Accounts -> Int], NEW a \in Accounts, NEW x \in Int
  PROVE  AddsUp(ledger, One(a, x), x)
<1>1. PICK none : none = {}
  OBVIOUS
<1>2. AddsUp(ledger, none, 0) /\ Without(none, a)
  BY <1>1, NoLines, SumOfLedger DEF AddsUp, Without
<1>3. AddsUp(ledger, More(none, a, x), 0 + x)
  BY <1>2, AnotherLine
<1>4. More(none, a, x) = One(a, x)
  BY <1>1 DEF One, More
<1>5. 0 + x = x
  OBVIOUS
<1> QED BY <1>3, <1>4, <1>5, Zenon

LEMMA TwoLines ==
  ASSUME NEW ledger \in [Accounts -> Int], NEW a \in Accounts, NEW b \in Accounts, a # b, NEW x \in Int, NEW y \in Int
  PROVE  AddsUp(ledger, Two(a, x, b, y), x + y)
<1>1. AddsUp(ledger, One(a, x), x) /\ Without(One(a, x), b)
  BY OneLine DEF One, Without
<1>2. AddsUp(ledger, More(One(a, x), b, y), x + y)
  BY <1>1, AnotherLine
<1>3. More(One(a, x), b, y) = Two(a, x, b, y)
  BY DEF One, Two, More
<1> QED BY <1>2, <1>3, Zenon

LEMMA ThreeLines ==
  ASSUME NEW ledger \in [Accounts -> Int], NEW a \in Accounts, NEW b \in Accounts, NEW c \in Accounts,
         a # b, a # c, b # c, NEW x \in Int, NEW y \in Int, NEW z \in Int
  PROVE  AddsUp(ledger, Three(a, x, b, y, c, z), x + y + z)
<1>1. AddsUp(ledger, Two(a, x, b, y), x + y) /\ Without(Two(a, x, b, y), c) /\ x + y \in Int
  BY TwoLines DEF Two, Without
<1>2. AddsUp(ledger, More(Two(a, x, b, y), c, z), x + y + z)
  BY <1>1, AnotherLine
<1>3. More(Two(a, x, b, y), c, z) = Three(a, x, b, y, c, z)
  BY DEF Two, Three, More
<1> QED BY <1>2, <1>3, Zenon

\* With a fact set aside: what is added takes the place of what was there.
LEMMA WithIs ==
  ASSUME NEW v, NEW w
  PROVE  /\ DOMAIN With(v, w) = DOMAIN v \cup DOMAIN w
         /\ \A k \in DOMAIN w : With(v, w)[k] = w[k]
         /\ \A k \in DOMAIN v : k \notin DOMAIN w => With(v, w)[k] = v[k]
BY DEF With

LEMMA MaxOfTwo ==
  ASSUME NEW m \in Int, NEW n \in Int
  PROVE  Max({m, n}) = IF m >= n THEN m ELSE n
<1> DEFINE k == IF m >= n THEN m ELSE n
<1>1. k \in {m, n} /\ \A y \in {m, n} : k >= y
  OBVIOUS
<1>2. \A j \in {m, n} : (\A y \in {m, n} : j >= y) => j = k
  OBVIOUS
<1> HIDE DEF k
<1>3. (CHOOSE x \in {m, n} : \A y \in {m, n} : x >= y) = k
  BY <1>1, <1>2
<1> QED BY <1>3 DEF Max, k

LEMMA SaleIs == Sale.net = 100 /\ Sale.vat = 25 /\ Sale.total = 125
<1>1. Max({1, 1}) = 1 /\ Max({20, 0}) = 20
  BY MaxOfTwo
<1>2. serviceEffectivePrice(Service) = 100 /\ Service.price = 120 /\ Service.vatPercent = 25
  BY DEF serviceEffectivePrice, Service
<1>3. exactWholeKronaVat(100, 25) = {25}
  BY DEF exactWholeKronaVat
<1> DEFINE preview == invoicePreviewFor(Service, 1)
<1>4. preview.netAmount = 100 /\ preview.vatAmount = {25} /\ preview.totalAmount = {125}
  <2>1. serviceEffectivePrice(Service) * Max({1, 1}) = 100
    BY <1>1, <1>2
  <2>2. {100 + v : v \in {25}} = {125}
    OBVIOUS
  <2> QED BY <1>2, <1>3, <2>1, <2>2 DEF invoicePreviewFor
<1> HIDE DEF preview
<1>5. (CHOOSE v \in {25} : TRUE) = 25 /\ (CHOOSE v \in {125} : TRUE) = 125
  OBVIOUS
<1>6. Sale = [net |-> preview.netAmount, vat |-> CHOOSE v \in preview.vatAmount : TRUE,
              total |-> CHOOSE t \in preview.totalAmount : TRUE]
  BY DEF Sale, preview
<1> QED BY <1>4, <1>5, <1>6

LEMMA PurchaseIs == Purchase.netAmount = 40 /\ Purchase.vatAmount = 10 /\ Purchase.totalAmount = 50
<1> DEFINE w == exactWholeKronaTaxInclusiveSplit(50, 25)
           u == [totalAmount |-> 50]
<1>1. w = [netAmount |-> 40, vatAmount |-> 10, vatError |-> FALSE]
  BY DEF exactWholeKronaTaxInclusiveSplit
<1>2. DOMAIN w = {"netAmount", "vatAmount", "vatError"} /\ w.netAmount = 40 /\ w.vatAmount = 10
  BY <1>1
<1>3. DOMAIN u = {"totalAmount"} /\ u.totalAmount = 50
  OBVIOUS
<1> HIDE DEF w, u
<1>4. Purchase = With(w, u)
  BY DEF Purchase, w, u
<1> QED BY <1>2, <1>3, <1>4 DEF With

LEMMA ResultIsInt ==
  ASSUME NEW p, p.ledger \in [Accounts -> Int]
  PROVE  annualCloseResult(p) \in Int
<1>1. IsFiniteSet(IncomeAccounts) /\ IsFiniteSet(CostAccounts \cup {"8999"})
  <2>1. IncomeAccounts \subseteq Accounts /\ CostAccounts \cup {"8999"} \subseteq Accounts
    BY DEF Accounts
  <2> QED BY <2>1, AccountsAreFinite, FS_Subset
<1>2. PICK S, T : S = IncomeAccounts /\ T = CostAccounts \cup {"8999"}
  OBVIOUS
<1>3. (\A a \in S : p.ledger[a] \in Int) /\ (\A a \in T : p.ledger[a] \in Int)
  BY <1>2 DEF Accounts
<1>4. SumFunctionOnSet(p.ledger, S) \in Int /\ SumFunctionOnSet(p.ledger, T) \in Int
  BY <1>1, <1>2, <1>3, SumIsInt
<1> QED BY <1>2, <1>4 DEF annualCloseResult, Revenue

LEMMA AccountsAre ==
  /\ {"1510", "1580", "1630", "1650", "1930", "2012", "2019", "2099"} \subseteq Accounts
  /\ {"2611", "2641", "2650", "2710", "2731", "8999", "3041", "5410"} \subseteq Accounts
  /\ {"6570", "7010", "7510"} \subseteq Accounts
BY DEF Accounts, IncomeAccounts, CostAccounts

LEMMA LinesAre ==
  ASSUME NEW p
  PROVE  /\ Lines(p, "invoice") = Three("1510", Sale.total, "3041", -Sale.net, "2611", -Sale.vat)
         /\ Lines(p, "payment") = Two("1930", Sale.total, "1510", -Sale.total)
         /\ Lines(p, "stripePayment") = Two("1580", Sale.total, "1510", -Sale.total)
         /\ Lines(p, "payout") = Three("1930", 120, "6570", 5, "1580", -125)
         /\ \A v \in Expenses : Lines(p, v) = createExpenseEntries
         /\ createExpenseEntries =
              Three("5410", Purchase.netAmount, "2641", Purchase.vatAmount, "1930", -Purchase.totalAmount)
         /\ Lines(p, "payroll") = bookPayrollLines
         /\ Lines(p, "payrollTax") = Three("2710", 3, "2731", 4, "1630", -7)
         /\ Lines(p, "vatSettlement") =
              Three("2611", OutputVat(p), "2641", -InputVat(p),
                    IF vatPeriodToPay(p) >= 0 THEN "2650" ELSE "1650", -vatPeriodToPay(p))
         /\ Lines(p, "vatPayment") =
              Three(IF vatPeriodToPay(p) >= 0 THEN "2650" ELSE "1650", vatPeriodToPay(p),
                    taxClearing, 0, "1930", -vatPeriodToPay(p))
         /\ Lines(p, "annualResult") =
              Two("8999", annualCloseResult(p), resultAccount, -annualCloseResult(p))
<1>1. /\ Lines(p, "invoice") = createInvoiceEntries
      /\ Lines(p, "payment") = createPaymentEntries("1930")
      /\ Lines(p, "stripePayment") = createPaymentEntries("1580")
      /\ Lines(p, "payout") = createStripePayoutEntry
      /\ \A v \in Expenses : Lines(p, v) = createExpenseEntries
      /\ Lines(p, "payroll") = bookPayrollLines
      /\ Lines(p, "payrollTax") = bookPayrollTaxLines
      /\ Lines(p, "vatSettlement") = createVatSettlementEntry(p)
      /\ Lines(p, "vatPayment") = createVatFilingPaymentEntry(p)
      /\ Lines(p, "annualResult") = createAnnualResultVoucher(p)
  BY DEF Lines, Expenses
<1>2. /\ createInvoiceEntries = Three("1510", Sale.total, "3041", -Sale.net, "2611", -Sale.vat)
      /\ createStripePayoutEntry = Three("1930", 120, "6570", 5, "1580", -125)
      /\ createExpenseEntries =
           Three("5410", Purchase.netAmount, "2641", Purchase.vatAmount, "1930", -Purchase.totalAmount)
      /\ bookPayrollTaxLines = Three("2710", 3, "2731", 4, "1630", -7)
  BY Zenon DEF createInvoiceEntries, createStripePayoutEntry, createExpenseEntries, bookPayrollTaxLines, Three
<1>3. /\ createPaymentEntries("1930") = Two("1930", Sale.total, "1510", -Sale.total)
      /\ createPaymentEntries("1580") = Two("1580", Sale.total, "1510", -Sale.total)
  BY Zenon DEF createPaymentEntries, Two
<1>4. /\ createVatSettlementEntry(p) =
           Three("2611", OutputVat(p), "2641", -InputVat(p),
                 IF vatPeriodToPay(p) >= 0 THEN "2650" ELSE "1650", -vatPeriodToPay(p))
      /\ createVatFilingPaymentEntry(p) =
           Three(IF vatPeriodToPay(p) >= 0 THEN "2650" ELSE "1650", vatPeriodToPay(p),
                 taxClearing, 0, "1930", -vatPeriodToPay(p))
      /\ createAnnualResultVoucher(p) =
           Two("8999", annualCloseResult(p), resultAccount, -annualCloseResult(p))
  BY Zenon DEF createVatSettlementEntry, createVatFilingPaymentEntry, createAnnualResultVoucher, Two, Three
<1> QED BY <1>1, <1>2, <1>3, <1>4, Zenon

\* Every voucher of the model adds up to zero.
LEMMA PayrollBalances ==
  ASSUME NEW ledger \in [Accounts -> Int]
  PROVE  AddsUp(ledger, bookPayrollLines, 0)
<1> DEFINE three == Three("7010", 10, "7510", 4, "2710", -3)
           four == More(three, "2731", -4)
           five == More(four, "1930", -7)
<1>1. /\ "7010" \in Accounts /\ "7510" \in Accounts /\ "2710" \in Accounts
      /\ "2731" \in Accounts /\ "1930" \in Accounts
  BY AccountsAre
<1>2. Without(three, "2731") /\ Without(four, "1930") /\ five = bookPayrollLines
  BY DEF Without, Three, More, bookPayrollLines
<1>3. AddsUp(ledger, three, 11)
  <2>1. AddsUp(ledger, three, 10 + 4 + -3)
    BY <1>1, ThreeLines
  <2> QED BY <2>1
<1> HIDE DEF three
<1>4. AddsUp(ledger, four, 7)
  <2>1. AddsUp(ledger, four, 11 + -4)
    BY <1>1, <1>2, <1>3, AnotherLine
  <2> QED BY <2>1
<1> HIDE DEF four
<1>5. AddsUp(ledger, five, 0)
  <2>1. AddsUp(ledger, five, 7 + -7)
    BY <1>1, <1>2, <1>4, AnotherLine
  <2> QED BY <2>1
<1> QED BY <1>2, <1>5

\* Every voucher of the model adds up to zero.
LEMMA VoucherBalances ==
  ASSUME NEW p, p.ledger \in [Accounts -> Int], NEW v \in Vouchers
  PROVE  AddsUp(p.ledger, Lines(p, v), 0)
<1>0. PICK ledger : ledger = p.ledger
  OBVIOUS
<1>1. ledger \in [Accounts -> Int]
  BY <1>0
<1>2. ASSUME NEW a \in Accounts, NEW b \in Accounts, a # b, NEW x \in Int, NEW y \in Int, x + y = 0
      PROVE  AddsUp(ledger, Two(a, x, b, y), 0)
  BY <1>1, <1>2, TwoLines
<1>3. ASSUME NEW a \in Accounts, NEW b \in Accounts, NEW c \in Accounts, a # b, a # c, b # c,
             NEW x \in Int, NEW y \in Int, NEW z \in Int, x + y + z = 0
      PROVE  AddsUp(ledger, Three(a, x, b, y, c, z), 0)
  BY <1>1, <1>3, ThreeLines
<1>4. CASE v = "invoice"
  <2>1. AddsUp(ledger, Three("1510", 125, "3041", -100, "2611", -25), 0)
    <3>1. "1510" \in Accounts /\ "3041" \in Accounts /\ "2611" \in Accounts
      BY AccountsAre
    <3> QED BY <3>1, <1>3
  <2> QED BY <1>0, <1>4, <2>1, LinesAre, SaleIs
<1>5. CASE v = "payment"
  <2>1. AddsUp(ledger, Two("1930", 125, "1510", -125), 0)
    BY <1>2, AccountsAre
  <2> QED BY <1>0, <1>5, <2>1, LinesAre, SaleIs
<1>6. CASE v = "stripePayment"
  <2>1. AddsUp(ledger, Two("1580", 125, "1510", -125), 0)
    BY <1>2, AccountsAre
  <2> QED BY <1>0, <1>6, <2>1, LinesAre, SaleIs
<1>7. CASE v = "payout"
  <2>1. AddsUp(ledger, Three("1930", 120, "6570", 5, "1580", -125), 0)
    <3>1. "1930" \in Accounts /\ "6570" \in Accounts /\ "1580" \in Accounts
      BY AccountsAre
    <3> QED BY <3>1, <1>3
  <2> QED BY <1>0, <1>7, <2>1, LinesAre
<1>8. CASE v \in Expenses
  <2>1. AddsUp(ledger, Three("5410", 40, "2641", 10, "1930", -50), 0)
    <3>1. "5410" \in Accounts /\ "2641" \in Accounts /\ "1930" \in Accounts
      BY AccountsAre
    <3> QED BY <3>1, <1>3
  <2> QED BY <1>0, <1>8, <2>1, LinesAre, PurchaseIs
<1>9. CASE v = "payroll"
  BY <1>0, <1>1, <1>9, PayrollBalances, LinesAre
<1>10. CASE v = "payrollTax"
  <2>1. AddsUp(ledger, Three("2710", 3, "2731", 4, "1630", -7), 0)
    <3>1. "2710" \in Accounts /\ "2731" \in Accounts /\ "1630" \in Accounts
      BY AccountsAre
    <3> QED BY <3>1, <1>3
  <2> QED BY <1>0, <1>10, <2>1, LinesAre
<1>11. OutputVat(p) \in Int /\ InputVat(p) \in Int /\ vatPeriodToPay(p) = OutputVat(p) - InputVat(p)
  BY SaleIs, PurchaseIs DEF OutputVat, InputVat, vatPeriodToPay
<1>12. PICK a : a = (IF vatPeriodToPay(p) >= 0 THEN "2650" ELSE "1650") /\ a \in {"2650", "1650"}
  OBVIOUS
<1>13. CASE v = "vatSettlement"
  <2>1. AddsUp(ledger, Three("2611", OutputVat(p), "2641", -InputVat(p), a, -vatPeriodToPay(p)), 0)
    <3>1. "2611" \in Accounts /\ "2641" \in Accounts /\ a \in Accounts /\ a \in {"2650", "1650"}
      BY <1>12, AccountsAre
    <3> QED BY <3>1, <1>3, <1>11
  <2> QED BY <1>0, <1>12, <1>13, <2>1, LinesAre
<1>14. CASE v = "vatPayment"
  <2>1. taxClearing \in {"1630", "2012"}
    BY DEF taxClearing
  <2>2. AddsUp(ledger, Three(a, vatPeriodToPay(p), taxClearing, 0, "1930", -vatPeriodToPay(p)), 0)
    <3>1. "1930" \in Accounts /\ a \in Accounts /\ a \in {"2650", "1650"} /\ taxClearing \in Accounts /\ taxClearing # a /\ taxClearing # "1930" /\ a # "1930"
      BY <1>12, <2>1, AccountsAre
    <3> QED BY <3>1, <1>3, <1>11
  <2> QED BY <1>0, <1>12, <1>14, <2>2, LinesAre
<1>15. CASE v = "annualResult"
  <2>1. resultAccount \in {"2099", "2019"} /\ annualCloseResult(p) \in Int
    BY ResultIsInt DEF resultAccount
  <2>2. AddsUp(ledger, Two("8999", annualCloseResult(p), resultAccount, -annualCloseResult(p)), 0)
    BY <1>2, <2>1, AccountsAre
  <2> QED BY <1>0, <1>15, <2>2, LinesAre
<1> QED BY <1>4, <1>5, <1>6, <1>7, <1>8, <1>9, <1>10, <1>13, <1>14, <1>15 DEF Vouchers, Expenses

----------------------------------------------------------------------------
(* The page.  What a closed month is made of is not touched by the         *)
(* vouchers that may still be booked.                                      *)

PageFields == {"vouchers", "ledger", "receipts", "approved", "locked", "statement", "backup", "file", "check", "lists"}

CriticalSign(p, a) ==
  signSeverity[a] = "critical" /\ (IF accountSignRules[a] = "credit" THEN -MonthLedger(p)[a] ELSE MonthLedger(p)[a]) < 0

MonthIsComplete(p) ==
  /\ "expense" \in p.vouchers => "expense" \in p.receipts
  /\ \A v \in p.vouchers : v \notin LaterVouchers => v \in p.approved
  /\ \A a \in SignAccounts : ~CriticalSign(p, a)

LEMMA SignsAre ==
  ASSUME NEW p
  PROVE  /\ DOMAIN accountSignRules = SignAccounts
         /\ DOMAIN createAccountSignControlReport(MonthLedger(p)) = SignAccounts
         /\ \A a \in SignAccounts : createAccountSignControlReport(MonthLedger(p))[a] = "critical" <=> CriticalSign(p, a)
<1>1. DOMAIN accountSignRules = SignAccounts
  BY DEF accountSignRules
<1>2. PICK m : m = MonthLedger(p)
  OBVIOUS
<1>3. DOMAIN createAccountSignControlReport(m) = SignAccounts
  BY <1>1 DEF createAccountSignControlReport
<1>4. ASSUME NEW a \in SignAccounts
      PROVE  createAccountSignControlReport(m)[a] = "critical" <=> CriticalSign(p, a)
  BY <1>1, <1>2 DEF createAccountSignControlReport, CriticalSign
<1> QED BY <1>1, <1>2, <1>3, <1>4

LEMMA CompleteMonth ==
  ASSUME NEW p
  PROVE  MonthIsComplete(p) <=> serverBlockers(p) \cap ({"receipts", "approvals"} \cup DOMAIN accountSignRules) = {}
<1>1. PICK signs : signs = createAccountSignControlReport(MonthLedger(p))
  OBVIOUS
<1>2. PICK S : S = SignAccounts
  OBVIOUS
<1>3. /\ DOMAIN accountSignRules = S /\ DOMAIN signs = S
      /\ \A a \in S : signs[a] = "critical" <=> CriticalSign(p, a)
  BY <1>1, <1>2, SignsAre
<1>4. \A a \in S : a \notin {"receipts", "approvals", "unbalanced", "drafts"}
  BY <1>2 DEF SignAccounts
<1>5. \A x : x \in serverBlockers(p) <=>
             \/ x = "unbalanced" /\ IsUnbalanced(p)
             \/ x = "drafts" /\ "draftInvoices" \in p.lists
             \/ x = "receipts" /\ "expense" \in MissingReceipts(p)
             \/ x = "approvals" /\ ~(p.vouchers \ LaterVouchers \subseteq p.approved)
             \/ x \in DOMAIN signs /\ signs[x] = "critical"
  BY <1>1 DEF serverBlockers, If
<1>6. "expense" \in MissingReceipts(p) <=> "expense" \in p.vouchers /\ "expense" \notin p.receipts
  BY DEF MissingReceipts, Expenses
<1>7. "receipts" \in serverBlockers(p) <=> "expense" \in p.vouchers /\ "expense" \notin p.receipts
  BY <1>3, <1>4, <1>5, <1>6
<1>8. "approvals" \in serverBlockers(p) <=> ~ \A v \in p.vouchers : v \notin LaterVouchers => v \in p.approved
  BY <1>3, <1>4, <1>5
<1>9. \A a \in S : a \in serverBlockers(p) <=> CriticalSign(p, a)
  BY <1>3, <1>4, <1>5
<1> QED BY <1>2, <1>3, <1>7, <1>8, <1>9 DEF MonthIsComplete

LEMMA MonthLedgerIs ==
  ASSUME NEW p, p.ledger \in [Accounts -> Int], NEW a \in Accounts
  PROVE  MonthLedger(p)[a] = IF "laterExpense" \in p.vouchers
                             THEN p.ledger[a] - Amount(createExpenseEntries, {a}) ELSE p.ledger[a]
BY DEF MonthLedger

LEMMA SignAccountsAreAccounts == SignAccounts \subseteq Accounts
BY DEF SignAccounts, Accounts

LEMMA LaterVoucherLeavesMonth ==
  ASSUME NEW p, p.ledger \in [Accounts -> Int], NEW v \in LaterVouchers, v \notin p.vouchers,
         NEW q, q.ledger = Added(p.ledger, Lines(p, v)), q.vouchers = p.vouchers \cup {v},
         NEW a \in SignAccounts
  PROVE  MonthLedger(q)[a] = MonthLedger(p)[a]
<1>1. a \in Accounts /\ p.ledger[a] \in Int
  BY SignAccountsAreAccounts
<1>2. AreLines(Lines(p, v)) /\ AreLines(Lines(p, "laterExpense"))
  BY VoucherBalances DEF AddsUp, LaterVouchers, Vouchers
<1>3. Lines(p, "laterExpense") = createExpenseEntries
  BY LinesAre DEF Expenses
<1>4. Amount(Lines(p, v), {a}) \in Int /\ Amount(createExpenseEntries, {a}) \in Int
  BY <1>2, <1>3, AmountOfAccount
<1>5. q.ledger[a] = p.ledger[a] + Amount(Lines(p, v), {a}) /\ q.ledger \in [Accounts -> Int]
  BY <1>1, <1>2, AddedIsLedger DEF Added
<1>6. CASE v = "laterExpense"
  BY <1>1, <1>3, <1>4, <1>5, <1>6, MonthLedgerIs
<1>7. CASE v = "annualResult"
  <2>1. resultAccount \in {"2099", "2019"} /\ a \notin {"8999", "2099", "2019"}
    BY DEF resultAccount, SignAccounts
  <2>2. Lines(p, v) = Two("8999", annualCloseResult(p), resultAccount, -annualCloseResult(p))
    BY <1>7, LinesAre
  <2>3. \A l \in Lines(p, v) : l[1] # a
    BY <2>1, <2>2 DEF Two
  <2>4. Amount(Lines(p, v), {a}) = 0
    BY <2>3, AmountOfNone
  <2>5. "laterExpense" \in q.vouchers <=> "laterExpense" \in p.vouchers
    BY <1>7
  <2>6. q.ledger[a] = p.ledger[a]
    BY <1>1, <1>5, <2>4
  <2> QED BY <1>1, <1>5, <2>5, <2>6, MonthLedgerIs
<1> QED BY <1>6, <1>7 DEF LaterVouchers

LEMMA SameLedgerSameMonth ==
  ASSUME NEW p, NEW q, q.ledger = p.ledger, q.vouchers = p.vouchers, MonthIsComplete(p),
         \A v \in p.receipts : v \in q.receipts,
         \A v \in p.approved : v \notin LaterVouchers => v \in q.approved
  PROVE  MonthIsComplete(q)
<1>1. MonthLedger(q) = MonthLedger(p)
  BY Zenon DEF MonthLedger
<1> QED BY <1>1 DEF MonthIsComplete, CriticalSign

----------------------------------------------------------------------------
(* The page keeps its type                                                 *)

ReadinessIInv ==
  /\ ReadinessTypeOK
  /\ DOMAIN d = PageFields
  /\ d.backup.ok => d.backup.stamp /\ d.backup.sha /\ d.backup.audit
  /\ d.locked => MonthIsComplete(d)
  /\ verdicts = Render(d)

LEMMA SavedFileIsThere == ASSUME NEW p PROVE SavedFile(p) # Missing
<1>1. "counts" \in DOMAIN SavedFile(p)
  BY DEF SavedFile, WithSha, WithStamp
<1>2. "counts" \notin DOMAIN Missing
  BY DEF Missing
<1> QED BY <1>1, <1>2

LEMMA DownloadIsProved ==
  ASSUME NEW file, downloadVerdict(file).ok
  PROVE  downloadVerdict(file).stamp /\ downloadVerdict(file).sha /\ downloadVerdict(file).audit
BY DEF downloadVerdict, Verdict, ProofsAreThere, If

LEMMA ValidationIsProved ==
  ASSUME NEW file, NEW p, validationVerdict(file, p).ok
  PROVE  validationVerdict(file, p).stamp /\ validationVerdict(file, p).sha /\ validationVerdict(file, p).audit
<1>1. validationIssues(file, p) = {} /\ validationVerdict(file, p).stamp = StampMatches(file)
      /\ validationVerdict(file, p).sha = ShaMatches(file) /\ validationVerdict(file, p).audit = file.proofs.audit
  BY DEF validationVerdict, Verdict
<1>2. StampMatches(file) /\ ShaMatches(file) /\ ProofsAreThere(file.proofs, file.data) = {}
  BY <1>1 DEF validationIssues, If
<1>3. file.proofs.audit
  BY <1>2 DEF ProofsAreThere, If
<1> QED BY <1>1, <1>2, <1>3

LEMMA NoVerdict == ~unreadableVerdict.ok /\ ~NoBackup.ok
BY DEF NoBackup, unreadableVerdict, Verdict

LEMMA SumOfNothing ==
  ASSUME NEW w, NEW S, IsFiniteSet(S), \A a \in S : w[a] = 0
  PROVE  SumFunctionOnSet(w, S) = 0
<1> DEFINE Bad == {s \in SUBSET S : SumFunctionOnSet(w, s) # 0}
<1>1. SUFFICES ASSUME Bad # {} PROVE FALSE
  BY <1>1
<1>2. PICK s \in Bad : IsFiniteSet(s) /\ \A t \in SUBSET s : t # s => t \notin Bad
  <2> HIDE DEF Bad
  <2>1. Bad \subseteq SUBSET S
    BY DEF Bad
  <2> QED BY <1>1, <2>1, SmallestSet
<1>3. s # {} => w[Picked(s)] = 0 /\ SumFunctionOnSet(w, s \ {Picked(s)}) = 0
  BY <1>2, PickedIsIn
<1>4. SumFunctionOnSet(w, s) =
        IF s = {} THEN 0 ELSE w[Picked(s)] + SumFunctionOnSet(w, s \ {Picked(s)})
  BY <1>2, SumUnfolds
<1> QED BY <1>3, <1>4

LEMMA ReadinessStarts == ReadinessInit => ReadinessIInv
<1> SUFFICES ASSUME ReadinessInit PROVE ReadinessIInv
  OBVIOUS
<1>1. PICK ledger : ledger = [a \in Accounts |-> 0]
  OBVIOUS
<1>2. ledger \in [Accounts -> Int] /\ \A a \in Accounts : ledger[a] = 0
  BY <1>1
<1>3. SumFunction(ledger) = 0
  <2>1. PICK S : S = DOMAIN ledger
    OBVIOUS
  <2>2. IsFiniteSet(S) /\ \A a \in S : ledger[a] = 0
    BY <1>2, <2>1, AccountsAreFinite
  <2> QED BY <2>1, <2>2, SumOfNothing DEF SumFunction
<1>4. /\ d.vouchers = {} /\ d.ledger = ledger /\ d.receipts = {} /\ d.approved = {} /\ ~d.locked
      /\ d.backup = NoBackup /\ d.file = Missing /\ d.check = NotChecked /\ d.lists = Page
      /\ DOMAIN d = PageFields /\ verdicts = Render(d) /\ sideSteps = 0
  BY <1>1 DEF ReadinessInit, PageFields
<1>5. ~d.backup.ok
  BY <1>4, NoVerdict
<1>6. ReadinessTypeOK
  <2>1. {a \in Accounts : d.ledger[a] # 0} = {}
    BY <1>2, <1>4
  <2> QED BY <1>2, <1>3, <1>4, <1>5, <2>1, ReadinessAssumption DEF ReadinessTypeOK
<1> QED BY <1>4, <1>5, <1>6 DEF ReadinessIInv

\* What a step that books nothing leaves alone.
Unbooked == d'.vouchers = d.vouchers /\ d'.ledger = d.ledger

LEMMA UnbookedKeepsIInv ==
  ASSUME ReadinessIInv, Unbooked, verdicts' = Render(d'), DOMAIN d' = PageFields,
         d'.receipts \subseteq d.vouchers, d'.approved \subseteq d.vouchers,
         ~d'.check.known => d'.check = NotChecked,
         d'.file = Missing => ~d'.backup.ok,
         d'.backup.ok => d'.backup.stamp /\ d'.backup.sha /\ d'.backup.audit,
         d'.lists \subseteq Page \cup Changing, sideSteps' \in 0..MaxSideSteps,
         d'.locked => MonthIsComplete(d')
  PROVE  ReadinessIInv'
<1>1. ReadinessTypeOK'
  BY DEF ReadinessIInv, ReadinessTypeOK, Unbooked
<1> QED BY <1>1 DEF ReadinessIInv

LEMMA SideStepsAreBounded ==
  ASSUME ReadinessIInv, Bounded \/ UNCHANGED sideSteps
  PROVE  sideSteps' \in 0..MaxSideSteps
BY ReadinessAssumption DEF Bounded, ReadinessIInv, ReadinessTypeOK

LEMMA BookKeepsIInv ==
  ASSUME ReadinessIInv, NEW v \in Bookable, Book(v), verdicts' = Render(d')
  PROVE  ReadinessIInv'
<1>1. v \in Vouchers /\ v \notin d.vouchers /\ d.ledger \in [Accounts -> Int]
  BY ReadinessAssumption DEF Book, ReadinessIInv, ReadinessTypeOK
<1>2. PICK ledger : ledger = Added(d.ledger, Lines(d, v))
  OBVIOUS
<1>3. ledger \in [Accounts -> Int] /\ SumFunction(ledger) = SumFunction(d.ledger) + 0
  BY <1>1, <1>2, VoucherBalances, AddedIsLedger DEF AddsUp
<1>4. SumFunction(ledger) = 0
  BY <1>3 DEF ReadinessIInv, ReadinessTypeOK
<1>5. /\ d'.vouchers = d.vouchers \cup {v} /\ d'.ledger = ledger /\ d'.receipts = d.receipts
      /\ d'.approved = d.approved /\ d'.locked = d.locked /\ d'.backup = d.backup /\ d'.file = d.file
      /\ d'.check = d.check /\ d'.lists = d.lists /\ DOMAIN d' = PageFields /\ sideSteps' = sideSteps
  BY <1>2 DEF Book, Show, Posted, ReadinessIInv, PageFields
<1>6. ReadinessTypeOK'
  BY <1>3, <1>4, <1>5 DEF ReadinessIInv, ReadinessTypeOK
<1>7. ASSUME d'.locked PROVE MonthIsComplete(d')
  <2>1. v \in LaterVouchers /\ MonthIsComplete(d)
    BY <1>5, <1>7 DEF Book, MayPost, ReadinessIInv
  <2>2. \A a \in SignAccounts : MonthLedger(d')[a] = MonthLedger(d)[a]
    BY <1>1, <1>2, <1>5, <2>1, LaterVoucherLeavesMonth
  <2>3. \A a \in SignAccounts : ~CriticalSign(d', a)
    BY <2>1, <2>2 DEF CriticalSign, MonthIsComplete
  <2> QED BY <1>5, <2>1, <2>3 DEF MonthIsComplete, LaterVouchers
<1> QED BY <1>5, <1>6, <1>7 DEF ReadinessIInv

LEMMA UploadKeepsIInv ==
  ASSUME ReadinessIInv, NEW v \in Expenses, UploadReceipt(v), verdicts' = Render(d')
  PROVE  ReadinessIInv'
<1>1. /\ d'.receipts = d.receipts \cup {v} /\ Unbooked /\ DOMAIN d' = PageFields
      /\ d'.approved = d.approved /\ d'.locked = d.locked /\ d'.backup = d.backup /\ d'.file = d.file
      /\ d'.check = d.check /\ d'.lists = d.lists /\ sideSteps' = sideSteps
  BY DEF UploadReceipt, Show, Unbooked, ReadinessIInv, PageFields
<1>2. d'.receipts \subseteq d.vouchers
  BY <1>1 DEF UploadReceipt, MissingReceipts, ReadinessIInv, ReadinessTypeOK
<1>3. d'.locked => MonthIsComplete(d')
  BY <1>1, SameLedgerSameMonth DEF ReadinessIInv, Unbooked
<1>4. sideSteps' \in 0..MaxSideSteps
  BY <1>1, SideStepsAreBounded
<1> QED BY <1>1, <1>2, <1>3, <1>4, UnbookedKeepsIInv DEF ReadinessIInv, ReadinessTypeOK

LEMMA ReviewKeepsIInv ==
  ASSUME ReadinessIInv, NEW v \in Bookable, Approve(v) \/ Reopen(v), verdicts' = Render(d')
  PROVE  ReadinessIInv'
<1>1. /\ Unbooked /\ DOMAIN d' = PageFields
      /\ d'.receipts = d.receipts /\ d'.locked = d.locked /\ d'.backup = d.backup /\ d'.file = d.file
      /\ d'.check = d.check /\ d'.lists = d.lists /\ (Bounded \/ UNCHANGED sideSteps)
      /\ MayPost(v)
      /\ \/ v \in d.vouchers /\ d'.approved = d.approved \cup {v}
         \/ d'.approved = d.approved \ {v}
  BY DEF Approve, Reopen, Show, Unbooked, ReadinessIInv, PageFields
<1>2. d'.approved \subseteq d.vouchers
  BY <1>1 DEF ReadinessIInv, ReadinessTypeOK
<1>3. ASSUME d'.locked PROVE MonthIsComplete(d')
  <2>1. MonthIsComplete(d) /\ \A w \in d.approved : w \notin LaterVouchers => w \in d'.approved
    BY <1>1, <1>3 DEF MayPost, ReadinessIInv
  <2> QED BY <1>1, <2>1, SameLedgerSameMonth DEF Unbooked
<1>4. sideSteps' \in 0..MaxSideSteps
  BY <1>1, SideStepsAreBounded
<1> QED BY <1>1, <1>2, <1>3, <1>4, UnbookedKeepsIInv DEF ReadinessIInv, ReadinessTypeOK

LEMMA CloseMonthKeepsIInv ==
  ASSUME ReadinessIInv, CloseMonth, verdicts' = Render(d')
  PROVE  ReadinessIInv'
<1>1. /\ Unbooked /\ DOMAIN d' = PageFields /\ d'.approved = d.approved
      /\ d'.receipts = d.receipts /\ d'.backup = d.backup /\ d'.file = d.file
      /\ d'.check = d.check /\ d'.lists = d.lists /\ sideSteps' = sideSteps
  BY DEF CloseMonth, Show, Unbooked, ReadinessIInv, PageFields
<1>2. MonthIsComplete(d)
  <2>1. serverBlockers(d) = {}
    BY DEF CloseMonth
  <2> QED BY <2>1, CompleteMonth
<1>3. MonthIsComplete(d')
  BY <1>1, <1>2, SameLedgerSameMonth DEF Unbooked
<1>4. sideSteps' \in 0..MaxSideSteps
  BY <1>1, SideStepsAreBounded
<1> QED BY <1>1, <1>3, <1>4, UnbookedKeepsIInv DEF ReadinessIInv, ReadinessTypeOK

\* The other steps change one of the fields that a closed month does not depend on.
LEMMA OtherFieldKeepsIInv ==
  ASSUME ReadinessIInv, verdicts' = Render(d'), Bounded, Unbooked, DOMAIN d' = PageFields,
         d'.receipts = d.receipts, d'.approved = d.approved, d'.locked = d.locked,
         ~d'.check.known => d'.check = NotChecked,
         d'.file = Missing => ~d'.backup.ok,
         d'.backup.ok => d'.backup.stamp /\ d'.backup.sha /\ d'.backup.audit,
         d'.lists \subseteq Page \cup Changing
  PROVE  ReadinessIInv'
<1>1. d'.locked => MonthIsComplete(d')
  BY SameLedgerSameMonth DEF ReadinessIInv, Unbooked
<1>2. sideSteps' \in 0..MaxSideSteps
  BY SideStepsAreBounded
<1> QED BY <1>1, <1>2, UnbookedKeepsIInv DEF ReadinessIInv, ReadinessTypeOK

LEMMA StatementKeepsIInv ==
  ASSUME ReadinessIInv, NEW n, EnterStatement(n), verdicts' = Render(d')
  PROVE  ReadinessIInv'
<1>1. /\ Bounded /\ Unbooked /\ DOMAIN d' = PageFields /\ d'.receipts = d.receipts
      /\ d'.approved = d.approved /\ d'.locked = d.locked
      /\ d'.check = d.check /\ d'.file = d.file /\ d'.backup = d.backup /\ d'.lists = d.lists
  BY DEF EnterStatement, Show, Unbooked, ReadinessIInv, PageFields
<1> QED BY <1>1, OtherFieldKeepsIInv DEF ReadinessIInv, ReadinessTypeOK

LEMMA DownloadKeepsIInv ==
  ASSUME ReadinessIInv, DownloadBackup, verdicts' = Render(d')
  PROVE  ReadinessIInv'
<1>1. /\ Bounded /\ Unbooked /\ DOMAIN d' = PageFields /\ d'.receipts = d.receipts
      /\ d'.approved = d.approved /\ d'.locked = d.locked /\ d'.check = d.check /\ d'.lists = d.lists
      /\ d'.file = SavedFile(d) /\ d'.backup = downloadVerdict(SavedFile(d))
  BY DEF DownloadBackup, Show, Unbooked, ReadinessIInv, PageFields
<1>2. d'.file # Missing
  BY <1>1, SavedFileIsThere
<1>3. d'.backup.ok => d'.backup.stamp /\ d'.backup.sha /\ d'.backup.audit
  BY <1>1, DownloadIsProved
<1> QED BY <1>1, <1>2, <1>3, OtherFieldKeepsIInv DEF ReadinessIInv, ReadinessTypeOK

LEMMA ValidateKeepsIInv ==
  ASSUME ReadinessIInv, NEW damage, ValidateBackup(damage), verdicts' = Render(d')
  PROVE  ReadinessIInv'
<1>1. PICK b : /\ d' = [d EXCEPT !.backup = b]
               /\ \/ d.file # Missing /\ b = validationVerdict(Damaged(d.file, damage), d)
                  \/ b = unreadableVerdict
  BY DEF ValidateBackup, Show
<1>2. /\ Bounded /\ Unbooked /\ DOMAIN d' = PageFields /\ d'.receipts = d.receipts
      /\ d'.approved = d.approved /\ d'.locked = d.locked /\ d'.check = d.check /\ d'.lists = d.lists
      /\ d'.file = d.file /\ d'.backup = b
  BY <1>1 DEF ValidateBackup, Unbooked, ReadinessIInv, PageFields
<1>3. d'.file = Missing => ~d'.backup.ok
  BY <1>1, <1>2, NoVerdict
<1>4. d'.backup.ok => d'.backup.stamp /\ d'.backup.sha /\ d'.backup.audit
  BY <1>1, <1>2, NoVerdict, ValidationIsProved
<1> QED BY <1>2, <1>3, <1>4, OtherFieldKeepsIInv DEF ReadinessIInv, ReadinessTypeOK

LEMMA PeriodCheckKeepsIInv ==
  ASSUME ReadinessIInv, AskPeriodCheck \/ LosePeriodCheck, verdicts' = Render(d')
  PROVE  ReadinessIInv'
<1>1. PICK c : d' = [d EXCEPT !.check = c] /\ (c.known \/ c = NotChecked)
  <2>1. CASE AskPeriodCheck
    <3> DEFINE c == [known |-> TRUE, blocked |-> serverBlockers(d) # {}, warned |-> serverWarnings(d) # {}]
    <3>1. c.known /\ d' = [d EXCEPT !.check = c]
      BY <2>1 DEF AskPeriodCheck, Show
    <3> HIDE DEF c
    <3> QED BY <3>1
  <2>2. CASE LosePeriodCheck
    BY <2>2 DEF LosePeriodCheck, Show
  <2> QED BY <2>1, <2>2
<1>2. /\ Bounded /\ Unbooked /\ DOMAIN d' = PageFields /\ d'.receipts = d.receipts
      /\ d'.approved = d.approved /\ d'.locked = d.locked /\ d'.check = c /\ d'.lists = d.lists
      /\ d'.file = d.file /\ d'.backup = d.backup
  BY <1>1 DEF AskPeriodCheck, LosePeriodCheck, Unbooked, ReadinessIInv, PageFields
<1> QED BY <1>1, <1>2, OtherFieldKeepsIInv DEF ReadinessIInv, ReadinessTypeOK

LEMMA ChangeKeepsIInv ==
  ASSUME ReadinessIInv, NEW name \in Changing, Change(name), verdicts' = Render(d')
  PROVE  ReadinessIInv'
<1>1. /\ Bounded /\ Unbooked /\ DOMAIN d' = PageFields /\ d'.receipts = d.receipts
      /\ d'.approved = d.approved /\ d'.locked = d.locked /\ d'.check = d.check
      /\ d'.lists = Toggled(d.lists, name) /\ d'.file = d.file /\ d'.backup = d.backup
  BY DEF Change, Show, Unbooked, ReadinessIInv, PageFields
<1>2. d'.lists \subseteq Page \cup Changing
  BY <1>1 DEF Toggled, ReadinessIInv, ReadinessTypeOK
<1> QED BY <1>1, <1>2, OtherFieldKeepsIInv DEF ReadinessIInv, ReadinessTypeOK

LEMMA ReadinessKeepsIInv ==
  ASSUME ReadinessIInv, ReadinessNext
  PROVE  ReadinessIInv'
<1>1. verdicts' = Render(d')
  BY DEF ReadinessNext
<1>2. CASE \E v \in Bookable : Book(v) \/ Approve(v) \/ Reopen(v)
  BY <1>1, <1>2, BookKeepsIInv, ReviewKeepsIInv
<1>3. CASE \E v \in Expenses : UploadReceipt(v)
  BY <1>1, <1>3, UploadKeepsIInv
<1>4. CASE \E n \in {0, d.ledger["1930"]} : EnterStatement(n)
  BY <1>1, <1>4, StatementKeepsIInv
<1>5. CASE DownloadBackup
  BY <1>1, <1>5, DownloadKeepsIInv
<1>6. CASE \E damage \in {"none", "data", "counts", "proofs", "codes"} : ValidateBackup(damage)
  BY <1>1, <1>6, ValidateKeepsIInv
<1>7. CASE AskPeriodCheck \/ LosePeriodCheck
  BY <1>1, <1>7, PeriodCheckKeepsIInv
<1>8. CASE CloseMonth
  BY <1>1, <1>8, CloseMonthKeepsIInv
<1>9. CASE \E name \in Changing : Change(name)
  BY <1>1, <1>9, ChangeKeepsIInv
<1> QED BY <1>2, <1>3, <1>4, <1>5, <1>6, <1>7, <1>8, <1>9 DEF ReadinessNext, Act

LEMMA ReadinessStutters ==
  ASSUME ReadinessIInv, UNCHANGED readinessVars
  PROVE  ReadinessIInv'
<1>1. d' = d /\ verdicts' = verdicts /\ sideSteps' = sideSteps
  BY DEF readinessVars
<1>2. ReadinessTypeOK'
  BY <1>1 DEF ReadinessIInv, ReadinessTypeOK
<1> QED BY <1>1, <1>2 DEF ReadinessIInv

LEMMA ReadinessInductive == ReadinessSpec => []ReadinessIInv
<1>1. ReadinessIInv /\ [ReadinessNext]_readinessVars => ReadinessIInv'
  BY ReadinessKeepsIInv, ReadinessStutters
<1> QED BY <1>1, ReadinessStarts, PTL DEF ReadinessSpec

\* The page is a page of the program: the ledger is that of its vouchers and adds
\* up to zero, receipts and approvals are of booked vouchers, and nothing is
\* concluded from a period check or a backup that is not there.
THEOREM ReadinessTypeCorrect == ReadinessSpec => []ReadinessTypeOK
<1>1. ReadinessIInv => ReadinessTypeOK
  BY DEF ReadinessIInv
<1> QED BY <1>1, ReadinessInductive, PTL

\* A month that was closed stays complete, whatever is booked, reopened or
\* uploaded afterwards.
THEOREM ReadinessLockedMonthIsComplete == ReadinessSpec => []LockedMonthIsComplete
<1>1. ReadinessIInv => LockedMonthIsComplete
  BY CompleteMonth DEF ReadinessIInv, LockedMonthIsComplete
<1> QED BY <1>1, ReadinessInductive, PTL

----------------------------------------------------------------------------
(* The render.  The page after each of its stages, and the names that the  *)
(* later stages add: what a stage has computed is on the page that is shown *)
(* unless a later one computes it again.                                   *)

ClosedPage(p, f) == RenderArchive(f, RenderClose(p, f))
PeriodPage(p, f) == RenderPeriod(p, f, ClosedPage(p, f))
SecuredPage(p, f) == RenderSecurity(p, f, PeriodPage(p, f))
CompliantPage(p, f) == RenderCompliance(f, SecuredPage(p, f))
LivePage(p, f) == RenderLive(f, CompliantPage(p, f))
FlowPage(p, f) == RenderFlow(f, LivePage(p, f))
GatedPage(p, f) == RenderGates(p, f, FlowPage(p, f))
ReviewedPage(p, f) == RenderReview(p, f, GatedPage(p, f))
DeclaredPage(p, f) == RenderDeclaration(p, f, ReviewedPage(p, f))
LockedPage(p, f) == RenderLock(p, f, DeclaredPage(p, f))
ClosingPage(p, f) == RenderClosing(p, f, LockedPage(p, f))
RiskPage(p, f) == RenderRisk(p, f, ClosingPage(p, f))
QualityPage(p, f) == RenderQuality(f, RiskPage(p, f))

PlanNames == {"readyForReports", "actionPlan", "diagnostics", "toDo", "insight", "analytics", "pipeline",
              "reserve", "questions", "limitedCompanyReady"}
AfterRisk == PlanNames \cup {"quality"}
AfterClosing == AfterRisk \cup {"risk", "internalControl"}
AfterLock == AfterClosing \cup {"migration", "closing", "taxCenter"}
AfterDeclaration == AfterLock \cup {"canBeLocked", "periodControl", "verification", "archive"}
AfterReview == AfterDeclaration \cup {"declaration", "filing", "blockers", "warnings"}
AfterGates == AfterReview \cup {"disasterRecovery", "reconciliation", "review"}
AfterFlow == AfterGates \cup {"firstRealData", "useToday", "finishLine", "operations", "payments", "daily",
                              "monthlyRoutine", "annualRoutine"}
AfterLive == AfterFlow \cup {"goLiveProductionBlocking", "testFlowBlocking", "testFlowRemaining"}
AfterCompliance == AfterLive \cup {"goLive"}
AfterSecurity == AfterCompliance \cup {"compliance", "complianceScore"}
AfterPeriod == AfterSecurity \cup {"accountantHandoffWarnings", "backupRecoveryWarnings", "accessReviewRiskRows",
                                   "dataProtectionRiskRows", "securityPrivacyRisks", "securityPrivacyScore"}

Keeps(u, v, names) == \A k \in DOMAIN u : k \notin names => k \in DOMAIN v /\ v[k] = u[k]

LEMMA KeepsOn ==
  ASSUME NEW u, NEW v, NEW w, NEW A, NEW B, Keeps(u, v, A), Keeps(v, w, B), A \subseteq B
  PROVE  Keeps(u, w, B)
BY DEF Keeps

LEMMA StagesKeep ==
  ASSUME NEW p, NEW f
  PROVE  /\ Keeps(QualityPage(p, f), RenderPage(p, f), PlanNames)
         /\ Keeps(RiskPage(p, f), RenderPage(p, f), AfterRisk)
         /\ Keeps(ClosingPage(p, f), RenderPage(p, f), AfterClosing)
         /\ Keeps(LockedPage(p, f), RenderPage(p, f), AfterLock)
         /\ Keeps(DeclaredPage(p, f), RenderPage(p, f), AfterDeclaration)
         /\ Keeps(ReviewedPage(p, f), RenderPage(p, f), AfterReview)
         /\ Keeps(GatedPage(p, f), RenderPage(p, f), AfterGates)
         /\ Keeps(FlowPage(p, f), RenderPage(p, f), AfterFlow)
         /\ Keeps(LivePage(p, f), RenderPage(p, f), AfterLive)
         /\ Keeps(CompliantPage(p, f), RenderPage(p, f), AfterCompliance)
         /\ Keeps(SecuredPage(p, f), RenderPage(p, f), AfterSecurity)
         /\ Keeps(PeriodPage(p, f), RenderPage(p, f), AfterPeriod)
<1> DEFINE final == RenderPage(p, f)
<1>1. final = RenderPlan(p, f, QualityPage(p, f))
  BY Zenon DEF RenderPage, QualityPage, RiskPage, ClosingPage, LockedPage, DeclaredPage, ReviewedPage, GatedPage,
     FlowPage, LivePage, CompliantPage, SecuredPage, PeriodPage, ClosedPage
<1> HIDE DEF final
<1>2. Keeps(QualityPage(p, f), final, PlanNames)
  <2>1. PICK u : u = QualityPage(p, f)
    OBVIOUS
  <2> QED BY <1>1, <2>1 DEF Keeps, RenderPlan, With, PlanNames
<1>3. Keeps(RiskPage(p, f), final, AfterRisk)
  <2>1. PICK u, v : u = RiskPage(p, f) /\ v = QualityPage(p, f)
    OBVIOUS
  <2>2. Keeps(u, v, AfterRisk)
    BY <2>1 DEF Keeps, QualityPage, RenderQuality, With, AfterRisk
  <2>3. Keeps(v, final, AfterRisk)
    BY <1>2, <2>1 DEF Keeps, AfterRisk
  <2> QED BY <2>1, <2>2, <2>3, KeepsOn
<1>4. Keeps(ClosingPage(p, f), final, AfterClosing)
  <2>1. PICK u, v : u = ClosingPage(p, f) /\ v = RiskPage(p, f)
    OBVIOUS
  <2>2. Keeps(u, v, AfterClosing)
    BY <2>1 DEF Keeps, RiskPage, RenderRisk, With, AfterClosing
  <2>3. Keeps(v, final, AfterClosing)
    BY <1>3, <2>1 DEF Keeps, AfterClosing
  <2> QED BY <2>1, <2>2, <2>3, KeepsOn
<1>5. Keeps(LockedPage(p, f), final, AfterLock)
  <2>1. PICK u, v : u = LockedPage(p, f) /\ v = ClosingPage(p, f)
    OBVIOUS
  <2>2. Keeps(u, v, AfterLock)
    BY <2>1 DEF Keeps, ClosingPage, RenderClosing, With, AfterLock
  <2>3. Keeps(v, final, AfterLock)
    BY <1>4, <2>1 DEF Keeps, AfterLock
  <2> QED BY <2>1, <2>2, <2>3, KeepsOn
<1>6. Keeps(DeclaredPage(p, f), final, AfterDeclaration)
  <2>1. PICK u, v : u = DeclaredPage(p, f) /\ v = LockedPage(p, f)
    OBVIOUS
  <2>2. Keeps(u, v, AfterDeclaration)
    BY <2>1 DEF Keeps, LockedPage, RenderLock, With, AfterDeclaration
  <2>3. Keeps(v, final, AfterDeclaration)
    BY <1>5, <2>1 DEF Keeps, AfterDeclaration
  <2> QED BY <2>1, <2>2, <2>3, KeepsOn
<1>7. Keeps(ReviewedPage(p, f), final, AfterReview)
  <2>1. PICK u, v : u = ReviewedPage(p, f) /\ v = DeclaredPage(p, f)
    OBVIOUS
  <2>2. Keeps(u, v, AfterReview)
    BY <2>1 DEF Keeps, DeclaredPage, RenderDeclaration, With, AfterReview
  <2>3. Keeps(v, final, AfterReview)
    BY <1>6, <2>1 DEF Keeps, AfterReview
  <2> QED BY <2>1, <2>2, <2>3, KeepsOn
<1>8. Keeps(GatedPage(p, f), final, AfterGates)
  <2>1. PICK u, v : u = GatedPage(p, f) /\ v = ReviewedPage(p, f)
    OBVIOUS
  <2>2. Keeps(u, v, AfterGates)
    BY <2>1 DEF Keeps, ReviewedPage, RenderReview, With, AfterGates
  <2>3. Keeps(v, final, AfterGates)
    BY <1>7, <2>1 DEF Keeps, AfterGates
  <2> QED BY <2>1, <2>2, <2>3, KeepsOn
<1>9. Keeps(FlowPage(p, f), final, AfterFlow)
  <2>1. PICK u, v : u = FlowPage(p, f) /\ v = GatedPage(p, f)
    OBVIOUS
  <2>2. Keeps(u, v, AfterFlow)
    BY <2>1 DEF Keeps, GatedPage, RenderGates, With, AfterFlow
  <2>3. Keeps(v, final, AfterFlow)
    BY <1>8, <2>1 DEF Keeps, AfterFlow
  <2> QED BY <2>1, <2>2, <2>3, KeepsOn
<1>10. Keeps(LivePage(p, f), final, AfterLive)
  <2>1. PICK u, v : u = LivePage(p, f) /\ v = FlowPage(p, f)
    OBVIOUS
  <2>2. Keeps(u, v, AfterLive)
    BY <2>1 DEF Keeps, FlowPage, RenderFlow, With, AfterLive
  <2>3. Keeps(v, final, AfterLive)
    BY <1>9, <2>1 DEF Keeps, AfterLive
  <2> QED BY <2>1, <2>2, <2>3, KeepsOn
<1>11. Keeps(CompliantPage(p, f), final, AfterCompliance)
  <2>1. PICK u, v : u = CompliantPage(p, f) /\ v = LivePage(p, f)
    OBVIOUS
  <2>2. Keeps(u, v, AfterCompliance)
    BY <2>1 DEF Keeps, LivePage, RenderLive, With, AfterCompliance
  <2>3. Keeps(v, final, AfterCompliance)
    BY <1>10, <2>1 DEF Keeps, AfterCompliance
  <2> QED BY <2>1, <2>2, <2>3, KeepsOn
<1>12. Keeps(SecuredPage(p, f), final, AfterSecurity)
  <2>1. PICK u, v : u = SecuredPage(p, f) /\ v = CompliantPage(p, f)
    OBVIOUS
  <2>2. Keeps(u, v, AfterSecurity)
    BY <2>1 DEF Keeps, CompliantPage, RenderCompliance, With, AfterSecurity
  <2>3. Keeps(v, final, AfterSecurity)
    BY <1>11, <2>1 DEF Keeps, AfterSecurity
  <2> QED BY <2>1, <2>2, <2>3, KeepsOn
<1>13. Keeps(PeriodPage(p, f), final, AfterPeriod)
  <2>1. PICK u, v : u = PeriodPage(p, f) /\ v = SecuredPage(p, f)
    OBVIOUS
  <2>2. Keeps(u, v, AfterPeriod)
    BY <2>1 DEF Keeps, SecuredPage, RenderSecurity, With, AfterPeriod
  <2>3. Keeps(v, final, AfterPeriod)
    BY <1>12, <2>1 DEF Keeps, AfterPeriod
  <2> QED BY <2>1, <2>2, <2>3, KeepsOn
<1> QED BY <1>2, <1>3, <1>4, <1>5, <1>6, <1>7, <1>8, <1>9, <1>10, <1>11, <1>12, <1>13 DEF final

LEMMA StagesGrow ==
  ASSUME NEW p, NEW f
  PROVE  /\ DOMAIN PeriodPage(p, f) \subseteq DOMAIN SecuredPage(p, f)
         /\ DOMAIN SecuredPage(p, f) \subseteq DOMAIN CompliantPage(p, f)
         /\ DOMAIN CompliantPage(p, f) \subseteq DOMAIN LivePage(p, f)
         /\ DOMAIN LivePage(p, f) \subseteq DOMAIN FlowPage(p, f)
         /\ DOMAIN FlowPage(p, f) \subseteq DOMAIN GatedPage(p, f)
         /\ DOMAIN GatedPage(p, f) \subseteq DOMAIN ReviewedPage(p, f)
         /\ DOMAIN ReviewedPage(p, f) \subseteq DOMAIN DeclaredPage(p, f)
         /\ DOMAIN DeclaredPage(p, f) \subseteq DOMAIN LockedPage(p, f)
         /\ DOMAIN LockedPage(p, f) \subseteq DOMAIN ClosingPage(p, f)
         /\ DOMAIN ClosingPage(p, f) \subseteq DOMAIN RiskPage(p, f)
         /\ DOMAIN RiskPage(p, f) \subseteq DOMAIN QualityPage(p, f)
<1>1. \A v, w : DOMAIN v \subseteq DOMAIN With(v, w)
  BY DEF With
<1>2. \A v : DOMAIN v \subseteq DOMAIN RenderSecurity(p, f, v)
  BY <1>1, Zenon DEF RenderSecurity
<1>3. \A v : DOMAIN v \subseteq DOMAIN RenderCompliance(f, v)
  BY <1>1, Zenon DEF RenderCompliance
<1>4. \A v : DOMAIN v \subseteq DOMAIN RenderLive(f, v)
  BY <1>1, Zenon DEF RenderLive
<1>5. \A v : DOMAIN v \subseteq DOMAIN RenderFlow(f, v)
  BY <1>1, Zenon DEF RenderFlow
<1>6. \A v : DOMAIN v \subseteq DOMAIN RenderGates(p, f, v)
  BY <1>1, Zenon DEF RenderGates
<1>7. \A v : DOMAIN v \subseteq DOMAIN RenderReview(p, f, v)
  BY <1>1, Zenon DEF RenderReview
<1>8. \A v : DOMAIN v \subseteq DOMAIN RenderDeclaration(p, f, v)
  BY <1>1, Zenon DEF RenderDeclaration
<1>9. \A v : DOMAIN v \subseteq DOMAIN RenderLock(p, f, v)
  BY <1>1, Zenon DEF RenderLock
<1>10. \A v : DOMAIN v \subseteq DOMAIN RenderClosing(p, f, v)
  BY <1>1, Zenon DEF RenderClosing
<1>11. \A v : DOMAIN v \subseteq DOMAIN RenderRisk(p, f, v)
  BY <1>1, Zenon DEF RenderRisk
<1>12. \A v : DOMAIN v \subseteq DOMAIN RenderQuality(f, v)
  BY <1>1, Zenon DEF RenderQuality
<1> QED BY <1>2, <1>3, <1>4, <1>5, <1>6, <1>7, <1>8, <1>9, <1>10, <1>11, <1>12, Zenon
        DEF QualityPage, RiskPage, ClosingPage, LockedPage, DeclaredPage, ReviewedPage,
            GatedPage, FlowPage, LivePage, CompliantPage, SecuredPage

\* What each stage computes, and what it has computed it from.
LEMMA PeriodIs ==
  ASSUME NEW p, NEW f, NEW v, v = RenderPage(p, f)
  PROVE  /\ {"calculation", "dataQuality", "lockBlockers", "lockWarnings"} \subseteq DOMAIN PeriodPage(p, f)
         /\ v.calculation = Sizes(calculationIssues(p, f)) /\ v.dataQuality = Sizes(dataQualityIssues(f))
         /\ v.lockBlockers = selectedPeriodLockBlockers(f, ClosedPage(p, f))
         /\ v.lockWarnings = selectedPeriodLockWarnings(f, ClosedPage(p, f))
         /\ ClosedPage(p, f).monthlyCloseWarnings = Warnings(monthlyCloseChecklist(f))
<1>1. PICK u, c : u = PeriodPage(p, f) /\ c = ClosedPage(p, f)
  OBVIOUS
<1>2. /\ {"calculation", "dataQuality", "lockBlockers", "lockWarnings"} \subseteq DOMAIN u
      /\ u.calculation = Sizes(calculationIssues(p, f)) /\ u.dataQuality = Sizes(dataQualityIssues(f))
      /\ u.lockBlockers = selectedPeriodLockBlockers(f, c) /\ u.lockWarnings = selectedPeriodLockWarnings(f, c)
  BY <1>1 DEF PeriodPage, RenderPeriod, With
<1>3. c.monthlyCloseWarnings = Warnings(monthlyCloseChecklist(f))
  <2>1. PICK r : r = RenderClose(p, f)
    OBVIOUS
  <2>2. "monthlyCloseWarnings" \in DOMAIN r /\ r.monthlyCloseWarnings = Warnings(monthlyCloseChecklist(f))
    BY <2>1 DEF RenderClose, With
  <2> QED BY <1>1, <2>1, <2>2 DEF ClosedPage, RenderArchive, With
<1>4. Keeps(u, v, AfterPeriod)
  BY <1>1, StagesKeep
<1>5. \A k \in {"calculation", "dataQuality", "lockBlockers", "lockWarnings"} : k \notin AfterPeriod
  BY DEF AfterPeriod, AfterSecurity, AfterCompliance, AfterLive, AfterFlow, AfterGates, AfterReview,
     AfterDeclaration, AfterLock, AfterClosing, AfterRisk, PlanNames
<1>6. \A k \in {"calculation", "dataQuality", "lockBlockers", "lockWarnings"} : v[k] = u[k]
  BY <1>2, <1>4, <1>5 DEF Keeps
<1> QED BY <1>1, <1>2, <1>3, <1>6

LEMMA ComplianceIs ==
  ASSUME NEW p, NEW f, NEW v, v = RenderPage(p, f), NEW u, u = SecuredPage(p, f)
  PROVE  /\ {"compliance"} \subseteq DOMAIN CompliantPage(p, f)
         /\ v.compliance = Summary(complianceRows(f, u))
<1>1. PICK w : w = CompliantPage(p, f)
  OBVIOUS
<1>2. /\ {"compliance"} \subseteq DOMAIN w
      /\ w.compliance = Summary(complianceRows(f, u))
  BY <1>1 DEF CompliantPage, RenderCompliance, With
<1>3. Keeps(w, v, AfterCompliance) /\ Keeps(u, v, AfterSecurity)
  BY <1>1, StagesKeep
<1>4. \A k \in {"compliance"} : k \notin AfterCompliance
  BY DEF AfterCompliance, AfterLive, AfterFlow, AfterGates, AfterReview, AfterDeclaration, AfterLock, AfterClosing, AfterRisk, PlanNames
<1>5. \A k \in {"compliance"} : v[k] = w[k]
  BY <1>2, <1>3, <1>4 DEF Keeps
<1> QED BY <1>1, <1>2, <1>5

LEMMA GoLiveIs ==
  ASSUME NEW p, NEW f, NEW v, v = RenderPage(p, f), NEW u, u = CompliantPage(p, f)
  PROVE  /\ {"goLive"} \subseteq DOMAIN LivePage(p, f)
         /\ v.goLive = Summary(goLiveRows(f, u))
         /\ u.calculation = v.calculation
         /\ u.compliance = v.compliance
<1>1. PICK w : w = LivePage(p, f)
  OBVIOUS
<1>2. /\ {"goLive"} \subseteq DOMAIN w
      /\ w.goLive = Summary(goLiveRows(f, u))
  BY <1>1 DEF LivePage, RenderLive, With
<1>3. Keeps(w, v, AfterLive) /\ Keeps(u, v, AfterCompliance)
  BY <1>1, StagesKeep
<1>4. \A k \in {"goLive"} : k \notin AfterLive
  BY DEF AfterLive, AfterFlow, AfterGates, AfterReview, AfterDeclaration, AfterLock, AfterClosing, AfterRisk, PlanNames
<1>5. \A k \in {"goLive"} : v[k] = w[k]
  BY <1>2, <1>3, <1>4 DEF Keeps
<1>6. {"calculation", "compliance"} \subseteq DOMAIN u
  BY StagesGrow, ComplianceIs, PeriodIs
<1>7. \A k \in {"calculation", "compliance"} : k \notin AfterCompliance
  BY DEF AfterCompliance, AfterLive, AfterFlow, AfterGates, AfterReview, AfterDeclaration, AfterLock, AfterClosing, AfterRisk, PlanNames
<1>8. \A k \in {"calculation", "compliance"} : u[k] = v[k]
  BY <1>3, <1>6, <1>7 DEF Keeps
<1> QED BY <1>1, <1>2, <1>5, <1>8

LEMMA GatesAre ==
  ASSUME NEW p, NEW f, NEW v, v = RenderPage(p, f), NEW u, u = FlowPage(p, f)
  PROVE  /\ {"firstRealData", "useToday", "finishLine", "payments", "annualRoutine"} \subseteq DOMAIN GatedPage(p, f)
         /\ v.firstRealData = Summary(firstRealDataGateRows(f, u))
         /\ v.useToday = Summary(useTodayGateRows(f, u))
         /\ v.finishLine = Summary(With(mvpFinishLineSetup(f), mvpFinishLineBooks(f, u)))
         /\ v.payments = Summary(paymentReconciliationRows(p, f))
         /\ v.annualRoutine = Summary(annualRoutineRows(p, f, u))
         /\ u.calculation = v.calculation
         /\ u.goLive = v.goLive
<1>1. PICK w : w = GatedPage(p, f)
  OBVIOUS
<1>2. /\ {"firstRealData", "useToday", "finishLine", "payments", "annualRoutine"} \subseteq DOMAIN w
      /\ w.firstRealData = Summary(firstRealDataGateRows(f, u))
      /\ w.useToday = Summary(useTodayGateRows(f, u))
      /\ w.finishLine = Summary(With(mvpFinishLineSetup(f), mvpFinishLineBooks(f, u)))
      /\ w.payments = Summary(paymentReconciliationRows(p, f))
      /\ w.annualRoutine = Summary(annualRoutineRows(p, f, u))
  BY <1>1 DEF GatedPage, RenderGates, With
<1>3. Keeps(w, v, AfterGates) /\ Keeps(u, v, AfterFlow)
  BY <1>1, StagesKeep
<1>4. \A k \in {"firstRealData", "useToday", "finishLine", "payments", "annualRoutine"} : k \notin AfterGates
  BY DEF AfterGates, AfterReview, AfterDeclaration, AfterLock, AfterClosing, AfterRisk, PlanNames
<1>5. \A k \in {"firstRealData", "useToday", "finishLine", "payments", "annualRoutine"} : v[k] = w[k]
  BY <1>2, <1>3, <1>4 DEF Keeps
<1>6. {"calculation", "goLive"} \subseteq DOMAIN u
  BY StagesGrow, GoLiveIs, PeriodIs
<1>7. \A k \in {"calculation", "goLive"} : k \notin AfterFlow
  BY DEF AfterFlow, AfterGates, AfterReview, AfterDeclaration, AfterLock, AfterClosing, AfterRisk, PlanNames
<1>8. \A k \in {"calculation", "goLive"} : u[k] = v[k]
  BY <1>3, <1>6, <1>7 DEF Keeps
<1> QED BY <1>1, <1>2, <1>5, <1>8

LEMMA ReviewIs ==
  ASSUME NEW p, NEW f, NEW v, v = RenderPage(p, f), NEW u, u = GatedPage(p, f)
  PROVE  /\ {"reconciliation", "review"} \subseteq DOMAIN ReviewedPage(p, f)
         /\ v.reconciliation = Summary(reconciliationRows(p, f, u))
         /\ v.review.pending = Cardinality(voucherReviewRows(p, f).pending)
         /\ u.calculation = v.calculation
<1>1. PICK w : w = ReviewedPage(p, f)
  OBVIOUS
<1>2. /\ {"reconciliation", "review"} \subseteq DOMAIN w
      /\ w.reconciliation = Summary(reconciliationRows(p, f, u))
      /\ w.review.pending = Cardinality(voucherReviewRows(p, f).pending)
  BY <1>1 DEF ReviewedPage, RenderReview, With
<1>3. Keeps(w, v, AfterReview) /\ Keeps(u, v, AfterGates)
  BY <1>1, StagesKeep
<1>4. \A k \in {"reconciliation", "review"} : k \notin AfterReview
  BY DEF AfterReview, AfterDeclaration, AfterLock, AfterClosing, AfterRisk, PlanNames
<1>5. \A k \in {"reconciliation", "review"} : v[k] = w[k]
  BY <1>2, <1>3, <1>4 DEF Keeps
<1>6. {"calculation"} \subseteq DOMAIN u
  BY StagesGrow, PeriodIs
<1>7. \A k \in {"calculation"} : k \notin AfterGates
  BY DEF AfterGates, AfterReview, AfterDeclaration, AfterLock, AfterClosing, AfterRisk, PlanNames
<1>8. \A k \in {"calculation"} : u[k] = v[k]
  BY <1>3, <1>6, <1>7 DEF Keeps
<1> QED BY <1>1, <1>2, <1>5, <1>8

LEMMA DeclarationIs ==
  ASSUME NEW p, NEW f, NEW v, v = RenderPage(p, f), NEW u, u = ReviewedPage(p, f)
  PROVE  /\ {"declaration", "blockers", "warnings"} \subseteq DOMAIN DeclaredPage(p, f)
         /\ v.declaration = Summary(declarationCenterRows(p, f, u))
         /\ v.blockers = selectedPeriodProfessionalLockBlockers(f, u)
         /\ v.warnings = selectedPeriodProfessionalLockWarnings(f, u)
         /\ u.annualRoutine = v.annualRoutine
         /\ u.reconciliation = v.reconciliation
         /\ u.lockBlockers = v.lockBlockers
         /\ u.lockWarnings = v.lockWarnings
         /\ u.review = v.review
<1>1. PICK w : w = DeclaredPage(p, f)
  OBVIOUS
<1>2. /\ {"declaration", "blockers", "warnings"} \subseteq DOMAIN w
      /\ w.declaration = Summary(declarationCenterRows(p, f, u))
      /\ w.blockers = selectedPeriodProfessionalLockBlockers(f, u)
      /\ w.warnings = selectedPeriodProfessionalLockWarnings(f, u)
  BY <1>1 DEF DeclaredPage, RenderDeclaration, With
<1>3. Keeps(w, v, AfterDeclaration) /\ Keeps(u, v, AfterReview)
  BY <1>1, StagesKeep
<1>4. \A k \in {"declaration", "blockers", "warnings"} : k \notin AfterDeclaration
  BY DEF AfterDeclaration, AfterLock, AfterClosing, AfterRisk, PlanNames
<1>5. \A k \in {"declaration", "blockers", "warnings"} : v[k] = w[k]
  BY <1>2, <1>3, <1>4 DEF Keeps
<1>6. {"annualRoutine", "reconciliation", "lockBlockers", "lockWarnings", "review"} \subseteq DOMAIN u
  <2>1. "annualRoutine" \in DOMAIN u
    BY StagesGrow, GatesAre
  <2>2. "reconciliation" \in DOMAIN u
    BY StagesGrow, ReviewIs
  <2>3. "lockBlockers" \in DOMAIN u
    BY StagesGrow, PeriodIs
  <2>4. "lockWarnings" \in DOMAIN u
    BY StagesGrow, PeriodIs
  <2>5. "review" \in DOMAIN u
    BY StagesGrow, ReviewIs
  <2> QED BY <2>1, <2>2, <2>3, <2>4, <2>5
<1>7. \A k \in {"annualRoutine", "reconciliation", "lockBlockers", "lockWarnings", "review"} : k \notin AfterReview
  BY DEF AfterReview, AfterDeclaration, AfterLock, AfterClosing, AfterRisk, PlanNames
<1>8. \A k \in {"annualRoutine", "reconciliation", "lockBlockers", "lockWarnings", "review"} : u[k] = v[k]
  BY <1>3, <1>6, <1>7 DEF Keeps
<1> QED BY <1>1, <1>2, <1>5, <1>8

LEMMA LockIs ==
  ASSUME NEW p, NEW f, NEW v, v = RenderPage(p, f), NEW u, u = DeclaredPage(p, f)
  PROVE  /\ {"canBeLocked", "periodControl", "archive"} \subseteq DOMAIN LockedPage(p, f)
         /\ v.canBeLocked = selectedPeriodProfessionalCanBeLocked(f, u)
         /\ v.periodControl = Summary(periodControlRows(f, u))
         /\ v.archive = Summary(archiveCenterRows(f, u))
         /\ u.calculation = v.calculation
         /\ u.blockers = v.blockers
         /\ u.warnings = v.warnings
         /\ u.declaration = v.declaration
<1>1. PICK w : w = LockedPage(p, f)
  OBVIOUS
<1>2. /\ {"canBeLocked", "periodControl", "archive"} \subseteq DOMAIN w
      /\ w.canBeLocked = selectedPeriodProfessionalCanBeLocked(f, u)
      /\ w.periodControl = Summary(periodControlRows(f, u))
      /\ w.archive = Summary(archiveCenterRows(f, u))
  BY <1>1 DEF LockedPage, RenderLock, With
<1>3. Keeps(w, v, AfterLock) /\ Keeps(u, v, AfterDeclaration)
  BY <1>1, StagesKeep
<1>4. \A k \in {"canBeLocked", "periodControl", "archive"} : k \notin AfterLock
  BY DEF AfterLock, AfterClosing, AfterRisk, PlanNames
<1>5. \A k \in {"canBeLocked", "periodControl", "archive"} : v[k] = w[k]
  BY <1>2, <1>3, <1>4 DEF Keeps
<1>6. {"calculation", "blockers", "warnings", "declaration"} \subseteq DOMAIN u
  BY StagesGrow, DeclarationIs, PeriodIs
<1>7. \A k \in {"calculation", "blockers", "warnings", "declaration"} : k \notin AfterDeclaration
  BY DEF AfterDeclaration, AfterLock, AfterClosing, AfterRisk, PlanNames
<1>8. \A k \in {"calculation", "blockers", "warnings", "declaration"} : u[k] = v[k]
  BY <1>3, <1>6, <1>7 DEF Keeps
<1> QED BY <1>1, <1>2, <1>5, <1>8

LEMMA ClosingIs ==
  ASSUME NEW p, NEW f, NEW v, v = RenderPage(p, f), NEW u, u = LockedPage(p, f)
  PROVE  /\ {"migration", "closing"} \subseteq DOMAIN ClosingPage(p, f)
         /\ v.migration = Summary(migrationCenterRows(f, u))
         /\ v.closing = Summary(closingCenterRows(f, u))
         /\ u.calculation = v.calculation
         /\ u.reconciliation = v.reconciliation
         /\ u.archive = v.archive
         /\ u.periodControl = v.periodControl
<1>1. PICK w : w = ClosingPage(p, f)
  OBVIOUS
<1>2. /\ {"migration", "closing"} \subseteq DOMAIN w
      /\ w.migration = Summary(migrationCenterRows(f, u))
      /\ w.closing = Summary(closingCenterRows(f, u))
  BY <1>1 DEF ClosingPage, RenderClosing, With
<1>3. Keeps(w, v, AfterClosing) /\ Keeps(u, v, AfterLock)
  BY <1>1, StagesKeep
<1>4. \A k \in {"migration", "closing"} : k \notin AfterClosing
  BY DEF AfterClosing, AfterRisk, PlanNames
<1>5. \A k \in {"migration", "closing"} : v[k] = w[k]
  BY <1>2, <1>3, <1>4 DEF Keeps
<1>6. {"calculation", "reconciliation", "archive", "periodControl"} \subseteq DOMAIN u
  <2>1. "calculation" \in DOMAIN u
    BY StagesGrow, PeriodIs
  <2>2. "reconciliation" \in DOMAIN u
    BY StagesGrow, ReviewIs
  <2>3. "archive" \in DOMAIN u
    BY StagesGrow, LockIs
  <2>4. "periodControl" \in DOMAIN u
    BY StagesGrow, LockIs
  <2> QED BY <2>1, <2>2, <2>3, <2>4
<1>7. \A k \in {"calculation", "reconciliation", "archive", "periodControl"} : k \notin AfterLock
  BY DEF AfterLock, AfterClosing, AfterRisk, PlanNames
<1>8. \A k \in {"calculation", "reconciliation", "archive", "periodControl"} : u[k] = v[k]
  BY <1>3, <1>6, <1>7 DEF Keeps
<1> QED BY <1>1, <1>2, <1>5, <1>8

LEMMA RiskIs ==
  ASSUME NEW p, NEW f, NEW v, v = RenderPage(p, f), NEW u, u = ClosingPage(p, f)
  PROVE  /\ {"risk", "internalControl"} \subseteq DOMAIN RiskPage(p, f)
         /\ v.risk = Summary(riskCenterRows(p, f, u))
         /\ v.internalControl = Summary(internalControlRows(f, u))
<1>1. PICK w : w = RiskPage(p, f)
  OBVIOUS
<1>2. /\ {"risk", "internalControl"} \subseteq DOMAIN w
      /\ w.risk = Summary(riskCenterRows(p, f, u))
      /\ w.internalControl = Summary(internalControlRows(f, u))
  BY <1>1 DEF RiskPage, RenderRisk, With
<1>3. Keeps(w, v, AfterRisk) /\ Keeps(u, v, AfterClosing)
  BY <1>1, StagesKeep
<1>4. \A k \in {"risk", "internalControl"} : k \notin AfterRisk
  BY DEF AfterRisk, PlanNames
<1>5. \A k \in {"risk", "internalControl"} : v[k] = w[k]
  BY <1>2, <1>3, <1>4 DEF Keeps
<1> QED BY <1>1, <1>2, <1>5

LEMMA QualityIs ==
  ASSUME NEW p, NEW f, NEW v, v = RenderPage(p, f), NEW u, u = RiskPage(p, f)
  PROVE  /\ {"quality"} \subseteq DOMAIN QualityPage(p, f)
         /\ v.quality = Summary(accountingQualityRows(f, u))
         /\ u.calculation = v.calculation
         /\ u.payments = v.payments
         /\ u.reconciliation = v.reconciliation
         /\ u.internalControl = v.internalControl
         /\ u.closing = v.closing
<1>1. PICK w : w = QualityPage(p, f)
  OBVIOUS
<1>2. /\ {"quality"} \subseteq DOMAIN w
      /\ w.quality = Summary(accountingQualityRows(f, u))
  BY <1>1 DEF QualityPage, RenderQuality, With
<1>3. Keeps(w, v, PlanNames) /\ Keeps(u, v, AfterRisk)
  BY <1>1, StagesKeep
<1>4. \A k \in {"quality"} : k \notin PlanNames
  BY DEF PlanNames
<1>5. \A k \in {"quality"} : v[k] = w[k]
  BY <1>2, <1>3, <1>4 DEF Keeps
<1>6. {"calculation", "payments", "reconciliation", "internalControl", "closing"} \subseteq DOMAIN u
  <2>1. "calculation" \in DOMAIN u
    BY StagesGrow, PeriodIs
  <2>2. "payments" \in DOMAIN u
    BY StagesGrow, GatesAre
  <2>3. "reconciliation" \in DOMAIN u
    BY StagesGrow, ReviewIs
  <2>4. "internalControl" \in DOMAIN u
    BY StagesGrow, RiskIs
  <2>5. "closing" \in DOMAIN u
    BY StagesGrow, ClosingIs
  <2> QED BY <2>1, <2>2, <2>3, <2>4, <2>5
<1>7. \A k \in {"calculation", "payments", "reconciliation", "internalControl", "closing"} : k \notin AfterRisk
  BY DEF AfterRisk, PlanNames
<1>8. \A k \in {"calculation", "payments", "reconciliation", "internalControl", "closing"} : u[k] = v[k]
  BY <1>3, <1>6, <1>7 DEF Keeps
<1> QED BY <1>1, <1>2, <1>5, <1>8

LEMMA PlanIs ==
  ASSUME NEW p, NEW f, NEW v, v = RenderPage(p, f), NEW u, u = QualityPage(p, f)
  PROVE  /\ v.readyForReports = accountingQualityReadyForReports(f, u)
         /\ v.actionPlan = Summary(With(professionalActionPlanBooks(f, u), professionalActionPlanRest(f, u)))
         /\ v.limitedCompanyReady = Cardinality(abReadinessItems(f, u))
         /\ u.calculation = v.calculation
         /\ u.quality = v.quality
<1>1. v = RenderPlan(p, f, u)
  BY Zenon DEF RenderPage, QualityPage, RiskPage, ClosingPage, LockedPage, DeclaredPage, ReviewedPage, GatedPage,
     FlowPage, LivePage, CompliantPage, SecuredPage, PeriodPage, ClosedPage
<1>2. /\ v.readyForReports = accountingQualityReadyForReports(f, u)
      /\ v.actionPlan = Summary(With(professionalActionPlanBooks(f, u), professionalActionPlanRest(f, u)))
      /\ v.limitedCompanyReady = Cardinality(abReadinessItems(f, u))
  BY <1>1 DEF RenderPlan, With
<1>3. Keeps(u, v, PlanNames)
  BY StagesKeep
<1>4. {"calculation", "quality"} \subseteq DOMAIN u
  BY StagesGrow, PeriodIs, QualityIs
<1>5. \A k \in {"calculation", "quality"} : u[k] = v[k]
  BY <1>3, <1>4 DEF Keeps, PlanNames
<1> QED BY <1>2, <1>5

----------------------------------------------------------------------------
(* Rows.  A list has a critical row if and only if its summary counts one. *)

LEMMA CountCounts ==
  ASSUME NEW rows, IsFiniteSet(DOMAIN rows), NEW status
  PROVE  /\ Count(rows, status) \in Nat
         /\ Count(rows, status) > 0 <=> \E k \in DOMAIN rows : rows[k] = status
<1> DEFINE S == {k \in DOMAIN rows : rows[k] = status}
<1>1. IsFiniteSet(S)
  BY FS_Subset
<1>2. Cardinality(S) \in Nat /\ (Cardinality(S) = 0 <=> S = {})
  BY <1>1, FS_CardinalityType, FS_EmptySet
<1>3. Count(rows, status) = Cardinality(S)
  BY DEF Count
<1>4. S = {} <=> ~ \E k \in DOMAIN rows : rows[k] = status
  OBVIOUS
<1> HIDE DEF S
<1> QED BY <1>2, <1>3, <1>4

IsJudged(s, rows) ==
  /\ IsFiniteSet(DOMAIN rows) /\ s.critical \in Nat
  /\ s.critical > 0 <=> \E k \in DOMAIN rows : rows[k] = "critical"

LEMMA SummaryJudges ==
  ASSUME NEW rows, IsFiniteSet(DOMAIN rows)
  PROVE  IsJudged(Summary(rows), rows)
<1>1. Summary(rows).critical = Count(rows, "critical")
  BY DEF Summary
<1> QED BY <1>1, CountCounts DEF IsJudged

LEMMA MonthlyCloseChecklistFinite ==
  ASSUME NEW f
  PROVE  IsFiniteSet(DOMAIN monthlyCloseChecklist(f))
<1> DEFINE A == {"bookkeeping", "receipts", "invoices", "bank", "vat", "budget", "budget", "budget"}
           B == {"budget", "budget", "budget", "budget"}
<1>1. DOMAIN monthlyCloseChecklist(f) = A \cup B
  BY DEF monthlyCloseChecklist
<1>2. IsFiniteSet(A) /\ IsFiniteSet(B)
  BY FourAreFinite, EightAreFinite
<1> HIDE DEF A, B
<1> QED BY <1>1, <1>2, FS_Union

LEMMA ComplianceIsJudged ==
  ASSUME NEW f, NEW u
  PROVE  IsJudged(Summary(complianceRows(f, u)), complianceRows(f, u))
<1> DEFINE A == {"records", "vouchers", "receipts", "ledgerReports", "vatTax", "electronicPayments", "timelyBookkeeping", "periodLock"}
           B == {"archive", "security", "security", "security"}
<1>1. DOMAIN complianceRows(f, u) = A \cup B
  BY DEF complianceRows
<1>2. IsFiniteSet(A) /\ IsFiniteSet(B)
  BY FourAreFinite, EightAreFinite
<1> HIDE DEF A, B
<1>3. IsFiniteSet(A \cup B)
  BY <1>2, FS_Union
<1> QED BY <1>1, <1>3, SummaryJudges

LEMMA GoLiveIsJudged ==
  ASSUME NEW f, NEW u
  PROVE  IsJudged(Summary(goLiveRows(f, u)), goLiveRows(f, u))
<1> DEFINE A == {"system", "company", "salesBase", "invoicing", "bookkeeping", "timelyBookkeeping", "calculations", "receipts"}
           B == {"payments", "paymentCompliance", "email", "security", "backup", "pilot", "compliance", "handoff"}
<1>1. DOMAIN goLiveRows(f, u) = A \cup B
  BY DEF goLiveRows
<1>2. IsFiniteSet(A) /\ IsFiniteSet(B)
  BY FourAreFinite, EightAreFinite
<1> HIDE DEF A, B
<1>3. IsFiniteSet(A \cup B)
  BY <1>2, FS_Union
<1> QED BY <1>1, <1>3, SummaryJudges

LEMMA FirstRealDataGateIsJudged ==
  ASSUME NEW f, NEW u
  PROVE  IsJudged(Summary(firstRealDataGateRows(f, u)), firstRealDataGateRows(f, u))
<1> DEFINE A == {"mfa", "cyberGovernance", "moneyPrecision", "localRelease", "manualProof", "backupRestore", "companySettings", "testData"}
           B == {"numberSeries", "paymentRoutine", "privacyAi", "privacyAi"}
<1>1. DOMAIN firstRealDataGateRows(f, u) = A \cup B
  BY DEF firstRealDataGateRows
<1>2. IsFiniteSet(A) /\ IsFiniteSet(B)
  BY FourAreFinite, EightAreFinite
<1> HIDE DEF A, B
<1>3. IsFiniteSet(A \cup B)
  BY <1>2, FS_Union
<1> QED BY <1>1, <1>3, SummaryJudges

LEMMA UseTodayGateIsJudged ==
  ASSUME NEW f, NEW u
  PROVE  IsJudged(Summary(useTodayGateRows(f, u)), useTodayGateRows(f, u))
<1> DEFINE A == {"localSystem", "moneySupport", "render", "calculations", "vouchers", "coreFlow", "manualProof", "backup"}
           B == {"paymentRoutine", "security", "productionBoundary", "productionBoundary"}
<1>1. DOMAIN useTodayGateRows(f, u) = A \cup B
  BY DEF useTodayGateRows
<1>2. IsFiniteSet(A) /\ IsFiniteSet(B)
  BY FourAreFinite, EightAreFinite
<1> HIDE DEF A, B
<1>3. IsFiniteSet(A \cup B)
  BY <1>2, FS_Union
<1> QED BY <1>1, <1>3, SummaryJudges

LEMMA MvpFinishLineSetupFinite ==
  ASSUME NEW f
  PROVE  IsFiniteSet(DOMAIN mvpFinishLineSetup(f))
<1> DEFINE A == {"gitClean", "githubSync", "ci", "dockerImages", "localSystem", "systemStatus", "companySettings", "manualClickTest"}
           B == {"customers", "invoiceFlow", "invoiceFlow", "invoiceFlow"}
<1>1. DOMAIN mvpFinishLineSetup(f) = A \cup B
  BY DEF mvpFinishLineSetup
<1>2. IsFiniteSet(A) /\ IsFiniteSet(B)
  BY FourAreFinite, EightAreFinite
<1> HIDE DEF A, B
<1> QED BY <1>1, <1>2, FS_Union

LEMMA MvpFinishLineBooksFinite ==
  ASSUME NEW f, NEW u
  PROVE  IsFiniteSet(DOMAIN mvpFinishLineBooks(f, u))
<1> DEFINE A == {"payments", "bankImport", "vouchers", "evidence", "reports", "vatTax", "emailStripe", "security"}
           B == {"backup", "advisorHandoff", "advisorHandoff", "advisorHandoff"}
<1>1. DOMAIN mvpFinishLineBooks(f, u) = A \cup B
  BY DEF mvpFinishLineBooks
<1>2. IsFiniteSet(A) /\ IsFiniteSet(B)
  BY FourAreFinite, EightAreFinite
<1> HIDE DEF A, B
<1> QED BY <1>1, <1>2, FS_Union

LEMMA PaymentReconciliationIsJudged ==
  ASSUME NEW p, NEW f
  PROVE  IsJudged(Summary(paymentReconciliationRows(p, f)), paymentReconciliationRows(p, f))
<1> DEFINE A == {"overdueInvoices", "partialPayments", "overpaidInvoices", "bankReview", "bankReady", "stripeBalance", "bankStatement", "balancedVouchers"}
           B == {"balancedVouchers", "balancedVouchers", "balancedVouchers", "balancedVouchers"}
<1>1. DOMAIN paymentReconciliationRows(p, f) = A \cup B
  BY DEF paymentReconciliationRows
<1>2. IsFiniteSet(A) /\ IsFiniteSet(B)
  BY FourAreFinite, EightAreFinite
<1> HIDE DEF A, B
<1>3. IsFiniteSet(A \cup B)
  BY <1>2, FS_Union
<1> QED BY <1>1, <1>3, SummaryJudges

LEMMA AnnualRoutineIsJudged ==
  ASSUME NEW p, NEW f, NEW u
  PROVE  IsJudged(Summary(annualRoutineRows(p, f, u)), annualRoutineRows(p, f, u))
<1> DEFINE A == {"year", "bookkeeping", "receipts", "receivables", "vatTax", "payroll", "result", "reports"}
           B == {"handoff", "backupLock", "backupLock", "backupLock"}
<1>1. DOMAIN annualRoutineRows(p, f, u) = A \cup B
  BY DEF annualRoutineRows
<1>2. IsFiniteSet(A) /\ IsFiniteSet(B)
  BY FourAreFinite, EightAreFinite
<1> HIDE DEF A, B
<1>3. IsFiniteSet(A \cup B)
  BY <1>2, FS_Union
<1> QED BY <1>1, <1>3, SummaryJudges

LEMMA ReconciliationIsJudged ==
  ASSUME NEW p, NEW f, NEW u
  PROVE  IsJudged(Summary(reconciliationRows(p, f, u)), reconciliationRows(p, f, u))
<1> DEFINE A == {"bank", "accounts", "taxAccount", "balance", "vouchers", "vat", "receiptsBank", "receiptsBank"}
           B == {"receiptsBank", "receiptsBank", "receiptsBank", "receiptsBank"}
<1>1. DOMAIN reconciliationRows(p, f, u) = A \cup B
  BY DEF reconciliationRows
<1>2. IsFiniteSet(A) /\ IsFiniteSet(B)
  BY FourAreFinite, EightAreFinite
<1> HIDE DEF A, B
<1>3. IsFiniteSet(A \cup B)
  BY <1>2, FS_Union
<1> QED BY <1>1, <1>3, SummaryJudges

LEMMA DeclarationCenterIsJudged ==
  ASSUME NEW p, NEW f, NEW u
  PROVE  IsJudged(Summary(declarationCenterRows(p, f, u)), declarationCenterRows(p, f, u))
<1> DEFINE A == {"annualClose", "declarationBasis", "vatTax", "reconciliation", "reports", "receipts", "archive", "backup"}
           B == {"backup", "backup", "backup", "backup"}
<1>1. DOMAIN declarationCenterRows(p, f, u) = A \cup B
  BY DEF declarationCenterRows
<1>2. IsFiniteSet(A) /\ IsFiniteSet(B)
  BY FourAreFinite, EightAreFinite
<1> HIDE DEF A, B
<1>3. IsFiniteSet(A \cup B)
  BY <1>2, FS_Union
<1> QED BY <1>1, <1>3, SummaryJudges

LEMMA PeriodControlIsJudged ==
  ASSUME NEW f, NEW u
  PROVE  IsJudged(Summary(periodControlRows(f, u)), periodControlRows(f, u))
<1> DEFINE A == {"backendPeriodCheck", "blockingErrors", "accountSigns", "accountingPolicy", "voucherReviewLock", "backup", "periodLock", "monthLock"}
           B == {"yearLock", "corrections", "lockedData", "archive"}
<1>1. DOMAIN periodControlRows(f, u) = A \cup B
  BY DEF periodControlRows
<1>2. IsFiniteSet(A) /\ IsFiniteSet(B)
  BY FourAreFinite, EightAreFinite
<1> HIDE DEF A, B
<1>3. IsFiniteSet(A \cup B)
  BY <1>2, FS_Union
<1> QED BY <1>1, <1>3, SummaryJudges

LEMMA ArchiveCenterIsJudged ==
  ASSUME NEW f, NEW u
  PROVE  IsJudged(Summary(archiveCenterRows(f, u)), archiveCenterRows(f, u))
<1> DEFINE A == {"legalRetention", "invoices", "receipts", "vouchers", "vat", "reports", "declaration", "backup"}
           B == {"archivePackage", "anonymizedExport", "anonymizedExport", "anonymizedExport"}
<1>1. DOMAIN archiveCenterRows(f, u) = A \cup B
  BY DEF archiveCenterRows
<1>2. IsFiniteSet(A) /\ IsFiniteSet(B)
  BY FourAreFinite, EightAreFinite
<1> HIDE DEF A, B
<1>3. IsFiniteSet(A \cup B)
  BY <1>2, FS_Union
<1> QED BY <1>1, <1>3, SummaryJudges

LEMMA MigrationCenterIsJudged ==
  ASSUME NEW f, NEW u
  PROVE  IsJudged(Summary(migrationCenterRows(f, u)), migrationCenterRows(f, u))
<1> DEFINE A == {"moneyPrecision", "sourceExport", "fileAnalysis", "sie", "reviewQueue", "imported", "bank", "customersInvoices"}
           B == {"numbers", "archive", "backup", "backup"}
<1>1. DOMAIN migrationCenterRows(f, u) = A \cup B
  BY DEF migrationCenterRows
<1>2. IsFiniteSet(A) /\ IsFiniteSet(B)
  BY FourAreFinite, EightAreFinite
<1> HIDE DEF A, B
<1>3. IsFiniteSet(A \cup B)
  BY <1>2, FS_Union
<1> QED BY <1>1, <1>3, SummaryJudges

LEMMA ClosingCenterIsJudged ==
  ASSUME NEW f, NEW u
  PROVE  IsJudged(Summary(closingCenterRows(f, u)), closingCenterRows(f, u))
<1> DEFINE A == {"monthClose", "reconciliation", "bookkeepingBalance", "accountingPolicy", "voucherReview", "receivables", "payables", "vat"}
           B == {"archive", "periodLock", "periodLock", "periodLock"}
<1>1. DOMAIN closingCenterRows(f, u) = A \cup B
  BY DEF closingCenterRows
<1>2. IsFiniteSet(A) /\ IsFiniteSet(B)
  BY FourAreFinite, EightAreFinite
<1> HIDE DEF A, B
<1>3. IsFiniteSet(A \cup B)
  BY <1>2, FS_Union
<1> QED BY <1>1, <1>3, SummaryJudges

LEMMA RiskCenterIsJudged ==
  ASSUME NEW p, NEW f, NEW u
  PROVE  IsJudged(Summary(riskCenterRows(p, f, u)), riskCenterRows(p, f, u))
<1> DEFINE A == {"calculations", "bookkeeping", "timelyBookkeeping", "receipts", "liquidity", "vatTax", "bankPayments", "dataQuality"}
           B == {"security", "archiveMigration", "goLive", "goLive"}
<1>1. DOMAIN riskCenterRows(p, f, u) = A \cup B
  BY DEF riskCenterRows
<1>2. IsFiniteSet(A) /\ IsFiniteSet(B)
  BY FourAreFinite, EightAreFinite
<1> HIDE DEF A, B
<1>3. IsFiniteSet(A \cup B)
  BY <1>2, FS_Union
<1> QED BY <1>1, <1>3, SummaryJudges

LEMMA InternalControlIsJudged ==
  ASSUME NEW f, NEW u
  PROVE  IsJudged(Summary(internalControlRows(f, u)), internalControlRows(f, u))
<1> DEFINE A == {"auditTrail", "auditIntegrity", "protectedHistory", "accountingPolicy", "corrections", "voucherChain", "voucherReview", "backup"}
           B == {"personalData", "aiExport", "dataQuality", "closingEvidence"}
<1>1. DOMAIN internalControlRows(f, u) = A \cup B
  BY DEF internalControlRows
<1>2. IsFiniteSet(A) /\ IsFiniteSet(B)
  BY FourAreFinite, EightAreFinite
<1> HIDE DEF A, B
<1>3. IsFiniteSet(A \cup B)
  BY <1>2, FS_Union
<1> QED BY <1>1, <1>3, SummaryJudges

LEMMA AccountingQualityIsJudged ==
  ASSUME NEW f, NEW u
  PROVE  IsJudged(Summary(accountingQualityRows(f, u)), accountingQualityRows(f, u))
<1> DEFINE A == {"calculations", "accountSigns", "vouchers", "timelyBookkeeping", "evidence", "payments", "reconciliation", "vatTax"}
           B == {"dataQuality", "companyForm", "compliance", "internalControl", "closing", "closing", "closing", "closing"}
<1>1. DOMAIN accountingQualityRows(f, u) = A \cup B
  BY DEF accountingQualityRows
<1>2. IsFiniteSet(A) /\ IsFiniteSet(B)
  BY FourAreFinite, EightAreFinite
<1> HIDE DEF A, B
<1>3. IsFiniteSet(A \cup B)
  BY <1>2, FS_Union
<1> QED BY <1>1, <1>3, SummaryJudges

LEMMA ProfessionalActionPlanBooksFinite ==
  ASSUME NEW f, NEW u
  PROVE  IsFiniteSet(DOMAIN professionalActionPlanBooks(f, u))
<1> DEFINE A == {"calculationLock", "voucherBalance", "evidenceChain", "paymentMatch", "accountReconciliation", "vatTaxReady", "approvalHistory", "periodClose"}
           B == {"backupExport", "goLive", "goLive", "goLive"}
<1>1. DOMAIN professionalActionPlanBooks(f, u) = A \cup B
  BY DEF professionalActionPlanBooks
<1>2. IsFiniteSet(A) /\ IsFiniteSet(B)
  BY FourAreFinite, EightAreFinite
<1> HIDE DEF A, B
<1> QED BY <1>1, <1>2, FS_Union

LEMMA ProfessionalActionPlanRestFinite ==
  ASSUME NEW f, NEW u
  PROVE  IsFiniteSet(DOMAIN professionalActionPlanRest(f, u))
<1> DEFINE A == {"numberSequences", "masterData", "companyForm", "migration", "archiveRetention", "securityAi", "internalControl", "operations"}
           B == {"endToEndTest", "finalRiskDecision", "finalRiskDecision", "finalRiskDecision"}
<1>1. DOMAIN professionalActionPlanRest(f, u) = A \cup B
  BY DEF professionalActionPlanRest
<1>2. IsFiniteSet(A) /\ IsFiniteSet(B)
  BY FourAreFinite, EightAreFinite
<1> HIDE DEF A, B
<1> QED BY <1>1, <1>2, FS_Union

LEMMA WithIsFinite ==
  ASSUME NEW v, NEW w, IsFiniteSet(DOMAIN v), IsFiniteSet(DOMAIN w)
  PROVE  IsFiniteSet(DOMAIN With(v, w))
<1>1. DOMAIN With(v, w) = DOMAIN v \cup DOMAIN w
  BY DEF With
<1> QED BY <1>1, FS_Union

LEMMA MvpFinishLineIsJudged ==
  ASSUME NEW f, NEW u
  PROVE  IsJudged(Summary(With(mvpFinishLineSetup(f), mvpFinishLineBooks(f, u))),
                  With(mvpFinishLineSetup(f), mvpFinishLineBooks(f, u)))
BY MvpFinishLineSetupFinite, MvpFinishLineBooksFinite, WithIsFinite, SummaryJudges

LEMMA ProfessionalActionPlanIsJudged ==
  ASSUME NEW f, NEW u
  PROVE  IsJudged(Summary(With(professionalActionPlanBooks(f, u), professionalActionPlanRest(f, u))),
                  With(professionalActionPlanBooks(f, u), professionalActionPlanRest(f, u)))
BY ProfessionalActionPlanBooksFinite, ProfessionalActionPlanRestFinite, WithIsFinite, SummaryJudges

----------------------------------------------------------------------------
(* Issues, and what a list makes of a summary.                             *)

LEMMA JudgedIs == \A s : Judged(s) = "critical" <=> s.critical > 0
BY DEF Judged, Judge

LEMMA CalculationCounts ==
  ASSUME NEW p, NEW f
  PROVE  /\ Sizes(calculationIssues(p, f)).critical \in Nat
         /\ "unbalancedJournalGroups" \in f => Sizes(calculationIssues(p, f)).critical > 0
<1> DEFINE Names == {"unbalancedJournalGroups", "balanceReportDifference", "invoiceTotalMismatchIssues",
                     "negativeInvoiceIssues", "expenseTotalMismatchIssues", "negativeExpenseIssues",
                     "payrollNegativeIssues", "payrollNegativeIssues"}
           issues == calculationIssues(p, f).critical
<1>1. issues \subseteq Names \cup SignAccounts
  BY DEF calculationIssues, Issues, accountSignControlRows, signSeverity
<1>2. "unbalancedJournalGroups" \in f => "unbalancedJournalGroups" \in issues
  BY DEF calculationIssues, Issues
<1>3. IsFiniteSet(Names) /\ IsFiniteSet(SignAccounts)
  <2>1. SignAccounts = {"1510", "1580", "1930", "2611"} \cup {"2641", "2710", "2731", "2731"}
    BY DEF SignAccounts
  <2>2. IsFiniteSet(SignAccounts)
    BY <2>1, FourAreFinite, FS_Union
  <2> QED BY <2>2, EightAreFinite
<1> HIDE DEF Names, issues
<1>4. IsFiniteSet(issues)
  BY <1>1, <1>3, FS_Union, FS_Subset
<1>5. Sizes(calculationIssues(p, f)).critical = Cardinality(issues)
  BY DEF Sizes, issues
<1>6. Cardinality(issues) \in Nat /\ (Cardinality(issues) = 0 <=> issues = {})
  BY <1>4, FS_CardinalityType, FS_EmptySet
<1> QED BY <1>2, <1>5, <1>6

LEMMA DataQualityCounts ==
  ASSUME NEW f
  PROVE  /\ Sizes(dataQualityIssues(f)).critical \in Nat
         /\ "unbalancedJournalGroups" \in f => Sizes(dataQualityIssues(f)).critical > 0
<1> DEFINE issues == dataQualityIssues(f).critical
<1>1. issues \subseteq {"duplicateSupplierInvoiceReferences", "duplicateInvoicePaymentRows",
                        "duplicateSupplierPaymentRows", "unbalancedJournalGroups"}
  BY DEF dataQualityIssues, Issues, duplicates
<1>2. "unbalancedJournalGroups" \in f => "unbalancedJournalGroups" \in issues
  BY DEF dataQualityIssues, Issues
<1> HIDE DEF issues
<1>4. IsFiniteSet(issues)
  BY <1>1, FourAreFinite, FS_Subset
<1>5. Sizes(dataQualityIssues(f)).critical = Cardinality(issues)
  BY DEF Sizes, issues
<1>6. Cardinality(issues) \in Nat /\ (Cardinality(issues) = 0 <=> issues = {})
  BY <1>4, FS_CardinalityType, FS_EmptySet
<1> QED BY <1>2, <1>5, <1>6

\* A critical row is counted.
LEMMA CriticalRow ==
  ASSUME NEW s, NEW rows, IsJudged(s, rows), NEW k \in DOMAIN rows, rows[k] = "critical"
  PROVE  s.critical > 0
BY DEF IsJudged

----------------------------------------------------------------------------
(* Unbalanced books, centre by centre.                                     *)

LEMMA UnbalancedLists ==
  ASSUME NEW p, NEW f, NEW u, "unbalancedJournalGroups" \in f
  PROVE  /\ Summary(complianceRows(f, u)).critical > 0
         /\ Summary(goLiveRows(f, u)).critical > 0
         /\ Summary(firstRealDataGateRows(f, u)).critical > 0
         /\ Summary(useTodayGateRows(f, u)).critical > 0
         /\ Summary(paymentReconciliationRows(p, f)).critical > 0
         /\ Summary(annualRoutineRows(p, f, u)).critical > 0
         /\ Summary(reconciliationRows(p, f, u)).critical > 0
         /\ Summary(periodControlRows(f, u)).critical > 0
         /\ Summary(archiveCenterRows(f, u)).critical > 0
         /\ Summary(closingCenterRows(f, u)).critical > 0
         /\ Summary(riskCenterRows(p, f, u)).critical > 0
         /\ Summary(internalControlRows(f, u)).critical > 0
         /\ Summary(accountingQualityRows(f, u)).critical > 0
<1>1. bookkeepingStatus(f) = "critical"
  BY DEF bookkeepingStatus, Judge
<1>2. ~booksAreClean(f, u)
  BY DEF booksAreClean
<1>3. \A c : Judge(TRUE, c) = "critical"
  BY DEF Judge
<1>4. "vouchers" \in DOMAIN complianceRows(f, u) /\ complianceRows(f, u).vouchers = "critical"
  BY <1>1 DEF complianceRows
<1>5. "bookkeeping" \in DOMAIN goLiveRows(f, u) /\ goLiveRows(f, u).bookkeeping = "critical"
  BY <1>1 DEF goLiveRows
<1>6. "numberSeries" \in DOMAIN firstRealDataGateRows(f, u) /\ firstRealDataGateRows(f, u).numberSeries = "critical"
  BY <1>2 DEF firstRealDataGateRows, CriticalIf
<1>7. "vouchers" \in DOMAIN useTodayGateRows(f, u) /\ useTodayGateRows(f, u).vouchers = "critical"
  BY DEF useTodayGateRows, CriticalIf
<1>8. "balancedVouchers" \in DOMAIN paymentReconciliationRows(p, f) /\ paymentReconciliationRows(p, f).balancedVouchers = "critical"
  BY <1>1 DEF paymentReconciliationRows
<1>9. "bookkeeping" \in DOMAIN annualRoutineRows(p, f, u) /\ annualRoutineRows(p, f, u).bookkeeping = "critical"
  BY DEF annualRoutineRows, Judge
<1>10. "vouchers" \in DOMAIN reconciliationRows(p, f, u) /\ reconciliationRows(p, f, u).vouchers = "critical"
  BY <1>2 DEF reconciliationRows, Judge
<1>11. "blockingErrors" \in DOMAIN periodControlRows(f, u) /\ periodControlRows(f, u).blockingErrors = "critical"
  BY <1>2 DEF periodControlRows, Judge
<1>12. "vouchers" \in DOMAIN archiveCenterRows(f, u) /\ archiveCenterRows(f, u).vouchers = "critical"
  BY <1>1 DEF archiveCenterRows
<1>13. "bookkeepingBalance" \in DOMAIN closingCenterRows(f, u) /\ closingCenterRows(f, u).bookkeepingBalance = "critical"
  BY <1>2 DEF closingCenterRows, Judge
<1>14. "bookkeeping" \in DOMAIN riskCenterRows(p, f, u) /\ riskCenterRows(p, f, u).bookkeeping = "critical"
  BY <1>1 DEF riskCenterRows
<1>15. "voucherChain" \in DOMAIN internalControlRows(f, u) /\ internalControlRows(f, u).voucherChain = "critical"
  BY DEF internalControlRows, voucherChainRows, Judge
<1>16. "vouchers" \in DOMAIN accountingQualityRows(f, u) /\ accountingQualityRows(f, u).vouchers = "critical"
  BY <1>1 DEF accountingQualityRows
<1>17. /\ Summary(complianceRows(f, u)).critical > 0
       /\ Summary(goLiveRows(f, u)).critical > 0
       /\ Summary(firstRealDataGateRows(f, u)).critical > 0
       /\ Summary(useTodayGateRows(f, u)).critical > 0
  BY <1>4, <1>5, <1>6, <1>7, CriticalRow, ComplianceIsJudged, GoLiveIsJudged, FirstRealDataGateIsJudged, UseTodayGateIsJudged
<1>18. /\ Summary(paymentReconciliationRows(p, f)).critical > 0
       /\ Summary(annualRoutineRows(p, f, u)).critical > 0
       /\ Summary(reconciliationRows(p, f, u)).critical > 0
       /\ Summary(periodControlRows(f, u)).critical > 0
  BY <1>8, <1>9, <1>10, <1>11, CriticalRow, PaymentReconciliationIsJudged, AnnualRoutineIsJudged, ReconciliationIsJudged,
     PeriodControlIsJudged
<1>19. /\ Summary(archiveCenterRows(f, u)).critical > 0
       /\ Summary(closingCenterRows(f, u)).critical > 0
       /\ Summary(riskCenterRows(p, f, u)).critical > 0
       /\ Summary(internalControlRows(f, u)).critical > 0
       /\ Summary(accountingQualityRows(f, u)).critical > 0
  BY <1>12, <1>13, <1>14, <1>15, <1>16, CriticalRow, ArchiveCenterIsJudged, ClosingCenterIsJudged, RiskCenterIsJudged,
     InternalControlIsJudged, AccountingQualityIsJudged
<1> QED BY <1>17, <1>18, <1>19

LEMMA UnbalancedChains ==
  ASSUME NEW p, NEW f, NEW u, "unbalancedJournalGroups" \in f
  PROVE  /\ Summary(With(mvpFinishLineSetup(f), mvpFinishLineBooks(f, u))).critical > 0
         /\ Summary(With(professionalActionPlanBooks(f, u), professionalActionPlanRest(f, u))).critical > 0
         /\ u.annualRoutine.critical > 0 => Summary(declarationCenterRows(p, f, u)).critical > 0
         /\ u.archive.critical > 0 => Summary(migrationCenterRows(f, u)).critical > 0
<1>1. bookkeepingStatus(f) = "critical"
  BY DEF bookkeepingStatus, Judge
<1>2. PICK line : line = With(mvpFinishLineSetup(f), mvpFinishLineBooks(f, u))
  OBVIOUS
<1>3. "vouchers" \in DOMAIN line /\ line.vouchers = "critical"
  BY <1>1, <1>2 DEF With, mvpFinishLineBooks
<1>4. Summary(line).critical > 0
  BY <1>2, <1>3, CriticalRow, MvpFinishLineIsJudged
<1>5. PICK plan : plan = With(professionalActionPlanBooks(f, u), professionalActionPlanRest(f, u))
  OBVIOUS
<1>6. "voucherBalance" \in DOMAIN plan /\ plan.voucherBalance = "critical"
  BY <1>1, <1>5 DEF With, professionalActionPlanBooks, professionalActionPlanRest
<1>7. Summary(plan).critical > 0
  BY <1>5, <1>6, CriticalRow, ProfessionalActionPlanIsJudged
<1>8. ASSUME u.annualRoutine.critical > 0 PROVE Summary(declarationCenterRows(p, f, u)).critical > 0
  <2>1. /\ "annualClose" \in DOMAIN declarationCenterRows(p, f, u)
        /\ declarationCenterRows(p, f, u).annualClose = "critical"
    BY <1>8 DEF declarationCenterRows, Judge
  <2> QED BY <2>1, CriticalRow, DeclarationCenterIsJudged
<1>9. ASSUME u.archive.critical > 0 PROVE Summary(migrationCenterRows(f, u)).critical > 0
  <2>1. "archive" \in DOMAIN migrationCenterRows(f, u) /\ migrationCenterRows(f, u).archive = "critical"
    BY <1>9, JudgedIs DEF migrationCenterRows
  <2> QED BY <2>1, CriticalRow, MigrationCenterIsJudged
<1> QED BY <1>2, <1>4, <1>5, <1>7, <1>8, <1>9

LEMMA FiveReady ==
  ASSUME NEW f, NEW u, "unbalancedJournalGroups" \in f
  PROVE  Cardinality(abReadinessItems(f, u)) < 5
<1> DEFINE S == (({"reports"} \cup {"tax"}) \cup {"payroll"}) \cup {"archive"}
<1>1. abReadinessItems(f, u) \subseteq S
  BY DEF abReadinessItems, If
<1>2. IsFiniteSet({"reports"}) /\ Cardinality({"reports"}) = 1
  BY FS_Singleton
<1>3. IsFiniteSet({"reports"} \cup {"tax"}) /\ Cardinality({"reports"} \cup {"tax"}) = 2
  BY <1>2, FS_AddElement
<1>4. /\ IsFiniteSet(({"reports"} \cup {"tax"}) \cup {"payroll"})
      /\ Cardinality(({"reports"} \cup {"tax"}) \cup {"payroll"}) = 3
  BY <1>3, FS_AddElement
<1>5. IsFiniteSet(S) /\ Cardinality(S) = 4
  BY <1>4, FS_AddElement
<1> HIDE DEF S
<1>6. /\ IsFiniteSet(abReadinessItems(f, u))
      /\ Cardinality(abReadinessItems(f, u)) <= Cardinality(S)
  BY <1>1, <1>5, FS_Subset
<1>7. Cardinality(abReadinessItems(f, u)) \in Nat
  BY <1>6, FS_CardinalityType
<1> QED BY <1>5, <1>6, <1>7

LEMMA UnbalancedRender ==
  ASSUME NEW p, NEW f, NEW v, v = RenderPage(p, f), "unbalancedJournalGroups" \in f
  PROVE  /\ v.calculation.critical > 0 /\ v.dataQuality.critical > 0 /\ v.compliance.critical > 0
         /\ v.goLive.critical > 0 /\ v.firstRealData.critical > 0 /\ v.useToday.critical > 0
         /\ v.finishLine.critical > 0 /\ v.payments.critical > 0 /\ v.reconciliation.critical > 0
         /\ v.declaration.critical > 0 /\ v.archive.critical > 0 /\ v.periodControl.critical > 0
         /\ v.migration.critical > 0 /\ v.closing.critical > 0 /\ v.risk.critical > 0
         /\ v.internalControl.critical > 0 /\ v.quality.critical > 0 /\ v.actionPlan.critical > 0
         /\ v.annualRoutine.critical > 0
<1>1. v.calculation.critical > 0 /\ v.dataQuality.critical > 0
  BY PeriodIs, CalculationCounts, DataQualityCounts
<1>2. v.compliance.critical > 0 /\ v.goLive.critical > 0
  BY ComplianceIs, GoLiveIs, UnbalancedLists
<1>3. /\ v.firstRealData.critical > 0 /\ v.useToday.critical > 0 /\ v.payments.critical > 0
      /\ v.annualRoutine.critical > 0
  BY GatesAre, UnbalancedLists
<1>4. v.finishLine.critical > 0
  BY GatesAre, UnbalancedChains
<1>5. v.reconciliation.critical > 0
  <2>1. PICK u : u = GatedPage(p, f)
    OBVIOUS
  <2>2. v.reconciliation = Summary(reconciliationRows(p, f, u))
    BY <2>1, ReviewIs
  <2> QED BY <2>2, UnbalancedLists
<1>6. v.declaration.critical > 0
  BY <1>3, DeclarationIs, UnbalancedChains
<1>7. v.archive.critical > 0 /\ v.periodControl.critical > 0
  BY LockIs, UnbalancedLists
<1>8. v.migration.critical > 0
  BY <1>7, ClosingIs, UnbalancedChains
<1>9. v.closing.critical > 0
  BY ClosingIs, UnbalancedLists
<1>10. v.risk.critical > 0 /\ v.internalControl.critical > 0
  BY RiskIs, UnbalancedLists
<1>11. v.quality.critical > 0
  BY QualityIs, UnbalancedLists
<1>12. v.actionPlan.critical > 0
  BY PlanIs, UnbalancedChains
<1> QED BY <1>1, <1>2, <1>3, <1>4, <1>5, <1>6, <1>7, <1>8, <1>9, <1>10, <1>11, <1>12

LEMMA UnbalancedGates ==
  ASSUME NEW p, NEW f, NEW v, v = RenderPage(p, f), "unbalancedJournalGroups" \in f
  PROVE  ~v.canBeLocked /\ ~v.readyForReports /\ v.limitedCompanyReady < 5
<1>1. ~v.readyForReports /\ v.limitedCompanyReady < 5
  <2>1. PICK u : u = QualityPage(p, f)
    OBVIOUS
  <2>2. ~accountingQualityReadyForReports(f, u)
    BY DEF accountingQualityReadyForReports, booksAreClean
  <2>3. v.readyForReports = accountingQualityReadyForReports(f, u)
    BY <2>1, PlanIs
  <2>4. v.limitedCompanyReady < 5
    BY <2>1, PlanIs, FiveReady
  <2> QED BY <2>2, <2>3, <2>4
<1>2. v.blockers # {}
  <2>1. PICK u : u = ReviewedPage(p, f)
    OBVIOUS
  <2>2. "unbalanced-vouchers" \in v.lockBlockers
    BY PeriodIs DEF selectedPeriodLockBlockers, If
  <2>3. u.lockBlockers = v.lockBlockers /\ v.blockers = selectedPeriodProfessionalLockBlockers(f, u)
    BY <2>1, DeclarationIs
  <2>4. "unbalanced-vouchers" \in v.blockers
    BY <2>2, <2>3 DEF selectedPeriodProfessionalLockBlockers, selectedPeriodFinalLockBlockers
  <2> QED BY <2>4
<1>3. ~v.canBeLocked
  <2>1. PICK u : u = DeclaredPage(p, f)
    OBVIOUS
  <2>2. u.blockers = v.blockers /\ v.canBeLocked = selectedPeriodProfessionalCanBeLocked(f, u)
    BY <2>1, LockIs
  <2>3. ~selectedPeriodProfessionalCanBeLocked(f, u)
    BY <1>2, <2>2 DEF selectedPeriodProfessionalCanBeLocked
  <2> QED BY <2>2, <2>3
<1> QED BY <1>1, <1>3

----------------------------------------------------------------------------
(* The facts of a page that its lists do not state.                        *)

LEMMA StatusNames ==
  ASSUME NEW row, NEW report, NEW x, NEW y
  PROVE  /\ budgetStatus(row) \in {"ok", "risk", "watch"}
         /\ monthlyCloseBudgetStatus(report) \in {"ok", "risk", "watch"}
         /\ reserveStatus(x, y) \in {"ok", "danger", "warning"}
<1>1. \A r : budgetStatus(r) \in {"ok", "risk", "watch"}
  BY Zenon DEF budgetStatus
<1>2. monthlyCloseBudgetStatus(report) \in {"ok", "risk", "watch"}
  BY <1>1, Zenon DEF monthlyCloseBudgetStatus
<1>3. reserveStatus(x, y) \in {"ok", "danger", "warning"}
  BY Zenon DEF reserveStatus
<1> QED BY <1>1, <1>2, <1>3

\* Only a verified backup makes the fact of one, only the page that of a recovered render.
LEMMA StatedFacts ==
  ASSUME NEW p, NEW k \in {"backupOk", "renderRecoveryWasTriggered"}, k \in Facts(p)
  PROVE  k \in p.lists \/ (k = "backupOk" /\ p.backup.ok)
<1>1. \A c, n : k \in If(c, n) <=> c /\ k = n
  BY DEF If
<1>2. k \notin voucherFacts(p) /\ k \notin invoiceFacts(p) /\ k \notin expenseFacts(p)
  <2>1. k \notin voucherFacts(p)
    BY <1>1 DEF voucherFacts
  <2>2. k \notin {"invoices", "sentInvoices", "openInvoices", "overdueInvoices", "paidInvoices"}
    OBVIOUS
  <2>3. k \notin invoiceFacts(p)
    BY <1>1, <2>2, Zenon DEF invoiceFacts
  <2>4. k \notin expenseFacts(p)
    BY <1>1 DEF expenseFacts
  <2> QED BY <2>1, <2>3, <2>4
<1>3. k \notin mismatchFacts(p) /\ k \notin bankFacts(p) /\ k \notin yearFacts(p)
  BY <1>1 DEF mismatchFacts, bankFacts, yearFacts
<1>4. \A n : k \notin moneyFacts(p, n)
  <2> TAKE n
  <2> DEFINE status == reserveStatus(reservePlanAvailableCash(p), reservePlanTotal(p, n))
             reserve == [ok |-> {}, danger |-> {"reserveShort"}, warning |-> {"reserveTight"}][status]
  <2>1. status \in {"ok", "danger", "warning"}
    BY StatusNames
  <2> HIDE DEF status
  <2>2. k \notin reserve
    BY <2>1
  <2>3. k \notin {"negativeCash", "stripeReceivable", "vatToPay", "cashOut", "cashflowNegative", "shortRunway",
                  "ownerWithdrawalRoom", "ownerWithdrawsWithoutRoom", "ownerWithdrawsTooMuch"}
    OBVIOUS
  <2> HIDE DEF reserve
  <2> QED BY <1>1, <2>2, <2>3, Zenon DEF moneyFacts, reserve, status
<1>5. \A report : k \notin reportFacts(p, report)
  <2> TAKE report
  <2> DEFINE budget == budgetStatus(budgetSourceRow(p, report))
             month == monthlyCloseBudgetStatus(report)
  <2>1. budget \in {"ok", "risk", "watch"} /\ month \in {"ok", "risk", "watch"}
    BY StatusNames
  <2> HIDE DEF budget, month
  <2>2. /\ k \notin [ok |-> {}, risk |-> {"budgetRisk"}, watch |-> {"budgetWatch"}][budget]
        /\ k \notin [ok |-> {}, risk |-> {"monthlyCloseBudgetRisk"}, watch |-> {"monthlyCloseBudgetWatch"}][month]
    BY <2>1
  <2> QED BY <1>1, <1>4, <2>2 DEF reportFacts, budget, month
<1>6. k \in checkFacts(p) => k = "backupOk" /\ p.backup.ok
  BY <1>1 DEF checkFacts
<1> QED BY <1>2, <1>3, <1>5, <1>6 DEF Facts

LEMMA BooksAreStated ==
  ASSUME NEW p
  PROVE  /\ IsUnbalanced(p) => "unbalancedJournalGroups" \in Facts(p)
         /\ "expense" \in MissingReceipts(p) => "monthlyCloseMissingReceipts" \in Facts(p)
<1>1. IsUnbalanced(p) => "unbalancedJournalGroups" \in voucherFacts(p)
  BY DEF voucherFacts, If
<1>2. "expense" \in MissingReceipts(p) => "monthlyCloseMissingReceipts" \in expenseFacts(p)
  BY DEF expenseFacts, If
<1> QED BY <1>1, <1>2 DEF Facts

----------------------------------------------------------------------------
(* The gate before the period is locked.                                   *)

LEMMA WarnedPeriodStaysOpen ==
  ASSUME NEW p, NEW f, NEW v, v = RenderPage(p, f), v.canBeLocked
  PROVE  v.warnings = {}
<1>1. PICK u : u = DeclaredPage(p, f)
  OBVIOUS
<1>2. u.warnings = v.warnings /\ v.canBeLocked = selectedPeriodProfessionalCanBeLocked(f, u)
  BY <1>1, LockIs
<1>3. selectedPeriodProfessionalCanBeLocked(f, u)
  BY <1>2
<1> QED BY <1>2, <1>3 DEF selectedPeriodProfessionalCanBeLocked

LEMMA WarningsAre ==
  ASSUME NEW p, NEW f, NEW v, v = RenderPage(p, f)
  PROVE  v.lockWarnings \subseteq v.warnings /\ (v.review.pending > 0 => v.warnings # {})
<1>1. PICK u : u = ReviewedPage(p, f)
  OBVIOUS
<1>2. /\ u.lockWarnings = v.lockWarnings /\ u.review = v.review
      /\ v.warnings = selectedPeriodProfessionalLockWarnings(f, u)
  BY <1>1, DeclarationIs
<1>3. v.lockWarnings \subseteq v.warnings
  BY <1>2 DEF selectedPeriodProfessionalLockWarnings, selectedPeriodFinalLockWarnings
<1>4. v.review.pending > 0 => "voucher-review-pending" \in v.warnings
  BY <1>2 DEF selectedPeriodProfessionalLockWarnings, selectedPeriodFinalLockWarnings, If
<1> QED BY <1>3, <1>4

LEMMA MissingReceiptWarns ==
  ASSUME NEW p, NEW f, NEW v, v = RenderPage(p, f), "monthlyCloseMissingReceipts" \in f
  PROVE  v.lockWarnings # {}
<1>1. PICK c : c = ClosedPage(p, f)
  OBVIOUS
<1>2. PICK rows : rows = monthlyCloseChecklist(f)
  OBVIOUS
<1>3. "receipts" \in DOMAIN rows /\ rows.receipts = "warning"
  BY <1>2 DEF monthlyCloseChecklist, WarnIf
<1>4. IsFiniteSet(DOMAIN rows)
  BY <1>2, MonthlyCloseChecklistFinite
<1>5. Warnings(rows) > 0
  BY <1>3, <1>4, CountCounts DEF Warnings
<1>6. c.monthlyCloseWarnings = Warnings(rows) /\ v.lockWarnings = selectedPeriodLockWarnings(f, c)
  BY <1>1, <1>2, PeriodIs
<1>7. "monthly-close" \in v.lockWarnings
  BY <1>5, <1>6 DEF selectedPeriodLockWarnings, If
<1> QED BY <1>7

LEMMA VouchersAreFinite == IsFiniteSet(Vouchers)
<1>1. Vouchers = {"invoice", "payment", "stripePayment", "payout", "expense", "laterExpense", "payroll", "payrollTax"}
                 \cup {"vatSettlement", "vatPayment", "annualResult", "annualResult"}
  BY DEF Vouchers
<1> QED BY <1>1, FourAreFinite, EightAreFinite, FS_Union

LEMMA PendingVoucherWarns ==
  ASSUME NEW p, NEW f, NEW v, v = RenderPage(p, f), p.vouchers \subseteq Vouchers, p.vouchers \ p.approved # {}
  PROVE  v.review.pending > 0
<1>1. PICK S : S = p.vouchers \ p.approved
  OBVIOUS
<1>2. IsFiniteSet(S)
  BY <1>1, VouchersAreFinite, FS_Subset
<1>3. Cardinality(S) \in Nat /\ Cardinality(S) # 0
  BY <1>1, <1>2, FS_CardinalityType, FS_EmptySet
<1>4. PICK u : u = GatedPage(p, f)
  OBVIOUS
<1>5. v.review.pending = Cardinality(S)
  BY <1>1, <1>4, ReviewIs DEF voucherReviewRows
<1> QED BY <1>3, <1>5

LEMMA ReadyPeriod ==
  ASSUME NEW p, NEW v, v = Render(p), p.vouchers \subseteq Vouchers, v.canBeLocked
  PROVE  serverBlockers(p) \cap {"unbalanced", "receipts", "approvals"} = {}
<1>1. PICK f : f = Facts(p) /\ v = RenderPage(p, f)
  BY DEF Render
<1>2. ~IsUnbalanced(p)
  BY <1>1, BooksAreStated, UnbalancedGates
<1>3. v.warnings = {}
  BY <1>1, WarnedPeriodStaysOpen
<1>4. v.lockWarnings = {} /\ ~(v.review.pending > 0)
  BY <1>1, <1>3, WarningsAre
<1>5. "expense" \notin MissingReceipts(p)
  BY <1>1, <1>4, BooksAreStated, MissingReceiptWarns
<1>6. p.vouchers \subseteq p.approved
  BY <1>1, <1>4, PendingVoucherWarns
<1>7. DOMAIN createAccountSignControlReport(MonthLedger(p)) = SignAccounts
  BY DEF createAccountSignControlReport, accountSignRules
<1>8. PICK A : A = DOMAIN createAccountSignControlReport(MonthLedger(p)) 
  OBVIOUS
<1>9. \A a \in A : a \notin {"unbalanced", "receipts", "approvals"}
  BY <1>7, <1>8 DEF SignAccounts
<1> QED BY <1>2, <1>5, <1>6, <1>8, <1>9 DEF serverBlockers, If

----------------------------------------------------------------------------
(* The gates.                                                              *)

LEMMA NoCriticalRow ==
  ASSUME NEW s, NEW rows, IsJudged(s, rows), s.critical = 0
  PROVE  \A k \in DOMAIN rows : rows[k] # "critical"
BY DEF IsJudged

LEMMA NotPositive == \A s : s.critical \in Nat /\ ~(s.critical > 0) => s.critical = 0
OBVIOUS

LEMMA CountsAreNat ==
  ASSUME NEW p, NEW f, NEW v, v = RenderPage(p, f)
  PROVE  /\ v.calculation.critical \in Nat /\ v.goLive.critical \in Nat /\ v.payments.critical \in Nat
         /\ v.reconciliation.critical \in Nat /\ v.declaration.critical \in Nat
         /\ v.archive.critical \in Nat /\ v.periodControl.critical \in Nat
         /\ v.closing.critical \in Nat /\ v.internalControl.critical \in Nat
<1>1. v.calculation.critical \in Nat
  BY PeriodIs, CalculationCounts
<1>2. v.goLive.critical \in Nat
  BY GoLiveIs, GoLiveIsJudged DEF IsJudged
<1>3. v.payments.critical \in Nat
  BY GatesAre, PaymentReconciliationIsJudged DEF IsJudged
<1>4. v.reconciliation.critical \in Nat
  BY ReviewIs, ReconciliationIsJudged DEF IsJudged
<1>5. v.declaration.critical \in Nat
  BY DeclarationIs, DeclarationCenterIsJudged DEF IsJudged
<1>6. v.archive.critical \in Nat /\ v.periodControl.critical \in Nat
  BY LockIs, ArchiveCenterIsJudged, PeriodControlIsJudged DEF IsJudged
<1>7. v.closing.critical \in Nat
  BY ClosingIs, ClosingCenterIsJudged DEF IsJudged
<1>8. v.internalControl.critical \in Nat
  BY RiskIs, InternalControlIsJudged DEF IsJudged
<1> QED BY <1>1, <1>2, <1>3, <1>4, <1>5, <1>6, <1>7, <1>8

\* The gate to real data, row by row.
LEMMA RealDataRows ==
  ASSUME NEW f, NEW u, Summary(firstRealDataGateRows(f, u)).critical = 0
  PROVE  /\ ~(u.goLive.critical > 0) /\ ~(u.calculation.critical > 0)
         /\ "backupOk" \in f /\ "wholeKronaOnly" \notin f /\ "unbalancedJournalGroups" \notin f
         /\ mvpManualChecklistRows(f) # "critical"
<1>1. PICK rows : rows = firstRealDataGateRows(f, u)
  OBVIOUS
<1>2. \A k \in DOMAIN rows : rows[k] # "critical"
  BY <1>1, FirstRealDataGateIsJudged, NoCriticalRow
<1>3. {"moneyPrecision", "localRelease", "manualProof", "backupRestore", "numberSeries"} \subseteq DOMAIN rows
  BY <1>1 DEF firstRealDataGateRows
<1>4. /\ rows.localRelease = CriticalIf(u.goLive.critical > 0 \/ u.calculation.critical > 0)
      /\ rows.backupRestore = CriticalIf(~archived(f, u))
      /\ rows.moneyPrecision = CriticalIf("wholeKronaOnly" \in f)
      /\ rows.numberSeries = CriticalIf(~booksAreClean(f, u))
      /\ rows.manualProof = mvpManualChecklistRows(f)
  BY <1>1 DEF firstRealDataGateRows
<1>5. ~(u.goLive.critical > 0) /\ ~(u.calculation.critical > 0)
  BY <1>2, <1>3, <1>4 DEF CriticalIf
<1>6. "backupOk" \in f
  BY <1>2, <1>3, <1>4 DEF CriticalIf, archived
<1>7. "wholeKronaOnly" \notin f
  BY <1>2, <1>3, <1>4 DEF CriticalIf
<1>8. "unbalancedJournalGroups" \notin f
  BY <1>2, <1>3, <1>4 DEF CriticalIf, booksAreClean
<1>9. mvpManualChecklistRows(f) # "critical"
  BY <1>2, <1>3, <1>4
<1> QED BY <1>5, <1>6, <1>7, <1>8, <1>9

LEMMA LiveSystem ==
  ASSUME NEW f, NEW u, Summary(goLiveRows(f, u)).critical = 0
  PROVE  systemStatus(f) # "critical"
<1>1. \A k \in DOMAIN goLiveRows(f, u) : goLiveRows(f, u)[k] # "critical"
  BY GoLiveIsJudged, NoCriticalRow
<1>2. "system" \in DOMAIN goLiveRows(f, u) /\ goLiveRows(f, u).system = systemStatus(f)
  BY DEF goLiveRows
<1> QED BY <1>1, <1>2

LEMMA TodayRows ==
  ASSUME NEW f, NEW u, Summary(useTodayGateRows(f, u)).critical > 0, systemStatus(f) # "critical",
         ~(u.calculation.critical > 0), "wholeKronaOnly" \notin f, "unbalancedJournalGroups" \notin f,
         mvpManualChecklistRows(f) # "critical"
  PROVE  "renderRecoveryWasTriggered" \in f
<1>1. PICK rows : rows = useTodayGateRows(f, u)
  OBVIOUS
<1>2. PICK k \in DOMAIN rows : rows[k] = "critical"
  BY <1>1, UseTodayGateIsJudged DEF IsJudged
<1>3. \A c, x : OkOr(c, x) \in {"ok", x} /\ WarnIf(c) \in {"ok", "warning"}
  BY DEF OkOr, WarnIf
<1>4. /\ rows.localSystem = systemStatus(f)
      /\ rows.moneySupport = CriticalIf("wholeKronaOnly" \in f)
      /\ rows.calculations = CriticalIf(u.calculation.critical > 0)
      /\ rows.vouchers = CriticalIf("unbalancedJournalGroups" \in f)
      /\ rows.manualProof = mvpManualChecklistRows(f)
  BY <1>1 DEF useTodayGateRows
<1>5. /\ rows.localSystem # "critical" /\ rows.moneySupport # "critical" /\ rows.calculations # "critical"
      /\ rows.vouchers # "critical" /\ rows.manualProof # "critical"
  BY <1>4 DEF CriticalIf
<1>6. rows.coreFlow # "critical" /\ rows.paymentRoutine # "critical" /\ rows.productionBoundary # "critical"
  BY <1>1 DEF useTodayGateRows, OkOr
<1>7. rows.backup # "critical" /\ rows.security # "critical"
  BY <1>1 DEF useTodayGateRows, WarnIf
<1>8. DOMAIN rows = {"localSystem", "moneySupport", "render", "calculations", "vouchers", "coreFlow", "manualProof",
                     "backup", "paymentRoutine", "security", "productionBoundary"}
  BY <1>1 DEF useTodayGateRows
<1>9. k = "render"
  BY <1>2, <1>5, <1>6, <1>7, <1>8
<1>10. rows.render = CriticalIf("renderRecoveryWasTriggered" \in f)
  BY <1>1 DEF useTodayGateRows
<1> QED BY <1>2, <1>9, <1>10 DEF CriticalIf

LEMMA RealDataGate ==
  ASSUME NEW p, NEW f, NEW v, v = RenderPage(p, f), v.firstRealData.critical = 0
  PROVE  /\ v.goLive.critical = 0 /\ v.calculation.critical = 0 /\ "backupOk" \in f
         /\ v.useToday.critical > 0 => "renderRecoveryWasTriggered" \in f
<1>1. PICK u, w : u = FlowPage(p, f) /\ w = CompliantPage(p, f)
  OBVIOUS
<1>2. /\ v.firstRealData = Summary(firstRealDataGateRows(f, u)) /\ v.useToday = Summary(useTodayGateRows(f, u))
      /\ u.goLive = v.goLive /\ u.calculation = v.calculation
  BY <1>1, GatesAre
<1>3. Summary(firstRealDataGateRows(f, u)).critical = 0
  BY <1>2
<1>4. /\ ~(v.goLive.critical > 0) /\ ~(v.calculation.critical > 0)
      /\ "backupOk" \in f /\ "wholeKronaOnly" \notin f /\ "unbalancedJournalGroups" \notin f
      /\ mvpManualChecklistRows(f) # "critical"
  BY <1>2, <1>3, RealDataRows
<1>5. v.goLive.critical = 0 /\ v.calculation.critical = 0
  BY <1>4, CountsAreNat
<1>6. v.goLive = Summary(goLiveRows(f, w))
  BY <1>1, GoLiveIs
<1>7. systemStatus(f) # "critical"
  BY <1>5, <1>6, LiveSystem
<1>8. v.useToday.critical > 0 => "renderRecoveryWasTriggered" \in f
  BY <1>2, <1>4, <1>7, TodayRows
<1> QED BY <1>4, <1>5, <1>8

\* The gate to the reports, centre by centre.
LEMMA QualityRows ==
  ASSUME NEW f, NEW u, Summary(accountingQualityRows(f, u)).critical = 0
  PROVE  /\ ~(u.calculation.critical > 0) /\ ~(u.payments.critical > 0) /\ ~(u.reconciliation.critical > 0)
         /\ ~(u.internalControl.critical > 0) /\ ~(u.closing.critical > 0)
<1>1. PICK rows : rows = accountingQualityRows(f, u)
  OBVIOUS
<1>2. \A k \in DOMAIN rows : rows[k] # "critical"
  BY <1>1, AccountingQualityIsJudged, NoCriticalRow
<1>3. {"calculations", "payments", "reconciliation", "internalControl", "closing"} \subseteq DOMAIN rows
  BY <1>1 DEF accountingQualityRows
<1>4. /\ rows.calculations = Judged(u.calculation) /\ rows.payments = Judged(u.payments)
      /\ rows.reconciliation = Judged(u.reconciliation) /\ rows.internalControl = Judged(u.internalControl)
      /\ rows.closing = Judged(u.closing)
  BY <1>1 DEF accountingQualityRows
<1> QED BY <1>2, <1>3, <1>4, JudgedIs

LEMMA ClosingRows ==
  ASSUME NEW f, NEW u, Summary(closingCenterRows(f, u)).critical = 0
  PROVE  ~(u.archive.critical > 0) /\ ~(u.periodControl.critical > 0)
<1>1. \A k \in DOMAIN closingCenterRows(f, u) : closingCenterRows(f, u)[k] # "critical"
  BY ClosingCenterIsJudged, NoCriticalRow
<1>2. /\ {"archive", "periodLock"} \subseteq DOMAIN closingCenterRows(f, u)
      /\ closingCenterRows(f, u).archive = Judged(u.archive)
      /\ closingCenterRows(f, u).periodLock = Judge(u.periodControl.critical > 0, "accountingLocked" \notin f)
  BY DEF closingCenterRows
<1>3. u.periodControl.critical > 0 => closingCenterRows(f, u).periodLock = "critical"
  BY <1>2 DEF Judge
<1> QED BY <1>1, <1>2, <1>3, JudgedIs

LEMMA ArchiveRows ==
  ASSUME NEW f, NEW u, Summary(archiveCenterRows(f, u)).critical = 0
  PROVE  ~(u.declaration.critical > 0)
<1>1. \A k \in DOMAIN archiveCenterRows(f, u) : archiveCenterRows(f, u)[k] # "critical"
  BY ArchiveCenterIsJudged, NoCriticalRow
<1>2. "declaration" \in DOMAIN archiveCenterRows(f, u) /\ archiveCenterRows(f, u).declaration = Judged(u.declaration)
  BY DEF archiveCenterRows
<1> QED BY <1>1, <1>2, JudgedIs

LEMMA ReportsGate ==
  ASSUME NEW p, NEW f, NEW v, v = RenderPage(p, f), v.readyForReports
  PROVE  /\ v.calculation.critical = 0 /\ v.reconciliation.critical = 0 /\ v.closing.critical = 0
         /\ v.archive.critical = 0 /\ v.periodControl.critical = 0 /\ v.internalControl.critical = 0
         /\ v.declaration.critical = 0 /\ v.payments.critical = 0
<1>1. v.quality.critical = 0
  <2>1. PICK u : u = QualityPage(p, f)
    OBVIOUS
  <2>2. v.readyForReports = accountingQualityReadyForReports(f, u) /\ u.quality = v.quality
    BY <2>1, PlanIs
  <2>3. accountingQualityReadyForReports(f, u)
    BY <2>2
  <2> QED BY <2>2, <2>3 DEF accountingQualityReadyForReports
<1>2. /\ ~(v.calculation.critical > 0) /\ ~(v.payments.critical > 0) /\ ~(v.reconciliation.critical > 0)
      /\ ~(v.internalControl.critical > 0) /\ ~(v.closing.critical > 0)
  <2>1. PICK u : u = RiskPage(p, f)
    OBVIOUS
  <2>2. /\ v.quality = Summary(accountingQualityRows(f, u)) /\ u.calculation = v.calculation
        /\ u.payments = v.payments /\ u.reconciliation = v.reconciliation
        /\ u.internalControl = v.internalControl /\ u.closing = v.closing
    BY <2>1, QualityIs
  <2> QED BY <1>1, <2>2, QualityRows
<1>3. /\ v.calculation.critical = 0 /\ v.payments.critical = 0 /\ v.reconciliation.critical = 0
      /\ v.internalControl.critical = 0 /\ v.closing.critical = 0
  BY <1>2, CountsAreNat
<1>4. v.archive.critical = 0 /\ v.periodControl.critical = 0
  <2>1. PICK u : u = LockedPage(p, f)
    OBVIOUS
  <2>2. v.closing = Summary(closingCenterRows(f, u)) /\ u.archive = v.archive /\ u.periodControl = v.periodControl
    BY <2>1, ClosingIs
  <2>3. ~(v.archive.critical > 0) /\ ~(v.periodControl.critical > 0)
    BY <1>3, <2>2, ClosingRows
  <2> QED BY <2>3, CountsAreNat
<1>5. v.declaration.critical = 0
  <2>1. PICK u : u = DeclaredPage(p, f)
    OBVIOUS
  <2>2. v.archive = Summary(archiveCenterRows(f, u)) /\ u.declaration = v.declaration
    BY <2>1, LockIs
  <2>3. ~(v.declaration.critical > 0)
    BY <1>4, <2>2, ArchiveRows
  <2> QED BY <2>3, CountsAreNat
<1> QED BY <1>3, <1>4, <1>5

----------------------------------------------------------------------------
(* The invariants of the verdicts.                                         *)

\* When the client lets the user lock the period, the server finds no missing
\* receipt, no voucher without a decision and no unbalanced voucher in it
\* (selectedPeriodProfessionalCanBeLocked against AccountingPeriodLockService).
THEOREM ReadinessReadyPeriodIsComplete == ReadinessSpec => []ReadyPeriodIsComplete
<1>1. ReadinessIInv => ReadyPeriodIsComplete
  <2> SUFFICES ASSUME ReadinessIInv, verdicts.canBeLocked
               PROVE  serverBlockers(d) \cap {"unbalanced", "receipts", "approvals"} = {}
    BY DEF ReadyPeriodIsComplete
  <2>1. d.vouchers \subseteq Vouchers /\ verdicts = Render(d)
    BY ReadinessAssumption DEF ReadinessIInv, ReadinessTypeOK
  <2> QED BY <2>1, ReadyPeriod
<1> QED BY <1>1, ReadinessInductive, PTL

\* Unbalanced vouchers are critical in every centre that judges the books, and
\* close every gate, whatever else the page holds (the lists of main.jsx that
\* ask for unbalancedJournalGroups, or for a list that does).
THEOREM ReadinessUnbalancedBooksAreNowhereCalm == ReadinessSpec => []UnbalancedBooksAreNowhereCalm
<1>1. ReadinessIInv => UnbalancedBooksAreNowhereCalm
  <2> SUFFICES ASSUME ReadinessIInv, IsUnbalanced(d)
               PROVE  UnbalancedBooksAreNowhereCalm
    BY DEF UnbalancedBooksAreNowhereCalm
  <2>1. verdicts = RenderPage(d, Facts(d)) /\ "unbalancedJournalGroups" \in Facts(d)
    BY BooksAreStated DEF ReadinessIInv, Render
  <2>2. PICK v : v = verdicts
    OBVIOUS
  <2>3. ~v.canBeLocked /\ ~v.readyForReports /\ v.limitedCompanyReady < 5
    BY <2>1, <2>2, UnbalancedGates
  <2>4. \A centre \in {"calculation", "dataQuality", "compliance", "goLive", "firstRealData",
                         "useToday", "finishLine", "payments", "reconciliation",
                         "declaration", "archive", "periodControl", "migration", "closing", "risk",
                         "internalControl", "quality", "actionPlan", "annualRoutine"} :
           v[centre].critical > 0
    BY <2>1, <2>2, UnbalancedRender
  <2> QED BY <2>2, <2>3, <2>4, Zenon DEF UnbalancedBooksAreNowhereCalm
<1> QED BY <1>1, ReadinessInductive, PTL

\* The gates agree: no gate is open while a stricter list of the same render is
\* critical, and the gate to real data opens only on a backup that was verified,
\* with its stamp, its SHA-256 and its audit proof (firstRealDataGateRows,
\* useTodayGateRows, accountingQualityReadyForReports).
THEOREM ReadinessGatesAgree == ReadinessSpec => []GatesAgree
<1>1. ReadinessIInv => GatesAgree
  <2> SUFFICES ASSUME ReadinessIInv PROVE GatesAgree
    OBVIOUS
  <2>1. PICK f : f = Facts(d) /\ verdicts = RenderPage(d, f)
    BY DEF ReadinessIInv, Render
  <2>2. PICK v : v = verdicts
    OBVIOUS
  <2>3. ASSUME "backupOk" \in f PROVE d.backup.ok /\ d.backup.stamp /\ d.backup.sha /\ d.backup.audit
    <3>1. "backupOk" \notin d.lists
      BY ReadinessAssumption DEF ReadinessIInv, ReadinessTypeOK, DerivedFacts
    <3>2. d.backup.ok
      BY <2>1, <2>3, <3>1, StatedFacts
    <3> QED BY <3>2 DEF ReadinessIInv
  <2>4. "renderRecoveryWasTriggered" \in f => "renderRecoveryWasTriggered" \in d.lists
    BY <2>1, StatedFacts
  <2>5. ASSUME v.firstRealData.critical = 0
        PROVE  /\ v.goLive.critical = 0 /\ v.calculation.critical = 0
               /\ d.backup.ok /\ d.backup.stamp /\ d.backup.sha /\ d.backup.audit
               /\ v.useToday.critical > 0 => "renderRecoveryWasTriggered" \in d.lists
    BY <2>1, <2>2, <2>3, <2>4, <2>5, RealDataGate
  <2>6. ASSUME v.readyForReports
        PROVE  /\ \A centre \in {"calculation", "reconciliation", "closing", "archive",
                                   "periodControl", "internalControl", "declaration", "payments"} :
                      v[centre].critical = 0
               /\ serverBlockers(d) \cap {"unbalanced"} = {}
    <3>1. \A centre \in {"calculation", "reconciliation", "closing", "archive",
                          "periodControl", "internalControl", "declaration", "payments"} :
             v[centre].critical = 0
      BY <2>1, <2>2, <2>6, ReportsGate
    <3>2. ~IsUnbalanced(d)
      BY <2>1, <2>2, <2>6, UnbalancedGates, BooksAreStated
    <3>3. "unbalanced" \notin DOMAIN createAccountSignControlReport(MonthLedger(d))
      BY DEF createAccountSignControlReport, accountSignRules, SignAccounts
    <3>4. "unbalanced" \notin serverBlockers(d)
      BY <3>2, <3>3 DEF serverBlockers, If
    <3> QED BY <3>1, <3>4
  <2> QED BY <2>2, <2>5, <2>6, Zenon DEF GatesAgree
<1> QED BY <1>1, ReadinessInductive, PTL

----------------------------------------------------------------------------
(* Readiness: the facts of a page after a repair.                          *)

\* What a repair leaves alone, and what it only adds to.
Repaired(p, q) ==
  /\ q.vouchers = p.vouchers /\ q.ledger = p.ledger /\ q.lists = p.lists
  /\ q.locked = p.locked /\ q.check = p.check
  /\ p.receipts \subseteq q.receipts /\ p.approved \subseteq q.approved
  /\ p.backup.made => q.backup.made
  /\ p.backup.ok => q.backup.ok
  /\ q.statement = p.statement \/ q.statement = {q.ledger["1930"]}

SameBooks(p, q) == q.vouchers = p.vouchers /\ q.ledger = p.ledger /\ q.lists = p.lists

LEMMA SameLines ==
  ASSUME NEW p, NEW q, SameBooks(p, q)
  PROVE  /\ \A v : Lines(q, v) = Lines(p, v)
         /\ vatPeriodToPay(q) = vatPeriodToPay(p)
         /\ annualCloseResult(q) = annualCloseResult(p)
<1>1. OutputVat(q) = OutputVat(p) /\ InputVat(q) = InputVat(p)
  BY DEF OutputVat, InputVat, SameBooks
<1>2. vatPeriodToPay(q) = vatPeriodToPay(p)
  BY <1>1 DEF vatPeriodToPay
<1>3. annualCloseResult(q) = annualCloseResult(p)
  BY DEF annualCloseResult, Revenue, SameBooks
<1>4. /\ createVatSettlementEntry(q) = createVatSettlementEntry(p)
      /\ createVatFilingPaymentEntry(q) = createVatFilingPaymentEntry(p)
      /\ createAnnualResultVoucher(q) = createAnnualResultVoucher(p)
  BY <1>1, <1>2, <1>3, Zenon DEF createVatSettlementEntry, createVatFilingPaymentEntry, createAnnualResultVoucher
<1>5. \A v : Lines(q, v) = Lines(p, v)
  BY <1>4, Zenon DEF Lines
<1> QED BY <1>2, <1>3, <1>5

\* Sums over the rows of a list, as one sum of the list.
OutstandingOf(rows) == Total(rows, invoiceRemainingAmount)
NetOf(rows) == Total(rows, LAMBDA i : i.net)
PaidOutOf(lines) == MapThenSumSet(LAMBDA l : Max({-l[2], 0}), lines)

LEMMA SumsOfLists ==
  ASSUME NEW p
  PROVE  /\ totalOutstanding(p) = OutstandingOf(invoices(p))
         /\ revenueNet(p) = NetOf(invoices(p))
         /\ \A v : PaidOut(p, v) = PaidOutOf({l \in Lines(p, v) : l[1] = "1930"})
<1>1. totalOutstanding(p) = OutstandingOf(invoices(p))
  BY Zenon DEF totalOutstanding, OutstandingOf
<1>2. revenueNet(p) = NetOf(invoices(p))
  BY Zenon DEF revenueNet, NetOf
<1>3. \A v : PaidOut(p, v) = PaidOutOf({l \in Lines(p, v) : l[1] = "1930"})
  BY Zenon DEF PaidOut, PaidOutOf
<1> QED BY <1>1, <1>2, <1>3

LEMMA SameReport ==
  ASSUME NEW p, NEW q, SameBooks(p, q)
  PROVE  monthlyReport(q) = monthlyReport(p)
<1>1. \A m : InMonth(q, m) = InMonth(p, m)
  BY DEF InMonth, SameBooks
<1>2. \A m, accounts : Turnover(q, m, accounts) = Turnover(p, m, accounts)
  <2> TAKE m, accounts
  <2> DEFINE P == [v \in InMonth(p, m) |-> Amount(Lines(p, v), accounts)]
             Q == [v \in InMonth(q, m) |-> Amount(Lines(q, v), accounts)]
  <2>1. \A v : Amount(Lines(q, v), accounts) = Amount(Lines(p, v), accounts)
    BY SameLines
  <2>2. P = Q
    BY <1>1, <2>1
  <2>3. Turnover(p, m, accounts) = SumFunction(P) /\ Turnover(q, m, accounts) = SumFunction(Q)
    BY Zenon DEF Turnover
  <2> HIDE DEF P, Q
  <2> QED BY <2>2, <2>3
<1>3. \A v : PaidOut(q, v) = PaidOut(p, v)
  <2> TAKE v
  <2>1. PICK lines : lines = {l \in Lines(p, v) : l[1] = "1930"}
    OBVIOUS
  <2>2. lines = {l \in Lines(q, v) : l[1] = "1930"}
    BY <2>1, SameLines
  <2> QED BY <2>1, <2>2, SumsOfLists
<1>4. \A m : monthlyReportRow(q, m) = monthlyReportRow(p, m)
  <2> TAKE m
  <2> DEFINE P == [v \in InMonth(p, m) |-> PaidOut(p, v)]
             Q == [v \in InMonth(q, m) |-> PaidOut(q, v)]
  <2>1. P = Q
    BY <1>1, <1>3
  <2> HIDE DEF P, Q
  <2> QED BY <1>2, <2>1, Zenon DEF monthlyReportRow, P, Q
<1> QED BY <1>1, <1>4, Zenon DEF monthlyReport

LEMMA SameInvoices ==
  ASSUME NEW p, NEW q, SameBooks(p, q)
  PROVE  /\ invoices(q) = invoices(p)
         /\ IsOpen(q) <=> IsOpen(p)
         /\ totalOutstanding(q) = totalOutstanding(p)
         /\ profitNet(q) = profitNet(p)
<1>1. Paid(q) <=> Paid(p)
  BY DEF Paid, SameBooks
<1>2. \A status, paid : Stored(q, status, paid) = Stored(p, status, paid)
  BY DEF Stored, SameBooks
<1>3. invoices(q) = invoices(p)
  BY <1>1, <1>2, Zenon DEF invoices, SameBooks
<1>4. IsOpen(q) <=> IsOpen(p)
  BY <1>3, Zenon DEF IsOpen
<1>5. totalOutstanding(q) = totalOutstanding(p) /\ revenueNet(q) = revenueNet(p)
  BY <1>3, SumsOfLists
<1>6. expenseNet(q) = expenseNet(p)
  BY Zenon DEF expenseNet, SameBooks
<1> QED BY <1>3, <1>4, <1>5, <1>6, Zenon DEF profitNet

LEMMA SameInvoiceFacts ==
  ASSUME NEW p, NEW q, SameBooks(p, q)
  PROVE  invoiceFacts(q) = invoiceFacts(p) /\ mismatchFacts(q) = mismatchFacts(p)
<1>1. \A i : invoiceIsOverdue(q, i) <=> invoiceIsOverdue(p, i)
  BY Zenon DEF invoiceIsOverdue, SameBooks
<1>2. invoiceFacts(q) = invoiceFacts(p)
  <2>1. (\E i \in invoices(q) : invoiceIsOverdue(q, i)) <=> (\E i \in invoices(p) : invoiceIsOverdue(p, i))
    BY <1>1, SameInvoices, Zenon
  <2> QED BY <2>1, SameInvoices DEF invoiceFacts, If
<1>3. customerLedgerRow(q).outstandingTotal = customerLedgerRow(p).outstandingTotal
  <2>1. \A r : customerLedgerRow(r).outstandingTotal = totalOutstanding(r)
    BY DEF customerLedgerRow, totalOutstanding, Total
  <2> QED BY <2>1, SameInvoices
<1>4. /\ invoiceTotalMismatchIssues(q) = invoiceTotalMismatchIssues(p)
      /\ invoiceVatMismatchIssues(q) = invoiceVatMismatchIssues(p)
      /\ overpaidInvoiceIssues(q) = overpaidInvoiceIssues(p)
  BY SameInvoices, Zenon DEF invoiceTotalMismatchIssues, invoiceVatMismatchIssues, overpaidInvoiceIssues
<1>5. mismatchFacts(q) = mismatchFacts(p)
  BY <1>3, <1>4, SameInvoices, Zenon DEF mismatchFacts
<1> QED BY <1>2, <1>5

LEMMA SameBankFacts ==
  ASSUME NEW p, NEW q, SameBooks(p, q)
  PROVE  bankFacts(q) = bankFacts(p)
<1>1. \A row : bankImportWorkflow(q, row) = bankImportWorkflow(p, row)
  BY SameInvoices, Zenon DEF bankImportWorkflow, SameBooks
<1>2. bankImportRows(q) = bankImportRows(p)
  BY Zenon DEF bankImportRows, SameBooks
<1>3. \A keys : bankImportRowsThat(q, keys) = bankImportRowsThat(p, keys)
  BY <1>1, <1>2 DEF bankImportRowsThat
<1> QED BY <1>2, <1>3, Zenon DEF bankFacts

LEMMA SameReportFacts ==
  ASSUME NEW p, NEW q, SameBooks(p, q), NEW report
  PROVE  reportFacts(q, report) = reportFacts(p, report)
<1>1. PICK cashOut : cashOut = averageMonthlyCashOut(report)
  OBVIOUS
<1>2. /\ cashOpeningBalance(q) = cashOpeningBalance(p)
      /\ stripeReceivableBalance(q) = stripeReceivableBalance(p)
      /\ cashflowVatOutTotal(q) = cashflowVatOutTotal(p)
      /\ \A list, amount : Owed(q, list, amount) = Owed(p, list, amount)
  BY SameLines, Zenon DEF cashOpeningBalance, stripeReceivableBalance, cashflowVatOutTotal, Owed, SameBooks
<1>3. cashflowExpectedIn(q) = cashflowExpectedIn(p)
  BY <1>2, SameInvoices, Zenon DEF cashflowExpectedIn
<1>4. cashflowProjectedBalance(q, cashOut) = cashflowProjectedBalance(p, cashOut)
  BY <1>2, <1>3, Zenon DEF cashflowProjectedBalance
<1>5. cashflowRunway(q, cashOut) = cashflowRunway(p, cashOut)
  BY <1>4, Zenon DEF cashflowRunway
<1>6. /\ ownerWithdrawalTotal(q) = ownerWithdrawalTotal(p) /\ ownerDepositTotal(q) = ownerDepositTotal(p)
      /\ ownerSafeWithdrawalEstimate(q, cashOut) = ownerSafeWithdrawalEstimate(p, cashOut)
  BY <1>2, Zenon DEF ownerWithdrawalTotal, ownerDepositTotal, ownerSafeWithdrawalEstimate
<1>7. reservePlanIncomeTaxReserve(q) = reservePlanIncomeTaxReserve(p)
  <2>1. annualCloseResult(q) = annualCloseResult(p) /\ profitNet(q) = profitNet(p)
    BY SameLines, SameInvoices
  <2> QED BY <2>1 DEF reservePlanIncomeTaxReserve
<1>8. /\ reservePlanTotal(q, cashOut) = reservePlanTotal(p, cashOut)
      /\ reservePlanAvailableCash(q) = reservePlanAvailableCash(p)
  BY <1>2, <1>3, <1>7, Zenon DEF reservePlanTotal, reservePlanAvailableCash
<1>9. moneyFacts(q, cashOut) = moneyFacts(p, cashOut)
  BY <1>2, <1>4, <1>5, <1>6, <1>8, SameLines, SameInvoices, Zenon DEF moneyFacts
<1>10. budgetSourceRow(q, report) = budgetSourceRow(p, report)
  <2>1. revenueNet(q) = revenueNet(p) /\ expenseNet(q) = expenseNet(p)
    BY SameInvoices, SumsOfLists DEF expenseNet, SameBooks
  <2> QED BY <2>1, SameInvoices, Zenon DEF budgetSourceRow
<1> QED BY <1>1, <1>9, <1>10, Zenon DEF reportFacts

LEMMA SameYearFacts ==
  ASSUME NEW p, NEW q, SameBooks(p, q)
  PROVE  yearFacts(q) = yearFacts(p) /\ voucherFacts(q) = voucherFacts(p)
<1>1. companyFormUsedAccounts(q) = companyFormUsedAccounts(p)
  <2>1. \A v : {l[1] : l \in Lines(q, v)} = {l[1] : l \in Lines(p, v)}
    BY SameLines
  <2>2. PICK A : A = [v \in p.vouchers |-> {l[1] : l \in Lines(p, v)}]
    OBVIOUS
  <2>3. {{l[1] : l \in Lines(q, v)} : v \in q.vouchers} = {{l[1] : l \in Lines(p, v)} : v \in p.vouchers}
    BY <2>1 DEF SameBooks
  <2> QED BY <2>3, Zenon DEF companyFormUsedAccounts
<1>2. companyFormWrongAccounts(q) = companyFormWrongAccounts(p) /\ (companyFormTaxReady(q) <=> companyFormTaxReady(p))
  BY <1>1, Zenon DEF companyFormWrongAccounts, companyFormTaxReady, SameBooks
<1>3. fixedAssetBookValue(q, Asset) = fixedAssetBookValue(p, Asset)
  BY Zenon DEF fixedAssetBookValue, fixedAssetElapsedMonths, SameBooks
<1>4. yearFacts(q) = yearFacts(p)
  <2>1. /\ q.lists = p.lists /\ annualCloseResult(q) = annualCloseResult(p)
        /\ (companyFormTaxReady(q) <=> companyFormTaxReady(p))
    BY <1>2, SameLines DEF SameBooks
  <2> QED BY <1>2, <1>3, <2>1 DEF yearFacts, If
<1>5. \A m : InMonth(q, m) = InMonth(p, m)
  BY DEF InMonth, SameBooks
<1>6. IsUnbalanced(q) <=> IsUnbalanced(p)
  BY DEF IsUnbalanced, SameBooks
<1>7. voucherFacts(q) = voucherFacts(p)
  BY <1>5, <1>6 DEF voucherFacts, SameBooks, If
<1> QED BY <1>4, <1>7

MissingFacts == {"expensesMissingReceipt", "monthlyCloseMissingReceipts"}
NewFacts == {"expensesWithReceipt", "backupValidation", "backupHasPersonalData", "backupOk"}

Better(f, g) ==
  /\ \A k : k \notin MissingFacts \cup NewFacts => (k \in g <=> k \in f)
  /\ \A k \in MissingFacts : k \in g => k \in f
  /\ \A k \in NewFacts : k \in f => k \in g

LEMMA RepairedFacts ==
  ASSUME NEW p, NEW q, Repaired(p, q)
  PROVE  Better(Facts(p), Facts(q))
<1>1. SameBooks(p, q)
  BY DEF Repaired, SameBooks
<1>2. /\ voucherFacts(q) = voucherFacts(p) /\ invoiceFacts(q) = invoiceFacts(p)
      /\ mismatchFacts(q) = mismatchFacts(p) /\ bankFacts(q) = bankFacts(p)
      /\ reportFacts(q, monthlyReport(q)) = reportFacts(p, monthlyReport(p))
      /\ yearFacts(q) = yearFacts(p) /\ q.lists = p.lists
  BY <1>1, SameYearFacts, SameInvoiceFacts, SameBankFacts, SameReport, SameReportFacts DEF SameBooks
<1>3. MissingReceipts(q) \subseteq MissingReceipts(p)
  BY DEF MissingReceipts, Repaired
<1>4. \A c, n, k : k \in If(c, n) <=> c /\ k = n
  BY DEF If
<1>5. \A k : /\ k \notin MissingFacts \cup NewFacts => (k \in expenseFacts(q) <=> k \in expenseFacts(p))
             /\ k \in MissingFacts => (k \in expenseFacts(q) => k \in expenseFacts(p))
             /\ k \in NewFacts => (k \in expenseFacts(p) => k \in expenseFacts(q))
  <2>1. Expenses \cap q.vouchers = Expenses \cap p.vouchers /\ Expenses \cap p.receipts \subseteq Expenses \cap q.receipts
    BY DEF Repaired
  <2>2. \A r, k : k \in expenseFacts(r) <=>
            \/ k = "expenses" /\ Expenses \cap r.vouchers # {}
            \/ k = "expensesWithReceipt" /\ Expenses \cap r.receipts # {}
            \/ k = "expensesMissingReceipt" /\ MissingReceipts(r) # {}
            \/ k = "monthlyCloseMissingReceipts" /\ "expense" \in MissingReceipts(r)
    BY <1>4 DEF expenseFacts
  <2> QED BY <1>3, <2>1, <2>2 DEF MissingFacts, NewFacts
<1>6. \A k : /\ k \notin MissingFacts \cup NewFacts => (k \in checkFacts(q) <=> k \in checkFacts(p))
             /\ k \in MissingFacts => (k \in checkFacts(q) => k \in checkFacts(p))
             /\ k \in NewFacts => (k \in checkFacts(p) => k \in checkFacts(q))
  BY <1>4 DEF checkFacts, Repaired, MissingFacts, NewFacts
<1>7. PICK A : \A k : /\ k \in Facts(p) <=> k \in A \/ k \in expenseFacts(p) \/ k \in checkFacts(p)
                      /\ k \in Facts(q) <=> k \in A \/ k \in expenseFacts(q) \/ k \in checkFacts(q)
  <2> DEFINE B(r) == r.lists \cup voucherFacts(r) \cup invoiceFacts(r) \cup mismatchFacts(r)
                      \cup bankFacts(r) \cup reportFacts(r, monthlyReport(r)) \cup yearFacts(r)
  <2>1. B(q) = B(p)
    BY <1>2, Zenon
  <2>2. \A r, k : k \in Facts(r) <=> k \in B(r) \/ k \in expenseFacts(r) \/ k \in checkFacts(r)
    BY DEF Facts
  <2> HIDE DEF B
  <2> QED BY <2>1, <2>2
<1> HIDE DEF Better
<1>8. \A k : /\ k \notin MissingFacts \cup NewFacts => (k \in Facts(q) <=> k \in Facts(p))
             /\ k \in MissingFacts => (k \in Facts(q) => k \in Facts(p))
             /\ k \in NewFacts => (k \in Facts(p) => k \in Facts(q))
  <2> TAKE k
  <2> QED BY <1>5, <1>6, <1>7
<1> QED BY <1>8, Zenon DEF Better

\* A row of a list is critical only where it was critical before.
FewerCritical(rows, after) ==
  DOMAIN after = DOMAIN rows /\ \A k \in DOMAIN after : after[k] = "critical" => rows[k] = "critical"

LEMMA FewerAreCounted ==
  ASSUME NEW rows, NEW after, IsFiniteSet(DOMAIN rows), FewerCritical(rows, after)
  PROVE  /\ Summary(after).critical <= Summary(rows).critical
         /\ Summary(after).critical > 0 => Summary(rows).critical > 0
<1> DEFINE R == {k \in DOMAIN rows : rows[k] = "critical"}
           S == {k \in DOMAIN after : after[k] = "critical"}
<1>1. S \subseteq R /\ R \subseteq DOMAIN rows
  BY DEF FewerCritical
<1>2. IsFiniteSet(R)
  BY <1>1, FS_Subset
<1>3. Summary(rows).critical = Cardinality(R) /\ Summary(after).critical = Cardinality(S)
  BY Zenon DEF Summary, Count
<1> HIDE DEF R, S
<1>4. IsFiniteSet(S) /\ Cardinality(S) <= Cardinality(R)
  BY <1>1, <1>2, FS_Subset
<1>5. Cardinality(S) \in Nat /\ Cardinality(R) \in Nat
  BY <1>2, <1>4, FS_CardinalityType
<1> QED BY <1>3, <1>4, <1>5

\* What a list asks of the facts that no repair touches.
LEMMA SameStatuses ==
  ASSUME NEW f, NEW g, Better(f, g)
  PROVE  /\ bookkeepingStatus(g) = bookkeepingStatus(f)
         /\ systemStatus(g) = systemStatus(f)
         /\ mvpManualChecklistRows(g) = mvpManualChecklistRows(f)
         /\ liquidity(g) = "critical" => liquidity(f) = "critical"
         /\ lateBookkeepingStatus(g) = lateBookkeepingStatus(f)
         /\ backendPeriodCloseStatus(g) = "critical" => backendPeriodCloseStatus(f) = "critical"
         /\ correctionCenterRows(g) = "critical" => correctionCenterRows(f) = "critical"
         /\ auditIntegrityStatus(g) = "critical" => auditIntegrityStatus(f) = "critical"
         /\ voucherChainRows(g).critical = voucherChainRows(f).critical
         /\ reservePlanStatus(g) = reservePlanStatus(f)
         /\ \A u, w : w.calculation = u.calculation => (booksAreClean(g, w) <=> booksAreClean(f, u))
<1>1. \A k : k \notin MissingFacts \cup NewFacts => (k \in g <=> k \in f)
  BY DEF Better
<1>2. \A k \in {"unbalancedJournalGroups", "journalEntries", "systemOk", "systemKnown", "manualCheckFailed",
                "manualChecksDone", "cashflowNegative", "shortRunway", "reserveShort", "reserveTight",
                "backendPeriodCloseCheck", "lateBookedVouchers", "backendCloseBlocked", "backendCloseWarned",
                "brokenCorrection", "unbalancedCorrection", "corrections", "auditEvents", "auditProof",
                "voucherWithoutNumber", "negativeVoucherRow", "voucherWithoutDate", "singleRowVoucher"} :
        k \in g <=> k \in f
  BY <1>1 DEF MissingFacts, NewFacts
<1>3. bookkeepingStatus(g) = bookkeepingStatus(f)
  BY <1>2 DEF bookkeepingStatus
<1>4. systemStatus(g) = systemStatus(f)
  BY <1>2 DEF systemStatus
<1>5. mvpManualChecklistRows(g) = mvpManualChecklistRows(f)
  BY <1>2 DEF mvpManualChecklistRows, OkOr
<1>6. reservePlanStatus(g) = reservePlanStatus(f)
  BY <1>2 DEF reservePlanStatus, WarnIf
<1>7. liquidity(g) = "critical" => liquidity(f) = "critical"
  BY <1>2, <1>6 DEF liquidity, Judge
<1>8. lateBookkeepingStatus(g) = lateBookkeepingStatus(f)
  BY <1>2 DEF lateBookkeepingStatus
<1>9. backendPeriodCloseStatus(g) = "critical" => backendPeriodCloseStatus(f) = "critical"
  BY <1>2 DEF backendPeriodCloseStatus, Judge
<1>10. correctionCenterRows(g) = "critical" => correctionCenterRows(f) = "critical"
  BY <1>2 DEF correctionCenterRows, InfoIf
<1>11. auditIntegrityStatus(g) = "critical" => auditIntegrityStatus(f) = "critical"
  BY <1>2 DEF auditIntegrityStatus, Judge
<1>12. voucherChainRows(g).critical = voucherChainRows(f).critical
  BY <1>2 DEF voucherChainRows
<1>13. \A u, w : w.calculation = u.calculation => (booksAreClean(g, w) <=> booksAreClean(f, u))
  BY <1>2 DEF booksAreClean
<1> QED BY <1>3, <1>4, <1>5, <1>6, <1>7, <1>8, <1>9, <1>10, <1>11, <1>12, <1>13, Zenon

----------------------------------------------------------------------------
(* Readiness: list by list, a repair makes no row critical.                *)

\* A verdict that is not critical is not made so.
Calmer(s, t) == t.critical > 0 => s.critical > 0

LEMMA CalmerIsJudged == \A s, t : Calmer(s, t) => (Judged(t) = "critical" => Judged(s) = "critical")
BY JudgedIs DEF Calmer

LEMMA ComplianceIsFewer ==
  ASSUME NEW f, NEW g, NEW u, NEW w, Better(f, g)
  PROVE  FewerCritical(complianceRows(f, u), complianceRows(g, w))
<1>1. bookkeepingStatus(g) = bookkeepingStatus(f)
  BY SameStatuses
<1> QED BY <1>1 DEF FewerCritical, complianceRows, Judge, CriticalIf, WarnIf, InfoIf, OkOr

LEMMA GoLiveIsFewer ==
  ASSUME NEW f, NEW g, NEW u, NEW w, Better(f, g), w.calculation = u.calculation, Calmer(u.compliance, w.compliance)
  PROVE  FewerCritical(goLiveRows(f, u), goLiveRows(g, w))
<1>1. /\ bookkeepingStatus(g) = bookkeepingStatus(f) /\ systemStatus(g) = systemStatus(f)
      /\ lateBookkeepingStatus(g) = lateBookkeepingStatus(f)
      /\ booksAreClean(g, w) <=> booksAreClean(f, u)
  BY SameStatuses
<1>2. \A k \in {"systemOk", "systemKnown"} : k \in g <=> k \in f
  BY DEF Better, MissingFacts, NewFacts
<1>3. complianceStatus(w) = "critical" => complianceStatus(u) = "critical"
  BY DEF complianceStatus, Calmer, Judge, CriticalIf, WarnIf, InfoIf, OkOr
<1>4. goLiveRows(g, w).pilot = "critical" => goLiveRows(f, u).pilot = "critical"
  <2>1. \A e, x : /\ goLiveRows(e, x).pilot = "critical"
                     <=> "systemKnown" \in e /\ ("systemOk" \notin e \/ ~booksAreClean(e, x))
    BY DEF goLiveRows, Judge, CriticalIf, WarnIf, InfoIf
  <2> QED BY <1>1, <1>2, <2>1
<1>5. PICK rows, after : rows = goLiveRows(f, u) /\ after = goLiveRows(g, w)
  OBVIOUS
<1>6. /\ DOMAIN after = DOMAIN rows
      /\ DOMAIN rows = {"system", "company", "salesBase", "invoicing", "bookkeeping", "timelyBookkeeping",
                        "calculations", "receipts", "payments", "paymentCompliance", "email", "security",
                        "backup", "pilot", "compliance", "handoff"}
  BY <1>5 DEF goLiveRows
<1>7. /\ after.system = rows.system /\ after.bookkeeping = rows.bookkeeping
      /\ after.calculations = rows.calculations
      /\ after.compliance = "critical" => rows.compliance = "critical"
      /\ after.pilot = "critical" => rows.pilot = "critical"
  BY <1>1, <1>3, <1>4, <1>5 DEF goLiveRows
<1>8. \A k \in {"company", "salesBase", "invoicing", "timelyBookkeeping", "receipts", "payments",
                "paymentCompliance", "email", "security", "backup", "handoff"} : after[k] # "critical"
  BY <1>5 DEF goLiveRows, Judge, CriticalIf, WarnIf, InfoIf
<1> QED BY <1>5, <1>6, <1>7, <1>8 DEF FewerCritical

LEMMA RealDataIsFewer ==
  ASSUME NEW f, NEW g, NEW u, NEW w, Better(f, g), w.calculation = u.calculation, Calmer(u.goLive, w.goLive),
         u.archivePackageWarnings = 0 => w.archivePackageWarnings = 0
  PROVE  FewerCritical(firstRealDataGateRows(f, u), firstRealDataGateRows(g, w))
<1>1. /\ mvpManualChecklistRows(g) = mvpManualChecklistRows(f)
      /\ booksAreClean(g, w) <=> booksAreClean(f, u)
  BY SameStatuses
<1>2. /\ \A k \in {"mfaDisabled", "wholeKronaOnly"} : k \in g <=> k \in f
      /\ "backupOk" \in f => "backupOk" \in g
  BY DEF Better, MissingFacts, NewFacts
<1>3. archived(f, u) => archived(g, w)
  BY <1>2 DEF archived
<1> QED BY <1>1, <1>2, <1>3 DEF FewerCritical, firstRealDataGateRows, Calmer, Judge, CriticalIf, WarnIf, InfoIf, OkOr

LEMMA UseTodayIsFewer ==
  ASSUME NEW f, NEW g, NEW u, NEW w, Better(f, g), w.calculation = u.calculation
  PROVE  FewerCritical(useTodayGateRows(f, u), useTodayGateRows(g, w))
<1>1. systemStatus(g) = systemStatus(f) /\ mvpManualChecklistRows(g) = mvpManualChecklistRows(f)
  BY SameStatuses
<1>2. \A k \in {"wholeKronaOnly", "renderRecoveryWasTriggered", "unbalancedJournalGroups"} : k \in g <=> k \in f
  BY DEF Better, MissingFacts, NewFacts
<1> QED BY <1>1, <1>2 DEF FewerCritical, useTodayGateRows, Judge, CriticalIf, WarnIf, InfoIf, OkOr

\* The true balance of the bank account differs from nothing.
LEMMA BankIsCalmer ==
  ASSUME NEW p, NEW q, Repaired(p, q), q.ledger["1930"] \in Int
  PROVE  bankDifference(q) => bankDifference(p)
BY DEF bankDifference, Repaired

LEMMA PaymentsAreFewer ==
  ASSUME NEW p, NEW q, NEW f, NEW g, Repaired(p, q), q.ledger["1930"] \in Int, Better(f, g)
  PROVE  FewerCritical(paymentReconciliationRows(p, f), paymentReconciliationRows(q, g))
<1>1. /\ bookkeepingStatus(g) = bookkeepingStatus(f) /\ q.ledger = p.ledger
      /\ bankStatus(q) = "critical" => bankStatus(p) = "critical"
  BY SameStatuses, BankIsCalmer DEF bankStatus, Repaired, Judge
<1>2. \A k \in {"overdueInvoices", "overpaidInvoiceIssues"} : k \in g <=> k \in f
  BY DEF Better, MissingFacts, NewFacts
<1> QED BY <1>1, <1>2 DEF FewerCritical, paymentReconciliationRows, Judge, CriticalIf, WarnIf, InfoIf, OkOr

LEMMA AnnualRoutineIsFewer ==
  ASSUME NEW p, NEW q, NEW f, NEW g, NEW u, NEW w, Better(f, g), w.calculation = u.calculation
  PROVE  FewerCritical(annualRoutineRows(p, f, u), annualRoutineRows(q, g, w))
<1>1. "unbalancedJournalGroups" \in g <=> "unbalancedJournalGroups" \in f
  BY DEF Better, MissingFacts, NewFacts
<1> QED BY <1>1 DEF FewerCritical, annualRoutineRows, Judge, CriticalIf, WarnIf, InfoIf, OkOr

LEMMA MonthlyRoutineIsFewer ==
  ASSUME NEW f, NEW g, NEW u, NEW w, Better(f, g), w.calculation = u.calculation, w.dataQuality.critical = u.dataQuality.critical
  PROVE  FewerCritical(monthlyRoutineRows(f, u), monthlyRoutineRows(g, w))
<1>1. "monthlyCloseUnbalancedGroups" \in g <=> "monthlyCloseUnbalancedGroups" \in f
  BY DEF Better, MissingFacts, NewFacts
<1> QED BY <1>1 DEF FewerCritical, monthlyRoutineRows, Judge, CriticalIf, WarnIf, InfoIf, OkOr

LEMMA ReconciliationIsFewer ==
  ASSUME NEW p, NEW q, NEW f, NEW g, NEW u, NEW w,
         Repaired(p, q), q.ledger["1930"] \in Int, Better(f, g), w.calculation = u.calculation
  PROVE  FewerCritical(reconciliationRows(p, f, u), reconciliationRows(q, g, w))
<1>1. /\ booksAreClean(g, w) <=> booksAreClean(f, u)
      /\ bankStatus(q) = "critical" => bankStatus(p) = "critical"
  BY SameStatuses, BankIsCalmer DEF bankStatus, Judge
<1>2. reportsBalance(g) <=> reportsBalance(f)
  BY DEF reportsBalance, Better, MissingFacts, NewFacts
<1>3. taxAccountStatus(g, w) # "critical"
  BY DEF taxAccountStatus, Judge
<1> QED BY <1>1, <1>2, <1>3 DEF FewerCritical, reconciliationRows, Judge, CriticalIf, WarnIf, InfoIf, OkOr

LEMMA DeclarationIsFewer ==
  ASSUME NEW p, NEW q, NEW f, NEW g, NEW u, NEW w, Better(f, g),
         Calmer(u.annualRoutine, w.annualRoutine), Calmer(u.reconciliation, w.reconciliation)
  PROVE  FewerCritical(declarationCenterRows(p, f, u), declarationCenterRows(q, g, w))
<1>1. "taxPlanOverdue" \in g <=> "taxPlanOverdue" \in f
  BY DEF Better, MissingFacts, NewFacts
<1>2. Judged(w.reconciliation) = "critical" => Judged(u.reconciliation) = "critical"
  BY CalmerIsJudged
<1> QED BY <1>1, <1>2 DEF FewerCritical, declarationCenterRows, Calmer, Judge, CriticalIf, WarnIf, InfoIf, OkOr

LEMMA PeriodControlIsFewer ==
  ASSUME NEW f, NEW g, NEW u, NEW w, Better(f, g), w.calculation = u.calculation, w.accountSign = u.accountSign,
         w.review.blocked = u.review.blocked,
         Calmer(u.monthlyRoutine, w.monthlyRoutine), Calmer(u.annualRoutine, w.annualRoutine)
  PROVE  FewerCritical(periodControlRows(f, u), periodControlRows(g, w))
<1>1. /\ backendPeriodCloseStatus(g) = "critical" => backendPeriodCloseStatus(f) = "critical"
      /\ booksAreClean(g, w) <=> booksAreClean(f, u)
      /\ voucherReviewStatus(w) = "critical" => voucherReviewStatus(u) = "critical"
  BY SameStatuses DEF voucherReviewStatus, Judge
<1>2. \A k \in {"accountingLocked", "yearLocked"} : k \in g <=> k \in f
  BY DEF Better, MissingFacts, NewFacts
<1>3. PICK rows, after : rows = periodControlRows(f, u) /\ after = periodControlRows(g, w)
  OBVIOUS
<1>4. /\ DOMAIN after = DOMAIN rows
      /\ DOMAIN rows = {"backendPeriodCheck", "blockingErrors", "accountSigns", "accountingPolicy", "voucherReviewLock",
                        "backup", "periodLock", "monthLock", "yearLock", "corrections", "lockedData", "archive"}
  BY <1>3 DEF periodControlRows
<1>5. /\ after.backendPeriodCheck = "critical" => rows.backendPeriodCheck = "critical"
      /\ after.blockingErrors = "critical" => rows.blockingErrors = "critical"
      /\ after.accountSigns = rows.accountSigns
      /\ after.voucherReviewLock = "critical" => rows.voucherReviewLock = "critical"
  BY <1>1, <1>3 DEF periodControlRows, Judge, InfoIf
<1>6. /\ after.monthLock = "critical" => rows.monthLock = "critical"
      /\ after.yearLock = "critical" => rows.yearLock = "critical"
  BY <1>2, <1>3 DEF periodControlRows, Calmer, Judge, CriticalIf, WarnIf, InfoIf, OkOr
<1>7. \A k \in {"accountingPolicy", "backup", "periodLock", "corrections", "lockedData", "archive"} :
        after[k] # "critical"
  BY <1>3 DEF periodControlRows, Judge, InfoIf
<1> QED BY <1>3, <1>4, <1>5, <1>6, <1>7 DEF FewerCritical

LEMMA ArchiveIsFewer ==
  ASSUME NEW f, NEW g, NEW u, NEW w, Better(f, g), Calmer(u.declaration, w.declaration)
  PROVE  FewerCritical(archiveCenterRows(f, u), archiveCenterRows(g, w))
<1>1. bookkeepingStatus(g) = bookkeepingStatus(f)
  BY SameStatuses
<1>2. "expensesMissingReceipt" \in g => "expensesMissingReceipt" \in f
  BY DEF Better, MissingFacts
<1>3. Judged(w.declaration) = "critical" => Judged(u.declaration) = "critical"
  BY CalmerIsJudged
<1> QED BY <1>1, <1>2, <1>3 DEF FewerCritical, archiveCenterRows, Judge, CriticalIf, WarnIf, InfoIf, OkOr

LEMMA MigrationIsFewer ==
  ASSUME NEW f, NEW g, NEW u, NEW w, Better(f, g), Calmer(u.archive, w.archive)
  PROVE  FewerCritical(migrationCenterRows(f, u), migrationCenterRows(g, w))
<1>1. \A k \in {"wholeKronaOnly", "sieUnbalanced"} : k \in g <=> k \in f
  BY DEF Better, MissingFacts, NewFacts
<1>2. Judged(w.archive) = "critical" => Judged(u.archive) = "critical"
  BY CalmerIsJudged
<1> QED BY <1>1, <1>2 DEF FewerCritical, migrationCenterRows, Judge, CriticalIf, WarnIf, InfoIf, OkOr

LEMMA ClosingIsFewer ==
  ASSUME NEW f, NEW g, NEW u, NEW w, Better(f, g), w.calculation = u.calculation, w.review.blocked = u.review.blocked,
         Calmer(u.reconciliation, w.reconciliation), Calmer(u.archive, w.archive), Calmer(u.periodControl, w.periodControl)
  PROVE  FewerCritical(closingCenterRows(f, u), closingCenterRows(g, w))
<1>1. /\ booksAreClean(g, w) <=> booksAreClean(f, u)
      /\ voucherReviewStatus(w) = "critical" => voucherReviewStatus(u) = "critical"
  BY SameStatuses DEF voucherReviewStatus, Judge
<1>2. "balanceReportDifference" \in g <=> "balanceReportDifference" \in f
  BY DEF Better, MissingFacts, NewFacts
<1>3. /\ Judged(w.archive) = "critical" => Judged(u.archive) = "critical"
      /\ Judged(w.reconciliation) = "critical" => Judged(u.reconciliation) = "critical"
  BY CalmerIsJudged
<1> QED BY <1>1, <1>2, <1>3 DEF FewerCritical, closingCenterRows, Calmer, Judge, CriticalIf, WarnIf, InfoIf, OkOr

LEMMA RiskIsFewer ==
  ASSUME NEW p, NEW q, NEW f, NEW g, NEW u, NEW w, Repaired(p, q), q.ledger["1930"] \in Int, Better(f, g),
         w.calculation = u.calculation, Calmer(u.dataQuality, w.dataQuality), Calmer(u.goLive, w.goLive),
         w.securityPrivacyScore < 70 => u.securityPrivacyScore < 70,
         w.archive.critical + w.migration.critical > 0 => u.archive.critical + u.migration.critical > 0
  PROVE  FewerCritical(riskCenterRows(p, f, u), riskCenterRows(q, g, w))
<1>1. /\ bookkeepingStatus(g) = bookkeepingStatus(f) /\ lateBookkeepingStatus(g) = lateBookkeepingStatus(f)
      /\ liquidity(g) = "critical" => liquidity(f) = "critical"
      /\ bankDifference(q) => bankDifference(p)
  BY SameStatuses, BankIsCalmer
<1>2. /\ Judged(w.goLive) = "critical" => Judged(u.goLive) = "critical"
      /\ issueStatus(w) = "critical" => issueStatus(u) = "critical"
  BY CalmerIsJudged DEF issueStatus
<1>3. PICK rows, after : rows = riskCenterRows(p, f, u) /\ after = riskCenterRows(q, g, w)
  OBVIOUS
<1>4. /\ DOMAIN after = DOMAIN rows
      /\ DOMAIN rows = {"calculations", "bookkeeping", "timelyBookkeeping", "receipts", "liquidity", "vatTax",
                        "bankPayments", "dataQuality", "security", "archiveMigration", "goLive"}
  BY <1>3 DEF riskCenterRows
<1>5. /\ after.calculations = rows.calculations /\ after.bookkeeping = rows.bookkeeping
      /\ after.timelyBookkeeping = rows.timelyBookkeeping
      /\ after.liquidity = "critical" => rows.liquidity = "critical"
      /\ after.dataQuality = "critical" => rows.dataQuality = "critical"
      /\ after.goLive = "critical" => rows.goLive = "critical"
  BY <1>1, <1>2, <1>3 DEF riskCenterRows
<1>6. /\ after.bankPayments = "critical" => rows.bankPayments = "critical"
      /\ after.security = "critical" => rows.security = "critical"
      /\ after.archiveMigration = "critical" => rows.archiveMigration = "critical"
      /\ after.receipts # "critical" /\ after.vatTax # "critical"
  BY <1>1, <1>3 DEF riskCenterRows, Judge
<1> QED BY <1>3, <1>4, <1>5, <1>6 DEF FewerCritical

LEMMA InternalControlIsFewer ==
  ASSUME NEW f, NEW g, NEW u, NEW w, Better(f, g), w.review.blocked = u.review.blocked,
         Calmer(u.dataQuality, w.dataQuality), Calmer(u.closing, w.closing)
  PROVE  FewerCritical(internalControlRows(f, u), internalControlRows(g, w))
<1>1. /\ auditIntegrityStatus(g) = "critical" => auditIntegrityStatus(f) = "critical"
      /\ correctionCenterRows(g) = "critical" => correctionCenterRows(f) = "critical"
      /\ voucherChainRows(g).critical = voucherChainRows(f).critical
  BY SameStatuses
<1>2. /\ issueStatus(w) = "critical" => issueStatus(u) = "critical"
      /\ Judged(w.closing) = "critical" => Judged(u.closing) = "critical"
  BY CalmerIsJudged DEF issueStatus
<1> QED BY <1>1, <1>2 DEF FewerCritical, internalControlRows, Judge, CriticalIf, WarnIf, InfoIf, OkOr

LEMMA TaxCenterIsFewer ==
  ASSUME NEW p, NEW q, NEW f, NEW g, NEW u, NEW w, Better(f, g)
  PROVE  FewerCritical(taxCenterRows(p, f, u), taxCenterRows(q, g, w))
<1>1. reservePlanStatus(g) = reservePlanStatus(f)
  BY SameStatuses
<1>2. "taxPlanOverdue" \in g <=> "taxPlanOverdue" \in f
  BY DEF Better, MissingFacts, NewFacts
<1>3. taxAccountStatus(g, w) # "critical"
  BY DEF taxAccountStatus, Judge
<1> QED BY <1>1, <1>2, <1>3 DEF FewerCritical, taxCenterRows, Judge, CriticalIf, WarnIf, InfoIf, OkOr

LEMMA QualityIsFewer ==
  ASSUME NEW f, NEW g, NEW u, NEW w, Better(f, g), w.calculation = u.calculation, w.accountSign = u.accountSign,
         Calmer(u.verification, w.verification), Calmer(u.payments, w.payments),
         Calmer(u.reconciliation, w.reconciliation), Calmer(u.taxCenter, w.taxCenter),
         Calmer(u.dataQuality, w.dataQuality), Calmer(u.compliance, w.compliance),
         Calmer(u.internalControl, w.internalControl), Calmer(u.closing, w.closing)
  PROVE  FewerCritical(accountingQualityRows(f, u), accountingQualityRows(g, w))
<1>1. bookkeepingStatus(g) = bookkeepingStatus(f) /\ lateBookkeepingStatus(g) = lateBookkeepingStatus(f)
  BY SameStatuses
<1>2. /\ evidenceStatus(w) = "critical" => evidenceStatus(u) = "critical"
      /\ issueStatus(w) = "critical" => issueStatus(u) = "critical"
  BY CalmerIsJudged DEF issueStatus, evidenceStatus
<1>3. PICK rows, after : rows = accountingQualityRows(f, u) /\ after = accountingQualityRows(g, w)
  OBVIOUS
<1>4. /\ DOMAIN after = DOMAIN rows
      /\ DOMAIN rows = {"calculations", "accountSigns", "vouchers", "timelyBookkeeping", "evidence", "payments",
                        "reconciliation", "vatTax", "dataQuality", "companyForm", "compliance",
                        "internalControl", "closing"}
  BY <1>3 DEF accountingQualityRows
<1>5. /\ after.calculations = rows.calculations /\ after.accountSigns = rows.accountSigns
      /\ after.vouchers = rows.vouchers /\ after.timelyBookkeeping = rows.timelyBookkeeping
      /\ after.evidence = "critical" => rows.evidence = "critical"
      /\ after.dataQuality = "critical" => rows.dataQuality = "critical"
      /\ after.companyForm # "critical"
  BY <1>1, <1>2, <1>3 DEF accountingQualityRows, Judge
<1>6. /\ after.payments = "critical" => rows.payments = "critical"
      /\ after.reconciliation = "critical" => rows.reconciliation = "critical"
      /\ after.vatTax = "critical" => rows.vatTax = "critical"
      /\ after.compliance = "critical" => rows.compliance = "critical"
      /\ after.internalControl = "critical" => rows.internalControl = "critical"
      /\ after.closing = "critical" => rows.closing = "critical"
  BY <1>3, CalmerIsJudged DEF accountingQualityRows
<1> QED BY <1>3, <1>4, <1>5, <1>6 DEF FewerCritical

----------------------------------------------------------------------------
(* Readiness: what the render knows when it reaches a list.                *)

\* What the render knows before the lists of the period.
LEMMA ClosedIs ==
  ASSUME NEW p, NEW f, NEW u, u = ClosedPage(p, f)
  PROVE  /\ {"accountSign", "archivePackageWarnings"} \subseteq DOMAIN u
         /\ u.calculation.critical = 0
         /\ u.accountSign = Summary(accountSignControlRows(p))
         /\ u.monthlyCloseWarnings = Warnings(monthlyCloseChecklist(f))
         /\ u.closeChecklistWarnings = Warnings(closeChecklistItems(f))
         /\ u.archivePackageWarnings = Warnings(archivePackageItems(f, u))
<1>1. PICK c : c = RenderClose(p, f)
  OBVIOUS
<1>2. /\ {"accountSign", "calculation", "monthlyCloseWarnings", "closeChecklistWarnings"} \subseteq DOMAIN c
      /\ c.calculation.critical = 0
      /\ c.accountSign = Summary(accountSignControlRows(p))
      /\ c.monthlyCloseWarnings = Warnings(monthlyCloseChecklist(f))
      /\ c.closeChecklistWarnings = Warnings(closeChecklistItems(f))
  BY <1>1 DEF RenderClose, With, Declared
<1>3. u = RenderArchive(f, c)
  BY <1>1 DEF ClosedPage
<1>4. /\ u.accountSign = c.accountSign /\ u.calculation = c.calculation
      /\ u.monthlyCloseWarnings = c.monthlyCloseWarnings
      /\ u.closeChecklistWarnings = c.closeChecklistWarnings
      /\ u.archivePackageWarnings = Warnings(archivePackageItems(f, c))
      /\ {"accountSign", "archivePackageWarnings"} \subseteq DOMAIN u
  BY <1>2, <1>3 DEF RenderArchive, With
<1>5. archivePackageItems(f, c) = archivePackageItems(f, u)
  BY <1>4, Zenon DEF archivePackageItems
<1> QED BY <1>2, <1>4, <1>5

LEMMA PeriodKeeps ==
  ASSUME NEW p, NEW f, NEW v, v = RenderPage(p, f), NEW c, c = ClosedPage(p, f), NEW u, u = PeriodPage(p, f)
  PROVE  /\ {"accountSign", "archivePackageWarnings"} \subseteq DOMAIN u
         /\ v.accountSign = c.accountSign
         /\ v.archivePackageWarnings = c.archivePackageWarnings
         /\ u.dataQuality = v.dataQuality
<1>1. u = RenderPeriod(p, f, c)
  BY DEF PeriodPage
<1>2. {"accountSign", "archivePackageWarnings"} \subseteq DOMAIN c
  BY ClosedIs
<1>3. /\ {"accountSign", "archivePackageWarnings"} \subseteq DOMAIN u
      /\ u.accountSign = c.accountSign
      /\ u.archivePackageWarnings = c.archivePackageWarnings
  BY <1>1, <1>2 DEF RenderPeriod, With
<1>4. Keeps(u, v, AfterPeriod) /\ "dataQuality" \in DOMAIN u
  BY StagesKeep, PeriodIs
<1>5. \A k \in {"accountSign", "archivePackageWarnings", "dataQuality"} : k \notin AfterPeriod
  BY DEF AfterPeriod, AfterSecurity, AfterCompliance, AfterLive, AfterFlow, AfterGates, AfterReview,
     AfterDeclaration, AfterLock, AfterClosing, AfterRisk, PlanNames
<1> QED BY <1>3, <1>4, <1>5 DEF Keeps

LEMMA SecurityIs ==
  ASSUME NEW p, NEW f, NEW v, v = RenderPage(p, f), NEW u, u = PeriodPage(p, f)
  PROVE  /\ "securityPrivacyScore" \in DOMAIN SecuredPage(p, f)
         /\ v.securityPrivacyScore = securityPrivacyScore(f, u)
<1>1. PICK w : w = SecuredPage(p, f)
  OBVIOUS
<1>2. "securityPrivacyScore" \in DOMAIN w /\ w.securityPrivacyScore = securityPrivacyScore(f, u)
  BY <1>1 DEF SecuredPage, RenderSecurity, With
<1>3. Keeps(w, v, AfterSecurity)
  BY <1>1, StagesKeep
<1>4. "securityPrivacyScore" \notin AfterSecurity
  BY DEF AfterSecurity, AfterCompliance, AfterLive, AfterFlow, AfterGates, AfterReview,
     AfterDeclaration, AfterLock, AfterClosing, AfterRisk, PlanNames
<1> QED BY <1>1, <1>2, <1>3, <1>4 DEF Keeps

LEMMA MonthlyRoutineIs ==
  ASSUME NEW p, NEW f, NEW v, v = RenderPage(p, f), NEW u, u = FlowPage(p, f)
  PROVE  /\ "monthlyRoutine" \in DOMAIN GatedPage(p, f)
         /\ v.monthlyRoutine = Summary(monthlyRoutineRows(f, u))
<1>1. PICK w : w = GatedPage(p, f)
  OBVIOUS
<1>2. "monthlyRoutine" \in DOMAIN w /\ w.monthlyRoutine = Summary(monthlyRoutineRows(f, u))
  BY <1>1 DEF GatedPage, RenderGates, With
<1>3. Keeps(w, v, AfterGates)
  BY <1>1, StagesKeep
<1>4. "monthlyRoutine" \notin AfterGates
  BY DEF AfterGates, AfterReview, AfterDeclaration, AfterLock, AfterClosing, AfterRisk, PlanNames
<1> QED BY <1>1, <1>2, <1>3, <1>4 DEF Keeps

LEMMA BlockedReviewIs ==
  ASSUME NEW p, NEW f, NEW v, v = RenderPage(p, f)
  PROVE  v.review.blocked = Cardinality(voucherReviewRows(p, f).critical)
<1>1. PICK u, w : u = GatedPage(p, f) /\ w = ReviewedPage(p, f)
  OBVIOUS
<1>2. "review" \in DOMAIN w /\ w.review.blocked = Cardinality(voucherReviewRows(p, f).critical)
  BY <1>1 DEF ReviewedPage, RenderReview, With
<1>3. Keeps(w, v, AfterReview)
  BY <1>1, StagesKeep
<1>4. "review" \notin AfterReview
  BY DEF AfterReview, AfterDeclaration, AfterLock, AfterClosing, AfterRisk, PlanNames
<1> QED BY <1>2, <1>3, <1>4 DEF Keeps

LEMMA VerificationIs ==
  ASSUME NEW p, NEW f, NEW v, v = RenderPage(p, f)
  PROVE  "verification" \in DOMAIN LockedPage(p, f) /\ v.verification = Sizes(verificationControlRows(p, f))
<1>1. PICK u, w : u = DeclaredPage(p, f) /\ w = LockedPage(p, f)
  OBVIOUS
<1>2. "verification" \in DOMAIN w /\ w.verification = Sizes(verificationControlRows(p, f))
  BY <1>1 DEF LockedPage, RenderLock, With
<1>3. Keeps(w, v, AfterLock)
  BY <1>1, StagesKeep
<1>4. "verification" \notin AfterLock
  BY DEF AfterLock, AfterClosing, AfterRisk, PlanNames
<1> QED BY <1>1, <1>2, <1>3, <1>4 DEF Keeps

LEMMA TaxCenterIs ==
  ASSUME NEW p, NEW f, NEW v, v = RenderPage(p, f), NEW u, u = LockedPage(p, f)
  PROVE  "taxCenter" \in DOMAIN ClosingPage(p, f) /\ v.taxCenter = Summary(taxCenterRows(p, f, u))
<1>1. PICK w : w = ClosingPage(p, f)
  OBVIOUS
<1>2. "taxCenter" \in DOMAIN w /\ w.taxCenter = Summary(taxCenterRows(p, f, u))
  BY <1>1 DEF ClosingPage, RenderClosing, With
<1>3. Keeps(w, v, AfterClosing)
  BY <1>1, StagesKeep
<1>4. "taxCenter" \notin AfterClosing
  BY DEF AfterClosing, AfterRisk, PlanNames
<1> QED BY <1>1, <1>2, <1>3, <1>4 DEF Keeps

\* What a later list reads is what the last render shows.
EarlyNames == {"calculation", "dataQuality", "accountSign", "archivePackageWarnings", "securityPrivacyScore",
               "compliance", "goLive"}
GateNames == EarlyNames \cup {"payments", "monthlyRoutine", "annualRoutine"}
ReviewNames == GateNames \cup {"review", "reconciliation", "lockWarnings", "lockBlockers"}
LockNames == ReviewNames \cup {"declaration", "verification", "archive", "periodControl"}
CloseNames == LockNames \cup {"migration", "closing", "taxCenter"}

AgreeOn(u, v, names) == \A k \in names : u[k] = v[k]

LEMMA PagesShow ==
  ASSUME NEW p, NEW f, NEW v, v = RenderPage(p, f)
  PROVE  /\ AgreeOn(FlowPage(p, f), v, EarlyNames)
         /\ AgreeOn(ReviewedPage(p, f), v, ReviewNames)
         /\ AgreeOn(DeclaredPage(p, f), v, ReviewNames \cup {"declaration"})
         /\ AgreeOn(LockedPage(p, f), v, LockNames)
         /\ AgreeOn(ClosingPage(p, f), v, CloseNames)
         /\ AgreeOn(RiskPage(p, f), v, CloseNames \cup {"internalControl"})
<1>1. EarlyNames \subseteq DOMAIN FlowPage(p, f)
  BY StagesGrow, PeriodIs, PeriodKeeps, SecurityIs, ComplianceIs, GoLiveIs DEF EarlyNames
<1>2. {"payments", "monthlyRoutine", "annualRoutine"} \subseteq DOMAIN GatedPage(p, f)
  BY GatesAre, MonthlyRoutineIs
<1>3. ReviewNames \subseteq DOMAIN ReviewedPage(p, f)
  BY <1>1, <1>2, StagesGrow, ReviewIs, PeriodIs DEF ReviewNames, GateNames
<1>4. ReviewNames \cup {"declaration"} \subseteq DOMAIN DeclaredPage(p, f)
  BY <1>3, StagesGrow, DeclarationIs
<1>5. LockNames \subseteq DOMAIN LockedPage(p, f)
  BY <1>4, StagesGrow, LockIs, VerificationIs DEF LockNames
<1>6. CloseNames \subseteq DOMAIN ClosingPage(p, f)
  BY <1>5, StagesGrow, ClosingIs, TaxCenterIs DEF CloseNames
<1>7. CloseNames \cup {"internalControl"} \subseteq DOMAIN RiskPage(p, f)
  BY <1>6, StagesGrow, RiskIs
<1>8. \A k \in EarlyNames : k \notin AfterFlow
  BY DEF EarlyNames, AfterFlow, AfterGates, AfterReview, AfterDeclaration, AfterLock, AfterClosing, AfterRisk, PlanNames
<1>9. \A k \in ReviewNames : k \notin AfterReview
  BY DEF EarlyNames, GateNames, ReviewNames, AfterReview, AfterDeclaration, AfterLock, AfterClosing, AfterRisk, PlanNames
<1>10. \A k \in LockNames : k \notin AfterLock
  BY DEF EarlyNames, GateNames, ReviewNames, LockNames, AfterLock, AfterClosing, AfterRisk, PlanNames
<1>11. \A k \in ReviewNames \cup {"declaration"} : k \notin AfterDeclaration
  BY DEF EarlyNames, GateNames, ReviewNames, AfterDeclaration, AfterLock, AfterClosing, AfterRisk, PlanNames
<1>12. \A k \in CloseNames : k \notin AfterClosing
  BY DEF EarlyNames, GateNames, ReviewNames, LockNames, CloseNames, AfterClosing, AfterRisk, PlanNames
<1>13. \A k \in CloseNames \cup {"internalControl"} : k \notin AfterRisk
  BY DEF EarlyNames, GateNames, ReviewNames, LockNames, CloseNames, AfterRisk, PlanNames
<1>14. \A u, names, later : Keeps(u, v, later) /\ names \subseteq DOMAIN u /\ (\A k \in names : k \notin later)
                            => AgreeOn(u, v, names)
  BY DEF Keeps, AgreeOn
<1>15. /\ Keeps(FlowPage(p, f), v, AfterFlow) /\ Keeps(ReviewedPage(p, f), v, AfterReview)
       /\ Keeps(DeclaredPage(p, f), v, AfterDeclaration) /\ Keeps(LockedPage(p, f), v, AfterLock)
       /\ Keeps(ClosingPage(p, f), v, AfterClosing) /\ Keeps(RiskPage(p, f), v, AfterRisk)
  BY StagesKeep
<1> QED BY <1>1, <1>3, <1>4, <1>5, <1>6, <1>7, <1>8, <1>9, <1>10, <1>11, <1>12, <1>13, <1>14, <1>15, Zenon

----------------------------------------------------------------------------
(* Readiness: the figures after a repair.                                  *)

LEMMA Quotients ==
  ASSUME NEW a \in Int, NEW b \in Int, NEW n \in Nat, n > 0, a <= b
  PROVE  a \div n <= b \div n
<1>1. a = n * (a \div n) + (a % n) /\ a % n \in 0..(n-1) /\ a \div n \in Int
  OBVIOUS
<1>2. b = n * (b \div n) + (b % n) /\ b % n \in 0..(n-1) /\ b \div n \in Int
  OBVIOUS
<1>3. PICK x \in Int, y \in Int, r \in Int, s \in Int : x = a \div n /\ y = b \div n /\ r = a % n /\ s = b % n
  BY <1>1, <1>2
<1>4. SUFFICES ASSUME x > y PROVE FALSE
  BY <1>3
<1>5. n * x >= n * (y + 1)
  BY <1>4
<1> QED BY <1>1, <1>2, <1>3, <1>5

\* A mean does not fall when one of the scores rises.
LEMMA MeanRises ==
  ASSUME NEW r, NEW s, NEW a, NEW x \in Nat, IsFiniteSet(DOMAIN r), DOMAIN r # {}, DOMAIN s = DOMAIN r,
         DiffersAt(a, x, r, s, DOMAIN r)
  PROVE  Mean(r) \in Int /\ Mean(s) \in Int /\ Mean(r) <= Mean(s)
<1>1. PICK n : n = Cardinality(DOMAIN r)
  OBVIOUS
<1>2. n \in Nat /\ n > 0
  BY <1>1, FS_CardinalityType, FS_EmptySet
<1>3. PICK k, m : k = SumFunctionOnSet(r, DOMAIN r) /\ m = SumFunctionOnSet(s, DOMAIN r)
  OBVIOUS
<1>4. m = k + (IF a \in DOMAIN r THEN x ELSE 0)
  BY <1>3, SumOfChange
<1>5. k \in Int
  BY <1>3, SumIsInt DEF DiffersAt
<1>6. Mean(r) = (2 * k + n) \div (2 * n) /\ Mean(s) = (2 * m + n) \div (2 * n)
  BY <1>1, <1>3 DEF Mean, SumFunction
<1>7. m \in Int /\ k <= m
  BY <1>4, <1>5
<1>8. /\ 2 * k + n \in Int /\ 2 * m + n \in Int /\ 2 * n \in Nat /\ 2 * n > 0
      /\ 2 * k + n <= 2 * m + n
  BY <1>2, <1>5, <1>7
<1>9. (2 * k + n) \div (2 * n) <= (2 * m + n) \div (2 * n)
  BY <1>8, Quotients
<1>10. (2 * k + n) \div (2 * n) \in Int /\ (2 * m + n) \div (2 * n) \in Int
  BY <1>8
<1> QED BY <1>6, <1>9, <1>10

\* A backup that is verified raises the score of the security centre.
LEMMA SecurityScoreRises ==
  ASSUME NEW f, NEW g, NEW u, NEW w, Better(f, g), w.dataQuality.critical = u.dataQuality.critical
  PROVE  securityPrivacyScore(g, w) < 70 => securityPrivacyScore(f, u) < 70
<1>1. \A k \in {"wholeKronaOnly", "jwtWeak", "loginLockDisabled", "mfaDisabled", "corsNotReady", "corsNotProduction",
                "customers", "payrollEmployees", "invoices", "journalEntries", "expenses", "aiUnsafe",
                "stripeNotConfigured", "emailNotConfigured"} : k \in g <=> k \in f
  BY DEF Better, MissingFacts, NewFacts
<1>2. "backupOk" \in f => "backupOk" \in g
  BY DEF Better, NewFacts
<1> DEFINE x == IF "backupOk" \in g /\ "backupOk" \notin f THEN 35 ELSE 0
<1>3. PICK r, s : r = securityPrivacyScores(f, u) /\ s = securityPrivacyScores(g, w)
  OBVIOUS
<1>4. securityPrivacyScore(f, u) = Mean(r) /\ securityPrivacyScore(g, w) = Mean(s)
  BY <1>3, Zenon DEF securityPrivacyScore
<1> DEFINE A == {"bookkeepingPrecision", "jwt", "loginAttempts", "mfa", "cors", "personalData", "aiExport", "aiSafeProvider"}
           B == {"backup", "dataQuality", "integrations", "integrations"}
<1>5. DOMAIN r = A \cup B /\ DOMAIN s = A \cup B
  BY <1>3 DEF securityPrivacyScores
<1>6. \A k \in A : r[k] \in Int /\ s[k] = r[k]
  BY <1>1, <1>3 DEF securityPrivacyScores, anonymizedExportReady
<1>7. /\ r.dataQuality \in Int /\ s.dataQuality = r.dataQuality
      /\ r.integrations \in Int /\ s.integrations = r.integrations
  BY <1>1, <1>3 DEF securityPrivacyScores
<1>8. r.backup \in Int /\ s.backup = r.backup + x
  BY <1>2, <1>3 DEF securityPrivacyScores
<1>9. DiffersAt("backup", x, r, s, A \cup B)
  BY <1>6, <1>7, <1>8 DEF DiffersAt
<1>10. IsFiniteSet(A \cup B) /\ A \cup B # {}
  <2>1. IsFiniteSet(A) /\ IsFiniteSet(B) /\ A # {}
    BY EightAreFinite, FourAreFinite
  <2> HIDE DEF A, B
  <2> QED BY <2>1, FS_Union
<1>11. x \in Nat
  OBVIOUS
<1> HIDE DEF A, B, x
<1>12. Mean(r) \in Int /\ Mean(s) \in Int /\ Mean(r) <= Mean(s)
  BY <1>5, <1>9, <1>10, <1>11, MeanRises
<1> QED BY <1>4, <1>12

\* Issues that no repair touches.
LEMMA SameIssues ==
  ASSUME NEW p, NEW q, NEW f, NEW g, Repaired(p, q), Better(f, g)
  PROVE  /\ Sizes(calculationIssues(q, g)) = Sizes(calculationIssues(p, f))
         /\ Sizes(dataQualityIssues(g)).critical = Sizes(dataQualityIssues(f)).critical
         /\ voucherReviewRows(q, g).critical = voucherReviewRows(p, f).critical
         /\ accountSignControlRows(q) = accountSignControlRows(p)
<1>1. accountSignControlRows(q) = accountSignControlRows(p)
  BY Zenon DEF accountSignControlRows, accountReconciliationAmount, Repaired
<1>2. \A S : S \cap (MissingFacts \cup NewFacts) = {} => g \cap S = f \cap S
  BY DEF Better
<1> DEFINE C == {"unbalancedJournalGroups", "balanceReportDifference", "invoiceTotalMismatchIssues",
                 "negativeInvoiceIssues", "expenseTotalMismatchIssues", "negativeExpenseIssues",
                 "payrollNegativeIssues"}
           W == {"invoiceVatMismatchIssues", "overpaidInvoiceIssues", "negativeCash", "ownerWithdrawsWithoutRoom",
                 "ownerAbRiskIssues", "receivablesDifference", "vatReportDifference"}
           D == duplicates \cup {"unbalancedJournalGroups"}
           V == {"voucherWithoutNumber", "unbalancedJournalGroups", "brokenCorrection", "negativeVoucherRow"}
<1>3. C \cap (MissingFacts \cup NewFacts) = {} /\ W \cap (MissingFacts \cup NewFacts) = {}
  BY DEF MissingFacts, NewFacts
<1>4. D \cap (MissingFacts \cup NewFacts) = {}
  BY DEF MissingFacts, NewFacts, duplicates
<1>5. V \cap (MissingFacts \cup NewFacts) = {} /\ {"voucherReviewBlocked"} \cap (MissingFacts \cup NewFacts) = {}
  BY DEF MissingFacts, NewFacts
<1>6. /\ g \cap C = f \cap C /\ g \cap W = f \cap W /\ g \cap V = f \cap V
      /\ g \cap {"voucherReviewBlocked"} = f \cap {"voucherReviewBlocked"}
  <2> HIDE DEF C, W, V
  <2> QED BY <1>2, <1>3, <1>5
<1>7. g \cap D = f \cap D
  <2> HIDE DEF D
  <2> QED BY <1>2, <1>4
<1>8. /\ calculationIssues(q, g).critical = calculationIssues(p, f).critical
      /\ calculationIssues(q, g).warning = calculationIssues(p, f).warning
  <2>1. PICK signs, X, Y : /\ signs = accountSignControlRows(p)
                           /\ X = {a \in DOMAIN signs : signs[a] = "critical"}
                           /\ Y = {a \in DOMAIN signs : signs[a] = "warning"}
    OBVIOUS
  <2>2. \A r, e : accountSignControlRows(r) = signs =>
          calculationIssues(r, e).critical = (e \cap C) \cup X /\ calculationIssues(r, e).warning = (e \cap W) \cup Y
    BY <2>1 DEF calculationIssues, Issues
  <2> HIDE DEF C, W
  <2>3. accountSignControlRows(p) = signs /\ accountSignControlRows(q) = signs
    BY <1>1, <2>1
  <2>4. /\ calculationIssues(p, f).critical = (f \cap C) \cup X /\ calculationIssues(p, f).warning = (f \cap W) \cup Y
        /\ calculationIssues(q, g).critical = (g \cap C) \cup X /\ calculationIssues(q, g).warning = (g \cap W) \cup Y
    BY <2>2, <2>3
  <2> QED BY <1>6, <2>4, Zenon
<1>9. dataQualityIssues(g).critical = dataQualityIssues(f).critical
  <2>1. \A e : dataQualityIssues(e).critical = e \cap D
    BY DEF dataQualityIssues, Issues, If, duplicates
  <2> HIDE DEF D
  <2> QED BY <1>7, <2>1
<1>10. voucherReviewRows(q, g).critical = voucherReviewRows(p, f).critical
  <2>1. \A r, e : voucherReviewRows(r, e).critical = (e \cap V) \cup (e \cap {"voucherReviewBlocked"})
    BY DEF voucherReviewRows, voucherChainRows
  <2> HIDE DEF V
  <2> QED BY <1>6, <2>1
<1>11. Sizes(calculationIssues(q, g)) = Sizes(calculationIssues(p, f))
  BY <1>8, Zenon DEF Sizes
<1>12. \A i : Sizes(i).critical = Cardinality(i.critical)
  BY DEF Sizes
<1> QED BY <1>1, <1>9, <1>10, <1>11, <1>12

\* Evidence: the receipts that are missing become fewer.
LEMMA EvidenceIsCalmer ==
  ASSUME NEW p, NEW q, NEW f, NEW g, Repaired(p, q), Better(f, g)
  PROVE  Calmer(Sizes(verificationControlRows(p, f)), Sizes(verificationControlRows(q, g)))
<1> DEFINE N == {"invoiceWithoutCustomer", "manualVoucherWithoutEvidence", "voucherWithoutNumber"}
<1>1. PICK R, S : R = verificationControlRows(p, f).critical /\ S = verificationControlRows(q, g).critical
  OBVIOUS
<1>2. R = MissingReceipts(p) \cup (f \cap N) /\ S = MissingReceipts(q) \cup (g \cap N)
  BY <1>1 DEF verificationControlRows
<1>3. MissingReceipts(q) \subseteq MissingReceipts(p) /\ MissingReceipts(p) \subseteq Expenses
  BY DEF MissingReceipts, Repaired
<1>4. g \cap N = f \cap N
  BY DEF Better, MissingFacts, NewFacts
<1>5. IsFiniteSet(R)
  <2>1. R \subseteq {"expense", "laterExpense", "expense", "expense"} \cup N
    BY <1>2, <1>3 DEF Expenses
  <2>2. N = {"invoiceWithoutCustomer", "manualVoucherWithoutEvidence", "voucherWithoutNumber", "voucherWithoutNumber"}
    OBVIOUS
  <2> HIDE DEF N
  <2> QED BY <2>1, <2>2, FourAreFinite, FS_Union, FS_Subset
<1>6. S \subseteq R
  BY <1>2, <1>3, <1>4
<1>7. IsFiniteSet(S) /\ (Cardinality(S) > 0 => Cardinality(R) > 0)
  BY <1>5, <1>6, FS_Subset, FS_CardinalityType
<1>8. /\ Sizes(verificationControlRows(p, f)).critical = Cardinality(R)
      /\ Sizes(verificationControlRows(q, g)).critical = Cardinality(S)
  BY <1>1 DEF Sizes
<1> QED BY <1>7, <1>8 DEF Calmer

----------------------------------------------------------------------------
(* Readiness: the period and the gate before its lock after a repair.      *)

LEMMA FewerWarnings ==
  ASSUME NEW rows, NEW after, IsFiniteSet(DOMAIN rows), DOMAIN after = DOMAIN rows,
         \A k \in DOMAIN after : after[k] = "warning" => rows[k] = "warning"
  PROVE  /\ Warnings(rows) \in Nat /\ Warnings(after) \in Nat
         /\ Warnings(after) > 0 => Warnings(rows) > 0
BY CountCounts DEF Warnings

LEMMA ListsOfThePeriod ==
  ASSUME NEW f, NEW u
  PROVE  IsFiniteSet(DOMAIN closeChecklistItems(f)) /\ IsFiniteSet(DOMAIN archivePackageItems(f, u))
<1> DEFINE A == {"manifest", "closeChecklist", "dataQuality", "monthlyClose", "journal", "invoices", "receipts", "vat"}
           B == {"taxPlan", "reports", "payments", "dataBackup"}
           C == {"balancedVouchers", "missingReceipts", "openInvoices", "overdueInvoices", "vat", "periodLock",
                 "periodLock", "periodLock"}
<1>1. DOMAIN archivePackageItems(f, u) = A \cup B
  BY DEF archivePackageItems
<1>2. DOMAIN closeChecklistItems(f) = C
  BY DEF closeChecklistItems
<1>3. IsFiniteSet(A) /\ IsFiniteSet(B) /\ IsFiniteSet(C)
  BY FourAreFinite, EightAreFinite
<1> HIDE DEF A, B, C
<1> QED BY <1>1, <1>2, <1>3, FS_Union

\* A list of the period that warned of nothing warns of nothing after a repair.
LEMMA PeriodIsCalmer ==
  ASSUME NEW p, NEW q, NEW f, NEW g, Better(f, g), NEW u, u = ClosedPage(p, f), NEW w, w = ClosedPage(q, g)
  PROVE  /\ u.archivePackageWarnings = 0 => w.archivePackageWarnings = 0
         /\ selectedPeriodLockWarnings(g, w) \subseteq selectedPeriodLockWarnings(f, u)
         /\ selectedPeriodLockBlockers(g, w) \subseteq selectedPeriodLockBlockers(f, u)
<1>1. /\ \A k \in {"monthlyCloseUnbalancedGroups", "openInvoices", "monthlyCloseBankNeedsReview", "monthlyCloseVouchers",
                   "monthlyCloseBudgetRisk", "monthlyCloseBudgetWatch", "unbalancedJournalGroups", "overdueInvoices",
                   "vatPeriodEntries", "accountingLocked", "filteredInvoices", "reports"} : k \in g <=> k \in f
      /\ "expensesMissingReceipt" \in g => "expensesMissingReceipt" \in f
      /\ "monthlyCloseMissingReceipts" \in g => "monthlyCloseMissingReceipts" \in f
      /\ "backupOk" \in f => "backupOk" \in g
  BY DEF Better, MissingFacts, NewFacts
<1>2. /\ u.calculation.critical = 0 /\ w.calculation.critical = 0
      /\ u.monthlyCloseWarnings = Warnings(monthlyCloseChecklist(f))
      /\ w.monthlyCloseWarnings = Warnings(monthlyCloseChecklist(g))
      /\ u.closeChecklistWarnings = Warnings(closeChecklistItems(f))
      /\ w.closeChecklistWarnings = Warnings(closeChecklistItems(g))
      /\ u.archivePackageWarnings = Warnings(archivePackageItems(f, u))
      /\ w.archivePackageWarnings = Warnings(archivePackageItems(g, w))
  BY ClosedIs
<1>3. w.monthlyCloseWarnings > 0 => u.monthlyCloseWarnings > 0
  <2>1. PICK rows, after : rows = monthlyCloseChecklist(f) /\ after = monthlyCloseChecklist(g)
    OBVIOUS
  <2>2. DOMAIN after = DOMAIN rows /\ \A k \in DOMAIN after : after[k] = "warning" => rows[k] = "warning"
    BY <1>1, <2>1 DEF monthlyCloseChecklist, WarnIf, InfoIf
  <2> QED BY <1>2, <2>1, <2>2, MonthlyCloseChecklistFinite, FewerWarnings
<1>4. w.closeChecklistWarnings > 0 => u.closeChecklistWarnings > 0
  <2>1. PICK rows, after : rows = closeChecklistItems(f) /\ after = closeChecklistItems(g)
    OBVIOUS
  <2>2. DOMAIN after = DOMAIN rows /\ \A k \in DOMAIN after : after[k] = "warning" => rows[k] = "warning"
    BY <1>1, <2>1 DEF closeChecklistItems, WarnIf, InfoIf
  <2> QED BY <1>2, <2>1, <2>2, ListsOfThePeriod, FewerWarnings
<1>5. /\ w.archivePackageWarnings > 0 => u.archivePackageWarnings > 0
      /\ w.archivePackageWarnings \in Nat /\ u.archivePackageWarnings \in Nat
  <2>1. PICK rows, after : rows = archivePackageItems(f, u) /\ after = archivePackageItems(g, w)
    OBVIOUS
  <2>2. DOMAIN after = DOMAIN rows /\ \A k \in DOMAIN after : after[k] = "warning" => rows[k] = "warning"
    BY <1>1, <1>3, <1>4, <2>1 DEF archivePackageItems, WarnIf, InfoIf
  <2> QED BY <1>2, <2>1, <2>2, ListsOfThePeriod, FewerWarnings
<1>6. selectedPeriodLockWarnings(g, w) \subseteq selectedPeriodLockWarnings(f, u)
  BY <1>1, <1>3, <1>4, <1>5 DEF selectedPeriodLockWarnings, If
<1>7. selectedPeriodLockBlockers(g, w) \subseteq selectedPeriodLockBlockers(f, u)
  BY <1>1, <1>2 DEF selectedPeriodLockBlockers, If
<1> QED BY <1>5, <1>6, <1>7

\* The gate before the lock: a repair adds no blocker and no warning to it.
LEMMA LockIsCalmer ==
  ASSUME NEW p, NEW q, NEW f, NEW g, Repaired(p, q), Better(f, g), p.vouchers \subseteq Vouchers,
         NEW v, v = RenderPage(p, f), NEW w, w = RenderPage(q, g)
  PROVE  v.canBeLocked => w.canBeLocked
<1>1. w.accountSign = v.accountSign
  BY PeriodKeeps, ClosedIs, SameIssues
<1>2. w.review.blocked = v.review.blocked
  BY BlockedReviewIs, SameIssues
<1>3. w.review.pending > 0 => v.review.pending > 0
  <2>1. PICK R, S : R = p.vouchers \ p.approved /\ S = q.vouchers \ q.approved
    OBVIOUS
  <2>2. S \subseteq R /\ R \subseteq Vouchers
    BY <2>1 DEF Repaired
  <2>3. IsFiniteSet(R) /\ IsFiniteSet(S)
    BY <2>2, VouchersAreFinite, FS_Subset
  <2>4. Cardinality(S) > 0 => Cardinality(R) > 0
    BY <2>2, <2>3, FS_CardinalityType, FS_Subset
  <2>5. v.review.pending = Cardinality(R) /\ w.review.pending = Cardinality(S)
    BY <2>1, ReviewIs DEF voucherReviewRows
  <2> QED BY <2>4, <2>5
<1>4. w.lockWarnings \subseteq v.lockWarnings /\ w.lockBlockers \subseteq v.lockBlockers
  BY PeriodIs, PeriodIsCalmer
<1>5. \A k \in {"backendCloseBlocked", "backendCloseWarned", "numberTwice", "numberGap", "invoiceWithoutNumber",
                "numberWithoutDigits", "settings", "vatPeriod", "accountingLocked"} : k \in g <=> k \in f
  BY DEF Better, MissingFacts, NewFacts
<1>6. PICK a, b : a = ReviewedPage(p, f) /\ b = ReviewedPage(q, g)
  OBVIOUS
<1>7. /\ a.lockBlockers = v.lockBlockers /\ a.lockWarnings = v.lockWarnings /\ a.review = v.review
      /\ b.lockBlockers = w.lockBlockers /\ b.lockWarnings = w.lockWarnings /\ b.review = w.review
      /\ v.blockers = selectedPeriodProfessionalLockBlockers(f, a)
      /\ v.warnings = selectedPeriodProfessionalLockWarnings(f, a)
      /\ w.blockers = selectedPeriodProfessionalLockBlockers(g, b)
      /\ w.warnings = selectedPeriodProfessionalLockWarnings(g, b)
  BY <1>6, DeclarationIs
<1>8. a.accountSign = v.accountSign /\ b.accountSign = w.accountSign
  <2>1. AgreeOn(a, v, ReviewNames) /\ AgreeOn(b, w, ReviewNames)
    BY <1>6, PagesShow
  <2> QED BY <2>1 DEF AgreeOn, ReviewNames, GateNames, EarlyNames
<1>9. w.blockers \subseteq v.blockers
  <2>1. numberControlDuplicateGroups(g) = numberControlDuplicateGroups(f)
    BY <1>5 DEF numberControlDuplicateGroups
  <2> QED BY <1>1, <1>2, <1>4, <1>5, <1>7, <1>8, <2>1
          DEF selectedPeriodProfessionalLockBlockers, selectedPeriodFinalLockBlockers, If
<1>10. w.warnings \subseteq v.warnings
  <2>1. numberControlWarnings(g) = numberControlWarnings(f)
    BY <1>5 DEF numberControlWarnings
  <2> QED BY <1>1, <1>3, <1>4, <1>5, <1>7, <1>8, <2>1
          DEF selectedPeriodProfessionalLockWarnings, selectedPeriodFinalLockWarnings, If
<1>11. PICK s, t : s = DeclaredPage(p, f) /\ t = DeclaredPage(q, g)
  OBVIOUS
<1>12. /\ v.canBeLocked = selectedPeriodProfessionalCanBeLocked(f, s)
       /\ w.canBeLocked = selectedPeriodProfessionalCanBeLocked(g, t)
       /\ s.blockers = v.blockers /\ s.warnings = v.warnings
       /\ t.blockers = w.blockers /\ t.warnings = w.warnings
  BY <1>11, LockIs
<1>13. selectedPeriodProfessionalCanBeLocked(f, s) => selectedPeriodProfessionalCanBeLocked(g, t)
  BY <1>5, <1>9, <1>10, <1>12 DEF selectedPeriodProfessionalCanBeLocked
<1> QED BY <1>12, <1>13

----------------------------------------------------------------------------
(* Readiness: the render after a repair, from top to bottom.               *)

\* A centre has no more critical rows than before.
Milder(s, t) == t.critical <= s.critical /\ Calmer(s, t)

LEMMA FewerIsMilder ==
  ASSUME NEW rows, NEW after, IsJudged(Summary(rows), rows), FewerCritical(rows, after)
  PROVE  Milder(Summary(rows), Summary(after))
BY FewerAreCounted DEF IsJudged, Milder, Calmer

LEMMA RoutineRowsAreJudged ==
  ASSUME NEW p, NEW f, NEW u
  PROVE  /\ IsJudged(Summary(monthlyRoutineRows(f, u)), monthlyRoutineRows(f, u))
         /\ IsJudged(Summary(taxCenterRows(p, f, u)), taxCenterRows(p, f, u))
<1> DEFINE A == {"period", "bank", "invoices", "receipts", "bookkeeping", "vat", "payroll", "reports"}
           B == {"backupLock", "backupLock", "backupLock", "backupLock"}
           C == {"vatPeriod", "taxPlan", "taxAccount", "incomeTax", "payrollTax", "reserve", "reserve", "reserve"}
<1>1. DOMAIN monthlyRoutineRows(f, u) = A \cup B
  BY DEF monthlyRoutineRows
<1>2. DOMAIN taxCenterRows(p, f, u) = C
  BY DEF taxCenterRows
<1>3. IsFiniteSet(A) /\ IsFiniteSet(B) /\ IsFiniteSet(C)
  BY FourAreFinite, EightAreFinite
<1> HIDE DEF A, B, C
<1>4. IsFiniteSet(A \cup B)
  BY <1>3, FS_Union
<1> QED BY <1>1, <1>2, <1>3, <1>4, SummaryJudges

\* Two renders, the second after a repair.
Renders(p, q, f, g, v, w) ==
  /\ Repaired(p, q) /\ Better(f, g)
  /\ p.vouchers \subseteq Vouchers /\ q.ledger["1930"] \in Int
  /\ v = RenderPage(p, f) /\ w = RenderPage(q, g)

\* The numbers that every list reads.
LEMMA RepairedPeriod ==
  ASSUME NEW p, NEW q, NEW f, NEW g, NEW v, NEW w, Renders(p, q, f, g, v, w)
  PROVE  /\ w.calculation = v.calculation
         /\ w.dataQuality.critical = v.dataQuality.critical
         /\ w.accountSign = v.accountSign
         /\ w.review.blocked = v.review.blocked
         /\ v.archivePackageWarnings = 0 => w.archivePackageWarnings = 0
         /\ w.securityPrivacyScore < 70 => v.securityPrivacyScore < 70
         /\ Milder(v.calculation, w.calculation) /\ Milder(v.dataQuality, w.dataQuality)
<1> USE DEF Renders
<1>1. w.calculation = v.calculation /\ w.dataQuality.critical = v.dataQuality.critical
  BY PeriodIs, SameIssues
<1>2. w.accountSign = v.accountSign
  BY PeriodKeeps, ClosedIs, SameIssues
<1>3. w.review.blocked = v.review.blocked
  BY BlockedReviewIs, SameIssues
<1>4. v.archivePackageWarnings = 0 => w.archivePackageWarnings = 0
  BY PeriodKeeps, PeriodIsCalmer
<1>5. w.securityPrivacyScore < 70 => v.securityPrivacyScore < 70
  <2>1. PICK a, b : a = PeriodPage(p, f) /\ b = PeriodPage(q, g)
    OBVIOUS
  <2>2. /\ a.dataQuality = v.dataQuality /\ b.dataQuality = w.dataQuality
        /\ v.securityPrivacyScore = securityPrivacyScore(f, a) /\ w.securityPrivacyScore = securityPrivacyScore(g, b)
    BY <2>1, PeriodKeeps, SecurityIs
  <2> QED BY <1>1, <2>2, SecurityScoreRises
<1>6. v.calculation.critical \in Nat /\ v.dataQuality.critical \in Nat
  BY PeriodIs, CalculationCounts, DataQualityCounts
<1> QED BY <1>1, <1>2, <1>3, <1>4, <1>5, <1>6 DEF Milder, Calmer

\* The gates, from top to bottom.
LEMMA RepairedGates ==
  ASSUME NEW p, NEW q, NEW f, NEW g, NEW v, NEW w, Renders(p, q, f, g, v, w)
  PROVE  /\ Milder(v.compliance, w.compliance) /\ Milder(v.goLive, w.goLive)
         /\ Milder(v.firstRealData, w.firstRealData) /\ Milder(v.useToday, w.useToday)
         /\ Milder(v.payments, w.payments)
         /\ Milder(v.monthlyRoutine, w.monthlyRoutine) /\ Milder(v.annualRoutine, w.annualRoutine)
<1> USE DEF Renders
<1>1. Milder(v.compliance, w.compliance)
  <2>1. PICK a, b : a = SecuredPage(p, f) /\ b = SecuredPage(q, g)
    OBVIOUS
  <2>2. v.compliance = Summary(complianceRows(f, a)) /\ w.compliance = Summary(complianceRows(g, b))
    BY <2>1, ComplianceIs
  <2> QED BY <2>2, ComplianceIsFewer, ComplianceIsJudged, FewerIsMilder
<1>2. Milder(v.goLive, w.goLive)
  <2>1. PICK a, b : a = CompliantPage(p, f) /\ b = CompliantPage(q, g)
    OBVIOUS
  <2>2. /\ v.goLive = Summary(goLiveRows(f, a)) /\ w.goLive = Summary(goLiveRows(g, b))
        /\ a.calculation = v.calculation /\ a.compliance = v.compliance
        /\ b.calculation = w.calculation /\ b.compliance = w.compliance
    BY <2>1, GoLiveIs
  <2>3. b.calculation = a.calculation /\ Calmer(a.compliance, b.compliance)
    BY <1>1, <2>2, RepairedPeriod DEF Milder
  <2> QED BY <2>2, <2>3, GoLiveIsFewer, GoLiveIsJudged, FewerIsMilder
<1>3. PICK a, b : a = FlowPage(p, f) /\ b = FlowPage(q, g)
  OBVIOUS
<1>4. AgreeOn(a, v, EarlyNames) /\ AgreeOn(b, w, EarlyNames)
  BY <1>3, PagesShow
<1>5. /\ b.calculation = a.calculation /\ b.dataQuality.critical = a.dataQuality.critical
      /\ Calmer(a.goLive, b.goLive) /\ (a.archivePackageWarnings = 0 => b.archivePackageWarnings = 0)
  BY <1>2, <1>4, RepairedPeriod DEF Milder, AgreeOn, EarlyNames
<1>6. /\ v.firstRealData = Summary(firstRealDataGateRows(f, a)) /\ w.firstRealData = Summary(firstRealDataGateRows(g, b))
      /\ v.useToday = Summary(useTodayGateRows(f, a)) /\ w.useToday = Summary(useTodayGateRows(g, b))
      /\ v.payments = Summary(paymentReconciliationRows(p, f)) /\ w.payments = Summary(paymentReconciliationRows(q, g))
      /\ v.annualRoutine = Summary(annualRoutineRows(p, f, a)) /\ w.annualRoutine = Summary(annualRoutineRows(q, g, b))
      /\ v.monthlyRoutine = Summary(monthlyRoutineRows(f, a)) /\ w.monthlyRoutine = Summary(monthlyRoutineRows(g, b))
  BY <1>3, GatesAre, MonthlyRoutineIs
<1>7. Milder(v.firstRealData, w.firstRealData)
  BY <1>5, <1>6, RealDataIsFewer, FirstRealDataGateIsJudged, FewerIsMilder
<1>8. Milder(v.useToday, w.useToday)
  BY <1>5, <1>6, UseTodayIsFewer, UseTodayGateIsJudged, FewerIsMilder
<1>9. Milder(v.payments, w.payments)
  BY <1>6, PaymentsAreFewer, PaymentReconciliationIsJudged, FewerIsMilder
<1>10. Milder(v.annualRoutine, w.annualRoutine)
  BY <1>5, <1>6, AnnualRoutineIsFewer, AnnualRoutineIsJudged, FewerIsMilder
<1>11. Milder(v.monthlyRoutine, w.monthlyRoutine)
  BY <1>5, <1>6, MonthlyRoutineIsFewer, RoutineRowsAreJudged, FewerIsMilder
<1> QED BY <1>1, <1>2, <1>7, <1>8, <1>9, <1>10, <1>11

\* The centres after the gates.
LEMMA RepairedCentres ==
  ASSUME NEW p, NEW q, NEW f, NEW g, NEW v, NEW w, Renders(p, q, f, g, v, w)
  PROVE  /\ Milder(v.reconciliation, w.reconciliation) /\ Milder(v.declaration, w.declaration)
         /\ Milder(v.periodControl, w.periodControl) /\ Milder(v.archive, w.archive)
         /\ Calmer(v.verification, w.verification)
<1> USE DEF Renders
<1>1. Milder(v.reconciliation, w.reconciliation)
  <2>1. PICK a, b : a = GatedPage(p, f) /\ b = GatedPage(q, g)
    OBVIOUS
  <2>2. /\ v.reconciliation = Summary(reconciliationRows(p, f, a)) /\ a.calculation = v.calculation
        /\ w.reconciliation = Summary(reconciliationRows(q, g, b)) /\ b.calculation = w.calculation
    BY <2>1, ReviewIs
  <2>3. b.calculation = a.calculation
    BY <2>2, RepairedPeriod
  <2> QED BY <2>2, <2>3, ReconciliationIsFewer, ReconciliationIsJudged, FewerIsMilder
<1>2. Milder(v.declaration, w.declaration)
  <2>1. PICK a, b : a = ReviewedPage(p, f) /\ b = ReviewedPage(q, g)
    OBVIOUS
  <2>2. /\ v.declaration = Summary(declarationCenterRows(p, f, a))
        /\ a.annualRoutine = v.annualRoutine /\ a.reconciliation = v.reconciliation
        /\ w.declaration = Summary(declarationCenterRows(q, g, b))
        /\ b.annualRoutine = w.annualRoutine /\ b.reconciliation = w.reconciliation
    BY <2>1, DeclarationIs
  <2>3. Calmer(a.annualRoutine, b.annualRoutine) /\ Calmer(a.reconciliation, b.reconciliation)
    BY <1>1, <2>2, RepairedGates DEF Milder
  <2> QED BY <2>2, <2>3, DeclarationIsFewer, DeclarationCenterIsJudged, FewerIsMilder
<1>3. PICK a, b : a = DeclaredPage(p, f) /\ b = DeclaredPage(q, g)
  OBVIOUS
<1>4. AgreeOn(a, v, ReviewNames \cup {"declaration"}) /\ AgreeOn(b, w, ReviewNames \cup {"declaration"})
  BY <1>3, PagesShow
<1>5. \A k \in {"calculation", "accountSign", "review", "monthlyRoutine", "annualRoutine", "declaration"} :
        a[k] = v[k] /\ b[k] = w[k]
  BY <1>4 DEF AgreeOn, ReviewNames, GateNames, EarlyNames
<1>6. /\ v.periodControl = Summary(periodControlRows(f, a)) /\ v.archive = Summary(archiveCenterRows(f, a))
      /\ w.periodControl = Summary(periodControlRows(g, b)) /\ w.archive = Summary(archiveCenterRows(g, b))
  BY <1>3, LockIs
<1>7. Milder(v.periodControl, w.periodControl)
  <2>1. /\ b.calculation = a.calculation /\ b.accountSign = a.accountSign /\ b.review.blocked = a.review.blocked
        /\ Calmer(a.monthlyRoutine, b.monthlyRoutine) /\ Calmer(a.annualRoutine, b.annualRoutine)
    BY <1>5, RepairedPeriod, RepairedGates DEF Milder
  <2> QED BY <1>6, <2>1, PeriodControlIsFewer, PeriodControlIsJudged, FewerIsMilder
<1>8. Milder(v.archive, w.archive)
  <2>1. Calmer(a.declaration, b.declaration)
    BY <1>2, <1>5 DEF Milder
  <2> QED BY <1>6, <2>1, ArchiveIsFewer, ArchiveCenterIsJudged, FewerIsMilder
<1>9. Calmer(v.verification, w.verification)
  BY VerificationIs, EvidenceIsCalmer
<1> QED BY <1>1, <1>2, <1>7, <1>8, <1>9

\* The last lists: migration, closing, tax, risk, internal control and quality.
LEMMA RepairedClosing ==
  ASSUME NEW p, NEW q, NEW f, NEW g, NEW v, NEW w, Renders(p, q, f, g, v, w)
  PROVE  /\ Milder(v.migration, w.migration) /\ Milder(v.closing, w.closing) /\ Milder(v.taxCenter, w.taxCenter)
<1> USE DEF Renders
<1>1. PICK a, b : a = LockedPage(p, f) /\ b = LockedPage(q, g)
  OBVIOUS
<1>2. AgreeOn(a, v, LockNames) /\ AgreeOn(b, w, LockNames)
  BY <1>1, PagesShow
<1>3. \A k \in {"calculation", "review", "reconciliation", "archive", "periodControl"} : a[k] = v[k] /\ b[k] = w[k]
  BY <1>2 DEF AgreeOn, LockNames, ReviewNames, GateNames, EarlyNames
<1>4. /\ v.migration = Summary(migrationCenterRows(f, a)) /\ v.closing = Summary(closingCenterRows(f, a))
      /\ w.migration = Summary(migrationCenterRows(g, b)) /\ w.closing = Summary(closingCenterRows(g, b))
      /\ v.taxCenter = Summary(taxCenterRows(p, f, a)) /\ w.taxCenter = Summary(taxCenterRows(q, g, b))
  BY <1>1, ClosingIs, TaxCenterIs
<1>5. /\ b.calculation = a.calculation /\ b.review.blocked = a.review.blocked
      /\ Calmer(a.reconciliation, b.reconciliation) /\ Calmer(a.archive, b.archive)
      /\ Calmer(a.periodControl, b.periodControl)
  BY <1>3, RepairedPeriod, RepairedCentres DEF Milder
<1>6. Milder(v.migration, w.migration)
  BY <1>4, <1>5, MigrationIsFewer, MigrationCenterIsJudged, FewerIsMilder
<1>7. Milder(v.closing, w.closing)
  BY <1>4, <1>5, ClosingIsFewer, ClosingCenterIsJudged, FewerIsMilder
<1>8. Milder(v.taxCenter, w.taxCenter)
  BY <1>4, TaxCenterIsFewer, RoutineRowsAreJudged, FewerIsMilder
<1> QED BY <1>6, <1>7, <1>8

LEMMA RepairedQuality ==
  ASSUME NEW p, NEW q, NEW f, NEW g, NEW v, NEW w, Renders(p, q, f, g, v, w)
  PROVE  /\ Milder(v.risk, w.risk) /\ Milder(v.quality, w.quality)
<1> USE DEF Renders
<1>1. PICK a, b : a = ClosingPage(p, f) /\ b = ClosingPage(q, g)
  OBVIOUS
<1>2. AgreeOn(a, v, CloseNames) /\ AgreeOn(b, w, CloseNames)
  BY <1>1, PagesShow
<1>3. \A k \in {"calculation", "dataQuality", "goLive", "securityPrivacyScore", "archive", "migration", "review", "closing"} :
        a[k] = v[k] /\ b[k] = w[k]
  BY <1>2 DEF AgreeOn, CloseNames, LockNames, ReviewNames, GateNames, EarlyNames
<1>4. /\ v.risk = Summary(riskCenterRows(p, f, a)) /\ v.internalControl = Summary(internalControlRows(f, a))
      /\ w.risk = Summary(riskCenterRows(q, g, b)) /\ w.internalControl = Summary(internalControlRows(g, b))
  BY <1>1, RiskIs
<1>5. /\ b.calculation = a.calculation /\ b.review.blocked = a.review.blocked
      /\ Calmer(a.dataQuality, b.dataQuality) /\ Calmer(a.goLive, b.goLive) /\ Calmer(a.closing, b.closing)
      /\ b.securityPrivacyScore < 70 => a.securityPrivacyScore < 70
  BY <1>3, RepairedPeriod, RepairedGates, RepairedClosing DEF Milder
<1>6. b.archive.critical + b.migration.critical > 0 => a.archive.critical + a.migration.critical > 0
  <2>1. /\ w.archive.critical <= v.archive.critical /\ w.migration.critical <= v.migration.critical
    BY RepairedCentres, RepairedClosing DEF Milder
  <2>2. /\ v.archive.critical \in Nat /\ w.archive.critical \in Nat
        /\ v.migration.critical \in Nat /\ w.migration.critical \in Nat
    BY LockIs, ArchiveCenterIsJudged, ClosingIs, MigrationCenterIsJudged DEF IsJudged
  <2> QED BY <1>3, <2>1, <2>2
<1>7. Milder(v.risk, w.risk)
  BY <1>4, <1>5, <1>6, RiskIsFewer, RiskCenterIsJudged, FewerIsMilder
<1>8. Milder(v.internalControl, w.internalControl)
  BY <1>4, <1>5, InternalControlIsFewer, InternalControlIsJudged, FewerIsMilder
<1>9. Milder(v.quality, w.quality)
  <2>1. PICK s, t : s = RiskPage(p, f) /\ t = RiskPage(q, g)
    OBVIOUS
  <2>2. AgreeOn(s, v, CloseNames \cup {"internalControl"}) /\ AgreeOn(t, w, CloseNames \cup {"internalControl"})
    BY <2>1, PagesShow
  <2>3. \A k \in {"calculation", "accountSign", "verification", "payments", "reconciliation", "taxCenter", "dataQuality",
                  "compliance", "internalControl", "closing"} : s[k] = v[k] /\ t[k] = w[k]
    BY <2>2 DEF AgreeOn, CloseNames, LockNames, ReviewNames, GateNames, EarlyNames
  <2>4. v.quality = Summary(accountingQualityRows(f, s)) /\ w.quality = Summary(accountingQualityRows(g, t))
    BY <2>1, QualityIs
  <2>5. /\ t.calculation = s.calculation /\ t.accountSign = s.accountSign
        /\ Calmer(s.verification, t.verification) /\ Calmer(s.payments, t.payments)
        /\ Calmer(s.reconciliation, t.reconciliation) /\ Calmer(s.taxCenter, t.taxCenter)
        /\ Calmer(s.dataQuality, t.dataQuality) /\ Calmer(s.compliance, t.compliance)
        /\ Calmer(s.internalControl, t.internalControl) /\ Calmer(s.closing, t.closing)
    BY <1>8, <2>3, RepairedPeriod, RepairedGates, RepairedCentres, RepairedClosing DEF Milder
  <2> QED BY <2>4, <2>5, QualityIsFewer, AccountingQualityIsJudged, FewerIsMilder
<1> QED BY <1>7, <1>9

LEMMA RepairedReports ==
  ASSUME NEW p, NEW q, NEW f, NEW g, NEW v, NEW w, Renders(p, q, f, g, v, w)
  PROVE  v.readyForReports => w.readyForReports
<1> USE DEF Renders
<1>1. PICK a, b : a = QualityPage(p, f) /\ b = QualityPage(q, g)
  OBVIOUS
<1>2. /\ v.readyForReports = accountingQualityReadyForReports(f, a)
      /\ w.readyForReports = accountingQualityReadyForReports(g, b)
      /\ a.quality = v.quality /\ b.quality = w.quality
      /\ a.calculation = v.calculation /\ b.calculation = w.calculation
  BY <1>1, PlanIs
<1>3. v.quality.critical = 0 => w.quality.critical = 0
  <2>1. v.quality.critical \in Nat /\ w.quality.critical \in Nat
    BY QualityIs, AccountingQualityIsJudged DEF IsJudged
  <2> QED BY <2>1, RepairedQuality DEF Milder
<1>4. booksAreClean(f, a) => booksAreClean(g, b)
  <2>1. b.calculation = a.calculation
    BY <1>2, RepairedPeriod
  <2> QED BY <2>1, SameStatuses
<1>5. "balanceReportDifference" \in g <=> "balanceReportDifference" \in f
  BY DEF Better, MissingFacts, NewFacts
<1>6. accountingQualityReadyForReports(f, a) => accountingQualityReadyForReports(g, b)
  BY <1>2, <1>3, <1>4, <1>5 DEF accountingQualityReadyForReports
<1> QED BY <1>2, <1>6

LEMMA RepairedRender ==
  ASSUME NEW p, NEW q, NEW f, NEW g, NEW v, NEW w, Renders(p, q, f, g, v, w)
  PROVE  /\ \A centre \in Judgements : w[centre].critical <= v[centre].critical
         /\ v.canBeLocked => w.canBeLocked
         /\ v.readyForReports => w.readyForReports
<1>1. \A centre \in Judgements : Milder(v[centre], w[centre])
  BY RepairedPeriod, RepairedGates, RepairedCentres, RepairedClosing, RepairedQuality DEF Judgements
<1>2. v.canBeLocked => w.canBeLocked
  BY LockIsCalmer DEF Renders
<1> QED BY <1>1, <1>2, RepairedReports DEF Milder

----------------------------------------------------------------------------
(* What the user does to repair the books.                                 *)

LEMMA ReceiptRepairs ==
  ASSUME ReadinessIInv, NEW v, UploadReceipt(v)
  PROVE  Repaired(d, d')
<1>1. d' = [d EXCEPT !.receipts = @ \cup {v}] /\ DOMAIN d = PageFields
  BY DEF UploadReceipt, Show, ReadinessIInv
<1> QED BY <1>1 DEF Repaired, PageFields

LEMMA ApprovalRepairs ==
  ASSUME ReadinessIInv, NEW v, Approve(v)
  PROVE  Repaired(d, d')
<1>1. d' = [d EXCEPT !.approved = @ \cup {v}] /\ DOMAIN d = PageFields
  BY DEF Approve, Show, ReadinessIInv
<1> QED BY <1>1 DEF Repaired, PageFields

LEMMA StatementRepairs ==
  ASSUME ReadinessIInv, EnterStatement(d.ledger["1930"])
  PROVE  Repaired(d, d')
<1>1. d' = [d EXCEPT !.statement = {d.ledger["1930"]}] /\ DOMAIN d = PageFields
  BY DEF EnterStatement, Show, ReadinessIInv
<1> QED BY <1>1 DEF Repaired, PageFields

\* A file with both proofs is found in order when it is saved.
LEMMA ProvedFileIsInOrder ==
  ASSUME NEW p, {"auditProof", "journalIntegrityReport"} \subseteq p.lists
  PROVE  downloadVerdict(SavedFile(p)).ok /\ downloadVerdict(SavedFile(p)).made
<1>1. SavedFile(p).proofs.audit /\ SavedFile(p).proofs.bookkeeping
  BY DEF SavedFile, WithSha, WithStamp, integrityProofs
<1> QED BY <1>1 DEF downloadVerdict, Verdict, ProofsAreThere, If

LEMMA BackupRepairs ==
  ASSUME ReadinessIInv, {"auditProof", "journalIntegrityReport"} \subseteq d.lists, DownloadBackup
  PROVE  Repaired(d, d')
<1>1. PICK file, verdict : file = SavedFile(d) /\ verdict = downloadVerdict(file)
  OBVIOUS
<1>2. d' = [d EXCEPT !.file = file, !.backup = verdict] /\ DOMAIN d = PageFields
  BY <1>1 DEF DownloadBackup, Show, ReadinessIInv
<1>3. verdict.ok /\ verdict.made
  BY <1>1, ProvedFileIsInOrder
<1> QED BY <1>2, <1>3 DEF Repaired, PageFields

LEMMA RepairRepairs ==
  ASSUME ReadinessIInv, Repair
  PROVE  Repaired(d, d')
BY ReceiptRepairs, ApprovalRepairs, StatementRepairs, BackupRepairs DEF Repair

\* What repairs the books never makes a verdict worse: after a receipt is
\* uploaded, a voucher approved, the true bank balance entered or a backup with
\* its proofs made, no centre has more critical rows than before, and a period
\* that could be locked, or books that were ready for reports, still are (the
\* lists of main.jsx from the period close to the quality of the books).
THEOREM ReadinessRepairNeverHurts == ReadinessSpec => RepairNeverHurts
<1>1. ReadinessIInv /\ ReadinessIInv' =>
        [Repair => LET before == verdicts after == verdicts'
                   IN /\ \A centre \in Judgements : after[centre].critical <= before[centre].critical
                      /\ before.canBeLocked => after.canBeLocked
                      /\ before.readyForReports => after.readyForReports]_readinessVars
  <2> SUFFICES ASSUME ReadinessIInv, ReadinessIInv', Repair
               PROVE  /\ \A centre \in Judgements : verdicts'[centre].critical <= verdicts[centre].critical
                      /\ verdicts.canBeLocked => verdicts'.canBeLocked
                      /\ verdicts.readyForReports => verdicts'.readyForReports
    OBVIOUS
  <2>1. PICK p, q, f, g : p = d /\ q = d' /\ f = Facts(d) /\ g = Facts(d')
    OBVIOUS
  <2>2. verdicts = RenderPage(p, f) /\ verdicts' = RenderPage(q, g)
    BY <2>1 DEF ReadinessIInv, Render
  <2>3. Repaired(p, q)
    BY <2>1, RepairRepairs
  <2>4. Better(f, g)
    BY <2>1, <2>3, RepairedFacts
  <2>5. p.vouchers \subseteq Vouchers
    BY <2>1, ReadinessAssumption DEF ReadinessIInv, ReadinessTypeOK
  <2>6. q.ledger["1930"] \in Int
    BY <2>1 DEF ReadinessIInv, ReadinessTypeOK, Accounts
  <2>7. PICK v, w : v = verdicts /\ w = verdicts'
    OBVIOUS
  <2>8. Renders(p, q, f, g, v, w)
    BY <2>2, <2>3, <2>4, <2>5, <2>6, <2>7 DEF Renders
  <2> QED BY <2>7, <2>8, RepairedRender
<1> QED BY <1>1, ReadinessInductive, PTL DEF RepairNeverHurts

=============================================================================
