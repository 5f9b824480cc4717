------------------------------- MODULE Ledger -------------------------------
(***************************************************************************)
(* The ledger and the figures that one render of the client computes from  *)
(* it (src/frontend/src/main.jsx): the month reports, the cash flow, the   *)
(* budget, the reserve plan, the customer ledger, the state of the bank    *)
(* rows and the accounts of the company form.                              *)
(*                                                                         *)
(* The page data is a record d: the vouchers of the selected year with the *)
(* ledger they add up to, the receipts, the lock, what the user typed in,  *)
(* and the set d.lists of the other lists of the page that are not empty   *)
(* and of the conditions that hold of their rows.  Facts(d) is the set of  *)
(* everything that the check lists ask of the page, under the names of the *)
(* code.                                                                   *)
(***************************************************************************)
EXTENDS Integers, FiniteSetsExt, Functions

CONSTANTS
  LimitedCompany,   \* settings.companyType is LIMITED_COMPANY
  Budget            \* targets of a month: revenue, expenses, and the reserve in percent

ASSUME CompanyAssumption ==
  LimitedCompany \in BOOLEAN /\ Budget \in [revenue: Nat, expenses: Nat, reserve: Nat]

If(c, name) == IF c THEN {name} ELSE {}

\* v with the fields of w, which take the place of its own
With(v, w) == [k \in DOMAIN v \cup DOMAIN w |-> IF k \in DOMAIN w THEN w[k] ELSE v[k]]

\* Math.round of n / k, for k > 0
Rounded(n, k) == (2 * n + k) \div (2 * k)

-----------------------------------------------------------------------------
(* Whole kronor.  A result that is not whole is left out: NoAmount.        *)

NoAmount == {}
exactWholeKronaVat(net, percent) ==
  IF (net * percent) % 100 = 0 THEN {(net * percent) \div 100} ELSE NoAmount

exactWholeKronaTaxInclusiveSplit(total, percent) ==
  IF (total * 100) % (100 + percent) = 0
  THEN LET net == (total * 100) \div (100 + percent)
       IN [netAmount |-> net, vatAmount |-> total - net, vatError |-> FALSE]
  ELSE [netAmount |-> total, vatAmount |-> 0, vatError |-> TRUE]

serviceEffectivePrice(service) == IF service.discountPrice > 0 THEN service.discountPrice ELSE service.price

invoicePreviewFor(service, quantity) ==
  LET net == serviceEffectivePrice(service) * Max({quantity, 1})
      vat == exactWholeKronaVat(net, service.vatPercent)
  IN [netAmount   |-> net,
      discount    |-> Max({service.price * Max({quantity, 1}) - net, 0}),
      vatAmount   |-> vat,
      totalAmount |-> {net + v : v \in vat}]

\* the one service that is sold and the one purchase that is made
Service == [price |-> 120, discountPrice |-> 100, vatPercent |-> 25]
Sale == LET preview == invoicePreviewFor(Service, 1)
        IN [net |-> preview.netAmount, vat |-> CHOOSE v \in preview.vatAmount : TRUE,
            total |-> CHOOSE t \in preview.totalAmount : TRUE]
Purchase == With(exactWholeKronaTaxInclusiveSplit(50, 25), [totalAmount |-> 50])

-----------------------------------------------------------------------------
(* Vouchers.  Every voucher of the model is posted at most once; all lie   *)
(* in the selected year, the later ones after the selected month and VAT   *)
(* period, the others inside them.                                         *)

Vouchers == {"invoice", "payment", "stripePayment", "payout", "expense", "laterExpense",
             "payroll", "payrollTax", "vatSettlement", "vatPayment", "annualResult"}
LaterVouchers == {"laterExpense", "annualResult"}
Expenses == {"expense", "laterExpense"}

resultAccount == IF LimitedCompany THEN "2099" ELSE "2019"
taxClearing == IF LimitedCompany THEN "1630" ELSE "2012"

IncomeAccounts == {"3041"}
CostAccounts == {"5410", "6570", "7010", "7510"}
Accounts == IncomeAccounts \cup CostAccounts \cup
            {"1510", "1580", "1630", "1650", "1930", "2012", "2019", "2099",
             "2611", "2641", "2650", "2710", "2731", "8999"}

\* accountReconciliationCreditNaturePrefixes is ["2", "3"]
CreditNature == {"2012", "2019", "2099", "2611", "2641", "2650", "2710", "2731", "3041"}

OutputVat(d) == IF "invoice" \in d.vouchers THEN Sale.vat ELSE 0
InputVat(d) == IF "expense" \in d.vouchers THEN Purchase.vatAmount ELSE 0
vatPeriodToPay(d) == OutputVat(d) - InputVat(d)

Revenue(d) == -SumFunctionOnSet(d.ledger, IncomeAccounts)
\* annualCloseTotals.expenses is of the classes 4 to 8
annualCloseResult(d) == Revenue(d) - SumFunctionOnSet(d.ledger, CostAccounts \cup {"8999"})

createInvoiceEntries == {<<"1510", Sale.total>>, <<"3041", -Sale.net>>, <<"2611", -Sale.vat>>}
createPaymentEntries(account) == {<<account, Sale.total>>, <<"1510", -Sale.total>>}
createStripePayoutEntry == {<<"1930", 120>>, <<"6570", 5>>, <<"1580", -125>>}
ExpenseWithoutVatRow == {<<"5410", Purchase.netAmount>>, <<"1930", -Purchase.totalAmount>>}

createExpenseEntries ==
  {<<"5410", Purchase.netAmount>>, <<"2641", Purchase.vatAmount>>, <<"1930", -Purchase.totalAmount>>}
bookPayrollLines == {<<"7010", 10>>, <<"7510", 4>>, <<"2710", -3>>, <<"2731", -4>>, <<"1930", -7>>}
bookPayrollTaxLines == {<<"2710", 3>>, <<"2731", 4>>, <<"1630", -7>>}

createVatSettlementEntry(d) ==
  {<<"2611", OutputVat(d)>>, <<"2641", -InputVat(d)>>,
   <<IF vatPeriodToPay(d) >= 0 THEN "2650" ELSE "1650", -vatPeriodToPay(d)>>}

\* through the clearing account, which the voucher debits and credits alike
createVatFilingPaymentEntry(d) ==
  {<<IF vatPeriodToPay(d) >= 0 THEN "2650" ELSE "1650", vatPeriodToPay(d)>>,
   <<taxClearing, 0>>, <<"1930", -vatPeriodToPay(d)>>}

createAnnualResultVoucher(d) ==
  {<<"8999", annualCloseResult(d)>>, <<resultAccount, -annualCloseResult(d)>>}

Lines(d, v) ==
  CASE v = "invoice" -> createInvoiceEntries
    [] v = "payment" -> createPaymentEntries("1930")
    [] v = "stripePayment" -> createPaymentEntries("1580")
    [] v = "payout" -> createStripePayoutEntry
    [] v \in Expenses -> createExpenseEntries
    [] v = "payroll" -> bookPayrollLines
    [] v = "payrollTax" -> bookPayrollTaxLines
    [] v = "vatSettlement" -> createVatSettlementEntry(d)
    [] v = "vatPayment" -> createVatFilingPaymentEntry(d)
    [] v = "annualResult" -> createAnnualResultVoucher(d)

Amount(lines, accounts) == MapThenSumSet(LAMBDA l : l[2], {l \in lines : l[1] \in accounts})
Added(ledger, lines) == [a \in Accounts |-> ledger[a] + Amount(lines, {a})]

Posted(d, v) ==
  [d EXCEPT !.vouchers = @ \cup {v}, !.ledger = Added(@, Lines(d, v))]

\* the ledger at the end of the selected month, on the accounts with a rule
MonthLedger(d) ==
  IF "laterExpense" \in d.vouchers
  THEN [a \in Accounts |-> d.ledger[a] - Amount(createExpenseEntries, {a})]
  ELSE d.ledger

-----------------------------------------------------------------------------
(* Invoices and expenses, as the page has them.  A draft is not posted.    *)

Paid(d) == {"payment", "stripePayment"} \cap d.vouchers # {}
Stored(d, status, paid) ==
  [status |-> status, net |-> Sale.net, total |-> Sale.total, paid |-> paid,
   vat |-> IF "storedVatDiffers" \in d.lists THEN Sale.vat - 3 ELSE Sale.vat]

invoices(d) ==
  (IF "invoice" \notin d.vouchers THEN {}
   ELSE {IF Paid(d) THEN Stored(d, "PAID", Sale.total) ELSE Stored(d, "SENT", 0)})
  \cup (IF "draftInvoices" \in d.lists THEN {Stored(d, "DRAFT", 0)} ELSE {})

invoiceRemainingAmount(i) == IF i.status = "DRAFT" THEN 0 ELSE Max({i.total - i.paid, 0})
IsOpen(d) == \E i \in invoices(d) : invoiceRemainingAmount(i) > 0
invoiceIsOverdue(d, i) == "dueDatePassed" \in d.lists /\ invoiceRemainingAmount(i) > 0

Total(rows, Of(_)) == MapThenSumSet(Of, rows)
totalOutstanding(d) == Total(invoices(d), invoiceRemainingAmount)

\* the row of the one customer
customerLedgerRow(d) ==
  [openCount        |-> Cardinality({i \in invoices(d) : invoiceRemainingAmount(i) > 0}),
   overdueCount     |-> Cardinality({i \in invoices(d) : invoiceIsOverdue(d, i)}),
   paidCount        |-> Cardinality({i \in invoices(d) : i.status = "PAID"}),
   outstandingTotal |-> Total(invoices(d), invoiceRemainingAmount)]

MissingReceipts(d) == (Expenses \cap d.vouchers) \ d.receipts

revenueNet(d) == Total(invoices(d), LAMBDA i : i.net)
expenseNet(d) == Cardinality(Expenses \cap d.vouchers) * Purchase.netAmount
profitNet(d) == revenueNet(d) - expenseNet(d)

invoiceTotalMismatchIssues(d) == {i \in invoices(d) : i.total - (i.net + i.vat) \notin -1..1}
invoiceVatMismatchIssues(d) == {i \in invoices(d) : exactWholeKronaVat(i.net, Service.vatPercent) # {i.vat}}
overpaidInvoiceIssues(d) == {i \in invoices(d) : i.paid > i.total}

-----------------------------------------------------------------------------
(* Rows of the bank file: one in, one out                                  *)

BankRows == {"incomingBankRow", "outgoingBankRow"}
bankImportRows(d) == BankRows \cap d.lists

\* the payment of the invoice, by its reference; the purchase, by date, amount and text
bankImportWorkflow(d, row) ==
  CASE row = "incomingBankRow" /\ IsOpen(d) -> "invoiceReady"
    [] row = "incomingBankRow" -> "incomingReview"
    [] "expense" \in d.vouchers -> "alreadyBooked"
    [] "bankImportRules" \in d.lists -> "expenseReady"
    [] OTHER -> "expenseReview"

bankImportRowsThat(d, keys) == {row \in bankImportRows(d) : bankImportWorkflow(d, row) \in keys}

-----------------------------------------------------------------------------
(* Months: 1 is the selected one, 2 a later one; neither is this month     *)

InMonth(d, m) == IF m = 1 THEN d.vouchers \ LaterVouchers ELSE d.vouchers \cap LaterVouchers
Turnover(d, m, accounts) == SumFunction([v \in InMonth(d, m) |-> Amount(Lines(d, v), accounts)])
PaidOut(d, v) == MapThenSumSet(LAMBDA l : Max({-l[2], 0}), {l \in Lines(d, v) : l[1] = "1930"})

monthlyReportRow(d, m) ==
  LET revenue == -Turnover(d, m, IncomeAccounts)
      expenses == Turnover(d, m, CostAccounts)
  IN [revenue |-> revenue, expenses |-> expenses, result |-> revenue - expenses,
      cashOut |-> SumFunction([v \in InMonth(d, m) |-> PaidOut(d, v)])]

\* only the months that have vouchers
monthlyReport(d) == [m \in {n \in {1, 2} : InMonth(d, n) # {}} |-> monthlyReportRow(d, m)]

\* a fall of more than 20 percent; both months must be there
revenueFalls(report) ==
  /\ DOMAIN report = {1, 2} /\ report[1].revenue # 0
  /\ Rounded(100 * (report[2].revenue - report[1].revenue),
             Max({report[1].revenue, -report[1].revenue})) < -20

\* without vouchers the page makes a row of invoices and expenses
budgetSourceRow(d, report) ==
  IF DOMAIN report # {} THEN report[Max(DOMAIN report)]
  ELSE [revenue |-> revenueNet(d), expenses |-> expenseNet(d), result |-> profitNet(d), cashOut |-> 0]

budgetStatus(row) ==
  LET reserve == Rounded(Max({row.result, 0}) * Min({80, Budget.reserve}), 100)
      afterReserve == row.result - reserve
  IN IF row.revenue >= Budget.revenue /\ row.expenses <= Budget.expenses /\ afterReserve >= 0 THEN "ok"
     ELSE IF afterReserve < 0 THEN "risk" ELSE "watch"

\* the list of the month has a row for the selected month, or none
monthlyCloseBudgetStatus(report) == IF 1 \in DOMAIN report THEN budgetStatus(report[1]) ELSE "ok"

-----------------------------------------------------------------------------
(* Cash flow over 30 days; an open invoice falls due within them           *)

cashOpeningBalance(d) == d.ledger["1930"]
stripeReceivableBalance(d) == d.ledger["1580"]

averageMonthlyCashOut(report) ==
  LET recent == {m \in DOMAIN report : report[m].cashOut > 0}
  IN IF recent = {} THEN 0
     ELSE Rounded(MapThenSumSet(LAMBDA m : report[m].cashOut, recent), Cardinality(recent))

cashflowExpectedIn(d) == totalOutstanding(d) + Max({stripeReceivableBalance(d), 0})
cashflowVatOutTotal(d) == Max({vatPeriodToPay(d), 0})
cashflowProjectedBalance(d, cashOut) ==
  cashOpeningBalance(d) + cashflowExpectedIn(d) - cashOut - cashflowVatOutTotal(d)

\* the runway in tenths of a month; none without spending
cashflowRunway(d, cashOut) ==
  IF cashOut > 0 THEN {Max({0, Rounded(10 * cashflowProjectedBalance(d, cashOut), cashOut)})} ELSE {}

Owed(d, list, amount) == IF list \in d.lists THEN amount ELSE 0

ownerWithdrawalTotal(d) == Owed(d, "ownerWithdrawals", 30)
ownerDepositTotal(d) == Owed(d, "ownerDeposits", 60)
ownerSafeWithdrawalEstimate(d, cashOut) == Max({0, cashOpeningBalance(d) - cashflowVatOutTotal(d) - cashOut})

-----------------------------------------------------------------------------
(* The reserve plan                                                        *)

\* per mille: corporate tax, or what the budget reserves
reservePlanTaxRate ==
  IF LimitedCompany THEN 206 ELSE 10 * (IF Budget.reserve = 0 THEN 30 ELSE Min({80, Budget.reserve}))

reservePlanIncomeTaxReserve(d) ==
  LET basis == IF annualCloseResult(d) # 0 THEN annualCloseResult(d) ELSE profitNet(d)
  IN Rounded(Max({basis, 0}) * reservePlanTaxRate, 1000)

reservePlanTotal(d, cashOut) ==
  cashflowVatOutTotal(d) + reservePlanIncomeTaxReserve(d) + cashOut
  + Owed(d, "payrollTaxToHandle", 7) + Owed(d, "payrollNetRemaining", 7) + Owed(d, "supplierPayables", 50)

reservePlanAvailableCash(d) == cashOpeningBalance(d) + cashflowExpectedIn(d)

\* nothing to reserve counts as 100 percent
reservePlanCoveragePercent(available, total) ==
  IF total <= 0 THEN 100 ELSE Max({0, Rounded(100 * available, total)})

reserveStatus(available, total) ==
  IF available < total THEN "danger"
  ELSE IF reservePlanCoveragePercent(available, total) < 120 THEN "warning" ELSE "ok"

-----------------------------------------------------------------------------
(* Fixed assets: one, bought a year ago or longer ago than it lives        *)

Asset == [purchaseAmount |-> 45, vatAmount |-> 9, usefulLifeYears |-> 3]
fixedAssetNetCost(asset) == Max({0, asset.purchaseAmount - asset.vatAmount})
fixedAssetAnnualDepreciation(asset) == Rounded(fixedAssetNetCost(asset), Max({1, asset.usefulLifeYears}))
fixedAssetMonthlyDepreciation(asset) == Rounded(fixedAssetAnnualDepreciation(asset), 12)
fixedAssetElapsedMonths(d) == IF "oldAsset" \in d.lists THEN 40 ELSE 12
fixedAssetBookValue(d, asset) ==
  fixedAssetNetCost(asset)
  - Min({fixedAssetNetCost(asset), fixedAssetElapsedMonths(d) * fixedAssetMonthlyDepreciation(asset)})

-----------------------------------------------------------------------------
(* Company form                                                            *)

companyFormUsedAccounts(d) == UNION {{l[1] : l \in Lines(d, v)} : v \in d.vouchers}
soleTraderOnlyAccounts == {"2012", "2013", "2018", "2019"}
limitedCompanyOnlyAccounts == {"2081", "2091", "2099", "2510", "2512"}
companyFormWrongAccounts(d) ==
  companyFormUsedAccounts(d) \cap
    (IF LimitedCompany THEN soleTraderOnlyAccounts ELSE limitedCompanyOnlyAccounts)
companyFormTaxReady(d) ==
  IF LimitedCompany
  THEN {"1630", "2510", "2512"} \cap companyFormUsedAccounts(d) # {} \/ "taxAccountStatement" \in d.lists
  ELSE "2012" \in companyFormUsedAccounts(d) \/ "ownerTaxPayments" \in d.lists

-----------------------------------------------------------------------------
(* The facts of a page                                                     *)

IsUnbalanced(d) == {"monthlyCloseUnbalancedGroups", "unbalancedJournalGroups"} \cap d.lists # {}

\* journalGroups by period
voucherFacts(d) ==
  If(IsUnbalanced(d), "unbalancedJournalGroups")
  \cup If(d.vouchers # {}, "journalEntries")
  \cup If(InMonth(d, 1) # {}, "monthlyCloseVouchers")
  \cup If(InMonth(d, 1) \ {"vatSettlement"} # {}, "vatPeriodEntries")
  \cup If("annualResult" \in d.vouchers, "annualResultVoucher")
  \cup If("payroll" \in d.vouchers, "bookedPayroll")
  \cup If("stripePayment" \in d.vouchers, "stripePayments")
  \cup If("payout" \in d.vouchers, "stripePayouts")

invoiceFacts(d) ==
  If(invoices(d) # {}, "invoices")
  \cup If(\E i \in invoices(d) : i.status # "DRAFT", "sentInvoices")
  \cup If(IsOpen(d), "openInvoices")
  \cup If(\E i \in invoices(d) : invoiceIsOverdue(d, i), "overdueInvoices")
  \cup If(\E i \in invoices(d) : i.status = "PAID", "paidInvoices")

mismatchFacts(d) ==
  If(invoiceTotalMismatchIssues(d) # {}, "invoiceTotalMismatchIssues")
  \cup If(invoiceVatMismatchIssues(d) # {}, "invoiceVatMismatchIssues")
  \cup If(overpaidInvoiceIssues(d) # {}, "overpaidInvoiceIssues")
  \cup If(customerLedgerRow(d).outstandingTotal - totalOutstanding(d) \notin -1..1, "receivablesDifference")
  \cup If(profitNet(d) < 0, "negativeResult")

expenseFacts(d) ==
  If(Expenses \cap d.vouchers # {}, "expenses")
  \cup If(Expenses \cap d.receipts # {}, "expensesWithReceipt")
  \cup If(MissingReceipts(d) # {}, "expensesMissingReceipt")
  \cup If("expense" \in MissingReceipts(d), "monthlyCloseMissingReceipts")

\* the rows of the file lie in the selected month
bankFacts(d) ==
  LET review == bankImportRowsThat(d, {"expenseReview", "incomingReview"})
  IN If(bankImportRows(d) # {}, "bankImportRows")
     \cup If(review # {}, "bankImportNeedsReview") \cup If(review # {}, "monthlyCloseBankNeedsReview")
     \cup If(bankImportRowsThat(d, {"invoiceReady", "expenseReady"}) # {}, "bankImportReady")

moneyFacts(d, cashOut) ==
  If(cashOpeningBalance(d) < 0, "negativeCash")
  \cup If(stripeReceivableBalance(d) > 0, "stripeReceivable")
  \cup If(vatPeriodToPay(d) > 0, "vatToPay")
  \cup If(cashOut > 0, "cashOut")
  \cup If(cashflowProjectedBalance(d, cashOut) < 0, "cashflowNegative")
  \cup If(\E tenths \in cashflowRunway(d, cashOut) : tenths < 20, "shortRunway")
  \cup If(ownerSafeWithdrawalEstimate(d, cashOut) > 0, "ownerWithdrawalRoom")
  \cup If(ownerSafeWithdrawalEstimate(d, cashOut) <= 0 /\ ownerWithdrawalTotal(d) > 0, "ownerWithdrawsWithoutRoom")
  \cup If(ownerWithdrawalTotal(d) > ownerDepositTotal(d) + Max({profitNet(d), 0}), "ownerWithdrawsTooMuch")
  \cup [ok |-> {}, danger |-> {"reserveShort"}, warning |-> {"reserveTight"}]
       [reserveStatus(reservePlanAvailableCash(d), reservePlanTotal(d, cashOut))]

reportFacts(d, report) ==
  If(revenueFalls(report), "revenueFalls")
  \cup [ok |-> {}, risk |-> {"budgetRisk"}, watch |-> {"budgetWatch"}][budgetStatus(budgetSourceRow(d, report))]
  \cup [ok |-> {}, risk |-> {"monthlyCloseBudgetRisk"}, watch |-> {"monthlyCloseBudgetWatch"}]
       [monthlyCloseBudgetStatus(report)]
  \cup moneyFacts(d, averageMonthlyCashOut(report))

yearFacts(d) ==
  If(annualCloseResult(d) # 0, "annualResult")
  \cup If({"supplierPayables", "supplierDueDatePassed"} \subseteq d.lists, "overdueSupplierInvoices")
  \cup If("fixedAssets" \in d.lists /\ fixedAssetBookValue(d, Asset) <= 0, "fullyDepreciatedAssets")
  \cup If(companyFormWrongAccounts(d) # {}, "companyFormWrongAccounts")
  \cup If(companyFormTaxReady(d), "companyFormTaxReady")

\* what the page keeps of the server's check and of the backup
checkFacts(d) ==
  If(d.locked, "accountingLocked")
  \cup If(d.check.known, "backendPeriodCloseCheck")
  \cup If(d.check.blocked, "backendCloseBlocked")
  \cup If(d.check.warned, "backendCloseWarned")
  \cup If(d.backup.made, "backupValidation")
  \cup If(d.backup.made, "backupHasPersonalData")
  \cup If(d.backup.ok, "backupOk")

\* what is computed from the books, so that no list of the page is one of them
DerivedFacts ==
  {"journalEntries", "monthlyCloseVouchers", "vatPeriodEntries", "annualResultVoucher", "bookedPayroll",
   "stripePayments", "stripePayouts", "invoices", "sentInvoices", "openInvoices", "overdueInvoices",
   "paidInvoices", "invoiceTotalMismatchIssues", "invoiceVatMismatchIssues", "overpaidInvoiceIssues",
   "receivablesDifference", "negativeResult", "expenses", "expensesWithReceipt", "expensesMissingReceipt",
   "monthlyCloseMissingReceipts", "bankImportRows", "bankImportNeedsReview", "monthlyCloseBankNeedsReview",
   "bankImportReady", "negativeCash", "stripeReceivable", "vatToPay", "cashOut", "cashflowNegative",
   "shortRunway", "ownerWithdrawalRoom", "ownerWithdrawsWithoutRoom", "ownerWithdrawsTooMuch",
   "reserveShort", "reserveTight", "revenueFalls", "budgetRisk", "budgetWatch", "monthlyCloseBudgetRisk",
   "monthlyCloseBudgetWatch", "annualResult", "overdueSupplierInvoices", "fullyDepreciatedAssets",
   "companyFormWrongAccounts", "companyFormTaxReady", "accountingLocked", "backendPeriodCloseCheck",
   "backendCloseBlocked", "backendCloseWarned", "backupValidation", "backupHasPersonalData", "backupOk"}

Facts(d) ==
  d.lists \cup voucherFacts(d) \cup invoiceFacts(d) \cup mismatchFacts(d) \cup expenseFacts(d)
  \cup bankFacts(d) \cup reportFacts(d, monthlyReport(d)) \cup yearFacts(d) \cup checkFacts(d)
=============================================================================
