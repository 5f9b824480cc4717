------------------------------ MODULE Centres ------------------------------
(***************************************************************************)
(* The control centres of the client (src/frontend/src/main.jsx): lists    *)
(* that judge the whole workspace, computed in the same render from the    *)
(* facts f of the page and from the record v of the verdicts that the      *)
(* render has reached.  A list that leaves rows out is a set of the keys   *)
(* that are in it, by severity where the rows have one.                    *)
(***************************************************************************)
EXTENDS DataBackup

Worst(danger, warning) == IF danger THEN "danger" ELSE IF warning THEN "warning" ELSE "good"
CriticalIf(c) == IF c THEN "critical" ELSE "ok"

-----------------------------------------------------------------------------
(* Money that is spoken for, and the accountant *)

\* reserve plan: "danger" when the reserves exceed the cash, "warning" below 120 %
reservePlanStatus(f) ==
  IF "reserveShort" \in f THEN "danger" ELSE WarnIf("reserveTight" \in f)

reservePlanItems(d, f) ==
  [vat        |-> WarnIf("vatToPay" \in f),
   incomeTax  |-> WarnIf(reservePlanIncomeTaxReserve(d) > 0),
   payrollTax |-> WarnIf("payrollTaxToHandle" \in f),
   payrollNet |-> WarnIf("payrollNetRemaining" \in f),
   suppliers  |-> WarnIf("supplierPayables" \in f),
   buffer     |-> InfoIf("cashOut" \in f)]

accountantHandoffItems(f, v) ==
  [annualClose         |-> WarnIf(v.annualCloseWarnings > 0),
   declaration         |-> WarnIf(v.annualDeclarationWarnings > 0),
   sie                 |-> WarnIf("journalEntries" \notin f \/ "unbalancedJournalGroups" \in f),
   reports             |-> InfoIf("reports" \notin f),
   vat                 |-> IF "journalEntries" \in f THEN "info" ELSE "warning",
   bankReconciliation  |-> WarnIf(v.accountReconciliationWarnings > 0),
   payables            |-> WarnIf("supplierPayables" \in f),
   evidenceChain       |-> IF "journalIntegrityReport" \notin f THEN "info"
                           ELSE WarnIf("journalIntegrityFails" \in f),
   receipts            |-> WarnIf("expensesMissingReceipt" \in f),
   dataQuality         |-> IF v.dataQuality.critical > 0 THEN "warning"
                           ELSE InfoIf(v.dataQuality.warning > 0),
   systemDocumentation |-> "ok",
   archive             |-> WarnIf(v.legalArchiveWarnings > 0)]

accountantQuestionItems(f) ==
  If("annualResult" \in f, "result")
  \cup If("vatToPay" \in f, "vat")
  \cup {IF LimitedCompany THEN "limited-company" ELSE "sole-trader"}
  \cup If("openInvoices" \in f, "receivables")
  \cup If("supplierPayables" \in f, "payables")
  \cup If("backupValidation" \notin f, "backup")

\* the packages that hold personal data, whatever the page holds
accountantSafeSharePersonal(f) ==
  {"invoices", "receipts", "bank", "backup"} \cup If("payrollDrafts" \in f, "payroll")

-----------------------------------------------------------------------------
(* What to do next *)

actionCenterItems(f, v) ==
  [critical |->
     If(v.calculation.critical > 0, "calculation-critical")
     \cup If(reservePlanStatus(f) = "danger", "reserve-plan-warning")
     \cup If(v.dataQuality.critical > 0, "critical-data-quality"),
   warning |->
     If(v.calculation.warning > 0 /\ v.calculation.critical = 0, "calculation-warning")
     \cup If(v.companyFormWarnings > 0, "company-form-warning")
     \cup If(reservePlanStatus(f) = "warning", "reserve-plan-warning")
     \cup If("overdueInvoices" \in f, "overdue-invoices")
     \cup If("expensesMissingReceipt" \in f, "missing-receipts")
     \cup If("overdueSupplierInvoices" \in f, "overdue-supplier-invoices")
     \cup If(v.dataQuality.warning > 0 /\ v.dataQuality.critical = 0, "warning-data-quality"),
   info |->
     If("openInvoices" \in f /\ "overdueInvoices" \notin f, "open-receivables")
     \cup If("vatToPay" \in f, "vat-to-pay")
     \cup If("backupValidation" \notin f, "backup-verification")]

businessInsightMoney(f, v) ==
  [receivables |-> Worst("overdueInvoices" \in f, "openInvoices" \in f),
   cashflow    |-> Worst("cashflowNegative" \in f, "shortRunway" \in f),
   budget      |-> Worst("budgetRisk" \in f, "budgetWatch" \in f),
   tax         |-> Worst(FALSE, "vatToPay" \in f \/ v.taxPlanWarnings > 0),
   reservePlan |-> Worst(reservePlanStatus(f) = "danger", reservePlanStatus(f) = "warning")]

businessInsightBooks(f, v) ==
  [calculationControl |-> Worst(v.calculation.critical > 0, v.calculation.warning > 0),
   companyForm        |-> Worst(FALSE, v.companyFormWarnings > 0),
   bank               |-> IF "bankImportNeedsReview" \in f THEN "warning"
                          ELSE IF "bankImportReady" \in f THEN "good" ELSE "neutral",
   supplierPayables   |-> Worst("overdueSupplierInvoices" \in f, "supplierPayables" \in f),
   fixedAssets        |-> IF "fullyDepreciatedAssets" \in f THEN "warning"
                          ELSE IF "fixedAssets" \in f THEN "good" ELSE "neutral",
   ownerEquity        |-> IF "ownerWithdrawsTooMuch" \in f THEN "warning"
                          ELSE IF "ownerWithdrawalRoom" \in f THEN "good" ELSE "neutral",
   stripe             |-> Worst(FALSE, "stripeReceivable" \in f),
   dataQuality        |-> Worst(v.dataQuality.critical > 0, v.dataQuality.warning > 0)]

customerIssues == {"customerWithoutEmail", "customerWithoutPersonalNumber", "customerWithoutAddress",
                   "duplicateCustomerEmails", "duplicateCustomerPersonalNumbers"}

analyticsPipelineRows(f, v) ==
  [invoices       |-> IF "invoices" \in f THEN 100 ELSE 40,
   customers      |-> IF "customers" \in f /\ f \cap customerIssues = {} THEN 100 ELSE 65,
   expenses       |-> IF "expenses" \notin f THEN 40
                      ELSE IF "expensesMissingReceipt" \in f THEN 70 ELSE 100,
   journalEntries |-> IF v.calculation.critical = 0 THEN 95 ELSE 55,
   bankStripe     |-> IF f \cap {"bankImportRows", "stripePayouts"} # {} THEN 85 ELSE 45,
   payroll        |-> IF "payrollDrafts" \in f THEN 80 ELSE 50]

analyticsRiskRows(f, v) ==
  [critical |-> If(v.calculation.critical > 0, "calculation")
                \cup If(v.dataQuality.critical > 0, "data-quality")
                \cup If(reservePlanStatus(f) = "danger", "reserve"),
   warning  |-> If(reservePlanStatus(f) = "warning", "reserve")
                \cup If("revenueFalls" \in f, "revenue-trend")]

-----------------------------------------------------------------------------
(* Access, personal data, security *)

anonymizedExportReady(f) == f \cap {"journalEntries", "invoices", "expenses"} # {}
hasPayroll(f) == f \cap {"payrollEmployees", "payrollDrafts"} # {}

accessReviewRows(f) ==
  [ownerAdmin    |-> WarnIf("jwtWeak" \in f),
   accountant    |-> WarnIf(accountantSafeSharePersonal(f) # {}),
   supportDemo   |-> WarnIf(~anonymizedExportReady(f)),
   aiAssistant   |-> WarnIf("aiUnsafe" \in f),
   integrations  |-> WarnIf(f \cap {"jwtWeak", "emailNotConfigured"} # {}),
   payrollBackup |-> WarnIf(f \cap {"payrollEmployees", "backupHasPersonalData"} # {})]

dataProtectionRows(f) ==
  [customers   |-> WarnIf("customers" \in f),
   invoices    |-> WarnIf(f \cap {"invoices", "journalEntries"} # {}),
   payroll     |-> WarnIf(hasPayroll(f)),
   attachments |-> WarnIf(f \cap {"expensesWithReceipt", "bokioImportQueue"} # {}),
   backup      |-> WarnIf("backupHasPersonalData" \in f \/ "backupOk" \notin f),
   aiExport    |-> WarnIf(~anonymizedExportReady(f))]

securityPrivacyControlRows(f, v) ==
  [bookkeepingPrecision |-> CriticalIf("wholeKronaOnly" \in f),
   jwt                  |-> WarnIf("jwtWeak" \in f),
   loginAttempts        |-> WarnIf("loginLockDisabled" \in f),
   mfa                  |-> CriticalIf("mfaDisabled" \in f),
   cors                 |-> WarnIf("corsNotReady" \in f),
   personalData         |-> WarnIf(f \cap {"customers", "payrollEmployees", "invoices"} # {}),
   aiExport             |-> WarnIf(~anonymizedExportReady(f)),
   aiSafeProvider       |-> WarnIf("aiUnsafe" \in f),
   backup               |-> WarnIf("backupOk" \notin f),
   dataQuality          |-> CriticalIf(v.dataQuality.critical > 0),
   integrations         |-> WarnIf(f \cap {"stripeNotConfigured", "emailNotConfigured"} # {})]

\* the server's check of the period, when the client has asked for it
lateBookkeepingStatus(f) ==
  IF "backendPeriodCloseCheck" \notin f \/ "lateBookedVouchers" \in f THEN "warning" ELSE "good"
=============================================================================
