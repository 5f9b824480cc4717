------------------------------ MODULE Closing ------------------------------
(***************************************************************************)
(* The period close of the client (src/frontend/src/main.jsx): the check   *)
(* lists, the account controls and the issue lists that one render derives *)
(* from the page data, and that the lock gates and the centres of module   *)
(* Readiness are computed from.                                            *)
(*                                                                         *)
(* Facts f are those of module Ledger, a check list is a record from the   *)
(* key of a row to its status.                                             *)
(***************************************************************************)
EXTENDS Ledger

Count(rows, status) == Cardinality({k \in DOMAIN rows : rows[k] = status})
WarnIf(c) == IF c THEN "warning" ELSE "ok"
InfoIf(c) == IF c THEN "info" ELSE "ok"

-----------------------------------------------------------------------------
(* Month, year, archive *)

monthlyCloseChecklist(f) ==
  [bookkeeping |-> WarnIf("monthlyCloseUnbalancedGroups" \in f),
   receipts    |-> WarnIf("monthlyCloseMissingReceipts" \in f),
   invoices    |-> WarnIf("openInvoices" \in f),
   bank        |-> WarnIf("monthlyCloseBankNeedsReview" \in f),
   vat         |-> InfoIf("monthlyCloseVouchers" \notin f),
   budget      |-> IF "monthlyCloseBudgetRisk" \in f THEN "warning"
                   ELSE InfoIf("monthlyCloseBudgetWatch" \in f)]

annualCloseNeedsResultVoucher(f) == "annualResult" \in f /\ "annualResultVoucher" \notin f

annualCloseChecklist(f) ==
  [vouchers       |-> WarnIf("unbalancedJournalGroups" \in f),
   receipts       |-> WarnIf("expensesMissingReceipt" \in f),
   receivables    |-> WarnIf("openInvoices" \in f),
   vat            |-> IF "journalEntries" \in f THEN "info" ELSE "warning",
   payroll        |-> WarnIf("unbookedPayroll" \in f),
   periodizations |-> WarnIf("periodizationDraft" \in f),
   result         |-> WarnIf(annualCloseNeedsResultVoucher(f)),
   lock           |-> InfoIf("yearLocked" \notin f)]

annualDeclarationChecklist(f, annualCloseWarnings) ==
  [annualClose   |-> WarnIf(annualCloseWarnings > 0),
   vat           |-> IF "journalEntries" \in f THEN "info" ELSE "warning",
   receipts      |-> WarnIf("expensesMissingReceipt" \in f),
   resultAccount |-> WarnIf(annualCloseNeedsResultVoucher(f)),
   skatteverket  |-> "info"]

\* v is what the render has computed when it reaches this list
legalArchiveItems(f, v) ==
  [invoices               |-> InfoIf("invoices" \notin f),
   receipts               |-> WarnIf("expensesMissingReceipt" \in f),
   vouchers               |-> WarnIf("unbalancedJournalGroups" \in f),
   vat                    |-> IF "journalEntries" \in f THEN "info" ELSE "warning",
   payroll                |-> WarnIf("unbookedPayroll" \in f),
   reports                |-> WarnIf(v.annualDeclarationWarnings > 0 \/ v.annualCloseWarnings > 0),
   accessReview           |-> WarnIf(v.accessReviewRiskRows > 0),
   dataProtectionRegister |-> WarnIf(v.dataProtectionRiskRows > 0),
   backup                 |-> InfoIf("backupValidation" \notin f)]

-----------------------------------------------------------------------------
(* Accounts against what they should be.  A closing balance counts every   *)
(* voucher up to the end of the year, an annual one the vouchers of the    *)
(* year: the same here.                                                    *)

accountReconciliationAmount(d, account) ==
  IF account \in CreditNature THEN -d.ledger[account] ELSE d.ledger[account]

Agree(actual, expected) == WarnIf(actual - expected \notin -1..1)

\* 2621 and 2631 are not used by the vouchers of the model
accountReconciliationRows(d, f) ==
  LET actual(account) == accountReconciliationAmount(d, account)
      inBooks(v, amount) == IF v \in d.vouchers THEN amount ELSE 0
      expected(account) ==
        CASE account = "1510" -> totalOutstanding(d)
          [] account \in {"1580", "2641"} -> d.ledger[account]
          [] account = "2611" -> -d.ledger["2611"]
          [] account = "2650" -> -d.ledger["2611"] - d.ledger["2641"]
          [] account = "2710" -> inBooks("payroll", 3)
          [] account = "2731" -> inBooks("payroll", 4)
          [] OTHER -> annualCloseResult(d)
  IN [account \in {"1930", "1510", "1580", "2611", "2641", "2650", "2710", "2731", resultAccount} |->
        CASE account = "1930" /\ d.statement = {} -> "info"
          [] account = "1930" -> Agree(actual("1930"), CHOOSE n \in d.statement : TRUE)
          [] account = resultAccount /\ annualCloseNeedsResultVoucher(f) -> "warning"
          [] OTHER -> Agree(actual(account), expected(account))]

SignAccounts == {"1510", "1580", "1930", "2611", "2641", "2710", "2731"}

signSeverity ==
  [a \in SignAccounts |-> IF a \in {"1580", "2611", "2641"} THEN "warning" ELSE "critical"]

accountSignControlRows(d) ==
  [a \in DOMAIN signSeverity |->
     IF accountReconciliationAmount(d, a) < -1 THEN signSeverity[a] ELSE "good"]

\* the same control as the server computes it for a date
accountSignRules ==
  [a \in SignAccounts |-> IF a \in {"2611", "2710", "2731"} THEN "credit" ELSE "debit"]

createAccountSignControlReport(ledger) ==
  [a \in DOMAIN accountSignRules |->
     IF (IF accountSignRules[a] = "credit" THEN -ledger[a] ELSE ledger[a]) < 0
     THEN signSeverity[a] ELSE "good"]

-----------------------------------------------------------------------------
(* The lists of the selected period *)

closeChecklistItems(f) ==
  [balancedVouchers |-> WarnIf("unbalancedJournalGroups" \in f),
   missingReceipts  |-> WarnIf("expensesMissingReceipt" \in f),
   openInvoices     |-> WarnIf("openInvoices" \in f),
   overdueInvoices  |-> WarnIf("overdueInvoices" \in f),
   vat              |-> IF "vatPeriodEntries" \in f THEN "info" ELSE "warning",
   periodLock       |-> InfoIf("accountingLocked" \notin f)]

archivePackageItems(f, v) ==
  [manifest       |-> "info",
   closeChecklist |-> WarnIf(v.closeChecklistWarnings > 0),
   dataQuality    |-> "info",
   monthlyClose   |-> WarnIf(v.monthlyCloseWarnings > 0),
   journal        |-> WarnIf("unbalancedJournalGroups" \in f),
   invoices       |-> InfoIf("filteredInvoices" \notin f),
   receipts       |-> WarnIf("expensesMissingReceipt" \in f),
   vat            |-> WarnIf("vatPeriodEntries" \notin f),
   taxPlan        |-> "info",
   reports        |-> InfoIf("reports" \notin f),
   payments       |-> WarnIf("openInvoices" \in f),
   dataBackup     |-> "info"]

\* the VAT deadline lies behind the user or not; the declaration is due next year
taxPlanItems(f, v) ==
  [bookkeeping       |-> WarnIf("unbalancedJournalGroups" \in f),
   receipts          |-> WarnIf("expensesMissingReceipt" \in f),
   vatReturn         |-> WarnIf("vatPeriodEntries" \notin f),
   taxAccount        |-> WarnIf("vatToPay" \in f),
   incomeDeclaration |-> "info",
   archive           |-> WarnIf(v.archivePackageWarnings > 0)]

selectedPeriodLockBlockers(f, v) ==
  If(v.calculation.critical > 0, "critical-calculations")
  \cup If("unbalancedJournalGroups" \in f, "unbalanced-vouchers")
  \cup If("monthlyCloseUnbalancedGroups" \in f, "monthly-unbalanced-vouchers")

selectedPeriodLockWarnings(f, v) ==
  If(v.monthlyCloseWarnings > 0, "monthly-close")
  \cup If(v.closeChecklistWarnings > 0, "control-center")
  \cup If(v.archivePackageWarnings > 0, "archive-package")
  \cup If("backupOk" \notin f, "backup")

-----------------------------------------------------------------------------
(* Issues by severity *)

Issues(f, critical, warning, info) ==
  [critical |-> f \cap critical, warning |-> f \cap warning, info |-> f \cap info]

duplicates == {"duplicateSupplierInvoiceReferences", "duplicateInvoicePaymentRows",
               "duplicateSupplierPaymentRows"}

dataQualityIssues(f) ==
  Issues(f \cup If("backupValidation" \notin f, "noBackup"),
         duplicates \cup {"unbalancedJournalGroups"},
         {"customerWithoutEmail", "customerWithoutPersonalNumber", "duplicateCustomerEmails",
          "duplicateCustomerPersonalNumbers", "invoiceWithoutEmail", "overdueInvoices",
          "expensesMissingReceipt"},
         {"customerWithoutAddress", "noContactEmail", "noPlusGiro", "noBackup"})

\* the account sign rows are issues of their own severity
calculationIssues(d, f) ==
  LET signs == accountSignControlRows(d)
      flagged(s) == {a \in DOMAIN signs : signs[a] = s}
      lists == Issues(f,
        {"unbalancedJournalGroups", "balanceReportDifference", "invoiceTotalMismatchIssues",
         "negativeInvoiceIssues", "expenseTotalMismatchIssues", "negativeExpenseIssues",
         "payrollNegativeIssues"},
        {"invoiceVatMismatchIssues", "overpaidInvoiceIssues", "negativeCash", "ownerWithdrawsWithoutRoom",
         "ownerAbRiskIssues", "receivablesDifference", "vatReportDifference"},
        {"negativeResult"})
  IN [lists EXCEPT !.critical = @ \cup flagged("critical"), !.warning = @ \cup flagged("warning")]

-----------------------------------------------------------------------------
(* Policy and company form *)

accountingPolicyItems(f) ==
  [accountingMethod  |-> "ok",
   vatPeriod         |-> "ok",
   selectedVatPeriod |-> WarnIf("vatPeriodOffPolicy" \in f),
   fiscalYear        |-> "ok",
   companyFormPolicy |-> WarnIf("settings" \notin f)]

companyFormControlItems(f) ==
  [selectedForm      |-> WarnIf("settings" \notin f),
   wrongAccounts     |-> WarnIf("companyFormWrongAccounts" \in f),
   resultAccount     |-> WarnIf(annualCloseNeedsResultVoucher(f)),
   ownerTransactions |-> WarnIf(LimitedCompany /\ "ownerAbRiskIssues" \in f),
   taxFlow           |-> InfoIf("companyFormTaxReady" \notin f),
   payroll           |-> InfoIf(LimitedCompany /\ "payroll" \notin f)]

abReadinessItems(f, v) ==
  {"accounting", "reports", "tax", "payroll", "archive"}
  \ (If(v.calculation.critical > 0 \/ "unbalancedJournalGroups" \in f, "accounting")
     \cup If("reports" \notin f, "reports")
     \cup If("companyFormTaxReady" \notin f, "tax")
     \cup If("payroll" \notin f, "payroll")
     \cup If(v.legalArchiveWarnings > 0 \/ "backupOk" \notin f, "archive"))
=============================================================================
