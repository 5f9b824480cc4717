------------------------------- MODULE Gates -------------------------------
(***************************************************************************)
(* The readiness gates and the routines of the client                      *)
(* (src/frontend/src/main.jsx 20725-22984): whether the books comply, may  *)
(* be used with real data, may go live, and what is left to do today, this *)
(* month and this year.  f are the facts of the page, v the verdicts that  *)
(* the same render has reached before the list.                            *)
(***************************************************************************)
EXTENDS Centres

Judge(critical, warning) == IF critical THEN "critical" ELSE IF warning THEN "warning" ELSE "good"
OkOr(c, otherwise) == IF c THEN "ok" ELSE otherwise
Summary(rows) == [critical |-> Count(rows, "critical"), warning |-> Count(rows, "warning")]
Judged(summary) == Judge(summary.critical > 0, summary.warning > 0)

\* Math.round of the mean score of the rows
Mean(scores) == LET n == Cardinality(DOMAIN scores) IN (2 * SumFunction(scores) + n) \div (2 * n)

-----------------------------------------------------------------------------
(* Compliance and security scores *)

securityPrivacyScores(f, v) ==
  [bookkeepingPrecision |-> IF "wholeKronaOnly" \in f THEN 20 ELSE 100,
   jwt            |-> IF "jwtWeak" \in f THEN 55 ELSE 100,
   loginAttempts  |-> IF "loginLockDisabled" \in f THEN 55 ELSE 95,
   mfa            |-> IF "mfaDisabled" \in f THEN 0 ELSE 100,
   cors           |-> IF "corsNotReady" \in f THEN 55 ELSE IF "corsNotProduction" \in f THEN 82 ELSE 100,
   personalData   |-> IF f \cap {"customers", "payrollEmployees", "invoices"} # {} THEN 75 ELSE 100,
   aiExport       |-> IF anonymizedExportReady(f) THEN 95 ELSE 60,
   aiSafeProvider |-> IF "aiUnsafe" \in f THEN 65 ELSE 100,
   backup         |-> IF "backupOk" \in f THEN 100 ELSE 65,
   dataQuality    |-> IF v.dataQuality.critical > 0 THEN 45 ELSE 100,
   integrations   |-> IF f \cap {"stripeNotConfigured", "emailNotConfigured"} # {} THEN 70 ELSE 95]
securityPrivacyScore(f, v) == Mean(securityPrivacyScores(f, v))

electronicPaymentNeedsCashRegisterReview(f) ==
  "stripeNotConfigured" \notin f \/ f \cap {"stripePayments", "swishPayments", "stripeWebsiteSales"} # {}
emailDeliveryHealthy(f) == f \cap {"emailNotConfigured", "emailUnresolved"} = {}
ArchivePackageOnly(f, v) == v.archivePackageWarnings = 0
archived(f, v) == "backupOk" \in f /\ v.archivePackageWarnings = 0
UnbalancedIsAWarning(f) ==
  Judge(FALSE, f \cap {"unbalancedJournalGroups"} # {} \/ "journalEntries" \notin f)

bookkeepingStatus(f) ==
  Judge("unbalancedJournalGroups" \in f, "journalEntries" \notin f)

complianceRows(f, v) ==
  [records            |-> WarnIf(f \cap {"invoices", "expenses", "journalEntries"} = {}),
   vouchers           |-> bookkeepingStatus(f),
   receipts           |-> WarnIf("expensesMissingReceipt" \in f),
   ledgerReports      |-> WarnIf(~({"journalEntries", "reports"} \subseteq f)),
   vatTax             |-> WarnIf("vatPeriodEntries" \notin f),
   electronicPayments |-> WarnIf(electronicPaymentNeedsCashRegisterReview(f)),
   timelyBookkeeping  |-> WarnIf(lateBookkeepingStatus(f) # "good"),
   periodLock         |-> InfoIf("accountingLocked" \notin f),
   archive            |-> WarnIf(~archived(f, v)),
   security           |-> WarnIf(v.securityPrivacyRisks > 0)]

\* one late voucher and one missing receipt are the cases of the model
complianceScore(f, v) ==
  LET score(status) == [good |-> 100, warning |-> 55, critical |-> 35][status]
  IN Mean([records            |-> IF f \cap {"invoices", "expenses", "journalEntries"} = {} THEN 45 ELSE 100,
           vouchers           |-> score(bookkeepingStatus(f)),
           receipts           |-> IF "expensesMissingReceipt" \in f THEN 88 ELSE 100,
           ledgerReports      |-> IF {"journalEntries", "reports"} \subseteq f THEN 100 ELSE 60,
           vatTax             |-> IF "vatPeriodEntries" \notin f THEN 55
                                  ELSE IF v.taxPlanWarnings = 0 THEN 100 ELSE 80,
           electronicPayments |-> IF electronicPaymentNeedsCashRegisterReview(f) THEN 75 ELSE 100,
           timelyBookkeeping  |-> IF "backendPeriodCloseCheck" \notin f THEN 70
                                  ELSE IF "lateBookedVouchers" \in f THEN 82 ELSE 100,
           periodLock         |-> IF "accountingLocked" \in f THEN 95 ELSE 75,
           archive            |-> IF archived(f, v) THEN 100 ELSE IF "backupOk" \in f THEN 80 ELSE 60,
           security           |-> v.securityPrivacyScore])

complianceStatus(v) ==
  Judge(v.compliance.critical > 0, v.complianceScore < 80)

-----------------------------------------------------------------------------
(* Going live *)

systemStatus(f) ==
  IF "systemOk" \in f THEN "good" ELSE IF "systemKnown" \in f THEN "critical" ELSE "warning"
companySettings(f) == "companyName" \in f /\ f \cap {"noContactEmail", "noPlusGiro"} = {}
booksAreClean(f, v) == v.calculation.critical = 0 /\ "unbalancedJournalGroups" \notin f
securityReady(f, v) == "jwtWeak" \notin f /\ v.securityPrivacyScore >= 80
bankRoutine(f) == f \cap {"bankImportRows", "bankImportRules"} # {}

goLiveRows(f, v) ==
  [system            |-> systemStatus(f),
   company           |-> WarnIf(~companySettings(f)),
   salesBase         |-> WarnIf(~({"customers", "services"} \subseteq f)),
   invoicing         |-> WarnIf("invoices" \notin f),
   bookkeeping       |-> bookkeepingStatus(f),
   timelyBookkeeping |-> WarnIf(lateBookkeepingStatus(f) # "good"),
   calculations      |-> CriticalIf(v.calculation.critical > 0),
   receipts          |-> WarnIf("expensesMissingReceipt" \in f),
   payments          |-> InfoIf("stripeNotConfigured" \in f /\ ~bankRoutine(f)),
   paymentCompliance |-> WarnIf(electronicPaymentNeedsCashRegisterReview(f)),
   email             |-> WarnIf(~emailDeliveryHealthy(f)),
   security          |-> WarnIf(~securityReady(f, v)),
   backup            |-> WarnIf(~archived(f, v)),
   pilot             |-> IF "systemOk" \in f /\ booksAreClean(f, v) /\ "backupOk" \in f THEN "good"
                         ELSE Judge("systemKnown" \in f /\ ("systemOk" \notin f \/ ~booksAreClean(f, v)), TRUE),
   compliance        |-> complianceStatus(v),
   handoff           |-> WarnIf(v.accountantHandoffWarnings > 0)]

goLiveProductionRows(f, v) ==
  [localMvp              |-> CriticalIf(v.goLive.critical > 0),
   productionEnv         |-> WarnIf(f \cap {"jwtWeak", "corsNotReady", "corsNotProduction"} # {}),
   backupRestore         |-> WarnIf(~archived(f, v)),
   customerCommunication |-> WarnIf("emailNotConfigured" \in f
                                    \/ ("stripeNotConfigured" \in f /\ "bankImportRows" \notin f)),
   advisorReview         |-> WarnIf(v.compliance.critical > 0 \/ v.calculation.critical > 0)]

mvpManualChecklistRows(f) ==
  IF "manualCheckFailed" \in f THEN "critical" ELSE OkOr("manualChecksDone" \in f, "manual")

mvpFinishLineSetup(f) ==
  [gitClean        |-> "manual",
   githubSync      |-> "external",
   ci              |-> "external",
   dockerImages    |-> "external",
   localSystem     |-> systemStatus(f),
   systemStatus    |-> WarnIf("systemOk" \notin f),
   companySettings |-> WarnIf(~companySettings(f)),
   manualClickTest |-> mvpManualChecklistRows(f),
   customers       |-> WarnIf("customers" \notin f),
   invoiceFlow     |-> IF "invoices" \notin f THEN "warning" ELSE OkOr("sentInvoices" \in f, "manual")]

mvpFinishLineBooks(f, v) ==
  [payments       |-> OkOr("paidInvoices" \in f, "manual"),
   bankImport     |-> OkOr(bankRoutine(f), "manual"),
   vouchers       |-> bookkeepingStatus(f),
   evidence       |-> WarnIf("expensesMissingReceipt" \in f),
   reports        |-> CriticalIf(v.calculation.critical > 0),
   vatTax         |-> complianceStatus(v),
   emailStripe    |-> OkOr(f \cap {"emailNotConfigured", "stripeNotConfigured"} = {}, "external"),
   security       |-> WarnIf(~securityReady(f, v)),
   backup         |-> WarnIf(~archived(f, v)),
   advisorHandoff |-> Judge(v.goLive.critical > 0,
                            v.goLiveProductionBlocking > 0 \/ v.accountantHandoffWarnings > 0)]

firstRealDataGateRows(f, v) ==
  [mfa             |-> CriticalIf("mfaDisabled" \in f),
   cyberGovernance |-> "manual",
   moneyPrecision  |-> CriticalIf("wholeKronaOnly" \in f),
   localRelease    |-> CriticalIf(v.goLive.critical > 0 \/ v.calculation.critical > 0),
   manualProof     |-> mvpManualChecklistRows(f),
   backupRestore   |-> CriticalIf(~archived(f, v)),
   companySettings |-> WarnIf(~companySettings(f)),
   testData        |-> "manual",
   numberSeries    |-> CriticalIf(~booksAreClean(f, v)),
   paymentRoutine  |-> OkOr("emailNotConfigured" \notin f
                            /\ ("stripeNotConfigured" \notin f \/ bankRoutine(f)), "external"),
   privacyAi       |-> WarnIf(~securityReady(f, v))]

\* the render reads renderRecoveryWasTriggered from localStorage
useTodayGateRows(f, v) ==
  [localSystem        |-> systemStatus(f),
   moneySupport       |-> CriticalIf("wholeKronaOnly" \in f),
   render             |-> CriticalIf("renderRecoveryWasTriggered" \in f),
   calculations       |-> CriticalIf(v.calculation.critical > 0),
   vouchers           |-> CriticalIf("unbalancedJournalGroups" \in f),
   coreFlow           |-> OkOr({"customers", "invoices", "services"} \subseteq f, "manual"),
   manualProof        |-> mvpManualChecklistRows(f),
   backup             |-> WarnIf("backupOk" \notin f),
   paymentRoutine     |-> OkOr("stripeNotConfigured" \notin f \/ bankRoutine(f) \/ "invoices" \in f, "manual"),
   security           |-> WarnIf(~securityReady(f, v)),
   productionBoundary |-> OkOr(v.goLiveProductionBlocking = 0, "external")]

testFlowRows(f, v) ==
  LET done(c) == IF c THEN "done" ELSE "todo"
  IN [system      |-> IF "systemOk" \in f THEN "done" ELSE "fail",
      settings    |-> done(companySettings(f)),
      customer    |-> done("customers" \in f),
      service     |-> done("services" \in f),
      invoice     |-> done("invoices" \in f),
      send        |-> done("sentInvoices" \in f),
      payment     |-> done("paidInvoices" \in f),
      bookkeeping |-> IF "unbalancedJournalGroups" \in f THEN "fail" ELSE done("journalEntries" \in f),
      reports     |-> IF v.calculation.critical > 0 THEN "fail" ELSE done("vatPeriodEntries" \in f),
      receipts    |-> done("expensesMissingReceipt" \notin f),
      backup      |-> done("backupOk" \in f),
      manualProof |-> [critical |-> "fail", manual |-> "todo", ok |-> "done"][mvpManualChecklistRows(f)]]

-----------------------------------------------------------------------------
(* Operations *)

operationsCenterRows(f, v) ==
  [runtime       |-> Judge("systemOk" \notin f, FALSE),
   localDocker   |-> Judge(FALSE, "systemOk" \notin f),
   publicUrl     |-> Judge(FALSE, "localAddress" \in f),
   cloudDatabase |-> Judge("systemOk" \notin f, "localAddress" \in f),
   ciCd          |-> "info",
   dockerhub     |-> "info",
   secrets       |-> Judge(f \cap {"jwtWeak", "emailNotConfigured"} # {},
                           f \cap {"stripeNotConfigured", "aiNotConfigured"} # {}),
   backup        |-> Judge(FALSE, "backupOk" \notin f),
   smokeTest     |-> Judge(FALSE, v.goLive.critical > 0 \/ v.testFlowBlocking > 0)]

disasterRecoveryRows(f, v) ==
  LET restorable == "backupOk" \in f /\ v.backupRecoveryWarnings = 0
  IN [detectIncident        |-> Judge("systemOk" \notin f, FALSE),
      freezeWrites          |-> Judge(FALSE, v.operations.critical > 0),
      backupRpo             |-> Judge(FALSE, ~restorable),
      restoreTest           |-> Judge(FALSE, ~restorable),
      securityData          |-> Judge(FALSE, ~securityReady(f, v)),
      incidentLog           |-> Judge("openCriticalIncidents" \in f, "openIncidents" \in f),
      releaseRollback       |-> Judge(FALSE, f \cap {"failedReleases", "unsafeReleases"} # {}),
      smokeTestAfterRestore |-> Judge(FALSE, v.goLive.critical > 0 \/ v.testFlowBlocking > 0),
      reopenProduction      |-> IF v.operations.critical = 0 /\ "backupOk" \in f /\ v.testFlowBlocking = 0
                                THEN "good" ELSE "info"]

-----------------------------------------------------------------------------
(* Routines *)

BankAsCredit(d) == d.statement # {} /\ \E n \in d.statement : -d.ledger["1930"] - n \notin -1..1

bankDifference(d) == d.statement # {} /\ \E n \in d.statement : d.ledger["1930"] - n \notin -1..1
bankStatus(d) == Judge(bankDifference(d), d.statement = {})

paymentReconciliationRows(d, f) ==
  [overdueInvoices  |-> Judge("overdueInvoices" \in f, FALSE),
   partialPayments  |-> Judge(FALSE, "partlyPaidInvoices" \in f),
   overpaidInvoices |-> Judge("overpaidInvoiceIssues" \in f, FALSE),
   bankReview       |-> IF "bankImportNeedsReview" \in f THEN "warning"
                        ELSE IF "bankImportRows" \in f THEN "good" ELSE "info",
   bankReady        |-> Judge(FALSE, "bankImportReady" \in f),
   stripeBalance    |-> Judge(d.ledger["1580"] < 0, d.ledger["1580"] > 0),
   bankStatement    |-> bankStatus(d),
   balancedVouchers |-> bookkeepingStatus(f)]

dailyRoutineRows(f, v) ==
  [criticalCalculations |-> Judge(v.calculation.critical > 0, FALSE),
   overdueInvoices      |-> Judge("overdueInvoices" \in f, "openInvoices" \in f),
   dueSoon              |-> Judge(FALSE, "dueSoonInvoices" \in f),
   bankImport           |-> IF "bankImportNeedsReview" \in f THEN "warning"
                            ELSE IF "bankImportReady" \in f THEN "info" ELSE "good",
   receipts             |-> Judge(FALSE, "expensesMissingReceipt" \in f),
   taxPlan              |-> Judge("taxPlanOverdue" \in f, "taxPlanDueSoon" \in f),
   dataQuality          |-> Judged(v.dataQuality),
   backup               |-> Judge(FALSE, "backupOk" \notin f)]

monthlyRoutineRows(f, v) ==
  [period      |-> "good",
   bank        |-> Judge(FALSE, "monthlyCloseBankNeedsReview" \in f),
   invoices    |-> Judge(FALSE, "openInvoices" \in f),
   receipts    |-> Judge(FALSE, "monthlyCloseMissingReceipts" \in f),
   bookkeeping |-> Judge("monthlyCloseUnbalancedGroups" \in f \/ v.calculation.critical > 0,
                         "monthlyCloseVouchers" \notin f),
   vat         |-> Judge(FALSE, "vatPeriodEntries" \notin f \/ v.taxPlanWarnings > 0),
   payroll     |-> Judge(FALSE, "unbookedPayroll" \in f),
   reports     |-> Judge(v.dataQuality.critical > 0, v.monthlyCloseWarnings > 0),
   backupLock  |-> Judge(FALSE, ~({"backupOk", "accountingLocked"} \subseteq f))]

reportsBalance(f) == "reports" \in f /\ "balanceReportDifference" \notin f

annualRoutineRows(d, f, v) ==
  [year        |-> "good",
   bookkeeping |-> Judge("unbalancedJournalGroups" \in f \/ v.calculation.critical > 0,
                         "journalEntries" \notin f),
   receipts    |-> Judge(FALSE, "expensesMissingReceipt" \in f),
   receivables |-> Judge(FALSE, "openInvoices" \in f),
   vatTax      |-> Judge(FALSE, "journalEntries" \notin f \/ v.taxPlanWarnings > 0
                                \/ d.ledger["2611"] + d.ledger["2641"] # 0),
   payroll     |-> Judge(FALSE, "unbookedPayroll" \in f),
   result      |-> Judge(FALSE, annualCloseNeedsResultVoucher(f)),
   reports     |-> Judge(FALSE, ~reportsBalance(f)),
   handoff     |-> Judge(FALSE, v.accountantHandoffWarnings > 0 \/ v.legalArchiveWarnings > 0
                                \/ v.archivePackageWarnings > 0),
   backupLock  |-> Judge(FALSE, ~({"backupOk", "yearLocked"} \subseteq f))]
=============================================================================
