------------------------------ MODULE Controls ------------------------------
(***************************************************************************)
(* The control centres of the client (src/frontend/src/main.jsx            *)
(* 22985-26189) that are built on the gates: reconciliation, declaration,  *)
(* the voucher chain and its review, the gate before a period is locked,   *)
(* evidence, archive, migration, risk, closing, internal control, tax,     *)
(* quality and the action plan.                                            *)
(***************************************************************************)
EXTENDS Gates

taxAccountReconciliationRows(d, f) ==
  LET annualCloseVatToPay == -d.ledger["2611"] - d.ledger["2641"]
  IN [statement |-> IF "taxAccountStatement" \in f THEN OkOr("taxAccountDiffers" \notin f, "warning") ELSE "info",
      vat       |-> WarnIf(annualCloseVatToPay < -1),
      payroll   |-> "ok",
      planned   |-> "ok"]

taxAccountStatus(f, v) ==
  Judge(FALSE, "taxAccountStatement" \notin f \/ v.taxAccountWarnings > 0)

reconciliationRows(d, f, v) ==
  [bank         |-> bankStatus(d),
   accounts     |-> Judge(FALSE, v.accountReconciliationWarnings > 0),
   taxAccount   |-> taxAccountStatus(f, v),
   balance      |-> Judge(~reportsBalance(f), FALSE),
   vouchers     |-> Judge(~booksAreClean(f, v), FALSE),
   vat          |-> Judge(FALSE, "vatPeriodEntries" \notin f \/ "vatReportDifference" \in f
                                 \/ v.taxPlanWarnings > 0),
   receiptsBank |-> Judge(FALSE, f \cap {"expensesMissingReceipt", "bankImportNeedsReview"} # {})]

declarationCenterRows(d, f, v) ==
  [annualClose      |-> Judge(v.annualRoutine.critical > 0, v.annualCloseWarnings > 0),
   declarationBasis |-> Judge(FALSE, v.annualDeclarationWarnings > 0),
   vatTax           |-> Judge("taxPlanOverdue" \in f,
                              v.taxPlanWarnings > 0 \/ d.ledger["2611"] + d.ledger["2641"] # 0),
   reconciliation   |-> Judged(v.reconciliation),
   reports          |-> Judge(FALSE, ~reportsBalance(f)),
   receipts         |-> Judge(FALSE, "expensesMissingReceipt" \in f),
   archive          |-> Judge(FALSE, v.legalArchiveWarnings > 0 \/ v.archivePackageWarnings > 0),
   backup           |-> Judge(FALSE, "backupOk" \notin f)]

declarationFilingPackageRows(d, f, v) ==
  LET closed == v.annualCloseWarnings = 0
  IN [vatFiling           |-> IF "vatPayment" \in d.vouchers THEN "good"
                              ELSE IF "vatSubmitted" \notin f /\ "vatPeriodEntries" \in f THEN "warning" ELSE "info",
      incomeTax           |-> Judge(FALSE, ~closed \/ v.annualDeclarationWarnings > 0),
      employerDeclaration |-> IF f \cap {"bookedPayroll", "unbookedPayroll"} = {} THEN "info"
                              ELSE Judge(FALSE, "unbookedPayroll" \in f),
      k2AnnualReport      |-> Judge(FALSE, ~closed \/ "annualResultVoucher" \notin f),
      taxVatPayment       |-> Judge(FALSE, "taxAccountStatement" \notin f
                                           \/ -d.ledger["2611"] - d.ledger["2641"] > 0
                                           \/ f \cap {"bookedPayroll", "unbookedPayroll"} # {})]

-----------------------------------------------------------------------------
(* The vouchers: the chain, the review, the numbers *)

voucherChainRows(f) ==
  [critical |-> f \cap {"voucherWithoutNumber", "unbalancedJournalGroups", "brokenCorrection",
                        "negativeVoucherRow"},
   warning  |-> f \cap {"voucherWithoutDate", "singleRowVoucher"}]
voucherChainGaps(f) == f \cap {"numberGap"}

\* a voucher without a decision is pending, or blocked when the chain finds it critical
voucherReviewRows(d, f) ==
  [critical |-> voucherChainRows(f).critical \cup (f \cap {"voucherReviewBlocked"}),
   pending  |-> d.vouchers \ d.approved]
voucherReviewStatus(v) == Judge(v.review.blocked > 0, v.review.pending > 0)

correctionCenterRows(f) ==
  IF f \cap {"brokenCorrection", "unbalancedCorrection"} # {} THEN "critical"
  ELSE InfoIf("corrections" \in f)

numberControlDuplicateGroups(f) == f \cap {"numberTwice"}
numberControlWarnings(f) == f \cap {"numberGap", "invoiceWithoutNumber", "numberWithoutDigits"}

verificationControlRows(d, f) ==
  [critical |-> MissingReceipts(d)
                \cup (f \cap {"invoiceWithoutCustomer", "manualVoucherWithoutEvidence", "voucherWithoutNumber"}),
   warning  |-> f \cap {"invoiceWithoutNumber", "paymentWithoutReference", "supplierInvoiceWithoutReference",
                        "manualVoucherWithoutDescription"}]
evidenceStatus(v) == Judged(v.verification)

-----------------------------------------------------------------------------
(* The gate before a period is locked *)

\* the server's answer to the last period check, which may be old or missing
backendPeriodCloseStatus(f) ==
  Judge("backendCloseBlocked" \in f, f \cap {"backendCloseWarned", "backendPeriodCloseCheck"}
                                     # {"backendPeriodCloseCheck"})

selectedPeriodFinalLockBlockers(v) ==
  v.lockBlockers \cup If(v.review.blocked > 0, "voucher-review-blocked")
LockWarningsAlone(v) == v.lockWarnings

selectedPeriodFinalLockWarnings(v) ==
  v.lockWarnings \cup If(v.review.pending > 0, "voucher-review-pending")

selectedPeriodProfessionalLockBlockers(f, v) ==
  selectedPeriodFinalLockBlockers(v)
  \cup If("backendCloseBlocked" \in f, "backend-period-blocker")
  \cup If(numberControlDuplicateGroups(f) # {}, "number-control-duplicates")
  \cup If(v.accountSign.critical > 0, "account-sign-critical")
selectedPeriodProfessionalLockWarnings(f, v) ==
  selectedPeriodFinalLockWarnings(v)
  \cup If("backendCloseWarned" \in f, "backend-period-warning")
  \cup If(numberControlWarnings(f) # {}, "number-control-warnings")
  \cup If(v.accountSign.warning > 0, "account-sign-warnings")

selectedPeriodProfessionalCanBeLocked(f, v) ==
  /\ {"settings", "vatPeriod"} \subseteq f
  /\ "accountingLocked" \notin f
  /\ v.blockers = {} /\ v.warnings = {}

periodControlRows(f, v) ==
  [backendPeriodCheck |-> backendPeriodCloseStatus(f),
   blockingErrors     |-> Judge(~booksAreClean(f, v), FALSE),
   accountSigns       |-> Judged(v.accountSign),
   accountingPolicy   |-> Judge(FALSE, v.accountingPolicyWarnings > 0),
   voucherReviewLock  |-> voucherReviewStatus(v),
   backup             |-> Judge(FALSE, "backupOk" \notin f),
   periodLock         |-> Judge(FALSE, "accountingLocked" \notin f),
   monthLock          |-> IF "accountingLocked" \in f THEN "good" ELSE Judge(v.monthlyRoutine.critical > 0, TRUE),
   yearLock           |-> IF "yearLocked" \in f THEN "good"
                          ELSE IF v.annualRoutine.critical > 0 THEN "critical" ELSE "info",
   corrections        |-> InfoIf("corrections" \in f),
   lockedData         |-> IF "accountingLocked" \in f THEN "info" ELSE "warning",
   archive            |-> Judge(FALSE, v.legalArchiveWarnings > 0 \/ v.archivePackageWarnings > 0)]

-----------------------------------------------------------------------------
(* Archive, migration, risk *)

archiveCenterRows(f, v) ==
  [legalRetention   |-> "info",
   invoices         |-> Judge(FALSE, "invoices" \notin f),
   receipts         |-> Judge("expensesMissingReceipt" \in f, FALSE),
   vouchers         |-> bookkeepingStatus(f),
   vat              |-> Judge(FALSE, "vatPeriodEntries" \notin f),
   reports          |-> Judge(FALSE, ~reportsBalance(f)),
   declaration      |-> Judged(v.declaration),
   backup           |-> Judge(FALSE, "backupValidation" \notin f),
   archivePackage   |-> Judge(FALSE, v.legalArchiveWarnings > 0 \/ v.archivePackageWarnings > 0),
   anonymizedExport |-> InfoIf(~anonymizedExportReady(f))]

migrationCenterRows(f, v) ==
  [moneyPrecision    |-> Judge("wholeKronaOnly" \in f, FALSE),
   sourceExport      |-> Judge(FALSE, "bokioImportQueue" \notin f),
   fileAnalysis      |-> IF "bokioImportQueue" \in f THEN Judge(FALSE, "bokioAnalysisFails" \in f) ELSE "info",
   sie               |-> IF "sieUnbalanced" \in f THEN "critical" ELSE InfoIf("sieFiles" \notin f),
   reviewQueue       |-> Judge(FALSE, "bokioNeedsReview" \in f),
   imported          |-> IF "bokioImportQueue" \notin f \/ "bokioImported" \in f THEN "info"
                         ELSE Judge(FALSE, f \cap {"bokioNeedsReview", "bokioReady"} # {}),
   bank              |-> IF "bankImportNeedsReview" \in f THEN "warning" ELSE InfoIf("bankImportRows" \notin f),
   customersInvoices |-> Judge(FALSE, ~({"customers", "invoices"} \subseteq f)),
   numbers           |-> Judge(FALSE, f \cap {"numberTwice", "numberGap"} # {}),
   archive           |-> Judged(v.archive),
   backup            |-> Judge(FALSE, "backupValidation" \notin f)]

liquidity(f) == Judge("cashflowNegative" \in f \/ reservePlanStatus(f) = "danger", "shortRunway" \in f)
issueStatus(v) == Judged(v.dataQuality)

riskCenterRows(d, f, v) ==
  [calculations      |-> Judged(v.calculation),
   bookkeeping       |-> bookkeepingStatus(f),
   timelyBookkeeping |-> lateBookkeepingStatus(f),
   receipts          |-> Judge(FALSE, "expensesMissingReceipt" \in f),
   liquidity         |-> liquidity(f),
   vatTax            |-> Judge(FALSE, v.taxPlanWarnings > 0 \/ "vatReportDifference" \in f),
   bankPayments      |-> Judge(bankDifference(d), f \cap {"bankImportNeedsReview", "overdueInvoices"} # {}),
   dataQuality       |-> issueStatus(v),
   security          |-> Judge(v.securityPrivacyScore < 70, v.securityPrivacyScore < 85),
   archiveMigration  |-> Judge(v.archive.critical + v.migration.critical > 0,
                               v.archive.warning + v.migration.warning > 0),
   goLive            |-> Judged(v.goLive)]

receivablesRows(f) ==
  IF "openInvoices" \notin f THEN {}
  ELSE {Judge("overdueInvoices" \in f, f \cap {"invoiceWithoutEmail", "partlyPaidInvoices", "dueSoonInvoices"} # {})}

-----------------------------------------------------------------------------
(* Closing, internal control, tax, quality *)

closingCenterRows(f, v) ==
  [monthClose         |-> Judge(FALSE, v.monthlyCloseWarnings > 0),
   reconciliation     |-> Judged(v.reconciliation),
   bookkeepingBalance |-> Judge(~booksAreClean(f, v) \/ "balanceReportDifference" \in f, FALSE),
   accountingPolicy   |-> Judge(FALSE, v.accountingPolicyWarnings > 0),
   voucherReview      |-> voucherReviewStatus(v),
   receivables        |-> Judge(FALSE, "critical" \in receivablesRows(f)),
   payables           |-> Judge(FALSE, "overdueSupplierInvoices" \in f),
   vat                |-> Judge(FALSE, "vatToPay" \in f \/ v.taxPlanWarnings > 0),
   archive            |-> Judged(v.archive),
   periodLock         |-> Judge(v.periodControl.critical > 0, "accountingLocked" \notin f)]

auditIntegrityStatus(f) ==
  Judge("auditEvents" \in f /\ "auditProof" \notin f, f \cap {"auditEvents", "auditProof"} = {})

internalControlRows(f, v) ==
  [auditTrail       |-> Judge(FALSE, f \cap {"auditEvents", "journalEntries", "invoices", "expenses"} = {}),
   auditIntegrity   |-> auditIntegrityStatus(f),
   protectedHistory |-> Judge(FALSE, "accountingLocked" \notin f),
   accountingPolicy |-> Judge(FALSE, v.accountingPolicyWarnings > 0),
   corrections      |-> correctionCenterRows(f),
   voucherChain     |-> Judge(voucherChainRows(f).critical # {},
                              voucherChainRows(f).warning \cup voucherChainGaps(f) # {} \/ "journalEntries" \notin f),
   voucherReview    |-> Judge(v.review.blocked > 0, v.review.pending > 0 \/ "journalEntries" \notin f),
   backup           |-> Judge(FALSE, "backupOk" \notin f),
   personalData     |-> Judge(FALSE, f \cap {"customers", "payrollEmployees", "invoices"} # {}),
   aiExport         |-> Judge(FALSE, ~anonymizedExportReady(f) \/ v.securityPrivacyRisks > 0),
   dataQuality      |-> issueStatus(v),
   closingEvidence  |-> Judged(v.closing)]

taxCenterRows(d, f, v) ==
  [vatPeriod  |-> Judge(FALSE, "vatPeriodEntries" \notin f \/ "vatToPay" \in f),
   taxPlan    |-> Judge("taxPlanOverdue" \in f, v.taxPlanWarnings > 0 \/ "taxPlanDueSoon" \in f),
   taxAccount |-> taxAccountStatus(f, v),
   incomeTax  |-> Judge(FALSE, annualCloseResult(d) > 0),
   payrollTax |-> Judge(FALSE, "payrollTaxToHandle" \in f),
   reserve    |-> Judge(reservePlanStatus(f) = "danger", reservePlanStatus(f) = "warning")]

accountingQualityRows(f, v) ==
  [calculations      |-> Judged(v.calculation),
   accountSigns      |-> Judged(v.accountSign),
   vouchers          |-> bookkeepingStatus(f),
   timelyBookkeeping |-> lateBookkeepingStatus(f),
   evidence          |-> evidenceStatus(v),
   payments          |-> Judged(v.payments),
   reconciliation    |-> Judged(v.reconciliation),
   vatTax            |-> Judged(v.taxCenter),
   dataQuality       |-> issueStatus(v),
   companyForm       |-> Judge(FALSE, v.companyFormWarnings > 0),
   compliance        |-> Judged(v.compliance),
   internalControl   |-> Judged(v.internalControl),
   closing           |-> Judged(v.closing)]

accountingQualityReadyForReports(f, v) ==
  v.quality.critical = 0 /\ booksAreClean(f, v) /\ "balanceReportDifference" \notin f

professionalActionPlanBooks(f, v) ==
  [calculationLock       |-> Judged(v.calculation),
   voucherBalance        |-> bookkeepingStatus(f),
   evidenceChain         |-> evidenceStatus(v),
   paymentMatch          |-> Judge(v.payments.critical > 0, v.payments.warning > 0
                                   \/ electronicPaymentNeedsCashRegisterReview(f)),
   accountReconciliation |-> Judged(v.reconciliation),
   vatTaxReady           |-> Judged(v.taxCenter),
   approvalHistory       |-> voucherReviewStatus(v),
   periodClose           |-> Judge("backendCloseBlocked" \in f \/ v.closing.critical > 0, v.closing.warning > 0),
   backupExport          |-> Judge(v.archive.critical > 0, "backupOk" \notin f),
   goLive                |-> Judged(v.goLive)]

professionalActionPlanRest(f, v) ==
  [numberSequences   |-> Judge("numberTwice" \in f, "numberGap" \in f),
   masterData        |-> issueStatus(v),
   companyForm       |-> Judge(FALSE, v.companyFormWarnings > 0),
   migration         |-> Judged(v.migration),
   archiveRetention  |-> Judged(v.archive),
   securityAi        |-> Judge(FALSE, v.securityPrivacyRisks > 0),
   internalControl   |-> Judged(v.internalControl),
   operations        |-> Judged(v.operations),
   endToEndTest      |-> Judge(v.testFlowBlocking > 0, v.testFlowRemaining > 0),
   finalRiskDecision |-> Judged(v.risk)]

financialDiagnosticsRows(d, f, v) ==
  [reportsLoaded |-> Judge(FALSE, "reports" \notin f),
   result        |-> Judge(FALSE, annualCloseResult(d) < 0),
   revenue       |-> Judge(FALSE, Revenue(d) <= 0 /\ "invoices" \in f),
   expenses      |-> Judge(FALSE, Revenue(d) > 0 /\ annualCloseResult(d) < 0),
   balance       |-> Judge("balanceReportDifference" \in f, "reports" \notin f),
   receivables   |-> Judge(FALSE, "critical" \in receivablesRows(f)),
   payables      |-> Judge(FALSE, "overdueSupplierInvoices" \in f),
   cashReserve   |-> liquidity(f),
   vatTax        |-> Judge(v.taxCenter.critical > 0, v.taxCenter.warning > 0 \/ vatPeriodToPay(d) > d.ledger["1930"]),
   controls      |-> Judged(v.quality),
   companyForm   |-> Judge(FALSE, v.companyFormWarnings > 0)]
=============================================================================
