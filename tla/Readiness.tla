----------------------------- MODULE Readiness -----------------------------
(***************************************************************************)
(* One user works a financial year in the client until its month can be    *)
(* closed.  d is the data of the page, verdicts what the last render made  *)
(* of it (src/frontend/src/main.jsx 14641-26189), which the handlers use.  *)
(* A render computes the lists from top to bottom of one function, so a    *)
(* list that reads a verdict above the line that computes it sees the      *)
(* value the variable was declared with: Render below keeps that order.    *)
(*                                                                         *)
(* The page is reloaded after every change (module Workspace is about      *)
(* pages that are not), except for what the page never reloads by itself:  *)
(* the server's period check and the verified backup.                      *)
(***************************************************************************)
EXTENDS Controls

CONSTANTS
  Bookable,      \* the vouchers that this user may book
  Page,          \* the lists that are filled, and the answers that are good, at first
  Changing,      \* those that may fill or empty, arrive or fail
  MaxSideSteps   \* bound: the steps besides booking, approving and uploading receipts

ASSUME ReadinessAssumption ==
  /\ Bookable \subseteq Vouchers
  /\ (Page \cup Changing) \cap DerivedFacts = {}
  /\ MaxSideSteps \in Nat

VARIABLES d, verdicts, sideSteps

readinessVars == <<d, verdicts, sideSteps>>

-----------------------------------------------------------------------------
(* The render.  p is the page, f its facts, v what has been computed.      *)

Warnings(rows) == Count(rows, "warning")
Risks(rows) == Cardinality(DOMAIN rows) - Count(rows, "ok")
Sizes(issues) == [critical |-> Cardinality(issues.critical), warning |-> Cardinality(issues.warning)]

\* the let declarations: what a list reads that stands above the computation
Declared ==
  [calculation |-> [critical |-> 0, warning |-> 0], accessReviewRiskRows |-> 0, dataProtectionRiskRows |-> 0]

RenderClose(p, f) ==
  LET annual == Warnings(annualCloseChecklist(f))
  IN With(Declared,
       [monthlyCloseWarnings      |-> Warnings(monthlyCloseChecklist(f)),
        annualCloseWarnings       |-> annual,
        annualDeclarationWarnings |-> Warnings(annualDeclarationChecklist(f, annual)),
        accountReconciliationWarnings |-> Warnings(accountReconciliationRows(p, f)),
        taxAccountWarnings        |-> Warnings(taxAccountReconciliationRows(p, f)),
        accountSign               |-> Summary(accountSignControlRows(p)),
        closeChecklistWarnings    |-> Warnings(closeChecklistItems(f))])

RenderArchive(f, v) ==
  With(v, [legalArchiveWarnings   |-> Warnings(legalArchiveItems(f, v)),
           archivePackageWarnings |-> Warnings(archivePackageItems(f, v))])

RenderPeriod(p, f, v) ==
  With(v, [taxPlanWarnings          |-> Warnings(taxPlanItems(f, v)),
           lockBlockers             |-> selectedPeriodLockBlockers(f, v),
           lockWarnings             |-> selectedPeriodLockWarnings(f, v),
           dataQuality              |-> Sizes(dataQualityIssues(f)),
           calculation              |-> Sizes(calculationIssues(p, f)),
           accountingPolicyWarnings |-> Warnings(accountingPolicyItems(f)),
           companyFormWarnings      |-> Warnings(companyFormControlItems(f))])

RenderSecurity(p, f, v) ==
  With(v, [accountantHandoffWarnings |-> Warnings(accountantHandoffItems(f, v)),
           backupRecoveryWarnings    |-> Warnings(backupRecoveryRows(p.backup)),
           accessReviewRiskRows      |-> Risks(accessReviewRows(f)),
           dataProtectionRiskRows    |-> Risks(dataProtectionRows(f)),
           securityPrivacyRisks      |-> Risks(securityPrivacyControlRows(f, v)),
           securityPrivacyScore      |-> securityPrivacyScore(f, v)])

RenderCompliance(f, v) ==
  With(v, [compliance |-> Summary(complianceRows(f, v)), complianceScore |-> complianceScore(f, v)])

RenderLive(f, v) == With(v, [goLive |-> Summary(goLiveRows(f, v))])

RenderFlow(f, v) ==
  LET flow == testFlowRows(f, v)
  IN With(v, [goLiveProductionBlocking |-> Risks(goLiveProductionRows(f, v)),
              testFlowBlocking  |-> Count(flow, "fail"),
              testFlowRemaining |-> Cardinality(DOMAIN flow) - Count(flow, "done")])

RenderGates(p, f, v) ==
  With(v, [firstRealData  |-> Summary(firstRealDataGateRows(f, v)),
           useToday       |-> Summary(useTodayGateRows(f, v)),
           finishLine     |-> Summary(With(mvpFinishLineSetup(f), mvpFinishLineBooks(f, v))),
           operations     |-> Summary(operationsCenterRows(f, v)),
           payments       |-> Summary(paymentReconciliationRows(p, f)),
           daily          |-> Summary(dailyRoutineRows(f, v)),
           monthlyRoutine |-> Summary(monthlyRoutineRows(f, v)),
           annualRoutine  |-> Summary(annualRoutineRows(p, f, v))])

RenderReview(p, f, v) ==
  LET review == voucherReviewRows(p, f)
  IN With(v, [disasterRecovery |-> Summary(disasterRecoveryRows(f, v)),
              reconciliation   |-> Summary(reconciliationRows(p, f, v)),
              review |-> [blocked |-> Cardinality(review.critical), pending |-> Cardinality(review.pending)]])

RenderDeclaration(p, f, v) ==
  With(v, [declaration |-> Summary(declarationCenterRows(p, f, v)),
           filing      |-> Summary(declarationFilingPackageRows(p, f, v)),
           blockers    |-> selectedPeriodProfessionalLockBlockers(f, v),
           warnings    |-> selectedPeriodProfessionalLockWarnings(f, v)])

RenderLock(p, f, v) ==
  With(v, [canBeLocked   |-> selectedPeriodProfessionalCanBeLocked(f, v),
           periodControl |-> Summary(periodControlRows(f, v)),
           verification  |-> Sizes(verificationControlRows(p, f)),
           archive       |-> Summary(archiveCenterRows(f, v))])

RenderClosing(p, f, v) ==
  With(v, [migration |-> Summary(migrationCenterRows(f, v)),
           closing   |-> Summary(closingCenterRows(f, v)),
           taxCenter |-> Summary(taxCenterRows(p, f, v))])

RenderRisk(p, f, v) ==
  With(v, [risk            |-> Summary(riskCenterRows(p, f, v)),
           internalControl |-> Summary(internalControlRows(f, v))])

RenderQuality(f, v) == With(v, [quality |-> Summary(accountingQualityRows(f, v))])

RenderPlan(p, f, v) ==
  With(v, [readyForReports |-> accountingQualityReadyForReports(f, v),
           actionPlan  |-> Summary(With(professionalActionPlanBooks(f, v), professionalActionPlanRest(f, v))),
           diagnostics |-> Summary(financialDiagnosticsRows(p, f, v)),
           toDo        |-> Sizes(actionCenterItems(f, v)),
           insight     |-> Count(With(businessInsightMoney(f, v), businessInsightBooks(f, v)), "danger"),
           analytics   |-> Sizes(analyticsRiskRows(f, v)),
           pipeline    |-> Mean(analyticsPipelineRows(f, v)),
           reserve     |-> Warnings(reservePlanItems(p, f)),
           questions   |-> Cardinality(accountantQuestionItems(f)),
           limitedCompanyReady |-> Cardinality(abReadinessItems(f, v))])

RenderPage(p, f) ==
  LET closed == RenderArchive(f, RenderClose(p, f))
      secured == RenderCompliance(f, RenderSecurity(p, f, RenderPeriod(p, f, closed)))
      gated == RenderGates(p, f, RenderFlow(f, RenderLive(f, secured)))
      locked == RenderLock(p, f, RenderDeclaration(p, f, RenderReview(p, f, gated)))
  IN RenderPlan(p, f, RenderQuality(f, RenderRisk(p, f, RenderClosing(p, f, locked))))

Render(p) == RenderPage(p, Facts(p))

-----------------------------------------------------------------------------
(* The server's check of the month *)

serverBlockers(p) ==
  LET month == p.vouchers \ LaterVouchers
      signs == createAccountSignControlReport(MonthLedger(p))
  IN If(IsUnbalanced(p), "unbalanced")
     \cup If("draftInvoices" \in p.lists, "drafts")
     \cup If("expense" \in MissingReceipts(p), "receipts")
     \cup If(~(month \subseteq p.approved), "approvals")
     \cup {a \in DOMAIN signs : signs[a] = "critical"}

serverWarnings(p) ==
  LET signs == createAccountSignControlReport(MonthLedger(p))
  IN If(IsOpen(p), "receivables")
     \cup If(p.vouchers \ LaterVouchers = {}, "nothing-to-export")
     \cup (p.lists \cap {"supplierPayables", "lateBookedVouchers"})
     \cup {a \in DOMAIN signs : signs[a] = "warning"}

-----------------------------------------------------------------------------
(* What the user does *)

NotChecked == [known |-> FALSE, blocked |-> FALSE, warned |-> FALSE]

Show(p) == p # d /\ d' = p

Bounded == sideSteps < MaxSideSteps /\ sideSteps' = sideSteps + 1

ReadinessInit ==
  /\ d = [vouchers |-> {}, ledger |-> [a \in Accounts |-> 0], receipts |-> {}, approved |-> {},
          locked |-> FALSE, statement |-> {}, backup |-> NoBackup, file |-> Missing, check |-> NotChecked, lists |-> Page]
  /\ verdicts = Render(d)
  /\ sideSteps = 0

\* what must be there before a voucher; a settled VAT period gets nothing more
Follows(v) ==
  CASE v \in {"payment", "stripePayment"} -> IsOpen(d)
    [] v = "payout" -> "stripePayment" \in d.vouchers
    [] v = "payrollTax" -> "payroll" \in d.vouchers
    [] v = "vatSettlement" -> {"invoice", "expense"} \cap d.vouchers # {}
    [] v = "vatPayment" -> "vatSettlement" \in d.vouchers
    [] v = "annualResult" -> annualCloseResult(d) # 0
    [] v \in {"invoice", "expense"} -> "vatSettlement" \notin d.vouchers
    [] OTHER -> TRUE

PostAnyTime(v) == TRUE

MayPost(v) == ~d.locked \/ v \in LaterVouchers

Book(v) ==
  /\ v \notin d.vouchers /\ Follows(v) /\ MayPost(v)
  /\ Show(Posted(d, v)) /\ UNCHANGED sideSteps

UploadReceipt(v) ==
  /\ v \in MissingReceipts(d)
  /\ Show([d EXCEPT !.receipts = @ \cup {v}]) /\ UNCHANGED sideSteps

Approve(v) ==
  /\ v \in d.vouchers \ d.approved /\ MayPost(v)
  /\ Show([d EXCEPT !.approved = @ \cup {v}]) /\ UNCHANGED sideSteps

Reopen(v) ==
  /\ v \in d.approved /\ MayPost(v)
  /\ Bounded /\ Show([d EXCEPT !.approved = @ \ {v}])

EnterStatement(n) == Bounded /\ Show([d EXCEPT !.statement = {n}])

DownloadBackup ==
  Bounded /\ Show([d EXCEPT !.file = SavedFile(d), !.backup = downloadVerdict(SavedFile(d))])

\* the user chooses the file downloaded last, as it is by now, or one of another kind
ValidateBackup(damage) ==
  /\ Bounded
  /\ \/ d.file # Missing /\ Show([d EXCEPT !.backup = validationVerdict(Damaged(d.file, damage), d)])
     \/ Show([d EXCEPT !.backup = unreadableVerdict])

AskPeriodCheck ==
  Bounded /\ Show([d EXCEPT !.check = [known |-> TRUE, blocked |-> serverBlockers(d) # {},
                                       warned |-> serverWarnings(d) # {}]])
LosePeriodCheck == Bounded /\ Show([d EXCEPT !.check = NotChecked])

\* the gate is of the last render, the decision of the server's data
CloseMonth ==
  /\ verdicts.canBeLocked /\ serverBlockers(d) = {}
  /\ Show([d EXCEPT !.locked = TRUE]) /\ UNCHANGED sideSteps

\* another list of the page fills or empties, an answer arrives or fails
Toggled(lists, name) == IF name \in lists THEN lists \ {name} ELSE lists \cup {name}
Change(name) == Bounded /\ Show([d EXCEPT !.lists = Toggled(@, name)])

Act ==
  \/ \E v \in Bookable : Book(v) \/ Approve(v) \/ Reopen(v)
  \/ \E v \in Expenses : UploadReceipt(v)
  \/ \E n \in {0, d.ledger["1930"]} : EnterStatement(n)
  \/ DownloadBackup \/ \E damage \in {"none", "data", "counts", "proofs", "codes"} : ValidateBackup(damage)
  \/ AskPeriodCheck \/ LosePeriodCheck \/ CloseMonth
  \/ \E name \in Changing : Change(name)

\* a change of the page is rendered at once
ReadinessNext == Act /\ verdicts' = Render(d')

ReadinessSpec == ReadinessInit /\ [][ReadinessNext]_readinessVars

-----------------------------------------------------------------------------
(* Properties *)

\* The page is a page of the program: the ledger is that of its vouchers and
\* adds up to zero, receipts and approvals are of booked vouchers, and an
\* answer of the period check that is not there neither blocks nor warns.
ReadinessTypeOK ==
  /\ d.vouchers \subseteq Bookable
  /\ d.receipts \subseteq d.vouchers /\ d.approved \subseteq d.vouchers
  /\ d.ledger \in [Accounts -> Int] /\ SumFunction(d.ledger) = 0
  /\ {a \in Accounts : d.ledger[a] # 0} # {} => d.vouchers # {}
  /\ ~d.check.known => d.check = NotChecked
  /\ d.file = Missing => ~d.backup.ok
  /\ d.lists \subseteq Page \cup Changing /\ sideSteps \in 0..MaxSideSteps

\* A month that was closed stays complete: every voucher of it was approved and
\* has its receipt, and no account of it has the wrong sign, whatever is booked,
\* reopened or uploaded afterwards (closeSelectedAccountingPeriod and the
\* server's checkPeriod against every route that could change the month).
LockedMonthIsComplete ==
  d.locked => serverBlockers(d) \cap
                ({"receipts", "approvals"} \cup DOMAIN accountSignRules) = {}

\* When the client lets the user lock the period, the server finds no missing
\* receipt, no voucher without a decision and no unbalanced voucher in it
\* (selectedPeriodProfessionalCanBeLocked against AccountingPeriodLockService).
ReadyPeriodIsComplete ==
  verdicts.canBeLocked => serverBlockers(d) \cap {"unbalanced", "receipts", "approvals"} = {}

\* Unbalanced vouchers are critical in every centre that judges the books, and
\* close every gate: no list of the client stays calm about them.
UnbalancedBooksAreNowhereCalm ==
  IsUnbalanced(d) =>
    LET v == verdicts
    IN /\ \A centre \in {"calculation", "dataQuality", "compliance", "goLive", "firstRealData",
                          "useToday", "finishLine", "payments", "reconciliation",
                          "declaration", "archive", "periodControl", "migration", "closing", "risk",
                          "internalControl", "quality", "actionPlan", "annualRoutine"} :
            v[centre].critical > 0
       /\ ~v.canBeLocked /\ ~v.readyForReports
       /\ v.limitedCompanyReady < 5

\* The gates agree: a workspace that may take real data is ready in every
\* respect that the gate to going live checks, the gate for today's work is not
\* stricter than that for real data (but for a render that had to recover), and
\* nothing that calls the books ready for reports overlooks a centre.
GatesAgree ==
  LET v == verdicts
  IN /\ v.firstRealData.critical = 0 =>
          /\ v.goLive.critical = 0 /\ v.calculation.critical = 0
          /\ d.backup.ok /\ d.backup.stamp /\ d.backup.sha /\ d.backup.audit
          /\ v.useToday.critical > 0 => "renderRecoveryWasTriggered" \in d.lists
     /\ v.readyForReports =>
          /\ \A centre \in {"calculation", "reconciliation", "closing", "archive",
                             "periodControl", "internalControl", "declaration", "payments"} :
                v[centre].critical = 0
          /\ serverBlockers(d) \cap {"unbalanced"} = {}

\* What repairs the books.
Repair ==
  \/ \E v \in Expenses : UploadReceipt(v)
  \/ \E v \in Bookable : Approve(v)
  \/ EnterStatement(d.ledger["1930"])
  \/ {"auditProof", "journalIntegrityReport"} \subseteq d.lists /\ DownloadBackup

Judgements == {"calculation", "dataQuality", "compliance", "goLive", "firstRealData", "useToday",
               "payments", "reconciliation", "declaration", "archive", "closing", "risk", "quality"}

\* What repairs the books never makes a verdict worse: after a receipt is
\* uploaded, a voucher approved, the true bank balance entered or a backup with
\* its proofs made, no centre has more critical rows than before and a period that
\* could be locked still can.
RepairNeverHurts ==
  [][Repair => LET before == verdicts after == verdicts'
               IN /\ \A centre \in Judgements : after[centre].critical <= before[centre].critical
                  /\ before.canBeLocked => after.canBeLocked
                  /\ before.readyForReports => after.readyForReports]_readinessVars

-----------------------------------------------------------------------------
(* Does not hold: see the README, section 5.                               *)

\* Critical calculation issues block the lock of the period (the list
\* selectedPeriodLockBlockers has a row for them, "Critical calculation issues").
CriticalCalculationsBlockTheLock ==
  verdicts.calculation.critical > 0 => ~verdicts.canBeLocked
=============================================================================
