---------------------------- MODULE DataBackup ----------------------------
(***************************************************************************)
(* The JSON backup that the client downloads and later validates           *)
(* (src/frontend/src/main.jsx 13446-13959).  A file is the counts of its   *)
(* summary, its proofs, how many records its data holds, and two codes:    *)
(* the control stamp, over counts and proofs, and the SHA-256, over        *)
(* everything.  A code is the value it was computed from, so that codes    *)
(* agree only when the values do.  The verdict on a file is what the page  *)
(* keeps as backupValidation.                                              *)
(***************************************************************************)
EXTENDS Closing

\* the rows of one kind of record: of vouchers, the journal rows count as one
Size(s) == Cardinality(s)

-----------------------------------------------------------------------------
(* What the page counts *)

backendAuditRows(p) == Size(p.lists \cap {"auditEvents", "newerAuditEvents"})

recordTrail(p) ==
  Size(p.vouchers \cap {"invoice", "payment", "stripePayment"}) + Size(p.lists \cap {"draftInvoices", "reminders"})
  + Size(p.vouchers \cap Expenses) + Size(p.vouchers)

moneyTrail(p) ==
  Size(bankImportRows(p)) + Size(p.lists \cap {"bankReconciliationHistory", "stripeSales",
                     "operationsIncidents", "operationsReleases"})
  + Size(p.vouchers \cap {"payout"}) + (IF p.locked THEN 1 ELSE 0)

auditTrailRows(p) == backendAuditRows(p) + recordTrail(p) + moneyTrail(p)

PageCounts(p) ==
  [customers      |-> Size(p.lists \cap {"customers"}),
   invoices       |-> Size(invoices(p)),
   expenses       |-> Size(p.vouchers \cap Expenses),
   journalEntries |-> Size(p.vouchers),
   auditEvents    |-> auditTrailRows(p),
   backendAuditEvents |-> backendAuditRows(p)]

\* the audit report counts the events there were when it was made
integrityProofs(p) ==
  [audit       |-> "auditProof" \in p.lists,
   auditEvents |-> IF "auditProof" \in p.lists THEN Size(p.lists \cap {"auditEvents"}) ELSE 0,
   bookkeeping |-> "journalIntegrityReport" \in p.lists]

-----------------------------------------------------------------------------
(* The file *)

backupControlBasis(file) == [counts |-> file.counts, proofs |-> file.proofs]
backupControlFingerprint(file) == backupControlBasis(file)

sha256Hex(file) == [counts |-> file.counts, proofs |-> file.proofs, data |-> file.data, stamp |-> file.stamp]

WithSha(file) == [file EXCEPT !.sha = sha256Hex(file)]
WithStamp(file) == [file EXCEPT !.stamp = backupControlFingerprint(file)]

Missing == [missing |-> TRUE]

SavedFile(p) ==
  WithSha(WithStamp([counts |-> PageCounts(p), proofs |-> integrityProofs(p), data |-> PageCounts(p),
                     stamp |-> Missing, sha |-> Missing]))

\* what may have happened to a file by the time it is read
Damaged(file, damage) ==
  CASE damage = "data"   -> [file EXCEPT !.data.journalEntries = @ + 1]
    [] damage = "counts" -> [file EXCEPT !.counts.journalEntries = @ + 1]
    [] damage = "proofs" -> [file EXCEPT !.proofs.audit = ~@]
    [] damage = "codes"  -> [file EXCEPT !.stamp = Missing, !.sha = Missing]
    [] OTHER -> file

-----------------------------------------------------------------------------
(* The verdicts *)

\* the expenses are counted but not compared
Compared == {"customers", "invoices", "journalEntries", "auditEvents"}

backupCountComparisonRows(backupCounts, currentCounts) ==
  {key \in Compared : backupCounts[key] # currentCounts[key]}

ProofsAreThere(proofs, counts) ==
  If(~proofs.audit, "audit") \cup If(counts.journalEntries > 0 /\ ~proofs.bookkeeping, "bookkeeping")

Verdict(ok, stamp, sha, proofs, counts, matches) ==
  [made |-> TRUE, ok |-> ok, stamp |-> stamp, sha |-> sha,
   audit |-> proofs.audit, bookkeeping |-> proofs.bookkeeping,
   journalEntries |-> counts.journalEntries > 0, auditEvents |-> counts.auditEvents > 0,
   countComparisonOk |-> matches]

\* a new file is not judged against anything but its proofs
downloadVerdict(file) ==
  Verdict(ProofsAreThere(file.proofs, file.counts) = {}, TRUE, TRUE, file.proofs, file.counts, TRUE)

\* events that the server did not record must be proved too when it recorded none
EventsToProve(file) ==
  IF file.counts.backendAuditEvents > 0 THEN file.counts.backendAuditEvents ELSE file.data.auditEvents

StampMatches(file) == file.stamp = backupControlFingerprint(file)
ShaMatches(file) == file.sha = sha256Hex(file)

validationIssues(file, p) ==
  If(~StampMatches(file), "stamp") \cup If(~ShaMatches(file), "sha")
  \cup ProofsAreThere(file.proofs, file.data)
  \cup If(file.proofs.auditEvents < EventsToProve(file), "auditEvents")
  \cup If(backupCountComparisonRows(file.data, PageCounts(p)) # {}, "counts")

validationVerdict(file, p) ==
  Verdict(validationIssues(file, p) = {}, StampMatches(file), ShaMatches(file), file.proofs,
          file.data, backupCountComparisonRows(file.data, PageCounts(p)) = {})

unreadableVerdict ==
  Verdict(FALSE, FALSE, FALSE, [audit |-> FALSE, bookkeeping |-> FALSE],
          [journalEntries |-> 0, auditEvents |-> 0], FALSE)

NoBackup == [unreadableVerdict EXCEPT !.made = FALSE]

\* the rows of the recovery view
backupRecoveryRows(b) ==
  [file                      |-> WarnIf(~b.ok),
   controlStamp              |-> WarnIf(~b.stamp),
   sha256Manifest            |-> WarnIf(~b.sha),
   coreData                  |-> WarnIf(~b.ok),
   currentCountMatch         |-> WarnIf(~b.countComparisonOk),
   bookkeeping               |-> WarnIf(~(b.ok /\ b.journalEntries)),
   audit                     |-> InfoIf(~(b.ok /\ b.auditEvents)),
   auditIntegrityProof       |-> WarnIf(~b.audit),
   bookkeepingIntegrityProof |-> WarnIf(~b.bookkeeping),
   personalData              |-> IF b.made THEN "warning" ELSE InfoIf(~b.ok),
   restoreMode               |-> "info"]
=============================================================================
