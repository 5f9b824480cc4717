------------------------------- MODULE Backup -------------------------------
(***************************************************************************)
(* Backing up the database together with the receipt files, and checking   *)
(* the package later: scripts/backup-local-bundle.mjs,                     *)
(* backup-production-bundle.mjs and verify-backup-bundle.mjs, one script   *)
(* at a time on one package directory.  The operator has confirmed that    *)
(* all writers are stopped, and may be wrong: a forgotten instance of the  *)
(* server goes on writing rows and uploading receipts                      *)
(* (ExpenseController.uploadReceipt).                                      *)
(*                                                                         *)
(* The source database is the log of its states, so its WAL position is    *)
(* the length of the log.  A dump holds one state; a file, and the hash    *)
(* of a file, is its content.  The isolated PostgreSQL of a verification   *)
(* has a name of its own and shares nothing: it is a phase of the script.  *)
(***************************************************************************)
EXTENDS Restore, Sequences

CONSTANTS
  Expenses,     \* the expenses of the business
  Files,        \* receipt files; every upload writes a file of a new name
  OwnerOf,      \* the expense that a file is uploaded for
  None,
  Databases,    \* what the rest of the database may hold
  MaxWal(_),    \* bound: the length of the log of a database
  MaxScripts,   \* bound: scripts that are started
  MaxDamage,    \* bound: faults of the disks
  MaxProbes     \* how often a verification asks whether PostgreSQL is ready (60)

States == [expenses: SUBSET Expenses, receipt: [Expenses -> Files \cup {None}],
           audits: Nat, rev: Nat, books: Databases]
Dumps == [db: States, intact: BOOLEAN]
Contents == {"absent", "good", "bad"}

ASSUME BackupAssumption ==
  /\ OwnerOf \in [Files -> Expenses] /\ None \notin Files \cup Dumps
  /\ {MaxScripts, MaxDamage, MaxProbes} \subseteq Nat /\ \A b \in Databases : MaxWal(b) \in Nat

\* amounts are whole numbers, and what a missing table would hold is empty
ASSUME DatabasesAssumption ==
  \A b \in Databases :
    /\ \A l \in b.lines : {l.debit, l.credit} \subseteq Int
    /\ "evidenceLink" \in b.missing => \A l \in b.lines : l.evidence = Absent
    /\ "originals" \in b.missing => b.originals = {}

VARIABLES
  log,          \* the states of the source database
  store,        \* the receipts volume: every file "absent", "good" or "bad"
  dir,          \* the package directory
  run,          \* the script that is running
  accepted,     \* what the last successful check accepted
  started, damages

backupVars == <<log, store, dir, run, accepted, started, damages>>
source == <<log, store>>
counters == <<started, damages>>

-----------------------------------------------------------------------------
(* The source database *)

Last(s) == s[Len(s)]
db == Last(log)

\* rev stands for what an update changes without changing a count
Empty(books) == [expenses |-> {}, receipt |-> [e \in Expenses |-> None], audits |-> 0, rev |-> 0, books |-> books]

tableRowCounts(d) == [expenses |-> Cardinality(d.expenses), auditEvents |-> d.audits]

Write(d) == Len(log) < MaxWal(d.books) /\ log' = Append(log, d)

CreateExpense(e) ==
  /\ e \notin db.expenses
  /\ Write([db EXCEPT !.expenses = @ \cup {e}, !.audits = @ + 1])
  /\ UNCHANGED <<store, dir, run, accepted, counters>>

Referenced(d) == {d.receipt[e] : e \in Expenses} \ {None}

\* uploadReceipt: no receipt was found, the file is written before the row
StoreReceipt(f) ==
  /\ OwnerOf[f] \in db.expenses /\ db.receipt[OwnerOf[f]] = None /\ store[f] = "absent"
  /\ store' = [store EXCEPT ![f] = "good"]
  /\ UNCHANGED <<log, dir, run, accepted, counters>>

CommitReceipt(f) ==
  /\ store[f] # "absent" /\ \A i \in DOMAIN log : f \notin Referenced(log[i])
  /\ Write([db EXCEPT !.receipt[OwnerOf[f]] = f, !.audits = @ + 1])
  /\ UNCHANGED <<store, dir, run, accepted, counters>>

\* deleteReceiptFileAfterFailedUpload
DropReceipt(f) ==
  /\ store[f] # "absent" /\ \A i \in DOMAIN log : f \notin Referenced(log[i])
  /\ store' = [store EXCEPT ![f] = "absent"]
  /\ UNCHANGED <<log, dir, run, accepted, counters>>

\* a row is updated, or PostgreSQL itself writes WAL
UpdateRow ==
  /\ Write([db EXCEPT !.rev = @ + 1])
  /\ UNCHANGED <<store, dir, run, accepted, counters>>
Checkpoint == Write(db) /\ UNCHANGED <<store, dir, run, accepted, counters>>

-----------------------------------------------------------------------------
(* The package directory and the running script *)

NoFiles == [f \in Files |-> "absent"]
NoDirectory == [made |-> FALSE, dump |-> None, receipts |-> NoFiles, manifest |-> None]
Dump(d) == [db |-> d, intact |-> TRUE]
Torn(dump) == [dump EXCEPT !.intact = FALSE]

NoRun == [script |-> None, at |-> "idle", strict |-> FALSE, wal |-> 0, counts |-> None, todo |-> {},
          files |-> NoFiles, probes |-> 0, restored |-> None, receipts |-> NoFiles, result |-> None]

At(place) == run.at = place
Going(script) == run.script = script
Move(place) == run' = [run EXCEPT !.at = place]

BackupInit ==
  /\ \E b \in Databases : log = <<Empty(b)>>
  /\ store = NoFiles /\ dir = NoDirectory /\ run = NoRun /\ accepted = None
  /\ started = 0 /\ damages = 0

Present(files) == {f \in Files : files[f] # "absent"}

Begin(r) ==
  /\ At("idle") /\ started < MaxScripts /\ started' = started + 1
  /\ run' = [NoRun EXCEPT !.script = r.script, !.at = r.at, !.wal = r.wal, !.counts = r.counts, !.strict = r.strict]
  /\ UNCHANGED <<source, dir, accepted, damages>>

StartLocal ==
  Begin([script |-> "local", at |-> "counted", wal |-> 0, counts |-> tableRowCounts(db), strict |-> FALSE])
StartProduction ==
  Begin([script |-> "production", at |-> "positioned", wal |-> Len(log), counts |-> None, strict |-> FALSE])

CountSource ==
  /\ At("positioned") /\ run' = [run EXCEPT !.at = "counted", !.counts = tableRowCounts(db)]
  /\ UNCHANGED <<source, dir, accepted, counters>>

\* Faulty variant: the directory of an earlier run is used again
AnyDirectory == TRUE
NewDirectory == ~dir.made

\* the local script dumps first, the production script copies the receipts first
MakeDirectory ==
  /\ At("counted") /\ NewDirectory
  /\ dir' = [dir EXCEPT !.made = TRUE]
  /\ IF Going("local") THEN Move("dump") ELSE Move("list")
  /\ UNCHANGED <<source, accepted, counters>>

DumpDatabase ==
  /\ At("dump") /\ dir.dump = None
  /\ dir' = [dir EXCEPT !.dump = Dump(db)]
  /\ IF Going("local") THEN Move("list") ELSE Move("verify")
  /\ UNCHANGED <<source, accepted, counters>>

ListReceipts ==
  /\ At("list")
  /\ run' = [run EXCEPT !.at = "copy", !.todo = Present(store)]
  /\ UNCHANGED <<source, dir, accepted, counters>>

\* the hash is taken before the copy, and of both again after it
CopyReceipt(f) ==
  /\ At("copy") /\ f \in run.todo /\ store[f] # "absent"
  /\ dir' = [dir EXCEPT !.receipts[f] = store[f]]
  /\ run' = [run EXCEPT !.todo = @ \ {f}, !.files[f] = store[f]]
  /\ UNCHANGED <<source, accepted, counters>>

\* the production script takes the hashes of its copies
EndCopy ==
  /\ At("copy") /\ run.todo = {}
  /\ run' = IF Going("local") THEN [run EXCEPT !.at = "verify"]
            ELSE [run EXCEPT !.at = "dump", !.files = dir.receipts]
  /\ UNCHANGED <<source, dir, accepted, counters>>

-----------------------------------------------------------------------------
(* verifyBackup, in all three scripts *)

CreateContainer ==
  /\ At("verify") /\ run' = [run EXCEPT !.at = "probe", !.probes = 0]
  /\ UNCHANGED <<source, dir, accepted, counters>>

\* Faulty variant: one attempt too many
OneProbeMore == run.probes <= MaxProbes
MayProbe == run.probes < MaxProbes

NotReadyYet ==
  /\ At("probe") /\ MayProbe /\ run' = [run EXCEPT !.probes = @ + 1]
  /\ UNCHANGED <<source, dir, accepted, counters>>
Ready == At("probe") /\ MayProbe /\ Move("restore") /\ UNCHANGED <<source, dir, accepted, counters>>

RestoreDump ==
  /\ At("restore") /\ dir.dump # None /\ dir.dump.intact
  /\ run' = [run EXCEPT !.at = "receipts", !.restored = dir.dump.db]
  /\ UNCHANGED <<source, dir, accepted, counters>>

RestoreReceipts ==
  /\ At("receipts")
  /\ run' = [run EXCEPT !.at = "judge", !.receipts = dir.receipts]
  /\ UNCHANGED <<source, dir, accepted, counters>>

\* Faulty variant: a file that is there is good enough
ReceiptsAreThere(d, files) == Referenced(d) \subseteq Present(files)
ReceiptsMatch(d, files) == \A f \in Referenced(d) : files[f] = "good"

Verifies(d, files) == ReceiptsMatch(d, files) /\ BooksVerify(d.books)

WithoutReceipt(d) == {e \in d.expenses : d.receipt[e] = None}

\* what verifyBackup returns, and the reasons of assessRestoredEvidence
Result(d, files) ==
  [counts |-> tableRowCounts(d), relocated |-> d.books.relocated,
   reasons |-> {g \in {"expenses_without_receipts"} : WithoutReceipt(d) # {}} \cup
               {g \in {"unreferenced_receipt_files"} : Present(files) # Referenced(d)} \cup GapsOfBooks(d.books)]

Judge ==
  /\ At("judge") /\ Verifies(run.restored, run.receipts)
  /\ run' = [run EXCEPT !.at = "compare", !.result = Result(run.restored, run.receipts)]
  /\ UNCHANGED <<source, dir, accepted, counters>>

-----------------------------------------------------------------------------
(* The manifest of a backup *)

\* Faulty variant: the row counts say that nothing was written
SameCounts == run.result.counts = run.counts /\ tableRowCounts(db) = run.counts
SourceStoodStill == SameCounts /\ Len(log) = run.wal

CompareWithSource ==
  /\ At("compare") /\ run.script # "check"
  /\ IF Going("local") THEN SameCounts ELSE SourceStoodStill /\ ~run.result.relocated
  /\ Move("manifest") /\ UNCHANGED <<source, dir, accepted, counters>>

\* written under a new name; the hash of the dump is taken now
WriteManifest ==
  /\ At("manifest") /\ dir.manifest = None
  /\ dir' = [dir EXCEPT !.manifest =
       [whole |-> TRUE, script |-> run.script, wal |-> run.wal, counts |-> run.counts,
        dump |-> dir.dump, files |-> run.files, verification |-> run.result]]
  /\ run' = NoRun /\ UNCHANGED <<source, accepted, counters>>

-----------------------------------------------------------------------------
(* The check of a package *)

HasManifest == dir.manifest # None /\ dir.manifest.whole

\* Faulty variant: only the dump is restored, its hash is not compared
InventoryMatches == dir.receipts = dir.manifest.files
MatchesManifest == dir.dump = dir.manifest.dump /\ InventoryMatches

StartCheck(strict) ==
  /\ HasManifest /\ dir.dump # None /\ MatchesManifest
  /\ Begin([script |-> "check", at |-> "verify", wal |-> 0, counts |-> None, strict |-> strict])

\* evidence for production comes from the production script and needs no review
IsProductionEvidence == dir.manifest.script = "production" /\ run.result.reasons = {} /\ ~run.result.relocated

Accept ==
  /\ At("compare") /\ Going("check")
  /\ HasManifest /\ MatchesManifest
  /\ run.result = dir.manifest.verification /\ run.result.counts = dir.manifest.counts
  /\ run.strict => IsProductionEvidence
  /\ accepted' = [db |-> run.restored, receipts |-> run.receipts, strict |-> run.strict, of |-> dir.manifest]
  /\ run' = NoRun /\ UNCHANGED <<source, dir, counters>>

-----------------------------------------------------------------------------
(* What goes wrong *)

\* A command fails, a comparison does not hold or the script is stopped: what
\* it has written stays, half written where it was writing.
Stop ==
  /\ ~At("idle") /\ run' = NoRun
  /\ dir' = IF At("dump") /\ dir.dump = None THEN [dir EXCEPT !.dump = Torn(Dump(db))]
            ELSE IF At("manifest") /\ dir.manifest = None
                 THEN [dir EXCEPT !.manifest = [whole |-> FALSE]]
            ELSE dir
  /\ UNCHANGED <<source, accepted, counters>>

Damaged(d, s) ==
  /\ damages < MaxDamage /\ damages' = damages + 1 /\ dir' = d /\ store' = s
  /\ UNCHANGED <<log, run, accepted, started>>

DamageReceipt(f) ==
  \/ store[f] = "good" /\ Damaged(dir, [store EXCEPT ![f] = "bad"])
  \/ \E state \in {"absent", "bad"} :
        dir.receipts[f] = "good" /\ Damaged([dir EXCEPT !.receipts[f] = state], store)
DamageDump == dir.dump # None /\ dir.dump.intact /\ Damaged([dir EXCEPT !.dump = Torn(@)], store)

\* the files of two packages get mixed up: the dump is that of another day
MixDumps ==
  /\ At("idle") /\ dir.dump # None
  /\ \E i \in DOMAIN log : log[i] # dir.dump.db /\ Damaged([dir EXCEPT !.dump = Dump(log[i])], store)

RemoveDirectory ==
  At("idle") /\ dir.made /\ dir' = NoDirectory /\ UNCHANGED <<source, run, accepted, counters>>

-----------------------------------------------------------------------------
Writer ==
  \/ \E e \in Expenses : CreateExpense(e)
  \/ \E f \in Files : StoreReceipt(f) \/ CommitReceipt(f) \/ DropReceipt(f)
  \/ UpdateRow \/ Checkpoint

Script ==
  \/ CountSource \/ MakeDirectory \/ DumpDatabase \/ ListReceipts \/ EndCopy
  \/ \E f \in Files : CopyReceipt(f)
  \/ CreateContainer \/ NotReadyYet \/ Ready \/ RestoreDump \/ RestoreReceipts \/ Judge
  \/ CompareWithSource \/ WriteManifest \/ Accept \/ Stop

Operator ==
  \/ StartLocal \/ StartProduction \/ RemoveDirectory
  \/ \E strict \in BOOLEAN : StartCheck(strict)

Fault == DamageDump \/ MixDumps \/ \E f \in Files : DamageReceipt(f)

BackupNext == Writer \/ Script \/ Operator \/ Fault

BackupSpec == BackupInit /\ [][BackupNext]_backupVars

-----------------------------------------------------------------------------
(* Properties *)

Scripts == {"local", "production", "check"}

\* Directory and script are in one of their phases: nothing lies in a directory
\* that was not made, a manifest follows a dump, and a script never asks more
\* often than the loop of isolatedDatabase allows.
BackupTypeOK ==
  /\ log \in Seq(States) /\ log # << >> /\ dir.dump \in Dumps \cup {None}
  /\ store \in [Files -> Contents] /\ dir.receipts \in [Files -> Contents]
  /\ ~dir.made => dir = NoDirectory
  /\ dir.manifest # None => dir.dump # None
  /\ At("idle") => run = NoRun
  /\ ~At("idle") => run.script \in Scripts /\ (run.script # "check" => dir.made \/ At("positioned") \/ At("counted"))
  /\ run.probes \in 0..MaxProbes /\ started \in 0..MaxScripts /\ damages \in 0..MaxDamage

\* the books of a business, voucher by voucher and document by document
BooksAreSound(b) ==
  /\ \A v \in VouchersOf(b) :
        /\ \E r \in b.registry : r.voucher = v /\ r.sealed
        /\ Total(LinesOf(b, v), "debit") = Total(LinesOf(b, v), "credit")
        /\ \A l \in LinesOf(b, v) :
              /\ l.debit = 0 \/ l.credit = 0
              /\ l.evidence # Absent =>
                   \E e \in b.evidence : e.id = l.evidence /\ e.voucher = v /\ e.content = "intact"
  /\ \A o \in b.originals : o.content = "intact"
  /\ {"auditTruncate", "money"} \subseteq b.triggers

ReceiptsAreIn(d, files) == \A e \in d.expenses : d.receipt[e] # None => files[d.receipt[e]] = "good"

\* A package that agrees with its manifest can be restored: its books are sound
\* and it holds every receipt of them, whatever was written or uploaded while
\* the script ran (createLocalBundle, createProductionBundle).
PackageRestores ==
  HasManifest /\ MatchesManifest /\ dir.dump.intact =>
    BooksAreSound(dir.dump.db.books) /\ ReceiptsAreIn(dir.dump.db, dir.receipts)

\* The package of the production script is the database at the WAL position of
\* its manifest: no writer was overlooked, not even one that only updated rows.
ProductionPackageIsOfItsPosition ==
  HasManifest /\ dir.manifest.script = "production" /\ dir.manifest.dump.intact =>
    dir.manifest.dump.db = log[dir.manifest.wal]

\* What a check accepts is what was backed up, although files may rot or be mixed
\* up before and while it runs; what it accepts as evidence for production is
\* the source at one position, with a receipt for every expense and no file
\* that belongs to none (verifyBackupBundle).
AcceptedIsWhatWasBackedUp ==
  accepted # None =>
    /\ accepted.db = accepted.of.dump.db
    /\ BooksAreSound(accepted.db.books) /\ ReceiptsAreIn(accepted.db, accepted.receipts)
    /\ accepted.strict =>
         /\ accepted.db = log[accepted.of.wal]
         /\ \A e \in accepted.db.expenses : accepted.db.receipt[e] # None
         /\ Present(accepted.receipts) = Referenced(accepted.db)

\* No script writes into a package that has its manifest: "an old success marker
\* must not survive a failed backup".
CertifiedPackageIsLeftAlone ==
  [][HasManifest /\ dir' # dir => damages' # damages \/ dir' = NoDirectory]_backupVars
=============================================================================
