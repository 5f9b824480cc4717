----------------------------- MODULE BankImport -----------------------------
(***************************************************************************)
(* The import of bank files.  A page reads a CSV file, gives every row an  *)
(* identity made of its content, and shows the rows; each is then booked   *)
(* as a payment or an expense, or skipped, and a skipped one can be taken  *)
(* back.  The server keeps one entry per row identity in its history, under*)
(* an advisory lock of the row.  Files are read and hashed asynchronously, *)
(* nothing disables a row while a request is in flight, and several pages  *)
(* may import the same file.                                               *)
(***************************************************************************)
EXTENDS Integers, Sequences, FiniteSets

CONSTANTS
  Pages,        \* open pages
  Contents,     \* date, amount, reference and description of a row
  Files,        \* CSV files: the contents of their rows, in order
  MaxClicks,    \* bound: user actions
  MaxInFlight   \* bound: requests in flight

ASSUME FilesAssumption == Files \subseteq Seq(Contents)
ASSUME BoundsAssumption == MaxClicks \in Nat /\ MaxInFlight \in Nat

\* identifyBankRows: the content, and how often it came before in the file.
RowAt(file, i) ==
  [content |-> file[i], occurrence |-> Cardinality({j \in 1 .. i - 1 : file[j] = file[i]})]
identifyBankRows(file) == [i \in 1 .. Len(file) |-> RowAt(file, i)]
RowsOf(file) == {identifyBankRows(file)[i] : i \in 1 .. Len(file)}
BankRows == [content: Contents, occurrence: Nat]
NoFile == <<>>

VARIABLES
  chosen,     \* the file chosen last in each page
  readers,    \* files being read and hashed
  rows,       \* bankImportRows
  skipped,    \* skippedBankImportRows
  requests,   \* requests in flight, with their transactions
  entries,    \* bank_reconciliation_entries
  clicks,
  loaded,     \* history: the rows of the chosen file have been shown
  restored    \* history: rows that a page took back
page == <<chosen, readers, rows, skipped, loaded, restored>>
vars == <<page, requests, entries, clicks>>

Readers == [id: Nat, by: Pages, file: Files, hashing: BOOLEAN, current: BOOLEAN]
Requests ==
  [id: Nat, by: Pages, kind: {"book", "skip", "restore"}, row: BankRows, heard: BOOLEAN,
   step: {"sent", "locked", "checked", "done", "refused"}]
Entries == [row: BankRows, status: {"booked", "skipped"}, by: Nat]
TypeOK ==
  /\ chosen \in [Pages -> Files \cup {NoFile}] /\ loaded \in [Pages -> BOOLEAN]
  /\ readers \subseteq Readers /\ requests \subseteq Requests /\ entries \subseteq Entries
  /\ rows \in [Pages -> SUBSET BankRows] /\ skipped \in [Pages -> SUBSET BankRows]
  /\ restored \in [Pages -> SUBSET BankRows]
  /\ clicks \in 0 .. MaxClicks

Init ==
  /\ chosen = [p \in Pages |-> NoFile] /\ readers = {}
  /\ rows = [p \in Pages |-> {}] /\ skipped = [p \in Pages |-> {}]
  /\ requests = {} /\ entries = {} /\ clicks = 0
  /\ loaded = [p \in Pages |-> FALSE] /\ restored = [p \in Pages |-> {}]

Click == clicks < MaxClicks /\ clicks' = clicks + 1

----------------------------------------------------------------------------
(* Reading a file.                                                         *)

\* abort() ends a reader that still reads; one that is hashing goes on.
ChooseFile(p, file) ==
  /\ Click
  /\ chosen' = [chosen EXCEPT ![p] = file]
  /\ readers' =
       {r \in readers : r.by # p} \cup
       {[r EXCEPT !.current = FALSE] : r \in {s \in readers : s.by = p /\ s.hashing}} \cup
       {[id |-> clicks', by |-> p, file |-> file, hashing |-> FALSE, current |-> TRUE]}
  /\ rows' = [rows EXCEPT ![p] = {}]
  /\ loaded' = [loaded EXCEPT ![p] = FALSE]
  /\ UNCHANGED <<skipped, restored, requests, entries>>

\* onload, or onerror.
ParseFile(r) ==
  /\ ~r.hashing
  /\ \/ readers' = (readers \ {r}) \cup {[r EXCEPT !.hashing = TRUE]}
     \/ readers' = readers \ {r}
  /\ UNCHANGED <<chosen, rows, skipped, loaded, restored, requests, entries, clicks>>

\* bankImportReader.current is compared again after the await.
\* Faulty variant: it is not.
AnyReader(r) == TRUE
IsCurrent(r) == r.current
ShowRows(r) ==
  /\ r.hashing
  /\ readers' = readers \ {r}
  /\ IF IsCurrent(r)
     THEN /\ rows' = [rows EXCEPT ![r.by] = RowsOf(r.file)]
          /\ skipped' = [skipped EXCEPT ![r.by] = {}]
          /\ loaded' = [loaded EXCEPT ![r.by] = TRUE]
     ELSE UNCHANGED <<rows, skipped, loaded>>
  /\ UNCHANGED <<chosen, restored, requests, entries, clicks>>

\* A row that cannot be parsed or hashed.
RejectFile(r) ==
  /\ r.hashing
  /\ readers' = readers \ {r}
  /\ rows' = IF IsCurrent(r) THEN [rows EXCEPT ![r.by] = {}] ELSE rows
  /\ UNCHANGED <<chosen, skipped, loaded, restored, requests, entries, clicks>>

----------------------------------------------------------------------------
(* Requests.  A payment and an expense book alike.                         *)

Ask(p, kind, row) ==
  /\ Click
  /\ Cardinality(requests) < MaxInFlight
  /\ requests' = requests \cup
       {[id |-> clicks', by |-> p, kind |-> kind, row |-> row, step |-> "sent", heard |-> TRUE]}
  /\ UNCHANGED <<page, entries>>
Book(p, row) == row \in rows[p] /\ Ask(p, "book", row)
skipBankImportRow(p, row) == row \in rows[p] /\ Ask(p, "skip", row)
restoreSkippedBankImportRow(p, row) == row \in skipped[p] /\ Ask(p, "restore", row)

\* removeBankImportRow once the request succeeded.
\* Faulty variant: whatever the answer is.
HiddenWhenAnswered(q) == {q.row}
HiddenBy(q) == IF q.step = "done" THEN {q.row} ELSE {}
Answer(q) ==
  /\ q.heard /\ q.step \in {"done", "refused"}
  /\ requests' = requests \ {q}
  /\ LET back == q.kind = "restore" /\ q.step = "done"
         hidden == IF q.kind = "restore" THEN {} ELSE HiddenBy(q)
     IN  /\ rows' = [rows EXCEPT ![q.by] = (@ \ hidden) \cup (IF back THEN {q.row} ELSE {})]
         /\ restored' = [restored EXCEPT ![q.by] = @ \cup (IF back THEN {q.row} ELSE {})]
         /\ skipped' =
              IF q.step # "done" THEN skipped
              ELSE CASE q.kind = "skip" -> [skipped EXCEPT ![q.by] = @ \cup {q.row}]
                     [] q.kind = "restore" -> [skipped EXCEPT ![q.by] = @ \ {q.row}]
                     [] OTHER -> skipped
  /\ UNCHANGED <<chosen, readers, loaded, entries, clicks>>

\* "The row is kept": no answer, or one that is not understood.
LoseAnswer(q) ==
  /\ q.heard
  /\ requests' = (requests \ {q}) \cup
       (IF q.step \in {"done", "refused"} THEN {} ELSE {[q EXCEPT !.heard = FALSE]})
  /\ UNCHANGED <<page, entries, clicks>>

----------------------------------------------------------------------------
(* The transactions of the server.                                         *)

To(q, step) ==
  requests' = (requests \ {q}) \cup
    (IF ~q.heard /\ step \in {"done", "refused"} THEN {} ELSE {[q EXCEPT !.step = step]})

\* lockBankRow: held until the transaction ends.
\* Faulty variant: the lock is not taken.
NoLock(q) == TRUE
LockIsFree(q) == \A o \in requests : o.row = q.row => o.step \notin {"locked", "checked"}
Lock(q) ==
  /\ q.step = "sent" /\ LockIsFree(q)
  /\ To(q, "locked")
  /\ UNCHANGED <<page, entries, clicks>>

\* reserve: existsByBankRowId, else 409.
Reserve(q) ==
  /\ q.step = "locked" /\ q.kind \in {"book", "skip"}
  /\ To(q, IF \E e \in entries : e.row = q.row THEN "refused" ELSE "checked")
  /\ UNCHANGED <<page, entries, clicks>>

StatusOf(q) == IF q.kind = "book" THEN "booked" ELSE "skipped"
Record(q) ==
  /\ q.step = "checked"
  /\ entries' = entries \cup
       {[row |-> q.row, status |-> StatusOf(q), by |-> q.id]}
  /\ To(q, "done")
  /\ UNCHANGED <<page, clicks>>

\* removeSkipped.
\* Faulty variant: the row is deleted whatever its status is.
EntriesOf(row) == {e \in entries : e.row = row}
SkippedEntries(row) == {e \in EntriesOf(row) : e.status = "skipped"}
RemoveSkipped(q) ==
  /\ q.step = "locked" /\ q.kind = "restore"
  /\ entries' = entries \ SkippedEntries(q.row)
  /\ To(q, "done")
  /\ UNCHANGED <<page, clicks>>

\* A locked accounting date, an invalid amount, a paid invoice; or the server
\* stops and the transaction is rolled back.
Refuse(q) ==
  /\ q.step \in {"sent", "locked", "checked"}
  /\ To(q, "refused")
  /\ UNCHANGED <<page, entries, clicks>>

----------------------------------------------------------------------------
Clicks ==
  \E p \in Pages :
    \/ \E file \in Files : ChooseFile(p, file)
    \/ \E row \in rows[p] : Book(p, row) \/ skipBankImportRow(p, row)
    \/ \E row \in skipped[p] : restoreSkippedBankImportRow(p, row)
Others ==
  \/ \E r \in readers : ParseFile(r) \/ ShowRows(r) \/ RejectFile(r)
  \/ \E q \in requests :
       \/ Answer(q) \/ LoseAnswer(q)
       \/ Lock(q) \/ Reserve(q) \/ Record(q) \/ RemoveSkipped(q) \/ Refuse(q)
Quiet == clicks = MaxClicks /\ requests = {} /\ readers = {} /\ UNCHANGED vars

Next == Clicks \/ Others \/ Quiet
Spec == Init /\ [][Next]_vars

----------------------------------------------------------------------------
(* Properties.                                                             *)

\* reserve and skip: however many pages ask for the same bank row at once,
\* the history has one entry for it, and so it is booked at most once.
OneEntryPerRow == \A d, e \in entries : d.row = e.row => d = e

\* A restore that races with a booking of the same row never takes the
\* booked entry with it (removeSkipped).
BookedEntryStays ==
  [][\A e \in entries : e.status = "booked" => e \in entries']_vars

\* handleBankCsvUpload: in whatever order files are read and hashed, the
\* rows shown are those of the file chosen last, or ones taken back.
ShownRowsAreOfTheChosenFile ==
  \A p \in Pages : rows[p] \subseteq RowsOf(chosen[p]) \cup restored[p]

\* A row of the file is out of sight only when the server has handled it or
\* the list of skipped rows still offers it.
HiddenRowIsHandled ==
  \A p \in Pages : loaded[p] =>
    \A row \in RowsOf(chosen[p]) \ rows[p] :
      row \in skipped[p] \/ \E e \in entries : e.row = row
=============================================================================
