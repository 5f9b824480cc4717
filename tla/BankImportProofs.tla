-------------------------- MODULE BankImportProofs --------------------------
(***************************************************************************)
(* Proofs about BankImport for every number of pages, every set of files   *)
(* and any number of clicks and requests in flight.                        *)
(***************************************************************************)
EXTENDS BankImport, FiniteSetTheorems, TLAPS

----------------------------------------------------------------------------
(* The inductive invariant.                                                *)

\* A page waits for at most one file, the one chosen last, and shows nothing
\* of an older one as if it were that file.
CurrentReaders ==
  /\ \A r, s \in readers : r.current /\ s.current /\ r.by = s.by => r = s
  /\ \A r \in readers : r.current => r.file = chosen[r.by] /\ ~loaded[r.by]

\* The advisory lock of a row has one holder, and what it checked still holds.
Holding == {"locked", "checked"}
RowLocks ==
  /\ \A q, o \in requests :
       q.row = o.row /\ q.step \in Holding /\ o.step \in Holding => q = o
  /\ \A q \in requests : q.step = "checked" =>
       q.kind # "restore" /\ \A e \in entries : e.row # q.row

\* A booking that was answered has its entry, and no restore removes it.
Booked(row) == \E e \in entries : e.row = row /\ e.status = "booked"
DoneIsBooked == \A q \in requests : q.kind = "book" /\ q.step = "done" => Booked(q.row)

\* What hides a row is a booked entry or the list of skipped rows; a skipped
\* entry alone would not do, another page may take it back.
HiddenRows ==
  \A p \in Pages : loaded[p] =>
    \A row \in RowsOf(chosen[p]) \ rows[p] : row \in skipped[p] \/ Booked(row)

IInv ==
  /\ TypeOK /\ CurrentReaders /\ RowLocks /\ OneEntryPerRow /\ DoneIsBooked
  /\ ShownRowsAreOfTheChosenFile /\ HiddenRows

----------------------------------------------------------------------------
(* Row identities.                                                         *)

\* Every row of a file has an identity of the declared type.
LEMMA RowsAreBankRows ==
  ASSUME NEW file \in Files
  PROVE  RowsOf(file) \subseteq BankRows
<1>1. file \in Seq(Contents)
  BY FilesAssumption
<1> SUFFICES ASSUME NEW i \in 1 .. Len(file) PROVE RowAt(file, i) \in BankRows
  BY <1>1 DEF RowsOf, identifyBankRows
<1> DEFINE earlier == {j \in 1 .. i - 1 : file[j] = file[i]}
<1>2. IsFiniteSet(1 .. i - 1)
  BY <1>1, FS_Interval
<1>3. Cardinality(earlier) \in Nat
  BY <1>2, FS_Subset, FS_CardinalityType
<1> QED BY <1>1, <1>3 DEF RowAt, BankRows

\* Two rows of one file never have the same identity, equal as they may be:
\* what the key of the list, the hash and the lock all rely on
\* (identifyBankRows).
THEOREM RowsOfAFileDiffer ==
  ASSUME NEW file \in Seq(Contents), NEW i \in 1 .. Len(file), NEW j \in 1 .. Len(file),
         identifyBankRows(file)[i] = identifyBankRows(file)[j]
  PROVE  i = j
<1>1. file[i] = file[j] /\ RowAt(file, i).occurrence = RowAt(file, j).occurrence
  BY DEF identifyBankRows, RowAt
<1>2. ASSUME NEW k \in 1 .. Len(file), NEW l \in 1 .. Len(file), k < l, file[k] = file[l]
      PROVE  RowAt(file, k).occurrence # RowAt(file, l).occurrence
  <2> DEFINE before == {n \in 1 .. k - 1 : file[n] = file[k]}
             upTo == {n \in 1 .. l - 1 : file[n] = file[l]}
  <2>1. IsFiniteSet(1 .. l - 1)
    BY FS_Interval
  <2>2. before \subseteq upTo /\ k \in upTo /\ k \notin before
    BY <1>2
  <2>3. IsFiniteSet(upTo)
    BY <2>1, FS_Subset
  <2>4. Cardinality(before) # Cardinality(upTo)
    BY <2>2, <2>3, FS_Subset
  <2> QED BY <2>4 DEF RowAt
<1> QED BY <1>1, <1>2

----------------------------------------------------------------------------
(* Every step keeps the invariant.                                         *)

\* A request that moves on takes its row, its kind and its page with it.
LEMMA MovedRequest ==
  ASSUME NEW q \in requests, requests \subseteq Requests,
         NEW step \in {"sent", "locked", "checked", "done", "refused"}, To(q, step)
  PROVE  /\ requests' \subseteq (requests \ {q}) \cup {[q EXCEPT !.step = step]}
         /\ [q EXCEPT !.step = step] \in Requests
BY DEF To, Requests

LEMMA UnheardRequest ==
  ASSUME NEW q \in requests, requests \subseteq Requests, LoseAnswer(q)
  PROVE  /\ requests' \subseteq (requests \ {q}) \cup {[q EXCEPT !.heard = FALSE]}
         /\ [q EXCEPT !.heard = FALSE] \in Requests
BY DEF LoseAnswer, Requests

\* The steps of a request in flight inside the server.
ServerStep(q) == Lock(q) \/ Reserve(q) \/ Record(q) \/ RemoveSkipped(q) \/ Refuse(q)

LEMMA StepType == TypeOK /\ [Next]_vars => TypeOK'
<1> SUFFICES ASSUME TypeOK, [Next]_vars PROVE TypeOK'
  OBVIOUS
<1> USE DEF TypeOK, page
<1>1. ASSUME NEW p \in Pages, NEW file \in Files, ChooseFile(p, file) PROVE TypeOK'
  <2>1. clicks' \in 0 .. MaxClicks /\ clicks' \in Nat
    BY <1>1, BoundsAssumption DEF ChooseFile, Click
  <2>2. \A r \in readers : [r EXCEPT !.current = FALSE] \in Readers
    BY DEF Readers
  <2>3. [id |-> clicks', by |-> p, file |-> file, hashing |-> FALSE, current |-> TRUE] \in Readers
    BY <2>1 DEF Readers
  <2>4. readers' \subseteq Readers
    BY <1>1, <2>2, <2>3 DEF ChooseFile
  <2> QED BY <1>1, <2>1, <2>4 DEF ChooseFile
<1>2. ASSUME NEW p \in Pages, NEW row \in BankRows, NEW kind \in {"book", "skip", "restore"},
             Ask(p, kind, row)
      PROVE  TypeOK'
  <2>1. clicks' \in 0 .. MaxClicks /\ clicks' \in Nat
    BY <1>2, BoundsAssumption DEF Ask, Click
  <2>2. [id |-> clicks', by |-> p, kind |-> kind, row |-> row, step |-> "sent", heard |-> TRUE]
          \in Requests
    BY <2>1 DEF Requests
  <2> QED BY <1>2, <2>1, <2>2 DEF Ask
<1>3. ASSUME NEW r \in readers, ParseFile(r) PROVE TypeOK'
  <2>1. [r EXCEPT !.hashing = TRUE] \in Readers
    BY DEF Readers
  <2> QED BY <1>3, <2>1 DEF ParseFile
<1>4. ASSUME NEW r \in readers, ShowRows(r) \/ RejectFile(r) PROVE TypeOK'
  <2>1. r.by \in Pages /\ RowsOf(r.file) \in SUBSET BankRows
    BY RowsAreBankRows DEF Readers
  <2>2. CASE ShowRows(r)
    <3>1. CASE IsCurrent(r)
      <4>1. /\ rows' = [rows EXCEPT ![r.by] = RowsOf(r.file)]
            /\ skipped' = [skipped EXCEPT ![r.by] = {}]
            /\ loaded' = [loaded EXCEPT ![r.by] = TRUE]
        BY <2>2, <3>1 DEF ShowRows
      <4> QED BY <2>1, <2>2, <4>1 DEF ShowRows
    <3>2. CASE ~IsCurrent(r)
      BY <2>2, <3>2 DEF ShowRows
    <3> QED BY <3>1, <3>2
  <2>3. CASE RejectFile(r)
    BY <2>1, <2>3 DEF RejectFile
  <2> QED BY <1>4, <2>2, <2>3
<1>5. ASSUME NEW q \in requests, Answer(q) PROVE TypeOK'
  <2>1. q.row \in BankRows
    BY DEF Requests
  <2> QED BY <1>5, <2>1 DEF Answer, HiddenBy
<1>6. ASSUME NEW q \in requests, LoseAnswer(q) PROVE TypeOK'
  BY <1>6, UnheardRequest DEF LoseAnswer
<1>7. ASSUME NEW q \in requests, ServerStep(q) PROVE TypeOK'
  <2>1. requests' \subseteq Requests
    BY <1>7, MovedRequest DEF ServerStep, Lock, Reserve, Record, RemoveSkipped, Refuse
  <2>2. entries' \subseteq Entries
    BY <1>7 DEF ServerStep, Lock, Reserve, Record, RemoveSkipped, Refuse, StatusOf,
      SkippedEntries, EntriesOf, Entries, Requests
  <2> QED BY <1>7, <2>1, <2>2 DEF ServerStep, Lock, Reserve, Record, RemoveSkipped, Refuse
<1>8. CASE UNCHANGED vars
  BY <1>8 DEF vars
<1> QED BY <1>1, <1>2, <1>3, <1>4, <1>5, <1>6, <1>7, <1>8
  DEF Next, Clicks, Others, Quiet, Book, skipBankImportRow, restoreSkippedBankImportRow, ServerStep

\* What a reader reads stays the file chosen last, and nothing else is shown.
LEMMA StepReaders ==
  TypeOK /\ CurrentReaders /\ ShownRowsAreOfTheChosenFile /\ [Next]_vars =>
    CurrentReaders' /\ ShownRowsAreOfTheChosenFile'
<1> SUFFICES ASSUME TypeOK, CurrentReaders, ShownRowsAreOfTheChosenFile, [Next]_vars
             PROVE  CurrentReaders' /\ ShownRowsAreOfTheChosenFile'
  OBVIOUS
<1> USE DEF page, CurrentReaders, ShownRowsAreOfTheChosenFile
<1>0. /\ chosen \in [Pages -> Files \cup {NoFile}] /\ loaded \in [Pages -> BOOLEAN]
      /\ rows \in [Pages -> SUBSET BankRows] /\ restored \in [Pages -> SUBSET BankRows]
      /\ \A r \in readers : r \in Readers /\ r.by \in Pages
  BY DEF TypeOK, Readers
<1>1. ASSUME NEW p \in Pages, NEW file \in Files, ChooseFile(p, file)
      PROVE  CurrentReaders' /\ ShownRowsAreOfTheChosenFile'
  <2> DEFINE new == [id |-> clicks', by |-> p, file |-> file, hashing |-> FALSE, current |-> TRUE]
  <2>1. \A r \in readers : ~[r EXCEPT !.current = FALSE].current
    BY <1>0 DEF Readers
  <2> DEFINE old == {r \in readers : r.by # p}
             stale == {[r EXCEPT !.current = FALSE] : r \in {s \in readers : s.by = p /\ s.hashing}}
  <2>2. readers' = old \cup stale \cup {new}
    BY <1>1 DEF ChooseFile
  <2>3. \A r \in stale : ~r.current
    BY <2>1
  <2>4. \A r \in old : r \in readers /\ r.by # p
    OBVIOUS
  <2>5. new.file = file /\ new.by = p
    OBVIOUS
  <2> HIDE DEF old, stale, new
  <2>6. \A r \in readers' : r.current => r = new \/ (r \in readers /\ r.by # p)
    BY <2>2, <2>3, <2>4
  <2>7. CurrentReaders'
    BY <1>0, <1>1, <2>5, <2>6 DEF ChooseFile
  <2>8. ShownRowsAreOfTheChosenFile'
    BY <1>0, <1>1 DEF ChooseFile
  <2> QED BY <2>7, <2>8
<1>2. ASSUME NEW r \in readers, ParseFile(r)
      PROVE  CurrentReaders' /\ ShownRowsAreOfTheChosenFile'
  <2> DEFINE hashing == [r EXCEPT !.hashing = TRUE]
  <2>1. hashing.by = r.by /\ hashing.file = r.file /\ hashing.current = r.current
    BY <1>0 DEF Readers
  <2>2. readers' \subseteq (readers \ {r}) \cup {hashing}
    BY <1>2 DEF ParseFile
  <2> QED BY <1>2, <2>1, <2>2 DEF ParseFile
<1>3. ASSUME NEW r \in readers, ShowRows(r)
      PROVE  CurrentReaders' /\ ShownRowsAreOfTheChosenFile'
  <2>1. CASE IsCurrent(r)
    <3>1. /\ rows' = [rows EXCEPT ![r.by] = RowsOf(r.file)]
          /\ loaded' = [loaded EXCEPT ![r.by] = TRUE]
          /\ readers' = readers \ {r} /\ chosen' = chosen /\ restored' = restored
      BY <1>3, <2>1 DEF ShowRows
    <3>2. r.current /\ r.file = chosen[r.by]
      BY <2>1 DEF IsCurrent
    <3>3. \A s \in readers' : s.current => s.by # r.by
      BY <3>1, <3>2
    <3> QED BY <1>0, <3>1, <3>2, <3>3
  <2>2. CASE ~IsCurrent(r)
    BY <1>3, <2>2 DEF ShowRows
  <2> QED BY <2>1, <2>2
<1>4. ASSUME NEW r \in readers, RejectFile(r)
      PROVE  CurrentReaders' /\ ShownRowsAreOfTheChosenFile'
  <2>1. \A p \in Pages : rows'[p] \subseteq rows[p]
    BY <1>0, <1>4 DEF RejectFile
  <2> QED BY <1>4, <2>1 DEF RejectFile
<1>5. ASSUME NEW q \in requests, Answer(q)
      PROVE  CurrentReaders' /\ ShownRowsAreOfTheChosenFile'
  <2> DEFINE back == IF q.kind = "restore" /\ q.step = "done" THEN {q.row} ELSE {}
  <2>1. q.by \in Pages
    BY DEF TypeOK, Requests
  <2>2. /\ rows' = [rows EXCEPT ![q.by] =
                      (@ \ (IF q.kind = "restore" THEN {} ELSE HiddenBy(q))) \cup back]
        /\ restored' = [restored EXCEPT ![q.by] = @ \cup back]
        /\ UNCHANGED <<chosen, readers, loaded>>
    BY <1>5 DEF Answer
  <2>3. \A p \in Pages : rows'[p] \subseteq rows[p] \cup restored'[p]
                       /\ restored[p] \subseteq restored'[p]
    BY <1>0, <2>1, <2>2
  <2> QED BY <2>2, <2>3
<1>6. ASSUME UNCHANGED page PROVE CurrentReaders' /\ ShownRowsAreOfTheChosenFile'
  BY <1>6
<1>7. CASE UNCHANGED vars
  BY <1>6, <1>7 DEF vars
<1> QED BY <1>1, <1>2, <1>3, <1>4, <1>5, <1>6, <1>7
  DEF Next, Clicks, Others, Quiet, Book, skipBankImportRow, restoreSkippedBankImportRow, Ask,
    LoseAnswer, Lock, Reserve, Record, RemoveSkipped, Refuse

\* The lock of a row and the check under it make the entry of the row unique.
LEMMA StepLocks ==
  TypeOK /\ RowLocks /\ OneEntryPerRow /\ [Next]_vars => RowLocks' /\ OneEntryPerRow'
<1> SUFFICES ASSUME TypeOK, RowLocks, OneEntryPerRow, [Next]_vars
             PROVE  RowLocks' /\ OneEntryPerRow'
  OBVIOUS
<1> USE DEF RowLocks, OneEntryPerRow, Holding
<1>0. requests \subseteq Requests
  BY DEF TypeOK
<1>1. ASSUME NEW p \in Pages, NEW row, NEW kind, Ask(p, kind, row)
      PROVE  RowLocks' /\ OneEntryPerRow'
  <2> DEFINE new ==
    [id |-> clicks', by |-> p, kind |-> kind, row |-> row, step |-> "sent", heard |-> TRUE]
  <2>1. requests' = requests \cup {new} /\ entries' = entries
    BY <1>1 DEF Ask
  <2>2. new.step = "sent"
    OBVIOUS
  <2> HIDE DEF new
  <2> QED BY <2>1, <2>2
<1>2. ASSUME NEW q \in requests, Answer(q) PROVE RowLocks' /\ OneEntryPerRow'
  BY <1>2 DEF Answer
<1>3. ASSUME NEW q \in requests, LoseAnswer(q) PROVE RowLocks' /\ OneEntryPerRow'
  <2> DEFINE lost == [q EXCEPT !.heard = FALSE]
  <2>1. requests' \subseteq (requests \ {q}) \cup {lost}
    BY <1>0, <1>3, UnheardRequest
  <2>2. lost.row = q.row /\ lost.kind = q.kind /\ lost.step = q.step
    BY <1>0 DEF Requests
  <2>3. entries' = entries
    BY <1>3 DEF LoseAnswer
  <2> HIDE DEF lost
  <2> QED BY <2>1, <2>2, <2>3
<1>4. ASSUME NEW q \in requests, NEW step \in {"sent", "locked", "checked", "done", "refused"},
             To(q, step),
             step \in Holding => \A o \in requests \ {q} : o.row = q.row => o.step \notin Holding,
             step = "checked" => q.kind # "restore" /\ \A e \in entries' : e.row # q.row,
             \A e \in entries' \ entries : \A o \in requests \ {q} :
               o.row = e.row => o.step # "checked"
      PROVE  RowLocks'
  <2> DEFINE moved == [q EXCEPT !.step = step]
  <2>1. requests' \subseteq (requests \ {q}) \cup {moved}
    BY <1>4 DEF To
  <2>2. moved.row = q.row /\ moved.kind = q.kind /\ moved.step = step
    BY <1>0 DEF Requests
  <2> QED BY <1>4, <2>1, <2>2
<1>5. ASSUME NEW q \in requests, Lock(q) PROVE RowLocks' /\ OneEntryPerRow'
  BY <1>4, <1>5 DEF Lock, LockIsFree
<1>6. ASSUME NEW q \in requests, Reserve(q) PROVE RowLocks' /\ OneEntryPerRow'
  <2>1. CASE \E e \in entries : e.row = q.row
    BY <1>4, <1>6, <2>1 DEF Reserve
  <2>2. CASE ~ \E e \in entries : e.row = q.row
    BY <1>4, <1>6, <2>2 DEF Reserve
  <2> QED BY <2>1, <2>2
<1>7. ASSUME NEW q \in requests, Record(q) PROVE RowLocks' /\ OneEntryPerRow'
  <2>1. \A e \in entries' \ entries : e.row = q.row
    BY <1>7 DEF Record
  <2>2. \A o \in requests \ {q} : o.row = q.row => o.step # "checked"
    BY <1>7 DEF Record
  <2>3. RowLocks'
    BY <1>4, <1>7, <2>1, <2>2 DEF Record
  <2>4. OneEntryPerRow'
    BY <1>7 DEF Record
  <2> QED BY <2>3, <2>4
<1>8. ASSUME NEW q \in requests, RemoveSkipped(q) PROVE RowLocks' /\ OneEntryPerRow'
  BY <1>4, <1>8 DEF RemoveSkipped
<1>9. ASSUME NEW q \in requests, Refuse(q) PROVE RowLocks' /\ OneEntryPerRow'
  BY <1>4, <1>9 DEF Refuse
<1>10. CASE UNCHANGED <<requests, entries>>
  BY <1>10
<1> QED BY <1>1, <1>2, <1>3, <1>5, <1>6, <1>7, <1>8, <1>9, <1>10
  DEF Next, Clicks, Others, Quiet, vars, page, Book, skipBankImportRow,
    restoreSkippedBankImportRow, ChooseFile, ParseFile, ShowRows, RejectFile

\* A booked entry is never taken back, so what it hides may stay hidden.
LEMMA StepEntries ==
  TypeOK /\ [Next]_vars => \A e \in entries : e.status = "booked" => e \in entries'
<1> SUFFICES ASSUME TypeOK, [Next]_vars, NEW e \in entries, e.status = "booked"
             PROVE  e \in entries'
  OBVIOUS
<1>1. ASSUME NEW q \in requests, RemoveSkipped(q) PROVE e \in entries'
  BY <1>1 DEF RemoveSkipped, SkippedEntries, EntriesOf
<1>2. ASSUME NEW q \in requests, Record(q) PROVE e \in entries'
  BY <1>2 DEF Record
<1>3. CASE UNCHANGED entries
  BY <1>3
<1> QED BY <1>1, <1>2, <1>3
  DEF Next, Clicks, Others, Quiet, vars, Book, skipBankImportRow, restoreSkippedBankImportRow,
    Ask, ChooseFile, ParseFile, ShowRows, RejectFile, Answer, LoseAnswer, Lock, Reserve, Refuse

LEMMA StepDone == TypeOK /\ RowLocks /\ DoneIsBooked /\ [Next]_vars => DoneIsBooked'
<1> SUFFICES ASSUME TypeOK, RowLocks, DoneIsBooked, [Next]_vars PROVE DoneIsBooked'
  OBVIOUS
<1>0. /\ requests \subseteq Requests
      /\ \A row : Booked(row) => Booked(row)'
  BY StepEntries DEF TypeOK, Booked
<1>1. ASSUME requests' \subseteq requests PROVE DoneIsBooked'
  BY <1>0, <1>1 DEF DoneIsBooked
<1>2. ASSUME NEW p \in Pages, NEW row, NEW kind, Ask(p, kind, row) PROVE DoneIsBooked'
  <2> DEFINE new ==
    [id |-> clicks', by |-> p, kind |-> kind, row |-> row, step |-> "sent", heard |-> TRUE]
  <2>1. requests' = requests \cup {new} /\ new.step = "sent"
    BY <1>2 DEF Ask
  <2> HIDE DEF new
  <2> QED BY <1>0, <2>1 DEF DoneIsBooked
<1>3. ASSUME NEW q \in requests, LoseAnswer(q) PROVE DoneIsBooked'
  <2> DEFINE lost == [q EXCEPT !.heard = FALSE]
  <2>1. requests' \subseteq (requests \ {q}) \cup {lost}
    BY <1>0, <1>3, UnheardRequest
  <2>2. lost.row = q.row /\ lost.kind = q.kind /\ lost.step = q.step
    BY <1>0 DEF Requests
  <2> HIDE DEF lost
  <2> QED BY <1>0, <2>1, <2>2 DEF DoneIsBooked
<1>4. ASSUME NEW q \in requests, NEW step \in {"sent", "locked", "checked", "done", "refused"},
             To(q, step), step = "done" /\ q.kind = "book" => Booked(q.row)'
      PROVE  DoneIsBooked'
  <2> DEFINE moved == [q EXCEPT !.step = step]
  <2>1. requests' \subseteq (requests \ {q}) \cup {moved}
    BY <1>4 DEF To
  <2>2. moved.row = q.row /\ moved.kind = q.kind /\ moved.step = step
    BY <1>0 DEF Requests
  <2> HIDE DEF moved
  <2> QED BY <1>0, <1>4, <2>1, <2>2 DEF DoneIsBooked
<1>5. ASSUME NEW q \in requests, Lock(q) \/ Refuse(q) PROVE DoneIsBooked'
  BY <1>4, <1>5 DEF Lock, Refuse
<1>6. ASSUME NEW q \in requests, Reserve(q) PROVE DoneIsBooked'
  <2>1. CASE \E e \in entries : e.row = q.row
    BY <1>4, <1>6, <2>1 DEF Reserve
  <2>2. CASE ~ \E e \in entries : e.row = q.row
    BY <1>4, <1>6, <2>2 DEF Reserve
  <2> QED BY <2>1, <2>2
<1>7. ASSUME NEW q \in requests, Record(q) PROVE DoneIsBooked'
  <2> DEFINE e == [row |-> q.row, status |-> StatusOf(q), by |-> q.id]
  <2>1. q.kind = "book" => e \in entries' /\ e.row = q.row /\ e.status = "booked"
    BY <1>7 DEF Record, StatusOf
  <2>2. q.kind = "book" => Booked(q.row)'
    BY <2>1 DEF Booked
  <2> QED BY <1>4, <1>7, <2>2 DEF Record
<1>8. ASSUME NEW q \in requests, RemoveSkipped(q) PROVE DoneIsBooked'
  BY <1>4, <1>8 DEF RemoveSkipped
<1>9. ASSUME NEW q \in requests, Answer(q) PROVE DoneIsBooked'
  BY <1>1, <1>9 DEF Answer
<1>10. CASE UNCHANGED requests
  BY <1>1, <1>10
<1> QED BY <1>2, <1>3, <1>5, <1>6, <1>7, <1>8, <1>9, <1>10
  DEF Next, Clicks, Others, Quiet, vars, Book, skipBankImportRow,
    restoreSkippedBankImportRow, ChooseFile, ParseFile, ShowRows, RejectFile

\* A row leaves the list of a page only for the list of skipped rows or for
\* its booked entry.
LEMMA StepHidden ==
  TypeOK /\ CurrentReaders /\ DoneIsBooked /\ HiddenRows /\ [Next]_vars => HiddenRows'
<1> SUFFICES ASSUME TypeOK, CurrentReaders, DoneIsBooked, HiddenRows, [Next]_vars
             PROVE  HiddenRows'
  OBVIOUS
<1>0. /\ chosen \in [Pages -> Files \cup {NoFile}] /\ loaded \in [Pages -> BOOLEAN]
      /\ rows \in [Pages -> SUBSET BankRows] /\ skipped \in [Pages -> SUBSET BankRows]
      /\ \A r \in readers : r.by \in Pages
      /\ \A q \in requests : q.by \in Pages /\ q.kind \in {"book", "skip", "restore"}
      /\ \A row : Booked(row) => Booked(row)'
  BY StepEntries DEF TypeOK, Readers, Requests, Booked
<1>1. ASSUME NEW p \in Pages, NEW file \in Files, ChooseFile(p, file) PROVE HiddenRows'
  BY <1>0, <1>1 DEF ChooseFile, HiddenRows
<1>2. ASSUME NEW r \in readers, ShowRows(r) PROVE HiddenRows'
  <2>1. CASE IsCurrent(r)
    <3>1. /\ rows' = [rows EXCEPT ![r.by] = RowsOf(r.file)]
          /\ skipped' = [skipped EXCEPT ![r.by] = {}]
          /\ loaded' = [loaded EXCEPT ![r.by] = TRUE] /\ chosen' = chosen
      BY <1>2, <2>1 DEF ShowRows
    <3>2. r.file = chosen[r.by]
      BY <2>1 DEF IsCurrent, CurrentReaders
    <3> QED BY <1>0, <3>1, <3>2 DEF HiddenRows
  <2>2. CASE ~IsCurrent(r)
    BY <1>0, <1>2, <2>2 DEF ShowRows, HiddenRows
  <2> QED BY <2>1, <2>2
<1>3. ASSUME NEW r \in readers, RejectFile(r) PROVE HiddenRows'
  <2>1. IsCurrent(r) => ~loaded[r.by]
    BY DEF IsCurrent, CurrentReaders
  <2>2. CASE IsCurrent(r)
    BY <1>0, <1>3, <2>1, <2>2 DEF RejectFile, HiddenRows
  <2>3. CASE ~IsCurrent(r)
    BY <1>0, <1>3, <2>3 DEF RejectFile, HiddenRows
  <2> QED BY <2>2, <2>3
<1>4. ASSUME NEW q \in requests, Answer(q) PROVE HiddenRows'
  <2>1. UNCHANGED <<chosen, loaded>>
    BY <1>4 DEF Answer
  <2>2. CASE q.step # "done"
    <3>1. rows' = rows /\ skipped' = skipped
      BY <1>0, <1>4, <2>2 DEF Answer, HiddenBy
    <3> QED BY <1>0, <2>1, <3>1 DEF HiddenRows
  <2>3. CASE q.step = "done" /\ q.kind = "book"
    <3>1. rows' = [rows EXCEPT ![q.by] = @ \ {q.row}] /\ skipped' = skipped
      BY <1>0, <1>4, <2>3 DEF Answer, HiddenBy
    <3>2. Booked(q.row)'
      BY <1>0, <2>3 DEF DoneIsBooked
    <3> QED BY <1>0, <2>1, <3>1, <3>2 DEF HiddenRows
  <2>4. CASE q.step = "done" /\ q.kind = "skip"
    <3>1. /\ rows' = [rows EXCEPT ![q.by] = @ \ {q.row}]
          /\ skipped' = [skipped EXCEPT ![q.by] = @ \cup {q.row}]
      BY <1>0, <1>4, <2>4 DEF Answer, HiddenBy
    <3> QED BY <1>0, <2>1, <3>1 DEF HiddenRows
  <2>5. CASE q.step = "done" /\ q.kind = "restore"
    <3>1. /\ rows' = [rows EXCEPT ![q.by] = @ \cup {q.row}]
          /\ skipped' = [skipped EXCEPT ![q.by] = @ \ {q.row}]
      BY <1>0, <1>4, <2>5 DEF Answer
    <3> QED BY <1>0, <2>1, <3>1 DEF HiddenRows
  <2> QED BY <1>0, <2>2, <2>3, <2>4, <2>5
<1>5. CASE UNCHANGED <<chosen, loaded, rows, skipped>>
  BY <1>0, <1>5 DEF HiddenRows
<1> QED BY <1>1, <1>2, <1>3, <1>4, <1>5
  DEF Next, Clicks, Others, Quiet, vars, page, Book, skipBankImportRow, restoreSkippedBankImportRow,
    Ask, ParseFile, LoseAnswer, Lock, Reserve, Record, RemoveSkipped, Refuse

----------------------------------------------------------------------------
(* Theorems.                                                               *)

LEMMA SpecIInv == Spec => []IInv
<1>1. Init => IInv
  <2>1. Init => TypeOK
    BY BoundsAssumption DEF Init, TypeOK
  <2> QED BY <2>1 DEF Init, IInv, CurrentReaders, RowLocks, OneEntryPerRow, DoneIsBooked,
    ShownRowsAreOfTheChosenFile, HiddenRows
<1>2. IInv /\ [Next]_vars => IInv'
  BY StepType, StepReaders, StepLocks, StepDone, StepHidden DEF IInv
<1> QED BY <1>1, <1>2, PTL DEF Spec

\* Every variable of the bank import keeps its type, at any bound.
THEOREM BankTypeOK == Spec => []TypeOK
<1>1. IInv => TypeOK
  BY DEF IInv
<1> QED BY <1>1, SpecIInv, PTL

\* However many pages ask for one bank row, it has one entry: it is booked at
\* most once (BankImportBookingService.reserve and skip).
THEOREM BankRowHasOneEntry == Spec => []OneEntryPerRow
<1>1. IInv => OneEntryPerRow
  BY DEF IInv
<1> QED BY <1>1, SpecIInv, PTL

\* No step takes a booked entry back, a restore that waited for the lock
\* included (BankImportBookingService.removeSkipped).
THEOREM BankBookedEntryStays == Spec => BookedEntryStays
<1>1. IInv /\ [Next]_vars => [\A e \in entries : e.status = "booked" => e \in entries']_vars
  BY StepEntries DEF IInv
<1> QED BY <1>1, SpecIInv, PTL DEF Spec, BookedEntryStays

\* In whatever order files are read and hashed, a page shows the file chosen
\* last (handleBankCsvUpload).
THEOREM BankShowsChosenFile == Spec => []ShownRowsAreOfTheChosenFile
<1>1. IInv => ShownRowsAreOfTheChosenFile
  BY DEF IInv
<1> QED BY <1>1, SpecIInv, PTL

\* No row of a file gets lost: what a page no longer shows is in the history
\* or in the page's list of skipped rows (removeBankImportRow).
THEOREM BankHidesHandledRows == Spec => []HiddenRowIsHandled
<1>1. IInv => HiddenRowIsHandled
  BY DEF IInv, HiddenRows, HiddenRowIsHandled, Booked
<1> QED BY <1>1, SpecIInv, PTL
=============================================================================
