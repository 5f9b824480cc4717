------------------------------ MODULE Posting ------------------------------
(***************************************************************************)
(* The posting core of AliBooks: every request that writes the journal,    *)
(* closes a period, changes the accounting policy or reviews a voucher is  *)
(* one PostgreSQL transaction (READ COMMITTED).  What keeps them apart is  *)
(* the row lock on app_settings (id 1), taken by                           *)
(* SettingsService.lockSettingsForAccounting and held to commit, and the   *)
(* advisory lock VoucherNumberService takes per voucher series.  A VAT     *)
(* filing takes neither.                                                   *)
(*                                                                         *)
(* Committed state is journal, settings, filedThrough and approved; what   *)
(* a transaction has read or written and not yet committed is job, seen,   *)
(* number and pending.                                                     *)
(***************************************************************************)
EXTENDS Integers, FiniteSets

CONSTANTS
  Requests,      \* the transactions of a behaviour
  NoRequest,     \* "nobody holds this lock"
  Series,        \* voucher series: F, B, K, L, ...
  Methods,       \* accounting methods (INVOICE, CASH)
  LastDay,       \* the last accounting date; dates are 1 .. LastDay
  MaxVouchers,   \* bound: vouchers one transaction posts
  UnpostedIds    \* voucher numbers a client may review before they exist

Days == 1 .. LastDay
Ids == [series: Series, number: Nat \ {0}]

ASSUME DatesAssumption == LastDay \in Nat
ASSUME NoRequestAssumption == NoRequest \notin Requests
ASSUME UnpostedAssumption == UnpostedIds \subseteq Ids

VARIABLES
  settings,        \* app_settings row 1: lock date (0 = none) and method
  filedThrough,    \* last periodTo of a SUBMITTED or PAID VAT filing (0 = none)
  journal,         \* committed vouchers
  approved,        \* voucher numbers whose committed review is "approved"
  settingsHolder,  \* who holds the app_settings row lock
  seriesHolder,    \* who holds the advisory lock of each series
  pc,              \* how far each transaction has come
  job,             \* what each transaction was asked to do
  seen,            \* the settings in its persistence context
  number,          \* the voucher number it was given, 0 when none
  pending          \* vouchers it has inserted and not committed

committed == <<settings, filedThrough, journal, approved>>
locks == <<settingsHolder, seriesHolder>>
local == <<job, seen, number, pending>>
vars == <<committed, locks, pc, local>>

Settings == [lockedThrough: 0 .. LastDay, method: Methods]
Vouchers == [series: Series, number: Nat \ {0}, day: Days, method: Methods]
Id(v) == [series |-> v.series, number |-> v.number]

Postings == [kind: {"post"}, day: Days, series: Series]
Closings == [kind: {"close"}, day: Days]
Policies == [kind: {"policy"}, method: Methods, lockDate: 0 .. LastDay]
Reviews == [kind: {"review"}, voucher: Ids, approve: BOOLEAN]
Filings == [kind: {"file"}, day: Days]
Jobs == Postings \cup Closings \cup Policies \cup Reviews \cup Filings
NoJob == [kind |-> "none"]

\* Places where a transaction holds the settings lock; where it may still act.
Guarded == {"locked", "open", "numbered", "written"}
Active == Guarded \cup {"started", "found", "unguarded"}
Places == Active \cup {"idle", "done"}

TypeOK ==
  /\ settings \in Settings
  /\ filedThrough \in 0 .. LastDay
  /\ journal \subseteq Vouchers
  /\ approved \subseteq Ids
  /\ settingsHolder \in Requests \cup {NoRequest}
  /\ seriesHolder \in [Series -> Requests \cup {NoRequest}]
  /\ pc \in [Requests -> Places]
  /\ job \in [Requests -> Jobs \cup {NoJob}]
  /\ \A t \in Requests : pc[t] # "idle" => job[t] \in Jobs
  /\ seen \in [Requests -> Settings]
  /\ number \in [Requests -> Nat]
  /\ pending \in [Requests -> SUBSET Vouchers]

Init ==
  /\ settings \in [lockedThrough: {0}, method: Methods]
  /\ filedThrough = 0
  /\ journal = {}
  /\ approved = {}
  /\ settingsHolder = NoRequest
  /\ seriesHolder = [s \in Series |-> NoRequest]
  /\ pc = [t \in Requests |-> "idle"]
  /\ job = [t \in Requests |-> NoJob]
  /\ seen = [t \in Requests |-> settings]
  /\ number = [t \in Requests |-> 0]
  /\ pending = [t \in Requests |-> {}]

----------------------------------------------------------------------------
(* What the handlers compute.                                              *)

Move(t, place) == pc' = [pc EXCEPT ![t] = place]

\* The journal as transaction t sees it: committed rows and its own.
Visible(t) == journal \cup pending[t]
NumbersOf(s, vs) == {v.number : v \in {w \in vs : w.series = s}}

\* VoucherNumberService: the highest number of the series, plus one.
Latest(ns) == IF ns = {} THEN 0 ELSE CHOOSE n \in ns : \A m \in ns : m <= n
\* Faulty variant: the prefix is not compared.
NumberOfAnySeries(t, s) == Latest({v.number : v \in Visible(t)}) + 1
NextNumber(t, s) == Latest(NumbersOf(s, Visible(t))) + 1

\* The dates a request must find open: the voucher it posts, or the vouchers
\* it reviews.  Closing a period and changing the policy check no date.
\* Faulty variant: a review checks no date.
DatesOfPostings(t) == IF job[t].kind = "post" THEN {job[t].day} ELSE {}
DatesTouched(t) ==
  IF job[t].kind = "review"
    THEN {v.day : v \in {w \in journal : Id(w) = job[t].voucher}}
    ELSE DatesOfPostings(t)

\* AccountingService.requireUnlockedAccountingDate: after the lock date, and
\* after the last VAT period that is declared or paid.
DateIsOpen(t) ==
  \A d \in DatesTouched(t) : d > seen[t].lockedThrough /\ d > filedThrough

\* AccountingPeriodLockService.checkPeriod, the blockers that are state of
\* this module: the period is not locked yet and its vouchers are approved.
\* Faulty variant: the approvals are not looked at.
NotLookedAt(t) == TRUE
VouchersApproved(t) ==
  \A v \in journal : v.day <= job[t].day => Id(v) \in approved
PeriodMayClose(t) ==
  /\ settings.lockedThrough < job[t].day
  /\ VouchersApproved(t)

\* SettingsService.validateAccountingLockChange / validateAccountingPolicyChange:
\* the form must show the lock date in force, and the method must not change
\* once there are journal rows.
PolicyMayChange(t) ==
  /\ job[t].lockDate = seen[t].lockedThrough
  /\ journal = {} \/ job[t].method = seen[t].method

\* The registry trigger takes a number only once.
NumberIsFree(t) ==
  \A v \in journal \cup UNION {pending[u] : u \in Requests} :
    Id(v) # [series |-> job[t].series, number |-> number[t]]

----------------------------------------------------------------------------
(* The steps of one transaction.                                           *)

ReviewableIds == {Id(v) : v \in journal} \cup UnpostedIds

\* A request arrives; its persistence context reads the settings row once
\* without a lock (AppSettings is often loaded before the lock is taken).
Begin(t) ==
  /\ pc[t] = "idle"
  /\ \E j \in Postings \cup Closings \cup Policies \cup Filings
        \cup [kind: {"review"}, voucher: ReviewableIds, approve: BOOLEAN] :
       job' = [job EXCEPT ![t] = j]
  /\ seen' = [seen EXCEPT ![t] = settings]
  /\ Move(t, "started")
  /\ UNCHANGED <<committed, locks, number, pending>>

\* VoucherApprovalService.requireVoucherApprovalEditable: the rows of the
\* voucher decide whether any date has to be checked, hence any lock taken.
FindVoucher(t) ==
  /\ pc[t] = "started" /\ job[t].kind = "review"
  /\ Move(t, IF DatesTouched(t) = {} THEN "unguarded" ELSE "found")
  /\ UNCHANGED <<committed, locks, local>>

\* What refresh(PESSIMISTIC_WRITE) leaves in the persistence context.
\* Faulty variant: a lock without refresh keeps the earlier read.
StaleSettings(t) == seen[t]
RefreshedSettings(t) == settings

\* Faulty variant: the row is read without the lock.
NeverWait(t) == TRUE
LockIsFree(t) == settingsHolder \in {NoRequest, t}

\* SettingsService.lockSettingsForAccounting: waits for the row lock, keeps
\* it to the end of the transaction and discards an older read.
LockSettingsForAccounting(t) ==
  /\ \/ pc[t] = "started" /\ job[t].kind \in {"post", "close", "policy"}
     \/ pc[t] = "found"
  /\ LockIsFree(t)
  /\ settingsHolder' = t
  /\ seen' = [seen EXCEPT ![t] = RefreshedSettings(t)]
  /\ Move(t, "locked")
  /\ UNCHANGED <<committed, seriesHolder, job, number, pending>>

\* The checks made under the lock, before anything is written.
RequireUnlockedAccountingDate(t) ==
  /\ pc[t] = "locked" /\ job[t].kind \in {"post", "review"}
  /\ DateIsOpen(t)
  /\ Move(t, IF job[t].kind = "post" THEN "open" ELSE "written")
  /\ UNCHANGED <<committed, locks, local>>

CheckPeriod(t) ==
  /\ pc[t] = "locked" /\ job[t].kind = "close"
  /\ PeriodMayClose(t)
  /\ Move(t, "written")
  /\ UNCHANGED <<committed, locks, local>>

ValidateAccountingPolicyChange(t) ==
  /\ pc[t] = "locked" /\ job[t].kind = "policy"
  /\ PolicyMayChange(t)
  /\ Move(t, "written")
  /\ UNCHANGED <<committed, locks, local>>

\* VatFilingService.create / updateStatus: its own validation reads reports
\* and takes no lock.
ValidateFiling(t) ==
  /\ pc[t] = "started" /\ job[t].kind = "file"
  /\ Move(t, "unguarded")
  /\ UNCHANGED <<committed, locks, local>>

\* VoucherNumberService.nextVoucherNumber: advisory lock, then the maximum.
NextVoucherNumber(t) ==
  /\ pc[t] = "open"
  /\ seriesHolder[job[t].series] \in {NoRequest, t}
  /\ seriesHolder' = [seriesHolder EXCEPT ![job[t].series] = t]
  /\ number' = [number EXCEPT ![t] = NextNumber(t, job[t].series)]
  /\ Move(t, "numbered")
  /\ UNCHANGED <<committed, settingsHolder, job, seen, pending>>

\* The rows of the voucher are saved; the registry reserves the number.
SaveVoucher(t) ==
  /\ pc[t] = "numbered"
  /\ NumberIsFree(t)
  /\ pending' = [pending EXCEPT ![t] = @ \cup
       {[series |-> job[t].series, number |-> number[t],
         day |-> job[t].day, method |-> seen[t].method]}]
  /\ Move(t, "written")
  /\ UNCHANGED <<committed, locks, job, seen, number>>

\* A handler that posts several vouchers (a supplier payment books the
\* invoice and the payment) checks the date of the next one again.
PostAnother(t) ==
  /\ pc[t] = "written" /\ job[t].kind = "post"
  /\ Cardinality(pending[t]) < MaxVouchers
  /\ \E j \in Postings : job' = [job EXCEPT ![t] = j]
  /\ seen' = [seen EXCEPT ![t] = RefreshedSettings(t)]
  /\ Move(t, "locked")
  /\ UNCHANGED <<committed, locks, number, pending>>

----------------------------------------------------------------------------
(* The end of a transaction releases its locks.                            *)

\* Faulty variant: an advisory lock of the session outlives the transaction.
KeepSeriesLocks(t) ==
  /\ settingsHolder' = IF settingsHolder = t THEN NoRequest ELSE settingsHolder
  /\ pending' = [pending EXCEPT ![t] = {}]
  /\ number' = [number EXCEPT ![t] = 0]
  /\ Move(t, "done")
  /\ UNCHANGED <<seriesHolder, job, seen>>

Release(t) ==
  /\ settingsHolder' = IF settingsHolder = t THEN NoRequest ELSE settingsHolder
  /\ seriesHolder' = [s \in Series |->
       IF seriesHolder[s] = t THEN NoRequest ELSE seriesHolder[s]]
  /\ pending' = [pending EXCEPT ![t] = {}]
  /\ number' = [number EXCEPT ![t] = 0]
  /\ Move(t, "done")
  /\ UNCHANGED <<job, seen>>

CommitPosting(t) ==
  /\ pc[t] = "written" /\ job[t].kind = "post"
  /\ journal' = journal \cup pending[t]
  /\ Release(t)
  /\ UNCHANGED <<settings, filedThrough, approved>>

\* lockAccountingThroughDate: Hibernate writes every column of the row.
CommitClosing(t) ==
  /\ pc[t] = "written" /\ job[t].kind = "close"
  /\ settings' = [seen[t] EXCEPT !.lockedThrough = job[t].day]
  /\ Release(t)
  /\ UNCHANGED <<filedThrough, journal, approved>>

\* updateSettings writes the lock date it read back, with the new policy.
CommitPolicy(t) ==
  /\ pc[t] = "written" /\ job[t].kind = "policy"
  /\ settings' = [seen[t] EXCEPT !.method = job[t].method]
  /\ Release(t)
  /\ UNCHANGED <<filedThrough, journal, approved>>

CommitReview(t) ==
  /\ pc[t] \in {"written", "unguarded"} /\ job[t].kind = "review"
  /\ approved' = IF job[t].approve THEN approved \cup {job[t].voucher}
                                   ELSE approved \ {job[t].voucher}
  /\ Release(t)
  /\ UNCHANGED <<settings, filedThrough, journal>>

\* findFirstByStatusInOrderByPeriodToDesc sees the latest filed period.
CommitFiling(t) ==
  /\ pc[t] = "unguarded" /\ job[t].kind = "file"
  /\ filedThrough' = IF job[t].day > filedThrough THEN job[t].day ELSE filedThrough
  /\ Release(t)
  /\ UNCHANGED <<settings, journal, approved>>

\* A guard of the handler, or the registry trigger, refuses: the exception
\* rolls the whole transaction back.
Refused(t) ==
  \/ /\ pc[t] = "locked"
     /\ \/ job[t].kind \in {"post", "review"} /\ ~DateIsOpen(t)
        \/ job[t].kind = "close" /\ ~PeriodMayClose(t)
        \/ job[t].kind = "policy" /\ ~PolicyMayChange(t)
  \/ pc[t] = "numbered" /\ ~NumberIsFree(t)

Refuse(t) == Refused(t) /\ Release(t) /\ UNCHANGED committed

\* Any other failure (a later check, the audit row, the connection, a crash
\* of the server): PostgreSQL rolls back and releases the locks.
Abort(t) == pc[t] \in Active /\ Release(t) /\ UNCHANGED committed

----------------------------------------------------------------------------

Commit(t) ==
  CommitPosting(t) \/ CommitClosing(t) \/ CommitPolicy(t)
    \/ CommitReview(t) \/ CommitFiling(t)

\* The steps the server takes on its own once a request has arrived.
Work(t) ==
  \/ FindVoucher(t) \/ LockSettingsForAccounting(t)
  \/ RequireUnlockedAccountingDate(t) \/ CheckPeriod(t)
  \/ ValidateAccountingPolicyChange(t) \/ ValidateFiling(t)
  \/ NextVoucherNumber(t) \/ SaveVoucher(t)
  \/ Commit(t) \/ Refuse(t)

\* Every request is over: nothing more happens.
Quiet == (\A t \in Requests : pc[t] = "done") /\ UNCHANGED vars

Next ==
  \/ \E t \in Requests : Begin(t) \/ Work(t) \/ PostAnother(t) \/ Abort(t)
  \/ Quiet

Spec == Init /\ [][Next]_vars

\* A request thread runs on, and PostgreSQL grants a lock that stays free.
FairSpec == Spec /\ \A t \in Requests : WF_vars(Work(t))

----------------------------------------------------------------------------
(* Properties.                                                             *)

\* No transaction commits a voucher dated on or before the lock date in
\* force at its commit, although it compared the date much earlier: what the
\* comment "The shared row lock lasts through commit" of
\* SettingsService.lockSettingsForAccounting is for.
NoPostingIntoLockedPeriod ==
  [][\A v \in journal' \ journal : v.day > settings.lockedThrough]_vars

\* The lock date never moves back, neither by a second closing nor by a
\* settings update that writes the whole row with a date it read before.
LockDateNeverMovesBack == [][settings'.lockedThrough >= settings.lockedThrough]_vars

\* The vouchers of a series are numbered 1, 2, ... without a gap and no
\* number is given twice, whatever is rolled back (nextVoucherNumber).
GaplessNumbers ==
  /\ \A v, w \in journal : Id(v) = Id(w) => v = w
  /\ \A s \in Series :
       LET ns == NumbersOf(s, journal) IN \A n \in ns : n = 1 \/ n - 1 \in ns

\* Every voucher was booked under the accounting method in force: a policy
\* change never slips in between the reading of the method and the commit
\* of the first voucher (updateSettings against the posting handlers).
OneMethod == \A v \in journal : v.method = settings.method

\* Once a period is locked, all of its vouchers are approved, and stay so:
\* neither a late voucher nor a late review changes what checkPeriod saw.
LockedPeriodIsReviewed ==
  \A v \in journal : v.day <= settings.lockedThrough => Id(v) \in approved

\* A series is only ever locked by the holder of the settings row, so the
\* order in which a request asks for several series cannot deadlock.
SeriesLockedUnderSettings ==
  \A s \in Series : seriesHolder[s] # NoRequest => seriesHolder[s] = settingsHolder

\* The registry trigger is a second line of defence: the number a voucher
\* was given is still free when its rows are saved.
NumberNeverRefused == \A t \in Requests : pc[t] = "numbered" => NumberIsFree(t)

\* Every request that has started ends, by commit or rollback: no two
\* transactions wait for each other's locks.
EveryRequestEnds == \A t \in Requests : pc[t] \in Active ~> pc[t] = "done"

-----------------------------------------------------------------------------
(* Does not hold: see the README, section 5.                               *)

\* The review of a voucher is final once its date is locked: what
\* VoucherApprovalServiceTest.rejectsApprovalChangeWhenVoucherDateIsLocked
\* expects of VoucherApprovalService.update and delete.
LockedReviewsAreFinal ==
  [][\A v \in journal : v.day <= settings.lockedThrough =>
       (Id(v) \in approved' <=> Id(v) \in approved)]_vars

\* What docs/berakningskontroll.md asks of a declared VAT period: no voucher
\* is committed into it (requireUnlockedAccountingDate compares the date with
\* the last filing once, while the filing itself takes no lock).
NoPostingIntoFiledPeriod ==
  [][\A v \in journal' \ journal : v.day > filedThrough]_vars
=============================================================================
