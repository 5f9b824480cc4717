--------------------------- MODULE PostingProofs ---------------------------
(***************************************************************************)
(* Proofs about Posting for every number of requests, every set of series  *)
(* and methods and every range of dates: the invariant that the settings   *)
(* lock keeps, and what follows from it.                                   *)
(***************************************************************************)
EXTENDS PostingBooks, TLAPS

----------------------------------------------------------------------------
(* The inductive invariant.                                                *)

\* The settings row has one holder: the transaction between lock and commit.
OneHolder == \A t \in Requests : pc[t] \in Guarded <=> settingsHolder = t

\* Which kind of request can be where.
KindsOfPlaces ==
  \A t \in Requests :
    /\ pc[t] = "found" => job[t].kind = "review"
    /\ pc[t] = "unguarded" => job[t].kind \in {"review", "file"}
    /\ pc[t] \in {"open", "numbered"} => job[t].kind = "post"
    /\ pc[t] \in Guarded => job[t].kind # "file"

\* Only the holder of the settings row has uncommitted vouchers.
PendingUnderLock ==
  \A t \in Requests : pending[t] # {} => pc[t] \in Guarded /\ job[t].kind = "post"

\* What the holder read and checked still holds: nobody else can change it.
ChecksStillHold ==
  \A t \in Requests :
    /\ pc[t] \in Guarded => seen[t] = settings
    /\ pc[t] \in {"open", "numbered"} => job[t].day > settings.lockedThrough
    /\ pc[t] = "written" =>
         /\ job[t].kind = "post" => pending[t] # {}
         /\ job[t].kind = "close" => settings.lockedThrough < job[t].day
         /\ job[t].kind = "policy" => PolicyMayChange(t)
         /\ \A d \in DatesTouched(t) : d > settings.lockedThrough
    /\ \A v \in pending[t] : v.day > settings.lockedThrough /\ v.method = settings.method

\* A set of vouchers numbered 1 .. k in every series.
Dense(vs) ==
  /\ \A v, w \in vs : Id(v) = Id(w) => v = w
  /\ \A s \in Series : \E k \in Nat : NumbersOf(s, vs) = 1 .. k

\* The numbers of the journal, and of what each transaction sees of it, are
\* dense; a number that is given continues them.
DenseNumbers ==
  /\ Dense(journal)
  /\ \A t \in Requests :
       /\ Dense(Visible(t))
       /\ pc[t] = "numbered" =>
            /\ number[t] \in Nat \ {0}
            /\ NumbersOf(job[t].series, Visible(t)) = 1 .. (number[t] - 1)

IInv ==
  /\ TypeOK /\ OneHolder /\ SeriesLockedUnderSettings /\ KindsOfPlaces
  /\ PendingUnderLock /\ ChecksStillHold /\ DenseNumbers /\ OneMethod

\* With no review of a voucher that does not exist, reviews are guarded too.
ReviewsGuarded ==
  /\ \A t \in Requests :
       /\ pc[t] \in Active /\ job[t].kind = "review" =>
            \E v \in journal : Id(v) = job[t].voucher
       /\ pc[t] = "unguarded" => job[t].kind = "file"
       /\ pc[t] = "written" /\ job[t].kind = "close" => VouchersApproved(t)
  /\ LockedPeriodIsReviewed
----------------------------------------------------------------------------
(* Facts about jobs and voucher numbers.                                   *)

\* The fields of a request follow from its kind.
LEMMA JobFields ==
  ASSUME NEW j \in Jobs
  PROVE  /\ j.kind \in {"post", "close", "policy", "review", "file"}
         /\ j.kind = "post" => j.day \in Days /\ j.series \in Series
         /\ j.kind = "close" => j.day \in Days
         /\ j.kind = "file" => j.day \in Days
         /\ j.kind = "policy" => j.method \in Methods
         /\ j.kind = "review" => j.voucher \in Ids /\ j.approve \in BOOLEAN
BY DEF Jobs, Postings, Closings, Policies, Reviews, Filings

\* The highest of the numbers 1 .. k is k.
LEMMA LatestOfInterval ==
  ASSUME NEW k \in Nat
  PROVE  Latest(1 .. k) = k
<1>1. CASE k = 0
  BY <1>1 DEF Latest
<1>2. CASE k # 0
  <2>1. 1 .. k # {} /\ k \in 1 .. k /\ \A m \in 1 .. k : m <= k
    BY <1>2
  <2>2. \A n \in 1 .. k : (\A m \in 1 .. k : m <= n) => n = k
    BY <1>2
  <2> QED BY <2>1, <2>2 DEF Latest
<1> QED BY <1>1, <1>2

\* nextVoucherNumber continues a dense series: its result is one more than
\* the count of the numbers in use.
LEMMA NextContinues ==
  ASSUME NEW t \in Requests, NEW s \in Series, Dense(Visible(t))
  PROVE  \E k \in Nat : NumbersOf(s, Visible(t)) = 1 .. k /\ NextNumber(t, s) = k + 1
<1>1. PICK k \in Nat : NumbersOf(s, Visible(t)) = 1 .. k
  BY DEF Dense
<1>2. NextNumber(t, s) = k + 1
  BY <1>1, LatestOfInterval DEF NextNumber
<1> QED BY <1>1, <1>2

\* A voucher that takes the next number of its series has a number of its own
\* and leaves the vouchers dense.
LEMMA DenseExtended ==
  ASSUME NEW vs \in SUBSET Vouchers, NEW v \in Vouchers,
         Dense(vs), NumbersOf(v.series, vs) = 1 .. (v.number - 1)
  PROVE  /\ \A w \in vs : Id(w) # Id(v)
         /\ Dense(vs \cup {v})
<1>1. v.number \in Nat \ {0}
  BY DEF Vouchers
<1>2. \A w \in vs : Id(w) # Id(v)
  <2> SUFFICES ASSUME NEW w \in vs, Id(w) = Id(v) PROVE FALSE
    OBVIOUS
  <2>1. w.series = v.series /\ w.number = v.number
    BY DEF Id
  <2>2. v.number \in NumbersOf(v.series, vs)
    BY <2>1 DEF NumbersOf
  <2> QED BY <1>1, <2>2
<1>3. ASSUME NEW s \in Series
      PROVE  \E k \in Nat : NumbersOf(s, vs \cup {v}) = 1 .. k
  <2>1. CASE s = v.series
    <3>1. NumbersOf(s, vs \cup {v}) = NumbersOf(s, vs) \cup {v.number}
      BY <2>1 DEF NumbersOf
    <3>2. 1 .. (v.number - 1) \cup {v.number} = 1 .. v.number
      BY <1>1
    <3> QED BY <1>1, <2>1, <3>1, <3>2
  <2>2. CASE s # v.series
    <3>1. NumbersOf(s, vs \cup {v}) = NumbersOf(s, vs)
      BY <2>2 DEF NumbersOf
    <3> QED BY <3>1 DEF Dense
  <2> QED BY <2>1, <2>2
<1>4. \A w, x \in vs \cup {v} : Id(w) = Id(x) => w = x
  BY <1>2 DEF Dense
<1> QED BY <1>2, <1>3, <1>4 DEF Dense

\* Dense numbers have no gap and no number twice.
LEMMA DenseIsGapless == Dense(journal) => GaplessNumbers
<1> SUFFICES ASSUME Dense(journal), NEW s \in Series, NEW n \in NumbersOf(s, journal)
             PROVE  n = 1 \/ n - 1 \in NumbersOf(s, journal)
  BY DEF GaplessNumbers, Dense
<1>1. PICK k \in Nat : NumbersOf(s, journal) = 1 .. k
  BY DEF Dense
<1> QED BY <1>1

\* The invariant holds in the empty books.
THEOREM InitIInv == Init => IInv
<1> SUFFICES ASSUME Init PROVE IInv
  OBVIOUS
<1>1. TypeOK
  BY DatesAssumption DEF Init, TypeOK, Settings, Places, Active, Guarded
<1>2. Dense(journal)
  <2>1. \A s \in Series : NumbersOf(s, journal) = 1 .. 0
    BY DEF Init, NumbersOf
  <2> QED BY <2>1 DEF Init, Dense
<1>3. DenseNumbers
  BY <1>2 DEF Init, DenseNumbers, Visible
<1>4. OneHolder /\ SeriesLockedUnderSettings /\ KindsOfPlaces
  BY NoRequestAssumption DEF Init, OneHolder, SeriesLockedUnderSettings, KindsOfPlaces, Guarded
<1>5. PendingUnderLock /\ ChecksStillHold /\ OneMethod
  BY DEF Init, PendingUnderLock, ChecksStillHold, OneMethod, Guarded
<1> QED BY <1>1, <1>3, <1>4, <1>5 DEF IInv

----------------------------------------------------------------------------
(* Every step preserves the invariant.                                     *)

\* While t holds the settings row nobody else is past the lock.
LEMMA Alone ==
  ASSUME IInv, NEW t \in Requests, pc[t] \in Guarded, NEW u \in Requests, u # t
  PROVE  pc[u] \notin Guarded /\ pending[u] = {}
BY DEF IInv, OneHolder, PendingUnderLock

\* A step that posts nothing and gives no number keeps the numbers dense.
LEMMA NumbersUntouched ==
  ASSUME DenseNumbers, UNCHANGED <<journal, pending>>,
         \A u \in Requests : pc'[u] = "numbered" =>
           pc[u] = "numbered" /\ job'[u] = job[u] /\ number'[u] = number[u]
  PROVE  DenseNumbers'
BY DEF DenseNumbers, Dense, Visible

\* The end of a transaction, whatever it commits: its locks are free, its
\* vouchers no longer pending.
LEMMA ReleaseKeeps ==
  ASSUME IInv, NEW t \in Requests, pc[t] \in Active, Release(t)
  PROVE  /\ (OneHolder /\ SeriesLockedUnderSettings)'
         /\ (KindsOfPlaces /\ PendingUnderLock)'
         /\ settingsHolder' \in Requests \cup {NoRequest}
         /\ seriesHolder' \in [Series -> Requests \cup {NoRequest}]
         /\ pc' = [pc EXCEPT ![t] = "done"]
         /\ pc' \in [Requests -> Places]
         /\ job' = job /\ seen' = seen
         /\ \A u \in Requests : pc'[u] # "idle" => job'[u] \in Jobs
         /\ number' \in [Requests -> Nat]
         /\ pending' \in [Requests -> SUBSET Vouchers]
         /\ pending'[t] = {}
         /\ \A u \in Requests : u # t => pending'[u] = pending[u]
<1> USE DEF IInv, Release, Move
<1>1. (OneHolder /\ SeriesLockedUnderSettings)'
  BY NoRequestAssumption DEF TypeOK, OneHolder, SeriesLockedUnderSettings, Guarded
<1>2. (KindsOfPlaces /\ PendingUnderLock)'
  BY DEF TypeOK, KindsOfPlaces, PendingUnderLock, Guarded
<1>3. /\ settingsHolder' \in Requests \cup {NoRequest}
      /\ seriesHolder' \in [Series -> Requests \cup {NoRequest}]
  BY DEF TypeOK
<1>4. /\ pc' = [pc EXCEPT ![t] = "done"] /\ pc' \in [Requests -> Places]
      /\ \A u \in Requests : pc'[u] # "idle" => job'[u] \in Jobs
  BY DEF TypeOK, Places, Active, Guarded
<1>5. number' \in [Requests -> Nat] /\ pending' \in [Requests -> SUBSET Vouchers]
  BY DEF TypeOK
<1>6. pending'[t] = {} /\ \A u \in Requests : u # t => pending'[u] = pending[u]
  BY DEF TypeOK
<1> QED BY <1>1, <1>2, <1>3, <1>4, <1>5, <1>6

\* When the holder of the settings row ends, nobody is past the lock.
LEMMA HolderEnds ==
  ASSUME IInv, NEW t \in Requests, pc[t] \in Guarded, Release(t)
  PROVE  /\ \A u \in Requests : pc'[u] \notin Guarded /\ pending'[u] = {}
         /\ ChecksStillHold'
         /\ Dense(journal)' => DenseNumbers'
<1>1. \A u \in Requests : pc'[u] \notin Guarded /\ pending'[u] = {}
  <2>1. pc[t] \in Active
    BY DEF Active
  <2> QED BY <2>1, Alone, ReleaseKeeps DEF IInv, TypeOK, Guarded
<1>2. ChecksStillHold'
  BY <1>1 DEF ChecksStillHold, Guarded
<1>3. Dense(journal)' => DenseNumbers'
  BY <1>1 DEF DenseNumbers, Dense, Visible, Guarded
<1> QED BY <1>1, <1>2, <1>3

\* When a transaction ends that changed neither the settings row nor the
\* journal, the others' reads and numbers stand.
LEMMA BystanderEnds ==
  ASSUME IInv, NEW t \in Requests, pc[t] \in Active, Release(t),
         UNCHANGED <<settings, journal>>
  PROVE  (ChecksStillHold /\ DenseNumbers /\ OneMethod)'
<1>1. ChecksStillHold'
  BY ReleaseKeeps DEF IInv, TypeOK, ChecksStillHold, Guarded, PolicyMayChange, DatesTouched, DatesOfPostings
<1>2. DenseNumbers'
  <2>1. Dense(journal)'
    BY DEF IInv, DenseNumbers, Dense
  <2>2. ASSUME NEW u \in Requests
        PROVE  /\ Dense(Visible(u)')
               /\ pc'[u] = "numbered" => u # t /\ pc[u] = "numbered"
    <3>1. Visible(u)' = Visible(u) \/ Visible(u)' = journal
      BY ReleaseKeeps DEF Visible
    <3> QED BY <3>1, ReleaseKeeps DEF IInv, TypeOK, DenseNumbers
  <2>3. ASSUME NEW u \in Requests, u # t
        PROVE  Visible(u)' = Visible(u) /\ number'[u] = number[u] /\ job'[u] = job[u]
    BY <2>3, ReleaseKeeps DEF Visible, Release, IInv, TypeOK
  <2> QED BY <2>1, <2>2, <2>3 DEF IInv, DenseNumbers
<1>3. OneMethod'
  BY DEF IInv, OneMethod
<1> QED BY <1>1, <1>2, <1>3

\* Every step of every request keeps the invariant.
THEOREM StepIInv == IInv /\ [Next]_vars => IInv'
<1> SUFFICES ASSUME IInv, [Next]_vars PROVE IInv'
  OBVIOUS
<1> USE DEF IInv
<1>1. ASSUME NEW t \in Requests, Begin(t) PROVE IInv'
  <2> USE <1>1 DEF Begin, Move, committed, locks
  <2>1. PICK j \in Jobs : job' = [job EXCEPT ![t] = j]
    <3>1. ReviewableIds \subseteq Ids
      BY UnpostedAssumption DEF ReviewableIds, TypeOK, Vouchers, Ids, Id
    <3> QED BY <3>1 DEF Jobs, Reviews
  <2>2. TypeOK'
    BY <2>1 DEF TypeOK, Places, Active
  <2>3. pending[t] = {}
    BY DEF PendingUnderLock, Guarded
  <2>4. (OneHolder /\ SeriesLockedUnderSettings)'
    BY DEF TypeOK, OneHolder, SeriesLockedUnderSettings, Guarded
  <2>5. KindsOfPlaces'
    BY <2>1 DEF TypeOK, KindsOfPlaces, Guarded
  <2>6. PendingUnderLock'
    BY <2>1, <2>3 DEF TypeOK, PendingUnderLock
  <2>7. ChecksStillHold'
    BY <2>1, <2>3 DEF TypeOK, ChecksStillHold, Guarded, PolicyMayChange, DatesTouched, DatesOfPostings
  <2>8. DenseNumbers'
    BY <2>1, NumbersUntouched DEF TypeOK
  <2>9. OneMethod'
    BY DEF OneMethod
  <2> QED BY <2>2, <2>4, <2>5, <2>6, <2>7, <2>8, <2>9
<1>2. ASSUME NEW t \in Requests, FindVoucher(t) PROVE IInv'
  <2> USE <1>2 DEF FindVoucher, Move, committed, locks, local
  <2>1. TypeOK'
    BY DEF TypeOK, Places, Active
  <2>2. (OneHolder /\ SeriesLockedUnderSettings)'
    BY DEF TypeOK, OneHolder, SeriesLockedUnderSettings, Guarded
  <2>3. (KindsOfPlaces /\ PendingUnderLock)'
    BY DEF TypeOK, KindsOfPlaces, PendingUnderLock, Guarded
  <2>4. ChecksStillHold'
    BY DEF TypeOK, ChecksStillHold, Guarded, PolicyMayChange, DatesTouched, DatesOfPostings
  <2>5. DenseNumbers'
    BY NumbersUntouched DEF TypeOK
  <2>6. OneMethod'
    BY DEF OneMethod
  <2> QED BY <2>1, <2>2, <2>3, <2>4, <2>5, <2>6
<1>3. ASSUME NEW t \in Requests, LockSettingsForAccounting(t) PROVE IInv'
  <2> USE <1>3 DEF LockSettingsForAccounting, LockIsFree, RefreshedSettings, Move, committed
  <2>1. settingsHolder = NoRequest
    BY DEF OneHolder, Guarded
  <2>2. TypeOK'
    BY DEF TypeOK, Places, Active, Guarded
  <2>3. (OneHolder /\ SeriesLockedUnderSettings)'
    BY <2>1, NoRequestAssumption DEF TypeOK, OneHolder, SeriesLockedUnderSettings, Guarded
  <2>4. (KindsOfPlaces /\ PendingUnderLock)'
    BY DEF TypeOK, KindsOfPlaces, PendingUnderLock, Guarded
  <2>5. ChecksStillHold'
    BY DEF TypeOK, ChecksStillHold, Guarded, PolicyMayChange, DatesTouched, DatesOfPostings
  <2>6. DenseNumbers'
    BY NumbersUntouched DEF TypeOK
  <2>7. OneMethod'
    BY DEF OneMethod
  <2> QED BY <2>2, <2>3, <2>4, <2>5, <2>6, <2>7
<1>4. ASSUME NEW t \in Requests, RequireUnlockedAccountingDate(t) PROVE IInv'
  <2> USE <1>4 DEF RequireUnlockedAccountingDate, Move, committed, locks, local
  <2>1. TypeOK'
    BY DEF TypeOK, Places, Active, Guarded
  <2>2. (OneHolder /\ SeriesLockedUnderSettings)'
    BY DEF TypeOK, OneHolder, SeriesLockedUnderSettings, Guarded
  <2>3. (KindsOfPlaces /\ PendingUnderLock)'
    BY DEF TypeOK, KindsOfPlaces, PendingUnderLock, Guarded
  <2>4. ChecksStillHold'
    BY DEF TypeOK, ChecksStillHold, Guarded, PolicyMayChange, DatesTouched, DatesOfPostings, DateIsOpen
  <2>5. DenseNumbers'
    BY NumbersUntouched DEF TypeOK
  <2>6. OneMethod'
    BY DEF OneMethod
  <2> QED BY <2>1, <2>2, <2>3, <2>4, <2>5, <2>6
<1>5. ASSUME NEW t \in Requests, CheckPeriod(t) PROVE IInv'
  <2> USE <1>5 DEF CheckPeriod, Move, committed, locks, local
  <2>1. TypeOK'
    BY DEF TypeOK, Places, Active, Guarded
  <2>2. (OneHolder /\ SeriesLockedUnderSettings)'
    BY DEF TypeOK, OneHolder, SeriesLockedUnderSettings, Guarded
  <2>3. (KindsOfPlaces /\ PendingUnderLock)'
    BY DEF TypeOK, KindsOfPlaces, PendingUnderLock, Guarded
  <2>4. ChecksStillHold'
    BY DEF TypeOK, ChecksStillHold, Guarded, PeriodMayClose, PolicyMayChange, DatesTouched, DatesOfPostings
  <2>5. DenseNumbers'
    BY NumbersUntouched DEF TypeOK
  <2>6. OneMethod'
    BY DEF OneMethod
  <2> QED BY <2>1, <2>2, <2>3, <2>4, <2>5, <2>6
<1>6. ASSUME NEW t \in Requests, ValidateAccountingPolicyChange(t) PROVE IInv'
  <2> USE <1>6 DEF ValidateAccountingPolicyChange, Move, committed, locks, local
  <2>1. TypeOK'
    BY DEF TypeOK, Places, Active, Guarded
  <2>2. (OneHolder /\ SeriesLockedUnderSettings)'
    BY DEF TypeOK, OneHolder, SeriesLockedUnderSettings, Guarded
  <2>3. (KindsOfPlaces /\ PendingUnderLock)'
    BY DEF TypeOK, KindsOfPlaces, PendingUnderLock, Guarded
  <2>4. ChecksStillHold'
    BY DEF TypeOK, ChecksStillHold, Guarded, PolicyMayChange, DatesTouched, DatesOfPostings
  <2>5. DenseNumbers'
    BY NumbersUntouched DEF TypeOK
  <2>6. OneMethod'
    BY DEF OneMethod
  <2> QED BY <2>1, <2>2, <2>3, <2>4, <2>5, <2>6
<1>7. ASSUME NEW t \in Requests, ValidateFiling(t) PROVE IInv'
  <2> USE <1>7 DEF ValidateFiling, Move, committed, locks, local
  <2>1. TypeOK'
    BY DEF TypeOK, Places, Active, Guarded
  <2>2. (OneHolder /\ SeriesLockedUnderSettings)'
    BY DEF TypeOK, OneHolder, SeriesLockedUnderSettings, Guarded
  <2>3. (KindsOfPlaces /\ PendingUnderLock)'
    BY DEF TypeOK, KindsOfPlaces, PendingUnderLock, Guarded
  <2>4. ChecksStillHold'
    BY DEF TypeOK, ChecksStillHold, Guarded, PolicyMayChange, DatesTouched, DatesOfPostings
  <2>5. DenseNumbers'
    BY NumbersUntouched DEF TypeOK
  <2>6. OneMethod'
    BY DEF OneMethod
  <2> QED BY <2>1, <2>2, <2>3, <2>4, <2>5, <2>6
<1>8. ASSUME NEW t \in Requests, NextVoucherNumber(t) PROVE IInv'
  <2> USE <1>8 DEF NextVoucherNumber, Move, committed
  <2>1. job[t].series \in Series
    BY JobFields DEF TypeOK, KindsOfPlaces
  <2>2. PICK k \in Nat : /\ NumbersOf(job[t].series, Visible(t)) = 1 .. k
                        /\ number' = [number EXCEPT ![t] = k + 1]
    BY <2>1, NextContinues DEF DenseNumbers
  <2>3. TypeOK'
    BY <2>1, <2>2 DEF TypeOK, Places, Active, Guarded
  <2>4. (OneHolder /\ SeriesLockedUnderSettings)'
    BY <2>1 DEF TypeOK, OneHolder, SeriesLockedUnderSettings, Guarded
  <2>5. (KindsOfPlaces /\ PendingUnderLock)'
    BY DEF TypeOK, KindsOfPlaces, PendingUnderLock, Guarded
  <2>6. ChecksStillHold'
    BY DEF TypeOK, ChecksStillHold, Guarded, PolicyMayChange, DatesTouched, DatesOfPostings
  <2>7. DenseNumbers'
    <3>1. Dense(journal)' /\ \A u \in Requests : Dense(Visible(u))'
      BY DEF DenseNumbers, Dense, Visible
    <3>2. ASSUME NEW u \in Requests, pc'[u] = "numbered"
          PROVE  /\ number'[u] \in Nat \ {0}
                 /\ NumbersOf(job'[u].series, Visible(u)') = 1 .. (number'[u] - 1)
      <4>1. CASE u = t
        BY <2>2, <4>1 DEF TypeOK, Visible
      <4>2. CASE u # t
        BY <3>2, <4>2, Alone DEF TypeOK, Guarded
      <4> QED BY <4>1, <4>2
    <3> QED BY <3>1, <3>2 DEF DenseNumbers
  <2>8. OneMethod'
    BY DEF OneMethod
  <2> QED BY <2>3, <2>4, <2>5, <2>6, <2>7, <2>8
<1>9. ASSUME NEW t \in Requests, SaveVoucher(t) PROVE IInv'
  <2> USE <1>9 DEF SaveVoucher, Move, committed, locks
  <2> DEFINE v == [series |-> job[t].series, number |-> number[t],
                   day |-> job[t].day, method |-> seen[t].method]
  <2>1. job[t].kind = "post" /\ job[t].series \in Series /\ job[t].day \in Days
    BY JobFields DEF TypeOK, KindsOfPlaces
  <2>2. v \in Vouchers /\ pending' = [pending EXCEPT ![t] = @ \cup {v}]
    BY <2>1 DEF TypeOK, DenseNumbers, Vouchers, Settings
  <2>3. v.day > settings.lockedThrough /\ v.method = settings.method
    BY DEF ChecksStillHold, Guarded
  <2> HIDE DEF v
  <2>4. TypeOK'
    BY <2>2 DEF TypeOK, Places, Active, Guarded
  <2>5. (OneHolder /\ SeriesLockedUnderSettings)'
    BY DEF TypeOK, OneHolder, SeriesLockedUnderSettings, Guarded
  <2>6. (KindsOfPlaces /\ PendingUnderLock)'
    BY <2>1 DEF TypeOK, KindsOfPlaces, PendingUnderLock, Guarded
  <2>7. ChecksStillHold'
    BY <2>1, <2>2, <2>3 DEF TypeOK, ChecksStillHold, Guarded, PolicyMayChange, DatesTouched, DatesOfPostings
  <2>8. DenseNumbers'
    <3>1. Dense(journal)'
      BY DEF DenseNumbers, Dense
    <3>2. Dense(Visible(t) \cup {v})
      <4>1. Visible(t) \in SUBSET Vouchers
        BY DEF TypeOK, Visible
      <4>2. NumbersOf(v.series, Visible(t)) = 1 .. (v.number - 1)
        BY DEF v, DenseNumbers
      <4> QED BY <2>2, <4>1, <4>2, DenseExtended DEF DenseNumbers
    <3>3. Visible(t)' = Visible(t) \cup {v}
      BY <2>2 DEF TypeOK, Visible
    <3>4. ASSUME NEW u \in Requests, u # t PROVE Visible(u)' = Visible(u)
      BY <2>2, <3>4 DEF TypeOK, Visible
    <3>5. ASSUME NEW u \in Requests PROVE Dense(Visible(u)')
      BY <3>2, <3>3, <3>4 DEF DenseNumbers
    <3>6. ASSUME NEW u \in Requests, pc'[u] = "numbered" PROVE FALSE
      <4>1. u # t /\ pc[u] = "numbered"
        BY <3>6 DEF TypeOK
      <4> QED BY <4>1, Alone DEF Guarded
    <3> QED BY <3>1, <3>5, <3>6 DEF DenseNumbers
  <2>9. OneMethod'
    BY DEF OneMethod
  <2> QED BY <2>4, <2>5, <2>6, <2>7, <2>8, <2>9
<1>10. ASSUME NEW t \in Requests, PostAnother(t) PROVE IInv'
  <2> USE <1>10 DEF PostAnother, RefreshedSettings, Move, committed, locks
  <2>1. PICK j \in Postings : job' = [job EXCEPT ![t] = j]
    OBVIOUS
  <2>2. j \in Jobs /\ j.kind = "post"
    BY DEF Jobs, Postings
  <2>3. TypeOK'
    BY <2>1, <2>2 DEF TypeOK, Places, Active, Guarded
  <2>4. (OneHolder /\ SeriesLockedUnderSettings)'
    BY DEF TypeOK, OneHolder, SeriesLockedUnderSettings, Guarded
  <2>5. (KindsOfPlaces /\ PendingUnderLock)'
    BY <2>1, <2>2 DEF TypeOK, KindsOfPlaces, PendingUnderLock, Guarded
  <2>6. ChecksStillHold'
    BY <2>1, <2>2 DEF TypeOK, ChecksStillHold, Guarded, PolicyMayChange, DatesTouched, DatesOfPostings
  <2>7. DenseNumbers'
    BY <2>1, NumbersUntouched DEF TypeOK
  <2>8. OneMethod'
    BY DEF OneMethod
  <2> QED BY <2>3, <2>4, <2>5, <2>6, <2>7, <2>8
<1>11. ASSUME NEW t \in Requests, CommitPosting(t) PROVE IInv'
  <2> USE <1>11 DEF CommitPosting
  <2>1. pc[t] \in Guarded /\ pc[t] \in Active
    BY DEF Guarded, Active
  <2>2. journal' = Visible(t) /\ journal' \subseteq Vouchers
    BY DEF Visible, TypeOK
  <2>3. TypeOK'
    BY <2>1, <2>2, ReleaseKeeps DEF TypeOK
  <2>4. (ChecksStillHold /\ DenseNumbers)'
    <3>1. Dense(journal)'
      BY <2>2 DEF DenseNumbers
    <3> QED BY <2>1, <3>1, HolderEnds
  <2>5. OneMethod'
    BY <2>2 DEF OneMethod, ChecksStillHold, Visible
  <2> QED BY <2>1, <2>3, <2>4, <2>5, ReleaseKeeps
<1>12. ASSUME NEW t \in Requests, CommitClosing(t) PROVE IInv'
  <2> USE <1>12 DEF CommitClosing
  <2>1. pc[t] \in Guarded /\ pc[t] \in Active
    BY DEF Guarded, Active
  <2>2. settings' = [settings EXCEPT !.lockedThrough = job[t].day]
    BY DEF ChecksStillHold, Guarded
  <2>3. TypeOK'
    BY <2>1, <2>2, JobFields, ReleaseKeeps DEF TypeOK, Settings, Days
  <2>4. (ChecksStillHold /\ DenseNumbers)'
    BY <2>1, HolderEnds DEF DenseNumbers, Dense
  <2>5. OneMethod'
    BY <2>2 DEF OneMethod, TypeOK, Settings
  <2> QED BY <2>1, <2>3, <2>4, <2>5, ReleaseKeeps
<1>13. ASSUME NEW t \in Requests, CommitPolicy(t) PROVE IInv'
  <2> USE <1>13 DEF CommitPolicy
  <2>1. pc[t] \in Guarded /\ pc[t] \in Active
    BY DEF Guarded, Active
  <2>2. settings' = [settings EXCEPT !.method = job[t].method] /\ seen[t] = settings
    BY DEF ChecksStillHold, Guarded
  <2>3. TypeOK'
    BY <2>1, <2>2, JobFields, ReleaseKeeps DEF TypeOK, Settings
  <2>4. (ChecksStillHold /\ DenseNumbers)'
    BY <2>1, HolderEnds DEF DenseNumbers, Dense
  <2>5. OneMethod'
    BY <2>2 DEF OneMethod, TypeOK, Settings, ChecksStillHold, PolicyMayChange
  <2> QED BY <2>1, <2>3, <2>4, <2>5, ReleaseKeeps
<1>14. ASSUME NEW t \in Requests, CommitReview(t) PROVE IInv'
  <2> USE <1>14 DEF CommitReview
  <2>1. pc[t] \in Active
    BY DEF Active, Guarded
  <2>2. TypeOK'
    BY <2>1, JobFields, ReleaseKeeps DEF TypeOK, Active, Guarded
  <2> QED BY <2>1, <2>2, BystanderEnds, ReleaseKeeps
<1>15. ASSUME NEW t \in Requests, CommitFiling(t) PROVE IInv'
  <2> USE <1>15 DEF CommitFiling
  <2>1. pc[t] \in Active
    BY DEF Active, Guarded
  <2>2. TypeOK'
    BY <2>1, JobFields, ReleaseKeeps DEF TypeOK, Days
  <2> QED BY <2>1, <2>2, BystanderEnds, ReleaseKeeps
<1>16. ASSUME NEW t \in Requests, Refuse(t) \/ Abort(t) PROVE IInv'
  <2>1. pc[t] \in Active /\ Release(t) /\ UNCHANGED committed
    BY <1>16 DEF Refuse, Refused, Abort, Active, Guarded
  <2>2. TypeOK'
    BY <2>1, ReleaseKeeps DEF TypeOK, committed
  <2>3. (ChecksStillHold /\ DenseNumbers /\ OneMethod)'
    BY <2>1, BystanderEnds DEF committed
  <2> QED BY <2>1, <2>2, <2>3, ReleaseKeeps
<1>17. CASE UNCHANGED vars
  <2> USE <1>17 DEF vars, committed, locks, local
  <2>1. TypeOK'
    BY DEF TypeOK
  <2>2. (OneHolder /\ SeriesLockedUnderSettings /\ KindsOfPlaces /\ PendingUnderLock)'
    BY DEF OneHolder, SeriesLockedUnderSettings, KindsOfPlaces, PendingUnderLock
  <2>3. ChecksStillHold'
    BY DEF ChecksStillHold, PolicyMayChange, DatesTouched, DatesOfPostings
  <2>4. DenseNumbers'
    BY NumbersUntouched
  <2>5. OneMethod'
    BY DEF OneMethod
  <2> QED BY <2>1, <2>2, <2>3, <2>4, <2>5
<1> QED
  BY <1>1, <1>2, <1>3, <1>4, <1>5, <1>6, <1>7, <1>8, <1>9, <1>10, <1>11, <1>12, <1>13,
     <1>14, <1>15, <1>16, <1>17 DEF Next, Work, Commit, Quiet

\* The invariant holds in every state of every behaviour.
THEOREM SpecIInv == Spec => []IInv
BY InitIInv, StepIInv, PTL DEF Spec

----------------------------------------------------------------------------
(* What follows for every behaviour.                                       *)

\* Every variable keeps its type, in particular the numbers that
\* nextVoucherNumber computes from a maximum stay natural numbers.
THEOREM PostingTypeOK == Spec => []TypeOK
BY SpecIInv, PTL DEF IInv

\* The vouchers of every series are numbered without gap or repetition
\* (VoucherNumberService.nextVoucherNumber).
THEOREM PostingIsGapless == Spec => []GaplessNumbers
<1>1. IInv => GaplessNumbers
  BY DenseIsGapless DEF IInv, DenseNumbers
<1> QED BY <1>1, SpecIInv, PTL

\* All vouchers were booked under one accounting method
\* (SettingsService.validateAccountingPolicyChange).
THEOREM PostingUnderOneMethod == Spec => []OneMethod
BY SpecIInv, PTL DEF IInv

\* A series is only locked by the holder of the settings row.
THEOREM PostingSeriesLocks == Spec => []SeriesLockedUnderSettings
BY SpecIInv, PTL DEF IInv

\* The registry trigger never has to refuse a number: the lock alone makes
\* voucher numbers unique.
THEOREM PostingNumbersAreFree == Spec => []NumberNeverRefused
<1>1. ASSUME IInv, NEW t \in Requests, pc[t] = "numbered",
             NEW v \in journal \cup UNION {pending[u] : u \in Requests}
      PROVE  Id(v) # [series |-> job[t].series, number |-> number[t]]
  <2>1. v \in Visible(t)
    BY <1>1, Alone DEF Guarded, Visible
  <2>2. /\ NumbersOf(job[t].series, Visible(t)) = 1 .. (number[t] - 1)
        /\ number[t] \in Nat \ {0}
    BY <1>1 DEF IInv, DenseNumbers
  <2>3. v.series = job[t].series => v.number \in 1 .. (number[t] - 1)
    BY <2>1, <2>2 DEF NumbersOf
  <2> QED BY <2>2, <2>3 DEF Id
<1>2. IInv => NumberNeverRefused
  BY <1>1 DEF NumberNeverRefused, NumberIsFree
<1> QED BY <1>2, SpecIInv, PTL

\* No voucher is committed into a locked period, however long ago its date
\* was checked (requireUnlockedAccountingDate under the shared row lock).
THEOREM PostingRespectsTheLock == Spec => NoPostingIntoLockedPeriod
<1>1. IInv /\ [Next]_vars => [\A v \in journal' \ journal : v.day > settings.lockedThrough]_vars
  <2> SUFFICES ASSUME IInv, Next, NEW v \in journal' \ journal
               PROVE  v.day > settings.lockedThrough
    OBVIOUS
  <2>1. PICK t \in Requests : CommitPosting(t)
    BY DEF Next, Work, Commit, Begin, FindVoucher, LockSettingsForAccounting,
      RequireUnlockedAccountingDate, CheckPeriod, ValidateAccountingPolicyChange,
      ValidateFiling, NextVoucherNumber, SaveVoucher, PostAnother, CommitClosing,
      CommitPolicy, CommitReview, CommitFiling, Refuse, Abort, Quiet, committed, vars
  <2>2. v \in pending[t]
    BY <2>1 DEF CommitPosting
  <2> QED BY <2>2 DEF IInv, ChecksStillHold
<1> QED BY <1>1, SpecIInv, PTL DEF Spec, NoPostingIntoLockedPeriod

\* The lock date never moves back: no transaction writes a settings row it
\* read before another one closed a period.
THEOREM PostingKeepsLockDate == Spec => LockDateNeverMovesBack
<1>1. IInv /\ [Next]_vars => [settings'.lockedThrough >= settings.lockedThrough]_vars
  <2> SUFFICES ASSUME IInv, Next, settings' # settings
               PROVE  settings'.lockedThrough >= settings.lockedThrough
    BY DEF IInv, TypeOK, Settings
  <2>1. PICK t \in Requests : CommitClosing(t) \/ CommitPolicy(t)
    BY DEF Next, Work, Commit, Begin, FindVoucher, LockSettingsForAccounting,
      RequireUnlockedAccountingDate, CheckPeriod, ValidateAccountingPolicyChange,
      ValidateFiling, NextVoucherNumber, SaveVoucher, PostAnother, CommitPosting,
      CommitReview, CommitFiling, Refuse, Abort, Quiet, committed, vars
  <2>2. seen[t] = settings /\ settings \in Settings
    BY <2>1 DEF CommitClosing, CommitPolicy, IInv, TypeOK, ChecksStillHold, Guarded
  <2>3. CASE CommitClosing(t)
    <3>1. settings.lockedThrough < job[t].day
      BY <2>3 DEF CommitClosing, IInv, ChecksStillHold
    <3>2. settings'.lockedThrough = job[t].day /\ job[t].day \in Days
      BY <2>2, <2>3, JobFields DEF CommitClosing, Settings, IInv, TypeOK
    <3> QED BY <2>2, <3>1, <3>2 DEF Settings, Days
  <2>4. CASE CommitPolicy(t)
    BY <2>2, <2>4 DEF CommitPolicy, Settings
  <2> QED BY <2>1, <2>3, <2>4
<1> QED BY <1>1, SpecIInv, PTL DEF Spec, LockDateNeverMovesBack

----------------------------------------------------------------------------
(* Posting implements Books when no review names a voucher before it is    *)
(* booked: every review then checks a date, hence runs under the lock.     *)

\* Every step keeps the reviews of locked periods as checkPeriod saw them.
LEMMA StepReviews ==
  ASSUME UnpostedIds = {}, IInv, ReviewsGuarded, [Next]_vars
  PROVE  ReviewsGuarded'
<1> USE DEF ReviewsGuarded
<1> DEFINE Exists(t) == pc[t] \in Active /\ job[t].kind = "review" =>
                          \E v \in journal : Id(v) = job[t].voucher
           Filing(t) == pc[t] = "unguarded" => job[t].kind = "file"
           Closing(t) == pc[t] = "written" /\ job[t].kind = "close" => VouchersApproved(t)
<1>1. ASSUME NEW t \in Requests, Begin(t) PROVE ReviewsGuarded'
  <2> USE <1>1 DEF Begin, Move, committed
  <2>1. PICK j \in Jobs :
          /\ job' = [job EXCEPT ![t] = j]
          /\ j.kind = "review" => \E v \in journal : Id(v) = j.voucher
    <3>1. ReviewableIds \subseteq Ids
      BY UnpostedAssumption DEF ReviewableIds, IInv, TypeOK, Vouchers, Ids, Id
    <3>2. \A i \in ReviewableIds : \E v \in journal : Id(v) = i
      BY DEF ReviewableIds
    <3> QED BY <3>1, <3>2 DEF Jobs, Reviews, Postings, Closings, Policies, Filings
  <2>2. ASSUME NEW u \in Requests PROVE Exists(u)' /\ Filing(u)' /\ Closing(u)'
    BY <2>1 DEF IInv, TypeOK, VouchersApproved
  <2> QED BY <2>2 DEF LockedPeriodIsReviewed
<1>2. ASSUME NEW t \in Requests, FindVoucher(t) PROVE ReviewsGuarded'
  <2> USE <1>2 DEF FindVoucher, Move, committed, local
  <2>1. DatesTouched(t) # {}
    BY DEF DatesTouched, Active
  <2>2. ASSUME NEW u \in Requests PROVE Exists(u)' /\ Filing(u)' /\ Closing(u)'
    BY <2>1 DEF IInv, TypeOK, VouchersApproved, Active
  <2> QED BY <2>2 DEF LockedPeriodIsReviewed
<1>3. ASSUME NEW t \in Requests,
             \/ LockSettingsForAccounting(t) \/ RequireUnlockedAccountingDate(t)
             \/ ValidateAccountingPolicyChange(t) \/ ValidateFiling(t)
             \/ CheckPeriod(t) \/ NextVoucherNumber(t) \/ SaveVoucher(t)
      PROVE  ReviewsGuarded'
  <2>1. ASSUME NEW u \in Requests PROVE Exists(u)' /\ Filing(u)' /\ Closing(u)'
    BY <1>3 DEF IInv, TypeOK, VouchersApproved, Active, Guarded, Move, committed, local,
      LockSettingsForAccounting, RequireUnlockedAccountingDate, CheckPeriod, PeriodMayClose,
      ValidateAccountingPolicyChange, ValidateFiling, NextVoucherNumber, SaveVoucher, KindsOfPlaces
  <2>2. UNCHANGED committed
    BY <1>3 DEF LockSettingsForAccounting, RequireUnlockedAccountingDate, CheckPeriod,
      ValidateAccountingPolicyChange, ValidateFiling, NextVoucherNumber, SaveVoucher
  <2> QED BY <2>1, <2>2 DEF LockedPeriodIsReviewed, committed
<1>4. ASSUME NEW t \in Requests, PostAnother(t) PROVE ReviewsGuarded'
  <2> USE <1>4 DEF PostAnother, Move, committed
  <2>1. PICK j \in Postings : job' = [job EXCEPT ![t] = j]
    OBVIOUS
  <2>2. ASSUME NEW u \in Requests PROVE Exists(u)' /\ Filing(u)' /\ Closing(u)'
    BY <2>1 DEF IInv, TypeOK, VouchersApproved, Postings
  <2> QED BY <2>2 DEF LockedPeriodIsReviewed
<1>5. ASSUME NEW t \in Requests, pc[t] \in Guarded, Release(t),
             journal \subseteq journal', LockedPeriodIsReviewed'
      PROVE  ReviewsGuarded'
  <2>1. pc[t] \in Active
    BY <1>5 DEF Active
  <2>2. ASSUME NEW u \in Requests PROVE Exists(u)' /\ Filing(u)' /\ Closing(u)'
    BY <1>5, <2>1, HolderEnds, ReleaseKeeps DEF IInv, TypeOK, Guarded, Active
  <2> QED BY <1>5, <2>2
<1>6. ASSUME NEW t \in Requests, CommitPosting(t) PROVE ReviewsGuarded'
  <2>1. LockedPeriodIsReviewed'
    BY <1>6 DEF CommitPosting, LockedPeriodIsReviewed, IInv, TypeOK, Settings, Vouchers, Days,
      ChecksStillHold
  <2> QED BY <1>5, <1>6, <2>1 DEF CommitPosting, Guarded
<1>7. ASSUME NEW t \in Requests, CommitClosing(t) PROVE ReviewsGuarded'
  <2>1. settings' = [settings EXCEPT !.lockedThrough = job[t].day] /\ VouchersApproved(t)
    BY <1>7 DEF CommitClosing, IInv, ChecksStillHold, Guarded
  <2>2. LockedPeriodIsReviewed'
    BY <1>7, <2>1 DEF CommitClosing, LockedPeriodIsReviewed, VouchersApproved, IInv, TypeOK, Settings
  <2> QED BY <1>5, <1>7, <2>2 DEF CommitClosing, Guarded
<1>8. ASSUME NEW t \in Requests, CommitPolicy(t) PROVE ReviewsGuarded'
  <2>1. settings'.lockedThrough = settings.lockedThrough
    BY <1>8 DEF CommitPolicy, IInv, TypeOK, ChecksStillHold, Guarded, Settings
  <2>2. LockedPeriodIsReviewed'
    BY <1>8, <2>1 DEF CommitPolicy, LockedPeriodIsReviewed
  <2> QED BY <1>5, <1>8, <2>2 DEF CommitPolicy, Guarded
<1>9. ASSUME NEW t \in Requests, CommitReview(t) PROVE ReviewsGuarded'
  <2>1. pc[t] = "written" /\ pc[t] \in Guarded
    BY <1>9 DEF CommitReview, Guarded
  <2>2. \A v \in journal : Id(v) = job[t].voucher => v.day > settings.lockedThrough
    BY <1>9, <2>1 DEF CommitReview, IInv, ChecksStillHold, DatesTouched
  <2>3. LockedPeriodIsReviewed'
    BY <1>9, <2>2 DEF CommitReview, LockedPeriodIsReviewed, IInv, TypeOK, Settings, Vouchers, Days
  <2> QED BY <1>5, <1>9, <2>1, <2>3 DEF CommitReview
<1>10. ASSUME NEW t \in Requests, CommitFiling(t) \/ Refuse(t) \/ Abort(t)
       PROVE  ReviewsGuarded'
  <2>1. pc[t] \in Active /\ Release(t) /\ UNCHANGED <<settings, journal, approved>>
    BY <1>10 DEF CommitFiling, Refuse, Refused, Abort, Active, Guarded, committed
  <2>2. ASSUME NEW u \in Requests PROVE Exists(u)' /\ Filing(u)' /\ Closing(u)'
    BY <2>1, ReleaseKeeps DEF IInv, TypeOK, VouchersApproved, Active, Guarded
  <2> QED BY <2>1, <2>2 DEF LockedPeriodIsReviewed
<1>11. CASE UNCHANGED vars
  BY <1>11 DEF vars, committed, local, LockedPeriodIsReviewed, VouchersApproved
<1> QED
  BY <1>1, <1>2, <1>3, <1>4, <1>6, <1>7, <1>8, <1>9, <1>10, <1>11
  DEF Next, Work, Commit, Quiet

\* A locked period stays reviewed: every voucher in it is approved, whatever
\* is posted, closed or reviewed afterwards (AccountingPeriodLockService).
THEOREM PostingKeepsReviews == UnpostedIds = {} => (Spec => []LockedPeriodIsReviewed)
<1> SUFFICES ASSUME UnpostedIds = {} PROVE Spec => []LockedPeriodIsReviewed
  OBVIOUS
<1>1. Init => ReviewsGuarded
  BY DEF Init, ReviewsGuarded, LockedPeriodIsReviewed, Active, Guarded
<1>2. IInv /\ ReviewsGuarded /\ [Next]_vars => ReviewsGuarded'
  BY StepReviews
<1>3. ReviewsGuarded => LockedPeriodIsReviewed
  BY DEF ReviewsGuarded
<1> QED BY <1>1, <1>2, <1>3, SpecIInv, PTL DEF Spec

\* Dense vouchers are what Books calls numbered.
LEMMA DenseIsNumbered ==
  ASSUME NEW vs \in SUBSET Vouchers, Dense(vs)
  PROVE  Ledger!Numbered(vs)
<1>1. ASSUME NEW v \in vs, v.number # 1
      PROVE  \E w \in vs : w.series = v.series /\ w.number = v.number - 1
  <2>1. v.series \in Series /\ v.number \in Nat \ {0}
    BY DEF Vouchers
  <2>2. PICK k \in Nat : NumbersOf(v.series, vs) = 1 .. k
    BY <2>1 DEF Dense
  <2>3. v.number \in 1 .. k
    BY <2>2 DEF NumbersOf
  <2>4. v.number - 1 \in NumbersOf(v.series, vs)
    BY <1>1, <2>1, <2>2, <2>3
  <2> QED BY <2>4 DEF NumbersOf
<1>2. \A v, w \in vs : Ledger!VoucherId(v) = Ledger!VoucherId(w) => v = w
  BY DEF Dense, Id, Ledger!VoucherId
<1> QED BY <1>1, <1>2 DEF Ledger!Numbered

\* Every step of a transaction is a step of Books or leaves its rows alone.
LEMMA StepBooks ==
  ASSUME UnpostedIds = {}, IInv, IInv', ReviewsGuarded, [Next]_vars
  PROVE  [Ledger!BooksNext]_(Ledger!booksVars)
<1> USE DEF Ledger!BooksNext, Ledger!booksVars
<1>1. ASSUME NEW t \in Requests, CommitPosting(t)
      PROVE  Ledger!BookVouchers \/ UNCHANGED Ledger!booksVars
  <2> USE <1>1 DEF CommitPosting
  <2>1. \A v \in pending[t] : v.day > settings.lockedThrough /\ v.method = settings.method
    BY DEF IInv, ChecksStillHold
  <2>2. Ledger!Numbered(journal')
    BY DenseIsNumbered DEF IInv, TypeOK, DenseNumbers, Dense
  <2> QED BY <2>1, <2>2 DEF Ledger!BookVouchers
<1>2. ASSUME NEW t \in Requests, CommitClosing(t) PROVE Ledger!CloseBooks
  <2> USE <1>2 DEF CommitClosing
  <2>1. /\ job[t].day \in 1 .. LastDay /\ job[t].day > settings.lockedThrough
        /\ settings' = [settings EXCEPT !.lockedThrough = job[t].day]
    BY JobFields DEF IInv, TypeOK, ChecksStillHold, Settings, Days, Guarded
  <2>2. \A v \in journal : v.day <= job[t].day => Ledger!VoucherId(v) \in approved
    BY DEF ReviewsGuarded, VouchersApproved, Id, Ledger!VoucherId
  <2> QED BY <2>1, <2>2 DEF Ledger!CloseBooks
<1>3. ASSUME NEW t \in Requests, CommitPolicy(t)
      PROVE  Ledger!ChoosePolicy \/ UNCHANGED Ledger!booksVars
  <2> USE <1>3 DEF CommitPolicy
  <2>1. /\ settings' = [settings EXCEPT !.method = job[t].method] /\ settings \in Settings
        /\ job[t].method \in Methods
        /\ journal = {} \/ job[t].method = settings.method
    BY JobFields DEF IInv, TypeOK, ChecksStillHold, PolicyMayChange, Guarded
  <2>2. job[t].method = settings.method => settings' = settings
    BY <2>1 DEF Settings
  <2> QED BY <2>1, <2>2 DEF Ledger!ChoosePolicy
<1>4. ASSUME NEW t \in Requests, CommitReview(t) PROVE Ledger!ReviewVoucher
  <2> USE <1>4 DEF CommitReview
  <2>1. pc[t] = "written" /\ pc[t] \in Active
    BY DEF ReviewsGuarded, Active, Guarded
  <2>2. PICK v \in journal : Id(v) = job[t].voucher
    BY <2>1 DEF ReviewsGuarded
  <2>3. v.day > settings.lockedThrough
    BY <2>1, <2>2 DEF IInv, ChecksStillHold, DatesTouched
  <2> QED BY <2>2, <2>3 DEF Ledger!ReviewVoucher, Ledger!VoucherId, Id
<1>5. ASSUME NEW t \in Requests,
             Begin(t) \/ PostAnother(t) \/ Abort(t) \/ Refuse(t) \/ CommitFiling(t)
               \/ (Work(t) /\ ~Commit(t))
      PROVE  UNCHANGED Ledger!booksVars
  BY <1>5 DEF Work, Begin, FindVoucher, LockSettingsForAccounting,
    RequireUnlockedAccountingDate, CheckPeriod, ValidateAccountingPolicyChange,
    ValidateFiling, NextVoucherNumber, SaveVoucher, PostAnother, CommitFiling,
    Refuse, Abort, committed
<1>6. CASE UNCHANGED vars
  BY <1>6 DEF vars, committed
<1> QED BY <1>1, <1>2, <1>3, <1>4, <1>5, <1>6 DEF Next, Commit, Quiet

\* The posting core implements the ledger of Books: every transaction takes
\* effect as a whole at its commit, checked against the state of that moment.
THEOREM PostingImplementsBooks == UnpostedIds = {} => (Spec => ImplementsBooks)
<1> SUFFICES ASSUME UnpostedIds = {} PROVE Spec => ImplementsBooks
  OBVIOUS
<1>1. Init => ReviewsGuarded
  BY DEF Init, ReviewsGuarded, LockedPeriodIsReviewed, Active, Guarded
<1>2. IInv /\ ReviewsGuarded /\ [Next]_vars => ReviewsGuarded'
  BY StepReviews
<1>3. Init => Ledger!BooksInit
  BY DEF Init, Ledger!BooksInit
<1>4. IInv /\ IInv' /\ ReviewsGuarded /\ [Next]_vars => [Ledger!BooksNext]_(Ledger!booksVars)
  BY StepBooks
<1> QED BY <1>1, <1>2, <1>3, <1>4, SpecIInv, PTL DEF Spec, ImplementsBooks, Ledger!BooksSpec
=============================================================================
