-------------------------- MODULE VatFilingProofs --------------------------
(***************************************************************************)
(* Proofs about VatFiling for every number of requests and every amount:   *)
(* what the settings lock keeps of the guards read under it, and what the  *)
(* filing read without it may rely on all the same.                        *)
(***************************************************************************)
EXTENDS VatFiling, FiniteSetTheorems, TLAPS

----------------------------------------------------------------------------
(* The inductive invariant.                                                *)

Guarded == {"locked", "checked"}
Loaded == {"loaded", "validated", "locked", "checked"}

\* The settings row has one holder.
OneHolder == \A t \in Requests : pc[t] \in Guarded <=> settingsHolder = t

\* Which request can be where.
KindsOfPlaces ==
  \A t \in Requests :
    /\ pc[t] \in {"loaded", "validated"} => Is(t, {"create", "update"})
    /\ pc[t] = "checked" => Is(t, {"settle", "create", "update"})
    /\ pc[t] \in {"idle", "done"} <=> job[t] = NoJob

\* What was found under the lock still holds when the voucher is written.
ChecksStillHold ==
  \A t \in Requests :
    /\ pc[t] = "checked" /\ Is(t, {"settle"}) =>
         settlements = {} /\ vat # 0 /\ seen[t].vatToPay = vat
    /\ pc[t] \in Guarded /\ Is(t, {"create", "update"}) => settlements # {}
    /\ pc[t] = "checked" /\ Is(t, {"create", "update"}) => payments = {}

\* The copy that an update loaded without a lock may have an old status; its
\* amount is still that of the filing, and what was paid stays paid.
CopiesOfTheFiling ==
  \A t \in Requests : pc[t] \in Loaded =>
    /\ Is(t, {"update"}) =>
         /\ filing # Absent /\ seen[t] \in Filings /\ seen[t].vatToPay = filing.vatToPay
         /\ seen[t].status = "PAID" /\ seen[t].vatToPay # 0 => payments # {}
    /\ Is(t, {"create"}) => seen[t] \in Filings /\ seen[t].status = "DRAFT"

AtMostOne(vs) == \A v, w \in vs : v = w

BooksAgree ==
  /\ AtMostOne(settlements) /\ AtMostOne(payments)
  /\ PaymentIsOfTheFiling /\ PaidFilingHasVoucher /\ PaymentFollowsSettlement

IInv ==
  TypeOK /\ OneHolder /\ KindsOfPlaces /\ ChecksStillHold /\ CopiesOfTheFiling /\ BooksAgree

----------------------------------------------------------------------------
(* Every step keeps the invariant.                                         *)

LEMMA JobFields ==
  ASSUME NEW j \in Jobs
  PROVE  /\ j.kind \in AllKinds /\ j # NoJob
         /\ j.kind = "post" => j.change \in {-1, 1}
         /\ j.kind \in {"create", "update"} => j.status \in Statuses \cup {""}
<1>1. j.kind \in AllKinds
  BY DEF Jobs, AllKinds
<1>2. j # NoJob
  BY <1>1 DEF NoJob, AllKinds
<1> QED BY <1>1, <1>2 DEF Jobs

\* The steps in which a request only moves on.
MovesOn(t) ==
  ReadReport(t) \/ FindById(t) \/ Validate(t) \/ CheckSettlement(t) \/ CheckPayment(t)
Ends(t) ==
  CommitVoucher(t) \/ CommitSettlement(t) \/ CommitFiling(t) \/ Refuse(t) \/ Abort(t)

LEMMA EndsFinish ==
  ASSUME NEW t \in Requests, Ends(t) PROVE pc[t] \in Waiting /\ Finish(t)
BY DEF Ends, CommitVoucher, CommitSettlement, CommitFiling, Refuse, Refused, Abort, Waiting

\* What is written is a filing, with the amount of the copy.
LEMMA StoredFiling ==
  ASSUME TypeOK, NEW t \in Requests, Is(t, {"create", "update"})
  PROVE  Stored(t) \in Filings /\ Stored(t).vatToPay = seen[t].vatToPay
<1>1. job[t] \in Jobs
  BY DEF TypeOK, Is, NoJob
<1>2. Normalized(t) \in Statuses
  BY <1>1, JobFields DEF Is, Normalized, Statuses
<1>3. seen[t] \in Filings \cup {Absent}
  BY DEF TypeOK
<1> QED BY <1>2, <1>3, MaxVatAssumption DEF Stored, Filings, Absent, Amounts

LEMMA StepType == TypeOK /\ KindsOfPlaces /\ [Next]_vars => TypeOK'
<1> SUFFICES ASSUME TypeOK, KindsOfPlaces, [Next]_vars PROVE TypeOK'
  OBVIOUS
<1> USE DEF TypeOK, books
<1>0. Absent \notin Filings /\ \A v \in Amounts : [status |-> "DRAFT", vatToPay |-> v] \in Filings
  BY DEF Absent, Filings, Statuses
<1>1. ASSUME NEW t \in Requests, Begin(t) PROVE TypeOK'
  BY <1>1 DEF Begin, Move, Waiting
<1>2. ASSUME NEW t \in Requests, MovesOn(t) PROVE TypeOK'
  <2>1. pc' \in [Requests -> Waiting \cup {"idle", "done"}]
    BY <1>2 DEF MovesOn, ReadReport, FindById, Validate, CheckSettlement, CheckPayment, Move, Waiting
  <2>2. seen' \in [Requests -> Filings \cup {Absent}]
    BY <1>0, <1>2 DEF MovesOn, ReadReport, FindById, Validate, CheckSettlement, CheckPayment
  <2> QED BY <1>2, <2>1, <2>2
    DEF MovesOn, ReadReport, FindById, Validate, CheckSettlement, CheckPayment
<1>3. ASSUME NEW t \in Requests, LockSettingsForAccounting(t) PROVE TypeOK'
  BY <1>3 DEF LockSettingsForAccounting, Move, Waiting
<1>4. ASSUME NEW t \in Requests, Ends(t) PROVE TypeOK'
  <2>1. Finish(t)
    BY <1>4, EndsFinish
  <2>2. /\ settingsHolder' \in Requests \cup {NoRequest}
        /\ pc' \in [Requests -> Waiting \cup {"idle", "done"}]
        /\ job' \in [Requests -> Jobs \cup {NoJob}] /\ seen' \in [Requests -> Filings \cup {Absent}]
    BY <2>1 DEF Finish, Move
  <2>3. seen[t].vatToPay \in Amounts
    BY MaxVatAssumption DEF Filings, Absent, Amounts
  <2>4. [by |-> t, amount |-> seen[t].vatToPay] \in Vouchers
    BY <2>3 DEF Vouchers
  <2>5. vat' \in Amounts /\ settlements' \subseteq Vouchers /\ payments' \subseteq Vouchers
    BY <1>4, <2>4 DEF Ends, CommitVoucher, CommitSettlement, CommitFiling, Refuse, Abort
  <2>6. CASE CommitFiling(t)
    <3>1. Is(t, {"create", "update"})
      BY <2>6 DEF CommitFiling, KindsOfPlaces
    <3>2. Stored(t) \in Filings
      BY <3>1, StoredFiling
    <3> QED BY <2>2, <2>5, <2>6, <3>2 DEF CommitFiling
  <2>7. CASE ~CommitFiling(t)
    BY <1>4, <2>2, <2>5, <2>7 DEF Ends, CommitVoucher, CommitSettlement, Refuse, Abort
  <2> QED BY <2>6, <2>7
<1>5. CASE UNCHANGED vars
  BY <1>5 DEF vars
<1> QED BY <1>1, <1>2, <1>3, <1>4, <1>5 DEF Next, Quiet, MovesOn, Ends

\* The settings row keeps one holder, and requests stay where they belong.
LEMMA StepPlaces ==
  TypeOK /\ OneHolder /\ KindsOfPlaces /\ [Next]_vars => OneHolder' /\ KindsOfPlaces'
<1> SUFFICES ASSUME TypeOK, OneHolder, KindsOfPlaces, [Next]_vars
             PROVE  OneHolder' /\ KindsOfPlaces'
  OBVIOUS
<1>0. /\ pc \in [Requests -> Waiting \cup {"idle", "done"}] /\ job \in [Requests -> Jobs \cup {NoJob}]
      /\ NoRequest \notin Requests /\ \A j \in Jobs : j # NoJob /\ j.kind \in AllKinds
  BY NoRequestAssumption, JobFields DEF TypeOK
<1> USE DEF OneHolder, KindsOfPlaces, Guarded, Waiting, Move, Is
<1>1. ASSUME NEW t \in Requests, Begin(t) PROVE OneHolder' /\ KindsOfPlaces'
  BY <1>0, <1>1 DEF Begin
<1>2. ASSUME NEW t \in Requests, MovesOn(t) PROVE OneHolder' /\ KindsOfPlaces'
  <2>1. PICK place \in Waiting : pc' = [pc EXCEPT ![t] = place]
    BY <1>2 DEF MovesOn, ReadReport, FindById, Validate, CheckSettlement, CheckPayment
  <2>2. /\ settingsHolder' = settingsHolder /\ job' = job
        /\ pc[t] \in Guarded <=> place \in Guarded
        /\ place \in {"loaded", "validated"} => Is(t, {"create", "update"})
        /\ place = "checked" => Is(t, {"settle", "create", "update"})
        /\ pc[t] \in Waiting
    BY <1>0, <1>2, <2>1
    DEF MovesOn, ReadReport, FindById, Validate, CheckSettlement, CheckPayment
  <2> QED BY <1>0, <2>1, <2>2
<1>3. ASSUME NEW t \in Requests, LockSettingsForAccounting(t) PROVE OneHolder' /\ KindsOfPlaces'
  BY <1>0, <1>3 DEF LockSettingsForAccounting, LockIsFree
<1>4. ASSUME NEW t \in Requests, Ends(t) PROVE OneHolder' /\ KindsOfPlaces'
  <2>1. pc[t] \in Waiting /\ Finish(t)
    BY <1>4, EndsFinish
  <2> QED BY <1>0, <2>1 DEF Finish
<1>5. CASE UNCHANGED vars
  BY <1>5 DEF vars
<1> QED BY <1>1, <1>2, <1>3, <1>4, <1>5 DEF Next, Quiet, MovesOn, Ends

\* What was checked under the lock, and what was copied, holds for as long as
\* the request relies on it.
LEMMA StepChecks ==
  IInv /\ [Next]_vars => ChecksStillHold' /\ CopiesOfTheFiling'
<1> SUFFICES ASSUME IInv, [Next]_vars PROVE ChecksStillHold' /\ CopiesOfTheFiling'
  OBVIOUS
<1>0. /\ pc \in [Requests -> Waiting \cup {"idle", "done"}]
      /\ job \in [Requests -> Jobs \cup {NoJob}] /\ seen \in [Requests -> Filings \cup {Absent}]
      /\ filing \in Filings \cup {Absent} /\ vat \in Amounts
      /\ NoRequest \notin Requests /\ Absent \notin Filings
      /\ \A t, u \in Requests : pc[t] \in Guarded /\ pc[u] \in Guarded => t = u
  BY NoRequestAssumption DEF IInv, TypeOK, OneHolder, Absent, Filings, Statuses
<1>1. ChecksStillHold /\ CopiesOfTheFiling /\ KindsOfPlaces /\ BooksAgree
  BY DEF IInv
<1> USE DEF ChecksStillHold, CopiesOfTheFiling, Guarded, Loaded, Waiting, Move, Is
<1>2. ASSUME NEW t \in Requests, Begin(t) PROVE ChecksStillHold' /\ CopiesOfTheFiling'
  BY <1>0, <1>1, <1>2 DEF Begin, books
<1>3. ASSUME NEW t \in Requests, ReadReport(t) PROVE ChecksStillHold' /\ CopiesOfTheFiling'
  <2> DEFINE new == [status |-> "DRAFT", vatToPay |-> vat]
  <2>1. new \in Filings /\ new.status = "DRAFT"
    BY <1>0 DEF Filings, Statuses
  <2>2. /\ UNCHANGED books /\ job' = job /\ pc' = [pc EXCEPT ![t] = "loaded"]
        /\ seen' = [seen EXCEPT ![t] = new] /\ job[t].kind = "create"
    BY <1>3 DEF ReadReport
  <2> HIDE DEF new
  <2> QED BY <1>0, <1>1, <2>1, <2>2 DEF books
<1>4. ASSUME NEW t \in Requests, FindById(t) PROVE ChecksStillHold' /\ CopiesOfTheFiling'
  <2>1. /\ UNCHANGED books /\ job' = job /\ pc' = [pc EXCEPT ![t] = "loaded"]
        /\ seen' = [seen EXCEPT ![t] = filing] /\ job[t].kind = "update" /\ filing \in Filings
    BY <1>0, <1>4 DEF FindById
  <2>2. filing.status = "PAID" /\ filing.vatToPay # 0 => payments # {}
    BY <1>1 DEF BooksAgree, PaidFilingHasVoucher
  <2> QED BY <1>0, <1>1, <2>1, <2>2 DEF books
<1>5. ASSUME NEW t \in Requests, Validate(t) PROVE ChecksStillHold' /\ CopiesOfTheFiling'
  BY <1>0, <1>1, <1>5 DEF Validate, books, KindsOfPlaces
<1>6. ASSUME NEW t \in Requests, LockSettingsForAccounting(t)
      PROVE  ChecksStillHold' /\ CopiesOfTheFiling'
  BY <1>0, <1>1, <1>6 DEF LockSettingsForAccounting, books, IsSettled, KindsOfPlaces
<1>7. ASSUME NEW t \in Requests, CheckSettlement(t) PROVE ChecksStillHold' /\ CopiesOfTheFiling'
  <2> DEFINE new == [status |-> "DRAFT", vatToPay |-> vat]
  <2>1. new.vatToPay = vat
    OBVIOUS
  <2>2. /\ UNCHANGED books /\ job' = job /\ pc' = [pc EXCEPT ![t] = "checked"]
        /\ seen' = [seen EXCEPT ![t] = new] /\ job[t].kind = "settle" /\ vat # 0 /\ settlements = {}
    BY <1>7 DEF CheckSettlement, SettlementAllowed
  <2> HIDE DEF new
  <2> QED BY <1>0, <1>1, <2>1, <2>2 DEF books
<1>8. ASSUME NEW t \in Requests, CheckPayment(t) PROVE ChecksStillHold' /\ CopiesOfTheFiling'
  BY <1>0, <1>1, <1>8 DEF CheckPayment, books, PaymentIsNew
<1>9. ASSUME NEW t \in Requests, Ends(t) PROVE ChecksStillHold' /\ CopiesOfTheFiling'
  <2>1. /\ pc' = [pc EXCEPT ![t] = "done"] /\ \A u \in Requests \ {t} : job'[u] = job[u] /\ seen'[u] = seen[u]
    BY <1>0, <1>9, EndsFinish DEF Finish
  <2>2. \A u \in Requests : pc'[u] \in Loaded => u # t /\ pc'[u] = pc[u]
    BY <1>0, <2>1
  <2>3. CASE Refuse(t) \/ Abort(t)
    BY <1>0, <1>1, <2>1, <2>2, <2>3 DEF Refuse, Abort, books
  <2>4. CASE CommitVoucher(t)
    <3>1. \A u \in Requests \ {t} : pc[u] \notin Guarded
      BY <1>0, <2>4 DEF CommitVoucher
    <3> QED BY <1>0, <1>1, <2>1, <2>2, <2>4, <3>1 DEF CommitVoucher
  <2>5. CASE CommitSettlement(t)
    <3>1. \A u \in Requests \ {t} : pc[u] \notin Guarded
      BY <1>0, <2>5 DEF CommitSettlement
    <3> QED BY <1>0, <1>1, <2>1, <2>2, <2>5, <3>1 DEF CommitSettlement
  <2>6. CASE CommitFiling(t)
    <3>1. payments \subseteq payments' /\ settlements' = settlements /\ vat' = vat
          /\ (payments' # payments => pc[t] \in Guarded)
      BY <2>6 DEF CommitFiling
    <3>2. ChecksStillHold'
      BY <1>0, <1>1, <2>1, <2>2, <3>1
    <3>3. /\ Is(t, {"create", "update"}) /\ (Is(t, {"create"}) => filing = Absent)
          /\ pc[t] \in Loaded /\ filing' = Stored(t)
      BY <1>0, <1>1, <2>6 DEF CommitFiling, PeriodIsUnique, KindsOfPlaces
    <3>4. filing' \in Filings /\ filing'.vatToPay = seen[t].vatToPay
      BY <3>3, StoredFiling DEF IInv
    <3>5. filing # Absent => filing'.vatToPay = filing.vatToPay
      BY <1>1, <3>3, <3>4
    <3>6. CopiesOfTheFiling'
      BY <1>0, <1>1, <2>1, <2>2, <3>1, <3>4, <3>5
    <3> QED BY <3>2, <3>6
  <2> QED BY <1>9, <2>3, <2>4, <2>5, <2>6 DEF Ends
<1>10. CASE UNCHANGED vars
  BY <1>1, <1>10 DEF vars, books
<1> QED BY <1>2, <1>3, <1>4, <1>5, <1>6, <1>7, <1>8, <1>9, <1>10 DEF Next, Quiet, Ends

\* The vouchers, the filing and what it says of them stay in agreement.
LEMMA StepBooks == IInv /\ [Next]_vars => BooksAgree'
<1> SUFFICES ASSUME IInv, [Next]_vars PROVE BooksAgree'
  OBVIOUS
<1>0. /\ TypeOK /\ ChecksStillHold /\ CopiesOfTheFiling /\ KindsOfPlaces /\ BooksAgree
  BY DEF IInv
<1> USE DEF BooksAgree, AtMostOne, PaymentIsOfTheFiling, PaidFilingHasVoucher, PaymentFollowsSettlement
<1>1. CASE UNCHANGED <<settlements, payments, filing>>
  BY <1>0, <1>1
<1>2. ASSUME NEW t \in Requests, CommitSettlement(t) PROVE BooksAgree'
  <2>1. settlements = {}
    BY <1>0, <1>2 DEF CommitSettlement, ChecksStillHold
  <2> QED BY <1>0, <1>2, <2>1 DEF CommitSettlement
<1>3. ASSUME NEW t \in Requests, CommitFiling(t) PROVE BooksAgree'
  <2>1. Is(t, {"create", "update"}) /\ (Is(t, {"create"}) => filing = Absent) /\ pc[t] \in Loaded
    BY <1>0, <1>3 DEF CommitFiling, KindsOfPlaces, PeriodIsUnique, Loaded
  <2>2. /\ filing' \in Filings /\ filing' # Absent /\ filing'.vatToPay = seen[t].vatToPay
        /\ settlements' = settlements
    BY <1>0, <1>3, <2>1, StoredFiling DEF CommitFiling, Absent, Filings, Statuses
  <2>3. filing # Absent => filing'.vatToPay = filing.vatToPay
    BY <1>0, <2>1, <2>2 DEF CopiesOfTheFiling, Is
  <2>4. CASE pc[t] = "checked"
    <3> DEFINE voucher == [by |-> t, amount |-> seen[t].vatToPay]
    <3>1. payments = {} /\ settlements # {}
      BY <1>0, <2>1, <2>4 DEF ChecksStillHold, Guarded
    <3>2. payments' = {voucher} /\ voucher.amount = seen[t].vatToPay
      BY <1>3, <2>4, <3>1 DEF CommitFiling
    <3> HIDE DEF voucher
    <3> QED BY <1>0, <2>2, <3>1, <3>2
  <2>5. CASE pc[t] # "checked"
    <3>1. payments' = payments /\ ~PaymentDue(t)
      BY <1>3, <2>5 DEF CommitFiling
    <3>2. filing'.status = Normalized(t)
      BY <1>0, <1>3 DEF CommitFiling, Stored, TypeOK, Filings, Absent
    <3>3. filing'.status = "PAID" /\ filing'.vatToPay # 0 => payments # {}
      BY <1>0, <2>1, <2>2, <3>1, <3>2 DEF PaymentDue, CopiesOfTheFiling, Is
    <3>4. payments # {} => filing # Absent
      BY <1>0
    <3> QED BY <1>0, <2>2, <2>3, <3>1, <3>3, <3>4
  <2> QED BY <2>4, <2>5
<1> QED BY <1>1, <1>2, <1>3
  DEF Next, Quiet, vars, books, Begin, ReadReport, FindById, Validate, LockSettingsForAccounting,
    CheckSettlement, CheckPayment, CommitVoucher, Refuse, Abort

----------------------------------------------------------------------------
(* Theorems.                                                               *)

LEMMA SpecIInv == Spec => []IInv
<1>1. Init => IInv
  BY NoRequestAssumption, MaxVatAssumption
  DEF Init, IInv, TypeOK, OneHolder, KindsOfPlaces, ChecksStillHold, CopiesOfTheFiling, BooksAgree,
    AtMostOne, PaymentIsOfTheFiling, PaidFilingHasVoucher, PaymentFollowsSettlement, Guarded, Loaded,
    Amounts, Absent
<1>2. IInv /\ [Next]_vars => IInv'
  BY StepType, StepPlaces, StepChecks, StepBooks DEF IInv
<1> QED BY <1>1, <1>2, PTL DEF Spec

LEMMA AtMostOneCounts == ASSUME NEW vs, AtMostOne(vs) PROVE Cardinality(vs) <= 1
<1>1. CASE vs = {}
  BY <1>1, FS_EmptySet
<1>2. ASSUME NEW v \in vs PROVE Cardinality(vs) <= 1
  <2>1. vs = {v}
    BY <1>2 DEF AtMostOne
  <2>2. Cardinality({v}) = 1
    BY FS_Singleton
  <2> QED BY <2>1, <2>2
<1> QED BY <1>1, <1>2

\* Every variable of a VAT period keeps its type, for any bound of its VAT.
THEOREM VatTypeOK == Spec => []TypeOK
<1>1. IInv => TypeOK
  BY DEF IInv
<1> QED BY <1>1, SpecIInv, PTL

\* A VAT period is settled at most once, however many requests look for its
\* settlement voucher (createVatSettlementEntry).
THEOREM VatIsSettledOnce == Spec => []SettledOnce
<1>1. IInv => SettledOnce
  BY AtMostOneCounts DEF IInv, BooksAgree, SettledOnce
<1> QED BY <1>1, SpecIInv, PTL

\* The VAT of a period is paid at most once, although the filing is read
\* before the lock is taken (createVatFilingPaymentEntry).
THEOREM VatIsPaidOnce == Spec => []PaidOnce
<1>1. IInv => PaidOnce
  BY AtMostOneCounts DEF IInv, BooksAgree, PaidOnce
<1> QED BY <1>1, SpecIInv, PTL

\* The payment is of the filing that remains, its amount included.
THEOREM VatPaymentIsOfTheFiling == Spec => []PaymentIsOfTheFiling
<1>1. IInv => PaymentIsOfTheFiling
  BY DEF IInv, BooksAgree
<1> QED BY <1>1, SpecIInv, PTL

\* A filing that is marked as paid has its payment voucher, also when two
\* updates loaded it before either was written (updateStatus).
THEOREM VatPaidFilingHasVoucher == Spec => []PaidFilingHasVoucher
<1>1. IInv => PaidFilingHasVoucher
  BY DEF IInv, BooksAgree
<1> QED BY <1>1, SpecIInv, PTL

\* Nothing is paid that was not settled.
THEOREM VatPaymentFollowsSettlement == Spec => []PaymentFollowsSettlement
<1>1. IInv => PaymentFollowsSettlement
  BY DEF IInv, BooksAgree
<1> QED BY <1>1, SpecIInv, PTL

\* A settlement voucher clears exactly what the period holds when it commits.
THEOREM VatSettlementIsOfThePeriod == Spec => SettlementIsOfThePeriod
<1>1. IInv /\ [Next]_vars => [\A s \in settlements' \ settlements : s.amount = vat /\ s.amount # 0]_vars
  <2> SUFFICES ASSUME IInv, Next, NEW s \in settlements' \ settlements
               PROVE  s.amount = vat /\ s.amount # 0
    BY DEF vars, books
  <2>1. PICK t \in Requests : CommitSettlement(t)
    BY DEF Next, Quiet, vars, books, Begin, ReadReport, FindById, Validate,
      LockSettingsForAccounting, CheckSettlement, CheckPayment, CommitVoucher, CommitFiling, Refuse, Abort
  <2>2. s.amount = seen[t].vatToPay
    BY <2>1 DEF CommitSettlement
  <2>3. seen[t].vatToPay = vat /\ vat # 0
    BY <2>1 DEF CommitSettlement, IInv, ChecksStillHold
  <2> QED BY <2>2, <2>3
<1> QED BY <1>1, SpecIInv, PTL DEF Spec, SettlementIsOfThePeriod
=============================================================================
