-------------------------- MODULE SupplierProofs --------------------------
(***************************************************************************)
(* Proofs about Supplier for every number of requests, invoices, references*)
(* and amounts: a guard that was checked on a copy of the row still holds  *)
(* when the row is written, because the lock of the row, and then that of  *)
(* the settings, lasts to the commit; and the payments of a row add up to  *)
(* what the row and the journal say was paid.                              *)
(***************************************************************************)
EXTENDS Supplier, FiniteSetTheorems, TLAPS

----------------------------------------------------------------------------
(* The inductive invariant.                                                *)

RowKinds == {"status", "pay", "cancel", "delete"}
AtWork == {"locked", "checked"}

\* Which request can be where.
KindsOfPlaces ==
  \A t \in Requests :
    /\ pc[t] = "row" => job[t].kind \in RowKinds
    /\ pc[t] = "found" => Is(t, {"correct"})
    /\ pc[t] = "checked" => Is(t, {"create"})
    /\ pc[t] = "locked" => ~Is(t, {"delete"})
    /\ pc[t] \in Waiting => job[t] \in Jobs

\* A request that works on a row: it holds the row and a true copy of it.
OnRow(t) == pc[t] \in {"row", "locked"} /\ job[t].kind \in RowKinds

LocksAreHeld ==
  \A t \in Requests :
    /\ OnRow(t) => rowHolder[job[t].slot] = t
    /\ pc[t] \in AtWork => settingsHolder = t

CopiesAreTrue ==
  \A t \in Requests : OnRow(t) =>
    seen[t] = invoices[job[t].slot] /\ seen[t] # Absent

\* What was found under the locks still holds when the row is written.
ChecksStillHold ==
  \A t \in Requests :
    /\ pc[t] = "locked" /\ job[t].kind \in RowKinds => AllowedByRow(t)
    /\ pc[t] = "checked" => ReferenceIsNew(t)

\* Nothing is paid or reversed without a trace on the row.
NothingHidden ==
  \A i \in Slots :
    /\ invoices[i].paid = 0 => invoices[i].payments = {} /\ ledger[i].payments = {}
    /\ ledger[i].cancelled > 0 => invoices[i].status = "cancelled"
    /\ invoices[i].status = "cancelled" => invoices[i].paid = 0

\* A request for an invoice that exists: rows are never deleted.
RowsExist ==
  \A t \in Requests : pc[t] \in Waiting /\ job[t].kind \in RowKinds => invoices[job[t].slot] # Absent

IInv ==
  /\ TypeOK /\ KindsOfPlaces /\ LocksAreHeld /\ RowsExist
  /\ CopiesAreTrue /\ ChecksStillHold /\ NothingHidden /\ RowsAreSound

----------------------------------------------------------------------------
(* What jobs, rows and vouchers are made of.                               *)

LEMMA JobFields ==
  ASSUME NEW j \in Jobs
  PROVE  /\ j.kind \in AllKinds /\ j # NoJob
         /\ j.kind \in {"status", "pay", "cancel", "delete", "correct"} => j.slot \in Slots
         /\ j.kind = "create" => j.reference \in References \cup {Blank}
         /\ j.kind = "status" => j.target \in Targets
         /\ j.kind = "pay" => j.amount \in Amounts /\ j.ref \in Refs
<1>1. j.kind \in AllKinds
  BY DEF Jobs, AllKinds
<1>2. j # NoJob
  BY <1>1 DEF NoJob, AllKinds
<1> QED BY <1>1, <1>2 DEF Jobs

LEMMA AbsentIsNoInvoice == Absent \notin Invoices /\ \A r \in Invoices : r # Absent
BY DEF Absent, Invoices, Statuses, Open

LEMMA PaymentVoucherType ==
  ASSUME TypeOK, NEW t \in Requests, job[t] \in Jobs, job[t].kind = "pay"
  PROVE  PaymentVoucher(t) \in PaymentVouchers
<1>1. job[t].amount \in Amounts /\ job[t].ref \in Refs
  BY JobFields
<1>2. job[t].amount \in 0 .. Total /\ NetOf[job[t].amount] \in 0 .. Total
  BY <1>1, NetAssumption, TotalAssumption DEF Amounts
<1> QED BY <1>1, <1>2 DEF PaymentVoucher, PaymentVouchers

----------------------------------------------------------------------------
(* The steps, by what they do to the locks and to the books.               *)

Moves(t) == LockById(t) \/ FindVoucher(t) \/ LockSettingsForAccounting(t) \/ CheckReference(t)
Writes(t) ==
  StoreInvoice(t) \/ ChangeStatus(t) \/ RegisterPayment(t) \/ CancelInvoice(t) \/ CorrectVoucher(t)
Leaves(t) ==
  ReturnCancelled(t) \/ ChangePolicy(t) \/ Refuse(t) \/ Abort(t) \/ NoSlotLeft(t)

LEMMA StepCases ==
  ASSUME [Next]_vars
  PROVE  \/ \E t \in Requests : Begin(t) \/ Moves(t) \/ Writes(t) \/ Leaves(t)
         \/ UNCHANGED vars
BY DEF Next, Work, Quiet, Moves, Writes, Leaves

LEMMA WritesFinish ==
  ASSUME NEW t \in Requests, Writes(t)
  PROVE  /\ pc[t] \in AtWork /\ Finish(t) /\ UNCHANGED method
         /\ StoreInvoice(t) \/ job[t].kind \in {"status", "pay", "cancel", "correct"}
BY DEF Writes, StoreInvoice, ChangeStatus, RegisterPayment, CancelInvoice, CorrectVoucher, AtWork, Is

LEMMA LeavesFinish ==
  ASSUME NEW t \in Requests, Leaves(t)
  PROVE  /\ pc[t] \in Waiting /\ Finish(t) /\ UNCHANGED <<invoices, ledger>>
         /\ method' \in {"INVOICE", "CASH"} \cup {method}
BY DEF Leaves, ReturnCancelled, ChangePolicy, Refuse, Refused, Abort, NoSlotLeft, Waiting, books

\* A write changes the row and the journal of one invoice.
LEMMA OneRowIsWritten ==
  ASSUME IInv, NEW t \in Requests, Writes(t)
  PROVE  \E i \in Slots :
           /\ \E r \in Invoices \cup {Absent}, l \in Ledgers :
                /\ invoices' = [invoices EXCEPT ![i] = r] /\ ledger' = [ledger EXCEPT ![i] = l]
                /\ r = Absent => invoices[i] = Absent
           /\ \/ i = job[t].slot /\ job[t].kind \in RowKinds
              \/ invoices[i] = Absent
              \/ invoices' = invoices
<1> USE DEF IInv, Is
<1>1. /\ pc[t] \in AtWork /\ job[t] \in Jobs
      /\ ledger \in [Slots -> Ledgers] /\ invoices \in [Slots -> Invoices \cup {Absent}]
  BY WritesFinish DEF TypeOK, KindsOfPlaces, AtWork, Waiting
<1>2. \A i \in Slots : Booking(i) \in {0, Total}
  BY <1>1 DEF Booking, Ledgers
<1>3. CASE StoreInvoice(t)
  <2>1. job[t].reference \in References \cup {Blank}
    BY <1>1, <1>3, JobFields DEF StoreInvoice, KindsOfPlaces
  <2>2. [status |-> "unpaid", reference |-> job[t].reference, paid |-> 0, payments |-> {}] \in Invoices
    BY <2>1, TotalAssumption DEF Invoices, Statuses, Open
  <2>3. \A i \in Slots : [ledger[i] EXCEPT !.booked = Booking(i)] \in Ledgers
    BY <1>1, <1>2 DEF Ledgers
  <2>4. \A i \in Slots : [ledger EXCEPT ![i].booked = Booking(i)]
                            = [ledger EXCEPT ![i] = [ledger[i] EXCEPT !.booked = Booking(i)]]
    BY <1>1
  <2> QED BY <1>3, <2>2, <2>3, <2>4, AbsentIsNoInvoice DEF StoreInvoice
<1>4. CASE CorrectVoucher(t)
  <2> DEFINE i == job[t].slot
             r == invoices[i]
             l == [ledger[i] EXCEPT !.corrected = @ + Total]
  <2>1. i \in Slots
    BY <1>1, <1>4, JobFields DEF CorrectVoucher
  <2>2. l \in Ledgers
    BY <1>1, <2>1, TotalAssumption DEF Ledgers
  <2>3. ledger' = [ledger EXCEPT ![i] = l]
    BY <1>1, <1>4, <2>1 DEF CorrectVoucher
  <2>4. invoices' = [invoices EXCEPT ![i] = r] /\ invoices' = invoices
    BY <1>1, <1>4, <2>1 DEF CorrectVoucher
  <2>5. r \in Invoices \cup {Absent} /\ (r = Absent => invoices[i] = Absent)
    BY <1>1, <2>1
  <2> HIDE DEF r, l
  <2> QED BY <2>1, <2>2, <2>3, <2>4, <2>5
<1>5. CASE ChangeStatus(t) \/ RegisterPayment(t) \/ CancelInvoice(t)
  <2> DEFINE i == job[t].slot
  <2>1. job[t].kind \in RowKinds /\ pc[t] = "locked"
    BY <1>5 DEF ChangeStatus, RegisterPayment, CancelInvoice, RowKinds
  <2>2. i \in Slots /\ seen[t] \in Invoices /\ seen[t] = invoices[i]
    BY <1>1, <2>1, JobFields DEF RowKinds, CopiesAreTrue, OnRow, TypeOK
  <2>3. CASE ChangeStatus(t)
    <3>1. Target(t) \in Statuses
      BY <1>1, <2>3, JobFields, KindsAssumption DEF ChangeStatus, Target, Statuses, Open
    <3>2. [seen[t] EXCEPT !.status = Target(t)] \in Invoices
      BY <2>2, <3>1 DEF Invoices
    <3>3. [ledger[i] EXCEPT !.booked = Booking(i)] \in Ledgers /\ ledger[i] \in Ledgers
      BY <1>1, <1>2, <2>2 DEF Ledgers
    <3>4. \/ ledger' = [ledger EXCEPT ![i] = [ledger[i] EXCEPT !.booked = Booking(i)]]
          \/ ledger' = [ledger EXCEPT ![i] = ledger[i]]
      BY <1>1, <2>2, <2>3 DEF ChangeStatus
    <3>5. invoices' = [invoices EXCEPT ![i] = [seen[t] EXCEPT !.status = Target(t)]]
      BY <2>3 DEF ChangeStatus
    <3> QED BY <2>1, <2>2, <3>2, <3>3, <3>4, <3>5, AbsentIsNoInvoice
  <2>4. CASE RegisterPayment(t)
    <3> DEFINE paid == seen[t].paid + job[t].amount
               p == [by |-> t, ref |-> job[t].ref, amount |-> job[t].amount]
               r == [seen[t] EXCEPT !.paid = paid, !.status = IF paid = Total THEN "paid" ELSE "partial",
                                    !.payments = @ \cup {p}]
               vs == IF PaymentEntryExists(t) THEN ledger[i].payments
                                              ELSE ledger[i].payments \cup {PaymentVoucher(t)}
               l == [ledger[i] EXCEPT !.booked = Booking(i), !.payments = vs]
    <3>1. job[t].kind = "pay" /\ job[t].amount \in Amounts /\ job[t].ref \in Refs
      BY <1>1, <2>4, JobFields DEF RegisterPayment
    <3>2. paid \in 0 .. Total
      BY <2>2, <2>4, <3>1, TotalAssumption
      DEF RegisterPayment, PaymentAllowed, UpToRemaining, Invoices, Amounts
    <3>3. p \in Payments
      BY <3>1 DEF Payments
    <3>4. r \in Invoices
      BY <2>2, <3>2, <3>3 DEF Invoices, Statuses
    <3>5. vs \in SUBSET PaymentVouchers
      BY <1>1, <2>2, <3>1, PaymentVoucherType DEF Ledgers
    <3>6. l \in Ledgers
      BY <1>1, <1>2, <2>2, <3>5 DEF Ledgers
    <3>7. invoices' = [invoices EXCEPT ![i] = r]
      BY <2>4 DEF RegisterPayment
    <3>8. ledger' = [ledger EXCEPT ![i] = l]
      BY <1>1, <2>2, <2>4 DEF RegisterPayment
    <3> HIDE DEF r, l
    <3> QED BY <2>1, <2>2, <3>4, <3>6, <3>7, <3>8, AbsentIsNoInvoice
  <2>5. CASE CancelInvoice(t)
    <3>1. [seen[t] EXCEPT !.status = "cancelled"] \in Invoices
      BY <2>2 DEF Invoices, Statuses
    <3>2. [ledger[i] EXCEPT !.cancelled = ledger[i].booked] \in Ledgers
      BY <1>1, <2>2 DEF Ledgers
    <3>3. ledger' = [ledger EXCEPT ![i] = [ledger[i] EXCEPT !.cancelled = ledger[i].booked]]
      BY <1>1, <2>2, <2>5 DEF CancelInvoice
    <3>4. invoices' = [invoices EXCEPT ![i] = [seen[t] EXCEPT !.status = "cancelled"]]
      BY <2>5 DEF CancelInvoice
    <3> QED BY <2>1, <2>2, <3>1, <3>2, <3>3, <3>4, AbsentIsNoInvoice
  <2> QED BY <1>5, <2>3, <2>4, <2>5
<1> QED BY <1>3, <1>4, <1>5 DEF Writes

----------------------------------------------------------------------------
(* Every step keeps the invariant.                                         *)

LEMMA StepType == IInv /\ [Next]_vars => TypeOK'
<1> SUFFICES ASSUME IInv, [Next]_vars PROVE TypeOK'
  OBVIOUS
<1>0. TypeOK /\ KindsOfPlaces
  BY DEF IInv
<1> USE DEF TypeOK, books, locks, Move
<1>1. ASSUME NEW t \in Requests, Begin(t) PROVE TypeOK'
  BY <1>0, <1>1 DEF Begin, Arrivals, Waiting
<1>2. ASSUME NEW t \in Requests, Moves(t) PROVE TypeOK'
  <2>1. pc[t] \in Waiting /\ job[t] \in Jobs
    BY <1>0, <1>2
    DEF KindsOfPlaces, Moves, LockById, FindVoucher, LockSettingsForAccounting, CheckReference, Waiting
  <2>2. pc' \in [Requests -> Waiting \cup {"idle", "done"}]
    BY <1>0, <1>2
    DEF Moves, LockById, FindVoucher, LockSettingsForAccounting, CheckReference, Waiting
  <2>3. seen' \in [Requests -> Invoices \cup {Absent}]
    BY <1>0, <1>2, <2>1, JobFields
    DEF Moves, LockById, FindVoucher, LockSettingsForAccounting, CheckReference, Is
  <2>4. /\ rowHolder' \in [Slots -> Requests \cup {NoRequest}]
        /\ voucherHolder' \in [Slots -> Requests \cup {NoRequest}]
        /\ settingsHolder' \in Requests \cup {NoRequest}
    BY <1>0, <1>2 DEF Moves, LockById, FindVoucher, LockSettingsForAccounting, CheckReference
  <2> QED BY <1>0, <1>2, <2>2, <2>3, <2>4
    DEF Moves, LockById, FindVoucher, LockSettingsForAccounting, CheckReference
<1>3. ASSUME NEW t \in Requests, Finish(t)
      PROVE  /\ rowHolder' \in [Slots -> Requests \cup {NoRequest}]
             /\ voucherHolder' \in [Slots -> Requests \cup {NoRequest}]
             /\ settingsHolder' \in Requests \cup {NoRequest}
             /\ pc' \in [Requests -> Waiting \cup {"idle", "done"}]
             /\ job' \in [Requests -> Jobs \cup {NoJob}]
             /\ seen' \in [Requests -> Invoices \cup {Absent}]
  BY <1>0, <1>3 DEF Finish
<1>4. ASSUME NEW t \in Requests, Writes(t) PROVE TypeOK'
  <2>1. Finish(t) /\ method' = method
    BY <1>4, WritesFinish
  <2>2. invoices' \in [Slots -> Invoices \cup {Absent}] /\ ledger' \in [Slots -> Ledgers]
    BY <1>0, <1>4, OneRowIsWritten
  <2> QED BY <1>0, <1>3, <2>1, <2>2
<1>5. ASSUME NEW t \in Requests, Leaves(t) PROVE TypeOK'
  BY <1>0, <1>3, <1>5, LeavesFinish
<1>6. CASE UNCHANGED vars
  BY <1>0, <1>6 DEF vars
<1> QED BY <1>1, <1>2, <1>4, <1>5, <1>6, StepCases

\* A finished request has left its place and its locks; the others have not.
LEMMA OthersStay ==
  ASSUME TypeOK, NEW t \in Requests, Finish(t), NEW u \in Requests
  PROVE  /\ pc'[t] = "done"
         /\ u # t => /\ pc'[u] = pc[u] /\ job'[u] = job[u] /\ seen'[u] = seen[u]
                     /\ settingsHolder = u => settingsHolder' = u
                     /\ \A i \in Slots : rowHolder[i] = u => rowHolder'[i] = u
BY DEF TypeOK, Finish, Move

LEMMA StepPlaces == IInv /\ [Next]_vars => KindsOfPlaces'
<1> SUFFICES ASSUME IInv, [Next]_vars PROVE KindsOfPlaces'
  OBVIOUS
<1>0. TypeOK /\ KindsOfPlaces
  BY DEF IInv
<1> USE DEF KindsOfPlaces, Move, Is
<1>1. ASSUME NEW t \in Requests, Begin(t) PROVE KindsOfPlaces'
  BY <1>0, <1>1 DEF TypeOK, Begin, Arrivals
<1>2. ASSUME NEW t \in Requests, Moves(t) PROVE KindsOfPlaces'
  BY <1>0, <1>2
  DEF TypeOK, Moves, LockById, FindVoucher, LockSettingsForAccounting, CheckReference,
      Waiting, RowKinds, AllowedByRow
<1>3. ASSUME NEW t \in Requests, Finish(t) PROVE KindsOfPlaces'
  BY <1>0, <1>3, OthersStay DEF Waiting
<1>4. CASE UNCHANGED vars
  BY <1>0, <1>4 DEF vars
<1> QED BY <1>1, <1>2, <1>3, <1>4, StepCases, WritesFinish, LeavesFinish

LEMMA StepLocks == IInv /\ [Next]_vars => LocksAreHeld'
<1> SUFFICES ASSUME IInv, [Next]_vars PROVE LocksAreHeld'
  OBVIOUS
<1>0. TypeOK /\ KindsOfPlaces /\ LocksAreHeld
  BY DEF IInv
<1> USE DEF LocksAreHeld, OnRow, AtWork, Move, locks
<1>1. ASSUME NEW t \in Requests, Begin(t) PROVE LocksAreHeld'
  BY <1>0, <1>1 DEF TypeOK, Begin
<1>2. ASSUME NEW t \in Requests, LockById(t) PROVE LocksAreHeld'
  <2>1. job[t] \in Jobs /\ job[t].slot \in Slots /\ NoRequest \notin Requests
    BY <1>0, <1>2, JobFields, NoRequestAssumption DEF KindsOfPlaces, LockById, Waiting, Is
  <2> QED BY <1>0, <1>2, <2>1 DEF TypeOK, LockById, RowIsFree
<1>3. ASSUME NEW t \in Requests, FindVoucher(t) PROVE LocksAreHeld'
  BY <1>0, <1>3 DEF TypeOK, FindVoucher
<1>4. ASSUME NEW t \in Requests, LockSettingsForAccounting(t) PROVE LocksAreHeld'
  <2>1. NoRequest \notin Requests
    BY NoRequestAssumption
  <2>2. job[t].kind \in RowKinds => pc[t] = "row"
    BY <1>0, <1>4 DEF LockSettingsForAccounting, KindsOfPlaces, Is, RowKinds
  <2> QED BY <1>0, <1>4, <2>1, <2>2 DEF TypeOK, LockSettingsForAccounting, SettingsAreFree
<1>5. ASSUME NEW t \in Requests, CheckReference(t) PROVE LocksAreHeld'
  BY <1>0, <1>5 DEF TypeOK, CheckReference
<1>6. ASSUME NEW t \in Requests, Finish(t) PROVE LocksAreHeld'
  <2>1. \A u \in Requests : OnRow(u) => job[u].slot \in Slots
    BY <1>0, JobFields DEF KindsOfPlaces, Waiting, RowKinds
  <2> QED BY <1>0, <1>6, <2>1, OthersStay
<1>7. CASE UNCHANGED vars
  BY <1>0, <1>7 DEF vars
<1> QED BY <1>1, <1>2, <1>3, <1>4, <1>5, <1>6, <1>7, StepCases, WritesFinish, LeavesFinish DEF Moves

\* The write of one request leaves the row that another one works on alone.
LEMMA RowsOfOthersStay ==
  ASSUME IInv, NEW t \in Requests, Writes(t), NEW u \in Requests, u # t, OnRow(u)
  PROVE  invoices'[job[u].slot] = invoices[job[u].slot]
<1>1. PICK i \in Slots :
        /\ \E r \in Invoices \cup {Absent} : invoices' = [invoices EXCEPT ![i] = r]
        /\ \/ i = job[t].slot /\ job[t].kind \in RowKinds
           \/ invoices[i] = Absent
           \/ invoices' = invoices
  BY OneRowIsWritten
<1>2. /\ invoices \in [Slots -> Invoices \cup {Absent}] /\ job[u].slot \in Slots
      /\ rowHolder[job[u].slot] = u /\ invoices[job[u].slot] # Absent
  BY JobFields DEF IInv, TypeOK, KindsOfPlaces, LocksAreHeld, CopiesAreTrue, OnRow, Waiting, RowKinds
<1>3. job[t].kind \in RowKinds => rowHolder[job[t].slot] = t
  BY WritesFinish DEF IInv, KindsOfPlaces, LocksAreHeld, OnRow, AtWork, Is, RowKinds
<1> QED BY <1>1, <1>2, <1>3

LEMMA StepCopies == IInv /\ [Next]_vars => CopiesAreTrue' /\ RowsExist'
<1> SUFFICES ASSUME IInv, [Next]_vars PROVE CopiesAreTrue' /\ RowsExist'
  OBVIOUS
<1>0. TypeOK /\ KindsOfPlaces /\ CopiesAreTrue /\ RowsExist
  BY DEF IInv
<1> USE DEF CopiesAreTrue, RowsExist, OnRow, Move, books, Waiting
<1>1. ASSUME NEW t \in Requests, Begin(t) PROVE CopiesAreTrue' /\ RowsExist'
  BY <1>0, <1>1 DEF TypeOK, Begin, Arrivals, RowKinds
<1>2. ASSUME NEW t \in Requests, LockById(t) PROVE CopiesAreTrue' /\ RowsExist'
  BY <1>0, <1>2 DEF TypeOK, LockById, Is, RowKinds
<1>3. ASSUME NEW t \in Requests, FindVoucher(t) \/ CheckReference(t)
      PROVE  CopiesAreTrue' /\ RowsExist'
  BY <1>0, <1>3 DEF TypeOK, FindVoucher, CheckReference, Is, RowKinds
<1>4. ASSUME NEW t \in Requests, LockSettingsForAccounting(t) PROVE CopiesAreTrue' /\ RowsExist'
  <2>1. job[t].kind \in RowKinds => OnRow(t)
    BY <1>0, <1>4 DEF LockSettingsForAccounting, KindsOfPlaces, Is, RowKinds
  <2> QED BY <1>0, <1>4, <2>1 DEF TypeOK, LockSettingsForAccounting
<1>5. ASSUME NEW t \in Requests, Writes(t) PROVE CopiesAreTrue' /\ RowsExist'
  <2>1. Finish(t)
    BY <1>5, WritesFinish
  <2>2. \A i \in Slots : invoices[i] # Absent => invoices'[i] # Absent
    BY <1>0, <1>5, OneRowIsWritten DEF TypeOK
  <2>3. RowsExist'
    <3>1. \A u \in Requests : pc[u] \in Waiting /\ job[u].kind \in RowKinds => job[u].slot \in Slots
      BY <1>0, JobFields DEF KindsOfPlaces, RowKinds
    <3> QED BY <1>0, <2>1, <2>2, <3>1, OthersStay
  <2>4. CopiesAreTrue'
    BY <1>0, <1>5, <2>1, OthersStay, RowsOfOthersStay
  <2> QED BY <2>3, <2>4
<1>6. ASSUME NEW t \in Requests, Leaves(t) PROVE CopiesAreTrue' /\ RowsExist'
  BY <1>0, <1>6, LeavesFinish, OthersStay
<1>7. CASE UNCHANGED vars
  BY <1>0, <1>7 DEF vars
<1> QED BY <1>1, <1>2, <1>3, <1>4, <1>5, <1>6, <1>7, StepCases DEF Moves

\* A guard gives the same answer as long as nobody writes.
LEMMA SameAnswer ==
  ASSUME NEW u \in Requests, job'[u] = job[u], seen'[u] = seen[u],
         ledger' = ledger, invoices' = invoices
  PROVE  (AllowedByRow(u) => AllowedByRow(u)') /\ (ReferenceIsNew(u) => ReferenceIsNew(u)')
BY DEF AllowedByRow, ReferenceIsNew, NotCancelled, Is, StatusMayChange, HasPayments, MayGoBack,
       HasEntries, Status, Target, Vouchers

LEMMA StepChecks == IInv /\ [Next]_vars => ChecksStillHold'
<1> SUFFICES ASSUME IInv, [Next]_vars PROVE ChecksStillHold'
  OBVIOUS
<1>0. TypeOK /\ KindsOfPlaces /\ LocksAreHeld /\ ChecksStillHold
  BY DEF IInv
<1> SUFFICES ASSUME NEW u \in Requests, pc'[u] \in AtWork
             PROVE  /\ pc'[u] = "locked" /\ job'[u].kind \in RowKinds => AllowedByRow(u)'
                    /\ pc'[u] = "checked" => ReferenceIsNew(u)'
  BY DEF ChecksStillHold, AtWork
<1> USE DEF Move, books, AtWork
<1>1. ASSUME NEW t \in Requests, Begin(t) \/ LockById(t) \/ FindVoucher(t)
      PROVE  u # t /\ pc'[u] = pc[u] /\ job'[u] = job[u] /\ seen'[u] = seen[u] /\ UNCHANGED <<ledger, invoices>>
  BY <1>0, <1>1 DEF TypeOK, Begin, LockById, FindVoucher
<1>2. ASSUME NEW t \in Requests, LockSettingsForAccounting(t)
      PROVE  /\ pc'[u] = "locked" /\ job'[u].kind \in RowKinds => AllowedByRow(u)'
             /\ pc'[u] = "checked" => ReferenceIsNew(u)'
  <2>1. job' = job /\ seen' = seen /\ ledger' = ledger /\ invoices' = invoices
    BY <1>2 DEF LockSettingsForAccounting
  <2>2. CASE u = t
    <3>1. pc'[u] = "locked" /\ (job[u].kind \in RowKinds => AllowedByRow(u))
      BY <1>0, <1>2, <2>2 DEF TypeOK, LockSettingsForAccounting, KindsOfPlaces, Is, RowKinds
    <3> QED BY <2>1, <3>1, SameAnswer
  <2>3. CASE u # t
    <3>1. pc'[u] = pc[u]
      BY <1>0, <1>2, <2>3 DEF TypeOK, LockSettingsForAccounting
    <3> QED BY <1>0, <2>1, <3>1, SameAnswer DEF ChecksStillHold
  <2> QED BY <2>2, <2>3
<1>3. ASSUME NEW t \in Requests, CheckReference(t)
      PROVE  /\ pc'[u] = "locked" /\ job'[u].kind \in RowKinds => AllowedByRow(u)'
             /\ pc'[u] = "checked" => ReferenceIsNew(u)'
  <2>1. job' = job /\ seen' = seen /\ ledger' = ledger /\ invoices' = invoices
    BY <1>3 DEF CheckReference
  <2>2. IF u = t THEN pc'[u] = "checked" /\ ReferenceIsNew(u) ELSE pc'[u] = pc[u]
    BY <1>0, <1>3 DEF TypeOK, CheckReference
  <2> QED BY <1>0, <2>1, <2>2, SameAnswer DEF ChecksStillHold
<1>4. ASSUME NEW t \in Requests, Writes(t) PROVE FALSE
  <2>1. Finish(t) /\ settingsHolder = t
    BY <1>0, <1>4, WritesFinish DEF LocksAreHeld
  <2>2. u # t /\ pc[u] \in AtWork
    BY <1>0, <2>1, OthersStay
  <2> QED BY <1>0, <2>1, <2>2 DEF LocksAreHeld
<1>5. ASSUME NEW t \in Requests, Leaves(t)
      PROVE  u # t /\ pc'[u] = pc[u] /\ job'[u] = job[u] /\ seen'[u] = seen[u] /\ UNCHANGED <<ledger, invoices>>
  BY <1>0, <1>5, LeavesFinish, OthersStay
<1>6. CASE UNCHANGED vars
  BY <1>0, <1>6, SameAnswer DEF vars, ChecksStillHold
<1> QED BY <1>0, <1>1, <1>2, <1>3, <1>4, <1>5, <1>6, StepCases, SameAnswer DEF Moves, ChecksStillHold

\* What the rows promise, row by row and between two rows.
RowIsSound(i) ==
  /\ invoices[i] # Absent =>
       /\ invoices[i].status = "paid" <=> invoices[i].paid = Total
       /\ invoices[i].paid > 0 => invoices[i].status \in {"partial", "paid"}
       /\ invoices[i].status = "cancelled" => invoices[i].payments = {} /\ ledger[i].payments = {}
       /\ ledger[i].cancelled > 0 => invoices[i].status = "cancelled"
  /\ \A p, q \in invoices[i].payments : p.ref = q.ref /\ p.amount = q.amount => p = q
  /\ invoices[i].paid = 0 => invoices[i].payments = {} /\ ledger[i].payments = {}
  /\ ledger[i].cancelled > 0 => invoices[i].status = "cancelled"
  /\ invoices[i].status = "cancelled" => invoices[i].paid = 0

LEMMA RowByRow ==
  NothingHidden /\ RowsAreSound <=> ReferenceUsedOnce /\ \A i \in Slots : RowIsSound(i)
BY DEF NothingHidden, RowsAreSound, RowIsSound, StatusFitsPayments, PaymentSentOnceIsBookedOnce,
       CancelledIsFinal

NewRow(t) == [status |-> "unpaid", reference |-> job[t].reference, paid |-> 0, payments |-> {}]

\* The row a request writes is sound again; every other row is as it was.
LEMMA WrittenRow ==
  ASSUME IInv, NEW t \in Requests, Writes(t), NEW i \in Slots
  PROVE  RowIsSound(i)'
<1>0. /\ TypeOK /\ RowIsSound(i) /\ invoices[i] \in Invoices \cup {Absent} /\ ledger[i] \in Ledgers
      /\ Total \in Nat \ {0}
  BY RowByRow, TotalAssumption DEF IInv, TypeOK
<1>1. pc[t] \in AtWork /\ job[t] \in Jobs
  BY WritesFinish DEF IInv, KindsOfPlaces, AtWork, Waiting
<1>2. CASE invoices'[i] = invoices[i] /\ ledger'[i].payments = ledger[i].payments
             /\ ledger'[i].cancelled = ledger[i].cancelled
  BY <1>0, <1>2 DEF RowIsSound
<1>3. CASE StoreInvoice(t) /\ invoices[i] = Absent
             /\ invoices'[i] = NewRow(t)
  <2>1. ledger'[i].payments = ledger[i].payments /\ ledger'[i].cancelled = ledger[i].cancelled
    BY <1>0, <1>3 DEF StoreInvoice, TypeOK, Ledgers, Absent, NewRow
  <2>2. ledger[i].payments = {} /\ ~(ledger[i].cancelled > 0)
    BY <1>0, <1>3 DEF RowIsSound, Absent
  <2> QED BY <1>0, <1>3, <2>1, <2>2 DEF RowIsSound, NewRow
<1>4. ASSUME job[t].kind \in RowKinds, pc[t] = "locked", i = job[t].slot
      PROVE  /\ seen[t] = invoices[i] /\ invoices[i] \in Invoices /\ AllowedByRow(t)
             /\ RowIsSound(i) /\ ledger[i] \in Ledgers
  BY <1>0, <1>4 DEF IInv, CopiesAreTrue, ChecksStillHold, OnRow
<1>5. CASE ChangeStatus(t) /\ i = job[t].slot
  <2>1. job[t].kind = "status" /\ pc[t] = "locked" /\ job[t].kind \in RowKinds
    BY <1>5 DEF ChangeStatus, Is, RowKinds
  <2>2. Target(t) \notin {"paid", "cancelled"}
    BY <1>1, <2>1, JobFields, KindsAssumption DEF Target
  <2>3. invoices[i].paid = 0 /\ invoices[i].status # "cancelled"
    BY <1>4, <1>5, <2>1 DEF AllowedByRow, StatusMayChange, HasPayments, NotCancelled, Status, Is,
                            Invoices
  <2>4. invoices'[i] = [invoices[i] EXCEPT !.status = Target(t)]
    BY <1>0, <1>4, <1>5, <2>1 DEF ChangeStatus, TypeOK
  <2>5. ledger'[i].payments = ledger[i].payments /\ ledger'[i].cancelled = ledger[i].cancelled
    BY <1>0, <1>5 DEF ChangeStatus, TypeOK, Ledgers
  <2> QED BY <1>0, <1>4, <1>5, <2>1, <2>2, <2>3, <2>4, <2>5 DEF RowIsSound, Invoices
<1>6. CASE RegisterPayment(t) /\ i = job[t].slot
  <2> DEFINE p == [by |-> t, ref |-> job[t].ref, amount |-> job[t].amount]
             paid == invoices[i].paid + job[t].amount
  <2>1. job[t].kind = "pay" /\ pc[t] = "locked" /\ job[t].kind \in RowKinds
    BY <1>6 DEF RegisterPayment, Is, RowKinds
  <2>2. /\ job[t].amount \in Amounts /\ invoices[i].status # "cancelled"
        /\ job[t].amount <= Total - invoices[i].paid
        /\ \A q \in invoices[i].payments : q.ref # p.ref \/ q.amount # p.amount
    BY <1>1, <1>4, <1>6, <2>1, JobFields
    DEF RegisterPayment, PaymentAllowed, UpToRemaining, PaymentIsNew, AllowedByRow, NotCancelled, Status
  <2>3. paid \in 1 .. Total
    BY <1>0, <1>4, <1>6, <2>1, <2>2 DEF Invoices, Amounts
  <2>4. /\ invoices'[i].paid = paid
        /\ invoices'[i].status = IF paid = Total THEN "paid" ELSE "partial"
        /\ invoices'[i].payments = invoices[i].payments \cup {p}
    BY <1>0, <1>4, <1>6, <2>1 DEF RegisterPayment, TypeOK, Invoices
  <2>5. ledger'[i].cancelled = ledger[i].cancelled /\ ~(ledger[i].cancelled > 0)
    BY <1>0, <1>4, <1>6, <2>1, <2>2 DEF RegisterPayment, TypeOK, Ledgers, RowIsSound
  <2>6. \A q, w \in invoices'[i].payments : q.ref = w.ref /\ q.amount = w.amount => q = w
    BY <1>0, <2>2, <2>4 DEF RowIsSound
  <2> HIDE DEF p, paid
  <2> QED BY <1>0, <2>3, <2>4, <2>5, <2>6 DEF RowIsSound
<1>7. CASE CancelInvoice(t) /\ i = job[t].slot
  <2>1. job[t].kind = "cancel" /\ pc[t] = "locked" /\ job[t].kind \in RowKinds
    BY <1>7 DEF CancelInvoice, Is, RowKinds
  <2>2. invoices[i].paid = 0
    BY <1>4, <1>7, <2>1 DEF AllowedByRow, HasPayments, Is, Invoices
  <2>3. /\ invoices'[i] = [invoices[i] EXCEPT !.status = "cancelled"]
        /\ ledger'[i].payments = ledger[i].payments
    BY <1>0, <1>4, <1>7, <2>1 DEF CancelInvoice, TypeOK, Ledgers
  <2> QED BY <1>0, <1>4, <1>7, <2>1, <2>2, <2>3 DEF RowIsSound, Invoices
<1>8. \/ invoices'[i] = invoices[i] /\ ledger'[i].payments = ledger[i].payments
             /\ ledger'[i].cancelled = ledger[i].cancelled
      \/ StoreInvoice(t) /\ invoices[i] = Absent
             /\ invoices'[i] = NewRow(t)
      \/ i = job[t].slot /\ (ChangeStatus(t) \/ RegisterPayment(t) \/ CancelInvoice(t))
  <2>1. CASE StoreInvoice(t)
    BY <1>0, <2>1 DEF StoreInvoice, TypeOK, Ledgers, NewRow
  <2>2. CASE CorrectVoucher(t)
    BY <1>0, <2>2 DEF CorrectVoucher, TypeOK, Ledgers
  <2>3. CASE ChangeStatus(t) \/ RegisterPayment(t) \/ CancelInvoice(t)
    BY <1>0, <2>3 DEF ChangeStatus, RegisterPayment, CancelInvoice, TypeOK
  <2> QED BY <2>1, <2>2, <2>3 DEF Writes
<1> QED BY <1>2, <1>3, <1>5, <1>6, <1>7, <1>8

\* A new row has a new reference; the others keep theirs.
LEMMA WrittenReference ==
  ASSUME IInv, NEW t \in Requests, Writes(t)
  PROVE  ReferenceUsedOnce'
<1>0. TypeOK /\ ReferenceUsedOnce /\ Absent \notin Invoices
  BY AbsentIsNoInvoice DEF IInv, RowsAreSound
<1>1. CASE StoreInvoice(t)
  <2>1. ReferenceIsNew(t)
    BY <1>1 DEF IInv, ChecksStillHold, StoreInvoice
  <2>2. PICK n \in Slots : invoices[n] = Absent /\ invoices' = [invoices EXCEPT ![n] = NewRow(t)]
    BY <1>1 DEF StoreInvoice, NewRow
  <2>3. /\ invoices'[n].reference = job[t].reference
        /\ \A i \in Slots : i # n => invoices'[i] = invoices[i]
    BY <1>0, <2>2 DEF TypeOK, NewRow
  <2> QED BY <1>0, <2>1, <2>2, <2>3 DEF ReferenceUsedOnce, ReferenceIsNew
<1>2. CASE CorrectVoucher(t)
  BY <1>0, <1>2 DEF CorrectVoucher, ReferenceUsedOnce
<1>3. CASE ChangeStatus(t) \/ RegisterPayment(t) \/ CancelInvoice(t)
  <2>1. job[t].kind \in RowKinds /\ OnRow(t)
    BY <1>3 DEF ChangeStatus, RegisterPayment, CancelInvoice, Is, RowKinds, OnRow
  <2>2. /\ job[t].slot \in Slots /\ seen[t] = invoices[job[t].slot]
        /\ seen[t] # Absent /\ seen[t] \in Invoices
    BY <1>0, <2>1, JobFields DEF IInv, KindsOfPlaces, CopiesAreTrue, OnRow, Waiting, RowKinds, TypeOK
  <2>3. \A i \in Slots :
          invoices'[i] # Absent => invoices[i] # Absent /\ invoices'[i].reference = invoices[i].reference
    <3>1. invoices'[job[t].slot].reference = invoices[job[t].slot].reference
      <4>1. CASE ChangeStatus(t)
        BY <1>0, <2>2, <4>1 DEF ChangeStatus, TypeOK, Invoices
      <4>2. CASE RegisterPayment(t)
        BY <1>0, <2>2, <4>2 DEF RegisterPayment, TypeOK, Invoices
      <4>3. CASE CancelInvoice(t)
        BY <1>0, <2>2, <4>3 DEF CancelInvoice, TypeOK, Invoices
      <4> QED BY <1>3, <4>1, <4>2, <4>3
    <3>2. \A i \in Slots : i # job[t].slot => invoices'[i] = invoices[i]
      BY <1>0, <1>3, <2>2 DEF ChangeStatus, RegisterPayment, CancelInvoice, TypeOK
    <3> QED BY <2>2, <3>1, <3>2
  <2> QED BY <1>0, <2>3 DEF ReferenceUsedOnce
<1> QED BY <1>1, <1>2, <1>3 DEF Writes

LEMMA StepBooks == IInv /\ [Next]_vars => NothingHidden' /\ RowsAreSound'
<1> SUFFICES ASSUME IInv, [Next]_vars PROVE NothingHidden' /\ RowsAreSound'
  OBVIOUS
<1>1. CASE \E t \in Requests : Writes(t)
  <2>1. ReferenceUsedOnce' /\ \A i \in Slots : RowIsSound(i)'
    BY <1>1, WrittenRow, WrittenReference
  <2>2. (NothingHidden /\ RowsAreSound <=> ReferenceUsedOnce /\ \A i \in Slots : RowIsSound(i))'
    BY RowByRow, PTL
  <2> QED BY <2>1, <2>2
<1>2. CASE invoices' = invoices /\ ledger' = ledger
  BY <1>2 DEF IInv, NothingHidden, RowsAreSound, StatusFitsPayments, PaymentSentOnceIsBookedOnce,
              ReferenceUsedOnce, CancelledIsFinal
<1>3. ASSUME NEW t \in Requests, Begin(t) \/ Moves(t) PROVE invoices' = invoices /\ ledger' = ledger
  BY <1>3 DEF Begin, Moves, LockById, FindVoucher, LockSettingsForAccounting, CheckReference, books
<1>4. CASE UNCHANGED vars
  BY <1>2, <1>4 DEF vars, books
<1> QED BY <1>1, <1>2, <1>3, <1>4, StepCases, LeavesFinish

----------------------------------------------------------------------------
(* The theorems.                                                           *)

LEMMA InitIInv == Init => IInv
<1> SUFFICES ASSUME Init PROVE IInv
  OBVIOUS
<1>1. TypeOK
  BY DEF Init, TypeOK, NoVouchers, Ledgers
<1>2. KindsOfPlaces /\ LocksAreHeld /\ RowsExist /\ CopiesAreTrue /\ ChecksStillHold
  BY DEF Init, KindsOfPlaces, LocksAreHeld, RowsExist, CopiesAreTrue, ChecksStillHold, OnRow, AtWork, Waiting
<1>3. NothingHidden /\ RowsAreSound
  BY TotalAssumption
  DEF Init, NothingHidden, RowsAreSound, StatusFitsPayments, PaymentSentOnceIsBookedOnce,
      ReferenceUsedOnce, CancelledIsFinal, Absent, NoVouchers
<1> QED BY <1>1, <1>2, <1>3 DEF IInv

LEMMA Invariance == Spec => []IInv
<1>1. IInv /\ [Next]_vars => IInv'
  BY StepType, StepPlaces, StepLocks, StepCopies, StepChecks, StepBooks DEF IInv
<1> QED BY InitIInv, <1>1, PTL DEF Spec

\* Every variable keeps its type, with any number of requests at once.
THEOREM SupplierTypeCorrect == Spec => []TypeOK
<1>1. IInv => TypeOK
  BY DEF IInv
<1> QED BY Invariance, <1>1, PTL

\* Status, payments and reference of every supplier invoice agree: what was
\* checked on the locked row is still so when the row is written.
THEOREM SupplierRowsAreSound == Spec => []RowsAreSound
<1>1. IInv => RowsAreSound
  BY DEF IInv
<1> QED BY Invariance, <1>1, PTL

\* A request that has passed its guards still passes them at its commit, and
\* holds the row and the settings row alone.
THEOREM SupplierChecksStillHold == Spec => [](LocksAreHeld /\ CopiesAreTrue /\ ChecksStillHold)
<1>1. IInv => LocksAreHeld /\ CopiesAreTrue /\ ChecksStillHold
  BY DEF IInv
<1> QED BY Invariance, <1>1, PTL

----------------------------------------------------------------------------
(* What the amounts of a set of payments add up to.  MapThenSumSet picks   *)
(* one member after the other; a set on which a statement about the sum    *)
(* fails has a smallest subset on which it fails, and that one has a       *)
(* member to take away.                                                    *)

Picked(s) == CHOOSE x \in s : TRUE
IsSumUpTo(f, S) ==
  f = [s \in SUBSET S |-> IF s = {} THEN 0 ELSE Picked(s).amount + f[s \ {Picked(s)}]]

LEMMA SumIsChosen == \A S : AmountsOf(S) = (CHOOSE f : IsSumUpTo(f, S))[S]
BY DEF AmountsOf, MapThenSumSet, MapThenFoldSet, IsSumUpTo, Picked

LEMMA PickedIsIn == \A s : s # {} => Picked(s) \in s
BY DEF Picked

\* Of the subsets of a finite set that are bad, one has no bad subset.
LEMMA SmallestSet ==
  ASSUME NEW S, IsFiniteSet(S), NEW Bad, Bad \subseteq SUBSET S, Bad # {}
  PROVE  \E s \in Bad : IsFiniteSet(s) /\ \A t \in SUBSET s : t # s => t \notin Bad
<1>1. \A s \in SUBSET S : IsFiniteSet(s)
  BY FS_Subset
<1>2. Bad \subseteq FiniteSubsetsOf(S)
  BY <1>1 DEF FiniteSubsetsOf
<1>3. PICK s \in Bad : \A t \in Bad : <<t, s>> \notin StrictSubsetOrdering(S)
  BY <1>2, FS_StrictSubsetOrderingWellFounded, WFMin
<1>4. ASSUME NEW t \in SUBSET s, t # s, t \in Bad PROVE FALSE
  BY <1>3, <1>4 DEF StrictSubsetOrdering
<1> QED BY <1>1, <1>3, <1>4

\* The recursion says the same of a set, whatever set it was started from,
LEMMA SumsAgree ==
  ASSUME NEW S, IsFiniteSet(S), NEW T \in SUBSET S, NEW f, IsSumUpTo(f, S), NEW g, IsSumUpTo(g, T)
  PROVE  f[T] = g[T]
<1> DEFINE Bad == {s \in SUBSET T : f[s] # g[s]}
<1>1. SUFFICES ASSUME Bad # {} PROVE FALSE
  BY <1>1
<1>2. IsFiniteSet(T)
  BY FS_Subset
<1>3. PICK s \in Bad : \A t \in SUBSET s : t # s => t \notin Bad
  <2> HIDE DEF Bad
  <2>1. Bad \subseteq SUBSET T
    BY DEF Bad
  <2> QED BY <1>1, <1>2, <2>1, SmallestSet
<1>4. s # {} => f[s \ {Picked(s)}] = g[s \ {Picked(s)}]
  BY <1>3, PickedIsIn
<1>5. f[s] = IF s = {} THEN 0 ELSE Picked(s).amount + f[s \ {Picked(s)}]
  BY DEF IsSumUpTo
<1>6. g[s] = IF s = {} THEN 0 ELSE Picked(s).amount + g[s \ {Picked(s)}]
  BY DEF IsSumUpTo
<1> QED BY <1>3, <1>4, <1>5, <1>6

\* and a function that satisfies it exists.
LEMMA SumExists ==
  ASSUME NEW S, IsFiniteSet(S)
  PROVE  \E f : IsSumUpTo(f, S)
<1> DEFINE Bad == {s \in SUBSET S : ~ \E f : IsSumUpTo(f, s)}
<1>1. SUFFICES ASSUME Bad # {} PROVE FALSE
  BY <1>1
<1>2. PICK s \in Bad : IsFiniteSet(s) /\ \A t \in SUBSET s : t # s => t \notin Bad
  <2> HIDE DEF Bad
  <2>1. Bad \subseteq SUBSET S
    BY DEF Bad
  <2> QED BY <1>1, <2>1, SmallestSet
<1> DEFINE G(t) == CHOOSE f : IsSumUpTo(f, t)
           h == [t \in SUBSET s |-> IF t = {} THEN 0 ELSE Picked(t).amount + G(t \ {Picked(t)})[t \ {Picked(t)}]]
<1>3. ASSUME NEW t \in SUBSET s, t # s PROVE IsSumUpTo(G(t), t) /\ IsFiniteSet(t)
  <2>1. \E f : IsSumUpTo(f, t)
    BY <1>2, <1>3
  <2> QED BY <1>2, <2>1, FS_Subset
<1>4. ASSUME NEW u \in SUBSET s, u # s PROVE h[u] = G(u)[u]
  <2> DEFINE v == u \ {Picked(u)}
  <2>1. G(u)[u] = IF u = {} THEN 0 ELSE Picked(u).amount + G(u)[v]
    <3>1. IsSumUpTo(G(u), u)
      BY <1>3, <1>4
    <3> HIDE DEF G
    <3> QED BY <3>1 DEF IsSumUpTo
  <2>2. u # {} => G(u)[v] = G(v)[v]
    <3>1. SUFFICES ASSUME u # {} PROVE G(u)[v] = G(v)[v]
      OBVIOUS
    <3>2. v \in SUBSET u /\ v \in SUBSET s /\ v # s
      BY <1>4
    <3>3. IsSumUpTo(G(u), u) /\ IsFiniteSet(u) /\ IsSumUpTo(G(v), v)
      BY <1>3, <1>4, <3>2
    <3> HIDE DEF G, v
    <3> QED BY <3>2, <3>3, SumsAgree
  <2> HIDE DEF G
  <2> QED BY <2>1, <2>2
<1>5. ASSUME NEW t \in SUBSET s
      PROVE  h[t] = IF t = {} THEN 0 ELSE Picked(t).amount + h[t \ {Picked(t)}]
  <2>1. t # {} => h[t \ {Picked(t)}] = G(t \ {Picked(t)})[t \ {Picked(t)}]
    BY <1>4, PickedIsIn
  <2> HIDE DEF G
  <2> QED BY <2>1
<1>6. IsSumUpTo(h, s)
  <2>1. h = [t \in SUBSET s |-> h[t]]
    OBVIOUS
  <2> HIDE DEF h
  <2> QED BY <1>5, <2>1, Zenon DEF IsSumUpTo
<1> QED BY <1>2, <1>6

\* One member is picked, and the others are summed.
LEMMA SumUnfolds ==
  ASSUME NEW S, IsFiniteSet(S)
  PROVE  AmountsOf(S) = IF S = {} THEN 0 ELSE Picked(S).amount + AmountsOf(S \ {Picked(S)})
<1> DEFINE F(T) == CHOOSE f : IsSumUpTo(f, T)
           T == S \ {Picked(S)}
<1>1. IsFiniteSet(T)
  BY FS_RemoveElement
<1>2. IsSumUpTo(F(S), S) /\ IsSumUpTo(F(T), T)
  BY <1>1, SumExists
<1>3. F(S)[S] = IF S = {} THEN 0 ELSE Picked(S).amount + F(S)[T]
  BY <1>2 DEF IsSumUpTo
<1>4. F(S)[T] = F(T)[T]
  <2> HIDE DEF F
  <2> QED BY <1>2, SumsAgree
<1>5. AmountsOf(S) = F(S)[S] /\ AmountsOf(T) = F(T)[T]
  BY SumIsChosen
<1> QED BY <1>3, <1>4, <1>5

LEMMA SumIsNat ==
  ASSUME NEW S, IsFiniteSet(S), \A p \in S : p.amount \in Nat
  PROVE  AmountsOf(S) \in Nat
<1> DEFINE Bad == {s \in SUBSET S : AmountsOf(s) \notin Nat}
<1>1. SUFFICES ASSUME Bad # {} PROVE FALSE
  BY <1>1
<1>2. PICK s \in Bad : IsFiniteSet(s) /\ \A t \in SUBSET s : t # s => t \notin Bad
  <2> HIDE DEF Bad
  <2>1. Bad \subseteq SUBSET S
    BY DEF Bad
  <2> QED BY <1>1, <2>1, SmallestSet
<1>3. s # {} => Picked(s).amount \in Nat /\ AmountsOf(s \ {Picked(s)}) \in Nat
  BY <1>2, PickedIsIn
<1>4. AmountsOf(s) = IF s = {} THEN 0 ELSE Picked(s).amount + AmountsOf(s \ {Picked(s)})
  BY <1>2, SumUnfolds
<1> QED BY <1>3, <1>4

\* Whichever member is picked, the sum is the same.
LEMMA AnyMemberFirst ==
  ASSUME NEW S, IsFiniteSet(S), \A p \in S : p.amount \in Nat, NEW x \in S
  PROVE  AmountsOf(S) = x.amount + AmountsOf(S \ {x})
<1> DEFINE Bad == {s \in SUBSET S : \E y \in s : AmountsOf(s) # y.amount + AmountsOf(s \ {y})}
<1>1. SUFFICES ASSUME Bad # {} PROVE FALSE
  BY <1>1
<1>2. PICK s \in Bad : IsFiniteSet(s) /\ \A t \in SUBSET s : t # s => t \notin Bad
  <2> HIDE DEF Bad
  <2>1. Bad \subseteq SUBSET S
    BY DEF Bad
  <2> QED BY <1>1, <2>1, SmallestSet
<1>3. PICK y \in s : AmountsOf(s) # y.amount + AmountsOf(s \ {y})
  BY <1>2
<1> DEFINE z == Picked(s)
           rest == (s \ {y}) \ {z}
<1>4. z \in s /\ AmountsOf(s) = z.amount + AmountsOf(s \ {z})
  BY <1>2, PickedIsIn, SumUnfolds
<1>5. y # z
  BY <1>3, <1>4
<1>6. AmountsOf(s \ {y}) = z.amount + AmountsOf(rest)
  BY <1>2, <1>4, <1>5
<1>7. AmountsOf(s \ {z}) = y.amount + AmountsOf((s \ {z}) \ {y})
  BY <1>2, <1>4, <1>5
<1>8. (s \ {z}) \ {y} = rest
  OBVIOUS
<1>9. y.amount \in Nat /\ z.amount \in Nat /\ AmountsOf(rest) \in Nat
  <2>1. IsFiniteSet(rest) /\ \A p \in rest : p.amount \in Nat
    BY <1>2, FS_Subset
  <2> QED BY <1>4, <2>1, SumIsNat
<1> HIDE DEF rest, z
<1>10. AmountsOf(s) = z.amount + (y.amount + AmountsOf(rest))
  BY <1>4, <1>7, <1>8
<1>11. AmountsOf(s) # y.amount + (z.amount + AmountsOf(rest))
  BY <1>3, <1>6
<1> QED BY <1>9, <1>10, <1>11

LEMMA SumOfNothing == AmountsOf({}) = 0
BY SumUnfolds, FS_EmptySet

LEMMA SumOfOneMore ==
  ASSUME NEW S, IsFiniteSet(S), \A p \in S : p.amount \in Nat, NEW x, x \notin S, x.amount \in Nat
  PROVE  AmountsOf(S \cup {x}) = AmountsOf(S) + x.amount
<1>1. IsFiniteSet(S \cup {x}) /\ (S \cup {x}) \ {x} = S
  BY FS_AddElement
<1> QED BY <1>1, AnyMemberFirst, SumIsNat

----------------------------------------------------------------------------
(* The payments of a row and the vouchers of the journal, as sums.         *)

\* No reference of a payment is part of the text of another payment, and an
\* amount without VAT is the amount.
TextsAreApart == \A p, q \in Refs : <<p, q>> \in Within => p = q
PaidWithoutVat == \A n \in Amounts : NetOf[n] = n

\* Every payment voucher is that of one payment of the row.
VouchersAreExact(i) ==
  /\ AmountsOf(ledger[i].payments) = invoices[i].paid
  /\ \A v \in ledger[i].payments :
       /\ v.lines = {v.amount}
       /\ \E p \in invoices[i].payments : p.ref = v.ref /\ p.amount = v.amount

RowAddsUp(i) ==
  /\ IsFiniteSet(invoices[i].payments) /\ AmountsOf(invoices[i].payments) = invoices[i].paid
  /\ IsFiniteSet(ledger[i].payments) /\ AmountsOf(ledger[i].payments) <= invoices[i].paid
  /\ invoices[i].payments # {} => ledger[i].payments # {}
  /\ method = "INVOICE" /\ ledger[i].payments # {} => ledger[i].booked = Total
  /\ invoices[i].status = "cancelled" => ledger[i].cancelled = ledger[i].booked
  /\ TextsAreApart /\ (PaidWithoutVat \/ method = "INVOICE") => VouchersAreExact(i)

LEMMA RowTypes ==
  ASSUME TypeOK, NEW i \in Slots
  PROVE  /\ ledger[i] \in Ledgers /\ invoices[i].paid \in 0 .. Total
         /\ \A p \in invoices[i].payments : p.amount \in Nat
         /\ \A v \in ledger[i].payments : v.amount \in Nat
BY TotalAssumption DEF TypeOK, Invoices, Absent, Payments, Ledgers, PaymentVouchers, Amounts

\* What a payment writes, and that it is new on the row.
LEMMA PaymentIsWritten ==
  ASSUME IInv, NEW t \in Requests, RegisterPayment(t), NEW i \in Slots, i = job[t].slot
  PROVE  \E p \in Payments :
           /\ p.ref = job[t].ref /\ p.amount = job[t].amount
           /\ \A q \in invoices[i].payments : q.ref # p.ref \/ q.amount # p.amount
           /\ invoices'[i].payments = invoices[i].payments \cup {p}
           /\ invoices'[i].paid = invoices[i].paid + p.amount
           /\ invoices'[i].status # "cancelled"
           /\ ledger'[i].booked = Booking(i) /\ ledger'[i].cancelled = ledger[i].cancelled
           /\ ledger'[i].payments = IF PaymentEntryExists(t) THEN ledger[i].payments
                                    ELSE ledger[i].payments \cup {PaymentVoucher(t)}
<1> DEFINE p == [by |-> t, ref |-> job[t].ref, amount |-> job[t].amount]
<1>1. TypeOK /\ OnRow(t) /\ job[t].kind = "pay" /\ job[t] \in Jobs
  BY DEF IInv, KindsOfPlaces, RegisterPayment, OnRow, Is, RowKinds, Waiting
<1>2. /\ seen[t] = invoices[i] /\ invoices[i] \in Invoices /\ ledger[i] \in Ledgers
      /\ p \in Payments
  BY <1>1, JobFields DEF IInv, CopiesAreTrue, TypeOK, Payments
<1>3. \A q \in invoices[i].payments : q.ref # p.ref \/ q.amount # p.amount
  BY <1>2 DEF RegisterPayment, PaymentAllowed, PaymentIsNew
<1>4. /\ invoices'[i].payments = invoices[i].payments \cup {p}
      /\ invoices'[i].paid = invoices[i].paid + job[t].amount
      /\ invoices'[i].status # "cancelled"
  BY <1>1, <1>2 DEF RegisterPayment, TypeOK, Invoices
<1>5. /\ ledger'[i].booked = Booking(i) /\ ledger'[i].cancelled = ledger[i].cancelled
      /\ ledger'[i].payments = IF PaymentEntryExists(t) THEN ledger[i].payments
                               ELSE ledger[i].payments \cup {PaymentVoucher(t)}
  BY <1>1, <1>2 DEF RegisterPayment, TypeOK, Ledgers
<1>6. p.ref = job[t].ref /\ p.amount = job[t].amount
  OBVIOUS
<1> HIDE DEF p
<1> QED BY <1>2, <1>3, <1>4, <1>5, <1>6

LEMMA PaymentAddsUp ==
  ASSUME IInv, NEW t \in Requests, RegisterPayment(t), NEW i \in Slots, i = job[t].slot, RowAddsUp(i)
  PROVE  RowAddsUp(i)'
<1> DEFINE v == PaymentVoucher(t)
           R == TextsAreApart /\ (PaidWithoutVat \/ method = "INVOICE")
<1>0. PICK p \in Payments :
         /\ p.ref = job[t].ref /\ p.amount = job[t].amount
         /\ \A q \in invoices[i].payments : q.ref # p.ref \/ q.amount # p.amount
         /\ invoices'[i].payments = invoices[i].payments \cup {p}
         /\ invoices'[i].paid = invoices[i].paid + p.amount
         /\ invoices'[i].status # "cancelled"
         /\ ledger'[i].booked = Booking(i) /\ ledger'[i].cancelled = ledger[i].cancelled
         /\ ledger'[i].payments = IF PaymentEntryExists(t) THEN ledger[i].payments
                                  ELSE ledger[i].payments \cup {v}
  BY PaymentIsWritten
<1>1. /\ TypeOK /\ RowAddsUp(i) /\ method' = method /\ p.amount \in Amounts /\ p.amount \in Nat
      /\ job[t].ref \in Refs
  BY <1>0, TotalAssumption DEF IInv, RegisterPayment, Payments, Amounts
<1>2. /\ \A q \in invoices[i].payments : q.amount \in Nat
      /\ \A w \in ledger[i].payments : w.amount \in Nat
      /\ invoices[i].paid \in Nat /\ ledger[i].booked \in {0, Total}
  BY <1>1, RowTypes, TotalAssumption DEF Ledgers
<1>3. IsFiniteSet(invoices'[i].payments) /\ AmountsOf(invoices'[i].payments) = invoices'[i].paid
  <2>1. p \notin invoices[i].payments /\ IsFiniteSet(invoices[i].payments)
    BY <1>0, <1>1 DEF RowAddsUp
  <2>2. AmountsOf(invoices[i].payments \cup {p}) = AmountsOf(invoices[i].payments) + p.amount
    BY <1>1, <1>2, <2>1, SumOfOneMore
  <2>3. IsFiniteSet(invoices[i].payments \cup {p})
    BY <2>1, FS_AddElement
  <2> QED BY <1>0, <1>1, <2>2, <2>3 DEF RowAddsUp
<1>4. v.amount = p.amount /\ v.ref = p.ref /\ p.amount \in v.lines
  BY <1>0 DEF PaymentVoucher
<1>5. v \notin ledger[i].payments =>
        AmountsOf(ledger[i].payments \cup {v}) = AmountsOf(ledger[i].payments) + p.amount
  <2>1. IsFiniteSet(ledger[i].payments)
    BY <1>1 DEF RowAddsUp
  <2> HIDE DEF v
  <2> QED BY <1>1, <1>2, <1>4, <2>1, SumOfOneMore
<1>6. IsFiniteSet(ledger'[i].payments) /\ AmountsOf(ledger'[i].payments) <= invoices'[i].paid
  <2>1. AmountsOf(ledger[i].payments) \in Nat
    BY <1>1, <1>2, SumIsNat DEF RowAddsUp
  <2>4. AmountsOf(ledger[i].payments) <= invoices[i].paid + p.amount
    BY <1>1, <1>2, <2>1 DEF RowAddsUp
  <2>2. v \in ledger[i].payments => ledger[i].payments \cup {v} = ledger[i].payments
    OBVIOUS
  <2>3. IsFiniteSet(ledger[i].payments \cup {v})
    BY <1>1, FS_AddElement DEF RowAddsUp
  <2>5. AmountsOf(ledger[i].payments \cup {v}) <= invoices[i].paid + p.amount
    <3> HIDE DEF v
    <3>1. CASE v \in ledger[i].payments
      BY <2>2, <2>4, <3>1
    <3>2. CASE v \notin ledger[i].payments
      BY <1>1, <1>2, <1>5, <2>1, <3>2 DEF RowAddsUp
    <3> QED BY <3>1, <3>2
  <2> HIDE DEF v
  <2> QED BY <1>0, <1>1, <2>3, <2>4, <2>5 DEF RowAddsUp
<1>7. ledger'[i].payments # {}
  BY <1>0 DEF PaymentEntryExists, Vouchers
<1>8. method' = "INVOICE" => ledger'[i].booked = Total
  BY <1>0, <1>1, <1>2 DEF Booking
<1>9. ASSUME R PROVE VouchersAreExact(i)'
  <2>1. VouchersAreExact(i)
    BY <1>1, <1>9 DEF RowAddsUp
  <2>2. ~PaymentEntryExists(t)
    <3>1. SUFFICES ASSUME NEW w \in ledger[i].payments, job[t].amount \in w.lines,
                          w.ref = job[t].ref \/ <<w.ref, job[t].ref>> \in Within
                   PROVE  FALSE
      BY <1>0 DEF PaymentEntryExists, Vouchers
    <3>2. w.ref \in Refs
      BY <1>1 DEF TypeOK, Ledgers, PaymentVouchers
    <3>3. w.ref = p.ref /\ w.amount = p.amount
      BY <1>0, <1>1, <1>9, <2>1, <3>1, <3>2 DEF TextsAreApart, VouchersAreExact
    <3> QED BY <1>0, <2>1, <3>3 DEF VouchersAreExact
  <2>3. v \notin ledger[i].payments
    BY <1>0, <2>2, <1>4 DEF PaymentEntryExists, Vouchers
  <2>4. v.lines = {v.amount}
    BY <1>0, <1>1, <1>9 DEF PaymentVoucher, PaidWithoutVat
  <2>5. AmountsOf(ledger'[i].payments) = invoices'[i].paid
    BY <1>0, <1>5, <2>1, <2>2, <2>3 DEF VouchersAreExact
  <2>6. \A w \in ledger'[i].payments :
          w.lines = {w.amount} /\ \E q \in invoices'[i].payments : q.ref = w.ref /\ q.amount = w.amount
    <3> HIDE DEF v
    <3> QED BY <1>0, <1>4, <2>1, <2>2, <2>4 DEF VouchersAreExact
  <2> QED BY <2>5, <2>6 DEF VouchersAreExact
<1> QED BY <1>0, <1>1, <1>3, <1>6, <1>7, <1>8, <1>9
    DEF RowAddsUp, TextsAreApart, PaidWithoutVat

\* A row whose payments are left alone, in the journal too.
LEMMA NothingIsPaid ==
  ASSUME NEW i \in Slots, RowAddsUp(i), method' = method,
         invoices'[i].payments = invoices[i].payments, invoices'[i].paid = invoices[i].paid,
         ledger'[i].payments = ledger[i].payments,
         ledger'[i].booked = ledger[i].booked \/ ledger'[i].booked = Total,
         invoices'[i].status = "cancelled" => ledger'[i].cancelled = ledger'[i].booked
  PROVE  RowAddsUp(i)'
BY DEF RowAddsUp, VouchersAreExact, TextsAreApart, PaidWithoutVat

LEMMA WrittenRowAddsUp ==
  ASSUME IInv, NEW t \in Requests, Writes(t), NEW i \in Slots, RowAddsUp(i)
  PROVE  RowAddsUp(i)'
<1>0. /\ TypeOK /\ invoices[i] \in Invoices \cup {Absent} /\ ledger[i] \in Ledgers /\ method' = method
      /\ invoices[i].payments = Absent.payments <=> invoices[i].payments = {}
  BY WritesFinish DEF IInv, TypeOK, Absent
<1>1. \A j \in Slots : Booking(j) = ledger[j].booked \/ Booking(j) = Total
  BY DEF Booking
<1>2. pc[t] \in AtWork /\ job[t] \in Jobs
  BY WritesFinish DEF IInv, KindsOfPlaces, AtWork, Waiting
<1>3. CASE StoreInvoice(t)
  <2>1. PICK n \in Slots :
           /\ invoices[n] = Absent /\ invoices' = [invoices EXCEPT ![n] = NewRow(t)]
           /\ ledger' = [ledger EXCEPT ![n].booked = Booking(n)]
    BY <1>3 DEF StoreInvoice, NewRow
  <2>2. CASE n = i
    <3>1. /\ invoices'[i].payments = invoices[i].payments /\ invoices'[i].paid = invoices[i].paid
          /\ invoices'[i].status # "cancelled"
          /\ ledger'[i].payments = ledger[i].payments /\ ledger'[i].booked = Booking(i)
      BY <1>0, <2>1, <2>2 DEF TypeOK, NewRow, Absent, Ledgers
    <3> QED BY <1>0, <1>1, <3>1, NothingIsPaid
  <2>3. CASE n # i
    <3>1. invoices'[i] = invoices[i] /\ ledger'[i] = ledger[i]
      BY <1>0, <2>1, <2>3 DEF TypeOK
    <3> QED BY <1>0, <3>1, NothingIsPaid DEF RowAddsUp
  <2> QED BY <2>2, <2>3
<1>4. CASE CorrectVoucher(t)
  <2>1. /\ invoices' = invoices /\ ledger'[i].payments = ledger[i].payments
        /\ ledger'[i].booked = ledger[i].booked /\ ledger'[i].cancelled = ledger[i].cancelled
    BY <1>0, <1>4 DEF CorrectVoucher, TypeOK, Ledgers
  <2> QED BY <1>0, <2>1, NothingIsPaid DEF RowAddsUp
<1>5. CASE i # job[t].slot /\ (ChangeStatus(t) \/ RegisterPayment(t) \/ CancelInvoice(t))
  <2>1. invoices'[i] = invoices[i] /\ ledger'[i] = ledger[i]
    BY <1>0, <1>5 DEF ChangeStatus, RegisterPayment, CancelInvoice, TypeOK
  <2> QED BY <1>0, <2>1, NothingIsPaid DEF RowAddsUp
<1>6. ASSUME i = job[t].slot, ChangeStatus(t) \/ CancelInvoice(t)
      PROVE  seen[t] = invoices[i] /\ invoices[i] \in Invoices /\ job[t].kind \in {"status", "cancel"}
  BY <1>0, <1>6 DEF IInv, CopiesAreTrue, OnRow, ChangeStatus, CancelInvoice, Is, RowKinds
<1>7. CASE i = job[t].slot /\ ChangeStatus(t)
  <2>1. Target(t) # "cancelled"
    BY <1>2, <1>7, JobFields, KindsAssumption DEF ChangeStatus, Is, Target
  <2>2. /\ invoices'[i].payments = invoices[i].payments /\ invoices'[i].paid = invoices[i].paid
        /\ invoices'[i].status # "cancelled"
    BY <1>0, <1>6, <1>7, <2>1 DEF ChangeStatus, TypeOK, Invoices
  <2>3. /\ ledger'[i].payments = ledger[i].payments
        /\ ledger'[i].booked = ledger[i].booked \/ ledger'[i].booked = Booking(i)
    BY <1>0, <1>7 DEF ChangeStatus, TypeOK, Ledgers
  <2> QED BY <1>0, <1>1, <2>2, <2>3, NothingIsPaid
<1>8. CASE i = job[t].slot /\ CancelInvoice(t)
  <2>1. invoices'[i].payments = invoices[i].payments /\ invoices'[i].paid = invoices[i].paid
    BY <1>0, <1>6, <1>8 DEF CancelInvoice, TypeOK, Invoices
  <2>2. /\ ledger'[i].payments = ledger[i].payments /\ ledger'[i].booked = ledger[i].booked
        /\ ledger'[i].cancelled = ledger'[i].booked
    BY <1>0, <1>8 DEF CancelInvoice, TypeOK, Ledgers
  <2> QED BY <1>0, <2>1, <2>2, NothingIsPaid
<1>9. CASE i = job[t].slot /\ RegisterPayment(t)
  BY <1>9, PaymentAddsUp
<1> QED BY <1>3, <1>4, <1>5, <1>7, <1>8, <1>9 DEF Writes

\* While the journal is empty every row is unpaid, whatever the method.
LEMMA PolicyAddsUp ==
  ASSUME IInv, NEW t \in Requests, ChangePolicy(t), NEW i \in Slots, RowAddsUp(i)
  PROVE  RowAddsUp(i)'
<1>1. ledger[i].payments = {} /\ invoices' = invoices /\ ledger' = ledger
  BY DEF ChangePolicy, NoVouchers
<1>2. invoices[i].paid = 0
  BY <1>1, SumOfNothing DEF RowAddsUp
<1>3. VouchersAreExact(i)'
  BY <1>1, <1>2, SumOfNothing DEF VouchersAreExact
<1> QED BY <1>1, <1>3 DEF RowAddsUp

LEMMA StepAddsUp ==
  ASSUME IInv, \A i \in Slots : RowAddsUp(i), [Next]_vars
  PROVE  \A i \in Slots : RowAddsUp(i)'
<1> SUFFICES ASSUME NEW i \in Slots PROVE RowAddsUp(i)'
  OBVIOUS
<1>1. CASE books' = books
  BY <1>1 DEF books, RowAddsUp, VouchersAreExact, TextsAreApart, PaidWithoutVat
<1>2. ASSUME NEW t \in Requests, Begin(t) \/ Moves(t) PROVE books' = books
  BY <1>2 DEF Begin, Moves, LockById, FindVoucher, LockSettingsForAccounting, CheckReference, books
<1>3. ASSUME NEW t \in Requests, Leaves(t), ~ChangePolicy(t) PROVE books' = books
  BY <1>3 DEF Leaves, ReturnCancelled, Refuse, Abort, NoSlotLeft
<1>4. CASE UNCHANGED vars
  BY <1>1, <1>4 DEF vars
<1> QED BY <1>1, <1>2, <1>3, <1>4, StepCases, WrittenRowAddsUp, PolicyAddsUp

LEMMA RowsAddUp == Spec => [](\A i \in Slots : RowAddsUp(i))
<1> DEFINE Inv == \A i \in Slots : RowAddsUp(i)
<1>1. Init => Inv
  <2> SUFFICES ASSUME Init, NEW i \in Slots PROVE RowAddsUp(i)
    OBVIOUS
  <2>1. invoices[i] = Absent /\ ledger[i] = NoVouchers
    BY DEF Init
  <2>2. VouchersAreExact(i)
    BY <2>1, SumOfNothing DEF VouchersAreExact, Absent, NoVouchers
  <2> QED BY <2>1, <2>2, SumOfNothing, FS_EmptySet DEF RowAddsUp, Absent, NoVouchers
<1>2. IInv /\ Inv /\ [Next]_vars => Inv'
  BY StepAddsUp
<1> QED BY <1>1, <1>2, Invariance, PTL DEF Spec

\* Account 2440 never carries a debit nobody owes, whatever the texts of the
\* payments contain and however the method was changed.
THEOREM SupplierPayableNeverOverdrawn == Spec => []PayableNeverOverdrawn
<1> DEFINE Inv == \A i \in Slots : RowAddsUp(i)
<1>1. ASSUME IInv, Inv PROVE PayableNeverOverdrawn
  <2> SUFFICES ASSUME NEW i \in Slots, method = "INVOICE"
               PROVE  AmountsOf(ledger[i].payments) + ledger[i].cancelled <= ledger[i].booked
    BY <1>1 DEF PayableNeverOverdrawn, RowAddsUp
  <2>1. RowAddsUp(i) /\ invoices[i].paid \in 0 .. Total /\ ledger[i] \in Ledgers
        /\ \A v \in ledger[i].payments : v.amount \in Nat
    BY <1>1, RowTypes DEF IInv
  <2>2. Total \in Nat /\ AmountsOf(ledger[i].payments) \in Nat
    BY <2>1, SumIsNat, TotalAssumption DEF RowAddsUp
  <2>3. CASE ledger[i].cancelled > 0
    <3>1. ledger[i].payments = {} /\ ledger[i].cancelled = ledger[i].booked
      BY <1>1, <2>1, <2>3 DEF IInv, NothingHidden, RowAddsUp
    <3> QED BY <2>1, <2>2, <3>1, SumOfNothing DEF Ledgers
  <2>4. CASE ~(ledger[i].cancelled > 0)
    <3>1. ledger[i].cancelled = 0
      BY <2>1, <2>2, <2>4 DEF Ledgers
    <3>2. CASE ledger[i].payments = {}
      BY <2>1, <2>2, <3>1, <3>2, SumOfNothing DEF Ledgers
    <3>3. CASE ledger[i].payments # {}
      BY <2>1, <2>2, <3>1, <3>3 DEF RowAddsUp, Ledgers
    <3> QED BY <3>2, <3>3
  <2> QED BY <2>3, <2>4
<1> QED BY <1>1, Invariance, RowsAddUp, PTL

\* Where texts tell payments apart, the journal carries the payments of the
\* row when no payment has VAT: what method is in force does not matter then.
THEOREM SupplierPayablesAreSound ==
  TextsAreApart /\ PaidWithoutVat => (Spec => []PayablesAreSound)
<1> SUFFICES ASSUME TextsAreApart, PaidWithoutVat PROVE Spec => []PayablesAreSound
  OBVIOUS
<1> DEFINE Inv == \A i \in Slots : RowAddsUp(i)
<1>1. IInv /\ Inv /\ PayableNeverOverdrawn => PayablesAreSound
  BY DEF IInv, RowAddsUp, VouchersAreExact, PaymentsAreBooked, PayablesAreSound
<1> QED BY <1>1, Invariance, RowsAddUp, SupplierPayableNeverOverdrawn, PTL

\* Under the invoice method they do so with VAT too: it was booked with the
\* invoice, and the payment is booked with its whole amount.
THEOREM SupplierPaymentsAreBooked ==
  TextsAreApart => (Spec => [](method = "INVOICE" => PaymentsAreBooked))
<1> SUFFICES ASSUME TextsAreApart PROVE Spec => [](method = "INVOICE" => PaymentsAreBooked)
  OBVIOUS
<1> DEFINE Inv == \A i \in Slots : RowAddsUp(i)
<1>1. Inv => (method = "INVOICE" => PaymentsAreBooked)
  BY DEF RowAddsUp, VouchersAreExact, PaymentsAreBooked
<1> QED BY <1>1, RowsAddUp, PTL
=============================================================================
