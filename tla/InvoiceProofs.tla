--------------------------- MODULE InvoiceProofs ---------------------------
(***************************************************************************)
(* Proofs about Invoice for every number of requests, sessions, events,    *)
(* bank rows and amounts: what the row lock and the advisory locks keep of *)
(* the guards read under them, and, as long as no reminder merges a copy   *)
(* it read without the lock, that the invoice is the receivable of module  *)
(* Receivable.                                                             *)
(***************************************************************************)
EXTENDS InvoiceReceivable, FiniteSetTheorems, TLAPS

----------------------------------------------------------------------------
(* The inductive invariant.                                                *)

RowKinds == {"issue", "email", "pay", "refund", "credit", "delete", "webhook"}
ReadKinds == {"checkout", "remind"}
Reserving(t) == FromBank(t) \/ Is(t, {"skip"})

\* Which request can be where.
KindsOfPlaces ==
  \A t \in Requests :
    /\ pc[t] \in Waiting => job[t] \in Jobs /\ job[t].kind \in Kinds
    /\ pc[t] = "eventLocked" => Is(t, {"webhook"})
    /\ pc[t] = "repeated" => Is(t, {"webhook", "pay", "skip"})
    /\ pc[t] = "keyed" => Is(t, {"webhook", "skip", "unskip"}) \/ FromBank(t)
    /\ pc[t] = "locked" => Is(t, RowKinds)
    /\ pc[t] = "read" => Is(t, ReadKinds)
    /\ pc[t] = "merging" => Is(t, {"remind"})

\* Whoever has locked the row has a true copy of it.
LockedCopyIsTrue ==
  \A t \in Requests : pc[t] = "locked" => rowHolder = t /\ seen[t] = Stored

\* A delivery at work holds its event, then its session, and both are new.
EventIsNew ==
  \A t \in Requests : Is(t, {"webhook"}) =>
    /\ pc[t] \in {"eventLocked", "repeated", "keyed", "locked"} => keyHolder[job[t].event] = t
    /\ pc[t] \in {"eventLocked", "keyed", "locked"} => job[t].event \notin marks
    /\ pc[t] \in {"keyed", "locked"} =>
         keyHolder[RefOf(t)] = t /\ RefOf(t) \notin marks
    /\ pc[t] = "repeated" => job[t].event \in marks \/ RefOf(t) \in marks

\* A paid event is recorded with its session or after it.
EventsFollowSessions == \A e \in PaidEvents \cap marks : SessionOf[e] \in marks

\* A request that reserves a bank row holds it, and nobody used it.
RowIsUnused ==
  \A t \in Requests : Reserving(t) /\ pc[t] \in {"keyed", "locked"} =>
    keyHolder[job[t].row] = t /\ ~Used(job[t].row)

\* What a session asks for is more than nothing; a copy read without the
\* lock is of an invoice that was there.
CopiesAreOfAnInvoice ==
  \A t \in Requests :
    /\ pc[t] \in Waiting /\ Is(t, {"webhook"}) => sessions[RefOf(t)] > 0
    /\ pc[t] = "read" /\ Is(t, {"checkout"}) => Remaining(Row(t)) > 0
    /\ pc[t] \in {"read", "merging"} => Row(t).status # "DELETED"

\* The row, its payments and the journal, as long as nobody merges.
SessionsAreBooked ==
  \A s \in Sessions :
    /\ s \in marks <=> \E p \in payments : p.ref = s
    /\ \A p, q \in payments : p.ref = s /\ q.ref = s => p = q
RowFitsBooks ==
  /\ ledger.received = invoice.paid /\ ledger.refunded = invoice.refunded
  /\ invoice.status = "PAID" => invoice.paid = Total
  /\ invoice.status = "DRAFT" => payments = {}
\* No payment is by a request that is still at work, so every one is new.
PaymentsAddUp ==
  /\ IsFiniteSet(payments) /\ AmountsOf(payments) = invoice.paid
  /\ \A p \in payments : pc[p.by] = "done"
CreditReversesInvoice ==
  ledger.credited = IF invoice.status = "CREDITED" THEN ledger.invoiced ELSE 0
BooksAgree ==
  /\ SessionsAreBooked /\ RowFitsBooks /\ PaymentsAddUp /\ PaymentSentOnceIsBookedOnce
  /\ "policy" \notin Kinds => IssuedInvoiceIsBooked /\ CreditReversesInvoice

IInv ==
  /\ TypeOK /\ KindsOfPlaces /\ LockedCopyIsTrue /\ EventIsNew /\ EventsFollowSessions
  /\ RowIsUnused /\ CopiesAreOfAnInvoice /\ BankRowUsedOnce /\ IssuedIsNeverDeleted
  /\ "remind" \notin Kinds => BooksAgree

----------------------------------------------------------------------------
(* What jobs, keys and copies are made of.                                 *)

LEMMA JobFields ==
  ASSUME NEW j \in Jobs
  PROVE  /\ j.kind \in AllKinds /\ j # NoJob
         /\ j.kind = "pay" => /\ j.amount \in Amounts /\ j.ref \in Refs \cup {Blank}
                              /\ j.row \in BankRows \cup {NoRow}
         /\ j.kind = "refund" => j.amount \in Amounts
         /\ j.kind = "checkout" => j.session \in Sessions
         /\ j.kind = "webhook" => j.event \in Events /\ SessionOf[j.event] \in Sessions
         /\ j.kind \in {"skip", "unskip"} => j.row \in BankRows
<1>1. j.kind \in AllKinds
  BY DEF Jobs, AllKinds
<1>2. j # NoJob
  BY <1>1 DEF NoJob, AllKinds
<1> QED BY <1>1, <1>2, EventsAssumption DEF Jobs

LEMMA KeysDiffer ==
  /\ \A e \in Events : e \in Keys /\ e \notin Sessions /\ e \notin BankRows
  /\ \A s \in Sessions : s \in Keys /\ s \notin BankRows /\ s \notin Refs /\ s # Blank
  /\ \A b \in BankRows : b \in Keys /\ b # NoRow
BY KeysAssumption, RefsAssumption, NoRowAssumption DEF Keys

LEMMA StoredIsACopy == TypeOK => Stored \in Copies /\ NothingLoaded \in Copies
BY TotalAssumption DEF TypeOK, Stored, Copies, NothingLoaded, Draft, Invoices

----------------------------------------------------------------------------
(* What the amounts of a set of payments add up to.  MapThenSumSet picks   *)
(* one member after the other; a set on which a statement about the sum    *)
(* fails has a smallest subset on which it fails, and that one has a       *)
(* member to take away.                                                    *)

Picked(s) == CHOOSE x \in s : TRUE
IsSumUpTo(f, S) ==
  f = [s \in SUBSET S |-> IF s = {} THEN 0 ELSE Picked(s).amount + f[s \ {Picked(s)}]]

LEMMA SumIsChosen == \A S : AmountsOf(S) = (CHOOSE f : IsSumUpTo(f, S))[S]
BY DEF AmountsOf, MapThenSumSet, MapThenFoldSet, IsSumUpTo, Picked

LEMMA PickedIsIn == \A s : s # {} => Picked(s) \in s
BY DEF Picked

\* Of the subsets of a finite set that are bad, one has no bad subset.
LEMMA SmallestSet ==
  ASSUME NEW S, IsFiniteSet(S), NEW Bad, Bad \subseteq SUBSET S, Bad # {}
  PROVE  \E s \in Bad : IsFiniteSet(s) /\ \A t \in SUBSET s : t # s => t \notin Bad
<1>1. \A s \in SUBSET S : IsFiniteSet(s)
  BY FS_Subset
<1>2. Bad \subseteq FiniteSubsetsOf(S)
  BY <1>1 DEF FiniteSubsetsOf
<1>3. PICK s \in Bad : \A t \in Bad : <<t, s>> \notin StrictSubsetOrdering(S)
  BY <1>2, FS_StrictSubsetOrderingWellFounded, WFMin
<1>4. ASSUME NEW t \in SUBSET s, t # s, t \in Bad PROVE FALSE
  BY <1>3, <1>4 DEF StrictSubsetOrdering
<1> QED BY <1>1, <1>3, <1>4

\* The recursion says the same of a set, whatever set it was started from,
LEMMA SumsAgree ==
  ASSUME NEW S, IsFiniteSet(S), NEW T \in SUBSET S, NEW f, IsSumUpTo(f, S), NEW g, IsSumUpTo(g, T)
  PROVE  f[T] = g[T]
<1> DEFINE Bad == {s \in SUBSET T : f[s] # g[s]}
<1>1. SUFFICES ASSUME Bad # {} PROVE FALSE
  BY <1>1
<1>2. IsFiniteSet(T)
  BY FS_Subset
<1>3. PICK s \in Bad : \A t \in SUBSET s : t # s => t \notin Bad
  <2> HIDE DEF Bad
  <2>1. Bad \subseteq SUBSET T
    BY DEF Bad
  <2> QED BY <1>1, <1>2, <2>1, SmallestSet
<1>4. s # {} => f[s \ {Picked(s)}] = g[s \ {Picked(s)}]
  BY <1>3, PickedIsIn
<1>5. f[s] = IF s = {} THEN 0 ELSE Picked(s).amount + f[s \ {Picked(s)}]
  BY DEF IsSumUpTo
<1>6. g[s] = IF s = {} THEN 0 ELSE Picked(s).amount + g[s \ {Picked(s)}]
  BY DEF IsSumUpTo
<1> QED BY <1>3, <1>4, <1>5, <1>6

\* and a function that satisfies it exists.
LEMMA SumExists ==
  ASSUME NEW S, IsFiniteSet(S)
  PROVE  \E f : IsSumUpTo(f, S)
<1> DEFINE Bad == {s \in SUBSET S : ~ \E f : IsSumUpTo(f, s)}
<1>1. SUFFICES ASSUME Bad # {} PROVE FALSE
  BY <1>1
<1>2. PICK s \in Bad : IsFiniteSet(s) /\ \A t \in SUBSET s : t # s => t \notin Bad
  <2> HIDE DEF Bad
  <2>1. Bad \subseteq SUBSET S
    BY DEF Bad
  <2> QED BY <1>1, <2>1, SmallestSet
<1> DEFINE G(t) == CHOOSE f : IsSumUpTo(f, t)
           h == [t \in SUBSET s |-> IF t = {} THEN 0 ELSE Picked(t).amount + G(t \ {Picked(t)})[t \ {Picked(t)}]]
<1>3. ASSUME NEW t \in SUBSET s, t # s PROVE IsSumUpTo(G(t), t) /\ IsFiniteSet(t)
  <2>1. \E f : IsSumUpTo(f, t)
    BY <1>2, <1>3
  <2> QED BY <1>2, <2>1, FS_Subset
<1>4. ASSUME NEW u \in SUBSET s, u # s PROVE h[u] = G(u)[u]
  <2> DEFINE v == u \ {Picked(u)}
  <2>1. G(u)[u] = IF u = {} THEN 0 ELSE Picked(u).amount + G(u)[v]
    <3>1. IsSumUpTo(G(u), u)
      BY <1>3, <1>4
    <3> HIDE DEF G
    <3> QED BY <3>1 DEF IsSumUpTo
  <2>2. u # {} => G(u)[v] = G(v)[v]
    <3>1. SUFFICES ASSUME u # {} PROVE G(u)[v] = G(v)[v]
      OBVIOUS
    <3>2. v \in SUBSET u /\ v \in SUBSET s /\ v # s
      BY <1>4
    <3>3. IsSumUpTo(G(u), u) /\ IsFiniteSet(u) /\ IsSumUpTo(G(v), v)
      BY <1>3, <1>4, <3>2
    <3> HIDE DEF G, v
    <3> QED BY <3>2, <3>3, SumsAgree
  <2> HIDE DEF G
  <2> QED BY <2>1, <2>2
<1>5. ASSUME NEW t \in SUBSET s
      PROVE  h[t] = IF t = {} THEN 0 ELSE Picked(t).amount + h[t \ {Picked(t)}]
  <2>1. t # {} => h[t \ {Picked(t)}] = G(t \ {Picked(t)})[t \ {Picked(t)}]
    BY <1>4, PickedIsIn
  <2> HIDE DEF G
  <2> QED BY <2>1
<1>6. IsSumUpTo(h, s)
  <2>1. h = [t \in SUBSET s |-> h[t]]
    OBVIOUS
  <2> HIDE DEF h
  <2> QED BY <1>5, <2>1, Zenon DEF IsSumUpTo
<1> QED BY <1>2, <1>6

\* One member is picked, and the others are summed.
LEMMA SumUnfolds ==
  ASSUME NEW S, IsFiniteSet(S)
  PROVE  AmountsOf(S) = IF S = {} THEN 0 ELSE Picked(S).amount + AmountsOf(S \ {Picked(S)})
<1> DEFINE F(T) == CHOOSE f : IsSumUpTo(f, T)
           T == S \ {Picked(S)}
<1>1. IsFiniteSet(T)
  BY FS_RemoveElement
<1>2. IsSumUpTo(F(S), S) /\ IsSumUpTo(F(T), T)
  BY <1>1, SumExists
<1>3. F(S)[S] = IF S = {} THEN 0 ELSE Picked(S).amount + F(S)[T]
  BY <1>2 DEF IsSumUpTo
<1>4. F(S)[T] = F(T)[T]
  <2> HIDE DEF F
  <2> QED BY <1>2, SumsAgree
<1>5. AmountsOf(S) = F(S)[S] /\ AmountsOf(T) = F(T)[T]
  BY SumIsChosen
<1> QED BY <1>3, <1>4, <1>5

LEMMA SumIsNat ==
  ASSUME NEW S, IsFiniteSet(S), \A p \in S : p.amount \in Nat
  PROVE  AmountsOf(S) \in Nat
<1> DEFINE Bad == {s \in SUBSET S : AmountsOf(s) \notin Nat}
<1>1. SUFFICES ASSUME Bad # {} PROVE FALSE
  BY <1>1
<1>2. PICK s \in Bad : IsFiniteSet(s) /\ \A t \in SUBSET s : t # s => t \notin Bad
  <2> HIDE DEF Bad
  <2>1. Bad \subseteq SUBSET S
    BY DEF Bad
  <2> QED BY <1>1, <2>1, SmallestSet
<1>3. s # {} => Picked(s).amount \in Nat /\ AmountsOf(s \ {Picked(s)}) \in Nat
  BY <1>2, PickedIsIn
<1>4. AmountsOf(s) = IF s = {} THEN 0 ELSE Picked(s).amount + AmountsOf(s \ {Picked(s)})
  BY <1>2, SumUnfolds
<1> QED BY <1>3, <1>4

\* Whichever member is picked, the sum is the same.
LEMMA AnyMemberFirst ==
  ASSUME NEW S, IsFiniteSet(S), \A p \in S : p.amount \in Nat, NEW x \in S
  PROVE  AmountsOf(S) = x.amount + AmountsOf(S \ {x})
<1> DEFINE Bad == {s \in SUBSET S : \E y \in s : AmountsOf(s) # y.amount + AmountsOf(s \ {y})}
<1>1. SUFFICES ASSUME Bad # {} PROVE FALSE
  BY <1>1
<1>2. PICK s \in Bad : IsFiniteSet(s) /\ \A t \in SUBSET s : t # s => t \notin Bad
  <2> HIDE DEF Bad
  <2>1. Bad \subseteq SUBSET S
    BY DEF Bad
  <2> QED BY <1>1, <2>1, SmallestSet
<1>3. PICK y \in s : AmountsOf(s) # y.amount + AmountsOf(s \ {y})
  BY <1>2
<1> DEFINE z == Picked(s)
           rest == (s \ {y}) \ {z}
<1>4. z \in s /\ AmountsOf(s) = z.amount + AmountsOf(s \ {z})
  BY <1>2, PickedIsIn, SumUnfolds
<1>5. y # z
  BY <1>3, <1>4
<1>6. AmountsOf(s \ {y}) = z.amount + AmountsOf(rest)
  BY <1>2, <1>4, <1>5
<1>7. AmountsOf(s \ {z}) = y.amount + AmountsOf((s \ {z}) \ {y})
  BY <1>2, <1>4, <1>5
<1>8. (s \ {z}) \ {y} = rest
  OBVIOUS
<1>9. y.amount \in Nat /\ z.amount \in Nat /\ AmountsOf(rest) \in Nat
  <2>1. IsFiniteSet(rest) /\ \A p \in rest : p.amount \in Nat
    BY <1>2, FS_Subset
  <2> QED BY <1>4, <2>1, SumIsNat
<1> HIDE DEF rest, z
<1>10. AmountsOf(s) = z.amount + (y.amount + AmountsOf(rest))
  BY <1>4, <1>7, <1>8
<1>11. AmountsOf(s) # y.amount + (z.amount + AmountsOf(rest))
  BY <1>3, <1>6
<1> QED BY <1>9, <1>10, <1>11

LEMMA SumOfNothing == AmountsOf({}) = 0
BY SumUnfolds, FS_EmptySet

LEMMA SumOfOneMore ==
  ASSUME NEW S, IsFiniteSet(S), \A p \in S : p.amount \in Nat, NEW x, x \notin S, x.amount \in Nat
  PROVE  AmountsOf(S \cup {x}) = AmountsOf(S) + x.amount
<1>1. IsFiniteSet(S \cup {x}) /\ (S \cup {x}) \ {x} = S
  BY FS_AddElement
<1> QED BY <1>1, AnyMemberFirst, SumIsNat

----------------------------------------------------------------------------
(* The steps, by what they change.                                         *)

LocksAKey(t) == LockEvent(t) \/ LockSession(t) \/ LockBankRow(t)
Loads(t) == ReadInvoice(t) \/ MergeLoad(t)
Writes(t) ==
  IssueInvoice(t) \/ RegisterPayment(t) \/ Refund(t) \/ Credit(t) \/ DeleteInvoice(t)
Records(t) == RecordEvent(t) \/ SkipRow(t) \/ RemoveSkipped(t)
Leaves(t) == ReturnIssued(t) \/ IgnoreEvent(t) \/ ChangePolicy(t) \/ Refuse(t) \/ Abort(t)
Ends(t) == Writes(t) \/ Records(t) \/ Leaves(t) \/ CreateSession(t) \/ SaveMerged(t)

LEMMA StepCases ==
  ASSUME [Next]_vars
  PROVE  \/ \E t \in Requests : Begin(t) \/ LocksAKey(t) \/ LockById(t) \/ Loads(t) \/ Ends(t)
         \/ UNCHANGED vars
BY DEF Next, Work, Quiet, LocksAKey, Loads, Writes, Records, Leaves, Ends

LEMMA EndsFinish ==
  ASSUME NEW t \in Requests, Ends(t)
  PROVE  pc[t] \in Waiting /\ Finish(t)
<1>1. CASE Writes(t)
  BY <1>1 DEF Writes, IssueInvoice, RegisterPayment, Refund, Credit, DeleteInvoice, Waiting
<1>2. CASE Records(t)
  BY <1>2 DEF Records, RecordEvent, SkipRow, RemoveSkipped, Waiting
<1>3. CASE Leaves(t)
  BY <1>3 DEF Leaves, ReturnIssued, IgnoreEvent, ChangePolicy, Refuse, Refused, Abort, Waiting
<1> QED BY <1>1, <1>2, <1>3 DEF Ends, CreateSession, SaveMerged, Waiting

\* A finished request has left; the others keep their place and their locks.
LEMMA OthersStay ==
  ASSUME TypeOK, NEW t \in Requests, Finish(t), NEW u \in Requests
  PROVE  /\ pc'[t] = "done" /\ job'[t] = NoJob
         /\ u # t => /\ pc'[u] = pc[u] /\ job'[u] = job[u] /\ seen'[u] = seen[u]
                     /\ rowHolder = u => rowHolder' = u
                     /\ \A k \in Keys : keyHolder[k] = u => keyHolder'[k] = u
BY DEF TypeOK, Finish, Move

\* What the others change while a request locks or loads.
LEMMA OnlyMoves ==
  ASSUME TypeOK, NEW t \in Requests, Begin(t) \/ LocksAKey(t) \/ LockById(t) \/ Loads(t),
         NEW u \in Requests, u # t
  PROVE  /\ pc'[u] = pc[u] /\ job'[u] = job[u] /\ seen'[u] = seen[u]
         /\ UNCHANGED <<books, register>>
BY DEF TypeOK, Begin, LocksAKey, LockEvent, LockSession, LockBankRow, LockKey, LockById, Loads,
       ReadInvoice, MergeLoad, Move, local, locks

----------------------------------------------------------------------------
(* Types.                                                                  *)

LEMMA LockedJob ==
  ASSUME IInv, NEW t \in Requests, pc[t] \in Waiting
  PROVE  /\ job[t] \in Jobs /\ job[t].kind \in AllKinds
         /\ pc[t] = "locked" => /\ seen[t] = Stored /\ Row(t) = invoice /\ rowHolder = t
                                /\ seen[t].payments = payments
BY JobFields DEF IInv, KindsOfPlaces, LockedCopyIsTrue, Row, Stored

\* What a payment is: an amount of at least one krona that is still open.
LEMMA PaymentFields ==
  ASSUME IInv, NEW t \in Requests, RegisterPayment(t)
  PROVE  /\ AmountOf(t) \in Amounts /\ AmountOf(t) <= Total - invoice.paid
         /\ invoice.status \in Receiving
         /\ RefOf(t) \in Refs \cup Sessions \cup {Blank}
         /\ Is(t, {"webhook"}) <=> RefOf(t) \in Sessions
         /\ Is(t, {"pay"}) => PaymentIsNew(t)
         /\ Is(t, {"webhook"}) => job[t].event \in Events
<1>0. pc[t] = "locked" /\ Is(t, {"pay", "webhook"}) /\ PaymentAllowed(t)
  BY DEF RegisterPayment
<1>1. job[t] \in Jobs /\ Row(t) = invoice /\ TypeOK
  BY <1>0, LockedJob DEF Waiting, IInv
<1>2. /\ invoice.status \in Receiving /\ AmountOf(t) <= Total - invoice.paid
      /\ Is(t, {"pay"}) => PaymentIsNew(t)
  BY <1>0, <1>1 DEF PaymentAllowed, Remaining
<1>3. CASE job[t].kind = "pay"
  BY <1>1, <1>2, <1>3, JobFields, KeysDiffer DEF AmountOf, RefOf, Is
<1>4. CASE job[t].kind = "webhook"
  <2>1. SessionOf[job[t].event] \in Sessions /\ job[t].event \in Events
    BY <1>1, <1>4, JobFields
  <2>2. sessions[RefOf(t)] > 0
    BY <1>0, <1>4 DEF IInv, CopiesAreOfAnInvoice, Waiting, Is
  <2>3. RefOf(t) = SessionOf[job[t].event] /\ AmountOf(t) = sessions[RefOf(t)]
    BY <1>4 DEF RefOf, AmountOf, Is
  <2>4. sessions[RefOf(t)] \in 1 .. Total
    BY <1>1, <2>1, <2>2, <2>3, TotalAssumption DEF TypeOK
  <2> QED BY <1>2, <1>4, <2>1, <2>3, <2>4 DEF Amounts, Is
<1> QED BY <1>0, <1>3, <1>4 DEF Is

LEMMA RefundFields ==
  ASSUME IInv, NEW t \in Requests, Refund(t)
  PROVE  /\ job[t].amount \in Amounts /\ invoice.status = "CREDITED"
         /\ job[t].amount <= invoice.paid - invoice.refunded
<1>1. pc[t] = "locked" /\ job[t].kind = "refund" /\ RefundAllowed(t)
  BY DEF Refund, Is
<1>2. Row(t) = invoice /\ job[t] \in Jobs
  BY <1>1, LockedJob DEF Waiting
<1> QED BY <1>1, <1>2, JobFields DEF RefundAllowed, Refundable

LEMMA WritesType ==
  ASSUME IInv, NEW t \in Requests, Writes(t)
  PROVE  /\ invoice' \in Invoices /\ payments' \subseteq Payments
         /\ ledger' \in [invoiced: Nat, received: Nat, credited: Nat, refunded: Nat]
         /\ archived' \in BOOLEAN /\ method' = method /\ sessions' = sessions
         /\ marks' \subseteq Events \cup Sessions
         /\ bankRows' \in [BankRows -> [booked: Nat, skipped: Nat]]
<1>0. TypeOK /\ Total \in Nat \ {0}
  BY TotalAssumption DEF IInv
<1>1. pc[t] = "locked" /\ Row(t) = invoice /\ job[t] \in Jobs
  BY LockedJob DEF Writes, IssueInvoice, RegisterPayment, Refund, Credit, DeleteInvoice, Waiting
<1> USE DEF TypeOK, register
<1>2. CASE IssueInvoice(t)
  <2>1. InvoiceVoucher \in Nat
    BY <1>0 DEF InvoiceVoucher
  <2> QED BY <1>0, <1>1, <1>2, <2>1 DEF IssueInvoice, Invoices, Issued
<1>3. CASE RegisterPayment(t)
  <2> DEFINE paid == invoice.paid + AmountOf(t)
  <2>1. /\ AmountOf(t) \in 1 .. Total /\ AmountOf(t) <= Total - invoice.paid
        /\ RefOf(t) \in Refs \cup Sessions \cup {Blank}
        /\ Is(t, {"webhook"}) => job[t].event \in Events /\ RefOf(t) \in Sessions
    BY <1>3, PaymentFields DEF Amounts
  <2>2. paid \in 0 .. Total
    BY <1>0, <2>1 DEF Invoices
  <2>3. invoice' \in Invoices
    BY <1>0, <1>1, <1>3, <2>2 DEF RegisterPayment, Invoices, Issued
  <2>4. payments' \subseteq Payments
    BY <1>0, <1>3, <2>1 DEF RegisterPayment, Payments
  <2>5. ledger' \in [invoiced: Nat, received: Nat, credited: Nat, refunded: Nat]
    BY <1>0, <1>3, <2>1 DEF RegisterPayment
  <2>6. marks' \subseteq Events \cup Sessions
    BY <1>0, <1>3, <2>1 DEF RegisterPayment, BookedMarks
  <2>7. bankRows' \in [BankRows -> [booked: Nat, skipped: Nat]]
    <3>1. bankRows' = bankRows \/ bankRows' = [bankRows EXCEPT ![job[t].row].booked = @ + 1]
      BY <1>3 DEF RegisterPayment
    <3> QED BY <1>0, <3>1
  <2> QED BY <1>0, <1>3, <2>3, <2>4, <2>5, <2>6, <2>7 DEF RegisterPayment
<1>4. CASE Refund(t)
  <2>1. job[t].amount \in 1 .. Total /\ job[t].amount <= invoice.paid - invoice.refunded
    BY <1>4, RefundFields DEF Amounts
  <2>2. invoice.refunded + job[t].amount \in 0 .. Total
    BY <1>0, <2>1 DEF Invoices
  <2> QED BY <1>0, <1>1, <1>4, <2>1, <2>2 DEF Refund, Invoices
<1>5. CASE Credit(t)
  <2>1. CreditVoucher \in Nat
    BY <1>0 DEF CreditVoucher
  <2> QED BY <1>0, <1>1, <1>5, <2>1 DEF Credit, Invoices, Issued
<1>6. CASE DeleteInvoice(t)
  BY <1>0, <1>6 DEF DeleteInvoice, Invoices, Draft
<1> QED BY <1>2, <1>3, <1>4, <1>5, <1>6 DEF Writes

LEMMA StepType == IInv /\ [Next]_vars => TypeOK'
<1> SUFFICES ASSUME IInv, [Next]_vars PROVE TypeOK'
  OBVIOUS
<1>0. TypeOK /\ KindsOfPlaces /\ Stored \in Copies /\ NothingLoaded \in Copies
  BY StoredIsACopy DEF IInv
<1> USE DEF TypeOK, Move, books, register, locks, local
<1>1. ASSUME NEW t \in Requests, Begin(t) PROVE TypeOK'
  BY <1>0, <1>1 DEF Begin, Arrivals, Waiting
<1>2. ASSUME NEW t \in Requests, LocksAKey(t) PROVE TypeOK'
  <2>1. PICK k : LockKey(t, k)
    BY <1>2 DEF LocksAKey, LockEvent, LockSession, LockBankRow
  <2>2. keyHolder' \in [Keys -> Requests \cup {NoRequest}]
    BY <1>0, <2>1 DEF LockKey
  <2>3. pc' \in [Requests -> Waiting \cup {"idle", "done"}]
    BY <1>0, <1>2 DEF LocksAKey, LockEvent, LockSession, LockBankRow, Waiting
  <2> QED BY <1>0, <2>1, <2>2, <2>3 DEF LockKey
<1>3. ASSUME NEW t \in Requests, LockById(t) PROVE TypeOK'
  BY <1>0, <1>3 DEF LockById, Waiting
<1>4. ASSUME NEW t \in Requests, Loads(t) PROVE TypeOK'
  BY <1>0, <1>4 DEF Loads, ReadInvoice, MergeLoad, Waiting
<1>5. ASSUME NEW t \in Requests, Finish(t)
      PROVE  /\ rowHolder' \in Requests \cup {NoRequest}
             /\ keyHolder' \in [Keys -> Requests \cup {NoRequest}]
             /\ pc' \in [Requests -> Waiting \cup {"idle", "done"}]
             /\ job' \in [Requests -> Jobs \cup {NoJob}]
             /\ seen' \in [Requests -> Copies] /\ current' \in [Requests -> Copies]
  BY <1>0, <1>5 DEF Finish
<1>6. ASSUME NEW t \in Requests, Writes(t) PROVE TypeOK'
  BY <1>0, <1>5, <1>6, WritesType, EndsFinish DEF Ends
<1>7. ASSUME NEW t \in Requests, Records(t) PROVE TypeOK'
  <2>1. Finish(t) /\ job[t] \in Jobs
    BY <1>0, <1>7, EndsFinish DEF Ends, KindsOfPlaces
  <2>2. marks' \subseteq Events \cup Sessions /\ UNCHANGED <<books, sessions, method>>
    BY <1>0, <1>7, <2>1, JobFields DEF Records, RecordEvent, SkipRow, RemoveSkipped, Is, KindsOfPlaces
  <2>3. bankRows' \in [BankRows -> [booked: Nat, skipped: Nat]]
    BY <1>0, <1>7 DEF Records, RecordEvent, SkipRow, RemoveSkipped
  <2> QED BY <1>0, <1>5, <2>1, <2>2, <2>3
<1>8. ASSUME NEW t \in Requests, Leaves(t) PROVE TypeOK'
  <2>1. Finish(t)
    BY <1>8, EndsFinish DEF Ends
  <2>2. UNCHANGED <<books, marks, bankRows, sessions>> /\ method' \in {"INVOICE", "CASH"}
    BY <1>0, <1>8 DEF Leaves, ReturnIssued, IgnoreEvent, ChangePolicy, Refuse, Abort
  <2> QED BY <1>0, <1>5, <2>1, <2>2
<1>9. ASSUME NEW t \in Requests, CreateSession(t) PROVE TypeOK'
  <2>1. Row(t) \in Invoices
    BY <1>0 DEF Row, Copies
  <2>2. Remaining(Row(t)) \in 0 .. Total
    BY <2>1, TotalAssumption DEF Remaining, Invoices
  <2> QED BY <1>0, <1>5, <1>9, <2>2 DEF CreateSession
<1>10. ASSUME NEW t \in Requests, SaveMerged(t) PROVE TypeOK'
  <2>1. Finish(t)
    BY <1>10, EndsFinish DEF Ends
  <2>2. invoice' \in Invoices /\ payments' \subseteq Payments
    BY <1>0, <1>10 DEF SaveMerged, Row, Copies
  <2> QED BY <1>0, <1>5, <1>10, <2>1, <2>2 DEF SaveMerged
<1>11. CASE UNCHANGED vars
  BY <1>0, <1>11 DEF vars
<1> QED BY <1>1, <1>2, <1>3, <1>4, <1>6, <1>7, <1>8, <1>9, <1>10, <1>11, StepCases DEF Ends

----------------------------------------------------------------------------
(* The locks and the guards read under them.                               *)

LEMMA StepPlaces == IInv /\ [Next]_vars => KindsOfPlaces'
<1> SUFFICES ASSUME IInv, [Next]_vars PROVE KindsOfPlaces'
  OBVIOUS
<1>0. TypeOK /\ KindsOfPlaces
  BY DEF IInv
<1> USE DEF KindsOfPlaces, Move, Is, FromBank
<1>1. ASSUME NEW t \in Requests, Begin(t) PROVE KindsOfPlaces'
  BY <1>0, <1>1 DEF TypeOK, Begin, Arrivals
<1>2. ASSUME NEW t \in Requests, LocksAKey(t) PROVE KindsOfPlaces'
  BY <1>0, <1>2
  DEF TypeOK, LocksAKey, LockEvent, LockSession, LockBankRow, LockKey, local, Waiting
<1>3. ASSUME NEW t \in Requests, LockById(t) PROVE KindsOfPlaces'
  BY <1>0, <1>3 DEF TypeOK, LockById, ReadyForRow, RowKinds, Waiting
<1>4. ASSUME NEW t \in Requests, Loads(t) PROVE KindsOfPlaces'
  BY <1>0, <1>4 DEF TypeOK, Loads, ReadInvoice, MergeLoad, ReadKinds, Waiting
<1>5. ASSUME NEW t \in Requests, Finish(t) PROVE KindsOfPlaces'
  BY <1>0, <1>5, OthersStay DEF Waiting
<1>6. CASE UNCHANGED vars
  BY <1>0, <1>6 DEF vars, local
<1> QED BY <1>1, <1>2, <1>3, <1>4, <1>5, <1>6, StepCases, EndsFinish

\* Only the holder of the row, or a merge that found it free, writes it.
LEMMA RowIsKept ==
  ASSUME IInv, NEW t \in Requests, Ends(t), NEW u \in Requests, u # t, pc[u] = "locked"
  PROVE  invoice' = invoice /\ payments' = payments
<1>1. TypeOK /\ rowHolder = u /\ NoRequest # u
  BY NoRequestAssumption DEF IInv, LockedCopyIsTrue
<1>2. ~Writes(t)
  BY <1>1 DEF IInv, LockedCopyIsTrue, Writes, IssueInvoice, RegisterPayment, Refund, Credit, DeleteInvoice
<1>3. ~SaveMerged(t)
  BY <1>1 DEF SaveMerged
<1>4. CASE Records(t)
  BY <1>4 DEF Records, RecordEvent, SkipRow, RemoveSkipped, books
<1>5. CASE Leaves(t)
  BY <1>5 DEF Leaves, ReturnIssued, IgnoreEvent, ChangePolicy, Refuse, Abort, books
<1>6. CASE CreateSession(t)
  BY <1>6 DEF CreateSession, books
<1> QED BY <1>2, <1>3, <1>4, <1>5, <1>6 DEF Ends

LEMMA StepCopy == IInv /\ [Next]_vars => LockedCopyIsTrue'
<1> SUFFICES ASSUME IInv, [Next]_vars, NEW u \in Requests, pc'[u] = "locked"
             PROVE  rowHolder' = u /\ seen'[u] = Stored'
  BY DEF LockedCopyIsTrue
<1>0. TypeOK /\ LockedCopyIsTrue /\ NoRequest \notin Requests
  BY NoRequestAssumption DEF IInv
<1> USE DEF LockedCopyIsTrue, Stored
<1>1. ASSUME NEW t \in Requests, Begin(t) \/ LocksAKey(t) \/ Loads(t) PROVE rowHolder' = u /\ seen'[u] = Stored'
  <2>1. u # t /\ rowHolder' = rowHolder
    BY <1>0, <1>1 DEF TypeOK, Begin, LocksAKey, LockEvent, LockSession, LockBankRow, LockKey,
                      Loads, ReadInvoice, MergeLoad, Move, locks
  <2> QED BY <1>0, <1>1, <2>1, OnlyMoves DEF books
<1>2. ASSUME NEW t \in Requests, LockById(t) PROVE rowHolder' = u /\ seen'[u] = Stored'
  <2>1. u # t => pc[u] # "locked"
    BY <1>0, <1>2 DEF LockById, RowIsFree
  <2>2. u = t
    BY <1>0, <1>2, <2>1, OnlyMoves
  <2> QED BY <1>0, <1>2, <2>2 DEF TypeOK, LockById, books
<1>3. ASSUME NEW t \in Requests, Ends(t) PROVE rowHolder' = u /\ seen'[u] = Stored'
  <2>1. u # t
    BY <1>0, <1>3, EndsFinish, OthersStay
  <2> QED BY <1>0, <1>3, <2>1, EndsFinish, OthersStay, RowIsKept
<1>4. CASE UNCHANGED vars
  BY <1>0, <1>4 DEF vars, books, locks, local
<1> QED BY <1>1, <1>2, <1>3, <1>4, StepCases

\* What a step adds to the marks: the event of a request that holds it, and
\* its session, or the event of a repeated delivery.
LEMMA MarksGrow ==
  ASSUME IInv, NEW t \in Requests, Ends(t)
  PROVE  \/ marks' = marks
         \/ /\ Is(t, {"webhook"}) /\ job[t].event \in Events /\ RefOf(t) \in Sessions
            /\ RefOf(t) = SessionOf[job[t].event]
            /\ \/ RegisterPayment(t) /\ pc[t] = "locked" /\ marks' = marks \cup BookedMarks(t)
               \/ RecordEvent(t) /\ pc[t] \in {"eventLocked", "repeated"} /\ marks' = marks \cup {job[t].event}
<1>1. \/ marks' = marks
      \/ RegisterPayment(t) /\ pc[t] = "locked" /\ Is(t, {"webhook"})
      \/ RecordEvent(t)
  <2>1. CASE Writes(t)
    BY <2>1 DEF Writes, IssueInvoice, RegisterPayment, Refund, Credit, DeleteInvoice, register
  <2>2. CASE Records(t)
    BY <2>2 DEF Records, SkipRow, RemoveSkipped
  <2>3. CASE Leaves(t)
    BY <2>3 DEF Leaves, ReturnIssued, IgnoreEvent, ChangePolicy, Refuse, Abort, register
  <2> QED BY <2>1, <2>2, <2>3 DEF Ends, CreateSession, SaveMerged, register
<1>2. RecordEvent(t) => Is(t, {"webhook"}) /\ pc[t] \in {"eventLocked", "repeated"}
  BY DEF IInv, KindsOfPlaces, RecordEvent
<1>3. Is(t, {"webhook"}) => job[t].event \in Events /\ RefOf(t) \in Sessions /\ RefOf(t) = SessionOf[job[t].event]
  BY EndsFinish, JobFields DEF IInv, KindsOfPlaces, Is, RefOf
<1> QED BY <1>1, <1>2, <1>3 DEF RegisterPayment, RecordEvent

LEMMA MarksOfOthers ==
  ASSUME IInv, NEW t \in Requests, Ends(t), NEW u \in Requests, u # t, Is(u, {"webhook"}), pc[u] \in Waiting
  PROVE  /\ marks \subseteq marks'
         /\ keyHolder[job[u].event] = u /\ job[u].event \notin marks => job[u].event \notin marks'
         /\ keyHolder[RefOf(u)] = u /\ RefOf(u) \notin marks => RefOf(u) \notin marks'
<1>1. job[u].event \in Events /\ RefOf(u) \in Sessions
  BY JobFields DEF IInv, KindsOfPlaces, Is, RefOf
<1>2. CASE RegisterPayment(t) /\ pc[t] = "locked" /\ Is(t, {"webhook"}) /\ marks' = marks \cup BookedMarks(t)
  <2>1. keyHolder[job[t].event] = t /\ keyHolder[RefOf(t)] = t
    BY <1>2 DEF IInv, EventIsNew
  <2>2. job[t].event \in Events /\ RefOf(t) \in Sessions
    BY <1>2, MarksGrow, EndsFinish, JobFields DEF IInv, KindsOfPlaces, Is, RefOf
  <2> QED BY <1>1, <1>2, <2>1, <2>2, KeysDiffer DEF BookedMarks
<1>3. CASE RecordEvent(t) /\ Is(t, {"webhook"}) /\ pc[t] \in {"eventLocked", "repeated"}
             /\ marks' = marks \cup {job[t].event} /\ job[t].event \in Events
  <2>1. RefOf(u) # job[t].event
    BY <1>1, <1>3, KeysDiffer
  <2>2. keyHolder[job[t].event] = t
    BY <1>3 DEF IInv, EventIsNew, RecordEvent
  <2> QED BY <1>1, <1>3, <2>1, <2>2
<1> QED BY <1>2, <1>3, MarksGrow

LEMMA StepEvents == IInv /\ [Next]_vars => EventIsNew' /\ EventsFollowSessions'
<1> SUFFICES ASSUME IInv, [Next]_vars PROVE EventIsNew' /\ EventsFollowSessions'
  OBVIOUS
<1>0. TypeOK /\ KindsOfPlaces /\ EventIsNew /\ EventsFollowSessions
  BY DEF IInv
<1>1. ASSUME NEW t \in Requests, Begin(t) \/ LockById(t) \/ Loads(t)
      PROVE  EventIsNew' /\ EventsFollowSessions'
  <2>1. UNCHANGED <<marks, keyHolder>>
    BY <1>1 DEF Begin, LockById, Loads, ReadInvoice, MergeLoad, locks, register
  <2>2. ASSUME NEW u \in Requests, Is(u, {"webhook"})'
        PROVE  \/ pc'[u] \notin {"eventLocked", "repeated", "keyed", "locked"}
               \/ /\ pc'[u] = pc[u] \/ (pc[u] = "keyed" /\ pc'[u] = "locked")
                  /\ job'[u] = job[u]
    BY <1>0, <1>1, <2>2, OnlyMoves
    DEF TypeOK, Begin, LockById, ReadyForRow, Loads, ReadInvoice, MergeLoad, Move, Is
  <2>3. EventsFollowSessions'
    BY <1>0, <2>1 DEF EventsFollowSessions
  <2>4. EventIsNew'
    BY <1>0, <2>1, <2>2 DEF EventIsNew, Is, RefOf
  <2> QED BY <2>3, <2>4
<1>2. ASSUME NEW t \in Requests, LocksAKey(t) PROVE EventIsNew' /\ EventsFollowSessions'
  <2>1. PICK k : LockKey(t, k)
    BY <1>2 DEF LocksAKey, LockEvent, LockSession, LockBankRow
  <2>2. /\ marks' = marks /\ job' = job /\ pc' = [pc EXCEPT ![t] = pc'[t]]
        /\ \A l \in Keys, u \in Requests : keyHolder[l] = u => keyHolder'[l] = u
    BY <1>0, <1>2, <2>1, NoRequestAssumption
    DEF TypeOK, LocksAKey, LockEvent, LockSession, LockBankRow, LockKey, KeyIsFree, Move, register, local
  <2>3. \A u \in Requests : Is(u, {"webhook"}) /\ pc[u] \in Waiting =>
          job[u].event \in Keys /\ RefOf(u) \in Keys
    BY <1>0, JobFields, KeysDiffer DEF KindsOfPlaces, Is, RefOf
  <2>4. ASSUME NEW u \in Requests, Is(u, {"webhook"}), u # t
        PROVE  /\ pc'[u] \in {"eventLocked", "repeated", "keyed", "locked"} => keyHolder'[job[u].event] = u
               /\ pc'[u] \in {"keyed", "locked"} => keyHolder'[RefOf(u)] = u
    BY <1>0, <2>2, <2>3, <2>4 DEF TypeOK, EventIsNew, Waiting
  <2>5. CASE LockEvent(t)
    <3>1. /\ Is(t, {"webhook"}) /\ keyHolder'[job[t].event] = t
          /\ \/ pc'[t] = "eventLocked" /\ job[t].event \notin marks
             \/ pc'[t] = "repeated" /\ job[t].event \in marks
      BY <1>0, <2>3, <2>5 DEF TypeOK, LockEvent, LockKey, Move, Waiting
    <3> QED BY <1>0, <2>2, <2>4, <3>1 DEF TypeOK, EventIsNew, EventsFollowSessions, Is, RefOf
  <2>6. CASE LockSession(t)
    <3>1. /\ Is(t, {"webhook"}) /\ keyHolder'[RefOf(t)] = t
          /\ keyHolder'[job[t].event] = t /\ job[t].event \notin marks
          /\ \/ pc'[t] = "keyed" /\ RefOf(t) \notin marks
             \/ pc'[t] = "repeated" /\ RefOf(t) \in marks
      BY <1>0, <2>2, <2>3, <2>6 DEF TypeOK, KindsOfPlaces, EventIsNew, LockSession, LockKey, Move, Waiting
    <3> QED BY <1>0, <2>2, <2>4, <3>1 DEF TypeOK, EventIsNew, EventsFollowSessions, Is, RefOf
  <2>7. CASE LockBankRow(t)
    <3>1. ~Is(t, {"webhook"})
      BY <2>7 DEF LockBankRow, FromBank, Is
    <3> QED BY <1>0, <2>2, <2>4, <3>1 DEF TypeOK, EventIsNew, EventsFollowSessions, Is, RefOf
  <2> QED BY <1>2, <2>5, <2>6, <2>7 DEF LocksAKey
<1>3. ASSUME NEW t \in Requests, Ends(t) PROVE EventIsNew' /\ EventsFollowSessions'
  <2>1. Finish(t)
    BY <1>3, EndsFinish
  <2>2. ASSUME NEW u \in Requests, Is(u, {"webhook"})', pc'[u] \in {"eventLocked", "repeated", "keyed", "locked"}
        PROVE  /\ u # t /\ pc'[u] = pc[u] /\ job'[u] = job[u] /\ Is(u, {"webhook"}) /\ RefOf(u)' = RefOf(u)
               /\ pc[u] \in Waiting /\ job[u].event \in Keys /\ RefOf(u) \in Keys
    <3>1. u # t /\ pc'[u] = pc[u] /\ job'[u] = job[u]
      BY <1>0, <2>1, <2>2, OthersStay
    <3>2. Is(u, {"webhook"}) /\ RefOf(u)' = RefOf(u) /\ pc[u] \in Waiting
      BY <2>2, <3>1 DEF Is, RefOf, Waiting
    <3> QED BY <1>0, <3>1, <3>2, JobFields, KeysDiffer DEF KindsOfPlaces, Is, RefOf
  <2>3. ASSUME NEW u \in Requests, Is(u, {"webhook"})', pc'[u] \in {"eventLocked", "repeated", "keyed", "locked"}
        PROVE  /\ keyHolder'[job'[u].event] = u
               /\ pc'[u] \in {"eventLocked", "keyed", "locked"} => job'[u].event \notin marks'
               /\ pc'[u] \in {"keyed", "locked"} => keyHolder'[RefOf(u)'] = u /\ RefOf(u)' \notin marks'
               /\ pc'[u] = "repeated" => job'[u].event \in marks' \/ RefOf(u)' \in marks'
    BY <1>0, <1>3, <2>1, <2>2, <2>3, OthersStay, MarksOfOthers DEF EventIsNew
  <2>4. EventIsNew'
    BY <2>3 DEF EventIsNew
  <2>5. EventsFollowSessions'
    <3>1. CASE marks' = marks
      BY <1>0, <3>1 DEF EventsFollowSessions
    <3>2. CASE marks' = marks \cup BookedMarks(t) /\ RefOf(t) = SessionOf[job[t].event]
                 /\ RefOf(t) \in Sessions
      BY <1>0, <3>2, EventsAssumption, KeysDiffer DEF EventsFollowSessions, BookedMarks
    <3>3. CASE RecordEvent(t) /\ marks' = marks \cup {job[t].event} /\ RefOf(t) = SessionOf[job[t].event]
      <4>1. job[t].event \notin PaidEvents \/ RefOf(t) \in marks
        BY <1>0, <3>3 DEF RecordEvent, EventIsNew
      <4> QED BY <1>0, <3>3, <4>1 DEF EventsFollowSessions
    <3> QED BY <1>3, <3>1, <3>2, <3>3, MarksGrow
  <2> QED BY <2>4, <2>5
<1>4. CASE UNCHANGED vars
  BY <1>0, <1>4 DEF vars, register, locks, local, EventIsNew, EventsFollowSessions, Is, RefOf
<1> QED BY <1>1, <1>2, <1>3, <1>4, StepCases

\* A row is booked or skipped by the request that holds it and found it
\* unused; taking a skip back frees it.
LEMMA BankRowsChange ==
  ASSUME IInv, NEW t \in Requests, Ends(t)
  PROVE  \/ bankRows' = bankRows
         \/ /\ Reserving(t) /\ pc[t] \in {"keyed", "locked"} /\ job[t].row \in BankRows
            /\ bankRows'[job[t].row].booked + bankRows'[job[t].row].skipped = 1
            /\ \A b \in BankRows : b # job[t].row => bankRows'[b] = bankRows[b]
         \/ \A b \in BankRows : /\ bankRows'[b].booked = bankRows[b].booked
                                /\ bankRows'[b].skipped \in {0, bankRows[b].skipped}
<1>0. /\ bankRows \in [BankRows -> [booked: Nat, skipped: Nat]]
      /\ RowIsUnused /\ pc[t] \in Waiting /\ job[t] \in Jobs
  BY EndsFinish DEF IInv, TypeOK, KindsOfPlaces
<1>1. CASE RegisterPayment(t) /\ FromBank(t)
  <2>1. job[t].row \in BankRows
    BY <1>0, <1>1, JobFields DEF FromBank, Is
  <2>2. pc[t] = "locked" /\ bankRows' = [bankRows EXCEPT ![job[t].row].booked = @ + 1]
    BY <1>1 DEF RegisterPayment
  <2>3. bankRows[job[t].row].booked = 0 /\ bankRows[job[t].row].skipped = 0
    BY <1>0, <1>1, <2>1, <2>2 DEF RowIsUnused, Reserving, Used
  <2> QED BY <1>0, <1>1, <2>1, <2>2, <2>3 DEF Reserving
<1>2. CASE SkipRow(t)
  <2>1. job[t].row \in BankRows /\ Reserving(t)
    BY <1>0, <1>2, JobFields DEF SkipRow, Is, Reserving
  <2>2. pc[t] = "keyed" /\ bankRows' = [bankRows EXCEPT ![job[t].row].skipped = @ + 1]
    BY <1>2 DEF SkipRow
  <2>3. bankRows[job[t].row].booked = 0 /\ bankRows[job[t].row].skipped = 0
    BY <1>0, <2>1, <2>2 DEF RowIsUnused, Used
  <2> QED BY <1>0, <2>1, <2>2, <2>3
<1>3. CASE RemoveSkipped(t)
  BY <1>0, <1>3 DEF RemoveSkipped
<1>4. CASE Writes(t) /\ ~(RegisterPayment(t) /\ FromBank(t))
  BY <1>4 DEF Writes, IssueInvoice, RegisterPayment, Refund, Credit, DeleteInvoice, register
<1>5. CASE Leaves(t)
  BY <1>5 DEF Leaves, ReturnIssued, IgnoreEvent, ChangePolicy, Refuse, Abort, register
<1>6. CASE RecordEvent(t) \/ CreateSession(t) \/ SaveMerged(t)
  BY <1>6 DEF RecordEvent, CreateSession, SaveMerged, register
<1> QED BY <1>1, <1>2, <1>3, <1>4, <1>5, <1>6 DEF Ends, Writes, Records

LEMMA StepRows == IInv /\ [Next]_vars => RowIsUnused' /\ BankRowUsedOnce'
<1> SUFFICES ASSUME IInv, [Next]_vars PROVE RowIsUnused' /\ BankRowUsedOnce'
  OBVIOUS
<1>0. TypeOK /\ KindsOfPlaces /\ RowIsUnused /\ BankRowUsedOnce
  BY DEF IInv
<1>1. ASSUME NEW u \in Requests, Reserving(u), pc[u] \in Waiting
      PROVE  job[u].row \in BankRows /\ job[u].row \in Keys
  BY <1>0, <1>1, JobFields, KeysDiffer DEF KindsOfPlaces, Reserving, FromBank, Is
<1>2. ASSUME NEW t \in Requests, Begin(t) \/ LockById(t) \/ Loads(t)
      PROVE  RowIsUnused' /\ BankRowUsedOnce'
  <2>1. UNCHANGED <<bankRows, keyHolder>>
    BY <1>2 DEF Begin, LockById, Loads, ReadInvoice, MergeLoad, locks, register
  <2>2. ASSUME NEW u \in Requests, pc'[u] \in {"keyed", "locked"}, Reserving(u)'
        PROVE  pc[u] \in {"keyed", "locked"} /\ job'[u] = job[u]
    <3>1. CASE u = t
      BY <1>0, <1>2, <2>2, <3>1
      DEF TypeOK, Begin, LockById, ReadyForRow, Loads, ReadInvoice, MergeLoad, Move, Is, FromBank, Reserving
    <3>2. CASE u # t
      BY <1>0, <1>2, <2>2, <3>2, OnlyMoves
    <3> QED BY <3>1, <3>2
  <2> QED BY <1>0, <2>1, <2>2 DEF RowIsUnused, BankRowUsedOnce, Reserving, FromBank, Is, Used
<1>3. ASSUME NEW t \in Requests, LocksAKey(t) PROVE RowIsUnused' /\ BankRowUsedOnce'
  <2>1. PICK k : LockKey(t, k)
    BY <1>3 DEF LocksAKey, LockEvent, LockSession, LockBankRow
  <2>2. /\ bankRows' = bankRows /\ job' = job /\ pc' = [pc EXCEPT ![t] = pc'[t]]
        /\ \A l \in Keys, u \in Requests : keyHolder[l] = u => keyHolder'[l] = u
    BY <1>0, <1>3, <2>1, NoRequestAssumption
    DEF TypeOK, LocksAKey, LockEvent, LockSession, LockBankRow, LockKey, KeyIsFree, Move, register, local
  <2>3. ASSUME Reserving(t), pc'[t] \in {"keyed", "locked"}
        PROVE  keyHolder'[job[t].row] = t /\ ~Used(job[t].row)
    <3>1. LockBankRow(t)
      BY <1>0, <1>3, <2>3 DEF KindsOfPlaces, LocksAKey, LockEvent, LockSession, Reserving, FromBank, Is
    <3>2. pc[t] \in Waiting /\ ~Is(t, {"unskip"})
      BY <2>3, <3>1 DEF LockBankRow, Waiting, Reserving, FromBank, Is
    <3>3. job[t].row \in Keys
      BY <1>1, <2>3, <3>2
    <3> QED BY <1>0, <2>3, <3>1, <3>2, <3>3 DEF TypeOK, LockBankRow, LockKey, Move
  <2>4. ASSUME NEW u \in Requests, u # t, Reserving(u), pc'[u] \in {"keyed", "locked"}
        PROVE  keyHolder'[job[u].row] = u /\ ~Used(job[u].row)
    <3>1. pc[u] \in {"keyed", "locked"}
      BY <1>0, <2>2, <2>4 DEF TypeOK
    <3> QED BY <1>0, <1>1, <2>2, <2>4, <3>1 DEF RowIsUnused, Waiting
  <2> QED BY <1>0, <2>2, <2>3, <2>4 DEF RowIsUnused, BankRowUsedOnce, Reserving, FromBank, Is, Used
<1>4. ASSUME NEW t \in Requests, Ends(t) PROVE RowIsUnused' /\ BankRowUsedOnce'
  <2>1. Finish(t) /\ bankRows \in [BankRows -> [booked: Nat, skipped: Nat]]
        /\ bankRows' \in [BankRows -> [booked: Nat, skipped: Nat]]
    BY <1>0, <1>4, EndsFinish, StepType DEF TypeOK
  <2>2. BankRowUsedOnce'
    BY <1>0, <1>4, <2>1, BankRowsChange DEF BankRowUsedOnce
  <2>3. ASSUME NEW u \in Requests, Reserving(u)', pc'[u] \in {"keyed", "locked"}
        PROVE  /\ u # t /\ job'[u] = job[u] /\ job[u].row \in BankRows
               /\ keyHolder[job[u].row] = u /\ keyHolder'[job[u].row] = u
               /\ ~Used(job[u].row)
    <3>1. u # t /\ pc'[u] = pc[u] /\ job'[u] = job[u]
      BY <1>0, <2>1, <2>3, OthersStay
    <3>2. Reserving(u) /\ pc[u] \in Waiting
      BY <2>3, <3>1 DEF Reserving, FromBank, Is, Waiting
    <3> QED BY <1>0, <1>1, <2>1, <2>3, <3>1, <3>2, OthersStay DEF RowIsUnused
  <2>4. ASSUME NEW b \in BankRows, ~Used(b), keyHolder[b] # t PROVE ~Used(b)'
    <3>1. bankRows[b].booked = 0 /\ bankRows[b].skipped = 0
      <4>1. bankRows[b].booked \in Nat /\ bankRows[b].skipped \in Nat
        BY <2>1
      <4> QED BY <2>4, <4>1 DEF Used
    <3>2. bankRows'[b].booked = 0 /\ bankRows'[b].skipped = 0
      BY <1>0, <1>4, <2>4, <3>1, BankRowsChange DEF RowIsUnused
    <3> QED BY <3>2 DEF Used
  <2>5. RowIsUnused'
    BY <2>3, <2>4 DEF RowIsUnused, Used
  <2> QED BY <2>2, <2>5
<1>5. CASE UNCHANGED vars
  BY <1>0, <1>5 DEF vars, register, locks, local, RowIsUnused, BankRowUsedOnce, Reserving, FromBank, Is, Used
<1> QED BY <1>2, <1>3, <1>4, <1>5, StepCases

\* A session that asks for something goes on asking for it.
LEMMA SessionsStay ==
  ASSUME IInv, NEW t \in Requests, Ends(t), NEW s \in Sessions, sessions[s] > 0
  PROVE  sessions'[s] > 0
<1>0. TypeOK
  BY DEF IInv
<1>1. CASE CreateSession(t)
  BY <1>0, <1>1 DEF CreateSession, TypeOK
<1>2. CASE ~CreateSession(t)
  <2>1. CASE Writes(t)
    BY <2>1 DEF Writes, IssueInvoice, RegisterPayment, Refund, Credit, DeleteInvoice, register
  <2>2. CASE Records(t)
    BY <2>2 DEF Records, RecordEvent, SkipRow, RemoveSkipped
  <2>3. CASE Leaves(t)
    BY <2>3 DEF Leaves, ReturnIssued, IgnoreEvent, ChangePolicy, Refuse, Abort, register
  <2> QED BY <1>2, <2>1, <2>2, <2>3 DEF Ends, SaveMerged, register
<1> QED BY <1>1, <1>2

LEMMA StepCopies == IInv /\ [Next]_vars => CopiesAreOfAnInvoice'
<1> SUFFICES ASSUME IInv, [Next]_vars PROVE CopiesAreOfAnInvoice'
  OBVIOUS
<1>0. TypeOK /\ KindsOfPlaces /\ CopiesAreOfAnInvoice
  BY DEF IInv
<1> USE DEF CopiesAreOfAnInvoice, Is, Row, RefOf
<1>1. ASSUME NEW t \in Requests, Begin(t) PROVE CopiesAreOfAnInvoice'
  BY <1>0, <1>1 DEF TypeOK, Begin, Arrivals, Move, register, Waiting, Remaining
<1>2. ASSUME NEW t \in Requests, LocksAKey(t) \/ LockById(t) PROVE CopiesAreOfAnInvoice'
  <2>1. pc[t] \in Waiting /\ sessions' = sessions /\ job' = job
    BY <1>0, <1>2
    DEF LocksAKey, LockEvent, LockSession, LockBankRow, LockKey, LockById, ReadyForRow, register, local, Waiting
  <2>2. pc'[t] \notin {"read", "merging"}
    <3>1. CASE LocksAKey(t)
      BY <1>0, <3>1 DEF TypeOK, LocksAKey, LockEvent, LockSession, LockBankRow, Move
    <3>2. CASE LockById(t)
      BY <1>0, <3>2 DEF TypeOK, LockById, Move
    <3> QED BY <1>2, <3>1, <3>2
  <2> QED BY <1>0, <1>2, <2>1, <2>2, OnlyMoves DEF Remaining
<1>3. ASSUME NEW t \in Requests, ReadInvoice(t) PROVE CopiesAreOfAnInvoice'
  BY <1>0, <1>3 DEF TypeOK, ReadInvoice, Move, register, Waiting, Remaining, Stored
<1>4. ASSUME NEW t \in Requests, MergeLoad(t) PROVE CopiesAreOfAnInvoice'
  BY <1>0, <1>4 DEF TypeOK, MergeLoad, Move, register, Waiting, Remaining
<1>5. ASSUME NEW t \in Requests, Ends(t) PROVE CopiesAreOfAnInvoice'
  <2>1. Finish(t)
    BY <1>5, EndsFinish
  <2>2. \A u \in Requests : pc[u] \in Waiting /\ Is(u, {"webhook"}) => RefOf(u) \in Sessions
    BY <1>0, JobFields DEF KindsOfPlaces
  <2> QED BY <1>0, <1>5, <2>1, <2>2, OthersStay, SessionsStay DEF Remaining, Waiting
<1>6. CASE UNCHANGED vars
  BY <1>0, <1>6 DEF vars, register, local, Remaining
<1> QED BY <1>1, <1>2, <1>3, <1>4, <1>5, <1>6, StepCases DEF Loads

----------------------------------------------------------------------------
(* The row, its payments and the journal.                                  *)

\* Which steps leave the row, its payments and the journal alone.
LEMMA BooksStay ==
  ASSUME [Next]_vars
  PROVE  \/ \E t \in Requests : Writes(t) \/ SaveMerged(t)
         \/ UNCHANGED books
<1>1. ASSUME NEW t \in Requests, Begin(t) \/ LocksAKey(t) \/ LockById(t) \/ Loads(t) PROVE UNCHANGED books
  BY <1>1 DEF Begin, LocksAKey, LockEvent, LockSession, LockBankRow, LockKey, LockById, Loads,
              ReadInvoice, MergeLoad
<1>2. ASSUME NEW t \in Requests, Records(t) \/ Leaves(t) \/ CreateSession(t) PROVE UNCHANGED books
  BY <1>2 DEF Records, RecordEvent, SkipRow, RemoveSkipped, Leaves, ReturnIssued, IgnoreEvent,
              ChangePolicy, Refuse, Abort, CreateSession
<1>3. CASE UNCHANGED vars
  BY <1>3 DEF vars
<1> QED BY <1>1, <1>2, <1>3, StepCases DEF Ends

LEMMA DoneStays ==
  ASSUME TypeOK, [Next]_vars, NEW u \in Requests, pc[u] = "done"
  PROVE  pc'[u] = "done"
<1>1. ASSUME NEW t \in Requests, Begin(t) \/ LocksAKey(t) \/ LockById(t) \/ Loads(t) PROVE pc'[u] = "done"
  <2>1. u # t
    BY <1>1 DEF Begin, LocksAKey, LockEvent, LockSession, LockBankRow, LockById, ReadyForRow, Loads,
                ReadInvoice, MergeLoad
  <2> QED BY <1>1, <2>1, OnlyMoves
<1>2. ASSUME NEW t \in Requests, Ends(t) PROVE pc'[u] = "done"
  BY <1>2, EndsFinish, OthersStay
<1>3. CASE UNCHANGED vars
  BY <1>3 DEF vars
<1> QED BY <1>1, <1>2, <1>3, StepCases

LEMMA StepDeleted == IInv /\ [Next]_vars => IssuedIsNeverDeleted'
<1> SUFFICES ASSUME IInv, [Next]_vars PROVE IssuedIsNeverDeleted'
  OBVIOUS
<1>0. TypeOK /\ IssuedIsNeverDeleted
  BY DEF IInv
<1> USE DEF IssuedIsNeverDeleted
<1>1. ASSUME NEW t \in Requests, Writes(t) PROVE IssuedIsNeverDeleted'
  <2>1. Row(t) = invoice
    BY <1>1, LockedJob DEF Writes, IssueInvoice, RegisterPayment, Refund, Credit, DeleteInvoice, Waiting
  <2>2. CASE IssueInvoice(t) \/ RegisterPayment(t) \/ Credit(t)
    BY <1>0, <2>1, <2>2 DEF TypeOK, Invoices, IssueInvoice, RegisterPayment, Credit
  <2>3. CASE Refund(t)
    BY <1>0, <2>1, <2>3 DEF TypeOK, Invoices, Refund, RefundAllowed
  <2>4. CASE DeleteInvoice(t)
    BY <2>4 DEF DeleteInvoice, DeleteAllowed
  <2> QED BY <1>1, <2>2, <2>3, <2>4 DEF Writes
<1>2. ASSUME NEW t \in Requests, SaveMerged(t) PROVE IssuedIsNeverDeleted'
  BY <1>2 DEF SaveMerged, IInv, CopiesAreOfAnInvoice
<1>3. CASE UNCHANGED books
  BY <1>0, <1>3 DEF books
<1> QED BY <1>1, <1>2, <1>3, BooksStay

LEMMA NobodyMerges ==
  ASSUME IInv, "remind" \notin Kinds, NEW t \in Requests PROVE ~SaveMerged(t)
BY DEF IInv, KindsOfPlaces, SaveMerged, Is, Waiting

\* What a payment does to the row, and that it is a new one.
LEMMA PaymentIsBooked ==
  ASSUME IInv, NEW t \in Requests, RegisterPayment(t)
  PROVE  \E p \in Payments, a \in Amounts :
           /\ a <= Total - invoice.paid /\ payments' = payments \cup {p}
           /\ p.by = t /\ p.ref = RefOf(t) /\ p.amount = a
           /\ invoice'.paid = invoice.paid + a /\ ledger'.received = ledger.received + a
           /\ invoice'.refunded = invoice.refunded /\ ledger'.refunded = ledger.refunded
           /\ ledger'.invoiced = ledger.invoiced /\ ledger'.credited = ledger.credited
           /\ invoice'.status = IF invoice.paid + a >= Total THEN "PAID" ELSE "PARTIALLY_PAID"
           /\ p.ref \in Refs => \A q \in payments : q.ref # p.ref \/ q.amount # p.amount
<1> DEFINE a == AmountOf(t)
           p == [by |-> t, ref |-> RefOf(t), amount |-> a]
<1>1. /\ TypeOK /\ pc[t] = "locked" /\ Row(t) = invoice /\ seen[t].payments = payments
  BY LockedJob DEF IInv, RegisterPayment, Waiting
<1>2. /\ a \in Amounts /\ a <= Total - invoice.paid /\ p \in Payments
      /\ Is(t, {"webhook"}) => RefOf(t) \notin Refs
      /\ Is(t, {"pay"}) => PaymentIsNew(t)
  BY PaymentFields, KeysDiffer DEF Payments, Amounts
<1>3. RefOf(t) \in Refs => \A q \in payments : q.ref # RefOf(t) \/ q.amount # a
  <2>1. RefOf(t) \in Refs => /\ ~Is(t, {"webhook"}) /\ Is(t, {"pay"})
                             /\ RefOf(t) = job[t].ref /\ a = job[t].amount
    BY <1>2 DEF RegisterPayment, RefOf, AmountOf, Is
  <2> QED BY <1>1, <1>2, <2>1, RefsAssumption DEF PaymentIsNew
<1>4. /\ invoice' = [invoice EXCEPT !.paid = invoice.paid + a,
                       !.status = IF invoice.paid + a >= Total THEN "PAID" ELSE "PARTIALLY_PAID"]
      /\ payments' = payments \cup {p}
      /\ ledger' = [ledger EXCEPT !.received = @ + a]
  BY <1>1 DEF RegisterPayment
<1>5. p.by = t /\ p.ref = RefOf(t) /\ p.amount = a
  OBVIOUS
<1> HIDE DEF a, p
<1> QED BY <1>1, <1>2, <1>3, <1>4, <1>5 DEF TypeOK, Invoices

\* The other writes leave the payments, or find none to remove.
LEMMA OtherWrites ==
  ASSUME IInv, BooksAgree, NEW t \in Requests, Writes(t), ~RegisterPayment(t)
  PROVE  /\ payments' = payments /\ marks' = marks /\ invoice'.paid = invoice.paid
         /\ RowFitsBooks'
         /\ IssuedInvoiceIsBooked /\ CreditReversesInvoice =>
              IssuedInvoiceIsBooked' /\ CreditReversesInvoice'
<1>0. /\ TypeOK /\ RowFitsBooks /\ Row(t) = invoice /\ Total \in Nat \ {0}
      /\ payments = {} => invoice.paid = 0
  BY LockedJob, TotalAssumption, SumOfNothing
  DEF BooksAgree, PaymentsAddUp, IInv, Writes, IssueInvoice, RegisterPayment, Refund, Credit, DeleteInvoice, Waiting
<1> USE DEF TypeOK, RowFitsBooks, IssuedInvoiceIsBooked, CreditReversesInvoice, Invoices, register
<1>1. CASE IssueInvoice(t)
  BY <1>0, <1>1 DEF IssueInvoice, IssueAllowed, InvoiceVoucher, Issued
<1>2. CASE Refund(t)
  <2>1. job[t].amount \in Nat /\ invoice.status = "CREDITED"
    BY <1>2, RefundFields, <1>0 DEF Amounts
  <2> QED BY <1>0, <1>2, <2>1 DEF Refund, Issued
<1>3. CASE Credit(t)
  BY <1>0, <1>3 DEF Credit, CreditAllowed, CreditVoucher, Issued, Receiving
<1>4. CASE DeleteInvoice(t)
  BY <1>0, <1>4 DEF DeleteInvoice, DeleteAllowed, Draft, NoVouchers, Issued
<1> QED BY <1>1, <1>2, <1>3, <1>4 DEF Writes

\* A payment of a session that was not booked yet, or of a client.
LEMMA PaymentKeepsSessions ==
  ASSUME IInv, BooksAgree, NEW t \in Requests, RegisterPayment(t)
  PROVE  SessionsAreBooked'
<1>1. PICK p \in Payments : payments' = payments \cup {p} /\ p.ref = RefOf(t)
  BY PaymentIsBooked
<1>2. SessionsAreBooked
  BY DEF BooksAgree
<1>3. pc[t] = "locked" /\ Is(t, {"pay", "webhook"})
  BY DEF RegisterPayment
<1>4. CASE Is(t, {"webhook"})
  <2>1. RefOf(t) \in Sessions /\ job[t].event \in Events
    BY <1>4, PaymentFields
  <2>2. RefOf(t) \notin marks
    BY <1>3, <1>4 DEF IInv, EventIsNew
  <2>3. marks' = marks \cup {job[t].event, RefOf(t)}
    BY <1>4 DEF RegisterPayment, BookedMarks
  <2> QED BY <1>1, <1>2, <2>1, <2>2, <2>3, KeysDiffer DEF SessionsAreBooked
<1>5. CASE ~Is(t, {"webhook"})
  <2>1. RefOf(t) \notin Sessions /\ marks' = marks
    BY <1>5, PaymentFields DEF RegisterPayment
  <2> QED BY <1>1, <1>2, <2>1 DEF SessionsAreBooked
<1> QED BY <1>4, <1>5

\* A payment is a new row, and the sum grows by its amount.
LEMMA PaymentIsAdded ==
  ASSUME IInv, PaymentsAddUp, NEW t \in Requests, RegisterPayment(t)
  PROVE  IsFiniteSet(payments') /\ AmountsOf(payments') = invoice'.paid
<1>1. PICK p \in Payments, a \in Amounts :
         /\ payments' = payments \cup {p} /\ p.by = t /\ p.amount = a
         /\ invoice'.paid = invoice.paid + a
  BY PaymentIsBooked
<1>2. p \notin payments
  BY <1>1 DEF PaymentsAddUp, RegisterPayment
<1>3. p.amount \in Nat /\ \A q \in payments : q.amount \in Nat
  BY TotalAssumption DEF IInv, TypeOK, Payments
<1>4. AmountsOf(payments \cup {p}) = AmountsOf(payments) + p.amount
  BY <1>2, <1>3, SumOfOneMore DEF PaymentsAddUp
<1>5. IsFiniteSet(payments \cup {p})
  BY FS_AddElement DEF PaymentsAddUp
<1> QED BY <1>1, <1>4, <1>5 DEF PaymentsAddUp

LEMMA StepBooks ==
  ASSUME "remind" \notin Kinds, IInv, [Next]_vars
  PROVE  BooksAgree'
<1>0. /\ TypeOK /\ BooksAgree /\ Total \in Nat \ {0}
      /\ SessionsAreBooked /\ RowFitsBooks /\ PaymentsAddUp /\ PaymentSentOnceIsBookedOnce
      /\ "policy" \notin Kinds => IssuedInvoiceIsBooked /\ CreditReversesInvoice
  BY TotalAssumption DEF IInv, BooksAgree
<1>1. ASSUME NEW t \in Requests, RegisterPayment(t) PROVE BooksAgree'
  <2>1. PICK p \in Payments, a \in Amounts :
           /\ a <= Total - invoice.paid /\ payments' = payments \cup {p}
           /\ invoice'.paid = invoice.paid + a /\ ledger'.received = ledger.received + a
           /\ invoice'.refunded = invoice.refunded /\ ledger'.refunded = ledger.refunded
           /\ ledger'.invoiced = ledger.invoiced /\ ledger'.credited = ledger.credited
           /\ invoice'.status = IF invoice.paid + a >= Total THEN "PAID" ELSE "PARTIALLY_PAID"
           /\ p.ref \in Refs => \A q \in payments : q.ref # p.ref \/ q.amount # p.amount
    BY <1>1, PaymentIsBooked
  <2>2. invoice.paid \in 0 .. Total /\ a \in 1 .. Total /\ invoice.status \in Receiving
    BY <1>0, <1>1, PaymentFields DEF TypeOK, Invoices, Amounts
  <2>3. SessionsAreBooked'
    BY <1>0, <1>1, PaymentKeepsSessions
  <2>4. RowFitsBooks'
    BY <1>0, <2>1, <2>2 DEF RowFitsBooks
  <2>5. PaymentSentOnceIsBookedOnce'
    BY <1>0, <2>1 DEF PaymentSentOnceIsBookedOnce
  <2>6. IssuedInvoiceIsBooked => IssuedInvoiceIsBooked'
    <3>1. method' = method
      BY <1>1 DEF RegisterPayment
    <3> QED BY <2>1, <2>2, <3>1 DEF IssuedInvoiceIsBooked, Issued, Receiving
  <2>7. CreditReversesInvoice => CreditReversesInvoice'
    BY <2>1, <2>2 DEF CreditReversesInvoice, Receiving
  <2>8. PaymentsAddUp'
    <3>1. \A x \in payments' : pc'[x.by] = "done"
      <4>1. PICK n \in Payments : payments' = payments \cup {n} /\ n.by = t
        BY <1>1, PaymentIsBooked
      <4>2. pc'[t] = "done"
        BY <1>0, <1>1, EndsFinish, OthersStay DEF Ends, Writes
      <4>3. \A q \in payments : q.by \in Requests
        BY <1>0 DEF TypeOK, Payments
      <4> QED BY <1>0, <4>1, <4>2, <4>3, DoneStays DEF PaymentsAddUp
    <3> QED BY <1>0, <1>1, <3>1, PaymentIsAdded DEF PaymentsAddUp
  <2> QED BY <1>0, <2>3, <2>4, <2>5, <2>6, <2>7, <2>8 DEF BooksAgree
<1>2. ASSUME payments' = payments, invoice'.paid = invoice.paid PROVE PaymentsAddUp'
  <2>1. \A q \in payments : q.by \in Requests
    BY <1>0 DEF TypeOK, Payments
  <2> QED BY <1>0, <1>2, <2>1, DoneStays DEF PaymentsAddUp
<1>3. ASSUME NEW t \in Requests, Writes(t), ~RegisterPayment(t) PROVE BooksAgree'
  BY <1>0, <1>2, <1>3, OtherWrites DEF BooksAgree, SessionsAreBooked, PaymentSentOnceIsBookedOnce
<1>4. CASE UNCHANGED books
  <2>1. RowFitsBooks' /\ PaymentSentOnceIsBookedOnce' /\ PaymentsAddUp'
    BY <1>0, <1>2, <1>4 DEF books, RowFitsBooks, PaymentSentOnceIsBookedOnce
  <2>2. ASSUME "policy" \notin Kinds, method' # method PROVE FALSE
    <3>1. ASSUME NEW t \in Requests PROVE ~ChangePolicy(t)
      BY <2>2 DEF IInv, KindsOfPlaces, ChangePolicy, Is, Waiting
    <3>2. ASSUME NEW t \in Requests, Begin(t) \/ LocksAKey(t) \/ LockById(t) \/ Loads(t) PROVE method' = method
      BY <3>2 DEF Begin, LocksAKey, LockEvent, LockSession, LockBankRow, LockKey, LockById, Loads,
                  ReadInvoice, MergeLoad, register
    <3>3. ASSUME NEW t \in Requests, Ends(t) PROVE method' = method
      <4>1. CASE Writes(t)
        BY <4>1, WritesType
      <4>2. CASE Records(t)
        BY <4>2 DEF Records, RecordEvent, SkipRow, RemoveSkipped
      <4>3. CASE Leaves(t)
        BY <3>1, <4>3 DEF Leaves, ReturnIssued, IgnoreEvent, Refuse, Abort, register
      <4> QED BY <3>3, <4>1, <4>2, <4>3 DEF Ends, CreateSession, SaveMerged, register
    <3>4. CASE UNCHANGED vars
      BY <2>2, <3>4 DEF vars, register
    <3> QED BY <2>2, <3>2, <3>3, <3>4, StepCases
  <2>3. "policy" \notin Kinds => IssuedInvoiceIsBooked' /\ CreditReversesInvoice'
    BY <1>0, <1>4, <2>2 DEF books, IssuedInvoiceIsBooked, CreditReversesInvoice
  <2>4. SessionsAreBooked'
    <3>1. payments' = payments
      BY <1>4 DEF books
    <3>2. \A s \in Sessions : s \in marks' <=> s \in marks
      <4>1. ASSUME NEW t \in Requests, Ends(t) PROVE \A s \in Sessions : s \in marks' <=> s \in marks
        <5>1. ~RegisterPayment(t)
          BY <1>0, <1>4, PaymentIsBooked DEF books, TypeOK, Amounts
        <5> QED BY <4>1, <5>1, MarksGrow, KeysDiffer
      <4>2. ASSUME NEW t \in Requests, Begin(t) \/ LocksAKey(t) \/ LockById(t) \/ Loads(t) PROVE marks' = marks
        BY <4>2 DEF Begin, LocksAKey, LockEvent, LockSession, LockBankRow, LockKey, LockById, Loads,
                    ReadInvoice, MergeLoad, register
      <4>3. CASE UNCHANGED vars
        BY <4>3 DEF vars, register
      <4> QED BY <4>1, <4>2, <4>3, StepCases
    <3> QED BY <1>0, <3>1, <3>2 DEF SessionsAreBooked
  <2> QED BY <2>1, <2>3, <2>4 DEF BooksAgree
<1> QED BY <1>1, <1>3, <1>4, BooksStay, NobodyMerges

----------------------------------------------------------------------------
(* The invariant.                                                          *)

LEMMA InitIInv == Init => IInv
<1> SUFFICES ASSUME Init PROVE IInv
  OBVIOUS
<1> USE DEF Init
<1>1. TypeOK
  <2>1. Draft \in Invoices /\ NothingLoaded \in Copies
    BY TotalAssumption DEF Draft, Invoices, NothingLoaded, Copies
  <2>2. bankRows \in [BankRows -> [booked: Nat, skipped: Nat]] /\ sessions \in [Sessions -> 0 .. Total]
    BY TotalAssumption
  <2> QED BY <2>1, <2>2 DEF TypeOK, NoVouchers
<1>2. KindsOfPlaces /\ LockedCopyIsTrue /\ EventIsNew /\ EventsFollowSessions /\ RowIsUnused /\ CopiesAreOfAnInvoice
  BY DEF KindsOfPlaces, LockedCopyIsTrue, EventIsNew, EventsFollowSessions, RowIsUnused,
         CopiesAreOfAnInvoice, Waiting
<1>3. BankRowUsedOnce /\ IssuedIsNeverDeleted
  BY DEF BankRowUsedOnce, IssuedIsNeverDeleted, Draft
<1>4. BooksAgree
  BY TotalAssumption, SumOfNothing, FS_EmptySet
  DEF BooksAgree, SessionsAreBooked, RowFitsBooks, PaymentsAddUp, PaymentSentOnceIsBookedOnce,
      IssuedInvoiceIsBooked, CreditReversesInvoice, Draft, NoVouchers, Issued
<1> QED BY <1>1, <1>2, <1>3, <1>4 DEF IInv

LEMMA Invariance == Spec => []IInv
<1>1. IInv /\ [Next]_vars => IInv'
  BY StepType, StepPlaces, StepCopy, StepEvents, StepRows, StepCopies, StepDeleted, StepBooks DEF IInv
<1> QED BY InitIInv, <1>1, PTL DEF Spec

----------------------------------------------------------------------------
(* The theorems.                                                           *)

\* Every variable keeps its type, for all kinds of requests.
THEOREM InvoiceTypeCorrect == Spec => []TypeOK
<1>1. IInv => TypeOK
  BY DEF IInv
<1> QED BY Invariance, <1>1, PTL

\* An invoice that was issued or has journal rows is never deleted, for all
\* kinds of requests, reminders that merge an old copy included.
THEOREM IssuedInvoiceIsKept == Spec => []IssuedIsNeverDeleted
<1>1. IInv => IssuedIsNeverDeleted
  BY DEF IInv
<1> QED BY Invariance, <1>1, PTL

\* Without reminders, whose merge does not lock the row, a payment a client
\* sends again is on the invoice once.
THEOREM InvoicePaymentsAreNew ==
  "remind" \notin Kinds => (Spec => []PaymentSentOnceIsBookedOnce)
<1> SUFFICES ASSUME "remind" \notin Kinds PROVE Spec => []PaymentSentOnceIsBookedOnce
  OBVIOUS
<1>1. IInv => PaymentSentOnceIsBookedOnce
  BY DEF IInv, BooksAgree
<1> QED BY Invariance, <1>1, PTL

LEMMA EventIsBookedOnce ==
  ASSUME "remind" \notin Kinds, IInv PROVE RecordedEventIsBooked
<1> SUFFICES ASSUME NEW e \in PaidEvents \cap marks
             PROVE  Cardinality({p \in payments : p.ref = SessionOf[e]}) = 1
  BY DEF RecordedEventIsBooked
<1>1. SessionOf[e] \in Sessions /\ SessionOf[e] \in marks
  BY EventsAssumption DEF IInv, EventsFollowSessions
<1>2. PICK p \in payments : p.ref = SessionOf[e]
  BY <1>1 DEF IInv, BooksAgree, SessionsAreBooked
<1>3. {q \in payments : q.ref = SessionOf[e]} = {p}
  BY <1>1, <1>2 DEF IInv, BooksAgree, SessionsAreBooked
<1> QED BY <1>3, FS_Singleton

\* Without reminders and changes of the method, the row, the journal, the
\* events of Stripe and the rows of the bank agree.
THEOREM InvoiceBooksAreSound ==
  {"remind", "policy"} \cap Kinds = {} => (Spec => []InvoiceIsSound)
<1> SUFFICES ASSUME {"remind", "policy"} \cap Kinds = {} PROVE Spec => []InvoiceIsSound
  OBVIOUS
<1>1. IInv => InvoiceIsSound
  BY EventIsBookedOnce DEF IInv, BooksAgree, InvoiceIsSound
<1> QED BY Invariance, <1>1, PTL

\* Without reminders and changes of the method, the journal says of the
\* invoice what its row says, and its payment rows add up to the paid amount.
THEOREM InvoiceBooksMatch ==
  {"remind", "policy"} \cap Kinds = {} => (Spec => []BooksMatchInvoice)
<1> SUFFICES ASSUME {"remind", "policy"} \cap Kinds = {} PROVE Spec => []BooksMatchInvoice
  OBVIOUS
<1>1. IInv => BooksMatchInvoice
  BY DEF IInv, BooksAgree, RowFitsBooks, PaymentsAddUp, CreditReversesInvoice, BooksMatchInvoice
<1> QED BY Invariance, <1>1, PTL

----------------------------------------------------------------------------
(* Invoice implements Receivable.                                          *)

LEMMA StageCases ==
  /\ invoice.status = "DRAFT" => Stage = "draft"
  /\ invoice.status \in Receiving => Stage = "open"
  /\ invoice.status = "CREDITED" => Stage = "credited"
  /\ invoice.status = "DELETED" => Stage = "gone"
BY DEF Stage, Receiving

LEMMA StageCasesNext ==
  /\ invoice'.status = "DRAFT" => Stage' = "draft"
  /\ invoice'.status \in Receiving => Stage' = "open"
  /\ invoice'.status = "CREDITED" => Stage' = "credited"
  /\ invoice'.status = "DELETED" => Stage' = "gone"
BY DEF Stage, Receiving

LEMMA Ranks ==
  /\ Rank("DRAFT") = 0 /\ Rank("SENT") = 1 /\ Rank("PARTIALLY_PAID") = 2
  /\ Rank("PAID") = 3 /\ Rank("CREDITED") = 4 /\ Rank("DELETED") = 4
BY DEF Rank

\* What a step of Invoice is to the receivable, and to the status.
Forward == Rank(invoice'.status) >= Rank(invoice.status)
AsReceivable == Account!ReceivableNext \/ UNCHANGED Account!receivableVars

LEMMA WritesAsReceivable ==
  ASSUME IInv, BooksAgree, NEW t \in Requests, Writes(t)
  PROVE  AsReceivable /\ Forward
<1>0. /\ TypeOK /\ RowFitsBooks /\ Row(t) = invoice /\ Total \in Nat \ {0}
  BY LockedJob, TotalAssumption
  DEF BooksAgree, IInv, Writes, IssueInvoice, RegisterPayment, Refund, Credit, DeleteInvoice, Waiting
<1> USE DEF AsReceivable, Forward, Account!ReceivableNext, Account!receivableVars
<1>1. CASE IssueInvoice(t)
  <2>1. invoice.status = "DRAFT" /\ invoice'.status = "SENT"
    BY <1>0, <1>1 DEF IssueInvoice, IssueAllowed, TypeOK, Invoices
  <2>2. ledger'.received = ledger.received /\ ledger'.refunded = ledger.refunded
    BY <1>0, <1>1 DEF IssueInvoice, TypeOK
  <2>3. Stage = "draft" /\ Stage' = "open"
    BY <2>1, StageCases, StageCasesNext DEF Receiving
  <2>4. Forward
    BY <2>1, Ranks
  <2> QED BY <2>2, <2>3, <2>4 DEF Account!Settle
<1>2. CASE RegisterPayment(t)
  <2>1. PICK a \in Amounts :
           /\ a <= Total - invoice.paid /\ ledger'.received = ledger.received + a
           /\ ledger'.refunded = ledger.refunded
           /\ invoice'.status = IF invoice.paid + a >= Total THEN "PAID" ELSE "PARTIALLY_PAID"
    BY <1>2, PaymentIsBooked
  <2>2. invoice.status \in Receiving /\ invoice.paid \in 0 .. Total /\ ledger.received = invoice.paid
    BY <1>0, <1>2, PaymentFields DEF TypeOK, Invoices, RowFitsBooks
  <2>3. a \in 1 .. Total - ledger.received
    BY <1>0, <2>1, <2>2 DEF Amounts
  <2>4. Stage = "open" /\ Stage' = "open"
    BY <2>1, <2>2, StageCases, StageCasesNext DEF Receiving
  <2>5. Forward
    <3>1. invoice.status # "PAID"
      BY <1>0, <2>2, <2>3 DEF RowFitsBooks
    <3>2. invoice.status \in {"SENT", "PARTIALLY_PAID"} /\ invoice'.status \in {"PARTIALLY_PAID", "PAID"}
      BY <2>1, <2>2, <3>1 DEF Receiving
    <3> QED BY <3>2, Ranks
  <2> QED BY <2>1, <2>3, <2>4, <2>5 DEF Account!Receive
<1>3. CASE Refund(t)
  <2>1. /\ job[t].amount \in 1 .. Total /\ invoice.status = "CREDITED"
        /\ job[t].amount <= invoice.paid - invoice.refunded
    BY <1>3, RefundFields DEF Amounts
  <2>2. /\ invoice'.status = invoice.status /\ ledger'.received = ledger.received
        /\ ledger'.refunded = ledger.refunded + job[t].amount
    BY <1>0, <1>3 DEF Refund, TypeOK, Invoices
  <2>3. job[t].amount \in 1 .. ledger.received - ledger.refunded
    BY <1>0, <2>1 DEF RowFitsBooks, TypeOK
  <2>4. Stage = "credited" /\ Stage' = "credited"
    BY <2>1, <2>2, StageCases, StageCasesNext
  <2>5. Forward
    BY <2>1, <2>2, Ranks
  <2> QED BY <2>2, <2>3, <2>4, <2>5 DEF Account!Return
<1>4. CASE Credit(t)
  <2>1. invoice.status \in Receiving /\ invoice'.status = "CREDITED"
    BY <1>0, <1>4 DEF Credit, CreditAllowed, TypeOK, Invoices
  <2>2. ledger'.received = ledger.received /\ ledger'.refunded = ledger.refunded
    BY <1>0, <1>4 DEF Credit, TypeOK
  <2>3. Stage = "open" /\ Stage' = "credited"
    BY <2>1, StageCases, StageCasesNext
  <2>4. Forward
    BY <2>1, Ranks DEF Receiving
  <2> QED BY <2>2, <2>3, <2>4 DEF Account!CreditNote
<1>5. CASE DeleteInvoice(t)
  <2>1. invoice.status = "DRAFT" /\ invoice'.status = "DELETED" /\ ledger' = ledger
    BY <1>0, <1>5 DEF DeleteInvoice, DeleteAllowed, Draft
  <2>2. Stage = "draft" /\ Stage' = "gone"
    BY <2>1, StageCases, StageCasesNext
  <2>3. Forward
    BY <2>1, Ranks
  <2> QED BY <2>1, <2>2, <2>3 DEF Account!Settle
<1> QED BY <1>1, <1>2, <1>3, <1>4, <1>5 DEF Writes

LEMMA StepAsReceivable ==
  ASSUME "remind" \notin Kinds, IInv, [Next]_vars
  PROVE  AsReceivable /\ Forward
<1>1. TypeOK /\ BooksAgree
  BY DEF IInv
<1>2. CASE UNCHANGED books
  <2>1. Stage' = Stage
    BY <1>2 DEF books, Stage
  <2>2. Rank(invoice.status) \in Nat
    BY <1>1, Ranks DEF TypeOK, Invoices, Issued
  <2> QED BY <1>2, <2>1, <2>2 DEF books, AsReceivable, Forward, Account!receivableVars
<1> QED BY <1>1, <1>2, BooksStay, NobodyMerges, WritesAsReceivable

\* Without reminders, whatever the client, the bank and Stripe send, the
\* invoice moves as one receivable and its status never falls back.
THEOREM InvoiceImplementsReceivable == "remind" \notin Kinds => (Spec => MovesAsReceivable)
<1> SUFFICES ASSUME "remind" \notin Kinds PROVE Spec => MovesAsReceivable
  OBVIOUS
<1>1. Init => Account!ReceivableInit
  BY StageCases DEF Init, Account!ReceivableInit, Draft, NoVouchers
<1>2. IInv /\ [Next]_vars =>
        [Account!ReceivableNext]_Account!receivableVars /\ [Forward]_vars
  BY StepAsReceivable DEF AsReceivable
<1> QED BY Invariance, <1>1, <1>2, PTL
  DEF Spec, MovesAsReceivable, ImplementsReceivable, Account!ReceivableSpec, StatusNeverMovesBack, Forward
=============================================================================
