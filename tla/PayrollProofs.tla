--------------------------- MODULE PayrollProofs ---------------------------
(***************************************************************************)
(* Proofs about Payroll for every number of browsers, employees, months,   *)
(* salaries and clicks: what no reload, restore or late answer can break.  *)
(***************************************************************************)
EXTENDS Payroll, TLAPS

----------------------------------------------------------------------------
(* The inductive invariant.                                                *)

\* What the answers under way know of the books is true of the books.
BookingsAreSound ==
  \A b \in bookings :
    /\ b.kind \notin TaxKinds => b.at \in Rows
    /\ b.state = "posted" => HasVoucher(b.number, Purpose(b))
    /\ \A d \in b.done : HasVoucher(d.voucher, Salary(d.id))

\* One copy of the payroll agrees with itself and with the books.
Sound(p) ==
  /\ \A id \in Ids : p.drafts[id] # Absent =>
       HasVoucher(p.drafts[id].voucher, Salary(id)) /\ p.drafts[id].employee \in p.employees
  /\ \A k \in TaxKinds, m \in Months : HasVoucher(p.marks[k][m], Tax(k, m))

\* A page that may be saved by itself has been read or restored.
SavedPagesAreBased ==
  \A c \in Clients :
    /\ timer[c] => based[c]
    /\ signedIn[c] /\ autoSync[c] /\ ready[c] => based[c]

\* A save that has come to its second write has its revision.
RevisionsComeFirst ==
  /\ \A s \in saves : s.kept => s.content \in revisions
  /\ StoredIsKept

IInv ==
  /\ TypeOK /\ BookingsAreSound /\ CopiesAreSound
  /\ SavedPagesAreBased /\ RevisionsComeFirst

----------------------------------------------------------------------------
(* What the handlers make of a page.                                       *)

LEMMA ContentFields ==
  ASSUME NEW p \in Content
  PROVE  /\ p.employees \in SUBSET Employees /\ p.drafts \in [Ids -> Drafts \cup {Absent}]
         /\ p.paid \in SUBSET Ids /\ p.batches \in SUBSET [rows: SUBSET Ids, paid: BOOLEAN]
         /\ p.marks \in [TaxKinds -> [Months -> Nat]]
         /\ \A id \in Ids : p.drafts[id] # Absent => p.drafts[id] \in Drafts
BY DEF Content

\* The page with other employees and payments, the drafts untouched.
LEMMA WithPeople ==
  ASSUME NEW p \in Content, NEW people \in SUBSET Employees, NEW paid \in SUBSET Ids,
         NEW batches \in SUBSET [rows: SUBSET Ids, paid: BOOLEAN]
  PROVE  /\ [p EXCEPT !.employees = people] \in Content
         /\ [p EXCEPT !.paid = paid] \in Content
         /\ [p EXCEPT !.batches = batches] \in Content
         /\ [p EXCEPT !.paid = paid, !.batches = batches] \in Content
BY DEF Content

\* Who has a draft must stay; payments do not matter to soundness.
LEMMA SoundPeople ==
  ASSUME NEW p \in Content, Sound(p), NEW people \in SUBSET Employees, NEW paid \in SUBSET Ids,
         NEW batches \in SUBSET [rows: SUBSET Ids, paid: BOOLEAN]
  PROVE  /\ (\A id \in Ids : p.drafts[id] # Absent => p.drafts[id].employee \in people)
              => Sound([p EXCEPT !.employees = people])
         /\ Sound([p EXCEPT !.paid = paid])
         /\ Sound([p EXCEPT !.batches = batches])
         /\ Sound([p EXCEPT !.paid = paid, !.batches = batches])
BY DEF Content, Sound

LEMMA NotAbsent == \A d \in Drafts : d # Absent
BY DEF Drafts, Absent

LEMMA NotNothing == \A p \in Content : p # Nothing
<1> SUFFICES ASSUME NEW p \in Content PROVE p # Nothing
  OBVIOUS
<1>1. "drafts" \in DOMAIN p
  BY DEF Content
<1>2. "drafts" \notin DOMAIN Nothing
  BY DEF Nothing
<1> QED BY <1>1, <1>2

LEMMA WithDraft ==
  ASSUME NEW p \in Content, NEW e \in Employees, NEW id \in Ids, NEW d \in Drafts
  PROVE  LET q == [p EXCEPT !.employees = @ \cup {e}, !.drafts[id] = d]
         IN  /\ q \in Content /\ q.employees = p.employees \cup {e} /\ q.marks = p.marks
             /\ q.drafts = [p.drafts EXCEPT ![id] = d]
BY DEF Content

LEMMA WithoutDraftFields ==
  ASSUME NEW p \in Content, NEW id \in Ids
  PROVE  LET q == WithoutDraft(p, id)
         IN  /\ q \in Content /\ q.employees = p.employees /\ q.marks = p.marks
             /\ q.drafts = [p.drafts EXCEPT ![id] = Absent]
BY DEF Content, WithoutDraft

LEMMA WithMark ==
  ASSUME NEW p \in Content, NEW k \in TaxKinds, NEW m \in Months, NEW n \in Nat
  PROVE  LET q == [p EXCEPT !.marks[k][m] = n]
         IN  /\ q \in Content /\ q.employees = p.employees /\ q.drafts = p.drafts
             /\ \A l \in TaxKinds, o \in Months :
                  q.marks[l][o] = IF l = k /\ o = m THEN n ELSE p.marks[l][o]
BY DEF Content

LEMMA ChosenOne == ASSUME NEW S, S # {} PROVE (CHOOSE d \in S : TRUE) \in S
OBVIOUS

\* A draft is as it was, or has the number one of the answers brought.
LEMMA WithVouchersFields ==
  ASSUME NEW p \in Content, NEW done \in SUBSET [id: Ids, voucher: Nat]
  PROVE  LET q == WithVouchers(p, done)
         IN  /\ q \in Content /\ q.employees = p.employees /\ q.marks = p.marks
             /\ \A id \in Ids :
                  \/ q.drafts[id] = p.drafts[id]
                  \/ /\ p.drafts[id] # Absent /\ q.drafts[id].employee = p.drafts[id].employee
                     /\ \E d \in done : d.id = id /\ q.drafts[id].voucher = d.voucher
<1> DEFINE mine(id) == {d \in done : d.id = id}
           draft(id) == IF p.drafts[id] = Absent \/ mine(id) = {} THEN p.drafts[id]
                        ELSE [p.drafts[id] EXCEPT !.voucher = (CHOOSE d \in mine(id) : TRUE).voucher]
           q == WithVouchers(p, done)
<1>1. ASSUME NEW id \in Ids
      PROVE  /\ draft(id) \in Drafts \cup {Absent}
             /\ \/ draft(id) = p.drafts[id]
                \/ /\ p.drafts[id] # Absent /\ draft(id).employee = p.drafts[id].employee
                   /\ \E d \in done : d.id = id /\ draft(id).voucher = d.voucher
  <2>1. CASE p.drafts[id] = Absent \/ mine(id) = {}
    BY <2>1, ContentFields
  <2>2. CASE ~(p.drafts[id] = Absent \/ mine(id) = {})
    <3> DEFINE d == CHOOSE x \in mine(id) : TRUE
    <3>1. d \in mine(id)
      BY <2>2, ChosenOne
    <3>2. d \in done /\ d.id = id /\ d.voucher \in Nat
      BY <3>1
    <3>3. draft(id) = [p.drafts[id] EXCEPT !.voucher = d.voucher] /\ p.drafts[id] \in Drafts
      BY <2>2, ContentFields
    <3> HIDE DEF d, draft, mine
    <3>4. draft(id) \in Drafts /\ draft(id).voucher = d.voucher
          /\ draft(id).employee = p.drafts[id].employee
      BY <3>2, <3>3 DEF Drafts
    <3> QED BY <2>2, <3>2, <3>4
  <2> QED BY <2>1, <2>2
<1>2. q = [p EXCEPT !.drafts = [id \in Ids |-> draft(id)]]
  BY DEF WithVouchers
<1> HIDE DEF draft, q
<1>3. [id \in Ids |-> draft(id)] \in [Ids -> Drafts \cup {Absent}]
  BY <1>1
<1>4. q \in Content /\ q.employees = p.employees /\ q.marks = p.marks
      /\ q.drafts = [id \in Ids |-> draft(id)]
  BY <1>2, <1>3 DEF Content
<1> QED BY <1>1, <1>4 DEF q
----------------------------------------------------------------------------
(* Types.                                                                  *)

ClientOK ==
  /\ page \in [Clients -> Content]
  /\ signedIn \in [Clients -> BOOLEAN] /\ autoSync \in [Clients -> BOOLEAN]
  /\ ready \in [Clients -> BOOLEAN] /\ timer \in [Clients -> BOOLEAN]
  /\ based \in [Clients -> BOOLEAN]
RequestsOK == bookings \subseteq Bookings /\ saves \subseteq Saves /\ loads \subseteq Loads
ServerOK ==
  /\ stored \in Content \cup {Nothing} /\ revisions \subseteq Content
  /\ vouchers \in Seq(Purposes)

LEMMA TypeParts == TypeOK <=> ClientOK /\ RequestsOK /\ ServerOK /\ clicks \in 0 .. MaxClicks
BY DEF TypeOK, ClientOK, RequestsOK, ServerOK

LEMMA ClickType ==
  ASSUME NEW kind, Click(kind), clicks \in 0 .. MaxClicks
  PROVE  clicks + 1 \in Ids /\ clicks' = clicks + 1 /\ clicks' \in 0 .. MaxClicks
BY KindsAssumption DEF Click, Ids

LEMMA SetPageType ==
  ASSUME ClientOK, NEW c \in Clients, NEW p \in Content, SetPage(c, p)
  PROVE  ClientOK'
BY DEF ClientOK, SetPage, Autosaves

LEMMA SyncEffectType ==
  ASSUME ClientOK, NEW c \in Clients, NEW token \in BOOLEAN, NEW auto \in BOOLEAN,
         SyncEffect(c, token, auto), page' = page
  PROVE  ClientOK'
BY DEF ClientOK, SyncEffect

LEMMA ApplyType ==
  ASSUME ClientOK, NEW c \in Clients, NEW p \in Content, NEW isReady \in BOOLEAN,
         Apply(c, p, isReady)
  PROVE  ClientOK'
BY DEF ClientOK, Apply

LEMMA NothingStoredType ==
  ASSUME ClientOK, NEW c \in Clients, NEW isReady \in BOOLEAN, NothingStored(c, isReady)
  PROVE  ClientOK'
BY DEF ClientOK, NothingStored

LEMMA FirstLoadType ==
  ASSUME NEW c \in Clients
  PROVE  /\ FirstLoad(c) \in Loads /\ FirstLoad(c).content = Nothing
         /\ \A isReady \in BOOLEAN :
              LET l == [FirstLoad(c) EXCEPT !.markReady = FALSE, !.wasReady = isReady]
              IN  l \in Loads /\ l.content = Nothing
BY DEF FirstLoad, Loads

LEMMA RowType ==
  ASSUME NEW p \in Content, NEW id \in Ids, p.drafts[id] # Absent
  PROVE  RowOf(p, id) \in Rows /\ RowOf(p, id).id = id
BY ContentFields DEF RowOf, Rows, Drafts

LEMMA BookingType ==
  ASSUME ClientOK, NEW c \in Clients, NEW kind \in {"draft", "month"} \cup TaxKinds,
         NEW m \in Months, NEW rows \in SUBSET Rows, NEW first \in Rows \cup {Absent},
         clicks + 1 \in Ids
  PROVE  LET b == Booking(c, kind, m, rows, first)
         IN  /\ b \in Bookings /\ b.kind = kind /\ b.at = first /\ b.state = "sent" /\ b.done = {}
BY DEF Booking, Bookings

\* The clicks that change a page and nothing else.
Edits(c) ==
  \/ \E e \in Employees : SaveEmployee(c, e) \/ RemoveEmployee(c, e)
  \/ \E e \in Employees, m \in Months, gross \in Salaries, rate \in TaxRates :
       CreateDraft(c, e, m, gross, rate)
  \/ \E id \in Ids : DeleteDraft(c, id) \/ TickPaid(c, id)
  \/ \E m \in Months : CreateBatch(c, m)
  \/ MarkBatchPaid(c)

LEMMA EditsSetPage ==
  ASSUME TypeOK, NEW c \in Clients, Edits(c)
  PROVE  /\ \E p \in Content : SetPage(c, p) /\ (Sound(page[c]) => Sound(p))
         /\ UNCHANGED <<requests, server>> /\ clicks' \in 0 .. MaxClicks
<1> DEFINE p == page[c]
           Goal == /\ \E q \in Content : SetPage(c, q) /\ (Sound(p) => Sound(q))
                   /\ UNCHANGED <<requests, server>> /\ clicks' \in 0 .. MaxClicks
<1>0. /\ p \in Content /\ clicks \in 0 .. MaxClicks
      /\ p.employees \in SUBSET Employees /\ p.paid \in SUBSET Ids
      /\ p.batches \in SUBSET [rows: SUBSET Ids, paid: BOOLEAN]
      /\ Sound(p) => \A id \in Ids : p.drafts[id] # Absent => p.drafts[id].employee \in p.employees
  BY ContentFields DEF TypeOK, Sound
<1> HIDE DEF p
<1>1. ASSUME NEW e \in Employees, SaveEmployee(c, e) PROVE Goal
  <2>1. /\ [p EXCEPT !.employees = p.employees \cup {e}] \in Content
        /\ Sound(p) => Sound([p EXCEPT !.employees = p.employees \cup {e}])
    BY <1>0, WithPeople, SoundPeople
  <2> QED BY <1>0, <1>1, <2>1, ClickType DEF SaveEmployee, p
<1>2. ASSUME NEW e \in Employees, RemoveEmployee(c, e) PROVE Goal
  <2>0. HasNoDrafts(p, e)
    BY <1>2 DEF RemoveEmployee, p
  <2>1. /\ [p EXCEPT !.employees = p.employees \ {e}] \in Content
        /\ Sound(p) => Sound([p EXCEPT !.employees = p.employees \ {e}])
    BY <1>0, <2>0, WithPeople, SoundPeople DEF HasNoDrafts
  <2> QED BY <1>0, <1>2, <2>1, ClickType DEF RemoveEmployee, p
<1>3. ASSUME NEW e \in Employees, NEW m \in Months, NEW gross \in Salaries, NEW rate \in TaxRates,
             CreateDraft(c, e, m, gross, rate)
      PROVE  Goal
  <2> DEFINE d == [employee |-> e, month |-> m, gross |-> gross, rate |-> rate, voucher |-> 0]
  <2>1. d \in Drafts
    BY DEF Drafts
  <2>2. clicks + 1 \in Ids /\ clicks' \in 0 .. MaxClicks
    BY <1>0, <1>3, ClickType DEF CreateDraft
  <2>3. [p EXCEPT !.employees = p.employees \cup {e}, !.drafts[clicks + 1] = d] \in Content
    BY <1>0, <2>1, <2>2, WithDraft
  <2>4. ASSUME Sound(p)
        PROVE  Sound([p EXCEPT !.employees = p.employees \cup {e}, !.drafts[clicks + 1] = d])
    <3> DEFINE q == [p EXCEPT !.employees = p.employees \cup {e}, !.drafts[clicks + 1] = d]
    <3>1. /\ q.employees = p.employees \cup {e} /\ q.marks = p.marks
          /\ q.drafts = [p.drafts EXCEPT ![clicks + 1] = d]
          /\ p.drafts \in [Ids -> Drafts \cup {Absent}]
      BY <1>0, <2>1, <2>2 DEF Content
    <3> HIDE DEF q
    <3>2. d.employee = e /\ HasVoucher(d.voucher, Salary(clicks + 1))
      BY DEF HasVoucher
    <3> QED BY <2>4, <3>1, <3>2 DEF Sound
  <2> QED BY <1>3, <2>2, <2>3, <2>4 DEF CreateDraft, p
<1>4. ASSUME NEW id \in Ids, DeleteDraft(c, id) PROVE Goal
  <2> DEFINE q == WithoutDraft(p, id)
  <2>0. /\ q \in Content /\ q.employees = p.employees /\ q.marks = p.marks
        /\ q.drafts = [p.drafts EXCEPT ![id] = Absent] /\ p.drafts \in [Ids -> Drafts \cup {Absent}]
    BY <1>0, WithoutDraftFields, ContentFields
  <2> HIDE DEF q
  <2>1. q \in Content /\ (Sound(p) => Sound(q))
    BY <2>0 DEF Sound
  <2> USE DEF q
  <2> QED BY <1>0, <1>4, <2>1, ClickType DEF DeleteDraft, p
<1>5. ASSUME NEW id \in Ids, TickPaid(c, id) PROVE Goal
  <2>1. (IF id \in p.paid THEN p.paid \ {id} ELSE p.paid \cup {id}) \in SUBSET Ids
    BY <1>0
  <2> DEFINE q == [p EXCEPT !.paid = IF id \in p.paid THEN p.paid \ {id} ELSE p.paid \cup {id}]
  <2>2. q \in Content /\ (Sound(p) => Sound(q))
    BY <1>0, <2>1, WithPeople, SoundPeople
  <2> QED BY <1>0, <1>5, <2>2, ClickType DEF TickPaid, p
<1>6. ASSUME NEW m \in Months, CreateBatch(c, m) PROVE Goal
  <2> DEFINE batch == [rows |-> DraftsOf(p, m), paid |-> FALSE]
  <2>1. batch \in [rows: SUBSET Ids, paid: BOOLEAN]
    BY DEF DraftsOf
  <2>2. p.batches \cup {batch} \in SUBSET [rows: SUBSET Ids, paid: BOOLEAN]
    BY <1>0, <2>1
  <2>3. /\ [p EXCEPT !.batches = p.batches \cup {batch}] \in Content
        /\ Sound(p) => Sound([p EXCEPT !.batches = p.batches \cup {batch}])
    BY <1>0, <2>2, WithPeople, SoundPeople
  <2> QED BY <1>0, <1>6, <2>3, ClickType DEF CreateBatch, p
<1>7. ASSUME MarkBatchPaid(c) PROVE Goal
  <2>1. PICK b \in p.batches :
          SetPage(c, [p EXCEPT !.paid = p.paid \cup b.rows,
                               !.batches = (p.batches \ {b}) \cup {[b EXCEPT !.paid = TRUE]}])
    BY <1>7 DEF MarkBatchPaid, p
  <2>2. /\ p.paid \cup b.rows \in SUBSET Ids
        /\ (p.batches \ {b}) \cup {[b EXCEPT !.paid = TRUE]} \in SUBSET [rows: SUBSET Ids, paid: BOOLEAN]
    BY <1>0
  <2> DEFINE q == [p EXCEPT !.paid = p.paid \cup b.rows,
                            !.batches = (p.batches \ {b}) \cup {[b EXCEPT !.paid = TRUE]}]
  <2>3. q \in Content /\ (Sound(p) => Sound(q))
    BY <1>0, <2>2, WithPeople, SoundPeople
  <2> QED BY <1>0, <1>7, <2>1, <2>3, ClickType DEF MarkBatchPaid, p
<1> QED BY <1>1, <1>2, <1>3, <1>4, <1>5, <1>6, <1>7 DEF Edits, p

\* The steps of a booking: asked for, and under way.
Books(c) ==
  \/ \E id \in Ids : BookDraft(c, id)
  \/ \E m \in Months : BookMonth(c, m)
  \/ \E k \in TaxKinds, m \in Months : BookTax(c, k, m)

LEMMA BooksType ==
  ASSUME TypeOK, NEW c \in Clients, Books(c)
  PROVE  /\ \E b \in Bookings :
              /\ bookings' = bookings \cup {b} /\ b.state = "sent" /\ b.done = {}
              /\ b.kind \notin TaxKinds => b.at \in Rows
         /\ UNCHANGED <<client, saves, loads, server>> /\ clicks' \in 0 .. MaxClicks
<1> DEFINE p == page[c]
           Goal == /\ \E b \in Bookings :
                        /\ bookings' = bookings \cup {b} /\ b.state = "sent" /\ b.done = {}
                        /\ b.kind \notin TaxKinds => b.at \in Rows
                   /\ UNCHANGED <<client, saves, loads, server>> /\ clicks' \in 0 .. MaxClicks
<1>0. p \in Content /\ ClientOK /\ clicks \in 0 .. MaxClicks
  BY TypeParts DEF ClientOK
<1> HIDE DEF p
<1>1. ASSUME NEW id \in Ids, BookDraft(c, id) PROVE Goal
  <2>1. /\ p.drafts[id] # Absent /\ clicks + 1 \in Ids /\ clicks' \in 0 .. MaxClicks
        /\ Send(Booking(c, "draft", p.drafts[id].month, {}, RowOf(p, id)))
    BY <1>0, <1>1, ClickType DEF BookDraft, p
  <2>2. RowOf(p, id) \in Rows /\ p.drafts[id].month \in Months
    BY <1>0, <2>1, RowType, ContentFields DEF Drafts
  <2> DEFINE b == Booking(c, "draft", p.drafts[id].month, {}, RowOf(p, id))
  <2>3. {} \in SUBSET Rows /\ RowOf(p, id) \in Rows \cup {Absent} /\ clicks + 1 \in Ids
    BY <2>1, <2>2
  <2>4. b \in Bookings /\ b.at = RowOf(p, id) /\ b.state = "sent" /\ b.done = {}
    BY <2>2, <2>3 DEF Booking, Bookings
  <2>5. bookings' = bookings \cup {b} /\ UNCHANGED <<client, saves, loads, server>>
    BY <2>1 DEF Send
  <2> HIDE DEF b
  <2> QED BY <2>1, <2>2, <2>4, <2>5
<1>2. ASSUME NEW m \in Months, BookMonth(c, m) PROVE Goal
  <2> DEFINE rows == {RowOf(p, id) : id \in Unbooked(p, m)}
  <2>1. clicks + 1 \in Ids /\ clicks' \in 0 .. MaxClicks
    BY <1>0, <1>2, ClickType DEF BookMonth
  <2>2. PICK first \in rows : Send(Booking(c, "month", m, rows, first))
    BY <1>2 DEF BookMonth, p
  <2>3. \A id \in Unbooked(p, m) : id \in Ids /\ p.drafts[id] # Absent
    BY DEF Unbooked, DraftsOf
  <2>4. rows \in SUBSET Rows
    BY <1>0, <2>3, RowType
  <2> HIDE DEF rows
  <2>5. first \in Rows /\ first \in Rows \cup {Absent}
    BY <2>2, <2>4
  <2>6. /\ Booking(c, "month", m, rows, first) \in Bookings
        /\ Booking(c, "month", m, rows, first).state = "sent"
        /\ Booking(c, "month", m, rows, first).done = {}
        /\ Booking(c, "month", m, rows, first).at = first
    BY <1>0, <2>1, <2>4, <2>5, BookingType
  <2> QED BY <2>1, <2>2, <2>5, <2>6 DEF Send
<1>3. ASSUME NEW k \in TaxKinds, NEW m \in Months, BookTax(c, k, m) PROVE Goal
  <2>1. /\ clicks + 1 \in Ids /\ clicks' \in 0 .. MaxClicks
        /\ Send(Booking(c, k, m, {}, Absent))
    BY <1>0, <1>3, ClickType DEF BookTax
  <2> DEFINE b == Booking(c, k, m, {}, Absent)
  <2>2. {} \in SUBSET Rows /\ Absent \in Rows \cup {Absent} /\ clicks + 1 \in Ids
    BY <2>1
  <2>3. b \in Bookings /\ b.kind = k /\ b.state = "sent" /\ b.done = {}
    BY <2>2 DEF Booking, Bookings
  <2>4. bookings' = bookings \cup {b} /\ UNCHANGED <<client, saves, loads, server>>
    BY <2>1 DEF Send
  <2> HIDE DEF b
  <2> QED BY <2>1, <2>3, <2>4
<1> QED BY <1>1, <1>2, <1>3 DEF Books

\* What the server and the network make of a booking; what it may post.
LEMMA BookingSteps ==
  ASSUME TypeOK, NEW b \in bookings, b.kind \notin TaxKinds => b.at \in Rows
  PROVE  /\ [b EXCEPT !.heard = FALSE] \in Bookings
         /\ [b EXCEPT !.state = "posted", !.number = Len(vouchers) + 1] \in Bookings
         /\ [b EXCEPT !.state = "refused"] \in Bookings
         /\ Purpose(b) \in Purposes
         /\ b.kind \notin TaxKinds => Booked(b) \in SUBSET [id: Ids, voucher: Nat]
         /\ b.kind \notin TaxKinds => \A next \in b.todo :
              [b EXCEPT !.todo = @ \ {next}, !.done = Booked(b), !.at = next, !.state = "sent",
                        !.number = 0] \in Bookings
<1>0. b \in Bookings /\ vouchers \in Seq(Purposes)
  BY DEF TypeOK
<1>1. Len(vouchers) + 1 \in Nat
  BY <1>0
<1>2. [b EXCEPT !.state = "posted", !.number = Len(vouchers) + 1] \in Bookings
  BY <1>0, <1>1 DEF Bookings
<1>3. [b EXCEPT !.heard = FALSE] \in Bookings /\ [b EXCEPT !.state = "refused"] \in Bookings
  BY <1>0 DEF Bookings
<1>4. Purpose(b) \in Purposes
  BY <1>0 DEF Purpose, Purposes, Tax, Salary, Bookings, Rows
<1>5. ASSUME b.kind \notin TaxKinds PROVE Booked(b) \in SUBSET [id: Ids, voucher: Nat]
  <2>1. b.at.id \in Ids /\ b.number \in Nat /\ b.done \in SUBSET [id: Ids, voucher: Nat]
    BY <1>0, <1>5 DEF Bookings, Rows
  <2> QED BY <2>1 DEF Booked
<1>6. ASSUME b.kind \notin TaxKinds, NEW next \in b.todo
      PROVE  [b EXCEPT !.todo = @ \ {next}, !.done = Booked(b), !.at = next, !.state = "sent",
                       !.number = 0] \in Bookings
  <2>1. next \in Rows /\ b.todo \ {next} \in SUBSET Rows
    BY <1>0 DEF Bookings
  <2> HIDE DEF Booked
  <2> QED BY <1>0, <1>5, <1>6, <2>1 DEF Bookings
<1> QED BY <1>2, <1>3, <1>4, <1>5, <1>6

LEMMA StepType == TypeOK /\ BookingsAreSound /\ [Next]_vars => TypeOK'
<1> SUFFICES ASSUME TypeOK, BookingsAreSound, [Next]_vars PROVE TypeOK'
  OBVIOUS
<1>0. /\ ClientOK /\ RequestsOK /\ ServerOK /\ clicks \in 0 .. MaxClicks
      /\ (ClientOK' /\ RequestsOK' /\ ServerOK' /\ clicks' \in 0 .. MaxClicks => TypeOK')
  BY TypeParts DEF TypeOK, ClientOK, RequestsOK, ServerOK
<1>1. /\ UNCHANGED client => ClientOK' /\ page' = page
      /\ UNCHANGED requests => RequestsOK'
      /\ UNCHANGED server => ServerOK'
  BY <1>0 DEF client, requests, server, ClientOK, RequestsOK, ServerOK
<1>2. ASSUME NEW c \in Clients, Edits(c) PROVE TypeOK'
  BY <1>0, <1>1, <1>2, EditsSetPage, SetPageType
<1>3. ASSUME NEW c \in Clients, Books(c) PROVE TypeOK'
  BY <1>0, <1>1, <1>3, BooksType DEF RequestsOK
<1>4. ASSUME NEW c \in Clients, SaveNow(c) \/ Autosave(c) PROVE TypeOK'
  <2>1. \A auto \in BOOLEAN : [by |-> c, content |-> page[c], kept |-> FALSE, auto |-> auto] \in Saves
    BY <1>0 DEF ClientOK, Saves
  <2>2. saves' \subseteq Saves /\ UNCHANGED <<bookings, loads>>
    BY <1>0, <1>4, <2>1 DEF SaveNow, Autosave, Put, RequestsOK
  <2>3. CASE SaveNow(c)
    BY <1>0, <1>1, <2>2, <2>3, ClickType DEF SaveNow, RequestsOK
  <2>4. CASE Autosave(c)
    BY <1>0, <1>1, <2>2, <2>4 DEF Autosave, RequestsOK, ClientOK
  <2> QED BY <1>4, <2>3, <2>4
<1>5. ASSUME NEW c \in Clients, LoadNow(c) PROVE TypeOK'
  <2>1. loads' \subseteq Loads
    BY <1>0, <1>5, FirstLoadType DEF LoadNow, RequestsOK, ClientOK
  <2> QED BY <1>0, <1>1, <1>5, <2>1, ClickType DEF LoadNow, RequestsOK
<1>6. ASSUME NEW c \in Clients, Restore(c) PROVE TypeOK'
  <2>1. PICK r \in revisions : Apply(c, r, TRUE)
    BY <1>6 DEF Restore
  <2>2. r \in Content
    BY <1>0 DEF ServerOK
  <2> QED BY <1>0, <1>1, <1>6, <2>1, <2>2, ApplyType, ClickType DEF Restore
<1>7. ASSUME NEW c \in Clients, SwitchAutoSync(c) \/ SignInOrOut(c) PROVE TypeOK'
  <2>1. PICK token \in BOOLEAN, auto \in BOOLEAN : StartSync(c, token, auto)
    BY <1>0, <1>7 DEF SwitchAutoSync, SignInOrOut, ClientOK
  <2>2. ClientOK'
    BY <1>0, <1>7, <2>1, SyncEffectType DEF SwitchAutoSync, SignInOrOut, StartSync
  <2>3. RequestsOK'
    BY <1>0, <1>7, <2>1, FirstLoadType DEF SwitchAutoSync, SignInOrOut, StartSync, RequestsOK
  <2> QED BY <1>0, <1>1, <1>7, <2>2, <2>3, ClickType DEF SwitchAutoSync, SignInOrOut
<1>8. ASSUME NEW c \in Clients, ReloadPage(c) PROVE TypeOK'
  <2>1. signedIn[c] \in BOOLEAN /\ autoSync[c] \in BOOLEAN
    BY <1>0 DEF ClientOK
  <2>2. ClientOK'
    BY <1>0, <1>8, <2>1, SyncEffectType DEF ReloadPage
  <2>3. \A b \in bookings : [b EXCEPT !.heard = FALSE] \in Bookings
    BY BookingSteps DEF BookingsAreSound
  <2>4. RequestsOK'
    BY <1>0, <1>8, <2>3, FirstLoadType DEF ReloadPage, RequestsOK
  <2> QED BY <1>0, <1>1, <1>8, <2>2, <2>4, ClickType DEF ReloadPage
<1>9. ASSUME NEW c \in Clients, ClearLocalPreferences(c) PROVE TypeOK'
  <2>1. Empty \in Content
    BY DEF Empty, Content
  <2>2. ClientOK'
    BY <1>0, <1>9, <2>1 DEF ClearLocalPreferences, NotReady, ClientOK
  <2>3. RequestsOK'
    BY <1>0, <1>9, FirstLoadType DEF ClearLocalPreferences, RequestsOK
  <2> QED BY <1>0, <1>1, <1>9, <2>2, <2>3, ClickType DEF ClearLocalPreferences
<1>10. ASSUME NEW b \in bookings, PostVoucher(b) \/ RefuseVoucher(b) \/ LoseConnection(b)
       PROVE  TypeOK'
  <2>1. /\ [b EXCEPT !.heard = FALSE] \in Bookings /\ [b EXCEPT !.state = "refused"] \in Bookings
        /\ [b EXCEPT !.state = "posted", !.number = Len(vouchers) + 1] \in Bookings
        /\ Purpose(b) \in Purposes
    BY BookingSteps DEF BookingsAreSound
  <2>2. bookings' \subseteq Bookings /\ UNCHANGED <<saves, loads>>
    BY <1>0, <1>10, <2>1 DEF PostVoucher, RefuseVoucher, LoseConnection, RequestsOK
  <2>3. ServerOK'
    BY <1>0, <1>1, <1>10, <2>1 DEF PostVoucher, RefuseVoucher, LoseConnection, ServerOK
  <2> QED BY <1>0, <1>1, <1>10, <2>2, <2>3 DEF PostVoucher, RefuseVoucher, LoseConnection, RequestsOK
<1>11. ASSUME NEW b \in bookings, AnswerBooking(b) PROVE TypeOK'
  <2>1. b \in Bookings /\ b.by \in Clients /\ b.kind \notin TaxKinds
    BY <1>0, <1>11 DEF AnswerBooking, RequestsOK, Bookings, TaxKinds
  <2>2. /\ Booked(b) \in SUBSET [id: Ids, voucher: Nat]
        /\ \A next \in b.todo :
             [b EXCEPT !.todo = @ \ {next}, !.done = Booked(b), !.at = next, !.state = "sent",
                       !.number = 0] \in Bookings
    BY <2>1, BookingSteps DEF BookingsAreSound
  <2>3. CASE b.state = "posted" /\ b.todo # {}
    BY <1>0, <1>1, <1>11, <2>2, <2>3 DEF AnswerBooking, RequestsOK
  <2>4. CASE ~(b.state = "posted" /\ b.todo # {})
    <3>1. WithVouchers(page[b.by], Booked(b)) \in Content
      BY <1>0, <2>1, <2>2, WithVouchersFields DEF ClientOK
    <3> QED BY <1>0, <1>1, <1>11, <2>1, <2>4, <3>1, SetPageType DEF AnswerBooking, RequestsOK
  <2> QED BY <2>3, <2>4
<1>12. ASSUME NEW b \in bookings, AnswerTax(b) PROVE TypeOK'
  <2>1. b \in Bookings /\ b.by \in Clients /\ b.kind \in TaxKinds /\ b.month \in Months /\ b.number \in Nat
    BY <1>0, <1>12 DEF AnswerTax, RequestsOK, Bookings
  <2>2. [page[b.by] EXCEPT !.marks[b.kind][b.month] = b.number] \in Content
    BY <1>0, <2>1, WithMark DEF ClientOK
  <2> QED BY <1>0, <1>1, <1>12, <2>1, <2>2, SetPageType DEF AnswerTax, RequestsOK
<1>13. ASSUME NEW s \in saves, StoreSnapshot(s) \/ StopSave(s) PROVE TypeOK'
  <2>1. s.content \in Content /\ [s EXCEPT !.kept = TRUE] \in Saves
    BY <1>0 DEF RequestsOK, Saves
  <2>2. RequestsOK' /\ ServerOK'
    BY <1>0, <1>1, <1>13, <2>1 DEF StoreSnapshot, StopSave, RevisionFirst, RequestsOK, ServerOK
  <2> QED BY <1>0, <1>1, <1>13, <2>2 DEF StoreSnapshot, StopSave
<1>14. ASSUME NEW l \in loads, ReadSnapshot(l) PROVE TypeOK'
  <2>1. [l EXCEPT !.state = "read", !.content = stored] \in Loads
    BY <1>0 DEF RequestsOK, ServerOK, Loads
  <2> QED BY <1>0, <1>1, <1>14, <2>1 DEF ReadSnapshot, RequestsOK
<1>15. ASSUME NEW l \in loads, AnswerLoad(l) \/ FailLoad(l) PROVE TypeOK'
  <2>1. /\ l.by \in Clients /\ l.content \in Content \cup {Nothing}
        /\ l.markReady \in BOOLEAN /\ (l.markReady \/ l.wasReady) \in BOOLEAN
    BY <1>0 DEF RequestsOK, Loads
  <2>2. CASE AnswerLoad(l)
    <3>1. ClientOK'
      BY <1>0, <2>1, <2>2, ApplyType, NothingStoredType DEF AnswerLoad
    <3> QED BY <1>0, <1>1, <2>2, <3>1 DEF AnswerLoad, RequestsOK
  <2>3. CASE FailLoad(l)
    <3>1. ClientOK'
      BY <1>0, <1>1, <2>1, <2>3 DEF FailLoad, ClientOK
    <3> QED BY <1>0, <1>1, <2>3, <3>1 DEF FailLoad, RequestsOK
  <2> QED BY <1>15, <2>2, <2>3
<1>16. CASE UNCHANGED vars
  BY <1>0, <1>1, <1>16 DEF vars
<1> QED BY <1>2, <1>3, <1>4, <1>5, <1>6, <1>7, <1>8, <1>9, <1>10, <1>11, <1>12, <1>13, <1>14, <1>15, <1>16
  DEF Next, UserActs, Answers, Quiet, Edits, Books

----------------------------------------------------------------------------
(* Soundness of the copies.                                                *)

\* The copies a step may touch, one kind at a time.
PartsAreSound ==
  /\ \A c \in Clients : Sound(page[c])
  /\ \A s \in saves : Sound(s.content)
  /\ \A r \in revisions : Sound(r)
  /\ stored # Nothing => Sound(stored)
  /\ \A l \in loads : l.content # Nothing => Sound(l.content)

LEMMA CopiesAreTheParts == TypeOK => (CopiesAreSound <=> PartsAreSound)
<1> SUFFICES ASSUME TypeOK PROVE CopiesAreSound <=> PartsAreSound
  OBVIOUS
<1>1. CopiesAreSound <=> \A p \in Copies : Sound(p)
  BY DEF CopiesAreSound, Sound
<1>2. /\ \A c \in Clients : page[c] \in Content
      /\ \A s \in saves : s.content \in Content
      /\ \A r \in revisions : r \in Content
  BY DEF TypeOK, Saves
<1>3. /\ \A c \in Clients : page[c] \in Copies
      /\ \A s \in saves : s.content \in Copies
      /\ \A r \in revisions : r \in Copies
      /\ stored # Nothing => stored \in Copies
      /\ \A l \in loads : l.content # Nothing => l.content \in Copies
  BY <1>2, NotNothing DEF Copies
<1>4. \A p \in Copies :
        \/ \E c \in Clients : p = page[c]
        \/ \E s \in saves : p = s.content
        \/ p \in revisions
        \/ p = stored /\ stored # Nothing
        \/ \E l \in loads : p = l.content /\ l.content # Nothing
  BY DEF Copies
<1>5. ASSUME PartsAreSound, NEW p \in Copies PROVE Sound(p)
  BY <1>4, <1>5 DEF PartsAreSound
<1>6. ASSUME \A p \in Copies : Sound(p) PROVE PartsAreSound
  BY <1>3, <1>6 DEF PartsAreSound
<1> QED BY <1>1, <1>5, <1>6

\* The books only grow, so what is sound stays sound.
Grows == vouchers' = vouchers \/ \E purpose \in Purposes : vouchers' = Append(vouchers, purpose)

LEMMA VouchersStay ==
  ASSUME vouchers \in Seq(Purposes), Grows
  PROVE  \A n, purpose : HasVoucher(n, purpose) => HasVoucher(n, purpose)'
<1>1. ASSUME NEW x \in Purposes, vouchers' = Append(vouchers, x), NEW n \in DOMAIN vouchers
      PROVE  n \in DOMAIN vouchers' /\ vouchers'[n] = vouchers[n]
  BY <1>1
<1> QED BY <1>1 DEF Grows, HasVoucher

LEMMA SoundStays ==
  ASSUME vouchers \in Seq(Purposes), Grows
  PROVE  \A p : Sound(p) => Sound(p)'
BY VouchersStay DEF Sound

\* A page made sound by what it was given.
LEMMA SoundWithVouchers ==
  ASSUME NEW p \in Content, Sound(p), NEW done \in SUBSET [id: Ids, voucher: Nat],
         \A d \in done : HasVoucher(d.voucher, Salary(d.id))
  PROVE  Sound(WithVouchers(p, done))
<1> DEFINE q == WithVouchers(p, done)
<1>1. /\ q.employees = p.employees /\ q.marks = p.marks
      /\ \A id \in Ids :
           \/ q.drafts[id] = p.drafts[id]
           \/ /\ p.drafts[id] # Absent /\ q.drafts[id].employee = p.drafts[id].employee
              /\ \E d \in done : d.id = id /\ q.drafts[id].voucher = d.voucher
  BY WithVouchersFields
<1> HIDE DEF q
<1>2. Sound(q)
  BY <1>1 DEF Sound
<1> QED BY <1>2 DEF q

LEMMA SoundWithMark ==
  ASSUME NEW p \in Content, Sound(p), NEW k \in TaxKinds, NEW m \in Months, NEW n \in Nat,
         HasVoucher(n, Tax(k, m))
  PROVE  Sound([p EXCEPT !.marks[k][m] = n])
<1> DEFINE q == [p EXCEPT !.marks[k][m] = n]
<1>1. /\ q.employees = p.employees /\ q.drafts = p.drafts
      /\ \A l \in TaxKinds, o \in Months :
           q.marks[l][o] = IF l = k /\ o = m THEN n ELSE p.marks[l][o]
  BY DEF Content
<1> HIDE DEF q
<1>2. Sound(q)
  BY <1>1 DEF Sound
<1> QED BY <1>2 DEF q

LEMMA EmptyIsSound == Sound(Empty)
BY DEF Sound, Empty, HasVoucher

\* Only a posted voucher changes the books.
LEMMA StepGrows == TypeOK /\ BookingsAreSound /\ [Next]_vars => Grows
<1> SUFFICES ASSUME TypeOK, BookingsAreSound, [Next]_vars PROVE Grows
  OBVIOUS
<1>1. ASSUME NEW b \in bookings, PostVoucher(b) PROVE Grows
  BY <1>1, BookingSteps DEF PostVoucher, BookingsAreSound, Grows
<1>2. ASSUME NEW c \in Clients, UserActs(c) \/ Autosave(c) PROVE vouchers' = vouchers
  <2>1. CASE Edits(c) \/ Books(c)
    BY <2>1, EditsSetPage, BooksType DEF server
  <2>2. CASE ~Edits(c) /\ ~Books(c)
    BY <1>2, <2>2 DEF UserActs, Edits, Books, SaveNow, Autosave, LoadNow, Restore, SwitchAutoSync,
      SignInOrOut, ReloadPage, ClearLocalPreferences, server
  <2> QED BY <2>1, <2>2
<1>3. ASSUME NEW b \in bookings,
             RefuseVoucher(b) \/ AnswerBooking(b) \/ AnswerTax(b) \/ LoseConnection(b)
      PROVE  vouchers' = vouchers
  BY <1>3 DEF RefuseVoucher, AnswerBooking, AnswerTax, LoseConnection, server
<1>4. ASSUME NEW s \in saves, StoreSnapshot(s) \/ StopSave(s) PROVE vouchers' = vouchers
  BY <1>4 DEF StoreSnapshot, StopSave, server
<1>5. ASSUME NEW l \in loads, ReadSnapshot(l) \/ AnswerLoad(l) \/ FailLoad(l)
      PROVE  vouchers' = vouchers
  BY <1>5 DEF ReadSnapshot, AnswerLoad, FailLoad, server
<1>6. CASE UNCHANGED vars
  BY <1>6 DEF vars, server, Grows
<1> QED BY <1>1, <1>2, <1>3, <1>4, <1>5, <1>6 DEF Next, Answers, Quiet, Grows

LEMMA SetPageSound ==
  ASSUME TypeOK, PartsAreSound, NEW c \in Clients, NEW p, SetPage(c, p), Sound(p),
         UNCHANGED <<saves, loads, server>>
  PROVE  PartsAreSound'
<1>1. \A d \in Clients : Sound(page'[d])
  BY DEF SetPage, PartsAreSound, TypeOK
<1> QED BY <1>1 DEF PartsAreSound, server, Sound, HasVoucher

LEMMA StepSound == TypeOK /\ BookingsAreSound /\ PartsAreSound /\ [Next]_vars => PartsAreSound'
<1> SUFFICES ASSUME TypeOK, BookingsAreSound, PartsAreSound, [Next]_vars PROVE PartsAreSound'
  OBVIOUS
<1>0. /\ page \in [Clients -> Content] /\ saves \subseteq Saves /\ loads \subseteq Loads
      /\ revisions \subseteq Content /\ vouchers \in Seq(Purposes) /\ bookings \subseteq Bookings
  BY DEF TypeOK
<1>1. ASSUME NEW c \in Clients, Edits(c) PROVE PartsAreSound'
  BY <1>1, EditsSetPage, SetPageSound DEF PartsAreSound, requests
<1>2. ASSUME NEW c \in Clients, Books(c) PROVE PartsAreSound'
  BY <1>2, BooksType DEF PartsAreSound, client, server, Sound, HasVoucher
<1>3. ASSUME NEW c \in Clients, SaveNow(c) \/ Autosave(c) PROVE PartsAreSound'
  <2>1. /\ UNCHANGED <<page, loads, server>>
        /\ \A s \in saves' : s \in saves \/ s.content = page[c]
    BY <1>3 DEF SaveNow, Autosave, Put, client
  <2>2. \A s \in saves' : Sound(s.content)
    BY <2>1 DEF PartsAreSound
  <2> QED BY <2>1, <2>2 DEF PartsAreSound, server, Sound, HasVoucher
<1>4. ASSUME NEW c \in Clients, LoadNow(c) \/ SwitchAutoSync(c) \/ SignInOrOut(c) \/ ReloadPage(c)
      PROVE  PartsAreSound'
  <2>1. /\ UNCHANGED <<page, saves, server>>
        /\ \A l \in loads' : l \in loads \/ l.content = Nothing
    BY <1>4, FirstLoadType, <1>0
    DEF LoadNow, SwitchAutoSync, SignInOrOut, StartSync, ReloadPage, client, TypeOK
  <2>2. \A l \in loads' : l.content # Nothing => Sound(l.content)
    BY <2>1 DEF PartsAreSound
  <2> QED BY <2>1, <2>2 DEF PartsAreSound, server, Sound, HasVoucher
<1>5. ASSUME NEW c \in Clients, Restore(c) PROVE PartsAreSound'
  <2>1. PICK r \in revisions : Apply(c, r, TRUE)
    BY <1>5 DEF Restore
  <2>2. UNCHANGED <<saves, loads, server>> /\ \A d \in Clients : Sound(page'[d])
    BY <1>0, <1>5, <2>1 DEF Restore, Apply, PartsAreSound, requests
  <2> QED BY <2>2 DEF PartsAreSound, server, Sound, HasVoucher
<1>6. ASSUME NEW c \in Clients, ClearLocalPreferences(c) PROVE PartsAreSound'
  <2>1. /\ UNCHANGED <<saves, server>> /\ \A d \in Clients : Sound(page'[d])
        /\ \A l \in loads' : l \in loads \/ l.content = Nothing
    BY <1>0, <1>6, EmptyIsSound, FirstLoadType DEF ClearLocalPreferences, PartsAreSound
  <2>2. \A l \in loads' : l.content # Nothing => Sound(l.content)
    BY <2>1 DEF PartsAreSound
  <2> QED BY <2>1, <2>2 DEF PartsAreSound, server, Sound, HasVoucher
<1>7. ASSUME NEW b \in bookings, PostVoucher(b) PROVE PartsAreSound'
  <2>1. UNCHANGED <<page, saves, loads, stored, revisions>> /\ Grows
    BY <1>7, StepGrows DEF PostVoucher, client
  <2>2. \A p : Sound(p) => Sound(p)'
    BY <1>0, <2>1, SoundStays
  <2> QED BY <2>1, <2>2 DEF PartsAreSound
<1>8. ASSUME NEW b \in bookings, RefuseVoucher(b) \/ LoseConnection(b) PROVE PartsAreSound'
  BY <1>8 DEF RefuseVoucher, LoseConnection, client, server, PartsAreSound, Sound, HasVoucher
<1>9. ASSUME NEW b \in bookings, AnswerBooking(b) PROVE PartsAreSound'
  <2>1. b \in Bookings /\ b.by \in Clients /\ b.kind \notin TaxKinds /\ page[b.by] \in Content
    BY <1>0, <1>9 DEF AnswerBooking, Bookings, TaxKinds
  <2>2. Booked(b) \in SUBSET [id: Ids, voucher: Nat]
    BY <2>1, BookingSteps DEF BookingsAreSound
  <2>3. \A d \in Booked(b) : HasVoucher(d.voucher, Salary(d.id))
    BY <2>1 DEF Booked, BookingsAreSound, Purpose
  <2>4. Sound(WithVouchers(page[b.by], Booked(b)))
    BY <2>1, <2>2, <2>3, SoundWithVouchers DEF PartsAreSound
  <2>5. CASE UNCHANGED client
    <3>1. UNCHANGED <<saves, loads, server>>
      BY <1>9 DEF AnswerBooking
    <3> QED BY <2>5, <3>1 DEF client, server, PartsAreSound, Sound, HasVoucher
  <2>6. CASE SetPage(b.by, WithVouchers(page[b.by], Booked(b)))
    BY <1>9, <2>1, <2>4, <2>6, SetPageSound DEF AnswerBooking
  <2> QED BY <1>9, <2>5, <2>6 DEF AnswerBooking
<1>10. ASSUME NEW b \in bookings, AnswerTax(b) PROVE PartsAreSound'
  <2>1. /\ b.by \in Clients /\ b.kind \in TaxKinds /\ b.month \in Months /\ b.number \in Nat
        /\ b.state \in {"posted", "refused"} /\ page[b.by] \in Content
    BY <1>0, <1>10 DEF AnswerTax, Bookings
  <2>2. CASE b.state = "refused"
    BY <1>10, <2>2 DEF AnswerTax, client, server, PartsAreSound, Sound, HasVoucher
  <2>3. CASE b.state = "posted"
    <3>1. HasVoucher(b.number, Tax(b.kind, b.month))
      BY <2>1, <2>3 DEF BookingsAreSound, Purpose
    <3>2. Sound([page[b.by] EXCEPT !.marks[b.kind][b.month] = b.number])
      BY <2>1, <3>1, SoundWithMark DEF PartsAreSound
    <3> QED BY <1>10, <2>1, <2>3, <3>2, SetPageSound DEF AnswerTax
  <2> QED BY <2>1, <2>2, <2>3
<1>11. ASSUME NEW s \in saves, StoreSnapshot(s) \/ StopSave(s) PROVE PartsAreSound'
  <2>1. UNCHANGED <<page, loads, vouchers>> /\ s.content \in Content
    BY <1>0, <1>11 DEF StoreSnapshot, StopSave, client, server, Saves
  <2>2. \A x \in saves' : x \in saves \/ x.content = s.content
    BY <1>0, <1>11 DEF StoreSnapshot, StopSave, Saves
  <2>3. /\ \A r \in revisions' : r \in revisions \/ r = s.content
        /\ stored' = stored \/ stored' = s.content
    BY <1>11 DEF StoreSnapshot, StopSave, RevisionFirst, server
  <2>4. \A p : Sound(p) => Sound(p)'
    BY <2>1 DEF Sound, HasVoucher
  <2> QED BY <2>1, <2>2, <2>3, <2>4 DEF PartsAreSound
<1>12. ASSUME NEW l \in loads, ReadSnapshot(l) PROVE PartsAreSound'
  <2>1. UNCHANGED <<page, saves, server>> /\ \A x \in loads' : x \in loads \/ x.content = stored
    BY <1>0, <1>12 DEF ReadSnapshot, client, Loads
  <2>2. \A x \in loads' : x.content # Nothing => Sound(x.content)
    BY <2>1 DEF PartsAreSound
  <2> QED BY <2>1, <2>2 DEF PartsAreSound, server, Sound, HasVoucher
<1>13. ASSUME NEW l \in loads, AnswerLoad(l) \/ FailLoad(l) PROVE PartsAreSound'
  <2>1. UNCHANGED <<saves, server>> /\ loads' \subseteq loads
    BY <1>13 DEF AnswerLoad, FailLoad
  <2>2. \A d \in Clients : page'[d] = page[d] \/ (page'[d] = l.content /\ l.content # Nothing)
    BY <1>0, <1>13 DEF AnswerLoad, FailLoad, Apply, NothingStored, client
  <2>3. \A d \in Clients : Sound(page'[d])
    BY <2>2 DEF PartsAreSound
  <2> QED BY <2>1, <2>3 DEF PartsAreSound, server, Sound, HasVoucher
<1>14. CASE UNCHANGED vars
  BY <1>14 DEF vars, client, requests, server, PartsAreSound, Sound, HasVoucher
<1> QED BY <1>1, <1>2, <1>3, <1>4, <1>5, <1>6, <1>7, <1>8, <1>9, <1>10, <1>11, <1>12, <1>13, <1>14
  DEF Next, UserActs, Answers, Quiet, Edits, Books

----------------------------------------------------------------------------
(* What the answers know, what may be saved, what has a revision.          *)

LEMMA StepBookings == TypeOK /\ BookingsAreSound /\ [Next]_vars => BookingsAreSound'
<1> DEFINE Good(b) == /\ b.kind \notin TaxKinds => b.at \in Rows
                      /\ b.state = "posted" => HasVoucher(b.number, Purpose(b))
                      /\ \A d \in b.done : HasVoucher(d.voucher, Salary(d.id))
<1> SUFFICES ASSUME TypeOK, BookingsAreSound, [Next]_vars PROVE BookingsAreSound'
  OBVIOUS
<1>0. bookings \subseteq Bookings /\ vouchers \in Seq(Purposes) /\ Grows
  BY StepGrows DEF TypeOK
<1>1. \A b \in bookings : Good(b)'
  BY <1>0, VouchersStay DEF BookingsAreSound, Purpose
<1>2. BookingsAreSound' <=> \A b \in bookings' : Good(b)'
  BY DEF BookingsAreSound
<1>3. ASSUME NEW b \in bookings,
             NEW x, x.kind = b.kind, x.at = b.at, x.month = b.month, x.number = b.number,
             x.done = b.done,
             x.state = b.state \/ x.state = "refused"
      PROVE  Good(x)'
  <2>1. Purpose(x) = Purpose(b) /\ Good(b)'
    BY <1>1, <1>3 DEF Purpose, Tax, Salary
  <2>2. Purpose(x)' = Purpose(b)'
    BY <1>3 DEF Purpose, Tax, Salary
  <2> QED BY <1>3, <2>1, <2>2
<1> HIDE DEF Good
<1>4. ASSUME NEW c \in Clients, UserActs(c) \/ Autosave(c) PROVE BookingsAreSound'
  <2>1. CASE Books(c)
    <3>1. PICK x \in Bookings : /\ bookings' = bookings \cup {x} /\ x.state = "sent" /\ x.done = {}
                                /\ x.kind \notin TaxKinds => x.at \in Rows
      BY <2>1, BooksType
    <3>2. Good(x)'
      BY <3>1 DEF Good
    <3> QED BY <1>1, <1>2, <3>1, <3>2
  <2>2. CASE Edits(c)
    BY <1>1, <1>2, <2>2, EditsSetPage DEF requests
  <2>3. CASE ReloadPage(c)
    <3>1. \A x \in bookings' : x \in bookings \/ \E b \in bookings : x = [b EXCEPT !.heard = FALSE]
      BY <2>3 DEF ReloadPage
    <3>2. ASSUME NEW b \in bookings PROVE Good([b EXCEPT !.heard = FALSE])'
      <4> DEFINE x == [b EXCEPT !.heard = FALSE]
      <4>1. /\ x.kind = b.kind /\ x.at = b.at /\ x.month = b.month /\ x.number = b.number
            /\ x.done = b.done /\ x.state = b.state
        BY <1>0 DEF Bookings
      <4> HIDE DEF x
      <4>2. Good(x)'
        BY <1>3, <4>1
      <4> QED BY <4>2 DEF x
    <3> QED BY <1>1, <1>2, <3>1, <3>2
  <2>4. CASE ~Books(c) /\ ~Edits(c) /\ ~ReloadPage(c)
    <3>1. bookings' = bookings
      BY <1>4, <2>4 DEF UserActs, Edits, Books, SaveNow, Autosave, LoadNow, Restore, SwitchAutoSync,
        SignInOrOut, ClearLocalPreferences, requests
    <3> QED BY <1>1, <1>2, <3>1
  <2> QED BY <2>1, <2>2, <2>3, <2>4
<1>5. ASSUME NEW b \in bookings, PostVoucher(b) PROVE BookingsAreSound'
  <2>1. PICK x : x = [b EXCEPT !.state = "posted", !.number = Len(vouchers) + 1]
    OBVIOUS
  <2>2. /\ x.kind = b.kind /\ x.at = b.at /\ x.month = b.month /\ x.number = Len(vouchers) + 1
        /\ x.done = b.done /\ x.state = "posted"
    BY <1>0, <2>1 DEF Bookings
  <2>3. \A y \in bookings' : y \in bookings \/ y = x
    BY <1>5, <2>1 DEF PostVoucher
  <2>4. vouchers' = Append(vouchers, Purpose(b)) /\ Purpose(b) \in Purposes
    BY <1>5, BookingSteps DEF PostVoucher, BookingsAreSound
  <2>5. x.number \in DOMAIN vouchers' /\ vouchers'[x.number] = Purpose(b)
    BY <1>0, <2>2, <2>4
  <2>6. Purpose(x)' = Purpose(b)
    BY <2>2 DEF Purpose, Tax, Salary
  <2>7. HasVoucher(x.number, Purpose(x))'
    BY <2>5, <2>6 DEF HasVoucher
  <2>8. Good(x)'
    BY <1>1, <2>2, <2>7 DEF Good
  <2> QED BY <1>1, <1>2, <2>3, <2>8
<1>6. ASSUME NEW b \in bookings, RefuseVoucher(b) \/ LoseConnection(b) PROVE BookingsAreSound'
  <2>1. PICK x : /\ \A y \in bookings' : y \in bookings \/ y = x
                 /\ x = [b EXCEPT !.state = "refused"] \/ x = [b EXCEPT !.heard = FALSE]
    BY <1>6 DEF RefuseVoucher, LoseConnection
  <2>2. /\ x.kind = b.kind /\ x.at = b.at /\ x.month = b.month /\ x.number = b.number
        /\ x.done = b.done
        /\ x.state = b.state \/ x.state = "refused"
    BY <1>0, <2>1 DEF Bookings
  <2>3. Good(x)'
    BY <1>3, <2>2
  <2> QED BY <1>1, <1>2, <2>1, <2>3
<1>7. ASSUME NEW b \in bookings, AnswerBooking(b) PROVE BookingsAreSound'
  <2>1. /\ b \in Bookings /\ b.kind \notin TaxKinds /\ b.todo \subseteq Rows
    BY <1>0, <1>7 DEF AnswerBooking, Bookings, TaxKinds
  <2>2. (\A d \in Booked(b) : HasVoucher(d.voucher, Salary(d.id)))
    BY <2>1 DEF Booked, BookingsAreSound, Purpose
  <2>3. ASSUME NEW next \in b.todo
        PROVE  Good([b EXCEPT !.todo = @ \ {next}, !.done = Booked(b), !.at = next,
                              !.state = "sent", !.number = 0])'
    <3> DEFINE done == Booked(b)
               x == [b EXCEPT !.todo = @ \ {next}, !.done = done, !.at = next,
                              !.state = "sent", !.number = 0]
    <3> HIDE DEF done
    <3>1. x.at = next /\ x.done = done /\ x.state = "sent"
      BY <2>1 DEF Bookings
    <3> HIDE DEF x
    <3>2. \A d \in done : HasVoucher(d.voucher, Salary(d.id))'
      BY <1>0, <2>2, VouchersStay DEF done, Salary
    <3>3. Good(x)'
      BY <2>1, <3>1, <3>2 DEF Good
    <3> QED BY <3>3 DEF x, done
  <2>4. \A x \in bookings' :
          \/ x \in bookings
          \/ \E next \in b.todo : x = [b EXCEPT !.todo = @ \ {next}, !.done = Booked(b), !.at = next,
                                                !.state = "sent", !.number = 0]
    BY <1>7 DEF AnswerBooking
  <2> QED BY <1>1, <1>2, <2>3, <2>4
<1>8. CASE bookings' \subseteq bookings
  BY <1>1, <1>2, <1>8
<1>9. ASSUME NEW b \in bookings, AnswerTax(b) PROVE bookings' \subseteq bookings
  BY <1>9 DEF AnswerTax
<1>10. ASSUME NEW s \in saves, StoreSnapshot(s) \/ StopSave(s) PROVE bookings' = bookings
  BY <1>10 DEF StoreSnapshot, StopSave
<1>11. ASSUME NEW l \in loads, ReadSnapshot(l) \/ AnswerLoad(l) \/ FailLoad(l)
       PROVE  bookings' = bookings
  BY <1>11 DEF ReadSnapshot, AnswerLoad, FailLoad
<1>12. UNCHANGED vars => bookings' = bookings
  BY DEF vars, requests
<1> QED BY <1>4, <1>5, <1>6, <1>7, <1>8, <1>9, <1>10, <1>11, <1>12 DEF Next, Answers, Quiet

LEMMA StepBased == TypeOK /\ SavedPagesAreBased /\ [Next]_vars => SavedPagesAreBased'
<1> SUFFICES ASSUME TypeOK, SavedPagesAreBased, [Next]_vars PROVE SavedPagesAreBased'
  OBVIOUS
<1>0. /\ signedIn \in [Clients -> BOOLEAN] /\ autoSync \in [Clients -> BOOLEAN]
      /\ ready \in [Clients -> BOOLEAN] /\ timer \in [Clients -> BOOLEAN]
      /\ based \in [Clients -> BOOLEAN] /\ loads \subseteq Loads /\ bookings \subseteq Bookings
  BY DEF TypeOK
<1>1. ASSUME NEW c \in Clients, NEW p, SetPage(c, p) PROVE SavedPagesAreBased'
  BY <1>0, <1>1 DEF SetPage, Autosaves, SavedPagesAreBased
<1>2. CASE UNCHANGED client
  BY <1>2 DEF client, SavedPagesAreBased
<1>3. ASSUME NEW c \in Clients, NEW token \in BOOLEAN, NEW auto \in BOOLEAN, SyncEffect(c, token, auto)
      PROVE  SavedPagesAreBased'
  BY <1>0, <1>3 DEF SyncEffect, SavedPagesAreBased
<1>4. ASSUME NEW c \in Clients, NEW p, NEW isReady \in BOOLEAN,
             Apply(c, p, isReady) \/ NothingStored(c, isReady)
      PROVE  SavedPagesAreBased'
  BY <1>0, <1>4 DEF Apply, NothingStored, SavedPagesAreBased
<1>5. ASSUME NEW c \in Clients, UserActs(c) PROVE SavedPagesAreBased'
  <2>1. CASE Edits(c)
    BY <1>1, <2>1, EditsSetPage
  <2>2. CASE Books(c)
    BY <1>2, <2>2, BooksType
  <2>3. CASE SaveNow(c) \/ LoadNow(c)
    BY <1>2, <2>3 DEF SaveNow, LoadNow
  <2>4. CASE Restore(c)
    BY <1>4, <2>4 DEF Restore
  <2>5. CASE SwitchAutoSync(c) \/ SignInOrOut(c) \/ ReloadPage(c)
    BY <1>0, <1>3, <2>5 DEF SwitchAutoSync, SignInOrOut, ReloadPage, StartSync
  <2>6. CASE ClearLocalPreferences(c)
    BY <1>0, <2>6 DEF ClearLocalPreferences, NotReady, SavedPagesAreBased
  <2> QED BY <1>5, <2>1, <2>2, <2>3, <2>4, <2>5, <2>6 DEF UserActs, Edits, Books
<1>6. ASSUME NEW c \in Clients, Autosave(c) PROVE SavedPagesAreBased'
  BY <1>0, <1>6 DEF Autosave, SavedPagesAreBased
<1>7. ASSUME NEW b \in bookings, AnswerBooking(b) \/ AnswerTax(b) PROVE SavedPagesAreBased'
  <2>1. b.by \in Clients
    BY <1>0 DEF Bookings
  <2>2. CASE AnswerBooking(b)
    BY <1>1, <1>2, <2>1, <2>2 DEF AnswerBooking
  <2>3. CASE AnswerTax(b)
    BY <1>1, <1>2, <2>1, <2>3 DEF AnswerTax
  <2> QED BY <1>7, <2>2, <2>3
<1>8. ASSUME NEW l \in loads, AnswerLoad(l) \/ FailLoad(l) PROVE SavedPagesAreBased'
  <2>1. l.by \in Clients /\ l.markReady \in BOOLEAN /\ (l.markReady \/ l.wasReady) \in BOOLEAN
    BY <1>0 DEF Loads
  <2>2. CASE AnswerLoad(l)
    BY <1>4, <2>1, <2>2 DEF AnswerLoad
  <2>3. CASE FailLoad(l)
    BY <1>0, <1>2, <2>1, <2>3 DEF FailLoad, SavedPagesAreBased
  <2> QED BY <1>8, <2>2, <2>3
<1>9. ASSUME NEW b \in bookings, PostVoucher(b) \/ RefuseVoucher(b) \/ LoseConnection(b)
      PROVE  UNCHANGED client
  BY <1>9 DEF PostVoucher, RefuseVoucher, LoseConnection
<1>10. ASSUME NEW s \in saves, StoreSnapshot(s) \/ StopSave(s) PROVE UNCHANGED client
  BY <1>10 DEF StoreSnapshot, StopSave
<1>11. ASSUME NEW l \in loads, ReadSnapshot(l) PROVE UNCHANGED client
  BY <1>11 DEF ReadSnapshot
<1>12. CASE UNCHANGED vars
  BY <1>2, <1>12 DEF vars
<1> QED BY <1>2, <1>5, <1>6, <1>7, <1>8, <1>9, <1>10, <1>11, <1>12 DEF Next, Answers, Quiet

\* What a step adds to the saves and to the rows of the database.
LEMMA SavesStep ==
  TypeOK /\ [Next]_vars =>
    \/ UNCHANGED <<saves, stored, revisions>>
    \/ /\ UNCHANGED <<stored, revisions>>
       /\ \A s \in saves' \ saves : ~s.kept /\ (s.auto => s.by \in Clients /\ timer[s.by])
    \/ \E s \in saves : StoreSnapshot(s)
<1> SUFFICES ASSUME TypeOK, [Next]_vars
             PROVE  \/ UNCHANGED <<saves, stored, revisions>>
                    \/ /\ UNCHANGED <<stored, revisions>>
                       /\ \A s \in saves' \ saves : ~s.kept /\ (s.auto => s.by \in Clients /\ timer[s.by])
                    \/ \E s \in saves : StoreSnapshot(s)
  OBVIOUS
<1>1. ASSUME NEW c \in Clients, SaveNow(c) \/ Autosave(c)
      PROVE  /\ UNCHANGED <<stored, revisions>>
             /\ \A s \in saves' \ saves : ~s.kept /\ (s.auto => s.by \in Clients /\ timer[s.by])
  BY <1>1 DEF SaveNow, Autosave, Put, server
<1>2. ASSUME NEW c \in Clients, UserActs(c), ~SaveNow(c) PROVE UNCHANGED <<saves, stored, revisions>>
  <2>1. CASE Edits(c) \/ Books(c)
    BY <2>1, EditsSetPage, BooksType DEF server, requests
  <2>2. CASE ~Edits(c) /\ ~Books(c)
    BY <1>2, <2>2 DEF UserActs, Edits, Books, LoadNow, Restore, SwitchAutoSync,
      SignInOrOut, ReloadPage, ClearLocalPreferences, server, requests
  <2> QED BY <2>1, <2>2
<1>3. ASSUME NEW b \in bookings, \/ PostVoucher(b) \/ RefuseVoucher(b) \/ AnswerBooking(b)
                                 \/ AnswerTax(b) \/ LoseConnection(b)
      PROVE  UNCHANGED <<saves, stored, revisions>>
  BY <1>3 DEF PostVoucher, RefuseVoucher, AnswerBooking, AnswerTax, LoseConnection, server
<1>4. ASSUME NEW s \in saves, StopSave(s)
      PROVE  UNCHANGED <<stored, revisions>> /\ saves' \ saves = {}
  BY <1>4 DEF StopSave, server
<1>5. ASSUME NEW l \in loads, ReadSnapshot(l) \/ AnswerLoad(l) \/ FailLoad(l)
      PROVE  UNCHANGED <<saves, stored, revisions>>
  BY <1>5 DEF ReadSnapshot, AnswerLoad, FailLoad, server
<1>6. CASE UNCHANGED vars
  BY <1>6 DEF vars, server, requests
<1> QED BY <1>1, <1>2, <1>3, <1>4, <1>5, <1>6 DEF Next, Answers, Quiet

LEMMA StepRevisions == TypeOK /\ RevisionsComeFirst /\ [Next]_vars => RevisionsComeFirst'
<1> SUFFICES ASSUME TypeOK, RevisionsComeFirst, [Next]_vars PROVE RevisionsComeFirst'
  OBVIOUS
<1>1. ASSUME NEW s \in saves, StoreSnapshot(s) PROVE RevisionsComeFirst'
  <2>1. s \in Saves
    BY DEF TypeOK
  <2>2. CASE s.kept
    BY <1>1, <2>2 DEF StoreSnapshot, RevisionFirst, RevisionsComeFirst, StoredIsKept
  <2>3. CASE ~s.kept
    <3>1. /\ revisions' = revisions \cup {s.content} /\ stored' = stored
          /\ saves' = (saves \ {s}) \cup {[s EXCEPT !.kept = TRUE]}
      BY <1>1, <2>3 DEF StoreSnapshot, RevisionFirst
    <3>2. [s EXCEPT !.kept = TRUE].content = s.content
      BY <2>1 DEF Saves
    <3> QED BY <3>1, <3>2 DEF RevisionsComeFirst, StoredIsKept
  <2> QED BY <2>2, <2>3
<1>2. ASSUME UNCHANGED <<stored, revisions>>, \A s \in saves' \ saves : ~s.kept
      PROVE  RevisionsComeFirst'
  BY <1>2 DEF RevisionsComeFirst, StoredIsKept
<1> QED BY <1>1, <1>2, SavesStep

----------------------------------------------------------------------------
(* The theorems.                                                           *)

LEMMA InitIInv == Init => IInv
<1> SUFFICES ASSUME Init PROVE IInv
  OBVIOUS
<1>1. Empty \in Content
  BY DEF Empty, Content
<1>2. TypeOK
  <2>1. ClientOK
    BY <1>1 DEF Init, ClientOK
  <2>2. RequestsOK
    <3>1. \A c \in Clients : FirstLoad(c) \in Loads
      BY FirstLoadType
    <3> QED BY <3>1 DEF Init, RequestsOK
  <2>3. vouchers \in Seq(Purposes)
    <3>1. vouchers = <<>>
      BY DEF Init
    <3> QED BY <3>1
  <2>4. ServerOK
    BY <2>3 DEF Init, ServerOK
  <2>5. clicks \in 0 .. MaxClicks
    BY KindsAssumption DEF Init
  <2> QED BY <2>1, <2>2, <2>4, <2>5, TypeParts
<1>3. PartsAreSound
  BY EmptyIsSound, FirstLoadType DEF Init, PartsAreSound
<1>4. CopiesAreSound
  BY <1>2, <1>3, CopiesAreTheParts
<1>5. BookingsAreSound /\ SavedPagesAreBased /\ RevisionsComeFirst
  BY DEF Init, BookingsAreSound, SavedPagesAreBased, RevisionsComeFirst, StoredIsKept
<1> QED BY <1>2, <1>4, <1>5 DEF IInv

\* IInv holds in every reachable state.
LEMMA SpecIInv == Spec => []IInv
<1>1. IInv /\ [Next]_vars => IInv'
  <2>1. IInv /\ [Next]_vars => TypeOK' /\ BookingsAreSound' /\ SavedPagesAreBased' /\ RevisionsComeFirst'
    BY StepType, StepBookings, StepBased, StepRevisions DEF IInv
  <2>2. IInv /\ [Next]_vars => PartsAreSound'
    BY StepSound, CopiesAreTheParts DEF IInv
  <2>3. TypeOK' => (CopiesAreSound' <=> PartsAreSound')
    BY CopiesAreTheParts, PTL
  <2> QED BY <2>1, <2>2, <2>3 DEF IInv
<1> QED BY InitIInv, <1>1, PTL DEF Spec

\* The state of the payroll pages, the requests and the database keep their
\* types (main.jsx, PayrollSnapshotController).
THEOREM PayrollTypeOK == Spec => []TypeOK
<1>1. IInv => TypeOK
  BY DEF IInv
<1> QED BY SpecIInv, <1>1, PTL

\* Whatever is loaded, restored, lost or answered late, every copy that marks
\* a salary or a tax payment as booked names its own voucher, and has the
\* employee of each draft (bookPayrollDraft, bookPayrollReportMonth).
THEOREM PayrollCopiesAreSound == Spec => []CopiesAreSound
<1>1. IInv => CopiesAreSound
  BY DEF IInv
<1> QED BY SpecIInv, <1>1, PTL

\* The stored payroll is one of its own revisions, also when the server
\* stops between the two writes of savePayrollSnapshot.
THEOREM PayrollStoredIsKept == Spec => []StoredIsKept
<1>1. IInv => StoredIsKept
  BY DEF IInv, RevisionsComeFirst
<1> QED BY SpecIInv, <1>1, PTL

\* The automatic save only sends a page that was read or restored since the
\* last sign-in, switch or reset (the effects at payrollSnapshotReady).
THEOREM PayrollAutosaveFollowsLoad == Spec => AutosaveFollowsLoad
<1>1. IInv /\ [Next]_vars => [\A s \in saves' \ saves : s.auto /\ ~s.kept => based[s.by]]_vars
  <2> SUFFICES ASSUME IInv, [Next]_vars, NEW s \in saves' \ saves, s.auto, ~s.kept
               PROVE  based[s.by]
    OBVIOUS
  <2>1. TypeOK /\ SavedPagesAreBased
    BY DEF IInv
  <2>2. ~(\E x \in saves : StoreSnapshot(x))
    <3> SUFFICES ASSUME NEW x \in saves, StoreSnapshot(x) PROVE FALSE
      OBVIOUS
    <3>1. x \in Saves
      BY <2>1 DEF TypeOK
    <3>2. ~x.kept /\ s = [x EXCEPT !.kept = TRUE]
      BY DEF StoreSnapshot
    <3> QED BY <3>1, <3>2 DEF Saves
  <2> QED BY <2>1, <2>2, SavesStep DEF SavedPagesAreBased
<1> QED BY SpecIInv, <1>1, PTL DEF Spec, AutosaveFollowsLoad

\* The lines bookPayrollDraft sends balance, so that the server does not
\* refuse them, whenever the tax withheld is not above the salary.
THEOREM PayrollVoucherBalances ==
  ASSUME NEW row, row.gross \in Nat, row.rate \in Nat, row.gross > 0, row.rate <= 100
  PROVE  Balances(row)
<1> DEFINE withheld == Percent(row.gross, row.rate)
<1>1. row.gross * row.rate <= row.gross * 100 /\ row.gross * row.rate \in Nat
  OBVIOUS
<1>2. 2 * row.gross * row.rate = 2 * (row.gross * row.rate)
  OBVIOUS
<1>3. withheld = (2 * (row.gross * row.rate) + 100) \div 200
  BY <1>2 DEF Percent
<1>4. withheld \in Nat /\ withheld <= row.gross
  BY <1>1, <1>3
<1>5. Percent(row.gross, EmployerRate) \in Int
  <2>1. 2 * row.gross * EmployerRate + 100 \in Nat
    BY SalaryAssumption
  <2> QED BY <2>1 DEF Percent
<1> QED BY <1>4, <1>5 DEF Balances, PayrollCalculation
=============================================================================
