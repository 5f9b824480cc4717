------------------------------ MODULE Payroll ------------------------------
(***************************************************************************)
(* Payroll lives in the browser: drafts, payments and tax settlements are  *)
(* state of the page, kept in localStorage and copied as one snapshot to   *)
(* the database, by an automatic save 1200 ms after the last change or by  *)
(* a button.  Only vouchers are posted on the server one by one.  The page *)
(* waits for several requests at once, answers arrive in any order or not  *)
(* at all, and a second browser may work on the same snapshot.             *)
(*                                                                         *)
(* React runs an effect right after the change it depends on; an action    *)
(* here is a handler together with the effects of its change.              *)
(***************************************************************************)
EXTENDS Integers, Sequences, FiniteSets

CONSTANTS
  Clients,       \* browsers, each with its own page and localStorage
  Employees,     \* people, told apart by their personal number
  Months,        \* payroll periods
  Salaries,      \* gross salaries a user enters
  TaxRates,      \* tax rates in percent a user enters
  EmployerRate,  \* employer contribution in percent
  Kinds,         \* kinds of user actions the behaviour has
  MaxClicks,     \* bound: user actions in a behaviour
  MaxInFlight    \* bound: requests in flight at once

AllKinds == {"employee", "draft", "delete", "book", "month", "tax", "pay",
             "save", "load", "restore", "switch", "session", "reload", "clear"}

ASSUME SalaryAssumption == Salaries \subseteq Nat /\ TaxRates \subseteq Nat /\ EmployerRate \in Nat
ASSUME KindsAssumption == Kinds \subseteq AllKinds /\ MaxClicks \in Nat /\ MaxInFlight \in Nat

VARIABLES
  page,       \* the payroll state of each browser, and its localStorage
  signedIn,   \* whether the browser has a token
  autoSync,   \* the check box "DB auto sync"
  ready,      \* payrollSnapshotReady: automatic saves may run
  timer,      \* an automatic save is due
  based,      \* history: the page was read from the database, or restored
              \* from it, since it last had ready = FALSE
  bookings,   \* booking requests in flight
  saves,      \* PUT /payroll/snapshot in flight
  loads,      \* GET /payroll/snapshot in flight
  stored,     \* the row of payroll_snapshots
  revisions,  \* the rows of payroll_snapshot_revisions
  vouchers,   \* committed payroll vouchers, by number
  clicks      \* user actions so far; also the clock that makes new ids

client == <<page, signedIn, autoSync, ready, timer, based>>
requests == <<bookings, saves, loads>>
server == <<stored, revisions, vouchers>>
vars == <<client, requests, server, clicks>>

Ids == 1 .. MaxClicks
TaxKinds == {"transfer", "settlement"}

Absent == [employee |-> "nobody"]
Drafts == [employee: Employees, month: Months, gross: Salaries, rate: TaxRates,
           voucher: Nat]      \* 0: not booked
\* What a voucher is for: the salary of a draft, or the tax of a month.
Salary(id) == [kind |-> "salary", of |-> id]
Tax(kind, m) == [kind |-> kind, of |-> m]
Purposes == [kind: {"salary"}, of: Ids] \cup [kind: TaxKinds, of: Months]

\* payrollSnapshotPayload: what a snapshot holds.
Content ==
  [employees: SUBSET Employees,
   drafts: [Ids -> Drafts \cup {Absent}],
   paid: SUBSET Ids,
   batches: SUBSET [rows: SUBSET Ids, paid: BOOLEAN],
   marks: [TaxKinds -> [Months -> Nat]]]
Empty ==
  [employees |-> {}, drafts |-> [id \in Ids |-> Absent], paid |-> {}, batches |-> {},
   marks |-> [k \in TaxKinds |-> [m \in Months |-> 0]]]
Nothing == [employees |-> "nothing is saved"]

\* A booking works through the drafts it found when it was clicked.
Rows == [id: Ids, gross: Salaries, rate: TaxRates]
Bookings ==
  [id: Ids, by: Clients, kind: {"draft", "month"} \cup TaxKinds, month: Months,
   todo: SUBSET Rows, done: SUBSET [id: Ids, voucher: Nat],
   at: Rows \cup {Absent}, state: {"sent", "posted", "refused"},
   number: Nat, heard: BOOLEAN]
Saves == [by: Clients, content: Content, kept: BOOLEAN, auto: BOOLEAN]
Loads == [by: Clients, markReady: BOOLEAN, wasReady: BOOLEAN,
          state: {"sent", "read"}, content: Content \cup {Nothing}]

TypeOK ==
  /\ page \in [Clients -> Content]
  /\ signedIn \in [Clients -> BOOLEAN] /\ autoSync \in [Clients -> BOOLEAN]
  /\ ready \in [Clients -> BOOLEAN] /\ timer \in [Clients -> BOOLEAN]
  /\ based \in [Clients -> BOOLEAN]
  /\ bookings \subseteq Bookings /\ saves \subseteq Saves /\ loads \subseteq Loads
  /\ stored \in Content \cup {Nothing} /\ revisions \subseteq Content
  /\ vouchers \in Seq(Purposes)
  /\ clicks \in 0 .. MaxClicks

\* The page opens with the token and the check box of localStorage, and reads
\* the snapshot when both say so.
FirstLoad(c) == [by |-> c, markReady |-> TRUE, wasReady |-> FALSE, state |-> "sent",
                 content |-> Nothing]
Init ==
  /\ page = [c \in Clients |-> Empty]
  /\ signedIn \in [Clients -> BOOLEAN] /\ autoSync \in [Clients -> BOOLEAN]
  /\ ready = [c \in Clients |-> signedIn[c] /\ ~autoSync[c]]
  /\ timer = [c \in Clients |-> FALSE]
  /\ based = [c \in Clients |-> FALSE]
  /\ bookings = {} /\ saves = {}
  /\ loads = {FirstLoad(c) : c \in {d \in Clients : signedIn[d] /\ autoSync[d]}}
  /\ stored = Nothing /\ revisions = {}
  /\ vouchers = <<>>
  /\ clicks = 0

----------------------------------------------------------------------------
(* What the handlers compute.                                              *)

\* payrollCalculationFromValues, with Math.round of a percentage.
Percent(amount, rate) == (2 * amount * rate + 100) \div 200
PayrollCalculation(row) ==
  LET withheld == Percent(row.gross, row.rate)
      fee == Percent(row.gross, EmployerRate)
  IN  [gross |-> row.gross, withheldTax |-> withheld, employerFee |-> fee,
       netPay |-> IF withheld > row.gross THEN 0 ELSE row.gross - withheld]

\* createManualMultiLineEntry refuses lines 7010, 7510 / 2710, 2731, 1930
\* whose debit and credit differ, and fewer than two lines.
Balances(row) ==
  LET p == PayrollCalculation(row)
  IN  /\ p.gross > 0
      /\ p.gross + p.employerFee = p.withheldTax + p.employerFee + p.netPay

RowOf(p, id) == [id |-> id, gross |-> p.drafts[id].gross, rate |-> p.drafts[id].rate]
DraftsOf(p, m) == {id \in Ids : p.drafts[id] # Absent /\ p.drafts[id].month = m}
Unbooked(p, m) == {id \in DraftsOf(p, m) : p.drafts[id].voucher = 0}
\* payrollTaxTotalToHandle counts all drafts of the month, booked or not.
TaxIsDue(p, m) ==
  \E id \in DraftsOf(p, m) :
    LET a == PayrollCalculation(RowOf(p, id)) IN a.withheldTax + a.employerFee > 0

\* The page after the vouchers of done are known.
WithVouchers(p, done) ==
  [p EXCEPT !.drafts = [id \in Ids |->
     LET mine == {d \in done : d.id = id}
     IN  IF p.drafts[id] = Absent \/ mine = {} THEN p.drafts[id]
         ELSE [p.drafts[id] EXCEPT !.voucher = (CHOOSE d \in mine : TRUE).voucher]]]
WithoutDraft(p, id) == [p EXCEPT !.drafts[id] = Absent, !.paid = @ \ {id}]

\* The guard of the effect that saves automatically.
Autosaves(c) == signedIn[c] /\ autoSync[c] /\ ready[c]

----------------------------------------------------------------------------
(* Changes and their effects.                                              *)

Room == Cardinality(bookings) + Cardinality(saves) + Cardinality(loads) < MaxInFlight
Click(kind) == Room /\ kind \in Kinds /\ clicks < MaxClicks /\ clicks' = clicks + 1

\* A change of the page starts the 1200 ms again, when the effect runs at all.
SetPage(c, p) ==
  /\ page' = [page EXCEPT ![c] = p]
  /\ timer' = [timer EXCEPT ![c] = Autosaves(c)]
  /\ UNCHANGED <<signedIn, autoSync, ready, based>>

\* The effect of token and payrollAutoSyncEnabled: signed out, nothing is
\* ready; without auto sync everything is; otherwise the page is read first.
SyncEffect(c, token, auto) ==
  /\ signedIn' = [signedIn EXCEPT ![c] = token]
  /\ autoSync' = [autoSync EXCEPT ![c] = auto]
  /\ ready' = [ready EXCEPT ![c] = token /\ ~auto]
  /\ timer' = [timer EXCEPT ![c] = FALSE]
  /\ based' = [based EXCEPT ![c] = FALSE]

\* applyPayrollSnapshot, and the new value of payrollSnapshotReady.
Apply(c, p, isReady) ==
  /\ page' = [page EXCEPT ![c] = p]
  /\ ready' = [ready EXCEPT ![c] = isReady]
  /\ timer' = [timer EXCEPT ![c] = signedIn[c] /\ autoSync[c] /\ isReady]
  /\ based' = [based EXCEPT ![c] = TRUE]
  /\ UNCHANGED <<signedIn, autoSync>>

\* The page stays; the automatic save is started or stopped by the change.
NothingStored(c, isReady) ==
  /\ ready' = [ready EXCEPT ![c] = isReady]
  /\ timer' = IF ready[c] = isReady THEN timer
              ELSE [timer EXCEPT ![c] = signedIn[c] /\ autoSync[c] /\ isReady]
  /\ based' = [based EXCEPT ![c] = TRUE]
  /\ UNCHANGED <<page, signedIn, autoSync>>

----------------------------------------------------------------------------
(* Employees, drafts and payments: the page alone.                         *)

SaveEmployee(c, e) ==
  /\ Click("employee")
  /\ e \notin page[c].employees     \* "already exists": same personal number
  /\ SetPage(c, [page[c] EXCEPT !.employees = @ \cup {e}])
  /\ UNCHANGED <<requests, server>>

HasNoDrafts(p, e) == \A id \in Ids : p.drafts[id] # Absent => p.drafts[id].employee # e
RemoveEmployee(c, e) ==
  /\ Click("employee")
  /\ e \in page[c].employees /\ HasNoDrafts(page[c], e)
  /\ SetPage(c, [page[c] EXCEPT !.employees = @ \ {e}])
  /\ UNCHANGED <<requests, server>>

\* handleSavePayrollDraft: of a selected employee, or of one it saves first.
CreateDraft(c, e, m, gross, rate) ==
  /\ Click("draft")
  /\ gross > 0
  /\ SetPage(c, [page[c] EXCEPT
       !.employees = @ \cup {e},
       !.drafts[clicks + 1] =
          [employee |-> e, month |-> m, gross |-> gross, rate |-> rate, voucher |-> 0]])
  /\ UNCHANGED <<requests, server>>

\* "Booked payroll cannot be deleted."
DeleteDraft(c, id) ==
  /\ Click("delete")
  /\ page[c].drafts[id] # Absent /\ page[c].drafts[id].voucher = 0
  /\ SetPage(c, WithoutDraft(page[c], id))
  /\ UNCHANGED <<requests, server>>

TickPaid(c, id) ==
  /\ Click("pay")
  /\ page[c].drafts[id] # Absent
  /\ SetPage(c, [page[c] EXCEPT !.paid = IF id \in @ THEN @ \ {id} ELSE @ \cup {id}])
  /\ UNCHANGED <<requests, server>>

CreateBatch(c, m) ==
  /\ Click("pay")
  /\ DraftsOf(page[c], m) # {}
  /\ SetPage(c, [page[c] EXCEPT
       !.batches = @ \cup {[rows |-> DraftsOf(page[c], m), paid |-> FALSE]}])
  /\ UNCHANGED <<requests, server>>

MarkBatchPaid(c) ==
  /\ Click("pay")
  /\ \E b \in page[c].batches :
       /\ ~b.paid
       /\ SetPage(c, [page[c] EXCEPT
            !.paid = @ \cup b.rows,
            !.batches = (@ \ {b}) \cup {[b EXCEPT !.paid = TRUE]}])
  /\ UNCHANGED <<requests, server>>

----------------------------------------------------------------------------
(* Booking.  A file is chosen before each; nothing disables the button     *)
(* while the answer is awaited.                                            *)

Booking(c, kind, m, rows, first) ==
  [id |-> clicks + 1, by |-> c, kind |-> kind, month |-> m, todo |-> rows \ {first},
   done |-> {}, at |-> first, state |-> "sent", number |-> 0, heard |-> TRUE]

Send(booking) ==
  /\ bookings' = bookings \cup {booking}
  /\ UNCHANGED <<client, saves, loads, server>>

BookDraft(c, id) ==
  /\ Click("book")
  /\ signedIn[c] /\ page[c].drafts[id] # Absent /\ page[c].drafts[id].voucher = 0
  /\ Send(Booking(c, "draft", page[c].drafts[id].month, {}, RowOf(page[c], id)))

BookMonth(c, m) ==
  /\ Click("month")
  /\ signedIn[c]
  /\ LET rows == {RowOf(page[c], id) : id \in Unbooked(page[c], m)}
     IN  \E first \in rows : Send(Booking(c, "month", m, rows, first))

\* bookPayrollTaxAccountTransfer, bookPayrollTaxSettlement: once per month,
\* as far as the page knows.
BookTax(c, kind, m) ==
  /\ Click("tax")
  /\ signedIn[c] /\ TaxIsDue(page[c], m) /\ page[c].marks[kind][m] = 0
  /\ Send(Booking(c, kind, m, {}, Absent))

Purpose(b) == IF b.kind \in TaxKinds THEN Tax(b.kind, b.month) ELSE Salary(b.at.id)
Acceptable(b) == IF b.kind \in TaxKinds THEN TRUE ELSE Balances(b.at)

\* The server posts a balanced voucher, or refuses: locked date, evidence.
PostVoucher(b) ==
  /\ b.state = "sent" /\ Acceptable(b)
  /\ vouchers' = Append(vouchers, Purpose(b))
  /\ bookings' = (bookings \ {b}) \cup
       (IF b.heard THEN {[b EXCEPT !.state = "posted", !.number = Len(vouchers) + 1]} ELSE {})
  /\ UNCHANGED <<client, saves, loads, stored, revisions, clicks>>

RefuseVoucher(b) ==
  /\ b.state = "sent"
  /\ bookings' = (bookings \ {b}) \cup
       (IF b.heard THEN {[b EXCEPT !.state = "refused"]} ELSE {})
  /\ UNCHANGED <<client, saves, loads, server, clicks>>

\* The drafts a booking has vouchers for when it is answered.
\* Faulty variant: those it had left are marked with them.
AllAsked(b) ==
  b.done \cup {[id |-> r.id, voucher |-> Len(vouchers)] : r \in b.todo \cup {b.at}}
Booked(b) ==
  IF b.state = "posted" THEN b.done \cup {[id |-> b.at.id, voucher |-> b.number]} ELSE b.done

AnswerBooking(b) ==
  /\ b.heard /\ b.state # "sent" /\ b.kind \in {"draft", "month"}
  /\ IF b.state = "posted" /\ b.todo # {}
       THEN /\ \E next \in b.todo :
                 bookings' = (bookings \ {b}) \cup
                   {[b EXCEPT !.todo = @ \ {next}, !.done = Booked(b), !.at = next,
                              !.state = "sent", !.number = 0]}
            /\ UNCHANGED client
       ELSE /\ bookings' = bookings \ {b}
            /\ IF Booked(b) = {} THEN UNCHANGED client
               ELSE SetPage(b.by, WithVouchers(page[b.by], Booked(b)))
  /\ UNCHANGED <<saves, loads, server, clicks>>

AnswerTax(b) ==
  /\ b.heard /\ b.state # "sent" /\ b.kind \in TaxKinds
  /\ bookings' = bookings \ {b}
  /\ IF b.state = "refused" THEN UNCHANGED client
     ELSE SetPage(b.by, [page[b.by] EXCEPT !.marks[b.kind][b.month] = b.number])
  /\ UNCHANGED <<saves, loads, server, clicks>>

\* The connection drops: the handler ends where it waits, the server does not.
LoseConnection(b) ==
  /\ b.heard
  /\ bookings' = (bookings \ {b}) \cup
       (IF b.state = "sent" THEN {[b EXCEPT !.heard = FALSE]} ELSE {})
  /\ UNCHANGED <<client, saves, loads, server, clicks>>

----------------------------------------------------------------------------
(* The snapshot.                                                           *)

Put(c, auto) == saves' = saves \cup {[by |-> c, content |-> page[c], kept |-> FALSE, auto |-> auto]}

SaveNow(c) ==
  /\ Click("save")
  /\ signedIn[c]
  /\ Put(c, FALSE)
  /\ UNCHANGED <<client, bookings, loads, server>>

Autosave(c) ==
  /\ Room /\ timer[c]
  /\ timer' = [timer EXCEPT ![c] = FALSE]
  /\ Put(c, TRUE)
  /\ UNCHANGED <<page, signedIn, autoSync, ready, based, bookings, loads, server, clicks>>

\* savePayrollSnapshot: two repository calls, each a transaction.
\* Faulty variant: the row is replaced before its revision is kept.
RowFirst(s) ==
  IF s.kept THEN revisions' = revisions \cup {s.content} /\ UNCHANGED stored
  ELSE stored' = s.content /\ UNCHANGED revisions
RevisionFirst(s) ==
  IF s.kept THEN stored' = s.content /\ UNCHANGED revisions
  ELSE revisions' = revisions \cup {s.content} /\ UNCHANGED stored
StoreSnapshot(s) ==
  /\ RevisionFirst(s)
  /\ saves' = (saves \ {s}) \cup (IF s.kept THEN {} ELSE {[s EXCEPT !.kept = TRUE]})
  /\ UNCHANGED <<client, bookings, loads, vouchers, clicks>>

\* Refused, or the server stops between the two.
StopSave(s) ==
  /\ saves' = saves \ {s}
  /\ UNCHANGED <<client, bookings, loads, server, clicks>>

LoadNow(c) ==
  /\ Click("load")
  /\ signedIn[c]
  /\ loads' = loads \cup {[FirstLoad(c) EXCEPT !.markReady = FALSE, !.wasReady = ready[c]]}
  /\ UNCHANGED <<client, bookings, saves, server>>

ReadSnapshot(l) ==
  /\ l.state = "sent"
  /\ loads' = (loads \ {l}) \cup {[l EXCEPT !.state = "read", !.content = stored]}
  /\ UNCHANGED <<client, bookings, saves, server, clicks>>

\* payrollSnapshotReady is the value the handler saw when it was called.
AnswerLoad(l) ==
  /\ l.state = "read"
  /\ IF l.content = Nothing THEN NothingStored(l.by, l.markReady)
     ELSE Apply(l.by, l.content, l.markReady \/ l.wasReady)
  /\ loads' = loads \ {l}
  /\ UNCHANGED <<bookings, saves, server, clicks>>

\* Refused: not ready.  Lost: nothing happens.
FailLoad(l) ==
  /\ loads' = loads \ {l}
  /\ \/ /\ ready' = [ready EXCEPT ![l.by] = FALSE]
        /\ timer' = [timer EXCEPT ![l.by] = FALSE]
        /\ UNCHANGED <<page, signedIn, autoSync, based>>
     \/ UNCHANGED client
  /\ UNCHANGED <<bookings, saves, server, clicks>>

\* restorePayrollSnapshotRevision of one of the rows listed.
Restore(c) ==
  /\ Click("restore")
  /\ \E r \in revisions : Apply(c, r, TRUE)
  /\ UNCHANGED <<requests, server>>

----------------------------------------------------------------------------
(* The session.                                                            *)

StartSync(c, token, auto) ==
  /\ SyncEffect(c, token, auto)
  /\ loads' = IF token /\ auto THEN loads \cup {FirstLoad(c)} ELSE loads

SwitchAutoSync(c) ==
  /\ Click("switch")
  /\ StartSync(c, signedIn[c], ~autoSync[c])
  /\ UNCHANGED <<page, bookings, saves, server>>

SignInOrOut(c) ==
  /\ Click("session")
  /\ StartSync(c, ~signedIn[c], autoSync[c])
  /\ UNCHANGED <<page, bookings, saves, server>>

\* The page is loaded again: state from localStorage, nobody hears answers.
ReloadPage(c) ==
  /\ Click("reload")
  /\ SyncEffect(c, signedIn[c], autoSync[c])
  /\ loads' = {l \in loads : l.by # c} \cup
              (IF signedIn[c] /\ autoSync[c] THEN {FirstLoad(c)} ELSE {})
  /\ bookings' = {b \in bookings : b.by # c} \cup
                 {[b EXCEPT !.heard = FALSE] : b \in {x \in bookings : x.by = c /\ x.state = "sent"}}
  /\ UNCHANGED <<page, saves, server>>

\* clearLocalPreferences: auto sync is on again, and its effect runs when it
\* was off.
\* Faulty variant: payrollSnapshotReady is left as it is.
StillReady(c) == ready' = ready
NotReady(c) == ready' = [ready EXCEPT ![c] = FALSE]
ClearLocalPreferences(c) ==
  /\ Click("clear")
  /\ page' = [page EXCEPT ![c] = Empty]
  /\ autoSync' = [autoSync EXCEPT ![c] = TRUE]
  /\ NotReady(c)
  /\ timer' = [timer EXCEPT ![c] = signedIn[c] /\ ready'[c]]
  /\ based' = [based EXCEPT ![c] = FALSE]
  /\ loads' = IF signedIn[c] /\ ~autoSync[c] THEN loads \cup {FirstLoad(c)} ELSE loads
  /\ UNCHANGED <<signedIn, bookings, saves, server>>

----------------------------------------------------------------------------
(* The specification.                                                      *)

UserActs(c) ==
  \/ \E e \in Employees : SaveEmployee(c, e) \/ RemoveEmployee(c, e)
  \/ \E e \in Employees, m \in Months, gross \in Salaries, rate \in TaxRates :
       CreateDraft(c, e, m, gross, rate)
  \/ \E id \in Ids : DeleteDraft(c, id) \/ TickPaid(c, id) \/ BookDraft(c, id)
  \/ \E m \in Months : CreateBatch(c, m) \/ BookMonth(c, m)
  \/ \E k \in TaxKinds, m \in Months : BookTax(c, k, m)
  \/ MarkBatchPaid(c) \/ SaveNow(c) \/ LoadNow(c) \/ Restore(c)
  \/ SwitchAutoSync(c) \/ SignInOrOut(c) \/ ReloadPage(c) \/ ClearLocalPreferences(c)

Answers ==
  \/ \E b \in bookings :
       PostVoucher(b) \/ RefuseVoucher(b) \/ AnswerBooking(b) \/ AnswerTax(b) \/ LoseConnection(b)
  \/ \E s \in saves : StoreSnapshot(s) \/ StopSave(s)
  \/ \E l \in loads : ReadSnapshot(l) \/ AnswerLoad(l) \/ FailLoad(l)

Quiet == clicks = MaxClicks /\ requests = <<{}, {}, {}>> /\ UNCHANGED vars

Next == (\E c \in Clients : UserActs(c) \/ Autosave(c)) \/ Answers \/ Quiet

Spec == Init /\ [][Next]_vars

----------------------------------------------------------------------------
(* Properties.                                                             *)

\* Every copy of the payroll there is, in a page, on its way, or stored.
Copies ==
  ({page[c] : c \in Clients} \cup {s.content : s \in saves} \cup revisions
    \cup {stored} \cup {l.content : l \in loads}) \ {Nothing}

HasVoucher(n, purpose) == n # 0 => n \in DOMAIN vouchers /\ vouchers[n] = purpose

\* Whatever is loaded, restored, lost or answered late, a draft or a tax
\* payment that any copy marks as booked has its own voucher in the books
\* (bookPayrollDraft, bookPayrollReportMonth, the two of the tax), and no copy
\* has a draft without its employee (removePayrollEmployee).
CopiesAreSound ==
  \A p \in Copies :
    /\ \A id \in Ids : p.drafts[id] # Absent =>
         /\ HasVoucher(p.drafts[id].voucher, Salary(id))
         /\ p.drafts[id].employee \in p.employees
    /\ \A k \in TaxKinds, m \in Months : HasVoucher(p.marks[k][m], Tax(k, m))

\* An automatic save only sends a page that was read from the database, or
\* restored from it, since the sign-in, the switch of auto sync or the
\* reset of the local preferences: a fresh or emptied page never replaces
\* the stored payroll by itself.
AutosaveFollowsLoad ==
  [][\A s \in saves' \ saves : s.auto /\ ~s.kept => based[s.by]]_vars

\* What the database shows can be found again in its history, whatever
\* happens between the two writes of savePayrollSnapshot.
StoredIsKept == stored # Nothing => stored \in revisions

-----------------------------------------------------------------------------
(* Does not hold: see the README, section 5.                               *)

\* What deletePayrollDraft says: "Booked payroll cannot be deleted."  Without
\* loads and restores, a salary that is booked stays in the page.
BookedPayrollIsKept ==
  \A n \in DOMAIN vouchers :
    vouchers[n].kind = "salary" => \E c \in Clients : page[c].drafts[vouchers[n].of] # Absent
=============================================================================
