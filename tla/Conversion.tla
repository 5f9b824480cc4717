----------------------------- MODULE Conversion -----------------------------
(***************************************************************************)
(* Items that live in the browser alone and become documents of the        *)
(* server: a quote or a service job becomes an invoice, a voucher of an    *)
(* imported SIE file becomes a voucher, a row of the Bokio queue an        *)
(* expense.  The item is marked when the request is answered; the list is  *)
(* kept in localStorage, the requests and the chosen files are not.        *)
(*                                                                         *)
(* Items do not depend on one another: a behaviour follows one.            *)
(***************************************************************************)
EXTENDS Integers, FiniteSets

CONSTANTS
  Kinds,        \* kinds of items a behaviour may follow
  MaxClicks,    \* bound: user actions
  MaxInFlight   \* bound: requests in flight

AllKinds == {"quote", "job", "rutRotJob", "sie", "bokio"}
ASSUME KindsAssumption == Kinds \subseteq AllKinds
ASSUME BoundsAssumption == MaxClicks \in Nat /\ MaxInFlight \in Nat

VARIABLES
  kind,
  item,       \* the item in the list and in localStorage, or Removed
  evidence,   \* a file has been chosen for the SIE voucher, or the Bokio row
  importing,  \* sieVoucherImportingRef has the voucher
  requests,   \* conversions in flight
  documents,  \* documents of the server made from the item
  clicks,
  lost,       \* history: a document was made and its answer not heard
  paidFor     \* history: the document "customer paid" was clicked for
vars == <<kind, item, evidence, importing, requests, documents, clicks, lost, paidFor>>

JobStatuses ==
  {"planned", "confirmed", "done", "invoiced", "rutrotCustomerPaid", "rutrotRequested",
   "rutrotReceived", "closed"}
Statuses ==
  CASE kind = "quote" -> {"draft", "sent", "accepted", "rejected", "invoiced"}
    [] kind = "bokio" -> {"review", "ready", "imported"}
    [] kind = "sie" -> {"review"}
    [] OTHER -> JobStatuses
Claims == {"none", "waiting", "readyToRequest", "requested", "received"}
Ids == 1 .. MaxClicks
Items ==
  [status: Statuses, document: {0} \cup Ids, payment: {"none", "waiting", "paid"}, claim: Claims]
Removed == [status |-> "removed"]
Requests == [id: Ids, step: {"sent", "done", "refused", "receipt"}, heard: BOOLEAN]

TypeOK ==
  /\ kind \in Kinds
  /\ item \in Items \cup {Removed}
  /\ evidence \in BOOLEAN /\ importing \in BOOLEAN /\ lost \in BOOLEAN
  /\ requests \subseteq Requests
  /\ documents \subseteq Ids /\ clicks \in 0 .. MaxClicks /\ paidFor \in {0} \cup Ids

Fresh(status) == [status |-> status, document |-> 0, payment |-> "none", claim |-> "none"]

\* The item as the handler adds it; forms that are refused add none.
handleCreateQuote == Fresh("draft")
handleCreateServiceJob == Fresh("planned")
handleBokioImportFiles == Fresh("review")
\* A voucher of an analysed file that sieVoucherImportStatus lets through.
SieVoucher == Fresh("review")
NewItem ==
  CASE kind = "quote" -> handleCreateQuote
    [] kind = "sie" -> SieVoucher
    [] kind = "bokio" -> handleBokioImportFiles
    [] OTHER -> handleCreateServiceJob
Init ==
  /\ kind \in Kinds
  /\ item = NewItem
  /\ evidence \in (IF kind = "bokio" THEN BOOLEAN ELSE {FALSE})
  /\ importing = FALSE /\ requests = {} /\ documents = {}
  /\ clicks = 0 /\ lost = FALSE /\ paidFor = 0

Click == clicks < MaxClicks /\ clicks' = clicks + 1
Listed == item # Removed
IsJob == kind \in {"job", "rutRotJob"}

----------------------------------------------------------------------------
(* The buttons of a listed item.                                           *)

Update(new) ==
  /\ Click /\ Listed
  /\ item' = new
  /\ UNCHANGED <<kind, evidence, importing, requests, documents, lost, paidFor>>

updateQuoteStatus ==
  /\ kind = "quote"
  /\ \E status \in {"sent", "accepted", "rejected"} : Update([item EXCEPT !.status = status])

updateServiceJobStatus ==
  /\ IsJob /\ Listed
  /\ \E status \in {"confirmed", "done", "closed"} :
       /\ status = "confirmed" =>
            item.status \notin {"done", "invoiced", "rutrotRequested", "rutrotReceived", "closed"}
       /\ Update([item EXCEPT !.status = status])

\* The status of a Bokio row is a choice of the user.
updateBokioImportRow ==
  /\ kind = "bokio"
  /\ \E status \in Statuses : Update([item EXCEPT !.status = status])

\* deleteQuote, deleteServiceJob, removeBokioImportRow; clearReviewedBokioImports too.
RemoveItem ==
  /\ Click /\ Listed
  /\ item' = Removed
  /\ evidence' = FALSE
  /\ UNCHANGED <<kind, importing, requests, documents, lost, paidFor>>

ChooseEvidence ==
  /\ kind = "sie"
  /\ Click /\ Listed /\ item.document = 0
  /\ evidence' \in BOOLEAN
  /\ UNCHANGED <<kind, item, importing, requests, documents, lost, paidFor>>

----------------------------------------------------------------------------
(* The claim of a tax deduction for a service job.                         *)

\* A job whose customer has a personal number and an address.
serviceJobRutRotClaimStatus(job) ==
  CASE job.claim = "received" \/ job.status = "rutrotReceived" -> "received"
    [] job.claim = "requested" \/ job.status = "rutrotRequested" -> "requested"
    [] job.payment = "paid" \/ job.status = "rutrotCustomerPaid" -> "readyToRequest"
    [] job.document # 0 -> "waitingCustomerPayment"
    [] job.status = "done" -> "readyToInvoice"
    [] OTHER -> "waitingWork"

markServiceJobCustomerPaid ==
  /\ kind = "rutRotJob"
  /\ Click /\ Listed /\ item.document # 0
  /\ item' = [item EXCEPT !.status = "rutrotCustomerPaid", !.payment = "paid",
                          !.claim = "readyToRequest"]
  /\ paidFor' = item.document
  /\ UNCHANGED <<kind, evidence, importing, requests, documents, lost>>

markServiceJobRutRotRequested ==
  /\ kind = "rutRotJob" /\ Listed
  /\ serviceJobRutRotClaimStatus(item) = "readyToRequest"
  /\ Update([item EXCEPT !.status = "rutrotRequested", !.claim = "requested"])

markServiceJobRutRotReceived ==
  /\ kind = "rutRotJob" /\ Listed
  /\ serviceJobRutRotClaimStatus(item) = "requested"
  /\ Update([item EXCEPT !.status = "rutrotReceived", !.claim = "received"])

----------------------------------------------------------------------------
(* Conversions.                                                            *)

\* Faulty variant: sieVoucherImportingRef is not looked at.
WithoutImportGuard == item.document = 0 /\ evidence
createManualVoucherFromSie == item.document = 0 /\ ~importing /\ evidence
createExpenseFromBokioImport == item.status # "imported"
createInvoiceFromQuote == TRUE
createInvoiceFromServiceJob == item.status # "invoiced"

Convert ==
  /\ Click /\ Listed /\ Cardinality(requests) < MaxInFlight
  /\ CASE kind = "sie" -> createManualVoucherFromSie
       [] kind = "bokio" -> createExpenseFromBokioImport
       [] kind = "quote" -> createInvoiceFromQuote
       [] OTHER -> createInvoiceFromServiceJob
  /\ importing' = (importing \/ kind = "sie")
  /\ requests' = requests \cup {[id |-> clicks', step |-> "sent", heard |-> TRUE]}
  /\ UNCHANGED <<kind, item, evidence, documents, lost, paidFor>>

Commit(q) ==
  /\ q.step = "sent"
  /\ documents' = documents \cup {q.id}
  /\ requests' = (requests \ {q}) \cup (IF q.heard THEN {[q EXCEPT !.step = "done"]} ELSE {})
  /\ lost' = (lost \/ ~q.heard)
  /\ UNCHANGED <<kind, item, evidence, importing, clicks, paidFor>>

Refuse(q) ==
  /\ q.step = "sent"
  /\ requests' = (requests \ {q}) \cup (IF q.heard THEN {[q EXCEPT !.step = "refused"]} ELSE {})
  /\ UNCHANGED <<kind, item, evidence, importing, documents, clicks, lost, paidFor>>

\* The item after an invoice, a voucher or an expense was made from it.
\* Faulty variant: the payment and the claim of a job are left alone.
MarkedOnly(old, n) ==
  [old EXCEPT !.document = n, !.status = CASE kind = "bokio" -> "imported" [] kind = "sie" -> @
                                           [] OTHER -> "invoiced"]
Converted(old, n) ==
  CASE kind = "sie" -> [old EXCEPT !.document = n]
    [] kind = "bokio" -> [old EXCEPT !.document = n, !.status = "imported"]
    [] kind = "rutRotJob" ->
         [old EXCEPT !.document = n, !.status = "invoiced", !.payment = "waiting", !.claim = "waiting"]
    [] OTHER -> [old EXCEPT !.document = n, !.status = "invoiced"]
Finish(q) ==
  /\ item' = IF Listed THEN Converted(item, q.id) ELSE Removed
  /\ evidence' = (evidence /\ kind # "sie")
  /\ importing' = FALSE
  /\ requests' = requests \ {q}

\* The receipt of a Bokio row is sent before the row is marked.
Answer(q) ==
  /\ q.heard /\ q.step = "done"
  /\ IF kind = "bokio" /\ evidence
     THEN /\ requests' = (requests \ {q}) \cup {[q EXCEPT !.step = "receipt"]}
          /\ UNCHANGED <<item, evidence, importing>>
     ELSE Finish(q)
  /\ UNCHANGED <<kind, documents, clicks, lost, paidFor>>

\* Stored, or refused.
AnswerReceipt(q) ==
  /\ q.heard /\ q.step = "receipt"
  /\ Finish(q)
  /\ UNCHANGED <<kind, documents, clicks, lost, paidFor>>

\* Nobody hears the answers that are still to come; files are not kept.
Unheard == {[q EXCEPT !.heard = FALSE] : q \in {r \in requests : r.step = "sent"}}
Leave ==
  /\ evidence' = FALSE /\ importing' = FALSE
  /\ requests' = Unheard
  /\ lost' = (lost \/ \E q \in requests : q.step \in {"done", "receipt"})

\* "finally": the voucher is taken out of sieVoucherImportingRef.
\* Faulty variant: not when the server refuses.
KeptInRef(q) == IF q.step = "refused" THEN importing ELSE FALSE
AfterFinally(q) == FALSE

\* A service job is marked even so: createdInvoice.id of null throws in the
\* render, and the error boundary loads the page again.
AnswerRefused(q) ==
  /\ q.heard /\ q.step = "refused"
  /\ IF IsJob /\ Listed
     THEN LET others == requests \ {q}
          IN  /\ requests' = {[r EXCEPT !.heard = FALSE] : r \in {s \in others : s.step = "sent"}}
              /\ lost' = (lost \/ \E r \in others : r.step = "done")
              /\ evidence' = FALSE
              /\ UNCHANGED importing
     ELSE /\ requests' = requests \ {q}
          /\ importing' = AfterFinally(q)
          /\ UNCHANGED <<evidence, lost>>
  /\ UNCHANGED <<kind, item, documents, clicks, paidFor>>

\* No answer comes, or not to the upload of the receipt.
LoseAnswer(q) ==
  /\ q.heard /\ q.step # "refused"
  /\ requests' = (requests \ {q}) \cup (IF q.step = "sent" THEN {[q EXCEPT !.heard = FALSE]} ELSE {})
  /\ importing' = AfterFinally(q)
  /\ lost' = (lost \/ q.step # "sent")
  /\ UNCHANGED <<kind, item, evidence, documents, clicks, paidFor>>

ReloadPage ==
  /\ Click
  /\ Leave
  /\ UNCHANGED <<kind, item, documents, paidFor>>

----------------------------------------------------------------------------
Clicks ==
  \/ updateQuoteStatus \/ updateServiceJobStatus \/ updateBokioImportRow \/ RemoveItem
  \/ ChooseEvidence \/ Convert \/ ReloadPage
  \/ markServiceJobCustomerPaid \/ markServiceJobRutRotRequested \/ markServiceJobRutRotReceived
Network ==
  \E q \in requests :
    Commit(q) \/ Refuse(q) \/ Answer(q) \/ AnswerReceipt(q) \/ AnswerRefused(q) \/ LoseAnswer(q)
Quiet == clicks = MaxClicks /\ requests = {} /\ UNCHANGED vars

Next == Clicks \/ Network \/ Quiet
Spec == Init /\ [][Next]_vars

----------------------------------------------------------------------------
(* Properties.                                                             *)

\* createManualVoucherFromSie: unless an answer was lost, a voucher of a SIE
\* file is booked once, however often and early the button is clicked.
SieImportedOnce == kind = "sie" /\ ~lost => Cardinality(documents) <= 1

\* The button of a SIE voucher is disabled exactly while a request of this
\* page waits for its answer: no refusal or lost answer leaves it dead.
ImportButtonComesBack == importing <=> kind = "sie" /\ \E q \in requests : q.heard

\* A tax deduction is claimed, or received, only for the invoice whose
\* payment by the customer was registered, also when a second invoice for
\* the same job is answered late (createInvoiceFromServiceJob).
ClaimFollowsPayment ==
  Listed /\ kind = "rutRotJob" /\ serviceJobRutRotClaimStatus(item) \in {"requested", "received"} =>
    item.document # 0 /\ paidFor = item.document
=============================================================================
