--------------------------- MODULE TransferProofs ---------------------------
(***************************************************************************)
(* Proofs about the two components that carry what the books rest on out   *)
(* of one store into another: Conversion, from the browser to the server,  *)
(* and Backup, from the server into a package and back.  They share no     *)
(* state: each has a specification and an inductive invariant of its own.  *)
(*                                                                         *)
(* Conversion, for every kind of item and any number of clicks and         *)
(* requests in flight.  Backup, for every business, every set of receipt   *)
(* files and every number of scripts, faults and writers: what a script    *)
(* has verified is what it describes in the manifest, and what a later     *)
(* check accepts is what the manifest describes.                           *)
(***************************************************************************)
EXTENDS Conversion, Backup, FiniteSetTheorems, TLAPS

----------------------------------------------------------------------------
(* Conversion: the inductive invariant.                                    *)

\* sieVoucherImportingRef lets one request of the page through at a time.
OneHeard == kind = "sie" => \A q, r \in requests : q.heard /\ r.heard => q = r
OnlyRowsHaveReceipts == \A q \in requests : q.step = "receipt" => kind = "bokio"

\* The one voucher of a SIE item is on the item, or its answer is on the way
\* and keeps the button disabled until then.
VoucherIsKnown(n) ==
  \/ /\ item = Removed \/ item.document = n
     /\ \A q \in requests : q.heard => q.step = "refused"
  \/ \E q \in requests : q.heard /\ q.step = "done" /\ q.id = n
SieVouchers ==
  kind = "sie" /\ ~lost =>
    documents = {} \/ \E n \in Ids : documents = {n} /\ VoucherIsKnown(n)

\* Whatever says that the customer paid is about the present invoice.
SaysPaid ==
  \/ item.payment = "paid"
  \/ item.claim \in {"requested", "received"}
  \/ item.status \in {"rutrotCustomerPaid", "rutrotRequested", "rutrotReceived"}
PaymentIsOfTheInvoice ==
  kind = "rutRotJob" /\ Listed /\ SaysPaid => item.document # 0 /\ paidFor = item.document

IInv ==
  /\ TypeOK /\ OneHeard /\ OnlyRowsHaveReceipts /\ ImportButtonComesBack
  /\ SieVouchers /\ PaymentIsOfTheInvoice

----------------------------------------------------------------------------
(* Conversion: every step keeps the invariant.                             *)

\* The fields of an item that is still listed.
LEMMA ItemFields ==
  ASSUME TypeOK, Listed
  PROVE  /\ item \in Items /\ item.status \in Statuses /\ item.document \in {0} \cup Ids
         /\ item.payment \in {"none", "waiting", "paid"} /\ item.claim \in Claims
BY DEF TypeOK, Listed, Items

LEMMA ClickType == ASSUME TypeOK, Click PROVE clicks' \in Ids /\ clicks' \in 0 .. MaxClicks
BY BoundsAssumption DEF TypeOK, Click, Ids

\* A request in flight that moves on, or is no longer listened to.
LEMMA MovedRequest ==
  ASSUME NEW q \in Requests
  PROVE  /\ [q EXCEPT !.heard = FALSE] \in Requests /\ ~[q EXCEPT !.heard = FALSE].heard
         /\ \A step \in {"sent", "done", "refused", "receipt"} :
              LET moved == [q EXCEPT !.step = step]
              IN  moved \in Requests /\ moved.step = step /\ moved.id = q.id /\ moved.heard = q.heard
BY DEF Requests

LEMMA ConvertedType ==
  ASSUME TypeOK, Listed, NEW n \in Ids
  PROVE  /\ Converted(item, n) \in Items /\ Converted(item, n).document = n
         /\ Converted(item, n) # Removed
<1>1. item \in Items /\ kind \in AllKinds
  BY ItemFields, KindsAssumption DEF TypeOK
<1>2. Converted(item, n) \in Items /\ Converted(item, n).document = n
  BY <1>1 DEF Converted, Items, AllKinds, Statuses, JobStatuses, Claims
<1>3. \A i \in Items : i.status \in Statuses
  BY DEF Items
<1>4. "removed" \notin Statuses
  BY <1>1 DEF Statuses, JobStatuses, AllKinds
<1> QED BY <1>2, <1>3, <1>4 DEF Removed

\* What a step has to show about the parts it changes.
LEMMA TypeByParts ==
  ASSUME TypeOK, kind' = kind, item' \in Items \cup {Removed}, evidence' \in BOOLEAN,
         importing' \in BOOLEAN, requests' \subseteq Requests, documents' \subseteq Ids,
         clicks' \in 0 .. MaxClicks, lost' \in BOOLEAN, paidFor' \in {0} \cup Ids
  PROVE  TypeOK'
<1>1. Items' = Items
  BY DEF Items, Statuses
<1> QED BY <1>1 DEF TypeOK

LEMMA StepType == TypeOK /\ [Next]_vars => TypeOK'
<1> SUFFICES ASSUME TypeOK, [Next]_vars PROVE TypeOK'
  OBVIOUS
<1>0. /\ kind \in AllKinds /\ item \in Items \cup {Removed} /\ evidence \in BOOLEAN
      /\ importing \in BOOLEAN /\ requests \subseteq Requests /\ documents \subseteq Ids
      /\ clicks \in 0 .. MaxClicks /\ lost \in BOOLEAN /\ paidFor \in {0} \cup Ids
  BY KindsAssumption DEF TypeOK
<1>1. ASSUME NEW new, Update(new), new \in Items PROVE TypeOK'
  BY <1>0, <1>1, TypeByParts, ClickType DEF Update
<1>2. ASSUME updateQuoteStatus \/ updateServiceJobStatus \/ updateBokioImportRow PROVE TypeOK'
  <2>1. PICK status \in Statuses : Update([item EXCEPT !.status = status])
    BY <1>2 DEF updateQuoteStatus, updateServiceJobStatus, updateBokioImportRow, IsJob, Statuses,
      JobStatuses
  <2>2. [item EXCEPT !.status = status] \in Items
    BY <2>1, ItemFields DEF Update, Items
  <2> QED BY <1>1, <2>1, <2>2
<1>3. ASSUME markServiceJobRutRotRequested \/ markServiceJobRutRotReceived PROVE TypeOK'
  <2>1. PICK status \in {"rutrotRequested", "rutrotReceived"}, claim \in {"requested", "received"} :
          Update([item EXCEPT !.status = status, !.claim = claim])
    BY <1>3 DEF markServiceJobRutRotRequested, markServiceJobRutRotReceived
  <2>2. status \in Statuses /\ claim \in Claims
    BY <1>3 DEF markServiceJobRutRotRequested, markServiceJobRutRotReceived, Statuses, JobStatuses,
      Claims
  <2>3. [item EXCEPT !.status = status, !.claim = claim] \in Items
    BY <2>1, <2>2, ItemFields DEF Update, Items
  <2> QED BY <1>1, <2>1, <2>3
<1>4. ASSUME markServiceJobCustomerPaid PROVE TypeOK'
  <2>1. [item EXCEPT !.status = "rutrotCustomerPaid", !.payment = "paid",
                     !.claim = "readyToRequest"] \in Items
    BY <1>4, ItemFields DEF markServiceJobCustomerPaid, Items, Statuses, JobStatuses, Claims
  <2> QED BY <1>0, <1>4, <2>1, TypeByParts, ClickType, ItemFields DEF markServiceJobCustomerPaid
<1>5. ASSUME RemoveItem \/ ChooseEvidence PROVE TypeOK'
  BY <1>0, <1>5, TypeByParts, ClickType DEF RemoveItem, ChooseEvidence
<1>6. ASSUME Convert PROVE TypeOK'
  <2>1. clicks' \in Ids /\ clicks' \in 0 .. MaxClicks
    BY <1>6, ClickType DEF Convert
  <2>2. [id |-> clicks', step |-> "sent", heard |-> TRUE] \in Requests
    BY <2>1 DEF Requests
  <2>3. UNCHANGED <<kind, item, evidence, documents, lost, paidFor>> /\ importing' \in BOOLEAN
        /\ requests' \subseteq Requests
    BY <1>0, <1>6, <2>2 DEF Convert
  <2> QED BY <1>0, <2>1, <2>3, TypeByParts
<1>7. ASSUME ReloadPage PROVE TypeOK'
  <2>1. Unheard \subseteq Requests
    BY <1>0, MovedRequest DEF Unheard
  <2>2. /\ UNCHANGED <<kind, item, documents, paidFor>> /\ evidence' \in BOOLEAN
        /\ importing' \in BOOLEAN /\ requests' \subseteq Requests /\ lost' \in BOOLEAN
    BY <1>0, <1>7, <2>1 DEF ReloadPage, Leave
  <2> QED BY <1>0, <1>7, <2>2, TypeByParts, ClickType DEF ReloadPage
<1>8. ASSUME NEW q \in requests, Commit(q) \/ Refuse(q) PROVE TypeOK'
  <2>1. /\ [q EXCEPT !.step = "done"] \in Requests /\ [q EXCEPT !.step = "refused"] \in Requests
        /\ q.id \in Ids /\ q.heard \in BOOLEAN
    BY <1>0 DEF Requests
  <2>2. requests' \subseteq Requests /\ documents' \subseteq Ids /\ lost' \in BOOLEAN
    BY <1>0, <1>8, <2>1 DEF Commit, Refuse
  <2> QED BY <1>0, <1>8, <2>2, TypeByParts DEF Commit, Refuse
<1>9. ASSUME NEW q \in requests, Finish(q), UNCHANGED <<kind, documents, clicks, lost, paidFor>>
      PROVE  TypeOK'
  <2>1. q.id \in Ids
    BY <1>0 DEF Requests
  <2>2. item' \in Items \cup {Removed}
    BY <1>0, <1>9, <2>1, ConvertedType DEF Finish
  <2>3. evidence' \in BOOLEAN /\ importing' \in BOOLEAN /\ requests' \subseteq Requests
    BY <1>0, <1>9 DEF Finish
  <2> QED BY <1>0, <1>9, <2>2, <2>3, TypeByParts
<1>10. ASSUME NEW q \in requests, Answer(q) PROVE TypeOK'
  <2>1. CASE kind = "bokio" /\ evidence
    <3>1. [q EXCEPT !.step = "receipt"] \in Requests
      BY <1>0, MovedRequest
    <3> QED BY <1>0, <1>10, <2>1, <3>1, TypeByParts DEF Answer
  <2>2. CASE ~(kind = "bokio" /\ evidence)
    BY <1>9, <1>10, <2>2 DEF Answer
  <2> QED BY <2>1, <2>2
<1>11. ASSUME NEW q \in requests, AnswerReceipt(q) PROVE TypeOK'
  BY <1>9, <1>11 DEF AnswerReceipt
<1>12. ASSUME NEW q \in requests, AnswerRefused(q) \/ LoseAnswer(q) PROVE TypeOK'
  <2>1. \A r \in requests : [r EXCEPT !.heard = FALSE] \in Requests
    BY <1>0, MovedRequest
  <2>2. CASE AnswerRefused(q)
    <3>1. /\ requests' \subseteq Requests /\ evidence' \in BOOLEAN /\ importing' \in BOOLEAN
          /\ lost' \in BOOLEAN
      <4>1. CASE IsJob /\ Listed
        <5>1. requests' =
                {[r EXCEPT !.heard = FALSE] : r \in {s \in requests \ {q} : s.step = "sent"}}
          BY <2>2, <4>1 DEF AnswerRefused
        <5>2. requests' \subseteq Requests
          BY <2>1, <5>1
        <5>3. lost' = (lost \/ \E r \in requests \ {q} : r.step = "done")
          BY <2>2, <4>1 DEF AnswerRefused
        <5>4. lost' \in BOOLEAN
          BY <1>0, <5>3
        <5> QED BY <1>0, <2>2, <4>1, <5>2, <5>4 DEF AnswerRefused
      <4>2. CASE ~(IsJob /\ Listed)
        BY <1>0, <2>2, <4>2 DEF AnswerRefused, AfterFinally
      <4> QED BY <4>1, <4>2
    <3> QED BY <1>0, <2>2, <3>1, TypeByParts DEF AnswerRefused
  <2>3. CASE LoseAnswer(q)
    <3>1. requests' \subseteq Requests /\ importing' \in BOOLEAN /\ lost' \in BOOLEAN
      BY <1>0, <2>1, <2>3 DEF LoseAnswer, AfterFinally
    <3> QED BY <1>0, <2>3, <3>1, TypeByParts DEF LoseAnswer
  <2> QED BY <1>12, <2>2, <2>3
<1>13. CASE UNCHANGED vars
  BY <1>0, <1>13, TypeByParts DEF vars
<1> QED BY <1>2, <1>3, <1>4, <1>5, <1>6, <1>7, <1>8, <1>10, <1>11, <1>12, <1>13
  DEF Next, Clicks, Network, Quiet

\* One request of a SIE item is heard at a time, and the ref says so.
LEMMA StepHeard ==
  TypeOK /\ OneHeard /\ OnlyRowsHaveReceipts /\ ImportButtonComesBack /\ [Next]_vars =>
    OneHeard' /\ OnlyRowsHaveReceipts' /\ ImportButtonComesBack'
<1> DEFINE Heard == OneHeard /\ OnlyRowsHaveReceipts /\ ImportButtonComesBack
<1> SUFFICES ASSUME TypeOK, Heard, [Next]_vars PROVE Heard'
  OBVIOUS
<1> USE DEF OneHeard, OnlyRowsHaveReceipts, ImportButtonComesBack
<1>0. requests \subseteq Requests /\ importing \in BOOLEAN /\ \A q \in requests : q.heard \in BOOLEAN
  BY DEF TypeOK, Requests
<1>1. CASE UNCHANGED <<kind, importing, requests>>
  BY <1>1
<1>2. ASSUME Convert PROVE Heard'
  <2> DEFINE new == [id |-> clicks', step |-> "sent", heard |-> TRUE]
  <2>1. /\ requests' = requests \cup {new} /\ importing' = (importing \/ kind = "sie")
        /\ kind' = kind /\ (kind = "sie" => ~importing)
    BY <1>2 DEF Convert, createManualVoucherFromSie
  <2>2. new.heard /\ new.step = "sent"
    OBVIOUS
  <2> HIDE DEF new
  <2> QED BY <1>0, <2>1, <2>2
<1>3. ASSUME ReloadPage PROVE Heard'
  <2>1. \A q \in Unheard : ~q.heard /\ q.step = "sent"
    BY <1>0 DEF Unheard, Requests
  <2> QED BY <1>3, <2>1 DEF ReloadPage, Leave
<1>4. ASSUME NEW q \in requests, NEW step \in {"sent", "done", "refused", "receipt"},
             requests' \subseteq (requests \ {q}) \cup (IF q.heard THEN {[q EXCEPT !.step = step]} ELSE {}),
             q.heard => [q EXCEPT !.step = step] \in requests',
             requests \ {q} \subseteq requests',
             step = "receipt" => kind = "bokio", UNCHANGED <<kind, importing>>
      PROVE  Heard'
  <2> DEFINE moved == [q EXCEPT !.step = step]
  <2>1. moved.heard = q.heard /\ moved.step = step
    BY <1>0 DEF Requests
  <2> HIDE DEF moved
  <2>2. /\ \A r \in requests' : r \in requests \ {q} \/ (r = moved /\ q.heard)
        /\ q.heard => moved \in requests'
    BY <1>4 DEF moved
  <2> QED BY <1>0, <1>4, <2>1, <2>2
<1>5. ASSUME NEW q \in requests, Commit(q) PROVE Heard'
  BY <1>4, <1>5 DEF Commit
<1>6. ASSUME NEW q \in requests, Refuse(q) PROVE Heard'
  BY <1>4, <1>6 DEF Refuse
<1>7. ASSUME NEW q \in requests, q.heard, requests' = requests \ {q}, ~importing', kind' = kind
      PROVE  Heard'
  BY <1>0, <1>7
<1>8. ASSUME NEW q \in requests, Answer(q) PROVE Heard'
  <2>1. CASE kind = "bokio" /\ evidence
    BY <1>4, <1>8, <2>1 DEF Answer
  <2>2. CASE ~(kind = "bokio" /\ evidence)
    BY <1>7, <1>8, <2>2 DEF Answer, Finish
  <2> QED BY <2>1, <2>2
<1>9. ASSUME NEW q \in requests, AnswerReceipt(q) PROVE Heard'
  BY <1>7, <1>9 DEF AnswerReceipt, Finish
<1>10. ASSUME NEW q \in requests, AnswerRefused(q) PROVE Heard'
  <2>1. CASE IsJob /\ Listed
    <3>1. kind # "sie" /\ kind' = kind /\ importing' = importing
      BY <1>10, <2>1 DEF AnswerRefused, IsJob
    <3>2. \A r \in requests' : r.step = "sent"
      BY <1>0, <1>10, <2>1 DEF AnswerRefused, Requests
    <3> QED BY <3>1, <3>2
  <2>2. CASE ~(IsJob /\ Listed)
    BY <1>7, <1>10, <2>2 DEF AnswerRefused, AfterFinally
  <2> QED BY <2>1, <2>2
<1>11. ASSUME NEW q \in requests, LoseAnswer(q) PROVE Heard'
  <2> DEFINE lostOne == [q EXCEPT !.heard = FALSE]
  <2>1. ~lostOne.heard /\ lostOne.step = q.step
    BY <1>0 DEF Requests
  <2> HIDE DEF lostOne
  <2>2. /\ \A r \in requests' : r \in requests \ {q} \/ r = lostOne
        /\ q.heard /\ ~importing' /\ kind' = kind
    BY <1>11 DEF LoseAnswer, AfterFinally, lostOne
  <2> QED BY <1>0, <2>1, <2>2
<1> QED BY <1>1, <1>2, <1>3, <1>5, <1>6, <1>8, <1>9, <1>10, <1>11
  DEF Next, Clicks, Network, Quiet, vars, updateQuoteStatus, updateServiceJobStatus,
    updateBokioImportRow, Update, RemoveItem, ChooseEvidence, markServiceJobCustomerPaid,
    markServiceJobRutRotRequested, markServiceJobRutRotReceived

\* The voucher of a SIE item stays known to the page that made it.
LEMMA StepSie ==
  TypeOK /\ OneHeard /\ OnlyRowsHaveReceipts /\ ImportButtonComesBack /\ SieVouchers /\ [Next]_vars =>
    SieVouchers'
<1> SUFFICES ASSUME TypeOK, OneHeard, OnlyRowsHaveReceipts, ImportButtonComesBack, SieVouchers,
                    [Next]_vars, kind' = "sie", ~lost'
             PROVE  documents' = {} \/ \E n \in Ids : documents' = {n} /\ VoucherIsKnown(n)'
  BY DEF SieVouchers
<1> DEFINE Goal == documents' = {} \/ \E n \in Ids : documents' = {n} /\ VoucherIsKnown(n)'
<1>0. /\ requests \subseteq Requests /\ kind = "sie" /\ kind' = kind
      /\ \A q \in requests : q.heard \in BOOLEAN /\ q.step # "receipt"
  BY DEF TypeOK, Requests, OnlyRowsHaveReceipts, Next, Clicks, Network, Quiet, vars,
    updateQuoteStatus, updateServiceJobStatus, updateBokioImportRow, Update, RemoveItem,
    ChooseEvidence, Convert, ReloadPage, markServiceJobCustomerPaid,
    markServiceJobRutRotRequested, markServiceJobRutRotReceived, Commit, Refuse, Answer,
    AnswerReceipt, AnswerRefused, LoseAnswer
<1>1. ASSUME ~lost, UNCHANGED <<requests, documents>>,
             item' = Removed \/ (item # Removed /\ item'.document = item.document)
                             \/ item' = item
      PROVE  Goal
  BY <1>0, <1>1 DEF SieVouchers, VoucherIsKnown
<1>2. ASSUME Convert PROVE Goal
  <2> DEFINE new == [id |-> clicks', step |-> "sent", heard |-> TRUE]
  <2>1. /\ item.document = 0 /\ ~importing /\ item # Removed
        /\ UNCHANGED <<item, documents, lost>> /\ requests' = requests \cup {new}
    BY <1>0, <1>2 DEF Convert, createManualVoucherFromSie, Listed
  <2>2. \A q \in requests : ~q.heard
    BY <1>0, <2>1 DEF ImportButtonComesBack
  <2>3. documents = {}
    BY <1>0, <2>1, <2>2 DEF SieVouchers, VoucherIsKnown, Ids
  <2> QED BY <2>1, <2>3
<1>3. ASSUME ReloadPage PROVE Goal
  <2>1. /\ ~lost /\ UNCHANGED <<item, documents>> /\ \A q \in requests : q.step # "done"
        /\ requests' = Unheard
    BY <1>3 DEF ReloadPage, Leave
  <2>2. \A q \in Unheard : ~q.heard
    BY <1>0 DEF Unheard, Requests
  <2> QED BY <1>0, <2>1, <2>2 DEF SieVouchers, VoucherIsKnown
<1>4. ASSUME NEW q \in requests, Commit(q) PROVE Goal
  <2> DEFINE moved == [q EXCEPT !.step = "done"]
  <2>1. /\ q.heard /\ ~lost /\ q.step = "sent" /\ documents' = documents \cup {q.id}
        /\ moved \in requests' /\ item' = item
    BY <1>0, <1>4 DEF Commit
  <2>2. moved.heard /\ moved.step = "done" /\ moved.id = q.id /\ q.id \in Ids
    BY <1>0, <2>1 DEF Requests
  <2>3. documents = {}
    BY <1>0, <2>1 DEF OneHeard, SieVouchers, VoucherIsKnown
  <2>4. VoucherIsKnown(q.id)'
    BY <2>1, <2>2 DEF VoucherIsKnown
  <2> QED BY <2>1, <2>2, <2>3, <2>4
<1>5. ASSUME NEW q \in requests, Refuse(q) PROVE Goal
  <2> DEFINE moved == [q EXCEPT !.step = "refused"]
  <2>1. ~lost /\ q.step = "sent" /\ UNCHANGED <<documents, item>>
    BY <1>5 DEF Refuse
  <2>2. /\ \A r \in requests' : r \in requests \/ r = moved
        /\ \A r \in requests : r.step = "done" => r \in requests'
    BY <1>5, <2>1 DEF Refuse
  <2>3. moved.step = "refused"
    BY <1>0 DEF Requests
  <2> HIDE DEF moved
  <2> QED BY <1>0, <2>1, <2>2, <2>3 DEF SieVouchers, VoucherIsKnown
<1>6. ASSUME NEW q \in requests, Answer(q) PROVE Goal
  <2>1. /\ q.heard /\ q.step = "done" /\ ~lost /\ documents' = documents
        /\ requests' = requests \ {q}
        /\ item' = IF Listed THEN Converted(item, q.id) ELSE Removed
    BY <1>0, <1>6 DEF Answer, Finish
  <2>2. q.id \in Ids
    BY <1>0 DEF Requests
  <2>3. item' = Removed \/ item'.document = q.id
    BY <2>1, <2>2, ConvertedType
  <2>4. \A r \in requests' : ~r.heard
    BY <1>0, <2>1 DEF OneHeard
  <2>5. documents = {} \/ documents = {q.id}
    BY <1>0, <2>1 DEF SieVouchers, VoucherIsKnown, OneHeard
  <2> QED BY <2>1, <2>2, <2>3, <2>4, <2>5 DEF VoucherIsKnown
<1>7. ASSUME NEW q \in requests, AnswerReceipt(q) PROVE Goal
  BY <1>0, <1>7 DEF AnswerReceipt
<1>8. ASSUME NEW q \in requests, AnswerRefused(q) PROVE Goal
  <2>1. /\ q.step = "refused" /\ ~lost /\ UNCHANGED <<item, documents>>
        /\ requests' = requests \ {q}
    BY <1>0, <1>8 DEF AnswerRefused, IsJob
  <2> QED BY <1>0, <2>1 DEF SieVouchers, VoucherIsKnown
<1>9. ASSUME NEW q \in requests, LoseAnswer(q) PROVE Goal
  <2> DEFINE lostOne == [q EXCEPT !.heard = FALSE]
  <2>1. ~lost /\ q.heard /\ q.step = "sent" /\ UNCHANGED <<documents, item>>
    BY <1>9 DEF LoseAnswer
  <2>2. documents = {}
    BY <1>0, <2>1 DEF OneHeard, SieVouchers, VoucherIsKnown
  <2> QED BY <2>1, <2>2
<1>10. ASSUME ~lost /\ (updateQuoteStatus \/ updateServiceJobStatus \/ updateBokioImportRow
                \/ RemoveItem \/ ChooseEvidence \/ markServiceJobCustomerPaid
                \/ markServiceJobRutRotRequested \/ markServiceJobRutRotReceived)
      PROVE  Goal
  BY <1>0, <1>1, <1>10 DEF updateQuoteStatus, updateServiceJobStatus, updateBokioImportRow, IsJob,
    RemoveItem, ChooseEvidence, markServiceJobCustomerPaid, markServiceJobRutRotRequested,
    markServiceJobRutRotReceived
<1>11. CASE UNCHANGED vars
  BY <1>1, <1>11 DEF vars
<1>12. lost => lost'
  BY DEF Next, Clicks, Network, Quiet, vars,
    updateQuoteStatus, updateServiceJobStatus, updateBokioImportRow, Update, RemoveItem,
    ChooseEvidence, Convert, ReloadPage, Leave, markServiceJobCustomerPaid,
    markServiceJobRutRotRequested, markServiceJobRutRotReceived, Commit, Refuse, Answer,
    AnswerReceipt, AnswerRefused, LoseAnswer, Finish
<1> QED BY <1>2, <1>3, <1>4, <1>5, <1>6, <1>7, <1>8, <1>9, <1>10, <1>11, <1>12
  DEF Next, Clicks, Network, Quiet

\* A registered payment, and the claim made after it, go with the invoice.
LEMMA StepPaid == TypeOK /\ PaymentIsOfTheInvoice /\ [Next]_vars => PaymentIsOfTheInvoice'
<1> SUFFICES ASSUME TypeOK, PaymentIsOfTheInvoice, [Next]_vars,
                    kind' = "rutRotJob", Listed', SaysPaid'
             PROVE  item'.document # 0 /\ paidFor' = item'.document
  BY DEF PaymentIsOfTheInvoice
<1> DEFINE Goal == item'.document # 0 /\ paidFor' = item'.document
<1>0. kind = "rutRotJob" /\ requests \subseteq Requests
  BY DEF TypeOK, Next, Clicks, Network, Quiet, vars, updateQuoteStatus, updateServiceJobStatus,
    updateBokioImportRow, Update, RemoveItem, ChooseEvidence, Convert, ReloadPage,
    markServiceJobCustomerPaid, markServiceJobRutRotRequested, markServiceJobRutRotReceived,
    Commit, Refuse, Answer, AnswerReceipt, AnswerRefused, LoseAnswer
<1>1. CASE UNCHANGED <<item, paidFor>>
  BY <1>0, <1>1 DEF PaymentIsOfTheInvoice, Listed, SaysPaid
<1>2. ASSUME updateServiceJobStatus PROVE Goal
  <2>1. PICK status \in {"confirmed", "done", "closed"} :
          item' = [item EXCEPT !.status = status] /\ paidFor' = paidFor /\ Listed
    BY <1>2 DEF updateServiceJobStatus, Update
  <2>2. /\ item'.document = item.document /\ item'.payment = item.payment
        /\ item'.claim = item.claim /\ item'.status = status
    BY <2>1, ItemFields DEF Items
  <2> QED BY <1>0, <2>1, <2>2 DEF PaymentIsOfTheInvoice, SaysPaid
<1>3. ASSUME markServiceJobCustomerPaid PROVE Goal
  <2>1. item \in Items
    BY <1>3, ItemFields DEF markServiceJobCustomerPaid
  <2> QED BY <1>3, <2>1 DEF markServiceJobCustomerPaid, Items
<1>4. ASSUME markServiceJobRutRotRequested \/ markServiceJobRutRotReceived PROVE Goal
  <2>1. item \in Items /\ Listed
    BY <1>4, ItemFields DEF markServiceJobRutRotRequested, markServiceJobRutRotReceived
  <2>2. SaysPaid
    BY <1>4 DEF markServiceJobRutRotRequested, markServiceJobRutRotReceived,
      serviceJobRutRotClaimStatus, SaysPaid
  <2>3. item'.document = item.document /\ paidFor' = paidFor
    BY <1>4, <2>1 DEF markServiceJobRutRotRequested, markServiceJobRutRotReceived, Update, Items
  <2> QED BY <1>0, <2>1, <2>2, <2>3 DEF PaymentIsOfTheInvoice
<1>5. CASE item' = Removed
  BY <1>5 DEF Listed, Removed
<1>6. ASSUME NEW q \in requests, Finish(q), Listed PROVE Goal
  <2>1. item' = Converted(item, q.id) /\ item \in Items
    BY <1>6, ItemFields DEF Finish
  <2>2. item'.payment = "waiting" /\ item'.claim = "waiting" /\ item'.status = "invoiced"
    BY <1>0, <2>1 DEF Converted, Items
  <2> QED BY <2>2 DEF SaysPaid
<1>7. ASSUME NEW q \in requests, Answer(q) \/ AnswerReceipt(q) PROVE Goal
  <2>1. Finish(q)
    BY <1>0, <1>7 DEF Answer, AnswerReceipt
  <2>2. CASE Listed
    BY <1>6, <2>1, <2>2
  <2>3. CASE ~Listed
    BY <1>5, <2>1, <2>3 DEF Finish
  <2> QED BY <2>2, <2>3
<1> QED BY <1>0, <1>1, <1>2, <1>3, <1>4, <1>5, <1>7
  DEF Next, Clicks, Network, Quiet, vars, updateQuoteStatus, updateBokioImportRow, RemoveItem,
    ChooseEvidence, Convert, ReloadPage, Commit, Refuse, AnswerRefused, LoseAnswer

----------------------------------------------------------------------------
(* Conversion: theorems.                                                   *)

LEMMA SpecIInv == Spec => []IInv
<1>1. ASSUME Init PROVE IInv
  <2>1. kind \in AllKinds
    BY <1>1, KindsAssumption DEF Init
  <2>2. item \in Items
    BY <1>1, <2>1 DEF Init, Items, NewItem, Fresh, handleCreateQuote, handleCreateServiceJob, handleBokioImportFiles, SieVoucher, Statuses, JobStatuses, Claims, AllKinds
  <2>3. TypeOK
    <3>1. /\ kind \in Kinds /\ evidence \in BOOLEAN /\ importing \in BOOLEAN /\ lost \in BOOLEAN
          /\ requests \subseteq Requests /\ documents \subseteq Ids /\ paidFor \in {0} \cup Ids
      BY <1>1 DEF Init
    <3>2. clicks \in 0 .. MaxClicks
      BY <1>1, BoundsAssumption DEF Init
    <3> QED BY <2>2, <3>1, <3>2 DEF TypeOK
  <2>4. ~SaysPaid
    BY <1>1, <2>1 DEF Init, SaysPaid, NewItem, Fresh, handleCreateQuote, handleCreateServiceJob, handleBokioImportFiles, SieVoucher, AllKinds
  <2> QED BY <1>1, <2>3, <2>4 DEF Init, IInv, OneHeard, OnlyRowsHaveReceipts, ImportButtonComesBack,
    SieVouchers, PaymentIsOfTheInvoice
<1>2. IInv /\ [Next]_vars => IInv'
  BY StepType, StepHeard, StepSie, StepPaid DEF IInv
<1> QED BY <1>1, <1>2, PTL DEF Spec

\* Every variable of a conversion keeps its type, at any bound.
THEOREM ConversionTypeOK == Spec => []TypeOK
<1>1. IInv => TypeOK
  BY DEF IInv
<1> QED BY <1>1, SpecIInv, PTL

\* While no answer is lost, a voucher of a SIE file is booked at most once,
\* however often the button is clicked (createManualVoucherFromSie).
THEOREM SieVoucherIsImportedOnce == Spec => []SieImportedOnce
<1>1. ASSUME IInv PROVE SieImportedOnce
  <2> SUFFICES ASSUME kind = "sie", ~lost PROVE Cardinality(documents) <= 1
    BY DEF SieImportedOnce
  <2>1. documents = {} \/ \E n \in Ids : documents = {n}
    BY <1>1 DEF IInv, SieVouchers
  <2>2. CASE documents = {}
    BY <2>2, FS_EmptySet
  <2>3. ASSUME NEW n \in Ids, documents = {n} PROVE Cardinality(documents) <= 1
    BY <2>3, FS_Singleton
  <2> QED BY <2>1, <2>2, <2>3
<1> QED BY <1>1, SpecIInv, PTL

\* The import button of a SIE voucher is disabled exactly while the page
\* waits, and enabled again after every kind of answer ("finally").
THEOREM SieButtonComesBack == Spec => []ImportButtonComesBack
<1>1. IInv => ImportButtonComesBack
  BY DEF IInv
<1> QED BY <1>1, SpecIInv, PTL

\* A deduction is claimed only for the invoice that was paid, also when a
\* second invoice of the job is answered late (serviceJobRutRotClaimStatus).
THEOREM ClaimIsOfThePaidInvoice == Spec => []ClaimFollowsPayment
<1>1. ASSUME IInv PROVE ClaimFollowsPayment
  <2>1. serviceJobRutRotClaimStatus(item) \in {"requested", "received"} => SaysPaid
    BY DEF serviceJobRutRotClaimStatus, SaysPaid
  <2> QED BY <1>1, <2>1 DEF IInv, PaymentIsOfTheInvoice, ClaimFollowsPayment
<1> QED BY <1>1, SpecIInv, PTL

-----------------------------------------------------------------------------
(* Backup: the inductive invariant *)

\* A backup is being written: its directory is made and has no manifest yet.
Writing == run.at \notin {"idle", "positioned", "counted"} /\ run.script # "check"
\* What a script has restored, what it has judged.
Restored == run.at \in {"receipts", "judge", "compare", "manifest"}
Judged == run.at \in {"compare", "manifest"}

Verification == {"verify", "probe", "restore", "receipts", "judge", "compare"}
Places == {"idle", "positioned", "counted", "dump", "list", "copy", "manifest"} \cup Verification

\* The fields of the script and of the directory; what is counted, reported or
\* written into a manifest can be anything.
Shapes ==
  /\ run \in [script: Scripts \cup {None}, at: Places, strict: BOOLEAN, wal: Nat, counts: {run.counts},
              todo: SUBSET Files, files: [Files -> Contents], probes: 0 .. MaxProbes,
              restored: States \cup {None}, receipts: [Files -> Contents], result: {run.result}]
  /\ dir \in [made: BOOLEAN, dump: Dumps \cup {None}, receipts: [Files -> Contents], manifest: {dir.manifest}]

Phases ==
  /\ ~At("idle") => run.script \in Scripts
  /\ ~At("idle") /\ run.script = "check" => run.at \in Verification
  /\ Writing => dir.made /\ dir.manifest = None

\* A copy that is good now was good when its hash was taken.
HashesAreOfCopies(files) == \A f \in Files : files[f] = "good" => run.files[f] = "good"
CopiesAreHashed ==
  Writing =>
    /\ HashesAreOfCopies(dir.receipts)
    /\ run.at \in {"judge", "compare", "manifest"} => HashesAreOfCopies(run.receipts)

RestoredIsTheDump == Restored => dir.dump # None /\ run.restored = dir.dump.db
JudgedVerifies ==
  Judged => Verifies(run.restored, run.receipts) /\ run.result = Result(run.restored, run.receipts)

\* The dump of the production script was taken at its position or later.
IsSince(wal, d) == \E k \in wal .. Len(log) : d = log[k]
DumpIsSincePosition ==
  ~At("idle") /\ run.script = "production" =>
    /\ run.wal \in 1 .. Len(log)
    /\ Writing /\ dir.dump # None => IsSince(run.wal, dir.dump.db)
    /\ At("manifest") => dir.dump.db = log[run.wal]

\* What a manifest describes was verified.
ManifestIsTrue ==
  HasManifest =>
    /\ dir.manifest.dump \in Dumps /\ Verifies(dir.manifest.dump.db, dir.manifest.files)
    /\ dir.manifest.script = "production" =>
         dir.manifest.wal \in 1 .. Len(log) /\ dir.manifest.dump.db = log[dir.manifest.wal]

AcceptedWasVerified ==
  accepted # None =>
    /\ accepted.db = accepted.of.dump.db /\ accepted.db \in States
    /\ Verifies(accepted.db, accepted.receipts)
    /\ accepted.strict =>
         /\ accepted.of.wal \in 1 .. Len(log) /\ accepted.db = log[accepted.of.wal]
         /\ WithoutReceipt(accepted.db) = {} /\ Present(accepted.receipts) = Referenced(accepted.db)

BackupIInv ==
  /\ BackupTypeOK /\ Shapes /\ Phases /\ CopiesAreHashed /\ RestoredIsTheDump /\ JudgedVerifies
  /\ DumpIsSincePosition /\ ManifestIsTrue /\ AcceptedWasVerified

-----------------------------------------------------------------------------
(* Backup: the steps, by what they change *)

Starts == StartLocal \/ StartProduction \/ \E strict \in BOOLEAN : StartCheck(strict)
Moves ==
  \/ CountSource \/ ListReceipts \/ EndCopy \/ CreateContainer \/ NotReadyYet \/ Ready
  \/ RestoreDump \/ RestoreReceipts \/ Judge \/ CompareWithSource
Writes == MakeDirectory \/ DumpDatabase \/ (\E f \in Files : CopyReceipt(f))
Ends == WriteManifest \/ Accept \/ Stop

LEMMA BackupStepCases ==
  ASSUME [BackupNext]_backupVars
  PROVE  Writer \/ Starts \/ Moves \/ Writes \/ Ends \/ Fault \/ RemoveDirectory \/ UNCHANGED backupVars
BY DEF BackupNext, Script, Operator, Starts, Moves, Writes, Ends

\* Only a writer changes the log, and it only appends to it.
LEMMA WriterWrites ==
  ASSUME BackupTypeOK, Writer
  PROVE  /\ log' = log \/ \E d \in States : log' = Append(log, d)
         /\ store' \in [Files -> Contents]
         /\ UNCHANGED <<dir, run, accepted, counters>>
<1>1. db \in States
  BY DEF BackupTypeOK, db, Last
<1>2. ASSUME NEW e \in Expenses, CreateExpense(e)
      PROVE  store' = store /\ \E d \in States : log' = Append(log, d)
  <2>1. db.expenses \cup {e} \in SUBSET Expenses /\ db.audits + 1 \in Nat
    BY <1>1 DEF States
  <2>2. [db EXCEPT !.expenses = @ \cup {e}, !.audits = @ + 1] \in States
    BY <1>1, <2>1 DEF States
  <2> QED BY <1>2, <2>2 DEF CreateExpense, Write
<1>3. ASSUME NEW f \in Files, StoreReceipt(f) \/ DropReceipt(f) PROVE log' = log /\ store' \in [Files -> Contents]
  BY <1>3 DEF StoreReceipt, DropReceipt, BackupTypeOK, Contents
<1>4. ASSUME NEW f \in Files, CommitReceipt(f)
      PROVE  store' = store /\ \E d \in States : log' = Append(log, d)
  <2>1. [db.receipt EXCEPT ![OwnerOf[f]] = f] \in [Expenses -> Files \cup {None}] /\ db.audits + 1 \in Nat
    BY <1>1, BackupAssumption DEF States
  <2>2. [db EXCEPT !.receipt = [db.receipt EXCEPT ![OwnerOf[f]] = f], !.audits = db.audits + 1] \in States
    BY <1>1, <2>1 DEF States
  <2> QED BY <1>4, <2>2 DEF CommitReceipt, Write
<1>5. ASSUME UpdateRow \/ Checkpoint PROVE store' = store /\ \E d \in States : log' = Append(log, d)
  <2>1. [db EXCEPT !.rev = @ + 1] \in States
    BY <1>1 DEF States
  <2> QED BY <1>1, <1>5, <2>1 DEF UpdateRow, Checkpoint, Write
<1>6. UNCHANGED <<dir, run, accepted, counters>>
  BY DEF Writer, CreateExpense, StoreReceipt, CommitReceipt, DropReceipt, UpdateRow, Checkpoint
<1>7. store \in [Files -> Contents]
  BY DEF BackupTypeOK
<1> QED BY <1>2, <1>3, <1>4, <1>5, <1>6, <1>7 DEF Writer

LEMMA OthersLeaveTheLog ==
  ASSUME Starts \/ Moves \/ Writes \/ Ends \/ Fault \/ RemoveDirectory \/ UNCHANGED backupVars
  PROVE  log' = log
BY DEF Starts, StartLocal, StartProduction, StartCheck, Begin, Moves, CountSource, ListReceipts, EndCopy,
       CreateContainer, NotReadyYet, Ready, RestoreDump, RestoreReceipts, Judge, CompareWithSource,
       Writes, MakeDirectory, DumpDatabase, CopyReceipt, Ends, WriteManifest, Accept, Stop,
       Fault, DamageDump, MixDumps, DamageReceipt, Damaged, RemoveDirectory, backupVars, source

\* What was at a position of the log stays there.
LEMMA LogIsKept ==
  ASSUME BackupTypeOK, [BackupNext]_backupVars
  PROVE  /\ log' \in Seq(States) /\ log' # << >>
         /\ Len(log) \in Nat /\ Len(log') \in Nat /\ Len(log) <= Len(log')
         /\ \A i \in 1 .. Len(log) : log'[i] = log[i]
<1>1. log \in Seq(States) /\ log # << >>
  BY DEF BackupTypeOK
<1>2. ASSUME NEW d \in States, log' = Append(log, d)
      PROVE  /\ log' \in Seq(States) /\ log' # << >> /\ Len(log') = Len(log) + 1
             /\ \A i \in 1 .. Len(log) : log'[i] = log[i]
  BY <1>1, <1>2
<1>3. log' = log \/ \E d \in States : log' = Append(log, d)
  BY BackupStepCases, WriterWrites, OthersLeaveTheLog
<1> QED BY <1>1, <1>2, <1>3

LEMMA TornDump == \A d \in Dumps : Torn(d) \in Dumps /\ Torn(d).db = d.db
BY DEF Torn, Dumps

LEMMA LastIsAState == BackupIInv => db \in States
BY DEF BackupIInv, BackupTypeOK, db, Last

-----------------------------------------------------------------------------
(* Backup: types and phases *)

\* What a script starts with.
LEMMA BeginFields ==
  ASSUME NEW r, Begin(r)
  PROVE  /\ run' = [script |-> r.script, at |-> r.at, strict |-> r.strict, wal |-> r.wal, counts |-> r.counts,
                    todo |-> {}, files |-> NoFiles, probes |-> 0, restored |-> None, receipts |-> NoFiles,
                    result |-> None]
         /\ At("idle") /\ UNCHANGED <<log, store, dir, accepted, damages>>
         /\ started < MaxScripts /\ started' = started + 1
BY DEF Begin, NoRun, source

LEMMA StartFields ==
  ASSUME BackupTypeOK, Starts
  PROVE  /\ run' = [script |-> run'.script, at |-> run'.at, strict |-> run'.strict, wal |-> run'.wal,
                    counts |-> run'.counts, todo |-> {}, files |-> NoFiles, probes |-> 0, restored |-> None,
                    receipts |-> NoFiles, result |-> None]
         /\ \/ run'.script \in {"local", "production"} /\ run'.at \in {"counted", "positioned"}
            \/ run'.script = "check" /\ run'.at = "verify"
         /\ run'.strict \in BOOLEAN /\ run'.wal \in {0, Len(log)}
         /\ run'.script = "production" => run'.wal = Len(log)
         /\ At("idle") /\ UNCHANGED <<log, store, dir, accepted, damages>>
         /\ started < MaxScripts /\ started' = started + 1
<1>1. CASE StartLocal
  <2> DEFINE r == [script |-> "local", at |-> "counted", wal |-> 0, counts |-> tableRowCounts(db), strict |-> FALSE]
  <2>1. Begin(r)
    BY <1>1 DEF StartLocal
  <2>2. r.script = "local" /\ r.at = "counted" /\ r.wal = 0 /\ r.strict = FALSE
    OBVIOUS
  <2> HIDE DEF r
  <2>3. /\ run' = [script |-> r.script, at |-> r.at, strict |-> r.strict, wal |-> r.wal, counts |-> r.counts,
                    todo |-> {}, files |-> NoFiles, probes |-> 0, restored |-> None, receipts |-> NoFiles,
                    result |-> None]
        /\ At("idle") /\ UNCHANGED <<log, store, dir, accepted, damages>>
        /\ started < MaxScripts /\ started' = started + 1
    BY <2>1, BeginFields
  <2> QED BY <2>2, <2>3
<1>2. CASE StartProduction
  <2> DEFINE r == [script |-> "production", at |-> "positioned", wal |-> Len(log), counts |-> None, strict |-> FALSE]
  <2>1. Begin(r)
    BY <1>2 DEF StartProduction
  <2>2. r.script = "production" /\ r.at = "positioned" /\ r.wal = Len(log) /\ r.strict = FALSE
    OBVIOUS
  <2> HIDE DEF r
  <2>3. /\ run' = [script |-> r.script, at |-> r.at, strict |-> r.strict, wal |-> r.wal, counts |-> r.counts,
                    todo |-> {}, files |-> NoFiles, probes |-> 0, restored |-> None, receipts |-> NoFiles,
                    result |-> None]
        /\ At("idle") /\ UNCHANGED <<log, store, dir, accepted, damages>>
        /\ started < MaxScripts /\ started' = started + 1
    BY <2>1, BeginFields
  <2> QED BY <2>2, <2>3
<1>3. CASE \E strict \in BOOLEAN : StartCheck(strict)
  BY <1>3, BeginFields DEF StartCheck
<1> QED BY <1>1, <1>2, <1>3 DEF Starts

LEMMA NoFilesType == NoFiles \in [Files -> Contents]
BY DEF NoFiles, Contents

LEMMA NoRunFields ==
  /\ NoRun = [script |-> None, at |-> "idle", strict |-> FALSE, wal |-> 0, counts |-> None, todo |-> {},
              files |-> NoFiles, probes |-> 0, restored |-> None, receipts |-> NoFiles, result |-> None]
  /\ NoRun.at = "idle"
BY DEF NoRun

\* A script moves on: which fields change, and where it is then.
LEMMA MoveFields ==
  ASSUME BackupIInv, Moves
  PROVE  /\ UNCHANGED <<log, store, dir, accepted, counters>>
         /\ Shapes'
         /\ run'.script = run.script /\ run'.wal = run.wal /\ run'.strict = run.strict
         /\ ~At("idle") /\ run'.at # "idle" /\ (Writing' <=> Writing)
         /\ run.script = "check" => run'.at \in Verification
         /\ run'.files = run.files \/ run'.files = dir.receipts
<1>0. /\ run \in [script: Scripts \cup {None}, at: Places, strict: BOOLEAN, wal: Nat, counts: {run.counts},
                  todo: SUBSET Files, files: [Files -> Contents], probes: 0 .. MaxProbes,
                  restored: States \cup {None}, receipts: [Files -> Contents], result: {run.result}]
      /\ dir \in [made: BOOLEAN, dump: Dumps \cup {None}, receipts: [Files -> Contents], manifest: {dir.manifest}]
      /\ ~At("idle") /\ run.script = "check" => run.at \in Verification
      /\ 0 \in 0 .. MaxProbes
  BY BackupAssumption DEF BackupIInv, Shapes, Phases
<1> USE DEF Shapes, Writing, Verification, Places, At, Going, Move, source
<1>1. CASE CountSource
  BY <1>0, <1>1 DEF CountSource
<1>2. CASE ListReceipts
  BY <1>0, <1>2 DEF ListReceipts, Present
<1>3. CASE EndCopy
  BY <1>0, <1>3 DEF EndCopy
<1>4. CASE CreateContainer
  BY <1>0, <1>4 DEF CreateContainer
<1>5. CASE NotReadyYet
  BY <1>0, <1>5, BackupAssumption DEF NotReadyYet, MayProbe
<1>6. CASE Ready
  BY <1>0, <1>6 DEF Ready
<1>7. CASE RestoreDump
  BY <1>0, <1>7 DEF RestoreDump, Dumps
<1>8. CASE RestoreReceipts
  BY <1>0, <1>8 DEF RestoreReceipts
<1>9. CASE Judge
  BY <1>0, <1>9 DEF Judge
<1>10. CASE CompareWithSource
  BY <1>0, <1>10 DEF CompareWithSource
<1> HIDE DEF Shapes, Writing, Verification, Places, At, Going, Move, source
<1> QED BY <1>1, <1>2, <1>3, <1>4, <1>5, <1>6, <1>7, <1>8, <1>9, <1>10 DEF Moves

\* A script writes into its directory.
LEMMA WriteFields ==
  ASSUME BackupIInv, Writes
  PROVE  /\ UNCHANGED <<log, store, accepted, counters>>
         /\ Shapes'
         /\ run'.script = run.script /\ run'.wal = run.wal /\ run.script \in {"local", "production"}
         /\ run'.at \in {"dump", "list", "copy", "verify"} /\ ~At("idle")
         /\ dir'.made /\ dir'.manifest = None /\ dir.manifest = None
         /\ \/ MakeDirectory /\ dir'.receipts = NoFiles /\ dir'.dump = None
            \/ DumpDatabase /\ dir'.dump = Dump(db) /\ dir'.receipts = dir.receipts /\ run'.files = run.files /\ Writing
            \/ \E f \in Files :
                 /\ Writing /\ dir'.dump = dir.dump
                 /\ dir'.receipts = [dir.receipts EXCEPT ![f] = store[f]]
                 /\ run'.files = [run.files EXCEPT ![f] = store[f]]
<1>0. /\ run \in [script: Scripts \cup {None}, at: Places, strict: BOOLEAN, wal: Nat, counts: {run.counts},
                  todo: SUBSET Files, files: [Files -> Contents], probes: 0 .. MaxProbes,
                  restored: States \cup {None}, receipts: [Files -> Contents], result: {run.result}]
      /\ dir \in [made: BOOLEAN, dump: Dumps \cup {None}, receipts: [Files -> Contents], manifest: {dir.manifest}]
      /\ ~At("idle") => run.script \in Scripts
      /\ ~At("idle") /\ run.script = "check" => run.at \in Verification
      /\ Writing => dir.made /\ dir.manifest = None
      /\ ~dir.made => dir = NoDirectory
      /\ NoFiles \in [Files -> Contents] /\ store \in [Files -> Contents]
  BY NoFilesType DEF BackupIInv, Shapes, Phases, BackupTypeOK
<1> USE DEF Shapes, Writing, Verification, Places, At, Going, Move, source, Scripts
<1>1. CASE MakeDirectory
  <2>1. dir = NoDirectory
    BY <1>0, <1>1 DEF MakeDirectory, NewDirectory
  <2>2. dir' = [made |-> TRUE, dump |-> None, receipts |-> NoFiles, manifest |-> None]
    BY <1>1, <2>1 DEF MakeDirectory, NoDirectory
  <2>3. /\ run' = [run EXCEPT !.at = "dump"] \/ run' = [run EXCEPT !.at = "list"]
        /\ run.at = "counted" /\ UNCHANGED <<log, store, accepted, counters>>
    BY <1>1 DEF MakeDirectory
  <2>4. run.script \in {"local", "production"}
    BY <1>0, <2>3
  <2>5. Shapes'
    BY <1>0, <2>2, <2>3
  <2>6. run'.script = run.script /\ run'.wal = run.wal /\ run'.at \in {"dump", "list"}
    BY <1>0, <2>3
  <2>7. dir'.made /\ dir'.manifest = None /\ dir.manifest = None /\ dir'.receipts = NoFiles /\ dir'.dump = None
    BY <2>1, <2>2 DEF NoDirectory
  <2> HIDE DEF Shapes
  <2> QED BY <1>1, <2>3, <2>4, <2>5, <2>6, <2>7
<1>2. CASE DumpDatabase
  <2>1. Dump(db) \in Dumps
    BY LastIsAState DEF BackupIInv, Dump, Dumps
  <2>2. run.script \in {"local", "production"} /\ Writing /\ run.at = "dump"
    BY <1>0, <1>2 DEF DumpDatabase
  <2>3. run' = [run EXCEPT !.at = "list"] \/ run' = [run EXCEPT !.at = "verify"]
    BY <1>2 DEF DumpDatabase
  <2>4. dir' = [dir EXCEPT !.dump = Dump(db)] /\ UNCHANGED <<log, store, accepted, counters>>
    BY <1>2 DEF DumpDatabase
  <2>5. Shapes'
    BY <1>0, <2>1, <2>3, <2>4
  <2>6. /\ run'.script = run.script /\ run'.wal = run.wal /\ run'.files = run.files
        /\ run'.at \in {"list", "verify"}
    BY <1>0, <2>3
  <2>7. /\ dir'.made /\ dir'.manifest = None /\ dir.manifest = None
        /\ dir'.dump = Dump(db) /\ dir'.receipts = dir.receipts
    BY <1>0, <2>2, <2>4
  <2> HIDE DEF Shapes
  <2> QED BY <1>2, <2>2, <2>4, <2>5, <2>6, <2>7
<1>3. ASSUME NEW f \in Files, CopyReceipt(f)
      PROVE  /\ UNCHANGED <<log, store, accepted, counters>>
             /\ Shapes' /\ Writing /\ dir'.dump = dir.dump
             /\ run'.script = run.script /\ run'.wal = run.wal /\ run.script \in {"local", "production"}
             /\ run.at = "copy" /\ run'.at = "copy"
             /\ dir'.made /\ dir'.manifest = None /\ dir.manifest = None
             /\ dir'.receipts = [dir.receipts EXCEPT ![f] = store[f]]
             /\ run'.files = [run.files EXCEPT ![f] = store[f]]
  BY <1>0, <1>3 DEF CopyReceipt
<1> QED BY <1>1, <1>2, <1>3 DEF Writes

\* A script ends, with a manifest, with what it accepts or in the middle.
LEMMA EndFields ==
  ASSUME BackupIInv, Ends
  PROVE  /\ UNCHANGED <<log, store, counters>> /\ run' = NoRun /\ ~At("idle")
         /\ dir' \in [made: BOOLEAN, dump: Dumps \cup {None}, receipts: {dir.receipts}, manifest: {dir'.manifest}]
         /\ dir'.made = dir.made /\ (dir.dump # None => dir'.dump = dir.dump)
         /\ dir' # dir => Writing
         /\ \/ dir'.manifest = dir.manifest
            \/ dir'.manifest = [whole |-> FALSE] /\ dir'.dump # None
            \/ WriteManifest /\ dir'.dump # None
         /\ accepted' = accepted \/ Accept
<1>0. /\ run \in [script: Scripts \cup {None}, at: Places, strict: BOOLEAN, wal: Nat, counts: {run.counts},
                  todo: SUBSET Files, files: [Files -> Contents], probes: 0 .. MaxProbes,
                  restored: States \cup {None}, receipts: [Files -> Contents], result: {run.result}]
      /\ dir \in [made: BOOLEAN, dump: Dumps \cup {None}, receipts: [Files -> Contents], manifest: {dir.manifest}]
      /\ ~At("idle") /\ run.script = "check" => run.at \in Verification
      /\ Writing => dir.made /\ dir.manifest = None
      /\ At("manifest") => dir.dump # None
  BY DEF BackupIInv, Shapes, Phases, BackupTypeOK, RestoredIsTheDump, Restored, At
<1> USE DEF Writing, Verification, At, Going, source
<1>1. CASE WriteManifest
  BY <1>0, <1>1 DEF WriteManifest
<1>2. CASE Accept
  BY <1>0, <1>2 DEF Accept
<1>3. CASE Stop
  <2>1. Torn(Dump(db)) \in Dumps
    BY LastIsAState, TornDump DEF Dump, Dumps
  <2> QED BY <1>0, <1>3, <2>1 DEF Stop
<1> QED BY <1>1, <1>2, <1>3 DEF Ends

\* What a fault does to the package or to the receipts.
LEMMA FaultFields ==
  ASSUME BackupIInv, Fault
  PROVE  /\ UNCHANGED <<log, run, accepted, started>> /\ damages < MaxDamage /\ damages' = damages + 1
         /\ store' \in [Files -> Contents]
         /\ dir' \in [made: {dir.made}, dump: Dumps \cup {None}, receipts: [Files -> Contents], manifest: {dir.manifest}]
         /\ \A f \in Files : dir'.receipts[f] = "good" => dir.receipts[f] = "good"
         /\ dir.dump = None <=> dir'.dump = None
         /\ dir.dump # None /\ ~At("idle") => dir'.dump.db = dir.dump.db
         /\ dir' # dir => dir # NoDirectory
<1>0. /\ dir \in [made: BOOLEAN, dump: Dumps \cup {None}, receipts: [Files -> Contents], manifest: {dir.manifest}]
      /\ store \in [Files -> Contents] /\ None \notin Dumps
  BY BackupAssumption DEF BackupIInv, Shapes, BackupTypeOK
<1> USE DEF Damaged
<1>1. CASE DamageDump
  <2>1. dir.dump \in Dumps /\ Torn(dir.dump) \in Dumps /\ Torn(dir.dump).db = dir.dump.db
    BY <1>0, <1>1, TornDump DEF DamageDump
  <2> QED BY <1>0, <1>1, <2>1 DEF DamageDump, NoDirectory
<1>2. CASE MixDumps
  <2>1. PICK i \in DOMAIN log : dir' = [dir EXCEPT !.dump = Dump(log[i])]
    BY <1>2 DEF MixDumps
  <2>2. Dump(log[i]) \in Dumps
    BY DEF BackupIInv, BackupTypeOK, Dump, Dumps
  <2> QED BY <1>0, <1>2, <2>1, <2>2 DEF MixDumps, NoDirectory
<1>3. ASSUME NEW f \in Files, DamageReceipt(f)
      PROVE  /\ UNCHANGED <<log, run, accepted, started>> /\ damages < MaxDamage /\ damages' = damages + 1
             /\ store' \in [Files -> Contents]
             /\ \/ dir' = dir
                \/ /\ dir # NoDirectory /\ dir.receipts[f] = "good"
                   /\ \E s \in {"absent", "bad"} : dir' = [dir EXCEPT !.receipts = [dir.receipts EXCEPT ![f] = s]]
  BY <1>0, <1>3 DEF DamageReceipt, NoDirectory, NoFiles, Contents
<1>4. CASE \E f \in Files : DamageReceipt(f)
  BY <1>0, <1>3, <1>4 DEF Contents
<1> QED BY <1>1, <1>2, <1>4 DEF Fault

LEMMA BackupStepTypes ==
  ASSUME BackupIInv, [BackupNext]_backupVars
  PROVE  BackupTypeOK' /\ Shapes' /\ Phases'
<1>0. /\ BackupTypeOK /\ Shapes /\ Phases
      /\ log' \in Seq(States) /\ log' # << >> /\ None \notin Dumps
      /\ {MaxScripts, MaxDamage, MaxProbes} \subseteq Nat
  BY LogIsKept, BackupAssumption DEF BackupIInv
<1> USE DEF At
<1>1. CASE Writer
  <2>1. UNCHANGED <<dir, run, accepted, started, damages>> /\ store' \in [Files -> Contents]
    BY <1>0, <1>1, WriterWrites DEF counters
  <2> QED BY <1>0, <2>1 DEF BackupTypeOK, Shapes, Phases, Writing
<1>2. CASE Starts
  <2>1. /\ run' = [script |-> run'.script, at |-> run'.at, strict |-> run'.strict, wal |-> run'.wal,
                   counts |-> run'.counts, todo |-> {}, files |-> NoFiles, probes |-> 0, restored |-> None,
                   receipts |-> NoFiles, result |-> None]
        /\ \/ run'.script \in {"local", "production"} /\ run'.at \in {"counted", "positioned"}
           \/ run'.script = "check" /\ run'.at = "verify"
        /\ run'.strict \in BOOLEAN /\ run'.wal \in {0, Len(log)}
        /\ UNCHANGED <<log, store, dir, accepted, damages>> /\ started < MaxScripts /\ started' = started + 1
    BY <1>0, <1>2, StartFields
  <2>2. run'.wal \in Nat /\ run'.probes = 0 /\ NoFiles \in [Files -> Contents] /\ 0 \in 0 .. MaxProbes
    BY <1>0, <2>1, NoFilesType DEF BackupTypeOK
  <2>3. started' \in 0 .. MaxScripts /\ damages' \in 0 .. MaxDamage
    BY <1>0, <2>1 DEF BackupTypeOK
  <2>4. BackupTypeOK'
    BY <1>0, <2>1, <2>2, <2>3 DEF BackupTypeOK, Scripts
  <2>5. Shapes'
    BY <1>0, <2>1, <2>2 DEF Shapes, Scripts, Places, Verification
  <2>6. Phases'
    BY <1>0, <2>1 DEF Phases, Scripts, Verification, Writing
  <2> QED BY <2>4, <2>5, <2>6
<1>3. CASE Moves
  <2>1. /\ UNCHANGED <<log, store, dir, accepted, started, damages>> /\ Shapes'
        /\ run'.script = run.script /\ run.at # "idle" /\ run'.at # "idle" /\ (Writing' <=> Writing)
        /\ run.script = "check" => run'.at \in Verification
    BY <1>3, MoveFields DEF counters
  <2>2. run'.probes \in 0 .. MaxProbes
    BY <2>1 DEF Shapes
  <2>3. run.script \in Scripts /\ (Writing => dir.made /\ dir.manifest = None)
    BY <1>0, <2>1 DEF Phases
  <2>4. run'.script # "check" => dir.made \/ run'.at \in {"positioned", "counted"}
    BY <2>1, <2>3 DEF Writing
  <2>5. BackupTypeOK'
    BY <1>0, <2>1, <2>2, <2>3, <2>4 DEF BackupTypeOK
  <2>6. Phases'
    BY <2>1, <2>3 DEF Phases
  <2> QED BY <2>1, <2>5, <2>6
<1>4. CASE Writes
  <2>1. /\ UNCHANGED <<log, store, accepted, started, damages>> /\ Shapes'
        /\ run'.script = run.script /\ run.script \in {"local", "production"}
        /\ run'.at \in {"dump", "list", "copy", "verify"} /\ dir'.made /\ dir'.manifest = None
    BY <1>4, WriteFields DEF counters
  <2>2. run'.probes \in 0 .. MaxProbes /\ dir'.dump \in Dumps \cup {None} /\ dir'.receipts \in [Files -> Contents]
    BY <2>1 DEF Shapes
  <2>3. BackupTypeOK'
    BY <1>0, <2>1, <2>2 DEF BackupTypeOK, Scripts
  <2>4. Phases'
    BY <2>1 DEF Phases, Scripts
  <2> QED BY <2>1, <2>3, <2>4
<1>5. CASE Ends
  <2>1. /\ UNCHANGED <<log, store, started, damages>> /\ run' = NoRun /\ run.at # "idle"
        /\ dir' \in [made: BOOLEAN, dump: Dumps \cup {None}, receipts: {dir.receipts}, manifest: {dir'.manifest}]
        /\ dir'.made = dir.made /\ (dir.dump # None => dir'.dump = dir.dump)
        /\ dir' # dir => Writing
        /\ \/ dir'.manifest = dir.manifest
           \/ dir'.dump # None
    BY <1>5, EndFields DEF counters
  <2>2. dir'.receipts = dir.receipts /\ dir.receipts \in [Files -> Contents] /\ dir'.dump \in Dumps \cup {None}
    BY <1>0, <2>1 DEF BackupTypeOK
  <2>3. ~dir'.made => dir' = NoDirectory
    BY <1>0, <2>1 DEF BackupTypeOK, Phases
  <2>4. dir'.manifest # None => dir'.dump # None
    BY <1>0, <2>1 DEF BackupTypeOK
  <2>5. run' = NoRun /\ run'.at = "idle" /\ run'.probes = 0 /\ 0 \in 0 .. MaxProbes
    BY <1>0, <2>1, NoRunFields
  <2>6. BackupTypeOK'
    BY <1>0, <2>1, <2>2, <2>3, <2>4, <2>5 DEF BackupTypeOK
  <2>7. Shapes'
    BY <1>0, <2>1, <2>2, <2>5, NoRunFields, NoFilesType DEF Shapes, Places
  <2> QED BY <2>5, <2>6, <2>7 DEF Phases, Writing
<1>6. CASE Fault
  <2>1. /\ UNCHANGED <<log, run, accepted, started>> /\ damages < MaxDamage /\ damages' = damages + 1
        /\ store' \in [Files -> Contents]
        /\ dir' \in [made: {dir.made}, dump: Dumps \cup {None}, receipts: [Files -> Contents], manifest: {dir.manifest}]
        /\ dir.dump = None <=> dir'.dump = None
        /\ dir' # dir => dir # NoDirectory
    BY <1>6, FaultFields
  <2>2. dir'.made = dir.made /\ dir'.manifest = dir.manifest /\ dir'.dump \in Dumps \cup {None}
        /\ dir'.receipts \in [Files -> Contents]
    BY <2>1
  <2>3. BackupTypeOK'
    BY <1>0, <2>1, <2>2 DEF BackupTypeOK
  <2>4. Shapes' /\ Phases'
    BY <1>0, <2>1, <2>2 DEF Shapes, Phases, Writing
  <2> QED BY <2>3, <2>4
<1>7. CASE RemoveDirectory
  <2>1. UNCHANGED <<log, store, run, accepted, started, damages>> /\ dir' = NoDirectory /\ run.at = "idle"
    BY <1>7 DEF RemoveDirectory, source, counters
  <2> QED BY <1>0, <2>1, NoFilesType DEF BackupTypeOK, Shapes, Phases, Writing, NoDirectory
<1>8. CASE UNCHANGED backupVars
  BY <1>0, <1>8 DEF backupVars, BackupTypeOK, Shapes, Phases, Writing
<1> QED BY <1>1, <1>2, <1>3, <1>4, <1>5, <1>6, <1>7, <1>8, BackupStepCases

\* Where a verification is after a move, and what it has from before.
LEMMA MovePlaces ==
  ASSUME BackupIInv, Moves
  PROVE  \/ run'.at \in {"counted", "copy", "verify", "dump", "probe", "restore"}
         \/ /\ run'.at = "receipts" /\ dir.dump # None /\ run'.restored = dir.dump.db
         \/ /\ run'.at = "judge" /\ run.at = "receipts" /\ run'.receipts = dir.receipts
            /\ run'.restored = run.restored /\ run'.files = run.files
         \/ /\ Judge /\ run'.at = "compare" /\ run.at = "judge" /\ run'.receipts = run.receipts
            /\ run'.restored = run.restored /\ run'.files = run.files
            /\ run'.result = Result(run.restored, run.receipts)
         \/ /\ run'.at = "manifest" /\ run.at = "compare" /\ run'.receipts = run.receipts
            /\ run'.restored = run.restored /\ run'.files = run.files /\ run'.result = run.result
<1>0. run \in [script: Scripts \cup {None}, at: Places, strict: BOOLEAN, wal: Nat, counts: {run.counts},
               todo: SUBSET Files, files: [Files -> Contents], probes: 0 .. MaxProbes,
               restored: States \cup {None}, receipts: [Files -> Contents], result: {run.result}]
  BY DEF BackupIInv, Shapes
<1>1. CASE CountSource \/ ListReceipts \/ EndCopy
  BY <1>0, <1>1 DEF CountSource, ListReceipts, EndCopy
<1>2. CASE CreateContainer \/ NotReadyYet \/ Ready
  BY <1>0, <1>2 DEF CreateContainer, NotReadyYet, Ready, Move, At
<1>3. CASE RestoreDump
  BY <1>0, <1>3 DEF RestoreDump
<1>4. CASE RestoreReceipts
  BY <1>0, <1>4 DEF RestoreReceipts, At
<1>5. CASE Judge
  <2>1. run.at = "judge" /\ run' = [run EXCEPT !.at = "compare", !.result = Result(run.restored, run.receipts)]
    BY <1>5 DEF Judge, At
  <2> QED BY <1>0, <1>5, <2>1
<1>6. CASE CompareWithSource
  <2>1. run.at = "compare" /\ run' = [run EXCEPT !.at = "manifest"]
    BY <1>6 DEF CompareWithSource, At, Move
  <2> QED BY <1>0, <2>1
<1> QED BY <1>1, <1>2, <1>3, <1>4, <1>5, <1>6 DEF Moves

-----------------------------------------------------------------------------
(* Copies and their hashes *)

LEMMA StepHashes ==
  ASSUME BackupIInv, [BackupNext]_backupVars
  PROVE  CopiesAreHashed'
<1>0. /\ Writing => HashesAreOfCopies(dir.receipts)
      /\ Writing /\ run.at \in {"judge", "compare", "manifest"} => HashesAreOfCopies(run.receipts)
      /\ dir.receipts \in [Files -> Contents] /\ run.files \in [Files -> Contents]
  BY DEF BackupIInv, CopiesAreHashed, Shapes
<1> USE DEF At, HashesAreOfCopies
<1>1. CASE Writer \/ UNCHANGED backupVars
  <2>1. UNCHANGED <<dir, run>>
    BY <1>1, WriterWrites DEF BackupIInv, backupVars
  <2> QED BY <1>0, <2>1 DEF CopiesAreHashed, Writing
<1>2. CASE Starts
  BY <1>2, StartFields DEF CopiesAreHashed, Writing, BackupIInv
<1>3. CASE Moves
  <2>1. UNCHANGED dir /\ (Writing' <=> Writing)
    BY <1>3, MoveFields DEF BackupIInv, Shapes
  <2>2. ASSUME Writing PROVE HashesAreOfCopies(dir.receipts)'
    <3>1. run'.files = run.files \/ run'.files = dir.receipts
      BY <1>3, MoveFields
    <3> QED BY <1>0, <2>1, <2>2, <3>1
  <2>3. ASSUME Writing, run'.at \in {"judge", "compare", "manifest"} PROVE HashesAreOfCopies(run.receipts)'
    <3>1. \/ run'.receipts = dir.receipts /\ run'.files = run.files
          \/ run'.receipts = run.receipts /\ run'.files = run.files /\ run.at \in {"judge", "compare"}
      BY <1>3, <2>3, MovePlaces
    <3> QED BY <1>0, <2>3, <3>1
  <2> QED BY <2>1, <2>2, <2>3 DEF CopiesAreHashed
<1>4. CASE Writes
  <2>1. run'.at \in {"dump", "list", "copy", "verify"}
    BY <1>4, WriteFields
  <2>2. ASSUME dir'.receipts = NoFiles PROVE HashesAreOfCopies(dir.receipts)'
    BY <2>2 DEF NoFiles
  <2>3. ASSUME dir'.receipts = dir.receipts, run'.files = run.files, Writing PROVE HashesAreOfCopies(dir.receipts)'
    BY <1>0, <2>3
  <2>4. ASSUME NEW f \in Files, Writing, dir'.receipts = [dir.receipts EXCEPT ![f] = store[f]],
               run'.files = [run.files EXCEPT ![f] = store[f]]
        PROVE  HashesAreOfCopies(dir.receipts)'
    BY <1>0, <2>4
  <2>5. HashesAreOfCopies(dir.receipts)'
    BY <1>4, <2>2, <2>3, <2>4, WriteFields
  <2> QED BY <2>1, <2>5 DEF CopiesAreHashed
<1>5. CASE Ends
  BY <1>5, EndFields, NoRunFields DEF CopiesAreHashed, Writing
<1>6. CASE Fault
  <2>1. UNCHANGED run /\ \A f \in Files : dir'.receipts[f] = "good" => dir.receipts[f] = "good"
    BY <1>6, FaultFields
  <2> QED BY <1>0, <2>1 DEF CopiesAreHashed, Writing
<1>7. CASE RemoveDirectory
  BY <1>7 DEF RemoveDirectory, CopiesAreHashed, Writing
<1> QED BY <1>1, <1>2, <1>3, <1>4, <1>5, <1>6, <1>7, BackupStepCases

-----------------------------------------------------------------------------
(* What was restored and judged *)

LEMMA StepRestored ==
  ASSUME BackupIInv, [BackupNext]_backupVars
  PROVE  RestoredIsTheDump'
<1>0. /\ Restored => dir.dump # None /\ run.restored = dir.dump.db
      /\ run.at \in Places
  BY DEF BackupIInv, RestoredIsTheDump, Shapes
<1> USE DEF At, Restored
<1>1. CASE Writer \/ UNCHANGED backupVars
  <2>1. UNCHANGED <<dir, run>>
    BY <1>1, WriterWrites DEF BackupIInv, backupVars
  <2> QED BY <1>0, <2>1 DEF RestoredIsTheDump
<1>2. CASE Starts
  BY <1>2, StartFields DEF RestoredIsTheDump, BackupIInv
<1>3. CASE Moves
  <2>1. UNCHANGED dir
    BY <1>3, MoveFields
  <2>2. ASSUME run'.at \in {"receipts", "judge", "compare", "manifest"}
        PROVE  \/ dir.dump # None /\ run'.restored = dir.dump.db
               \/ Restored /\ run'.restored = run.restored
    BY <1>3, <2>2, MovePlaces
  <2> QED BY <1>0, <2>1, <2>2 DEF RestoredIsTheDump
<1>4. CASE Writes
  BY <1>4, WriteFields DEF RestoredIsTheDump
<1>5. CASE Ends
  BY <1>5, EndFields, NoRunFields DEF RestoredIsTheDump
<1>6. CASE Fault
  BY <1>0, <1>6, FaultFields DEF RestoredIsTheDump
<1>7. CASE RemoveDirectory
  BY <1>7 DEF RemoveDirectory, RestoredIsTheDump
<1> QED BY <1>1, <1>2, <1>3, <1>4, <1>5, <1>6, <1>7, BackupStepCases

LEMMA StepJudged ==
  ASSUME BackupIInv, [BackupNext]_backupVars
  PROVE  JudgedVerifies'
<1>0. Judged => Verifies(run.restored, run.receipts) /\ run.result = Result(run.restored, run.receipts)
  BY DEF BackupIInv, JudgedVerifies
<1> USE DEF At, Judged
<1>1. CASE Writer \/ Fault \/ RemoveDirectory \/ UNCHANGED backupVars
  <2>1. UNCHANGED run
    BY <1>1, WriterWrites, FaultFields DEF BackupIInv, backupVars, RemoveDirectory
  <2> QED BY <1>0, <2>1 DEF JudgedVerifies
<1>2. CASE Starts
  BY <1>2, StartFields DEF JudgedVerifies, BackupIInv
<1>3. CASE Moves
  <2>1. CASE run'.at \notin {"compare", "manifest"}
    BY <2>1 DEF JudgedVerifies
  <2>2. CASE Judge
    <3>1. Verifies(run.restored, run.receipts)
      BY <2>2 DEF Judge
    <3>2. CASE run'.at = "compare"
      BY <1>3, <3>1, <3>2, MovePlaces DEF JudgedVerifies
    <3>3. CASE run'.at = "manifest"
      BY <1>0, <1>3, <3>3, MovePlaces DEF JudgedVerifies
    <3> QED BY <2>1, <3>2, <3>3
  <2>3. CASE run'.at \in {"compare", "manifest"} /\ ~Judge
    BY <1>0, <1>3, <2>3, MovePlaces DEF JudgedVerifies
  <2> QED BY <2>1, <2>2, <2>3
<1>4. CASE Writes
  BY <1>4, WriteFields DEF JudgedVerifies
<1>5. CASE Ends
  BY <1>5, EndFields, NoRunFields DEF JudgedVerifies
<1> QED BY <1>1, <1>2, <1>3, <1>4, <1>5, BackupStepCases

-----------------------------------------------------------------------------
(* Positions in the log *)

\* A state since a position stays one while the log grows.
LEMMA SinceIsKept ==
  ASSUME BackupTypeOK, [BackupNext]_backupVars, NEW wal \in 1 .. Len(log), NEW d, IsSince(wal, d)
  PROVE  wal \in 1 .. Len(log') /\ \E k \in wal .. Len(log') : d = log'[k]
BY LogIsKept DEF IsSince

LEMMA StepPosition ==
  ASSUME BackupIInv, [BackupNext]_backupVars
  PROVE  DumpIsSincePosition'
<1>0. /\ ~At("idle") /\ run.script = "production" =>
           /\ run.wal \in 1 .. Len(log)
           /\ Writing /\ dir.dump # None => IsSince(run.wal, dir.dump.db)
           /\ run.at = "manifest" => dir.dump.db = log[run.wal]
      /\ log \in Seq(States) /\ log # << >> /\ None \notin Dumps
      /\ BackupTypeOK /\ Len(log) \in Nat /\ Len(log') \in Nat /\ Len(log) <= Len(log')
      /\ \A i \in 1 .. Len(log) : log'[i] = log[i]
  BY LogIsKept, BackupAssumption DEF BackupIInv, DumpIsSincePosition, At, BackupTypeOK
<1> USE DEF At
<1>1. CASE Writer
  <2>1. UNCHANGED <<dir, run>>
    BY <1>0, <1>1, WriterWrites
  <2>2. ASSUME run.at # "idle", run.script = "production"
        PROVE  /\ run.wal \in 1 .. Len(log')
               /\ Writing /\ dir.dump # None => \E k \in run.wal .. Len(log') : dir.dump.db = log'[k]
               /\ run.at = "manifest" => dir.dump.db = log'[run.wal]
    BY <1>0, <2>2, SinceIsKept
  <2> QED BY <2>1, <2>2 DEF DumpIsSincePosition, Writing, IsSince
<1>2. CASE Starts
  <2>1. /\ run'.script = "production" => run'.wal = Len(log)
        /\ run'.script = "production" => run'.at \in {"counted", "positioned"}
        /\ log' = log
    BY <1>0, <1>2, StartFields
  <2>2. Len(log) \in 1 .. Len(log)
    BY <1>0
  <2> QED BY <2>1, <2>2 DEF DumpIsSincePosition, Writing
<1>3. CASE Moves
  <2>1. /\ UNCHANGED <<log, dir>> /\ run'.script = run.script /\ run'.wal = run.wal
        /\ run.at # "idle" /\ (Writing' <=> Writing)
    BY <1>3, MoveFields
  <2>2. ASSUME run'.at = "manifest", run.script = "production" PROVE dir.dump.db = log[run.wal]
    <3>1. CompareWithSource
      BY <1>3, <2>2 DEF Moves, CountSource, ListReceipts, EndCopy, CreateContainer, NotReadyYet, Ready, RestoreDump,
                        RestoreReceipts, Judge, CompareWithSource, Move, BackupIInv, Shapes
    <3>2. run.at = "compare" /\ Len(log) = run.wal
      BY <2>2, <3>1 DEF CompareWithSource, Going, SourceStoodStill
    <3>3. Writing /\ dir.dump # None
      BY <2>2, <3>2 DEF Writing, BackupIInv, RestoredIsTheDump, Restored
    <3> QED BY <1>0, <2>2, <3>2, <3>3 DEF IsSince
  <2> QED BY <1>0, <2>1, <2>2 DEF DumpIsSincePosition, IsSince
<1>4. CASE Writes
  <2>1. /\ log' = log /\ run'.script = run.script /\ run'.wal = run.wal
        /\ run'.at \in {"dump", "list", "copy", "verify"} /\ run.at # "idle"
        /\ \/ dir'.dump = None \/ dir'.dump = Dump(db)
           \/ dir'.dump = dir.dump /\ Writing
    BY <1>4, WriteFields
  <2>2. ASSUME run.script = "production", dir'.dump # None
        PROVE  \E k \in run.wal .. Len(log) : dir'.dump.db = log[k]
    <3>1. run.wal \in 1 .. Len(log)
      BY <1>0, <2>1, <2>2
    <3>2. CASE dir'.dump = Dump(db)
      BY <1>0, <3>1, <3>2 DEF Dump, db, Last
    <3>3. CASE dir'.dump = dir.dump /\ Writing
      BY <1>0, <2>1, <2>2, <3>3 DEF IsSince
    <3> QED BY <2>1, <2>2, <3>2, <3>3
  <2> QED BY <1>0, <2>1, <2>2 DEF DumpIsSincePosition, IsSince
<1>5. CASE Ends
  BY <1>5, EndFields, NoRunFields DEF DumpIsSincePosition
<1>6. CASE Fault
  BY <1>0, <1>6, FaultFields DEF DumpIsSincePosition, Writing, IsSince, BackupIInv, RestoredIsTheDump, Restored
<1>7. CASE RemoveDirectory
  BY <1>7 DEF RemoveDirectory, DumpIsSincePosition
<1>8. CASE UNCHANGED backupVars
  BY <1>0, <1>8 DEF backupVars, DumpIsSincePosition, Writing, IsSince
<1> QED BY <1>1, <1>2, <1>3, <1>4, <1>5, <1>6, <1>7, <1>8, BackupStepCases

-----------------------------------------------------------------------------
(* The manifest and what is accepted *)

\* The hashes of the good copies are those of the manifest.
LEMMA HashesVerify ==
  ASSUME NEW d \in States, BackupIInv, HashesAreOfCopies(run.receipts), Verifies(d, run.receipts)
  PROVE  Verifies(d, run.files)
BY DEF States, HashesAreOfCopies, Verifies, ReceiptsMatch, Referenced

LEMMA StepManifest ==
  ASSUME BackupIInv, [BackupNext]_backupVars
  PROVE  ManifestIsTrue'
<1>0. /\ HasManifest =>
           /\ dir.manifest.dump \in Dumps /\ Verifies(dir.manifest.dump.db, dir.manifest.files)
           /\ dir.manifest.script = "production" =>
                dir.manifest.wal \in 1 .. Len(log) /\ dir.manifest.dump.db = log[dir.manifest.wal]
      /\ Len(log) \in Nat /\ Len(log') \in Nat /\ Len(log) <= Len(log')
      /\ \A i \in 1 .. Len(log) : log'[i] = log[i]
  BY LogIsKept DEF BackupIInv, ManifestIsTrue
<1>1. CASE dir'.manifest = dir.manifest
  BY <1>0, <1>1 DEF ManifestIsTrue, HasManifest
<1>2. CASE dir'.manifest = None
  BY <1>2 DEF ManifestIsTrue, HasManifest
<1>3. CASE dir'.manifest = [whole |-> FALSE]
  BY <1>3 DEF ManifestIsTrue, HasManifest
<1>4. CASE WriteManifest
  <2>1. /\ At("manifest") /\ log' = log
        /\ dir' = [dir EXCEPT !.manifest =
             [whole |-> TRUE, script |-> run.script, wal |-> run.wal, counts |-> run.counts,
              dump |-> dir.dump, files |-> run.files, verification |-> run.result]]
    BY <1>4 DEF WriteManifest, source
  <2>2. /\ dir'.manifest.dump = dir.dump /\ dir'.manifest.files = run.files
        /\ dir'.manifest.script = run.script /\ dir'.manifest.wal = run.wal
    BY <2>1 DEF BackupIInv, Shapes
  <2>3. dir.dump \in Dumps /\ run.restored = dir.dump.db /\ dir.dump.db \in States
    BY <2>1 DEF BackupIInv, BackupTypeOK, RestoredIsTheDump, Restored, At, Dumps
  <2>4. Verifies(run.restored, run.receipts)
    BY <2>1 DEF BackupIInv, JudgedVerifies, Judged, At
  <2>5. HashesAreOfCopies(run.receipts)
    BY <2>1 DEF BackupIInv, CopiesAreHashed, Writing, Phases, At, Verification
  <2>6. Verifies(dir.dump.db, run.files)
    BY <2>3, <2>4, <2>5, HashesVerify
  <2>7. run.script = "production" => run.wal \in 1 .. Len(log) /\ dir.dump.db = log[run.wal]
    BY <2>1 DEF BackupIInv, DumpIsSincePosition, At
  <2> QED BY <2>1, <2>2, <2>3, <2>6, <2>7 DEF ManifestIsTrue
<1>5. dir'.manifest = dir.manifest \/ dir'.manifest = None \/ dir'.manifest = [whole |-> FALSE] \/ WriteManifest
  <2>1. ASSUME Writer \/ Starts \/ Moves \/ Fault \/ UNCHANGED backupVars PROVE dir'.manifest = dir.manifest
    BY <2>1, WriterWrites, StartFields, MoveFields, FaultFields DEF BackupIInv, backupVars
  <2>2. ASSUME Writes PROVE dir'.manifest = None
    BY <2>2, WriteFields
  <2>3. ASSUME RemoveDirectory PROVE dir'.manifest = None
    BY <2>3 DEF RemoveDirectory, NoDirectory
  <2>4. ASSUME Ends PROVE dir'.manifest = dir.manifest \/ dir'.manifest = [whole |-> FALSE] \/ WriteManifest
    BY <2>4, EndFields
  <2> QED BY <2>1, <2>2, <2>3, <2>4, BackupStepCases
<1> QED BY <1>1, <1>2, <1>3, <1>4, <1>5

LEMMA StepAccepted ==
  ASSUME BackupIInv, [BackupNext]_backupVars
  PROVE  AcceptedWasVerified'
<1>1. CASE accepted' = accepted
  <2>1. /\ Len(log) \in Nat /\ Len(log') \in Nat /\ Len(log) <= Len(log')
        /\ \A i \in 1 .. Len(log) : log'[i] = log[i]
    BY LogIsKept DEF BackupIInv
  <2> QED BY <1>1, <2>1 DEF BackupIInv, AcceptedWasVerified
<1>2. CASE Accept
  <2>1. /\ At("compare") /\ HasManifest /\ dir.dump = dir.manifest.dump /\ log' = log
        /\ run.strict => IsProductionEvidence
        /\ accepted' = [db |-> run.restored, receipts |-> run.receipts, strict |-> run.strict, of |-> dir.manifest]
    BY <1>2 DEF Accept, MatchesManifest, source
  <2>2. dir.dump # None /\ run.restored = dir.dump.db
    BY <2>1 DEF BackupIInv, RestoredIsTheDump, Restored, At
  <2>3. run.restored \in States
    BY <2>2 DEF BackupIInv, BackupTypeOK, Dumps
  <2>4. Verifies(run.restored, run.receipts) /\ run.result = Result(run.restored, run.receipts)
    BY <2>1 DEF BackupIInv, JudgedVerifies, Judged, At
  <2>5. ASSUME run.strict
        PROVE  /\ dir.manifest.wal \in 1 .. Len(log) /\ dir.manifest.dump.db = log[dir.manifest.wal]
               /\ WithoutReceipt(run.restored) = {} /\ Present(run.receipts) = Referenced(run.restored)
    <3>1. dir.manifest.script = "production" /\ run.result.reasons = {}
      BY <2>1, <2>5 DEF IsProductionEvidence
    <3>2. /\ {g \in {"expenses_without_receipts"} : WithoutReceipt(run.restored) # {}} = {}
          /\ {g \in {"unreferenced_receipt_files"} : Present(run.receipts) # Referenced(run.restored)} = {}
      BY <2>4, <3>1 DEF Result
    <3>3. WithoutReceipt(run.restored) = {} /\ Present(run.receipts) = Referenced(run.restored)
      BY <3>2
    <3> QED BY <2>1, <3>1, <3>3 DEF BackupIInv, ManifestIsTrue
  <2>6. /\ accepted'.db = run.restored /\ accepted'.receipts = run.receipts
        /\ accepted'.strict = run.strict /\ accepted'.of = dir.manifest
    BY <2>1
  <2> QED BY <2>1, <2>2, <2>3, <2>4, <2>5, <2>6 DEF AcceptedWasVerified
<1>3. accepted' = accepted \/ Accept
  <2>1. ASSUME Writer \/ Starts \/ Moves \/ Writes \/ Fault \/ RemoveDirectory \/ UNCHANGED backupVars
        PROVE  accepted' = accepted
    BY <2>1, WriterWrites, StartFields, MoveFields, WriteFields, FaultFields DEF BackupIInv, backupVars, RemoveDirectory
  <2> QED BY <2>1, EndFields, BackupStepCases
<1> QED BY <1>1, <1>2, <1>3

-----------------------------------------------------------------------------
(* Backup: the invariant *)

LEMMA BackupInitIInv == BackupInit => BackupIInv
<1> SUFFICES ASSUME BackupInit PROVE BackupIInv
  OBVIOUS
<1>1. PICK b \in Databases : log = <<Empty(b)>>
  BY DEF BackupInit
<1>2. Empty(b) \in States
  BY DEF Empty, States
<1>3. /\ store = NoFiles /\ dir = NoDirectory /\ run = NoRun /\ accepted = None /\ started = 0 /\ damages = 0
      /\ log \in Seq(States) /\ log # << >> /\ 0 \in 0 .. MaxProbes /\ 0 \in 0 .. MaxScripts /\ 0 \in 0 .. MaxDamage
  BY <1>1, <1>2, BackupAssumption DEF BackupInit
<1>4. BackupTypeOK
  BY <1>3, NoFilesType, NoRunFields DEF BackupTypeOK, NoDirectory, At
<1>5. Shapes
  BY <1>3, NoFilesType, NoRunFields DEF Shapes, NoDirectory, Places
<1>6. run.at = "idle" /\ dir.manifest = None
  BY <1>3, NoRunFields DEF NoDirectory
<1> QED BY <1>3, <1>4, <1>5, <1>6
        DEF BackupIInv, Phases, CopiesAreHashed, RestoredIsTheDump, Restored, JudgedVerifies, Judged, DumpIsSincePosition,
            ManifestIsTrue, HasManifest, AcceptedWasVerified, Writing, At

LEMMA BackupInvariance == BackupSpec => []BackupIInv
<1>1. BackupIInv /\ [BackupNext]_backupVars => BackupIInv'
  <2> SUFFICES ASSUME BackupIInv, [BackupNext]_backupVars PROVE BackupIInv'
    OBVIOUS
  <2> QED BY BackupStepTypes, StepHashes, StepRestored, StepJudged, StepPosition, StepManifest, StepAccepted DEF BackupIInv
<1> QED BY BackupInitIInv, <1>1, PTL DEF BackupSpec

-----------------------------------------------------------------------------
(* What a verification says of the books and the receipts *)

LEMMA VerifiedBooksAreSound ==
  ASSUME NEW b \in Databases, BooksVerify(b)
  PROVE  BooksAreSound(b)
<1>1. verifyMoneyModel(b) /\ verifyAuditTrailProtection(b) /\ verifyVoucherEvidence(b) /\ verifyInvoiceOriginals(b)
  BY DEF BooksVerify
<1>2. ASSUME NEW v \in VouchersOf(b)
      PROVE  /\ \E r \in b.registry : r.voucher = v /\ r.sealed
             /\ Total(LinesOf(b, v), "debit") = Total(LinesOf(b, v), "credit")
  BY <1>1 DEF verifyMoneyModel, RegistryIsSealed, VouchersBalance
<1>3. ASSUME NEW v \in VouchersOf(b), NEW l \in LinesOf(b, v) PROVE l.debit = 0 \/ l.credit = 0
  <2>1. l \in b.lines /\ l.debit \in Int /\ l.credit \in Int
    BY DatabasesAssumption DEF LinesOf
  <2>2. l.debit >= 0 /\ l.credit >= 0 /\ ~(l.debit > 0 /\ l.credit > 0)
    BY <1>1, <2>1 DEF verifyMoneyModel, VouchersBalance
  <2> QED BY <2>1, <2>2
<1>4. ASSUME NEW v \in VouchersOf(b), NEW l \in LinesOf(b, v), l.evidence # Absent
      PROVE  \E e \in b.evidence : e.id = l.evidence /\ e.voucher = v /\ e.content = "intact"
  <2>1. l \in b.lines /\ l.voucher = v
    BY DEF LinesOf
  <2>2. ~EvidenceIsLegacy(b)
    BY <1>4, <2>1, DatabasesAssumption DEF EvidenceIsLegacy, EvidenceSchema
  <2> QED BY <1>1, <1>4, <2>1, <2>2 DEF verifyVoucherEvidence, LinksAreWhole
<1>5. \A o \in b.originals : o.content = "intact"
  BY <1>1, DatabasesAssumption DEF verifyInvoiceOriginals
<1>6. {"auditTruncate", "money"} \subseteq b.triggers
  BY <1>1 DEF verifyMoneyModel, MoneyGuardsWork, verifyAuditTrailProtection, Refuses, Installed
<1> QED BY <1>2, <1>3, <1>4, <1>5, <1>6 DEF BooksAreSound

LEMMA VerifiedReceiptsAreIn ==
  ASSUME NEW d \in States, NEW files, Verifies(d, files)
  PROVE  BooksAreSound(d.books) /\ ReceiptsAreIn(d, files)
<1>1. d.books \in Databases /\ d.expenses \subseteq Expenses
  BY DEF States
<1>2. ReceiptsAreIn(d, files)
  BY <1>1 DEF Verifies, ReceiptsMatch, Referenced, ReceiptsAreIn
<1> QED BY <1>1, <1>2, VerifiedBooksAreSound DEF Verifies

-----------------------------------------------------------------------------
(* Backup: theorems *)

\* The scripts and the package stay in their phases, for every number of
\* scripts, faults and writers.
THEOREM BackupTypeCorrect == BackupSpec => []BackupTypeOK
BY BackupInvariance, PTL DEF BackupIInv

\* A package that agrees with its manifest restores to sound books and has every
\* receipt of them, whatever was written while it was made.
THEOREM BackupPackageRestores == BackupSpec => []PackageRestores
<1>1. BackupIInv => PackageRestores
  <2> SUFFICES ASSUME BackupIInv, HasManifest, MatchesManifest
               PROVE  BooksAreSound(dir.dump.db.books) /\ ReceiptsAreIn(dir.dump.db, dir.receipts)
    BY DEF PackageRestores
  <2>1. /\ dir.manifest.dump \in Dumps /\ Verifies(dir.manifest.dump.db, dir.manifest.files)
        /\ dir.dump = dir.manifest.dump /\ dir.receipts = dir.manifest.files
    BY DEF BackupIInv, ManifestIsTrue, MatchesManifest, InventoryMatches
  <2>2. dir.dump.db \in States
    BY <2>1 DEF Dumps
  <2> QED BY <2>1, <2>2, VerifiedReceiptsAreIn
<1> QED BY <1>1, BackupInvariance, PTL

\* The package of the production script holds the database at the position of its
\* manifest: no writer was overlooked.
THEOREM BackupIsOfItsPosition == BackupSpec => []ProductionPackageIsOfItsPosition
<1>1. BackupIInv => ProductionPackageIsOfItsPosition
  BY DEF BackupIInv, ManifestIsTrue, ProductionPackageIsOfItsPosition
<1> QED BY <1>1, BackupInvariance, PTL

\* A check accepts what was backed up, and as evidence for production only the
\* source at one position with a receipt for every expense.
THEOREM BackupAcceptsWhatWasBackedUp == BackupSpec => []AcceptedIsWhatWasBackedUp
<1>1. BackupIInv => AcceptedIsWhatWasBackedUp
  BY VerifiedReceiptsAreIn DEF BackupIInv, AcceptedWasVerified, AcceptedIsWhatWasBackedUp, WithoutReceipt
<1> QED BY <1>1, BackupInvariance, PTL

\* No script writes into a package that has its manifest.
THEOREM BackupLeavesCertifiedAlone == BackupSpec => CertifiedPackageIsLeftAlone
<1>1. BackupIInv /\ [BackupNext]_backupVars => [HasManifest /\ dir' # dir => damages' # damages \/ dir' = NoDirectory]_backupVars
  <2> SUFFICES ASSUME BackupIInv, [BackupNext]_backupVars, HasManifest, dir' # dir
               PROVE  damages' # damages \/ dir' = NoDirectory
    OBVIOUS
  <2>1. ~Writing /\ damages \in Nat
    BY BackupAssumption DEF BackupIInv, HasManifest, Phases, BackupTypeOK
  <2>2. ~Starts /\ ~Moves /\ ~Writer /\ ~UNCHANGED backupVars
    BY StartFields, MoveFields, WriterWrites DEF BackupIInv, backupVars
  <2>3. ~Ends
    BY <2>1, EndFields
  <2>4. ~Writes
    BY WriteFields DEF HasManifest
  <2>5. CASE Fault
    BY <2>1, <2>5, FaultFields
  <2>6. CASE RemoveDirectory
    BY <2>6 DEF RemoveDirectory
  <2> QED BY <2>2, <2>3, <2>4, <2>5, <2>6, BackupStepCases
<1> QED BY <1>1, BackupInvariance, PTL DEF BackupSpec, CertifiedPackageIsLeftAlone
=============================================================================
