------------------------------- MODULE Books -------------------------------
(***************************************************************************)
(* What the posting core promises: seen from its committed rows, the       *)
(* bookkeeping is a ledger to which whole requests are applied one at a    *)
(* time.  There are no transactions, locks or stale reads here; Posting    *)
(* implements this module with its committed variables.                    *)
(***************************************************************************)
EXTENDS Integers

CONSTANTS Series, Methods, LastDay

VARIABLES settings, journal, approved

booksVars == <<settings, journal, approved>>

VoucherId(v) == [series |-> v.series, number |-> v.number]

BooksInit ==
  /\ settings \in [lockedThrough: {0}, method: Methods]
  /\ journal = {}
  /\ approved = {}

\* Every series is numbered without a gap and no number is used twice.
Numbered(vs) ==
  /\ \A v, w \in vs : VoucherId(v) = VoucherId(w) => v = w
  /\ \A v \in vs : v.number = 1
       \/ \E w \in vs : w.series = v.series /\ w.number = v.number - 1

\* A request books vouchers in the open period, under the method in force,
\* and continues the numbering.
BookVouchers ==
  /\ journal \subseteq journal' /\ journal' # journal
  /\ \A v \in journal' \ journal :
       v.day > settings.lockedThrough /\ v.method = settings.method
  /\ Numbered(journal')
  /\ UNCHANGED <<settings, approved>>

\* A period is closed once, and only when all of its vouchers are approved.
CloseBooks ==
  /\ \E d \in 1 .. LastDay :
       /\ d > settings.lockedThrough
       /\ \A v \in journal : v.day <= d => VoucherId(v) \in approved
       /\ settings' = [settings EXCEPT !.lockedThrough = d]
  /\ UNCHANGED <<journal, approved>>

\* The policy is a choice made before the first voucher.
ChoosePolicy ==
  /\ journal = {}
  /\ \E m \in Methods : settings' = [settings EXCEPT !.method = m]
  /\ UNCHANGED <<journal, approved>>

\* A booked voucher of the open period is approved, or its approval withdrawn.
ReviewVoucher ==
  /\ \E v \in journal :
       /\ v.day > settings.lockedThrough
       /\ approved' \in {approved \cup {VoucherId(v)}, approved \ {VoucherId(v)}}
  /\ UNCHANGED <<settings, journal>>

BooksNext == BookVouchers \/ CloseBooks \/ ChoosePolicy \/ ReviewVoucher

BooksSpec == BooksInit /\ [][BooksNext]_booksVars
=============================================================================
