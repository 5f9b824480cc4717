---------------------------- MODULE PostingBooks ----------------------------
(***************************************************************************)
(* Posting implements Books: the refinement mapping takes the committed    *)
(* rows of Posting for the variables of the same names.  A transaction is  *)
(* one Books step at its commit and a stutter everywhere else.             *)
(***************************************************************************)
EXTENDS Posting

Ledger == INSTANCE Books

\* Each transaction takes effect as a whole, at its commit, on the state of
\* that moment: posting, closing, policy change and review are serializable.
ImplementsBooks == Ledger!BooksSpec
=============================================================================
