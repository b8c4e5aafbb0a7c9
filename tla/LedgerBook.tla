---------------------------- MODULE LedgerBook ----------------------------
(***************************************************************************)
(* The append-only ledger of services/ledger.py: what a row is, what may   *)
(* be appended, and which questions the payment services ask of it.        *)
(*                                                                         *)
(* A book is the sequence of committed rows; the position of a row is its  *)
(* primary key.  A row carries the number its writer put in reference_id.  *)
(* That number belongs to the namespace reference_type names (a payment    *)
(* for CONTRIBUTION_PAYMENT, another row of the ledger for REVERSAL), and  *)
(* several queries of the services look at the number alone.               *)
(*                                                                         *)
(* Appending is serialised by an advisory lock held until commit, so one   *)
(* append reads and extends the same book.  Hashes are left out: they are  *)
(* a function of the row and its predecessor.                              *)
(***************************************************************************)
EXTENDS Integers, Sequences

PaymentRow  == "CONTRIBUTION_PAYMENT"
ReversalRow == "REVERSAL"

Row == [type : {PaymentRow, ReversalRow}, ref : Nat,
        direction : {"CREDIT", "DEBIT"}, amount : Nat \ {0}, reversalOf : Nat]

\* Rows found by a query on reference_id alone.
NumberedAs(book, n) == {i \in DOMAIN book : book[i].ref = n}

\* Rows found by a query on reference_type and reference_id.
PaymentRows(book, n) == {i \in NumberedAs(book, n) : book[i].type = PaymentRow}

ReversalsOf(book, i) == {j \in DOMAIN book : book[j].reversalOf = i}

Opposite(direction) == IF direction = "CREDIT" THEN "DEBIT" ELSE "CREDIT"

\* The second reversal of the same row slips through.
Reversible_Twice(book, i) == i \in DOMAIN book /\ book[i].reversalOf = 0

\* post_entry with reversal_of_id: a row that exists, is not a reversal itself
\* and has none yet.
Reversible(book, i) == /\ i \in DOMAIN book
                       /\ book[i].reversalOf = 0
                       /\ ReversalsOf(book, i) = {}

\* post_contribution_payment: one confirmation row per payment, ever.
Credited(book, n, amount) ==
    IF PaymentRows(book, n) # {} THEN book
    ELSE Append(book, [type |-> PaymentRow, ref |-> n, direction |-> "CREDIT",
                       amount |-> amount, reversalOf |-> 0])

Reversed(book, i) ==
    Append(book, [type |-> ReversalRow, ref |-> i,
                  direction |-> Opposite(book[i].direction),
                  amount |-> book[i].amount, reversalOf |-> i])

\* A reversal another writer made is looked for under the payment's number only.
OriginalRows_ByNumber(book, n, amount) ==
    {i \in PaymentRows(book, n) : /\ NumberedAs(book, n) = {i}
                                  /\ book[i].amount = amount}

\* The rows _find_original_ledger accepts for a payment that applied `amount':
\* exactly one confirmation row, and no other row with the payment's number.
OriginalRows(book, n, amount) ==
    {i \in PaymentRows(book, n) : /\ NumberedAs(book, n) = {i}
                                  /\ book[i].direction = "CREDIT"
                                  /\ book[i].amount = amount
                                  /\ Reversible(book, i)}

\* A row counts as cash of the fund until a reversal takes it out.
Standing(book, i) == book[i].reversalOf = 0 /\ ReversalsOf(book, i) = {}

=============================================================================
