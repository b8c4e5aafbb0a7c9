------------------------ MODULE ContributionMoney ------------------------
(***************************************************************************)
(* What the Pix services promise about the money of a contribution,        *)
(* without provider, notifications, coroutines or ledger rows: it is       *)
(* confirmed at most once, enters what the contribution holds and the cash *)
(* of the fund together, and leaves both together when the payment is      *)
(* reversed.  A correction an administrator makes in the ledger alone      *)
(* takes it out of the fund only.                                          *)
(***************************************************************************)
EXTENDS Integers

CONSTANTS Contribs, Amount

VARIABLES phase,  \* of the charge: open, then confirmed, then undone
          held,   \* what the contribution counts as paid
          fund    \* what the fund counts as cash of the contribution

Init == /\ phase = [c \in Contribs |-> "open"]
        /\ held = [c \in Contribs |-> 0]
        /\ fund = [c \in Contribs |-> 0]

\* A confirmation is applied, up to what is owed.
Confirm(c) == /\ phase[c] = "open"
              /\ \E a \in 1..Amount : /\ held' = [held EXCEPT ![c] = a]
                                      /\ fund' = [fund EXCEPT ![c] = a]
              /\ phase' = [phase EXCEPT ![c] = "confirmed"]

\* The payment is reversed; impossible once the fund was corrected.
Undo(c) == /\ phase[c] = "confirmed"
           /\ fund[c] = held[c]
           /\ phase' = [phase EXCEPT ![c] = "undone"]
           /\ held' = [held EXCEPT ![c] = 0]
           /\ fund' = [fund EXCEPT ![c] = 0]

\* The ledger is corrected on its own.
Correct(c) == /\ phase[c] = "confirmed"
              /\ fund[c] > 0
              /\ fund' = [fund EXCEPT ![c] = 0]
              /\ UNCHANGED <<phase, held>>

Next == \E c \in Contribs : Confirm(c) \/ Undo(c) \/ Correct(c)

Spec == Init /\ [][Next]_<<phase, held, fund>>

=============================================================================
