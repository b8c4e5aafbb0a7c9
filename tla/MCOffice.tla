------------------------------ MODULE MCOffice ------------------------------
(***************************************************************************)
(* The parts of the office that share no state, played one at a time: each *)
(* behaviour chooses its part and leaves the variables of the others, which *)
(* are the same v1 .. v8 for all, at 0.                                    *)
(***************************************************************************)
EXTENDS Integers, FiniteSets

CONSTANTS
    Hosts, Sessions, Chunks, None,                  \* the upload of a backup
    BackupFiles,                                    \* a backup
    Admins, Requester, Approvals, DecisionRequests, \* a decision
    Officers, Requests,                             \* its execution, and an improvement
    MaxMeasurements,                                \* an improvement
    Assignee, Files, MaxEvents,                     \* its certificate
    Attempts, Due, LastDay, Principal, Interest,    \* a late installment
    Fine, Shortfalls,
    Members, Loans, BorrowerOf(_), Amount(_),       \* the loans of a group
    Opening, Quota, NormalLimit, MinCash,
    MaxExposure, Simultaneous, Lenders

\* A priority asks for one approval or two (executive_risk_governance_v079.py);
\* the ids of members begin at 1.
ASSUME OfficeAssumption ==
    /\ Approvals \in {1, 2}
    /\ 0 \notin Admins \cup Officers

\* Days are counted from 1, attempts are numbered as they are made, and amounts are
\* not negative (loan_obligation_runtime.py refuses others).
ASSUME LateAssumption ==
    /\ Attempts \subseteq Nat /\ IsFiniteSet(Attempts)
    /\ Due \in Nat \ {0} /\ LastDay \in Nat /\ Due <= LastDay
    /\ Principal \in Nat /\ Interest \in Nat /\ Fine \in Nat
    /\ Shortfalls \subseteq Nat

\* A loan is of a member, and of an amount that is not negative.
ASSUME LoansAssumption ==
    /\ IsFiniteSet(Members) /\ IsFiniteSet(Loans)
    /\ \A l \in Loans : BorrowerOf(l) \in Members /\ Amount(l) \in Nat
    /\ Quota \in Nat /\ Opening \in Int

VARIABLES part, v1, v2, v3, v4, v5, v6, v7, v8

-----------------------------------------------------------------------------
(* Backups: hosts, sessions and chunks; evidence files.                     *)

Upload == INSTANCE BackupUpload WITH
    envelope <- v1, receipt <- v2, drive <- v3, proc <- v4

Backup == INSTANCE BackupSet WITH
    Files <- BackupFiles, store <- v1, rows <- v2, snapshot <- v3, set <- v4, restored <- v5

-----------------------------------------------------------------------------
(* The evidence of a closing: two contributions that may block their        *)
(* member, and a loan whose installment an agreement may replace.           *)

Only(c) == 1

Quotas == INSTANCE ClosingBook WITH
    Cutoff <- 1, Never <- 9, Members <- {1}, Contributions <- 1 .. 2, MemberOf <- Only, Borrower <- 2,
    Price <- 2, Principal <- 0, Interest <- 0, Streak <- 2, Horizon <- 3, Payments <- 2,
    clock <- v1, member <- v2, cancelled <- v3, receipts <- v4, charges <- v5, ran <- v6,
    loan <- v7, first <- v8

Credit == INSTANCE ClosingBook WITH
    Cutoff <- 1, Never <- 9, Members <- {1}, Contributions <- {}, MemberOf <- Only, Borrower <- 1,
    Price <- 1, Principal <- 1, Interest <- 1, Streak <- 2, Horizon <- 2, Payments <- 2,
    clock <- v1, member <- v2, cancelled <- v3, receipts <- v4, charges <- v5, ran <- v6,
    loan <- v7, first <- v8

-----------------------------------------------------------------------------
(* The papers of a closed cycle: two members, one of them perhaps blocked   *)
(* or gone, paid or not, with gains that may have been reversed and debts.  *)

Person(status, since) == [status |-> status, since |-> since]
Receipt(paid, amount, reversed) == [paid |-> paid, amount |-> amount, reversed |-> reversed]
Contribution(m, receipts) ==
    [id |-> m, member |-> m, amount |-> 2, cancelled |-> 9, receipts |-> receipts,
     status |-> IF receipts = {Receipt(0, 2, 9)} THEN "PAID" ELSE "PENDING"]
Gain(n, kind, amount, day) == [id |-> n, kind |-> kind, amount |-> amount, ours |-> TRUE, day |-> day]
Debt(m, kind, amount, loan) == [member |-> m, kind |-> kind, amount |-> amount, due |-> 1, loan |-> loan]

Closings ==
    {[members |-> m, contributions |-> {Contribution(1, a), Contribution(2, b)}, gains |-> g, obligations |-> o, superseded |-> s] :
        m \in [{1, 2} -> {Person("ACTIVE", 9), Person("BLOCKED_DELINQUENCY", 1), Person("VOLUNTARILY_EXITED", 2)}],
        a \in {{Receipt(0, 2, 9)}, {Receipt(0, 1, 9)}, {Receipt(0, 2, 3)}},
        b \in {{}, {Receipt(0, 2, 9)}},
        g \in {{}, {Gain(1, "INTEREST", 7, 0)}, {Gain(1, "INTEREST", 7, 0), Gain(2, "INTEREST", -7, 1)},
               {Gain(1, "PENALTY", 8, 0), Gain(3, "INTEREST", 3, 1)},
               {Gain(1, "LOAN_PRINCIPAL", 5, 0), Gain(2, "INTEREST", 1, 0)}},
        o \in {{}, {Debt(1, "LOAN_INSTALLMENT", 3, 1), Debt(2, "CONTRIBUTION_PRINCIPAL", 1, 0)}},
        s \in {{}, {1}}}

Papers == INSTANCE ClosingPapers WITH
    Cutoff <- 3, Never <- 9, Evidence <- Closings, Cash <- {3, 30},
    Destinations <- {"VERIFIED", "UNVERIFIED"}, Requests <- {1, 2},
    e <- v1, snapshot <- v2, cash <- v3, destination <- v4, rows <- v5, request <- v6

Gains == INSTANCE RealizedGains WITH
    Requests <- {1, 2}, Names <- {1, 2, 3}, Days <- {1, 2}, Amounts <- {5}, MaxRows <- 3,
    row <- v1, evidence <- v2, request <- v3

-----------------------------------------------------------------------------
(* Loans: one late installment and its Pix attempts; members, their loans   *)
(* and the administrators who release them.                                 *)

Late == INSTANCE LateCharges WITH
    day <- v1, ledger <- v2, inst <- v3, attempt <- v4, order <- v5,
    settlement <- v6, undone <- v7, request <- v8

\* Loan 1 is of the first member, any other of the second; each is of one unit.
OddIsFirst(l) == IF l = 1 THEN 1 ELSE 2
OneUnit(l) == 1

Lending == INSTANCE LoanBook WITH
    Borrower <- BorrowerOf, Principal <- Amount, Admins <- Lenders, simulation <- v1,
    loan <- v2, contributed <- v3, position <- v4, cash <- v5, admin <- v6

-----------------------------------------------------------------------------
(* One member comes into a cycle by two requests; two by one, as their      *)
(* quotas are given.                                                        *)

Entry == INSTANCE CycleEntry WITH
    Members <- {1}, QuotaRequests <- {1}, EntryRequests <- {1, 2}, Months <- 2, Deadline <- 2,
    Capacity <- 2, Streak <- 2, Horizon <- 3, month <- v1, units <- v2, participation <- v3,
    dues <- v4, quota <- v5, entry <- v6

Crowd == INSTANCE CycleEntry WITH
    Members <- {1, 2}, QuotaRequests <- {1, 2}, EntryRequests <- {1}, Months <- 1, Deadline <- 1,
    Capacity <- 2, Streak <- 2, Horizon <- 1, month <- v1, units <- v2, participation <- v3,
    dues <- v4, quota <- v5, entry <- v6

-----------------------------------------------------------------------------
(* Two months of books, in which a payment, a loan and a row of the ledger  *)
(* may have the same number.                                                *)

Uses == {[p \in {2, 3} |-> "CONTRIBUTION"],
         [p \in {2, 3} |-> IF p = 2 THEN "LOAN_INSTALLMENT" ELSE "AGREEMENT_INSTALLMENT"]}

Monthly == INSTANCE MonthlyBooks WITH
    Payments <- {2, 3}, Kinds <- Uses, Loans <- {3}, Expenses <- {9}, LastMonth <- 2, MaxRows <- 3,
    now <- v1, payment <- v2, ledger <- v3, expense <- v4, closed <- v5

-----------------------------------------------------------------------------
(* A risk decision that an administrator asks for and others endorse; its   *)
(* execution by the officers.                                               *)

Decision == INSTANCE RiskDecision WITH
    Required <- Approvals, Requests <- DecisionRequests, decision <- v1, governance <- v2,
    request <- v3, ordered <- v4, done <- v5

Execution == INSTANCE RiskExecution WITH
    Admins <- Officers, execution <- v1, effect <- v2, request <- v3, completers <- v4

-----------------------------------------------------------------------------
(* A recommendation, its plan and the measurements; the execution of one    *)
(* with its files, verified and certified by others.                        *)

Improvement == INSTANCE ImprovementPlan WITH
    Admins <- Officers, recommendation <- v1, plan <- v2, request <- v3, ordered <- v4,
    measurements <- v5, accepted <- v6

Certificate == INSTANCE ImprovementCertificate WITH
    execution <- v1, rows <- v2, request <- v3, disk <- v4, chain <- v5, events <- v6,
    certificate <- v7, past <- v8

-----------------------------------------------------------------------------
(* Sums that are divided: a result among three members, a loan into         *)
(* installments.                                                            *)

Calculation == INSTANCE ClosingCalculation WITH Cutoff <- 1, Never <- 9
Plan == INSTANCE LoanPlan

-----------------------------------------------------------------------------

\* The variables from the n-th on are not used.
Idle8 == v8 = 0
Idle7 == v7 = 0 /\ Idle8
Idle6 == v6 = 0 /\ Idle7
Idle5 == v5 = 0 /\ Idle6
Idle4 == v4 = 0 /\ Idle5
Idle3 == v3 = 0 /\ Idle4

Init ==
    \/ part = "upload" /\ Upload!Init /\ Idle5
    \/ part = "backup" /\ Backup!Init /\ Idle6
    \/ part = "quotas" /\ Quotas!Init
    \/ part = "credit" /\ Credit!Init
    \/ part = "papers" /\ Papers!Init /\ Idle7
    \/ part = "gains" /\ Gains!Init /\ Idle4
    \/ part = "late" /\ Late!Init
    \/ part = "loans" /\ Lending!Init /\ Idle7
    \/ part = "entry" /\ Entry!Init /\ Idle7
    \/ part = "crowd" /\ Crowd!Init /\ Idle7
    \/ part = "months" /\ Monthly!Init /\ Idle6
    \/ part = "decision" /\ Decision!Init /\ Idle6
    \/ part = "execution" /\ Execution!Init /\ Idle5
    \/ part = "improvement" /\ Improvement!Init /\ Idle7
    \/ part = "certificate" /\ Certificate!Init
    \/ part = "rateio" /\ v1 \in 0 .. 5 /\ v2 \in [1 .. 3 -> 0 .. 4] /\ Idle3
    \/ part = "plan" /\ v1 \in 1 .. 40 /\ v2 \in 0 .. 2 /\ v3 \in 1 .. 6 /\ Idle4

Next ==
    \/ part = "upload" /\ Upload!Next /\ UNCHANGED <<part, v5, v6, v7, v8>>
    \/ part = "backup" /\ Backup!Next /\ UNCHANGED <<part, v6, v7, v8>>
    \/ part = "quotas" /\ Quotas!Next /\ UNCHANGED part
    \/ part = "credit" /\ Credit!Next /\ UNCHANGED part
    \/ part = "papers" /\ Papers!Next /\ UNCHANGED <<part, v7, v8>>
    \/ part = "gains" /\ Gains!Next /\ UNCHANGED <<part, v4, v5, v6, v7, v8>>
    \/ part = "late" /\ Late!Next /\ UNCHANGED part
    \/ part = "loans" /\ Lending!Next /\ UNCHANGED <<part, v7, v8>>
    \/ part = "entry" /\ Entry!Next /\ UNCHANGED <<part, v7, v8>>
    \/ part = "crowd" /\ Crowd!Next /\ UNCHANGED <<part, v7, v8>>
    \/ part = "months" /\ Monthly!Next /\ UNCHANGED <<part, v6, v7, v8>>
    \/ part = "decision" /\ Decision!Next /\ UNCHANGED <<part, v6, v7, v8>>
    \/ part = "execution" /\ Execution!Next /\ UNCHANGED <<part, v5, v6, v7, v8>>
    \/ part = "improvement" /\ Improvement!Next /\ UNCHANGED <<part, v7, v8>>
    \/ part = "certificate" /\ Certificate!Next /\ UNCHANGED part

vars == <<part, v1, v2, v3, v4, v5, v6, v7, v8>>

Spec == Init /\ [][Next]_vars

-----------------------------------------------------------------------------

\* A backup the drive is said to hold is there, and a restore gives back the
\* snapshot or nothing (backup_transport.py, backup.py).
BackupsHold ==
    /\ part = "upload" => Upload!ClaimsHold
    /\ part = "backup" => Backup!RestoreIsSnapshot

\* Once the cutoff has passed, the figures of the closing stand and balance,
\* whatever is settled, reversed, charged or agreed later (cycle_closing.py), and
\* the figures of a plan repay its loan (loan_amortization.py).
FiguresHold ==
    /\ part = "quotas" => Quotas!FiguresAreStable /\ Quotas!FiguresBalance
    /\ part = "credit" => Credit!FiguresAreStable /\ Credit!FiguresBalance
    /\ part = "plan" => Plan!PlanRepays(v1, v2, v3)

\* The papers of a closed cycle agree with each other and with its money
\* (cycle_closing_payout_obligations.py, _readiness.py, _statements.py).
PapersHold == part = "papers" => Papers!PapersAgree

\* A gain counts in full or not at all at any cutoff, and a result that is divided
\* is neither lost nor made (cycle_closing_persistence.py, cycle_closing.py
\* _allocation_cents).
SumsHold ==
    /\ part = "gains" => Gains!GainCountsOnceOrNot
    /\ part = "rateio" => Calculation!ShareIsFair(v1, v2)

\* Late charges are those of the day the provider approved the payment, and the
\* books lend each loan once (loan_obligation_runtime.py, loan_engine_v17.py).
LoansHold ==
    /\ part = "late" => Late!ChargesAreTrue
    /\ part = "loans" => Lending!LentOnce

\* Each month asks of the members what their quotas say, and its check raises
\* no unexplained alarm; closed months stand (cycle_foundation.py,
\* reconciliation_v040.py, monthly_closing_v040.py).
MonthsHold ==
    /\ part = "entry" => Entry!EntriesAreSound
    /\ part = "crowd" => Crowd!EntriesAreSound
    /\ part = "months" => Monthly!AlarmsAreExplained /\ Monthly!ClosedMonthsStand

\* What is carried out was approved and endorsed by others than who asked for
\* it, verified by another than who completed or measured it, and certified by
\* a third on the files that were checked (executive_risk_governance_v079.py,
\* executive_risk_execution_v080.py, continuous_improvement_v083.py,
\* continuous_improvement_certification_v090.py).
DecisionsHold ==
    /\ part = "decision" => Decision!OrderedIsEndorsed
    /\ part = "execution" => Execution!VerifiedByAnother
    /\ part = "improvement" => Improvement!ClosedIsProved
    /\ part = "certificate" => Certificate!CertificateIsSound /\ Certificate!ChainBreaksByOverlap
=============================================================================
