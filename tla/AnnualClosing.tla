--------------------------- MODULE AnnualClosing ---------------------------
(***************************************************************************)
(* The annual closing of one cycle: the Master attests the bank balance,   *)
(* an administrator prepares a review of the books, the Master approves it *)
(* and closes, which stores the official snapshot.  Sources:               *)
(* services/cycle_closing_workflow.py, cycle_closing_persistence.py,       *)
(* cycle_closing.py, workflow_evidence_integrity_v069.py, ledger.py and    *)
(* api/admin_cycle_annual_closing.py.                                      *)
(*                                                                         *)
(* What runs at the same time.  Every endpoint is one transaction of the   *)
(* server's thread pool.  It stops where it waits for a lock: the closing  *)
(* row, the Master's user row, and SHARE locks on the financial tables,    *)
(* called the fence below.  Money is written meanwhile by transactions     *)
(* that stamp their ledger row before the insert a fence makes them wait   *)
(* for.                                                                    *)
(*                                                                         *)
(* A row of the books is named by its position.  Rows are only appended,   *)
(* so a set of positions says what a review was made of, as its hashes do. *)
(***************************************************************************)
EXTENDS Integers, Sequences, Functions

CONSTANTS Requests,    \* requests the server runs at once
          Files,       \* stored bank statements
          Cutoffs,     \* closing instants administrators ask for
          Balances,    \* balances the Master may declare
          MaxNow,      \* bound on the clock
          MaxMoves,    \* bound on the rows of the books
          MaxReviews   \* bound on the reviews of the closing

ASSUME CutoffsAssumption  == Cutoffs \subseteq Nat
ASSUME BalancesAssumption == Balances \subseteq Nat
ASSUME BoundsAssumption   == MaxNow \in Nat /\ MaxMoves \in Nat /\ MaxReviews \in Nat

VARIABLES
    now,       \* the clock
    book,      \* committed movements of money
    writing,   \* movements stamped by an open transaction, one at most
    intact,    \* files whose bytes still match their hash
    evidence,  \* attestations of a bank balance
    closing,   \* the CycleAnnualClosing row
    reviews,   \* its reviews
    snapshot,  \* the official snapshots of the cycle
    request    \* the endpoints' transactions

money == <<book, writing>>
files == <<intact, evidence>>
vars  == <<now, book, writing, intact, evidence, closing, reviews, snapshot, request>>

-----------------------------------------------------------------------------
(* The books.                                                              *)

\* What is owed is booked as cash.
Movement_Swapped(cash, owed, traced, at, posted) ==
    [cash |-> owed, owed |-> cash, traced |-> traced, at |-> at, posted |-> posted]

\* A movement changes the fund's cash and what the fund owes its members.  A
\* payment and its reversal leave a payment event too, dated by the provider's
\* confirmation; a loan that is paid out leaves a ledger row only.
Movement(cash, owed, traced, at, posted) ==
    [cash |-> cash, owed |-> owed, traced |-> traced, at |-> at, posted |-> posted]

Movements == [cash : {-1, 1}, owed : {-1, 0, 1}, traced : BOOLEAN, at : Nat, posted : Nat]

\* The events preview_cycle_closing reads: all of them, because those past the
\* cutoff enter the calculation memory as excluded gains.
TracedRows(b) == {i \in DOMAIN b : b[i].traced}

\* The ledger rows stamped up to the cutoff.
LedgerRows(b, cutoff) == {i \in DOMAIN b : b[i].posted <= cutoff}

Cash(b, rows) == SumFunctionOnSet([i \in rows |-> b[i].cash], rows)

\* What members and administration are due at the cutoff.
Owed(b, rows, cutoff) ==
    LET due == {i \in rows : b[i].at <= cutoff}
    IN  SumFunctionOnSet([i \in due |-> b[i].owed], due)

-----------------------------------------------------------------------------
(* Requests, and what they hold and wait for.                              *)

NoProof   == [file |-> "none", cutoff |-> 0, balance |-> 0]
NoClosing == [status |-> "none", revision |-> 0, approved |-> 0]
Idle      == [op |-> "none", pc |-> "idle", copy |-> NoClosing, proof |-> NoProof,
              review |-> 0, trace |-> {}]

Proofs == [file : Files, cutoff : Cutoffs, balance : Balances]

HoldsRow(r)    == request[r].pc \in {"fence", "assess", "decide"}
HoldsFence(r)  == request[r].pc \in {"assess", "decide"}
HoldsMaster(r) ==
    \/ request[r].op \in {"approve", "close"} /\ request[r].pc # "vouch"
    \/ request[r].op = "record" /\ request[r].pc = "insert"
    \/ request[r].op = "prepare" /\ request[r].pc = "decide"

WantsRow(r)    == request[r].pc = "claim"
WantsMaster(r) == \/ request[r].pc = "vouch"
                  \/ request[r].op = "prepare" /\ request[r].pc = "assess"
WantsFence(r)  == request[r].pc = "insert" /\ request[r].proof \notin evidence

\* r waits for a lock s holds.
WaitsFor(r, s) == /\ r # s
                  /\ \/ WantsRow(r) /\ HoldsRow(s)
                     \/ WantsMaster(r) /\ HoldsMaster(s)
                     \/ WantsFence(r) /\ HoldsFence(s)

Waits(r) == \E s \in Requests : WaitsFor(r, s)

Fenced == \E r \in Requests : HoldsFence(r)

At(r, pc) == request[r].pc = pc
Go(r, pc) == request' = [request EXCEPT ![r].pc = pc]
End(r)    == request' = [request EXCEPT ![r] = Idle]

Init == /\ now = 0
        /\ book = <<>>
        /\ writing = {}
        /\ intact = Files
        /\ evidence = {}
        /\ closing = NoClosing
        /\ reviews = <<>>
        /\ snapshot = {}
        /\ request = [r \in Requests |-> Idle]

-----------------------------------------------------------------------------
(* Time and money.                                                         *)

Tick == /\ now < MaxNow
        /\ now' = now + 1
        /\ UNCHANGED <<money, files, closing, reviews, snapshot, request>>

\* A transaction takes the ledger's advisory lock and stamps its row.  The
\* provider confirmed a payment now or earlier; what is reversed was paid.
Stamp ==
    /\ writing = {} /\ Len(book) < MaxMoves
    /\ \/ \E at \in 0..now : writing' = {Movement(1, 1, TRUE, at, now)}
       \/ /\ Owed(book, TracedRows(book), now) > 0
          /\ writing' = {Movement(-1, -1, TRUE, now, now)}
       \/ writing' = {Movement(-1, 0, FALSE, now, now)}
    /\ UNCHANGED <<now, book, files, closing, reviews, snapshot, request>>

\* The insert does not wait for the fence.
Post_ThroughFence ==
    /\ \E m \in writing : book' = Append(book, m)
    /\ writing' = {}
    /\ UNCHANGED <<now, files, closing, reviews, snapshot, request>>

\* Its rows are inserted, which no fence may be up for, and committed.
Post ==
    /\ ~Fenced
    /\ \E m \in writing : book' = Append(book, m)
    /\ writing' = {}
    /\ UNCHANGED <<now, files, closing, reviews, snapshot, request>>

\* Or rolled back.
Withdraw ==
    /\ writing # {}
    /\ writing' = {}
    /\ UNCHANGED <<now, book, files, closing, reviews, snapshot, request>>

\* A stored file is lost, altered or revoked.
Lose(f) ==
    /\ intact' = intact \ {f}
    /\ UNCHANGED <<now, money, evidence, closing, reviews, snapshot, request>>

-----------------------------------------------------------------------------
(* The requests up to their locks.  One that its first look at the closing *)
(* refuses changes nothing and is left out.                                *)

Start(r, op, pc, proof, review) ==
    /\ At(r, "idle")
    /\ request' = [request EXCEPT ![r] =
           [op |-> op, pc |-> pc, copy |-> closing, proof |-> proof, review |-> review,
            trace |-> {}]]
    /\ UNCHANGED <<now, money, files, closing, reviews, snapshot>>

\* POST cash-evidence.
StartRecord(r) == \E p \in Proofs : Start(r, "record", "vouch", p, 0)

\* POST reviews.
StartPrepare(r) ==
    /\ Len(reviews) < MaxReviews
    /\ closing.status \in {"ASSESSING", "READY_FOR_REVIEW"}
    /\ \E p \in evidence : Start(r, "prepare", "claim", p, 0)

\* POST reviews/{id}/approve.
StartApprove(r) ==
    /\ closing.status = "READY_FOR_REVIEW"
    /\ \E i \in DOMAIN reviews : Start(r, "approve", "vouch", reviews[i].content.proof, i)

\* POST close.
StartClose(r) ==
    /\ closing.status = "MASTER_APPROVED"
    /\ Start(r, "close", "vouch", reviews[closing.approved].content.proof, closing.approved)

\* _actor(master=True): the Master's user row is locked.
Vouch(r) ==
    /\ At(r, "vouch") /\ ~Waits(r)
    /\ Go(r, IF request[r].op = "record" THEN "insert" ELSE "claim")
    /\ UNCHANGED <<now, money, files, closing, reviews, snapshot>>

\* The closing row is locked if it is still the row that was read; otherwise
\* ClosingWorkflowConflict.
Claim(r) ==
    /\ At(r, "claim") /\ ~Waits(r)
    /\ IF closing = request[r].copy THEN Go(r, "fence") ELSE End(r)
    /\ UNCHANGED <<now, money, files, closing, reviews, snapshot>>

\* LOCK TABLE ... IN SHARE MODE.
Fence(r) ==
    /\ At(r, "fence")
    /\ Go(r, "assess")
    /\ UNCHANGED <<now, money, files, closing, reviews, snapshot>>

\* The evidence is checked, under the Master's lock, and the events are read.
Assess(r) ==
    /\ At(r, "assess") /\ ~Waits(r)
    /\ request[r].proof.file \in intact
    /\ request' = [request EXCEPT ![r].pc = "decide", ![r].trace = TracedRows(book)]
    /\ UNCHANGED <<now, money, files, closing, reviews, snapshot>>

\* The evidence cannot be trusted any more: rolled back.
Distrust(r) ==
    /\ At(r, "assess") /\ ~Waits(r)
    /\ request[r].proof.file \notin intact
    /\ End(r)
    /\ UNCHANGED <<now, money, files, closing, reviews, snapshot>>

-----------------------------------------------------------------------------
(* The decisions.                                                          *)

\* The bank statement is worth an attestation.  A first one opens the closing.
Attest(r) ==
    /\ At(r, "insert") /\ ~Waits(r)
    /\ IF request[r].proof.file \in intact
       THEN /\ evidence' = evidence \union {request[r].proof}
            /\ closing' = IF closing = NoClosing THEN [NoClosing EXCEPT !.status = "ASSESSING"]
                                                 ELSE closing
       ELSE UNCHANGED <<evidence, closing>>
    /\ End(r)
    /\ UNCHANGED <<now, money, intact, reviews, snapshot>>

\* The liability is not compared with the cash.
Sound_Unfunded(r) ==
    LET p == request[r].proof
    IN  Cash(book, LedgerRows(book, p.cutoff)) = p.balance

\* The books agree with the bank and cover what is owed.
Sound(r) ==
    LET p == request[r].proof
    IN  /\ Cash(book, LedgerRows(book, p.cutoff)) = p.balance
        /\ Owed(book, request[r].trace, p.cutoff) <= p.balance

\* What the request computes now.
Result(r) == [proof |-> request[r].proof, trace |-> request[r].trace,
              ledger |-> LedgerRows(book, request[r].proof.cutoff)]

Review(revision, content) == [revision |-> revision, content |-> content]

Known(r) == /\ closing.status = "READY_FOR_REVIEW"
            /\ reviews[Len(reviews)] = Review(closing.revision, Result(r))

\* A new review, unless nothing changed since the last one.
Prepare(r) ==
    /\ At(r, "decide") /\ request[r].op = "prepare"
    /\ IF Sound(r) /\ ~Known(r)
       THEN /\ reviews' = Append(reviews, Review(closing.revision + 1, Result(r)))
            /\ closing' = [closing EXCEPT !.status = "READY_FOR_REVIEW", !.revision = @ + 1]
       ELSE UNCHANGED <<reviews, closing>>
    /\ End(r)
    /\ UNCHANGED <<now, money, files, snapshot>>

\* The review is believed as it is stored.
StillTrue_Unchecked(r) == TRUE

\* revalidate_cycle_closing_review: everything the review says is computed again.
StillTrue(r) == Sound(r) /\ reviews[request[r].review].content = Result(r)

\* The latest review is approved, if it is still true.
Approve(r) ==
    /\ At(r, "decide") /\ request[r].op = "approve"
    /\ IF /\ request[r].review = Len(reviews)
          /\ reviews[request[r].review].revision = closing.revision
          /\ StillTrue(r)
       THEN closing' = [status |-> "MASTER_APPROVED", revision |-> closing.revision + 1,
                        approved |-> request[r].review]
       ELSE UNCHANGED closing
    /\ End(r)
    /\ UNCHANGED <<now, money, files, reviews, snapshot>>

\* The approved review becomes the official snapshot, if it is still true.
Close(r) ==
    /\ At(r, "decide") /\ request[r].op = "close"
    /\ IF /\ request[r].review = Len(reviews)
          /\ reviews[request[r].review].revision + 1 = closing.revision
          /\ snapshot = {}
          /\ StillTrue(r)
       THEN /\ snapshot' = {[content |-> Result(r), at |-> now]}
            /\ closing' = [closing EXCEPT !.status = "CLOSED", !.revision = @ + 1]
       ELSE UNCHANGED <<snapshot, closing>>
    /\ End(r)
    /\ UNCHANGED <<now, money, files, reviews>>

\* Nobody breaks a circle of waiting transactions.
Victim_Never(r) == FALSE /\ UNCHANGED vars

\* PostgreSQL aborts a transaction that waits in a circle.
Victim(r) ==
    /\ \E s \in Requests : WaitsFor(r, s) /\ WaitsFor(s, r)
    /\ End(r)
    /\ UNCHANGED <<now, money, files, closing, reviews, snapshot>>

\* The connection or the server is lost: rolled back.
Crash(r) ==
    /\ ~At(r, "idle")
    /\ End(r)
    /\ UNCHANGED <<now, money, files, closing, reviews, snapshot>>

-----------------------------------------------------------------------------
Starts(r)  == StartRecord(r) \/ StartPrepare(r) \/ StartApprove(r) \/ StartClose(r)
Locking(r) == Vouch(r) \/ Claim(r) \/ Fence(r) \/ Victim(r)
Deciding(r) == Assess(r) \/ Distrust(r) \/ Attest(r) \/ Prepare(r) \/ Approve(r) \/ Close(r)

Next == \/ Tick \/ Stamp \/ Post \/ Withdraw
        \/ \E f \in Files : Lose(f)
        \/ \E r \in Requests : Starts(r) \/ Locking(r) \/ Deciding(r) \/ Crash(r)

Spec == Init /\ [][Next]_vars

\* Locks are granted in the order they were asked for, so a request that can go on
\* again and again does: strong.  The database finds every circle: weak.
Fairness == \A r \in Requests :
                /\ SF_vars(Vouch(r)) /\ SF_vars(Claim(r)) /\ SF_vars(Fence(r))
                /\ SF_vars(Deciding(r))
                /\ WF_vars(Victim(r))

FairSpec == Spec /\ Fairness

-----------------------------------------------------------------------------
Statuses == {"none", "ASSESSING", "READY_FOR_REVIEW", "MASTER_APPROVED", "CLOSED"}
Closings == [status : Statuses, revision : Nat, approved : Nat]
Contents == [proof : Proofs, trace : SUBSET (Nat \ {0}), ledger : SUBSET (Nat \ {0})]
Tasks == [op : {"none", "record", "prepare", "approve", "close"},
          pc : {"idle", "vouch", "insert", "claim", "fence", "assess", "decide"},
          copy : Closings, proof : Proofs \union {NoProof}, review : Nat,
          trace : SUBSET (Nat \ {0})]

\* Everything has its type, and a review or snapshot is made of rows that exist.
TypeOK ==
    /\ now \in Nat
    /\ book \in Seq(Movements)
    /\ writing \subseteq Movements
    /\ intact \subseteq Files
    /\ evidence \subseteq Proofs
    /\ closing \in Closings
    /\ reviews \in Seq([revision : Nat, content : Contents])
    /\ \A s \in snapshot : s.content \in Contents /\ s.at \in Nat
    /\ request \in [Requests -> Tasks]

Latest == reviews[Len(reviews)]

\* The revision of the closing, the revision of its latest review and the approval
\* stay in step: a closing ready for review shows its latest review, an approved one
\* was approved from it, a closed one was closed from the approval.  This is what
\* the checks of approve (cycle_closing_workflow.py:545) and of a repeated close
\* (cycle_closing_persistence.py:619) rely on.
ReviewMatchesStage ==
    /\ closing.status = "READY_FOR_REVIEW" =>
           /\ reviews # <<>> /\ closing.approved = 0
           /\ Latest.revision = closing.revision
    /\ closing.status \in {"MASTER_APPROVED", "CLOSED"} =>
           /\ reviews # <<>> /\ closing.approved = Len(reviews)
           /\ Latest.revision + (IF closing.status = "CLOSED" THEN 2 ELSE 1)
                  = closing.revision
    /\ closing.status = "CLOSED" <=> snapshot # {}
    /\ \A i, j \in DOMAIN reviews : i < j => reviews[i].revision < reviews[j].revision

\* A review reads the payment events first and the ledger later; every payment that
\* is in one of them is in the other, however payments interleave.
ReviewIsOneMoment ==
    \A k \in DOMAIN reviews :
        LET c == reviews[k].content
        IN  \A i \in DOMAIN book :
                book[i].traced /\ book[i].posted <= c.proof.cutoff =>
                    (i \in c.trace <=> i \in c.ledger)

\* A review is what the stage of the closing says it is, and of one moment.
ReviewsAreSound == ReviewMatchesStage /\ ReviewIsOneMoment

\* The official figures balance with the bank statement the Master attested, and the
\* cash covers all that they promise to pay.
OfficialIsFunded ==
    \A s \in snapshot :
        /\ s.content.proof \in evidence
        /\ Cash(book, s.content.ledger) = s.content.proof.balance
        /\ Owed(book, s.content.trace, s.content.proof.cutoff) <= s.content.proof.balance

\* The figures that become official are the ones approved, and they are final.
Certificate ==
    INSTANCE ClosingCertificate WITH
        stage <- CASE closing.status \in {"none", "ASSESSING"} -> "assessing"
                   [] closing.status = "READY_FOR_REVIEW" -> "reviewed"
                   [] closing.status = "MASTER_APPROVED" -> "approved"
                   [] OTHER -> "closed",
        figures <- IF reviews = <<>> THEN {} ELSE {Latest.content},
        official <- {s.content : s \in snapshot}

ImplementsClosingCertificate == Certificate!Spec

\* Every request ends, also one that meets others on the way to the same locks.
EveryRequestEnds == \A r \in Requests : ~At(r, "idle") ~> At(r, "idle")

\* A payment after the cutoff is excluded from a closing
\* (test_payment_after_cutoff_is_excluded): it does not make the approved review
\* untrue.
LaterMoneyKeepsReviewTrue ==
    closing.status = "MASTER_APPROVED" =>
        LET c == Latest.content
        IN  (\A i \in DOMAIN book : i \notin c.trace \union c.ledger =>
                  book[i].at > c.proof.cutoff /\ book[i].posted > c.proof.cutoff)
            => c.trace = TracedRows(book)

=============================================================================
