------------------------ MODULE AnnualClosing_proofs ------------------------
(***************************************************************************)
(* Proofs about AnnualClosing, for any number of requests, files, cutoffs, *)
(* balances, movements and reviews.                                        *)
(*                                                                         *)
(* The argument.  A request past its claim holds the closing row, alone,   *)
(* and sees the row it read (TasksAreGood, RowHasOneHolder): so what it    *)
(* decides starts from the stage its first look found.  A request about to *)
(* decide has its fence up, and no movement is committed under a fence:    *)
(* the events it read are still all the events.  With the bounds on        *)
(* revisions and positions (RevisionsAreBounded, ReviewsAreOfBook) this is *)
(* inductive and gives the properties and the refinement.                  *)
(***************************************************************************)
EXTENDS AnnualClosing, TLAPS

RowHolders == {"fence", "assess", "decide"}

\* What is true of a request wherever it is.
Good(t) ==
    /\ t.pc = "idle" <=> t.op = "none"
    /\ t.pc = "insert" => t.op = "record"
    /\ t.op = "record" => t.pc \in {"vouch", "insert"}
    /\ t.op # "none" => t.proof \in Proofs
    /\ t.op = "prepare" => t.copy.status \in {"ASSESSING", "READY_FOR_REVIEW"}
    /\ t.op = "approve" => t.copy.status = "READY_FOR_REVIEW"
    /\ t.op = "close" => t.copy.status = "MASTER_APPROVED"
    /\ t.pc \in RowHolders => t.copy = closing
    /\ t.pc = "decide" => t.trace = TracedRows(book)

TasksAreGood == \A r \in Requests : Good(request[r])

RowHasOneHolder ==
    \A r, s \in Requests :
        request[r].pc \in RowHolders /\ request[s].pc \in RowHolders => r = s

\* No review is ahead of the closing, and nothing is approved before the approval.
RevisionsAreBounded ==
    /\ closing.status \in {"none", "ASSESSING", "READY_FOR_REVIEW"} => closing.approved = 0
    /\ \A i \in DOMAIN reviews : reviews[i].revision <= closing.revision

\* Reviews are made of rows that are in the books.
ReviewsAreOfBook ==
    \A k \in DOMAIN reviews :
        /\ reviews[k].content.trace \subseteq DOMAIN book
        /\ reviews[k].content.ledger \subseteq DOMAIN book

IInv == /\ TypeOK /\ TasksAreGood /\ RowHasOneHolder
        /\ RevisionsAreBounded /\ ReviewMatchesStage
        /\ ReviewsAreOfBook /\ ReviewIsOneMoment

-----------------------------------------------------------------------------
\* The initial state.
LEMMA InitIsGood == Init => IInv
<1> SUFFICES ASSUME Init PROVE IInv
    OBVIOUS
<1>1. TypeOK
    BY DEF Init, TypeOK, NoClosing, Closings, Statuses, Idle, Tasks, NoProof, Movements
<1>2. TasksAreGood /\ RowHasOneHolder
    BY DEF Init, TasksAreGood, Good, RowHasOneHolder, RowHolders, Idle
<1>3. RevisionsAreBounded /\ ReviewMatchesStage /\ ReviewsAreOfBook /\ ReviewIsOneMoment
    BY DEF Init, RevisionsAreBounded, ReviewMatchesStage, ReviewsAreOfBook,
           ReviewIsOneMoment, NoClosing
<1> QED  BY <1>1, <1>2, <1>3 DEF IInv

\* A step of one request that writes nothing else keeps the invariant, if the request
\* stays good and takes the closing row only when nobody has it.
LEMMA OneTask ==
    ASSUME IInv, NEW r \in Requests, NEW t \in Tasks, Good(t),
           request' = [request EXCEPT ![r] = t],
           UNCHANGED <<now, money, files, closing, reviews, snapshot>>,
           t.pc \in RowHolders =>
               \/ request[r].pc \in RowHolders
               \/ \A s \in Requests : request[s].pc \notin RowHolders
    PROVE  IInv'
<1>1. TypeOK'
    BY DEF IInv, TypeOK, money, files
<1>2. TasksAreGood'
    BY DEF IInv, TasksAreGood, Good, TypeOK, money, TracedRows
<1>3. RowHasOneHolder'
    BY DEF IInv, RowHasOneHolder, TypeOK
<1>4. RevisionsAreBounded' /\ ReviewMatchesStage' /\ ReviewsAreOfBook' /\ ReviewIsOneMoment'
    BY DEF IInv, RevisionsAreBounded, ReviewMatchesStage, ReviewsAreOfBook,
           ReviewIsOneMoment, Latest, money
<1> QED  BY <1>1, <1>2, <1>3, <1>4 DEF IInv

\* A request that ends is the idle task.
LEMMA Ending ==
    ASSUME IInv, NEW r \in Requests, End(r),
           UNCHANGED <<now, money, files, closing, reviews, snapshot>>
    PROVE  IInv'
<1>1. Idle \in Tasks /\ Good(Idle) /\ Idle.pc \notin RowHolders
    BY DEF Idle, Tasks, NoClosing, Closings, Statuses, Good, RowHolders
<1> QED  BY <1>1, OneTask DEF End

-----------------------------------------------------------------------------
\* The elements of a sequence.
LEMMA Elements ==
    ASSUME NEW S, NEW q \in Seq(S), NEW i \in DOMAIN q
    PROVE  i \in Nat /\ i \in 1..Len(q) /\ q[i] \in S
OBVIOUS

\* The rows the invariant speaks of.
LEMMA Rows ==
    ASSUME IInv
    PROVE  /\ closing \in Closings
           /\ reviews \in Seq([revision : Nat, content : Contents])
           /\ \A i \in DOMAIN reviews : /\ i \in Nat /\ reviews[i].revision \in Nat
                                        /\ reviews[i].content \in Contents
<1>1. closing \in Closings /\ reviews \in Seq([revision : Nat, content : Contents])
    BY DEF IInv, TypeOK
<1>2. \A i \in DOMAIN reviews : i \in Nat /\ reviews[i] \in [revision : Nat, content : Contents]
    BY <1>1, Elements
<1> QED  BY <1>1, <1>2

\* The closing enters its next stage.
LEMMA Moved ==
    ASSUME closing \in Closings, NEW s \in Statuses, NEW c,
           c = [closing EXCEPT !.status = s, !.revision = @ + 1]
    PROVE  /\ c \in Closings /\ c.status = s
           /\ c.revision = closing.revision + 1 /\ c.approved = closing.approved
           /\ closing.revision \in Nat /\ closing.approved \in Nat
<1>1. closing.revision \in Nat /\ closing.approved \in Nat
    BY DEF Closings
<1>2. c = [status |-> s, revision |-> closing.revision + 1, approved |-> closing.approved]
    BY DEF Closings
<1> QED  BY <1>1, <1>2 DEF Closings

-----------------------------------------------------------------------------
(* Time, money and files.                                                  *)

\* Time, a movement of money or a file changes nothing that a request or a review holds.
LEMMA MoneyMoves ==
    ASSUME IInv, Tick \/ Stamp \/ Withdraw \/ (\E f \in Files : Lose(f))
    PROVE  IInv'
<1>1. now' \in Nat /\ writing' \subseteq Movements /\ intact' \subseteq Files
  <2>1. now \in Nat /\ writing \subseteq Movements /\ intact \subseteq Files
      BY DEF IInv, TypeOK
  <2>2. CASE Tick
      BY <2>1, <2>2 DEF Tick, money, files
  <2>3. CASE Stamp
    <3>1. PICK m \in Movements : writing' = {m}
      <4>1. \A at \in 0..now : Movement(1, 1, TRUE, at, now) \in Movements
          BY <2>1 DEF Movement, Movements
      <4>2. /\ Movement(-1, -1, TRUE, now, now) \in Movements
            /\ Movement(-1, 0, FALSE, now, now) \in Movements
          BY <2>1 DEF Movement, Movements
      <4>3. \/ \E at \in 0..now : writing' = {Movement(1, 1, TRUE, at, now)}
            \/ writing' = {Movement(-1, -1, TRUE, now, now)}
            \/ writing' = {Movement(-1, 0, FALSE, now, now)}
          BY <2>3 DEF Stamp
      <4> QED  BY <4>1, <4>2, <4>3
    <3> QED  BY <2>1, <2>3, <3>1 DEF Stamp, files
  <2>4. CASE Withdraw
      BY <2>1, <2>4 DEF Withdraw, files
  <2>5. CASE \E f \in Files : Lose(f)
      BY <2>1, <2>5 DEF Lose, money
  <2> QED  BY <2>2, <2>3, <2>4, <2>5
<1>2. UNCHANGED <<book, evidence, closing, reviews, snapshot, request>>
    BY DEF Tick, Stamp, Withdraw, Lose, money, files
<1>3. TypeOK'
    BY <1>1, <1>2 DEF IInv, TypeOK
<1>4. TasksAreGood' /\ RowHasOneHolder'
    BY <1>2 DEF IInv, TasksAreGood, Good, TracedRows, RowHasOneHolder
<1>5. RevisionsAreBounded' /\ ReviewMatchesStage' /\ ReviewsAreOfBook' /\ ReviewIsOneMoment'
    BY <1>2 DEF IInv, RevisionsAreBounded, ReviewMatchesStage, ReviewsAreOfBook,
                ReviewIsOneMoment, Latest
<1> QED  BY <1>3, <1>4, <1>5 DEF IInv

\* A movement is committed when no fence is up, so no request is about to decide, and
\* its row is in no review.
LEMMA PostKeeps == ASSUME IInv, Post PROVE IInv'
<1>1. PICK m \in writing : book' = Append(book, m)
    BY DEF Post
<1>2. /\ book' \in Seq(Movements) /\ DOMAIN book \subseteq DOMAIN book'
      /\ \A i \in DOMAIN book : book'[i] = book[i]
      /\ \A i \in DOMAIN book' : i \in DOMAIN book \/ i = Len(book) + 1
      /\ Len(book) + 1 \notin DOMAIN book
    BY <1>1 DEF IInv, TypeOK
<1>3. UNCHANGED <<now, intact, evidence, closing, reviews, snapshot, request>> /\ writing' = {}
    BY DEF Post, files
<1>4. TypeOK'
    BY <1>2, <1>3 DEF IInv, TypeOK
<1>5. \A r \in Requests : request[r].pc # "decide"
    BY DEF Post, Fenced, HoldsFence
<1>6. TasksAreGood' /\ RowHasOneHolder'
    BY <1>3, <1>5 DEF IInv, TasksAreGood, Good, RowHasOneHolder
<1>7. RevisionsAreBounded' /\ ReviewMatchesStage'
    BY <1>3 DEF IInv, RevisionsAreBounded, ReviewMatchesStage, Latest
<1>8. ReviewsAreOfBook'
    BY <1>2, <1>3 DEF IInv, ReviewsAreOfBook
<1>9. ReviewIsOneMoment'
    BY <1>2, <1>3 DEF IInv, ReviewIsOneMoment, ReviewsAreOfBook
<1> QED  BY <1>4, <1>6, <1>7, <1>8, <1>9 DEF IInv

-----------------------------------------------------------------------------
(* Requests up to their decision.                                          *)

\* A request starts (api/admin_cycle_annual_closing.py).
LEMMA StartKeeps == ASSUME IInv, NEW r \in Requests, Starts(r) PROVE IInv'
<1>1. PICK op, pc, proof, review : Start(r, op, pc, proof, review) /\
          \/ op = "record" /\ pc = "vouch" /\ proof \in Proofs /\ review = 0
          \/ /\ op = "prepare" /\ pc = "claim" /\ proof \in evidence /\ review = 0
             /\ closing.status \in {"ASSESSING", "READY_FOR_REVIEW"}
          \/ /\ op = "approve" /\ pc = "vouch" /\ closing.status = "READY_FOR_REVIEW"
             /\ review \in DOMAIN reviews /\ proof = reviews[review].content.proof
          \/ /\ op = "close" /\ pc = "vouch" /\ closing.status = "MASTER_APPROVED"
             /\ review = closing.approved /\ proof = reviews[review].content.proof
    BY DEF Starts, StartRecord, StartPrepare, StartApprove, StartClose
<1>2. closing.status = "MASTER_APPROVED" => closing.approved \in DOMAIN reviews
    BY DEF IInv, TypeOK, ReviewMatchesStage
<1>3. proof \in Proofs /\ review \in Nat
  <2>1. \A i \in DOMAIN reviews : i \in Nat /\ reviews[i].content.proof \in Proofs
      BY Rows DEF Contents
  <2>2. evidence \subseteq Proofs
      BY DEF IInv, TypeOK
  <2> QED  BY <1>1, <1>2, <2>1, <2>2
<1> DEFINE t == [op |-> op, pc |-> pc, copy |-> closing, proof |-> proof,
                 review |-> review, trace |-> {}]
<1>4. t \in Tasks
    BY <1>1, <1>3 DEF Tasks, IInv, TypeOK
<1>5. Good(t) /\ t.pc \notin RowHolders
    BY <1>1, <1>3 DEF Good, RowHolders
<1>6. request' = [request EXCEPT ![r] = t]
      /\ UNCHANGED <<now, money, files, closing, reviews, snapshot>>
    BY <1>1 DEF Start
<1> HIDE DEF t
<1> QED  BY <1>4, <1>5, <1>6, OneTask

\* A request takes its row and its locks, or is the victim of a deadlock.
LEMMA LockingKeeps == ASSUME IInv, NEW r \in Requests, Locking(r) PROVE IInv'
<1>1. request[r] \in Tasks /\ Good(request[r])
    BY DEF IInv, TypeOK, TasksAreGood
<1>2. CASE Vouch(r)
  <2> DEFINE t == [request[r] EXCEPT !.pc = IF request[r].op = "record" THEN "insert"
                                                                         ELSE "claim"]
  <2>1. t \in Tasks /\ Good(t) /\ t.pc \notin RowHolders
      BY <1>1, <1>2 DEF Vouch, At, Tasks, Good, RowHolders
  <2>2. request' = [request EXCEPT ![r] = t]
        /\ UNCHANGED <<now, money, files, closing, reviews, snapshot>>
      BY <1>1, <1>2 DEF Vouch, Go, Tasks
  <2> HIDE DEF t
  <2> QED  BY <2>1, <2>2, OneTask
<1>3. CASE Claim(r) /\ closing = request[r].copy
  <2> DEFINE t == [request[r] EXCEPT !.pc = "fence"]
  <2>1. t \in Tasks /\ Good(t)
      BY <1>1, <1>3 DEF Claim, At, Tasks, Good, RowHolders
  <2>2. \A s \in Requests : request[s].pc \notin RowHolders
      BY <1>3 DEF Claim, At, Waits, WaitsFor, WantsRow, HoldsRow, RowHolders
  <2>3. request' = [request EXCEPT ![r] = t]
        /\ UNCHANGED <<now, money, files, closing, reviews, snapshot>>
      BY <1>1, <1>3 DEF Claim, Go, Tasks
  <2> HIDE DEF t
  <2> QED  BY <2>1, <2>2, <2>3, OneTask
<1>4. CASE Claim(r) /\ closing # request[r].copy
    BY <1>4, Ending DEF Claim
<1>5. CASE Fence(r)
  <2> DEFINE t == [request[r] EXCEPT !.pc = "assess"]
  <2>1. t \in Tasks /\ Good(t) /\ request[r].pc \in RowHolders
      BY <1>1, <1>5 DEF Fence, At, Tasks, Good, RowHolders
  <2>2. request' = [request EXCEPT ![r] = t]
        /\ UNCHANGED <<now, money, files, closing, reviews, snapshot>>
      BY <1>1, <1>5 DEF Fence, Go, Tasks
  <2> HIDE DEF t
  <2> QED  BY <2>1, <2>2, OneTask
<1>6. CASE Victim(r)
    BY <1>6, Ending DEF Victim
<1> QED  BY <1>2, <1>3, <1>4, <1>5, <1>6 DEF Locking

\* The events are read under the fence: they are all there are.
LEMMA AssessKeeps == ASSUME IInv, NEW r \in Requests, Assess(r) PROVE IInv'
<1>1. request[r] \in Tasks /\ Good(request[r]) /\ request[r].pc = "assess"
    BY DEF IInv, TypeOK, TasksAreGood, Assess, At
<1>2. TracedRows(book) \in SUBSET (Nat \ {0})
    BY DEF TracedRows, IInv, TypeOK
<1> DEFINE t == [request[r] EXCEPT !.pc = "decide", !.trace = TracedRows(book)]
<1>3. t \in Tasks /\ Good(t) /\ request[r].pc \in RowHolders
    BY <1>1, <1>2 DEF Tasks, Good, RowHolders
<1>4. request' = [request EXCEPT ![r] = t]
      /\ UNCHANGED <<now, money, files, closing, reviews, snapshot>>
    BY <1>1 DEF Assess, Tasks
<1> HIDE DEF t
<1> QED  BY <1>3, <1>4, OneTask

-----------------------------------------------------------------------------
(* Decisions.                                                              *)

\* What a request about to decide computes is made of the rows there are, all the
\* events among them.
LEMMA ResultIsContent ==
    ASSUME IInv, NEW r \in Requests, At(r, "decide")
    PROVE  /\ Result(r) \in Contents
           /\ Result(r).trace = TracedRows(book)
           /\ Result(r).ledger = LedgerRows(book, Result(r).proof.cutoff)
           /\ Result(r).trace \subseteq DOMAIN book /\ Result(r).ledger \subseteq DOMAIN book
           /\ request[r].copy = closing
<1>1. Good(request[r]) /\ request[r].pc = "decide"
    BY DEF IInv, TasksAreGood, At
<1>2. request[r].proof \in Proofs /\ request[r].trace = TracedRows(book)
      /\ request[r].copy = closing
    BY <1>1 DEF Good, RowHolders
<1>3. DOMAIN book \subseteq Nat \ {0}
    BY DEF IInv, TypeOK
<1>4. TracedRows(book) \subseteq DOMAIN book
      /\ LedgerRows(book, request[r].proof.cutoff) \subseteq DOMAIN book
    BY DEF TracedRows, LedgerRows
<1> QED  BY <1>2, <1>3, <1>4 DEF Result, Contents

\* Attesting changes no closing that a request holds: those are not new.
LEMMA AttestKeeps == ASSUME IInv, NEW r \in Requests, Attest(r) PROVE IInv'
<1>1. /\ request[r] \in Tasks /\ Good(request[r]) /\ request[r].pc = "insert"
      /\ request' = [request EXCEPT ![r] = Idle]
      /\ UNCHANGED <<now, book, writing, intact, reviews, snapshot>>
    BY DEF IInv, TypeOK, TasksAreGood, Attest, At, End, money
<1>2. request[r].proof \in Proofs
    BY <1>1 DEF Good
<1>3. evidence' \subseteq Proofs
    BY <1>2 DEF IInv, TypeOK, Attest
<1>4. /\ closing' # closing => closing = NoClosing
      /\ closing' = closing \/ closing' = [NoClosing EXCEPT !.status = "ASSESSING"]
    BY DEF Attest
<1>5. closing' \in Closings
    BY <1>4 DEF IInv, TypeOK, Closings, NoClosing, Statuses
<1>6. Idle \in Tasks
    BY DEF Idle, Tasks, NoClosing, Closings, Statuses
<1>7. TypeOK'
    BY <1>1, <1>3, <1>5, <1>6 DEF IInv, TypeOK
<1>8. \A s \in Requests : request[s].pc \in RowHolders => request[s].copy.status # "none"
    BY DEF IInv, TypeOK, TasksAreGood, Good, RowHolders, Tasks
<1>9. \A s \in Requests : request[s].pc \in RowHolders => closing' = closing
    BY <1>4, <1>8 DEF IInv, TasksAreGood, Good, NoClosing
<1>10. TasksAreGood' /\ RowHasOneHolder'
    BY <1>1, <1>9 DEF IInv, TypeOK, TasksAreGood, RowHasOneHolder, Good, Idle, RowHolders,
                      TracedRows
<1>11. RevisionsAreBounded' /\ ReviewMatchesStage'
    BY <1>1, <1>4 DEF IInv, RevisionsAreBounded, ReviewMatchesStage, Latest, NoClosing
<1>12. ReviewsAreOfBook' /\ ReviewIsOneMoment'
    BY <1>1 DEF IInv, ReviewsAreOfBook, ReviewIsOneMoment
<1> QED  BY <1>7, <1>10, <1>11, <1>12 DEF IInv

\* The requests after one of them decided: it is idle, and nobody else had the row.
LEMMA Decided ==
    ASSUME IInv, NEW r \in Requests, At(r, "decide"), End(r), UNCHANGED book
    PROVE  /\ request' \in [Requests -> Tasks]
           /\ TasksAreGood' /\ RowHasOneHolder'
<1>1. Idle \in Tasks
    BY DEF Idle, Tasks, NoClosing, Closings, Statuses
<1>2. \A s \in Requests : s # r => request[s].pc \notin RowHolders
    BY DEF IInv, RowHasOneHolder, RowHolders, At
<1>3. request' = [request EXCEPT ![r] = Idle]
    BY DEF End
<1>4. request' \in [Requests -> Tasks]
    BY <1>1, <1>3 DEF IInv, TypeOK
<1>5. TasksAreGood'
    BY <1>2, <1>3 DEF IInv, TypeOK, TasksAreGood, Good, Idle, RowHolders, TracedRows
<1>6. RowHasOneHolder'
    BY <1>2, <1>3 DEF IInv, TypeOK, RowHasOneHolder, Idle, RowHolders
<1> QED  BY <1>4, <1>5, <1>6

\* A preparation appends a review of what it calculated.
LEMMA PrepareKeeps == ASSUME IInv, NEW r \in Requests, Prepare(r) PROVE IInv'
<1>1. /\ At(r, "decide") /\ End(r) /\ request[r].op = "prepare"
      /\ UNCHANGED <<now, book, writing, intact, evidence, snapshot>>
    BY DEF Prepare, money, files
<1>2. request' \in [Requests -> Tasks] /\ TasksAreGood' /\ RowHasOneHolder'
    BY <1>1, Decided
<1>3. CASE UNCHANGED <<reviews, closing>>
  <2>1. TypeOK'
      BY <1>1, <1>2, <1>3 DEF IInv, TypeOK
  <2>2. RevisionsAreBounded' /\ ReviewMatchesStage' /\ ReviewsAreOfBook' /\ ReviewIsOneMoment'
      BY <1>1, <1>3 DEF IInv, RevisionsAreBounded, ReviewMatchesStage, ReviewsAreOfBook,
                        ReviewIsOneMoment, Latest
  <2> QED  BY <1>2, <2>1, <2>2 DEF IInv
<1>4. CASE /\ reviews' = Append(reviews, Review(closing.revision + 1, Result(r)))
           /\ closing' = [closing EXCEPT !.status = "READY_FOR_REVIEW", !.revision = @ + 1]
  <2>1. closing.status \in {"ASSESSING", "READY_FOR_REVIEW"}
      BY <1>1, ResultIsContent DEF IInv, TasksAreGood, Good
  <2>2. PICK new \in [revision : Nat, content : Contents] :
            /\ reviews' = Append(reviews, new)
            /\ new.revision = closing.revision + 1
            /\ new.content = Result(r)
    <3> DEFINE n == Review(closing.revision + 1, Result(r))
    <3>1. closing.revision \in Nat
        BY Rows DEF Closings
    <3>2. n \in [revision : Nat, content : Contents]
        BY <1>1, <3>1, ResultIsContent DEF Review
    <3>3. n.revision = closing.revision + 1 /\ n.content = Result(r)
        BY DEF Review
    <3> QED  BY <1>4, <3>2, <3>3
  <2>3. /\ reviews' \in Seq([revision : Nat, content : Contents])
        /\ \A i \in DOMAIN reviews : reviews'[i] = reviews[i]
        /\ \A i \in DOMAIN reviews' : i \in DOMAIN reviews \/ i = Len(reviews')
        /\ reviews' # <<>> /\ reviews'[Len(reviews')] = new
        /\ \A i \in DOMAIN reviews' : i \in 1..Len(reviews')
        /\ Len(reviews') = Len(reviews) + 1
        /\ \A i \in DOMAIN reviews : i \in 1..Len(reviews)
      BY <2>2 DEF IInv, TypeOK
  <2>4. /\ closing' \in Closings /\ closing'.status = "READY_FOR_REVIEW"
        /\ closing'.revision = closing.revision + 1 /\ closing'.approved = closing.approved
      BY <1>4, Rows, Moved DEF Statuses
  <2>5. TypeOK'
      BY <1>1, <1>2, <2>3, <2>4 DEF IInv, TypeOK
  <2>6. \A i \in DOMAIN reviews : reviews[i].revision < new.revision /\ reviews[i].revision \in Nat
    <3>1. \A i \in DOMAIN reviews : reviews[i].revision <= closing.revision
        BY DEF IInv, RevisionsAreBounded
    <3>2. closing.revision \in Nat /\ \A i \in DOMAIN reviews : reviews[i].revision \in Nat
        BY Rows DEF Closings
    <3> QED  BY <2>2, <3>1, <3>2
  <2>7. RevisionsAreBounded'
      BY <2>1, <2>2, <2>3, <2>4, <2>6 DEF IInv, RevisionsAreBounded
  <2>8. ReviewMatchesStage'
    <3>1. snapshot' = {} /\ closing'.approved = 0
        BY <1>1, <2>1, <2>4 DEF IInv, ReviewMatchesStage, RevisionsAreBounded
    <3>2. ASSUME NEW i \in DOMAIN reviews', NEW j \in DOMAIN reviews', i < j
          PROVE  reviews'[i].revision < reviews'[j].revision
      <4>1. i \in DOMAIN reviews
          BY <2>3, <3>2
      <4>2. CASE j \in DOMAIN reviews
          BY <2>3, <3>2, <4>1, <4>2 DEF IInv, ReviewMatchesStage
      <4>3. CASE j = Len(reviews')
          BY <2>3, <2>6, <4>1, <4>3
      <4> QED  BY <2>3, <4>2, <4>3
    <3> QED  BY <2>2, <2>3, <2>4, <3>1, <3>2 DEF ReviewMatchesStage, Latest
  <2>9. ReviewsAreOfBook'
      BY <1>1, <2>2, <2>3, ResultIsContent DEF IInv, ReviewsAreOfBook
  <2>10. ReviewIsOneMoment'
    <3>1. \A i \in DOMAIN book :
              book[i].traced /\ book[i].posted <= new.content.proof.cutoff =>
                  (i \in new.content.trace <=> i \in new.content.ledger)
        BY <1>1, <2>2, ResultIsContent DEF TracedRows, LedgerRows
    <3> QED  BY <1>1, <2>3, <3>1 DEF IInv, ReviewIsOneMoment
  <2> QED  BY <1>2, <2>5, <2>7, <2>8, <2>9, <2>10 DEF IInv
<1> QED  BY <1>3, <1>4 DEF Prepare

\* An approval checks the latest review against the book.
LEMMA ApproveKeeps == ASSUME IInv, NEW r \in Requests, Approve(r) PROVE IInv'
<1>1. /\ At(r, "decide") /\ End(r) /\ request[r].op = "approve"
      /\ UNCHANGED <<now, book, writing, intact, evidence, reviews, snapshot>>
    BY DEF Approve, money, files
<1>2. request' \in [Requests -> Tasks] /\ TasksAreGood' /\ RowHasOneHolder'
    BY <1>1, Decided
<1>3. closing.status = "READY_FOR_REVIEW" /\ request[r].review \in Nat
    BY <1>1, ResultIsContent DEF IInv, TasksAreGood, Good, TypeOK, Tasks
<1>4. \/ UNCHANGED closing
      \/ /\ request[r].review = Len(reviews)
         /\ closing' = [status |-> "MASTER_APPROVED", revision |-> closing.revision + 1,
                        approved |-> request[r].review]
    BY DEF Approve
<1>5. closing' \in Closings
    BY <1>3, <1>4 DEF IInv, TypeOK, Closings, Statuses
<1>6. TypeOK'
    BY <1>1, <1>2, <1>5 DEF IInv, TypeOK
<1>7. RevisionsAreBounded' /\ ReviewMatchesStage'
  <2>1. closing.revision \in Nat /\ \A i \in DOMAIN reviews : reviews[i].revision \in Nat
      BY Rows DEF Closings
  <2>2. CASE UNCHANGED closing
      BY <1>1, <2>2 DEF IInv, RevisionsAreBounded, ReviewMatchesStage, Latest
  <2>3. CASE /\ request[r].review = Len(reviews)
             /\ closing' = [status |-> "MASTER_APPROVED", revision |-> closing.revision + 1,
                            approved |-> request[r].review]
    <3>1. /\ closing'.status = "MASTER_APPROVED" /\ closing'.approved = Len(reviews)
          /\ closing'.revision = closing.revision + 1
        BY <2>3
    <3>2. RevisionsAreBounded'
        BY <1>1, <2>1, <3>1 DEF IInv, RevisionsAreBounded
    <3>3. ReviewMatchesStage'
        BY <1>1, <1>3, <2>1, <3>1 DEF IInv, ReviewMatchesStage, Latest
    <3> QED  BY <3>2, <3>3
  <2> QED  BY <1>4, <2>2, <2>3
<1>8. ReviewsAreOfBook' /\ ReviewIsOneMoment'
    BY <1>1 DEF IInv, ReviewsAreOfBook, ReviewIsOneMoment
<1> QED  BY <1>2, <1>6, <1>7, <1>8 DEF IInv

\* A closing takes the official snapshot.
LEMMA CloseKeeps == ASSUME IInv, NEW r \in Requests, Close(r) PROVE IInv'
<1>1. /\ At(r, "decide") /\ End(r) /\ request[r].op = "close"
      /\ UNCHANGED <<now, book, writing, intact, evidence, reviews>>
    BY DEF Close, money, files
<1>2. request' \in [Requests -> Tasks] /\ TasksAreGood' /\ RowHasOneHolder'
    BY <1>1, Decided
<1>3. closing.status = "MASTER_APPROVED"
    BY <1>1, ResultIsContent DEF IInv, TasksAreGood, Good
<1>4. \/ UNCHANGED <<closing, snapshot>>
      \/ /\ snapshot' = {[content |-> Result(r), at |-> now]}
         /\ closing' = [closing EXCEPT !.status = "CLOSED", !.revision = @ + 1]
    BY DEF Close
<1>5. closing' \in Closings
    BY <1>4, Rows, Moved DEF Statuses
<1>6. \A s \in snapshot' : s.content \in Contents /\ s.at \in Nat
    BY <1>1, <1>4, ResultIsContent DEF IInv, TypeOK
<1>7. TypeOK'
    BY <1>1, <1>2, <1>5, <1>6 DEF IInv, TypeOK
<1>8. RevisionsAreBounded' /\ ReviewMatchesStage'
  <2>1. closing.revision \in Nat /\ \A i \in DOMAIN reviews : reviews[i].revision \in Nat
      BY Rows DEF Closings
  <2>2. CASE UNCHANGED <<closing, snapshot>>
      BY <1>1, <2>2 DEF IInv, RevisionsAreBounded, ReviewMatchesStage, Latest
  <2>3. CASE /\ snapshot' = {[content |-> Result(r), at |-> now]}
             /\ closing' = [closing EXCEPT !.status = "CLOSED", !.revision = @ + 1]
    <3>1. /\ closing'.status = "CLOSED" /\ closing'.approved = closing.approved
          /\ closing'.revision = closing.revision + 1 /\ snapshot' # {}
        BY <2>3, Rows, Moved DEF Statuses
    <3>2. RevisionsAreBounded'
        BY <1>1, <2>1, <3>1 DEF IInv, RevisionsAreBounded
    <3>3. /\ reviews # <<>> /\ closing.approved = Len(reviews)
          /\ Latest.revision + 1 = closing.revision
        BY <1>3 DEF IInv, ReviewMatchesStage
    <3>4. Latest.revision \in Nat
        BY <3>3, Rows DEF Latest
    <3>5. Latest' = Latest
        BY <1>1 DEF Latest
    <3>6. \A i, j \in DOMAIN reviews : i < j => reviews[i].revision < reviews[j].revision
        BY DEF IInv, ReviewMatchesStage
    <3>7. ReviewMatchesStage'
        BY <1>1, <2>1, <3>1, <3>3, <3>4, <3>5, <3>6 DEF ReviewMatchesStage
    <3> QED  BY <3>2, <3>7
  <2> QED  BY <1>4, <2>2, <2>3
<1>9. ReviewsAreOfBook' /\ ReviewIsOneMoment'
    BY <1>1 DEF IInv, ReviewsAreOfBook, ReviewIsOneMoment
<1> QED  BY <1>2, <1>7, <1>8, <1>9 DEF IInv

-----------------------------------------------------------------------------
(* The theorems.                                                           *)

\* Every step keeps the invariant.
LEMMA StepKeeps == IInv /\ [Next]_vars => IInv'
<1> SUFFICES ASSUME IInv, [Next]_vars PROVE IInv'
    OBVIOUS
<1>1. CASE UNCHANGED vars
  <2>1. UNCHANGED <<now, book, writing, intact, evidence, closing, reviews, snapshot, request>>
      BY <1>1 DEF vars
  <2>2. TypeOK' /\ TasksAreGood' /\ RowHasOneHolder'
      BY <2>1 DEF IInv, TypeOK, TasksAreGood, Good, RowHasOneHolder, TracedRows
  <2>3. RevisionsAreBounded' /\ ReviewMatchesStage' /\ ReviewsAreOfBook' /\ ReviewIsOneMoment'
      BY <2>1 DEF IInv, RevisionsAreBounded, ReviewMatchesStage, Latest, ReviewsAreOfBook,
                  ReviewIsOneMoment
  <2> QED  BY <2>2, <2>3 DEF IInv
<1>2. CASE Tick \/ Stamp \/ Withdraw \/ (\E f \in Files : Lose(f))
    BY <1>2, MoneyMoves
<1>3. CASE Post
    BY <1>3, PostKeeps
<1>4. ASSUME NEW r \in Requests, Starts(r) PROVE IInv'
    BY <1>4, StartKeeps
<1>5. ASSUME NEW r \in Requests, Locking(r) PROVE IInv'
    BY <1>5, LockingKeeps
<1>6. ASSUME NEW r \in Requests, Deciding(r) PROVE IInv'
  <2>1. CASE Distrust(r)
      BY <2>1, Ending DEF Distrust
  <2> QED  BY <1>6, <2>1, AssessKeeps, AttestKeeps, PrepareKeeps, ApproveKeeps, CloseKeeps
              DEF Deciding
<1>7. ASSUME NEW r \in Requests, Crash(r) PROVE IInv'
    BY <1>7, Ending DEF Crash
<1> QED  BY <1>1, <1>2, <1>3, <1>4, <1>5, <1>6, <1>7 DEF Next

\* The invariant holds throughout.
THEOREM Invariance == Spec => []IInv
BY InitIsGood, StepKeeps, PTL DEF Spec

\* Every variable has its type in every reachable state of the workflow.
THEOREM TypeCorrect == Spec => []TypeOK
<1>1. IInv => TypeOK
    BY DEF IInv
<1> QED  BY <1>1, Invariance, PTL

\* However requests interleave and crash, the closing row, its latest review, the
\* approval and the snapshot stay in step (approve and close rely on it).
THEOREM StagesMatch == Spec => []ReviewMatchesStage
<1>1. IInv => ReviewMatchesStage
    BY DEF IInv
<1> QED  BY <1>1, Invariance, PTL

\* The two readings a review is made of, payment events and ledger, are of one moment:
\* the SHARE locks keep every writer out between them.
THEOREM ReviewsAreOfOneMoment == Spec => []ReviewIsOneMoment
<1>1. IInv => ReviewIsOneMoment
    BY DEF IInv
<1> QED  BY <1>1, Invariance, PTL

\* Both at once: what approve and close rely on when they trust a stored review
\* (approve_cycle_closing_review, persist_approved_cycle_closing_snapshot).
THEOREM ReviewsSound == Spec => []ReviewsAreSound
<1>1. ReviewMatchesStage /\ ReviewIsOneMoment => ReviewsAreSound
    BY DEF ReviewsAreSound
<1> QED  BY <1>1, StagesMatch, ReviewsAreOfOneMoment, PTL

-----------------------------------------------------------------------------
(* The official figures are funded.                                        *)

\* What a request decides about, and what was reviewed, the Master attested.
ProofsAreAttested ==
    /\ \A r \in Requests :
          request[r].op \in {"prepare", "approve", "close"} => request[r].proof \in evidence
    /\ \A k \in DOMAIN reviews : reviews[k].content.proof \in evidence

\* A snapshot is made of rows that are in the books.
SnapshotsAreOfBook ==
    \A s \in snapshot : /\ s.content.trace \subseteq DOMAIN book
                        /\ s.content.ledger \subseteq DOMAIN book

Funding == ProofsAreAttested /\ SnapshotsAreOfBook /\ OfficialIsFunded

\* Rows that stay as they are keep their sums.
LEMMA SameRowsSameSums ==
    ASSUME NEW b, NEW c, NEW rows, \A i \in rows : c[i] = b[i]
    PROVE  /\ Cash(c, rows) = Cash(b, rows)
           /\ \A cutoff : Owed(c, rows, cutoff) = Owed(b, rows, cutoff)
<1>1. [i \in rows |-> c[i].cash] = [i \in rows |-> b[i].cash]
    OBVIOUS
<1>2. ASSUME NEW cutoff PROVE Owed(c, rows, cutoff) = Owed(b, rows, cutoff)
  <2>1. {i \in rows : c[i].at <= cutoff} = {i \in rows : b[i].at <= cutoff}
      OBVIOUS
  <2>2. [i \in {j \in rows : c[j].at <= cutoff} |-> c[i].owed]
          = [i \in {j \in rows : b[j].at <= cutoff} |-> b[i].owed]
      BY <2>1
  <2> QED  BY <2>1, <2>2 DEF Owed
<1> QED  BY <1>1, <1>2 DEF Cash

\* What is official stays funded while the books only grow and no evidence is withdrawn.
LEMMA OfficialStays ==
    ASSUME SnapshotsAreOfBook, OfficialIsFunded, UNCHANGED snapshot, evidence \subseteq evidence',
           DOMAIN book \subseteq DOMAIN book', \A i \in DOMAIN book : book'[i] = book[i]
    PROVE  SnapshotsAreOfBook' /\ OfficialIsFunded'
<1>1. SnapshotsAreOfBook'
    BY DEF SnapshotsAreOfBook
<1>2. ASSUME NEW s \in snapshot
      PROVE  /\ s.content.proof \in evidence'
             /\ Cash(book', s.content.ledger) = s.content.proof.balance
             /\ Owed(book', s.content.trace, s.content.proof.cutoff) <= s.content.proof.balance
  <2>1. /\ \A i \in s.content.ledger : book'[i] = book[i]
        /\ \A i \in s.content.trace : book'[i] = book[i]
      BY DEF SnapshotsAreOfBook
  <2>2. /\ Cash(book', s.content.ledger) = Cash(book, s.content.ledger)
        /\ Owed(book', s.content.trace, s.content.proof.cutoff)
             = Owed(book, s.content.trace, s.content.proof.cutoff)
      BY <2>1, SameRowsSameSums
  <2> QED  BY <2>2 DEF OfficialIsFunded
<1>3. OfficialIsFunded'
    BY <1>2 DEF OfficialIsFunded
<1> QED  BY <1>1, <1>3

\* A step that decides nothing and starts nothing: requests go on or end.
LEMMA FundingStays ==
    ASSUME Funding, evidence \subseteq evidence', UNCHANGED <<reviews, snapshot>>,
           DOMAIN book \subseteq DOMAIN book', \A i \in DOMAIN book : book'[i] = book[i],
           \A r \in Requests :
               request'[r].op \in {"prepare", "approve", "close"} =>
                   \/ request'[r].proof \in evidence
                   \/ request[r].op = request'[r].op /\ request[r].proof = request'[r].proof
    PROVE  Funding'
<1>1. ProofsAreAttested'
    BY DEF Funding, ProofsAreAttested
<1> QED  BY <1>1, OfficialStays DEF Funding

\* Time, money and files withdraw no evidence.
LEMMA MoneyKeepsFunding ==
    ASSUME IInv, Funding, Tick \/ Stamp \/ Post \/ Withdraw \/ (\E f \in Files : Lose(f))
    PROVE  Funding'
<1>1. UNCHANGED <<evidence, reviews, snapshot, request>>
    BY DEF Tick, Stamp, Post, Withdraw, Lose, files, money
<1>2. UNCHANGED book \/ \E m \in writing : book' = Append(book, m)
    BY DEF Tick, Stamp, Post, Withdraw, Lose, files, money
<1>3. DOMAIN book \subseteq DOMAIN book' /\ \A i \in DOMAIN book : book'[i] = book[i]
  <2>1. book \in Seq(Movements)
      BY DEF IInv, TypeOK
  <2>2. CASE UNCHANGED book
      BY <2>2
  <2>3. ASSUME NEW m \in writing, book' = Append(book, m)
        PROVE  DOMAIN book \subseteq DOMAIN book' /\ \A i \in DOMAIN book : book'[i] = book[i]
      BY <2>1, <2>3
  <2> QED  BY <1>2, <2>2, <2>3
<1> QED  BY <1>1, <1>3, FundingStays

\* A request starts with evidence that was attested: its own or that of the review.
LEMMA StartKeepsFunding == ASSUME IInv, Funding, NEW r \in Requests, Starts(r) PROVE Funding'
<1>1. PICK op, pc, proof, review :
          /\ Start(r, op, pc, proof, review)
          /\ op \in {"prepare", "approve", "close"} =>
                \/ proof \in evidence
                \/ \E i \in DOMAIN reviews : proof = reviews[i].content.proof
  <2>1. closing.status = "MASTER_APPROVED" => closing.approved \in DOMAIN reviews
      BY DEF IInv, TypeOK, ReviewMatchesStage
  <2> QED  BY <2>1 DEF Starts, StartRecord, StartPrepare, StartApprove, StartClose
<1>2. op \in {"prepare", "approve", "close"} => proof \in evidence
    BY <1>1 DEF Funding, ProofsAreAttested
<1>3. UNCHANGED <<book, evidence, reviews, snapshot>>
    BY <1>1 DEF Start, money, files
<1>4. request' = [request EXCEPT ![r] = [op |-> op, pc |-> pc, copy |-> closing,
                                         proof |-> proof, review |-> review, trace |-> {}]]
    BY <1>1 DEF Start
<1>5. ASSUME NEW s \in Requests, request'[s].op \in {"prepare", "approve", "close"}
      PROVE  \/ request'[s].proof \in evidence
             \/ request[s].op = request'[s].op /\ request[s].proof = request'[s].proof
    BY <1>2, <1>4, <1>5 DEF IInv, TypeOK
<1> QED  BY <1>3, <1>5, FundingStays

\* The locks, the fence, the reading of the events and the ends of a request.
LEMMA WaitingKeepsFunding ==
    ASSUME IInv, Funding, NEW r \in Requests,
           Locking(r) \/ Crash(r) \/ Assess(r) \/ Distrust(r) \/ Attest(r)
    PROVE  Funding'
<1>1. UNCHANGED <<book, reviews, snapshot>> /\ evidence \subseteq evidence'
    BY DEF Locking, Vouch, Claim, Fence, Victim, Crash, Assess, Distrust, Attest, money, files
<1>2. request[r] \in Tasks
    BY DEF IInv, TypeOK
<1>3. \A s \in Requests :
          request'[s].op \in {"prepare", "approve", "close"} =>
              request[s].op = request'[s].op /\ request[s].proof = request'[s].proof
  <2>1. CASE End(r)
      BY <2>1 DEF IInv, TypeOK, End, Idle
  <2>2. CASE \E pc \in {"insert", "claim", "fence", "assess"} : Go(r, pc)
    <3>1. PICK pc : request' = [request EXCEPT ![r].pc = pc]
        BY <2>2 DEF Go
    <3> QED  BY <1>2, <3>1 DEF IInv, TypeOK, Tasks
  <2>3. CASE Assess(r)
      BY <1>2, <2>3 DEF IInv, TypeOK, Assess, Tasks
  <2> QED  BY <2>1, <2>2, <2>3 DEF Locking, Vouch, Claim, Fence, Victim, Crash, Distrust, Attest
<1> QED  BY <1>1, <1>3, FundingStays

\* A decision ends its request, and the requests left still have their evidence.
LEMMA DecisionEnds ==
    ASSUME IInv, Funding, NEW r \in Requests, End(r), UNCHANGED <<book, evidence>>
    PROVE  /\ \A s \in Requests :
                 request'[s].op \in {"prepare", "approve", "close"} =>
                     request[s].op = request'[s].op /\ request[s].proof = request'[s].proof
           /\ UNCHANGED <<reviews, snapshot>> => Funding'
<1>1. \A s \in Requests :
          request'[s].op \in {"prepare", "approve", "close"} =>
              request[s].op = request'[s].op /\ request[s].proof = request'[s].proof
    BY DEF IInv, TypeOK, End, Idle
<1> QED  BY <1>1, FundingStays

\* What prepare reviews is what its request had attested.
LEMMA PrepareKeepsFunding == ASSUME IInv, Funding, NEW r \in Requests, Prepare(r) PROVE Funding'
<1>1. /\ End(r) /\ request[r].op = "prepare" /\ UNCHANGED <<book, evidence, snapshot>>
    BY DEF Prepare, money, files
<1>2. CASE UNCHANGED reviews
    BY <1>1, <1>2, DecisionEnds
<1>3. CASE reviews' = Append(reviews, Review(closing.revision + 1, Result(r)))
  <2>1. request[r].proof \in evidence
      BY <1>1 DEF Funding, ProofsAreAttested
  <2>2. Review(closing.revision + 1, Result(r)).content.proof = request[r].proof
      BY DEF Review, Result
  <2>3. \A k \in DOMAIN reviews' : reviews'[k].content.proof \in evidence
    <3>1. \A k \in DOMAIN reviews' :
              \/ k \in DOMAIN reviews /\ reviews'[k] = reviews[k]
              \/ reviews'[k] = Review(closing.revision + 1, Result(r))
        BY <1>3 DEF IInv, TypeOK
    <3> QED  BY <2>1, <2>2, <3>1 DEF Funding, ProofsAreAttested
  <2>4. ProofsAreAttested'
      BY <1>1, <2>3, DecisionEnds DEF Funding, ProofsAreAttested
  <2> QED  BY <1>1, <2>4, OfficialStays DEF Funding
<1> QED  BY <1>2, <1>3 DEF Prepare

\* Approving writes no figures.
LEMMA ApproveKeepsFunding == ASSUME IInv, Funding, NEW r \in Requests, Approve(r) PROVE Funding'
<1>1. End(r) /\ UNCHANGED <<book, evidence, reviews, snapshot>>
    BY DEF Approve, money, files
<1> QED  BY <1>1, DecisionEnds

\* What close makes official it has just computed again from books nobody writes to.
LEMMA CloseKeepsFunding == ASSUME IInv, Funding, NEW r \in Requests, Close(r) PROVE Funding'
<1>1. /\ At(r, "decide") /\ End(r) /\ request[r].op = "close"
      /\ UNCHANGED <<book, evidence, reviews>>
    BY DEF Close, money, files
<1>2. CASE UNCHANGED snapshot
    BY <1>1, <1>2, DecisionEnds
<1>3. CASE snapshot' = {[content |-> Result(r), at |-> now]} /\ StillTrue(r)
  <2>1. ProofsAreAttested'
      BY <1>1, DecisionEnds DEF Funding, ProofsAreAttested
  <2>2. \A s \in snapshot' : s.content = Result(r)
      BY <1>3
  <2>3. SnapshotsAreOfBook'
      BY <1>1, <2>2, ResultIsContent DEF SnapshotsAreOfBook
  <2>4. /\ Result(r).proof = request[r].proof /\ Result(r).trace = request[r].trace
        /\ Result(r).ledger = LedgerRows(book, request[r].proof.cutoff)
      BY DEF Result
  <2>5. /\ Result(r).proof \in evidence
        /\ Cash(book, Result(r).ledger) = Result(r).proof.balance
        /\ Owed(book, Result(r).trace, Result(r).proof.cutoff) <= Result(r).proof.balance
      BY <1>1, <1>3, <2>4 DEF StillTrue, Sound, Funding, ProofsAreAttested
  <2>6. OfficialIsFunded'
      BY <1>1, <2>2, <2>5 DEF OfficialIsFunded
  <2> QED  BY <2>1, <2>3, <2>6 DEF Funding
<1> QED  BY <1>2, <1>3 DEF Close

\* Initially nothing is asked, reviewed or official; every step keeps the figures funded.
LEMMA FundingIsInductive ==
    /\ Init => Funding
    /\ IInv /\ Funding /\ [Next]_vars => Funding'
<1>1. Init => Funding
    BY DEF Init, Funding, ProofsAreAttested, SnapshotsAreOfBook, OfficialIsFunded, Idle
<1>2. ASSUME IInv, Funding, [Next]_vars PROVE Funding'
  <2>1. CASE UNCHANGED vars
    <3>1. UNCHANGED <<book, evidence, reviews, snapshot, request>>
        BY <2>1 DEF vars
    <3> QED  BY <1>2, <3>1, FundingStays
  <2>2. CASE Tick \/ Stamp \/ Post \/ Withdraw \/ (\E f \in Files : Lose(f))
      BY <1>2, <2>2, MoneyKeepsFunding
  <2>3. ASSUME NEW r \in Requests, Starts(r) \/ Locking(r) \/ Deciding(r) \/ Crash(r)
        PROVE  Funding'
      BY <1>2, <2>3, StartKeepsFunding, WaitingKeepsFunding, PrepareKeepsFunding,
         ApproveKeepsFunding, CloseKeepsFunding DEF Deciding
  <2> QED  BY <1>2, <2>1, <2>2, <2>3 DEF Next
<1> QED  BY <1>1, <1>2

\* What the fund publishes as its official figures balances with a bank statement the
\* Master attested and covers what it promises to pay, and stays so: the books may
\* grow and files may be lost after the closing (persist_approved_cycle_closing_snapshot).
THEOREM OfficialFunded == Spec => []OfficialIsFunded
<1>1. Funding => OfficialIsFunded
    BY DEF Funding
<1> QED  BY <1>1, Invariance, FundingIsInductive, PTL DEF Spec

-----------------------------------------------------------------------------
(* The workflow implements the certificate.                                *)

Stage == CASE closing.status \in {"none", "ASSESSING"} -> "assessing"
           [] closing.status = "READY_FOR_REVIEW" -> "reviewed"
           [] closing.status = "MASTER_APPROVED" -> "approved"
           [] OTHER -> "closed"
Figures  == IF reviews = <<>> THEN {} ELSE {Latest.content}
Official == {s.content : s \in snapshot}

\* A step that writes neither the closing, nor a review, nor a snapshot.
LEMMA Stutter ==
    UNCHANGED <<closing, reviews, snapshot>> => UNCHANGED <<Stage, Figures, Official>>
BY DEF Stage, Figures, Official, Latest

\* Preparing a review is reviewing, or nothing.
LEMMA PrepareReviews ==
    ASSUME IInv, NEW r \in Requests, Prepare(r)
    PROVE  \/ /\ Stage \in {"assessing", "reviewed"} /\ Stage' = "reviewed"
              /\ Figures' # {} /\ Official' = Official
           \/ UNCHANGED <<Stage, Figures, Official>>
<1>1. /\ At(r, "decide") /\ request[r].op = "prepare" /\ UNCHANGED snapshot
    BY DEF Prepare
<1>2. CASE UNCHANGED <<reviews, closing>>
    BY <1>1, <1>2, Stutter
<1>3. CASE /\ reviews' = Append(reviews, Review(closing.revision + 1, Result(r)))
           /\ closing' = [closing EXCEPT !.status = "READY_FOR_REVIEW", !.revision = @ + 1]
  <2>1. closing.status \in {"ASSESSING", "READY_FOR_REVIEW"}
      BY <1>1, ResultIsContent DEF IInv, TasksAreGood, Good
  <2>2. closing'.status = "READY_FOR_REVIEW"
      BY <1>3, Rows, Moved DEF Statuses
  <2>3. Stage \in {"assessing", "reviewed"} /\ Stage' = "reviewed"
      BY <2>1, <2>2 DEF Stage
  <2>4. reviews' # <<>>
      BY <1>3, Rows
  <2>5. Figures' # {}
      BY <2>4 DEF Figures
  <2> QED  BY <1>1, <2>3, <2>5 DEF Official
<1> QED  BY <1>2, <1>3 DEF Prepare

\* Approving a review is approving the figures, or nothing.
LEMMA ApproveApproves ==
    ASSUME IInv, NEW r \in Requests, Approve(r)
    PROVE  \/ /\ Stage = "reviewed" /\ Stage' = "approved"
              /\ Figures' = Figures /\ Official' = Official
           \/ UNCHANGED <<Stage, Figures, Official>>
<1>1. /\ At(r, "decide") /\ request[r].op = "approve" /\ UNCHANGED <<reviews, snapshot>>
    BY DEF Approve
<1>2. closing.status = "READY_FOR_REVIEW"
    BY <1>1, ResultIsContent DEF IInv, TasksAreGood, Good
<1>3. UNCHANGED closing \/ closing'.status = "MASTER_APPROVED"
    BY DEF Approve
<1>4. CASE UNCHANGED closing
    BY <1>1, <1>4, Stutter
<1>5. CASE closing'.status = "MASTER_APPROVED"
    BY <1>1, <1>2, <1>5 DEF Stage, Figures, Official, Latest
<1> QED  BY <1>3, <1>4, <1>5

\* Closing makes the approved figures official, or nothing: what is computed again is
\* what the approved review says.
LEMMA CloseCloses ==
    ASSUME IInv, NEW r \in Requests, Close(r)
    PROVE  \/ /\ Stage = "approved" /\ Stage' = "closed"
              /\ Official' = Figures /\ Figures' = Figures
           \/ UNCHANGED <<Stage, Figures, Official>>
<1>1. /\ At(r, "decide") /\ request[r].op = "close" /\ UNCHANGED reviews
    BY DEF Close
<1>2. closing.status = "MASTER_APPROVED"
    BY <1>1, ResultIsContent DEF IInv, TasksAreGood, Good
<1>3. CASE UNCHANGED <<snapshot, closing>>
    BY <1>1, <1>3, Stutter
<1>4. CASE /\ request[r].review = Len(reviews) /\ StillTrue(r)
           /\ snapshot' = {[content |-> Result(r), at |-> now]}
           /\ closing' = [closing EXCEPT !.status = "CLOSED", !.revision = @ + 1]
  <2>1. closing'.status = "CLOSED"
      BY <1>4, Rows, Moved DEF Statuses
  <2>2. reviews # <<>>
      BY <1>2 DEF IInv, ReviewMatchesStage
  <2>3. Official' = {Result(r)}
      BY <1>4 DEF Official
  <2>4. Latest.content = Result(r)
      BY <1>4 DEF StillTrue, Latest
  <2>5. Stage = "approved" /\ Stage' = "closed"
      BY <1>2, <2>1 DEF Stage
  <2>6. Figures = {Result(r)} /\ Figures' = Figures
      BY <1>1, <2>2, <2>4 DEF Figures, Latest
  <2> QED  BY <2>3, <2>5, <2>6
<1> QED  BY <1>3, <1>4 DEF Close

\* Attesting may open the closing, which is still being assessed then.
LEMMA AttestStutters ==
    ASSUME IInv, NEW r \in Requests, Attest(r)
    PROVE  UNCHANGED <<Stage, Figures, Official>>
<1>1. UNCHANGED <<reviews, snapshot>>
    BY DEF Attest
<1>2. \/ UNCHANGED closing
      \/ closing = NoClosing /\ closing' = [NoClosing EXCEPT !.status = "ASSESSING"]
    BY DEF Attest
<1>3. Stage' = Stage
    BY <1>2 DEF Stage, NoClosing
<1> QED  BY <1>1, <1>3 DEF Figures, Official, Latest

\* Every other step of a request, of money and of files stutters.
LEMMA OthersStutter ==
    ASSUME \/ Tick \/ Stamp \/ Post \/ Withdraw \/ (\E f \in Files : Lose(f))
           \/ \E r \in Requests : \/ Starts(r) \/ Locking(r) \/ Crash(r)
                                  \/ Assess(r) \/ Distrust(r)
    PROVE  UNCHANGED <<Stage, Figures, Official>>
<1>1. UNCHANGED <<closing, reviews, snapshot>>
    BY DEF Tick, Stamp, Post, Withdraw, Lose, Starts, StartRecord, StartPrepare,
           StartApprove, StartClose, Start, Locking, Vouch, Claim, Fence, Victim, Crash,
           Assess, Distrust
<1> QED  BY <1>1, Stutter

\* The official figures are the figures approved, the figures approved are the last
\* reviewed, and both are final, whatever happens at the same time.
THEOREM ClosingImplementsCertificate == Spec => ImplementsClosingCertificate
<1>1. Init => Certificate!Init
    BY DEF Init, Certificate!Init, Certificate!NoFigures, NoClosing
<1>2. IInv /\ [Next]_vars => [Certificate!Next]_<<Stage, Figures, Official>>
  <2> SUFFICES ASSUME IInv, [Next]_vars
               PROVE  Certificate!Next \/ UNCHANGED <<Stage, Figures, Official>>
      OBVIOUS
  <2>1. CASE UNCHANGED vars
      BY <2>1, Stutter DEF vars
  <2>2. ASSUME NEW r \in Requests, Prepare(r)
        PROVE  Certificate!Next \/ UNCHANGED <<Stage, Figures, Official>>
      BY <2>2, PrepareReviews
         DEF Certificate!Next, Certificate!Review, Certificate!NoFigures, Stage, Figures, Official
  <2>3. ASSUME NEW r \in Requests, Approve(r)
        PROVE  Certificate!Next \/ UNCHANGED <<Stage, Figures, Official>>
      BY <2>3, ApproveApproves DEF Certificate!Next, Certificate!Approve, Stage, Figures, Official
  <2>4. ASSUME NEW r \in Requests, Close(r)
        PROVE  Certificate!Next \/ UNCHANGED <<Stage, Figures, Official>>
      BY <2>4, CloseCloses DEF Certificate!Next, Certificate!Close, Stage, Figures, Official
  <2>5. ASSUME NEW r \in Requests, Attest(r)
        PROVE  UNCHANGED <<Stage, Figures, Official>>
      BY <2>5, AttestStutters
  <2> QED  BY <2>1, <2>2, <2>3, <2>4, <2>5, OthersStutter DEF Next, Deciding
<1> QED  BY <1>1, <1>2, Invariance, PTL
         DEF Spec, ImplementsClosingCertificate, Certificate!Spec, Stage, Figures, Official

=============================================================================
