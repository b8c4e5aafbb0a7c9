---------------------------- MODULE Office_proofs ----------------------------
(***************************************************************************)
(* That the office as it is model-checked keeps what OfficeParts_proofs    *)
(* proves of its parts: DecisionsHold, BackupsHold, LoansHold, PapersHold, *)
(* SumsHold and MonthsHold of MCOffice, for every value of its constants.  *)
(*                                                                         *)
(* MCOffice plays one part per behaviour, in variables that all parts      *)
(* share.  A part of it and the same part of OfficeParts_proofs are two    *)
(* instances of one module, alike once their definitions are expanded: so  *)
(* say the lemmas Same...  With them each part keeps its invariant while   *)
(* it is the one that is played.                                           *)
(***************************************************************************)
EXTENDS MCOffice, FiniteSetTheorems, TLAPS

Parts == INSTANCE OfficeParts_proofs WITH
    Required <- Approvals,
    decision <- v1, governance <- v2, request <- v3, ordered <- v4, done <- v5,
    execution <- v1, effect <- v2, completers <- v4,
    recommendation <- v1, plan <- v2, measurements <- v5, accepted <- v6,
    rows <- v2, disk <- v4, chain <- v5, events <- v6, certificate <- v7, past <- v8,
    envelope <- v1, receipt <- v2, drive <- v3, proc <- v4,
    store <- v1, snapshot <- v3, set <- v4, restored <- v5,
    day <- v1, ledger <- v2, inst <- v3, attempt <- v4, order <- v5, settlement <- v6,
    undone <- v7, reserved <- v8,
    simulation <- v1, loan <- v2, contributed <- v3, position <- v4, cash <- v5, admin <- v6,
    Cutoff <- 3, Never <- 9, Evidence <- Closings, Cash <- {3, 30},
    Destinations <- {"VERIFIED", "UNVERIFIED"}, Clerks <- {1, 2},
    evidence <- v1, figures <- v2, funds <- v3, destination <- v4, payables <- v5, clerk <- v6,
    GainRequests <- {1, 2}, GainNames <- {1, 2, 3}, GainDays <- {1, 2}, GainAmounts <- {5},
    MaxGains <- 3, gained <- v1, named <- v2, claims <- v3,
    month <- v1, units <- v2, participation <- v3, billed <- v4, quota <- v5, entry <- v6,
    Enrolled <- {1}, QuotaRequests <- {1}, EntryRequests <- {1, 2}, Span <- 2, Deadline <- 2,
    Capacity <- 2, Streak <- 2, Horizon <- 3,
    Bills <- {2, 3}, Purposes <- Uses, Lent <- {3}, Costs <- {9}, LastMonth <- 2, MaxEntries <- 3,
    today <- v1, bill <- v2, book <- v3, spent <- v4, shut <- v5

\* What is assumed of the office is what its parts assume.
LEMMA PartsAssumptions == Parts!Assumptions
  BY OfficeAssumption
  DEF Parts!Assumptions, Parts!Decision!Nobody, Parts!Execution!Nobody, Parts!Improvement!Nobody,
      Parts!Certificate!Nobody

\* So it is of the late charges.
LEMMA PartsCharges == Parts!ChargeAssumptions
  BY LateAssumption DEF Parts!ChargeAssumptions, Parts!IsFiniteSet, IsFiniteSet

\* So it is of the loans.
LEMMA PartsLending == Parts!LendingAssumptions
  BY LoansAssumption DEF Parts!LendingAssumptions, Parts!IsFiniteSet, IsFiniteSet

-----------------------------------------------------------------------------
(* The parts of MCOffice are those of OfficeParts_proofs.                   *)

\* The upload of a backup begins in the same states in both.
LEMMA SameUploadInit == Upload!Init => Parts!Upload!Init
  BY DEF
      Upload!Init, Upload!NoReceipt, Upload!Unused, Upload!Idle,
      Parts!Upload!Init, Parts!Upload!NoReceipt, Parts!Upload!Unused, Parts!Upload!Idle

\* The upload of a backup takes the same steps in both.
LEMMA SameUploadNext == Upload!Next => Parts!Upload!Next
  BY Zenon DEF
      Upload!Next, Upload!Start, Upload!Pack, Upload!Fail, Upload!Before, Upload!Open, Upload!Put,
      Upload!Status, Upload!Unknown, Upload!Verify, Upload!After, Upload!Mark, Upload!Claim,
      Upload!Kill, Upload!Expire, Upload!Goto, Upload!At, Upload!Write, Upload!Idle,
      Upload!Matches, Upload!Sole, Upload!Unused, Upload!Verified, Upload!Listed,
      Parts!Upload!Next, Parts!Upload!Start, Parts!Upload!Pack, Parts!Upload!Fail,
      Parts!Upload!Before, Parts!Upload!Open, Parts!Upload!Put, Parts!Upload!Status,
      Parts!Upload!Unknown, Parts!Upload!Verify, Parts!Upload!After, Parts!Upload!Mark,
      Parts!Upload!Claim, Parts!Upload!Kill, Parts!Upload!Expire, Parts!Upload!Goto,
      Parts!Upload!At, Parts!Upload!Write, Parts!Upload!Idle, Parts!Upload!Matches,
      Parts!Upload!Sole, Parts!Upload!Unused, Parts!Upload!Verified, Parts!Upload!Listed

\* What is proved of the upload of a backup there is what is checked of it here.
LEMMA SameUploadClaim == Parts!Upload!ClaimsHold => Upload!ClaimsHold
  BY DEF
      Upload!ClaimsHold, Upload!Complete, Upload!Matches, Upload!Verified, Parts!Upload!ClaimsHold,
      Parts!Upload!Complete, Parts!Upload!Matches, Parts!Upload!Verified

\* A backup with its restore begins in the same states in both.
LEMMA SameBackupInit == Backup!Init => Parts!Backup!Init
  BY DEF
      Backup!Init, Backup!NoFiles, Backup!NoSet, Backup!NoRestore,
      Parts!Backup!Init, Parts!Backup!NoFiles, Parts!Backup!NoSet, Parts!Backup!NoRestore

\* A backup with its restore takes the same steps in both.
LEMMA SameBackupNext == Backup!Next => Parts!Backup!Next
  BY DEF
      Backup!Next, Backup!StoreFile, Backup!CommitRow, Backup!DamageStore, Backup!DamageSet,
      Backup!Export, Backup!ReadRefs, Backup!Dump, Backup!CopyEvidence, Backup!Finish,
      Backup!Abort, Backup!Pack, Backup!Download, Backup!Extract, Backup!RestoreCheck,
      Backup!RestoreFiles, Backup!RestoreDatabase, Backup!DamageRestored, Backup!Validate,
      Backup!DumpedRows, Backup!Pending, Backup!Travel, Backup!SetIsIntact, Backup!Accepted,
      Parts!Backup!Next, Parts!Backup!StoreFile, Parts!Backup!CommitRow, Parts!Backup!DamageStore,
      Parts!Backup!DamageSet, Parts!Backup!Export, Parts!Backup!ReadRefs, Parts!Backup!Dump,
      Parts!Backup!CopyEvidence, Parts!Backup!Finish, Parts!Backup!Abort, Parts!Backup!Pack,
      Parts!Backup!Download, Parts!Backup!Extract, Parts!Backup!RestoreCheck,
      Parts!Backup!RestoreFiles, Parts!Backup!RestoreDatabase, Parts!Backup!DamageRestored,
      Parts!Backup!Validate, Parts!Backup!DumpedRows, Parts!Backup!Pending, Parts!Backup!Travel,
      Parts!Backup!SetIsIntact, Parts!Backup!Accepted

\* What is proved of a backup and its restore there is what is checked of it here.
LEMMA SameBackupClaim == Parts!Backup!RestoreIsSnapshot => Backup!RestoreIsSnapshot
  BY DEF
      Backup!RestoreIsSnapshot, Backup!Pending, Parts!Backup!RestoreIsSnapshot, Parts!Backup!Pending

\* The decision begins in the same states in both.
LEMMA SameDecisionInit == Decision!Init => Parts!Decision!Init
  BY DEF
      Decision!Init, Decision!NoGovernance, Decision!Idle, Decision!Nobody,
      Parts!Decision!Init, Parts!Decision!NoGovernance, Parts!Decision!Idle, Parts!Decision!Nobody

\* The decision takes the same steps in both.
LEMMA SameDecisionNext == Decision!Next => Parts!Decision!Next
  BY Zenon DEF
      Decision!Next, Decision!ReadDecision, Decision!Decide, Decision!ReadSync, Decision!Open,
      Decision!ReadApproval, Decision!Approve, Decision!ReadValidation, Decision!Validate,
      Decision!ReadOrder, Decision!Order, Decision!Abandon, Decision!Loads, Decision!Nobody,
      Decision!Writes, Decision!NoGovernance, Decision!MayApprove, Decision!Changed,
      Decision!MayValidate, Decision!Idle, Decision!Undecided,
      Parts!Decision!Next, Parts!Decision!ReadDecision, Parts!Decision!Decide,
      Parts!Decision!ReadSync, Parts!Decision!Open, Parts!Decision!ReadApproval,
      Parts!Decision!Approve, Parts!Decision!ReadValidation, Parts!Decision!Validate,
      Parts!Decision!ReadOrder, Parts!Decision!Order, Parts!Decision!Abandon, Parts!Decision!Loads,
      Parts!Decision!Nobody, Parts!Decision!Writes, Parts!Decision!NoGovernance,
      Parts!Decision!MayApprove, Parts!Decision!Changed, Parts!Decision!MayValidate,
      Parts!Decision!Idle, Parts!Decision!Undecided

\* What is proved of the decision there is what is checked of it here.
LEMMA SameDecisionClaim == Parts!Decision!OrderedIsEndorsed => Decision!OrderedIsEndorsed
  BY DEF
      Decision!OrderedIsEndorsed, Parts!Decision!OrderedIsEndorsed, Decision!Cardinality,
      Parts!Decision!Cardinality

\* The execution of a decision begins in the same states in both.
LEMMA SameExecutionInit == Execution!Init => Parts!Execution!Init
  BY DEF
      Execution!Init, Execution!Nobody, Execution!NewExecution, Execution!NoEffect, Execution!Idle,
      Parts!Execution!Init, Parts!Execution!Nobody, Parts!Execution!NewExecution,
      Parts!Execution!NoEffect, Parts!Execution!Idle

\* The execution of a decision takes the same steps in both.
LEMMA SameExecutionNext == Execution!Next => Parts!Execution!Next
  BY Zenon DEF
      Execution!Next, Execution!ReadAssign, Execution!Assign, Execution!ReadStart, Execution!Start,
      Execution!ReadComplete, Execution!Complete, Execution!ReadVerify, Execution!Verify,
      Execution!ReadEffect, Execution!OpenEffect, Execution!ReadMeasure, Execution!Measure,
      Execution!ReadReview, Execution!Review, Execution!Abandon, Execution!Unstarted,
      Execution!Loads, Execution!Writes, Execution!Changed, Execution!Nobody, Execution!MayVerify,
      Execution!NoEffect, Execution!Idle, Execution!NewExecution,
      Parts!Execution!Next, Parts!Execution!ReadAssign, Parts!Execution!Assign,
      Parts!Execution!ReadStart, Parts!Execution!Start, Parts!Execution!ReadComplete,
      Parts!Execution!Complete, Parts!Execution!ReadVerify, Parts!Execution!Verify,
      Parts!Execution!ReadEffect, Parts!Execution!OpenEffect, Parts!Execution!ReadMeasure,
      Parts!Execution!Measure, Parts!Execution!ReadReview, Parts!Execution!Review,
      Parts!Execution!Abandon, Parts!Execution!Unstarted, Parts!Execution!Loads,
      Parts!Execution!Writes, Parts!Execution!Changed, Parts!Execution!Nobody,
      Parts!Execution!MayVerify, Parts!Execution!NoEffect, Parts!Execution!Idle,
      Parts!Execution!NewExecution

\* What is proved of the execution of a decision there is what is checked of it here.
LEMMA SameExecutionClaim == Parts!Execution!VerifiedByAnother => Execution!VerifiedByAnother
  BY DEF
      Execution!VerifiedByAnother, Execution!Nobody, Parts!Execution!VerifiedByAnother,
      Parts!Execution!Nobody

\* The plan of an improvement begins in the same states in both.
LEMMA SameImprovementInit == Improvement!Init => Parts!Improvement!Init
  BY DEF
      Improvement!Init, Improvement!Open, Improvement!NoPlan, Improvement!Idle, Improvement!Nobody,
      Parts!Improvement!Init, Parts!Improvement!Open, Parts!Improvement!NoPlan,
      Parts!Improvement!Idle, Parts!Improvement!Nobody

\* The plan of an improvement takes the same steps in both.
LEMMA SameImprovementNext == Improvement!Next => Parts!Improvement!Next
  BY Zenon DEF
      Improvement!Next, Improvement!ReadDecide, Improvement!Decide, Improvement!ReadImplement,
      Improvement!Implement, Improvement!ReadCreate, Improvement!CreatePlan,
      Improvement!ReadAssign, Improvement!Assign, Improvement!ReadDone, Improvement!Done,
      Improvement!ReadMeasure, Improvement!Measure, Improvement!ReadVerify, Improvement!Verify,
      Improvement!ReadAccept, Improvement!Accept, Improvement!ReadOrder, Improvement!Order,
      Improvement!Abandon, Improvement!Loads, Improvement!Writes, Improvement!LoadsPlan,
      Improvement!Changed, Improvement!Nobody, Improvement!MayVerify, Improvement!Keeps,
      Improvement!Idle, Improvement!NoPlan,
      Parts!Improvement!Next, Parts!Improvement!ReadDecide, Parts!Improvement!Decide,
      Parts!Improvement!ReadImplement, Parts!Improvement!Implement, Parts!Improvement!ReadCreate,
      Parts!Improvement!CreatePlan, Parts!Improvement!ReadAssign, Parts!Improvement!Assign,
      Parts!Improvement!ReadDone, Parts!Improvement!Done, Parts!Improvement!ReadMeasure,
      Parts!Improvement!Measure, Parts!Improvement!ReadVerify, Parts!Improvement!Verify,
      Parts!Improvement!ReadAccept, Parts!Improvement!Accept, Parts!Improvement!ReadOrder,
      Parts!Improvement!Order, Parts!Improvement!Abandon, Parts!Improvement!Loads,
      Parts!Improvement!Writes, Parts!Improvement!LoadsPlan, Parts!Improvement!Changed,
      Parts!Improvement!Nobody, Parts!Improvement!MayVerify, Parts!Improvement!Keeps,
      Parts!Improvement!Idle, Parts!Improvement!NoPlan

\* What is proved of the plan of an improvement there is what is checked of it here.
LEMMA SameImprovementClaim == Parts!Improvement!ClosedIsProved => Improvement!ClosedIsProved
  BY DEF
      Improvement!ClosedIsProved, Improvement!Nobody, Parts!Improvement!ClosedIsProved,
      Parts!Improvement!Nobody

\* The certificate of an improvement begins in the same states in both.
LEMMA SameCertificateInit == Certificate!Init => Parts!Certificate!Init
  BY DEF
      Certificate!Init, Certificate!Nobody, Certificate!NoCertificate, Certificate!Idle,
      Parts!Certificate!Init, Parts!Certificate!Nobody, Parts!Certificate!NoCertificate,
      Parts!Certificate!Idle

\* The certificate of an improvement takes the same steps in both.
LEMMA SameCertificateNext == Certificate!Next => Parts!Certificate!Next
  BY Zenon DEF
      Certificate!Next, Certificate!ReadStart, Certificate!ReadComplete, Certificate!SetStatus,
      Certificate!ReadUpload, Certificate!Store, Certificate!Upload, Certificate!ReadInspect,
      Certificate!Check, Certificate!CommitInspect, Certificate!ReadVerify, Certificate!Verify,
      Certificate!ReadCertify, Certificate!Pack, Certificate!Certify, Certificate!Abandon,
      Certificate!Damage, Certificate!Loads, Certificate!At, Certificate!Becomes, Certificate!Idle,
      Certificate!LoadsAll, Certificate!Nobody, Certificate!FilesHold, Certificate!Last,
      Certificate!Recording, Certificate!Own, Certificate!MayCertify, Certificate!Linear,
      Certificate!NoCertificate,
      Parts!Certificate!Next, Parts!Certificate!ReadStart, Parts!Certificate!ReadComplete,
      Parts!Certificate!SetStatus, Parts!Certificate!ReadUpload, Parts!Certificate!Store,
      Parts!Certificate!Upload, Parts!Certificate!ReadInspect, Parts!Certificate!Check,
      Parts!Certificate!CommitInspect, Parts!Certificate!ReadVerify, Parts!Certificate!Verify,
      Parts!Certificate!ReadCertify, Parts!Certificate!Pack, Parts!Certificate!Certify,
      Parts!Certificate!Abandon, Parts!Certificate!Damage, Parts!Certificate!Loads,
      Parts!Certificate!At, Parts!Certificate!Becomes, Parts!Certificate!Idle,
      Parts!Certificate!LoadsAll, Parts!Certificate!Nobody, Parts!Certificate!FilesHold,
      Parts!Certificate!Last, Parts!Certificate!Recording, Parts!Certificate!Own,
      Parts!Certificate!MayCertify, Parts!Certificate!Linear, Parts!Certificate!NoCertificate

\* What is proved of the certificate of an improvement there is what is checked of it here.
LEMMA SameCertificateClaim ==
    Parts!Certificate!CertificateIsSound /\ Parts!Certificate!ChainBreaksByOverlap
    => Certificate!CertificateIsSound /\ Certificate!ChainBreaksByOverlap
  BY DEF
      Certificate!CertificateIsSound, Certificate!NoCertificate, Certificate!Nobody,
      Certificate!ChainBreaksByOverlap, Certificate!Linear, Parts!Certificate!CertificateIsSound,
      Parts!Certificate!NoCertificate, Parts!Certificate!Nobody,
      Parts!Certificate!ChainBreaksByOverlap, Parts!Certificate!Linear

-----------------------------------------------------------------------------
(* The late charges sum, and sums are defined in each: so their operators   *)
(* are shown to be the same one by one, those that sum first.               *)

\* The sums of the late charges are the same in both.
LEMMA SameSums ==
    /\ \A w, S : Late!SumFunctionOnSet(w, S) = Parts!Late!SumFunctionOnSet(w, S)
    /\ \A w : Late!SumFunction(w) = Parts!Late!SumFunction(w)
  BY DEF
      Late!SumFunction, Late!SumFunctionOnSet, Late!FoldFunctionOnSet, Late!MapThenFoldSet,
      Parts!Late!SumFunction, Parts!Late!SumFunctionOnSet, Parts!Late!FoldFunctionOnSet,
      Parts!Late!MapThenFoldSet

\* What is still owed of the principal on a day.
LEMMA SameBase == \A s, u, d : Late!Base(s, u, d) = Parts!Late!Base(s, u, d)
  BY SameSums DEF
      Late!PrincipalPaid, Late!Base, Late!Greatest, Parts!Late!PrincipalPaid, Parts!Late!Base,
      Parts!Late!Greatest

\* The interest that a history of principal asks for.
LEMMA SameInterest == \A s, u, d : Late!InterestOf(s, u, d) = Parts!Late!InterestOf(s, u, d)
  BY SameSums, SameBase DEF
      Late!InterestOf, Parts!Late!InterestOf

\* What a ledger charges for a day, and up to one.
LEMMA SameLedger ==
    /\ \A l, d : Late!Delta(l, d) = Parts!Late!Delta(l, d)
    /\ \A l, d : Late!Materialized(l, d) = Parts!Late!Materialized(l, d)
  BY SameSums DEF
      Late!Delta, Late!Materialized, Parts!Late!Delta, Parts!Late!Materialized

\* A ledger with its fixed penalty.
LEMMA SameFixed == \A l, d : Late!WithFixed(l, d) = Parts!Late!WithFixed(l, d)
  BY SameBase DEF
      Late!WithFixed, Parts!Late!WithFixed

\* The running sum of a ledger that is caught up.
LEMMA SameRunning == \A l, d : Late!Running(l, d) = Parts!Late!Running(l, d)
  BY SameLedger, SameInterest DEF
      Late!Running, Late!Expected, Late!Greatest, Parts!Late!Running, Parts!Late!Expected,
      Parts!Late!Greatest

\* A ledger that cannot be caught up.
LEMMA SameBroken == \A l, d : Late!Broken(l, d) <=> Parts!Late!Broken(l, d)
  BY SameLedger, SameRunning DEF
      Late!Broken, Parts!Late!Broken

\* A ledger that was caught up.
LEMMA SameCaughtUp ==
    \A l, d : Late!CaughtUp(l, d) = Parts!Late!CaughtUp(l, d)
<1>1. ASSUME NEW l, NEW d PROVE Late!WithDaily(l, d) = Parts!Late!WithDaily(l, d)
  <2> DEFINE run == Late!Running(l, d)
  <2>1. run = Parts!Late!Running(l, d)
    BY SameRunning
  <2>2. /\ \A k : Late!Delta(l, k) = Parts!Late!Delta(l, k)
        /\ Late!Days = Parts!Late!Days
        /\ Late!Greatest(Due, l.cursor) = Parts!Late!Greatest(Due, l.cursor)
        /\ Late!Greatest(l.cursor, d) = Parts!Late!Greatest(l.cursor, d)
    BY SameLedger DEF Late!Days, Parts!Late!Days, Late!Greatest, Parts!Late!Greatest
  <2> QED BY <2>1, <2>2, Zenon DEF Late!WithDaily, Parts!Late!WithDaily
<1> QED BY <1>1, SameFixed DEF Late!CaughtUp, Parts!Late!CaughtUp

\* What receipts amount to.
LEMMA SameReceived ==
    /\ \A attempts, p : Late!AppliedOf(attempts, p) = Parts!Late!AppliedOf(attempts, p)
    /\ \A d, p : Late!Received(d, p) = Parts!Late!Received(d, p)
  BY SameSums DEF
      Late!AppliedOf, Late!Received, Late!Active, Late!Settled, Parts!Late!AppliedOf,
      Parts!Late!Received, Parts!Late!Active, Parts!Late!Settled

\* What is owed, and what pays the loan off.
LEMMA SameObligation ==
    /\ \A l, d : Late!Obligation(l, d) = Parts!Late!Obligation(l, d)
    /\ \A d : Late!Payoff(d) = Parts!Late!Payoff(d)
  BY SameReceived, SameLedger DEF
      Late!Obligation, Late!Payoff, Late!Dues, Late!Nothing, Late!Greatest,
      Parts!Late!Obligation, Parts!Late!Payoff, Parts!Late!Dues, Parts!Late!Nothing,
      Parts!Late!Greatest

\* Reserve is the same step in both.
LEMMA SameReserve == Late!Reserve => Parts!Late!Reserve
  BY SameBroken, SameObligation, SameCaughtUp DEF
      Late!Reserve, Late!MayReserve, Late!Pending, Late!Unused, Late!NextId, Late!Current,
      Late!Idle, Late!Inserted, Late!Total, Late!Dues, Parts!Late!Reserve, Parts!Late!MayReserve,
      Parts!Late!Pending, Parts!Late!Unused, Parts!Late!NextId, Parts!Late!Current,
      Parts!Late!Idle, Parts!Late!Inserted, Parts!Late!Total, Parts!Late!Dues

\* Retire is the same step in both.
LEMMA SameRetire == Late!Retire => Parts!Late!Retire
  BY SameBroken, SameObligation, SameCaughtUp DEF
      Late!Retire, Late!MayReserve, Late!Pending, Late!Unused, Late!Current, Late!Idle,
      Late!Reusable, Late!Retired, Late!Total, Parts!Late!Retire, Parts!Late!MayReserve,
      Parts!Late!Pending, Parts!Late!Unused, Parts!Late!Current, Parts!Late!Idle,
      Parts!Late!Reusable, Parts!Late!Retired, Parts!Late!Total

\* Insert is the same step in both.
LEMMA SameInsert == Late!Insert => Parts!Late!Insert
  BY DEF
      Late!Insert, Late!Unused, Late!NextId, Late!Idle, Late!Inserted, Late!Nothing, Late!Dues,
      Parts!Late!Insert, Parts!Late!Unused, Parts!Late!NextId, Parts!Late!Idle,
      Parts!Late!Inserted, Parts!Late!Nothing, Parts!Late!Dues

\* Pay is the same step in both.
LEMMA SamePay == Late!Pay => Parts!Late!Pay
  BY DEF
      Late!Pay, Late!NoOrder, Late!Idle, Late!Total, Parts!Late!Pay, Parts!Late!NoOrder,
      Parts!Late!Idle, Parts!Late!Total

\* Stale is the same step in both.
LEMMA SameStale == Late!Stale => Parts!Late!Stale
  BY DEF
      Late!Stale, Late!Announced, Late!IsStale, Late!Expired, Late!Tell, Late!Idle,
      Parts!Late!Stale, Parts!Late!Announced, Parts!Late!IsStale, Parts!Late!Expired,
      Parts!Late!Tell, Parts!Late!Idle

\* Mismatch is the same step in both.
LEMMA SameMismatch == Late!Mismatch => Parts!Late!Mismatch
  BY SameBroken, SameObligation, SameCaughtUp DEF
      Late!Mismatch, Late!Announced, Late!IsStale, Late!Expired, Late!Tell, Late!Idle,
      Late!Agrees, Late!Found, Parts!Late!Mismatch, Parts!Late!Announced, Parts!Late!IsStale,
      Parts!Late!Expired, Parts!Late!Tell, Parts!Late!Idle, Parts!Late!Agrees, Parts!Late!Found

\* Amounts are counted and divided in the same way in both.
LEMMA SameAmounts ==
    /\ \A p : Late!Total(p) = Parts!Late!Total(p)
    /\ \A x, y : Late!Least(x, y) = Parts!Late!Least(x, y)
    /\ \A due, amount : Late!Allocated(due, amount) = Parts!Late!Allocated(due, amount)
    /\ \A p, q, sign : Late!Plus(p, q, sign) = Parts!Late!Plus(p, q, sign)
    /\ \A due, applied, on : Late!StatusAfter(due, applied, on) = Parts!Late!StatusAfter(due, applied, on)
    /\ \A l, cause, on, sign, now, expected :
          Late!Adjusted(l, cause, on, sign, now, expected)
          = Parts!Late!Adjusted(l, cause, on, sign, now, expected)
<1>1. \A p : Late!Total(p) = Parts!Late!Total(p)
  BY DEF Late!Total, Parts!Late!Total
<1>2. \A x, y : Late!Least(x, y) = Parts!Late!Least(x, y)
  BY DEF Late!Least, Parts!Late!Least
<1>3. \A due, amount : Late!Allocated(due, amount) = Parts!Late!Allocated(due, amount)
  BY <1>2 DEF Late!Allocated, Parts!Late!Allocated, Late!Dues, Parts!Late!Dues
<1>4. \A p, q, sign : Late!Plus(p, q, sign) = Parts!Late!Plus(p, q, sign)
  BY DEF Late!Plus, Parts!Late!Plus, Late!Dues, Parts!Late!Dues
<1>5. \A due, applied, on : Late!StatusAfter(due, applied, on) = Parts!Late!StatusAfter(due, applied, on)
  BY <1>1 DEF Late!StatusAfter, Parts!Late!StatusAfter
<1>6. \A l, cause, on, sign, now, expected :
          Late!Adjusted(l, cause, on, sign, now, expected)
          = Parts!Late!Adjusted(l, cause, on, sign, now, expected)
  BY DEF Late!Adjusted, Parts!Late!Adjusted, Late!Adjustment, Parts!Late!Adjustment,
      Late!Greatest, Parts!Late!Greatest
<1> QED BY <1>1, <1>2, <1>3, <1>4, <1>5, <1>6

\* Settle is the same step in both.
LEMMA SameSettle ==
    Late!Settle => Parts!Late!Settle
<1>1. \A a : /\ Late!Found(a) = Parts!Late!Found(a)
             /\ Late!Announced(a) = Parts!Late!Announced(a) /\ Late!IsStale(a) = Parts!Late!IsStale(a)
             /\ Late!Tell(a) = Parts!Late!Tell(a)
  BY SameCaughtUp
  DEF Late!Found, Parts!Late!Found, Late!Announced, Parts!Late!Announced, Late!Idle, Parts!Late!Idle,
      Late!IsStale, Parts!Late!IsStale, Late!Expired, Parts!Late!Expired, Late!Tell, Parts!Late!Tell
<1>2. \A a : Late!Agrees(a) = Parts!Late!Agrees(a)
  BY <1>1, SameObligation DEF Late!Agrees, Parts!Late!Agrees
<1> QED BY <1>1, <1>2, SameAmounts, SameBroken, SameObligation, SameLedger, SameInterest
  DEF Late!Settle, Parts!Late!Settle

\* Reverse is the same step in both.
LEMMA SameReverse == Late!Reverse => Parts!Late!Reverse
  BY SameLedger, SameInterest DEF
      Late!Reverse, Late!Settled, Late!Intact, Late!Plus, Late!Dues, Late!Adjusted,
      Late!Adjustment, Late!Greatest, Parts!Late!Reverse, Parts!Late!Settled, Parts!Late!Intact,
      Parts!Late!Plus, Parts!Late!Dues, Parts!Late!Adjusted, Parts!Late!Adjustment,
      Parts!Late!Greatest

\* Tick is the same step in both.
LEMMA SameTick == Late!Tick => Parts!Late!Tick
  BY DEF
      Late!Tick, Parts!Late!Tick

\* The late charges take the same steps in both.
LEMMA SameLateNext == Late!Next => Parts!Late!Next
  BY SameReserve, SameRetire, SameInsert, SamePay, SameStale, SameMismatch, SameSettle, SameReverse, SameTick DEF Late!Next, Parts!Late!Next

\* The late charges begin in the same states in both.
LEMMA SameLateInit == Late!Init => Parts!Late!Init
  BY DEF
      Late!Init, Late!NoCharges, Late!Days, Late!Nothing, Late!Dues, Late!NoAttempt,
      Late!NoOrder, Late!NoSettlement, Parts!Late!Init, Parts!Late!NoCharges, Parts!Late!Days,
      Parts!Late!Nothing, Parts!Late!Dues, Parts!Late!NoAttempt, Parts!Late!NoOrder,
      Parts!Late!NoSettlement

\* What is proved of the late charges there is what is checked of them here.
LEMMA SameLateClaim == Parts!Late!ChargesAreTrue => Late!ChargesAreTrue
  BY SameLedger, SameInterest, SameReceived, SameObligation DEF
      Late!ChargesAreTrue, Late!MatchesHistory, Late!PaidWithinAssessed, Late!PaidIsReceived,
      Late!PayoffIsOwed, Late!Expected, Late!Settled, Late!Total, Parts!Late!ChargesAreTrue,
      Parts!Late!MatchesHistory, Parts!Late!PaidWithinAssessed, Parts!Late!PaidIsReceived,
      Parts!Late!PayoffIsOwed, Parts!Late!Expected, Parts!Late!Settled, Parts!Late!Total

\* The sums and counts of the loans are the same.
LEMMA SameLoanSums ==
    /\ \A S : Lending!TotalOf(S) = Parts!Lending!TotalOf(S)
    /\ \A S : Lending!Cardinality(S) = Parts!Lending!Cardinality(S)
<1>1. \A w : Lending!SumFunction(w) = Parts!Lending!SumFunction(w)
  BY DEF
      Lending!SumFunction, Lending!SumFunctionOnSet, Lending!FoldFunctionOnSet,
      Lending!MapThenFoldSet, Parts!Lending!SumFunction, Parts!Lending!SumFunctionOnSet,
      Parts!Lending!FoldFunctionOnSet, Parts!Lending!MapThenFoldSet
<1>2. \A S : Lending!Cardinality(S) = Parts!Lending!Cardinality(S)
  BY DEF Lending!Cardinality, Parts!Lending!Cardinality
<1> QED BY <1>1, <1>2 DEF Lending!TotalOf, Parts!Lending!TotalOf

\* The loans begin in the same states in both.
LEMMA SameLendingInit == Lending!Init => Parts!Lending!Init
  BY DEF
      Lending!Init, Lending!NoLoan, Lending!Idle, Parts!Lending!Init, Parts!Lending!NoLoan,
      Parts!Lending!Idle

\* The loans take the same steps in both.
LEMMA SameLendingNext == Lending!Next => Parts!Lending!Next
  BY SameLoanSums, Zenon DEF
      Lending!Next, Lending!Contribute, Lending!ReverseContribution, Lending!Simulate,
      Lending!Confirm, Lending!Expire, Lending!Request, Lending!Reject, Lending!Approve,
      Lending!Schedule, Lending!Refuse, Lending!Release, Lending!Evaluate, Lending!Disburse,
      Lending!NotReleasable, Lending!Redo, Lending!Repay, Lending!ReverseRepayment,
      Lending!Moved, Lending!Of, Lending!Greatest, Lending!Available, Lending!With,
      Lending!OfMember, Lending!Eligibility, Lending!Outstanding, Lending!At, Lending!Idle,
      Lending!PolicyPasses, Lending!RiskPasses, Lending!Fresh, Parts!Lending!Next,
      Parts!Lending!Contribute, Parts!Lending!ReverseContribution, Parts!Lending!Simulate,
      Parts!Lending!Confirm, Parts!Lending!Expire, Parts!Lending!Request, Parts!Lending!Reject,
      Parts!Lending!Approve, Parts!Lending!Schedule, Parts!Lending!Refuse, Parts!Lending!Release,
      Parts!Lending!Evaluate, Parts!Lending!Disburse, Parts!Lending!NotReleasable,
      Parts!Lending!Redo, Parts!Lending!Repay, Parts!Lending!ReverseRepayment,
      Parts!Lending!Moved, Parts!Lending!Of, Parts!Lending!Greatest, Parts!Lending!Available,
      Parts!Lending!With, Parts!Lending!OfMember, Parts!Lending!Eligibility,
      Parts!Lending!Outstanding, Parts!Lending!At, Parts!Lending!Idle,
      Parts!Lending!PolicyPasses, Parts!Lending!RiskPasses, Parts!Lending!Fresh

\* What is proved of the loans there is what is checked of them here.
LEMMA SameLendingClaim == Parts!Lending!LentOnce => Lending!LentOnce
  BY SameLoanSums DEF
      Lending!LentOnce, Lending!Lent, Lending!Repaid, Lending!OfMember, Lending!Of,
      Parts!Lending!LentOnce, Parts!Lending!Lent, Parts!Lending!Repaid, Parts!Lending!OfMember,
      Parts!Lending!Of

-----------------------------------------------------------------------------
(* The papers, from the sums up.                                            *)

\* The sums and the cardinalities of the papers are the same in both.
LEMMA SamePaperSums ==
    /\ \A w, S : Papers!SumFunctionOnSet(w, S) = Parts!Papers!SumFunctionOnSet(w, S)
    /\ \A w : Papers!SumFunction(w) = Parts!Papers!SumFunction(w)
    /\ \A S : Papers!Cardinality(S) = Parts!Papers!Cardinality(S)
<1>1. \A S : Papers!Cardinality(S) = Parts!Papers!Cardinality(S)
  BY DEF Papers!Cardinality, Parts!Papers!Cardinality
<1>2. /\ \A w, S : Papers!SumFunctionOnSet(w, S) = Parts!Papers!SumFunctionOnSet(w, S)
      /\ \A w : Papers!SumFunction(w) = Parts!Papers!SumFunction(w)
  BY DEF
      Papers!SumFunction, Papers!SumFunctionOnSet, Papers!FoldFunctionOnSet,
      Papers!MapThenFoldSet, Parts!Papers!SumFunction, Parts!Papers!SumFunctionOnSet,
      Parts!Papers!FoldFunctionOnSet, Parts!Papers!MapThenFoldSet
<1> QED BY <1>1, <1>2

\* Who is blocked at the cutoff, and what counts of a contribution.
LEMMA SameCounted ==
    /\ \A p : Papers!EffectiveStatus(p) = Parts!Papers!EffectiveStatus(p)
    /\ \A p : Papers!IsBlocked(p) <=> Parts!Papers!IsBlocked(p)
    /\ \A p, c : Papers!Included(p, c) = Parts!Papers!Included(p, c)
  BY DEF
      Papers!EffectiveStatus, Papers!IsBlocked, Papers!Included, Papers!Limit, Papers!Least,
      Parts!Papers!EffectiveStatus, Parts!Papers!IsBlocked, Parts!Papers!Included,
      Parts!Papers!Limit, Parts!Papers!Least

\* What a contribution received.
LEMMA SameNet == \A p, c : Papers!Net(p, c) = Parts!Papers!Net(p, c)
  BY SamePaperSums, SameCounted DEF Papers!Net, Parts!Papers!Net

\* What it counts and gives back, and whether its rows say so.
LEMMA SameContribution ==
    /\ \A p, c : Papers!RateioBase(p, c) = Parts!Papers!RateioBase(p, c)
    /\ \A p, c : Papers!Refundable(p, c) = Parts!Papers!Refundable(p, c)
    /\ \A p, c : Papers!ContributionRefusals(p, c) = Parts!Papers!ContributionRefusals(p, c)
<1>1. \A p, c : Papers!FullyPaid(p, c) <=> Parts!Papers!FullyPaid(p, c)
  BY SameNet DEF Papers!FullyPaid, Parts!Papers!FullyPaid
<1>2. \A p, c : Papers!StatusAgrees(p, c) <=> Parts!Papers!StatusAgrees(p, c)
  BY <1>1, SameCounted DEF Papers!StatusAgrees, Parts!Papers!StatusAgrees
<1>3. \A p, c : Papers!ReversalsHaveSource(p, c) <=> Parts!Papers!ReversalsHaveSource(p, c)
  BY DEF Papers!ReversalsHaveSource, Parts!Papers!ReversalsHaveSource
<1>4. /\ \A p, c : Papers!RateioBase(p, c) = Parts!Papers!RateioBase(p, c)
      /\ \A p, c : Papers!Refundable(p, c) = Parts!Papers!Refundable(p, c)
  BY <1>1, SameNet, SameCounted DEF
      Papers!RateioBase, Papers!Refundable, Parts!Papers!RateioBase, Parts!Papers!Refundable
<1>5. \A p, c : Papers!ContributionRefusals(p, c) = Parts!Papers!ContributionRefusals(p, c)
  BY <1>2, <1>3, SameNet DEF Papers!ContributionRefusals, Parts!Papers!ContributionRefusals
<1> QED BY <1>4, <1>5

\* The result and its fee.
LEMMA SameResult ==
    /\ \A gains : Papers!Gross(gains) = Parts!Papers!Gross(gains)
    /\ \A gross : Papers!Fee(gross) = Parts!Papers!Fee(gross)
    /\ \A d : Papers!Distributable(d) = Parts!Papers!Distributable(d)
<1>1. \A gains : Papers!Gross(gains) = Parts!Papers!Gross(gains)
  BY SamePaperSums DEF
      Papers!Gross, Papers!ResultKinds, Parts!Papers!Gross, Parts!Papers!ResultKinds
<1>2. \A gross : Papers!Fee(gross) = Parts!Papers!Fee(gross)
  BY DEF Papers!Fee, Parts!Papers!Fee
<1> QED BY <1>1, <1>2 DEF Papers!Distributable, Parts!Papers!Distributable

\* How an amount is divided.
LEMMA SameShare ==
    /\ \A base : Papers!Total(base) = Parts!Papers!Total(base)
    /\ \A total, base, m : Papers!Share(total, base, m) = Parts!Papers!Share(total, base, m)
<1>1. \A base : Papers!Total(base) = Parts!Papers!Total(base)
  BY SamePaperSums DEF Papers!Total, Parts!Papers!Total
<1>2. /\ \A total, base, m : Papers!Floor(total, base, m) = Parts!Papers!Floor(total, base, m)
      /\ \A total, base, m : Papers!Remainder(total, base, m) = Parts!Papers!Remainder(total, base, m)
  BY <1>1 DEF Papers!Floor, Papers!Remainder, Parts!Papers!Floor, Parts!Papers!Remainder
<1>3. \A total, base, m : Papers!Before(total, base, m) = Parts!Papers!Before(total, base, m)
  BY <1>2 DEF Papers!Before, Parts!Papers!Before
<1>4. \A total, base : Papers!Residual(total, base) = Parts!Papers!Residual(total, base)
  BY <1>2, SamePaperSums DEF Papers!Residual, Parts!Papers!Residual
<1>5. \A total, base, m : Papers!Share(total, base, m) = Parts!Papers!Share(total, base, m)
  BY <1>1, <1>2, <1>3, <1>4, SamePaperSums DEF Papers!Share, Parts!Papers!Share
<1> QED BY <1>1, <1>5

\* What a participation has, and what it owes.
LEMMA SameParticipation ==
    /\ \A d, m : Papers!SumOf(d, Papers!RateioBase, m) = Parts!Papers!SumOf(d, Parts!Papers!RateioBase, m)
    /\ \A d, m : Papers!SumOf(d, Papers!Refundable, m) = Parts!Papers!SumOf(d, Parts!Papers!Refundable, m)
    /\ \A d, m : Papers!Compensable(d, m) = Parts!Papers!Compensable(d, m)
    /\ \A d, m : Papers!Owed(d, m) = Parts!Papers!Owed(d, m)
<1>1. /\ \A d, m : Papers!SumOf(d, Papers!RateioBase, m) = Parts!Papers!SumOf(d, Parts!Papers!RateioBase, m)
      /\ \A d, m : Papers!SumOf(d, Papers!Refundable, m) = Parts!Papers!SumOf(d, Parts!Papers!Refundable, m)
  BY SameContribution, SamePaperSums DEF
      Papers!SumOf, Papers!ContributionsOf, Parts!Papers!SumOf, Parts!Papers!ContributionsOf
<1>2. \A d, m : Papers!Compensable(d, m) = Parts!Papers!Compensable(d, m)
  BY SameCounted DEF Papers!Compensable, Parts!Papers!Compensable
<1>3. \A d, m : Papers!Owed(d, m) = Parts!Papers!Owed(d, m)
  BY <1>2, SamePaperSums DEF Papers!Owed, Parts!Papers!Owed
<1> QED BY <1>1, <1>2, <1>3

\* The bases, and why a calculation is refused.
LEMMA SameRefusals ==
    /\ \A d : Papers!Bases(d) = Parts!Papers!Bases(d)
    /\ \A d : Papers!Refusals(d) = Parts!Papers!Refusals(d)
<1>1. \A d : Papers!Bases(d) = Parts!Papers!Bases(d)
  BY SameParticipation, SameCounted DEF Papers!Bases, Parts!Papers!Bases
<1>2. \A d : Papers!Refusals(d) = Parts!Papers!Refusals(d)
  BY <1>1, SameContribution, SameResult, SameShare DEF Papers!Refusals, Parts!Papers!Refusals
<1> QED BY <1>1, <1>2

\* The figures.
LEMMA SameFigures == \A d : Papers!Figures(d) = Parts!Papers!Figures(d)
<1>1. \A d, m : Papers!Line(d, m) = Parts!Papers!Line(d, m)
  BY SameParticipation, SameRefusals, SameResult, SameShare, SameCounted DEF
      Papers!Line, Papers!Least, Papers!Greatest, Parts!Papers!Line, Parts!Papers!Least,
      Parts!Papers!Greatest
<1> QED BY <1>1, SameResult DEF Papers!Figures, Parts!Papers!Figures

\* What the snapshot comes to.
LEMMA SameSnapshot ==
    /\ Papers!People = Parts!Papers!People /\ Papers!Lines = Parts!Papers!Lines
    /\ \A figure : Papers!SumLines(figure) = Parts!Papers!SumLines(figure)
    /\ Papers!Required = Parts!Papers!Required /\ Papers!Liability = Parts!Papers!Liability
    /\ Papers!Expected = Parts!Papers!Expected
    /\ \A obligations : Papers!AmountOf(obligations) = Parts!Papers!AmountOf(obligations)
    /\ Papers!SnapshotVerifies <=> Parts!Papers!SnapshotVerifies
<1>1. Papers!People = Parts!Papers!People /\ Papers!Lines = Parts!Papers!Lines
  BY DEF Papers!People, Papers!Lines, Parts!Papers!People, Parts!Papers!Lines
<1>2. \A figure : Papers!SumLines(figure) = Parts!Papers!SumLines(figure)
  BY <1>1, SamePaperSums DEF Papers!SumLines, Parts!Papers!SumLines
<1>3. Papers!Liability = Parts!Papers!Liability /\ Papers!Required = Parts!Papers!Required
  BY <1>2 DEF Papers!Liability, Papers!Required, Parts!Papers!Liability, Parts!Papers!Required
<1>4. Papers!Expected = Parts!Papers!Expected
  BY <1>1 DEF Papers!Expected, Parts!Papers!Expected
<1>5. \A obligations : Papers!AmountOf(obligations) = Parts!Papers!AmountOf(obligations)
  BY SamePaperSums DEF Papers!AmountOf, Parts!Papers!AmountOf
<1>6. Papers!CountedGains = Parts!Papers!CountedGains
  BY DEF
      Papers!CountedGains, Papers!ResultKinds, Parts!Papers!CountedGains,
      Parts!Papers!ResultKinds
<1>7. Papers!SnapshotVerifies <=> Parts!Papers!SnapshotVerifies
  BY <1>2, <1>6, SamePaperSums, SameResult DEF
      Papers!SnapshotVerifies, Parts!Papers!SnapshotVerifies
<1> QED BY <1>1, <1>2, <1>3, <1>4, <1>5, <1>7

\* The papers begin in the same states in both.
LEMMA SamePapersInit == Papers!Init => Parts!Papers!Init
  BY SameRefusals, SameFigures, SameSnapshot DEF Papers!Init, Parts!Papers!Init

\* The papers take the same steps in both.
LEMMA SamePapersNext == Papers!Next => Parts!Papers!Next
<1>1. Papers!Unlocked <=> Parts!Papers!Unlocked
  BY DEF Papers!Unlocked, Parts!Papers!Unlocked
<1>2. \A r \in {1, 2} : Papers!Lock(r) => Parts!Papers!Lock(r)
  BY <1>1 DEF Papers!Lock, Parts!Papers!Lock
<1>3. \A r \in {1, 2} : Papers!Materialize(r) => Parts!Papers!Materialize(r)
  BY SameSnapshot DEF Papers!Materialize, Parts!Papers!Materialize
<1>4. \A r \in {1, 2} : Papers!Commit(r) => Parts!Papers!Commit(r)
  BY SameSnapshot DEF Papers!Commit, Parts!Papers!Commit
<1>5. \A r \in {1, 2} : Papers!Abandon(r) => Parts!Papers!Abandon(r)
  BY DEF Papers!Abandon, Parts!Papers!Abandon
<1>6. Papers!Redirect => Parts!Papers!Redirect
  BY SameSnapshot DEF Papers!Redirect, Parts!Papers!Redirect
<1> QED BY <1>2, <1>3, <1>4, <1>5, <1>6 DEF Papers!Next, Parts!Papers!Next

\* What is proved of the papers there is what is checked of them here.
LEMMA SamePapersClaim == Parts!Papers!PapersAgree => Papers!PapersAgree
<1>1. \A m : Papers!LineIsConsistent(m) <=> Parts!Papers!LineIsConsistent(m)
  BY SameSnapshot, SameParticipation, SamePaperSums DEF
      Papers!LineIsConsistent, Papers!Least, Papers!Greatest, Parts!Papers!LineIsConsistent,
      Parts!Papers!Least, Parts!Papers!Greatest
<1>2. Papers!StatementRefusals = Parts!Papers!StatementRefusals
  BY <1>1, SameSnapshot DEF
      Papers!StatementRefusals, Papers!TraceIsSigned, Parts!Papers!StatementRefusals,
      Parts!Papers!TraceIsSigned
<1>3. Papers!FinancialReasons = Parts!Papers!FinancialReasons
  BY SameSnapshot DEF Papers!FinancialReasons, Parts!Papers!FinancialReasons
<1>4. Papers!RowsVerify <=> Parts!Papers!RowsVerify
  BY SameSnapshot DEF Papers!RowsVerify, Parts!Papers!RowsVerify
<1>5. Papers!Reasons = Parts!Papers!Reasons
  BY <1>3, <1>4 DEF
      Papers!Reasons, Papers!PayoutReasons, Papers!Blocked, Parts!Papers!Reasons,
      Parts!Papers!PayoutReasons, Parts!Papers!Blocked
<1> QED BY <1>2, <1>5, SameSnapshot, SamePaperSums DEF
    Papers!PapersAgree, Parts!Papers!PapersAgree

\* A cycle of the office is closed on evidence of the kind that is proved about.
LEMMA PartsPapers == Parts!PaperAssumptions
<1>1. {3, 30} \subseteq Int
  OBVIOUS
<1> DEFINE
      M == [{1, 2} -> {Person("ACTIVE", 9), Person("BLOCKED_DELINQUENCY", 1), Person("VOLUNTARILY_EXITED", 2)}]
      A == {{Receipt(0, 2, 9)}, {Receipt(0, 1, 9)}, {Receipt(0, 2, 3)}}
      B == {{}, {Receipt(0, 2, 9)}}
      G == {{}, {Gain(1, "INTEREST", 7, 0)}, {Gain(1, "INTEREST", 7, 0), Gain(2, "INTEREST", -7, 1)},
            {Gain(1, "PENALTY", 8, 0), Gain(3, "INTEREST", 3, 1)},
            {Gain(1, "LOAN_PRINCIPAL", 5, 0), Gain(2, "INTEREST", 1, 0)}}
      O == {{}, {Debt(1, "LOAN_INSTALLMENT", 3, 1), Debt(2, "CONTRIBUTION_PRINCIPAL", 1, 0)}}
      S == {{}, {1}}
      Few(X) == \E x, y : X = {} \/ X = {x} \/ X = {x, y}
<1>2. Closings = {[members |-> m, contributions |-> {Contribution(1, a), Contribution(2, b)}, gains |-> g,
                   obligations |-> o, superseded |-> s] :
                      m \in M, a \in A, b \in B, g \in G, o \in O, s \in S}
  BY DEF Closings
<1>3. \A X : Few(X) => IsFiniteSet(X)
  <2>1. SUFFICES ASSUME NEW x, NEW y PROVE IsFiniteSet({}) /\ IsFiniteSet({x}) /\ IsFiniteSet({x, y})
    OBVIOUS
  <2>2. IsFiniteSet({}) /\ IsFiniteSet({x}) /\ IsFiniteSet({y})
    BY FS_EmptySet, FS_Singleton
  <2>3. IsFiniteSet({x} \cup {y})
    BY <2>2, FS_Union
  <2>4. {x, y} = {x} \cup {y}
    OBVIOUS
  <2> QED BY <2>2, <2>3, <2>4
<1>4. \A X \in A \cup B : Few(X) /\ \A x \in X : x.amount \in Nat
  BY DEF Receipt
<1>5. \A X \in G : \A x \in X : x.amount \in Int
  BY DEF Gain
<1>6. \A X \in O : \A x \in X : x.amount \in Nat
  BY DEF Debt
<1>7. \A X \in G : Few(X)
  OBVIOUS
<1>8. \A X \in O : Few(X)
  OBVIOUS
<1>9. \A m \in M : DOMAIN m = {1, 2}
  OBVIOUS
<1>10. Few({1, 2}) /\ \A x, y : Few({x, y})
  OBVIOUS
<1> HIDE DEF M, A, B, G, O, S, Few
<1>11. ASSUME NEW d \in Closings PROVE Parts!IsEvidence(d)
  <2>1. PICK m \in M, a \in A, b \in B, g \in G, o \in O, s \in S :
             d = [members |-> m, contributions |-> {Contribution(1, a), Contribution(2, b)}, gains |-> g,
                  obligations |-> o, superseded |-> s]
    BY <1>2
  <2>2. d.members = m /\ d.contributions = {Contribution(1, a), Contribution(2, b)} /\ d.gains = g /\ d.obligations = o
    BY <2>1
  <2>3. \A X : Parts!IsFiniteSet(X) <=> IsFiniteSet(X)
    BY DEF Parts!IsFiniteSet, IsFiniteSet
  <2>4. /\ IsFiniteSet(a) /\ IsFiniteSet(b) /\ IsFiniteSet(g) /\ IsFiniteSet(o)
        /\ IsFiniteSet({1, 2}) /\ IsFiniteSet(d.contributions)
    BY <1>3, <1>4, <1>7, <1>8, <1>10, <2>2
  <2>5. \A c \in d.contributions :
            /\ c.member \in {1, 2} /\ c.amount \in Nat
            /\ IsFiniteSet(c.receipts) /\ \A x \in c.receipts : x.amount \in Nat
    <3>1. /\ Contribution(1, a).member = 1 /\ Contribution(1, a).amount = 2 /\ Contribution(1, a).receipts = a
          /\ Contribution(2, b).member = 2 /\ Contribution(2, b).amount = 2 /\ Contribution(2, b).receipts = b
      BY DEF Contribution
    <3> QED BY <1>4, <2>2, <2>4, <3>1
  <2>6. DOMAIN d.members = {1, 2} /\ {1, 2} \subseteq Int
    BY <1>9, <2>2
  <2>7. (\A x \in d.gains : x.amount \in Int) /\ \A x \in d.obligations : x.amount \in Nat
    BY <1>5, <1>6, <2>2
  <2> QED BY <2>2, <2>3, <2>4, <2>5, <2>6, <2>7 DEF Parts!IsEvidence
<1> QED BY <1>1, <1>11 DEF Parts!PaperAssumptions

\* The sums of the gains are the same.
LEMMA SameGainSums == \A w : Gains!SumFunction(w) = Parts!Gains!SumFunction(w)
  BY DEF
      Gains!SumFunction, Gains!SumFunctionOnSet, Gains!FoldFunctionOnSet, Gains!MapThenFoldSet,
      Parts!Gains!SumFunction, Parts!Gains!SumFunctionOnSet, Parts!Gains!FoldFunctionOnSet,
      Parts!Gains!MapThenFoldSet

\* The gains begin in the same states in both.
LEMMA SameGainsInit == Gains!Init => Parts!Gains!Init
  BY DEF Gains!Init, Gains!Nothing, Parts!Gains!Init, Parts!Gains!Nothing

\* The gains take the same steps in both.
LEMMA SameGainsNext == Gains!Next => Parts!Gains!Next
<1>1. Gains!Settle => Parts!Gains!Settle
  BY DEF Gains!Settle, Parts!Gains!Settle
<1>2. \A r \in {1, 2} : Gains!Record(r) => Parts!Gains!Record(r)
  BY DEF
      Gains!Record, Gains!Prepared, Gains!Unclaimed, Gains!Nothing, Parts!Gains!Record,
      Parts!Gains!Prepared, Parts!Gains!Unclaimed, Parts!Gains!Nothing
<1>3. \A r \in {1, 2} : Gains!Reverse(r) => Parts!Gains!Reverse(r)
  BY DEF
      Gains!Reverse, Gains!Reversible, Gains!Prepared, Gains!Unclaimed, Gains!Nothing,
      Parts!Gains!Reverse, Parts!Gains!Reversible, Parts!Gains!Prepared, Parts!Gains!Unclaimed,
      Parts!Gains!Nothing
<1>4. \A r \in {1, 2} : Gains!Insert(r) => Parts!Gains!Insert(r)
  <2>1. \A S : Gains!Cardinality(S) = Parts!Gains!Cardinality(S)
    BY DEF Gains!Cardinality, Parts!Gains!Cardinality
  <2>2. \A g : Gains!Accepted(g) <=> Parts!Gains!Accepted(g)
    BY DEF Gains!Accepted, Parts!Gains!Accepted
  <2> QED BY <2>1, <2>2 DEF
      Gains!Insert, Gains!Prepared, Gains!Nothing, Parts!Gains!Insert, Parts!Gains!Prepared,
      Parts!Gains!Nothing
<1>5. \A r \in {1, 2} : Gains!Drop(r) => Parts!Gains!Drop(r)
  BY DEF
      Gains!Drop, Gains!Prepared, Gains!Nothing, Parts!Gains!Drop, Parts!Gains!Prepared,
      Parts!Gains!Nothing
<1> QED BY <1>1, <1>2, <1>3, <1>4, <1>5 DEF Gains!Next, Parts!Gains!Next

\* What is proved of the gains there is what is checked of them here.
LEMMA SameGainsClaim == Parts!Gains!GainCountsOnceOrNot => Gains!GainCountsOnceOrNot
<1>1. \A n : Gains!Signed(n) = Parts!Gains!Signed(n)
  BY DEF Gains!Signed, Parts!Gains!Signed
<1>2. \A d, r : Gains!UpTo(d, r) = Parts!Gains!UpTo(d, r)
  BY <1>1, SameGainSums DEF Gains!UpTo, Parts!Gains!UpTo
<1> QED BY <1>2 DEF Gains!GainCountsOnceOrNot, Parts!Gains!GainCountsOnceOrNot

\* The days and amounts of the office's gains are numbers.
LEMMA PartsGains == Parts!GainAssumptions
  BY DEF Parts!GainAssumptions

\* A result is divided as the papers divide it.
LEMMA SameDivision ==
    \A total, base : Parts!Papers!ShareIsFair(total, base) => Calculation!ShareIsFair(total, base)
<1>1. /\ \A w : Calculation!SumFunction(w) = Parts!Papers!SumFunction(w)
      /\ \A S : Calculation!Cardinality(S) = Parts!Papers!Cardinality(S)
  <2>1. \A w : Calculation!SumFunction(w) = Parts!Papers!SumFunction(w)
    BY DEF
      Calculation!SumFunction, Calculation!SumFunctionOnSet, Calculation!FoldFunctionOnSet,
      Calculation!MapThenFoldSet, Parts!Papers!SumFunction, Parts!Papers!SumFunctionOnSet,
      Parts!Papers!FoldFunctionOnSet, Parts!Papers!MapThenFoldSet
  <2>2. \A S : Calculation!Cardinality(S) = Parts!Papers!Cardinality(S)
    BY DEF Calculation!Cardinality, Parts!Papers!Cardinality
  <2> QED BY <2>1, <2>2
<1>2. \A base : Calculation!Total(base) = Parts!Papers!Total(base)
  BY <1>1 DEF Calculation!Total, Parts!Papers!Total
<1>3. /\ \A total, base, m : Calculation!Floor(total, base, m) = Parts!Papers!Floor(total, base, m)
      /\ \A total, base, m : Calculation!Remainder(total, base, m) = Parts!Papers!Remainder(total, base, m)
  BY <1>2 DEF
      Calculation!Floor, Calculation!Remainder, Parts!Papers!Floor, Parts!Papers!Remainder
<1>4. \A total, base, m : Calculation!Before(total, base, m) = Parts!Papers!Before(total, base, m)
  BY <1>3 DEF Calculation!Before, Parts!Papers!Before
<1>5. \A total, base : Calculation!Residual(total, base) = Parts!Papers!Residual(total, base)
  BY <1>1, <1>3 DEF Calculation!Residual, Parts!Papers!Residual
<1>6. \A total, base, m : Calculation!Share(total, base, m) = Parts!Papers!Share(total, base, m)
  BY <1>1, <1>2, <1>3, <1>4, <1>5 DEF Calculation!Share, Parts!Papers!Share
<1> QED BY <1>1, <1>2, <1>6 DEF Calculation!ShareIsFair, Parts!Papers!ShareIsFair


\* The quotas of one member have the same units in both.
LEMMA SameEntrySums == Entry!Taken = Parts!Entry!Taken
  BY DEF
      Entry!Taken, Entry!SumFunction, Entry!SumFunctionOnSet, Entry!FoldFunctionOnSet,
      Entry!MapThenFoldSet, Parts!Entry!Taken, Parts!Entry!SumFunction,
      Parts!Entry!SumFunctionOnSet, Parts!Entry!FoldFunctionOnSet, Parts!Entry!MapThenFoldSet

\* The quotas of one member begin in the same states in both.
LEMMA SameEntryInit == Entry!Init => Parts!Entry!Init
  BY DEF
      Entry!Init, Entry!NoDue, Entry!Free, Entry!Away, Parts!Entry!Init, Parts!Entry!NoDue,
      Parts!Entry!Free, Parts!Entry!Away

\* The quotas of one member take the same steps in both.
LEMMA SameEntryNext == Entry!Next => Parts!Entry!Next
<1>1. \A m : Entry!Locked(m) <=> Parts!Entry!Locked(m)
  BY DEF Entry!Locked, Parts!Entry!Locked
<1>2. Entry!CycleIsLocked <=> Parts!Entry!CycleIsLocked
  BY DEF Entry!CycleIsLocked, Parts!Entry!CycleIsLocked
<1>3. \A mine : Entry!Cancelled(mine) = Parts!Entry!Cancelled(mine)
  BY DEF Entry!Cancelled, Parts!Entry!Cancelled
<1>4. \A m : Entry!Admitted(m) <=> Parts!Entry!Admitted(m)
  BY DEF Entry!Admitted, Parts!Entry!Admitted
<1>5. \A m, d : Entry!Priced(m, d) <=> Parts!Entry!Priced(m, d)
  BY DEF Entry!Priced, Parts!Entry!Priced
<1>6. \A m, d : Entry!Billed(m, d) = Parts!Entry!Billed(m, d)
  BY DEF Entry!Billed, Parts!Entry!Billed
<1>7. \A x, k, d : Entry!Overdue(x, k, d) <=> Parts!Entry!Overdue(x, k, d)
  BY DEF Entry!Overdue, Parts!Entry!Overdue
<1>8. \A mine, d : Entry!InArrears(mine, d) <=> Parts!Entry!InArrears(mine, d)
  BY <1>7 DEF Entry!InArrears, Parts!Entry!InArrears
<1>9. \A q \in {1} : Entry!LockCycle(q) => Parts!Entry!LockCycle(q)
  BY <1>2 DEF Entry!LockCycle, Entry!Free, Parts!Entry!LockCycle, Parts!Entry!Free
<1>10. \A q \in {1} : Entry!Count(q) => Parts!Entry!Count(q)
  BY <1>1, SameEntrySums DEF
      Entry!Count, Entry!MayTake, Entry!Free, Parts!Entry!Count, Parts!Entry!MayTake,
      Parts!Entry!Free
<1>11. \A q \in {1} : Entry!Insert(q) => Parts!Entry!Insert(q)
  BY DEF Entry!Insert, Entry!Free, Parts!Entry!Insert, Parts!Entry!Free
<1>12. \A e \in {1, 2} : Entry!Look(e) => Parts!Entry!Look(e)
  BY DEF Entry!Look, Entry!Away, Parts!Entry!Look, Parts!Entry!Away
<1>13. \A e \in {1, 2} : Entry!LookDaily(e) => Parts!Entry!LookDaily(e)
  BY DEF Entry!LookDaily, Entry!Away, Parts!Entry!LookDaily, Parts!Entry!Away
<1>14. \A e \in {1, 2} : Entry!LockMember(e) => Parts!Entry!LockMember(e)
  BY <1>1 DEF Entry!LockMember, Parts!Entry!LockMember
<1>15. \A e \in {1, 2} : Entry!Enter(e) => Parts!Entry!Enter(e)
  BY <1>2, <1>3, <1>4, <1>5, <1>6, <1>8 DEF
      Entry!Enter, Entry!Away, Parts!Entry!Enter, Parts!Entry!Away
<1>16. \A e \in {1, 2} : Entry!Refuse(e) => Parts!Entry!Refuse(e)
  BY <1>4, <1>5 DEF Entry!Refuse, Entry!Away, Parts!Entry!Refuse, Parts!Entry!Away
<1>17. Entry!BreakDeadlock => Parts!Entry!BreakDeadlock
  BY DEF
      Entry!BreakDeadlock, Entry!Stuck, Entry!Free, Entry!Away, Parts!Entry!BreakDeadlock,
      Parts!Entry!Stuck, Parts!Entry!Free, Parts!Entry!Away
<1>18. Entry!Pay => Parts!Entry!Pay
  BY <1>1 DEF Entry!Pay, Entry!SetDue, Parts!Entry!Pay, Parts!Entry!SetDue
<1>19. Entry!Reverse => Parts!Entry!Reverse
  BY <1>1 DEF Entry!Reverse, Entry!SetDue, Parts!Entry!Reverse, Parts!Entry!SetDue
<1>20. Entry!Exit => Parts!Entry!Exit
  BY <1>1, <1>3, <1>7 DEF Entry!Exit, Parts!Entry!Exit
<1>21. Entry!Tick => Parts!Entry!Tick
  BY DEF Entry!Tick, Parts!Entry!Tick
<1> QED
  BY <1>9, <1>10, <1>11, <1>12, <1>13, <1>14, <1>15, <1>16, <1>17, <1>18, <1>19, <1>20, <1>21
  DEF Entry!Next, Parts!Entry!Next

\* What is proved of the quotas of one member there is what is checked of them here.
LEMMA SameEntryClaim == Parts!Entry!EntriesAreSound => Entry!EntriesAreSound
  BY SameEntrySums DEF
      Entry!EntriesAreSound, Entry!CapacityHolds, Entry!DuesAreWhole, Entry!LeaversAreNotBilled,
      Parts!Entry!EntriesAreSound, Parts!Entry!CapacityHolds, Parts!Entry!DuesAreWhole,
      Parts!Entry!LeaversAreNotBilled

\* A cycle of one member is finite.
LEMMA PartsEntries == Parts!EntryAssumptions
<1>1. IsFiniteSet({1})
  BY FS_Singleton
<1>2. Parts!IsFiniteSet({1})
  BY <1>1 DEF Parts!IsFiniteSet, IsFiniteSet
<1> QED BY <1>2 DEF Parts!EntryAssumptions


-----------------------------------------------------------------------------
(* The months of the books.                                                 *)

\* Counts and sums of the months are the same in both.
LEMMA SameMonthSums ==
    /\ \A S : Monthly!Cardinality(S) = Parts!Monthly!Cardinality(S)
    /\ \A w : Monthly!SumFunction(w) = Parts!Monthly!SumFunction(w)
<1>1. \A S : Monthly!Cardinality(S) = Parts!Monthly!Cardinality(S)
  BY DEF Monthly!Cardinality, Parts!Monthly!Cardinality
<1>2. \A w : Monthly!SumFunction(w) = Parts!Monthly!SumFunction(w)
  BY DEF
      Monthly!SumFunction, Monthly!SumFunctionOnSet, Monthly!FoldFunctionOnSet, Monthly!MapThenFoldSet,
      Parts!Monthly!SumFunction, Parts!Monthly!SumFunctionOnSet, Parts!Monthly!FoldFunctionOnSet,
      Parts!Monthly!MapThenFoldSet
<1> QED BY <1>1, <1>2

\* The rows of a number, of a type and of a payment, and those that take one back.
LEMMA SameMonthRows ==
    /\ \A b, n : Monthly!NumberedAs(b, n) = Parts!Monthly!NumberedAs(b, n)
    /\ \A b, i : Monthly!ReversalsOf(b, i) = Parts!Monthly!ReversalsOf(b, i)
    /\ \A b, i : Monthly!Reversible(b, i) <=> Parts!Monthly!Reversible(b, i)
    /\ Monthly!RowType = Parts!Monthly!RowType /\ Monthly!PaymentRow = Parts!Monthly!PaymentRow
    /\ Monthly!ReversalRow = Parts!Monthly!ReversalRow
    /\ \A p : Monthly!KindOf(p) = Parts!Monthly!KindOf(p)
    /\ \A k, n : Monthly!Written(k, n) = Parts!Monthly!Written(k, n)
    /\ \A p : Monthly!Own(p) = Parts!Monthly!Own(p)
    /\ \A k, n, d, o : Monthly!With(k, n, d, o) = Parts!Monthly!With(k, n, d, o)
<1>1. \A b, n : Monthly!NumberedAs(b, n) = Parts!Monthly!NumberedAs(b, n)
  BY DEF Monthly!NumberedAs, Parts!Monthly!NumberedAs
<1>2. \A b, i : Monthly!ReversalsOf(b, i) = Parts!Monthly!ReversalsOf(b, i)
  BY DEF Monthly!ReversalsOf, Parts!Monthly!ReversalsOf
<1>3. \A b, i : Monthly!Reversible(b, i) <=> Parts!Monthly!Reversible(b, i)
  BY <1>2 DEF Monthly!Reversible, Parts!Monthly!Reversible, Monthly!ReversalRow, Parts!Monthly!ReversalRow
<1>4. /\ Monthly!RowType = Parts!Monthly!RowType /\ Monthly!PaymentRow = Parts!Monthly!PaymentRow
      /\ Monthly!ReversalRow = Parts!Monthly!ReversalRow
  BY DEF Monthly!RowType, Parts!Monthly!RowType, Monthly!PaymentRow, Parts!Monthly!PaymentRow,
      Monthly!ReversalRow, Parts!Monthly!ReversalRow
<1>5. \A p : Monthly!KindOf(p) = Parts!Monthly!KindOf(p)
  BY DEF Monthly!KindOf, Parts!Monthly!KindOf
<1>6. \A k, n : Monthly!Written(k, n) = Parts!Monthly!Written(k, n)
  BY <1>1 DEF Monthly!Written, Parts!Monthly!Written
<1>7. \A p : Monthly!Own(p) = Parts!Monthly!Own(p)
  BY <1>4, <1>5, <1>6 DEF Monthly!Own, Parts!Monthly!Own
<1>8. \A k, n, d, o : Monthly!With(k, n, d, o) = Parts!Monthly!With(k, n, d, o)
  BY DEF Monthly!With, Parts!Monthly!With
<1> QED BY <1>1, <1>2, <1>3, <1>4, <1>5, <1>6, <1>7, <1>8

\* What is settled, and what of it was taken back.
LEMMA SameMonthEvents ==
    /\ \A k : Monthly!Settled(k) = Parts!Monthly!Settled(k)
    /\ \A p : Monthly!Effective(p) <=> Parts!Monthly!Effective(p)
    /\ \A m : Monthly!ContributionEvents(m) = Parts!Monthly!ContributionEvents(m)
    /\ \A m : Monthly!ContributionLedger(m) = Parts!Monthly!ContributionLedger(m)
    /\ \A m : Monthly!ExpenseEvents(m) = Parts!Monthly!ExpenseEvents(m)
    /\ \A m : Monthly!ExpenseLedger(m) = Parts!Monthly!ExpenseLedger(m)
    /\ \A m : Monthly!Net(m) = Parts!Monthly!Net(m)
<1>1. \A k : Monthly!Settled(k) = Parts!Monthly!Settled(k)
  BY SameMonthRows DEF Monthly!Settled, Parts!Monthly!Settled
<1>2. \A p : Monthly!Effective(p) <=> Parts!Monthly!Effective(p)
  <2>1. \A i : Monthly!Compensated(i) <=> Parts!Monthly!Compensated(i)
    BY SameMonthRows, SameMonthSums DEF Monthly!Compensated, Parts!Monthly!Compensated
  <2>2. \A p, i : Monthly!OnlyRow(p, i) <=> Parts!Monthly!OnlyRow(p, i)
    BY SameMonthRows DEF Monthly!OnlyRow, Parts!Monthly!OnlyRow
  <2>3. \A p : Monthly!Neutralized(p) <=> Parts!Monthly!Neutralized(p)
    BY <2>1, <2>2, SameMonthRows DEF Monthly!Neutralized, Parts!Monthly!Neutralized
  <2> QED BY <2>3 DEF Monthly!Effective, Parts!Monthly!Effective
<1>3. \A m : Monthly!ContributionEvents(m) = Parts!Monthly!ContributionEvents(m)
  <2>1. \A m : Monthly!SettlementEvents(m) = Parts!Monthly!SettlementEvents(m)
    BY <1>1 DEF Monthly!SettlementEvents, Parts!Monthly!SettlementEvents
  <2>2. \A m : Monthly!ReversalEvents(m) = Parts!Monthly!ReversalEvents(m)
    BY <1>1, <1>2 DEF Monthly!ReversalEvents, Parts!Monthly!ReversalEvents
  <2> QED BY <2>1, <2>2, SameMonthSums DEF Monthly!ContributionEvents, Parts!Monthly!ContributionEvents
<1>4. \A k, m : Monthly!RowsOf(k, m) = Parts!Monthly!RowsOf(k, m)
  BY DEF Monthly!RowsOf, Parts!Monthly!RowsOf
<1>5. \A m : Monthly!ContributionLedger(m) = Parts!Monthly!ContributionLedger(m)
  <2>1. {q \in Monthly!Settled("CONTRIBUTION") : Monthly!Effective(q)}
        = {q \in Parts!Monthly!Settled("CONTRIBUTION") : Parts!Monthly!Effective(q)}
    BY <1>1, <1>2
  <2>2. (UNION {Monthly!Own(p) : p \in {q \in Monthly!Settled("CONTRIBUTION") : Monthly!Effective(q)}})
        = (UNION {Parts!Monthly!Own(p) : p \in {q \in Parts!Monthly!Settled("CONTRIBUTION") : Parts!Monthly!Effective(q)}})
    BY <2>1, SameMonthRows
  <2> QED BY <1>4, <2>2, SameMonthRows, SameMonthSums DEF Monthly!ContributionLedger, Parts!Monthly!ContributionLedger
<1>6. \A m : Monthly!ExpenseEvents(m) = Parts!Monthly!ExpenseEvents(m)
  BY SameMonthSums DEF Monthly!ExpenseEvents, Parts!Monthly!ExpenseEvents
<1>7. \A m : Monthly!ExpenseLedger(m) = Parts!Monthly!ExpenseLedger(m)
  BY <1>4, SameMonthSums DEF Monthly!ExpenseLedger, Parts!Monthly!ExpenseLedger
<1>8. \A m : Monthly!Net(m) = Parts!Monthly!Net(m)
  BY SameMonthSums DEF Monthly!Net, Parts!Monthly!Net
<1> QED BY <1>1, <1>2, <1>3, <1>5, <1>6, <1>7, <1>8

\* The findings of a month.
LEMMA SameFindings == \A m : Monthly!Findings(m) = Parts!Monthly!Findings(m)
<1>1. \A p : Monthly!LostReversal(p) <=> Parts!Monthly!LostReversal(p)
  BY SameMonthEvents DEF Monthly!LostReversal, Parts!Monthly!LostReversal
<1>2. \A p : Monthly!BadReceipt(p) <=> Parts!Monthly!BadReceipt(p)
  BY SameMonthRows DEF Monthly!BadReceipt, Parts!Monthly!BadReceipt
<1>3. \A p : Monthly!InstallmentIssue(p) <=> Parts!Monthly!InstallmentIssue(p)
  BY <1>1, <1>2, SameMonthEvents DEF Monthly!InstallmentIssue, Parts!Monthly!InstallmentIssue
<1>4. \A p : Monthly!AgreementIssue(p) <=> Parts!Monthly!AgreementIssue(p)
  <2>1. \A p : Monthly!AgreementLedger(p) <=> Parts!Monthly!AgreementLedger(p)
    BY SameMonthRows DEF Monthly!AgreementLedger, Parts!Monthly!AgreementLedger
  <2> QED BY <1>2, <2>1 DEF Monthly!AgreementIssue, Parts!Monthly!AgreementIssue
<1>5. \A p : Monthly!ContributionIssue(p) <=> Parts!Monthly!ContributionIssue(p)
  BY SameMonthRows DEF Monthly!ContributionIssue, Parts!Monthly!ContributionIssue
<1>6. \A p : Monthly!Unproved(p) <=> Parts!Monthly!Unproved(p)
  BY <1>1, <1>3, <1>4, <1>5, SameMonthRows DEF Monthly!Unproved, Parts!Monthly!Unproved
<1>7. Monthly!Codes = Parts!Monthly!Codes
  BY DEF Monthly!Codes, Parts!Monthly!Codes
<1>8. (UNION {Monthly!Settled(k) : k \in DOMAIN Monthly!RowType})
      = (UNION {Parts!Monthly!Settled(k) : k \in DOMAIN Parts!Monthly!RowType})
  BY SameMonthEvents, SameMonthRows
<1> QED BY <1>1, <1>3, <1>4, <1>6, <1>7, <1>8, SameMonthEvents DEF Monthly!Findings, Parts!Monthly!Findings

\* The months begin in the same states in both.
LEMMA SameMonthsInit == Monthly!Init => Parts!Monthly!Init
  BY DEF
      Monthly!Init, Monthly!NoPayment, Monthly!NotClosed, Monthly!Months, Parts!Monthly!Init,
      Parts!Monthly!NoPayment, Parts!Monthly!NotClosed, Parts!Monthly!Months

\* The months take the same steps in both.
LEMMA SameMonthsNext == Monthly!Next => Parts!Monthly!Next
<1>1. \A p, f, o : Monthly!Progress(p, f, o) => Parts!Monthly!Progress(p, f, o)
  BY DEF Monthly!Progress, Parts!Monthly!Progress
<1>2. \A p : Monthly!Charge(p) => Parts!Monthly!Charge(p)
  BY <1>1 DEF Monthly!Charge, Parts!Monthly!Charge
<1>3. \A p : Monthly!Pay(p) => Parts!Monthly!Pay(p)
  BY <1>1 DEF Monthly!Pay, Parts!Monthly!Pay
<1>4. \A p : Monthly!Notify(p) => Parts!Monthly!Notify(p)
  BY <1>1 DEF Monthly!Notify, Parts!Monthly!Notify
<1>5. \A p : Monthly!Settle(p) => Parts!Monthly!Settle(p)
  BY DEF
      Monthly!Settle, Monthly!With, Monthly!RowType, Monthly!PaymentRow, Monthly!KindOf, Monthly!NumberedAs,
      Parts!Monthly!Settle, Parts!Monthly!With, Parts!Monthly!RowType, Parts!Monthly!PaymentRow,
      Parts!Monthly!KindOf, Parts!Monthly!NumberedAs
<1>6. \A p : Monthly!Reverse(p) => Parts!Monthly!Reverse(p)
  <2>1. \A p : Monthly!Original(p) = Parts!Monthly!Original(p)
    BY SameMonthRows DEF Monthly!Original, Parts!Monthly!Original
  <2> QED BY <2>1, SameMonthRows DEF Monthly!Reverse, Parts!Monthly!Reverse
<1>7. \A i : Monthly!ReverseEntry(i) => Parts!Monthly!ReverseEntry(i)
  BY SameMonthRows DEF Monthly!ReverseEntry, Parts!Monthly!ReverseEntry, Monthly!Opposite, Parts!Monthly!Opposite
<1>8. \A x, m : Monthly!Spend(x, m) => Parts!Monthly!Spend(x, m)
  BY SameMonthRows DEF Monthly!Spend, Parts!Monthly!Spend
<1>9. \A l : Monthly!Disburse(l) => Parts!Monthly!Disburse(l)
  BY SameMonthRows DEF Monthly!Disburse, Parts!Monthly!Disburse
<1>10. \A m : Monthly!Close(m) => Parts!Monthly!Close(m)
  BY SameFindings, SameMonthEvents DEF Monthly!Close, Parts!Monthly!Close, Monthly!NotClosed, Parts!Monthly!NotClosed
<1>11. Monthly!Tick => Parts!Monthly!Tick
  BY DEF Monthly!Tick, Parts!Monthly!Tick
<1> QED
  BY <1>2, <1>3, <1>4, <1>5, <1>6, <1>7, <1>8, <1>9, <1>10, <1>11
  DEF Monthly!Next, Parts!Monthly!Next, Monthly!Months, Parts!Monthly!Months

\* What is proved of the months there is what is checked of them here.
LEMMA SameMonthsClaim ==
    Parts!Monthly!AlarmsAreExplained /\ Parts!Monthly!ClosedMonthsStand
    => Monthly!AlarmsAreExplained /\ Monthly!ClosedMonthsStand
<1>1. Monthly!Months = Parts!Monthly!Months
  BY DEF Monthly!Months, Parts!Monthly!Months
<1>2. \A p : Monthly!Booked(p) = Parts!Monthly!Booked(p)
  BY SameMonthRows DEF Monthly!Booked, Parts!Monthly!Booked
<1>3. \A p : Monthly!Clashes(p) <=> Parts!Monthly!Clashes(p)
  BY SameMonthRows DEF Monthly!Clashes, Parts!Monthly!Clashes
<1>4. \A p, m : Monthly!Straddles(p, m) <=> Parts!Monthly!Straddles(p, m)
  BY <1>2 DEF Monthly!Straddles, Parts!Monthly!Straddles
<1>5. Parts!Monthly!AlarmsAreExplained => Monthly!AlarmsAreExplained
  <2>1. /\ [m \in Monthly!Months |-> Monthly!ContributionEvents(m)] = [m \in Parts!Monthly!Months |-> Parts!Monthly!ContributionEvents(m)]
        /\ [m \in Monthly!Months |-> Monthly!ContributionLedger(m)] = [m \in Parts!Monthly!Months |-> Parts!Monthly!ContributionLedger(m)]
        /\ [m \in Monthly!Months |-> Monthly!ExpenseEvents(m)] = [m \in Parts!Monthly!Months |-> Parts!Monthly!ExpenseEvents(m)]
        /\ [m \in Monthly!Months |-> Monthly!ExpenseLedger(m)] = [m \in Parts!Monthly!Months |-> Parts!Monthly!ExpenseLedger(m)]
    BY <1>1, SameMonthEvents
  <2> QED BY <1>1, <1>3, <1>4, <2>1, SameFindings, SameMonthRows, SameMonthEvents, SameMonthSums
          DEF Monthly!AlarmsAreExplained, Parts!Monthly!AlarmsAreExplained
<1>6. Parts!Monthly!ClosedMonthsStand => Monthly!ClosedMonthsStand
  BY <1>1, <1>2, <1>3, SameMonthEvents DEF Monthly!ClosedMonthsStand, Parts!Monthly!ClosedMonthsStand
<1> QED BY <1>5, <1>6

\* There are two payments, one expense and two months.
LEMMA PartsMonths == Parts!MonthAssumptions
<1>1. IsFiniteSet({2, 3}) /\ IsFiniteSet({9})
  <2>1. IsFiniteSet({2}) /\ IsFiniteSet({3}) /\ IsFiniteSet({9})
    BY FS_Singleton
  <2>2. IsFiniteSet({2} \cup {3}) /\ {2, 3} = {2} \cup {3}
    BY <2>1, FS_Union
  <2> QED BY <2>1, <2>2
<1>2. Parts!IsFiniteSet({2, 3}) /\ Parts!IsFiniteSet({9})
  BY <1>1 DEF Parts!IsFiniteSet, IsFiniteSet
<1>3. \A k \in Uses : \A p \in {2, 3} :
        k[p] \in {"CONTRIBUTION", "LOAN_INSTALLMENT", "AGREEMENT_INSTALLMENT"}
  BY DEF Uses
<1> QED BY <1>2, <1>3 DEF Parts!MonthAssumptions

-----------------------------------------------------------------------------
(* The office.                                                              *)

\* The part that is played keeps its invariant; of the crowd, below.
OfficeInv ==
    /\ part = "upload" => Parts!UploadInv
    /\ part = "backup" => Parts!BackupInv
    /\ part = "decision" => Parts!DecisionInv
    /\ part = "execution" => Parts!ExecutionInv
    /\ part = "improvement" => Parts!PlanInv
    /\ part = "certificate" => Parts!CertificateInv
    /\ part = "late" => Parts!LateInv
    /\ part = "loans" => Parts!LendingInv
    /\ part = "papers" => Parts!PapersInv
    /\ part = "gains" => Parts!GainInv
    /\ part = "entry" => Parts!EntryInv
    /\ part = "months" => Parts!MonthlyInv
    /\ part = "rateio" => v1 \in 0 .. 5 /\ v2 \in [1 .. 3 -> 0 .. 4]

\* A step is of the part that is played, or of none.
LEMMA StepOfPart ==
    ASSUME [Next]_vars
    PROVE  /\ part' = part
           /\ part = "upload" => [Parts!Upload!Next]_(Parts!Upload!vars)
           /\ part = "backup" => [Parts!Backup!Next]_(Parts!Backup!vars)
           /\ part = "decision" => [Parts!Decision!Next]_(Parts!Decision!vars)
           /\ part = "execution" => [Parts!Execution!Next]_(Parts!Execution!vars)
           /\ part = "improvement" => [Parts!Improvement!Next]_(Parts!Improvement!vars)
           /\ part = "certificate" => [Parts!Certificate!Next]_(Parts!Certificate!vars)
           /\ part = "late" => [Parts!Late!Next]_(Parts!Late!vars)
           /\ part = "loans" => [Parts!Lending!Next]_(Parts!Lending!vars)
           /\ part = "papers" => [Parts!Papers!Next]_(Parts!Papers!vars)
           /\ part = "gains" => [Parts!Gains!Next]_(Parts!Gains!vars)
           /\ part = "entry" => [Parts!Entry!Next]_(Parts!Entry!vars)
           /\ part = "months" => [Parts!Monthly!Next]_(Parts!Monthly!vars)
           /\ part = "rateio" => UNCHANGED <<v1, v2>>
<1>1. CASE UNCHANGED vars
  BY <1>1 DEF vars, Parts!Upload!vars, Parts!Backup!vars, Parts!Decision!vars, Parts!Execution!vars,
      Parts!Improvement!vars, Parts!Certificate!vars, Parts!Late!vars, Parts!Lending!vars,
      Parts!Papers!vars, Parts!Gains!vars, Parts!Entry!vars, Parts!Monthly!vars
<1>2. CASE Next
  <2>1. part' = part
    BY <1>2 DEF Next
  <2>2. part = "upload" => Parts!Upload!Next
    BY <1>2, SameUploadNext DEF Next
  <2>3. part = "backup" => Parts!Backup!Next
    BY <1>2, SameBackupNext DEF Next
  <2>4. part = "decision" => Parts!Decision!Next
    BY <1>2, SameDecisionNext DEF Next
  <2>5. part = "execution" => Parts!Execution!Next
    BY <1>2, SameExecutionNext DEF Next
  <2>6. part = "improvement" => Parts!Improvement!Next
    BY <1>2, SameImprovementNext DEF Next
  <2>7. part = "certificate" => Parts!Certificate!Next
    BY <1>2, SameCertificateNext DEF Next
  <2>8. part = "late" => Parts!Late!Next
    BY <1>2, SameLateNext DEF Next
  <2>9. part = "loans" => Parts!Lending!Next
    BY <1>2, SameLendingNext DEF Next
  <2>10. part = "papers" => Parts!Papers!Next
    BY <1>2, SamePapersNext DEF Next
  <2>11. part = "gains" => Parts!Gains!Next
    BY <1>2, SameGainsNext DEF Next
  <2>12. part = "entry" => Parts!Entry!Next
    BY <1>2, SameEntryNext DEF Next
  <2>13. part = "months" => Parts!Monthly!Next
    BY <1>2, SameMonthsNext DEF Next
  <2>14. part # "rateio"
    BY <1>2 DEF Next
  <2> QED
    BY <2>1, <2>2, <2>3, <2>4, <2>5, <2>6, <2>7, <2>8, <2>9, <2>10, <2>11, <2>12, <2>13, <2>14
<1> QED BY <1>1, <1>2

\* Each part begins and goes on as it does by itself.
LEMMA OfficeStarts == Init => OfficeInv
<1> SUFFICES ASSUME Init PROVE OfficeInv
  OBVIOUS
<1>1. part = "upload" => Parts!UploadInv
  BY SameUploadInit, Parts!UploadStarts DEF Init
<1>2. part = "backup" => Parts!BackupInv
  BY SameBackupInit, Parts!BackupStarts DEF Init
<1>3. part = "decision" => Parts!DecisionInv
  BY SameDecisionInit, PartsAssumptions, Parts!DecisionStarts DEF Init
<1>4. part = "execution" => Parts!ExecutionInv
  BY SameExecutionInit, Parts!ExecutionStarts DEF Init
<1>5. part = "improvement" => Parts!PlanInv
  BY SameImprovementInit, Parts!PlanStarts DEF Init
<1>6. part = "certificate" => Parts!CertificateInv
  BY SameCertificateInit, Parts!CertificateStarts DEF Init
<1>7. part = "late" => Parts!LateInv
  BY SameLateInit, PartsCharges, Parts!LateStarts DEF Init
<1>8. part = "loans" => Parts!LendingInv
  BY SameLendingInit, PartsLending, Parts!LendingStarts DEF Init
<1>9. part = "papers" => Parts!PapersInv
  BY SamePapersInit, Parts!PapersStart DEF Init
<1>10. part = "gains" => Parts!GainInv
  BY SameGainsInit, Parts!GainsStart DEF Init
<1>11. part = "entry" => Parts!EntryInv
  BY SameEntryInit, PartsEntries, Parts!EntriesStart DEF Init
<1>12. part = "rateio" => v1 \in 0 .. 5 /\ v2 \in [1 .. 3 -> 0 .. 4]
  BY DEF Init
<1>13. part = "months" => Parts!MonthlyInv
  BY SameMonthsInit, PartsMonths, Parts!BooksStart, Parts!NoneIsShut DEF Init, Parts!MonthlyInv
<1> QED
  BY <1>1, <1>2, <1>3, <1>4, <1>5, <1>6, <1>7, <1>8, <1>9, <1>10, <1>11, <1>12, <1>13 DEF OfficeInv

\* Whatever is done, and whoever does it.
LEMMA OfficeKeeps == ASSUME OfficeInv, [Next]_vars PROVE OfficeInv'
<1>1. part' = part
  BY StepOfPart
<1>2. part = "upload" => (Parts!UploadInv)'
  BY StepOfPart, Parts!UploadKeeps DEF OfficeInv
<1>3. part = "backup" => (Parts!BackupInv)'
  BY StepOfPart, Parts!BackupKeeps DEF OfficeInv
<1>4. part = "decision" => (Parts!DecisionInv)'
  BY StepOfPart, PartsAssumptions, Parts!DecisionKeeps DEF OfficeInv
<1>5. part = "execution" => (Parts!ExecutionInv)'
  BY StepOfPart, PartsAssumptions, Parts!ExecutionKeeps DEF OfficeInv
<1>6. part = "improvement" => (Parts!PlanInv)'
  BY StepOfPart, PartsAssumptions, Parts!PlanKeeps DEF OfficeInv
<1>7. part = "certificate" => (Parts!CertificateInv)'
  BY StepOfPart, PartsAssumptions, Parts!CertificateKeeps DEF OfficeInv
<1>8. part = "late" => (Parts!LateInv)'
  BY StepOfPart, PartsCharges, Parts!LateKeeps DEF OfficeInv
<1>9. part = "loans" => (Parts!LendingInv)'
  BY StepOfPart, PartsLending, Parts!LendingKeeps DEF OfficeInv
<1>10. part = "papers" => (Parts!PapersInv)'
  BY StepOfPart, Parts!PapersKeep DEF OfficeInv
<1>11. part = "gains" => (Parts!GainInv)'
  BY StepOfPart, PartsGains, Parts!GainsKeep DEF OfficeInv
<1>12. part = "entry" => (Parts!EntryInv)'
  BY StepOfPart, PartsEntries, Parts!EntriesKeep DEF OfficeInv
<1>13. part = "rateio" => v1' \in 0 .. 5 /\ v2' \in [1 .. 3 -> 0 .. 4]
  BY StepOfPart DEF OfficeInv
<1>14. part = "months" => (Parts!MonthlyInv)'
  BY StepOfPart, PartsMonths, Parts!MonthlyKeeps DEF OfficeInv
<1> QED
  BY <1>1, <1>2, <1>3, <1>4, <1>5, <1>6, <1>7, <1>8, <1>9, <1>10, <1>11, <1>12, <1>13, <1>14
  DEF OfficeInv

-----------------------------------------------------------------------------

\* What is carried out was endorsed by as many others as its priority asks for
\* (executive_risk_governance_v079.py), an execution is verified when another than
\* the verifier completed it (executive_risk_execution_v080.py), a plan closes on an
\* effect that a second person verified (continuous_improvement_v083.py), and a third
\* certifies (continuous_improvement_certification_v090.py), for any people,
\* requests, measurements and files.
THEOREM DecisionsAreSound == Spec => []DecisionsHold
<1>1. Init => OfficeInv
  BY OfficeStarts
<1>2. OfficeInv /\ [Next]_vars => OfficeInv'
  BY OfficeKeeps
<1>3. OfficeInv => DecisionsHold
  <2>1. OfficeInv /\ part = "decision" => Decision!OrderedIsEndorsed
    BY Parts!EndorsementHolds, SameDecisionClaim DEF OfficeInv
  <2>2. OfficeInv /\ part = "execution" => Execution!VerifiedByAnother
    BY Parts!VerificationHolds, SameExecutionClaim DEF OfficeInv
  <2>3. OfficeInv /\ part = "improvement" => Improvement!ClosedIsProved
    BY Parts!ClosureHolds, SameImprovementClaim DEF OfficeInv
  <2>4. OfficeInv /\ part = "certificate"
        => Certificate!CertificateIsSound /\ Certificate!ChainBreaksByOverlap
    BY Parts!CertificationHolds, SameCertificateClaim DEF OfficeInv
  <2> QED BY <2>1, <2>2, <2>3, <2>4 DEF DecisionsHold
<1> QED BY <1>1, <1>2, <1>3, PTL DEF Spec

\* A remote copy that a receipt claims is there and whole (backup_transport.py), and
\* a restore that reports success is the exported moment (data_protection.py), for
\* any hosts, sessions, chunks and evidence files.
THEOREM BackupsAreSound == Spec => []BackupsHold
<1>1. Init => OfficeInv
  BY OfficeStarts
<1>2. OfficeInv /\ [Next]_vars => OfficeInv'
  BY OfficeKeeps
<1>3. OfficeInv => BackupsHold
  <2>1. OfficeInv /\ part = "upload" => Upload!ClaimsHold
    BY Parts!UploadClaims, SameUploadClaim DEF OfficeInv
  <2>2. OfficeInv /\ part = "backup" => Backup!RestoreIsSnapshot
    BY Parts!BackupRestores, SameBackupClaim DEF OfficeInv
  <2> QED BY <2>1, <2>2 DEF BackupsHold
<1> QED BY <1>1, <1>2, <1>3, PTL DEF Spec

\* The late charges that are booked are those that the days and the receipts ask for,
\* no more is paid than was charged (loan_obligation_runtime.py, payment_settlement.py),
\* and the cash and the members' own money follow from what was contributed, lent once
\* and repaid (api/loans.py), for any days, amounts, attempts, members and loans.
THEOREM LoansAreSound == Spec => []LoansHold
<1>1. Init => OfficeInv
  BY OfficeStarts
<1>2. OfficeInv /\ [Next]_vars => OfficeInv'
  BY OfficeKeeps
<1>3. OfficeInv => LoansHold
  <2>1. OfficeInv /\ part = "late" => Late!ChargesAreTrue
    BY PartsCharges, Parts!LateHolds, SameLateClaim DEF OfficeInv
  <2>2. OfficeInv /\ part = "loans" => Lending!LentOnce
    BY Parts!LendingHolds, SameLendingClaim DEF OfficeInv
  <2> QED BY <2>1, <2>2 DEF LoansHold
<1> QED BY <1>1, <1>2, <1>3, PTL DEF Spec

\* The snapshot of a closed cycle, its payout obligations, the readiness to pay them and
\* the statements agree with each other and with the money (cycle_closing_persistence.py,
\* cycle_closing_payout_obligations.py, _readiness.py and _statements.py), whatever its
\* requests do at once or leave undone.
THEOREM PapersAreSound == Spec => []PapersHold
<1>1. Init => OfficeInv
  BY OfficeStarts
<1>2. OfficeInv /\ [Next]_vars => OfficeInv'
  BY OfficeKeeps
<1>3. OfficeInv => PapersHold
  BY PartsPapers, Parts!PapersAgreed, SamePapersClaim DEF OfficeInv, PapersHold
<1> QED BY <1>1, <1>2, <1>3, PTL DEF Spec

\* A gain and what takes it back count in full or not at all at any cutoff
\* (cycle_closing_persistence.py), and a result is divided to the cent, fairly
\* (_allocation_cents of cycle_closing.py), whatever requests recorded gains at once.
THEOREM SumsAreSound == Spec => []SumsHold
<1>1. Init => OfficeInv
  BY OfficeStarts
<1>2. OfficeInv /\ [Next]_vars => OfficeInv'
  BY OfficeKeeps
<1>3. OfficeInv => SumsHold
  <2>1. OfficeInv /\ part = "gains" => Gains!GainCountsOnceOrNot
    BY PartsGains, Parts!GainsCount, SameGainsClaim DEF OfficeInv
  <2>2. ASSUME OfficeInv, part = "rateio" PROVE Calculation!ShareIsFair(v1, v2)
    <3>1. v1 \in 0 .. 5 /\ v2 \in [1 .. 3 -> 0 .. 4]
      BY <2>2 DEF OfficeInv
    <3>2. IsFiniteSet(1 .. 3)
      <4> DEFINE a == 1
                 b == 3
      <4>1. a \in Int /\ b \in Int
        OBVIOUS
      <4> HIDE DEF a, b
      <4>2. IsFiniteSet(a .. b)
        BY <4>1, FS_Interval
      <4> QED BY <4>2 DEF a, b
    <3>3. Parts!IsFiniteSet(DOMAIN v2)
      BY <3>1, <3>2 DEF Parts!IsFiniteSet, IsFiniteSet
    <3>4. Parts!IsDivision(v1, v2)
      BY <3>1, <3>3 DEF Parts!IsDivision
    <3> QED BY <3>4, Parts!SharesAreFair, SameDivision
  <2> QED BY <2>1, <2>2 DEF SumsHold
<1> QED BY <1>1, <1>2, <1>3, PTL DEF Spec

-----------------------------------------------------------------------------
(* The crowd.                                                               *)

\* The same parts, with a cycle of two members.
Crowded == INSTANCE OfficeParts_proofs WITH
    Required <- Approvals,
    decision <- v1, governance <- v2, request <- v3, ordered <- v4, done <- v5,
    execution <- v1, effect <- v2, completers <- v4,
    recommendation <- v1, plan <- v2, measurements <- v5, accepted <- v6,
    rows <- v2, disk <- v4, chain <- v5, events <- v6, certificate <- v7, past <- v8,
    envelope <- v1, receipt <- v2, drive <- v3, proc <- v4,
    store <- v1, snapshot <- v3, set <- v4, restored <- v5,
    day <- v1, ledger <- v2, inst <- v3, attempt <- v4, order <- v5, settlement <- v6,
    undone <- v7, reserved <- v8,
    simulation <- v1, loan <- v2, contributed <- v3, position <- v4, cash <- v5, admin <- v6,
    Cutoff <- 3, Never <- 9, Evidence <- Closings, Cash <- {3, 30},
    Destinations <- {"VERIFIED", "UNVERIFIED"}, Clerks <- {1, 2},
    evidence <- v1, figures <- v2, funds <- v3, destination <- v4, payables <- v5, clerk <- v6,
    GainRequests <- {1, 2}, GainNames <- {1, 2, 3}, GainDays <- {1, 2}, GainAmounts <- {5},
    MaxGains <- 3, gained <- v1, named <- v2, claims <- v3,
    month <- v1, units <- v2, participation <- v3, billed <- v4, quota <- v5, entry <- v6,
    Enrolled <- {1, 2}, QuotaRequests <- {1, 2}, EntryRequests <- {1}, Span <- 1, Deadline <- 1,
    Capacity <- 2, Streak <- 2, Horizon <- 1,
    Bills <- {2, 3}, Purposes <- Uses, Lent <- {3}, Costs <- {9}, LastMonth <- 2, MaxEntries <- 3,
    today <- v1, bill <- v2, book <- v3, spent <- v4, shut <- v5

\* The quotas of two members have the same units in both.
LEMMA SameCrowdSums == Crowd!Taken = Crowded!Entry!Taken
  BY DEF
      Crowd!Taken, Crowd!SumFunction, Crowd!SumFunctionOnSet, Crowd!FoldFunctionOnSet,
      Crowd!MapThenFoldSet, Crowded!Entry!Taken, Crowded!Entry!SumFunction,
      Crowded!Entry!SumFunctionOnSet, Crowded!Entry!FoldFunctionOnSet,
      Crowded!Entry!MapThenFoldSet

\* The quotas of two members begin in the same states in both.
LEMMA SameCrowdInit == Crowd!Init => Crowded!Entry!Init
  BY DEF
      Crowd!Init, Crowd!NoDue, Crowd!Free, Crowd!Away, Crowded!Entry!Init, Crowded!Entry!NoDue,
      Crowded!Entry!Free, Crowded!Entry!Away

\* The quotas of two members take the same steps in both.
LEMMA SameCrowdNext == Crowd!Next => Crowded!Entry!Next
<1>1. \A m : Crowd!Locked(m) <=> Crowded!Entry!Locked(m)
  BY DEF Crowd!Locked, Crowded!Entry!Locked
<1>2. Crowd!CycleIsLocked <=> Crowded!Entry!CycleIsLocked
  BY DEF Crowd!CycleIsLocked, Crowded!Entry!CycleIsLocked
<1>3. \A mine : Crowd!Cancelled(mine) = Crowded!Entry!Cancelled(mine)
  BY DEF Crowd!Cancelled, Crowded!Entry!Cancelled
<1>4. \A m : Crowd!Admitted(m) <=> Crowded!Entry!Admitted(m)
  BY DEF Crowd!Admitted, Crowded!Entry!Admitted
<1>5. \A m, d : Crowd!Priced(m, d) <=> Crowded!Entry!Priced(m, d)
  BY DEF Crowd!Priced, Crowded!Entry!Priced
<1>6. \A m, d : Crowd!Billed(m, d) = Crowded!Entry!Billed(m, d)
  BY DEF Crowd!Billed, Crowded!Entry!Billed
<1>7. \A x, k, d : Crowd!Overdue(x, k, d) <=> Crowded!Entry!Overdue(x, k, d)
  BY DEF Crowd!Overdue, Crowded!Entry!Overdue
<1>8. \A mine, d : Crowd!InArrears(mine, d) <=> Crowded!Entry!InArrears(mine, d)
  BY <1>7 DEF Crowd!InArrears, Crowded!Entry!InArrears
<1>9. \A q \in {1, 2} : Crowd!LockCycle(q) => Crowded!Entry!LockCycle(q)
  BY <1>2, Zenon DEF Crowd!LockCycle, Crowd!Free, Crowded!Entry!LockCycle, Crowded!Entry!Free
<1>10. \A q \in {1, 2} : Crowd!Count(q) => Crowded!Entry!Count(q)
  BY <1>1, SameCrowdSums DEF
      Crowd!Count, Crowd!MayTake, Crowd!Free, Crowded!Entry!Count, Crowded!Entry!MayTake,
      Crowded!Entry!Free
<1>11. \A q \in {1, 2} : Crowd!Insert(q) => Crowded!Entry!Insert(q)
  BY DEF Crowd!Insert, Crowd!Free, Crowded!Entry!Insert, Crowded!Entry!Free
<1>12. \A e \in {1} : Crowd!Look(e) => Crowded!Entry!Look(e)
  BY Zenon DEF Crowd!Look, Crowd!Away, Crowded!Entry!Look, Crowded!Entry!Away
<1>13. \A e \in {1} : Crowd!LookDaily(e) => Crowded!Entry!LookDaily(e)
  BY Zenon DEF Crowd!LookDaily, Crowd!Away, Crowded!Entry!LookDaily, Crowded!Entry!Away
<1>14. \A e \in {1} : Crowd!LockMember(e) => Crowded!Entry!LockMember(e)
  BY <1>1 DEF Crowd!LockMember, Crowded!Entry!LockMember
<1>15. \A e \in {1} : Crowd!Enter(e) => Crowded!Entry!Enter(e)
  BY <1>2, <1>3, <1>4, <1>5, <1>6, <1>8, Zenon DEF
      Crowd!Enter, Crowd!Away, Crowded!Entry!Enter, Crowded!Entry!Away
<1>16. \A e \in {1} : Crowd!Refuse(e) => Crowded!Entry!Refuse(e)
  BY <1>4, <1>5 DEF Crowd!Refuse, Crowd!Away, Crowded!Entry!Refuse, Crowded!Entry!Away
<1>17. Crowd!BreakDeadlock => Crowded!Entry!BreakDeadlock
  BY DEF
      Crowd!BreakDeadlock, Crowd!Stuck, Crowd!Free, Crowd!Away, Crowded!Entry!BreakDeadlock,
      Crowded!Entry!Stuck, Crowded!Entry!Free, Crowded!Entry!Away
<1>18. Crowd!Pay => Crowded!Entry!Pay
  BY <1>1, Zenon DEF Crowd!Pay, Crowd!SetDue, Crowded!Entry!Pay, Crowded!Entry!SetDue
<1>19. Crowd!Reverse => Crowded!Entry!Reverse
  BY <1>1, Zenon DEF Crowd!Reverse, Crowd!SetDue, Crowded!Entry!Reverse, Crowded!Entry!SetDue
<1>20. Crowd!Exit => Crowded!Entry!Exit
  BY <1>1, <1>3, <1>7, Zenon DEF Crowd!Exit, Crowded!Entry!Exit
<1>21. Crowd!Tick => Crowded!Entry!Tick
  BY DEF Crowd!Tick, Crowded!Entry!Tick
<1> QED
  BY <1>9, <1>10, <1>11, <1>12, <1>13, <1>14, <1>15, <1>16, <1>17, <1>18, <1>19, <1>20, <1>21
  DEF Crowd!Next, Crowded!Entry!Next

\* What is proved of the quotas of two members there is what is checked of them here.
LEMMA SameCrowdClaim == Crowded!Entry!EntriesAreSound => Crowd!EntriesAreSound
  BY SameCrowdSums DEF
      Crowd!EntriesAreSound, Crowd!CapacityHolds, Crowd!DuesAreWhole, Crowd!LeaversAreNotBilled,
      Crowded!Entry!EntriesAreSound, Crowded!Entry!CapacityHolds, Crowded!Entry!DuesAreWhole,
      Crowded!Entry!LeaversAreNotBilled

\* A cycle of two members is finite.
LEMMA CrowdedEntries == Crowded!EntryAssumptions
<1>1. IsFiniteSet({1, 2})
  <2>1. IsFiniteSet({1}) /\ IsFiniteSet({2})
    BY FS_Singleton
  <2>2. IsFiniteSet({1} \cup {2}) /\ {1, 2} = {1} \cup {2}
    BY <2>1, FS_Union, Zenon
  <2> QED BY <2>2
<1>2. Crowded!IsFiniteSet({1, 2})
  BY <1>1 DEF Crowded!IsFiniteSet, IsFiniteSet
<1> QED BY <1>2 DEF Crowded!EntryAssumptions

\* The crowd, when it is played, keeps the invariant of the quotas.
CrowdInv == part = "crowd" => Crowded!EntryInv

\* It begins as a cycle of two members.
LEMMA CrowdStarts == Init => CrowdInv
  BY SameCrowdInit, CrowdedEntries, Crowded!EntriesStart DEF Init, CrowdInv

\* And goes on as one.
LEMMA CrowdKeeps == ASSUME CrowdInv, [Next]_vars PROVE CrowdInv'
<1>1. part = "crowd" => [Crowded!Entry!Next]_(Crowded!Entry!vars)
  <2>1. CASE UNCHANGED vars
    BY <2>1 DEF vars, Crowded!Entry!vars
  <2>2. CASE Next
    BY <2>2, SameCrowdNext DEF Next
  <2> QED BY <2>1, <2>2
<1>2. part' = part
  BY StepOfPart
<1>3. part = "crowd" => (Crowded!EntryInv)'
  BY <1>1, CrowdedEntries, Crowded!EntriesKeep DEF CrowdInv
<1> QED BY <1>2, <1>3 DEF CrowdInv

\* Each month asks of the members what their quotas say (cycle_foundation.py),
\* its check raises no false alarm but three, and what was closed
\* stands (reconciliation_v040.py, monthly_closing_v040.py), whatever is entered, paid,
\* reversed or spent at once or late.
THEOREM MonthsAreSound == Spec => []MonthsHold
<1>1. Init => OfficeInv
  BY OfficeStarts
<1>2. OfficeInv /\ [Next]_vars => OfficeInv'
  BY OfficeKeeps
<1>3. Init => CrowdInv
  BY CrowdStarts
<1>4. CrowdInv /\ [Next]_vars => CrowdInv'
  BY CrowdKeeps
<1>5. OfficeInv /\ CrowdInv => MonthsHold
  <2>1. OfficeInv /\ part = "entry" => Entry!EntriesAreSound
    BY Parts!EntriesSound, SameEntryClaim DEF OfficeInv
  <2>2. CrowdInv /\ part = "crowd" => Crowd!EntriesAreSound
    BY Crowded!EntriesSound, SameCrowdClaim DEF CrowdInv
  <2>3. OfficeInv /\ part = "months" => Monthly!AlarmsAreExplained /\ Monthly!ClosedMonthsStand
    <3>1. OfficeInv /\ part = "months" => Parts!MonthlyInv /\ Parts!BooksInv
      BY DEF OfficeInv, Parts!MonthlyInv
    <3> QED BY <3>1, PartsMonths, Parts!AlarmsAre, Parts!MonthsAreClosed, SameMonthsClaim
  <2> QED BY <2>1, <2>2, <2>3 DEF MonthsHold
<1> QED BY <1>1, <1>2, <1>3, <1>4, <1>5, PTL DEF Spec
=============================================================================
