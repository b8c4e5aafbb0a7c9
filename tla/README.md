# FRcaixinha 2.0 in TLA+

FRcaixinha is the back office of a savings group. Members pay monthly contributions by
Pix, borrow from the fund, fall behind, agree on new terms, leave, and are paid out when
the annual cycle closes. The backend (`src/backend/app`) is FastAPI over PostgreSQL with
a separate worker process. Its own logic is money that must be counted once although the
payment provider repeats itself, workers die, and two people press the same button.

This directory holds TLA+ modules that model that logic, TLC configurations that check
small instances, and TLAPS proofs of what matters most. Every definition is a translation
of source code; `PROJECT.json` ("map") names the lines of each.

- [The system](#the-system): components, state, interactions, hazards.
- [The modules](#the-modules): which module models which code, and how.
- [The runs](#the-runs): what TLC checks, bounds, fairness.
- [Where the code disagrees with its documents](#where-the-code-disagrees-with-its-documents).
- [The proofs](#the-proofs).
- [What is not modelled](#what-is-not-modelled) and [the plan](#the-plan).

## The system

### Processes and how they interact

| Process | Runs | Concurrency |
|---|---|---|
| API server (uvicorn, one process) | `async` endpoints: Pix creation, provider webhook, replay | one event loop; synchronous database calls, so these coroutines interleave only where they `await` the provider |
| API server, thread pool | all other endpoints, among them reversals, exit of a member, annual closing | every statement interleaves with everything |
| Worker (`worker/main.py`, replicas) | daily jobs: contributions, charges, delinquency, notifications | replicas are kept apart by a redis slot per date, which fails open |
| Provider (Mercado Pago) | orders, payments, refunds | notifications late, repeated, lost or out of order |
| PostgreSQL | rows, unique indexes, `FOR UPDATE`, advisory locks, `LOCK TABLE` | READ COMMITTED; deadlocks are detected and one transaction is aborted |

Components talk through tables. The contribution Pix writes the contribution, the ledger,
the member's patrimony and a payment event in one transaction. The annual closing reads
ledger and payment events. The worker creates contributions that the Pix charges and
cancels those of a blocked member. An agreement replaces installments that a Pix may
still be able to pay.

### Components

State is what the component keeps between requests.

| Component | State | Operations | What makes it correct | Module |
|---|---|---|---|---|
| Daily cycle scheduler (`services/scheduler_runs.py`, `worker/tasks.py`, `worker/main.py`) | redis slot, `SchedulerRun`, `SchedulerRunUnit` | dispatch, claim, snapshot, renew, execute a unit, fail, close | the effects of a participation are committed once per date; a date closes over a complete snapshot; a worker that lost its lease writes nothing | `CycleScheduler` |
| Contribution Pix (`api/payments.py`, `contribution_pix_attempts.py`, `payment_settlement.py`, `payment_reversal.py`) | contribution, `Payment`, `PaymentSettlement`, `PaymentReversal`, patrimony, `WebhookEvent`; the order at the provider | reserve, call, bind, preserve, webhook, replay, settle, cancel, reverse | confirmed money is applied once or marked; contribution, ledger and patrimony agree; a reversal undoes all of a settlement | `PixSettlement` |
| Ledger (`services/ledger.py`) | append-only rows under an advisory lock | append, reverse, search | one reversal per row, never of a reversal; one confirmation per payment | `LedgerBook` |
| Annual closing workflow (`cycle_closing_workflow.py`, `cycle_closing_persistence.py`) | closing, reviews, cash evidence, approval, snapshot | attest, prepare, approve, close | official figures are the approved ones, of one moment, covered by the attested cash | `AnnualClosing` |
| Annual closing calculation (`cycle_closing.py`) | none: reads the rows of a cutoff | evidence, eligibility, shares, netting against debts | the figures of a past cutoff stand whatever is written later, or are refused; shares add up to the cent | `ClosingCalculation`, `ClosingBook` |
| Papers of a closed cycle (`cycle_closing_payout_obligations.py`, `_payout_readiness.py`, `_statements.py`) | payout obligations | materialize, judge readiness, print | all obligations or none; readers accept what was calculated | `ClosingPapers` |
| Gains recorded by hand (`cycle_closing_persistence.py`) | gain events | record, reverse | a gain counts in full or not at all at each cutoff | `RealizedGains` |
| Loan Pix, agreement Pix (`loan_installment_pix_attempts.py`, `agreement_installment_pix_attempts.py`, `agreements_v039.py`) | installments, attempts, agreement | reserve, supersede, settle, reverse; request and approve an agreement | a debt is collected once, by its installment or by the agreement that replaced it | `InstallmentPix` |
| Loan engine (`api/loans.py`, `loan_engine_v17.py`, `approval_engine_v048.py`, `risk_v036.py`, `loan_amortization.py`) | simulation, loan, balances of the member | simulate, request, decide, release, repay | a loan is lent once; its plan repays it | `LoanBook`, `LoanPlan` |
| Late charges (`loan_obligation_runtime.py`, `late_charge_v1.py`) | charge events and adjustments | assess, materialize with an attempt, adjust after a reversal | charges are those of the day of payment, in whatever order payments are confirmed and reversed | `LateCharges` |
| Cycle and participation (`cycle_foundation.py`, `cycle_participation.py`) | quotas, participation, contributions | give quotas, enter, bill, block, exit | capacity holds; contributions are those of the quotas, without gaps; who is out is not billed | `CycleEntry`, `ClosingBook` |
| Payout destinations (`member_payout_destination.py`, `payout_destination_verification.py`) | destinations, attempts, evidence | register, replace, revoke, start, record | one destination in force; a delivery counts once; evidence says what was true when it was stored | `PayoutVerification` |
| Monthly closing, reconciliation, payment evidence (`monthly_closing_v040.py`, `reconciliation_v040.py`, `payment_financial_events.py`) | closings of months | reconcile, close | an alarm is never false, and has one of three known reasons; closed months stand | `MonthlyBooks` |
| Risk decisions (`executive_risk_*_v078` to `v081`) | decision, governance, execution, effectiveness | decide, approve, validate, order, start, complete, verify, measure, review | what is carried out was endorsed by others, and verified by another | `RiskDecision`, `RiskExecution` |
| Improvements (`continuous_improvement_*`, v082, v083, v087 to v090) | recommendation, plan, measurements, execution, files, chain, certificate | decide, plan, measure, assign, execute, upload, verify, certify | a plan closes on a verified effect; a certificate names files that were checked | `ImprovementPlan`, `ImprovementCertificate` |
| Backups (`backup_transport.py`, `data_protection.py`) | envelope, receipt, remote objects, backup sets | pack, upload, reconcile, claim, export, restore | a claimed copy exists, whole; a restore is the exported moment | `BackupUpload`, `BackupSet` |
| Collections, security requests, privacy, workflows v062-v071, v072-v077 | cases, requests, records | various | records that move no money | none |
| Reports, dashboards, notifications, authentication, operations scripts, mobile client | read-only or I/O | queries, formatting, cryptography | outside the reach of a model of state changes | none |

`PROJECT.json` lists every component with its files and, where it is not modelled, why.

### What is hard

The complete list, each entry at its line, is `PROJECT.json` "hazards". The patterns:

- **Stale decisions.** The scheduler reads the clock before it waits for the row lock. The
  webhook loads the payment before it awaits the provider and writes it back afterwards,
  without a refresh. The closing reads its status before it waits for its locks.
- **Leases.** A worker may outlive its lease, a crashed one leaves its units RUNNING, the
  next one takes them over by force.
- **The provider.** Its answer can be lost after the order exists. Notifications can come
  before the charge is bound, twice, or after one that is newer.
- **Two ways back.** A settlement can be taken back by the reversal of the payment and by
  the reversal of its ledger row.
- **Locks.** A row lock is held across an `await`. Closing requests take their locks in
  two different orders.
- **A moment that is not one.** A review reads payment events first and the ledger later. A
  closing is calculated from rows that go on changing. A backup is made of a live system.
- **No locks at all.** The endpoints of risk decisions and improvements load rows, check
  them and write them back. What others commit in between is neither seen nor kept.
- **A commit in the middle.** The risk assessment of a loan commits the decision it is
  part of, and drops its locks.
- **Two clocks.** A payment belongs to the day the provider approved it, its ledger row to
  the day it was settled. Late charges, months and closings must not confuse them.

## The modules

| Module | Role |
|---|---|
| `SchedulerLease` | the checkpoint row and its lease, shared by run and units |
| `CycleScheduler` | the daily cycle job of one financial date |
| `DailyJob` | what the job promises: the abstract specification of `CycleScheduler` |
| `LedgerBook` | operators of the ledger: what a row is, what may be appended, what is found |
| `PixSettlement` | the contribution Pix, over `LedgerBook` |
| `ContributionMoney` | what the Pix promises: the abstract specification of `PixSettlement` |
| `AnnualClosing` | the closing workflow of one cycle, against money in motion |
| `ClosingCertificate` | what the closing promises: the abstract specification of `AnnualClosing` |
| `InstallmentPix` | the debt of a loan: its installments, the agreement that may replace them, and the Pix of either |
| `PayoutVerification` | the Pix destinations of members and the evidence of their verification |
| `ClosingCalculation` | operators: what each member is due at a cutoff, from dated evidence |
| `ClosingBook` | the books that calculation reads while they go on being written, over `ClosingCalculation` |
| `ClosingPapers` | payout obligations, readiness and statements of a closed cycle, over `ClosingCalculation` |
| `RealizedGains` | gains recorded and reversed by hand |
| `LoanBook` | a loan from its simulation to its repayment, and the member's balances |
| `LoanPlan` | operators: the two installment plans of a loan |
| `LateCharges` | the late charges of one installment and the Pix attempts that materialize them |
| `CycleEntry` | quotas, entry, billing, blocking and exit of a cycle |
| `MonthlyBooks` | reconciliation and closing of months, over `LedgerBook` |
| `RiskDecision`, `RiskExecution` | an executive risk decision until it is ordered; what becomes of it |
| `ImprovementPlan`, `ImprovementCertificate` | a recommendation and its plan; the execution, its files, its certificate |
| `BackupUpload`, `BackupSet` | the upload of a backup; its making and restore |
| `MCOffice` | the small modules that share no state, one behaviour each |
| other `MC...` | symmetry and values of the instances |
| `..._proofs` | theorems and proofs |
| `FiniteSums` | lemmas about sums over finite sets, which the proofs about money need |

A definition named `X_Y` before a definition `X` is `X` with a plausible bug Y seeded in
it (a dropped guard, a forgotten write). No specification uses one. Each property of each
passing run is violated when `X_Y` stands for `X`, which shows that it can fail.

### CycleScheduler

*Unit of interleaving.* Every transaction of the job first locks the `SchedulerRun` row.
A transaction that locks, decides and commits is one action. The three that keep the lock
while they work (snapshot, unit effects, closing) are an acquire and a commit, with time,
faults and crashes in between. A reading of the clock made before the wait for the lock is
an action of its own (`Dispatch`, `ReadUnitClock`), because it is old when it is used.

*State.* `run` and `unit` are the durable rows; `applied` counts how often the effects of
a unit were committed and stands for all the contributions, charges and delinquency states
they write; `lock`, `pc`, `clock`, `todo` are the lock, the program counter, the last
reading and the remaining list of each invocation; `slot` is the redis key.

*Actions.* `ClaimRun` = `get_or_create_run` and `claim_run`; `LockForSnapshot` and
`TakeSnapshot` = the snapshot transaction; `RenewRun`, `ReadUnitClock`, `ClaimUnit`,
`CheckOwner`, `LockUnit`, `CommitUnit`, `FailUnit` = one turn of the loop; `FinalRenew`,
`FinalLock`, `CloseRun` = the last transition; `FailRun` = `mark_run_failed` after a
failed snapshot. `EffectsFail`, `CheckpointFails` and `Crash` are the exceptions the job
catches, the one it catches and survives, and the death of the process. The participations
active at a snapshot are any subset: joining and leaving are free.

### PixSettlement

*Unit of interleaving.* `create_pix`, the webhook and the replay are coroutines of one
event loop with synchronous database calls. They are cut only at their `await`s
(`LoopIsFree`). `Settle` is cut from the check before it, because the cancellation by the
worker and the reversals of the thread pool run in between, then under its locks.

*State.* A contribution has at most one `Payment`, its idempotency key being a function of
the contribution, so both have one name. `payment` is its status, attempt, reconciliation
mark and whether the provider's identity is bound. `handler` is a coroutine: the event it
locked, the `copy` of the payment it loaded, the provider's answer. `Written` is
SQLAlchemy's rule that an attribute is written only when it differs from what was loaded:
a stale copy can leave a newer column alone. `ledger` is the sequence of rows; a position
is a primary key. `order` is the provider's side, `event` a notification and its row.

*Actions.* `Reserve`, `ProviderCreates`, `Bind`, `Preserve`, `CreateFails` = `create_pix`
with its error paths; `Pay`, `Refund`, `Expire` = the provider; `Receive`, `Answer`,
`NoAnswer`, `RecordStatus`, `RefuseCancelled`, `GoSettle`, `Settle` = the webhook and the
replay, which share one function; `Cancel` = exit and block; `ReversePayment`,
`ReverseEntry` = the two reversals; `Restart` = the death of the server.

### AnnualClosing

*Unit of interleaving.* Each endpoint is a transaction that stops at its locks: the closing
row, the Master's user row, and `LOCK TABLE ... IN SHARE MODE` (the fence). What a request
holds and wants at each point is `HoldsRow`, `HoldsMaster`, `HoldsFence` and `Wants...`.
`prepare` takes the Master's row last, the others first: they can wait for each other, and
`Victim` is the database's answer.

*State.* `book` is what was committed: a movement of cash, of what is owed, whether it
leaves a payment event (`traced`), the provider's date and the ledger's stamp. `writing`
is the movement of an open transaction, stamped before its insert waits for the fence. The
ledger's advisory lock makes it one at a time. The hashes of a review are the sets of rows
they are made of: equal hashes are equal sets.

*Abstraction.* The calculation of shares is the sum of what is owed at the cutoff. Which
events and rows it reads, and when, is kept, since that is what moves between review,
approval and close.

### InstallmentPix

*Unit of interleaving.* As in `PixSettlement`: charge requests and the webhook are cut at
their `await`s, the reversals and the administration's decisions run in threads and wait
for row locks. Where a coroutine meets a lock of another coroutine, `ReserveStalls` and
`AnswerStalls` stop the loop until `Restart`. `Retire` commits and `Insert` is a second
transaction without a lock, as in the code. An agreement's decision is one step: it claims the
requested row by its revision and locks the loan before it reads what is open.

*State.* `paid` and `state` are the columns of an installment, of the loan or of the
agreement: both are *debts* under an *owner*, with the same settlement and the same
reversal. `owner` has status and revision. `terms` is the agreement: what was asked for,
what the approval found open, and in how many parts. `payment` is the row with its attempt
and mark, `settlement` what it applied and the states it found and left, `undone` its
reversal. `request` remembers what it loaded (the debt, the amount, the mark) and whether
its locks survive its `await`; `hook` is the notification being worked on.

*Actions.* `Reserve`, `Reuse`, `Retire`, `Insert` = `reserve` of the loan, by what it finds;
`ReservePart` = the agreement's charge; `ProviderCreates`, `Bind`, `Preserve`, `CallFails`
= the call and its outcomes; `Receive`, `Confirm`, `Refuse`, `SettleLoan`, `SettlePart`,
`KnownPart`, `GiveUp` = the webhook; `ReversePayment`, `RequestAgreement`, `Reject`,
`Approve` = the office; `Tick` = midnight, which expires attempts.

*Abstraction.* Late charges are off, which is the default. An installment is due on the
day that is its name. One notification is worked on at a time: how two overlap is the
subject of `PixSettlement`.

### PayoutVerification

*Unit of interleaving.* A request first looks the destination or the attempt up, waits for
the row lock of the member, and then decides. The first reading is kept in `task` and may be
old (`RevokeLocate`, `StartCheck`, `RecordLocate`). What follows the lock is one step, except that the key
of an attempt is looked up under the lock of one member and inserted against the unique
index that all members share (`StartCheck`, `StartInsert`).

*State.* `dest` is the status of each version of a member's destination, `attempt` the rows
of the attempts, `evidence` what was stored for each, `task` what each request is doing.

*Actions.* `Register`, `Replace`, `Revoke` = `member_payout_destination.py`; `StartInsert` =
`start_payout_destination_verification`; `Record` = `record_payout_verification_result` with
its replay, its conflicts and its freshness; `Abandon` = any request that dies. The provider
answers as often, as late and in whatever order it likes. Account data, keys and their
encryption are left out; the verdict of the ownership policy is part of the answer.

### ClosingCalculation and ClosingBook

`ClosingCalculation` is `calculate_cycle_closing` as operators over a record of evidence:
eligibility, the base of each member, the largest-remainder shares, fee, netting, and the set
of refusals (`ClosingContractGap`). `ClosingBook` has the rows that `build_closing_evidence`
reads, and the operations that write them: payment and reversal of a contribution and of an
installment, the daily job that charges and blocks, an exit, an agreement, settlement with
the own balance. Each holds its member's lock to the end and is one step. `first` keeps what
the first calculation after the cutoff gave, to be compared with what any later one gives.
Amounts are cents, moments are days, one loan of one installment, an agreement of one part.

### ClosingPapers and RealizedGains

`ClosingPapers` starts from a snapshot of any of 1 080 closings. Requests to materialize the obligations
lock the closing, look, insert and commit; destinations change; readiness and statements are
functions of what is stored, which is when they read without a lock. Each check the readers
make of the figures is kept, the canonical text is not. In `RealizedGains` a request checks
and inserts in two steps, because nothing locks in between; names stand for keys, sources and
hashes, each of which is unique.

### LoanBook, LoanPlan and LateCharges

`LoanBook` has the commit in the middle: `Approve` sets the status and commits it with the
risk assessment, `Schedule` or `Refuse` is the rest. `Release` locks the group and judges the
limits, the assessment commits and unlocks, `Evaluate` judges them again without a lock, and
`Disburse`, `NotReleasable` and `Redo` are `release_loan` under the locks of member and loan.
A loan is repaid in one payment. The score of the assessment and the wording of policies are
a choice. `LoanPlan` is the arithmetic of both plans in cents.

`LateCharges` is the versioned contract: charges are booked when an attempt is reserved or
confirmed, never recomputed, and corrected by adjustments when money that changes the base of
a charged day is confirmed late or reversed. `Reserve`, `Retire`, `Insert`, `Settle`, `Stale`,
`Mismatch` = the service and the webhook, by what they find; `Reverse` = the reversal in a thread.

### CycleEntry and MonthlyBooks

A quota request locks the cycle and then the member. An entry looks without a lock, locks the
member, and then needs the cycle's row for its references: `BreakDeadlock` is the database.
Time is the months of the cycle; payments are whole.

`MonthlyBooks` fills the ledger by the program's own writers only, so an alarm of the
reconciliation is either true or one of the three the writers cause (see below). A payment has
the month it was approved, settled and reversed in. Every amount is one unit. Numbers of
payments, loans and rows overlap on purpose.

### RiskDecision, RiskExecution, ImprovementPlan, ImprovementCertificate

*Unit of interleaving.* No endpoint locks. A request is a reading (`Read...`), which checks
what it loaded, and later a writing of the columns it changed. `Changed` is SQLAlchemy's rule
that a column equal to its loaded value is not written. In `ImprovementCertificate` a check
reads execution, files and last event one after the other, and `Pack` reads the files again.

*History.* `done`, `completers`, `accepted` and `past` record what was done, because the rows
do not keep it: they may lose one of two approvals given at once.

Notes, conditions, values and hashes are left out; a request may be refused for them.

### BackupUpload and BackupSet

`BackupUpload` has hosts with a lock each, and a remote folder nothing locks. Any call may be
lost, or its answer after it took effect; a session expires; the process is killed between any
two steps; two hosts may upload the same backup. `BackupSet` exports a snapshot, reads the
evidence rows it names, dumps and copies one by one while rows are committed and files
damaged, and restores into an isolated database.

### MCOffice

These small modules share no state, so their product says nothing that each does not say
alone. `MCOffice` has eight variables and a choice: a behaviour picks a part, and its variables
are those of that part. One run checks them all, each property being about its parts. Decisions,
improvements, backups, late charges and loans take their constants from `Office.cfg`, so that a
theorem about `MCOffice` is about any values; papers, gains, entries, months and the closing books
have theirs in the module, and the theorems about any values are in `OfficeParts_proofs`.

## The runs

| Run | Instance | Distinct states | Question |
|---|---|---|---|
| `cycle_day` | 2 invocations, 2 units, lease 2, clock to 4, 1 fault | 300 324 | Do checkpoints, effects and snapshot stay consistent, does the protocol implement `DailyJob`, does each invocation end, and does an undisturbed one close the date? |
| `pix_safety` | 1 contribution of 2, receipts of 1, 2 or 3, 2 handlers | 19 860 | Do contribution, ledger and patrimony agree, and is no confirmed money lost? |
| `pix_book` | 1 contribution, receipts of 1 or 2, 1 handler, both reversals | 2 884 | With generic reversals too, is the book sound, do the services implement `ContributionMoney`, and is confirmed money settled in the end? |
| `closing_safety` | 2 requests, 1 file, cutoff 1, balances 0 and 1, clock to 2, 2 movements, 2 reviews | 1 214 076 | Is a review of one moment, and is the official closing the approved and funded one? |
| `closing_liveness` | 2 requests, 1 movement, 1 review | 21 388 | Does every request end? |
| `debt_pix` | 1 installment of 3, an agreement in 2 parts, receipts of 1 or 3, 2 payments announced twice, 2 requests, 2 days | 2 119 606 | Do debts, owners and receipts agree after settlements, reversals and an agreement in any order, is no closed money unknown, and does an attempt end once? |
| `payouts` | 2 members, 2 versions, 2 keys, 2 attempts, 2 requests, one event that may come again, 3 rows of evidence | 3 163 974 | Do requests and answers that race leave one destination in force, one attempt per key, and evidence that says what was true when it was stored? |
| `office` | see [Bounds](#bounds) | 2 238 916 | Does each of the small modules keep what it promises? |
| `pix_refund_evidence`, `closing_later_money`, `debt_twice`, `loan_unscheduled` | smallest that shows it | | Four statements of the repository's documents and tests that the code does not keep. |

### What the properties say

- `CheckpointMatchesEffects`, `SucceededRunIsComplete`: a unit is SUCCEEDED exactly when
  its effects were committed, and then once. A SUCCEEDED run has done all of its snapshot.
- `ExecutorIsOwner`: a transaction that executes effects owns run and unit although its
  lease may be over. That is why completion need not look at the lease again.
- `StepsAreFenced`: what no step may do, whoever takes it and however late: change the
  committed unit set of a date (`SnapshotImmutable`), bring a lease back
  (`ExpiredLeaseIsNotRevived`), write a unit for a worker that lost the run
  (`OnlyOwnerWritesUnits`).
- `BooksAgree`: the three places that remember a contribution tell one story
  (`MoneyIsAccountedFor`, `LedgerMatchesContributions`, `PatrimonyFollowsPaid`). With generic
  reversals the ledger may say less than the contribution, which the second allows explicitly.
- `NoMoneyIsLost`: a notification is closed only when its money was dealt with
  (`NoPaymentIsForgotten`); confirmed money that was not applied carries the mark
  (`UnappliedMoneyIsMarked`).
- `ReversalsAreSound`, `CancelledTakesNoMoney`: the book and the cancellation under races.
- `ReviewsAreSound`: revision, latest review, approval and snapshot stay in step, which the
  code compares pairwise in several places and relies on (`ReviewMatchesStage`); a payment is
  in both halves of a review or in neither (`ReviewIsOneMoment`).
- `OfficialIsFunded`: the official figures balance with the attested statement, and the
  cash covers what they promise.
- `DebtsAgree` (`DebtMatchesReceipts`, `OwnerFollowsDebts`): the amount paid and the status of a debt are
  those of its receipts, and loan and agreement are closed exactly with their last debt.
  The code computes neither: it adds on settlement and restores on reversal, so this is
  about every order in which the two can come.
- `ClosedMoneyIsKnown`: as `UnappliedMoneyIsMarked`, for attempts that expire, are
  superseded, or are bound from a row that was read before the call.
- `AgreementCoversDebt`: what an agreement claims is what the loan had open, for good.
- `AttemptsEndOnce`: no stale copy revives an attempt.
- `RecordIsSound`, `DeliveriesAreDistinct`, `EvidenceStands`: a destination's versions, attempts
  and states are consistent; a delivery is stored once although its freshness differs when it
  comes again; nothing recorded changes, and CURRENT means in force at the moment of storing,
  not of receiving.
- `BackupsHold`: receipts name one object that is there, whole and marked; a restore that
  reports success has the rows of the exported moment and their files.
- `FiguresHold`: once the cutoff has passed, calculating again gives the same figures or is
  refused, except for a payment the provider dates before the cutoff and confirms later; what
  is distributed is what was earned; the plan of a loan repays its principal.
- `PapersHold`: obligations of all members or none; ready means everyone is paid with money
  that is there; the readers accept what the calculator wrote, but for the statement below.
- `SumsHold`: at any cutoff a gain counts in full or not at all; shares
  add up and each is within a cent of its quota.
- `LoansHold`: a loan is lent once, and cash and own balances follow from what was contributed,
  lent and repaid; booked late charges are those that the history of the principal asks for,
  though they are booked at different times and never recomputed.
- `MonthsHold`: the cycle's capacity holds, contributions have no gap and are of one amount,
  leavers are not billed; a failed check of a month has one of three known reasons, and the
  figures of a closed month change for two reasons only.
- `DecisionsHold`: what is ordered was approved, and endorsed by as many as needed, none of
  them the requester; what is verified was completed by another too; a plan is closed by a
  measurement that another verified; a certificate is a third person's and names no file that
  was not compared with its hash, but one uploaded after the verification; the chain of events
  forks only when two checks overlap.
- `Implements...`: each step of the detailed model is a step of the abstract one or none.
- `EveryAttemptEnds`, `UndisturbedDayCloses`, `ConfirmedIsSettled`, `EveryRequestEnds`:
  what must happen in the end.

### Bounds

- *Scheduler.* A takeover needs two invocations. The clock reaches twice the lease, so a
  lease can run out, be taken over and run out again. Two units separate "one is done" from
  "all are done". One fault suffices for each failure path. Takeovers of takeovers need a
  third invocation: the proofs, which lift all of these bounds, cover them.
- *Pix.* One contribution of 2 with receipts below, at and above it covers partial, exact
  and excess payment. Two handlers overlap in every order. In `pix_book` the contribution
  is number 2, so that the row which reverses row 1 does not carry the number of its
  payment. Events, orders
  and reversals are finite by themselves, and nothing else is bounded. The proofs are about
  any set of contributions and handlers.
- *Closing.* Two requests meet in each pair of operations, on each lock. Movements of one
  unit with two of them in the book give a payment and its reversal, a payment and a loan,
  and a payment that is late. Two reviews are needed for a review that is no longer the
  latest. The clock passes the cutoff. There is one cutoff and one file: more add reviews
  of the same shape. The proofs lift these bounds.

- *Debts.* One installment and two parts, which divide its 3 cents unevenly, separate
  "first" from "last" debt. Two payments are two attempts at one debt, or one at each of
  two debts, and the pairs a reversal can confuse. Receipts of 1 and 3 are partial and
  exact. Two days expire an attempt. A notice that comes twice meets what it did before.
  The proofs have no bound on any of these.
- *Payouts.* Two members' requests for one key, under two locks, need two members, keys and
  requests. Two versions give a replacement while an answer is on its way. One provider event
  that is delivered again meets each change in between.
- *Office.* Uploads: two hosts, two sessions of two chunks. Backups: two files, one written
  before and one after the snapshot. Closing books: once two contributions, which may block their
  member, on 3 days around the cutoff; once a loan of one installment that an agreement or the
  own balance settles. Papers: two members in three states, five sets of gains with a reversed
  one, debts, two requests. Gains: two requests, three names, two days, three rows. Late
  charges: three attempts on four days, short and full payments. Loans: two of one member and
  one short of the limits, two administrators. Entries: two requests of one member over three
  months with a block; two members for the last quota. Months: two, with a payment whose number
  is that of a loan and of a row. Decisions: three administrators and requests, two approvals
  needed; executions and plans: two requests, two administrators, two measurements.
  Certificates: two files, two requests, three events. Each is the least in which two requests
  can overlap around a third fact. Shares: three members, up to 5 cents; plans: 40 cents, three
  rates, six installments.

  The proofs have no bound on any of these but those of closing books and plans.

Symmetry is used for handlers and requests, in the runs without liveness
(`pix_safety`, `closing_safety`, `debt_pix`).
`CHECK_DEADLOCK FALSE` is set for the scheduler, whose day is over when all invocations
ended and the clock stands at its bound, and for the office and the loans, whose parts end
when their days, requests or rows are used up. The other systems never stop.

### Fairness

- *Scheduler.* `SF(Work(a))` for each invocation. A live process goes on executing, and
  PostgreSQL serves the waiters of a row in order, so one that can take the lock again and
  again takes it. `Tick`, faults and dispatch are not fair. `EveryAttemptEnds` holds whatever
  they do; `UndisturbedDayCloses` assumes that nothing fails and no lease runs out.
- *Pix.* Strong fairness for the steps of a coroutine, since the server may restart between
  any two of them and does not do so for ever exactly there. Strong fairness for the receipt
  of each notification: `docs/RELEASE_v040.md:28` says they are resent until confirmed, and
  the replay reaches the stored ones. The provider's answer comes in the end. Nothing makes
  a request, a payment or a refund happen. `pix_book` has one handler: with two the loop
  can stop for good, which is described below.
- *Closing.* Strong fairness for each lock and decision, because PostgreSQL queues
  waiters. Weak fairness for `Victim`: the deadlock detector runs after `deadlock_timeout`
  and finds every circle. Nothing makes a request start.

## Where the code disagrees with its documents

Shown by a run each (`PROJECT.json` "findings" quotes the lines):

1. `pix_refund_evidence`: a handler that loaded the payment earlier and resumes with an
   older answer clears the reconciliation mark that the refund left, and overwrites its
   status. `docs/mercado-pago.md:17` sends refunds to reconciliation.
2. `closing_later_money`: events after the cutoff are part of the hashed calculation
   memory. A payment after the approval makes the approved review stale, and an approved
   closing cannot be reviewed again.
3. `debt_twice`: an approved agreement marks the installments AGREED and leaves their
   attempts alone. Neither `reserve` nor `approve_or_reconcile` looks at that status, so a
   Pix of the old installment is settled, and the parts of the agreement stay due in full.
   `docs/v0.39-release-notes.md:33` says that an agreement reorganises the existing debt.
4. `loan_unscheduled`: the decision sets APPROVED and asks for the risk assessment, which
   commits (`services/financial_risk_v047.py:40`). When the verdict is to block or review, the
   request answers 409, but the loan stays approved without an installment, and can be
   released. `docs/v0.17-financial-engine.md:4-6` puts the installments before the release.

Read in the code, consistent with the models, without a run of their own.

Contributions and payments:

- A payment the Orders API confirms as `processed` (`docs/mercado-pago.md:17`) is settled with
  that status. `reverse_payment` accepts `approved` only (`payment_reversal.py:766`), and
  `payment_financial_events` gives no event for it, which refuses the annual closing.
- `_find_original_ledger` looks at `reference_id` alone (`payment_reversal.py:200`). The row
  that reverses ledger row *n* carries *n*, and so blocks the reversal of payment *n*, which
  `docs/RULE_CATALOG.md:213-216` asks for. Three other searches share the numbers:
  `_payment_ledger_rows`, `_payment_ledger_set_is_exact` and `_ledger_snapshot`.
- The webhook keeps a row lock across its `await` (`api/payments.py:364`). A second delivery of
  the event (`docs/RELEASE_v040.md:28`) waits for that row on the same event loop, which can
  then never resume the first.

- The generic reversal of a `CONTRIBUTION_PAYMENT` row (`services/ledger.py:153`) takes the
  cash out of the fund and leaves the contribution paid, while `README.md:643` of the
  repository says that reversed money stops counting as a participation. `LedgerMatchesContributions` therefore requires a
  standing row only where generic reversals are not used.
- The rest of a partially paid contribution cannot be charged again: the unique payment of
  the contribution exists (`services/contribution_pix_attempts.py:58`), while
  `README.md:723-725` of the repository lets the rest be confirmed later.
- `prepare` locks closing row, tables and Master in this order
  (`services/cycle_closing_workflow.py:193`), the other requests take the Master first.
  `closing_liveness` shows that this ends, by a deadlock error of the database instead of
  `ClosingWorkflowConflict` (`:35`).
- A confirmation that is delivered late belongs before a cutoff that may be closed. The
  closing never looks at pending notifications, although
  `docs/v0.32-piloto-operacional-reconciliacao.md:12` says that they block a closing.
- A ledger row is stamped before its insert waits for the fence. With a cutoff in the
  future, which nothing refuses, a row can enter the books with a stamp before the cutoff
  after the closing was signed.

Closing and its papers:

- A day of charges that is replayed after a later payment was reversed raises "no complete
  dated principal history". Charges accrued from the cutoff's day on, or a block by a daily
  run of that day after the cutoff, make the cutoff uncomputable for good, as does any payment
  of an agreement's principal (`AGREEMENT_BASE_COMPONENT_NOT_CLASSIFIED`) and a late Pix of an
  installment that an agreement replaced (`AGREEMENT_RESTRUCTURE_INTEGRITY_GAP`).
- The statement refuses closed cycles whose memory names a negative gain, as every reversed
  payment leaves one (`cycle_closing_statements.py`, `_trace`). A cycle without participants never becomes ready.
- No closing with a positive payout can become ready: nothing in the code makes a destination
  VERIFIED, and no endpoint calls the verification services. A provider whose pending answer
  carries only a request id can never deliver its final answer, and blocks further attempts.

Loans and agreements:

- `api/loans.py:359` locks the group "so concurrent releases cannot both pass the same risk
  limits"; the assessment's commit drops the lock, and two releases pass together.
- A loan that was disbursed and repaid becomes ACTIVE again when it is released again
  (`loan_engine_v17.py:109`).
- An installment that is settled against what was due on the day of its payment reads PAID,
  although a payment reversed since is missing (`loan_obligation_runtime.py:586`).
- With principals of a few cents the last installment of a plan is negative, and the last part
  of an agreement may be zero or less, and then is never paid.
- The unique pair of loan and status (`models/core.py:1322`) stores one rejected agreement per
  loan: a second stale request can be neither approved nor rejected.

Months and cycles:

- A webhook that comes in the next month, a reversal in a later one, and an expense dated in
  another month make the checks of both months fail for good: nothing clears them. An
  agreement paid, reversed and paid again is `AGREEMENT_SETTLEMENT_INVALID` for good. A month
  may be closed before it ends.
- The entry deadline is compared with the date the member claims (`cycle_foundation.py:132`),
  while `docs/RULE_CATALOG.md:52-57` speaks of the entry. A quota given after contributions
  exist makes each later entry of that member fail. `create_quota` allows several quotas where
  `docs/RULE_CATALOG.md:39-41` allows one. A contribution paid before an exit and reversed
  after it is open again.

Decisions:

- Two approvals at once leave one name in the row; two completions may leave the verifier's name
  in it; two decisions at once may reject what is then endorsed. `verify` compares the reviewer
  of an effect with the last reviewer, and there is none before the first
  (`executive_risk_effectiveness_v081.py:37`).
- A second completion that commits after the verification reopens an execution, also a certified
  one. An upload that read COMPLETED may commit after the verification, and the certificate then
  names a file nobody checked. Two uploads at once leave a stale manifest; two checks at once
  fork the chain, and no certificate is given any more. The events of a failed verification are
  rolled back with it.

Backups:

- `retention_candidates` (`backup_transport.py:893`) keeps the oldest verified copy, while its
  test speaks of the last. A process killed while it packs leaves a file that each later upload
  refuses. The status query sends `Content-Range: */size` without its unit.

## The proofs

TLAPS proves the following for every value of the constants that satisfies the named
assumptions: a positive lease and a null owner that is no owner, natural numbers for the
bounds, positive amounts, positive numbers of contributions, installments and parts, positive
versions, one or two approvals, and no administrator with the id 0, which stands for nobody in
the models of columns that may be null. Where money is summed, that there are finitely many
installments, attempts, members, loans, payments and expenses. No proof leaf is left open.

### FiniteSums

`SumFunctionOnSet(w, S)` is a fold that picks the elements of `S` one after the other, in an
order nobody knows. The module shows that the order is irrelevant: a sum depends on the values of
`w` on `S` only (`SumSame`), and grows by the element that is added, whichever it is (`SumTakes`).

The library's induction theorems take an operator, which none of the provers can instantiate. In
their place there is the least counterexample: if a claim is wrong of a finite set, it is wrong of
one with the fewest elements (`SmallestSet`), which is not empty, and without the element the fold
picks it is smaller. What else the proofs need is one such argument each or follows: sums of
numbers, of a part, of a difference, bounds (`SumAtMost`), the number of those that come first in
a strict order (`FirstOnes`, for the cents that a division leaves), and that sets with a key in
common have as many elements (`OneToOne`, `CountByKey`).

### CycleScheduler_proofs

`IInv` = `TypeOK` and
`LockInv` (exactly the invocation inside a transaction has the lock),
`OwnerInv` (inside, it owns run and unit; before its claim, nothing),
`TodoInv` (its list is part of the snapshot, and is not empty in the loop),
`CheckpointMatchesEffects`, `SucceededRunIsComplete`.

`CheckpointMatchesEffects` alone is not inductive: `CommitUnit` does not look at the
lease, and without `OwnerInv` it might commit a unit that another invocation completed.
`OwnerInv` holds because ownership changes only under the lock. Claiming changes the owner
of a run, so an invocation before its claim must own nothing.

Theorems: `TypeCorrect`, `EffectsAtMostOnce`, `ClosedDatesAreComplete`, `Fencing`,
`StepsFenced` (from `SnapshotNeverChanges`, `NoLeaseRevival`, `OwnerWrites`), and
`Refinement`, that the protocol implements `DailyJob`.

### PixSettlement_proofs

`IInv` = `TypeOK` and
`OrderInv`, `TaskInv` (what a handler asked about exists, and a confirmation has an amount),
`MoneyIsAccountedFor`, `PatrimonyFollowsPaid`,
`BookInv` (a row either confirms the payment of its number with the amount applied, or
reverses an earlier confirmation; no two do the same), `RowInv` (settled payments have their
row, of a reversed one it stands no longer), `StandInv` (without generic reversals, it
stands until then).

The core is that only three kinds of step move money: a credit, a reversal of a payment
and a correction of the ledger. Every action is one of these or leaves the book alone
(`MovesStep`), and each keeps the invariants of the book (`MovesKeepBook`). What a handler
remembers is irrelevant to them, because `Settle` decides under its locks from the
contribution and the settlement. That is the reason why the stale copy costs evidence
(finding 1) but not money.

`NoMoneyIsLost` is about what a stale copy may do, and the invariants of the book say nothing
of that, so it has a second invariant. `LInv` = `IInv` and
`ChargeInv` (a charge being created is not bound, and nobody paid an order that is not there),
`SeenInv` (of a handler between its loads and its writes: the notification was sent, the
payment bound; a mark it loaded still stands or the money was settled; and if it was told that
a paid order is not confirmed, the order was refunded), `NoMoneyIsLost`.

`SeenInv` is inductive because of what no step takes back (`Keeps`): a notification sent, the
identity of a payment, a refund, a settlement, and a mark until the money is settled. Each
step is of one of six `Kinds` (it creates a charge, is the provider's, ends a handler, takes it
further, concerns no handler, or restarts the server), and each kind is shown to keep these.

Theorems: `TypeCorrect`, `BooksAgreement` (from `MoneyAccounted`, `PatrimonyCorrect`,
`LedgerMatches`), `ReversalsSound`, `CancelledIsClosed`, `MoneyIsNeverLost`, and `Refinement`, that
the services implement `ContributionMoney`.

### AnnualClosing_proofs

`IInv` = `TypeOK` and
`TasksAreGood` (a request past its claim sees the closing row it read; one about to decide
holds all the events there are), `RowHasOneHolder`, `RevisionsAreBounded`,
`ReviewsAreOfBook`, `ReviewMatchesStage`, `ReviewIsOneMoment`.

The status read before the lock is safe to decide on because the claim compares the row
with what was read, and one request at a time is past its claim. The events read first and
the ledger read later are of one moment because the fence is up in between.

`OfficialIsFunded` has a second invariant, `Funding`. The cash that covers the official figures is
that of the attestation, which the decision to close compares with the book; so it is needed that what a
request decides about, and what was reviewed, was attested (`ProofsAreAttested`), and that a
snapshot is of rows that are in the book (`SnapshotsAreOfBook`). These rows never change, so later
movements leave their sums alone (`SameRowsSameSums`).

Theorems: `TypeCorrect`, `ReviewsSound` (from `StagesMatch`, `ReviewsAreOfOneMoment`),
`OfficialFunded`, and `ClosingImplementsCertificate`.

### InstallmentPix_proofs

`IInv` = `Tables` (each table has its keys), `HasRow` (a request that talks to the provider
does so for the debt of its row), `KeepsMark` (only a request that reused an attempt, under
locks it still holds, has loaded a mark), `PartsNeverEnd` (attempts of an agreement are
released, never ended), `HookHasRow`, `PaidIsBound`, `ClosedMoneyIsKnown`.

`bind_provider` clears the mark of the row it loaded. That this never hides money is not
obvious: it follows because a loaded mark implies the lock, the lock keeps everyone else
from binding the row, and a row that is not bound was shown to nobody and so was not paid.

The second invariant, `MoneyInv`, is about what is owed. Settlements add, reversals restore the
states that the settlement remembers, and only the latest settlement of an owner may be taken
back. Its part `LedgerInv` is `DebtsAgree` and
`ReceiptsAreKnown`, `PartsAreOfAgreement`, `BeforeApproval`, `PlanStands` (whose receipt is
whose, and that there are none of an agreement before it is approved),
`LatestMayGo` (what the latest settlement remembers still fits the debt without it, and is not
from before an approval),
`LoanIsPaid` (the installments count as paid, together, what the receipts in force say),
`FoundCovers` (what the approval found open, with what was received before, is the loan).

The core is `LatestMayGo`. A settlement raises the revision of its owner, so every other one is
from then on no longer the latest; an approval raises it too, and what was settled before cannot be
taken back past it. `FoundCovers` is why `AgreementCoversDebt` holds "for good": the receipts from
before the approval are out of reach.

Theorems: `Invariance`, `MoneyIsKnown`, `EndsOnceHolds`, `MoneyInvariance`, `TypesHold`,
`DebtsAgreeHolds` and `AgreementCovers`.

### PayoutVerification_proofs

`IInv` = `TypeOK` and `LockInv` (a request between its check and its insert is the only one for
its member, and the check still holds), `RecordInv` (a result is recorded for an attempt that
exists), `RecordIsSound`, `DeliveriesAreDistinct`.

The member's lock serialises the requests for one destination, and the unique index the
members that use one key. What was read before the lock is used for nothing but to find the
row, so no invariant has to speak of it.

Theorems: `TypeCorrect`, `RecordSound`, `DeliveriesDistinct`, and `EvidenceIsPermanent`, an
action property that follows from the same invariant.

### OfficeParts_proofs

The parts of the office but for the closing books and the plans, one invariant each. The four
parts that decide have one hazard:
requests load rows, check them, and write later over what others wrote, without a lock. An
invariant about rows alone is therefore not inductive. Each says of a request in flight what its
check made sure of, in terms that no later write can undo.

- `DecisionInv`. A copy of the governance row that counts an approval names an endorser, and one
  that says AUTHORIZED or is validated was endorsed by enough. Two approvals at once may leave
  one name in the row. Still, an approval that loaded a count of one knows an endorser other than
  its own administrator, and with itself there are two, whatever the row says by then.
- `ExecutionInv`. A name in a column is replaced and never taken away, completions are never
  forgotten; so whoever may verify goes on having another who completed.
- `PlanInv`. Measurements are added, who made one and what it showed stay, and one that another
  verified stays so. A request that verifies remembers the number of a measurement.
- `CertificateInv`. What was there when the first verification looked is still there; a
  certificate being packed has compared all but late files. `ChainInv`: as long as no two checks
  overlapped, one check is in flight, its event is younger than any in the chain, and its
  predecessor is the chain's last.
- `UploadInv`. A host that is about to mark or claim an object holds a whole one that is in the
  folder, and no two hosts hold different ones (`OneCopy`). What is in the folder stays there as
  it is, so a lost answer or a killed process leaves both true.
- `BackupInv`. The set lists the exported snapshot, a restore is of a complete set, and what it
  has put in place so far is of the snapshot.

The parts that count money relate a book to what its rows sum to.

- `LateInv`. The ledger of charges is the one that the history of the principal asks for, up to
  its cursor (`LedgerFollows`), though five actions write it and none computes it anew. What
  makes this true is that nothing was charged or settled after the day of the one attempt that is
  pending (`ChargeIsLatest`): neither its settlement nor a reversal changes a day that was charged.
  The proof shows on its way that, with one installment, no adjustment is ever booked.
- `LendingInv` is the claim itself on typed rows: each step that moves money reads, in the same
  step, the flag of the loan that it sets.
- *Shares* have no steps. The floors leave a residual, which is less than the number of members
  with a remainder; the order by remainder and number is strict, so exactly as many as there are
  cents left come first (`FirstOnes`).
- `PapersInv`. The closing had no refusal and the money, and its obligations are none or all. The
  checks of the readers then follow from the arithmetic of the calculation.
- `GainInv`. A row takes back an earlier one of its amount, not before its day, and no two take
  back the same, which the table refuses when rows are inserted, however many requests looked.
- `EntryInv` = `RoomInv` (one request for quotas at a time holds the cycle, and what it counted
  still fits) and `DuesInv` (the contributions of a member are those of its first months, alike).
- `MonthlyInv` = `BooksInv` (each settled or reversed payment and each dated expense has its rows,
  in the month of the step; rows are of the current month when they are written) and `ShutInv`
  (what was counted for a month closed after its end was counted over sets that lack at most the
  payments that came late, and the rows that share a number).

Theorems: `Endorsement`, `Verification`, `Closure`, `Certification`, `UploadClaimsHold`,
`RestoreHolds`, `LateCharging`, `LendingOnce`, `SharesAreFair`, `PapersAgreement`,
`GainsCountOnce`, `EntriesHold`, `MonthsStand`, for any numbers of people, requests, measurements,
files, hosts, sessions, attempts, days, loans, amounts, months and payments.

### Office_proofs

That the office as it is model-checked keeps them. A part of `MCOffice` and the same part of
`OfficeParts_proofs` are two instances of one module over different variables; the lemmas
`Same...` say that they begin alike, step alike and promise alike. `OfficeInv` says that the part
which is played keeps its invariant; the choice of the part never changes. The quotas are
played with one member and, as the crowd, with two: the crowd needs a second instance of
`OfficeParts_proofs`, and its invariant `CrowdInv` stands alone.

Theorems: `DecisionsAreSound`, `BackupsAreSound`, `LoansAreSound`, `PapersAreSound`,
`SumsAreSound` and `MonthsAreSound`, which state the run's properties of these names.

### Only model-checked

Liveness (`EveryAttemptEnds`, `UndisturbedDayCloses`, `ConfirmedIsSettled`,
`EveryRequestEnds`) is out of the prover's reach under fairness.

`FiguresHold` (`MCOffice`). `LoanPlan!PlanRepays` has powers, for which the provers have no theory,
and a balance that is defined by recursion; besides, that a last installment is within a cent a
month of the others is a fact about plans of some months, and not about any. That the figures of a
closing are stable and balance (`ClosingBook`) is not proved yet.

## What is not modelled

*Inside the modelled components.* The hashes of the ledger and of the reviews, because they
are functions of what is modelled. Receipts, audit rows and notifications, which are written
with the transaction they describe and decide nothing. `ledger_posted_at`, which is derived.
Counters and error texts of the scheduler, which nobody reads. The effects of a unit are one
committed step: contributions, charges and delinquency of one participation commit together.
An order the provider creates after the call was reported as failed: no
code can find it, and `CreateFails` leaves the placeholder that blocks a second charge.
Two requests that create the closing row at once: the unique index keeps one. `LOCK TABLE`
is one step, though PostgreSQL takes the tables one by one. External gains, which no
endpoint calls. The record of a failed file verification, which is rolled back with the
request it refuses. Notifications without an identity, which share an event
(`api/payments.py:292`): each notice has its own event, as when the provider sends one.

`PixSettlement` and `InstallmentPix` leave late charges to `LateCharges` and `ClosingBook`, and
the guard of a reversal on the member's own balance to `LoanBook`. Settlement and renegotiation
of a loan with the own balance (`loan_payments_v17.py`) have no caller in the API; what such a
settlement does to a closing is in `ClosingBook`. The calculation inside `AnnualClosing` is the
sum of what is owed; `ClosingBook` has the rest. In the reconciliation, the checks of agreements
and of the shape of stored evidence; in the papers, the canonical text and its validation; in
the improvements, audit snapshots and finalization, which copy what the modelled rows hold; in
the payout destinations, account formats and encryption.

*Components.* Reports, dashboards and projections only read. Authentication, encryption, the
provider's HTTP client, seeds and the mobile client are I/O, cryptography or presentation.
Collections, security requests, privacy, the workflow engine and the risk records of v072 to
v077 are records with a status column that move no money and that one request changes at a time.
The daily tasks call the services of the other components one after the other; what each of
them does is in the module of its component.

## The plan

What has been modelled follows what is at stake: the day of the cycle, the money of a
contribution, the closing, the debts, then the parts around them. Next, in this order:

1. Proofs. `FiguresAreStable` and `FiguresBalance` of `ClosingBook`, with `SharesAreFair`.
2. `AnnualClosing` with a fence of two tables, since `LOCK TABLE` takes them one by one while a
   settlement takes them in the order of its flushes; and a cutoff in the future.
3. `ClosingPapers` over `AnnualClosing`: the snapshot of one as the evidence of the other.
4. `CycleEntry` in place of the free snapshot of `CycleScheduler` and the free `Cancel` of
   `PixSettlement`.
5. The workflow engine and CAPA, in the shape of `RiskDecision`.
