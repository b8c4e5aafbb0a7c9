------------------------- MODULE OfficeParts_proofs -------------------------
(***************************************************************************)
(* What the parts of the office that decide, save, charge, lend and keep   *)
(* the papers, the quotas and the books promise, for any number of people, *)
(* requests, measurements, files, hosts, sessions, attempts, loans, months *)
(* and payments.  No part shares state with another: each theorem is about *)
(* the variables of its own part, and where two parts name a variable      *)
(* alike, about what that name stands for there.                           *)
(*                                                                         *)
(* The parts that decide, and those that admit a gain or a member, have the *)
(* same hazard, and their proofs the same shape.  Requests load rows, check *)
(* them and write later, over what others wrote; so the invariant says of  *)
(* every request in flight what its check made sure of, in terms that no   *)
(* later write can undo: who endorsed, who completed, what was measured,   *)
(* which files there were, which days are taken.                           *)
(*                                                                         *)
(* The parts that count money relate a book to what receipts, loans, papers *)
(* and payments sum to, with the sums of FiniteSums.                       *)
(***************************************************************************)
EXTENDS Integers, Sequences, FiniteSets, FiniteSetTheorems, FiniteSums, TLAPS

CONSTANTS
    Admins, Requester, Required, DecisionRequests,   \* a decision
    Officers, Requests,                              \* its execution
    MaxMeasurements,                                 \* an improvement
    Assignee, Files, MaxEvents,                      \* its certificate
    Hosts, Sessions, Chunks, None,                   \* the upload of a backup
    BackupFiles,                                     \* a backup
    Attempts, Due, LastDay, Principal, Interest,     \* a late installment
    Fine, Shortfalls,
    Members, Loans, BorrowerOf(_), Amount(_),        \* the loans of a group
    Opening, Quota, NormalLimit, MinCash,
    MaxExposure, Simultaneous, Lenders,
    Cutoff, Never, Evidence, Cash, Destinations, Clerks, \* the papers of a closed cycle
    GainRequests, GainNames, GainDays, GainAmounts,  \* gains
    MaxGains,
    Enrolled, QuotaRequests, EntryRequests, Span,    \* the quotas of a cycle
    Deadline, Capacity, Streak, Horizon,
    Bills, Purposes, Lent, Costs, LastMonth,         \* the months of a book
    MaxEntries

VARIABLES
    request, ordered,
    decision, governance, done,
    execution, effect, completers,
    recommendation, plan, measurements, accepted,
    rows, disk, chain, events, certificate, past,
    envelope, receipt, drive, proc,
    store, snapshot, set, restored,
    day, ledger, inst, attempt, order, settlement, undone, reserved,
    simulation, loan, contributed, position, cash, admin,
    evidence, figures, funds, destination, payables, clerk,
    gained, named, claims,
    month, units, participation, billed, quota, entry,
    today, bill, book, spent, shut

Decision == INSTANCE RiskDecision WITH Requests <- DecisionRequests
Execution == INSTANCE RiskExecution WITH Admins <- Officers
Improvement == INSTANCE ImprovementPlan WITH Admins <- Officers
Certificate == INSTANCE ImprovementCertificate

\* A priority asks for one approval or two, and no administrator's id is the 0
\* that stands for nobody.
Assumptions ==
    /\ Required \in {1, 2}
    /\ Decision!Nobody \notin Admins /\ Certificate!Nobody \notin Admins
    /\ Execution!Nobody \notin Officers /\ Improvement!Nobody \notin Officers

-----------------------------------------------------------------------------
(* A decision, its endorsement and the order to carry it out.               *)

GovernanceStatuses == {"none", "PENDING", "AWAITING_SECOND_APPROVAL", "AUTHORIZED"}

\* The decision was approved, and enough administrators endorsed it.
Endorsed == done.approved /\ Cardinality(done.endorsers) >= Required

\* The history: nobody endorsed what he asked for, and an approval is remembered.
EndorsementInv ==
    /\ done = [endorsers |-> done.endorsers, approved |-> done.approved]
    /\ done.approved \in BOOLEAN
    /\ IsFiniteSet(done.endorsers)
    /\ Requester \notin done.endorsers
    /\ decision = "APPROVE" => done.approved

\* A row, or a copy of it: the first name is an endorser's once one is counted.
SoundRow(g) ==
    /\ g = [status |-> g.status, count |-> g.count, first |-> g.first, second |-> g.second, valid |-> g.valid]
    /\ g.status \in GovernanceStatuses
    /\ g.count \in 0 .. 2
    /\ g.count # 0 => g.first \in done.endorsers
    /\ g.status = "AUTHORIZED" \/ g.valid => Endorsed

\* The row exists and names an endorser.
NamedRow == governance.status # "none" /\ governance.first \in done.endorsers

\* What a request knows from its check is still true of the history.
DecisionRequest(r) ==
    /\ request[r] = [op |-> request[r].op, admin |-> request[r].admin, seen |-> request[r].seen]
    /\ request[r].op \in {"validate", "order"} => Endorsed
    /\ request[r].op = "approve" =>
           /\ SoundRow(request[r].seen)
           /\ request[r].seen.status \in Decision!Undecided
           /\ request[r].seen.count < 2
           /\ request[r].seen.count # 0 => NamedRow
           /\ request[r].admin # Requester
           /\ request[r].admin # request[r].seen.first
           /\ done.approved

\* The inductive invariant.
DecisionInv ==
    /\ EndorsementInv
    /\ SoundRow(governance)
    /\ DOMAIN request = DecisionRequests /\ request = [r \in DecisionRequests |-> request[r]]
    /\ \A r \in DecisionRequests : DecisionRequest(r)
    /\ ordered => Endorsed

\* The first state.
LEMMA DecisionStarts == ASSUME Assumptions PROVE Decision!Init => DecisionInv
<1> SUFFICES ASSUME Decision!Init PROVE DecisionInv
  OBVIOUS
<1>1. EndorsementInv
  BY FS_EmptySet DEF Decision!Init, EndorsementInv
<1>2. SoundRow(governance)
  BY DEF Decision!Init, Decision!NoGovernance, SoundRow, GovernanceStatuses
<1>3. \A r \in DecisionRequests : DecisionRequest(r)
  BY DEF Decision!Init, Decision!Idle, DecisionRequest
<1> QED BY <1>1, <1>2, <1>3 DEF Decision!Init, DecisionInv

\* The history forgets nothing.
EndorsementsStay ==
    /\ done.endorsers \subseteq done'.endorsers
    /\ Endorsed => Endorsed'
    /\ done.approved => done'.approved
    /\ NamedRow => NamedRow'

\* What a request knows stays true while another acts.
LEMMA DecisionOthers ==
    ASSUME DecisionInv, EndorsementsStay, NEW r \in DecisionRequests, NEW x, request' = [request EXCEPT ![r] = x],
           NEW q \in DecisionRequests, q # r
    PROVE  DecisionRequest(q)'
<1>1. request'[q] = request[q]
  BY DEF DecisionInv
<1>2. DecisionRequest(q)
  BY DEF DecisionInv
<1> QED BY <1>1, <1>2 DEF DecisionRequest, SoundRow, EndorsementsStay

\* A request that checked something loads the row and knows what it checked.
LEMMA DecisionLoads ==
    ASSUME DecisionInv, NEW r \in DecisionRequests, NEW op, NEW a, Decision!Loads(r, op, a),
           op \in {"validate", "order"} => Endorsed,
           op = "approve" => Decision!MayApprove(a)
    PROVE  DecisionInv'
<1> DEFINE x == [op |-> op, admin |-> a, seen |-> governance]
<1>1. request' = [request EXCEPT ![r] = x] /\ UNCHANGED <<decision, governance, ordered, done>>
  BY DEF Decision!Loads
<1>2. EndorsementsStay
  BY <1>1 DEF EndorsementsStay, Endorsed, NamedRow
<1>3. request'[r] = x
  BY <1>1 DEF DecisionInv
<1>4. DecisionRequest(r)'
  <2>1. op = "approve" => SoundRow(governance)' /\ governance.status \in Decision!Undecided /\ governance.count < 2
                          /\ a # Requester /\ a # governance.first /\ done.approved
                          /\ (governance.count # 0 => NamedRow)
    BY <1>1 DEF DecisionInv, Decision!MayApprove, EndorsementInv, SoundRow, Endorsed, NamedRow, Decision!Undecided
  <2> QED BY <1>1, <1>3, <2>1 DEF DecisionRequest, Endorsed, SoundRow, NamedRow
<1>5. \A q \in DecisionRequests : DecisionRequest(q)'
  BY <1>1, <1>2, <1>4, DecisionOthers
<1>6. EndorsementInv' /\ SoundRow(governance)' /\ (ordered => Endorsed)'
  BY <1>1 DEF DecisionInv, EndorsementInv, SoundRow, Endorsed
<1> QED BY <1>1, <1>5, <1>6 DEF DecisionInv

\* A request that wrote, or gave up, is idle; it keeps DecisionInv when it keeps the rest.
LEMMA DecisionWrites ==
    ASSUME DecisionInv, EndorsementsStay, NEW r \in DecisionRequests, request' = [request EXCEPT ![r] = Decision!Idle],
           EndorsementInv', SoundRow(governance)', (ordered => Endorsed)'
    PROVE  DecisionInv'
<1>1. DecisionRequest(r)'
  BY DEF DecisionInv, DecisionRequest, Decision!Idle
<1>2. \A q \in DecisionRequests : DecisionRequest(q)'
  BY <1>1, DecisionOthers
<1> QED BY <1>2 DEF DecisionInv

\* Adding an endorser to enough endorsers leaves enough.
LEMMA EndorsersGrow ==
    ASSUME Assumptions, NEW S, IsFiniteSet(S), NEW a
    PROVE  /\ IsFiniteSet(S \cup {a})
           /\ Cardinality(S) >= Required => Cardinality(S \cup {a}) >= Required
           /\ Required = 1 => Cardinality(S \cup {a}) >= Required
           /\ \A b \in S : b # a => Cardinality(S \cup {a}) >= Required
<1>1. IsFiniteSet(S \cup {a})
  BY FS_AddElement
<1>2. Cardinality(S \cup {a}) \in Nat /\ Cardinality(S) \in Nat /\ Cardinality(S) <= Cardinality(S \cup {a})
  BY <1>1, FS_CardinalityType, FS_Subset
<1>3. Cardinality(S \cup {a}) >= 1
  <2>1. Cardinality({a}) = 1
    BY FS_Singleton
  <2> QED BY <1>1, <1>2, <2>1, FS_Subset
<1>4. \A b \in S : b # a => Cardinality(S \cup {a}) >= 2
  <2> SUFFICES ASSUME NEW b \in S, b # a PROVE Cardinality(S \cup {a}) >= 2
    OBVIOUS
  <2>1. Cardinality({a}) = 1 /\ IsFiniteSet({a})
    BY FS_Singleton
  <2>2. Cardinality({a} \cup {b}) = 2 /\ IsFiniteSet({a} \cup {b})
    BY <2>1, FS_AddElement
  <2>3. {a} \cup {b} \subseteq S \cup {a}
    OBVIOUS
  <2> QED BY <1>1, <1>2, <2>2, <2>3, FS_Subset
<1> QED BY <1>1, <1>2, <1>3, <1>4 DEF Assumptions

\* An approval that was checked makes the row sound, though it is written over
\* what others wrote meanwhile.
LEMMA ApprovalKeeps ==
    ASSUME Assumptions, DecisionInv, NEW r \in DecisionRequests, Decision!Approve(r)
    PROVE  DecisionInv'
<1> DEFINE g == request[r].seen
           a == request[r].admin
           status == IF g.count + 1 >= Required THEN "AUTHORIZED" ELSE "AWAITING_SECOND_APPROVAL"
           new == [governance EXCEPT !.count = g.count + 1,
                                     !.first = IF g.count = 0 THEN a ELSE @,
                                     !.second = IF g.count = 1 THEN a ELSE @,
                                     !.status = Decision!Changed(g.status, status, @)]
<1>1. /\ request[r].op = "approve" /\ request' = [request EXCEPT ![r] = Decision!Idle]
      /\ governance' = new
      /\ done' = [done EXCEPT !.endorsers = @ \cup {a}]
      /\ UNCHANGED <<decision, ordered>>
  BY DEF Decision!Approve, Decision!Writes
<1>2. /\ SoundRow(g) /\ g.status \in Decision!Undecided /\ g.count \in {0, 1}
      /\ a # Requester /\ a # g.first /\ done.approved /\ (g.count # 0 => NamedRow)
  <2>1. DecisionRequest(r)
    BY DEF DecisionInv
  <2> QED BY <1>1, <2>1 DEF DecisionRequest, SoundRow
<1>3. done'.endorsers = done.endorsers \cup {a} /\ done'.approved = done.approved
      /\ done' = [endorsers |-> done'.endorsers, approved |-> done'.approved]
  BY <1>1 DEF DecisionInv, EndorsementInv
<1>4. /\ IsFiniteSet(done'.endorsers)
      /\ Cardinality(done.endorsers) >= Required => Cardinality(done'.endorsers) >= Required
      /\ Required = 1 => Cardinality(done'.endorsers) >= Required
      /\ \A b \in done.endorsers : b # a => Cardinality(done'.endorsers) >= Required
  <2>1. IsFiniteSet(done.endorsers)
    BY DEF DecisionInv, EndorsementInv
  <2> HIDE DEF a
  <2> QED BY <1>3, <2>1, EndorsersGrow, Zenon
<1>5. EndorsementsStay
  <2>1. governance'.first = IF g.count = 0 THEN a ELSE governance.first
    BY <1>1 DEF DecisionInv, SoundRow
  <2>2. governance'.status = Decision!Changed(g.status, status, governance.status)
    BY <1>1 DEF DecisionInv, SoundRow
  <2>3. NamedRow => NamedRow'
    BY <1>3, <2>1, <2>2 DEF NamedRow, Decision!Changed
  <2> QED BY <1>3, <1>4, <2>3 DEF EndorsementsStay, Endorsed
<1>6. EndorsementInv'
  BY <1>1, <1>2, <1>3, <1>4 DEF DecisionInv, EndorsementInv
<1>7. g.count + 1 >= Required => Endorsed'
  <2>1. CASE Required = 1
    BY <2>1, <1>2, <1>3, <1>4 DEF Endorsed
  <2>2. CASE Required = 2 /\ g.count = 1
    BY <2>2, <1>2, <1>3, <1>4 DEF Endorsed, SoundRow
  <2> QED BY <2>1, <2>2, <1>2 DEF Assumptions
<1>8. SoundRow(governance)'
  <2>1. SoundRow(governance)
    BY DEF DecisionInv
  <2>2. /\ governance' = [status |-> governance'.status, count |-> governance'.count, first |-> governance'.first,
                          second |-> governance'.second, valid |-> governance'.valid]
        /\ governance'.count = g.count + 1 /\ governance'.valid = governance.valid
        /\ governance'.first = IF g.count = 0 THEN a ELSE governance.first
        /\ governance'.status = Decision!Changed(g.status, status, governance.status)
    BY <1>1, <2>1 DEF SoundRow
  <2>3. governance'.status \in GovernanceStatuses /\ (governance'.status = "AUTHORIZED" \/ governance'.valid => Endorsed')
    BY <1>2, <1>5, <1>7, <2>1, <2>2 DEF Decision!Changed, SoundRow, GovernanceStatuses, EndorsementsStay
  <2>4. governance'.first \in done'.endorsers
    BY <1>2, <1>3, <2>1, <2>2 DEF SoundRow, NamedRow
  <2> QED BY <1>2, <2>2, <2>3, <2>4 DEF SoundRow
<1>9. (ordered => Endorsed)'
  BY <1>1, <1>5 DEF DecisionInv, EndorsementsStay
<1> QED BY <1>1, <1>5, <1>6, <1>8, <1>9, DecisionWrites

\* The steps that leave governance and endorsers alone, and those that write
\* what a check made sure of.
LEMMA DecisionKeeps ==
    ASSUME Assumptions, DecisionInv, [Decision!Next]_(Decision!vars)
    PROVE  DecisionInv'
<1>1. CASE UNCHANGED Decision!vars
  BY <1>1 DEF Decision!vars, DecisionInv, EndorsementInv, SoundRow, DecisionRequest, Endorsed, NamedRow
<1>2. ASSUME NEW r \in DecisionRequests, Decision!ReadDecision(r) PROVE DecisionInv'
  <2>1. PICK verdict \in {"APPROVE", "REJECT"} : Decision!Loads(r, verdict, Decision!Nobody)
    BY <1>2 DEF Decision!ReadDecision
  <2> QED BY <2>1, DecisionLoads
<1>3. ASSUME NEW r \in DecisionRequests, Decision!Decide(r) PROVE DecisionInv'
  <2>1. PICK verdict \in {"APPROVE", "REJECT"} :
            /\ Decision!Writes(r, verdict)
            /\ decision' = verdict
            /\ done' = [done EXCEPT !.approved = @ \/ verdict = "APPROVE"]
            /\ UNCHANGED <<governance, ordered>>
    BY <1>3 DEF Decision!Decide
  <2>2. /\ done'.endorsers = done.endorsers
        /\ done'.approved = (done.approved \/ verdict = "APPROVE")
        /\ done' = [endorsers |-> done'.endorsers, approved |-> done'.approved]
    BY <2>1 DEF DecisionInv, EndorsementInv
  <2>3. EndorsementsStay
    BY <2>1, <2>2 DEF EndorsementsStay, Endorsed, NamedRow
  <2>4. EndorsementInv'
    BY <2>1, <2>2 DEF DecisionInv, EndorsementInv
  <2>5. SoundRow(governance)' /\ (ordered => Endorsed)'
    BY <2>1, <2>2, <2>3 DEF DecisionInv, SoundRow, EndorsementsStay
  <2> QED BY <2>1, <2>3, <2>4, <2>5, DecisionWrites DEF Decision!Writes
<1>4. ASSUME NEW r \in DecisionRequests, Decision!ReadSync(r) PROVE DecisionInv'
  BY <1>4, DecisionLoads DEF Decision!ReadSync
<1>5. ASSUME NEW r \in DecisionRequests, Decision!Open(r) PROVE DecisionInv'
  <2>1. UNCHANGED <<decision, ordered, done>> /\ request' = [request EXCEPT ![r] = Decision!Idle]
    BY <1>5 DEF Decision!Open, Decision!Writes
  <2>2. CASE governance.status = "none"
    <3>1. governance' = [status |-> "PENDING", count |-> 0, first |-> Decision!Nobody, second |-> Decision!Nobody, valid |-> FALSE]
      BY <1>5, <2>2 DEF Decision!Open, Decision!NoGovernance
    <3>2. SoundRow(governance)'
      BY <3>1 DEF SoundRow, GovernanceStatuses
    <3>3. EndorsementsStay /\ EndorsementInv' /\ (ordered => Endorsed)'
      BY <2>1, <2>2 DEF EndorsementsStay, Endorsed, NamedRow, DecisionInv, EndorsementInv
    <3> QED BY <2>1, <3>2, <3>3, DecisionWrites
  <2>3. CASE governance.status # "none"
    <3>1. governance' = governance
      BY <1>5, <2>3 DEF Decision!Open
    <3>2. EndorsementsStay /\ EndorsementInv' /\ (ordered => Endorsed)' /\ SoundRow(governance)'
      BY <2>1, <3>1 DEF EndorsementsStay, Endorsed, NamedRow, DecisionInv, EndorsementInv, SoundRow
    <3> QED BY <2>1, <3>2, DecisionWrites
  <2> QED BY <2>2, <2>3
<1>6. ASSUME NEW r \in DecisionRequests, Decision!ReadApproval(r) PROVE DecisionInv'
  <2>1. PICK a \in Admins : Decision!MayApprove(a) /\ Decision!Loads(r, "approve", a)
    BY <1>6 DEF Decision!ReadApproval
  <2> QED BY <2>1, DecisionLoads
<1>7. ASSUME NEW r \in DecisionRequests, Decision!Approve(r) PROVE DecisionInv'
  BY <1>7, ApprovalKeeps
<1>8. ASSUME NEW r \in DecisionRequests, Decision!ReadValidation(r) PROVE DecisionInv'
  <2>1. Decision!Loads(r, "validate", Decision!Nobody) /\ Endorsed
    BY <1>8 DEF Decision!ReadValidation, Decision!MayValidate, DecisionInv, SoundRow
  <2> QED BY <2>1, DecisionLoads
<1>9. ASSUME NEW r \in DecisionRequests, Decision!Validate(r) PROVE DecisionInv'
  <2>1. Endorsed
    BY <1>9 DEF Decision!Validate, Decision!Writes, DecisionInv, DecisionRequest
  <2>2. UNCHANGED <<decision, ordered, done>> /\ request' = [request EXCEPT ![r] = Decision!Idle]
    BY <1>9 DEF Decision!Validate, Decision!Writes
  <2>3. governance' = [status |-> governance.status, count |-> governance.count, first |-> governance.first,
                       second |-> governance.second, valid |-> TRUE]
    BY <1>9 DEF Decision!Validate, DecisionInv, SoundRow
  <2>4. SoundRow(governance)'
    BY <2>1, <2>2, <2>3 DEF DecisionInv, SoundRow, Endorsed
  <2>5. EndorsementsStay /\ EndorsementInv' /\ (ordered => Endorsed)'
    BY <2>1, <2>2, <2>3 DEF EndorsementsStay, Endorsed, NamedRow, DecisionInv, EndorsementInv
  <2> QED BY <2>2, <2>4, <2>5, DecisionWrites
<1>10. ASSUME NEW r \in DecisionRequests, Decision!ReadOrder(r) PROVE DecisionInv'
  <2>1. Decision!Loads(r, "order", Decision!Nobody) /\ Endorsed
    BY <1>10 DEF Decision!ReadOrder, DecisionInv, SoundRow
  <2> QED BY <2>1, DecisionLoads
<1>11. ASSUME NEW r \in DecisionRequests, Decision!Order(r) PROVE DecisionInv'
  <2>1. Endorsed
    BY <1>11 DEF Decision!Order, Decision!Writes, DecisionInv, DecisionRequest
  <2>2. UNCHANGED <<decision, governance, done>> /\ request' = [request EXCEPT ![r] = Decision!Idle]
    BY <1>11 DEF Decision!Order, Decision!Writes
  <2>3. EndorsementsStay /\ EndorsementInv' /\ SoundRow(governance)' /\ (ordered => Endorsed)'
    BY <2>1, <2>2 DEF EndorsementsStay, Endorsed, NamedRow, DecisionInv, EndorsementInv, SoundRow
  <2> QED BY <2>2, <2>3, DecisionWrites
<1>12. ASSUME NEW r \in DecisionRequests, Decision!Abandon(r) PROVE DecisionInv'
  <2>1. UNCHANGED <<decision, governance, ordered, done>> /\ request' = [request EXCEPT ![r] = Decision!Idle]
    BY <1>12 DEF Decision!Abandon
  <2>2. EndorsementsStay /\ EndorsementInv' /\ SoundRow(governance)' /\ (ordered => Endorsed)'
    BY <2>1 DEF EndorsementsStay, Endorsed, NamedRow, DecisionInv, EndorsementInv, SoundRow
  <2> QED BY <2>1, <2>2, DecisionWrites
<1> QED BY <1>1, <1>2, <1>3, <1>4, <1>5, <1>6, <1>7, <1>8, <1>9, <1>10, <1>11, <1>12 DEF Decision!Next

\* The instance of the module counts as this one does.
LEMMA SameCount == \A S : Decision!Cardinality(S) = Cardinality(S)
  BY DEF Decision!Cardinality, Cardinality

\* Who endorsed is remembered, so an order needs no more than the invariant.
LEMMA EndorsementHolds == DecisionInv => Decision!OrderedIsEndorsed
  BY SameCount DEF DecisionInv, Endorsed, EndorsementInv, Decision!OrderedIsEndorsed

\* create_execution (executive_risk_execution_v080.py) carries out only what was
\* approved and endorsed by enough others, whatever requests overlapped.
THEOREM Endorsement == ASSUME Assumptions PROVE Decision!Spec => []Decision!OrderedIsEndorsed
<1>1. Decision!Init => DecisionInv
  BY DecisionStarts
<1>2. DecisionInv /\ [Decision!Next]_(Decision!vars) => DecisionInv'
  BY DecisionKeeps
<1>3. DecisionInv => Decision!OrderedIsEndorsed
  BY EndorsementHolds
<1> QED BY <1>1, <1>2, <1>3, PTL DEF Decision!Spec

-----------------------------------------------------------------------------
(* The execution of a decision and the verdict on it.                       *)

\* The names in the row are those of its history: it is completed by one who
\* completed it, and verified by one who is not the only one.
ExecutionRow ==
    /\ execution = [status |-> execution.status, assigned |-> execution.assigned,
                    completed |-> execution.completed, verified |-> execution.verified]
    /\ execution.completed # Execution!Nobody => execution.completed \in completers
    /\ execution.status = "COMPLETED" => execution.completed # Execution!Nobody
    /\ execution.status = "VERIFIED" => execution.verified # Execution!Nobody
    /\ execution.verified # Execution!Nobody => completers \ {execution.verified} # {}
    /\ effect.status # "none" => execution.verified # Execution!Nobody

\* What a request loaded stays below what the row is by now: a name that was
\* there is not taken away, only replaced.
ExecutionRequest(r) ==
    /\ request[r] = [op |-> request[r].op, admin |-> request[r].admin,
                     execution |-> request[r].execution, effect |-> request[r].effect]
    /\ request[r].execution.completed # Execution!Nobody => execution.completed # Execution!Nobody
    /\ request[r].execution.verified # Execution!Nobody => execution.verified # Execution!Nobody
    /\ request[r].op \in {"complete", "verify"} => request[r].admin \in Officers
    /\ request[r].op = "verify" => completers \ {request[r].admin} # {}
    /\ request[r].op \in {"effect", "measure", "review"} => execution.verified # Execution!Nobody

\* The inductive invariant.
ExecutionInv ==
    /\ ExecutionRow
    /\ DOMAIN request = Requests /\ request = [r \in Requests |-> request[r]]
    /\ \A r \in Requests : ExecutionRequest(r)

\* No name is taken away and no completion forgotten.
NamesStay ==
    /\ completers \subseteq completers'
    /\ execution.completed # Execution!Nobody => execution'.completed # Execution!Nobody
    /\ execution.verified # Execution!Nobody => execution'.verified # Execution!Nobody

\* An execution that was just ordered.
LEMMA ExecutionStarts == Execution!Init => ExecutionInv
<1> SUFFICES ASSUME Execution!Init PROVE ExecutionInv
  OBVIOUS
<1>1. PICK a \in Officers \cup {Execution!Nobody} : execution = [Execution!NewExecution EXCEPT !.assigned = a]
  BY DEF Execution!Init
<1>2. execution = [status |-> "PENDING", assigned |-> a, completed |-> Execution!Nobody, verified |-> Execution!Nobody]
  BY <1>1 DEF Execution!NewExecution
<1>3. ExecutionRow
  BY <1>2 DEF Execution!Init, Execution!NoEffect, ExecutionRow
<1>4. \A r \in Requests : ExecutionRequest(r)
  BY DEF Execution!Init, Execution!Idle, Execution!NewExecution, ExecutionRequest
<1> QED BY <1>3, <1>4 DEF Execution!Init, ExecutionInv

\* A step of one request that takes no name away keeps what the others know.
LEMMA ExecutionStep ==
    ASSUME ExecutionInv, NamesStay, ExecutionRow',
           NEW r \in Requests, NEW x, request' = [request EXCEPT ![r] = x], ExecutionRequest(r)'
    PROVE  ExecutionInv'
<1>1. ASSUME NEW q \in Requests, q # r PROVE ExecutionRequest(q)'
  <2>1. request'[q] = request[q] /\ ExecutionRequest(q)
    BY <1>1 DEF ExecutionInv
  <2> QED BY <2>1 DEF ExecutionRequest, NamesStay
<1> QED BY <1>1 DEF ExecutionInv

\* A request loads what it will compare, and what it has checked holds.
LEMMA ExecutionLoads ==
    ASSUME ExecutionInv, NEW r \in Requests, NEW op, NEW a, Execution!Loads(r, op, a),
           op \in {"complete", "verify"} => a \in Officers,
           op = "verify" => Execution!MayVerify(a),
           op \in {"effect", "measure", "review"} => execution.verified # Execution!Nobody
    PROVE  ExecutionInv'
<1>1. /\ request' = [request EXCEPT ![r] = [op |-> op, admin |-> a, execution |-> execution, effect |-> effect]]
      /\ UNCHANGED <<execution, effect, completers>>
  BY DEF Execution!Loads
<1>2. request'[r] = [op |-> op, admin |-> a, execution |-> execution, effect |-> effect]
  BY <1>1 DEF ExecutionInv
<1>3. op = "verify" => completers \ {a} # {}
  BY DEF ExecutionInv, ExecutionRow, Execution!MayVerify
<1>4. ExecutionRequest(r)'
  BY <1>1, <1>2, <1>3 DEF ExecutionRequest
<1>5. NamesStay /\ ExecutionRow'
  BY <1>1 DEF NamesStay, ExecutionInv, ExecutionRow
<1> QED BY <1>1, <1>4, <1>5, ExecutionStep

\* A request that wrote, or gave up, is idle.
LEMMA ExecutionWrites ==
    ASSUME ExecutionInv, NamesStay, ExecutionRow', NEW r \in Requests,
           request' = [request EXCEPT ![r] = Execution!Idle]
    PROVE  ExecutionInv'
<1>1. ExecutionRequest(r)'
  BY DEF ExecutionInv, ExecutionRequest, Execution!Idle, Execution!NewExecution
<1> QED BY <1>1, ExecutionStep

\* Whatever is written over whatever others wrote, the names stay true.
LEMMA ExecutionKeeps ==
    ASSUME Assumptions, ExecutionInv, [Execution!Next]_(Execution!vars)
    PROVE  ExecutionInv'
<1> USE DEF Assumptions
<1>1. CASE UNCHANGED Execution!vars
  BY <1>1 DEF Execution!vars, ExecutionInv, ExecutionRow, ExecutionRequest
<1>2. ASSUME NEW r \in Requests, Execution!ReadAssign(r) PROVE ExecutionInv'
  <2>1. PICK a \in Officers : Execution!Loads(r, "assign", a)
    BY <1>2 DEF Execution!ReadAssign
  <2> QED BY <2>1, ExecutionLoads
<1>3. ASSUME NEW r \in Requests, Execution!Assign(r) PROVE ExecutionInv'
  <2>1. request' = [request EXCEPT ![r] = Execution!Idle] /\ UNCHANGED <<effect, completers>>
    BY <1>3 DEF Execution!Assign, Execution!Writes
  <2>2. /\ execution' = [status |-> execution'.status, assigned |-> execution'.assigned,
                         completed |-> execution.completed, verified |-> execution.verified]
        /\ execution'.status \in {"ASSIGNED", execution.status}
    BY <1>3 DEF Execution!Assign, Execution!Changed, ExecutionInv, ExecutionRow
  <2>3. NamesStay /\ ExecutionRow'
    BY <2>1, <2>2 DEF NamesStay, ExecutionInv, ExecutionRow
  <2> QED BY <2>1, <2>3, ExecutionWrites
<1>4. ASSUME NEW r \in Requests, Execution!ReadStart(r) PROVE ExecutionInv'
  <2>1. PICK a \in Officers : Execution!Loads(r, "start", a)
    BY <1>4 DEF Execution!ReadStart
  <2> QED BY <2>1, ExecutionLoads
<1>5. ASSUME NEW r \in Requests, Execution!Start(r) PROVE ExecutionInv'
  <2>1. request' = [request EXCEPT ![r] = Execution!Idle] /\ UNCHANGED <<effect, completers>>
    BY <1>5 DEF Execution!Start, Execution!Writes
  <2>2. execution' = [status |-> "IN_EXECUTION", assigned |-> execution.assigned,
                      completed |-> execution.completed, verified |-> execution.verified]
    BY <1>5 DEF Execution!Start, ExecutionInv, ExecutionRow
  <2>3. NamesStay /\ ExecutionRow'
    BY <2>1, <2>2 DEF NamesStay, ExecutionInv, ExecutionRow
  <2> QED BY <2>1, <2>3, ExecutionWrites
<1>6. ASSUME NEW r \in Requests, Execution!ReadComplete(r) PROVE ExecutionInv'
  <2>1. PICK a \in Officers : Execution!Loads(r, "complete", a)
    BY <1>6 DEF Execution!ReadComplete
  <2> QED BY <2>1, ExecutionLoads
<1>7. ASSUME NEW r \in Requests, Execution!Complete(r) PROVE ExecutionInv'
  <2>1. /\ request' = [request EXCEPT ![r] = Execution!Idle] /\ UNCHANGED effect
        /\ request[r].op = "complete" /\ completers' = completers \cup {request[r].admin}
    BY <1>7 DEF Execution!Complete, Execution!Writes
  <2>2. execution' = [status |-> "COMPLETED", assigned |-> execution.assigned,
                      completed |-> Execution!Changed(request[r].execution.completed, request[r].admin, execution.completed),
                      verified |-> execution.verified]
    BY <1>7 DEF Execution!Complete, ExecutionInv, ExecutionRow
  <2>3. ExecutionRequest(r)
    BY DEF ExecutionInv
  <2>4. execution'.completed # Execution!Nobody /\ execution'.completed \in completers'
    BY <2>1, <2>2, <2>3 DEF Execution!Changed, ExecutionRequest, ExecutionInv, ExecutionRow
  <2>5. NamesStay /\ ExecutionRow'
    BY <2>1, <2>2, <2>4 DEF NamesStay, ExecutionInv, ExecutionRow
  <2> QED BY <2>1, <2>5, ExecutionWrites
<1>8. ASSUME NEW r \in Requests, Execution!ReadVerify(r) PROVE ExecutionInv'
  <2>1. PICK a \in Officers : Execution!MayVerify(a) /\ Execution!Loads(r, "verify", a)
    BY <1>8 DEF Execution!ReadVerify
  <2> QED BY <2>1, ExecutionLoads
<1>9. ASSUME NEW r \in Requests, Execution!Verify(r) PROVE ExecutionInv'
  <2>1. /\ request' = [request EXCEPT ![r] = Execution!Idle] /\ UNCHANGED <<effect, completers>>
        /\ request[r].op = "verify"
    BY <1>9 DEF Execution!Verify, Execution!Writes
  <2>2. execution' = [status |-> "VERIFIED", assigned |-> execution.assigned, completed |-> execution.completed,
                      verified |-> Execution!Changed(request[r].execution.verified, request[r].admin, execution.verified)]
    BY <1>9 DEF Execution!Verify, ExecutionInv, ExecutionRow
  <2>3. ExecutionRequest(r)
    BY DEF ExecutionInv
  <2>4. execution'.verified # Execution!Nobody /\ completers \ {execution'.verified} # {}
    BY <2>1, <2>2, <2>3 DEF Execution!Changed, ExecutionRequest, ExecutionInv, ExecutionRow
  <2>5. NamesStay /\ ExecutionRow'
    BY <2>1, <2>2, <2>4 DEF NamesStay, ExecutionInv, ExecutionRow
  <2> QED BY <2>1, <2>5, ExecutionWrites
<1>10. ASSUME NEW r \in Requests,
              Execution!ReadEffect(r) \/ Execution!ReadMeasure(r) \/ Execution!ReadReview(r)
       PROVE  ExecutionInv'
  <2>1. execution.verified # Execution!Nobody
    BY <1>10 DEF Execution!ReadEffect, Execution!ReadMeasure, Execution!ReadReview, ExecutionInv, ExecutionRow
  <2>2. PICK op \in {"effect", "measure", "review"}, a \in Officers \cup {Execution!Nobody} : Execution!Loads(r, op, a)
    BY <1>10 DEF Execution!ReadEffect, Execution!ReadMeasure, Execution!ReadReview
  <2> QED BY <2>1, <2>2, ExecutionLoads
<1>11. ASSUME NEW r \in Requests,
              Execution!OpenEffect(r) \/ Execution!Measure(r) \/ Execution!Review(r)
       PROVE  ExecutionInv'
  <2>1. /\ request' = [request EXCEPT ![r] = Execution!Idle] /\ UNCHANGED <<execution, completers>>
        /\ request[r].op \in {"effect", "measure", "review"}
    BY <1>11 DEF Execution!OpenEffect, Execution!Measure, Execution!Review, Execution!Writes
  <2>2. execution.verified # Execution!Nobody
    BY <2>1 DEF ExecutionInv, ExecutionRequest
  <2>3. NamesStay /\ ExecutionRow'
    BY <2>1, <2>2 DEF NamesStay, ExecutionInv, ExecutionRow
  <2> QED BY <2>1, <2>3, ExecutionWrites
<1>12. ASSUME NEW r \in Requests, Execution!Abandon(r) PROVE ExecutionInv'
  <2>1. request' = [request EXCEPT ![r] = Execution!Idle] /\ UNCHANGED <<execution, effect, completers>>
    BY <1>12 DEF Execution!Abandon
  <2>2. NamesStay /\ ExecutionRow'
    BY <2>1 DEF NamesStay, ExecutionInv, ExecutionRow
  <2> QED BY <2>1, <2>2, ExecutionWrites
<1> QED
  BY <1>1, <1>2, <1>3, <1>4, <1>5, <1>6, <1>7, <1>8, <1>9, <1>10, <1>11, <1>12 DEF Execution!Next

\* The names in the row are those of the history.
LEMMA VerificationHolds == ExecutionInv => Execution!VerifiedByAnother
  BY DEF ExecutionInv, ExecutionRow, Execution!VerifiedByAnother

\* verify (executive_risk_execution_v080.py) is by one who is not alone in having
\* completed, and an effect is only opened of what was verified, though completions,
\* verdicts and measurements are written over each other without a lock.
THEOREM Verification == ASSUME Assumptions PROVE Execution!Spec => []Execution!VerifiedByAnother
<1>1. Execution!Init => ExecutionInv
  BY ExecutionStarts
<1>2. ExecutionInv /\ [Execution!Next]_(Execution!vars) => ExecutionInv'
  BY ExecutionKeeps
<1>3. ExecutionInv => Execution!VerifiedByAnother
  BY VerificationHolds
<1> QED BY <1>1, <1>2, <1>3, PTL DEF Execution!Spec

-----------------------------------------------------------------------------
(* The plan of an improvement and its measurements.                         *)

\* What a row says of a measurement.
Measurements == [result : {"EFFECTIVE", "INEFFECTIVE"}, by : Officers, verified : Officers \cup {Improvement!Nobody}]

\* The i-th measurement showed an effect and another verified it.
Confirmed(i) ==
    /\ measurements[i].result = "EFFECTIVE"
    /\ measurements[i].verified \notin {Improvement!Nobody, measurements[i].by}

\* A plan is of a recommendation that was accepted, and closed by a measurement.
PlanRow ==
    /\ plan = [status |-> plan.status, assigned |-> plan.assigned]
    /\ measurements \in Seq(Measurements)
    /\ accepted \in BOOLEAN
    /\ recommendation = [status |-> recommendation.status, decided |-> recommendation.decided,
                         implemented |-> recommendation.implemented]
    /\ recommendation.status = "ACCEPTED" \/ plan.status # "none" \/ ordered # "no" => accepted
    /\ plan.status = "CLOSED" => \E i \in 1 .. Len(measurements) : Confirmed(i)

\* What a request checked of the recommendation is remembered, and the
\* measurement it verifies was and will be another's.
PlanRequest(r) ==
    /\ request[r] = [op |-> request[r].op, admin |-> request[r].admin, plan |-> request[r].plan,
                     last |-> request[r].last, parties |-> request[r].parties]
    /\ request[r].op \in {"plan", "assign", "done", "measure", "order", "verify"} => accepted
    /\ request[r].op = "verify" =>
           /\ request[r].admin \in Officers
           /\ request[r].last \in 1 .. Len(measurements)
           /\ measurements[request[r].last].by # request[r].admin

\* The inductive invariant.
PlanInv ==
    /\ PlanRow
    /\ DOMAIN request = Requests /\ request = [r \in Requests |-> request[r]]
    /\ \A r \in Requests : PlanRequest(r)

\* Measurements are added; who made one and what it showed stay, and one that
\* another verified stays verified by another.
MeasurementsStay ==
    /\ accepted => accepted'
    /\ Len(measurements) <= Len(measurements')
    /\ \A i \in 1 .. Len(measurements) :
           measurements'[i].by = measurements[i].by /\ (Confirmed(i) => Confirmed(i)')

\* A recommendation without a plan.
LEMMA PlanStarts == Improvement!Init => PlanInv
<1> SUFFICES ASSUME Improvement!Init PROVE PlanInv
  OBVIOUS
<1>1. PlanRow
  <2>1. plan.status = "none" /\ plan = [status |-> plan.status, assigned |-> plan.assigned]
    BY DEF Improvement!Init, Improvement!NoPlan
  <2>2. /\ recommendation = [status |-> recommendation.status, decided |-> recommendation.decided,
                             implemented |-> recommendation.implemented]
        /\ recommendation.status = "OPEN"
    BY DEF Improvement!Init, Improvement!Open
  <2>3. measurements \in Seq(Measurements)
    BY DEF Improvement!Init
  <2> QED BY <2>1, <2>2, <2>3 DEF Improvement!Init, PlanRow
<1>2. \A r \in Requests : PlanRequest(r)
  BY DEF Improvement!Init, Improvement!Idle, PlanRequest
<1> QED BY <1>1, <1>2 DEF Improvement!Init, PlanInv

\* A step of one request that keeps the measurements keeps what the others know.
LEMMA PlanStep ==
    ASSUME PlanInv, MeasurementsStay, PlanRow',
           NEW r \in Requests, NEW x, request' = [request EXCEPT ![r] = x], PlanRequest(r)'
    PROVE  PlanInv'
<1>1. Len(measurements) \in Nat /\ Len(measurements') \in Nat
  BY DEF PlanInv, PlanRow
<1>2. ASSUME NEW q \in Requests, q # r PROVE PlanRequest(q)'
  <2>1. request'[q] = request[q] /\ PlanRequest(q)
    BY <1>2 DEF PlanInv
  <2> QED BY <1>1, <2>1 DEF PlanRequest, MeasurementsStay
<1> QED BY <1>2 DEF PlanInv

\* A request loads its rows, and what it has checked holds.
LEMMA PlanLoads ==
    ASSUME PlanInv, NEW r \in Requests, NEW x,
           x = [op |-> x.op, admin |-> x.admin, plan |-> x.plan, last |-> x.last, parties |-> x.parties],
           Improvement!Keeps(r, x),
           x.op \in {"plan", "assign", "done", "measure", "order", "verify"} => accepted,
           x.op = "verify" =>
               /\ x.admin \in Officers
               /\ x.last \in 1 .. Len(measurements)
               /\ measurements[x.last].by # x.admin
    PROVE  PlanInv'
<1>1. /\ request' = [request EXCEPT ![r] = x]
      /\ UNCHANGED <<recommendation, plan, measurements, ordered, accepted>>
  BY DEF Improvement!Keeps
<1>2. request'[r] = x
  BY <1>1 DEF PlanInv
<1>3. PlanRequest(r)'
  BY <1>1, <1>2 DEF PlanRequest
<1>4. MeasurementsStay /\ PlanRow'
  BY <1>1 DEF MeasurementsStay, Confirmed, PlanInv, PlanRow
<1> QED BY <1>1, <1>3, <1>4, PlanStep

\* A request that wrote, or gave up, is idle.
LEMMA PlanWrites ==
    ASSUME PlanInv, MeasurementsStay, PlanRow', NEW r \in Requests,
           request' = [request EXCEPT ![r] = Improvement!Idle]
    PROVE  PlanInv'
<1>1. PlanRequest(r)'
  BY DEF PlanInv, PlanRequest, Improvement!Idle
<1> QED BY <1>1, PlanStep

\* The steps that touch neither the measurements nor a closed plan.
LEMMA PlanMoves ==
    ASSUME PlanInv, NEW r \in Requests, request' = [request EXCEPT ![r] = Improvement!Idle],
           measurements' = measurements, accepted' \in BOOLEAN, accepted => accepted',
           plan' = [status |-> plan'.status, assigned |-> plan'.assigned],
           recommendation' = [status |-> recommendation'.status, decided |-> recommendation'.decided,
                              implemented |-> recommendation'.implemented],
           recommendation'.status = "ACCEPTED" \/ plan'.status # "none" \/ ordered' # "no" => accepted',
           plan'.status = "CLOSED" => plan.status = "CLOSED"
    PROVE  PlanInv'
<1>1. MeasurementsStay
  BY DEF MeasurementsStay, Confirmed, PlanInv, PlanRow
<1>2. PlanRow'
  BY DEF PlanInv, PlanRow, Confirmed
<1> QED BY <1>1, <1>2, PlanWrites

\* Whatever is measured or done again meanwhile, a closed plan stays proved.
LEMMA PlanKeeps ==
    ASSUME Assumptions, PlanInv, [Improvement!Next]_(Improvement!vars)
    PROVE  PlanInv'
<1> USE DEF Assumptions
<1>1. CASE UNCHANGED Improvement!vars
  BY <1>1 DEF Improvement!vars, PlanInv, PlanRow, PlanRequest, Confirmed
<1>2. ASSUME NEW r \in Requests,
             \/ Improvement!ReadDecide(r) \/ Improvement!ReadImplement(r) \/ Improvement!ReadCreate(r)
             \/ Improvement!ReadMeasure(r) \/ Improvement!ReadOrder(r)
      PROVE  PlanInv'
  <2>1. PICK op \in {"decide", "implement", "plan", "measure", "order"} :
            /\ Improvement!Loads(r, op)
            /\ op \in {"plan", "measure", "order"} => accepted
    BY <1>2 DEF Improvement!ReadDecide, Improvement!ReadImplement, Improvement!ReadCreate,
                Improvement!ReadMeasure, Improvement!ReadOrder, PlanInv, PlanRow
  <2>2. PICK x : x = [Improvement!Idle EXCEPT !.op = op]
    OBVIOUS
  <2>3. x = [op |-> op, admin |-> Improvement!Nobody, plan |-> Improvement!NoPlan, last |-> 0, parties |-> {}]
    BY <2>2 DEF Improvement!Idle
  <2>4. Improvement!Keeps(r, x)
    BY <2>1, <2>2 DEF Improvement!Loads
  <2> QED BY <2>1, <2>3, <2>4, PlanLoads
<1>3. ASSUME NEW r \in Requests, Improvement!ReadAssign(r) \/ Improvement!ReadDone(r) PROVE PlanInv'
  <2>1. PICK op \in {"assign", "done"} : Improvement!LoadsPlan(r, op) /\ accepted
    BY <1>3 DEF Improvement!ReadAssign, Improvement!ReadDone, PlanInv, PlanRow
  <2>2. PICK x : x = [Improvement!Idle EXCEPT !.op = op, !.plan = plan]
    OBVIOUS
  <2>3. x = [op |-> op, admin |-> Improvement!Nobody, plan |-> plan, last |-> 0, parties |-> {}]
    BY <2>2 DEF Improvement!Idle
  <2>4. Improvement!Keeps(r, x)
    BY <2>1, <2>2 DEF Improvement!LoadsPlan
  <2> QED BY <2>1, <2>3, <2>4, PlanLoads
<1>4. ASSUME NEW r \in Requests, Improvement!ReadVerify(r) PROVE PlanInv'
  <2>1. PICK a \in Officers :
            /\ Improvement!MayVerify(a)
            /\ Improvement!Keeps(r, [Improvement!Idle EXCEPT !.op = "verify", !.admin = a, !.last = Len(measurements)])
    BY <1>4, Zenon DEF Improvement!ReadVerify
  <2>2. PICK x : x = [Improvement!Idle EXCEPT !.op = "verify", !.admin = a, !.last = Len(measurements)]
    OBVIOUS
  <2>3. x = [op |-> "verify", admin |-> a, plan |-> Improvement!NoPlan, last |-> Len(measurements), parties |-> {}]
    BY <2>2 DEF Improvement!Idle
  <2>4. accepted /\ Len(measurements) \in 1 .. Len(measurements) /\ measurements[Len(measurements)].by # a
    BY <2>1 DEF Improvement!MayVerify, PlanInv, PlanRow
  <2>5. Improvement!Keeps(r, x)
    BY <2>1, <2>2
  <2> QED BY <2>3, <2>4, <2>5, PlanLoads
<1>5. ASSUME NEW r \in Requests, Improvement!ReadAccept(r) PROVE PlanInv'
  <2>1. PICK x : x = [Improvement!Idle EXCEPT !.op = "accept",
                                              !.parties = {recommendation.decided, recommendation.implemented}]
    OBVIOUS
  <2>2. x = [op |-> "accept", admin |-> Improvement!Nobody, plan |-> Improvement!NoPlan, last |-> 0,
             parties |-> {recommendation.decided, recommendation.implemented}]
    BY <2>1 DEF Improvement!Idle
  <2>3. Improvement!Keeps(r, x)
    BY <1>5, <2>1 DEF Improvement!ReadAccept
  <2> QED BY <2>2, <2>3, PlanLoads
<1>6. ASSUME NEW r \in Requests, Improvement!Decide(r) PROVE PlanInv'
  <2>1. PICK a \in Officers, verdict \in {"ACCEPTED", "REJECTED"} :
            /\ Improvement!Writes(r, "decide")
            /\ recommendation' = [recommendation EXCEPT !.status = verdict, !.decided = a]
            /\ accepted' = (accepted \/ verdict = "ACCEPTED")
            /\ UNCHANGED <<plan, measurements, ordered>>
    BY <1>6, Zenon DEF Improvement!Decide
  <2>2. /\ recommendation' = [status |-> recommendation'.status, decided |-> recommendation'.decided,
                              implemented |-> recommendation'.implemented]
        /\ recommendation'.status = verdict
    BY <2>1 DEF PlanInv, PlanRow
  <2>3. request' = [request EXCEPT ![r] = Improvement!Idle]
    BY <2>1 DEF Improvement!Writes
  <2>4. accepted' \in BOOLEAN /\ (accepted => accepted') /\ (verdict = "ACCEPTED" => accepted')
    BY <2>1 DEF PlanInv, PlanRow
  <2>5. plan = [status |-> plan.status, assigned |-> plan.assigned] /\ (plan.status # "none" \/ ordered # "no" => accepted)
    BY DEF PlanInv, PlanRow
  <2> QED BY <2>1, <2>2, <2>3, <2>4, <2>5, PlanMoves
<1>7. ASSUME NEW r \in Requests, Improvement!Implement(r) PROVE PlanInv'
  <2>1. PICK a \in Officers : recommendation' = [recommendation EXCEPT !.status = "IMPLEMENTED", !.implemented = a]
    BY <1>7, Zenon DEF Improvement!Implement
  <2>2. recommendation' = [status |-> "IMPLEMENTED", decided |-> recommendation.decided, implemented |-> a]
    BY <2>1 DEF PlanInv, PlanRow
  <2>3. request' = [request EXCEPT ![r] = Improvement!Idle] /\ UNCHANGED <<plan, measurements, ordered, accepted>>
    BY <1>7 DEF Improvement!Implement, Improvement!Writes
  <2>4. /\ plan = [status |-> plan.status, assigned |-> plan.assigned] /\ accepted \in BOOLEAN
        /\ plan.status # "none" \/ ordered # "no" => accepted
    BY DEF PlanInv, PlanRow
  <2> QED BY <2>2, <2>3, <2>4, PlanMoves
<1>8. ASSUME NEW r \in Requests,
             \/ Improvement!CreatePlan(r) \/ Improvement!Assign(r) \/ Improvement!Done(r)
             \/ Improvement!Accept(r) \/ Improvement!Order(r) \/ Improvement!Abandon(r)
      PROVE  PlanInv'
  <2>1. /\ request' = [request EXCEPT ![r] = Improvement!Idle] /\ UNCHANGED <<recommendation, measurements, accepted>>
        /\ accepted \/ UNCHANGED <<plan, ordered>>
    BY <1>8 DEF Improvement!CreatePlan, Improvement!Assign, Improvement!Done, Improvement!Accept, Improvement!Order,
                Improvement!Abandon, Improvement!Writes, PlanInv, PlanRow, PlanRequest
  <2>2. /\ plan' = [status |-> plan'.status, assigned |-> plan'.assigned]
        /\ plan'.status \in {plan.status, "OPEN", "IN_PROGRESS", "IMPLEMENTED"}
    BY <1>8 DEF Improvement!CreatePlan, Improvement!Assign, Improvement!Done, Improvement!Accept, Improvement!Order,
                Improvement!Abandon, Improvement!Changed, PlanInv, PlanRow
  <2>3. /\ accepted \in BOOLEAN
        /\ recommendation = [status |-> recommendation.status, decided |-> recommendation.decided,
                              implemented |-> recommendation.implemented]
        /\ recommendation.status = "ACCEPTED" \/ plan.status # "none" \/ ordered # "no" => accepted
    BY DEF PlanInv, PlanRow
  <2> QED BY <2>1, <2>2, <2>3, PlanMoves
<1>9. ASSUME NEW r \in Requests, Improvement!Measure(r) PROVE PlanInv'
  <2>1. PICK a \in Officers, result \in {"EFFECTIVE", "INEFFECTIVE"} :
            /\ Improvement!Writes(r, "measure")
            /\ measurements' = Append(measurements, [result |-> result, by |-> a, verified |-> Improvement!Nobody])
            /\ plan' = [plan EXCEPT !.status = "MEASURED"]
            /\ UNCHANGED <<recommendation, ordered, accepted>>
    BY <1>9 DEF Improvement!Measure
  <2> DEFINE m == [result |-> result, by |-> a, verified |-> Improvement!Nobody]
  <2>2. m \in Measurements
    BY DEF Measurements
  <2>3. /\ measurements \in Seq(Measurements) /\ plan = [status |-> plan.status, assigned |-> plan.assigned]
        /\ accepted
    BY <2>1 DEF Improvement!Writes, PlanInv, PlanRow, PlanRequest
  <2> HIDE DEF m
  <2>4. /\ measurements' \in Seq(Measurements) /\ Len(measurements) \in Nat /\ Len(measurements') = Len(measurements) + 1
        /\ \A i \in 1 .. Len(measurements) : measurements'[i] = measurements[i]
    BY <2>1, <2>2, <2>3 DEF m
  <2>5. MeasurementsStay
    BY <2>1, <2>4 DEF MeasurementsStay, Confirmed
  <2>6. plan' = [status |-> "MEASURED", assigned |-> plan.assigned]
    BY <2>1, <2>3
  <2>7. PlanRow'
    BY <2>1, <2>3, <2>4, <2>6 DEF PlanInv, PlanRow
  <2> QED BY <2>1, <2>5, <2>7, PlanWrites DEF Improvement!Writes
<1>10. ASSUME NEW r \in Requests, Improvement!Verify(r) PROVE PlanInv'
  <2>1. /\ request[r].op = "verify" /\ request' = [request EXCEPT ![r] = Improvement!Idle]
        /\ UNCHANGED <<recommendation, ordered, accepted>>
    BY <1>10 DEF Improvement!Verify, Improvement!Writes
  <2>2. PICK m \in 1 .. Len(measurements), a \in Officers :
            /\ m = request[r].last /\ a = request[r].admin /\ measurements[m].by # a
    BY <2>1 DEF PlanInv, PlanRequest
  <2>3. /\ measurements' = [measurements EXCEPT ![m].verified = a]
        /\ plan' = [plan EXCEPT !.status = IF measurements[m].result = "EFFECTIVE" THEN "CLOSED" ELSE "REVIEW_REQUIRED"]
    BY <1>10, <2>2 DEF Improvement!Verify
  <2>4. /\ accepted /\ measurements \in Seq(Measurements) /\ Len(measurements) \in Nat
        /\ plan = [status |-> plan.status, assigned |-> plan.assigned]
    BY <2>1 DEF PlanInv, PlanRow, PlanRequest
  <2>5. measurements[m] \in Measurements /\ [measurements[m] EXCEPT !.verified = a] \in Measurements
    <3>1. measurements[m] \in Measurements
      BY <2>4
    <3> QED BY <3>1 DEF Measurements
  <2>6. /\ measurements' \in Seq(Measurements) /\ Len(measurements') = Len(measurements)
        /\ measurements'[m] = [measurements[m] EXCEPT !.verified = a]
        /\ \A i \in 1 .. Len(measurements) : i # m => measurements'[i] = measurements[i]
    <3> DEFINE row == [measurements[m] EXCEPT !.verified = a]
    <3>1. row \in Measurements /\ measurements' = [measurements EXCEPT ![m] = row]
      BY <2>3, <2>5
    <3> HIDE DEF row
    <3>2. /\ measurements' \in Seq(Measurements) /\ Len(measurements') = Len(measurements)
          /\ measurements'[m] = row
          /\ \A i \in 1 .. Len(measurements) : i # m => measurements'[i] = measurements[i]
      BY <2>4, <3>1
    <3> QED BY <3>2 DEF row
  <2>7. measurements'[m].by = measurements[m].by /\ measurements'[m].verified = a
        /\ measurements'[m].result = measurements[m].result
    BY <2>5, <2>6 DEF Measurements
  <2>8. MeasurementsStay
    <3>1. ASSUME NEW i \in 1 .. Len(measurements)
          PROVE  measurements'[i].by = measurements[i].by /\ (Confirmed(i) => Confirmed(i)')
      BY <2>2, <2>6, <2>7 DEF Confirmed
    <3> QED BY <2>1, <2>4, <2>6, <3>1 DEF MeasurementsStay
  <2>9. /\ plan' = [status |-> plan'.status, assigned |-> plan'.assigned]
        /\ plan'.status = IF measurements[m].result = "EFFECTIVE" THEN "CLOSED" ELSE "REVIEW_REQUIRED"
    BY <2>3, <2>4
  <2>10. plan'.status = "CLOSED" => Confirmed(m)'
    BY <2>2, <2>7, <2>9 DEF Confirmed
  <2>11. PlanRow'
    BY <2>1, <2>4, <2>6, <2>9, <2>10 DEF PlanInv, PlanRow
  <2> QED BY <2>1, <2>8, <2>11, PlanWrites
<1> QED BY <1>1, <1>2, <1>3, <1>4, <1>5, <1>6, <1>7, <1>8, <1>9, <1>10 DEF Improvement!Next

\* A closed plan has a measurement that was confirmed.
LEMMA ClosureHolds == PlanInv => Improvement!ClosedIsProved
  BY DEF PlanInv, PlanRow, Confirmed, Improvement!ClosedIsProved

\* verify (continuous_improvement_v083.py) closes a plan only of a recommendation
\* that was accepted, on an effect that one administrator measured and another
\* verified, though measurements go on while the verdict is written.
THEOREM Closure == ASSUME Assumptions PROVE Improvement!Spec => []Improvement!ClosedIsProved
<1>1. Improvement!Init => PlanInv
  BY PlanStarts
<1>2. PlanInv /\ [Improvement!Next]_(Improvement!vars) => PlanInv'
  BY PlanKeeps
<1>3. PlanInv => Improvement!ClosedIsProved
  BY ClosureHolds
<1> QED BY <1>1, <1>2, <1>3, PTL DEF Improvement!Spec

-----------------------------------------------------------------------------
(* The execution of an improvement, its files and its certificate.          *)

\* The history, and what it says of the row of the execution.
VerifiedRow ==
    /\ execution = [status |-> execution.status, verified |-> execution.verified, manifest |-> execution.manifest]
    /\ past = [verifiers |-> past.verifiers, seen |-> past.seen, late |-> past.late, overlapped |-> past.overlapped]
    /\ Assignee \notin past.verifiers
    /\ execution.verified # Certificate!Nobody => execution.verified \in past.verifiers
    /\ execution.status = "VERIFIED" => execution.verified # Certificate!Nobody
    /\ past.verifiers # {} => past.seen # {}
    /\ past.seen \subseteq rows

\* What a request has checked of the files: a verification saw some that are
\* there; a certificate misses none that were there when the execution was first
\* verified, and has none beyond those it compared but late ones.
CertificateRequest(r) ==
    /\ request[r] = [op |-> request[r].op, at |-> request[r].at, admin |-> request[r].admin,
                     manifest |-> request[r].manifest, verified |-> request[r].verified, seen |-> request[r].seen,
                     files |-> request[r].files, event |-> request[r].event, prev |-> request[r].prev]
    /\ request[r].verified # Certificate!Nobody => execution.verified # Certificate!Nobody
    /\ request[r].op = "verify" =>
           /\ request[r].admin \in Admins \ {Assignee}
           /\ request[r].at = "checked" => request[r].seen # {} /\ request[r].seen \subseteq rows
    /\ request[r].op = "certify" =>
           /\ request[r].admin # Assignee /\ past.verifiers \ {request[r].admin} # {}
           /\ request[r].at = "checked" => rows \ request[r].seen \subseteq past.late
           /\ request[r].at = "packed" => /\ request[r].files \ request[r].seen \subseteq past.late
                                          /\ past.seen \subseteq request[r].files

\* The checks that are to be recorded, one after the other unless two overlapped.
ChainInv ==
    /\ events \in Nat /\ past.overlapped \in BOOLEAN
    /\ \A d \in chain : d.id \in Nat /\ d.id <= events
    /\ \A r \in Requests :
           /\ request[r].event \in Nat /\ request[r].event <= events
           /\ request[r].at \in {"checked", "packed"} => request[r].event # 0
    /\ \/ past.overlapped
       \/ /\ Certificate!Linear(chain)
          /\ chain # {} => \E d \in chain : \A e \in chain : e.id <= d.id
          /\ \A r \in Requests : request[r].event # 0 =>
                 /\ request[r].prev = Certificate!Last(chain)
                 /\ \A d \in chain : d.id < request[r].event
                 /\ \A q \in Requests : request[q].event # 0 => q = r

\* The inductive invariant.
CertificateInv ==
    /\ DOMAIN request = Requests /\ request = [r \in Requests |-> request[r]]
    /\ VerifiedRow
    /\ Certificate!CertificateIsSound
    /\ \A r \in Requests : CertificateRequest(r)
    /\ ChainInv

\* An event that follows all others, and names the last of them, continues a
\* linear chain.
LEMMA ChainGrows ==
    ASSUME NEW c, NEW n,
           \A d \in c : d.id \in Nat /\ d.id < n.id, n.id \in Nat,
           c # {} => \E d \in c : \A e \in c : e.id <= d.id,
           Certificate!Linear(c), n.prev = Certificate!Last(c)
    PROVE  /\ Certificate!Linear(c \cup {n})
           /\ \A e \in c \cup {n} : e.id <= n.id
<1> DEFINE before(s, e) == {d.id : d \in {x \in s : x.id < e.id}}
<1>1. ASSUME NEW e \in c
      PROVE  e.prev = IF before(c \cup {n}, e) = {} THEN 0
                      ELSE CHOOSE i \in before(c \cup {n}, e) : \A j \in before(c \cup {n}, e) : j <= i
  <2>1. before(c \cup {n}, e) = before(c, e)
    <3>1. ~(n.id < e.id)
      OBVIOUS
    <3> QED BY <3>1
  <2>2. e.prev = IF before(c, e) = {} THEN 0 ELSE CHOOSE i \in before(c, e) : \A j \in before(c, e) : j <= i
    BY DEF Certificate!Linear
  <2> HIDE DEF before
  <2> QED BY <2>1, <2>2
<1>2. n.prev = IF before(c \cup {n}, n) = {} THEN 0
               ELSE CHOOSE i \in before(c \cup {n}, n) : \A j \in before(c \cup {n}, n) : j <= i
  <2> DEFINE ids == {d.id : d \in c}
  <2>1. before(c \cup {n}, n) = ids
    <3>1. ~(n.id < n.id)
      OBVIOUS
    <3> QED BY <3>1
  <2>2. CASE c = {}
    BY <2>1, <2>2 DEF Certificate!Last
  <2>3. CASE c # {}
    <3>1. PICK m \in c : \A e \in c : e.id <= m.id
      BY <2>3
    <3>2. m.id \in ids /\ ids # {} /\ (\A j \in ids : j \in Nat /\ j <= m.id)
      BY <3>1
    <3>3. n.prev = CHOOSE i \in ids : \A e \in c : e.id <= i
      BY <2>3 DEF Certificate!Last
    <3>4. n.prev \in ids /\ \A e \in c : e.id <= n.prev
      BY <3>1, <3>2, <3>3
    <3>5. n.prev = m.id
      BY <3>1, <3>2, <3>4
    <3> DEFINE last == CHOOSE i \in ids : \A j \in ids : j <= i
    <3>6. last \in ids /\ \A j \in ids : j <= last
      BY <3>2
    <3> HIDE DEF ids, last
    <3>7. last = m.id
      BY <3>2, <3>6
    <3> HIDE DEF before
    <3> QED BY <2>1, <3>2, <3>5, <3>7 DEF last
  <2> QED BY <2>2, <2>3
<1>3. Certificate!Linear(c \cup {n})
  BY <1>1, <1>2 DEF Certificate!Linear
<1> QED BY <1>3

\* A step that records nothing.
LEMMA ChainQuiet ==
    ASSUME ChainInv, UNCHANGED <<chain, events>>, past'.overlapped = past.overlapped,
           \A r \in Requests :
               \/ request'[r].event = 0 /\ request'[r].at \notin {"checked", "packed"}
               \/ /\ request'[r].event = request[r].event /\ request'[r].prev = request[r].prev
                  /\ request'[r].at \in {"checked", "packed"} => request[r].at \in {"checked", "packed"}
    PROVE  ChainInv'
BY DEF ChainInv

\* A check takes the next number and names the last event.
LEMMA ChainCheck ==
    ASSUME ChainInv, NEW r \in Requests, UNCHANGED chain, events' = events + 1,
           past'.overlapped = (past.overlapped \/ Certificate!Recording # {}),
           request'[r].event = events + 1, request'[r].prev = Certificate!Last(chain),
           \A q \in Requests \ {r} : request'[q] = request[q]
    PROVE  ChainInv'
<1>1. CASE past'.overlapped
  BY <1>1 DEF ChainInv
<1>2. CASE ~past'.overlapped
  <2>1. \A q \in Requests : request[q].event = 0
    BY <1>2 DEF Certificate!Recording, ChainInv
  <2>2. ~past.overlapped /\ past'.overlapped \in BOOLEAN
    BY <1>2 DEF ChainInv
  <2> QED BY <1>2, <2>1, <2>2 DEF ChainInv
<1> QED BY <1>1, <1>2

\* The event of a check joins the chain.
LEMMA ChainCommit ==
    ASSUME ChainInv, NEW r \in Requests, request[r].at \in {"checked", "packed"},
           chain' = chain \cup {Certificate!Own(r)}, UNCHANGED events, past'.overlapped = past.overlapped,
           request'[r] = Certificate!Idle,
           \A q \in Requests \ {r} : request'[q] = request[q]
    PROVE  ChainInv'
<1> DEFINE n == Certificate!Own(r)
<1>1. request'[r].event = 0 /\ request'[r].at = "done"
  BY DEF Certificate!Idle
<1>2. n.id = request[r].event /\ n.prev = request[r].prev /\ n.id # 0
  BY DEF Certificate!Own, ChainInv
<1>3. n.id \in Nat /\ n.id <= events
  BY <1>2 DEF ChainInv
<1>4. CASE past.overlapped
  <2> HIDE DEF n
  <2>1. chain' = chain \cup {n}
    BY DEF n
  <2>2. \A d \in chain' : d.id \in Nat /\ d.id <= events
    BY <1>3, <2>1 DEF ChainInv
  <2> QED BY <1>1, <1>4, <2>2 DEF ChainInv
<1>5. CASE ~past.overlapped
  <2> HIDE DEF n
  <2>1. chain' = chain \cup {n}
    BY DEF n
  <2>2. n.prev = Certificate!Last(chain) /\ (\A d \in chain : d.id \in Nat /\ d.id < n.id) /\ Certificate!Linear(chain)
        /\ (chain # {} => \E d \in chain : \A e \in chain : e.id <= d.id)
    BY <1>2, <1>5 DEF ChainInv
  <2>3. Certificate!Linear(chain') /\ \A e \in chain' : e.id <= n.id
    BY <1>3, <2>1, <2>2, ChainGrows, Zenon
  <2>4. \A q \in Requests : request'[q].event = 0
    BY <1>1, <1>2, <1>5 DEF ChainInv
  <2>5. \A d \in chain' : d.id \in Nat /\ d.id <= events
    BY <1>3, <2>1 DEF ChainInv
  <2>6. \E d \in chain' : \A e \in chain' : e.id <= d.id
    BY <2>1, <2>3
  <2>7. \A q \in Requests :
            /\ request'[q].event \in Nat /\ request'[q].event <= events
            /\ request'[q].at \in {"checked", "packed"} => request'[q].event # 0
    BY <1>1 DEF ChainInv
  <2>8. Certificate!Linear(chain)'
    BY <2>3 DEF Certificate!Linear
  <2> QED BY <2>4, <2>5, <2>6, <2>7, <2>8 DEF ChainInv
<1> QED BY <1>4, <1>5

\* Nothing verified is forgotten, and files that join after it are late.
HistoryStays ==
    /\ execution.verified # Certificate!Nobody => execution'.verified # Certificate!Nobody
    /\ rows \subseteq rows' /\ past.verifiers \subseteq past'.verifiers /\ past.late \subseteq past'.late
    /\ past.verifiers # {} => past'.seen = past.seen /\ rows' \ rows \subseteq past'.late

\* An execution that was just ordered.
LEMMA CertificateStarts == Certificate!Init => CertificateInv
<1> SUFFICES ASSUME Certificate!Init PROVE CertificateInv
  OBVIOUS
<1>1. VerifiedRow
  BY DEF Certificate!Init, VerifiedRow
<1>2. \A r \in Requests : CertificateRequest(r)
  BY DEF Certificate!Init, Certificate!Idle, CertificateRequest
<1>3. ChainInv
  <2>1. \A r \in Requests : request[r].event = 0 /\ request[r].at = "done"
    BY DEF Certificate!Init, Certificate!Idle
  <2>2. past.overlapped \in BOOLEAN /\ chain = {} /\ events = 0
    BY DEF Certificate!Init
  <2>3. Certificate!Linear(chain)
    BY <2>2 DEF Certificate!Linear
  <2> QED BY <2>1, <2>2, <2>3 DEF ChainInv
<1>4. Certificate!CertificateIsSound
  BY DEF Certificate!Init, Certificate!CertificateIsSound
<1> QED BY <1>1, <1>2, <1>3, <1>4 DEF Certificate!Init, CertificateInv

\* A step of one request that forgets nothing keeps what the others checked.
LEMMA CertificateStep ==
    ASSUME CertificateInv, HistoryStays, VerifiedRow', ChainInv',
           certificate' = certificate \/ Certificate!CertificateIsSound',
           NEW r \in Requests, NEW x, request' = [request EXCEPT ![r] = x], CertificateRequest(r)'
    PROVE  CertificateInv'
<1>1. ASSUME NEW q \in Requests, q # r PROVE CertificateRequest(q)'
  <2>1. request'[q] = request[q] /\ CertificateRequest(q)
    BY <1>1 DEF CertificateInv
  <2>2. request[q].op = "certify" => past.verifiers # {}
    BY <2>1 DEF CertificateRequest
  <2>3. request[q].op = "certify" /\ request[q].at = "checked" => rows' \ request[q].seen \subseteq past'.late
    BY <2>1, <2>2 DEF CertificateRequest, HistoryStays
  <2>4. request[q].op = "certify" /\ request[q].at = "packed" =>
            /\ request[q].files \ request[q].seen \subseteq past'.late
            /\ past'.seen \subseteq request[q].files
    BY <2>1, <2>2 DEF CertificateRequest, HistoryStays
  <2>5. request[q].op = "certify" => past'.verifiers \ {request[q].admin} # {}
    BY <2>1 DEF CertificateRequest, HistoryStays
  <2>6. request[q].op = "verify" /\ request[q].at = "checked" => request[q].seen \subseteq rows'
    BY <2>1 DEF CertificateRequest, HistoryStays
  <2> QED BY <2>1, <2>3, <2>4, <2>5, <2>6 DEF CertificateRequest, HistoryStays
<1>2. Certificate!CertificateIsSound'
  <2>1. CASE certificate' = certificate
    <3>1. Certificate!CertificateIsSound
      BY DEF CertificateInv
    <3> QED BY <2>1, <3>1 DEF Certificate!CertificateIsSound, Certificate!NoCertificate, HistoryStays, VerifiedRow
  <2> QED BY <2>1
<1> QED BY <1>1, <1>2 DEF CertificateInv

\* What is not changed by a step that only moves a request.
LEMMA CertificateMoves ==
    ASSUME CertificateInv, UNCHANGED <<execution, rows, certificate, past>>, ChainInv',
           NEW r \in Requests, NEW x, request' = [request EXCEPT ![r] = x], CertificateRequest(r)'
    PROVE  CertificateInv'
<1>1. HistoryStays /\ VerifiedRow'
  BY DEF HistoryStays, VerifiedRow, CertificateInv
<1> QED BY <1>1, CertificateStep

\* A request is loaded, with all it needs or what it will compare.
LEMMA CertificateLoads ==
    ASSUME CertificateInv, NEW r \in Requests, NEW op, NEW a,
           Certificate!Loads(r, op, a) \/ Certificate!LoadsAll(r, op, a),
           op = "verify" => a \in Admins \ {Assignee},
           op = "certify" => a # Assignee /\ past.verifiers \ {a} # {}
    PROVE  CertificateInv'
<1>1. PICK x, m, v : /\ request' = [request EXCEPT ![r] = x]
                     /\ x = [op |-> op, at |-> "loaded", admin |-> a, manifest |-> m, verified |-> v,
                              seen |-> {}, files |-> {}, event |-> 0, prev |-> 0]
                     /\ v # Certificate!Nobody => execution.verified # Certificate!Nobody
  <2>1. CASE Certificate!Loads(r, op, a)
    <3>1. PICK x : x = [Certificate!Idle EXCEPT !.op = op, !.at = "loaded", !.admin = a]
      OBVIOUS
    <3>2. x = [op |-> op, at |-> "loaded", admin |-> a, manifest |-> {}, verified |-> Certificate!Nobody,
               seen |-> {}, files |-> {}, event |-> 0, prev |-> 0]
      BY <3>1 DEF Certificate!Idle
    <3>3. request' = [request EXCEPT ![r] = x]
      BY <2>1, <3>1 DEF Certificate!Loads, Certificate!Becomes
    <3> QED BY <3>2, <3>3
  <2>2. CASE Certificate!LoadsAll(r, op, a)
    <3>1. PICK x : x = [Certificate!Idle EXCEPT !.op = op, !.at = "loaded", !.admin = a,
                                                !.manifest = execution.manifest, !.verified = execution.verified]
      OBVIOUS
    <3>2. x = [op |-> op, at |-> "loaded", admin |-> a, manifest |-> execution.manifest,
               verified |-> execution.verified, seen |-> {}, files |-> {}, event |-> 0, prev |-> 0]
      BY <3>1 DEF Certificate!Idle
    <3>3. request' = [request EXCEPT ![r] = x]
      BY <2>2, <3>1 DEF Certificate!LoadsAll, Certificate!Becomes
    <3> QED BY <3>2, <3>3
  <2> QED BY <2>1, <2>2
<1>2. UNCHANGED <<execution, rows, disk, chain, events, certificate, past>>
  BY DEF Certificate!Loads, Certificate!LoadsAll
<1>3. request'[r] = x /\ \A q \in Requests \ {r} : request'[q] = request[q]
  BY <1>1 DEF CertificateInv
<1>4. ChainInv'
  <2>1. ChainInv /\ request'[r].event = 0 /\ request'[r].at = "loaded"
    BY <1>1, <1>3 DEF CertificateInv
  <2> QED BY <1>2, <1>3, <2>1, ChainQuiet
<1>5. CertificateRequest(r)'
  BY <1>1, <1>2, <1>3 DEF CertificateRequest
<1> QED BY <1>1, <1>2, <1>4, <1>5, CertificateMoves

\* A request that ends is idle.
LEMMA CertificateEnds ==
    ASSUME CertificateInv, NEW r \in Requests, request' = [request EXCEPT ![r] = Certificate!Idle]
    PROVE  /\ request'[r] = Certificate!Idle /\ \A q \in Requests \ {r} : request'[q] = request[q]
           /\ CertificateRequest(r)'
           /\ UNCHANGED <<chain, events>> /\ past'.overlapped = past.overlapped => ChainInv'
<1>1. request'[r] = Certificate!Idle /\ \A q \in Requests \ {r} : request'[q] = request[q]
  BY DEF CertificateInv
<1>2. CertificateRequest(r)'
  BY <1>1 DEF CertificateRequest, Certificate!Idle
<1>3. request'[r].event = 0 /\ request'[r].at = "done"
  BY <1>1 DEF Certificate!Idle
<1>4. ChainInv
  BY DEF CertificateInv
<1> QED BY <1>1, <1>2, <1>3, <1>4, ChainQuiet

\* The end of a verification: who verified is another than the assignee, and the
\* files the first one saw are there.
LEMMA VerifyKeeps ==
    ASSUME Assumptions, CertificateInv, NEW r \in Requests, Certificate!Verify(r)
    PROVE  CertificateInv'
<1> USE DEF Assumptions
<1>1. /\ request[r].op = "verify" /\ request[r].at = "checked"
      /\ execution' = [execution EXCEPT !.status = "VERIFIED",
                                        !.verified = IF request[r].verified = request[r].admin THEN @ ELSE request[r].admin]
      /\ chain' = chain \cup {Certificate!Own(r)}
      /\ past' = [past EXCEPT !.verifiers = @ \cup {request[r].admin}, !.seen = IF @ = {} THEN request[r].seen ELSE @]
      /\ request' = [request EXCEPT ![r] = Certificate!Idle]
      /\ UNCHANGED <<rows, disk, events, certificate>>
  BY DEF Certificate!Verify, Certificate!At, Certificate!Becomes
<1>2. /\ request[r].admin \in Admins \ {Assignee} /\ request[r].seen # {} /\ request[r].seen \subseteq rows
      /\ request[r].verified # Certificate!Nobody => execution.verified # Certificate!Nobody
  BY <1>1 DEF CertificateInv, CertificateRequest
<1>3. VerifiedRow
  BY DEF CertificateInv
<1>4. /\ past' = [verifiers |-> past'.verifiers, seen |-> past'.seen, late |-> past'.late, overlapped |-> past'.overlapped]
      /\ past'.verifiers = past.verifiers \cup {request[r].admin}
      /\ past'.seen = IF past.seen = {} THEN request[r].seen ELSE past.seen
      /\ past'.late = past.late /\ past'.overlapped = past.overlapped
  BY <1>1, <1>3 DEF VerifiedRow
<1>5. /\ execution' = [status |-> "VERIFIED", verified |-> execution'.verified, manifest |-> execution.manifest]
      /\ execution'.verified = IF request[r].verified = request[r].admin THEN execution.verified ELSE request[r].admin
  BY <1>1, <1>3 DEF VerifiedRow
<1>6. execution'.verified # Certificate!Nobody /\ execution'.verified \in past'.verifiers
  BY <1>2, <1>3, <1>4, <1>5 DEF VerifiedRow
<1>7. VerifiedRow'
  BY <1>1, <1>2, <1>3, <1>4, <1>5, <1>6 DEF VerifiedRow
<1>8. HistoryStays
  BY <1>1, <1>3, <1>4, <1>6 DEF HistoryStays, VerifiedRow
<1>9. ChainInv'
  BY <1>1, <1>4, CertificateEnds, ChainCommit DEF CertificateInv
<1> QED BY <1>1, <1>7, <1>8, <1>9, CertificateEnds, CertificateStep

\* A certificate is given with the files that were packed.
LEMMA CertifyKeeps ==
    ASSUME CertificateInv, NEW r \in Requests, Certificate!Certify(r)
    PROVE  CertificateInv'
<1>1. /\ request[r].op = "certify" /\ request[r].at = "packed"
      /\ certificate' = [by |-> request[r].admin, files |-> request[r].files, checked |-> request[r].seen]
      /\ chain' = chain \cup {Certificate!Own(r)}
      /\ request' = [request EXCEPT ![r] = Certificate!Idle]
      /\ UNCHANGED <<execution, rows, disk, events, past>>
  BY DEF Certificate!Certify, Certificate!At, Certificate!Becomes
<1>2. /\ request[r].admin # Assignee /\ past.verifiers \ {request[r].admin} # {}
      /\ request[r].files \ request[r].seen \subseteq past.late /\ past.seen \subseteq request[r].files
  BY <1>1 DEF CertificateInv, CertificateRequest
<1>3. HistoryStays /\ VerifiedRow'
  BY <1>1 DEF HistoryStays, VerifiedRow, CertificateInv
<1>4. Assignee \notin past.verifiers /\ past.seen # {}
  BY <1>2 DEF CertificateInv, VerifiedRow
<1>5. Certificate!CertificateIsSound'
  BY <1>1, <1>2, <1>4 DEF Certificate!CertificateIsSound
<1>6. ChainInv'
  BY <1>1, CertificateEnds, ChainCommit DEF CertificateInv
<1> QED BY <1>1, <1>3, <1>5, <1>6, CertificateEnds, CertificateStep

\* A row of a file joins the others; after a verification it is a late one.
LEMMA LateFilesKeep ==
    ASSUME CertificateInv, NEW r \in Requests, Certificate!Upload(r)
    PROVE  CertificateInv'
<1>1. /\ rows' = rows \cup request[r].files
      /\ execution' = [execution EXCEPT !.manifest = request[r].seen]
      /\ past' = [past EXCEPT !.late = IF past.verifiers # {} THEN @ \cup request[r].files ELSE @]
      /\ request' = [request EXCEPT ![r] = Certificate!Idle]
      /\ UNCHANGED <<disk, chain, events, certificate>>
  BY DEF Certificate!Upload, Certificate!Becomes
<1>2. VerifiedRow
  BY DEF CertificateInv
<1>3. /\ past' = [verifiers |-> past.verifiers, seen |-> past.seen, late |-> past'.late, overlapped |-> past.overlapped]
      /\ past'.late = IF past.verifiers # {} THEN past.late \cup request[r].files ELSE past.late
  BY <1>1, <1>2 DEF VerifiedRow
<1>4. execution' = [status |-> execution.status, verified |-> execution.verified, manifest |-> request[r].seen]
  BY <1>1, <1>2 DEF VerifiedRow
<1>5. HistoryStays /\ VerifiedRow'
  BY <1>1, <1>2, <1>3, <1>4 DEF HistoryStays, VerifiedRow
<1> QED BY <1>1, <1>3, <1>5, CertificateEnds, CertificateStep

\* The files are checked, and the event that will record it takes its number.
LEMMA CheckKeeps ==
    ASSUME CertificateInv, NEW r \in Requests, NEW op \in {"inspect", "verify", "certify"}, Certificate!Check(r, op)
    PROVE  CertificateInv'
<1>1. /\ request[r].op = op /\ request[r].at = "loaded"
      /\ rows # {} /\ events' = events + 1
      /\ past' = [past EXCEPT !.overlapped = @ \/ Certificate!Recording # {}]
      /\ UNCHANGED <<execution, rows, disk, chain, certificate>>
  BY DEF Certificate!Check, Certificate!At, Certificate!FilesHold
<1>2. PICK x : /\ x = [request[r] EXCEPT !.at = "checked", !.seen = rows, !.event = events + 1,
                                         !.prev = Certificate!Last(chain)]
               /\ request' = [request EXCEPT ![r] = x]
  BY DEF Certificate!Check, Certificate!Becomes
<1>3. CertificateRequest(r)
  BY DEF CertificateInv
<1>4. x = [op |-> op, at |-> "checked", admin |-> request[r].admin, manifest |-> request[r].manifest,
           verified |-> request[r].verified, seen |-> rows, files |-> request[r].files,
           event |-> events + 1, prev |-> Certificate!Last(chain)]
  BY <1>1, <1>2, <1>3 DEF CertificateRequest
<1>5. request'[r] = x /\ \A q \in Requests \ {r} : request'[q] = request[q]
  BY <1>2 DEF CertificateInv
<1>6. VerifiedRow
  BY DEF CertificateInv
<1>7. /\ past' = [verifiers |-> past.verifiers, seen |-> past.seen, late |-> past.late, overlapped |-> past'.overlapped]
      /\ past'.overlapped = (past.overlapped \/ Certificate!Recording # {})
  BY <1>1, <1>6 DEF VerifiedRow
<1>8. HistoryStays /\ VerifiedRow'
  BY <1>1, <1>6, <1>7 DEF HistoryStays, VerifiedRow
<1>9. CertificateRequest(r)'
  BY <1>1, <1>3, <1>4, <1>5, <1>7 DEF CertificateRequest
<1>10. ChainInv'
  <2>1. request'[r].event = events + 1 /\ request'[r].prev = Certificate!Last(chain)
    BY <1>4, <1>5
  <2> QED BY <1>1, <1>5, <1>7, <2>1, ChainCheck DEF CertificateInv
<1> QED BY <1>1, <1>2, <1>8, <1>9, <1>10, CertificateStep

\* A file is stored, or the package is made of the rows by now.
LEMMA FilesKeep ==
    ASSUME CertificateInv, NEW r \in Requests, Certificate!Store(r) \/ Certificate!Pack(r)
    PROVE  CertificateInv'
<1>1. UNCHANGED <<execution, rows, chain, events, certificate, past>>
  BY Zenon DEF Certificate!Store, Certificate!Pack
<1>2. CertificateRequest(r) /\ ChainInv
  BY DEF CertificateInv
<1>3. CASE Certificate!Store(r)
  <2>0. PICK f \in Files : /\ request[r].op = "upload"
                           /\ request' = [request EXCEPT ![r] = [request[r] EXCEPT !.at = "stored", !.files = {f},
                                                                                 !.seen = rows \cup {f}]]
    BY <1>3, Zenon DEF Certificate!Store, Certificate!At, Certificate!Becomes
  <2>1. PICK x : /\ request[r].op = "upload"
                 /\ x = [request[r] EXCEPT !.at = "stored", !.files = {f}, !.seen = rows \cup {f}]
                 /\ request' = [request EXCEPT ![r] = x]
    BY <2>0
  <2>2. x = [op |-> "upload", at |-> "stored", admin |-> request[r].admin, manifest |-> request[r].manifest,
             verified |-> request[r].verified, seen |-> rows \cup {f}, files |-> {f},
             event |-> request[r].event, prev |-> request[r].prev]
    BY <1>2, <2>1 DEF CertificateRequest
  <2>3. request'[r] = x /\ \A q \in Requests \ {r} : request'[q] = request[q]
    BY <2>1 DEF CertificateInv
  <2>4. CertificateRequest(r)'
    BY <1>1, <1>2, <2>2, <2>3 DEF CertificateRequest
  <2>5. ChainInv'
    <3>1. request'[r].event = request[r].event /\ request'[r].prev = request[r].prev /\ request'[r].at = "stored"
      BY <2>2, <2>3
    <3> QED BY <1>1, <1>2, <2>3, <3>1, ChainQuiet
  <2> QED BY <1>1, <2>1, <2>4, <2>5, CertificateMoves
<1>4. CASE Certificate!Pack(r)
  <2>1. PICK x :
            /\ request[r].op = "certify" /\ request[r].at = "checked"
            /\ x = [request[r] EXCEPT !.at = "packed", !.files = rows]
            /\ request' = [request EXCEPT ![r] = x]
    BY <1>4 DEF Certificate!Pack, Certificate!At, Certificate!Becomes
  <2>2. x = [op |-> "certify", at |-> "packed", admin |-> request[r].admin, manifest |-> request[r].manifest,
             verified |-> request[r].verified, seen |-> request[r].seen, files |-> rows,
             event |-> request[r].event, prev |-> request[r].prev]
    BY <1>2, <2>1 DEF CertificateRequest
  <2>3. request'[r] = x /\ \A q \in Requests \ {r} : request'[q] = request[q]
    BY <2>1 DEF CertificateInv
  <2>4. past.seen \subseteq rows
    BY DEF CertificateInv, VerifiedRow
  <2>5. CertificateRequest(r)'
    <3>1. /\ request'[r] = [op |-> request'[r].op, at |-> request'[r].at, admin |-> request'[r].admin,
                           manifest |-> request'[r].manifest, verified |-> request'[r].verified,
                           seen |-> request'[r].seen, files |-> request'[r].files,
                           event |-> request'[r].event, prev |-> request'[r].prev]
          /\ request'[r].op = "certify" /\ request'[r].at = "packed" /\ request'[r].files = rows
          /\ request'[r].admin = request[r].admin /\ request'[r].verified = request[r].verified
          /\ request'[r].seen = request[r].seen
      BY <2>2, <2>3
    <3>2. /\ request[r].verified # Certificate!Nobody => execution.verified # Certificate!Nobody
          /\ request[r].admin # Assignee /\ past.verifiers \ {request[r].admin} # {}
          /\ rows \ request[r].seen \subseteq past.late
      BY <1>2, <2>1 DEF CertificateRequest
    <3>3. past' = past /\ execution' = execution
      BY <1>1
    <3> QED BY <2>4, <3>1, <3>2, <3>3 DEF CertificateRequest
  <2>6. ChainInv'
    <3>1. request'[r].event = request[r].event /\ request'[r].prev = request[r].prev /\ request[r].at = "checked"
      BY <2>1, <2>2, <2>3
    <3> QED BY <1>1, <1>2, <2>3, <3>1, ChainQuiet
  <2> QED BY <1>1, <2>1, <2>5, <2>6, CertificateMoves
<1> QED BY <1>3, <1>4

\* Whatever files join, are lost or are checked meanwhile.
LEMMA CertificateKeeps ==
    ASSUME Assumptions, CertificateInv, [Certificate!Next]_(Certificate!vars)
    PROVE  CertificateInv'
<1> USE DEF Assumptions
<1>1. ASSUME UNCHANGED <<execution, rows, chain, events, certificate, request, past>> PROVE CertificateInv'
  <2>1. ChainInv'
    BY <1>1, ChainQuiet DEF CertificateInv
  <2>2. VerifiedRow' /\ Certificate!CertificateIsSound'
    BY <1>1 DEF CertificateInv, VerifiedRow, Certificate!CertificateIsSound, Certificate!NoCertificate
  <2>3. \A r \in Requests : CertificateRequest(r)'
    BY <1>1 DEF CertificateInv, CertificateRequest
  <2> QED BY <1>1, <2>1, <2>2, <2>3 DEF CertificateInv
<1>2. CASE UNCHANGED Certificate!vars
  BY <1>1, <1>2 DEF Certificate!vars
<1>3. ASSUME NEW f \in Files, Certificate!Damage(f) PROVE CertificateInv'
  BY <1>1, <1>3 DEF Certificate!Damage
<1>4. ASSUME NEW r \in Requests,
             \/ Certificate!ReadStart(r) \/ Certificate!ReadComplete(r) \/ Certificate!ReadUpload(r)
             \/ Certificate!ReadInspect(r)
      PROVE  CertificateInv'
  <2>1. PICK op \in {"start", "complete", "upload", "inspect"}, a \in {Assignee, Certificate!Nobody} :
            Certificate!Loads(r, op, a) \/ Certificate!LoadsAll(r, op, a)
    BY <1>4 DEF Certificate!ReadStart, Certificate!ReadComplete, Certificate!ReadUpload, Certificate!ReadInspect
  <2> QED BY <2>1, CertificateLoads
<1>5. ASSUME NEW r \in Requests, Certificate!ReadVerify(r) PROVE CertificateInv'
  <2>1. PICK a \in Admins \ {Assignee} : Certificate!LoadsAll(r, "verify", a)
    BY <1>5 DEF Certificate!ReadVerify
  <2> QED BY <2>1, CertificateLoads
<1>6. ASSUME NEW r \in Requests, Certificate!ReadCertify(r) PROVE CertificateInv'
  <2>1. PICK a \in Admins : Certificate!MayCertify(a) /\ Certificate!LoadsAll(r, "certify", a)
    BY <1>6 DEF Certificate!ReadCertify
  <2>2. a # Assignee /\ past.verifiers \ {a} # {}
    BY <2>1 DEF Certificate!MayCertify, CertificateInv, VerifiedRow
  <2> QED BY <2>1, <2>2, CertificateLoads
<1>7. ASSUME NEW r \in Requests, Certificate!SetStatus(r) PROVE CertificateInv'
  <2>1. PICK status \in {"IN_EXECUTION", "COMPLETED"} : execution' = [execution EXCEPT !.status = status]
    BY <1>7 DEF Certificate!SetStatus
  <2>2. /\ request' = [request EXCEPT ![r] = Certificate!Idle]
        /\ UNCHANGED <<rows, disk, chain, events, certificate, past>>
    BY <1>7 DEF Certificate!SetStatus, Certificate!Becomes
  <2>3. execution' = [status |-> status, verified |-> execution.verified, manifest |-> execution.manifest]
    BY <2>1 DEF CertificateInv, VerifiedRow
  <2>4. HistoryStays /\ VerifiedRow'
    BY <2>2, <2>3 DEF HistoryStays, VerifiedRow, CertificateInv
  <2> QED BY <2>2, <2>4, CertificateEnds, CertificateStep
<1>8. ASSUME NEW r \in Requests, Certificate!CommitInspect(r) PROVE CertificateInv'
  <2>1. /\ request[r].at = "checked" /\ chain' = chain \cup {Certificate!Own(r)}
        /\ request' = [request EXCEPT ![r] = Certificate!Idle]
        /\ UNCHANGED <<execution, rows, disk, events, certificate, past>>
    BY <1>8 DEF Certificate!CommitInspect, Certificate!At, Certificate!Becomes
  <2>2. ChainInv'
    BY <2>1, CertificateEnds, ChainCommit DEF CertificateInv
  <2> QED BY <2>1, <2>2, CertificateEnds, CertificateMoves
<1>9. ASSUME NEW r \in Requests, Certificate!Abandon(r) PROVE CertificateInv'
  <2>1. /\ request' = [request EXCEPT ![r] = Certificate!Idle]
        /\ UNCHANGED <<execution, rows, chain, events, certificate, past>>
    BY <1>9 DEF Certificate!Abandon, Certificate!Becomes
  <2> QED BY <2>1, CertificateEnds, CertificateMoves
<1> QED BY <1>2, <1>3, <1>4, <1>5, <1>6, <1>7, <1>8, <1>9, VerifyKeeps, CertifyKeeps, LateFilesKeep, CheckKeeps, FilesKeep
        DEF Certificate!Next

\* The certificate names what was compared, and a chain without overlap is linear.
LEMMA CertificationHolds == CertificateInv => Certificate!CertificateIsSound /\ Certificate!ChainBreaksByOverlap
  BY DEF CertificateInv, ChainInv, Certificate!ChainBreaksByOverlap

\* certify (continuous_improvement_certification_v090.py) is by one who neither
\* executed nor was alone to verify, and misses no file the verification saw; a
\* chain of integrity events breaks only when two checks overlapped
\* (_event, continuous_improvement_evidence_v089.py).
THEOREM Certification ==
    ASSUME Assumptions
    PROVE  Certificate!Spec => [](Certificate!CertificateIsSound /\ Certificate!ChainBreaksByOverlap)
<1>1. Certificate!Init => CertificateInv
  BY CertificateStarts
<1>2. CertificateInv /\ [Certificate!Next]_(Certificate!vars) => CertificateInv'
  BY CertificateKeeps
<1>3. CertificateInv => Certificate!CertificateIsSound /\ Certificate!ChainBreaksByOverlap
  BY CertificationHolds
<1> QED BY <1>1, <1>2, <1>3, PTL DEF Certificate!Spec

-----------------------------------------------------------------------------
(* The upload of a backup.                                                  *)

Upload == INSTANCE BackupUpload

\* The tables have the keys they began with.
UploadTables ==
    /\ drive = [s \in Sessions |-> drive[s]]
    /\ proc = [h \in Hosts |-> proc[h]]
    /\ receipt = [h \in Hosts |-> receipt[h]]

\* What the provider may hold of a session.
Objects == [stage : {"none", "open", "stored", "expired"}, sent : Nat, intact : BOOLEAN, marked : BOOLEAN]

\* An object is whole only when it is there, and marked only when it is whole.
ObjectInv(s) ==
    /\ drive[s] \in Objects
    /\ drive[s].intact => drive[s].stage = "stored"
    /\ drive[s].marked => drive[s].intact

\* Host h is about to say of object s, or says, that it is the copy.
Claims(h, s) ==
    \/ proc[h].pc \in {"mark", "claim"} /\ proc[h].sid = s
    \/ Upload!Complete(h) /\ receipt[h].file = s

\* The object is the one in the folder, and whole.
Held(s) == s \in Upload!Matches /\ Upload!Verified(s)

\* A host marks and claims only what is held, and claims only what is marked.
HostInv(h) ==
    /\ proc[h] = [pc |-> proc[h].pc, sid |-> proc[h].sid, offset |-> proc[h].offset]
    /\ receipt[h] = [status |-> receipt[h].status, file |-> receipt[h].file]
    /\ proc[h].pc \notin {"idle", "pack", "before", "open"} => proc[h].sid \in Sessions
    /\ proc[h].pc \in {"mark", "claim"} => Held(proc[h].sid)
    /\ proc[h].pc = "claim" => drive[proc[h].sid].marked
    /\ Upload!Complete(h) => Held(receipt[h].file) /\ drive[receipt[h].file].marked

\* No two hosts speak of different objects.
OneCopy == \A g, h \in Hosts : \A s, t \in Sessions : Claims(g, s) /\ Claims(h, t) => s = t

\* The inductive invariant.
UploadInv ==
    /\ UploadTables
    /\ \A s \in Sessions : ObjectInv(s)
    /\ \A h \in Hosts : HostInv(h)
    /\ OneCopy

\* What is in the folder stays there and as it is, and keeps its mark.
FolderStays ==
    \A s \in Sessions : /\ Held(s) => Held(s)'
                        /\ Held(s) /\ drive[s].marked => drive'[s].marked

\* No host has begun.
LEMMA UploadStarts == Upload!Init => UploadInv
<1> SUFFICES ASSUME Upload!Init PROVE UploadInv
  OBVIOUS
<1>1. UploadTables
  BY DEF Upload!Init, UploadTables
<1>2. \A s \in Sessions : ObjectInv(s)
  BY DEF Upload!Init, Upload!Unused, ObjectInv, Objects
<1>3. \A h \in Hosts : proc[h] = Upload!Idle /\ receipt[h] = Upload!NoReceipt
  BY DEF Upload!Init
<1>4. \A h \in Hosts : HostInv(h)
  BY <1>3 DEF Upload!Idle, Upload!NoReceipt, HostInv, Upload!Complete
<1>5. OneCopy
  BY <1>3 DEF Upload!Idle, Upload!NoReceipt, OneCopy, Claims, Upload!Complete
<1> QED BY <1>1, <1>2, <1>4, <1>5 DEF UploadInv

\* A step of one host, after which it claims nothing it did not claim before
\* but, perhaps, the only object of the folder.
LEMMA HostStep ==
    ASSUME UploadInv, FolderStays, UploadTables', \A s \in Sessions : ObjectInv(s)',
           NEW h \in Hosts, HostInv(h)',
           \A g \in Hosts \ {h} : proc'[g] = proc[g] /\ receipt'[g] = receipt[g],
           \A s \in Sessions : Claims(h, s)' => Claims(h, s) \/ Upload!Matches = {s}
    PROVE  UploadInv'
<1>1. ASSUME NEW g \in Hosts, g # h PROVE HostInv(g)'
  <2>1. HostInv(g) /\ proc'[g] = proc[g] /\ receipt'[g] = receipt[g]
    BY <1>1 DEF UploadInv
  <2>2. proc[g].pc \in {"mark", "claim"} => Held(proc[g].sid)'
    BY <2>1 DEF HostInv, FolderStays, Held, Upload!Matches
  <2>3. Upload!Complete(g) => Held(receipt[g].file)' /\ drive'[receipt[g].file].marked
    BY <2>1 DEF HostInv, FolderStays, Held, Upload!Matches
  <2>4. proc[g].pc = "claim" => drive'[proc[g].sid].marked
    BY <2>1 DEF HostInv, FolderStays
  <2> QED BY <2>1, <2>2, <2>3, <2>4 DEF HostInv, Upload!Complete, Held, Upload!Matches, Upload!Verified
<1>2. \A g \in Hosts \ {h}, s \in Sessions : Claims(g, s)' => Claims(g, s)
  BY DEF Claims, Upload!Complete
<1>3. \A g \in Hosts, s \in Sessions : Claims(g, s) => s \in Upload!Matches
  BY DEF Claims, UploadInv, HostInv, Held
<1>4. OneCopy'
  <2>1. ASSUME NEW s \in Sessions, NEW t \in Sessions, NEW g \in Hosts, NEW k \in Hosts, Claims(g, s)', Claims(k, t)'
        PROVE  s = t
    <3>1. Claims(g, s) \/ Upload!Matches = {s}
      BY <1>2, <2>1
    <3>2. Claims(k, t) \/ Upload!Matches = {t}
      BY <1>2, <2>1
    <3> QED BY <1>3, <3>1, <3>2 DEF UploadInv, OneCopy
  <2> QED BY <2>1 DEF OneCopy
<1> QED BY <1>1, <1>4 DEF UploadInv

\* A host moves on, perhaps to claim the only object, perhaps with a receipt
\* that claims nothing.
LEMMA HostMoves ==
    ASSUME UploadInv, NEW h \in Hosts, NEW p, p = [pc |-> p.pc, sid |-> p.sid, offset |-> p.offset], Upload!Goto(h, p),
           UNCHANGED drive,
           \/ UNCHANGED receipt
           \/ \E status, s : status # "COMPLETE_OFF_VM" /\ Upload!Write(h, status, s),
           p.pc \notin {"idle", "pack", "before", "open"} => p.sid \in Sessions,
           p.pc = "mark" => Upload!Matches = {p.sid} /\ Upload!Verified(p.sid),
           p.pc # "claim"
    PROVE  UploadInv'
<1>1. UploadTables /\ HostInv(h) /\ \A s \in Sessions : ObjectInv(s)
  BY DEF UploadInv
<1>2. proc'[h] = p /\ \A g \in Hosts \ {h} : proc'[g] = proc[g]
  BY <1>1 DEF Upload!Goto, UploadTables
<1>3. /\ \/ receipt'[h] = receipt[h]
         \/ receipt'[h] = [status |-> receipt'[h].status, file |-> receipt'[h].file] /\ ~Upload!Complete(h)'
      /\ \A g \in Hosts \ {h} : receipt'[g] = receipt[g]
  BY <1>1 DEF Upload!Write, UploadTables, Upload!Complete
<1>4. UploadTables'
  BY <1>1 DEF Upload!Goto, Upload!Write, UploadTables
<1>5. FolderStays /\ \A s \in Sessions : ObjectInv(s)'
  BY <1>1 DEF FolderStays, Held, Upload!Matches, Upload!Verified, ObjectInv
<1>6. HostInv(h)'
  <2>1. p.pc = "mark" => Held(p.sid)'
    BY DEF Held, Upload!Matches, Upload!Verified
  <2>2. Upload!Complete(h)' => receipt'[h] = receipt[h] /\ Held(receipt[h].file)' /\ drive'[receipt[h].file].marked
    BY <1>1, <1>3 DEF HostInv, Upload!Complete, Held, Upload!Matches, Upload!Verified
  <2>3. receipt'[h] = [status |-> receipt'[h].status, file |-> receipt'[h].file]
    BY <1>1, <1>3 DEF HostInv
  <2> QED BY <1>2, <2>1, <2>2, <2>3 DEF HostInv, Held, Upload!Complete, Upload!Matches, Upload!Verified
<1>7. \A s \in Sessions : Claims(h, s)' => Claims(h, s) \/ Upload!Matches = {s}
  BY <1>2, <1>3 DEF Claims, Upload!Complete
<1> QED BY <1>1, <1>2, <1>3, <1>4, <1>5, <1>6, <1>7, HostStep

\* An object changes by a step of the host that sends, compares or marks it.
LEMMA ObjectChanges ==
    ASSUME UploadInv, NEW h \in Hosts, NEW t \in Sessions, NEW o \in Objects,
           drive' = [s \in Sessions |-> drive'[s]], drive'[t] = o, \A s \in Sessions \ {t} : drive'[s] = drive[s],
           o.intact => o.stage = "stored", o.marked => o.intact,
           drive[t].stage = "stored" => o.stage = "stored" /\ (drive[t].intact => o.intact) /\ (drive[t].marked => o.marked),
           NEW p, p = [pc |-> p.pc, sid |-> p.sid, offset |-> p.offset], Upload!Goto(h, p), UNCHANGED receipt,
           p.pc \notin {"idle", "pack", "before", "open"} => p.sid \in Sessions,
           p.pc \in {"mark", "claim"} => /\ proc[h].pc = "mark" /\ proc[h].sid = p.sid
                                         /\ p.pc = "claim" => p.sid = t /\ o.marked
    PROVE  UploadInv'
<1>1. UploadTables /\ HostInv(h) /\ \A s \in Sessions : ObjectInv(s)
  BY DEF UploadInv
<1>2. proc'[h] = p /\ \A g \in Hosts \ {h} : proc'[g] = proc[g]
  BY <1>1 DEF Upload!Goto, UploadTables
<1>3. \A s \in Sessions : s # t => drive'[s] = drive[s]
  OBVIOUS
<1>4. UploadTables'
  BY <1>1 DEF Upload!Goto, UploadTables
<1>5. \A s \in Sessions : ObjectInv(s)'
  BY <1>1, <1>3 DEF ObjectInv
<1>6. FolderStays
  <2>1. ASSUME NEW s \in Sessions, Held(s)
        PROVE  Held(s)' /\ (drive[s].marked => drive'[s].marked)
    BY <1>3, <2>1 DEF Held, Upload!Matches, Upload!Verified
  <2> QED BY <2>1 DEF FolderStays
<1>7. HostInv(h)'
  <2>1. p.pc \in {"mark", "claim"} => Held(p.sid)'
    <3>1. p.pc \in {"mark", "claim"} => Held(p.sid) /\ p.sid \in Sessions
      BY <1>1 DEF HostInv, Held, Upload!Matches
    <3> QED BY <1>6, <3>1 DEF FolderStays, Held, Upload!Matches
  <2>2. Upload!Complete(h) => Held(receipt[h].file)' /\ drive'[receipt[h].file].marked
    BY <1>1, <1>6 DEF HostInv, FolderStays, Held, Upload!Matches
  <2>3. p.pc = "claim" => drive'[p.sid].marked
    BY <1>3
  <2> QED BY <1>1, <1>2, <2>1, <2>2, <2>3 DEF HostInv, Held, Upload!Complete, Upload!Matches, Upload!Verified
<1>8. \A s \in Sessions : Claims(h, s)' => Claims(h, s)
  BY <1>2 DEF Claims, Upload!Complete
<1> QED BY <1>1, <1>2, <1>4, <1>5, <1>6, <1>7, <1>8, HostStep

\* The steps of a host.
LEMMA HostKeeps ==
    ASSUME UploadInv, NEW h \in Hosts,
           \/ Upload!Start(h) \/ Upload!Pack(h) \/ Upload!Fail(h) \/ Upload!Before(h) \/ Upload!Open(h) \/ Upload!Put(h) \/ Upload!Status(h)
           \/ Upload!Unknown(h) \/ Upload!Verify(h) \/ Upload!After(h) \/ Upload!Mark(h) \/ Upload!Claim(h) \/ Upload!Kill(h)
    PROVE  UploadInv'
<1> PICK p, s : p = proc[h] /\ s = proc[h].sid
  OBVIOUS
<1>1. /\ HostInv(h) /\ UploadTables
      /\ \A t \in Sessions : ObjectInv(t)
  BY DEF UploadInv
<1>2. \A pc, t : /\ Upload!At(pc, t) = [pc |-> Upload!At(pc, t).pc, sid |-> Upload!At(pc, t).sid, offset |-> Upload!At(pc, t).offset]
                 /\ Upload!At(pc, t).pc = pc /\ Upload!At(pc, t).sid = t
  BY DEF Upload!At
<1>3. Upload!Idle = [pc |-> Upload!Idle.pc, sid |-> Upload!Idle.sid, offset |-> Upload!Idle.offset] /\ Upload!Idle.pc = "idle"
  BY DEF Upload!Idle
<1>4. CASE Upload!Start(h) \/ Upload!Pack(h) \/ Upload!Fail(h) \/ Upload!Kill(h)
  <2>1. PICK q \in {Upload!Idle, Upload!At("pack", None), Upload!At("before", None)} :
            /\ Upload!Goto(h, q) /\ UNCHANGED drive
            /\ \/ UNCHANGED receipt
               \/ \E status, t : status # "COMPLETE_OFF_VM" /\ Upload!Write(h, status, t)
    BY <1>4 DEF Upload!Start, Upload!Pack, Upload!Fail, Upload!Kill
  <2>2. q = [pc |-> q.pc, sid |-> q.sid, offset |-> q.offset] /\ q.pc \in {"idle", "pack", "before"}
    BY <1>2, <1>3, <2>1
  <2> QED BY <2>1, <2>2, HostMoves
<1>5. CASE Upload!Before(h) \/ Upload!Unknown(h) \/ Upload!After(h)
  <2>1. /\ UNCHANGED <<receipt, drive>>
        /\ \/ Upload!Goto(h, Upload!At("open", None))
           \/ \E t \in Sessions : Upload!Matches = {t} /\ Upload!Verified(t) /\ Upload!Goto(h, Upload!At("mark", t))
    BY <1>5 DEF Upload!Before, Upload!Unknown, Upload!After, Upload!Listed, Upload!Sole, Upload!Matches
  <2> QED BY <1>2, <2>1, HostMoves
<1>6. CASE Upload!Status(h)
  <2>1. s \in Sessions /\ UNCHANGED <<receipt, drive>>
    BY <1>1, <1>6 DEF Upload!Status, HostInv
  <2>2. CASE Upload!Goto(h, Upload!At("verify", s)) \/ Upload!Goto(h, Upload!At("unknown", s))
    BY <1>2, <2>1, <2>2, HostMoves
  <2>3. CASE proc' = [proc EXCEPT ![h] = [@ EXCEPT !.pc = "put", !.offset = drive[s].sent]]
    <3>1. PICK q : q = [p EXCEPT !.pc = "put", !.offset = drive[s].sent]
      OBVIOUS
    <3>2. q = [pc |-> "put", sid |-> s, offset |-> drive[s].sent]
      BY <1>1, <3>1 DEF HostInv
    <3>3. Upload!Goto(h, q)
      BY <1>1, <2>3, <3>1 DEF Upload!Goto, UploadTables
    <3> QED BY <2>1, <3>2, <3>3, HostMoves
  <2> QED BY <1>6, <2>2, <2>3 DEF Upload!Status
<1>7. CASE Upload!Put(h)
  <2>1. s \in Sessions /\ UNCHANGED receipt
    BY <1>1, <1>7, Zenon DEF Upload!Put, HostInv
  <2>2. PICK q : q = [p EXCEPT !.pc = "status"]
    OBVIOUS
  <2>3. q = [pc |-> "status", sid |-> s, offset |-> p.offset]
    BY <1>1, <2>2 DEF HostInv
  <2>4. Upload!Goto(h, q)
    BY <1>1, <1>7, <2>2, Zenon DEF Upload!Put, Upload!Goto, UploadTables
  <2>5. CASE drive' = drive
    BY <2>1, <2>3, <2>4, <2>5, HostMoves
  <2>6. CASE drive' # drive
    <3>1. drive[s] \in Objects /\ drive[s].stage = "open" /\ ~drive[s].intact /\ ~drive[s].marked
      BY <1>1, <1>7, <2>1, <2>6, Zenon DEF Upload!Put, ObjectInv
    <3>2. PICK o \in Objects :
              /\ drive' = [t \in Sessions |-> drive'[t]] /\ drive'[s] = o /\ \A t \in Sessions \ {s} : drive'[t] = drive[t]
              /\ ~o.marked /\ (o.intact => o.stage = "stored")
      <4>1. CASE drive' = [drive EXCEPT ![s].sent = @ + 1]
        <5>1. /\ drive' = [t \in Sessions |-> drive'[t]]
              /\ drive'[s] = [drive[s] EXCEPT !.sent = @ + 1] /\ \A t \in Sessions \ {s} : drive'[t] = drive[t]
          BY <1>1, <2>1, <4>1 DEF UploadTables
        <5>2. drive'[s] \in Objects /\ ~drive'[s].marked /\ ~drive'[s].intact
          BY <3>1, <5>1 DEF Objects
        <5> QED BY <5>1, <5>2
      <4>2. CASE drive' # [drive EXCEPT ![s].sent = @ + 1]
        <5>1. PICK ok \in BOOLEAN :
                  drive' = [drive EXCEPT ![s] = [@ EXCEPT !.stage = "stored", !.sent = Chunks, !.intact = ok]]
          BY <1>7, <2>6, <4>2, Zenon DEF Upload!Put
        <5>2. /\ drive' = [t \in Sessions |-> drive'[t]]
              /\ drive'[s] = [drive[s] EXCEPT !.stage = "stored", !.sent = Chunks, !.intact = ok]
              /\ \A t \in Sessions \ {s} : drive'[t] = drive[t]
          BY <1>1, <2>1, <5>1, Zenon DEF UploadTables
        <5>3. Chunks \in Nat
          <6>1. drive[s].sent + 1 = Chunks
            BY <1>7, <2>6, <4>2, Zenon DEF Upload!Put
          <6>2. drive[s].sent \in Nat
            BY <3>1 DEF Objects
          <6> QED BY <6>1, <6>2
        <5>4. drive'[s] \in Objects /\ ~drive'[s].marked /\ drive'[s].stage = "stored"
          BY <3>1, <5>2, <5>3 DEF Objects
        <5> QED BY <5>2, <5>4
      <4> QED BY <4>1, <4>2
    <3>3. proc[h].pc # "mark" /\ (drive[s].stage = "stored" => FALSE)
      BY <1>7, <3>1, Zenon DEF Upload!Put
    <3> QED BY <2>1, <2>3, <2>4, <3>2, <3>3, ObjectChanges
  <2> QED BY <2>5, <2>6
<1>8. CASE Upload!Open(h)
  <2>1. PICK t \in Sessions : drive[t] = Upload!Unused /\ drive' = [drive EXCEPT ![t].stage = "open"] /\ Upload!Goto(h, Upload!At("put", t))
    BY <1>8 DEF Upload!Open
  <2>2. /\ drive' = [u \in Sessions |-> drive'[u]]
        /\ drive'[t] = [drive[t] EXCEPT !.stage = "open"] /\ \A u \in Sessions \ {t} : drive'[u] = drive[u]
    BY <1>1, <2>1 DEF UploadTables
  <2>3. /\ drive'[t] \in Objects /\ ~drive'[t].marked /\ ~drive'[t].intact
        /\ drive[t].stage = "none"
    <3>1. drive[t] \in Objects /\ drive[t].stage = "none" /\ ~drive[t].intact /\ ~drive[t].marked
      BY <1>1, <2>1 DEF Upload!Unused, ObjectInv
    <3> QED BY <2>2, <3>1 DEF Objects
  <2>4. PICK q, o : q = Upload!At("put", t) /\ o = drive'[t]
    OBVIOUS
  <2>5. /\ q = [pc |-> q.pc, sid |-> q.sid, offset |-> q.offset] /\ q.pc = "put" /\ q.sid \in Sessions
        /\ Upload!Goto(h, q) /\ UNCHANGED receipt
    BY <1>2, <1>8, <2>1, <2>4 DEF Upload!Open
  <2>6. o \in Objects /\ ~o.marked /\ ~o.intact
    BY <2>3, <2>4
  <2> QED BY <2>2, <2>3, <2>4, <2>5, <2>6, ObjectChanges
<1>9. CASE Upload!Verify(h) \/ Upload!Mark(h)
  <2>1. s \in Sessions /\ Upload!Verified(s)
    BY <1>1, <1>9 DEF Upload!Verify, Upload!Mark, HostInv, Held
  <2>2. UNCHANGED receipt /\ drive' = [drive EXCEPT ![s].marked = TRUE]
    BY <1>9 DEF Upload!Verify, Upload!Mark
  <2>3. Upload!Goto(h, Upload!At("after", s)) \/ (p.pc = "mark" /\ Upload!Goto(h, Upload!At("claim", s)))
    BY <1>9 DEF Upload!Verify, Upload!Mark
  <2>4. /\ drive' = [t \in Sessions |-> drive'[t]]
        /\ drive'[s] = [drive[s] EXCEPT !.marked = TRUE] /\ \A t \in Sessions \ {s} : drive'[t] = drive[t]
    BY <1>1, <2>1, <2>2 DEF UploadTables
  <2>5. /\ drive'[s] \in Objects /\ drive'[s].marked /\ drive'[s].stage = drive[s].stage
        /\ drive'[s].intact /\ drive[s].stage = "stored"
    BY <1>1, <2>1, <2>4 DEF ObjectInv, Objects, Upload!Verified
  <2>6. PICK o : o = drive'[s]
    OBVIOUS
  <2>7. o \in Objects /\ o.marked /\ o.stage = "stored" /\ o.intact
    BY <2>5, <2>6
  <2>8. CASE Upload!Goto(h, Upload!At("after", s))
    <3>1. PICK q : q = Upload!At("after", s)
      OBVIOUS
    <3>2. q = [pc |-> q.pc, sid |-> q.sid, offset |-> q.offset] /\ q.sid = s /\ q.pc = "after" /\ Upload!Goto(h, q)
      BY <1>2, <2>8, <3>1
    <3> QED BY <2>1, <2>2, <2>4, <2>6, <2>7, <3>2, ObjectChanges
  <2>9. CASE p.pc = "mark" /\ Upload!Goto(h, Upload!At("claim", s))
    <3>1. PICK q : q = Upload!At("claim", s)
      OBVIOUS
    <3>2. /\ q = [pc |-> q.pc, sid |-> q.sid, offset |-> q.offset] /\ q.sid = s /\ q.pc = "claim" /\ Upload!Goto(h, q)
          /\ proc[h].pc = "mark" /\ proc[h].sid = q.sid
      BY <1>2, <2>9, <3>1
    <3>3. /\ q.sid \in Sessions
          /\ proc[h].pc = "mark" /\ proc[h].sid = q.sid /\ q.pc = "claim" /\ o.marked
      BY <2>1, <2>7, <3>2
    <3> QED BY <2>1, <2>2, <2>4, <2>6, <2>7, <3>2, <3>3, ObjectChanges
  <2> QED BY <2>3, <2>8, <2>9
<1>10. CASE Upload!Claim(h)
  <2>1. /\ p.pc = "claim" /\ Upload!Write(h, "COMPLETE_OFF_VM", s) /\ Upload!Goto(h, Upload!Idle) /\ UNCHANGED drive
    BY <1>10 DEF Upload!Claim
  <2>2. /\ receipt'[h] = [status |-> "COMPLETE_OFF_VM", file |-> s] /\ proc'[h] = Upload!Idle
        /\ \A g \in Hosts \ {h} : proc'[g] = proc[g] /\ receipt'[g] = receipt[g]
    BY <1>1, <2>1 DEF Upload!Write, Upload!Goto, UploadTables
  <2>3. UploadTables'
    BY <1>1, <2>1 DEF Upload!Write, Upload!Goto, UploadTables
  <2>4. FolderStays /\ \A t \in Sessions : ObjectInv(t)'
    BY <1>1, <2>1 DEF FolderStays, Held, Upload!Matches, Upload!Verified, ObjectInv
  <2>5. Held(s)' /\ drive'[s].marked
    BY <1>1, <2>1 DEF HostInv, Held, Upload!Matches, Upload!Verified
  <2>6. HostInv(h)'
    BY <1>3, <2>2, <2>5 DEF HostInv, Held, Upload!Complete, Upload!Matches, Upload!Verified
  <2>7. \A t \in Sessions : Claims(h, t)' => Claims(h, t)
    BY <1>3, <2>1, <2>2 DEF Claims, Upload!Complete
  <2> QED BY <2>2, <2>3, <2>4, <2>6, <2>7, HostStep
<1> QED BY <1>4, <1>5, <1>6, <1>7, <1>8, <1>9, <1>10

\* Uploads race, calls are lost and sessions expire.
LEMMA UploadKeeps ==
    ASSUME UploadInv, [Upload!Next]_(Upload!vars)
    PROVE  UploadInv'
<1>1. CASE UNCHANGED Upload!vars
  <2>1. UNCHANGED <<receipt, drive, proc>>
    BY <1>1 DEF Upload!vars
  <2>2. UploadTables' /\ OneCopy' /\ \A s \in Sessions : ObjectInv(s)'
    BY <2>1 DEF UploadInv, UploadTables, OneCopy, Claims, Upload!Complete, ObjectInv
  <2>3. \A h \in Hosts : HostInv(h)'
    BY <2>1 DEF UploadInv, HostInv, Upload!Complete, Held, Upload!Matches, Upload!Verified
  <2> QED BY <2>2, <2>3 DEF UploadInv
<1>2. ASSUME NEW t \in Sessions, Upload!Expire(t) PROVE UploadInv'
  <2>1. drive[t].stage = "open" /\ UNCHANGED <<receipt, proc>>
    BY <1>2 DEF Upload!Expire
  <2>2. UploadTables /\ \A s \in Sessions : ObjectInv(s)
    BY DEF UploadInv
  <2>3. /\ UploadTables' /\ drive'[t] = [drive[t] EXCEPT !.stage = "expired"]
        /\ \A s \in Sessions \ {t} : drive'[s] = drive[s]
    BY <1>2, <2>1, <2>2 DEF Upload!Expire, UploadTables
  <2>4. /\ drive[t] \in Objects /\ ~drive[t].intact /\ ~drive[t].marked
    BY <2>1, <2>2 DEF ObjectInv
  <2>5. /\ drive'[t] \in Objects /\ ~drive'[t].intact /\ ~drive'[t].marked
    BY <2>3, <2>4 DEF Objects
  <2>6. \A s \in Sessions : ObjectInv(s)' /\ (Held(s) => Held(s)' /\ drive'[s] = drive[s])
    BY <2>1, <2>2, <2>3, <2>5 DEF ObjectInv, Held, Upload!Matches, Upload!Verified
  <2>7. ASSUME NEW h \in Hosts PROVE HostInv(h)'
    <3>1. HostInv(h)
      BY DEF UploadInv
    <3>2. \A s : Held(s) => s \in Sessions
      BY DEF Held, Upload!Matches
    <3>3. proc[h].pc \in {"mark", "claim"} => Held(proc[h].sid)' /\ drive'[proc[h].sid] = drive[proc[h].sid]
      <4>1. proc[h].pc \in {"mark", "claim"} => Held(proc[h].sid)
        BY <3>1 DEF HostInv
      <4> QED BY <2>1, <2>6, <3>2, <4>1 DEF Held, Upload!Matches, Upload!Verified
    <3>4. Upload!Complete(h) => Held(receipt[h].file)' /\ drive'[receipt[h].file] = drive[receipt[h].file]
      <4>1. Upload!Complete(h) => Held(receipt[h].file)
        BY <3>1 DEF HostInv
      <4> QED BY <2>1, <2>6, <3>2, <4>1 DEF Held, Upload!Matches, Upload!Verified
    <3> QED BY <2>1, <3>1, <3>3, <3>4 DEF HostInv, Upload!Complete, Held, Upload!Matches, Upload!Verified
  <2>8. OneCopy'
    BY <2>1 DEF UploadInv, OneCopy, Claims, Upload!Complete
  <2> QED BY <2>3, <2>6, <2>7, <2>8 DEF UploadInv
<1> QED BY <1>1, <1>2, HostKeeps DEF Upload!Next

\* A claimed copy is there, whole, marked and the same for all.
LEMMA UploadClaims == UploadInv => Upload!ClaimsHold
<1> SUFFICES ASSUME UploadInv PROVE Upload!ClaimsHold
  OBVIOUS
<1>1. \A h \in Hosts : HostInv(h)
  BY DEF UploadInv
<1>2. \A h \in Hosts : Upload!Complete(h) =>
          receipt[h].file \in Upload!Matches /\ Upload!Verified(receipt[h].file) /\ drive[receipt[h].file].marked
  BY <1>1 DEF HostInv, Held
<1>3. \A h \in Hosts : Upload!Complete(h) => receipt[h].file \in Sessions /\ Claims(h, receipt[h].file)
  BY <1>2 DEF Upload!Matches, Claims
<1>4. \A g, h \in Hosts : Upload!Complete(g) /\ Upload!Complete(h) => receipt[g].file = receipt[h].file
  BY <1>3 DEF UploadInv, OneCopy
<1>5. \A s \in Sessions : drive[s].marked => Upload!Verified(s)
  BY DEF UploadInv, ObjectInv, Upload!Verified
<1> QED BY <1>2, <1>4, <1>5 DEF Upload!ClaimsHold

\* upload_package (backup_transport.py): a host that says its backup is stored is
\* right, also when it found it stored (_reconcile), and no two hosts claim different
\* objects, whatever answers and sessions were lost and whoever uploaded at once.
THEOREM UploadClaimsHold == Upload!Spec => []Upload!ClaimsHold
<1> QED BY UploadStarts, UploadKeeps, UploadClaims, PTL DEF Upload!Spec

-----------------------------------------------------------------------------
(* The backup and its restore.                                              *)

Backup == INSTANCE BackupSet WITH Files <- BackupFiles

\* What is kept of each file.
Kept == [BackupFiles -> Backup!Contents]

\* The set lists what the exported snapshot had, and so does its archive.
SetInv ==
    /\ rows \subseteq BackupFiles /\ snapshot \subseteq BackupFiles
    /\ store \in Kept
    /\ set = [status |-> set.status, place |-> set.place, refs |-> set.refs, dumped |-> set.dumped,
              archive |-> set.archive, copies |-> set.copies]
    /\ set.copies \in Kept
    /\ set.status \in {"refs", "dumped", "COMPLETE_LOCAL"} => set.refs = snapshot
    /\ set.status \in {"dumped", "COMPLETE_LOCAL"} => set.dumped = snapshot
    /\ set.refs \subseteq BackupFiles
    /\ set.status = "COMPLETE_LOCAL" => Backup!Pending = {}

\* A restore is of a complete set; beyond the snapshot's it has no file.
RestoreInv ==
    /\ restored = [status |-> restored.status, rows |-> restored.rows, files |-> restored.files]
    /\ restored.files \in Kept
    /\ restored.status # "none" => set.status = "COMPLETE_LOCAL"
    /\ restored.status \in {"files", "database", "ok"} => \A f \in BackupFiles \ snapshot : restored.files[f] = "none"
    /\ restored.status \in {"database", "ok"} => restored.rows = snapshot
    /\ restored.status = "ok" => \A f \in snapshot : restored.files[f] = "good"

\* The inductive invariant of the backup.
BackupInv == SetInv /\ RestoreInv

\* Nothing is stored and nothing saved.
LEMMA BackupStarts == Backup!Init => BackupInv
<1> SUFFICES ASSUME Backup!Init PROVE BackupInv
  OBVIOUS
<1>1. Backup!NoFiles \in Kept
  BY DEF Backup!NoFiles, Kept, Backup!Contents
<1>2. SetInv
  BY <1>1 DEF Backup!Init, Backup!NoSet, SetInv
<1>3. RestoreInv
  BY <1>1 DEF Backup!Init, Backup!NoRestore, RestoreInv
<1> QED BY <1>2, <1>3 DEF BackupInv

\* A set that is complete stays complete, of the same rows; only its place and
\* the state of its members change.
LEMMA SetMoves ==
    ASSUME BackupInv, UNCHANGED <<rows, store, snapshot, restored>>,
           set' = [status |-> set'.status, place |-> set'.place, refs |-> set'.refs, dumped |-> set'.dumped,
                   archive |-> set'.archive, copies |-> set'.copies],
           set'.copies \in Kept, set'.refs \in {set.refs, snapshot},
           set.status = "COMPLETE_LOCAL" => set'.status = "COMPLETE_LOCAL",
           set'.status \in {"refs", "dumped", "COMPLETE_LOCAL"} => set'.refs = snapshot,
           set'.status \in {"dumped", "COMPLETE_LOCAL"} => set'.dumped = snapshot,
           set'.status = "COMPLETE_LOCAL" => \A f \in set'.refs : set'.copies[f] # "none"
    PROVE  BackupInv'
<1>1. SetInv'
  BY DEF BackupInv, SetInv, Backup!Pending
<1>2. RestoreInv'
  BY DEF BackupInv, RestoreInv
<1> QED BY <1>1, <1>2 DEF BackupInv

\* The steps of the set.
LEMMA SetKeeps ==
    ASSUME BackupInv,
           \/ Backup!DamageSet \/ Backup!ReadRefs \/ Backup!Dump \/ Backup!CopyEvidence \/ Backup!Finish
           \/ Backup!Abort \/ Backup!Pack \/ Backup!Download \/ Backup!Extract
    PROVE  BackupInv'
<1>1. /\ SetInv
      /\ set.status = "COMPLETE_LOCAL" => \A f \in set.refs : set.copies[f] # "none"
  BY DEF BackupInv, SetInv, Backup!Pending
<1>2. CASE Backup!DamageSet
  <2>1. CASE set' = [set EXCEPT !.archive = "bad"]
    <3>1. set' = [status |-> set.status, place |-> set.place, refs |-> set.refs, dumped |-> set.dumped,
                  archive |-> "bad", copies |-> set.copies]
      BY <1>1, <2>1 DEF SetInv
    <3> QED BY <1>1, <1>2, <3>1, SetMoves DEF SetInv, Backup!DamageSet
  <2>2. CASE \E f \in set.refs : set' = [set EXCEPT !.copies[f] = "bad"]
    <3>1. PICK f \in set.refs : set' = [set EXCEPT !.copies[f] = "bad"]
      BY <2>2
    <3>2. PICK c : c = [set.copies EXCEPT ![f] = "bad"]
      OBVIOUS
    <3>3. c \in Kept /\ \A g \in set.refs : set.copies[g] # "none" => c[g] # "none"
      BY <1>1, <3>2 DEF SetInv, Kept, Backup!Contents
    <3>4. set' = [status |-> set.status, place |-> set.place, refs |-> set.refs, dumped |-> set.dumped,
                  archive |-> set.archive, copies |-> c]
      BY <1>1, <3>1, <3>2 DEF SetInv
    <3> QED BY <1>1, <1>2, <3>3, <3>4, SetMoves DEF SetInv, Backup!DamageSet
  <2> QED BY <1>2, <2>1, <2>2 DEF Backup!DamageSet
<1>3. CASE Backup!ReadRefs
  <2>1. set' = [status |-> "refs", place |-> set.place, refs |-> snapshot, dumped |-> set.dumped,
                archive |-> set.archive, copies |-> set.copies]
    BY <1>1, <1>3 DEF SetInv, Backup!ReadRefs
  <2> QED BY <1>1, <1>3, <2>1, SetMoves DEF SetInv, Backup!ReadRefs
<1>4. CASE Backup!Dump
  <2>1. set' = [status |-> "dumped", place |-> set.place, refs |-> set.refs, dumped |-> snapshot,
                archive |-> "good", copies |-> set.copies]
    BY <1>1, <1>4 DEF SetInv, Backup!Dump, Backup!DumpedRows
  <2>2. set.refs = snapshot /\ set.status # "COMPLETE_LOCAL" /\ UNCHANGED <<rows, store, snapshot, restored>>
    BY <1>1, <1>4 DEF SetInv, Backup!Dump
  <2> QED BY <1>1, <2>1, <2>2, SetMoves DEF SetInv
<1>5. CASE Backup!CopyEvidence
  <2>1. PICK f \in Backup!Pending :
            set' = IF store[f] = "good" THEN [set EXCEPT !.copies[f] = "good"] ELSE [set EXCEPT !.status = "FAILED"]
    BY <1>5 DEF Backup!CopyEvidence
  <2>2. set.status = "dumped" /\ UNCHANGED <<rows, store, snapshot, restored>>
    BY <1>5 DEF Backup!CopyEvidence
  <2>3. CASE store[f] = "good"
    <3>1. PICK c : c = [set.copies EXCEPT ![f] = "good"]
      OBVIOUS
    <3>2. c \in Kept
      BY <1>1, <3>1 DEF SetInv, Kept, Backup!Contents
    <3>3. set' = [status |-> set.status, place |-> set.place, refs |-> set.refs, dumped |-> set.dumped,
                  archive |-> set.archive, copies |-> c]
      BY <1>1, <2>1, <2>3, <3>1 DEF SetInv
    <3> QED BY <1>1, <2>2, <3>2, <3>3, SetMoves DEF SetInv
  <2>4. CASE store[f] # "good"
    <3>1. set' = [status |-> "FAILED", place |-> set.place, refs |-> set.refs, dumped |-> set.dumped,
                  archive |-> set.archive, copies |-> set.copies]
      BY <1>1, <2>1, <2>4 DEF SetInv
    <3> QED BY <1>1, <2>2, <3>1, SetMoves DEF SetInv
  <2> QED BY <2>3, <2>4
<1>6. CASE Backup!Finish
  <2>1. set' = [status |-> "COMPLETE_LOCAL", place |-> set.place, refs |-> set.refs, dumped |-> set.dumped,
                archive |-> set.archive, copies |-> set.copies]
    BY <1>1, <1>6 DEF SetInv, Backup!Finish
  <2>2. \A f \in set.refs : set.copies[f] # "none"
    BY <1>6 DEF Backup!Finish, Backup!Pending
  <2> QED BY <1>1, <1>6, <2>1, <2>2, SetMoves DEF SetInv, Backup!Finish
<1>7. CASE Backup!Abort
  <2>1. set' = [status |-> "FAILED", place |-> set.place, refs |-> set.refs, dumped |-> set.dumped,
                archive |-> set.archive, copies |-> set.copies]
    BY <1>1, <1>7 DEF SetInv, Backup!Abort
  <2> QED BY <1>1, <1>7, <2>1, SetMoves DEF SetInv, Backup!Abort
<1>8. CASE Backup!Pack \/ Backup!Download \/ Backup!Extract
  <2>1. PICK to \in {"envelope", "download", "extracted"} :
            set' = [set EXCEPT !.place = to] /\ UNCHANGED <<rows, store, snapshot, restored>>
    BY <1>8 DEF Backup!Pack, Backup!Download, Backup!Extract, Backup!Travel
  <2>2. set' = [status |-> set.status, place |-> to, refs |-> set.refs, dumped |-> set.dumped,
                archive |-> set.archive, copies |-> set.copies]
    BY <1>1, <2>1 DEF SetInv
  <2> QED BY <1>1, <2>1, <2>2, SetMoves DEF SetInv
<1> QED BY <1>2, <1>3, <1>4, <1>5, <1>6, <1>7, <1>8

\* The application goes on, and the backup begins.
LEMMA ApplicationKeeps ==
    ASSUME BackupInv,
           \/ Backup!Export
           \/ \E f \in BackupFiles : Backup!StoreFile(f) \/ Backup!CommitRow(f) \/ Backup!DamageStore(f)
    PROVE  BackupInv'
<1>1. SetInv /\ RestoreInv
  BY DEF BackupInv
<1>2. CASE Backup!Export
  <2>1. set' = [status |-> "IN_PROGRESS", place |-> set.place, refs |-> set.refs, dumped |-> set.dumped,
                archive |-> set.archive, copies |-> set.copies]
    BY <1>1, <1>2 DEF SetInv, Backup!Export
  <2>2. SetInv'
    BY <1>1, <1>2, <2>1 DEF SetInv, Backup!Export
  <2>3. restored.status = "none" /\ UNCHANGED restored
    BY <1>1, <1>2 DEF RestoreInv, Backup!Export
  <2>4. RestoreInv'
    BY <1>1, <2>3 DEF RestoreInv
  <2> QED BY <2>2, <2>4 DEF BackupInv
<1>3. ASSUME NEW f \in BackupFiles, Backup!StoreFile(f) \/ Backup!CommitRow(f) \/ Backup!DamageStore(f)
      PROVE  BackupInv'
  <2>1. UNCHANGED <<snapshot, set, restored>>
    BY <1>3 DEF Backup!StoreFile, Backup!CommitRow, Backup!DamageStore
  <2>2. rows' \subseteq BackupFiles /\ store' \in Kept
    BY <1>1, <1>3 DEF Backup!StoreFile, Backup!CommitRow, Backup!DamageStore, SetInv, Kept, Backup!Contents
  <2>3. SetInv'
    BY <1>1, <2>1, <2>2 DEF SetInv, Backup!Pending
  <2>4. RestoreInv'
    BY <1>1, <2>1 DEF RestoreInv
  <2> QED BY <2>3, <2>4 DEF BackupInv
<1> QED BY <1>2, <1>3

\* A restore.
LEMMA RestoreKeeps ==
    ASSUME BackupInv,
           \/ Backup!RestoreCheck \/ Backup!RestoreFiles \/ Backup!RestoreDatabase \/ Backup!DamageRestored
           \/ Backup!Validate
    PROVE  BackupInv'
<1>1. SetInv /\ RestoreInv /\ UNCHANGED <<rows, store, snapshot, set>>
  BY DEF BackupInv, Backup!RestoreCheck, Backup!RestoreFiles, Backup!RestoreDatabase, Backup!DamageRestored, Backup!Validate
<1>2. SetInv'
  BY <1>1 DEF SetInv, Backup!Pending
<1>3. CASE Backup!RestoreCheck
  <2>1. restored' = [status |-> "checked", rows |-> restored.rows, files |-> restored.files] /\ set.status = "COMPLETE_LOCAL"
    BY <1>1, <1>3 DEF RestoreInv, Backup!RestoreCheck, Backup!SetIsIntact
  <2> QED BY <1>1, <1>2, <2>1 DEF BackupInv, RestoreInv
<1>4. CASE Backup!RestoreFiles
  <2>1. set.status = "COMPLETE_LOCAL" /\ set.refs = snapshot
    BY <1>1, <1>4 DEF RestoreInv, SetInv, Backup!RestoreFiles
  <2>2. PICK c : c = [f \in BackupFiles |-> IF f \in set.refs THEN "good" ELSE "none"]
    OBVIOUS
  <2>3. c \in Kept /\ \A f \in BackupFiles \ snapshot : c[f] = "none"
    BY <2>1, <2>2 DEF Kept, Backup!Contents
  <2>4. \/ restored' = [restored EXCEPT !.status = "files", !.files = c]
        \/ restored' = [restored EXCEPT !.status = "failed"]
    BY <1>4, <2>2 DEF Backup!RestoreFiles
  <2>5. CASE restored' = [restored EXCEPT !.status = "files", !.files = c]
    <3>1. restored' = [status |-> "files", rows |-> restored.rows, files |-> c]
      BY <1>1, <2>5 DEF RestoreInv
    <3> QED BY <1>1, <1>2, <2>1, <2>3, <3>1 DEF BackupInv, RestoreInv
  <2>6. CASE restored' = [restored EXCEPT !.status = "failed"]
    <3>1. restored' = [status |-> "failed", rows |-> restored.rows, files |-> restored.files]
      BY <1>1, <2>6 DEF RestoreInv
    <3> QED BY <1>1, <1>2, <2>1, <3>1 DEF BackupInv, RestoreInv
  <2> QED BY <2>4, <2>5, <2>6
<1>5. CASE Backup!RestoreDatabase
  <2>1. restored' = [status |-> "database", rows |-> set.dumped, files |-> restored.files] /\ restored.status = "files"
    BY <1>1, <1>5 DEF RestoreInv, Backup!RestoreDatabase
  <2>2. set.dumped = snapshot /\ set.status = "COMPLETE_LOCAL"
    BY <1>1, <2>1 DEF RestoreInv, SetInv
  <2> QED BY <1>1, <1>2, <2>1, <2>2 DEF BackupInv, RestoreInv
<1>6. CASE Backup!DamageRestored
  <2>1. PICK f \in set.refs : restored.files[f] = "good" /\ restored' = [restored EXCEPT !.files[f] = "bad"]
    BY <1>6 DEF Backup!DamageRestored
  <2>2. restored.status = "database" /\ set.refs = snapshot
    BY <1>1, <1>6 DEF Backup!DamageRestored, RestoreInv, SetInv
  <2>3. PICK c : c = [restored.files EXCEPT ![f] = "bad"]
    OBVIOUS
  <2>4. c \in Kept /\ \A g \in BackupFiles \ snapshot : c[g] = restored.files[g]
    BY <1>1, <2>1, <2>2, <2>3 DEF RestoreInv, Kept, Backup!Contents
  <2>5. restored' = [status |-> restored.status, rows |-> restored.rows, files |-> c]
    BY <1>1, <2>1, <2>3 DEF RestoreInv
  <2> QED BY <1>1, <1>2, <2>2, <2>4, <2>5 DEF BackupInv, RestoreInv
<1>7. CASE Backup!Validate
  <2>1. PICK status \in {"ok", "failed"} :
            /\ restored' = [restored EXCEPT !.status = status]
            /\ status = "ok" => Backup!Accepted
    BY <1>7 DEF Backup!Validate
  <2>2. restored' = [status |-> status, rows |-> restored.rows, files |-> restored.files]
    BY <1>1, <2>1 DEF RestoreInv
  <2> QED BY <1>1, <1>2, <1>7, <2>1, <2>2 DEF BackupInv, RestoreInv, Backup!Validate, Backup!Accepted
<1> QED BY <1>3, <1>4, <1>5, <1>6, <1>7

\* Every step.
LEMMA BackupKeeps ==
    ASSUME BackupInv, [Backup!Next]_(Backup!vars)
    PROVE  BackupInv'
<1>1. CASE UNCHANGED Backup!vars
  BY <1>1 DEF Backup!vars, BackupInv, SetInv, RestoreInv, Backup!Pending
<1> QED BY <1>1, SetKeeps, ApplicationKeeps, RestoreKeeps DEF Backup!Next

\* A complete set lists what it dumped.
LEMMA BackupRestores == BackupInv => Backup!RestoreIsSnapshot
<1> SUFFICES ASSUME BackupInv PROVE Backup!RestoreIsSnapshot
  OBVIOUS
<1>1. set.status = "COMPLETE_LOCAL" => set.refs = set.dumped /\ Backup!Pending = {}
  BY DEF BackupInv, SetInv
<1>2. restored.status = "ok" =>
        /\ restored.rows = snapshot
        /\ \A f \in BackupFiles : restored.files[f] = IF f \in snapshot THEN "good" ELSE "none"
  BY DEF BackupInv, RestoreInv
<1> QED BY <1>1, <1>2 DEF Backup!RestoreIsSnapshot

\* restore_isolated (data_protection.py) accepts only a set that gives back the
\* rows and files of the exported snapshot, though rows and files went on being
\* written, lost and damaged while the set was made.
THEOREM RestoreHolds == Backup!Spec => []Backup!RestoreIsSnapshot
<1> QED BY BackupStarts, BackupKeeps, BackupRestores, PTL DEF Backup!Spec

-----------------------------------------------------------------------------
(* The late charges of an installment.                                      *)

Late == INSTANCE LateCharges WITH request <- reserved

\* Days are counted from 1, amounts are not negative, and there are finitely many
\* attempts, numbered as they are made.
ChargeAssumptions ==
    /\ Attempts \subseteq Nat /\ IsFiniteSet(Attempts)
    /\ Due \in Nat \ {0} /\ LastDay \in Nat /\ Due <= LastDay
    /\ Principal \in Nat /\ Interest \in Nat /\ Fine \in Nat
    /\ Shortfalls \subseteq Nat

Amounts  == [principal : Nat, interest : Nat, fixed : Nat, late : Nat]
InstStatuses == {"OPEN", "PARTIAL", "OVERDUE", "PAID"}
Receipts == [Attempts -> [on : Nat, applied : Amounts, before : InstStatuses, after : InstStatuses,
                          revision : Nat]]
Undoings == [Attempts -> Nat]

\* The sums of the part are the library's.
LEMMA LateSums ==
    /\ \A w, S : Late!SumFunctionOnSet(w, S) = SumFunctionOnSet(w, S)
    /\ \A w : Late!SumFunction(w) = SumFunction(w)
  BY DEF Late!SumFunction, Late!SumFunctionOnSet, Late!FoldFunctionOnSet, Late!MapThenFoldSet,
      SumFunction, SumFunctionOnSet, FoldFunctionOnSet, MapThenFoldSet

\* What is still owed on a day is what was not paid.
LEMMA BaseNat ==
    ASSUME ChargeAssumptions, NEW s \in Receipts, NEW u \in Undoings, NEW d \in Int
    PROVE  Late!Base(s, u, d) \in Nat
<1> DEFINE w == [a \in Attempts |-> (IF s[a].on # 0 /\ s[a].on < d THEN s[a].applied.principal ELSE 0)
                                         - (IF u[a] # 0 /\ u[a] < d THEN s[a].applied.principal ELSE 0)]
<1>1. \A a \in Attempts : w[a] \in Int
  BY DEF Receipts, Undoings, Amounts
<1>2. Late!PrincipalPaid(s, u, d) \in Int
  <2> HIDE DEF w
  <2>1. SumFunctionOnSet(w, Attempts) \in Int
    BY <1>1, SumInt DEF ChargeAssumptions
  <2> QED BY <2>1, LateSums DEF Late!PrincipalPaid, w
<1> QED BY <1>2 DEF Late!Base, Late!Greatest, ChargeAssumptions

\* Simple interest begins with nothing and never falls.
LEMMA InterestGrows ==
    ASSUME ChargeAssumptions, NEW s \in Receipts, NEW u \in Undoings
    PROVE  /\ Late!InterestOf(s, u, Due) = 0
           /\ \A d \in Int : d >= Due => /\ Late!InterestOf(s, u, d) \in Nat
                                         /\ Late!InterestOf(s, u, d) <= Late!InterestOf(s, u, d + 1)
<1> DEFINE w == [k \in Int |-> Late!Base(s, u, k)]
           Sum(d) == SumFunctionOnSet(w, Due + 1 .. d)
<1>0. Due \in Int
  BY DEF ChargeAssumptions
<1>1. \A k \in Int : w[k] \in Nat
  BY BaseNat
<1>2. ASSUME NEW d \in Int
      PROVE  Sum(d) \in Nat /\ Late!InterestOf(s, u, d) = (2 * Sum(d) + 150) \div 300
  <2>1. IsFiniteSet(Due + 1 .. d) /\ Due + 1 .. d \subseteq Int
    BY <1>0, FS_Interval
  <2> DEFINE v == [k \in Due + 1 .. d |-> Late!Base(s, u, k)]
  <2>2. SumFunction(v) = Sum(d)
    <3>1. \A k \in Due + 1 .. d : v[k] = w[k]
      BY <1>0
    <3>2. SumFunction(v) = SumFunctionOnSet(v, Due + 1 .. d)
      BY DEF SumFunction
    <3> HIDE DEF v, w
    <3> QED BY <2>1, <3>1, <3>2, SumSame
  <2>3. Sum(d) \in Nat
    <3> HIDE DEF w
    <3> QED BY <1>1, <2>1, SumNat
  <2>4. Late!InterestOf(s, u, d) = (2 * SumFunction(v) + 150) \div 300
    BY LateSums DEF Late!InterestOf
  <2> QED BY <2>2, <2>3, <2>4
<1>3. Sum(Due) = 0
  <2>1. Due + 1 .. Due = {}
    BY <1>0
  <2> QED BY <2>1, SumEmpty
<1>4. ASSUME NEW d \in Int, d >= Due PROVE Sum(d) <= Sum(d + 1)
  <2> HIDE DEF w
  <2>1. Sum(d + 1) = w[d + 1] + Sum(d)
    BY <1>0, <1>1, <1>4, SumNext
  <2>2. w[d + 1] \in Nat /\ Sum(d) \in Nat
    BY <1>1, <1>2
  <2> HIDE DEF Sum
  <2> QED BY <2>1, <2>2
<1> HIDE DEF Sum
<1>5. Late!InterestOf(s, u, Due) = 0
  BY <1>0, <1>2, <1>3
<1>6. ASSUME NEW d \in Int, d >= Due
      PROVE  Late!InterestOf(s, u, d) \in Nat /\ Late!InterestOf(s, u, d) <= Late!InterestOf(s, u, d + 1)
  <2>1. /\ Late!InterestOf(s, u, d) = (2 * Sum(d) + 150) \div 300 /\ Sum(d) \in Nat
        /\ Late!InterestOf(s, u, d + 1) = (2 * Sum(d + 1) + 150) \div 300 /\ Sum(d + 1) \in Nat
        /\ Sum(d) <= Sum(d + 1)
    BY <1>2, <1>4, <1>6
  <2> QED BY <2>1
<1> QED BY <1>5, <1>6

\* Nor over several days.
LEMMA InterestMonotone ==
    ASSUME ChargeAssumptions, NEW s \in Receipts, NEW u \in Undoings,
           NEW c \in Int, NEW d \in Int, Due <= c, c <= d
    PROVE  Late!InterestOf(s, u, c) <= Late!InterestOf(s, u, d)
<1> DEFINE Bad == {n \in Nat : ~(Late!InterestOf(s, u, c) <= Late!InterestOf(s, u, c + n))}
<1>1. ASSUME Bad # {} PROVE FALSE
  <2>1. PICK n \in Bad : \A m \in Bad : n <= m
    <3>1. Bad \subseteq Nat
      OBVIOUS
    <3> HIDE DEF Bad
    <3> QED BY <1>1, <3>1, LeastNumber
  <2>2. Late!InterestOf(s, u, c) \in Nat
    BY InterestGrows
  <2>3. n # 0
    BY <2>1, <2>2
  <2>4. n \in Nat /\ n - 1 \in Nat /\ ~(n <= n - 1)
    BY <2>3
  <2>5. n - 1 \notin Bad
    <3> HIDE DEF Bad
    <3> QED BY <2>1, <2>4
  <2>6. Late!InterestOf(s, u, c) <= Late!InterestOf(s, u, c + (n - 1))
    BY <2>4, <2>5
  <2>7. c + (n - 1) \in Int /\ c + (n - 1) >= Due /\ (c + (n - 1)) + 1 = c + n /\ c + n \in Int /\ c + n >= Due
    BY <2>4 DEF ChargeAssumptions
  <2>8. /\ Late!InterestOf(s, u, c + (n - 1)) \in Nat /\ Late!InterestOf(s, u, c + n) \in Nat
        /\ Late!InterestOf(s, u, c + (n - 1)) <= Late!InterestOf(s, u, c + n)
    BY <2>7, InterestGrows
  <2>9. Late!InterestOf(s, u, c) <= Late!InterestOf(s, u, c + n)
    <3> HIDE DEF Bad
    <3> QED BY <2>2, <2>6, <2>8
  <2> QED BY <2>1, <2>9
<1>2. d - c \in Nat /\ c + (d - c) = d
  OBVIOUS
<1>3. d - c \notin Bad
  BY <1>1
<1> QED BY <1>2, <1>3

\* A receipt of a day, or its reversal, changes the charges of later days only.
LEMMA InterestIsPast ==
    ASSUME ChargeAssumptions, NEW s \in Receipts, NEW u \in Undoings, NEW s2 \in Receipts, NEW u2 \in Undoings,
           NEW d \in Int,
           \A a \in Attempts :
               \/ s2[a] = s[a] /\ u2[a] = u[a]
               \/ s[a].on = 0 /\ u[a] = 0 /\ d <= s2[a].on /\ u2[a] = 0
               \/ s2[a] = s[a] /\ u[a] = 0 /\ d <= u2[a]
    PROVE  Late!InterestOf(s2, u2, d) = Late!InterestOf(s, u, d)
<1>1. ASSUME NEW k \in Due + 1 .. d PROVE Late!Base(s2, u2, k) = Late!Base(s, u, k)
  <2> DEFINE
        v == [a \in Attempts |-> (IF s2[a].on # 0 /\ s2[a].on < k THEN s2[a].applied.principal ELSE 0)
                                         - (IF u2[a] # 0 /\ u2[a] < k THEN s2[a].applied.principal ELSE 0)]
        w == [a \in Attempts |-> (IF s[a].on # 0 /\ s[a].on < k THEN s[a].applied.principal ELSE 0)
                                         - (IF u[a] # 0 /\ u[a] < k THEN s[a].applied.principal ELSE 0)]
  <2>1. ASSUME NEW a \in Attempts PROVE v[a] = w[a]
    <3>1. k \in Int /\ k <= d /\ s[a].on \in Nat /\ s2[a].on \in Nat /\ u[a] \in Nat /\ u2[a] \in Nat
      BY DEF Receipts, Undoings, ChargeAssumptions
    <3>2. CASE s2[a] = s[a] /\ u2[a] = u[a]
      BY <3>2
    <3>3. CASE s[a].on = 0 /\ u[a] = 0 /\ d <= s2[a].on /\ u2[a] = 0
      <4>1. ~(s2[a].on < k)
        BY <3>1, <3>3
      <4> QED BY <3>3, <4>1
    <3>4. CASE s2[a] = s[a] /\ u[a] = 0 /\ d <= u2[a]
      <4>1. ~(u2[a] < k)
        BY <3>1, <3>4
      <4> QED BY <3>4, <4>1
    <3> QED BY <3>2, <3>3, <3>4
  <2>2. v = w
    BY <2>1
  <2>3. Late!PrincipalPaid(s2, u2, k) = Late!PrincipalPaid(s, u, k)
    <3>1. Late!PrincipalPaid(s2, u2, k) = SumFunctionOnSet(v, Attempts) /\ Late!PrincipalPaid(s, u, k) = SumFunctionOnSet(w, Attempts)
      BY LateSums DEF Late!PrincipalPaid
    <3> HIDE DEF v, w
    <3> QED BY <2>2, <3>1
  <2> QED BY <2>3 DEF Late!Base
<1>2. [k \in Due + 1 .. d |-> Late!Base(s2, u2, k)] = [k \in Due + 1 .. d |-> Late!Base(s, u, k)]
  BY <1>1
<1> QED BY <1>2, LateSums DEF Late!InterestOf

\* A ledger that was caught up from day to day: each day after the due one, up to
\* the cursor, has what the interest grew on it, and nothing was ever adjusted.
Follows(l, s, u) ==
    /\ l \in [fixed : {0, Fine}, accrued : [Late!Days -> Int], cursor : Nat, adjusted : {{}}]
    /\ l.cursor = 0 \/ l.cursor \in Due + 1 .. LastDay
    /\ \A k \in Late!Days : l.accrued[k] = IF Due < k /\ k <= l.cursor
                                      THEN Late!InterestOf(s, u, k) - Late!InterestOf(s, u, k - 1) ELSE 0

\* The last day up to d that was charged, or the due day.
UpTo(l, d) == Late!Greatest(Due, Late!Least(d, l.cursor))

\* Nothing is added to what was accrued.
LEMMA DeltaIsAccrued == ASSUME NEW l, l.adjusted = {}, NEW d PROVE Late!Delta(l, d) = l.accrued[d] + 0
<1> DEFINE none == [e \in {x \in l.adjusted : x.on = d} |-> e.amount]
<1>1. DOMAIN none = {}
  OBVIOUS
<1>2. SumFunction(none) = 0
  <2> HIDE DEF none
  <2> QED BY <1>1, SumEmpty DEF SumFunction
<1> QED BY <1>2, LateSums DEF Late!Delta

\* The running sum of such a ledger is the interest of the days it charged.
LEMMA Booked ==
    ASSUME ChargeAssumptions, NEW s \in Receipts, NEW u \in Undoings, NEW l, Follows(l, s, u),
           NEW d \in 0 .. LastDay + 1
    PROVE  Late!Materialized(l, d) = Late!InterestOf(s, u, UpTo(l, d))
<1> DEFINE w == [k \in Int |-> Late!Delta(l, k)]
           E(k) == Late!InterestOf(s, u, k)
           Bad == {n \in 0 .. LastDay + 1 : SumFunctionOnSet(w, 1 .. n) # E(UpTo(l, n))}
<1>0. /\ Due \in Int /\ LastDay \in Int /\ Due >= 1 /\ l.cursor \in Nat
      /\ \A k \in 1 .. LastDay + 1 : k \in Late!Days /\ l.accrued[k] \in Int
  BY DEF ChargeAssumptions, Follows, Late!Days
<1>1. \A k \in 1 .. LastDay + 1 : w[k] = l.accrued[k]
  <2>1. \A k \in 1 .. LastDay + 1 : w[k] = l.accrued[k] + 0
    BY <1>0, DeltaIsAccrued DEF Follows
  <2> HIDE DEF w
  <2> QED BY <1>0, <2>1
<1>2. ASSUME Bad # {} PROVE FALSE
  <2>1. PICK n \in Bad : \A m \in Bad : n <= m
    <3>1. Bad \subseteq Nat
      BY <1>0
    <3> HIDE DEF Bad
    <3> QED BY <1>2, <3>1, LeastNumber
  <2>2. n \in 0 .. LastDay + 1 /\ n \in Nat
    BY <1>0
  <2>3. CASE n = 0
    <3>1. 1 .. n = {} /\ UpTo(l, n) = Due
      BY <1>0, <2>3 DEF UpTo, Late!Greatest, Late!Least
    <3>2. SumFunctionOnSet(w, 1 .. n) = 0
      <4> HIDE DEF w
      <4> QED BY <3>1, SumEmpty
    <3>3. E(UpTo(l, n)) = 0
      BY <3>1, InterestGrows
    <3> QED BY <2>1, <3>2, <3>3
  <2>4. CASE n # 0
    <3>1. n - 1 \in 0 .. LastDay + 1 /\ n - 1 \in Int /\ (n - 1) + 1 = n /\ ~(n <= n - 1) /\ n \in 1 .. LastDay + 1
      BY <1>0, <2>2, <2>4
    <3>2. SumFunctionOnSet(w, 1 .. n - 1) = E(UpTo(l, n - 1))
      <4>1. n - 1 \notin Bad
        <5> HIDE DEF Bad
        <5> QED BY <2>1, <3>1
      <4> QED BY <3>1, <4>1
    <3>3. \A k \in 1 .. n : w[k] \in Int
      <4>1. \A k \in 1 .. n : k \in 1 .. LastDay + 1
        BY <1>0, <3>1
      <4> HIDE DEF w
      <4> QED BY <1>0, <1>1, <4>1
    <3>4. /\ SumFunctionOnSet(w, 1 .. n) = w[n] + SumFunctionOnSet(w, 1 .. n - 1)
          /\ SumFunctionOnSet(w, 1 .. n - 1) \in Int /\ w[n] \in Int
      <4> HIDE DEF w, Bad
      <4>1. 1 \in Int /\ 1 <= (n - 1) + 1
        BY <2>2, <3>1
      <4>2. \A k \in 1 .. (n - 1) + 1 : w[k] \in Int
        BY <3>1, <3>3
      <4> QED BY <3>1, <4>1, <4>2, SumNext
    <3>5. w[n] = IF Due < n /\ n <= l.cursor THEN E(n) - E(n - 1) ELSE 0
      BY <1>0, <1>1, <3>1 DEF Follows
    <3>6. CASE Due < n /\ n <= l.cursor
      <4>1. UpTo(l, n) = n /\ UpTo(l, n - 1) = n - 1
        BY <1>0, <2>2, <3>6 DEF UpTo, Late!Greatest, Late!Least
      <4>2. E(n) \in Nat /\ E(n - 1) \in Nat
        <5>1. n \in Int /\ n >= Due /\ n - 1 \in Int /\ n - 1 >= Due
          BY <1>0, <2>2, <3>6
        <5> QED BY <5>1, InterestGrows
      <4>3. SumFunctionOnSet(w, 1 .. n) = E(n)
        <5> HIDE DEF E, w
        <5> QED BY <3>2, <3>4, <3>5, <3>6, <4>1, <4>2
      <4> QED BY <2>1, <4>1, <4>3
    <3>7. CASE ~(Due < n /\ n <= l.cursor)
      <4>1. UpTo(l, n) = UpTo(l, n - 1)
        BY <1>0, <2>2, <2>4, <3>7 DEF UpTo, Late!Greatest, Late!Least
      <4>2. SumFunctionOnSet(w, 1 .. n) = E(UpTo(l, n))
        <5> HIDE DEF E, w
        <5> QED BY <3>2, <3>4, <3>5, <3>7, <4>1
      <4> QED BY <2>1, <4>2
    <3> QED BY <3>6, <3>7
  <2> QED BY <2>3, <2>4
<1>3. SumFunctionOnSet(w, 1 .. d) = E(UpTo(l, d))
  BY <1>2
<1>4. Late!Materialized(l, d) = SumFunctionOnSet(w, 1 .. d)
  <2> DEFINE v == [k \in 1 .. d |-> Late!Delta(l, k)]
  <2>1. Late!Materialized(l, d) = SumFunctionOnSet(v, 1 .. d)
    BY LateSums DEF Late!Materialized, SumFunction
  <2>2. (\A k \in 1 .. d : v[k] = w[k]) /\ IsFiniteSet(1 .. d)
    BY <1>0, FS_Interval
  <2> HIDE DEF v, w
  <2> QED BY <2>1, <2>2, SumSame
<1> QED BY <1>3, <1>4

\* The running sum of the code follows the interest of each day.
LEMMA RunningIsInterest ==
    ASSUME ChargeAssumptions, settlement \in Receipts, undone \in Undoings,
           NEW l, Follows(l, settlement, undone), NEW d \in Due .. LastDay
    PROVE  Late!Running(l, d) = [k \in Due .. d |-> Late!Expected(k)]
<1> DEFINE Step(f, k) == IF k = Due THEN 0
                         ELSE LET found == f[k - 1] + Late!Delta(l, k)
                              IN  IF k <= l.cursor THEN found ELSE Late!Greatest(found, Late!Expected(k))
           E == [k \in Due .. d |-> Late!Expected(k)]
           Run == CHOOSE f : f = [k \in Due .. d |-> Step(f, k)]
<1>0. /\ Due \in Int /\ LastDay \in Int /\ Due >= 1 /\ d \in Int /\ l.cursor \in Nat
      /\ \A k \in Due .. d : k \in Late!Days /\ k \in Int /\ Late!Delta(l, k) = l.accrued[k] + 0 /\ l.accrued[k] \in Int
  <2>1. /\ Due \in Int /\ LastDay \in Int /\ Due >= 1 /\ d \in Int /\ l.cursor \in Nat
        /\ \A k \in Due .. d : k \in Late!Days /\ k \in Int /\ l.accrued[k] \in Int
    BY DEF ChargeAssumptions, Follows, Late!Days
  <2>2. l.adjusted = {}
    BY DEF Follows
  <2>3. \A k \in Due .. d : Late!Delta(l, k) = l.accrued[k] + 0
    BY <2>2, DeltaIsAccrued
  <2> QED BY <2>1, <2>3
<1>1. \A k \in Due .. d : Late!Expected(k) \in Nat
  BY <1>0, InterestGrows DEF Late!Expected
<1>2. Late!Expected(Due) = 0
  BY InterestGrows DEF Late!Expected
<1>3. ASSUME NEW f, NEW k \in Due .. d, k # Due, f[k - 1] = Late!Expected(k - 1)
      PROVE  Step(f, k) = Late!Expected(k)
  <2>1. k - 1 \in Due .. d /\ k \in Int /\ (k - 1) + 1 = k
    BY <1>0, <1>3
  <2>2. Late!Expected(k - 1) \in Nat /\ Late!Expected(k) \in Nat /\ Late!Expected(k - 1) <= Late!Expected(k)
    <3>1. k - 1 \in Int /\ k - 1 >= Due
      BY <1>0, <1>3
    <3> QED BY <1>1, <2>1, <3>1, InterestGrows DEF Late!Expected
  <2>3. Late!Delta(l, k) = IF k <= l.cursor THEN Late!Expected(k) - Late!Expected(k - 1) ELSE 0
    <3>1. Due < k /\ k \in Late!Days
      BY <1>0, <1>3
    <3>2. l.accrued[k] = IF k <= l.cursor THEN Late!Expected(k) - Late!Expected(k - 1) ELSE 0
      BY <3>1 DEF Follows, Late!Expected
    <3> QED BY <1>0, <3>2
  <2> QED BY <1>3, <2>2, <2>3 DEF Late!Greatest
<1>4. E = [k \in Due .. d |-> Step(E, k)]
  <2>1. ASSUME NEW k \in Due .. d PROVE Step(E, k) = E[k]
    <3>1. CASE k = Due
      BY <1>2, <3>1
    <3>2. CASE k # Due
      <4>1. k - 1 \in Due .. d
        BY <1>0, <3>2
      <4>2. E[k - 1] = Late!Expected(k - 1) /\ E[k] = Late!Expected(k)
        BY <4>1
      <4> HIDE DEF E, Step
      <4> QED BY <1>3, <3>2, <4>2
    <3> QED BY <3>1, <3>2
  <2> HIDE DEF Step
  <2> QED BY <2>1
<1>5. Run = [k \in Due .. d |-> Step(Run, k)]
  <2> DEFINE Good(f) == f = [k \in Due .. d |-> Step(f, k)]
  <2>1. \E f : Good(f)
    BY <1>4
  <2>2. Good(CHOOSE f : Good(f))
    <3> HIDE DEF Good
    <3> QED BY <2>1
  <2> QED BY <2>2
<1>6. Late!Running(l, d) = Run
  BY DEF Late!Running
<1> HIDE DEF Run
<1>7. \A k \in Due .. d : Run[k] = Step(Run, k)
  <2> HIDE DEF Step
  <2> QED BY <1>5
<1> DEFINE Bad == {n \in Due .. d : Run[n] # Late!Expected(n)}
<1>8. ASSUME Bad # {} PROVE FALSE
  <2>1. PICK n \in Bad : \A m \in Bad : n <= m
    <3>1. Bad \subseteq Nat
      BY <1>0
    <3> HIDE DEF Bad
    <3> QED BY <1>8, <3>1, LeastNumber
  <2>2. CASE n = Due
    BY <1>2, <1>7, <2>1, <2>2
  <2>3. CASE n # Due
    <3>1. n - 1 \in Due .. d /\ ~(n <= n - 1)
      BY <1>0, <2>3
    <3>2. n - 1 \notin Bad
      <4> HIDE DEF Bad
      <4> QED BY <2>1, <3>1
    <3>3. Run[n - 1] = Late!Expected(n - 1)
      BY <3>1, <3>2
    <3>4. Step(Run, n) = Late!Expected(n)
      <4> HIDE DEF Step
      <4> QED BY <1>3, <2>3, <3>3
    <3> HIDE DEF Step
    <3> QED BY <1>7, <2>1, <3>4
  <2> QED BY <2>2, <2>3
<1>9. Run = E
  <2>1. \A k \in Due .. d : Run[k] = Late!Expected(k)
    BY <1>8
  <2>2. Run = [k \in Due .. d |-> Run[k]]
    <3> HIDE DEF Step
    <3> QED BY <1>5, <1>7
  <2> QED BY <2>1, <2>2
<1> QED BY <1>6, <1>9

\* Catching up leaves such a ledger, up to the day at least.
LEMMA CatchesUp ==
    ASSUME ChargeAssumptions, settlement \in Receipts, undone \in Undoings,
           NEW l, Follows(l, settlement, undone), NEW d \in Due .. LastDay
    PROVE  /\ Follows(Late!CaughtUp(l, d), settlement, undone)
           /\ Late!CaughtUp(l, d).cursor = IF d <= Due THEN l.cursor ELSE Late!Greatest(l.cursor, d)
           /\ l.fixed <= Late!CaughtUp(l, d).fixed
<1> DEFINE f == Late!WithFixed(l, d)
           n == Late!WithDaily(f, d)
<1>0. Due \in Int /\ LastDay \in Int /\ Due >= 1 /\ d \in Int /\ l.cursor \in Nat /\ Fine \in Nat
  BY DEF ChargeAssumptions, Follows
<1>1. /\ Follows(f, settlement, undone)
      /\ f.cursor = l.cursor /\ l.fixed <= f.fixed
  <2>1. CASE f = l
    BY <1>0, <2>1 DEF Follows
  <2>2. CASE f = [l EXCEPT !.fixed = Fine] /\ l.fixed = 0
    <3>1. /\ f \in [fixed : {0, Fine}, accrued : [Late!Days -> Int], cursor : Nat, adjusted : {{}}]
          /\ f.cursor = l.cursor /\ f.accrued = l.accrued /\ f.fixed = Fine
      <4> HIDE DEF f
      <4> QED BY <2>2 DEF Follows
    <3> HIDE DEF f
    <3> QED BY <1>0, <2>2, <3>1 DEF Follows
  <2> QED BY <2>1, <2>2 DEF Late!WithFixed
<1> HIDE DEF f
<1>2. CASE d <= Due
  <2>1. n = f
    BY <1>2 DEF Late!WithDaily
  <2> QED BY <1>1, <1>2, <2>1 DEF Late!CaughtUp, f
<1>3. CASE ~(d <= Due)
  <2> DEFINE E == [k \in Due .. d |-> Late!Expected(k)]
  <2>1. Late!Running(f, d) = E
    BY <1>1, RunningIsInterest
  <2>2. /\ n.cursor = Late!Greatest(f.cursor, d) /\ n.fixed = f.fixed /\ n.adjusted = {}
        /\ n.accrued = [k \in Late!Days |->
                            IF k \in Late!Greatest(Due, f.cursor) + 1 .. d
                            THEN E[k] - E[k - 1] - (Late!Delta(f, k) - f.accrued[k])
                            ELSE f.accrued[k]]
        /\ n = [fixed |-> n.fixed, accrued |-> n.accrued, cursor |-> n.cursor, adjusted |-> n.adjusted]
    <3> HIDE DEF E
    <3> QED BY <1>1, <1>3, <2>1 DEF Late!WithDaily, Follows
  <2> HIDE DEF n
  <2>3. f.cursor \in Nat /\ f.adjusted = {} /\ \A k \in Late!Days : f.accrued[k] \in Int /\ k \in Int /\ k >= 1
    BY <1>0, <1>1 DEF Follows, Late!Days
  <2>4. \A k \in Late!Days : n.accrued[k] \in Int /\
            n.accrued[k] = IF Due < k /\ k <= n.cursor
                           THEN Late!InterestOf(settlement, undone, k) - Late!InterestOf(settlement, undone, k - 1) ELSE 0
    <3> TAKE k \in Late!Days
    <3>1. CASE k \in Late!Greatest(Due, f.cursor) + 1 .. d
      <4>1. k \in Due .. d /\ k - 1 \in Due .. d /\ Due < k /\ k <= n.cursor
            /\ k \in Int /\ k >= Due /\ k - 1 \in Int /\ k - 1 >= Due
        BY <1>0, <2>2, <2>3, <3>1 DEF Late!Greatest
      <4>2. Late!Delta(f, k) = f.accrued[k] + 0
        BY <2>3, DeltaIsAccrued
      <4>3. E[k] = Late!Expected(k) /\ E[k - 1] = Late!Expected(k - 1)
        BY <4>1
      <4>4. Late!InterestOf(settlement, undone, k) \in Nat /\ Late!InterestOf(settlement, undone, k - 1) \in Nat
        BY <4>1, InterestGrows
      <4>5. n.accrued[k] = Late!Expected(k) - Late!Expected(k - 1) - ((f.accrued[k] + 0) - f.accrued[k])
        <5> HIDE DEF E
        <5> QED BY <2>2, <3>1, <4>2, <4>3
      <4> QED BY <2>3, <4>1, <4>4, <4>5 DEF Late!Expected
    <3>2. CASE k \notin Late!Greatest(Due, f.cursor) + 1 .. d
      <4>1. n.accrued[k] = f.accrued[k]
        <5> HIDE DEF E
        <5> QED BY <2>2, <3>2
      <4>2. (Due < k /\ k <= f.cursor) <=> (Due < k /\ k <= n.cursor)
        BY <1>0, <2>2, <2>3, <3>2 DEF Late!Greatest
      <4> QED BY <1>1, <2>3, <4>1, <4>2 DEF Follows
    <3> QED BY <3>1, <3>2
  <2>5. n.cursor \in Due + 1 .. LastDay /\ n.cursor \in Nat
    <3>1. f.cursor = 0 \/ f.cursor \in Due + 1 .. LastDay
      BY <1>1 DEF Follows
    <3> QED BY <1>0, <1>3, <2>2, <2>3, <3>1 DEF Late!Greatest
  <2>6. n.accrued \in [Late!Days -> Int]
    <3>1. n.accrued = [k \in Late!Days |-> n.accrued[k]]
      BY <2>2
    <3> QED BY <2>4, <3>1
  <2>7. n \in [fixed : {0, Fine}, accrued : [Late!Days -> Int], cursor : Nat, adjusted : {{}}]
    <3>1. f.fixed \in {0, Fine}
      BY <1>1 DEF Follows
    <3> QED BY <2>2, <2>5, <2>6, <3>1
  <2>8. Follows(n, settlement, undone)
    BY <2>4, <2>5, <2>7 DEF Follows
  <2>9. Late!CaughtUp(l, d) = n
    BY DEF Late!CaughtUp, n, f
  <2> QED BY <1>1, <1>3, <2>2, <2>8, <2>9
<1> QED BY <1>2, <1>3

\* What happens on or after the last day that was charged leaves the ledger right.
LEMMA StillFollows ==
    ASSUME ChargeAssumptions, NEW s \in Receipts, NEW u \in Undoings, NEW s2 \in Receipts, NEW u2 \in Undoings,
           NEW l, Follows(l, s, u),
           \A a \in Attempts :
               \/ s2[a] = s[a] /\ u2[a] = u[a]
               \/ s[a].on = 0 /\ u[a] = 0 /\ l.cursor <= s2[a].on /\ u2[a] = 0
               \/ s2[a] = s[a] /\ u[a] = 0 /\ l.cursor <= u2[a]
    PROVE  Follows(l, s2, u2)
<1>1. ASSUME NEW k \in Int, k <= l.cursor PROVE Late!InterestOf(s2, u2, k) = Late!InterestOf(s, u, k)
  <2>1. l.cursor \in Int /\ \A a \in Attempts : s2[a].on \in Int /\ u2[a] \in Int
    BY DEF Follows, Receipts, Undoings
  <2>2. \A a \in Attempts :
               \/ s2[a] = s[a] /\ u2[a] = u[a]
               \/ s[a].on = 0 /\ u[a] = 0 /\ k <= s2[a].on /\ u2[a] = 0
               \/ s2[a] = s[a] /\ u[a] = 0 /\ k <= u2[a]
    BY <1>1, <2>1
  <2> QED BY <2>2, InterestIsPast
<1>2. ASSUME NEW k \in Late!Days, Due < k, k <= l.cursor
      PROVE  Late!InterestOf(s2, u2, k) - Late!InterestOf(s2, u2, k - 1) = Late!InterestOf(s, u, k) - Late!InterestOf(s, u, k - 1)
  <2>1. k \in Int /\ k - 1 \in Int /\ k - 1 <= l.cursor
    BY <1>2 DEF Late!Days, Follows, ChargeAssumptions
  <2> QED BY <1>1, <1>2, <2>1
<1> QED BY <1>2 DEF Follows

-----------------------------------------------------------------------------
(* What is due, and what of it is paid.                                     *)

Portions == {"principal", "interest", "fixed", "late"}

\* One part of every receipt.
PartOf(s, part) == [a \in Attempts |-> s[a].applied[part]]

\* Every part of a receipt is an amount.
LEMMA PartNat ==
    /\ \A r \in Amounts, part \in Portions : r[part] \in Nat
    /\ \A s \in Receipts, part \in Portions, a \in Attempts :
           PartOf(s, part)[a] \in Nat /\ PartOf(s, part)[a] = s[a].applied[part]
<1>1. ASSUME NEW r \in Amounts, NEW part \in Portions PROVE r[part] \in Nat
  <2>1. r.principal \in Nat /\ r.interest \in Nat /\ r.fixed \in Nat /\ r.late \in Nat
    BY DEF Amounts
  <2> QED BY <2>1 DEF Portions
<1>2. \A s \in Receipts, a \in Attempts : s[a].applied \in Amounts
  BY DEF Receipts
<1> QED BY <1>1, <1>2 DEF PartOf

\* A sum over some receipts.
LEMMA PartsSum ==
    ASSUME ChargeAssumptions, NEW s \in Receipts, NEW part \in Portions, NEW S, S \subseteq Attempts
    PROVE  /\ SumFunction([a \in S |-> s[a].applied[part]]) = SumFunctionOnSet(PartOf(s, part), S)
           /\ SumFunctionOnSet(PartOf(s, part), S) \in Nat
           /\ IsFiniteSet(S)
<1>1. IsFiniteSet(S)
  BY FS_Subset DEF ChargeAssumptions
<1> DEFINE v == [a \in S |-> s[a].applied[part]]
<1>2. \A a \in S : v[a] = PartOf(s, part)[a] /\ PartOf(s, part)[a] \in Nat
  BY PartNat
<1>3. SumFunction(v) = SumFunctionOnSet(v, S)
  BY DEF SumFunction
<1>4. SumFunctionOnSet(v, S) = SumFunctionOnSet(PartOf(s, part), S)
  <2> HIDE DEF v
  <2> QED BY <1>1, <1>2, SumSame
<1>5. SumFunctionOnSet(PartOf(s, part), S) \in Nat
  BY <1>1, <1>2, SumNat
<1> QED BY <1>1, <1>3, <1>4, <1>5

\* What is received is an amount.
LEMMA ReceivedNat ==
    ASSUME ChargeAssumptions, settlement \in Receipts
    PROVE  /\ \A d : \A part \in Portions : Late!Received(d, part) \in Nat
           /\ \A S \in SUBSET Attempts, part \in Portions :
                  /\ Late!AppliedOf(S, part) = SumFunctionOnSet(PartOf(settlement, part), S)
                  /\ Late!AppliedOf(S, part) \in Nat
<1>1. ASSUME NEW S \in SUBSET Attempts, NEW part \in Portions
      PROVE  Late!AppliedOf(S, part) = SumFunctionOnSet(PartOf(settlement, part), S) /\ Late!AppliedOf(S, part) \in Nat
  BY PartsSum, LateSums DEF Late!AppliedOf
<1>2. \A d : Late!Active(d) \in SUBSET Attempts
  BY DEF Late!Active
<1> QED BY <1>1, <1>2 DEF Late!Received

\* So is what is due.
LEMMA ObligationTyped ==
    ASSUME ChargeAssumptions, settlement \in Receipts, undone \in Undoings,
           NEW l, Follows(l, settlement, undone), NEW d \in Due .. LastDay
    PROVE  /\ Late!Obligation(l, d) \in Amounts
           /\ Late!Materialized(l, d) \in Nat
<1>1. Late!Materialized(l, d) \in Nat
  <2>1. d \in 0 .. LastDay + 1
    BY DEF ChargeAssumptions
  <2>2. UpTo(l, d) \in Int /\ UpTo(l, d) >= Due
    BY DEF UpTo, Late!Greatest, Late!Least, Follows, ChargeAssumptions
  <2> QED BY <2>1, <2>2, Booked, InterestGrows
<1>2. /\ Late!Received(d, "principal") \in Nat /\ Late!Received(d, "interest") \in Nat
      /\ Late!Received(d, "fixed") \in Nat /\ Late!Received(d, "late") \in Nat
  BY ReceivedNat DEF Portions
<1>3. l.fixed \in Nat /\ Principal \in Nat /\ Interest \in Nat
  BY DEF Follows, ChargeAssumptions
<1>4. /\ Late!Greatest(0, Principal - Late!Received(d, "principal")) \in Nat
      /\ Late!Greatest(0, Interest - Late!Received(d, "interest")) \in Nat
      /\ Late!Greatest(0, (IF d > Due THEN l.fixed ELSE 0) - Late!Received(d, "fixed")) \in Nat
      /\ Late!Greatest(0, Late!Materialized(l, d) - Late!Received(d, "late")) \in Nat
  BY <1>1, <1>2, <1>3 DEF Late!Greatest
<1>5. ~(d < Due)
  BY DEF ChargeAssumptions
<1> DEFINE principal == Late!Greatest(0, Principal - Late!Received(d, "principal"))
           interest == Late!Greatest(0, Interest - Late!Received(d, "interest"))
           fixed == Late!Greatest(0, (IF d > Due THEN l.fixed ELSE 0) - Late!Received(d, "fixed"))
           late == Late!Greatest(0, Late!Materialized(l, d) - Late!Received(d, "late"))
<1>6. Late!Obligation(l, d) = [principal |-> principal, interest |-> interest, fixed |-> fixed, late |-> late]
  BY <1>5 DEF Late!Obligation, Late!Dues
<1>7. principal \in Nat /\ interest \in Nat /\ fixed \in Nat /\ late \in Nat
  BY <1>4
<1> HIDE DEF principal, interest, fixed, late
<1> QED BY <1>1, <1>6, <1>7 DEF Amounts

\* No more is allocated to a part than is due of it.
LEMMA AllocatedWithin ==
    ASSUME NEW due \in Amounts, NEW amount \in Nat
    PROVE  /\ Late!Allocated(due, amount) \in Amounts
           /\ \A part \in Portions : Late!Allocated(due, amount)[part] <= due[part]
<1>1. due.principal \in Nat /\ due.interest \in Nat /\ due.fixed \in Nat /\ due.late \in Nat
  BY DEF Amounts
<1> DEFINE a == Late!Allocated(due, amount)
<1>2. /\ a = [principal |-> a.principal, interest |-> a.interest, fixed |-> a.fixed, late |-> a.late]
      /\ a.principal \in Nat /\ a.interest \in Nat /\ a.fixed \in Nat /\ a.late \in Nat
      /\ a.principal <= due.principal /\ a.interest <= due.interest
      /\ a.fixed <= due.fixed /\ a.late <= due.late
  <2> DEFINE fixed == Late!Least(due.fixed, amount)
             late == Late!Least(due.late, amount - fixed)
             interest == Late!Least(due.interest, amount - fixed - late)
             principal == Late!Least(due.principal, amount - fixed - late - interest)
  <2>1. a = [principal |-> principal, interest |-> interest, fixed |-> fixed, late |-> late]
    BY DEF Late!Allocated, Late!Dues
  <2>2. fixed \in Nat /\ fixed <= due.fixed /\ amount - fixed \in Nat
    BY <1>1 DEF Late!Least
  <2> HIDE DEF fixed
  <2>3. late \in Nat /\ late <= due.late /\ amount - fixed - late \in Nat
    BY <1>1, <2>2 DEF Late!Least
  <2> HIDE DEF late
  <2>4. interest \in Nat /\ interest <= due.interest /\ amount - fixed - late - interest \in Nat
    BY <1>1, <2>3 DEF Late!Least
  <2> HIDE DEF interest
  <2>5. principal \in Nat /\ principal <= due.principal
    BY <1>1, <2>4 DEF Late!Least
  <2> HIDE DEF principal, a
  <2> QED BY <2>1, <2>2, <2>3, <2>4, <2>5
<1> HIDE DEF a
<1>3. a \in Amounts
  BY <1>2 DEF Amounts
<1>4. \A part \in Portions : a[part] <= due[part]
  BY <1>2 DEF Portions
<1> QED BY <1>3, <1>4 DEF a

-----------------------------------------------------------------------------
(* The invariant.                                                           *)

Charges  == {"none", "PENDING", "APPROVED", "EXPIRED", "SUPERSEDED"}
ChargeTables ==
    /\ day \in Due .. LastDay
    /\ inst \in [paid : Amounts, status : InstStatuses, revision : Nat]
    /\ attempt \in [Attempts -> [status : Charges, on : Nat, dues : Amounts, mark : {"none", "STALE", "MISMATCH"}]]
    /\ order \in [Attempts -> [on : Nat, amount : Nat, told : BOOLEAN]]
    /\ settlement \in Receipts
    /\ undone \in Undoings
    /\ reserved \in [on : Nat, dues : Amounts]

\* The ledger follows the history, and is not ahead of the calendar.
LedgerFollows == Follows(ledger, settlement, undone) /\ ledger.cursor <= day

\* There is one charge at a time, and none while one is being replaced.
OneCharge == \A a \in Late!Pending : Late!Idle /\ \A b \in Late!Pending : a = b

\* What is paid or settled is an attempt.
ReceiptsAreOfAttempts ==
    \A a \in Attempts :
        /\ attempt[a].status # "none" => attempt[a].on <= day
        /\ order[a].on # 0 => /\ attempt[a].status # "none"
                              /\ order[a].on \in Due .. day /\ attempt[a].on <= order[a].on
        /\ Late!Settled(a) => attempt[a].status = "APPROVED" /\ settlement[a].on \in Due .. day
        /\ ~Late!Settled(a) => undone[a] = 0

\* Nothing was charged or settled after the day of the present charge.
Latest(on) == /\ on \in Due .. day
              /\ ledger.cursor <= on
              /\ \A b \in Attempts : settlement[b].on <= on

ChargeIsLatest == /\ \A a \in Late!Pending : Latest(attempt[a].on)
                  /\ ~Late!Idle => Latest(reserved.on)

LateInv == ChargeTables /\ LedgerFollows /\ OneCharge /\ ReceiptsAreOfAttempts /\ ChargeIsLatest
           /\ Late!PaidIsReceived /\ Late!PaidWithinAssessed

Standing == {a \in Attempts : Late!Settled(a) /\ undone[a] = 0}

\* Initially nothing is charged.
LEMMA LateStarts == ASSUME ChargeAssumptions, Late!Init PROVE LateInv
<1>0. Due \in Nat /\ Due >= 1 /\ LastDay \in Nat /\ Due <= LastDay
  BY DEF ChargeAssumptions
<1>1. Late!Nothing \in Amounts
  BY DEF Late!Nothing, Late!Dues, Amounts
<1>2. ChargeTables
  <2>1. settlement \in Receipts
    BY <1>1 DEF Late!Init, Receipts, Late!NoSettlement, InstStatuses
  <2>2. attempt \in [Attempts -> [status : Charges, on : Nat, dues : Amounts, mark : {"none", "STALE", "MISMATCH"}]]
    BY <1>1 DEF Late!Init, Late!NoAttempt, Charges
  <2>3. order \in [Attempts -> [on : Nat, amount : Nat, told : BOOLEAN]]
    BY DEF Late!Init, Late!NoOrder
  <2> QED BY <1>0, <1>1, <2>1, <2>2, <2>3 DEF Late!Init, ChargeTables, InstStatuses, Undoings
<1>3. \A a \in Attempts : attempt[a].status = "none" /\ order[a].on = 0 /\ settlement[a].on = 0 /\ undone[a] = 0
  BY DEF Late!Init, Late!NoAttempt, Late!NoOrder, Late!NoSettlement
<1>4. Late!Pending = {} /\ Late!Idle /\ Standing = {}
  BY <1>3 DEF Late!Pending, Late!Idle, Standing, Late!Settled, Late!Init
<1>5. Follows(ledger, settlement, undone)
  <2>1. /\ ledger = [fixed |-> 0, accrued |-> [k \in Late!Days |-> 0], cursor |-> 0, adjusted |-> {}]
    BY DEF Late!Init, Late!NoCharges
  <2>2. \A k \in Late!Days : ~(Due < k /\ k <= 0)
    BY <1>0 DEF Late!Days
  <2> QED BY <2>1, <2>2 DEF Follows
<1>6. LedgerFollows
  BY <1>0, <1>5 DEF LedgerFollows, Late!Init, Late!NoCharges
<1>7. Late!PaidIsReceived
  <2>1. \A part : Late!AppliedOf(Standing, part) = 0
    <3> TAKE part
    <3> DEFINE v == [a \in Standing |-> settlement[a].applied[part]]
    <3>1. DOMAIN v = {}
      BY <1>4
    <3>2. SumFunction(v) = 0
      <4> HIDE DEF v
      <4> QED BY <3>1, SumEmpty DEF SumFunction
    <3> QED BY <3>2, LateSums DEF Late!AppliedOf
  <2>2. \A part \in DOMAIN inst.paid : inst.paid[part] = 0
    BY DEF Late!Init, Late!Nothing, Late!Dues
  <2> QED BY <2>1, <2>2 DEF Late!PaidIsReceived, Standing
<1>8. Late!PaidWithinAssessed
  <2>1. Late!Materialized(ledger, LastDay + 1) = Late!InterestOf(settlement, undone, UpTo(ledger, LastDay + 1))
    <3>1. LastDay + 1 \in 0 .. LastDay + 1
      BY <1>0
    <3> QED BY <1>2, <1>5, <3>1, Booked DEF ChargeTables
  <2>2. UpTo(ledger, LastDay + 1) = Due
    BY <1>0 DEF Late!Init, Late!NoCharges, UpTo, Late!Greatest, Late!Least
  <2>3. Late!Materialized(ledger, LastDay + 1) = 0
    BY <1>2, <2>1, <2>2, InterestGrows DEF ChargeTables
  <2> QED BY <2>3 DEF Late!PaidWithinAssessed, Late!Init, Late!NoCharges, Late!Nothing, Late!Dues
<1> QED BY <1>2, <1>3, <1>4, <1>6, <1>7, <1>8 DEF LateInv, OneCharge, ReceiptsAreOfAttempts, ChargeIsLatest, Late!Settled

\* What the ledger holds in the end is the interest up to its cursor.
LEMMA HeldInTheEnd ==
    ASSUME ChargeAssumptions, NEW s \in Receipts, NEW u \in Undoings, NEW l, Follows(l, s, u)
    PROVE  /\ Late!Materialized(l, LastDay + 1) = Late!InterestOf(s, u, Late!Greatest(Due, l.cursor))
           /\ \A d \in Due .. LastDay : l.cursor <= d => Late!Materialized(l, d) = Late!Materialized(l, LastDay + 1)
           /\ Late!Materialized(l, LastDay + 1) \in Nat
<1>0. /\ Due \in Nat /\ Due >= 1 /\ LastDay \in Nat /\ Due <= LastDay /\ l.cursor \in Nat
      /\ l.cursor <= LastDay
  BY DEF Follows, ChargeAssumptions
<1>1. LastDay + 1 \in 0 .. LastDay + 1 /\ \A d \in Due .. LastDay : d \in 0 .. LastDay + 1
  BY <1>0
<1>2. UpTo(l, LastDay + 1) = Late!Greatest(Due, l.cursor)
  BY <1>0 DEF UpTo, Late!Greatest, Late!Least
<1>3. ASSUME NEW d \in Due .. LastDay, l.cursor <= d PROVE UpTo(l, d) = Late!Greatest(Due, l.cursor)
  BY <1>0, <1>3 DEF UpTo, Late!Greatest, Late!Least
<1>4. Late!Materialized(l, LastDay + 1) = Late!InterestOf(s, u, Late!Greatest(Due, l.cursor))
  BY <1>1, <1>2, Booked
<1>5. \A d \in Due .. LastDay : l.cursor <= d => Late!Materialized(l, d) = Late!InterestOf(s, u, Late!Greatest(Due, l.cursor))
  BY <1>1, <1>3, Booked
<1>6. Late!Greatest(Due, l.cursor) \in Int /\ Late!Greatest(Due, l.cursor) >= Due
  BY <1>0 DEF Late!Greatest
<1> QED BY <1>4, <1>5, <1>6, InterestGrows

\* Catching up adds to what is held.
LEMMA HeldGrows ==
    ASSUME ChargeAssumptions, settlement \in Receipts, undone \in Undoings,
           NEW l, Follows(l, settlement, undone), NEW d \in Due .. LastDay
    PROVE  Late!Materialized(l, LastDay + 1) <= Late!Materialized(Late!CaughtUp(l, d), LastDay + 1)
<1> DEFINE n == Late!CaughtUp(l, d)
<1>1. Follows(n, settlement, undone) /\ n.cursor = IF d <= Due THEN l.cursor ELSE Late!Greatest(l.cursor, d)
  BY CatchesUp
<1> HIDE DEF n
<1>2. /\ Late!Materialized(l, LastDay + 1) = Late!InterestOf(settlement, undone, Late!Greatest(Due, l.cursor))
      /\ Late!Materialized(n, LastDay + 1) = Late!InterestOf(settlement, undone, Late!Greatest(Due, n.cursor))
  BY <1>1, HeldInTheEnd
<1>3. /\ Late!Greatest(Due, l.cursor) \in Int /\ Late!Greatest(Due, n.cursor) \in Int
      /\ Due <= Late!Greatest(Due, l.cursor) /\ Late!Greatest(Due, l.cursor) <= Late!Greatest(Due, n.cursor)
  <2>1. Due \in Nat /\ l.cursor \in Nat /\ d \in Nat
    BY DEF Follows, ChargeAssumptions
  <2> QED BY <1>1, <2>1 DEF Late!Greatest
<1>4. Late!Materialized(l, LastDay + 1) <= Late!Materialized(n, LastDay + 1)
  BY <1>2, <1>3, InterestMonotone
<1> QED BY <1>4 DEF n

-----------------------------------------------------------------------------
(* The steps of the part.                                                   *)

\* Facts that do not change with the present charge.
Books == LedgerFollows /\ Late!PaidIsReceived /\ Late!PaidWithinAssessed

\* The books stand when nothing of them changes but the date.
LEMMA BooksStay ==
    ASSUME ChargeAssumptions, LateInv, UNCHANGED <<ledger, inst, settlement, undone>>,
           day' \in Nat, day <= day'
    PROVE  Books'
<1>1. LedgerFollows'
  <2>1. ledger.cursor \in Nat /\ ledger.cursor <= day /\ day \in Nat
    BY DEF LateInv, LedgerFollows, Follows, ChargeTables, ChargeAssumptions
  <2>2. Follows(ledger, settlement, undone)
    BY DEF LateInv, LedgerFollows
  <2> QED BY <2>1, <2>2 DEF LedgerFollows
<1>2. Late!PaidIsReceived'
  <2>1. Late!PaidIsReceived
    BY DEF LateInv
  <2> QED BY <2>1, LateSums DEF Late!PaidIsReceived, Late!AppliedOf, Late!Settled
<1>3. Late!PaidWithinAssessed'
  <2>1. Late!PaidWithinAssessed
    BY DEF LateInv
  <2> QED BY <2>1, LateSums DEF Late!PaidWithinAssessed, Late!Materialized, Late!Delta
<1> QED BY <1>1, <1>2, <1>3 DEF Books

\* And when the ledger is caught up.
LEMMA BooksCatchUp ==
    ASSUME ChargeAssumptions, LateInv, NEW d \in Due .. day, ledger' = Late!CaughtUp(ledger, d),
           UNCHANGED <<day, inst, settlement, undone>>
    PROVE  /\ Books'
           /\ ledger'.cursor = IF d <= Due THEN ledger.cursor ELSE Late!Greatest(ledger.cursor, d)
           /\ ledger.cursor \in Nat
<1>0. /\ settlement \in Receipts /\ undone \in Undoings /\ d \in Due .. LastDay /\ day \in Nat
      /\ Follows(ledger, settlement, undone) /\ ledger.cursor <= day /\ d <= day
      /\ inst.paid.fixed \in Nat /\ inst.paid.late \in Nat
  BY DEF LateInv, ChargeTables, LedgerFollows, ChargeAssumptions, Amounts
<1>1. /\ Follows(ledger', settlement, undone)
      /\ ledger'.cursor = IF d <= Due THEN ledger.cursor ELSE Late!Greatest(ledger.cursor, d)
      /\ ledger.fixed <= ledger'.fixed
  BY <1>0, CatchesUp
<1>2. ledger.cursor \in Nat /\ ledger.fixed \in Nat /\ ledger'.fixed \in Nat
  BY <1>0, <1>1 DEF Follows, ChargeAssumptions
<1>3. LedgerFollows'
  <2>1. ledger'.cursor <= day
    BY <1>0, <1>1, <1>2 DEF Late!Greatest
  <2> QED BY <1>1, <2>1 DEF LedgerFollows
<1>4. Late!PaidIsReceived'
  <2>1. Late!PaidIsReceived
    BY DEF LateInv
  <2> QED BY <2>1, LateSums DEF Late!PaidIsReceived, Late!AppliedOf, Late!Settled
<1>5. Late!PaidWithinAssessed'
  <2>1. Late!Materialized(ledger, LastDay + 1) <= Late!Materialized(ledger', LastDay + 1)
    BY <1>0, HeldGrows
  <2>2. Late!Materialized(ledger, LastDay + 1) \in Nat /\ Late!Materialized(ledger', LastDay + 1) \in Nat
    BY <1>0, <1>1, HeldInTheEnd
  <2>3. inst.paid.fixed <= ledger.fixed /\ inst.paid.late <= Late!Materialized(ledger, LastDay + 1)
    BY DEF LateInv, Late!PaidWithinAssessed
  <2>4. inst.paid.fixed <= ledger'.fixed /\ inst.paid.late <= Late!Materialized(ledger', LastDay + 1)
    BY <1>0, <1>1, <1>2, <2>1, <2>2, <2>3
  <2> QED BY <2>4, LateSums DEF Late!PaidWithinAssessed, Late!Materialized, Late!Delta
<1> QED BY <1>1, <1>2, <1>3, <1>4, <1>5 DEF Books

Attempt(status, on, dues, mark) == [status |-> status, on |-> on, dues |-> dues, mark |-> mark]

\* Every attempt is one.
LEMMA AttemptTyped ==
    ASSUME ChargeTables, NEW a \in Attempts
    PROVE  /\ attempt[a] = Attempt(attempt[a].status, attempt[a].on, attempt[a].dues, attempt[a].mark)
           /\ attempt[a].status \in Charges /\ attempt[a].on \in Nat /\ attempt[a].dues \in Amounts
           /\ attempt[a].mark \in {"none", "STALE", "MISMATCH"}
BY DEF ChargeTables, Attempt

\* An attempt that was not used is there.
LEMMA NextIsUnused == ASSUME ChargeAssumptions, Late!Unused # {} PROVE Late!NextId \in Late!Unused
<1>1. Late!Unused \subseteq Nat
  BY DEF Late!Unused, ChargeAssumptions
<1>2. \E a \in Late!Unused : \A b \in Late!Unused : a <= b
  BY <1>1, LeastNumber
<1> QED BY <1>2 DEF Late!NextId

\* A new attempt is the only one, and of the last day.
LEMMA InsertedIsLatest ==
    ASSUME ChargeAssumptions, LateInv, Books', Late!Unused # {}, Late!Pending = {}, NEW dues \in Amounts, NEW on \in Due .. day,
           Late!Inserted(dues, on), ledger'.cursor <= on, \A b \in Attempts : settlement[b].on <= on,
           UNCHANGED <<day, inst, order, settlement, undone>>,
           reserved' \in [on : Nat, dues : Amounts], Late!Idle'
    PROVE  LateInv'
<1> DEFINE n == Late!NextId
           row == Attempt("PENDING", on, dues, "none")
<1>0. on \in Nat /\ on \in Due .. day' /\ Due \in Nat /\ Due >= 1 /\ ChargeTables /\ day \in Nat
  BY DEF ChargeAssumptions, LateInv, ChargeTables
<1>1. n \in Late!Unused /\ n \in Attempts /\ attempt[n].status = "none"
  BY NextIsUnused DEF Late!Unused
<1> HIDE DEF n
<1>2. /\ attempt' = [attempt EXCEPT ![n] = row]
      /\ attempt'[n] = row /\ \A a \in Attempts : a # n => attempt'[a] = attempt[a]
  <2>1. attempt' = [attempt EXCEPT ![n] = row]
    BY DEF Late!Inserted, n, Attempt
  <2> HIDE DEF row
  <2>2. attempt \in [Attempts -> [status : Charges, on : Nat, dues : Amounts, mark : {"none", "STALE", "MISMATCH"}]]
    BY <1>0 DEF ChargeTables
  <2> QED BY <1>1, <2>1, <2>2
<1>3. row \in [status : Charges, on : Nat, dues : Amounts, mark : {"none", "STALE", "MISMATCH"}]
      /\ row.status = "PENDING" /\ row.on = on
  BY <1>0 DEF Attempt, Charges
<1> HIDE DEF row
<1>4. ChargeTables'
  <2>1. attempt' \in [Attempts -> [status : Charges, on : Nat, dues : Amounts, mark : {"none", "STALE", "MISMATCH"}]]
    BY <1>0, <1>2, <1>3 DEF ChargeTables
  <2> QED BY <1>0, <2>1 DEF ChargeTables
<1>5. Late!Pending' = {n}
  BY <1>1, <1>2, <1>3 DEF Late!Pending
<1>6. OneCharge'
  BY <1>5 DEF OneCharge
<1>7. ReceiptsAreOfAttempts'
  <2>1. ASSUME NEW a \in Attempts
        PROVE  /\ attempt'[a].status # "none" => attempt'[a].on <= day
               /\ order[a].on # 0 => /\ attempt'[a].status # "none"
                                     /\ order[a].on \in Due .. day /\ attempt'[a].on <= order[a].on
               /\ Late!Settled(a) => attempt'[a].status = "APPROVED" /\ settlement[a].on \in Due .. day
               /\ ~Late!Settled(a) => undone[a] = 0
    BY <1>0, <1>1, <1>2, <1>3 DEF LateInv, ReceiptsAreOfAttempts
  <2> QED BY <2>1 DEF ReceiptsAreOfAttempts, Late!Settled
<1>8. ChargeIsLatest'
  <2>1. attempt'[n].on = on
    BY <1>2, <1>3
  <2>2. Latest(on)'
    BY <1>0 DEF Latest
  <2>3. \A a \in Late!Pending' : Latest(attempt[a].on)'
    <3> TAKE a \in Late!Pending'
    <3>1. attempt'[a].on = on
      BY <1>5, <2>1
    <3> QED BY <2>2, <3>1 DEF Latest
  <2> QED BY <2>3 DEF ChargeIsLatest
<1> QED BY <1>4, <1>6, <1>7, <1>8 DEF LateInv, Books

\* The obligation of a day, after catching up, is an amount.
LEMMA DuesTyped ==
    ASSUME ChargeAssumptions, LateInv, NEW d \in Due .. day
    PROVE  Late!Obligation(Late!CaughtUp(ledger, d), d) \in Amounts
<1>1. settlement \in Receipts /\ undone \in Undoings /\ Follows(ledger, settlement, undone)
  BY DEF LateInv, ChargeTables, LedgerFollows
<1>2. d \in Due .. LastDay
  <2>1. Due \in Nat /\ LastDay \in Nat /\ day \in Due .. LastDay
    BY DEF ChargeAssumptions, LateInv, ChargeTables
  <2> QED BY <2>1
<1> DEFINE n == Late!CaughtUp(ledger, d)
<1>3. Follows(n, settlement, undone)
  BY <1>1, <1>2, CatchesUp
<1> HIDE DEF n
<1>4. Late!Obligation(n, d) \in Amounts
  BY <1>1, <1>2, <1>3, ObligationTyped
<1> QED BY <1>4 DEF n

\* All receipts are of the past.
LEMMA NoneIsLater ==
    ASSUME ChargeAssumptions, LateInv
    PROVE  /\ \A b \in Attempts : settlement[b].on <= day
           /\ day \in Due .. day /\ Due \in Nat /\ Due >= 1 /\ day \in Nat /\ ledger.cursor \in Nat /\ ledger.cursor <= day
<1>1. Due \in Nat /\ Due >= 1 /\ day \in Due .. LastDay /\ day \in Nat /\ LastDay \in Nat
  BY DEF ChargeAssumptions, LateInv, ChargeTables
<1>2. ASSUME NEW b \in Attempts PROVE settlement[b].on <= day
  <2>1. settlement[b].on \in Nat
    BY DEF LateInv, ChargeTables, Receipts
  <2>2. Late!Settled(b) => settlement[b].on <= day
    BY <1>1 DEF LateInv, ReceiptsAreOfAttempts
  <2> QED BY <1>1, <2>1, <2>2 DEF Late!Settled
<1> QED BY <1>1, <1>2 DEF LateInv, LedgerFollows, Follows

\* A charge is reserved for what is owed today.
LEMMA ReserveKeeps == ASSUME ChargeAssumptions, LateInv, Late!Reserve PROVE LateInv'
<1>1. /\ Late!Idle /\ Late!Unused # {} /\ Late!Pending = {} /\ Late!Inserted(Late!Obligation(Late!Current, day), day)
      /\ ledger' = Late!CaughtUp(ledger, day) /\ UNCHANGED <<day, inst, order, settlement, undone, reserved>>
  BY DEF Late!Reserve, Late!MayReserve, Late!Current
<1>2. day \in Due .. day /\ Due \in Nat /\ day \in Nat /\ ledger.cursor <= day
      /\ \A b \in Attempts : settlement[b].on <= day
  BY NoneIsLater
<1>3. Late!Obligation(Late!Current, day) \in Amounts
  BY <1>2, DuesTyped DEF Late!Current
<1>4. Books' /\ ledger'.cursor <= day
  <2>1. Books' /\ ledger.cursor \in Nat
          /\ ledger'.cursor = IF day <= Due THEN ledger.cursor ELSE Late!Greatest(ledger.cursor, day)
    BY <1>1, <1>2, BooksCatchUp
  <2> QED BY <1>2, <2>1 DEF Late!Greatest
<1>5. reserved' \in [on : Nat, dues : Amounts] /\ Late!Idle'
  BY <1>1 DEF LateInv, ChargeTables, Late!Idle
<1> QED BY <1>1, <1>2, <1>3, <1>4, <1>5, InsertedIsLatest

\* The second transaction of a reservation inserts what the first computed.
LEMMA InsertKeeps == ASSUME ChargeAssumptions, LateInv, Late!Insert PROVE LateInv'
<1>1. /\ ~Late!Idle /\ Late!Unused # {} /\ Late!Inserted(reserved.dues, reserved.on) /\ reserved' = [on |-> 0, dues |-> Late!Nothing]
      /\ UNCHANGED <<day, ledger, inst, order, settlement, undone>>
  BY DEF Late!Insert
<1>2. Late!Pending = {} /\ Latest(reserved.on)
  BY <1>1 DEF LateInv, OneCharge, ChargeIsLatest
<1>3. day \in Nat
  BY NoneIsLater
<1>4. Books'
  <2>1. day' \in Nat /\ day <= day'
    BY <1>1, <1>3
  <2> QED BY <1>1, <2>1, BooksStay
<1>5. reserved.dues \in Amounts
  BY DEF LateInv, ChargeTables
<1>6. reserved' \in [on : Nat, dues : Amounts] /\ Late!Idle'
  BY <1>1 DEF Late!Nothing, Late!Dues, Amounts, Late!Idle
<1> QED BY <1>1, <1>2, <1>4, <1>5, <1>6, InsertedIsLatest DEF Latest

\* What changes the mark and perhaps ends an attempt that is not the present charge,
\* or ends the present charge, with the books as they may be.
LEMMA MarkedKeeps ==
    ASSUME ChargeAssumptions, LateInv, Books', NEW a \in Attempts, attempt[a].status # "none",
           NEW status \in Charges, NEW mark \in {"none", "STALE", "MISMATCH"},
           status = attempt[a].status \/ (attempt[a].status = "PENDING" /\ status \in {"EXPIRED", "SUPERSEDED"}),
           attempt' = [attempt EXCEPT ![a].status = status, ![a].mark = mark],
           \A b \in Attempts : order'[b].on = order[b].on,
           order' \in [Attempts -> [on : Nat, amount : Nat, told : BOOLEAN]],
           reserved' \in [on : Nat, dues : Amounts],
           Late!Idle' \/ (Latest(reserved.on)' /\ a \in Late!Pending /\ status # "PENDING"),
           \A b \in Late!Pending : Latest(attempt[b].on) => ledger'.cursor <= attempt[b].on \/ (b = a /\ status # "PENDING"),
           UNCHANGED <<day, inst, settlement, undone>>
    PROVE  LateInv'
<1>0. ChargeTables /\ Due \in Nat /\ Due >= 1 /\ day \in Nat
  BY NoneIsLater DEF LateInv
<1>1. /\ attempt[a] = Attempt(attempt[a].status, attempt[a].on, attempt[a].dues, attempt[a].mark)
      /\ attempt[a].on \in Nat /\ attempt[a].dues \in Amounts
  BY <1>0, AttemptTyped
<1>2. /\ attempt'[a] = Attempt(status, attempt[a].on, attempt[a].dues, mark)
      /\ attempt' = [attempt EXCEPT ![a] = attempt'[a]]
      /\ \A b \in Attempts : b # a => attempt'[b] = attempt[b]
  BY <1>0, <1>1 DEF Attempt, ChargeTables
<1>3. attempt'[a].status = status /\ attempt'[a].on = attempt[a].on
  BY <1>2 DEF Attempt
<1>4. ChargeTables'
  <2>1. attempt'[a] \in [status : Charges, on : Nat, dues : Amounts, mark : {"none", "STALE", "MISMATCH"}]
    BY <1>1, <1>2 DEF Attempt
  <2>2. attempt' \in [Attempts -> [status : Charges, on : Nat, dues : Amounts, mark : {"none", "STALE", "MISMATCH"}]]
    BY <1>0, <1>2, <2>1 DEF ChargeTables
  <2> QED BY <1>0, <2>2 DEF ChargeTables
<1>5. Late!Pending' \subseteq Late!Pending /\ (status # "PENDING" => a \notin Late!Pending')
  <2>1. \A b \in Attempts : attempt'[b].status = "PENDING" => attempt[b].status = "PENDING"
    BY <1>2, <1>3
  <2> QED BY <1>3, <2>1 DEF Late!Pending
<1>6. OneCharge'
  <2>1. \A b, c \in Late!Pending' : b = c
    BY <1>5 DEF LateInv, OneCharge
  <2>2. Late!Pending' # {} => Late!Idle'
    <3>1. ASSUME ~Late!Idle' PROVE Late!Pending' = {}
      <4>1. a \in Late!Pending /\ a \notin Late!Pending'
        BY <1>5, <3>1
      <4> QED BY <1>5, <4>1 DEF LateInv, OneCharge
    <3> QED BY <3>1
  <2> QED BY <2>1, <2>2 DEF OneCharge
<1>7. ReceiptsAreOfAttempts'
  <2>1. ASSUME NEW b \in Attempts
        PROVE  /\ attempt'[b].status # "none" => attempt'[b].on <= day
               /\ order[b].on # 0 => /\ attempt'[b].status # "none"
                                     /\ order[b].on \in Due .. day /\ attempt'[b].on <= order[b].on
               /\ Late!Settled(b) => attempt'[b].status = "APPROVED" /\ settlement[b].on \in Due .. day
               /\ ~Late!Settled(b) => undone[b] = 0
    <3>1. /\ attempt[b].status # "none" => attempt[b].on <= day
          /\ order[b].on # 0 => /\ attempt[b].status # "none"
                                /\ order[b].on \in Due .. day /\ attempt[b].on <= order[b].on
          /\ Late!Settled(b) => attempt[b].status = "APPROVED" /\ settlement[b].on \in Due .. day
          /\ ~Late!Settled(b) => undone[b] = 0
      BY DEF LateInv, ReceiptsAreOfAttempts
    <3>2. CASE b = a
      BY <1>3, <3>1, <3>2
    <3>3. CASE b # a
      BY <1>2, <3>1, <3>3
    <3> QED BY <3>2, <3>3
  <2> QED BY <2>1 DEF ReceiptsAreOfAttempts, Late!Settled
<1>8. ChargeIsLatest'
  <2>1. \A b \in Late!Pending' : Latest(attempt[b].on)'
    <3> TAKE b \in Late!Pending'
    <3>1. b \in Late!Pending /\ b \in Attempts /\ Latest(attempt[b].on) /\ ~(b = a /\ status # "PENDING")
      BY <1>5 DEF LateInv, ChargeIsLatest, Late!Pending
    <3>2. attempt'[b].on = attempt[b].on
      BY <1>2, <1>3, <3>1
    <3>3. ledger'.cursor <= attempt[b].on
      BY <3>1
    <3> QED BY <3>1, <3>2, <3>3 DEF Latest
  <2> QED BY <2>1 DEF ChargeIsLatest
<1> QED BY <1>4, <1>6, <1>7, <1>8 DEF LateInv, Books

\* The first retires the charge that is out of date.
LEMMA RetireKeeps == ASSUME ChargeAssumptions, LateInv, Late!Retire PROVE LateInv'
<1>1. PICK a \in Late!Pending : ~Late!Reusable(a) /\ attempt' = [attempt EXCEPT ![a].status = Late!Retired(a)]
  BY DEF Late!Retire
<1>2. /\ ledger' = Late!CaughtUp(ledger, day) /\ reserved' = [on |-> day, dues |-> Late!Obligation(Late!Current, day)]
      /\ UNCHANGED <<day, inst, order, settlement, undone>>
  BY DEF Late!Retire, Late!Current
<1>3. day \in Due .. day /\ Due \in Nat /\ day \in Nat /\ ledger.cursor <= day
      /\ \A b \in Attempts : settlement[b].on <= day
  BY NoneIsLater
<1>4. Books' /\ ledger'.cursor <= day
  <2>1. Books' /\ ledger.cursor \in Nat
          /\ ledger'.cursor = IF day <= Due THEN ledger.cursor ELSE Late!Greatest(ledger.cursor, day)
    BY <1>2, <1>3, BooksCatchUp
  <2> QED BY <1>3, <2>1 DEF Late!Greatest
<1>5. a \in Attempts /\ attempt[a].status = "PENDING" /\ ChargeTables
  BY DEF Late!Pending, LateInv
<1> DEFINE status == Late!Retired(a)
           mark == attempt[a].mark
<1>6. status \in Charges /\ status \in {"EXPIRED", "SUPERSEDED"} /\ mark \in {"none", "STALE", "MISMATCH"}
  BY <1>5, AttemptTyped DEF Late!Retired, Charges
<1>7. attempt' = [attempt EXCEPT ![a].status = status, ![a].mark = mark]
  <2>1. attempt \in [Attempts -> [status : Charges, on : Nat, dues : Amounts, mark : {"none", "STALE", "MISMATCH"}]]
    BY <1>5 DEF ChargeTables
  <2> QED BY <1>1, <1>5, <2>1
<1>8. reserved' \in [on : Nat, dues : Amounts] /\ Latest(reserved.on)'
  <2>1. Late!Obligation(Late!Current, day) \in Amounts
    BY <1>3, DuesTyped DEF Late!Current
  <2> QED BY <1>2, <1>3, <1>4, <2>1 DEF Latest
<1>9. \A b \in Late!Pending : b = a
  BY DEF LateInv, OneCharge
<1>10. order' \in [Attempts -> [on : Nat, amount : Nat, told : BOOLEAN]] /\ \A b \in Attempts : order'[b].on = order[b].on
  BY <1>2, <1>5 DEF ChargeTables
<1> HIDE DEF status, mark
<1>11. status # "PENDING" /\ attempt[a].status # "none"
  BY <1>5, <1>6
<1> QED BY <1>2, <1>4, <1>5, <1>6, <1>7, <1>8, <1>9, <1>10, <1>11, MarkedKeeps

\* A notification changes nothing of the order but that it was told.
LEMMA Told ==
    ASSUME ChargeTables, NEW a \in Attempts, Late!Tell(a)
    PROVE  /\ \A b \in Attempts : order'[b].on = order[b].on
           /\ order' \in [Attempts -> [on : Nat, amount : Nat, told : BOOLEAN]]
BY DEF ChargeTables, Late!Tell

\* An order that is announced is of an attempt.
LEMMA AnnouncedOrder ==
    ASSUME ChargeAssumptions, LateInv, NEW a \in Attempts, Late!Announced(a)
    PROVE  /\ attempt[a].status # "none" /\ order[a].on \in Due .. day /\ attempt[a].on <= order[a].on
           /\ Late!Idle /\ order[a].on \in Nat /\ attempt[a].on \in Nat /\ order[a].amount \in Nat
<1>1. order[a].on \in Nat /\ order[a].on # 0 /\ Late!Idle /\ attempt[a].on \in Nat /\ order[a].amount \in Nat
  BY DEF LateInv, ChargeTables, Late!Announced
<1> QED BY <1>1 DEF LateInv, ReceiptsAreOfAttempts

\* A payment of a charge that is out of date is only marked.
LEMMA StaleKeeps == ASSUME ChargeAssumptions, LateInv, Late!Stale PROVE LateInv'
<1>1. PICK a \in Attempts :
        /\ Late!Announced(a) /\ Late!IsStale(a)
        /\ attempt' = [attempt EXCEPT
              ![a].mark = "STALE", ![a].status = IF @ = "PENDING" THEN "EXPIRED" ELSE @]
        /\ Late!Tell(a)
  BY DEF Late!Stale
<1>2. UNCHANGED <<day, ledger, inst, settlement, undone, reserved>>
  BY DEF Late!Stale
<1>3. day \in Nat /\ ChargeTables
  BY NoneIsLater DEF LateInv
<1>4. Books'
  <2>1. day' \in Nat /\ day <= day'
    BY <1>2, <1>3
  <2> QED BY <1>2, <2>1, BooksStay
<1>5. attempt[a].status # "none" /\ Late!Idle
  BY <1>1, AnnouncedOrder
<1> DEFINE status == IF attempt[a].status = "PENDING" THEN "EXPIRED" ELSE attempt[a].status
           mark == "STALE"
<1>6. /\ status \in Charges
      /\ status = attempt[a].status \/ (attempt[a].status = "PENDING" /\ status \in {"EXPIRED", "SUPERSEDED"})
      /\ mark \in {"none", "STALE", "MISMATCH"}
  BY <1>3, AttemptTyped DEF Charges
<1>7. attempt' = [attempt EXCEPT ![a].status = status, ![a].mark = mark]
  <2>1. attempt \in [Attempts -> [status : Charges, on : Nat, dues : Amounts, mark : {"none", "STALE", "MISMATCH"}]]
    BY <1>3 DEF ChargeTables
  <2> QED BY <1>1, <2>1
<1>8. reserved' \in [on : Nat, dues : Amounts] /\ Late!Idle'
  BY <1>2, <1>3, <1>5 DEF ChargeTables, Late!Idle
<1>9. \A b \in Late!Pending : Latest(attempt[b].on) => ledger'.cursor <= attempt[b].on
  BY <1>2 DEF Latest
<1>10. /\ \A b \in Attempts : order'[b].on = order[b].on
       /\ order' \in [Attempts -> [on : Nat, amount : Nat, told : BOOLEAN]]
  BY <1>1, <1>3, Told
<1> HIDE DEF status, mark
<1> QED BY <1>2, <1>4, <1>5, <1>6, <1>7, <1>8, <1>9, <1>10, MarkedKeeps

\* The present charge, paid on its day.
LEMMA PaidOnItsDay ==
    ASSUME ChargeAssumptions, LateInv, NEW a \in Attempts, Late!Announced(a), ~Late!IsStale(a)
    PROVE  /\ a \in Late!Pending /\ attempt[a].status = "PENDING" /\ attempt[a].on = order[a].on
           /\ Latest(order[a].on) /\ \A b \in Late!Pending : b = a
<1>1. attempt[a].on \in Nat /\ order[a].on \in Nat /\ attempt[a].on <= order[a].on
  BY AnnouncedOrder
<1>2. attempt[a].status = "PENDING" /\ ~(order[a].on > attempt[a].on)
  BY DEF Late!IsStale, Late!Expired
<1>3. a \in Late!Pending /\ attempt[a].on = order[a].on
  BY <1>1, <1>2 DEF Late!Pending
<1> QED BY <1>2, <1>3 DEF LateInv, OneCharge, ChargeIsLatest

\* Catching up to the day of the present charge does not go beyond it.
LEMMA CaughtUpTo ==
    ASSUME ChargeAssumptions, LateInv, NEW on \in Due .. day, Latest(on)
    PROVE  Late!CaughtUp(ledger, on).cursor <= on
<1>1. settlement \in Receipts /\ undone \in Undoings /\ Follows(ledger, settlement, undone)
  BY DEF LateInv, ChargeTables, LedgerFollows
<1>2. on \in Due .. LastDay /\ on \in Nat /\ Due \in Nat
  <2>1. Due \in Nat /\ LastDay \in Nat /\ day \in Due .. LastDay
    BY DEF ChargeAssumptions, LateInv, ChargeTables
  <2> QED BY <2>1
<1>3. Late!CaughtUp(ledger, on).cursor = IF on <= Due THEN ledger.cursor ELSE Late!Greatest(ledger.cursor, on)
  BY <1>1, <1>2, CatchesUp
<1>4. ledger.cursor <= on /\ ledger.cursor \in Nat
  BY NoneIsLater DEF Latest
<1> QED BY <1>2, <1>3, <1>4 DEF Late!Greatest

\* A charge that is not what is owed is marked, and what was caught up is kept.
LEMMA MismatchKeeps == ASSUME ChargeAssumptions, LateInv, Late!Mismatch PROVE LateInv'
<1>1. PICK a \in Attempts :
        /\ Late!Announced(a) /\ ~Late!IsStale(a)
        /\ attempt' = [attempt EXCEPT ![a].mark = "MISMATCH"]
        /\ ledger' = Late!CaughtUp(ledger, order[a].on)
        /\ Late!Tell(a)
  BY DEF Late!Mismatch, Late!Found
<1>2. UNCHANGED <<day, inst, settlement, undone, reserved>>
  BY DEF Late!Mismatch
<1>3. /\ a \in Late!Pending /\ attempt[a].status = "PENDING" /\ attempt[a].on = order[a].on
      /\ Latest(order[a].on) /\ (\A b \in Late!Pending : b = a) /\ Late!Idle /\ order[a].on \in Due .. day
  BY <1>1, PaidOnItsDay, AnnouncedOrder
<1>4. Books'
  BY <1>1, <1>2, <1>3, BooksCatchUp
<1>5. ledger'.cursor <= order[a].on
  BY <1>1, <1>3, CaughtUpTo
<1> DEFINE status == attempt[a].status
           mark == "MISMATCH"
<1>6. status \in Charges /\ mark \in {"none", "STALE", "MISMATCH"} /\ ChargeTables
  BY AttemptTyped DEF LateInv
<1>7. attempt' = [attempt EXCEPT ![a].status = status, ![a].mark = mark]
  <2>1. attempt \in [Attempts -> [status : Charges, on : Nat, dues : Amounts, mark : {"none", "STALE", "MISMATCH"}]]
    BY <1>6 DEF ChargeTables
  <2> QED BY <1>1, <2>1
<1>8. reserved' \in [on : Nat, dues : Amounts] /\ Late!Idle'
  BY <1>2, <1>3, <1>6 DEF ChargeTables, Late!Idle
<1>9. \A b \in Late!Pending : ledger'.cursor <= attempt[b].on
  BY <1>3, <1>5
<1>10. /\ \A b \in Attempts : order'[b].on = order[b].on
       /\ order' \in [Attempts -> [on : Nat, amount : Nat, told : BOOLEAN]]
  BY <1>1, <1>6, Told
<1>11. status = attempt[a].status /\ attempt[a].status # "none"
  BY <1>3
<1> HIDE DEF status, mark
<1> QED BY <1>2, <1>4, <1>6, <1>7, <1>8, <1>9, <1>10, <1>11, MarkedKeeps

\* The member pays an order at any time.
LEMMA PayKeeps == ASSUME ChargeAssumptions, LateInv, Late!Pay PROVE LateInv'
<1>1. PICK a \in Attempts, s \in Shortfalls :
        /\ attempt[a].status # "none" /\ Late!Idle /\ Late!Total(attempt[a].dues) > s
        /\ order' = [order EXCEPT ![a] = [on |-> day, amount |-> Late!Total(attempt[a].dues) - s, told |-> FALSE]]
  BY DEF Late!Pay
<1>2. UNCHANGED <<day, ledger, inst, attempt, settlement, undone, reserved>>
  BY DEF Late!Pay
<1>3. day \in Due .. day /\ day \in Nat /\ ChargeTables
  BY NoneIsLater DEF LateInv
<1>4. Books'
  <2>1. day' \in Nat /\ day <= day'
    BY <1>2, <1>3
  <2> QED BY <1>2, <2>1, BooksStay
<1>5. Late!Total(attempt[a].dues) - s \in Nat
  <2>1. attempt[a].dues \in Amounts
    BY <1>3, AttemptTyped
  <2>2. Late!Total(attempt[a].dues) \in Nat
    BY <2>1 DEF Late!Total, Amounts
  <2>3. s \in Nat
    BY DEF ChargeAssumptions
  <2> QED BY <1>1, <2>2, <2>3
<1>6. ChargeTables'
  <2>1. order \in [Attempts -> [on : Nat, amount : Nat, told : BOOLEAN]]
    BY <1>3 DEF ChargeTables
  <2>2. [on |-> day, amount |-> Late!Total(attempt[a].dues) - s, told |-> FALSE] \in [on : Nat, amount : Nat, told : BOOLEAN]
    BY <1>3, <1>5
  <2>3. order' \in [Attempts -> [on : Nat, amount : Nat, told : BOOLEAN]]
    BY <1>1, <2>1, <2>2
  <2> QED BY <1>2, <1>3, <2>3 DEF ChargeTables
<1>7. OneCharge'
  BY <1>2 DEF LateInv, OneCharge, Late!Pending, Late!Idle
<1>8. \A b \in Attempts : order'[b].on = order[b].on \/ (b = a /\ order'[b].on = day)
  BY <1>1, <1>3 DEF ChargeTables
<1>9. ReceiptsAreOfAttempts'
  <2>1. ASSUME NEW b \in Attempts
        PROVE  /\ attempt[b].status # "none" => attempt[b].on <= day
               /\ order'[b].on # 0 => /\ attempt[b].status # "none"
                                      /\ order'[b].on \in Due .. day /\ attempt[b].on <= order'[b].on
               /\ Late!Settled(b) => attempt[b].status = "APPROVED" /\ settlement[b].on \in Due .. day
               /\ ~Late!Settled(b) => undone[b] = 0
    BY <1>1, <1>3, <1>8 DEF LateInv, ReceiptsAreOfAttempts
  <2> QED BY <1>2, <2>1 DEF ReceiptsAreOfAttempts, Late!Settled
<1>10. ChargeIsLatest'
  BY <1>2 DEF LateInv, ChargeIsLatest, Latest, Late!Pending, Late!Idle
<1> QED BY <1>4, <1>6, <1>7, <1>9, <1>10 DEF LateInv, Books

\* A day passes.
LEMMA TickKeeps == ASSUME ChargeAssumptions, LateInv, Late!Tick PROVE LateInv'
<1>1. day < LastDay /\ day' = day + 1 /\ UNCHANGED <<ledger, inst, attempt, order, settlement, undone, reserved>>
  BY DEF Late!Tick
<1>2. Due \in Nat /\ day \in Nat /\ LastDay \in Nat /\ ChargeTables /\ day \in Due .. LastDay
  BY NoneIsLater DEF LateInv, ChargeTables, ChargeAssumptions
<1>3. Books'
  <2>1. day' \in Nat /\ day <= day'
    BY <1>1, <1>2
  <2> QED BY <1>1, <2>1, BooksStay
<1>4. ChargeTables'
  <2>1. day' \in Due .. LastDay
    BY <1>1, <1>2
  <2> QED BY <1>1, <1>2, <2>1 DEF ChargeTables
<1>5. OneCharge'
  BY <1>1 DEF LateInv, OneCharge, Late!Pending, Late!Idle
<1>6. \A d \in Due .. day : d \in Due .. day'
  BY <1>1, <1>2
<1>7. ReceiptsAreOfAttempts'
  <2>1. ASSUME NEW b \in Attempts
        PROVE  /\ attempt[b].status # "none" => attempt[b].on <= day'
               /\ order[b].on # 0 => /\ attempt[b].status # "none"
                                     /\ order[b].on \in Due .. day' /\ attempt[b].on <= order[b].on
               /\ Late!Settled(b) => attempt[b].status = "APPROVED" /\ settlement[b].on \in Due .. day'
               /\ ~Late!Settled(b) => undone[b] = 0
    <3>1. attempt[b].on \in Nat
      BY <1>2 DEF ChargeTables
    <3>2. attempt[b].on <= day => attempt[b].on <= day'
      BY <1>1, <1>2, <3>1
    <3> QED BY <1>6, <3>2 DEF LateInv, ReceiptsAreOfAttempts
  <2> QED BY <1>1, <2>1 DEF ReceiptsAreOfAttempts, Late!Settled
<1>8. ChargeIsLatest'
  BY <1>1, <1>6 DEF LateInv, ChargeIsLatest, Latest, Late!Pending, Late!Idle
<1> QED BY <1>3, <1>4, <1>5, <1>7, <1>8 DEF LateInv, Books

\* A reversal takes its receipt out of the history from the next day on.
LEMMA ReverseKeeps == ASSUME ChargeAssumptions, LateInv, Late!Reverse PROVE LateInv'
<1>1. PICK a \in Attempts :
        /\ Late!Settled(a) /\ undone[a] = 0
        /\ \A part \in DOMAIN inst.paid : inst.paid[part] >= settlement[a].applied[part]
        /\ undone' = [undone EXCEPT ![a] = day]
        /\ inst' = [paid |-> Late!Plus(inst.paid, settlement[a].applied, -1),
                    status |-> settlement[a].before, revision |-> inst.revision + 1]
        /\ ledger' = Late!Adjusted(ledger, <<"reversal", a>>, day + 1, 1,
                              Late!Materialized(ledger, ledger.cursor),
                              Late!InterestOf(settlement, undone', ledger.cursor))
  BY DEF Late!Reverse
<1>2. UNCHANGED <<day, attempt, order, reserved, settlement>>
  BY DEF Late!Reverse
<1>3. /\ day \in Nat /\ ChargeTables /\ ledger.cursor \in Nat /\ ledger.cursor <= day /\ Due >= 1 /\ Due \in Nat
      /\ Follows(ledger, settlement, undone) /\ day >= 1
  BY NoneIsLater DEF LateInv, LedgerFollows
<1>4. ledger' = ledger
  <2>1. day + 1 > ledger.cursor
    BY <1>3
  <2> QED BY <1>1, <2>1 DEF Late!Adjusted
<1> DEFINE applied == settlement[a].applied
<1>5. /\ inst.paid \in Amounts /\ inst.revision \in Nat /\ applied \in Amounts
      /\ settlement[a].before \in InstStatuses /\ settlement \in Receipts /\ undone \in Undoings
  BY <1>3 DEF ChargeTables, Receipts
<1>6. /\ inst.paid.principal \in Nat /\ inst.paid.interest \in Nat /\ inst.paid.fixed \in Nat /\ inst.paid.late \in Nat
      /\ applied.principal \in Nat /\ applied.interest \in Nat /\ applied.fixed \in Nat /\ applied.late \in Nat
      /\ inst.paid.principal >= applied.principal /\ inst.paid.interest >= applied.interest
      /\ inst.paid.fixed >= applied.fixed /\ inst.paid.late >= applied.late
      /\ DOMAIN inst.paid = Portions
  <2>1. DOMAIN inst.paid = Portions
    BY <1>5 DEF Amounts, Portions
  <2>2. \A part \in Portions : inst.paid[part] >= applied[part]
    BY <1>1, <2>1
  <2>3. /\ inst.paid.principal >= applied.principal /\ inst.paid.interest >= applied.interest
        /\ inst.paid.fixed >= applied.fixed /\ inst.paid.late >= applied.late
    BY <2>2 DEF Portions
  <2> HIDE DEF applied
  <2> QED BY <1>5, <2>1, <2>3 DEF Amounts
<1> HIDE DEF applied
<1>7. /\ inst'.paid = [principal |-> inst.paid.principal - applied.principal,
                       interest |-> inst.paid.interest - applied.interest,
                       fixed |-> inst.paid.fixed - applied.fixed, late |-> inst.paid.late - applied.late]
      /\ inst'.status = settlement[a].before /\ inst'.revision = inst.revision + 1
      /\ inst' = [paid |-> inst'.paid, status |-> inst'.status, revision |-> inst'.revision]
  <2>1. /\ inst'.paid = Late!Plus(inst.paid, applied, -1)
        /\ inst'.status = settlement[a].before /\ inst'.revision = inst.revision + 1
        /\ inst' = [paid |-> inst'.paid, status |-> inst'.status, revision |-> inst'.revision]
    BY <1>1 DEF applied
  <2>2. Late!Plus(inst.paid, applied, -1) =
            [principal |-> inst.paid.principal - applied.principal,
             interest |-> inst.paid.interest - applied.interest,
             fixed |-> inst.paid.fixed - applied.fixed, late |-> inst.paid.late - applied.late]
    BY <1>6 DEF Late!Plus, Late!Dues
  <2> QED BY <2>1, <2>2
<1>8. /\ inst'.paid \in Amounts
      /\ \A part \in Portions : inst'.paid[part] = inst.paid[part] - applied[part]
  <2>1. inst'.paid \in Amounts
    BY <1>6, <1>7 DEF Amounts
  <2>2. \A part \in Portions : inst'.paid[part] = inst.paid[part] - applied[part]
    BY <1>7 DEF Portions
  <2> QED BY <2>1, <2>2
<1>9. ChargeTables'
  <2>1. undone' \in Undoings
    BY <1>1, <1>3, <1>5 DEF Undoings
  <2>2. inst' \in [paid : Amounts, status : InstStatuses, revision : Nat]
    BY <1>5, <1>7, <1>8
  <2> QED BY <1>2, <1>3, <2>1, <2>2 DEF ChargeTables
<1>10. undone'[a] = day /\ \A b \in Attempts : b # a => undone'[b] = undone[b]
  BY <1>1, <1>5 DEF Undoings
<1>11. LedgerFollows'
  <2>1. undone' \in Undoings
    BY <1>9 DEF ChargeTables
  <2>2. \A b \in Attempts : \/ settlement[b] = settlement[b] /\ undone'[b] = undone[b]
                            \/ settlement[b] = settlement[b] /\ undone[b] = 0 /\ ledger.cursor <= undone'[b]
    BY <1>1, <1>3, <1>10
  <2>3. Follows(ledger, settlement, undone')
    BY <1>3, <1>5, <2>1, <2>2, StillFollows
  <2> QED BY <1>2, <1>3, <1>4, <2>3 DEF LedgerFollows
<1>12. Late!PaidIsReceived'
  <2> DEFINE T == Standing \ {a}
  <2>1. a \in Standing /\ Standing \subseteq Attempts
    BY <1>1 DEF Standing
  <2>2. {b \in Attempts : settlement[b].on > 0 /\ undone'[b] = 0} = T
    BY <1>3, <1>10, <2>1 DEF Standing, Late!Settled
  <2>3. ASSUME NEW part \in Portions
        PROVE  inst'.paid[part] = SumFunction([b \in T |-> settlement[b].applied[part]])
    <3> DEFINE w == PartOf(settlement, part)
    <3>1. Late!AppliedOf(Standing, part) = SumFunctionOnSet(w, Standing) /\ IsFiniteSet(Standing)
      BY <1>5, <2>1, PartsSum, LateSums DEF Late!AppliedOf
    <3>2. SumFunction([b \in T |-> settlement[b].applied[part]]) = SumFunctionOnSet(w, T)
          /\ SumFunctionOnSet(w, T) \in Nat
      <4>1. T \subseteq Attempts
        BY <2>1
      <4> HIDE DEF T
      <4> QED BY <1>5, <4>1, PartsSum
    <3>3. \A b \in Standing : w[b] \in Int
      BY <1>5, <2>1, PartNat
    <3>4. w[a] = applied[part] /\ w[a] \in Nat
      BY <1>5, PartNat DEF applied
    <3>5. SumFunctionOnSet(w, Standing) = w[a] + SumFunctionOnSet(w, T)
      <4> HIDE DEF w
      <4> QED BY <2>1, <3>1, <3>3, SumTakes
    <3>6. inst.paid[part] = Late!AppliedOf(Standing, part)
      BY <1>6 DEF LateInv, Late!PaidIsReceived, Standing
    <3>7. inst'.paid[part] = inst.paid[part] - applied[part]
      BY <1>8
    <3> HIDE DEF w, T
    <3> QED BY <3>1, <3>2, <3>4, <3>5, <3>6, <3>7
  <2>4. DOMAIN inst'.paid = Portions
    BY <1>8 DEF Amounts, Portions
  <2> HIDE DEF T
  <2>5. \A part \in DOMAIN inst'.paid :
            inst'.paid[part] = SumFunction([b \in {c \in Attempts : settlement'[c].on > 0 /\ undone'[c] = 0} |-> settlement'[b].applied[part]])
    BY <1>2, <2>2, <2>3, <2>4
  <2> QED BY <2>5, LateSums DEF Late!PaidIsReceived, Late!AppliedOf, Late!Settled
<1>13. Late!PaidWithinAssessed'
  <2>1. Late!Materialized(ledger, LastDay + 1) \in Nat /\ ledger.fixed \in Nat
    BY <1>3, <1>5, HeldInTheEnd DEF Follows, ChargeAssumptions
  <2>2. inst.paid.fixed <= ledger.fixed /\ inst.paid.late <= Late!Materialized(ledger, LastDay + 1)
    BY DEF LateInv, Late!PaidWithinAssessed
  <2>3. inst'.paid.fixed <= ledger.fixed /\ inst'.paid.late <= Late!Materialized(ledger, LastDay + 1)
    BY <1>6, <1>7, <2>1, <2>2
  <2> QED BY <1>4, <2>3, LateSums DEF Late!PaidWithinAssessed, Late!Materialized, Late!Delta
<1>14. OneCharge'
  BY <1>2 DEF LateInv, OneCharge, Late!Pending, Late!Idle
<1>15. ReceiptsAreOfAttempts'
  <2>1. ASSUME NEW b \in Attempts PROVE ~Late!Settled(b) => undone'[b] = 0
    BY <1>1, <1>10 DEF LateInv, ReceiptsAreOfAttempts
  <2> QED BY <1>2, <2>1 DEF LateInv, ReceiptsAreOfAttempts, Late!Settled
<1>16. ChargeIsLatest'
  BY <1>2, <1>4 DEF LateInv, ChargeIsLatest, Latest, Late!Pending, Late!Idle
<1> QED BY <1>9, <1>11, <1>12, <1>13, <1>14, <1>15, <1>16 DEF LateInv
\* The receipts in force count among those of a day that none of them is after.
LEMMA StandingIsReceived ==
    ASSUME ChargeAssumptions, settlement \in Receipts, undone \in Undoings,
           NEW on, \A b \in Attempts : settlement[b].on <= on, NEW part \in Portions
    PROVE  Late!AppliedOf(Standing, part) <= Late!Received(on, part)
<1>1. Standing \subseteq Late!Active(on) /\ Late!Active(on) \subseteq Attempts
  BY DEF Standing, Late!Active
<1>2. IsFiniteSet(Late!Active(on))
  BY <1>1, FS_Subset DEF ChargeAssumptions
<1> DEFINE w == PartOf(settlement, part)
<1>3. \A a \in Late!Active(on) : w[a] \in Nat
  BY <1>1, PartNat
<1>4. /\ Late!AppliedOf(Standing, part) = SumFunctionOnSet(w, Standing)
      /\ Late!AppliedOf(Late!Active(on), part) = SumFunctionOnSet(w, Late!Active(on))
  <2>1. Standing \in SUBSET Attempts /\ Late!Active(on) \in SUBSET Attempts
    BY <1>1
  <2> QED BY <2>1, ReceivedNat
<1> HIDE DEF w
<1>5. SumFunctionOnSet(w, Standing) <= SumFunctionOnSet(w, Late!Active(on))
  BY <1>1, <1>2, <1>3, SumOfSubset
<1> QED BY <1>4, <1>5 DEF Late!Received

\* What is due of a charge, added to what was paid of it, was assessed.
LEMMA DueIsAssessed ==
    ASSUME ChargeAssumptions, LateInv, NEW on \in Due .. day, Latest(on), NEW f, f = Late!CaughtUp(ledger, on)
    PROVE  /\ inst.paid.fixed + Late!Obligation(f, on).fixed <= f.fixed
           /\ inst.paid.late + Late!Obligation(f, on).late <= Late!Materialized(f, LastDay + 1)
<1>1. /\ settlement \in Receipts /\ undone \in Undoings /\ Follows(ledger, settlement, undone)
      /\ on \in Due .. LastDay /\ \A b \in Attempts : settlement[b].on <= on
      /\ inst.paid.fixed \in Nat /\ inst.paid.late \in Nat /\ Due \in Nat /\ LastDay \in Nat
  BY DEF LateInv, ChargeTables, LedgerFollows, Latest, ChargeAssumptions, Amounts
<1>2. /\ Follows(f, settlement, undone) /\ ledger.fixed <= f.fixed
      /\ f.fixed \in Nat /\ ledger.fixed \in Nat
  BY <1>1, CatchesUp DEF Follows, ChargeAssumptions
<1>3. /\ Late!Materialized(f, on) = Late!Materialized(f, LastDay + 1) /\ Late!Materialized(f, LastDay + 1) \in Nat
      /\ Late!Materialized(ledger, LastDay + 1) \in Nat
      /\ Late!Materialized(ledger, LastDay + 1) <= Late!Materialized(f, LastDay + 1)
  <2>1. f.cursor <= on
    BY CaughtUpTo
  <2>2. Late!Materialized(f, on) = Late!Materialized(f, LastDay + 1) /\ Late!Materialized(f, LastDay + 1) \in Nat
    BY <1>1, <1>2, <2>1, HeldInTheEnd
  <2>3. Late!Materialized(ledger, LastDay + 1) \in Nat
    BY <1>1, HeldInTheEnd
  <2>4. Late!Materialized(ledger, LastDay + 1) <= Late!Materialized(f, LastDay + 1)
    BY <1>1, HeldGrows
  <2> QED BY <2>2, <2>3, <2>4
<1>4. /\ inst.paid.fixed <= Late!Received(on, "fixed") /\ inst.paid.late <= Late!Received(on, "late")
      /\ Late!Received(on, "fixed") \in Nat /\ Late!Received(on, "late") \in Nat
  <2>1. /\ Late!AppliedOf(Standing, "fixed") <= Late!Received(on, "fixed")
        /\ Late!AppliedOf(Standing, "late") <= Late!Received(on, "late")
    BY <1>1, StandingIsReceived DEF Portions
  <2>2. inst.paid.fixed = Late!AppliedOf(Standing, "fixed") /\ inst.paid.late = Late!AppliedOf(Standing, "late")
    <3>1. DOMAIN inst.paid = Portions
      BY DEF LateInv, ChargeTables, Amounts, Portions
    <3> QED BY <3>1 DEF LateInv, Late!PaidIsReceived, Standing, Portions
  <2>3. Late!Received(on, "fixed") \in Nat /\ Late!Received(on, "late") \in Nat
    BY <1>1, ReceivedNat DEF Portions
  <2> QED BY <2>1, <2>2, <2>3
<1>5. /\ inst.paid.fixed <= ledger.fixed /\ inst.paid.late <= Late!Materialized(ledger, LastDay + 1)
  BY DEF LateInv, Late!PaidWithinAssessed
<1>6. /\ Late!Obligation(f, on).fixed = Late!Greatest(0, (IF on > Due THEN f.fixed ELSE 0) - Late!Received(on, "fixed"))
      /\ Late!Obligation(f, on).late = Late!Greatest(0, Late!Materialized(f, on) - Late!Received(on, "late"))
  <2>1. ~(on < Due)
    BY <1>1
  <2> QED BY <2>1 DEF Late!Obligation, Late!Dues
<1>7. inst.paid.fixed + Late!Obligation(f, on).fixed <= f.fixed
  BY <1>1, <1>2, <1>4, <1>5, <1>6 DEF Late!Greatest
<1>8. inst.paid.late + Late!Obligation(f, on).late <= Late!Materialized(f, LastDay + 1)
  BY <1>1, <1>3, <1>4, <1>5, <1>6 DEF Late!Greatest
<1> QED BY <1>7, <1>8

\* What is owed when an order was paid, what of it is paid, and what becomes of the installment.
Owing(a)    == Late!Obligation(Late!Found(a), order[a].on)
Paying(a)   == Late!Allocated(Owing(a), Late!Least(order[a].amount, Late!Total(Owing(a))))
Becoming(a) == Late!StatusAfter(Owing(a), Paying(a), order[a].on)

\* A confirmed payment of the present charge is booked on its day.
LEMMA SettleKeeps == ASSUME ChargeAssumptions, LateInv, Late!Settle PROVE LateInv'
<1>1. PICK a \in Attempts :
        /\ Late!Announced(a) /\ ~Late!IsStale(a)
        /\ attempt' = [attempt EXCEPT ![a].status = "APPROVED"]
        /\ inst' = [paid |-> Late!Plus(inst.paid, Paying(a), 1), status |-> Becoming(a), revision |-> inst.revision + 1]
        /\ settlement' = [settlement EXCEPT ![a] =
              [on |-> order[a].on, applied |-> Paying(a), before |-> inst.status, after |-> Becoming(a),
               revision |-> inst.revision + 1]]
        /\ ledger' = Late!Adjusted(Late!Found(a), <<"settlement", a>>, order[a].on + 1, -1,
                              Late!Materialized(Late!Found(a), Late!Found(a).cursor),
                              Late!InterestOf(settlement', undone, Late!Found(a).cursor))
        /\ Late!Tell(a)
        /\ UNCHANGED <<day, undone, reserved>>
  BY DEF Late!Settle, Paying, Becoming, Owing
<1> DEFINE on == order[a].on
           f == Late!Found(a)
           due == Owing(a)
           applied == Paying(a)
           after == Becoming(a)
<1>2. /\ on = order[a].on /\ f = Late!Found(a) /\ due = Late!Obligation(f, on)
      /\ applied = Late!Allocated(due, Late!Least(order[a].amount, Late!Total(due)))
      /\ after = Late!StatusAfter(due, applied, on)
      /\ Late!Announced(a) /\ ~Late!IsStale(a)
      /\ attempt' = [attempt EXCEPT ![a].status = "APPROVED"]
      /\ inst' = [paid |-> Late!Plus(inst.paid, applied, 1), status |-> after, revision |-> inst.revision + 1]
      /\ settlement' = [settlement EXCEPT ![a] =
            [on |-> on, applied |-> applied, before |-> inst.status, after |-> after,
             revision |-> inst.revision + 1]]
      /\ ledger' = Late!Adjusted(f, <<"settlement", a>>, on + 1, -1, Late!Materialized(f, f.cursor),
                            Late!InterestOf(settlement', undone, f.cursor))
      /\ Late!Tell(a)
      /\ UNCHANGED <<day, undone, reserved>>
  BY <1>1 DEF Paying, Becoming, Owing
<1> HIDE DEF on, f, due, applied, after
<1>3. /\ a \in Late!Pending /\ attempt[a].status = "PENDING" /\ attempt[a].on = on
      /\ Latest(on) /\ (\A b \in Late!Pending : b = a) /\ Late!Idle /\ on \in Due .. day
      /\ order[a].amount \in Nat /\ on \in Nat /\ on >= 1
  <2>1. Due \in Nat /\ Due >= 1
    BY DEF ChargeAssumptions
  <2>2. /\ a \in Late!Pending /\ attempt[a].status = "PENDING" /\ attempt[a].on = order[a].on
        /\ Latest(order[a].on) /\ \A b \in Late!Pending : b = a
    BY <1>2, PaidOnItsDay
  <2>3. Late!Idle /\ order[a].on \in Due .. day /\ order[a].amount \in Nat /\ order[a].on \in Nat
    BY <1>2, AnnouncedOrder
  <2> QED BY <1>2, <2>1, <2>2, <2>3
<1>4. /\ ChargeTables /\ day \in Nat /\ settlement \in Receipts /\ undone \in Undoings
      /\ Follows(ledger, settlement, undone) /\ on \in Due .. LastDay /\ Due \in Nat
      /\ inst.paid \in Amounts /\ inst.revision \in Nat /\ inst.status \in InstStatuses
  <2>1. Due \in Nat /\ LastDay \in Nat /\ day \in Due .. LastDay
    BY DEF ChargeAssumptions, LateInv, ChargeTables
  <2> QED BY <1>3, <2>1 DEF LateInv, ChargeTables, LedgerFollows
<1>5. f = Late!CaughtUp(ledger, on) /\ due = Late!Obligation(f, on)
  BY <1>2 DEF Late!Found
<1>6. f.cursor <= on /\ Follows(f, settlement, undone) /\ f.cursor \in Nat /\ f.fixed \in Nat
  BY <1>3, <1>4, <1>5, CaughtUpTo, CatchesUp DEF Follows, ChargeAssumptions
<1>7. ledger' = f
  <2>1. on + 1 > f.cursor
    BY <1>3, <1>6
  <2> QED BY <1>2, <2>1 DEF Late!Adjusted
<1>8. due \in Amounts /\ applied \in Amounts /\ \A part \in Portions : applied[part] <= due[part]
  <2>1. due \in Amounts
    BY <1>3, <1>5, DuesTyped
  <2>2. Late!Total(due) \in Nat
    BY <2>1 DEF Late!Total, Amounts
  <2>3. Late!Least(order[a].amount, Late!Total(due)) \in Nat
    BY <1>3, <2>2 DEF Late!Least
  <2> QED BY <1>2, <2>1, <2>3, AllocatedWithin
<1>9. after \in InstStatuses
  BY <1>2 DEF Late!StatusAfter, InstStatuses
<1> DEFINE row == [on |-> on, applied |-> applied, before |-> inst.status, after |-> after,
                   revision |-> inst.revision + 1]
<1>10. /\ row \in [on : Nat, applied : Amounts, before : InstStatuses, after : InstStatuses, revision : Nat]
       /\ row.on = on /\ row.applied = applied
  BY <1>3, <1>4, <1>8, <1>9
<1>11. /\ settlement' \in Receipts /\ settlement'[a] = row
       /\ \A b \in Attempts : b # a => settlement'[b] = settlement[b]
  <2>1. settlement' = [settlement EXCEPT ![a] = row]
    BY <1>2
  <2> HIDE DEF row
  <2> QED BY <1>4, <1>10, <2>1 DEF Receipts
<1> HIDE DEF row
<1>12. settlement[a].on = 0 /\ undone[a] = 0
  <2>1. ~Late!Settled(a)
    BY <1>3 DEF LateInv, ReceiptsAreOfAttempts
  <2>2. settlement[a].on \in Nat
    BY <1>4 DEF Receipts
  <2> QED BY <2>1, <2>2 DEF LateInv, ReceiptsAreOfAttempts, Late!Settled
<1>13. LedgerFollows'
  <2>1. \A b \in Attempts :
            \/ settlement'[b] = settlement[b] /\ undone[b] = undone[b]
            \/ settlement[b].on = 0 /\ undone[b] = 0 /\ f.cursor <= settlement'[b].on /\ undone[b] = 0
    BY <1>6, <1>10, <1>11, <1>12
  <2>2. Follows(f, settlement', undone)
    BY <1>4, <1>6, <1>11, <2>1, StillFollows
  <2>3. f.cursor <= day
    BY <1>3, <1>4, <1>6
  <2> QED BY <1>2, <1>7, <2>2, <2>3 DEF LedgerFollows
<1>14. /\ inst'.paid = [principal |-> inst.paid.principal + applied.principal,
                        interest |-> inst.paid.interest + applied.interest,
                        fixed |-> inst.paid.fixed + applied.fixed, late |-> inst.paid.late + applied.late]
       /\ inst' = [paid |-> inst'.paid, status |-> after, revision |-> inst.revision + 1]
  <2>1. inst' = [paid |-> Late!Plus(inst.paid, applied, 1), status |-> after, revision |-> inst.revision + 1]
    BY <1>2
  <2>2. Late!Plus(inst.paid, applied, 1) =
            [principal |-> inst.paid.principal + applied.principal,
             interest |-> inst.paid.interest + applied.interest,
             fixed |-> inst.paid.fixed + applied.fixed, late |-> inst.paid.late + applied.late]
    BY <1>4, <1>8 DEF Late!Plus, Late!Dues, Amounts
  <2> QED BY <2>1, <2>2
<1>15. /\ inst'.paid \in Amounts
       /\ \A part \in Portions : inst'.paid[part] = inst.paid[part] + applied[part]
  <2>1. inst'.paid \in Amounts
    BY <1>4, <1>8, <1>14 DEF Amounts
  <2>2. \A part \in Portions : inst'.paid[part] = inst.paid[part] + applied[part]
    BY <1>14 DEF Portions
  <2> QED BY <2>1, <2>2
<1>16. /\ \A b \in Attempts : order'[b].on = order[b].on
       /\ order' \in [Attempts -> [on : Nat, amount : Nat, told : BOOLEAN]]
  BY <1>2, <1>4, Told
<1>17. /\ attempt'[a] = Attempt("APPROVED", attempt[a].on, attempt[a].dues, attempt[a].mark)
       /\ attempt'[a].status = "APPROVED" /\ attempt'[a].on = attempt[a].on
       /\ attempt' = [attempt EXCEPT ![a] = attempt'[a]]
       /\ \A b \in Attempts : b # a => attempt'[b] = attempt[b]
  <2>1. attempt[a] = Attempt(attempt[a].status, attempt[a].on, attempt[a].dues, attempt[a].mark)
    BY <1>4, AttemptTyped
  <2>2. attempt' = [attempt EXCEPT ![a].status = "APPROVED"]
    BY <1>2
  <2>3. attempt \in [Attempts -> [status : Charges, on : Nat, dues : Amounts, mark : {"none", "STALE", "MISMATCH"}]]
    BY <1>4 DEF ChargeTables
  <2> QED BY <2>1, <2>2, <2>3 DEF Attempt
<1>18. ChargeTables'
  <2>1. attempt'[a] \in [status : Charges, on : Nat, dues : Amounts, mark : {"none", "STALE", "MISMATCH"}]
    <3>1. attempt[a].on \in Nat /\ attempt[a].dues \in Amounts /\ attempt[a].mark \in {"none", "STALE", "MISMATCH"}
      BY <1>4, AttemptTyped
    <3>2. "APPROVED" \in Charges
      BY DEF Charges
    <3> QED BY <1>17, <3>1, <3>2 DEF Attempt
  <2>2. attempt' \in [Attempts -> [status : Charges, on : Nat, dues : Amounts, mark : {"none", "STALE", "MISMATCH"}]]
    BY <1>4, <1>17, <2>1 DEF ChargeTables
  <2>3. inst' \in [paid : Amounts, status : InstStatuses, revision : Nat]
    BY <1>4, <1>9, <1>14, <1>15
  <2>4. reserved' \in [on : Nat, dues : Amounts] /\ day' \in Due .. LastDay /\ undone' \in Undoings
    BY <1>2, <1>4 DEF ChargeTables
  <2> QED BY <1>11, <1>16, <2>2, <2>3, <2>4 DEF ChargeTables
<1>19. Late!Pending' = {}
  BY <1>3, <1>17 DEF Late!Pending
<1>20. OneCharge'
  BY <1>19 DEF OneCharge
<1>21. ChargeIsLatest'
  BY <1>2, <1>3, <1>19 DEF ChargeIsLatest, Late!Idle
<1>22. ReceiptsAreOfAttempts'
  <2>1. ASSUME NEW b \in Attempts
        PROVE  /\ attempt'[b].status # "none" => attempt'[b].on <= day
               /\ order[b].on # 0 => /\ attempt'[b].status # "none"
                                     /\ order[b].on \in Due .. day /\ attempt'[b].on <= order[b].on
               /\ settlement'[b].on > 0 => attempt'[b].status = "APPROVED" /\ settlement'[b].on \in Due .. day
               /\ ~(settlement'[b].on > 0) => undone[b] = 0
    <3>1. /\ attempt[b].status # "none" => attempt[b].on <= day
          /\ order[b].on # 0 => /\ attempt[b].status # "none"
                                /\ order[b].on \in Due .. day /\ attempt[b].on <= order[b].on
          /\ Late!Settled(b) => attempt[b].status = "APPROVED" /\ settlement[b].on \in Due .. day
          /\ ~Late!Settled(b) => undone[b] = 0
      BY DEF LateInv, ReceiptsAreOfAttempts
    <3>2. CASE b = a
      BY <1>3, <1>10, <1>11, <1>12, <1>17, <3>1, <3>2
    <3>3. CASE b # a
      BY <1>11, <1>17, <3>1, <3>3 DEF Late!Settled
    <3> QED BY <3>2, <3>3
  <2> QED BY <1>2, <1>16, <2>1 DEF ReceiptsAreOfAttempts, Late!Settled
<1>23. Late!PaidIsReceived'
  <2> DEFINE T == Standing \cup {a}
  <2>1. a \notin Standing /\ Standing \subseteq Attempts /\ T \subseteq Attempts
    BY <1>12 DEF Standing, Late!Settled
  <2>2. {b \in Attempts : settlement'[b].on > 0 /\ undone[b] = 0} = T
    <3>1. settlement'[a].on > 0
      BY <1>3, <1>10, <1>11
    <3> QED BY <1>11, <1>12, <3>1 DEF Standing, Late!Settled
  <2>3. ASSUME NEW part \in Portions
        PROVE  inst'.paid[part] = SumFunction([b \in T |-> settlement'[b].applied[part]])
    <3> DEFINE v == PartOf(settlement, part)
               w == PartOf(settlement', part)
    <3>1. Late!AppliedOf(Standing, part) = SumFunctionOnSet(v, Standing) /\ IsFiniteSet(Standing)
          /\ SumFunctionOnSet(v, Standing) \in Nat
      BY <1>4, <2>1, PartsSum, LateSums DEF Late!AppliedOf
    <3>2. SumFunction([b \in T |-> settlement'[b].applied[part]]) = SumFunctionOnSet(w, T)
      <4> HIDE DEF T
      <4> QED BY <1>11, <2>1, PartsSum
    <3>3. \A b \in T : w[b] \in Int
      BY <1>11, <2>1, PartNat
    <3>4. w[a] = applied[part] /\ w[a] \in Nat
      BY <1>10, <1>11, PartNat
    <3>5. \A b \in Standing : v[b] = w[b]
      BY <1>4, <1>11, <2>1, PartNat
    <3> HIDE DEF v, w
    <3>6. SumFunctionOnSet(w, Standing) = SumFunctionOnSet(v, Standing)
      BY <3>1, <3>5, SumSame
    <3>7. SumFunctionOnSet(w, T) = w[a] + SumFunctionOnSet(w, Standing)
      BY <2>1, <3>1, <3>3, SumGrows
    <3>8. inst.paid[part] = Late!AppliedOf(Standing, part)
      <4>1. DOMAIN inst.paid = Portions
        BY <1>4 DEF Amounts, Portions
      <4> QED BY <4>1 DEF LateInv, Late!PaidIsReceived, Standing
    <3>9. inst'.paid[part] = inst.paid[part] + applied[part]
      BY <1>15
    <3> HIDE DEF T
    <3> QED BY <3>1, <3>2, <3>4, <3>6, <3>7, <3>8, <3>9
  <2>4. DOMAIN inst'.paid = Portions
    BY <1>15 DEF Amounts, Portions
  <2> HIDE DEF T
  <2>5. {c \in Attempts : settlement'[c].on > 0 /\ undone'[c] = 0} = T
    BY <1>2, <2>2
  <2>6. \A part \in DOMAIN inst'.paid :
            inst'.paid[part] = SumFunction([b \in {c \in Attempts : settlement'[c].on > 0 /\ undone'[c] = 0} |-> settlement'[b].applied[part]])
    BY <2>3, <2>4, <2>5
  <2> QED BY <2>6, LateSums DEF Late!PaidIsReceived, Late!AppliedOf, Late!Settled
<1>24. Late!PaidWithinAssessed'
  <2>1. /\ inst.paid.fixed + due.fixed <= f.fixed
        /\ inst.paid.late + due.late <= Late!Materialized(f, LastDay + 1)
    BY <1>3, <1>5, DueIsAssessed
  <2>2. applied.fixed <= due.fixed /\ applied.late <= due.late
    BY <1>8 DEF Portions
  <2>3. Late!Materialized(f, LastDay + 1) \in Nat
    BY <1>4, <1>6, HeldInTheEnd
  <2>4. /\ inst.paid.fixed \in Nat /\ inst.paid.late \in Nat /\ applied.fixed \in Nat /\ applied.late \in Nat
        /\ due.fixed \in Nat /\ due.late \in Nat
    BY <1>4, <1>8 DEF Amounts
  <2>5. inst'.paid.fixed <= f.fixed /\ inst'.paid.late <= Late!Materialized(f, LastDay + 1)
    BY <1>6, <1>14, <2>1, <2>2, <2>3, <2>4
  <2> QED BY <1>7, <2>5, LateSums DEF Late!PaidWithinAssessed, Late!Materialized, Late!Delta
<1> QED BY <1>13, <1>18, <1>20, <1>21, <1>22, <1>23, <1>24 DEF LateInv

\* Every step keeps it, and so does a step that changes nothing.
LEMMA LateKeeps == ASSUME ChargeAssumptions, LateInv, [Late!Next]_(Late!vars) PROVE LateInv'
<1>1. CASE Late!Next
  BY <1>1, ReserveKeeps, RetireKeeps, InsertKeeps, PayKeeps, StaleKeeps, MismatchKeeps, SettleKeeps, ReverseKeeps, TickKeeps
     DEF Late!Next
<1>2. CASE UNCHANGED Late!vars
  <2>1. UNCHANGED <<day, ledger, inst, attempt, order, settlement, undone, reserved>>
    BY <1>2 DEF Late!vars
  <2>2. day' \in Nat /\ day <= day'
    BY <2>1, NoneIsLater
  <2>3. Books'
    BY <2>1, <2>2, BooksStay
  <2>4. ChargeTables' /\ OneCharge' /\ ReceiptsAreOfAttempts' /\ ChargeIsLatest'
    BY <2>1 DEF LateInv, ChargeTables, OneCharge, ReceiptsAreOfAttempts, ChargeIsLatest, Late!Pending, Late!Idle, Late!Settled, Latest
  <2> QED BY <2>3, <2>4 DEF LateInv, Books
<1> QED BY <1>1, <1>2

\* The invariant says the charges are true.
LEMMA LateHolds == ASSUME ChargeAssumptions, LateInv PROVE Late!ChargesAreTrue
<1>0. /\ Due \in Nat /\ LastDay \in Nat /\ day \in Due .. LastDay /\ day \in Nat
      /\ settlement \in Receipts /\ undone \in Undoings /\ Follows(ledger, settlement, undone)
      /\ ledger.cursor \in Nat /\ ledger.cursor <= day /\ ledger.fixed \in Nat
      /\ Principal \in Nat /\ Interest \in Nat
  BY DEF ChargeAssumptions, LateInv, ChargeTables, LedgerFollows, Follows
<1>1. Late!MatchesHistory
  <2>1. ASSUME NEW d \in Due + 1 .. ledger.cursor PROVE Late!Materialized(ledger, d) = Late!Expected(d)
    <3>1. d \in 0 .. LastDay + 1 /\ UpTo(ledger, d) = d
      BY <1>0 DEF UpTo, Late!Greatest, Late!Least
    <3> QED BY <1>0, <3>1, Booked DEF Late!Expected
  <2> QED BY <2>1 DEF Late!MatchesHistory
<1>2. Late!PayoffIsOwed
  <2> DEFINE principal == Late!Greatest(0, Principal - Late!Received(day, "principal"))
             interest == Late!Greatest(0, Interest - Late!Received(day, "interest"))
             fixed == Late!Greatest(0, (IF day > Due THEN ledger.fixed ELSE 0) - Late!Received(day, "fixed"))
             late == Late!Greatest(0, Late!Materialized(ledger, day) - Late!Received(day, "late"))
  <2>1. ~(day < Due) /\ Due <= day
    BY <1>0
  <2>2. Late!Payoff(day) = principal + interest + fixed + late
    BY <2>1 DEF Late!Payoff
  <2>3. Late!Obligation(ledger, day) = [principal |-> principal, interest |-> interest, fixed |-> fixed, late |-> late]
    BY <2>1 DEF Late!Obligation, Late!Dues
  <2> HIDE DEF principal, interest, fixed, late
  <2> QED BY <2>2, <2>3 DEF Late!PayoffIsOwed, Late!Total
<1> QED BY <1>1, <1>2 DEF Late!ChargesAreTrue, LateInv

\* The charges booked are those the history of the principal asks for, no more is paid
\* than was assessed, the row says what was received, and the loan is paid off for
\* what the installment owes (loan_obligation_runtime.py, payment_settlement.py).
THEOREM LateCharging == ASSUME ChargeAssumptions PROVE Late!Spec => []Late!ChargesAreTrue
<1>1. Late!Init => LateInv
  BY LateStarts
<1>2. LateInv /\ [Late!Next]_(Late!vars) => LateInv'
  BY LateKeeps
<1>3. LateInv => Late!ChargesAreTrue
  BY LateHolds
<1> QED BY <1>1, <1>2, <1>3, PTL DEF Late!Spec

-----------------------------------------------------------------------------
(* The loans of a group.                                                    *)

Lending == INSTANCE LoanBook WITH Borrower <- BorrowerOf, Principal <- Amount, Admins <- Lenders

\* There are finitely many members and loans; a loan has a member, and its amount is
\* not negative.
LendingAssumptions ==
    /\ IsFiniteSet(Members) /\ IsFiniteSet(Loans)
    /\ \A l \in Loans : BorrowerOf(l) \in Members /\ Amount(l) \in Nat
    /\ Quota \in Nat /\ Opening \in Int

LoanStatuses == {"none", "REQUESTED", "REJECTED", "APPROVED", "ACTIVE", "PAID"}
LoanRows == [status : LoanStatuses, scheduled : BOOLEAN, disbursed : BOOLEAN, repaid : BOOLEAN]

\* The rows, and of which loan each request is.
LendingTables ==
    /\ loan \in [Loans -> LoanRows]
    /\ contributed \in [Members -> BOOLEAN]
    /\ position \in [Members -> [own : Int, committed : Int]]
    /\ cash \in Int
    /\ admin \in [Lenders -> [pc : {"idle", "approving", "releasing", "disbursing"}, loan : Loans \cup {0}]]
    /\ \A a \in Lenders : admin[a].pc # "idle" => admin[a].loan \in Loans

\* The claim itself is inductive on typed rows: every step that moves money reads the
\* flag of the loan that it sets.
LendingInv == LendingTables /\ Lending!LentOnce

Contributors == {m \in Members : contributed[m]}

\* The claim, with a name for who contributed.
LEMMA LentOnceMeans ==
    Lending!LentOnce
    <=> /\ cash = Opening + Quota * Lending!Cardinality(Contributors)
                          - Lending!TotalOf(Lending!Lent) + Lending!TotalOf(Lending!Repaid)
        /\ \A m \in Members :
              position[m].own = (IF contributed[m] THEN Quota ELSE 0)
                                + Lending!TotalOf(Lending!Repaid \cap Lending!OfMember(m))
  BY Zenon DEF Lending!LentOnce, Lending!Of, Contributors

\* The sums and the counts of the part are the library's.
LEMMA LendingSums ==
    /\ \A S : Lending!TotalOf(S) = SumFunction([l \in S |-> Amount(l)])
    /\ \A S : Lending!Cardinality(S) = Cardinality(S)
<1>1. \A w : Lending!SumFunction(w) = SumFunction(w)
  BY DEF Lending!SumFunction, Lending!SumFunctionOnSet, Lending!FoldFunctionOnSet, Lending!MapThenFoldSet,
      SumFunction, SumFunctionOnSet, FoldFunctionOnSet, MapThenFoldSet
<1>2. \A S : Lending!Cardinality(S) = Cardinality(S)
  BY DEF Lending!Cardinality, Cardinality
<1> QED BY <1>1, <1>2 DEF Lending!TotalOf

\* What some loans amount to is a number, and grows by each.
LEMMA LoansAmount ==
    ASSUME LendingAssumptions, NEW S, S \subseteq Loans
    PROVE  /\ Lending!TotalOf(S) \in Nat
           /\ \A l \in Loans \ S : Lending!TotalOf(S \cup {l}) = Lending!TotalOf(S) + Amount(l)
<1> DEFINE w == [l \in Loans |-> Amount(l)]
<1>1. \A l \in Loans : w[l] \in Nat /\ w[l] = Amount(l)
  BY DEF LendingAssumptions
<1>2. ASSUME NEW T, T \subseteq Loans
      PROVE  Lending!TotalOf(T) = SumFunctionOnSet(w, T) /\ IsFiniteSet(T) /\ SumFunctionOnSet(w, T) \in Nat
  <2> DEFINE v == [l \in T |-> Amount(l)]
  <2>1. IsFiniteSet(T)
    BY <1>2, FS_Subset DEF LendingAssumptions
  <2>2. \A l \in T : v[l] = w[l] /\ w[l] \in Nat
    BY <1>1, <1>2
  <2>3. SumFunction(v) = SumFunctionOnSet(v, T)
    BY DEF SumFunction
  <2>4. Lending!TotalOf(T) = SumFunction(v)
    BY LendingSums
  <2> HIDE DEF v, w
  <2>5. SumFunctionOnSet(v, T) = SumFunctionOnSet(w, T) /\ SumFunctionOnSet(w, T) \in Nat
    BY <2>1, <2>2, SumSame, SumNat
  <2> QED BY <2>1, <2>3, <2>4, <2>5
<1>3. ASSUME NEW l \in Loans \ S
      PROVE  Lending!TotalOf(S \cup {l}) = Lending!TotalOf(S) + Amount(l)
  <2>1. S \cup {l} \subseteq Loans /\ l \notin S
    OBVIOUS
  <2>2. \A k \in S \cup {l} : w[k] \in Int
    BY <1>1, <2>1
  <2>3. w[l] = Amount(l) /\ w[l] \in Nat
    BY <1>1
  <2> HIDE DEF w
  <2>4. SumFunctionOnSet(w, S \cup {l}) = w[l] + SumFunctionOnSet(w, S)
    BY <1>2, <2>1, <2>2, SumGrows
  <2>5. Lending!TotalOf(S \cup {l}) = SumFunctionOnSet(w, S \cup {l})
    BY <1>2, <2>1
  <2>6. Lending!TotalOf(S) = SumFunctionOnSet(w, S) /\ SumFunctionOnSet(w, S) \in Nat
    BY <1>2
  <2> QED BY <2>3, <2>4, <2>5, <2>6
<1> QED BY <1>2, <1>3

\* Initially nobody contributed, and nothing is lent.
LEMMA LendingStarts == ASSUME LendingAssumptions, Lending!Init PROVE LendingInv
<1>1. LendingTables
  BY DEF Lending!Init, Lending!NoLoan, Lending!Idle, LendingTables, LoanRows, LoanStatuses, LendingAssumptions
<1>2. /\ Lending!Lent = {} /\ Lending!Repaid = {} /\ Contributors = {}
      /\ cash = Opening /\ (\A m \in Members : ~contributed[m] /\ Lending!Of(m).own = 0)
  BY DEF Lending!Init, Lending!NoLoan, Lending!Lent, Lending!Repaid, Lending!Of, Contributors
<1>3. Lending!TotalOf({}) = 0
  <2> DEFINE none == [l \in {} |-> Amount(l)]
  <2>1. DOMAIN none = {}
    OBVIOUS
  <2>2. SumFunction(none) = 0
    <3> HIDE DEF none
    <3> QED BY <2>1, SumEmpty DEF SumFunction
  <2> QED BY <2>2, LendingSums
<1>4. Lending!Cardinality({}) = 0
  BY LendingSums, FS_EmptySet
<1>5. Opening \in Int /\ Quota \in Int /\ Quota * 0 = 0
  BY DEF LendingAssumptions
<1>6. \A m \in Members : {} \cap Lending!OfMember(m) = {}
  OBVIOUS
<1>7. cash = Opening + Quota * Lending!Cardinality(Contributors) - Lending!TotalOf(Lending!Lent) + Lending!TotalOf(Lending!Repaid)
  BY <1>2, <1>3, <1>4, <1>5
<1>8. Lending!LentOnce
  BY <1>2, <1>3, <1>6, <1>7 DEF Lending!LentOnce, Contributors
<1> QED BY <1>1, <1>8 DEF LendingInv

\* A request goes on with a loan, or ends.
LEMMA LenderMoves ==
    ASSUME LendingTables, NEW a \in Lenders, NEW pc \in {"idle", "approving", "releasing", "disbursing"},
           NEW l \in Loans \cup {0}, pc # "idle" => l \in Loans, Lending!At(a, pc, l)
    PROVE  /\ admin' \in [Lenders -> [pc : {"idle", "approving", "releasing", "disbursing"}, loan : Loans \cup {0}]]
           /\ \A b \in Lenders : admin'[b].pc # "idle" => admin'[b].loan \in Loans
<1>1. admin' = [admin EXCEPT ![a] = [pc |-> pc, loan |-> l]]
  BY DEF Lending!At
<1>2. \A b \in Lenders : admin'[b] = admin[b] \/ (b = a /\ admin'[b] = [pc |-> pc, loan |-> l])
  BY <1>1 DEF LendingTables
<1>3. admin' \in [Lenders -> [pc : {"idle", "approving", "releasing", "disbursing"}, loan : Loans \cup {0}]]
  BY <1>1 DEF LendingTables
<1> QED BY <1>2, <1>3 DEF LendingTables

\* The flags of a loan say whether it was lent and repaid.
SameFlags == \A k \in Loans : loan'[k].disbursed = loan[k].disbursed /\ loan'[k].repaid = loan[k].repaid

\* A loan changes its row, and no other does.
LEMMA RowMoves ==
    ASSUME LendingTables, NEW l \in Loans, NEW row \in LoanRows, loan' = [loan EXCEPT ![l] = row]
    PROVE  /\ loan' \in [Loans -> LoanRows]
           /\ loan'[l] = row /\ \A k \in Loans : k # l => loan'[k] = loan[k]
           /\ row.disbursed = loan[l].disbursed /\ row.repaid = loan[l].repaid => SameFlags
<1>1. loan \in [Loans -> LoanRows]
  BY DEF LendingTables
<1>2. loan' \in [Loans -> LoanRows] /\ loan'[l] = row /\ \A k \in Loans : k # l => loan'[k] = loan[k]
  BY <1>1
<1> QED BY <1>2 DEF SameFlags

\* A change of the status of a loan is one.
LEMMA StatusMoves ==
    ASSUME LendingTables, NEW l \in Loans, NEW x \in LoanStatuses, loan' = [loan EXCEPT ![l].status = x]
    PROVE  loan' \in [Loans -> LoanRows] /\ SameFlags
<1> DEFINE row == [loan[l] EXCEPT !.status = x]
<1>1. loan[l] \in LoanRows /\ loan \in [Loans -> LoanRows]
  BY DEF LendingTables
<1>2. row \in LoanRows /\ row.disbursed = loan[l].disbursed /\ row.repaid = loan[l].repaid
  BY <1>1 DEF LoanRows
<1>3. loan' = [loan EXCEPT ![l] = row]
  BY <1>1
<1> HIDE DEF row
<1> QED BY <1>2, <1>3, RowMoves

\* The money of the books and of the members stays.
LEMMA MoneyStays ==
    ASSUME LendingInv, SameFlags, UNCHANGED <<contributed, position, cash>>,
           loan' \in [Loans -> LoanRows],
           admin' \in [Lenders -> [pc : {"idle", "approving", "releasing", "disbursing"}, loan : Loans \cup {0}]],
           \A b \in Lenders : admin'[b].pc # "idle" => admin'[b].loan \in Loans
    PROVE  LendingInv'
<1>1. LendingTables'
  BY DEF LendingInv, LendingTables
<1>2. Lending!Lent' = Lending!Lent /\ Lending!Repaid' = Lending!Repaid
  BY DEF SameFlags, Lending!Lent, Lending!Repaid
<1>3. Lending!LentOnce'
  BY <1>2 DEF LendingInv, Lending!LentOnce, Lending!Of
<1> QED BY <1>1, <1>3 DEF LendingInv

\* The balance of a member is what he has of his own and what is committed.
LEMMA BalanceMoves ==
    ASSUME LendingTables, NEW m \in Members, NEW own \in Int, NEW committed \in Int, Lending!Moved(m, own, committed)
    PROVE  /\ position' \in [Members -> [own : Int, committed : Int]]
           /\ position'[m].own = own /\ \A n \in Members : n # m => position'[n].own = position[n].own
BY DEF LendingTables, Lending!Moved

\* Numbers of a member.
LEMMA BalanceTyped ==
    ASSUME LendingTables, NEW m \in Members
    PROVE  /\ Lending!Of(m).own \in Int /\ Lending!Of(m).committed \in Int /\ Lending!Of(m) = position[m]
           /\ \A x \in Int : Lending!Greatest(0, x) \in Int
BY DEF LendingTables, Lending!Of, Lending!Greatest

\* A contribution, or its reversal, moves the cash and the member's money by a quota.
LEMMA ContributionKeeps ==
    ASSUME LendingAssumptions, LendingInv, Lending!Contribute \/ Lending!ReverseContribution
    PROVE  LendingInv'
<1>0. /\ LendingTables /\ Quota \in Nat /\ Opening \in Int /\ cash \in Int /\ contributed \in [Members -> BOOLEAN]
      /\ IsFiniteSet(Contributors)
  BY FS_Subset DEF LendingInv, LendingTables, LendingAssumptions, Contributors
<1> DEFINE T == Lending!TotalOf(Lending!Lent)
           R == Lending!TotalOf(Lending!Repaid)
           O(m) == Lending!TotalOf(Lending!Repaid \cap Lending!OfMember(m))
<1>1. /\ T \in Nat /\ R \in Nat /\ \A m \in Members : O(m) \in Nat
  <2>1. /\ Lending!Lent \subseteq Loans /\ Lending!Repaid \subseteq Loans
        /\ \A m \in Members : Lending!Repaid \cap Lending!OfMember(m) \subseteq Loans
    BY DEF Lending!Lent, Lending!Repaid
  <2> QED BY <2>1, LoansAmount
<1>2. /\ cash = Opening + Quota * Lending!Cardinality(Contributors) - T + R
      /\ \A m \in Members : position[m].own = (IF contributed[m] THEN Quota ELSE 0) + O(m)
  BY DEF LendingInv, Lending!LentOnce, Lending!Of, Contributors
<1>3. ASSUME NEW m \in Members, NEW gives \in BOOLEAN, contributed[m] # gives,
             contributed' = [contributed EXCEPT ![m] = gives],
             NEW committed \in Int,
             Lending!Moved(m, IF gives THEN position[m].own + Quota ELSE position[m].own - Quota, committed),
             cash' = (IF gives THEN cash + Quota ELSE cash - Quota), UNCHANGED <<simulation, loan, admin>>
      PROVE  LendingInv'
  <2> DEFINE own == IF gives THEN position[m].own + Quota ELSE position[m].own - Quota
  <2>1. position[m].own \in Int /\ own \in Int
    BY <1>0 DEF LendingTables
  <2>2. /\ position' \in [Members -> [own : Int, committed : Int]]
        /\ position'[m].own = own /\ \A n \in Members : n # m => position'[n].own = position[n].own
    <3> HIDE DEF own
    <3>1. Lending!Moved(m, own, committed)
      BY <1>3 DEF own
    <3> QED BY <1>0, <2>1, <3>1, BalanceMoves
  <2>3. contributed' \in [Members -> BOOLEAN] /\ contributed'[m] = gives
        /\ \A n \in Members : n # m => contributed'[n] = contributed[n]
    BY <1>0, <1>3
  <2>4. Lending!Lent' = Lending!Lent /\ Lending!Repaid' = Lending!Repaid
    BY <1>3 DEF Lending!Lent, Lending!Repaid
  <2>5. LendingTables'
    BY <1>0, <1>3, <2>2, <2>3 DEF LendingTables
  <2>6. \A n \in Members : position'[n].own = (IF contributed'[n] THEN Quota ELSE 0) + O(n)
    <3> TAKE n \in Members
    <3> HIDE DEF O
    <3>1. CASE n = m
      BY <1>0, <1>1, <1>2, <1>3, <2>1, <2>2, <2>3, <3>1
    <3>2. CASE n # m
      BY <1>2, <2>2, <2>3, <3>2
    <3> QED BY <3>1, <3>2
  <2>7. Cardinality(Contributors') = IF gives THEN Cardinality(Contributors) + 1 ELSE Cardinality(Contributors) - 1
    <3>1. CASE gives
      <4>1. Contributors' = Contributors \cup {m} /\ m \notin Contributors
        BY <1>3, <2>3, <3>1 DEF Contributors
      <4> QED BY <1>0, <3>1, <4>1, FS_AddElement
    <3>2. CASE ~gives
      <4>1. Contributors' = Contributors \ {m} /\ m \in Contributors
        BY <1>0, <1>3, <2>3, <3>2 DEF Contributors
      <4>2. Cardinality(Contributors \ {m}) = IF m \in Contributors THEN Cardinality(Contributors) - 1 ELSE Cardinality(Contributors)
        BY <1>0, FS_RemoveElement
      <4> QED BY <3>2, <4>1, <4>2
    <3> QED BY <3>1, <3>2
  <2>8. cash' = Opening + Quota * Lending!Cardinality(Contributors') - T + R
    <3> DEFINE c == Cardinality(Contributors)
               d == Cardinality(Contributors')
    <3>1. c \in Nat
      BY <1>0, FS_CardinalityType
    <3>2. d = IF gives THEN c + 1 ELSE c - 1
      BY <2>7
    <3>3. Lending!Cardinality(Contributors) = c /\ Lending!Cardinality(Contributors') = d
      BY LendingSums
    <3> HIDE DEF c, d, T, R
    <3>4. Quota * d = IF gives THEN Quota * c + Quota ELSE Quota * c - Quota
      BY <1>0, <3>1, <3>2
    <3>5. Quota * c \in Int
      BY <1>0, <3>1
    <3> DEFINE p == Quota * c
               q == Quota * d
    <3>6. p \in Int /\ q = IF gives THEN p + Quota ELSE p - Quota
      BY <3>4, <3>5
    <3>7. cash = Opening + p - T + R
      BY <1>2, <3>3
    <3>8. cash' = Opening + q - T + R
      <4> HIDE DEF p, q
      <4> QED BY <1>0, <1>1, <1>3, <3>6, <3>7
    <3> QED BY <3>3, <3>8
  <2>9. Lending!LentOnce'
    BY <2>4, <2>6, <2>8 DEF Lending!LentOnce, Lending!Of, Contributors
  <2> QED BY <2>5, <2>9 DEF LendingInv
<1>4. CASE Lending!Contribute
  <2>1. PICK m \in Members :
          /\ ~contributed[m] /\ contributed' = [contributed EXCEPT ![m] = TRUE]
          /\ Lending!Moved(m, position[m].own + Quota, position[m].committed)
          /\ cash' = cash + Quota /\ UNCHANGED <<simulation, loan, admin>>
    BY <1>4 DEF Lending!Contribute, Lending!Of
  <2>2. position[m].committed \in Int
    BY <1>0 DEF LendingTables
  <2>3. contributed[m] # TRUE
    BY <2>1
  <2> QED BY <1>3, <2>1, <2>2, <2>3
<1>5. CASE Lending!ReverseContribution
  <2>1. PICK m \in Members :
          /\ contributed[m] /\ position[m].own >= Quota /\ contributed' = [contributed EXCEPT ![m] = FALSE]
          /\ Lending!Moved(m, Lending!Greatest(0, position[m].own - Quota),
                           Lending!Greatest(0, position[m].committed - Quota))
          /\ cash' = cash - Quota /\ UNCHANGED <<simulation, loan, admin>>
    BY <1>5 DEF Lending!ReverseContribution, Lending!Of
  <2>2. position[m].committed \in Int /\ position[m].own \in Int
    BY <1>0 DEF LendingTables
  <2>3. /\ Lending!Greatest(0, position[m].own - Quota) = position[m].own - Quota
        /\ Lending!Greatest(0, position[m].committed - Quota) \in Int
    BY <1>0, <2>1, <2>2 DEF Lending!Greatest
  <2>4. contributed[m] # FALSE
    BY <2>1
  <2> QED BY <1>3, <2>1, <2>3, <2>4
<1> QED BY <1>4, <1>5

\* A release lends the loan for the first time.
LEMMA DisburseKeeps ==
    ASSUME LendingAssumptions, LendingInv, NEW a \in Lenders, Lending!Disburse(a)
    PROVE  LendingInv'
<1> DEFINE l == admin[a].loan
           m == BorrowerOf(l)
           row == [loan[l] EXCEPT !.status = "ACTIVE", !.disbursed = TRUE]
<1>1. /\ admin[a].pc = "disbursing" /\ ~loan[l].disbursed
      /\ loan' = [loan EXCEPT ![l].status = "ACTIVE", ![l].disbursed = TRUE]
      /\ cash' = cash - Amount(l)
      /\ Lending!Moved(m, position[m].own, position[m].committed + Amount(l))
      /\ Lending!At(a, "idle", 0) /\ UNCHANGED <<simulation, contributed>>
  BY DEF Lending!Disburse, Lending!Fresh, Lending!Of
<1>2. LendingTables /\ l \in Loans
  BY <1>1 DEF LendingInv, LendingTables
<1>3. m \in Members /\ Amount(l) \in Nat
  BY <1>2 DEF LendingAssumptions
<1> HIDE DEF l, m
<1>4. loan \in [Loans -> LoanRows] /\ loan[l] \in LoanRows
  BY <1>2 DEF LendingTables
<1>5. row \in LoanRows /\ row.disbursed /\ row.repaid = loan[l].repaid
  BY <1>4 DEF LoanRows, LoanStatuses
<1>6. loan' = [loan EXCEPT ![l] = row]
  BY <1>1, <1>4
<1> HIDE DEF row
<1>7. /\ loan' \in [Loans -> LoanRows]
      /\ loan'[l] = row /\ \A k \in Loans : k # l => loan'[k] = loan[k]
  BY <1>2, <1>5, <1>6, RowMoves
<1>8. /\ admin' \in [Lenders -> [pc : {"idle", "approving", "releasing", "disbursing"}, loan : Loans \cup {0}]]
      /\ \A b \in Lenders : admin'[b].pc # "idle" => admin'[b].loan \in Loans
  BY <1>1, <1>2, LenderMoves
<1>9. position[m].own \in Int /\ position[m].committed + Amount(l) \in Int /\ cash \in Int
  BY <1>2, <1>3 DEF LendingTables
<1>10. /\ position' \in [Members -> [own : Int, committed : Int]]
       /\ \A n \in Members : position'[n].own = position[n].own
  BY <1>1, <1>2, <1>3, <1>9, BalanceMoves
<1>11. LendingTables'
  BY <1>1, <1>2, <1>3, <1>7, <1>8, <1>9, <1>10 DEF LendingTables
<1>12. Lending!Lent' = Lending!Lent \cup {l} /\ l \notin Lending!Lent /\ Lending!Repaid' = Lending!Repaid
  BY <1>1, <1>2, <1>5, <1>7 DEF Lending!Lent, Lending!Repaid
<1>13. /\ Lending!TotalOf(Lending!Lent') = Lending!TotalOf(Lending!Lent) + Amount(l)
       /\ Lending!TotalOf(Lending!Lent) \in Nat /\ Lending!TotalOf(Lending!Repaid) \in Nat
  <2>1. Lending!Lent \subseteq Loans /\ Lending!Repaid \subseteq Loans
    BY DEF Lending!Lent, Lending!Repaid
  <2> QED BY <1>2, <1>12, <2>1, LoansAmount
<1>14. PICK C \in Int : C = Quota * Lending!Cardinality(Contributors)
  <2>1. Lending!Cardinality(Contributors) \in Nat
    BY LendingSums, FS_Subset, FS_CardinalityType DEF LendingAssumptions, Contributors
  <2> QED BY <2>1 DEF LendingAssumptions
<1>15. cash = Opening + C - Lending!TotalOf(Lending!Lent) + Lending!TotalOf(Lending!Repaid)
  BY Zenon, LentOnceMeans, <1>14 DEF LendingInv
<1>16. cash' = Opening + C - Lending!TotalOf(Lending!Lent') + Lending!TotalOf(Lending!Repaid)
  <2>1. Opening \in Int
    BY DEF LendingAssumptions
  <2> QED BY <1>1, <1>3, <1>9, <1>13, <1>14, <1>15, <2>1
<1>17. Lending!LentOnce'
  <2>1. Contributors' = Contributors
    BY <1>1 DEF Contributors
  <2>2. cash' = Opening + Quota * Lending!Cardinality(Contributors')
                - Lending!TotalOf(Lending!Lent') + Lending!TotalOf(Lending!Repaid')
    BY Zenon, <1>12, <1>14, <1>16, <2>1
  <2>3. \A n \in Members :
            position'[n].own = (IF contributed'[n] THEN Quota ELSE 0)
                               + Lending!TotalOf(Lending!Repaid' \cap Lending!OfMember(n))
    <3>1. \A n \in Members :
            position[n].own = (IF contributed[n] THEN Quota ELSE 0)
                               + Lending!TotalOf(Lending!Repaid \cap Lending!OfMember(n))
      BY LentOnceMeans DEF LendingInv
    <3> QED BY <1>1, <1>10, <1>12, <3>1
  <2> QED BY <2>2, <2>3 DEF Lending!LentOnce, Lending!Of, Contributors
<1> QED BY <1>11, <1>17 DEF LendingInv

\* A payment of a loan, or its reversal, moves the cash and the member's money by its amount.
LEMMA RepaymentKeeps ==
    ASSUME LendingAssumptions, LendingInv, NEW l \in Loans, NEW pays \in BOOLEAN, loan[l].repaid # pays,
           NEW x \in LoanStatuses, loan' = [loan EXCEPT ![l].repaid = pays, ![l].status = x],
           NEW committed \in Int,
           Lending!Moved(BorrowerOf(l), IF pays THEN position[BorrowerOf(l)].own + Amount(l)
                                              ELSE position[BorrowerOf(l)].own - Amount(l), committed),
           cash' = (IF pays THEN cash + Amount(l) ELSE cash - Amount(l)),
           UNCHANGED <<simulation, contributed, admin>>
    PROVE  LendingInv'
<1> DEFINE m == BorrowerOf(l)
           own == IF pays THEN position[m].own + Amount(l) ELSE position[m].own - Amount(l)
           row == [loan[l] EXCEPT !.repaid = pays, !.status = x]
<1>1. LendingTables /\ m \in Members /\ Amount(l) \in Nat
  BY DEF LendingAssumptions, LendingInv
<1> HIDE DEF m
<1>2. loan \in [Loans -> LoanRows] /\ loan[l] \in LoanRows
  BY <1>1 DEF LendingTables
<1>3. row \in LoanRows /\ row.repaid = pays /\ row.disbursed = loan[l].disbursed
  BY <1>2 DEF LoanRows
<1>4. loan' = [loan EXCEPT ![l] = row]
  BY <1>2
<1> HIDE DEF row
<1>5. /\ loan' \in [Loans -> LoanRows]
      /\ loan'[l] = row /\ \A k \in Loans : k # l => loan'[k] = loan[k]
  BY <1>1, <1>3, <1>4, RowMoves
<1>6. own \in Int /\ cash \in Int /\ position[m].own \in Int
  BY <1>1 DEF LendingTables
<1>7. /\ position' \in [Members -> [own : Int, committed : Int]]
      /\ position'[m].own = own /\ \A n \in Members : n # m => position'[n].own = position[n].own
  <2>1. Lending!Moved(m, own, committed)
    BY DEF m
  <2> HIDE DEF own
  <2> QED BY <1>1, <1>6, <2>1, BalanceMoves
<1>8. LendingTables'
  BY <1>1, <1>5, <1>6, <1>7 DEF LendingTables
<1>9. Lending!Lent' = Lending!Lent
  BY <1>3, <1>5 DEF Lending!Lent
<1>10. Lending!Repaid' = IF pays THEN Lending!Repaid \cup {l} ELSE Lending!Repaid \ {l}
  BY <1>3, <1>5 DEF Lending!Repaid
<1>11. (l \in Lending!Repaid) <=> ~pays
  BY <1>2 DEF Lending!Repaid, LoanRows
<1>12. ASSUME NEW S, S \subseteq Loans, l \in S
       PROVE  /\ Lending!TotalOf(Lending!Repaid' \cap S) =
                     IF pays THEN Lending!TotalOf(Lending!Repaid \cap S) + Amount(l)
                             ELSE Lending!TotalOf(Lending!Repaid \cap S) - Amount(l)
              /\ Lending!TotalOf(Lending!Repaid \cap S) \in Nat
  <2> DEFINE R == Lending!Repaid \cap S
             Q == Lending!Repaid' \cap S
  <2>1. R \subseteq Loans /\ Q \subseteq Loans
    BY <1>12
  <2>2. Lending!TotalOf(R) \in Nat /\ Lending!TotalOf(Q) \in Nat
    <3> HIDE DEF R, Q
    <3> QED BY <2>1, LoansAmount
  <2>3. CASE pays
    <3>1. Q = R \cup {l} /\ l \in Loans \ R
      BY <1>10, <1>11, <1>12, <2>3
    <3> HIDE DEF R, Q
    <3>2. Lending!TotalOf(Q) = Lending!TotalOf(R) + Amount(l)
      BY <2>1, <3>1, LoansAmount
    <3> QED BY <2>2, <2>3, <3>2 DEF R, Q
  <2>4. CASE ~pays
    <3>1. R = Q \cup {l} /\ l \in Loans \ Q
      BY <1>10, <1>11, <1>12, <2>4
    <3> HIDE DEF R, Q
    <3>2. Lending!TotalOf(R) = Lending!TotalOf(Q) + Amount(l)
      BY <2>1, <3>1, LoansAmount
    <3>3. Lending!TotalOf(Q) = Lending!TotalOf(R) - Amount(l)
      BY <1>1, <2>2, <3>2
    <3> QED BY <2>2, <2>4, <3>3 DEF R, Q
  <2> QED BY <2>3, <2>4
<1>13. /\ Lending!TotalOf(Lending!Repaid') =
              IF pays THEN Lending!TotalOf(Lending!Repaid) + Amount(l) ELSE Lending!TotalOf(Lending!Repaid) - Amount(l)
       /\ Lending!TotalOf(Lending!Repaid) \in Nat /\ Lending!TotalOf(Lending!Lent) \in Nat
  <2>1. Lending!Repaid' \cap Loans = Lending!Repaid' /\ Lending!Repaid \cap Loans = Lending!Repaid
    BY DEF Lending!Repaid
  <2>2. Lending!Lent \subseteq Loans
    BY DEF Lending!Lent
  <2>3. Lending!TotalOf(Lending!Lent) \in Nat
    BY <2>2, LoansAmount
  <2>4. /\ Lending!TotalOf(Lending!Repaid' \cap Loans) =
              IF pays THEN Lending!TotalOf(Lending!Repaid \cap Loans) + Amount(l)
                      ELSE Lending!TotalOf(Lending!Repaid \cap Loans) - Amount(l)
        /\ Lending!TotalOf(Lending!Repaid \cap Loans) \in Nat
    BY <1>12
  <2> QED BY <2>1, <2>3, <2>4
<1>14. ASSUME NEW n \in Members
       PROVE  position'[n].own = (IF contributed[n] THEN Quota ELSE 0) + Lending!TotalOf(Lending!Repaid' \cap Lending!OfMember(n))
  <2> DEFINE O == Lending!TotalOf(Lending!Repaid \cap Lending!OfMember(n))
             P == Lending!TotalOf(Lending!Repaid' \cap Lending!OfMember(n))
  <2>1. position[n].own = (IF contributed[n] THEN Quota ELSE 0) + O
    BY DEF LendingInv, Lending!LentOnce, Lending!Of
  <2>2. Lending!OfMember(n) \subseteq Loans /\ (l \in Lending!OfMember(n) <=> n = m)
    BY DEF Lending!OfMember, m
  <2>3. Quota \in Nat
    BY DEF LendingAssumptions
  <2>4. CASE n = m
    <3>1. P = (IF pays THEN O + Amount(l) ELSE O - Amount(l)) /\ O \in Nat
      BY <1>12, <2>2, <2>4
    <3> HIDE DEF O, P
    <3>2. position'[n].own = (IF contributed[n] THEN Quota ELSE 0) + P
      BY <1>1, <1>7, <2>1, <2>3, <2>4, <3>1
    <3> QED BY <3>2 DEF P
  <2>5. CASE n # m
    <3>1. Lending!Repaid' \cap Lending!OfMember(n) = Lending!Repaid \cap Lending!OfMember(n)
      BY <1>10, <2>2, <2>5
    <3> QED BY <1>7, <2>1, <2>5, <3>1
  <2> QED BY <2>4, <2>5
<1>15. PICK C \in Int : C = Quota * Lending!Cardinality(Contributors)
  <2>1. Lending!Cardinality(Contributors) \in Nat
    BY LendingSums, FS_Subset, FS_CardinalityType DEF LendingAssumptions, Contributors
  <2> QED BY <2>1 DEF LendingAssumptions
<1>16. cash = Opening + C - Lending!TotalOf(Lending!Lent) + Lending!TotalOf(Lending!Repaid)
  BY Zenon, LentOnceMeans, <1>15 DEF LendingInv
<1>17. cash' = Opening + C - Lending!TotalOf(Lending!Lent) + Lending!TotalOf(Lending!Repaid')
  <2>1. Opening \in Int
    BY DEF LendingAssumptions
  <2> QED BY <1>1, <1>6, <1>13, <1>15, <1>16, <2>1
<1>18. Lending!LentOnce'
  <2>1. Contributors' = Contributors
    BY DEF Contributors
  <2>2. cash' = Opening + Quota * Lending!Cardinality(Contributors')
                - Lending!TotalOf(Lending!Lent') + Lending!TotalOf(Lending!Repaid')
    BY Zenon, <1>9, <1>15, <1>17, <2>1
  <2>3. \A n \in Members :
            position'[n].own = (IF contributed'[n] THEN Quota ELSE 0)
                               + Lending!TotalOf(Lending!Repaid' \cap Lending!OfMember(n))
    BY <1>14
  <2> QED BY <2>2, <2>3 DEF Lending!LentOnce, Lending!Of, Contributors
<1> QED BY <1>8, <1>18 DEF LendingInv

\* What only moves a request, or the status of a loan, moves no money.
LEMMA LenderKeeps ==
    ASSUME LendingAssumptions, LendingInv, NEW a \in Lenders,
           \/ Lending!Reject(a) \/ Lending!Approve(a) \/ Lending!Schedule(a) \/ Lending!Refuse(a)
           \/ Lending!Release(a) \/ Lending!Evaluate(a) \/ Lending!NotReleasable(a) \/ Lending!Redo(a)
    PROVE  LendingInv'
<1>0. /\ LendingTables /\ loan \in [Loans -> LoanRows]
      /\ admin \in [Lenders -> [pc : {"idle", "approving", "releasing", "disbursing"}, loan : Loans \cup {0}]]
      /\ \A b \in Lenders : admin[b].pc # "idle" => admin[b].loan \in Loans
  BY DEF LendingInv, LendingTables
<1> DEFINE Typed == /\ admin' \in [Lenders -> [pc : {"idle", "approving", "releasing", "disbursing"}, loan : Loans \cup {0}]]
                    /\ \A b \in Lenders : admin'[b].pc # "idle" => admin'[b].loan \in Loans
<1>1. ASSUME NEW pc \in {"idle", "approving", "releasing", "disbursing"}, NEW l \in Loans \cup {0},
             pc # "idle" => l \in Loans, Lending!At(a, pc, l)
      PROVE  Typed
  BY <1>0, <1>1, LenderMoves
<1>2. ASSUME UNCHANGED admin PROVE Typed
  BY <1>0, <1>2
<1>3. UNCHANGED loan => loan' \in [Loans -> LoanRows] /\ SameFlags
  BY <1>0 DEF SameFlags
<1>4. "REJECTED" \in LoanStatuses /\ "APPROVED" \in LoanStatuses /\ "ACTIVE" \in LoanStatuses
  BY DEF LoanStatuses
<1>5. CASE Lending!Reject(a)
  <2>1. PICK l \in Loans : loan' = [loan EXCEPT ![l].status = "REJECTED"]
    BY <1>5 DEF Lending!Reject, Lending!With
  <2>2. UNCHANGED <<simulation, contributed, position, cash, admin>>
    BY <1>5 DEF Lending!Reject
  <2>3. loan' \in [Loans -> LoanRows] /\ SameFlags
    BY <1>0, <1>4, <2>1, StatusMoves
  <2> QED BY <1>2, <2>2, <2>3, MoneyStays
<1>6. CASE Lending!Approve(a)
  <2>1. PICK l \in Loans : loan' = [loan EXCEPT ![l].status = "APPROVED"] /\ Lending!At(a, "approving", l)
    BY <1>6 DEF Lending!Approve, Lending!With
  <2>2. UNCHANGED <<simulation, contributed, position, cash>>
    BY <1>6 DEF Lending!Approve
  <2>3. loan' \in [Loans -> LoanRows] /\ SameFlags
    BY <1>0, <1>4, <2>1, StatusMoves
  <2>4. Typed
    BY <1>1, <2>1
  <2> QED BY <2>2, <2>3, <2>4, MoneyStays
<1>7. CASE Lending!Schedule(a)
  <2> DEFINE l == admin[a].loan
             row == [loan[l] EXCEPT !.scheduled = TRUE]
  <2>1. /\ admin[a].pc = "approving" /\ loan' = [loan EXCEPT ![l].scheduled = TRUE]
        /\ Lending!At(a, "idle", 0) /\ UNCHANGED <<simulation, contributed, position, cash>>
    BY <1>7 DEF Lending!Schedule
  <2>2. l \in Loans
    BY <1>0, <2>1
  <2> HIDE DEF l
  <2>3. row \in LoanRows /\ row.disbursed = loan[l].disbursed /\ row.repaid = loan[l].repaid
    BY <1>0, <2>2 DEF LoanRows
  <2>4. loan' = [loan EXCEPT ![l] = row]
    BY <1>0, <2>1, <2>2
  <2>5. loan' \in [Loans -> LoanRows] /\ SameFlags
    <3> HIDE DEF row
    <3> QED BY <1>0, <2>2, <2>3, <2>4, RowMoves
  <2>6. Typed
    BY <1>1, <2>1
  <2> QED BY <2>1, <2>5, <2>6, MoneyStays
<1>8. CASE Lending!Redo(a)
  <2> DEFINE l == admin[a].loan
  <2>1. /\ admin[a].pc = "disbursing" /\ loan' = [loan EXCEPT ![l].status = "ACTIVE"]
        /\ Lending!At(a, "idle", 0) /\ UNCHANGED <<simulation, contributed, position, cash>>
    BY <1>8 DEF Lending!Redo
  <2>2. l \in Loans
    BY <1>0, <2>1
  <2> HIDE DEF l
  <2>3. loan' \in [Loans -> LoanRows] /\ SameFlags
    BY <1>0, <1>4, <2>1, <2>2, StatusMoves
  <2>4. Typed
    BY <1>1, <2>1
  <2> QED BY <2>1, <2>3, <2>4, MoneyStays
<1>9. CASE Lending!Release(a)
  <2>1. PICK l \in Loans : Lending!At(a, "releasing", l)
    BY <1>9 DEF Lending!Release
  <2>2. UNCHANGED <<simulation, loan, contributed, position, cash>>
    BY <1>9 DEF Lending!Release
  <2>3. Typed
    BY <1>1, <2>1
  <2> QED BY <1>3, <2>2, <2>3, MoneyStays
<1>10. CASE Lending!Evaluate(a)
  <2>1. /\ admin[a].pc = "releasing"
        /\ Lending!At(a, "disbursing", admin[a].loan) \/ Lending!At(a, "idle", 0)
        /\ UNCHANGED <<simulation, loan, contributed, position, cash>>
    BY <1>10 DEF Lending!Evaluate
  <2>2. admin[a].loan \in Loans
    BY <1>0, <2>1
  <2>3. Typed
    BY <1>1, <2>1, <2>2
  <2> QED BY <1>3, <2>1, <2>3, MoneyStays
<1>11. CASE Lending!Refuse(a) \/ Lending!NotReleasable(a)
  <2>1. Lending!At(a, "idle", 0) /\ UNCHANGED <<simulation, loan, contributed, position, cash>>
    BY <1>11 DEF Lending!Refuse, Lending!NotReleasable
  <2>2. Typed
    BY <1>1, <2>1
  <2> QED BY <1>3, <2>1, <2>2, MoneyStays
<1> QED BY <1>5, <1>6, <1>7, <1>8, <1>9, <1>10, <1>11

\* Every step keeps the invariant, and so does a step that changes nothing.
LEMMA LendingKeeps == ASSUME LendingAssumptions, LendingInv, [Lending!Next]_(Lending!vars) PROVE LendingInv'
<1>0. /\ LendingTables /\ loan \in [Loans -> LoanRows] /\ Quota \in Nat
      /\ admin \in [Lenders -> [pc : {"idle", "approving", "releasing", "disbursing"}, loan : Loans \cup {0}]]
      /\ \A b \in Lenders : admin[b].pc # "idle" => admin[b].loan \in Loans
  BY DEF LendingInv, LendingTables, LendingAssumptions
<1>1. ASSUME UNCHANGED <<loan, contributed, position, cash, admin>> PROVE LendingInv'
  <2>1. SameFlags
    BY <1>1 DEF SameFlags
  <2> QED BY <1>0, <1>1, <2>1, MoneyStays
<1>2. CASE UNCHANGED Lending!vars
  BY <1>1, <1>2 DEF Lending!vars
<1>3. CASE Lending!Simulate \/ Lending!Confirm \/ Lending!Expire
  BY <1>1, <1>3 DEF Lending!Simulate, Lending!Confirm, Lending!Expire
<1>4. CASE Lending!Contribute \/ Lending!ReverseContribution
  BY <1>4, ContributionKeeps
<1>5. CASE Lending!Request
  <2>1. PICK l \in Loans : loan' = [loan EXCEPT ![l].status = "REQUESTED"]
    BY <1>5 DEF Lending!Request
  <2>2. UNCHANGED <<contributed, position, cash, admin>>
    BY <1>5 DEF Lending!Request
  <2>3. loan' \in [Loans -> LoanRows] /\ SameFlags
    BY <1>0, <2>1, StatusMoves DEF LoanStatuses
  <2> QED BY <1>0, <2>2, <2>3, MoneyStays
<1>6. CASE Lending!Repay
  <2>1. PICK l \in Loans :
          /\ ~loan[l].repaid /\ loan' = [loan EXCEPT ![l].repaid = TRUE, ![l].status = "PAID"]
          /\ Lending!Moved(BorrowerOf(l), position[BorrowerOf(l)].own + Amount(l),
                           Lending!Greatest(0, position[BorrowerOf(l)].committed - Amount(l)))
          /\ cash' = cash + Amount(l) /\ UNCHANGED <<simulation, contributed, admin>>
    BY <1>6 DEF Lending!Repay, Lending!Of
  <2>2. BorrowerOf(l) \in Members /\ Amount(l) \in Nat
    BY DEF LendingAssumptions
  <2>3. Lending!Greatest(0, position[BorrowerOf(l)].committed - Amount(l)) \in Int
    BY <1>0, <2>2 DEF LendingTables, Lending!Greatest
  <2>4. loan[l].repaid # TRUE /\ "PAID" \in LoanStatuses
    BY <2>1 DEF LoanStatuses
  <2> QED BY <2>1, <2>3, <2>4, RepaymentKeeps
<1>7. CASE Lending!ReverseRepayment
  <2>1. PICK l \in Loans :
          /\ loan[l].repaid
          /\ loan' = [loan EXCEPT ![l].repaid = FALSE, ![l].status = IF loan[l].disbursed THEN "ACTIVE" ELSE "APPROVED"]
          /\ Lending!Moved(BorrowerOf(l), position[BorrowerOf(l)].own - Amount(l),
                           position[BorrowerOf(l)].committed + Amount(l))
          /\ cash' = cash - Amount(l) /\ UNCHANGED <<simulation, contributed, admin>>
    BY <1>7 DEF Lending!ReverseRepayment, Lending!Of
  <2>2. BorrowerOf(l) \in Members /\ Amount(l) \in Nat
    BY DEF LendingAssumptions
  <2>3. position[BorrowerOf(l)].committed + Amount(l) \in Int
    BY <1>0, <2>2 DEF LendingTables
  <2>4. loan[l].repaid # FALSE /\ (IF loan[l].disbursed THEN "ACTIVE" ELSE "APPROVED") \in LoanStatuses
    BY <2>1 DEF LoanStatuses
  <2> QED BY <2>1, <2>3, <2>4, RepaymentKeeps
<1>8. ASSUME NEW a \in Lenders,
             \/ Lending!Reject(a) \/ Lending!Approve(a) \/ Lending!Schedule(a) \/ Lending!Refuse(a)
             \/ Lending!Release(a) \/ Lending!Evaluate(a)
             \/ Lending!Disburse(a) \/ Lending!NotReleasable(a) \/ Lending!Redo(a)
      PROVE  LendingInv'
  BY <1>8, DisburseKeeps, LenderKeeps
<1> QED BY <1>2, <1>3, <1>4, <1>5, <1>6, <1>7, <1>8 DEF Lending!Next

\* The invariant says it.
LEMMA LendingHolds == LendingInv => Lending!LentOnce
  BY DEF LendingInv

\* Releases at once lend a loan once: cash and the members' own money follow from what
\* was contributed, lent and repaid (api/loans.py, loan_engine_v17.py).
THEOREM LendingOnce == ASSUME LendingAssumptions PROVE Lending!Spec => []Lending!LentOnce
<1>1. Lending!Init => LendingInv
  BY LendingStarts
<1>2. LendingInv /\ [Lending!Next]_(Lending!vars) => LendingInv'
  BY LendingKeeps
<1>3. LendingInv => Lending!LentOnce
  BY LendingHolds
<1> QED BY <1>1, <1>2, <1>3, PTL DEF Lending!Spec

-----------------------------------------------------------------------------
(* The papers of a closed cycle, and the calculation they come from.        *)

Papers == INSTANCE ClosingPapers WITH
    Requests <- Clerks, e <- evidence, snapshot <- figures, cash <- funds, rows <- payables,
    request <- clerk

\* The sums of the calculation are the library's.
LEMMA CalculationSums ==
    /\ \A w, S : Papers!SumFunctionOnSet(w, S) = SumFunctionOnSet(w, S)
    /\ \A w : Papers!SumFunction(w) = SumFunction(w)
    /\ \A S : Papers!Cardinality(S) = Cardinality(S)
<1>1. \A S : Papers!Cardinality(S) = Cardinality(S)
  BY DEF Papers!Cardinality, Cardinality
<1>2. /\ \A w, S : Papers!SumFunctionOnSet(w, S) = SumFunctionOnSet(w, S)
      /\ \A w : Papers!SumFunction(w) = SumFunction(w)
  BY DEF Papers!SumFunction, Papers!SumFunctionOnSet, Papers!FoldFunctionOnSet,
      Papers!MapThenFoldSet, SumFunction, SumFunctionOnSet, FoldFunctionOnSet, MapThenFoldSet
<1> QED BY <1>1, <1>2

\* What is divided, and by what: an amount, and the base of each participation.
IsDivision(total, base) ==
    /\ total \in Nat
    /\ IsFiniteSet(DOMAIN base) /\ DOMAIN base \subseteq Int
    /\ base = [m \in DOMAIN base |-> base[m]] /\ \A m \in DOMAIN base : base[m] \in Nat

\* What a division consists of: the floors and the remainders, and what is left.
LEMMA DivisionParts ==
    ASSUME NEW total, NEW base, IsDivision(total, base), Papers!Total(base) # 0
    PROVE  LET T == Papers!Total(base)
               F(m) == Papers!Floor(total, base, m)
               R(m) == Papers!Remainder(total, base, m)
               D == DOMAIN base
           IN  /\ T \in Nat /\ T > 0
               /\ \A m \in D : /\ F(m) \in Nat /\ R(m) \in Nat /\ R(m) < T
                               /\ total * base[m] = T * F(m) + R(m)
               /\ Papers!Residual(total, base) \in Int
               /\ T * Papers!Residual(total, base) = SumFunctionOnSet([m \in D |-> R(m)], D)
<1> DEFINE T == Papers!Total(base)
           D == DOMAIN base
           F(m) == Papers!Floor(total, base, m)
           R(m) == Papers!Remainder(total, base, m)
           f == [m \in D |-> F(m)]
           r == [m \in D |-> R(m)]
           a == [m \in D |-> total * base[m]]
           zero == [m \in D |-> 0]
<1>1. T = SumFunctionOnSet(base, D)
  BY CalculationSums, SumAll DEF Papers!Total, IsDivision
<1>2. T \in Nat /\ T > 0
  BY <1>1, SumNat DEF IsDivision
<1>3. ASSUME NEW m \in D
      PROVE  F(m) \in Nat /\ R(m) \in Nat /\ R(m) < T /\ total * base[m] = T * F(m) + R(m)
  <2>1. F(m) = (total * base[m]) \div T /\ R(m) = (total * base[m]) % T
    BY DEF Papers!Floor, Papers!Remainder
  <2>2. total * base[m] \in Nat
    BY DEF IsDivision
  <2> DEFINE p == total * base[m]
  <2> HIDE DEF T, p
  <2>3. ASSUME NEW x \in Nat PROVE x \div T \in Nat /\ x % T \in Nat /\ x % T < T /\ x = T * (x \div T) + (x % T)
    BY <1>2
  <2>4. p \in Nat
    BY <2>2 DEF p
  <2>5. F(m) = p \div T /\ R(m) = p % T
    BY <2>1 DEF p, T
  <2>6. p \div T \in Nat /\ p % T \in Nat /\ p % T < T /\ p = T * (p \div T) + (p % T)
    BY <2>3, <2>4
  <2> QED BY <2>5, <2>6 DEF p, T
<1>4. SumFunctionOnSet(a, D) = total * T
  <2>1. \A m \in D : base[m] \in Int /\ zero[m] \in Int /\ a[m] = total * base[m] + zero[m]
    <3>1. ASSUME NEW m \in D PROVE base[m] \in Int /\ zero[m] = 0 /\ a[m] = total * base[m] /\ total * base[m] \in Int
      BY DEF IsDivision
    <3>2. \A x \in Int : x = x + 0
      OBVIOUS
    <3> QED BY <3>1, <3>2
  <2>2. SumFunctionOnSet(zero, D) = 0
    <3>1. IsFiniteSet({}) /\ \A x \in D \ {} : zero[x] = 0
      BY FS_EmptySet
    <3>2. \A x \in D : zero[x] \in Int
      OBVIOUS
    <3>3. {} \subseteq D /\ IsFiniteSet(D)
      BY DEF IsDivision
    <3> HIDE DEF zero, D
    <3>4. SumFunctionOnSet(zero, {}) = SumFunctionOnSet(zero, D)
      BY <3>1, <3>2, <3>3, SumOfPart
    <3> QED BY <3>4, SumEmpty
  <2>3. total \in Int /\ IsFiniteSet(D)
    BY DEF IsDivision
  <2> HIDE DEF a, zero, D, T
  <2>4. SumFunctionOnSet(a, D) = total * SumFunctionOnSet(base, D) + SumFunctionOnSet(zero, D)
    BY <2>1, <2>3, SumLinear
  <2>5. total * T \in Int
    BY <1>2, <2>3
  <2> QED BY <1>1, <2>2, <2>4, <2>5
<1>5. SumFunctionOnSet(a, D) = T * SumFunctionOnSet(f, D) + SumFunctionOnSet(r, D)
  <2>1. \A m \in D : f[m] \in Int /\ r[m] \in Int /\ a[m] = T * f[m] + r[m]
    BY <1>3
  <2>2. IsFiniteSet(D)
    BY DEF IsDivision
  <2> HIDE DEF a, f, r, D, T
  <2> QED BY <1>2, <2>1, <2>2, SumLinear
<1>6. SumFunctionOnSet(f, D) \in Int /\ SumFunctionOnSet(r, D) \in Int
  <2>1. \A m \in D : f[m] \in Int /\ r[m] \in Int
    BY <1>3
  <2>2. IsFiniteSet(D)
    BY DEF IsDivision
  <2> HIDE DEF f, r, D
  <2> QED BY <2>1, <2>2, SumInt
<1>7. Papers!Residual(total, base) = total - SumFunctionOnSet(f, D)
  <2>1. SumFunction(f) = SumFunctionOnSet(f, D)
    BY SumAll
  <2> QED BY <2>1, CalculationSums DEF Papers!Residual
<1>8. total \in Nat
  BY DEF IsDivision
<1> HIDE DEF f, r, D, T, a
<1>9. \A x \in Int : T * (total - x) = total * T - T * x
  BY <1>2, <1>8
<1>10. T * Papers!Residual(total, base) = SumFunctionOnSet(r, D)
  <2> DEFINE x == SumFunctionOnSet(f, D)
  <2>1. T * (total - x) = total * T - T * x
    BY <1>6, <1>9
  <2>2. T * x \in Int /\ total * T \in Int
    BY <1>2, <1>6, <1>8
  <2> QED BY <1>4, <1>5, <1>6, <1>7, <2>1, <2>2
<1>11. Papers!Residual(total, base) \in Int
  BY <1>6, <1>7, <1>8
<1> QED BY <1>2, <1>3, <1>10, <1>11 DEF D, T, r

\* The cents that are left are fewer than the shares with a remainder.
LEMMA FewAreLeft ==
    ASSUME NEW total, NEW base, IsDivision(total, base), Papers!Total(base) # 0
    PROVE  /\ Papers!Residual(total, base) \in Nat
           /\ Papers!Residual(total, base)
              <= Cardinality({n \in DOMAIN base : Papers!Remainder(total, base, n) > 0})
           /\ IsFiniteSet({n \in DOMAIN base : Papers!Remainder(total, base, n) > 0})
<1> DEFINE T == Papers!Total(base)
           D == DOMAIN base
           R(m) == Papers!Remainder(total, base, m)
           r == [m \in D |-> R(m)]
           P == {n \in D : R(n) > 0}
           flag == [m \in D |-> IF m \in P THEN 1 ELSE 0]
           most == [m \in D |-> IF m \in P THEN T - 1 ELSE 0]
           zero == [m \in D |-> 0]
           left == Papers!Residual(total, base)
<1>1. /\ T \in Nat /\ T > 0 /\ left \in Int /\ T * left = SumFunctionOnSet(r, D)
      /\ \A m \in D : R(m) \in Nat /\ R(m) < T
  BY DivisionParts
<1>2. IsFiniteSet(D) /\ P \subseteq D /\ IsFiniteSet(P) /\ Cardinality(P) \in Nat
  <2>1. IsFiniteSet(D) /\ P \subseteq D
    BY DEF IsDivision
  <2> QED BY <2>1, FS_Subset, FS_CardinalityType
<1>3. \A m \in D : r[m] \in Nat /\ most[m] \in Int /\ r[m] <= most[m]
  BY <1>1
<1>4. \A m \in D : flag[m] = (IF m \in P THEN 1 ELSE 0)
  OBVIOUS
<1>5. \A m \in D : flag[m] \in Int /\ zero[m] \in Int /\ most[m] = (T - 1) * flag[m] + zero[m]
  <2>1. (T - 1) * 1 + 0 = T - 1 /\ (T - 1) * 0 + 0 = 0
    BY <1>1
  <2> QED BY <2>1
<1>6. SumFunctionOnSet(zero, D) = 0
  <2>1. {} \subseteq D /\ (\A x \in D : zero[x] \in Int) /\ \A x \in D \ {} : zero[x] = 0
    OBVIOUS
  <2> HIDE DEF zero, D
  <2>2. SumFunctionOnSet(zero, {}) = SumFunctionOnSet(zero, D)
    BY <1>2, <2>1, SumOfPart
  <2> QED BY <2>2, SumEmpty
<1>7. T - 1 \in Int
  BY <1>1
<1> HIDE DEF r, flag, most, zero, D, P, T, left
<1>8. SumFunctionOnSet(flag, D) = Cardinality(P)
  BY <1>2, <1>4, SumOfFlags
<1>9. SumFunctionOnSet(most, D) = (T - 1) * SumFunctionOnSet(flag, D) + SumFunctionOnSet(zero, D)
  BY <1>2, <1>5, <1>7, SumLinear
<1>10. SumFunctionOnSet(r, D) <= SumFunctionOnSet(most, D)
  BY <1>2, <1>3, SumAtMost
<1>11. SumFunctionOnSet(r, D) \in Nat
  BY <1>2, <1>3, SumNat
<1>12. (T - 1) * Cardinality(P) = T * Cardinality(P) - Cardinality(P) /\ T * Cardinality(P) \in Int
  BY <1>1, <1>2
<1>13. T * left <= T * Cardinality(P) - Cardinality(P)
  BY <1>1, <1>2, <1>6, <1>8, <1>9, <1>10, <1>11, <1>12
<1>14. left >= 0
  <2>1. SUFFICES ASSUME left <= -1 PROVE FALSE
    BY <1>1
  <2>2. T * left <= T * (-1)
    BY <1>1, <2>1
  <2>3. T * (-1) = -T
    BY <1>1
  <2> QED BY <1>1, <1>11, <2>2, <2>3
<1>15. left <= Cardinality(P)
  <2>1. SUFFICES ASSUME left >= Cardinality(P) + 1 PROVE FALSE
    BY <1>1, <1>2
  <2>2. T * left >= T * (Cardinality(P) + 1)
    BY <1>1, <1>2, <2>1
  <2>3. T * (Cardinality(P) + 1) = T * Cardinality(P) + T
    BY <1>1, <1>2
  <2>4. T * left \in Int
    BY <1>1
  <2> QED BY <1>1, <1>2, <1>12, <1>13, <2>2, <2>3, <2>4
<1> QED BY <1>1, <1>2, <1>14, <1>15 DEF D, P, left

\* Larger remainders first, and the order of participation.
Precedes(total, base) ==
    {p \in (DOMAIN base) \X (DOMAIN base) :
        \/ Papers!Remainder(total, base, p[1]) > Papers!Remainder(total, base, p[2])
        \/ /\ Papers!Remainder(total, base, p[1]) = Papers!Remainder(total, base, p[2])
           /\ p[1] < p[2]}

\* It is an order, and the one the calculation uses.
LEMMA PrecedesOrders ==
    ASSUME NEW total, NEW base, IsDivision(total, base), Papers!Total(base) # 0
    PROVE  /\ Orders(Precedes(total, base), DOMAIN base)
           /\ \A m \in DOMAIN base :
                 Ahead(Precedes(total, base), DOMAIN base, m) = Papers!Before(total, base, m)
<1> DEFINE D == DOMAIN base
           R(m) == Papers!Remainder(total, base, m)
           Pre == Precedes(total, base)
<1>1. \A m \in D : R(m) \in Nat /\ m \in Int
  BY DivisionParts DEF IsDivision
<1>2. \A x, y \in D : <<x, y>> \in Pre <=> R(x) > R(y) \/ (R(x) = R(y) /\ x < y)
  BY DEF Precedes
<1>3. \A m \in D : Ahead(Pre, D, m) = Papers!Before(total, base, m)
  <2> SUFFICES ASSUME NEW m \in D PROVE Ahead(Pre, D, m) = Papers!Before(total, base, m)
    OBVIOUS
  <2> QED BY <1>2 DEF Ahead, Papers!Before
<1> HIDE DEF D, R, Pre
<1>4. Orders(Pre, D)
  BY <1>1, <1>2 DEF Orders
<1> QED BY <1>3, <1>4 DEF D, Pre

\* Who gets a cent more: those with fewer before them than there are cents left.
Extra(total, base, m) ==
    IF Cardinality(Papers!Before(total, base, m)) < Papers!Residual(total, base) THEN 1 ELSE 0

\* A share is its floor, and a cent for some.
LEMMA ShareIs ==
    ASSUME NEW total, NEW base, Papers!Total(base) # 0, NEW m \in DOMAIN base
    PROVE  Papers!Share(total, base, m) = Papers!Floor(total, base, m) + Extra(total, base, m)
  BY CalculationSums DEF Papers!Share, Extra

\* No cent goes to a share without a remainder.
LEMMA ExtraHasRemainder ==
    ASSUME NEW total, NEW base, IsDivision(total, base), Papers!Total(base) # 0,
           NEW m \in DOMAIN base, Extra(total, base, m) # 0
    PROVE  Papers!Remainder(total, base, m) > 0
<1> DEFINE D == DOMAIN base
           R(n) == Papers!Remainder(total, base, n)
           P == {n \in D : R(n) > 0}
           B == Papers!Before(total, base, m)
<1>1. \A n \in D : R(n) \in Nat
  BY DivisionParts
<1>2. SUFFICES ASSUME R(m) = 0 PROVE FALSE
  BY <1>1
<1>3. P \subseteq B /\ B \subseteq D
  BY <1>1, <1>2 DEF Papers!Before
<1>4. IsFiniteSet(B)
  <2>1. IsFiniteSet(D)
    BY DEF IsDivision
  <2> QED BY <1>3, <2>1, FS_Subset
<1>5. Cardinality(P) <= Cardinality(B) /\ Cardinality(P) \in Nat /\ Cardinality(B) \in Nat
  <2> HIDE DEF P, B
  <2> QED BY <1>3, <1>4, FS_Subset, FS_CardinalityType
<1>6. Papers!Residual(total, base) \in Nat /\ Papers!Residual(total, base) <= Cardinality(P)
  BY FewAreLeft
<1>7. Cardinality(B) < Papers!Residual(total, base)
  BY DEF Extra
<1> QED BY <1>5, <1>6, <1>7

\* As many get a cent more as there are cents left.
LEMMA ExtraCounts ==
    ASSUME NEW total, NEW base, IsDivision(total, base), Papers!Total(base) # 0
    PROVE  SumFunctionOnSet([m \in DOMAIN base |-> Extra(total, base, m)], DOMAIN base)
           = Papers!Residual(total, base)
<1> DEFINE D == DOMAIN base
           Pre == Precedes(total, base)
           left == Papers!Residual(total, base)
           Few == {m \in D : Cardinality(Ahead(Pre, D, m)) < left}
           w == [m \in D |-> Extra(total, base, m)]
<1>1. Orders(Pre, D) /\ \A m \in D : Ahead(Pre, D, m) = Papers!Before(total, base, m)
  BY PrecedesOrders
<1>2. IsFiniteSet(D)
  BY DEF IsDivision
<1>3. left \in Nat /\ left <= Cardinality(D)
  <2> DEFINE P == {n \in D : Papers!Remainder(total, base, n) > 0}
  <2>1. left \in Nat /\ left <= Cardinality(P) /\ P \subseteq D
    BY FewAreLeft
  <2>2. Cardinality(P) <= Cardinality(D) /\ Cardinality(P) \in Nat /\ Cardinality(D) \in Nat
    <3> HIDE DEF P
    <3> QED BY <1>2, <2>1, FS_Subset, FS_CardinalityType
  <2> QED BY <2>1, <2>2
<1>4. Cardinality(Few) = left
  <2> HIDE DEF Pre, D, left
  <2> QED BY <1>1, <1>2, <1>3, FirstOnes
<1>5. Few \subseteq D /\ \A m \in D : w[m] = (IF m \in Few THEN 1 ELSE 0)
  BY <1>1 DEF Extra
<1>6. SumFunctionOnSet(w, D) = Cardinality(Few)
  <2> HIDE DEF w, Few, D
  <2> QED BY <1>2, <1>5, SumOfFlags
<1> QED BY <1>4, <1>6

\* The shares make up what is divided.
LEMMA SharesAreWhole ==
    ASSUME NEW total, NEW base, IsDivision(total, base), Papers!Total(base) # 0
    PROVE  SumFunctionOnSet([m \in DOMAIN base |-> Papers!Share(total, base, m)], DOMAIN base) = total
<1> DEFINE D == DOMAIN base
           s == [m \in D |-> Papers!Share(total, base, m)]
           f == [m \in D |-> Papers!Floor(total, base, m)]
           x == [m \in D |-> Extra(total, base, m)]
           one == 1
<1>1. ASSUME NEW m \in D PROVE f[m] \in Int /\ x[m] \in Int /\ s[m] = one * f[m] + x[m]
  <2>1. Papers!Floor(total, base, m) \in Nat
    BY DivisionParts
  <2>2. Extra(total, base, m) \in Nat
    BY DEF Extra
  <2>3. Papers!Share(total, base, m) = Papers!Floor(total, base, m) + Extra(total, base, m)
    BY ShareIs
  <2> QED BY <2>1, <2>2, <2>3
<1>2. IsFiniteSet(D) /\ total \in Nat
  BY DEF IsDivision
<1>3. Papers!Residual(total, base) = total - SumFunctionOnSet(f, D)
  <2>1. SumFunction(f) = SumFunctionOnSet(f, D)
    BY SumAll
  <2> QED BY <2>1, CalculationSums DEF Papers!Residual
<1>4. SumFunctionOnSet(x, D) = Papers!Residual(total, base)
  BY ExtraCounts
<1>5. one \in Int
  OBVIOUS
<1> HIDE DEF s, f, x, D, one
<1>6. SumFunctionOnSet(s, D) = one * SumFunctionOnSet(f, D) + SumFunctionOnSet(x, D)
  BY <1>1, <1>2, <1>5, SumLinear
<1>7. SumFunctionOnSet(f, D) \in Int
  BY <1>1, <1>2, SumInt
<1>8. SumFunctionOnSet(s, D) = total
  BY <1>2, <1>3, <1>4, <1>6, <1>7 DEF one
<1> QED BY <1>8 DEF s, D

\* A share is within a cent of the exact proportion.
LEMMA ShareIsClose ==
    ASSUME NEW total, NEW base, IsDivision(total, base), Papers!Total(base) # 0, NEW m \in DOMAIN base
    PROVE  /\ Papers!Share(total, base, m) \in Nat
           /\ Papers!Total(base) * Papers!Share(total, base, m) - total * base[m]
              \in 1 - Papers!Total(base) .. Papers!Total(base) - 1
           /\ base[m] = 0 => Papers!Share(total, base, m) = 0
<1> DEFINE T == Papers!Total(base)
           F == Papers!Floor(total, base, m)
           R == Papers!Remainder(total, base, m)
           X == Extra(total, base, m)
           S == Papers!Share(total, base, m)
<1>1. T \in Nat /\ T > 0 /\ F \in Nat /\ R \in Nat /\ R < T /\ total * base[m] = T * F + R
  BY DivisionParts
<1>2. X \in {0, 1} /\ (X # 0 => R > 0)
  BY ExtraHasRemainder DEF Extra
<1>3. S = F + X
  BY ShareIs
<1>4. base[m] \in Nat /\ total \in Nat
  BY DEF IsDivision
<1> HIDE DEF T, F, R, X, S
<1>5. T * S = T * F + T * X /\ T * F \in Nat
  BY <1>1, <1>2, <1>3
<1>6. X = 0 => T * X = 0
  BY <1>1
<1>7. X = 1 => T * X = T
  BY <1>1
<1>8. T * S - total * base[m] \in 1 - T .. T - 1
  BY <1>1, <1>2, <1>5, <1>6, <1>7
<1>9. base[m] = 0 => S = 0
  <2> SUFFICES ASSUME base[m] = 0 PROVE S = 0
    OBVIOUS
  <2>1. total * base[m] = 0
    BY <1>4
  <2>2. T * F = 0 /\ R = 0
    BY <1>1, <1>5, <2>1
  <2>3. F = 0
    BY <1>1, <2>2
  <2> QED BY <1>2, <1>3, <2>2, <2>3
<1>10. S \in Nat
  BY <1>1, <1>2, <1>3
<1> QED BY <1>8, <1>9, <1>10 DEF T, S

\* Who has more gets no less.
LEMMA ShareGrows ==
    ASSUME NEW total, NEW base, IsDivision(total, base), Papers!Total(base) # 0,
           NEW m \in DOMAIN base, NEW n \in DOMAIN base, base[m] > base[n]
    PROVE  Papers!Share(total, base, m) >= Papers!Share(total, base, n)
<1> DEFINE T == Papers!Total(base)
           D == DOMAIN base
           F(k) == Papers!Floor(total, base, k)
           R(k) == Papers!Remainder(total, base, k)
           X(k) == Extra(total, base, k)
           S(k) == Papers!Share(total, base, k)
           B(k) == Papers!Before(total, base, k)
<1>1. /\ T \in Nat /\ T > 0
      /\ \A k \in D : F(k) \in Nat /\ R(k) \in Nat /\ R(k) < T /\ total * base[k] = T * F(k) + R(k)
  BY DivisionParts
<1>2. \A k \in D : X(k) \in {0, 1} /\ (X(k) # 0 => R(k) > 0) /\ S(k) = F(k) + X(k)
  BY ExtraHasRemainder, ShareIs DEF Extra
<1>3. base[m] \in Nat /\ base[n] \in Nat /\ total \in Nat /\ \A k \in D : k \in Int
  BY DEF IsDivision
<1>4. total * base[m] >= total * base[n] /\ (total # 0 => total * base[m] > total * base[n])
  BY <1>3
<1>5. T * F(m) \in Nat /\ T * F(n) \in Nat
  BY <1>1
<1>6. CASE F(m) > F(n)
  <2>1. F(m) \in Nat /\ F(n) \in Nat /\ X(m) \in {0, 1} /\ X(n) \in {0, 1}
    BY <1>1, <1>2
  <2>2. S(m) = F(m) + X(m) /\ S(n) = F(n) + X(n)
    BY <1>2
  <2> HIDE DEF F, X, S
  <2>3. S(m) >= S(n)
    BY <1>6, <2>1, <2>2
  <2> QED BY <2>3 DEF S
<1>7. CASE F(m) < F(n)
  <2> DEFINE a == F(m)
             b == F(n)
             c == R(m)
             d == R(n)
  <2>1. a \in Nat /\ b \in Nat /\ a <= b - 1 /\ c \in Nat /\ d \in Nat /\ c < T
    BY <1>1, <1>7
  <2>2. T * a + c >= T * b + d
    BY <1>1, <1>4
  <2> HIDE DEF a, b, c, d, T
  <2>3. T * a <= T * (b - 1) /\ T * (b - 1) = T * b - T /\ T * a \in Int /\ T * b \in Int
    BY <1>1, <2>1
  <2>4. FALSE
    BY <1>1, <2>1, <2>2, <2>3
  <2> QED BY <2>4
<1>8. CASE F(m) = F(n)
  <2>1. R(m) >= R(n) /\ (total # 0 => R(m) > R(n))
    <3> DEFINE p == T * F(m)
               c == R(m)
               d == R(n)
               x == total * base[m]
               y == total * base[n]
    <3>1. x = p + c /\ y = p + d /\ p \in Nat /\ c \in Nat /\ d \in Nat /\ x >= y /\ (total # 0 => x > y)
      BY <1>1, <1>4, <1>5, <1>8
    <3> HIDE DEF p, c, d, x, y
    <3>2. c >= d /\ (total # 0 => c > d)
      BY <3>1
    <3> QED BY <3>2 DEF c, d
  <2>2. X(n) # 0 => X(m) # 0
    <3>1. CASE total = 0
      <4>1. total * base[n] = 0
        BY <1>3, <3>1
      <4>2. R(n) = 0
        BY <1>1, <1>5, <4>1
      <4> QED BY <1>2, <4>2
    <3>2. CASE total # 0
      <4>1. R(m) > R(n)
        BY <2>1, <3>2
      <4>2. B(m) \subseteq B(n) /\ B(n) \subseteq D
        BY <1>1, <1>3, <4>1 DEF Papers!Before
      <4>3. IsFiniteSet(B(n))
        <5>1. IsFiniteSet(D)
          BY DEF IsDivision
        <5> QED BY <4>2, <5>1, FS_Subset
      <4>4. Cardinality(B(m)) <= Cardinality(B(n)) /\ Cardinality(B(m)) \in Nat /\ Cardinality(B(n)) \in Nat
        BY <4>2, <4>3, FS_Subset, FS_CardinalityType
      <4>5. Papers!Residual(total, base) \in Nat
        BY FewAreLeft
      <4> QED BY <4>4, <4>5 DEF Extra
    <3> QED BY <3>1, <3>2
  <2>3. F(m) \in Nat /\ X(m) \in {0, 1} /\ X(n) \in {0, 1} /\ S(m) = F(m) + X(m) /\ S(n) = F(n) + X(n)
    BY <1>1, <1>2
  <2>4. S(m) >= S(n)
    <3> HIDE DEF F, X, S
    <3> QED BY <1>8, <2>2, <2>3
  <2> QED BY <2>4
<1>9. F(m) \in Nat /\ F(n) \in Nat
  BY <1>1
<1> QED BY <1>6, <1>7, <1>8, <1>9

\* What a closing distributes is divided among the bases (_allocation_cents of
\* cycle_closing.py) to the cent, within a cent of the exact proportion, without a
\* share for who has no base and none that is less than that of a smaller base: for
\* any amount and any bases.
THEOREM SharesAreFair ==
    ASSUME NEW total, NEW base, IsDivision(total, base) PROVE Papers!ShareIsFair(total, base)
<1> DEFINE D == DOMAIN base
           T == Papers!Total(base)
           s == [m \in D |-> Papers!Share(total, base, m)]
<1>1. SumFunction(s) = SumFunctionOnSet(s, D)
  BY SumAll
<1>2. T # 0 => SumFunction(s) = total
  BY <1>1, SharesAreWhole
<1>3. T = 0 => \A m \in D : Papers!Share(total, base, m) = 0
  BY DEF Papers!Share
<1>4. ASSUME NEW m \in D
      PROVE  /\ base[m] = 0 => Papers!Share(total, base, m) = 0
             /\ T * Papers!Share(total, base, m) - total * base[m] \in 1 - T .. T - 1 \/ T = 0
             /\ \A n \in D : base[m] > base[n]
                             => Papers!Share(total, base, m) >= Papers!Share(total, base, n)
  <2>1. CASE T = 0
    <3>1. \A n \in D : Papers!Share(total, base, n) = 0
      BY <1>3, <2>1
    <3> QED BY <2>1, <3>1
  <2>2. CASE T # 0
    BY <2>2, ShareIsClose, ShareGrows
  <2> QED BY <2>1, <2>2
<1>5. T > 0 => T # 0
  OBVIOUS
<1> QED BY <1>2, <1>4, <1>5, CalculationSums DEF Papers!ShareIsFair

-----------------------------------------------------------------------------
(* The evidence of a cycle, and the lines that are calculated of it.        *)

\* Evidence of a cycle: finitely many participations, numbered in their order, and
\* contributions, receipts, gains and obligations of amounts that are not negative but
\* for the gains that take one back.
IsEvidence(e) ==
    /\ IsFiniteSet(DOMAIN e.members) /\ DOMAIN e.members \subseteq Int
    /\ IsFiniteSet(e.contributions)
    /\ \A c \in e.contributions :
          /\ c.member \in DOMAIN e.members /\ c.amount \in Nat
          /\ IsFiniteSet(c.receipts) /\ \A s \in c.receipts : s.amount \in Nat
    /\ IsFiniteSet(e.gains) /\ \A g \in e.gains : g.amount \in Int
    /\ IsFiniteSet(e.obligations) /\ \A o \in e.obligations : o.amount \in Nat

\* The sum of a finite set of numbers, as the calculation writes it.
LEMMA SumOfNats ==
    ASSUME NEW S, IsFiniteSet(S), NEW w, w = [x \in S |-> w[x]], \A x \in S : w[x] \in Nat
    PROVE  Papers!SumFunction(w) \in Nat
<1>1. SumFunction(w) = SumFunctionOnSet(w, S)
  BY SumAll
<1> QED BY <1>1, SumNat, CalculationSums

\* What a contribution received, counts and gives back is not negative.
LEMMA ContributionNat ==
    ASSUME NEW e, IsEvidence(e), NEW p, NEW c \in e.contributions
    PROVE  Papers!Net(p, c) \in Nat /\ Papers!RateioBase(p, c) \in Nat /\ Papers!Refundable(p, c) \in Nat
<1> DEFINE I == Papers!Included(p, c)
           w == [s \in I |-> IF s.reversed <= Cutoff THEN 0 ELSE s.amount]
<1>1. I \subseteq c.receipts /\ IsFiniteSet(c.receipts) /\ \A s \in c.receipts : s.amount \in Nat
  BY DEF Papers!Included, IsEvidence
<1>2. IsFiniteSet(I)
  BY <1>1, FS_Subset
<1>3. \A s \in I : w[s] \in Nat
  BY <1>1
<1>4. w = [s \in I |-> w[s]]
  OBVIOUS
<1>5. Papers!SumFunction(w) \in Nat
  <2> HIDE DEF w, I
  <2> QED BY <1>2, <1>3, <1>4, SumOfNats
<1>6. Papers!Net(p, c) \in Nat
  BY <1>5 DEF Papers!Net
<1>7. c.amount \in Nat
  BY DEF IsEvidence
<1> QED BY <1>6, <1>7 DEF Papers!RateioBase, Papers!Refundable

\* So is what a participation has of each.
LEMMA ParticipationNat ==
    ASSUME NEW e, IsEvidence(e), NEW m
    PROVE  /\ Papers!SumOf(e, Papers!RateioBase, m) \in Nat
           /\ Papers!SumOf(e, Papers!Refundable, m) \in Nat
           /\ Papers!Owed(e, m) \in Nat
<1> DEFINE C == Papers!ContributionsOf(e, m)
           a == [c \in C |-> Papers!RateioBase(e.members[m], c)]
           b == [c \in C |-> Papers!Refundable(e.members[m], c)]
           O == Papers!Compensable(e, m)
           o == [x \in O |-> x.amount]
<1>1. C \subseteq e.contributions /\ IsFiniteSet(e.contributions)
  BY DEF Papers!ContributionsOf, IsEvidence
<1>2. IsFiniteSet(C)
  BY <1>1, FS_Subset
<1>3. \A c \in C : a[c] \in Nat /\ b[c] \in Nat
  BY <1>1, ContributionNat
<1>4. O \subseteq e.obligations /\ IsFiniteSet(e.obligations) /\ \A x \in e.obligations : x.amount \in Nat
  BY DEF Papers!Compensable, IsEvidence
<1>5. IsFiniteSet(O) /\ \A x \in O : o[x] \in Nat
  BY <1>4, FS_Subset
<1>6. a = [c \in C |-> a[c]] /\ b = [c \in C |-> b[c]] /\ o = [x \in O |-> o[x]]
  OBVIOUS
<1>7. Papers!SumFunction(a) \in Nat /\ Papers!SumFunction(b) \in Nat /\ Papers!SumFunction(o) \in Nat
  <2> HIDE DEF a, b, o, C, O
  <2> QED BY <1>2, <1>3, <1>5, <1>6, SumOfNats
<1> QED BY <1>7 DEF Papers!SumOf, Papers!Owed

\* What was realized, and what of it is left to distribute, is not negative.
LEMMA ResultNat ==
    ASSUME NEW e, IsEvidence(e), Papers!Refusals(e) = {}
    PROVE  /\ Papers!Gross(e.gains) \in Nat
           /\ Papers!Fee(Papers!Gross(e.gains)) \in Nat
           /\ Papers!Fee(Papers!Gross(e.gains)) <= Papers!Gross(e.gains)
           /\ Papers!Distributable(e) \in Nat
           /\ Papers!Distributable(e) > 0 => Papers!Total(Papers!Bases(e)) # 0
<1> DEFINE G == {x \in e.gains : x.kind \in Papers!ResultKinds /\ x.ours /\ x.day \in 0 .. Cutoff}
           w == [g \in G |-> g.amount]
           gross == Papers!Gross(e.gains)
<1>1. IsFiniteSet(G) /\ \A g \in G : w[g] \in Int
  <2>1. G \subseteq e.gains /\ IsFiniteSet(e.gains) /\ \A g \in e.gains : g.amount \in Int
    BY DEF IsEvidence
  <2> QED BY <2>1, FS_Subset
<1>2. gross = SumFunction(w)
  BY CalculationSums DEF Papers!Gross
<1>3. SumFunction(w) = SumFunctionOnSet(w, G)
  BY SumAll
<1>4. gross \in Int
  <2> HIDE DEF w, G
  <2>1. SumFunctionOnSet(w, G) \in Int
    BY <1>1, SumInt
  <2> QED BY <1>2, <1>3, <2>1
<1>5. ~(gross < 0) /\ ~(Papers!Distributable(e) > 0 /\ Papers!Total(Papers!Bases(e)) = 0)
  <2>1. "NEGATIVE_RESULT" \notin Papers!Refusals(e) /\ "NO_ELIGIBLE_BASE" \notin Papers!Refusals(e)
    OBVIOUS
  <2> QED BY <2>1 DEF Papers!Refusals
<1> HIDE DEF gross
<1>6. gross \in Nat
  BY <1>4, <1>5
<1>7. Papers!Fee(gross) \in Nat /\ Papers!Fee(gross) <= gross
  BY <1>6 DEF Papers!Fee
<1>8. Papers!Distributable(e) = gross - Papers!Fee(gross)
  BY DEF gross, Papers!Distributable
<1>9. Papers!Distributable(e) \in Nat
  BY <1>6, <1>7, <1>8
<1> QED BY <1>5, <1>6, <1>7, <1>9 DEF gross

\* The bases of the participations that are not blocked.
LEMMA BasesDivide ==
    ASSUME NEW e, IsEvidence(e), Papers!Refusals(e) = {}
    PROVE  /\ IsDivision(Papers!Distributable(e), Papers!Bases(e))
           /\ DOMAIN Papers!Bases(e) = {n \in DOMAIN e.members : ~Papers!IsBlocked(e.members[n])}
<1> DEFINE U == {n \in DOMAIN e.members : ~Papers!IsBlocked(e.members[n])}
           b == Papers!Bases(e)
<1>1. b = [m \in U |-> Papers!SumOf(e, Papers!RateioBase, m)]
  BY DEF Papers!Bases
<1>2. \A m \in U : Papers!SumOf(e, Papers!RateioBase, m) \in Nat
  BY ParticipationNat
<1>3. IsFiniteSet(U) /\ U \subseteq Int
  <2>1. U \subseteq DOMAIN e.members /\ IsFiniteSet(DOMAIN e.members) /\ DOMAIN e.members \subseteq Int
    BY DEF IsEvidence
  <2> QED BY <2>1, FS_Subset
<1>4. DOMAIN b = U /\ \A m \in U : b[m] = Papers!SumOf(e, Papers!RateioBase, m)
  BY <1>1
<1>5. b = [m \in U |-> b[m]]
  BY <1>1
<1>6. Papers!Distributable(e) \in Nat
  BY ResultNat
<1> HIDE DEF b, U
<1>7. \A m \in U : b[m] \in Nat
  BY <1>2, <1>4
<1>8. IsDivision(Papers!Distributable(e), b)
  BY <1>3, <1>4, <1>5, <1>6, <1>7 DEF IsDivision
<1> QED BY <1>4, <1>8 DEF b, U

\* What a participation gets of the result.
ResultPart(e, m) ==
    IF Papers!IsBlocked(e.members[m]) THEN 0
    ELSE Papers!Share(Papers!Distributable(e), Papers!Bases(e), m)

\* It is not negative.
LEMMA ResultPartNat ==
    ASSUME NEW e, IsEvidence(e), Papers!Refusals(e) = {}, NEW m \in DOMAIN e.members
    PROVE  ResultPart(e, m) \in Nat
<1>1. CASE Papers!IsBlocked(e.members[m])
  BY <1>1 DEF ResultPart
<1>2. CASE ~Papers!IsBlocked(e.members[m])
  <2>1. m \in DOMAIN Papers!Bases(e) /\ IsDivision(Papers!Distributable(e), Papers!Bases(e))
    BY <1>2, BasesDivide
  <2>2. Papers!Share(Papers!Distributable(e), Papers!Bases(e), m) \in Nat
    <3>1. CASE Papers!Total(Papers!Bases(e)) = 0
      BY <3>1 DEF Papers!Share
    <3>2. CASE Papers!Total(Papers!Bases(e)) # 0
      BY <2>1, <3>2, ShareIsClose
    <3> QED BY <3>1, <3>2
  <2> QED BY <1>2, <2>2 DEF ResultPart
<1> QED BY <1>1, <1>2

\* All of what is left of the result is distributed.
LEMMA PartsAreWhole ==
    ASSUME NEW e, IsEvidence(e), Papers!Refusals(e) = {}
    PROVE  SumFunctionOnSet([m \in DOMAIN e.members |-> ResultPart(e, m)], DOMAIN e.members)
           = Papers!Distributable(e)
<1> DEFINE M == DOMAIN e.members
           base == Papers!Bases(e)
           U == DOMAIN base
           total == Papers!Distributable(e)
           p == [m \in M |-> ResultPart(e, m)]
           s == [m \in U |-> Papers!Share(total, base, m)]
           zero == [m \in U |-> 0]
<1>1. IsDivision(total, base) /\ U = {n \in M : ~Papers!IsBlocked(e.members[n])}
  BY BasesDivide
<1>2. IsFiniteSet(M) /\ U \subseteq M /\ IsFiniteSet(U)
  BY <1>1 DEF IsEvidence, IsDivision
<1>3. \A m \in M : p[m] \in Int
  BY ResultPartNat
<1>4. \A m \in M \ U : p[m] = 0
  BY <1>1 DEF ResultPart
<1>5. \A m \in U : p[m] = s[m]
  BY <1>1 DEF ResultPart
<1>6. total \in Nat /\ (total > 0 => Papers!Total(base) # 0)
  BY ResultNat
<1>7. Papers!Total(base) # 0 => SumFunctionOnSet(s, U) = total
  BY <1>1, SharesAreWhole
<1>8. Papers!Total(base) = 0 => SumFunctionOnSet(s, U) = 0
  <2> SUFFICES ASSUME Papers!Total(base) = 0 PROVE SumFunctionOnSet(s, U) = 0
    OBVIOUS
  <2>1. \A m \in U : s[m] = 0
    BY DEF Papers!Share
  <2>2. {} \subseteq U /\ (\A x \in U : s[x] \in Int) /\ \A x \in U \ {} : s[x] = 0
    BY <2>1
  <2> HIDE DEF s, U
  <2>3. SumFunctionOnSet(s, {}) = SumFunctionOnSet(s, U)
    BY <1>2, <2>2, SumOfPart
  <2> QED BY <2>3, SumEmpty
<1> HIDE DEF p, s, U, M, total, base
<1>9. SumFunctionOnSet(p, U) = SumFunctionOnSet(p, M)
  BY <1>2, <1>3, <1>4, SumOfPart
<1>10. SumFunctionOnSet(p, U) = SumFunctionOnSet(s, U)
  BY <1>2, <1>5, SumSame
<1>11. SumFunctionOnSet(p, M) = total
  BY <1>6, <1>7, <1>8, <1>9, <1>10
<1> QED BY <1>11 DEF p, M, total

\* A line of the figures.
LEMMA LineHas ==
    ASSUME NEW e, IsEvidence(e), Papers!Refusals(e) = {}, NEW m \in DOMAIN e.members
    PROVE  /\ Papers!Line(e, m).refund \in Nat
           /\ Papers!Line(e, m).share = ResultPart(e, m)
           /\ Papers!Line(e, m).share \in Nat
           /\ Papers!Line(e, m).owed = Papers!Owed(e, m)
           /\ Papers!Line(e, m).owed \in Nat
           /\ Papers!Line(e, m).compensation
              = Papers!Least(Papers!Line(e, m).refund + Papers!Line(e, m).share, Papers!Line(e, m).owed)
           /\ Papers!Line(e, m).net
              = (Papers!Line(e, m).refund + Papers!Line(e, m).share) - Papers!Line(e, m).compensation
           /\ Papers!Line(e, m).debt
              = Papers!Greatest(0, (Papers!Line(e, m).owed - Papers!Line(e, m).refund) - Papers!Line(e, m).share)
<1> DEFINE l == Papers!Line(e, m)
           refund == Papers!SumOf(e, Papers!Refundable, m)
           share == ResultPart(e, m)
           owed == Papers!Owed(e, m)
<1>1. l = [status |-> Papers!EffectiveStatus(e.members[m]), refund |-> refund, share |-> share, owed |-> owed,
           compensation |-> Papers!Least(refund + share, owed),
           net |-> refund + share - Papers!Least(refund + share, owed),
           debt |-> Papers!Greatest(0, owed - refund - share)]
  BY DEF Papers!Line, ResultPart
<1>2. refund \in Nat /\ owed \in Nat /\ share \in Nat
  BY ParticipationNat, ResultPartNat
<1> HIDE DEF l, refund, share, owed
<1>3. /\ l.refund = refund /\ l.share = share /\ l.owed = owed
      /\ l.compensation = Papers!Least(refund + share, owed)
      /\ l.net = refund + share - Papers!Least(refund + share, owed)
      /\ l.debt = Papers!Greatest(0, owed - refund - share)
  BY <1>1
<1>4. /\ refund + share - Papers!Least(refund + share, owed) = (refund + share) - Papers!Least(refund + share, owed)
      /\ owed - refund - share = (owed - refund) - share
  BY <1>2 DEF Papers!Least
<1>5. l.share = ResultPart(e, m) /\ l.owed = Papers!Owed(e, m)
  BY <1>3 DEF share, owed
<1>6. /\ l.refund \in Nat /\ l.share \in Nat /\ l.owed \in Nat
      /\ l.compensation = Papers!Least(l.refund + l.share, l.owed)
      /\ l.net = (l.refund + l.share) - l.compensation
      /\ l.debt = Papers!Greatest(0, (l.owed - l.refund) - l.share)
  BY <1>2, <1>3, <1>4
<1> QED BY <1>5, <1>6 DEF l

\* What a snapshot that was calculated without a refusal says of itself is true.
LEMMA SnapshotIsTrue ==
    ASSUME IsEvidence(evidence), Papers!Refusals(evidence) = {}, figures = Papers!Figures(evidence)
    PROVE  Papers!SnapshotVerifies
<1> DEFINE M == DOMAIN evidence.members
           gross == Papers!Gross(evidence.gains)
           s == [m \in M |-> figures.lines[m].share]
           p == [m \in M |-> ResultPart(evidence, m)]
<1>1. figures = [gross |-> gross, fee |-> Papers!Fee(gross), lines |-> [m \in M |-> Papers!Line(evidence, m)]]
  BY DEF Papers!Figures
<1>2. figures.gross = gross /\ figures.fee = Papers!Fee(gross)
  BY <1>1
<1>3. \A m \in M : figures.lines[m] = Papers!Line(evidence, m)
  BY <1>1
<1>4. gross \in Nat /\ Papers!Fee(gross) \in Nat /\ Papers!Fee(gross) <= gross
  BY ResultNat
<1>5. Papers!SumLines("share") = SumFunction(s)
  BY CalculationSums DEF Papers!SumLines, Papers!People, Papers!Lines
<1>6. SumFunction(s) = SumFunctionOnSet(s, M) /\ IsFiniteSet(M)
  BY SumAll DEF IsEvidence
<1>7. \A m \in M : s[m] = p[m]
  BY <1>3, LineHas
<1>8. SumFunctionOnSet(s, M) = SumFunctionOnSet(p, M)
  <2> HIDE DEF s, p, M
  <2> QED BY <1>6, <1>7, SumSame
<1>9. SumFunctionOnSet(p, M) = gross - Papers!Fee(gross)
  BY PartsAreWhole DEF Papers!Distributable
<1>10. Papers!SumFunction([g \in Papers!CountedGains |-> g.amount]) = gross
  BY DEF Papers!CountedGains, Papers!Gross
<1> HIDE DEF gross, s, p, M
<1> QED BY <1>2, <1>4, <1>5, <1>6, <1>8, <1>9, <1>10 DEF Papers!SnapshotVerifies

\* So is each of its lines.
LEMMA LinesAreTrue ==
    ASSUME IsEvidence(evidence), Papers!Refusals(evidence) = {}, figures = Papers!Figures(evidence),
           NEW m \in DOMAIN evidence.members
    PROVE  Papers!LineIsConsistent(m)
<1> DEFINE l == Papers!Line(evidence, m)
           due == l.refund + l.share
<1>1. Papers!Lines[m] = l
  BY DEF Papers!Lines, Papers!Figures
<1>2. /\ l.refund \in Nat /\ l.share \in Nat /\ l.owed \in Nat /\ l.owed = Papers!Owed(evidence, m)
      /\ l.compensation = Papers!Least(l.refund + l.share, l.owed)
      /\ l.net = (l.refund + l.share) - l.compensation
      /\ l.debt = Papers!Greatest(0, (l.owed - l.refund) - l.share)
  BY LineHas
<1>3. Papers!SumFunction([o \in Papers!Compensable(evidence, m) |-> o.amount]) = l.owed
  BY <1>2 DEF Papers!Owed
<1> HIDE DEF l
<1>4. /\ l.compensation = Papers!Least(due, l.owed) /\ l.net = due - l.compensation
      /\ l.debt = Papers!Greatest(0, l.owed - due)
      /\ l.compensation >= 0 /\ l.net >= 0 /\ l.debt >= 0
  BY <1>2 DEF Papers!Least, Papers!Greatest
<1>5. \A x \in {l.refund, l.share, l.owed, l.compensation, l.net, l.debt} : x >= 0
  BY <1>2, <1>4
<1> QED BY <1>1, <1>3, <1>4, <1>5 DEF Papers!LineIsConsistent

\* What is due to the members is a number.
LEMMA RequiredInt ==
    ASSUME IsEvidence(evidence), Papers!Refusals(evidence) = {}, figures = Papers!Figures(evidence)
    PROVE  Papers!Required \in Int
<1> DEFINE M == DOMAIN evidence.members
           n == [m \in M |-> figures.lines[m].net]
<1>1. /\ figures.fee = Papers!Fee(Papers!Gross(evidence.gains))
      /\ \A m \in M : figures.lines[m] = Papers!Line(evidence, m)
  BY DEF Papers!Figures
<1>2. ASSUME NEW m \in M PROVE n[m] \in Int
  <2> DEFINE l == Papers!Line(evidence, m)
  <2>1. /\ l.refund \in Nat /\ l.share \in Nat /\ l.owed \in Nat
        /\ l.compensation = Papers!Least(l.refund + l.share, l.owed)
        /\ l.net = (l.refund + l.share) - l.compensation
    BY LineHas
  <2> HIDE DEF l
  <2>2. l.net \in Int
    BY <2>1 DEF Papers!Least
  <2> QED BY <1>1, <2>2 DEF l
<1>3. IsFiniteSet(M) /\ SumFunction(n) = SumFunctionOnSet(n, M)
  BY SumAll DEF IsEvidence
<1>4. Papers!SumLines("net") = SumFunction(n)
  BY CalculationSums DEF Papers!SumLines, Papers!People, Papers!Lines
<1>5. SumFunctionOnSet(n, M) \in Int
  <2> HIDE DEF n, M
  <2> QED BY <1>2, <1>3, SumInt
<1>6. figures.fee \in Int
  BY <1>1, ResultNat
<1> QED BY <1>3, <1>4, <1>5, <1>6 DEF Papers!Required, Papers!Liability

-----------------------------------------------------------------------------
(* The papers.                                                              *)

\* What the papers are proved of.
PaperAssumptions == Cash \subseteq Int /\ \A e \in Evidence : IsEvidence(e)

\* A cycle was closed without a refusal and with the money; its obligations are none
\* or all of them, and are all of them once a request succeeded.
PapersInv ==
    /\ evidence \in Evidence /\ Papers!Refusals(evidence) = {} /\ figures = Papers!Figures(evidence)
    /\ funds \in Cash /\ funds >= Papers!Required
    /\ payables \in {{}, Papers!Expected}
    /\ clerk \in [Clerks -> {"idle", "locked", "inserted", "done"}]
    /\ \A r \in Clerks : clerk[r] = "done" => payables = Papers!Expected

\* It holds at the closing.
LEMMA PapersStart == ASSUME Papers!Init PROVE PapersInv
  BY DEF Papers!Init, PapersInv

\* What is expected changes with the snapshot alone.
LEMMA SameExpected ==
    ASSUME UNCHANGED <<evidence, figures>>
    PROVE  /\ Papers!Expected' = Papers!Expected /\ Papers!Required' = Papers!Required
           /\ Papers!People' = Papers!People
<1>1. Papers!People' = Papers!People /\ Papers!Lines' = Papers!Lines
  BY DEF Papers!People, Papers!Lines
<1>2. Papers!Liability' = Papers!Liability
  BY <1>1 DEF Papers!Liability, Papers!SumLines
<1>3. Papers!Required' = Papers!Required
  BY <1>2 DEF Papers!Required
<1>4. Papers!Expected' = Papers!Expected
  BY <1>1 DEF Papers!Expected
<1> QED BY <1>1, <1>3, <1>4

\* And a step of a request, or of a destination.
LEMMA PapersKeep == ASSUME PapersInv, [Papers!Next]_(Papers!vars) PROVE PapersInv'
<1>1. /\ evidence \in Evidence /\ Papers!Refusals(evidence) = {} /\ figures = Papers!Figures(evidence)
      /\ funds \in Cash /\ funds >= Papers!Required /\ payables \in {{}, Papers!Expected}
      /\ clerk \in [Clerks -> {"idle", "locked", "inserted", "done"}]
      /\ \A r \in Clerks : clerk[r] = "done" => payables = Papers!Expected
  BY DEF PapersInv
<1>2. ASSUME UNCHANGED <<evidence, figures, funds>>,
             payables' \in {{}, Papers!Expected},
             clerk' \in [Clerks -> {"idle", "locked", "inserted", "done"}],
             \A r \in Clerks : clerk'[r] = "done" => payables' = Papers!Expected
      PROVE  PapersInv'
  <2>1. Papers!Expected' = Papers!Expected /\ Papers!Required' = Papers!Required
    BY <1>2, SameExpected
  <2>2. Papers!Refusals(evidence)' = Papers!Refusals(evidence) /\ Papers!Figures(evidence)' = Papers!Figures(evidence)
    BY <1>2
  <2> QED BY <1>1, <1>2, <2>1, <2>2 DEF PapersInv
<1>3. ASSUME NEW r \in Clerks, Papers!Lock(r) PROVE PapersInv'
  BY <1>1, <1>2, <1>3 DEF Papers!Lock
<1>4. ASSUME NEW r \in Clerks, Papers!Materialize(r) PROVE PapersInv'
  <2>1. /\ UNCHANGED <<evidence, figures, funds, payables>>
        /\ clerk' = [clerk EXCEPT ![r] = IF payables = {} THEN "inserted"
                                         ELSE IF payables = Papers!Expected THEN "done" ELSE "refused"]
    BY <1>4 DEF Papers!Materialize
  <2>2. CASE payables = {}
    BY <1>1, <1>2, <2>1, <2>2
  <2>3. CASE payables # {}
    <3>1. payables = Papers!Expected /\ clerk' = [clerk EXCEPT ![r] = "done"]
      BY <1>1, <2>1, <2>3
    <3> QED BY <1>1, <1>2, <2>1, <3>1
  <2> QED BY <2>2, <2>3
<1>5. ASSUME NEW r \in Clerks, Papers!Commit(r) PROVE PapersInv'
  <2>1. /\ UNCHANGED <<evidence, figures, funds>> /\ payables' = payables \cup Papers!Expected
        /\ clerk' = [clerk EXCEPT ![r] = "done"]
    BY <1>5 DEF Papers!Commit
  <2>2. payables' = Papers!Expected
    BY <1>1, <2>1
  <2> QED BY <1>1, <1>2, <2>1, <2>2
<1>6. ASSUME NEW r \in Clerks, Papers!Abandon(r) PROVE PapersInv'
  BY <1>1, <1>2, <1>6 DEF Papers!Abandon
<1>7. CASE Papers!Redirect
  BY <1>1, <1>2, <1>7 DEF Papers!Redirect
<1>8. CASE UNCHANGED Papers!vars
  BY <1>1, <1>2, <1>8 DEF Papers!vars
<1> QED BY <1>3, <1>4, <1>5, <1>6, <1>7, <1>8 DEF Papers!Next

\* There is one obligation of each member at most.
LEMMA ObligationsOfMembers ==
    ASSUME IsEvidence(evidence)
    PROVE  /\ {o.member : o \in Papers!Expected} = Papers!People
           /\ Cardinality(Papers!Expected) <= Cardinality(Papers!People)
           /\ Cardinality({}) <= Cardinality(Papers!People) /\ {o.member : o \in {}} = {}
<1> DEFINE M == Papers!People
           E == Papers!Expected
           due == [m \in M |-> [member |-> m, amount |-> Papers!Lines[m].net]]
<1>1. IsFiniteSet(M) /\ Cardinality(M) \in Nat
  <2>1. IsFiniteSet(M)
    BY DEF Papers!People, IsEvidence
  <2> QED BY <2>1, FS_CardinalityType
<1>2. E = {due[m] : m \in M}
  BY DEF Papers!Expected
<1>3. due \in Surjection(M, E)
  BY <1>2 DEF Surjection
<1>4. Cardinality(E) <= Cardinality(M)
  <2> HIDE DEF due, M, E
  <2> QED BY <1>1, <1>3, FS_Surjection
<1>5. {o.member : o \in E} = M
  <2>1. \A m \in M : due[m] \in E /\ due[m].member = m
    BY <1>2
  <2>2. \A o \in E : \E m \in M : o = due[m]
    BY <1>2
  <2> HIDE DEF due, M, E
  <2> QED BY <2>1, <2>2
<1>6. Cardinality({}) = 0 /\ {o.member : o \in {}} = {}
  BY FS_EmptySet
<1> QED BY <1>1, <1>4, <1>5, <1>6

\* The papers agree.
LEMMA PapersAgreed == ASSUME PaperAssumptions, PapersInv PROVE Papers!PapersAgree
<1>1. /\ evidence \in Evidence /\ Papers!Refusals(evidence) = {} /\ figures = Papers!Figures(evidence)
      /\ funds \in Cash /\ funds >= Papers!Required /\ payables \in {{}, Papers!Expected}
      /\ clerk \in [Clerks -> {"idle", "locked", "inserted", "done"}]
      /\ \A r \in Clerks : clerk[r] = "done" => payables = Papers!Expected
  BY DEF PapersInv
<1>2. IsEvidence(evidence)
  BY <1>1 DEF PaperAssumptions
<1>3. /\ {o.member : o \in Papers!Expected} = Papers!People
      /\ Papers!Cardinality(Papers!Expected) <= Papers!Cardinality(Papers!People)
      /\ Papers!Cardinality({}) <= Papers!Cardinality(Papers!People) /\ {o.member : o \in {}} = {}
  BY <1>2, ObligationsOfMembers, CalculationSums
<1>4. /\ {o.member : o \in payables} \in {{}, Papers!People}
      /\ Papers!Cardinality(payables) <= Papers!Cardinality(Papers!People)
      /\ \A r \in Clerks : clerk[r] = "done" => {o.member : o \in payables} = Papers!People
      /\ \A r \in Clerks : clerk[r] # "refused"
  <2>1. CASE payables = {}
    BY <1>1, <1>3, <2>1
  <2>2. CASE payables = Papers!Expected
    BY <1>1, <1>3, <2>2
  <2> QED BY <1>1, <2>1, <2>2
<1>5. Papers!SnapshotVerifies
  BY <1>1, <1>2, SnapshotIsTrue
<1>6. Papers!StatementRefusals \subseteq {"TRACE"}
  <2>1. \A m \in Papers!People : Papers!LineIsConsistent(m)
    BY <1>1, <1>2, LinesAreTrue DEF Papers!People
  <2>2. ~(funds < Papers!Required)
    <3>1. Papers!Required \in Int
      BY <1>1, <1>2, RequiredInt
    <3>2. funds \in Int
      BY <1>1 DEF PaperAssumptions
    <3> QED BY <1>1, <3>1, <3>2
  <2> QED BY <1>5, <2>1, <2>2 DEF Papers!StatementRefusals
<1>7. Papers!Reasons = {} => /\ funds >= Papers!AmountOf(payables) + figures.fee
                             /\ \A m \in Papers!People : [member |-> m, amount |-> Papers!Lines[m].net] \in payables
  <2> SUFFICES ASSUME Papers!Reasons = {}
               PROVE  /\ funds >= Papers!AmountOf(payables) + figures.fee
                      /\ \A m \in Papers!People : [member |-> m, amount |-> Papers!Lines[m].net] \in payables
    OBVIOUS
  <2>1. Papers!RowsVerify
    BY DEF Papers!Reasons, Papers!PayoutReasons
  <2>2. payables = Papers!Expected /\ Papers!AmountOf(payables) = Papers!Liability
    BY <2>1 DEF Papers!RowsVerify
  <2>3. funds >= Papers!AmountOf(payables) + figures.fee
    BY <1>1, <2>2 DEF Papers!Required
  <2> QED BY <2>2, <2>3 DEF Papers!Expected
<1> QED BY <1>4, <1>5, <1>6, <1>7 DEF Papers!PapersAgree

\* What a closed cycle leaves agrees, whatever it was closed on: the snapshot with the
\* lines and the statements, and the obligations of the payouts with both.
THEOREM PapersAgreement == ASSUME PaperAssumptions PROVE Papers!Spec => []Papers!PapersAgree
<1>1. PapersInv /\ [Papers!Next]_(Papers!vars) => PapersInv'
  BY PapersKeep
<1>2. PapersInv => Papers!PapersAgree
  BY PapersAgreed
<1>3. Papers!Init => PapersInv
  BY PapersStart
<1> QED BY <1>1, <1>2, <1>3, PTL DEF Papers!Spec

-----------------------------------------------------------------------------
(* Gains.                                                                   *)

Gains == INSTANCE RealizedGains WITH
    Requests <- GainRequests, Names <- GainNames, Days <- GainDays, Amounts <- GainAmounts,
    MaxRows <- MaxGains, row <- gained, evidence <- named, request <- claims

\* Days and amounts are numbers.
GainAssumptions == GainDays \subseteq Int /\ GainAmounts \subseteq Int

\* A row, or what a request is about to insert, with the number of an earlier row if
\* it takes that row back.
SoundGain(g, D) ==
    /\ g = [name |-> g.name, day |-> g.day, amount |-> g.amount, of |-> g.of]
    /\ g.day \in Int /\ g.amount \in Int
    /\ g.of # 0 => g.of \in D

\* The rows are numbered from 1.  A row takes back a gain of its amount, not before it
\* was realized, and no two rows take back the same.
GainInv ==
    /\ IsFiniteSet(DOMAIN gained) /\ DOMAIN gained = 1 .. Cardinality(DOMAIN gained)
    /\ gained = [n \in DOMAIN gained |-> gained[n]]
    /\ \A n \in DOMAIN gained :
          /\ SoundGain(gained[n], DOMAIN gained)
          /\ gained[n].of # 0 => /\ gained[gained[n].of].of = 0
                                 /\ gained[gained[n].of].amount = gained[n].amount
                                 /\ gained[gained[n].of].day <= gained[n].day
    /\ \A m, n \in DOMAIN gained : gained[m].of = gained[n].of /\ gained[m].of # 0 => m = n
    /\ DOMAIN claims = GainRequests /\ claims = [r \in GainRequests |-> claims[r]]
    /\ \A r \in GainRequests : SoundGain(claims[r], DOMAIN gained)

\* Nothing is recorded at first.
LEMMA GainsStart == ASSUME Gains!Init PROVE GainInv
<1>1. DOMAIN gained = {} /\ gained = [n \in DOMAIN gained |-> gained[n]]
  BY DEF Gains!Init
<1>2. IsFiniteSet(DOMAIN gained) /\ DOMAIN gained = 1 .. Cardinality(DOMAIN gained)
  <2>1. IsFiniteSet(DOMAIN gained) /\ Cardinality(DOMAIN gained) = 0
    BY <1>1, FS_EmptySet
  <2> QED BY <1>1, <2>1
<1>3. /\ DOMAIN claims = GainRequests /\ claims = [r \in GainRequests |-> claims[r]]
      /\ \A r \in GainRequests : SoundGain(claims[r], DOMAIN gained)
  BY DEF Gains!Init, Gains!Nothing, SoundGain
<1> QED BY <1>1, <1>2, <1>3 DEF GainInv

\* Requests that pass the same check do not break them: the table refuses the second.
LEMMA GainsKeep == ASSUME GainAssumptions, GainInv, [Gains!Next]_(Gains!vars) PROVE GainInv'
<1>1. /\ IsFiniteSet(DOMAIN gained) /\ DOMAIN gained = 1 .. Cardinality(DOMAIN gained)
      /\ gained = [n \in DOMAIN gained |-> gained[n]]
  BY DEF GainInv
<1>2. \A n \in DOMAIN gained :
          /\ SoundGain(gained[n], DOMAIN gained)
          /\ gained[n].of # 0 => /\ gained[gained[n].of].of = 0
                                 /\ gained[gained[n].of].amount = gained[n].amount
                                 /\ gained[gained[n].of].day <= gained[n].day
  BY DEF GainInv
<1>3. \A m, n \in DOMAIN gained : gained[m].of = gained[n].of /\ gained[m].of # 0 => m = n
  BY DEF GainInv
<1>4. /\ DOMAIN claims = GainRequests /\ claims = [r \in GainRequests |-> claims[r]]
      /\ \A r \in GainRequests : SoundGain(claims[r], DOMAIN gained)
  BY DEF GainInv
<1>5. ASSUME UNCHANGED gained, NEW r \in GainRequests, NEW g, SoundGain(g, DOMAIN gained), claims' = [claims EXCEPT ![r] = g]
      PROVE  GainInv'
  <2>1. \A q \in GainRequests : SoundGain(claims'[q], DOMAIN gained)
    BY <1>4, <1>5
  <2>3. DOMAIN claims' = GainRequests /\ claims' = [q \in GainRequests |-> claims'[q]]
    BY <1>4, <1>5
  <2>4. \A q \in GainRequests : SoundGain(claims[q], DOMAIN gained)'
    BY <1>5, <2>1 DEF SoundGain
  <2>5. \A n \in DOMAIN gained' : SoundGain(gained[n], DOMAIN gained)'
    BY <1>2, <1>5 DEF SoundGain
  <2> QED BY <1>1, <1>2, <1>3, <1>5, <2>3, <2>4, <2>5 DEF GainInv
<1>6. ASSUME UNCHANGED <<gained, claims>> PROVE GainInv'
  <2>1. \A n : SoundGain(gained[n], DOMAIN gained)' <=> SoundGain(gained[n], DOMAIN gained)
    BY <1>6 DEF SoundGain
  <2>2. \A r : SoundGain(claims[r], DOMAIN gained)' <=> SoundGain(claims[r], DOMAIN gained)
    BY <1>6 DEF SoundGain
  <2> QED BY <1>1, <1>2, <1>3, <1>4, <1>6, <2>1, <2>2 DEF GainInv
<1>7. SoundGain(Gains!Nothing, DOMAIN gained)
  BY DEF SoundGain, Gains!Nothing
<1>8. ASSUME NEW r \in GainRequests, Gains!Record(r) PROVE GainInv'
  <2>1. PICK s \in Gains!Unclaimed, d \in GainDays, a \in GainAmounts :
           UNCHANGED gained /\ claims' = [claims EXCEPT ![r] = [name |-> s, day |-> d, amount |-> a, of |-> 0]]
    BY <1>8 DEF Gains!Record, Gains!Prepared
  <2>2. SoundGain([name |-> s, day |-> d, amount |-> a, of |-> 0], DOMAIN gained)
    BY DEF SoundGain, GainAssumptions
  <2> QED BY <1>5, <2>1, <2>2
<1>9. ASSUME NEW r \in GainRequests, Gains!Reverse(r) PROVE GainInv'
  <2>1. PICK n \in DOMAIN gained, s \in Gains!Unclaimed, d \in GainDays :
           UNCHANGED gained
           /\ claims' = [claims EXCEPT ![r] = [name |-> s, day |-> d, amount |-> gained[n].amount, of |-> n]]
    BY <1>9 DEF Gains!Reverse, Gains!Prepared
  <2>2. SoundGain([name |-> s, day |-> d, amount |-> gained[n].amount, of |-> n], DOMAIN gained)
    BY <1>2 DEF SoundGain, GainAssumptions
  <2> QED BY <1>5, <2>1, <2>2
<1>10. ASSUME NEW r \in GainRequests, Gains!Insert(r) PROVE GainInv'
  <2> DEFINE g == claims[r]
             D == DOMAIN gained
             n == Cardinality(D) + 1
  <2>1. /\ Gains!Accepted(g)
        /\ gained' = [m \in D \cup {n} |-> IF m = n THEN g ELSE gained[m]]
        /\ claims' = [claims EXCEPT ![r] = Gains!Nothing]
    BY <1>10 DEF Gains!Insert, Gains!Prepared, Gains!Cardinality, Cardinality
  <2>2. /\ \A m \in D : g.of # 0 => gained[m].of # g.of
        /\ g.of # 0 => gained[g.of].of = 0 /\ gained[g.of].amount = g.amount /\ gained[g.of].day <= g.day
    BY <2>1 DEF Gains!Accepted
  <2>3. Cardinality(D) \in Nat /\ D = 1 .. Cardinality(D)
    BY <1>1, FS_CardinalityType
  <2>4. n \notin D /\ n # 0 /\ n \in Nat
    BY <2>3
  <2>5. DOMAIN gained' = D \cup {n} /\ gained'[n] = g /\ \A m \in D : gained'[m] = gained[m]
    BY <2>1, <2>4
  <2>6. IsFiniteSet(D \cup {n}) /\ Cardinality(D \cup {n}) = n
    <3> HIDE DEF n, D
    <3>1. IsFiniteSet(D \cup {n}) /\ Cardinality(D \cup {n}) = Cardinality(D) + 1
      BY <1>1, <2>4, FS_AddElement DEF D
    <3> QED BY <3>1 DEF n
  <2>7. D \cup {n} = 1 .. n
    BY <2>3
  <2>8. SoundGain(g, DOMAIN gained)
    BY <1>4
  <2> HIDE DEF n, g, D
  <2>9. \A m \in D \cup {n} : SoundGain(gained'[m], D \cup {n})
    <3>1. \A m \in D : SoundGain(gained'[m], D \cup {n})
      BY <1>2, <2>5 DEF SoundGain, D
    <3>2. SoundGain(gained'[n], D \cup {n})
      BY <2>5, <2>8 DEF SoundGain, D
    <3> QED BY <3>1, <3>2
  <2>10. \A m \in DOMAIN gained' : SoundGain(gained'[m], DOMAIN gained')
    BY <2>5, <2>9
  <2>11. ASSUME NEW m \in D \cup {n}, gained'[m].of # 0
         PROVE  /\ gained'[gained'[m].of].of = 0
                /\ gained'[gained'[m].of].amount = gained'[m].amount
                /\ gained'[gained'[m].of].day <= gained'[m].day
    <3>1. CASE m \in D
      <4>1. gained'[m] = gained[m] /\ gained[m].of \in D
        BY <1>2, <2>5, <2>11, <3>1 DEF SoundGain, D
      <4>2. gained'[gained[m].of] = gained[gained[m].of]
        BY <2>5, <4>1
      <4> QED BY <1>2, <2>11, <3>1, <4>1, <4>2 DEF D
    <3>2. CASE m = n
      <4>1. gained'[m] = g /\ g.of \in D
        BY <2>5, <2>8, <2>11, <3>2 DEF SoundGain, D
      <4>2. gained'[g.of] = gained[g.of]
        BY <2>5, <4>1
      <4> QED BY <2>2, <2>11, <4>1, <4>2
    <3> QED BY <3>1, <3>2
  <2>12. ASSUME NEW k \in D \cup {n}, NEW m \in D \cup {n}, gained'[k].of = gained'[m].of, gained'[k].of # 0
         PROVE  k = m
    BY <1>3, <2>2, <2>5, <2>12 DEF D
  <2>13. /\ DOMAIN claims' = GainRequests /\ claims' = [q \in GainRequests |-> claims'[q]]
         /\ \A q \in GainRequests : SoundGain(claims'[q], DOMAIN gained)
    BY <1>4, <1>7, <2>1
  <2>14. \A q \in GainRequests : SoundGain(claims'[q], DOMAIN gained')
    BY <2>5, <2>13 DEF SoundGain, D
  <2>15. gained' = [m \in D \cup {n} |-> gained'[m]]
    BY <2>1
  <2> QED BY <2>5, <2>6, <2>7, <2>10, <2>11, <2>12, <2>13, <2>14, <2>15 DEF GainInv
<1>11. ASSUME NEW r \in GainRequests, Gains!Drop(r) PROVE GainInv'
  BY <1>5, <1>7, <1>11 DEF Gains!Drop, Gains!Prepared
<1>12. CASE Gains!Settle
  BY <1>6, <1>12 DEF Gains!Settle
<1>13. CASE UNCHANGED Gains!vars
  BY <1>6, <1>13 DEF Gains!vars
<1> QED BY <1>8, <1>9, <1>10, <1>11, <1>12, <1>13 DEF Gains!Next

\* The sums of the gains are the library's.
LEMMA GainSums == \A w : Gains!SumFunction(w) = SumFunction(w)
  BY DEF Gains!SumFunction, Gains!SumFunctionOnSet, Gains!FoldFunctionOnSet, Gains!MapThenFoldSet,
      SumFunction, SumFunctionOnSet, FoldFunctionOnSet, MapThenFoldSet

\* A gain counts in full or not at all.
LEMMA GainsCount == ASSUME GainAssumptions, GainInv PROVE Gains!GainCountsOnceOrNot
<1> SUFFICES ASSUME NEW n \in DOMAIN gained, NEW cutoff \in GainDays, gained[n].of = 0
             PROVE  Gains!UpTo(cutoff, {n} \cup {m \in DOMAIN gained : gained[m].of = n}) \in {0, gained[n].amount}
  BY DEF Gains!GainCountsOnceOrNot
<1> DEFINE D == DOMAIN gained
           K == {m \in D : gained[m].of = n}
           S == {m \in {n} \cup K : gained[m].day <= cutoff}
           w == [m \in S |-> Gains!Signed(m)]
           a == gained[n].amount
<1>1. /\ D = 1 .. Cardinality(D) /\ n # 0
      /\ \A m \in D : gained[m].day \in Int /\ gained[m].amount \in Int
      /\ \A m \in D : gained[m].of # 0 => /\ gained[gained[m].of].amount = gained[m].amount
                                          /\ gained[gained[m].of].day <= gained[m].day
      /\ \A k, m \in D : gained[k].of = gained[m].of /\ gained[k].of # 0 => k = m
  <2>1. IsFiniteSet(D) /\ D = 1 .. Cardinality(D)
    BY DEF GainInv
  <2>2. Cardinality(D) \in Nat
    BY <2>1, FS_CardinalityType
  <2>3. n # 0
    <3> HIDE DEF D
    <3>1. n \in D
      BY DEF D
    <3> QED BY <2>1, <2>2, <3>1
  <2>4. \A m \in D : gained[m].day \in Int /\ gained[m].amount \in Int
    BY DEF GainInv, SoundGain
  <2>5. \A m \in D : gained[m].of # 0 => /\ gained[gained[m].of].amount = gained[m].amount
                                          /\ gained[gained[m].of].day <= gained[m].day
    BY DEF GainInv
  <2>6. \A k, m \in D : gained[k].of = gained[m].of /\ gained[k].of # 0 => k = m
    BY DEF GainInv
  <2> QED BY <2>1, <2>3, <2>4, <2>5, <2>6
<1>2. Gains!UpTo(cutoff, {n} \cup K) = SumFunctionOnSet(w, S)
  <2>1. Gains!UpTo(cutoff, {n} \cup K) = SumFunction(w)
    BY GainSums DEF Gains!UpTo
  <2> QED BY <2>1, SumAll
<1>3. cutoff \in Int
  BY DEF GainAssumptions
<1>4. CASE gained[n].day <= cutoff /\ ~(\E k \in K : gained[k].day <= cutoff)
  <2>1. S = {n}
    BY <1>4
  <2>2. w[n] = a /\ a \in Int
    BY <1>1, <2>1 DEF Gains!Signed
  <2> HIDE DEF w, S, a
  <2>3. SumFunctionOnSet(w, {n}) = a
    BY <2>2, SumOne
  <2> QED BY <1>2, <2>1, <2>3 DEF a
<1>5. CASE \E k \in K : gained[k].day <= cutoff
  <2>1. PICK k \in K : gained[k].day <= cutoff
    BY <1>5
  <2>2. /\ k \in D /\ gained[k].of = n /\ k # n /\ gained[n].day <= gained[k].day
        /\ gained[k].amount = a /\ \A m \in K : m = k
    BY <1>1
  <2>3. gained[n].day <= cutoff
    BY <1>1, <1>3, <2>1, <2>2
  <2>4. S = {n, k}
    BY <2>1, <2>2, <2>3
  <2>5. w[n] = a /\ w[k] = -a /\ a \in Int
    BY <1>1, <2>2, <2>4 DEF Gains!Signed
  <2> HIDE DEF w, S, a
  <2>6. IsFiniteSet({n}) /\ k \notin {n} /\ {n, k} = {n} \cup {k} /\ \A y \in {n} \cup {k} : w[y] \in Int
    <3>1. IsFiniteSet({n})
      BY FS_Singleton
    <3>2. w[n] \in Int /\ w[k] \in Int
      BY <2>5
    <3>3. \A y \in {n} \cup {k} : y = n \/ y = k
      OBVIOUS
    <3> QED BY <2>2, <3>1, <3>2, <3>3
  <2>7. SumFunctionOnSet(w, {n} \cup {k}) = w[k] + SumFunctionOnSet(w, {n})
    BY <2>6, SumGrows
  <2>8. SumFunctionOnSet(w, {n}) = w[n]
    BY <2>5, SumOne
  <2>9. SumFunctionOnSet(w, S) = w[k] + w[n]
    <3>1. S = {n} \cup {k}
      BY <2>4, <2>6
    <3> QED BY <2>7, <2>8, <3>1
  <2>10. w[k] + w[n] = 0
    BY <2>5
  <2> QED BY <1>2, <2>9, <2>10
<1>6. CASE ~(gained[n].day <= cutoff) /\ ~(\E k \in K : gained[k].day <= cutoff)
  <2>1. S = {}
    BY <1>6
  <2> QED BY <1>2, <2>1, SumEmpty
<1> QED BY <1>4, <1>5, <1>6

\* A gain and what takes it back count in full or not at all at any cutoff, whatever
\* requests recorded them at once.
THEOREM GainsCountOnce == ASSUME GainAssumptions PROVE Gains!Spec => []Gains!GainCountsOnceOrNot
<1>1. Gains!Init => GainInv
  BY GainsStart
<1>2. GainInv /\ [Gains!Next]_(Gains!vars) => GainInv'
  BY GainsKeep
<1>3. GainInv => Gains!GainCountsOnceOrNot
  BY GainsCount
<1> QED BY <1>1, <1>2, <1>3, PTL DEF Gains!Spec

-----------------------------------------------------------------------------
(* The quotas and the contributions of a cycle.                            *)

Entry == INSTANCE CycleEntry WITH Members <- Enrolled, Months <- Span, dues <- billed

\* A cycle has finitely many members and months, and room for some quotas.
EntryAssumptions == IsFiniteSet(Enrolled) /\ Span \in Nat /\ Capacity \in Nat

Participations == {"none", "ACTIVE", "BLOCKED_DELINQUENCY", "VOLUNTARILY_EXITED"}
Dues == [status : {"none", "PENDING", "PAID", "CANCELLED"}, units : Int, undone : BOOLEAN]

\* What a request for quotas, and an entry, may be doing.
QuotaRequest(r) ==
    /\ r = [pc |-> r.pc, member |-> r.member, units |-> r.units]
    /\ r.pc \in {"idle", "cycle", "counted"}
    /\ r.pc # "idle" => r.member \in Enrolled /\ r.units \in Nat
EntryRequest(r) ==
    /\ r = [pc |-> r.pc, member |-> r.member, date |-> r.date, daily |-> r.daily]
    /\ r.pc # "idle" => r.member \in Enrolled /\ r.date \in Nat \ {0}

\* One request for quotas at a time holds the cycle, and what it counted still fits.
RoomInv ==
    /\ units \in [Enrolled -> Int]
    /\ DOMAIN quota = QuotaRequests /\ quota = [q \in QuotaRequests |-> quota[q]]
    /\ \A q \in QuotaRequests : QuotaRequest(quota[q])
    /\ \A p, q \in QuotaRequests : quota[p].pc # "idle" /\ quota[q].pc # "idle" => p = q
    /\ \A q \in QuotaRequests : quota[q].pc = "counted" => Entry!Taken + quota[q].units <= Capacity
    /\ Entry!Taken <= Capacity

\* The contributions of a member are those of the first months, alike, and nothing is
\* asked of who left.
DuesInv ==
    /\ participation \in [Enrolled -> Participations]
    /\ billed \in [Enrolled -> [1 .. Span -> Dues]]
    /\ DOMAIN entry = EntryRequests /\ entry = [e \in EntryRequests |-> entry[e]]
    /\ \A e \in EntryRequests : EntryRequest(entry[e])
    /\ Entry!DuesAreWhole /\ Entry!LeaversAreNotBilled

EntryInv == RoomInv /\ DuesInv

\* The units of the cycle are the sum of its members'.
LEMMA TakenIs == units \in [Enrolled -> Int] => Entry!Taken = SumFunctionOnSet(units, Enrolled)
<1>1. Entry!SumFunction(units) = SumFunction(units)
  BY DEF Entry!SumFunction, Entry!SumFunctionOnSet, Entry!FoldFunctionOnSet, Entry!MapThenFoldSet,
      SumFunction, SumFunctionOnSet, FoldFunctionOnSet, MapThenFoldSet
<1>2. units \in [Enrolled -> Int] => SumFunction(units) = SumFunctionOnSet(units, Enrolled)
  BY DEF SumFunction
<1> QED BY <1>1, <1>2 DEF Entry!Taken

\* Nobody is in the cycle at first.
LEMMA EntriesStart == ASSUME EntryAssumptions, Entry!Init PROVE EntryInv
<1>1. /\ units = [m \in Enrolled |-> 0] /\ participation = [m \in Enrolled |-> "none"]
      /\ billed = [m \in Enrolled |-> [k \in 1 .. Span |-> Entry!NoDue]]
      /\ quota = [q \in QuotaRequests |-> Entry!Free] /\ entry = [e \in EntryRequests |-> Entry!Away]
  BY DEF Entry!Init
<1>2. Entry!Taken = 0
  <2>1. units \in [Enrolled -> Int] /\ (\A x \in Enrolled : units[x] \in Int) /\ \A x \in Enrolled : units[x] = 0
    BY <1>1
  <2>2. SumFunctionOnSet(units, {}) = SumFunctionOnSet(units, Enrolled)
    BY <2>1, SumOfPart DEF EntryAssumptions
  <2> QED BY <2>1, <2>2, TakenIs, SumEmpty
<1>3. RoomInv
  <2>1. QuotaRequest(Entry!Free) /\ Entry!Free.pc = "idle"
    BY DEF QuotaRequest, Entry!Free
  <2>2. Entry!Taken <= Capacity
    BY <1>2 DEF EntryAssumptions
  <2> QED BY <1>1, <2>1, <2>2 DEF RoomInv
<1>4. DuesInv
  <2>1. EntryRequest(Entry!Away)
    BY DEF EntryRequest, Entry!Away
  <2>2. Entry!NoDue \in Dues /\ Entry!NoDue.status = "none"
    BY DEF Entry!NoDue, Dues
  <2>3. \A m \in Enrolled, k \in 1 .. Span : billed[m][k] = Entry!NoDue
    BY <1>1
  <2>4. Entry!DuesAreWhole /\ Entry!LeaversAreNotBilled
    BY <1>1, <2>2, <2>3 DEF Entry!DuesAreWhole, Entry!LeaversAreNotBilled
  <2>5. participation \in [Enrolled -> Participations] /\ billed \in [Enrolled -> [1 .. Span -> Dues]]
    BY <1>1, <2>2 DEF Participations
  <2> QED BY <1>1, <2>1, <2>4, <2>5 DEF DuesInv
<1> QED BY <1>3, <1>4 DEF EntryInv

\* The room of the cycle while its units stay: a request takes it up, or gives it back.
LEMMA RoomStays ==
    ASSUME RoomInv, UNCHANGED units,
           DOMAIN quota' = QuotaRequests, quota' = [q \in QuotaRequests |-> quota'[q]],
           \A q \in QuotaRequests : QuotaRequest(quota'[q]),
           \A p, q \in QuotaRequests : quota'[p].pc # "idle" /\ quota'[q].pc # "idle" => p = q,
           \A q \in QuotaRequests : quota'[q].pc = "counted" => Entry!Taken + quota'[q].units <= Capacity
    PROVE  RoomInv'
<1>1. Entry!Taken' = Entry!Taken
  BY DEF Entry!Taken, Entry!SumFunction
<1> QED BY <1>1 DEF RoomInv

\* The room of the cycle, whatever is done.
LEMMA RoomKept == ASSUME EntryAssumptions, EntryInv, [Entry!Next]_(Entry!vars) PROVE RoomInv'
<1>1. /\ units \in [Enrolled -> Int]
      /\ DOMAIN quota = QuotaRequests /\ quota = [q \in QuotaRequests |-> quota[q]]
      /\ \A q \in QuotaRequests : QuotaRequest(quota[q])
      /\ \A p, q \in QuotaRequests : quota[p].pc # "idle" /\ quota[q].pc # "idle" => p = q
      /\ \A q \in QuotaRequests : quota[q].pc = "counted" => Entry!Taken + quota[q].units <= Capacity
      /\ Entry!Taken <= Capacity /\ RoomInv
  BY DEF EntryInv, RoomInv
<1>2. Entry!Taken \in Int /\ Entry!Taken = SumFunctionOnSet(units, Enrolled)
  BY <1>1, TakenIs, SumInt DEF EntryAssumptions
<1>3. QuotaRequest(Entry!Free) /\ Entry!Free.pc = "idle"
  BY DEF QuotaRequest, Entry!Free
<1>4. ASSUME UNCHANGED <<units, quota>> PROVE RoomInv'
  BY <1>1, <1>4, RoomStays
<1>5. ASSUME NEW q \in QuotaRequests, UNCHANGED units, quota' = [quota EXCEPT ![q] = Entry!Free] PROVE RoomInv'
  <2>1. /\ DOMAIN quota' = QuotaRequests /\ quota' = [p \in QuotaRequests |-> quota'[p]]
        /\ quota'[q] = Entry!Free /\ \A p \in QuotaRequests : p # q => quota'[p] = quota[p]
    BY <1>1, <1>5
  <2> QED BY <1>1, <1>3, <1>5, <2>1, RoomStays
<1>6. ASSUME NEW q \in QuotaRequests, Entry!LockCycle(q) PROVE RoomInv'
  <2>1. PICK m \in Enrolled, n \in 1 .. Capacity :
          quota' = [quota EXCEPT ![q] = [pc |-> "cycle", member |-> m, units |-> n]]
    BY <1>6 DEF Entry!LockCycle
  <2>2. UNCHANGED units /\ \A p \in QuotaRequests : quota[p].pc = "idle"
    BY <1>6 DEF Entry!LockCycle, Entry!CycleIsLocked
  <2> DEFINE r == [pc |-> "cycle", member |-> m, units |-> n]
  <2>3. QuotaRequest(r) /\ r.pc = "cycle"
    BY DEF QuotaRequest, EntryAssumptions
  <2> HIDE DEF r
  <2>4. /\ DOMAIN quota' = QuotaRequests /\ quota' = [p \in QuotaRequests |-> quota'[p]]
        /\ quota'[q] = r /\ \A p \in QuotaRequests : p # q => quota'[p] = quota[p]
    BY <1>1, <2>1 DEF r
  <2> QED BY <1>1, <2>2, <2>3, <2>4, RoomStays
<1>7. ASSUME NEW q \in QuotaRequests, Entry!Count(q) PROVE RoomInv'
  <2>1. CASE Entry!MayTake(quota[q].member, quota[q].units)
    <3> DEFINE r == [quota[q] EXCEPT !.pc = "counted"]
    <3>1. UNCHANGED units /\ quota' = [quota EXCEPT ![q] = r] /\ quota[q].pc = "cycle"
      BY <1>7, <2>1 DEF Entry!Count
    <3>2. Entry!Taken + quota[q].units <= Capacity
      BY <2>1 DEF Entry!MayTake
    <3>3. QuotaRequest(quota[q])
      BY <1>1
    <3>4. QuotaRequest(r) /\ r.pc = "counted" /\ r.units = quota[q].units
      BY <3>1, <3>3 DEF QuotaRequest
    <3> HIDE DEF r
    <3>5. /\ DOMAIN quota' = QuotaRequests /\ quota' = [p \in QuotaRequests |-> quota'[p]]
          /\ quota'[q] = r /\ \A p \in QuotaRequests : p # q => quota'[p] = quota[p]
      BY <1>1, <3>1
    <3>6. \A p \in QuotaRequests : p # q => quota'[p].pc = "idle"
      BY <1>1, <3>1, <3>5
    <3> QED BY <1>1, <3>1, <3>2, <3>4, <3>5, <3>6, RoomStays
  <2>2. CASE ~Entry!MayTake(quota[q].member, quota[q].units)
    <3>1. UNCHANGED units /\ quota' = [quota EXCEPT ![q] = Entry!Free]
      BY <1>7, <2>2 DEF Entry!Count
    <3> QED BY <1>5, <3>1
  <2> QED BY <2>1, <2>2
<1>8. ASSUME NEW q \in QuotaRequests, Entry!Insert(q) PROVE RoomInv'
  <2> DEFINE x == quota[q].member
             n == quota[q].units
  <2>1. /\ quota[q].pc = "counted" /\ units' = [units EXCEPT ![x] = units[x] + n]
        /\ quota' = [quota EXCEPT ![q] = Entry!Free]
    BY <1>8 DEF Entry!Insert
  <2>2. x \in Enrolled /\ n \in Nat
    BY <1>1, <2>1 DEF QuotaRequest
  <2> HIDE DEF x, n
  <2>3. /\ units' \in [Enrolled -> Int] /\ units'[x] = units[x] + n
        /\ \A y \in Enrolled \ {x} : units'[y] = units[y]
    BY <1>1, <2>1, <2>2
  <2>4. Entry!Taken' = SumFunctionOnSet(units', Enrolled)
    <3>1. Entry!Taken' = Entry!SumFunction(units')
      BY DEF Entry!Taken
    <3>2. Entry!SumFunction(units') = SumFunction(units')
      BY DEF Entry!SumFunction, Entry!SumFunctionOnSet, Entry!FoldFunctionOnSet, Entry!MapThenFoldSet,
          SumFunction, SumFunctionOnSet, FoldFunctionOnSet, MapThenFoldSet
    <3> QED BY <2>3, <3>1, <3>2 DEF SumFunction
  <2>5. SumFunctionOnSet(units', Enrolled) = SumFunctionOnSet(units, Enrolled) + (units'[x] - units[x])
    <3>1. \A y \in Enrolled : units'[y] \in Int /\ units[y] \in Int
      BY <1>1, <2>3
    <3> QED BY <2>2, <2>3, <3>1, SumChanges DEF EntryAssumptions
  <2>6. Entry!Taken' = Entry!Taken + n
    <3>1. units[x] \in Int /\ units'[x] - units[x] = n
      BY <1>1, <2>2, <2>3
    <3> QED BY <1>2, <2>4, <2>5, <3>1
  <2>7. Entry!Taken' <= Capacity
    BY <1>1, <2>1, <2>6 DEF n
  <2>8. /\ DOMAIN quota' = QuotaRequests /\ quota' = [p \in QuotaRequests |-> quota'[p]]
        /\ quota'[q] = Entry!Free /\ \A p \in QuotaRequests : p # q => quota'[p] = quota[p]
    BY <1>1, <2>1
  <2>9. \A p \in QuotaRequests : quota'[p].pc = "idle" /\ QuotaRequest(quota'[p])
    BY <1>1, <1>3, <2>1, <2>8
  <2> QED BY <2>3, <2>7, <2>8, <2>9 DEF RoomInv
<1>9. CASE Entry!BreakDeadlock
  <2>1. PICK q \in QuotaRequests : quota' = [quota EXCEPT ![q] = Entry!Free] \/ UNCHANGED quota
    BY <1>9 DEF Entry!BreakDeadlock
  <2>2. UNCHANGED units
    BY <1>9 DEF Entry!BreakDeadlock
  <2> QED BY <1>4, <1>5, <2>1, <2>2
<1>10. ASSUME NEW e \in EntryRequests,
              Entry!Look(e) \/ Entry!LookDaily(e) \/ Entry!LockMember(e) \/ Entry!Enter(e) \/ Entry!Refuse(e)
       PROVE  RoomInv'
  BY <1>4, <1>10 DEF Entry!Look, Entry!LookDaily, Entry!LockMember, Entry!Enter, Entry!Refuse
<1>11. CASE Entry!Pay \/ Entry!Reverse \/ Entry!Exit \/ Entry!Tick
  BY <1>4, <1>11 DEF Entry!Pay, Entry!Reverse, Entry!Exit, Entry!Tick
<1>12. CASE UNCHANGED Entry!vars
  BY <1>4, <1>12 DEF Entry!vars
<1> QED BY <1>6, <1>7, <1>8, <1>9, <1>10, <1>11, <1>12 DEF Entry!Next

\* The contributions of one member, as one of them writes them.
WholeDues(m, p, mine) ==
    \A k \in 1 .. Span : mine[k].status # "none" =>
        /\ p # "none"
        /\ \A j \in 1 .. k : mine[j].status # "none" /\ mine[j].units = mine[k].units
LeftAlone(p, mine) == p \notin {"none", "ACTIVE"} => \A k \in 1 .. Span : mine[k].status = "PENDING" => mine[k].undone

\* A step that changes one member's contributions and status.
LEMMA DuesOf ==
    ASSUME DuesInv, NEW m \in Enrolled, NEW p \in Participations, NEW mine \in [1 .. Span -> Dues],
           WholeDues(m, p, mine), LeftAlone(p, mine),
           participation' = [participation EXCEPT ![m] = p], billed' = [billed EXCEPT ![m] = mine],
           DOMAIN entry' = EntryRequests, entry' = [e \in EntryRequests |-> entry'[e]],
           \A e \in EntryRequests : EntryRequest(entry'[e])
    PROVE  DuesInv'
<1>1. /\ participation \in [Enrolled -> Participations] /\ billed \in [Enrolled -> [1 .. Span -> Dues]]
      /\ Entry!DuesAreWhole /\ Entry!LeaversAreNotBilled
  BY DEF DuesInv
<1>2. participation' \in [Enrolled -> Participations] /\ billed' \in [Enrolled -> [1 .. Span -> Dues]]
  BY <1>1
<1>3. /\ participation'[m] = p /\ billed'[m] = mine
      /\ \A n \in Enrolled : n # m => participation'[n] = participation[n] /\ billed'[n] = billed[n]
  BY <1>1
<1>4. \A n \in Enrolled : WholeDues(n, participation[n], billed[n]) /\ LeftAlone(participation[n], billed[n])
  BY <1>1 DEF Entry!DuesAreWhole, Entry!LeaversAreNotBilled, WholeDues, LeftAlone
<1>5. \A n \in Enrolled : WholeDues(n, participation'[n], billed'[n]) /\ LeftAlone(participation'[n], billed'[n])
  BY <1>3, <1>4
<1>6. Entry!DuesAreWhole' /\ Entry!LeaversAreNotBilled'
  BY <1>5 DEF Entry!DuesAreWhole, Entry!LeaversAreNotBilled, WholeDues, LeftAlone
<1> QED BY <1>2, <1>6 DEF DuesInv

\* A step that changes what an entry is doing.
LEMMA DuesStay ==
    ASSUME DuesInv, UNCHANGED <<participation, billed>>,
           DOMAIN entry' = EntryRequests, entry' = [e \in EntryRequests |-> entry'[e]],
           \A e \in EntryRequests : EntryRequest(entry'[e])
    PROVE  DuesInv'
<1>1. Entry!DuesAreWhole' <=> Entry!DuesAreWhole
  BY DEF Entry!DuesAreWhole
<1>2. Entry!LeaversAreNotBilled' <=> Entry!LeaversAreNotBilled
  BY DEF Entry!LeaversAreNotBilled
<1> QED BY <1>1, <1>2 DEF DuesInv

\* The months before one of the cycle's are the cycle's.
LEMMA FirstMonths == ASSUME EntryAssumptions PROVE \A k \in 1 .. Span : \A j \in 1 .. k : j \in 1 .. Span /\ j <= k /\ 1 \in 1 .. k
  BY DEF EntryAssumptions

\* Cancelling keeps them whole, and leaves nothing pending.
LEMMA CancelledDues ==
    ASSUME EntryAssumptions, NEW m, NEW p, NEW r, r # "none", NEW mine \in [1 .. Span -> Dues],
           WholeDues(m, p, mine)
    PROVE  /\ Entry!Cancelled(mine) \in [1 .. Span -> Dues]
           /\ WholeDues(m, r, Entry!Cancelled(mine)) /\ LeftAlone(r, Entry!Cancelled(mine))
<1> DEFINE c == Entry!Cancelled(mine)
<1>1. c = [k \in 1 .. Span |-> IF mine[k].status = "PENDING" THEN [mine[k] EXCEPT !.status = "CANCELLED"] ELSE mine[k]]
  BY DEF Entry!Cancelled
<1>2. ASSUME NEW k \in 1 .. Span
      PROVE  /\ c[k] \in Dues /\ c[k].units = mine[k].units /\ c[k].status # "PENDING"
             /\ c[k].status = "none" <=> mine[k].status = "none"
  <2>1. mine[k] \in Dues
    OBVIOUS
  <2>2. CASE mine[k].status = "PENDING"
    <3>1. c[k] = [mine[k] EXCEPT !.status = "CANCELLED"]
      BY <1>1, <2>2
    <3>2. c[k].status = "CANCELLED" /\ c[k].units = mine[k].units /\ c[k] \in Dues
      BY <2>1, <3>1 DEF Dues
    <3> QED BY <2>2, <3>2
  <2>3. CASE mine[k].status # "PENDING"
    BY <1>1, <2>1, <2>3
  <2> QED BY <2>2, <2>3
<1>3. c \in [1 .. Span -> Dues]
  BY <1>1, <1>2
<1> HIDE DEF c
<1>4. \A k \in 1 .. Span : \A j \in 1 .. k : j \in 1 .. Span
  BY FirstMonths
<1>5. WholeDues(m, r, c) /\ LeftAlone(r, c)
  BY <1>2, <1>4 DEF WholeDues, LeftAlone
<1> QED BY <1>3, <1>5 DEF c

\* So does what an entry bills, at the price of what is already there.
LEMMA BilledDues ==
    ASSUME EntryAssumptions, EntryInv, NEW m \in Enrolled, NEW d \in Nat \ {0}, Entry!Priced(m, d), NEW r, r # "none"
    PROVE  Entry!Billed(m, d) \in [1 .. Span -> Dues] /\ WholeDues(m, r, Entry!Billed(m, d))
<1> DEFINE b == Entry!Billed(m, d)
           old == billed[m]
           u == units[m]
<1>1. b = [k \in 1 .. Span |-> IF k <= d /\ old[k].status = "none"
                               THEN [status |-> "PENDING", units |-> u, undone |-> FALSE] ELSE old[k]]
  BY DEF Entry!Billed
<1>2. old \in [1 .. Span -> Dues] /\ u \in Int
  BY DEF EntryInv, RoomInv, DuesInv
<1>3. WholeDues(m, participation[m], old)
  BY DEF EntryInv, DuesInv, Entry!DuesAreWhole, WholeDues
<1>4. \A k \in 1 .. Span : k <= d /\ old[k].status # "none" => old[k].units = u
  BY DEF Entry!Priced
<1>5. ASSUME NEW k \in 1 .. Span
      PROVE  /\ b[k] \in Dues
             /\ k <= d /\ old[k].status = "none" => b[k].status = "PENDING" /\ b[k].units = u
             /\ ~(k <= d /\ old[k].status = "none") => b[k] = old[k]
  <2>1. CASE k <= d /\ old[k].status = "none"
    <3>1. b[k] = [status |-> "PENDING", units |-> u, undone |-> FALSE]
      BY <1>1, <2>1
    <3> HIDE DEF b, old, u
    <3> QED BY <1>2, <2>1, <3>1 DEF Dues
  <2>2. CASE ~(k <= d /\ old[k].status = "none")
    <3>1. b[k] = old[k]
      BY <1>1, <2>2
    <3> HIDE DEF b, old, u
    <3> QED BY <1>2, <2>2, <3>1
  <2> QED BY <2>1, <2>2
<1>6. b \in [1 .. Span -> Dues]
  BY <1>1, <1>5
<1>7. ASSUME NEW k \in 1 .. Span, b[k].status # "none" PROVE b[k].units = u
  <2>1. CASE k <= d
    BY <1>4, <1>5, <1>7, <2>1
  <2>2. CASE ~(k <= d)
    <3>1. b[k] = old[k] /\ old[k].status # "none"
      BY <1>5, <1>7, <2>2
    <3>2. 1 \in 1 .. k /\ 1 \in 1 .. Span /\ 1 <= d
      BY DEF EntryAssumptions
    <3>3. old[1].status # "none" /\ old[1].units = old[k].units
      BY <1>3, <3>1, <3>2 DEF WholeDues
    <3> QED BY <1>4, <3>1, <3>2, <3>3
  <2> QED BY <2>1, <2>2
<1>8. ASSUME NEW k \in 1 .. Span, b[k].status # "none", NEW j \in 1 .. k PROVE b[j].status # "none"
  <2>1. j \in 1 .. Span /\ j <= k
    BY DEF EntryAssumptions
  <2>2. CASE k <= d
    <3>1. j <= d
      BY <2>1, <2>2
    <3> QED BY <1>5, <2>1, <3>1
  <2>3. CASE ~(k <= d)
    <3>1. b[k] = old[k]
      BY <1>5, <2>3
    <3>2. old[j].status # "none"
      BY <1>3, <1>8, <3>1 DEF WholeDues
    <3> QED BY <1>5, <2>1, <3>2
  <2> QED BY <2>2, <2>3
<1>9. \A k \in 1 .. Span : \A j \in 1 .. k : j \in 1 .. Span
  BY FirstMonths
<1> HIDE DEF b, old, u
<1>10. WholeDues(m, r, b)
  BY <1>7, <1>8, <1>9 DEF WholeDues
<1> QED BY <1>6, <1>10 DEF b

\* The contributions, whatever is done.
LEMMA DuesKept == ASSUME EntryAssumptions, EntryInv, [Entry!Next]_(Entry!vars) PROVE DuesInv'
<1>1. /\ DOMAIN entry = EntryRequests /\ entry = [e \in EntryRequests |-> entry[e]]
      /\ \A e \in EntryRequests : EntryRequest(entry[e])
      /\ DuesInv
  BY DEF EntryInv, DuesInv
<1>2. participation \in [Enrolled -> Participations] /\ billed \in [Enrolled -> [1 .. Span -> Dues]]
  BY <1>1 DEF DuesInv
<1>3. \A m \in Enrolled : WholeDues(m, participation[m], billed[m]) /\ LeftAlone(participation[m], billed[m])
  BY <1>1 DEF DuesInv, Entry!DuesAreWhole, Entry!LeaversAreNotBilled, WholeDues, LeftAlone
<1>4. EntryRequest(Entry!Away)
  BY DEF EntryRequest, Entry!Away
<1>5. ASSUME UNCHANGED <<participation, billed, entry>> PROVE DuesInv'
  BY <1>1, <1>5, DuesStay
<1>6. ASSUME NEW e \in EntryRequests, NEW r, EntryRequest(r), entry' = [entry EXCEPT ![e] = r]
      PROVE  /\ DOMAIN entry' = EntryRequests /\ entry' = [f \in EntryRequests |-> entry'[f]]
             /\ \A f \in EntryRequests : EntryRequest(entry'[f])
  BY <1>1, <1>6
<1>7. ASSUME NEW e \in EntryRequests, NEW r, EntryRequest(r), entry' = [entry EXCEPT ![e] = r],
             UNCHANGED <<participation, billed>>
      PROVE  DuesInv'
  BY <1>1, <1>6, <1>7, DuesStay
<1>8. ASSUME NEW e \in EntryRequests, Entry!Look(e) PROVE DuesInv'
  <2>1. PICK m \in Enrolled, d \in 1 .. Horizon :
          /\ entry' = [entry EXCEPT ![e] = [pc |-> "looked", member |-> m, date |-> d, daily |-> FALSE]]
          /\ UNCHANGED <<participation, billed>>
    BY <1>8 DEF Entry!Look
  <2>2. EntryRequest([pc |-> "looked", member |-> m, date |-> d, daily |-> FALSE])
    BY DEF EntryRequest
  <2> QED BY <1>7, <2>1, <2>2
<1>9. ASSUME NEW e \in EntryRequests, Entry!LookDaily(e) PROVE DuesInv'
  <2>1. PICK m \in Enrolled, d \in 1 .. month :
          /\ entry' = [entry EXCEPT ![e] = [pc |-> "looked", member |-> m, date |-> d, daily |-> TRUE]]
          /\ UNCHANGED <<participation, billed>>
    BY <1>9 DEF Entry!LookDaily
  <2>2. EntryRequest([pc |-> "looked", member |-> m, date |-> d, daily |-> TRUE])
    BY DEF EntryRequest
  <2> QED BY <1>7, <2>1, <2>2
<1>10. ASSUME NEW e \in EntryRequests, Entry!LockMember(e) PROVE DuesInv'
  <2> DEFINE r == [entry[e] EXCEPT !.pc = "locked"]
  <2>1. entry[e].pc = "looked" /\ entry' = [entry EXCEPT ![e].pc = "locked"] /\ UNCHANGED <<participation, billed>>
    BY <1>10 DEF Entry!LockMember
  <2>2. EntryRequest(entry[e])
    BY <1>1
  <2>3. EntryRequest(r)
    BY <2>1, <2>2 DEF EntryRequest
  <2>4. entry' = [entry EXCEPT ![e] = r]
    BY <2>1
  <2> HIDE DEF r
  <2> QED BY <1>7, <2>1, <2>3, <2>4
<1>11. ASSUME NEW e \in EntryRequests, Entry!Enter(e) PROVE DuesInv'
  <2> DEFINE m == entry[e].member
             d == entry[e].date
             mine == Entry!Billed(m, d)
             blocks == entry[e].daily /\ Entry!InArrears(mine, d)
             p == IF blocks THEN "BLOCKED_DELINQUENCY"
                  ELSE IF participation[m] = "none" THEN "ACTIVE" ELSE participation[m]
             new == IF blocks THEN Entry!Cancelled(mine) ELSE mine
  <2>1. /\ entry[e].pc = "locked" /\ Entry!Admitted(m) /\ Entry!Priced(m, d)
        /\ participation' = [participation EXCEPT ![m] = p] /\ billed' = [billed EXCEPT ![m] = new]
        /\ entry' = [entry EXCEPT ![e] = Entry!Away]
    BY <1>11 DEF Entry!Enter
  <2>2. m \in Enrolled /\ d \in Nat \ {0}
    BY <1>1, <2>1 DEF EntryRequest
  <2>3. participation[m] \in {"none", "ACTIVE"}
    BY <2>1 DEF Entry!Admitted
  <2> HIDE DEF m, d
  <2>4. mine \in [1 .. Span -> Dues] /\ \A r : r # "none" => WholeDues(m, r, mine)
    BY <2>1, <2>2, BilledDues
  <2>5. CASE blocks
    <3>1. p = "BLOCKED_DELINQUENCY" /\ new = Entry!Cancelled(mine)
      BY <2>5
    <3>2. p \in Participations /\ p # "none"
      BY <3>1 DEF Participations
    <3> HIDE DEF mine, blocks, p, new
    <3>3. WholeDues(m, "ACTIVE", mine)
      BY <2>4
    <3>4. new \in [1 .. Span -> Dues] /\ WholeDues(m, p, new) /\ LeftAlone(p, new)
      BY <2>4, <3>1, <3>2, <3>3, CancelledDues
    <3> QED BY <1>1, <1>4, <1>6, <2>1, <2>2, <3>2, <3>4, DuesOf
  <2>6. CASE ~blocks
    <3>1. p = "ACTIVE" /\ new = mine
      BY <2>3, <2>6
    <3>2. p \in Participations /\ p # "none"
      BY <3>1 DEF Participations
    <3> HIDE DEF mine, blocks, p, new
    <3>3. new \in [1 .. Span -> Dues] /\ WholeDues(m, p, new) /\ LeftAlone(p, new)
      BY <2>4, <3>1, <3>2 DEF LeftAlone
    <3> QED BY <1>1, <1>4, <1>6, <2>1, <2>2, <3>2, <3>3, DuesOf
  <2> QED BY <2>5, <2>6
<1>12. ASSUME NEW e \in EntryRequests, Entry!Refuse(e) PROVE DuesInv'
  BY <1>4, <1>7, <1>12 DEF Entry!Refuse
<1>13. CASE Entry!BreakDeadlock
  <2>1. PICK e \in EntryRequests : entry' = [entry EXCEPT ![e] = Entry!Away] \/ UNCHANGED entry
    BY <1>13 DEF Entry!BreakDeadlock
  <2>2. UNCHANGED <<participation, billed>>
    BY <1>13 DEF Entry!BreakDeadlock
  <2> QED BY <1>4, <1>5, <1>7, <2>1, <2>2
<1>14. ASSUME NEW m \in Enrolled, NEW k \in 1 .. Span, NEW to \in {"PENDING", "PAID"}, NEW again \in BOOLEAN,
              billed[m][k].status # "none", to = "PENDING" => again,
              Entry!SetDue(m, k, to, again), UNCHANGED <<participation, entry>>
       PROVE  DuesInv'
  <2> DEFINE x == [status |-> to, units |-> billed[m][k].units, undone |-> again]
             new == [billed[m] EXCEPT ![k] = x]
  <2>1. billed' = [billed EXCEPT ![m] = new]
    BY <1>14 DEF Entry!SetDue
  <2>2. billed[m] \in [1 .. Span -> Dues] /\ billed[m][k] \in Dues
    BY <1>2
  <2>3. x \in Dues /\ x.status # "none" /\ x.units = billed[m][k].units /\ (x.status = "PENDING" => x.undone)
    BY <1>14, <2>2 DEF Dues
  <2> HIDE DEF x
  <2>4. /\ new \in [1 .. Span -> Dues] /\ new[k] = x /\ \A j \in 1 .. Span : j # k => new[j] = billed[m][j]
    BY <2>2, <2>3
  <2> HIDE DEF new
  <2>5. \A j \in 1 .. Span : new[j].units = billed[m][j].units
                             /\ (new[j].status = "none" <=> billed[m][j].status = "none")
    BY <1>14, <2>3, <2>4
  <2>6. \A i \in 1 .. Span : \A j \in 1 .. i : j \in 1 .. Span
    BY FirstMonths
  <2>7. WholeDues(m, participation[m], new)
    BY <1>3, <2>5, <2>6 DEF WholeDues
  <2>8. LeftAlone(participation[m], new)
    BY <1>3, <2>3, <2>4 DEF LeftAlone
  <2>9. participation' = [participation EXCEPT ![m] = participation[m]] /\ participation[m] \in Participations
    BY <1>2, <1>14
  <2>10. /\ DOMAIN entry' = EntryRequests /\ entry' = [e \in EntryRequests |-> entry'[e]]
         /\ \A e \in EntryRequests : EntryRequest(entry'[e])
    BY <1>1, <1>14
  <2> QED BY <1>1, <2>1, <2>4, <2>7, <2>8, <2>9, <2>10, DuesOf
<1>15. CASE Entry!Pay
  <2>1. PICK m \in Enrolled, k \in 1 .. Span :
          /\ billed[m][k].status = "PENDING" /\ Entry!SetDue(m, k, "PAID", billed[m][k].undone)
          /\ UNCHANGED <<participation, entry>>
    BY <1>15 DEF Entry!Pay
  <2>2. billed[m][k].undone \in BOOLEAN
    <3>1. billed[m][k] \in Dues
      BY <1>2
    <3> QED BY <3>1 DEF Dues
  <2> QED BY <1>14, <2>1, <2>2
<1>16. CASE Entry!Reverse
  <2>1. PICK m \in Enrolled, k \in 1 .. Span :
          /\ billed[m][k].status = "PAID" /\ Entry!SetDue(m, k, "PENDING", TRUE)
          /\ UNCHANGED <<participation, entry>>
    BY <1>16 DEF Entry!Reverse
  <2> QED BY <1>14, <2>1
<1>17. CASE Entry!Exit
  <2>1. PICK m \in Enrolled :
          /\ participation[m] \in {"none", "ACTIVE"}
          /\ participation' = [participation EXCEPT ![m] = "VOLUNTARILY_EXITED"]
          /\ billed' = [billed EXCEPT ![m] = Entry!Cancelled(billed[m])]
          /\ UNCHANGED entry
    BY <1>17 DEF Entry!Exit
  <2>2. "VOLUNTARILY_EXITED" \in Participations /\ "VOLUNTARILY_EXITED" # "none"
    BY DEF Participations
  <2>3. billed[m] \in [1 .. Span -> Dues] /\ WholeDues(m, participation[m], billed[m])
    BY <1>2, <1>3
  <2>4. /\ Entry!Cancelled(billed[m]) \in [1 .. Span -> Dues]
        /\ WholeDues(m, "VOLUNTARILY_EXITED", Entry!Cancelled(billed[m]))
        /\ LeftAlone("VOLUNTARILY_EXITED", Entry!Cancelled(billed[m]))
    BY <2>2, <2>3, CancelledDues
  <2>5. /\ DOMAIN entry' = EntryRequests /\ entry' = [e \in EntryRequests |-> entry'[e]]
        /\ \A e \in EntryRequests : EntryRequest(entry'[e])
    BY <1>1, <2>1
  <2> QED BY <1>1, <2>1, <2>2, <2>4, <2>5, DuesOf
<1>18. ASSUME NEW q \in QuotaRequests, Entry!LockCycle(q) \/ Entry!Count(q) \/ Entry!Insert(q) PROVE DuesInv'
  BY <1>5, <1>18 DEF Entry!LockCycle, Entry!Count, Entry!Insert
<1>19. CASE Entry!Tick \/ UNCHANGED Entry!vars
  BY <1>5, <1>19 DEF Entry!Tick, Entry!vars
<1> QED BY <1>8, <1>9, <1>10, <1>11, <1>12, <1>13, <1>15, <1>16, <1>17, <1>18, <1>19 DEF Entry!Next

\* Both are kept, and make the entries sound.
LEMMA EntriesKeep == ASSUME EntryAssumptions, EntryInv, [Entry!Next]_(Entry!vars) PROVE EntryInv'
  BY RoomKept, DuesKept DEF EntryInv

\* They are sound.
LEMMA EntriesSound == EntryInv => Entry!EntriesAreSound
  BY DEF EntryInv, RoomInv, DuesInv, Entry!EntriesAreSound, Entry!CapacityHolds

\* Quotas that are asked for at once stay within the cycle's, each member owes the same
\* for its first months, and who left or is blocked is asked for nothing more
\* (cycle_foundation.py, cycle_participation.py), for any members, months and requests.
THEOREM EntriesHold == ASSUME EntryAssumptions PROVE Entry!Spec => []Entry!EntriesAreSound
<1>1. Entry!Init => EntryInv
  BY EntriesStart
<1>2. EntryInv /\ [Entry!Next]_(Entry!vars) => EntryInv'
  BY EntriesKeep
<1>3. EntryInv => Entry!EntriesAreSound
  BY EntriesSound
<1> QED BY <1>1, <1>2, <1>3, PTL DEF Entry!Spec

-----------------------------------------------------------------------------
(* The reconciliation of the months and their closing.                      *)

Monthly == INSTANCE MonthlyBooks WITH
    Payments <- Bills, Kinds <- Purposes, Loans <- Lent, Expenses <- Costs, MaxRows <- MaxEntries,
    now <- today, payment <- bill, ledger <- book, expense <- spent, closed <- shut

\* A payment is for one of three things, and there are finitely many payments and
\* expenses and some month.
MonthAssumptions ==
    /\ IsFiniteSet(Bills) /\ IsFiniteSet(Costs)
    /\ LastMonth \in Nat \ {0}
    /\ \A k \in Purposes : \A p \in Bills :
          k[p] \in {"CONTRIBUTION", "LOAN_INSTALLMENT", "AGREEMENT_INSTALLMENT"}

Uses == {"CONTRIBUTION", "LOAN_INSTALLMENT", "AGREEMENT_INSTALLMENT"}
Stages == {"none", "charged", "paid", "notified", "settled", "reversed"}
Done == {"settled", "reversed"}
BookRows ==
    [type : {"CONTRIBUTION_PAYMENT", "LOAN_INTEREST_PAYMENT", "AGREEMENT_INSTALLMENT_PAYMENT",
             "REVERSAL", "EXPENSE", "LOAN_DISBURSEMENT"},
     ref : Bills \cup Costs \cup Lent \cup Nat, direction : {"CREDIT", "DEBIT"},
     reversalOf : Nat, month : Nat]

\* The row that a settlement writes, the rows of a type and a number, those of a
\* number, and those that take a row back.
TypeOf(k) == Monthly!RowType[k]
IsTyped(r, t, n) == r.type = t /\ r.ref = n
IsNumbered(r, n) == r.ref = n
Undoes(r, i) == r.reversalOf = i
Typed(b, t, n) == {i \in DOMAIN b : IsTyped(b[i], t, n)}
Numbered(b, n) == {i \in DOMAIN b : IsNumbered(b[i], n)}
Undo(b, i) == {j \in DOMAIN b : Undoes(b[j], i)}
OwnRows(b, q, p) == Typed(b, TypeOf(q.kind), p)

\* A book of the months up to d, in which a row is taken back once.
SoundBook(b, d) ==
    /\ b \in Seq(BookRows)
    /\ \A i \in DOMAIN b : /\ b[i].month \in 1 .. d
                           /\ b[i].type = "REVERSAL" <=> b[i].reversalOf # 0
                           /\ b[i].type = "EXPENSE" => b[i].ref \in Costs
    /\ \A i, j \in DOMAIN b : b[i].reversalOf = b[j].reversalOf /\ b[i].reversalOf # 0 => i = j

\* A payment has these fields.
IsBill(q) ==
    q = [kind |-> q.kind, stage |-> q.stage, created |-> q.created, paid |-> q.paid,
         receipt |-> q.receipt, reversed |-> q.reversed]

\* A payment q of number p: one row from its settlement on, which is taken back when
\* it is reversed, and is among those of its receipt.
SoundBill(q, p, b, d) ==
    /\ IsBill(q) /\ q.kind \in Uses /\ q.stage \in Stages
    /\ q.stage \in {"paid", "notified", "settled", "reversed"} => q.paid \in 1 .. d
    /\ IF q.stage = "reversed" THEN q.reversed \in 1 .. d ELSE q.reversed = 0
    /\ q.stage \notin Done => OwnRows(b, q, p) = {}
    /\ q.stage \in Done => /\ \E i : OwnRows(b, q, p) = {i} /\ (q.stage = "reversed" => Undo(b, i) # {})
                           /\ OwnRows(b, q, p) \subseteq q.receipt
                           /\ q.receipt \subseteq Numbered(b, p)

\* An expense x that is dated m.
SoundCost(m, x, b) ==
    /\ m \in 0 .. LastMonth
    /\ m = 0 => Typed(b, "EXPENSE", x) = {}
    /\ m # 0 => \E i : Typed(b, "EXPENSE", x) = {i}

BooksInv ==
    /\ today \in 1 .. LastMonth
    /\ SoundBook(book, today)
    /\ DOMAIN bill = Bills /\ bill = [p \in Bills |-> bill[p]]
    /\ \A p \in Bills : SoundBill(bill[p], p, book, today)
    /\ DOMAIN spent = Costs /\ spent = [x \in Costs |-> spent[x]]
    /\ \A x \in Costs : SoundCost(spent[x], x, book)
    /\ \A i \in DOMAIN book : book[i].type = "CONTRIBUTION_PAYMENT" =>
          book[i].ref \in Bills /\ bill[book[i].ref].kind = "CONTRIBUTION"

\* The types of the rows of payments are different, and no other row has them.
LEMMA TypesDiffer ==
    /\ TypeOf("CONTRIBUTION") = "CONTRIBUTION_PAYMENT"
    /\ TypeOf("LOAN_INSTALLMENT") = "LOAN_INTEREST_PAYMENT"
    /\ TypeOf("AGREEMENT_INSTALLMENT") = "AGREEMENT_INSTALLMENT_PAYMENT"
    /\ DOMAIN Monthly!RowType = Uses
    /\ \A k \in Uses : TypeOf(k) \in {"CONTRIBUTION_PAYMENT", "LOAN_INTEREST_PAYMENT", "AGREEMENT_INSTALLMENT_PAYMENT"}
    /\ \A k \in Uses : TypeOf(k) = "CONTRIBUTION_PAYMENT" => k = "CONTRIBUTION"
  BY DEF TypeOf, Monthly!RowType, Monthly!PaymentRow, Uses

\* What the books say by these names.
LEMMA BookNames ==
    /\ \A n : Monthly!NumberedAs(book, n) = Numbered(book, n)
    /\ \A t, n : Monthly!Written(t, n) = Typed(book, t, n)
    /\ \A p : Monthly!Own(p) = OwnRows(book, bill[p], p)
    /\ \A i : Monthly!ReversalsOf(book, i) = Undo(book, i)
  BY DEF Monthly!NumberedAs, Numbered, IsNumbered, Monthly!Written, Typed, IsTyped, Monthly!Own,
      OwnRows, TypeOf, Monthly!KindOf, Monthly!ReversalsOf, Undo, Undoes

\* A row more.
LEMMA RowMore ==
    ASSUME NEW R, NEW b \in Seq(R), NEW r \in R
    PROVE  LET c == Append(b, r)
               n == Len(b) + 1
           IN  /\ c \in Seq(R) /\ n \in Nat \ {0}
               /\ DOMAIN c = DOMAIN b \cup {n} /\ n \notin DOMAIN b
               /\ c[n] = r /\ \A i \in DOMAIN b : c[i] = b[i]
               /\ \A t, k : Typed(c, t, k) = IF IsTyped(r, t, k) THEN Typed(b, t, k) \cup {n} ELSE Typed(b, t, k)
               /\ \A k : Numbered(c, k) = IF IsNumbered(r, k) THEN Numbered(b, k) \cup {n} ELSE Numbered(b, k)
               /\ \A i : Undo(c, i) = IF Undoes(r, i) THEN Undo(b, i) \cup {n} ELSE Undo(b, i)
<1> DEFINE c == Append(b, r)
           n == Len(b) + 1
<1>1. c \in Seq(R) /\ n \in Nat \ {0} /\ Len(c) = n /\ DOMAIN b = 1 .. Len(b) /\ DOMAIN c = 1 .. Len(c)
  OBVIOUS
<1>2. DOMAIN c = DOMAIN b \cup {n} /\ n \notin DOMAIN b
  BY <1>1
<1>3. c[n] = r /\ \A i \in DOMAIN b : c[i] = b[i]
  BY <1>1
<1> HIDE DEF c, n
<1>4. \A t, k : Typed(c, t, k) = IF IsTyped(r, t, k) THEN Typed(b, t, k) \cup {n} ELSE Typed(b, t, k)
  BY <1>2, <1>3 DEF Typed
<1>5. \A k : Numbered(c, k) = IF IsNumbered(r, k) THEN Numbered(b, k) \cup {n} ELSE Numbered(b, k)
  BY <1>2, <1>3 DEF Numbered
<1>6. \A i : Undo(c, i) = IF Undoes(r, i) THEN Undo(b, i) \cup {n} ELSE Undo(b, i)
  BY <1>2, <1>3 DEF Undo
<1> QED BY <1>1, <1>2, <1>3, <1>4, <1>5, <1>6 DEF c, n

\* The book with a row more of this month.
LEMMA BookGrows ==
    ASSUME NEW d \in Nat \ {0}, NEW b, SoundBook(b, d), NEW r \in BookRows, r.month = d,
           r.type = "REVERSAL" <=> r.reversalOf # 0, r.type = "EXPENSE" => r.ref \in Costs,
           r.reversalOf # 0 => Undo(b, r.reversalOf) = {}
    PROVE  SoundBook(Append(b, r), d)
<1>1. b \in Seq(BookRows)
  BY DEF SoundBook
<1> DEFINE c == Append(b, r)
           n == Len(b) + 1
<1>2. /\ c \in Seq(BookRows) /\ DOMAIN c = DOMAIN b \cup {n} /\ n \notin DOMAIN b
      /\ c[n] = r /\ \A i \in DOMAIN b : c[i] = b[i]
  BY <1>1, RowMore
<1> HIDE DEF c, n
<1>3. \A i \in DOMAIN b : r.reversalOf # 0 => b[i].reversalOf # r.reversalOf
  BY DEF Undo, Undoes
<1>4. \A i, j \in DOMAIN c : c[i].reversalOf = c[j].reversalOf /\ c[i].reversalOf # 0 => i = j
  BY <1>2, <1>3 DEF SoundBook
<1>5. \A i \in DOMAIN c : /\ c[i].month \in 1 .. d
                          /\ c[i].type = "REVERSAL" <=> c[i].reversalOf # 0
                          /\ c[i].type = "EXPENSE" => c[i].ref \in Costs
  BY <1>2 DEF SoundBook
<1> QED BY <1>2, <1>4, <1>5 DEF SoundBook, c

\* A payment while the book grows by rows that are not its own.
LEMMA BillStays ==
    ASSUME NEW b \in Seq(BookRows), NEW r \in BookRows, NEW d \in Nat, NEW p, NEW q, SoundBill(q, p, b, d),
           ~IsTyped(r, TypeOf(q.kind), p)
    PROVE  SoundBill(q, p, Append(b, r), d)
<1> DEFINE c == Append(b, r)
<1>1. /\ \A t, k : ~IsTyped(r, t, k) => Typed(c, t, k) = Typed(b, t, k)
      /\ \A k : Numbered(b, k) \subseteq Numbered(c, k)
      /\ \A i : Undo(b, i) \subseteq Undo(c, i)
  <2> DEFINE n == Len(b) + 1
  <2>1. /\ \A t, k : Typed(c, t, k) = IF IsTyped(r, t, k) THEN Typed(b, t, k) \cup {n} ELSE Typed(b, t, k)
        /\ \A k : Numbered(c, k) = IF IsNumbered(r, k) THEN Numbered(b, k) \cup {n} ELSE Numbered(b, k)
        /\ \A i : Undo(c, i) = IF Undoes(r, i) THEN Undo(b, i) \cup {n} ELSE Undo(b, i)
    BY RowMore
  <2> HIDE DEF c, n
  <2> QED BY <2>1
<1> HIDE DEF c
<1>2. OwnRows(c, q, p) = OwnRows(b, q, p)
  BY <1>1 DEF OwnRows
<1>3. q.stage \in Done =>
        /\ \E i : OwnRows(c, q, p) = {i} /\ (q.stage = "reversed" => Undo(c, i) # {})
        /\ OwnRows(c, q, p) \subseteq q.receipt
        /\ q.receipt \subseteq Numbered(c, p)
  <2> SUFFICES ASSUME q.stage \in Done
               PROVE  /\ \E i : OwnRows(c, q, p) = {i} /\ (q.stage = "reversed" => Undo(c, i) # {})
                      /\ OwnRows(c, q, p) \subseteq q.receipt
                      /\ q.receipt \subseteq Numbered(c, p)
    OBVIOUS
  <2>1. PICK i : OwnRows(b, q, p) = {i} /\ (q.stage = "reversed" => Undo(b, i) # {})
    BY DEF SoundBill
  <2>2. OwnRows(c, q, p) = {i} /\ (q.stage = "reversed" => Undo(c, i) # {})
    BY <1>1, <1>2, <2>1
  <2>3. OwnRows(b, q, p) \subseteq q.receipt /\ q.receipt \subseteq Numbered(b, p)
    BY DEF SoundBill
  <2> QED BY <1>1, <1>2, <2>2, <2>3
<1>4. SoundBill(q, p, c, d)
  BY <1>2, <1>3 DEF SoundBill
<1> QED BY <1>4 DEF c

\* An expense while the book grows by rows that are not its own.
LEMMA CostStays ==
    ASSUME NEW b \in Seq(BookRows), NEW r \in BookRows, NEW x, NEW m, SoundCost(m, x, b),
           ~IsTyped(r, "EXPENSE", x)
    PROVE  SoundCost(m, x, Append(b, r))
<1> DEFINE c == Append(b, r)
<1>1. \A t, k : ~IsTyped(r, t, k) => Typed(c, t, k) = Typed(b, t, k)
  BY RowMore
<1> HIDE DEF c
<1>2. SoundCost(m, x, c)
  BY <1>1 DEF SoundCost
<1> QED BY <1>2 DEF c

\* The books are empty at first.
LEMMA BooksStart == ASSUME MonthAssumptions, Monthly!Init PROVE BooksInv
<1>1. PICK k \in Purposes : bill = [p \in Bills |-> Monthly!NoPayment(k[p])]
  BY DEF Monthly!Init
<1>2. today = 1 /\ book = <<>> /\ spent = [x \in Costs |-> 0]
  BY DEF Monthly!Init
<1>3. DOMAIN book = {} /\ book \in Seq(BookRows)
  BY <1>2
<1>4. SoundBook(book, today)
  BY <1>3 DEF SoundBook
<1>5. ASSUME NEW p \in Bills PROVE SoundBill(bill[p], p, book, today)
  <2>1. bill[p] = [kind |-> k[p], stage |-> "none", created |-> 0, paid |-> 0, receipt |-> {}, reversed |-> 0]
    BY <1>1 DEF Monthly!NoPayment
  <2>2. k[p] \in Uses
    BY DEF MonthAssumptions, Uses
  <2>3. OwnRows(book, bill[p], p) = {}
    BY <1>3 DEF OwnRows, Typed
  <2> QED BY <2>1, <2>2, <2>3 DEF SoundBill, IsBill, Stages, Done
<1>6. \A x \in Costs : SoundCost(spent[x], x, book)
  BY <1>2, <1>3 DEF SoundCost, Typed, MonthAssumptions
<1>7. today \in 1 .. LastMonth
  BY <1>2 DEF MonthAssumptions
<1>8. DOMAIN bill = Bills /\ bill = [p \in Bills |-> bill[p]] /\ DOMAIN spent = Costs /\ spent = [x \in Costs |-> spent[x]]
  BY <1>1, <1>2
<1> QED BY <1>3, <1>4, <1>5, <1>6, <1>7, <1>8 DEF BooksInv

\* What changes of a payment, and what does not, when it goes on,
LEMMA BillGoesOn ==
    ASSUME BooksInv, NEW p \in Bills, NEW from, NEW to, Monthly!Progress(p, from, to)
    PROVE  \E r : /\ bill' = [bill EXCEPT ![p] = r]
                  /\ IsBill(r) /\ r.kind = bill[p].kind /\ r.stage = to
                  /\ r.paid = IF to = "paid" THEN today ELSE bill[p].paid
                  /\ r.receipt = bill[p].receipt /\ r.reversed = bill[p].reversed
<1> DEFINE q == bill[p]
           made == IF from = "none" THEN today ELSE q.created
           paid == IF to = "paid" THEN today ELSE q.paid
<1>1. PICK r : r = [q EXCEPT !.stage = to, !.created = made, !.paid = paid] /\ bill' = [bill EXCEPT ![p] = r]
  BY DEF Monthly!Progress
<1>2. IsBill(q)
  BY DEF BooksInv, SoundBill
<1>3. /\ IsBill(r) /\ r.kind = q.kind /\ r.stage = to /\ r.paid = paid
      /\ r.receipt = q.receipt /\ r.reversed = q.reversed
  <2>1. r = [q EXCEPT !.stage = to, !.created = made, !.paid = paid]
    BY <1>1
  <2> HIDE DEF q, made, paid
  <2> QED BY <1>2, <2>1 DEF IsBill
<1> QED BY <1>1, <1>3

\* when it is settled,
LEMMA BillIsSettled ==
    ASSUME BooksInv, NEW p \in Bills, Monthly!Settle(p)
    PROVE  \E s : /\ bill' = [bill EXCEPT ![p] = s]
                  /\ IsBill(s) /\ s.kind = bill[p].kind /\ s.stage = "settled" /\ s.paid = bill[p].paid
                  /\ s.receipt = Numbered(book', p) /\ s.reversed = bill[p].reversed
<1> DEFINE q == bill[p]
<1>1. PICK s : s = [q EXCEPT !.stage = "settled", !.receipt = Numbered(book', p)] /\ bill' = [bill EXCEPT ![p] = s]
  BY Zenon DEF Monthly!Settle, Monthly!NumberedAs, Numbered, IsNumbered
<1>2. IsBill(q)
  BY DEF BooksInv, SoundBill
<1>3. PICK x : x = Numbered(book', p)
  OBVIOUS
<1>4. /\ IsBill(s) /\ s.kind = q.kind /\ s.stage = "settled" /\ s.paid = q.paid
      /\ s.receipt = x /\ s.reversed = q.reversed
  <2>1. s = [q EXCEPT !.stage = "settled", !.receipt = x]
    BY <1>1, <1>3
  <2> HIDE DEF q
  <2> QED BY <1>2, <2>1 DEF IsBill
<1> QED BY <1>1, <1>3, <1>4

\* and when it is reversed.
LEMMA BillIsReversed ==
    ASSUME BooksInv, NEW p \in Bills, Monthly!Reverse(p)
    PROVE  \E s : /\ bill' = [bill EXCEPT ![p] = s]
                  /\ IsBill(s) /\ s.kind = bill[p].kind /\ s.stage = "reversed" /\ s.paid = bill[p].paid
                  /\ s.receipt = bill[p].receipt /\ s.reversed = today
<1> DEFINE q == bill[p]
<1>1. PICK s : s = [q EXCEPT !.stage = "reversed", !.reversed = today] /\ bill' = [bill EXCEPT ![p] = s]
  BY DEF Monthly!Reverse
<1>2. IsBill(q)
  BY DEF BooksInv, SoundBill
<1>3. /\ IsBill(s) /\ s.kind = q.kind /\ s.stage = "reversed" /\ s.paid = q.paid
      /\ s.receipt = q.receipt /\ s.reversed = today
  <2>1. s = [q EXCEPT !.stage = "reversed", !.reversed = today]
    BY <1>1
  <2> HIDE DEF q
  <2> QED BY <1>2, <2>1 DEF IsBill
<1> QED BY <1>1, <1>3

\* A payment goes on to its next stage.
LEMMA BillProgress ==
    ASSUME BooksInv, NEW p \in Bills, NEW from, NEW to, Monthly!Progress(p, from, to),
           <<from, to>> \in {<<"none", "charged">>, <<"charged", "paid">>, <<"paid", "notified">>}
    PROVE  BooksInv'
<1> DEFINE q == bill[p]
           paid == IF to = "paid" THEN today ELSE q.paid
<1>1. q.stage = from /\ UNCHANGED <<today, book, spent>>
  BY DEF Monthly!Progress
<1>2. SoundBill(q, p, book, today) /\ today \in 1 .. LastMonth
  BY DEF BooksInv
<1>3. PICK r : /\ bill' = [bill EXCEPT ![p] = r]
               /\ IsBill(r) /\ r.kind = q.kind /\ r.stage = to /\ r.paid = paid
               /\ r.receipt = q.receipt /\ r.reversed = q.reversed
  BY BillGoesOn
<1>4. /\ from \in {"none", "charged", "paid"} /\ to \in {"charged", "paid", "notified"}
      /\ to = "notified" => from = "paid"
  OBVIOUS
<1>5. SoundBill(r, p, book, today)
  <2>1. OwnRows(book, r, p) = {} /\ r.stage \notin Done
    BY <1>1, <1>2, <1>3, <1>4 DEF SoundBill, OwnRows, Done
  <2>2. r.kind \in Uses /\ r.stage \in Stages /\ r.stage # "reversed" /\ r.reversed = 0
    BY <1>1, <1>2, <1>3, <1>4 DEF SoundBill, Stages
  <2>3. r.stage \in {"paid", "notified", "settled", "reversed"} => r.paid \in 1 .. today
    BY <1>1, <1>2, <1>3, <1>4 DEF SoundBill
  <2> HIDE DEF q, paid
  <2> QED BY <1>3, <2>1, <2>2, <2>3 DEF SoundBill
<1>6. r.kind = q.kind
  BY <1>3
<1>7. DOMAIN bill' = Bills /\ bill' = [n \in Bills |-> bill'[n]] /\ bill'[p] = r /\ \A n \in Bills : n # p => bill'[n] = bill[n]
  BY <1>3 DEF BooksInv
<1>8. \A n \in Bills : SoundBill(bill'[n], n, book', today')
  BY <1>1, <1>5, <1>7 DEF BooksInv
<1>9. \A i \in DOMAIN book' : book'[i].type = "CONTRIBUTION_PAYMENT" =>
          book'[i].ref \in Bills /\ bill'[book'[i].ref].kind = "CONTRIBUTION"
  BY <1>1, <1>6, <1>7 DEF BooksInv
<1> QED BY <1>1, <1>7, <1>8, <1>9 DEF BooksInv

\* A row that no payment and no expense has for its own.
LEMMA OtherRow ==
    ASSUME BooksInv, NEW r \in BookRows, r.month = today, book' = Append(book, r), UNCHANGED <<today, bill, spent>>,
           r.type \in {"REVERSAL", "LOAN_DISBURSEMENT"}, r.type = "REVERSAL" <=> r.reversalOf # 0,
           r.reversalOf # 0 => Undo(book, r.reversalOf) = {}
    PROVE  BooksInv'
<1>1. today \in Nat \ {0} /\ SoundBook(book, today) /\ book \in Seq(BookRows)
  BY DEF BooksInv, SoundBook
<1>2. SoundBook(book', today')
  BY <1>1, BookGrows
<1>3. ASSUME NEW p \in Bills PROVE SoundBill(bill'[p], p, book', today')
  <2>1. SoundBill(bill[p], p, book, today)
    BY DEF BooksInv
  <2>2. ~IsTyped(r, TypeOf(bill[p].kind), p)
    BY <2>1, TypesDiffer DEF SoundBill, IsTyped
  <2> QED BY <1>1, <2>1, <2>2, BillStays
<1>4. ASSUME NEW x \in Costs PROVE SoundCost(spent'[x], x, book')
  <2>1. SoundCost(spent[x], x, book) /\ ~IsTyped(r, "EXPENSE", x)
    BY DEF BooksInv, IsTyped
  <2> QED BY <1>1, <2>1, CostStays
<1>5. \A i \in DOMAIN book' : (i \in DOMAIN book /\ book'[i] = book[i]) \/ book'[i] = r
  BY <1>1, RowMore
<1>6. \A i \in DOMAIN book' : book'[i].type = "CONTRIBUTION_PAYMENT" =>
          book'[i].ref \in Bills /\ bill'[book'[i].ref].kind = "CONTRIBUTION"
  BY <1>5 DEF BooksInv
<1> QED BY <1>2, <1>3, <1>4, <1>6 DEF BooksInv

\* A payment is settled.
LEMMA BillSettles == ASSUME BooksInv, NEW p \in Bills, Monthly!Settle(p) PROVE BooksInv'
<1> DEFINE q == bill[p]
           r == [type |-> TypeOf(q.kind), ref |-> p, direction |-> "CREDIT", reversalOf |-> 0, month |-> today]
           n == Len(book) + 1
<1>1. q.stage = "notified" /\ book' = Append(book, r) /\ UNCHANGED <<today, spent>>
  BY DEF Monthly!Settle, Monthly!With, TypeOf, Monthly!KindOf
<1>3. /\ today \in Nat \ {0} /\ SoundBook(book, today) /\ book \in Seq(BookRows)
      /\ SoundBill(q, p, book, today)
  BY DEF BooksInv, SoundBook
<1>4. TypeOf(q.kind) \in {"CONTRIBUTION_PAYMENT", "LOAN_INTEREST_PAYMENT", "AGREEMENT_INSTALLMENT_PAYMENT"}
      /\ (TypeOf(q.kind) = "CONTRIBUTION_PAYMENT" => q.kind = "CONTRIBUTION")
  BY <1>3, TypesDiffer DEF SoundBill
<1>5. /\ r \in BookRows /\ r.type = TypeOf(q.kind) /\ r.ref = p /\ r.reversalOf = 0 /\ r.month = today
      /\ IsTyped(r, TypeOf(q.kind), p) /\ IsNumbered(r, p)
  BY <1>3, <1>4 DEF BookRows, IsTyped, IsNumbered
<1>7. PICK s : /\ bill' = [bill EXCEPT ![p] = s]
               /\ IsBill(s) /\ s.kind = q.kind /\ s.stage = "settled" /\ s.paid = q.paid
               /\ s.receipt = Numbered(book', p) /\ s.reversed = q.reversed
  BY BillIsSettled
<1> HIDE DEF r
<1>8. SoundBook(book', today')
  BY <1>1, <1>3, <1>4, <1>5, BookGrows
<1>9. /\ Typed(book', TypeOf(q.kind), p) = Typed(book, TypeOf(q.kind), p) \cup {n}
      /\ Numbered(book', p) = Numbered(book, p) \cup {n}
      /\ \A i \in DOMAIN book' : (i \in DOMAIN book /\ book'[i] = book[i]) \/ book'[i] = r
  BY <1>1, <1>3, <1>5, RowMore
<1> HIDE DEF n, q
<1>10. SoundBill(s, p, book', today)
  <2>1. OwnRows(book, q, p) = {}
    BY <1>1, <1>3 DEF SoundBill, Done
  <2>2. OwnRows(book', s, p) = {n}
    BY <1>7, <1>9, <2>1 DEF OwnRows
  <2>3. s.kind \in Uses /\ s.paid \in 1 .. today /\ s.reversed = 0
    BY <1>1, <1>3, <1>7 DEF SoundBill
  <2> QED BY <1>7, <1>9, <2>2, <2>3 DEF SoundBill, Stages, Done
<1>11. DOMAIN bill' = Bills /\ bill' = [k \in Bills |-> bill'[k]] /\ bill'[p] = s /\ \A k \in Bills : k # p => bill'[k] = bill[k]
  BY <1>7 DEF BooksInv
<1>12. ASSUME NEW k \in Bills PROVE SoundBill(bill'[k], k, book', today')
  <2>1. CASE k = p
    BY <1>1, <1>10, <1>11, <2>1
  <2>2. CASE k # p
    <3>1. SoundBill(bill[k], k, book, today)
      BY DEF BooksInv
    <3>2. ~IsTyped(r, TypeOf(bill[k].kind), k)
      BY <1>5, <2>2 DEF IsTyped
    <3>3. SoundBill(bill[k], k, Append(book, r), today)
      BY <1>3, <1>5, <3>1, <3>2, BillStays
    <3> QED BY <1>1, <1>11, <2>2, <3>3
  <2> QED BY <2>1, <2>2
<1>13. ASSUME NEW x \in Costs PROVE SoundCost(spent'[x], x, book')
  <2>1. SoundCost(spent[x], x, book) /\ ~IsTyped(r, "EXPENSE", x)
    BY <1>4, <1>5 DEF BooksInv, IsTyped
  <2> QED BY <1>1, <1>3, <1>5, <2>1, CostStays
<1>14. \A i \in DOMAIN book' : book'[i].type = "CONTRIBUTION_PAYMENT" =>
          book'[i].ref \in Bills /\ bill'[book'[i].ref].kind = "CONTRIBUTION"
  <2>1. \A k \in Bills : bill'[k].kind = bill[k].kind
    BY <1>7, <1>11 DEF q
  <2>2. r.type = "CONTRIBUTION_PAYMENT" => r.ref \in Bills /\ bill[r.ref].kind = "CONTRIBUTION"
    BY <1>4, <1>5 DEF q
  <2> QED BY <1>9, <2>1, <2>2 DEF BooksInv
<1> QED BY <1>1, <1>8, <1>11, <1>12, <1>13, <1>14 DEF BooksInv

\* A payment is reversed, with its row.
LEMMA BillReverses == ASSUME BooksInv, NEW p \in Bills, Monthly!Reverse(p) PROVE BooksInv'
<1> DEFINE q == bill[p]
<1>1. PICK i \in Monthly!Original(p) :
        /\ q.stage = "settled" /\ UNCHANGED <<today, spent>>
        /\ book' = Monthly!With(Monthly!ReversalRow, i, "DEBIT", i)
  BY DEF Monthly!Reverse
<1> DEFINE r == [type |-> "REVERSAL", ref |-> i, direction |-> "DEBIT", reversalOf |-> i, month |-> today]
<1>2. book' = Append(book, r)
  BY <1>1 DEF Monthly!With, Monthly!ReversalRow
<1>3. /\ today \in Nat \ {0} /\ SoundBook(book, today) /\ book \in Seq(BookRows)
      /\ SoundBill(q, p, book, today)
  BY DEF BooksInv, SoundBook
<1>4. i \in OwnRows(book, q, p) /\ i \in DOMAIN book /\ Undo(book, i) = {}
  <2>1. i \in Monthly!Own(p) /\ Monthly!Reversible(book, i)
    BY DEF Monthly!Original
  <2> QED BY <2>1, BookNames DEF Monthly!Reversible
<1>5. i \in Nat \ {0} /\ r \in BookRows /\ r.type = "REVERSAL" /\ r.reversalOf = i /\ r.month = today
  BY <1>3, <1>4 DEF BookRows
<1>7. PICK s : /\ bill' = [bill EXCEPT ![p] = s]
               /\ IsBill(s) /\ s.kind = q.kind /\ s.stage = "reversed" /\ s.paid = q.paid
               /\ s.receipt = q.receipt /\ s.reversed = today
  BY BillIsReversed
<1> HIDE DEF r
<1>8. SoundBook(book', today')
  BY <1>1, <1>2, <1>3, <1>4, <1>5, BookGrows
<1>9. ASSUME NEW k \in Bills PROVE SoundBill(bill[k], k, book', today)
  <2>1. SoundBill(bill[k], k, book, today)
    BY DEF BooksInv
  <2>2. ~IsTyped(r, TypeOf(bill[k].kind), k)
    BY <1>5, <2>1, TypesDiffer DEF SoundBill, IsTyped
  <2> QED BY <1>2, <1>3, <1>5, <2>1, <2>2, BillStays
<1>10. Undo(book', i) # {}
  <2>1. \A k : Undo(book', k) = IF Undoes(r, k) THEN Undo(book, k) \cup {Len(book) + 1} ELSE Undo(book, k)
    BY <1>2, <1>3, <1>5, RowMore
  <2>2. Undoes(r, i)
    BY <1>5 DEF Undoes
  <2> QED BY <2>1, <2>2
<1>11. SoundBill(s, p, book', today)
  <2>1. SoundBill(q, p, book', today)
    BY <1>9
  <2>2. PICK j : OwnRows(book', q, p) = {j}
    BY <1>1, <2>1 DEF SoundBill, Done
  <2>3. i \in OwnRows(book', q, p)
    <3>1. Typed(book, TypeOf(q.kind), p) \subseteq Typed(book', TypeOf(q.kind), p)
      <4>1. \A t, k : Typed(book', t, k) = IF IsTyped(r, t, k) THEN Typed(book, t, k) \cup {Len(book) + 1}
                                          ELSE Typed(book, t, k)
        BY <1>2, <1>3, <1>5, RowMore
      <4> QED BY <4>1
    <3> QED BY <1>4, <3>1 DEF OwnRows
  <2> HIDE DEF q
  <2>4. OwnRows(book', s, p) = {i}
    BY <1>7, <2>2, <2>3 DEF OwnRows
  <2>5. /\ s.kind \in Uses /\ s.paid \in 1 .. today /\ s.reversed \in 1 .. today
        /\ OwnRows(book', s, p) \subseteq s.receipt /\ s.receipt \subseteq Numbered(book', p)
    <3>1. OwnRows(book', s, p) = OwnRows(book', q, p)
      BY <1>7 DEF OwnRows
    <3>2. /\ q.kind \in Uses /\ q.paid \in 1 .. today
          /\ OwnRows(book', q, p) \subseteq q.receipt /\ q.receipt \subseteq Numbered(book', p)
      BY <1>1, <2>1 DEF SoundBill, Done
    <3> QED BY <1>3, <1>7, <3>1, <3>2
  <2>6. s.stage \in Done /\ s.stage \in Stages
    BY <1>7 DEF Done, Stages
  <2> QED BY <1>7, <1>10, <2>4, <2>5, <2>6 DEF SoundBill
<1>12. DOMAIN bill' = Bills /\ bill' = [k \in Bills |-> bill'[k]] /\ bill'[p] = s /\ \A k \in Bills : k # p => bill'[k] = bill[k]
  BY <1>7 DEF BooksInv
<1>13. \A k \in Bills : SoundBill(bill'[k], k, book', today')
  BY <1>1, <1>9, <1>11, <1>12
<1>14. ASSUME NEW x \in Costs PROVE SoundCost(spent'[x], x, book')
  <2>1. SoundCost(spent[x], x, book) /\ ~IsTyped(r, "EXPENSE", x)
    BY <1>5 DEF BooksInv, IsTyped
  <2> QED BY <1>1, <1>2, <1>3, <1>5, <2>1, CostStays
<1>15. \A k \in DOMAIN book' : book'[k].type = "CONTRIBUTION_PAYMENT" =>
          book'[k].ref \in Bills /\ bill'[book'[k].ref].kind = "CONTRIBUTION"
  <2>1. \A k \in Bills : bill'[k].kind = bill[k].kind
    BY <1>7, <1>12
  <2>2. \A k \in DOMAIN book' : (k \in DOMAIN book /\ book'[k] = book[k]) \/ book'[k] = r
    BY <1>2, <1>3, <1>5, RowMore
  <2> QED BY <1>5, <2>1, <2>2 DEF BooksInv
<1> QED BY <1>1, <1>8, <1>12, <1>13, <1>14, <1>15 DEF BooksInv

\* An expense is posted.
LEMMA CostIsSpent == ASSUME BooksInv, NEW x \in Costs, NEW m \in 1 .. LastMonth, Monthly!Spend(x, m) PROVE BooksInv'
<1> DEFINE r == [type |-> "EXPENSE", ref |-> x, direction |-> "DEBIT", reversalOf |-> 0, month |-> today]
           n == Len(book) + 1
<1>1. spent[x] = 0 /\ spent' = [spent EXCEPT ![x] = m] /\ book' = Append(book, r) /\ UNCHANGED <<today, bill>>
  BY DEF Monthly!Spend, Monthly!With
<1>2. today \in Nat \ {0} /\ SoundBook(book, today) /\ book \in Seq(BookRows)
  BY DEF BooksInv, SoundBook
<1>3. r \in BookRows /\ r.type = "EXPENSE" /\ r.ref = x /\ r.reversalOf = 0 /\ r.month = today
      /\ \A y : IsTyped(r, "EXPENSE", y) <=> y = x
  BY <1>2 DEF BookRows, IsTyped
<1> HIDE DEF r
<1>4. SoundBook(book', today')
  BY <1>1, <1>2, <1>3, BookGrows
<1>5. ASSUME NEW k \in Bills PROVE SoundBill(bill'[k], k, book', today')
  <2>1. SoundBill(bill[k], k, book, today)
    BY DEF BooksInv
  <2>2. ~IsTyped(r, TypeOf(bill[k].kind), k)
    BY <1>3, <2>1, TypesDiffer DEF SoundBill, IsTyped
  <2> QED BY <1>1, <1>2, <1>3, <2>1, <2>2, BillStays
<1>6. /\ Typed(book', "EXPENSE", x) = Typed(book, "EXPENSE", x) \cup {n}
      /\ \A k \in DOMAIN book' : (k \in DOMAIN book /\ book'[k] = book[k]) \/ book'[k] = r
  BY <1>1, <1>2, <1>3, RowMore
<1> HIDE DEF n
<1>7. DOMAIN spent' = Costs /\ spent' = [y \in Costs |-> spent'[y]] /\ spent'[x] = m /\ \A y \in Costs : y # x => spent'[y] = spent[y]
  BY <1>1 DEF BooksInv
<1>8. SoundCost(m, x, book')
  <2>1. SoundCost(0, x, book)
    BY <1>1 DEF BooksInv
  <2>2. Typed(book', "EXPENSE", x) = {n}
    BY <1>6, <2>1 DEF SoundCost
  <2> QED BY <2>2 DEF SoundCost
<1>9. ASSUME NEW y \in Costs, y # x PROVE SoundCost(spent[y], y, book')
  <2>1. SoundCost(spent[y], y, book)
    BY DEF BooksInv
  <2> QED BY <1>1, <1>2, <1>3, <1>9, <2>1, CostStays
<1>10. \A y \in Costs : SoundCost(spent'[y], y, book')
  BY <1>7, <1>8, <1>9
<1>11. \A k \in DOMAIN book' : book'[k].type = "CONTRIBUTION_PAYMENT" =>
          book'[k].ref \in Bills /\ bill'[book'[k].ref].kind = "CONTRIBUTION"
  BY <1>1, <1>3, <1>6 DEF BooksInv
<1> QED BY <1>1, <1>4, <1>5, <1>7, <1>10, <1>11 DEF BooksInv

\* The next month.
LEMMA MonthPasses == ASSUME MonthAssumptions, BooksInv, Monthly!Tick PROVE BooksInv'
<1>1. today' = today + 1 /\ today < LastMonth /\ UNCHANGED <<bill, book, spent>>
  BY DEF Monthly!Tick
<1>2. today \in 1 .. LastMonth /\ today' \in 1 .. LastMonth
  <2>1. today \in 1 .. LastMonth /\ LastMonth \in Nat
    BY DEF BooksInv, MonthAssumptions
  <2> QED BY <1>1, <2>1
<1>3. SoundBook(book, today')
  BY <1>1, <1>2 DEF BooksInv, SoundBook
<1>4. ASSUME NEW p \in Bills PROVE SoundBill(bill[p], p, book, today')
  <2>1. SoundBill(bill[p], p, book, today) /\ \A m \in 1 .. today : m \in 1 .. today'
    BY <1>1, <1>2 DEF BooksInv
  <2> QED BY <2>1 DEF SoundBill
<1> QED BY <1>1, <1>2, <1>3, <1>4 DEF BooksInv

\* What is written in the books fits together, whatever is done.
LEMMA BooksKeep == ASSUME MonthAssumptions, BooksInv, [Monthly!Next]_(Monthly!vars) PROVE BooksInv'
<1>1. ASSUME NEW p \in Bills, Monthly!Charge(p) \/ Monthly!Pay(p) \/ Monthly!Notify(p) PROVE BooksInv'
  <2>1. CASE Monthly!Charge(p)
    BY <2>1, BillProgress DEF Monthly!Charge
  <2>2. CASE Monthly!Pay(p)
    BY <2>2, BillProgress DEF Monthly!Pay
  <2>3. CASE Monthly!Notify(p)
    BY <2>3, BillProgress DEF Monthly!Notify
  <2> QED BY <1>1, <2>1, <2>2, <2>3
<1>2. ASSUME NEW i \in DOMAIN book, Monthly!ReverseEntry(i) PROVE BooksInv'
  <2> DEFINE r == [type |-> "REVERSAL", ref |-> i, direction |-> Monthly!Opposite(book[i].direction),
                   reversalOf |-> i, month |-> today]
  <2>1. book' = Append(book, r) /\ UNCHANGED <<today, bill, spent>> /\ Undo(book, i) = {}
    BY <1>2, BookNames DEF Monthly!ReverseEntry, Monthly!With, Monthly!ReversalRow, Monthly!Reversible
  <2>2. book \in Seq(BookRows) /\ today \in Nat
    BY DEF BooksInv, SoundBook
  <2>3. r \in BookRows /\ r.type = "REVERSAL" /\ r.reversalOf = i /\ i # 0 /\ r.month = today
    BY <2>2 DEF BookRows, Monthly!Opposite
  <2> HIDE DEF r
  <2> QED BY <2>1, <2>3, OtherRow
<1>3. ASSUME NEW l \in Lent, Monthly!Disburse(l) PROVE BooksInv'
  <2> DEFINE r == [type |-> "LOAN_DISBURSEMENT", ref |-> l, direction |-> "DEBIT", reversalOf |-> 0, month |-> today]
  <2>1. book' = Append(book, r) /\ UNCHANGED <<today, bill, spent>>
    BY <1>3 DEF Monthly!Disburse, Monthly!With
  <2>2. today \in Nat
    BY DEF BooksInv
  <2>3. r \in BookRows /\ r.type = "LOAN_DISBURSEMENT" /\ r.reversalOf = 0 /\ r.month = today
    BY <2>2 DEF BookRows
  <2> HIDE DEF r
  <2> QED BY <2>1, <2>3, OtherRow
<1>4. ASSUME NEW m \in Monthly!Months, Monthly!Close(m) PROVE BooksInv'
  BY <1>4 DEF Monthly!Close, BooksInv
<1>5. CASE UNCHANGED Monthly!vars
  BY <1>5 DEF Monthly!vars, BooksInv
<1> QED BY <1>1, <1>2, <1>3, <1>4, <1>5, BillSettles, BillReverses, CostIsSpent, MonthPasses
        DEF Monthly!Next, Monthly!Months

-----------------------------------------------------------------------------
(* What the check of a month counts.                                        *)

\* The payments for one thing that are settled, reversed or not, and the rows of
\* the contributions.
PaidFor(k) == {p \in Bills : bill[p].kind = k /\ bill[p].stage \in Done}
PaidIn == PaidFor("CONTRIBUTION")
PaidBack == {p \in PaidIn : Monthly!Effective(p)}
PayRows == {i \in DOMAIN book : book[i].type = "CONTRIBUTION_PAYMENT"}

\* Every contribution that is settled has a row of its own, and every such row is one's.
LEMMA RowOfBill ==
    ASSUME BooksInv
    PROVE  /\ \A p \in PaidIn : \E i \in PayRows : book[i].ref = p /\ OwnRows(book, bill[p], p) = {i}
           /\ \A i \in PayRows : book[i].ref \in PaidIn /\ OwnRows(book, bill[book[i].ref], book[i].ref) = {i}
<1>1. ASSUME NEW p \in Bills, bill[p].kind = "CONTRIBUTION"
      PROVE  OwnRows(book, bill[p], p) = {i \in PayRows : book[i].ref = p}
  BY <1>1, TypesDiffer DEF OwnRows, Typed, IsTyped, PayRows
<1>2. \A p \in Bills : SoundBill(bill[p], p, book, today)
  BY DEF BooksInv
<1>3. ASSUME NEW p \in PaidIn PROVE \E i \in PayRows : book[i].ref = p /\ OwnRows(book, bill[p], p) = {i}
  <2>1. p \in Bills /\ bill[p].kind = "CONTRIBUTION" /\ bill[p].stage \in Done
    BY DEF PaidIn, PaidFor
  <2>2. PICK i : OwnRows(book, bill[p], p) = {i}
    BY <1>2, <2>1 DEF SoundBill
  <2> QED BY <1>1, <2>1, <2>2
<1>4. ASSUME NEW i \in PayRows
      PROVE  book[i].ref \in PaidIn /\ OwnRows(book, bill[book[i].ref], book[i].ref) = {i}
  <2> DEFINE p == book[i].ref
  <2>1. p \in Bills /\ bill[p].kind = "CONTRIBUTION"
    BY DEF BooksInv, PayRows
  <2>2. i \in OwnRows(book, bill[p], p)
    BY <1>1, <2>1
  <2> HIDE DEF p
  <2>3. bill[p].stage \in Done
    BY <1>2, <2>1, <2>2 DEF SoundBill
  <2>4. PICK j : OwnRows(book, bill[p], p) = {j}
    BY <1>2, <2>1, <2>3 DEF SoundBill
  <2>5. p \in PaidIn /\ OwnRows(book, bill[p], p) = {i}
    BY <2>1, <2>2, <2>3, <2>4 DEF PaidIn, PaidFor
  <2> QED BY <2>5 DEF p
<1> QED BY <1>3, <1>4

\* The names of the check, and that what it counts is finite.
LEMMA Counts ==
    ASSUME MonthAssumptions, BooksInv
    PROVE  /\ \A S : Monthly!Cardinality(S) = Cardinality(S)
           /\ \A k : Monthly!Settled(k) = PaidFor(k)
           /\ IsFiniteSet(PaidIn) /\ IsFiniteSet(PaidBack) /\ IsFiniteSet(PayRows) /\ IsFiniteSet(DOMAIN book)
           /\ IsFiniteSet(Monthly!Months) /\ Monthly!Months = 1 .. LastMonth
           /\ \A p \in PaidBack : p \in PaidIn /\ bill[p].stage = "reversed"
           /\ \A p \in Bills : Monthly!Booked(p) = {book[i].month : i \in OwnRows(book, bill[p], p)}
<1>1. \A S : Monthly!Cardinality(S) = Cardinality(S)
  BY DEF Monthly!Cardinality, Cardinality
<1>2. \A k : Monthly!Settled(k) = PaidFor(k)
  BY DEF Monthly!Settled, Monthly!KindOf, PaidFor, Done
<1>3. IsFiniteSet(PaidIn) /\ IsFiniteSet(PaidBack)
  <2>1. PaidIn \subseteq Bills /\ PaidBack \subseteq Bills
    BY DEF PaidIn, PaidBack, PaidFor
  <2> QED BY <2>1, FS_Subset DEF MonthAssumptions
<1>4. IsFiniteSet(PayRows) /\ IsFiniteSet(DOMAIN book)
  <2>1. Len(book) \in Nat /\ DOMAIN book = 1 .. Len(book)
    BY DEF BooksInv, SoundBook
  <2> DEFINE one == 1
             n == Len(book)
  <2>2. one \in Int /\ n \in Int /\ DOMAIN book = one .. n
    BY <2>1
  <2> HIDE DEF one, n
  <2>3. IsFiniteSet(DOMAIN book)
    BY <2>2, FS_Interval
  <2>4. PayRows \subseteq DOMAIN book
    BY DEF PayRows
  <2> QED BY <2>3, <2>4, FS_Subset
<1>5. Monthly!Months = 1 .. LastMonth /\ IsFiniteSet(Monthly!Months)
  <2> DEFINE one == 1
  <2>1. one \in Int /\ LastMonth \in Int /\ Monthly!Months = one .. LastMonth
    BY DEF Monthly!Months, MonthAssumptions
  <2> HIDE DEF one
  <2>2. IsFiniteSet(Monthly!Months)
    BY <2>1, FS_Interval
  <2> QED BY <2>2 DEF Monthly!Months
<1>6. \A p \in PaidBack : p \in PaidIn /\ bill[p].stage = "reversed"
  BY DEF PaidBack, Monthly!Effective
<1>7. \A p \in Bills : Monthly!Booked(p) = {book[i].month : i \in OwnRows(book, bill[p], p)}
  BY BookNames DEF Monthly!Booked
<1> QED BY <1>1, <1>2, <1>3, <1>4, <1>5, <1>6, <1>7

\* The month's rows of contributions that were not taken back are as many as the
\* contributions that are booked in it and were not reversed.
LEMMA LedgerCounts ==
    ASSUME MonthAssumptions, BooksInv, NEW m
    PROVE  /\ Monthly!ContributionLedger(m) = Cardinality({i \in PayRows : book[i].month = m /\ book[i].ref \notin PaidBack})
           /\ Monthly!ContributionLedger(m) = Cardinality({p \in PaidIn \ PaidBack : m \in Monthly!Booked(p)})
<1> DEFINE R == {i \in PayRows : book[i].month = m /\ book[i].ref \notin PaidBack}
           N == {p \in PaidIn \ PaidBack : m \in Monthly!Booked(p)}
<1>1. Monthly!RowsOf("CONTRIBUTION_PAYMENT", m) \ (UNION {Monthly!Own(p) : p \in PaidBack}) = R
  <2>1. Monthly!RowsOf("CONTRIBUTION_PAYMENT", m) = {i \in PayRows : book[i].month = m}
    BY DEF Monthly!RowsOf, PayRows
  <2>2. \A p \in PaidBack : Monthly!Own(p) = OwnRows(book, bill[p], p)
    BY BookNames
  <2>3. ASSUME NEW i \in PayRows PROVE (i \in UNION {Monthly!Own(p) : p \in PaidBack}) <=> book[i].ref \in PaidBack
    <3>1. ASSUME NEW p \in PaidBack, i \in Monthly!Own(p) PROVE book[i].ref \in PaidBack
      <4>1. p \in PaidIn
        BY DEF PaidBack
      <4>2. PICK j \in PayRows : book[j].ref = p /\ OwnRows(book, bill[p], p) = {j}
        BY <4>1, RowOfBill
      <4> QED BY <2>2, <3>1, <4>2
    <3>2. ASSUME book[i].ref \in PaidBack PROVE i \in Monthly!Own(book[i].ref)
      BY <2>2, <3>2, RowOfBill
    <3> QED BY <3>1, <3>2
  <2> QED BY <2>1, <2>3
<1>2. Monthly!ContributionLedger(m) = Cardinality(R)
  <2>1. {q \in Monthly!Settled("CONTRIBUTION") : Monthly!Effective(q)} = PaidBack
    BY Counts DEF PaidBack, PaidIn
  <2>2. Monthly!ContributionLedger(m)
        = Monthly!Cardinality(Monthly!RowsOf("CONTRIBUTION_PAYMENT", m) \ (UNION {Monthly!Own(p) : p \in PaidBack}))
    BY <2>1 DEF Monthly!ContributionLedger, Monthly!PaymentRow
  <2> QED BY <1>1, <2>2, Counts
<1>3. Cardinality(N) = Cardinality(R)
  <2> DEFINE f == [i \in R |-> book[i].ref]
  <2>1. \A i \in R : f[i] \in N
    <3>1. \A i \in R : /\ book[i].ref \in PaidIn /\ book[i].ref \notin PaidBack
                       /\ OwnRows(book, bill[book[i].ref], book[i].ref) = {i} /\ book[i].month = m
      BY RowOfBill
    <3>2. \A i \in R : m \in Monthly!Booked(book[i].ref)
      BY <3>1, Counts DEF PaidIn, PaidFor
    <3> QED BY <3>1, <3>2
  <2>2. \A p \in N : \E i \in R : f[i] = p
    <3> SUFFICES ASSUME NEW p \in N PROVE \E i \in R : f[i] = p
      OBVIOUS
    <3>1. PICK i \in PayRows : book[i].ref = p /\ OwnRows(book, bill[p], p) = {i}
      BY RowOfBill
    <3>2. book[i].month = m
      <4>1. m \in {book[j].month : j \in OwnRows(book, bill[p], p)}
        BY Counts DEF PaidIn, PaidFor
      <4> QED BY <3>1, <4>1
    <3> QED BY <3>1, <3>2
  <2>3. \A i, j \in R : f[i] = f[j] => i = j
    <3> SUFFICES ASSUME NEW i \in R, NEW j \in R, book[i].ref = book[j].ref PROVE i = j
      OBVIOUS
    <3>1. OwnRows(book, bill[book[i].ref], book[i].ref) = {i} /\ OwnRows(book, bill[book[i].ref], book[i].ref) = {j}
      BY RowOfBill
    <3> QED BY <3>1
  <2>4. IsFiniteSet(R)
    BY Counts, FS_Subset
  <2>5. f = [i \in R |-> f[i]]
    OBVIOUS
  <2> HIDE DEF f, R, N
  <2> QED BY <2>1, <2>2, <2>3, <2>4, <2>5, OneToOne
<1> QED BY <1>2, <1>3

\* The contributions of a month agree with its rows unless one of them straddles.
LEMMA MonthsOfMoney ==
    ASSUME MonthAssumptions, BooksInv, NEW m, \A p \in PaidIn : ~Monthly!Straddles(p, m)
    PROVE  Monthly!ContributionEvents(m) = Monthly!ContributionLedger(m)
<1> DEFINE S == {p \in PaidIn : m \in Monthly!Booked(p)}
           B == {p \in PaidBack : m \in Monthly!Booked(p)}
<1>1. Monthly!SettlementEvents(m) = S
  BY Counts DEF Monthly!SettlementEvents, Monthly!Straddles, PaidIn
<1>2. Monthly!ReversalEvents(m) = B
  BY Counts DEF Monthly!ReversalEvents, Monthly!Straddles, PaidIn, PaidBack
<1>3. Monthly!ContributionEvents(m) = Cardinality(S) - Cardinality(B)
  BY <1>1, <1>2, Counts DEF Monthly!ContributionEvents
<1>4. Cardinality(S \ B) = Cardinality(S) - Cardinality(B)
  <2>1. IsFiniteSet(S) /\ S \cap B = B
    <3>1. S \subseteq PaidIn /\ B \subseteq S
      BY Counts
    <3> QED BY <3>1, Counts, FS_Subset
  <2> HIDE DEF S, B
  <2> QED BY <2>1, FS_Difference
<1>5. S \ B = {p \in PaidIn \ PaidBack : m \in Monthly!Booked(p)}
  OBVIOUS
<1> QED BY <1>3, <1>4, <1>5, LedgerCounts

\* Every expense that is dated has a row, and every row of an expense is one's.
LEMMA RowOfCost ==
    ASSUME BooksInv
    PROVE  LET costRows == {i \in DOMAIN book : book[i].type = "EXPENSE"}
               dated == {x \in Costs : spent[x] # 0}
           IN  /\ \A i \in costRows : book[i].ref \in dated /\ Monthly!Written("EXPENSE", book[i].ref) = {i}
               /\ \A x \in dated : \E i \in costRows : book[i].ref = x /\ Monthly!Written("EXPENSE", x) = {i}
<1> DEFINE costRows == {i \in DOMAIN book : book[i].type = "EXPENSE"}
           dated == {x \in Costs : spent[x] # 0}
<1>1. \A x : Monthly!Written("EXPENSE", x) = {i \in costRows : book[i].ref = x}
  BY BookNames DEF Typed, IsTyped
<1>2. \A x \in Costs : spent[x] = 0 => Monthly!Written("EXPENSE", x) = {}
  BY BookNames DEF BooksInv, SoundCost
<1>3. \A x \in Costs : spent[x] # 0 => \E i : Monthly!Written("EXPENSE", x) = {i}
  BY BookNames DEF BooksInv, SoundCost
<1>4. \A i \in costRows : book[i].ref \in Costs
  BY DEF BooksInv, SoundBook
<1>5. \A i \in costRows : book[i].ref \in dated /\ Monthly!Written("EXPENSE", book[i].ref) = {i}
  <2> SUFFICES ASSUME NEW i \in costRows PROVE book[i].ref \in dated /\ Monthly!Written("EXPENSE", book[i].ref) = {i}
    OBVIOUS
  <2>1. i \in Monthly!Written("EXPENSE", book[i].ref)
    BY <1>1
  <2>2. spent[book[i].ref] # 0
    BY <1>2, <1>4, <2>1
  <2>3. PICK j : Monthly!Written("EXPENSE", book[i].ref) = {j}
    BY <1>3, <1>4, <2>2
  <2> QED BY <1>4, <2>1, <2>2, <2>3
<1>6. \A x \in dated : \E i \in costRows : book[i].ref = x /\ Monthly!Written("EXPENSE", x) = {i}
  <2> SUFFICES ASSUME NEW x \in dated PROVE \E i \in costRows : book[i].ref = x /\ Monthly!Written("EXPENSE", x) = {i}
    OBVIOUS
  <2>1. PICK i : Monthly!Written("EXPENSE", x) = {i}
    BY <1>3
  <2> QED BY <1>1, <2>1
<1> QED BY <1>5, <1>6

\* The expenses of a month agree with its rows unless one is dated otherwise.
LEMMA MonthsOfCosts ==
    ASSUME MonthAssumptions, BooksInv, NEW m \in Monthly!Months,
           \A x \in Costs : (spent[x] = m) = (\E i \in Monthly!Written("EXPENSE", x) : book[i].month = m)
    PROVE  Monthly!ExpenseEvents(m) = Monthly!ExpenseLedger(m)
<1> DEFINE R == {i \in DOMAIN book : book[i].type = "EXPENSE" /\ book[i].month = m}
           X == {x \in Costs : spent[x] = m}
           f == [i \in R |-> book[i].ref]
<1>1. Monthly!ExpenseLedger(m) = Cardinality(R) /\ Monthly!ExpenseEvents(m) = Cardinality(X)
  BY Counts DEF Monthly!ExpenseLedger, Monthly!RowsOf, Monthly!ExpenseEvents
<1>2. m # 0
  BY Counts DEF MonthAssumptions
<1>3. \A i \in R : f[i] \in X
  <2> SUFFICES ASSUME NEW i \in R PROVE book[i].ref \in X
    OBVIOUS
  <2>1. book[i].ref \in Costs /\ Monthly!Written("EXPENSE", book[i].ref) = {i}
    BY RowOfCost
  <2> QED BY <2>1
<1>4. \A x \in X : \E i \in R : f[i] = x
  <2> SUFFICES ASSUME NEW x \in X PROVE \E i \in R : book[i].ref = x
    OBVIOUS
  <2>1. PICK i \in DOMAIN book : book[i].type = "EXPENSE" /\ book[i].ref = x /\ Monthly!Written("EXPENSE", x) = {i}
    BY <1>2, RowOfCost
  <2>2. book[i].month = m
    BY <2>1
  <2> QED BY <2>1, <2>2
<1>5. \A i, j \in R : f[i] = f[j] => i = j
  <2> SUFFICES ASSUME NEW i \in R, NEW j \in R, book[i].ref = book[j].ref PROVE i = j
    OBVIOUS
  <2>1. Monthly!Written("EXPENSE", book[i].ref) = {i} /\ Monthly!Written("EXPENSE", book[i].ref) = {j}
    BY RowOfCost
  <2> QED BY <2>1
<1>6. IsFiniteSet(R)
  BY Counts, FS_Subset
<1>7. f = [i \in R |-> f[i]]
  OBVIOUS
<1>8. Cardinality(X) = Cardinality(R)
  <2> HIDE DEF f, R, X
  <2> QED BY <1>3, <1>4, <1>5, <1>6, <1>7, OneToOne
<1> QED BY <1>1, <1>8

\* Nothing is wrong with a payment that alone has its number.
LEMMA NoClash ==
    ASSUME BooksInv, NEW p \in Bills, bill[p].stage \in Done, ~Monthly!Clashes(p)
    PROVE  /\ bill[p].stage = "reversed" => Monthly!Effective(p)
           /\ ~Monthly!LostReversal(p) /\ ~Monthly!InstallmentIssue(p) /\ ~Monthly!AgreementIssue(p)
           /\ ~Monthly!ContributionIssue(p)
<1> DEFINE q == bill[p]
<1>1. Numbered(book, p) = OwnRows(book, q, p)
  BY BookNames DEF Monthly!Clashes
<1>2. SoundBill(q, p, book, today) /\ q.stage \in Done /\ q.kind \in Uses
  BY DEF BooksInv, SoundBill
<1>3. q.receipt = OwnRows(book, q, p)
  BY <1>1, <1>2 DEF SoundBill
<1>4. PICK i : OwnRows(book, q, p) = {i} /\ (q.stage = "reversed" => Undo(book, i) # {})
  BY <1>2 DEF SoundBill
<1>5. ~Monthly!BadReceipt(p) /\ ~Monthly!ContributionIssue(p)
  BY <1>1, <1>3, BookNames DEF Monthly!BadReceipt, Monthly!ContributionIssue
<1>6. q.stage = "reversed" => Monthly!Effective(p)
  <2> SUFFICES ASSUME q.stage = "reversed" PROVE Monthly!Effective(p)
    OBVIOUS
  <2>1. PICK j : j \in Undo(book, i)
    BY <1>4
  <2>2. i # 0 /\ \A k \in Undo(book, i) : k = j
    <3>1. i \in DOMAIN book /\ book \in Seq(BookRows)
      BY <1>4 DEF OwnRows, Typed, BooksInv, SoundBook
    <3>2. i # 0
      BY <3>1
    <3> QED BY <2>1, <3>2 DEF Undo, Undoes, BooksInv, SoundBook
  <2>3. Undo(book, i) = {j}
    BY <2>1, <2>2
  <2>4. Monthly!Compensated(i)
    <3>1. \A S : Monthly!Cardinality(S) = Cardinality(S)
      BY DEF Monthly!Cardinality, Cardinality
    <3>2. Cardinality({j}) = 1
      BY FS_Singleton
    <3> QED BY <2>3, <3>1, <3>2, BookNames DEF Monthly!Compensated
  <2>5. Monthly!OnlyRow(p, i) /\ i \in Monthly!Own(p)
    BY <1>1, <1>4, BookNames DEF Monthly!OnlyRow
  <2> QED BY <2>4, <2>5 DEF Monthly!Effective, Monthly!Neutralized
<1>7. ~Monthly!AgreementLedger(p)
  <2>1. \A k \in OwnRows(book, q, p) : book[k].type = TypeOf(q.kind)
    BY DEF OwnRows, Typed, IsTyped
  <2>2. TypeOf(q.kind) # "REVERSAL"
    BY <1>2, TypesDiffer
  <2>3. {k \in Numbered(book, p) : book[k].type # "REVERSAL"} = OwnRows(book, q, p)
    BY <1>1, <2>1, <2>2
  <2> QED BY <2>3, BookNames DEF Monthly!AgreementLedger, Monthly!ReversalRow
<1> QED BY <1>5, <1>6, <1>7 DEF Monthly!LostReversal, Monthly!InstallmentIssue, Monthly!AgreementIssue

\* The sums of the months are those of the library.
LEMMA MonthSums == \A w : Monthly!SumFunction(w) = SumFunction(w)
  BY DEF Monthly!SumFunction, Monthly!SumFunctionOnSet, Monthly!FoldFunctionOnSet, Monthly!MapThenFoldSet,
      SumFunction, SumFunctionOnSet, FoldFunctionOnSet, MapThenFoldSet

\* Over all months, the contributions are as many as their rows.
LEMMA AllMoney ==
    ASSUME MonthAssumptions, BooksInv
    PROVE  Monthly!SumFunction([m \in Monthly!Months |-> Monthly!ContributionEvents(m)])
           = Monthly!SumFunction([m \in Monthly!Months |-> Monthly!ContributionLedger(m)])
<1> DEFINE M == Monthly!Months
           u == [m \in M |-> Monthly!ContributionEvents(m)]
           v == [m \in M |-> Cardinality({p \in PaidIn : bill[p].paid = m})]
           w == [m \in M |-> Cardinality({p \in PaidBack : bill[p].reversed = m})]
           l == [m \in M |-> Monthly!ContributionLedger(m)]
           R == {i \in PayRows : book[i].ref \notin PaidBack}
<1>1. \A p \in Bills : SoundBill(bill[p], p, book, today)
  BY DEF BooksInv
<1>2. \A m \in 1 .. today : m \in M
  BY Counts DEF BooksInv, MonthAssumptions
<1>3. SumFunctionOnSet(v, M) = Cardinality(PaidIn)
  <2> DEFINE key == [p \in PaidIn |-> bill[p].paid]
  <2>1. \A p \in PaidIn : key[p] \in M
    BY <1>1, <1>2 DEF PaidIn, PaidFor, SoundBill, Done
  <2>2. \A m \in M : {p \in PaidIn : key[p] = m} = {p \in PaidIn : bill[p].paid = m}
    OBVIOUS
  <2>3. \A m \in M : v[m] = CountOf(PaidIn, key, m)
    BY <2>2 DEF CountOf
  <2>4. IsFiniteSet(M) /\ IsFiniteSet(PaidIn)
    BY Counts
  <2> HIDE DEF v, key, M
  <2> QED BY <2>1, <2>3, <2>4, CountByKey
<1>4. SumFunctionOnSet(w, M) = Cardinality(PaidBack)
  <2> DEFINE key == [p \in PaidBack |-> bill[p].reversed]
  <2>1. \A p \in PaidBack : key[p] \in M
    <3>1. \A p \in PaidBack : p \in Bills /\ bill[p].stage = "reversed"
      BY Counts DEF PaidIn, PaidFor
    <3> QED BY <1>1, <1>2, <3>1 DEF SoundBill
  <2>2. \A m \in M : {p \in PaidBack : key[p] = m} = {p \in PaidBack : bill[p].reversed = m}
    OBVIOUS
  <2>3. \A m \in M : w[m] = CountOf(PaidBack, key, m)
    BY <2>2 DEF CountOf
  <2>4. IsFiniteSet(M) /\ IsFiniteSet(PaidBack)
    BY Counts
  <2> HIDE DEF w, key, M
  <2> QED BY <2>1, <2>3, <2>4, CountByKey
<1>5. SumFunctionOnSet(l, M) = Cardinality(R)
  <2> DEFINE key == [i \in R |-> book[i].month]
  <2>1. \A i \in R : key[i] \in M
    BY <1>2 DEF PayRows, BooksInv, SoundBook
  <2>2. \A m \in M : {i \in R : key[i] = m} = {i \in PayRows : book[i].month = m /\ book[i].ref \notin PaidBack}
    OBVIOUS
  <2>3. \A m \in M : l[m] = CountOf(R, key, m)
    BY <2>2, LedgerCounts DEF CountOf
  <2>4. IsFiniteSet(M) /\ IsFiniteSet(R)
    BY Counts, FS_Subset
  <2> HIDE DEF l, key, M, R
  <2> QED BY <2>1, <2>3, <2>4, CountByKey
<1>6. Cardinality(PaidIn \ PaidBack) = Cardinality(R)
  <2> DEFINE f == [i \in R |-> book[i].ref]
  <2>1. \A i \in R : f[i] \in PaidIn \ PaidBack
    BY RowOfBill
  <2>2. \A p \in PaidIn \ PaidBack : \E i \in R : f[i] = p
    BY RowOfBill
  <2>3. \A i, j \in R : f[i] = f[j] => i = j
    <3> SUFFICES ASSUME NEW i \in R, NEW j \in R, book[i].ref = book[j].ref PROVE i = j
      OBVIOUS
    <3>1. OwnRows(book, bill[book[i].ref], book[i].ref) = {i} /\ OwnRows(book, bill[book[i].ref], book[i].ref) = {j}
      BY RowOfBill
    <3> QED BY <3>1
  <2>4. IsFiniteSet(R)
    BY Counts, FS_Subset
  <2>5. f = [i \in R |-> f[i]]
    OBVIOUS
  <2> HIDE DEF f, R
  <2> QED BY <2>1, <2>2, <2>3, <2>4, <2>5, OneToOne
<1>7. Cardinality(PaidIn \ PaidBack) = Cardinality(PaidIn) - Cardinality(PaidBack)
  <2>1. PaidIn \cap PaidBack = PaidBack
    BY Counts
  <2>2. IsFiniteSet(PaidIn)
    BY Counts
  <2> QED BY <2>1, <2>2, FS_Difference
<1>8. \A m \in M : v[m] \in Int /\ w[m] \in Int /\ u[m] = v[m] - w[m]
  <2> SUFFICES ASSUME NEW m \in M PROVE v[m] \in Int /\ w[m] \in Int /\ u[m] = v[m] - w[m]
    OBVIOUS
  <2>1. Monthly!SettlementEvents(m) = {p \in PaidIn : bill[p].paid = m}
    BY Counts DEF Monthly!SettlementEvents, PaidIn
  <2>2. Monthly!ReversalEvents(m) = {p \in PaidBack : bill[p].reversed = m}
    BY Counts DEF Monthly!ReversalEvents, PaidIn, PaidBack
  <2>3. u[m] = v[m] - w[m]
    BY <2>1, <2>2, Counts DEF Monthly!ContributionEvents
  <2>4. v[m] \in Nat /\ w[m] \in Nat
    <3>1. IsFiniteSet({p \in PaidIn : bill[p].paid = m}) /\ IsFiniteSet({p \in PaidBack : bill[p].reversed = m})
      BY Counts, FS_Subset
    <3> QED BY <3>1, FS_CardinalityType
  <2> QED BY <2>3, <2>4
<1>9. Monthly!SumFunction(u) = SumFunctionOnSet(u, M) /\ Monthly!SumFunction(l) = SumFunctionOnSet(l, M)
  BY MonthSums, SumAll
<1>10. IsFiniteSet(M)
  BY Counts
<1>11. SumFunctionOnSet(u, M) = SumFunctionOnSet(l, M)
  <2> HIDE DEF M, u, v, w, l, R
  <2>1. SumFunctionOnSet(u, M) = SumFunctionOnSet(v, M) - SumFunctionOnSet(w, M)
    BY <1>8, <1>10, SumMinus
  <2> QED BY <2>1, <1>3, <1>4, <1>5, <1>6, <1>7
<1> QED BY <1>9, <1>11

\* Over all months, the expenses are as many as their rows.
LEMMA AllCosts ==
    ASSUME MonthAssumptions, BooksInv
    PROVE  Monthly!SumFunction([m \in Monthly!Months |-> Monthly!ExpenseEvents(m)])
           = Monthly!SumFunction([m \in Monthly!Months |-> Monthly!ExpenseLedger(m)])
<1> DEFINE M == Monthly!Months
           costRows == {i \in DOMAIN book : book[i].type = "EXPENSE"}
           dated == {x \in Costs : spent[x] # 0}
           u == [m \in M |-> Monthly!ExpenseEvents(m)]
           l == [m \in M |-> Monthly!ExpenseLedger(m)]
<1>1. IsFiniteSet(costRows) /\ IsFiniteSet(dated) /\ IsFiniteSet(M)
  BY Counts, FS_Subset DEF MonthAssumptions
<1>2. SumFunctionOnSet(u, M) = Cardinality(dated)
  <2> DEFINE key == [x \in dated |-> spent[x]]
  <2>1. \A x \in dated : key[x] \in M
    <3>1. \A x \in Costs : spent[x] \in 0 .. LastMonth
      BY DEF BooksInv, SoundCost
    <3>2. \A x \in dated : spent[x] \in 1 .. LastMonth
      BY <3>1 DEF MonthAssumptions
    <3> QED BY <3>2, Counts
  <2>2. \A m \in M : {x \in dated : key[x] = m} = {x \in Costs : spent[x] = m}
    BY Counts DEF MonthAssumptions
  <2>3. \A m \in M : u[m] = CountOf(dated, key, m)
    BY <2>2, Counts DEF Monthly!ExpenseEvents, CountOf
  <2> HIDE DEF u, key, M, dated
  <2> QED BY <1>1, <2>1, <2>3, CountByKey
<1>3. SumFunctionOnSet(l, M) = Cardinality(costRows)
  <2> DEFINE key == [i \in costRows |-> book[i].month]
  <2>1. \A i \in costRows : key[i] \in M
    <3>1. \A m \in 1 .. today : m \in M
      BY Counts DEF BooksInv, MonthAssumptions
    <3> QED BY <3>1 DEF BooksInv, SoundBook
  <2>2. \A m \in M : {i \in costRows : key[i] = m} = Monthly!RowsOf("EXPENSE", m)
    BY DEF Monthly!RowsOf
  <2>3. \A m \in M : l[m] = CountOf(costRows, key, m)
    BY <2>2, Counts DEF Monthly!ExpenseLedger, CountOf
  <2> HIDE DEF l, key, M, costRows
  <2> QED BY <1>1, <2>1, <2>3, CountByKey
<1>4. Cardinality(dated) = Cardinality(costRows)
  <2> DEFINE f == [i \in costRows |-> book[i].ref]
  <2>1. \A i \in costRows : f[i] \in dated
    BY RowOfCost
  <2>2. \A x \in dated : \E i \in costRows : f[i] = x
    BY RowOfCost
  <2>3. \A i, j \in costRows : f[i] = f[j] => i = j
    <3> SUFFICES ASSUME NEW i \in costRows, NEW j \in costRows, book[i].ref = book[j].ref PROVE i = j
      OBVIOUS
    <3>1. Monthly!Written("EXPENSE", book[i].ref) = {i} /\ Monthly!Written("EXPENSE", book[i].ref) = {j}
      BY RowOfCost
    <3> QED BY <3>1
  <2>4. f = [i \in costRows |-> f[i]]
    OBVIOUS
  <2> HIDE DEF f, costRows, dated
  <2> QED BY <1>1, <2>1, <2>2, <2>3, <2>4, OneToOne
<1>5. Monthly!SumFunction(u) = SumFunctionOnSet(u, M) /\ Monthly!SumFunction(l) = SumFunctionOnSet(l, M)
  BY MonthSums, SumAll
<1> QED BY <1>2, <1>3, <1>4, <1>5

\* The check raises no other false alarm.
LEMMA AlarmsAre == ASSUME MonthAssumptions, BooksInv PROVE Monthly!AlarmsAreExplained
<1>1. \A k : Monthly!Settled(k) = PaidFor(k)
  BY Counts
<1>2. ASSUME NEW m \in Monthly!Months, "CONTRIBUTIONS" \in Monthly!Findings(m)
      PROVE  \E p \in Monthly!Settled("CONTRIBUTION") : Monthly!Straddles(p, m)
  <2>1. Monthly!ContributionEvents(m) # Monthly!ContributionLedger(m)
    BY <1>2 DEF Monthly!Findings
  <2> QED BY <1>1, <2>1, MonthsOfMoney DEF PaidIn
<1>3. ASSUME NEW m \in Monthly!Months, "EXPENSES" \in Monthly!Findings(m)
      PROVE  \E x \in Costs : (spent[x] = m) # (\E i \in Monthly!Written("EXPENSE", x) : book[i].month = m)
  <2>1. Monthly!ExpenseEvents(m) # Monthly!ExpenseLedger(m)
    BY <1>3 DEF Monthly!Findings
  <2> QED BY <2>1, MonthsOfCosts
<1>4. ASSUME NEW m \in Monthly!Months, \A p \in Bills : ~Monthly!Clashes(p)
      PROVE  Monthly!Findings(m) \ {"CONTRIBUTIONS", "EXPENSES", "UNPROCESSED_WEBHOOKS"} = {}
  <2>1. \A k : \A p \in PaidFor(k) : p \in Bills /\ bill[p].stage \in Done
    BY DEF PaidFor
  <2>2. \A k : \A p \in PaidFor(k) : /\ ~Monthly!LostReversal(p) /\ ~Monthly!InstallmentIssue(p)
                                     /\ ~Monthly!AgreementIssue(p) /\ ~Monthly!ContributionIssue(p)
    BY <1>4, <2>1, NoClash
  <2>3. \A p \in UNION {Monthly!Settled(k) : k \in DOMAIN Monthly!RowType} : ~Monthly!Unproved(p)
    BY <1>1, <2>2 DEF Monthly!Unproved
  <2> QED BY <1>1, <2>2, <2>3 DEF Monthly!Findings, Monthly!Codes
<1>5. ASSUME NEW m \in Monthly!Months, NEW p \in Monthly!Settled("CONTRIBUTION"), Monthly!Clashes(p),
             bill[p].created = m
      PROVE  "APPROVED_PAYMENTS" \in Monthly!Findings(m)
  <2>1. Monthly!KindOf(p) = "CONTRIBUTION"
    BY <1>1 DEF PaidFor, Monthly!KindOf
  <2>2. Monthly!Unproved(p)
    BY <1>5, <2>1 DEF Monthly!Unproved, Monthly!ContributionIssue, Monthly!Clashes
  <2>3. p \in UNION {Monthly!Settled(k) : k \in DOMAIN Monthly!RowType}
    BY TypesDiffer DEF Uses
  <2> QED BY <1>5, <2>2, <2>3 DEF Monthly!Findings, Monthly!Codes
<1> QED BY <1>2, <1>3, <1>4, <1>5, AllMoney, AllCosts DEF Monthly!AlarmsAreExplained

-----------------------------------------------------------------------------
(* Months that were closed after their end.                                 *)

BookedIn(b, q, p) == {b[i].month : i \in OwnRows(b, q, p)}
ClashIn(b, q, p) == Numbered(b, p) # OwnRows(b, q, p)

\* The contributions that were approved in m, those that were taken back in it, those
\* of the first that are booked in it, and those of the second that alone have their
\* number.
Approved(bl, m) ==
    {p \in Bills : bl[p].kind = "CONTRIBUTION" /\ bl[p].stage \in Done /\ bl[p].paid = m}
TakenBack(bl, m) ==
    {p \in Bills : bl[p].kind = "CONTRIBUTION" /\ bl[p].stage = "reversed" /\ bl[p].reversed = m}
Known(bl, b, m) == {p \in Approved(bl, m) : m \in BookedIn(b, bl[p], p)}
Alone(bl, b, m) == {p \in TakenBack(bl, m) : ~ClashIn(b, bl[p], p)}

NetOf(b, m) ==
    Cardinality({i \in DOMAIN b : b[i].month = m /\ b[i].direction = "CREDIT"})
    - Cardinality({i \in DOMAIN b : b[i].month = m /\ b[i].direction = "DEBIT"})

\* The figures c of the closed month m: the contributions were counted over sets A and B
\* that have no one who does not belong there, and lack only late and shared ones.
ShutAs(c, bl, b, m) ==
    /\ c.net = NetOf(b, m)
    /\ \E A \in SUBSET Approved(bl, m), B \in SUBSET TakenBack(bl, m) :
          /\ c.contributions = Cardinality(A) - Cardinality(B)
          /\ Known(bl, b, m) \subseteq A /\ Alone(bl, b, m) \subseteq B

ShutInv ==
    /\ DOMAIN shut = 1 .. LastMonth
    /\ \A m \in 1 .. LastMonth : /\ shut[m].at \in 0 .. today
                                 /\ shut[m].at > m => ShutAs(shut[m], bill, book, m)

MonthlyInv == BooksInv /\ ShutInv

\* What a step may do to a payment, in month d.
Moves(q, s, d) ==
    /\ s.kind = q.kind
    /\ q.stage \in Done => s.stage \in Done /\ s.paid = q.paid
    /\ q.stage = "reversed" => s.stage = "reversed" /\ s.reversed = q.reversed
    /\ q.stage # "reversed" /\ s.stage = "reversed" => s.reversed = d

\* Nothing was closed at first.
LEMMA NoneIsShut == ASSUME MonthAssumptions, Monthly!Init PROVE ShutInv
<1>1. shut = [m \in 1 .. LastMonth |-> [at |-> 0, contributions |-> 0, net |-> 0]] /\ today = 1
  BY DEF Monthly!Init, Monthly!NotClosed, Monthly!Months
<1> QED BY <1>1 DEF ShutInv

\* The steps that do not close a month write rows of the current month, and change
\* payments in this way.
LEMMA BooksMove ==
    ASSUME BooksInv, [Monthly!Next]_(Monthly!vars)
    PROVE  \/ \E m \in Monthly!Months : Monthly!Close(m)
           \/ /\ shut' = shut
              /\ book' = book \/ \E r \in BookRows : r.month = today /\ book' = Append(book, r)
              /\ today' = today \/ Monthly!Tick
              /\ \A p \in Bills : Moves(bill[p], bill'[p], today)
<1> DEFINE Moved == /\ shut' = shut
                    /\ book' = book \/ \E r \in BookRows : r.month = today /\ book' = Append(book, r)
                    /\ today' = today \/ Monthly!Tick
                    /\ \A p \in Bills : Moves(bill[p], bill'[p], today)
<1>0. /\ today \in Nat /\ book \in Seq(BookRows) /\ DOMAIN bill = Bills
      /\ \A p \in Bills : SoundBill(bill[p], p, book, today)
  BY DEF BooksInv, SoundBook
<1>1. UNCHANGED bill => \A p \in Bills : Moves(bill[p], bill'[p], today)
  BY DEF Moves
<1>2. ASSUME NEW p \in Bills, NEW s, bill' = [bill EXCEPT ![p] = s], Moves(bill[p], s, today)
      PROVE  \A n \in Bills : Moves(bill[n], bill'[n], today)
  <2>1. bill'[p] = s /\ \A n \in Bills : n # p => bill'[n] = bill[n]
    BY <1>0, <1>2
  <2>2. \A n \in Bills : Moves(bill[n], bill[n], today)
    BY DEF Moves
  <2> QED BY <1>2, <2>1, <2>2
<1>3. ASSUME NEW p \in Bills, NEW from, NEW to, Monthly!Progress(p, from, to), from \notin Done, to \notin Done PROVE Moved
  <2>1. PICK r : bill' = [bill EXCEPT ![p] = r] /\ r.kind = bill[p].kind /\ r.stage = to
    BY <1>3, BillGoesOn
  <2>2. bill[p].stage = from /\ UNCHANGED <<today, book, shut>>
    BY <1>3 DEF Monthly!Progress
  <2>3. Moves(bill[p], r, today)
    BY <1>3, <2>1, <2>2 DEF Moves, Done
  <2> QED BY <1>2, <2>1, <2>2, <2>3
<1>4. ASSUME NEW p \in Bills, Monthly!Charge(p) \/ Monthly!Pay(p) \/ Monthly!Notify(p) PROVE Moved
  <2> HIDE DEF Moved
  <2> QED BY <1>3, <1>4 DEF Monthly!Charge, Monthly!Pay, Monthly!Notify, Done
<1>5. ASSUME NEW p \in Bills, Monthly!Settle(p) PROVE Moved
  <2>1. PICK s : /\ bill' = [bill EXCEPT ![p] = s]
                 /\ s.kind = bill[p].kind /\ s.stage = "settled" /\ s.paid = bill[p].paid
    BY <1>5, BillIsSettled
  <2>2. bill[p].stage = "notified" /\ UNCHANGED <<today, shut>>
    BY <1>5 DEF Monthly!Settle
  <2>3. Moves(bill[p], s, today)
    BY <2>1, <2>2 DEF Moves, Done
  <2> DEFINE r == [type |-> TypeOf(bill[p].kind), ref |-> p, direction |-> "CREDIT", reversalOf |-> 0, month |-> today]
  <2>4. book' = Append(book, r)
    BY <1>5 DEF Monthly!Settle, Monthly!With, TypeOf, Monthly!KindOf
  <2>5. TypeOf(bill[p].kind) \in {"CONTRIBUTION_PAYMENT", "LOAN_INTEREST_PAYMENT", "AGREEMENT_INSTALLMENT_PAYMENT"}
    BY <1>0, TypesDiffer DEF SoundBill
  <2>6. r \in BookRows /\ r.month = today
    BY <1>0, <2>5 DEF BookRows
  <2>7. \E x \in BookRows : x.month = today /\ book' = Append(book, x)
    <3> HIDE DEF r
    <3> QED BY <2>4, <2>6
  <2>8. \A n \in Bills : Moves(bill[n], bill'[n], today)
    BY <1>2, <2>1, <2>3
  <2> QED BY <2>2, <2>7, <2>8
<1>6. ASSUME NEW p \in Bills, Monthly!Reverse(p) PROVE Moved
  <2>1. PICK s : /\ bill' = [bill EXCEPT ![p] = s]
                 /\ s.kind = bill[p].kind /\ s.stage = "reversed" /\ s.paid = bill[p].paid /\ s.reversed = today
    BY <1>6, BillIsReversed
  <2>2. PICK i \in Monthly!Original(p) : /\ bill[p].stage = "settled" /\ UNCHANGED <<today, shut>>
                                         /\ book' = Monthly!With(Monthly!ReversalRow, i, "DEBIT", i)
    BY <1>6 DEF Monthly!Reverse
  <2>3. Moves(bill[p], s, today)
    BY <2>1, <2>2 DEF Moves, Done
  <2> DEFINE r == [type |-> "REVERSAL", ref |-> i, direction |-> "DEBIT", reversalOf |-> i, month |-> today]
  <2>4. book' = Append(book, r)
    BY <2>2 DEF Monthly!With, Monthly!ReversalRow
  <2>5. i \in Nat
    <3>1. i \in DOMAIN book
      BY BookNames DEF Monthly!Original, OwnRows, Typed
    <3> QED BY <1>0, <3>1
  <2>6. r \in BookRows /\ r.month = today
    BY <1>0, <2>5 DEF BookRows
  <2>7. \E x \in BookRows : x.month = today /\ book' = Append(book, x)
    <3> HIDE DEF r
    <3> QED BY <2>4, <2>6
  <2>8. \A n \in Bills : Moves(bill[n], bill'[n], today)
    BY <1>2, <2>1, <2>3
  <2> QED BY <2>2, <2>7, <2>8
<1>7. ASSUME NEW i \in DOMAIN book, Monthly!ReverseEntry(i) PROVE Moved
  <2> DEFINE r == [type |-> "REVERSAL", ref |-> i, direction |-> Monthly!Opposite(book[i].direction),
                   reversalOf |-> i, month |-> today]
  <2>1. book' = Append(book, r) /\ UNCHANGED <<today, bill, shut>>
    BY <1>7 DEF Monthly!ReverseEntry, Monthly!With, Monthly!ReversalRow
  <2>2. r \in BookRows /\ r.month = today
    BY <1>0 DEF BookRows, Monthly!Opposite
  <2>3. \E x \in BookRows : x.month = today /\ book' = Append(book, x)
    <3> HIDE DEF r
    <3> QED BY <2>1, <2>2
  <2> QED BY <1>1, <2>1, <2>3
<1>8. ASSUME NEW x \in Costs, NEW m \in Monthly!Months, Monthly!Spend(x, m) PROVE Moved
  <2> DEFINE r == [type |-> "EXPENSE", ref |-> x, direction |-> "DEBIT", reversalOf |-> 0, month |-> today]
  <2>1. book' = Append(book, r) /\ UNCHANGED <<today, bill, shut>>
    BY <1>8 DEF Monthly!Spend, Monthly!With
  <2>2. r \in BookRows /\ r.month = today
    BY <1>0 DEF BookRows
  <2>3. \E y \in BookRows : y.month = today /\ book' = Append(book, y)
    <3> HIDE DEF r
    <3> QED BY <2>1, <2>2
  <2> QED BY <1>1, <2>1, <2>3
<1>9. ASSUME NEW l \in Lent, Monthly!Disburse(l) PROVE Moved
  <2> DEFINE r == [type |-> "LOAN_DISBURSEMENT", ref |-> l, direction |-> "DEBIT", reversalOf |-> 0, month |-> today]
  <2>1. book' = Append(book, r) /\ UNCHANGED <<today, bill, shut>>
    BY <1>9 DEF Monthly!Disburse, Monthly!With
  <2>2. r \in BookRows /\ r.month = today
    BY <1>0 DEF BookRows
  <2>3. \E y \in BookRows : y.month = today /\ book' = Append(book, y)
    <3> HIDE DEF r
    <3> QED BY <2>1, <2>2
  <2> QED BY <1>1, <2>1, <2>3
<1>10. Monthly!Tick => Moved
  BY <1>1 DEF Monthly!Tick
<1>11. (UNCHANGED Monthly!vars) => Moved
  BY <1>1 DEF Monthly!vars
<1> HIDE DEF Moved
<1>12. Moved \/ \E m \in Monthly!Months : Monthly!Close(m)
  BY <1>4, <1>5, <1>6, <1>7, <1>8, <1>9, <1>10, <1>11 DEF Monthly!Next
<1> QED BY <1>12 DEF Moved

\* A row of another month does not change the month's net.
LEMMA NetStays ==
    ASSUME NEW b \in Seq(BookRows), NEW r \in BookRows, NEW m, r.month # m
    PROVE  NetOf(Append(b, r), m) = NetOf(b, m)
<1> DEFINE c == Append(b, r)
           n == Len(b) + 1
<1>1. DOMAIN c = DOMAIN b \cup {n} /\ n \notin DOMAIN b /\ c[n] = r /\ \A i \in DOMAIN b : c[i] = b[i]
  BY RowMore
<1> HIDE DEF c, n
<1>2. ASSUME NEW d
      PROVE  {i \in DOMAIN c : c[i].month = m /\ c[i].direction = d} = {i \in DOMAIN b : b[i].month = m /\ b[i].direction = d}
  BY <1>1
<1>3. NetOf(c, m) = NetOf(b, m)
  BY <1>2 DEF NetOf
<1> QED BY <1>3 DEF c

\* Of a payment that is settled, the month of the row and the clash with other rows remain.
LEMMA RowRemains ==
    ASSUME NEW b \in Seq(BookRows), NEW c, c = b \/ \E r \in BookRows : c = Append(b, r),
           NEW d, NEW e, NEW p, NEW q, NEW s, SoundBill(q, p, b, d), SoundBill(s, p, c, e), s.kind = q.kind,
           q.stage \in Done, s.stage \in Done
    PROVE  BookedIn(c, s, p) = BookedIn(b, q, p) /\ (~ClashIn(c, s, p) => ~ClashIn(b, q, p))
<1>1. /\ \A i \in DOMAIN b : i \in DOMAIN c /\ c[i] = b[i]
      /\ \A t, k : Typed(b, t, k) \subseteq Typed(c, t, k)
      /\ \A k : Numbered(b, k) \subseteq Numbered(c, k)
  <2>1. CASE c = b
    BY <2>1
  <2>2. ASSUME NEW r \in BookRows, c = Append(b, r)
        PROVE  /\ \A i \in DOMAIN b : i \in DOMAIN c /\ c[i] = b[i]
               /\ \A t, k : Typed(b, t, k) \subseteq Typed(c, t, k)
               /\ \A k : Numbered(b, k) \subseteq Numbered(c, k)
    <3> DEFINE n == Len(b) + 1
    <3>1. /\ DOMAIN c = DOMAIN b \cup {n} /\ \A i \in DOMAIN b : c[i] = b[i]
          /\ \A t, k : Typed(c, t, k) = IF IsTyped(r, t, k) THEN Typed(b, t, k) \cup {n} ELSE Typed(b, t, k)
          /\ \A k : Numbered(c, k) = IF IsNumbered(r, k) THEN Numbered(b, k) \cup {n} ELSE Numbered(b, k)
      BY <2>2, RowMore
    <3> HIDE DEF n
    <3> QED BY <3>1
  <2> QED BY <2>1, <2>2
<1>2. PICK i : OwnRows(b, q, p) = {i}
  BY DEF SoundBill
<1>3. PICK j : OwnRows(c, s, p) = {j}
  BY DEF SoundBill
<1>4. OwnRows(b, q, p) \subseteq OwnRows(c, s, p)
  BY <1>1 DEF OwnRows
<1>5. i \in DOMAIN b /\ i = j
  BY <1>2, <1>3, <1>4 DEF OwnRows, Typed
<1>6. c[i] = b[i]
  BY <1>1, <1>5
<1>7. BookedIn(c, s, p) = BookedIn(b, q, p)
  BY <1>2, <1>3, <1>5, <1>6 DEF BookedIn
<1>8. ~ClashIn(c, s, p) => ~ClashIn(b, q, p)
  <2>1. OwnRows(b, q, p) \subseteq Numbered(b, p)
    BY DEF OwnRows, Typed, Numbered, IsTyped, IsNumbered
  <2> QED BY <1>1, <1>2, <1>3, <1>5, <2>1 DEF ClashIn
<1> QED BY <1>7, <1>8

\* Of a payment that was not settled before, the row is the one that is written.
LEMMA RowIsNew ==
    ASSUME NEW b \in Seq(BookRows), NEW r \in BookRows, NEW c, c = b \/ c = Append(b, r),
           NEW d, NEW e, NEW p, NEW q, NEW s, SoundBill(q, p, b, d), SoundBill(s, p, c, e), s.kind = q.kind,
           q.stage \notin Done, s.stage \in Done
    PROVE  BookedIn(c, s, p) \subseteq {r.month}
<1>1. OwnRows(b, q, p) = {}
  BY DEF SoundBill
<1>2. PICK j : OwnRows(c, s, p) = {j}
  BY DEF SoundBill
<1>3. c = Append(b, r)
  <2>1. c # b
    BY <1>1, <1>2 DEF OwnRows
  <2> QED BY <2>1
<1> DEFINE n == Len(b) + 1
           a == Append(b, r)
<1>4. /\ a[n] = r
      /\ \A t, k : Typed(a, t, k) = IF IsTyped(r, t, k) THEN Typed(b, t, k) \cup {n} ELSE Typed(b, t, k)
  BY RowMore
<1>5. c = a
  BY <1>3
<1> HIDE DEF n, a
<1>6. OwnRows(c, s, p) \subseteq {n}
  BY <1>1, <1>4, <1>5 DEF OwnRows
<1> QED BY <1>4, <1>5, <1>6 DEF BookedIn

\* What was counted when a month was closed after its end is what must be counted for good.
LEMMA StaysHeld ==
    ASSUME BooksInv, BooksInv', NEW m \in Nat, m < today, NEW f, ShutAs(f, bill, book, m),
           book' = book \/ \E r \in BookRows : r.month = today /\ book' = Append(book, r),
           \A p \in Bills : Moves(bill[p], bill'[p], today)
    PROVE  ShutAs(f, bill', book', m)
<1>1. /\ book \in Seq(BookRows) /\ today \in Nat
      /\ \A p \in Bills : SoundBill(bill[p], p, book, today)
      /\ \A p \in Bills : SoundBill(bill'[p], p, book', today')
  BY DEF BooksInv, SoundBook
<1>2. NetOf(book', m) = NetOf(book, m)
  <2>1. ASSUME NEW r \in BookRows, r.month = today, book' = Append(book, r) PROVE NetOf(book', m) = NetOf(book, m)
    <3>1. r.month # m
      BY <1>1, <2>1
    <3> QED BY <1>1, <2>1, <3>1, NetStays
  <2> QED BY <2>1
<1>3. Approved(bill, m) \subseteq Approved(bill', m)
  BY DEF Approved, Moves
<1>4. TakenBack(bill', m) = TakenBack(bill, m)
  <2>1. today # m
    BY <1>1
  <2> QED BY <2>1 DEF TakenBack, Moves
<1>5. ASSUME NEW p \in Bills, bill[p].stage \in Done, bill'[p].stage \in Done
      PROVE  /\ BookedIn(book', bill'[p], p) = BookedIn(book, bill[p], p)
             /\ ~ClashIn(book', bill'[p], p) => ~ClashIn(book, bill[p], p)
  <2> DEFINE q == bill[p]
             s == bill'[p]
             c == book'
             e == today'
  <2>1. SoundBill(q, p, book, today) /\ SoundBill(s, p, c, e) /\ s.kind = q.kind
    BY <1>1 DEF Moves
  <2>2. c = book \/ \E r \in BookRows : c = Append(book, r)
    OBVIOUS
  <2>3. q.stage \in Done /\ s.stage \in Done
    BY <1>5
  <2> HIDE DEF q, s, c, e
  <2>4. BookedIn(c, s, p) = BookedIn(book, q, p) /\ (~ClashIn(c, s, p) => ~ClashIn(book, q, p))
    BY <1>1, <2>1, <2>2, <2>3, RowRemains
  <2> QED BY <2>4 DEF q, s, c
<1>6. Known(bill', book', m) \subseteq Known(bill, book, m)
  <2> SUFFICES ASSUME NEW p \in Known(bill', book', m) PROVE p \in Known(bill, book, m)
    OBVIOUS
  <2>1. /\ p \in Bills /\ bill'[p].kind = "CONTRIBUTION" /\ bill'[p].stage \in Done /\ bill'[p].paid = m
        /\ m \in BookedIn(book', bill'[p], p)
    BY DEF Known, Approved
  <2>2. bill[p].stage \in Done
    <3> SUFFICES ASSUME bill[p].stage \notin Done PROVE FALSE
      OBVIOUS
    <3> DEFINE q == bill[p]
               s == bill'[p]
               c == book'
               e == today'
    <3>1. SoundBill(q, p, book, today) /\ SoundBill(s, p, c, e) /\ s.kind = q.kind
      BY <1>1, <2>1 DEF Moves
    <3>2. q.stage \notin Done /\ s.stage \in Done /\ m \in BookedIn(c, s, p) /\ today # m
      BY <1>1, <2>1
    <3>3. PICK r \in BookRows : c = book \/ (r.month = today /\ c = Append(book, r))
      <4>1. [type |-> "EXPENSE", ref |-> 0, direction |-> "DEBIT", reversalOf |-> 0, month |-> 0] \in BookRows
        BY DEF BookRows
      <4> QED BY <4>1
    <3> HIDE DEF q, s, c, e
    <3>4. BookedIn(c, s, p) \subseteq {r.month}
      BY <1>1, <3>1, <3>2, <3>3, RowIsNew
    <3>5. c # book
      <4>1. c = book => OwnRows(c, s, p) = OwnRows(book, q, p)
        BY <3>1 DEF OwnRows
      <4>2. OwnRows(book, q, p) = {}
        BY <3>1, <3>2 DEF SoundBill
      <4> QED BY <3>2, <4>1, <4>2 DEF BookedIn
    <3> QED BY <3>2, <3>3, <3>4, <3>5
  <2>3. bill[p].kind = "CONTRIBUTION" /\ bill[p].paid = m
    BY <2>1, <2>2 DEF Moves
  <2> QED BY <1>5, <2>1, <2>2, <2>3 DEF Known, Approved
<1>7. Alone(bill', book', m) \subseteq Alone(bill, book, m)
  <2> SUFFICES ASSUME NEW p \in Alone(bill', book', m) PROVE p \in Alone(bill, book, m)
    OBVIOUS
  <2>1. p \in TakenBack(bill', m) /\ ~ClashIn(book', bill'[p], p)
    BY DEF Alone
  <2>2. p \in TakenBack(bill, m)
    BY <1>4, <2>1
  <2>3. p \in Bills /\ bill[p].stage \in Done /\ bill'[p].stage \in Done
    BY <2>1, <2>2 DEF TakenBack, Done
  <2> QED BY <1>5, <2>1, <2>2, <2>3 DEF Alone
<1>8. PICK A \in SUBSET Approved(bill, m), B \in SUBSET TakenBack(bill, m) :
        /\ f.contributions = Cardinality(A) - Cardinality(B)
        /\ Known(bill, book, m) \subseteq A /\ Alone(bill, book, m) \subseteq B
  BY DEF ShutAs
<1>9. /\ A \in SUBSET Approved(bill', m) /\ B \in SUBSET TakenBack(bill', m)
      /\ Known(bill', book', m) \subseteq A /\ Alone(bill', book', m) \subseteq B
  BY <1>3, <1>4, <1>6, <1>7, <1>8
<1>10. f.net = NetOf(book', m)
  BY <1>2 DEF ShutAs
<1> QED BY <1>8, <1>9, <1>10 DEF ShutAs

\* What the books say of the months by these names.
LEMMA MonthNames ==
    ASSUME MonthAssumptions, BooksInv
    PROVE  /\ \A m : Monthly!SettlementEvents(m) = Approved(bill, m)
           /\ \A m : Monthly!Net(m) = NetOf(book, m)
           /\ \A p : Monthly!Clashes(p) <=> ClashIn(book, bill[p], p)
           /\ \A p : Monthly!Booked(p) = BookedIn(book, bill[p], p)
           /\ \A m \in 1 .. LastMonth : Monthly!ReversalEvents(m) = {p \in TakenBack(bill, m) : Monthly!Effective(p)}
<1>1. \A m : Monthly!SettlementEvents(m) = Approved(bill, m)
  BY Counts DEF Monthly!SettlementEvents, Approved, PaidFor
<1>2. \A m : Monthly!Net(m) = NetOf(book, m)
  BY Counts DEF Monthly!Net, NetOf
<1>3. \A p : Monthly!Clashes(p) <=> ClashIn(book, bill[p], p)
  BY BookNames DEF Monthly!Clashes, ClashIn
<1>4. \A p : Monthly!Booked(p) = BookedIn(book, bill[p], p)
  BY BookNames DEF Monthly!Booked, BookedIn
<1>5. \A m : Monthly!ReversalEvents(m) = {p \in TakenBack(bill, m) : Monthly!Effective(p)}
  BY Counts DEF Monthly!ReversalEvents, TakenBack, PaidFor, Monthly!Effective, Done
<1> QED BY <1>1, <1>2, <1>3, <1>4, <1>5

\* A month is closed.
LEMMA MonthCloses ==
    ASSUME MonthAssumptions, MonthlyInv, NEW m \in 1 .. LastMonth, Monthly!Close(m) PROVE ShutInv'
<1>1. /\ UNCHANGED <<today, bill, book>>
      /\ shut' = [shut EXCEPT ![m] = [at |-> today, contributions |-> Monthly!ContributionEvents(m),
                                      net |-> Monthly!Net(m)]]
  BY DEF Monthly!Close
<1> DEFINE f == [at |-> today, contributions |-> Monthly!ContributionEvents(m), net |-> Monthly!Net(m)]
<1>2. /\ DOMAIN shut' = 1 .. LastMonth /\ shut'[m] = f
      /\ \A k \in 1 .. LastMonth : k # m => shut'[k] = shut[k]
  BY <1>1 DEF MonthlyInv, ShutInv
<1>3. f.at = today /\ f.contributions = Monthly!ContributionEvents(m) /\ f.net = NetOf(book, m)
  BY MonthNames DEF MonthlyInv
<1> HIDE DEF f
<1>4. ShutAs(f, bill, book, m)
  <2> DEFINE A == Approved(bill, m)
             B == {p \in TakenBack(bill, m) : Monthly!Effective(p)}
  <2>1. Monthly!ContributionEvents(m) = Cardinality(A) - Cardinality(B)
    BY MonthNames, Counts DEF Monthly!ContributionEvents, MonthlyInv
  <2>2. Alone(bill, book, m) \subseteq B
    <3> SUFFICES ASSUME NEW p \in Alone(bill, book, m) PROVE p \in B
      OBVIOUS
    <3>1. p \in TakenBack(bill, m) /\ ~Monthly!Clashes(p)
      BY MonthNames DEF Alone, MonthlyInv
    <3>2. p \in Bills /\ bill[p].stage = "reversed" /\ bill[p].stage \in Done
      BY <3>1 DEF TakenBack, Done
    <3> QED BY <3>1, <3>2, NoClash DEF MonthlyInv
  <2>3. A \in SUBSET Approved(bill, m) /\ B \in SUBSET TakenBack(bill, m) /\ Known(bill, book, m) \subseteq A
    BY DEF Known
  <2> HIDE DEF A, B
  <2> QED BY <1>3, <2>1, <2>2, <2>3 DEF ShutAs
<1>5. today \in Nat
  BY DEF MonthlyInv, BooksInv
<1>6. ASSUME NEW k \in 1 .. LastMonth
      PROVE  shut'[k].at \in 0 .. today /\ (shut'[k].at > k => ShutAs(shut'[k], bill, book, k))
  <2>1. CASE k = m
    BY <1>2, <1>3, <1>4, <1>5, <2>1
  <2>2. CASE k # m
    BY <1>2, <2>2 DEF MonthlyInv, ShutInv
  <2> QED BY <2>1, <2>2
<1> QED BY <1>1, <1>2, <1>6 DEF ShutInv

\* Whatever is done, closed months stand.
LEMMA MonthlyKeeps == ASSUME MonthAssumptions, MonthlyInv, [Monthly!Next]_(Monthly!vars) PROVE MonthlyInv'
<1>1. BooksInv /\ ShutInv /\ BooksInv'
  BY BooksKeep DEF MonthlyInv
<1>2. ASSUME NEW m \in Monthly!Months, Monthly!Close(m) PROVE ShutInv'
  BY <1>2, MonthCloses DEF Monthly!Months
<1>3. ASSUME shut' = shut,
             book' = book \/ \E r \in BookRows : r.month = today /\ book' = Append(book, r),
             today' = today \/ Monthly!Tick,
             \A p \in Bills : Moves(bill[p], bill'[p], today)
      PROVE  ShutInv'
  <2>1. today \in Nat /\ today' \in Nat /\ today <= today'
    BY <1>1, <1>3 DEF BooksInv, Monthly!Tick
  <2>2. ASSUME NEW m \in 1 .. LastMonth
        PROVE  shut[m].at \in 0 .. today' /\ (shut[m].at > m => ShutAs(shut[m], bill', book', m))
    <3>1. shut[m].at \in 0 .. today /\ (shut[m].at > m => ShutAs(shut[m], bill, book, m))
      BY <1>1 DEF ShutInv
    <3>2. ASSUME shut[m].at > m PROVE ShutAs(shut[m], bill', book', m)
      <4>1. m \in Nat /\ m < today
        BY <2>1, <3>1, <3>2
      <4>2. PICK f : f = shut[m]
        OBVIOUS
      <4>3. ShutAs(f, bill, book, m)
        BY <3>1, <3>2, <4>2
      <4>4. ShutAs(f, bill', book', m)
        BY <1>1, <1>3, <4>1, <4>3, StaysHeld
      <4> QED BY <4>2, <4>4
    <3>3. shut[m].at \in 0 .. today'
      BY <2>1, <3>1
    <3> QED BY <3>2, <3>3
  <2> QED BY <1>1, <1>3, <2>2 DEF ShutInv
<1>4. ShutInv'
  BY <1>1, <1>2, <1>3, BooksMove
<1> QED BY <1>1, <1>4 DEF MonthlyInv

\* So nothing but late payments and shared numbers moves what was closed.
LEMMA MonthsAreClosed == ASSUME MonthAssumptions, MonthlyInv PROVE Monthly!ClosedMonthsStand
<1>1. BooksInv /\ ShutInv
  BY DEF MonthlyInv
<1>2. ASSUME NEW m \in 1 .. LastMonth, shut[m].at > m,
             ~\E p \in Monthly!Settled("CONTRIBUTION") :
                 (bill[p].paid = m /\ m \notin Monthly!Booked(p)) \/ (bill[p].reversed = m /\ Monthly!Clashes(p))
      PROVE  Monthly!ContributionEvents(m) = shut[m].contributions
  <2>1. PICK A \in SUBSET Approved(bill, m), B \in SUBSET TakenBack(bill, m) :
          /\ shut[m].contributions = Cardinality(A) - Cardinality(B)
          /\ Known(bill, book, m) \subseteq A /\ Alone(bill, book, m) \subseteq B
    BY <1>1, <1>2 DEF ShutInv, ShutAs
  <2>2. Approved(bill, m) \subseteq Known(bill, book, m)
    <3>1. \A p \in Approved(bill, m) : p \in Monthly!Settled("CONTRIBUTION") /\ bill[p].paid = m
      BY <1>1, Counts DEF Approved, PaidFor
    <3> QED BY <1>1, <1>2, <3>1, MonthNames DEF Known
  <2>3. TakenBack(bill, m) \subseteq Alone(bill, book, m)
    <3>1. \A p \in TakenBack(bill, m) : p \in Monthly!Settled("CONTRIBUTION") /\ bill[p].reversed = m
      BY <1>1, Counts DEF TakenBack, PaidFor, Done
    <3> QED BY <1>1, <1>2, <3>1, MonthNames DEF Alone
  <2>4. \A p \in TakenBack(bill, m) : Monthly!Effective(p)
    <3> SUFFICES ASSUME NEW p \in TakenBack(bill, m) PROVE Monthly!Effective(p)
      OBVIOUS
    <3>1. p \in Bills /\ bill[p].stage = "reversed" /\ bill[p].stage \in Done
      BY DEF TakenBack, Done
    <3>2. ~Monthly!Clashes(p)
      BY <1>1, <2>3, MonthNames DEF Alone
    <3> QED BY <1>1, <3>1, <3>2, NoClash
  <2>5. Monthly!SettlementEvents(m) = A /\ Monthly!ReversalEvents(m) = B
    <3>1. A = Approved(bill, m) /\ B = TakenBack(bill, m)
      BY <2>1, <2>2, <2>3
    <3>2. Monthly!SettlementEvents(m) = Approved(bill, m)
          /\ Monthly!ReversalEvents(m) = {p \in TakenBack(bill, m) : Monthly!Effective(p)}
      BY <1>1, MonthNames
    <3> QED BY <2>4, <3>1, <3>2
  <2> QED BY <1>1, <2>1, <2>5, Counts DEF Monthly!ContributionEvents
<1>3. ASSUME NEW m \in 1 .. LastMonth, shut[m].at > m PROVE Monthly!Net(m) = shut[m].net
  BY <1>1, <1>3, MonthNames DEF ShutInv, ShutAs
<1> QED BY <1>2, <1>3 DEF Monthly!ClosedMonthsStand, Monthly!Months

\* The check of a month raises no false alarm but three, and the figures of a month that
\* was closed after its end are still those of the books, but for late and shared ones.
THEOREM MonthsStand ==
    ASSUME MonthAssumptions
    PROVE  Monthly!Spec => [](Monthly!AlarmsAreExplained /\ Monthly!ClosedMonthsStand)
<1>1. Monthly!Init => MonthlyInv
  BY BooksStart, NoneIsShut DEF MonthlyInv
<1>2. MonthlyInv /\ [Monthly!Next]_(Monthly!vars) => MonthlyInv'
  BY MonthlyKeeps
<1>3. MonthlyInv => Monthly!AlarmsAreExplained /\ Monthly!ClosedMonthsStand
  BY AlarmsAre, MonthsAreClosed DEF MonthlyInv
<1> QED BY <1>1, <1>2, <1>3, PTL DEF Monthly!Spec

=============================================================================
