---------------------------- MODULE RiskDecision ----------------------------
(***************************************************************************)
(* An executive risk decision, from its request to the order to carry it   *)
(* out (services/executive_risk_decision_v078.py, _governance_v079.py and  *)
(* create_execution of _execution_v080.py, with their endpoints).          *)
(*                                                                         *)
(* Every endpoint loads its rows without a lock, checks what it loaded and *)
(* commits the columns it changed: a request is a reading and, later, a    *)
(* writing, and what others commit in between is neither seen nor kept.    *)
(* The daily job does some of the readings and writings too.  Notes,       *)
(* conditions and hashes are left out; a request may be refused for them.  *)
(***************************************************************************)
EXTENDS Integers, FiniteSets

CONSTANTS Admins,
          Requester,      \* who asked for the decision
          Required,       \* approvals its priority asks for, 1 or 2
          Requests        \* requests in flight

VARIABLES decision,       \* ExecutiveRiskDecision: the last decision, or "none"
          governance,     \* ExecutiveRiskDecisionGovernance
          ordered,        \* whether there is an ExecutiveRiskDecisionExecution
          request,        \* what each request loaded and is about to write
          done            \* history: who endorsed, whether it was approved

vars == <<decision, governance, ordered, request, done>>

Nobody == 0
NoGovernance == [status |-> "none", count |-> 0, first |-> Nobody, second |-> Nobody, valid |-> FALSE]
Idle == [op |-> "idle", admin |-> Nobody, seen |-> NoGovernance]

Init ==
    /\ decision = "none"
    /\ governance = NoGovernance
    /\ ordered = FALSE
    /\ request = [r \in Requests |-> Idle]
    /\ done = [endorsers |-> {}, approved |-> FALSE]

\* A request has checked what it loaded.
Loads(r, op, a) ==
    /\ request[r] = Idle
    /\ request' = [request EXCEPT ![r] = [op |-> op, admin |-> a, seen |-> governance]]
    /\ UNCHANGED <<decision, governance, ordered, done>>

Writes(r, op) == request[r].op = op /\ request' = [request EXCEPT ![r] = Idle]

-----------------------------------------------------------------------------
(* The decision.                                                            *)

ReadDecision(r) == decision = "none" /\ \E verdict \in {"APPROVE", "REJECT"} : Loads(r, verdict, Nobody)

Decide(r) ==
    \E verdict \in {"APPROVE", "REJECT"} :
        /\ Writes(r, verdict)
        /\ decision' = verdict
        /\ done' = [done EXCEPT !.approved = @ \/ verdict = "APPROVE"]
        /\ UNCHANGED <<governance, ordered>>

-----------------------------------------------------------------------------
(* Its governance.                                                          *)

\* Whoever asks, and the daily job, open it for every decision without one.
ReadSync(r) == governance.status = "none" /\ Loads(r, "open", Nobody)

\* The row of a decision is unique: a second insert fails, and the daily job
\* with it when it came second.
Open(r) ==
    /\ Writes(r, "open")
    /\ governance' = IF governance.status = "none" THEN [NoGovernance EXCEPT !.status = "PENDING"] ELSE governance
    /\ UNCHANGED <<decision, ordered, done>>

Undecided == {"PENDING", "AWAITING_SECOND_APPROVAL"}

\* Mutant: who asked for the decision may approve it.
MayApprove_Anyone(a) ==
    /\ governance.status \in Undecided /\ decision = "APPROVE"
    /\ a \notin {governance.first, governance.second} /\ governance.count < 2

MayApprove(a) ==
    /\ governance.status \in Undecided /\ decision = "APPROVE" /\ a # Requester
    /\ a \notin {governance.first, governance.second} /\ governance.count < 2

ReadApproval(r) == \E a \in Admins : MayApprove(a) /\ Loads(r, "approve", a)

\* Only the columns that change are written, over what the row is by now.
Changed(old, new, now) == IF new = old THEN now ELSE new

Approve(r) ==
    LET g == request[r].seen
        a == request[r].admin
        status == IF g.count + 1 >= Required THEN "AUTHORIZED" ELSE "AWAITING_SECOND_APPROVAL"
    IN  /\ Writes(r, "approve")
        /\ governance' = [governance EXCEPT !.count = g.count + 1,
                                            !.first = IF g.count = 0 THEN a ELSE @,
                                            !.second = IF g.count = 1 THEN a ELSE @,
                                            !.status = Changed(g.status, status, @)]
        /\ done' = [done EXCEPT !.endorsers = @ \cup {a}]
        /\ UNCHANGED <<decision, ordered>>

MayValidate == governance.status = "AUTHORIZED" /\ (Required > 1 => governance.first # governance.second)
ReadValidation(r) == MayValidate /\ Loads(r, "validate", Nobody)

Validate(r) ==
    /\ Writes(r, "validate")
    /\ governance' = [governance EXCEPT !.valid = TRUE]
    /\ UNCHANGED <<decision, ordered, done>>

-----------------------------------------------------------------------------
(* The order to carry it out, by an endpoint or the daily job.              *)

ReadOrder(r) == governance.valid /\ ~ordered /\ Loads(r, "order", Nobody)

Order(r) ==
    /\ Writes(r, "order")
    /\ ordered' = TRUE
    /\ UNCHANGED <<decision, governance, done>>

\* It is refused for a note or a condition, fails, or does not live.
Abandon(r) ==
    /\ request[r] # Idle
    /\ request' = [request EXCEPT ![r] = Idle]
    /\ UNCHANGED <<decision, governance, ordered, done>>

Next ==
    \E r \in Requests :
        \/ ReadDecision(r) \/ Decide(r) \/ ReadSync(r) \/ Open(r) \/ ReadApproval(r) \/ Approve(r)
        \/ ReadValidation(r) \/ Validate(r) \/ ReadOrder(r) \/ Order(r) \/ Abandon(r)

Spec == Init /\ [][Next]_vars

-----------------------------------------------------------------------------

\* What is carried out was approved, and endorsed by as many administrators as
\* its priority asks for, none of them the one who asked for it.  True of what
\* was done: the row may lose one of two approvals at once, or show the same
\* administrator twice.
OrderedIsEndorsed ==
    ordered => /\ done.approved
               /\ Cardinality(done.endorsers) >= Required
               /\ Requester \notin done.endorsers
=============================================================================
