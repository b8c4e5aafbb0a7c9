--------------------------- MODULE ImprovementPlan ---------------------------
(***************************************************************************)
(* One recommendation for improvement and its plan: the decision on it     *)
(* (services/continuous_improvement_v082.py), the plan and its             *)
(* measurements (_v083.py), who is given it (_governance_v087.py) and the  *)
(* order to execute it (create_from_decision and the end of                *)
(* verify_execution of _execution_v088.py).                                *)
(*                                                                         *)
(* As in RiskDecision a request loads its rows without a lock, checks them *)
(* and later writes the columns it changed.  Only the governance decision  *)
(* locks the plan.  Notes, values and capacities are left out; a request   *)
(* may be refused for them, and the result of a measurement is any.  What  *)
(* a request brings, and who sends it, is chosen when it is first used.    *)
(***************************************************************************)
EXTENDS Integers, Sequences

CONSTANTS Admins, Requests,
          MaxMeasurements     \* bound on the measurements of the plan

VARIABLES recommendation,     \* ContinuousImprovementRecommendation
          plan,               \* ContinuousImprovementPlan
          measurements,       \* ContinuousImprovementMeasurement, in the order of their rows
          ordered,            \* "no", "decided" or, once there is an execution, "yes"
          request,            \* what each request loaded and is about to write
          accepted            \* history: whether the recommendation was ever accepted

vars == <<recommendation, plan, measurements, ordered, request, accepted>>

Nobody == 0
Open == [status |-> "OPEN", decided |-> Nobody, implemented |-> Nobody]
NoPlan == [status |-> "none", assigned |-> FALSE]     \* to whom is left out

\* Of what was loaded only what is used again is kept: the plan, the number of
\* the last measurement, who took part in the recommendation.
Idle == [op |-> "idle", admin |-> Nobody, plan |-> NoPlan, last |-> 0, parties |-> {}]

Init ==
    /\ recommendation = Open
    /\ plan = NoPlan
    /\ measurements = <<>>
    /\ ordered = "no"
    /\ request = [r \in Requests |-> Idle]
    /\ accepted = FALSE

Keeps(r, loaded) ==
    /\ request[r] = Idle
    /\ request' = [request EXCEPT ![r] = loaded]
    /\ UNCHANGED <<recommendation, plan, measurements, ordered, accepted>>

Loads(r, op) == Keeps(r, [Idle EXCEPT !.op = op])
LoadsPlan(r, op) == Keeps(r, [Idle EXCEPT !.op = op, !.plan = plan])

Writes(r, op) == request[r].op = op /\ request' = [request EXCEPT ![r] = Idle]

\* Only the columns that change are written, over what the row is by now.
Changed(old, new, now) == IF new = old THEN now ELSE new

-----------------------------------------------------------------------------
(* The recommendation.                                                      *)

ReadDecide(r) == recommendation.status = "OPEN" /\ Loads(r, "decide")

Decide(r) ==
    \E a \in Admins, verdict \in {"ACCEPTED", "REJECTED"} :
        /\ Writes(r, "decide")
        /\ recommendation' = [recommendation EXCEPT !.status = verdict, !.decided = a]
        /\ accepted' = (accepted \/ verdict = "ACCEPTED")
        /\ UNCHANGED <<plan, measurements, ordered>>

ReadImplement(r) == recommendation.status = "ACCEPTED" /\ Loads(r, "implement")

Implement(r) ==
    /\ Writes(r, "implement")
    /\ \E a \in Admins :
           recommendation' = [recommendation EXCEPT !.status = "IMPLEMENTED", !.implemented = a]
    /\ UNCHANGED <<plan, measurements, ordered, accepted>>

-----------------------------------------------------------------------------
(* Its plan.                                                                *)

\* By an endpoint or the daily job; the row of a recommendation is unique.
ReadCreate(r) == recommendation.status = "ACCEPTED" /\ plan.status = "none" /\ Loads(r, "plan")

CreatePlan(r) ==
    /\ Writes(r, "plan")
    /\ plan' = IF plan.status = "none" THEN [plan EXCEPT !.status = "OPEN"] ELSE plan
    /\ UNCHANGED <<recommendation, measurements, ordered, accepted>>

ReadAssign(r) == plan.status \in {"OPEN", "IN_PROGRESS"} /\ LoadsPlan(r, "assign")

Assign(r) ==
    LET p == request[r].plan
    IN  /\ Writes(r, "assign")
        /\ plan' = [status |-> Changed(p.status, "IN_PROGRESS", plan.status), assigned |-> TRUE]
        /\ UNCHANGED <<recommendation, measurements, ordered, accepted>>

\* The end of the plan's own way, or of an execution that was verified, which
\* asks only that the plan was not closed.
ReadDone(r) ==
    \/ plan.status = "IN_PROGRESS" /\ LoadsPlan(r, "done")
    \/ ordered = "yes" /\ plan.status # "CLOSED" /\ LoadsPlan(r, "done")

Done(r) ==
    /\ Writes(r, "done")
    /\ plan' = [plan EXCEPT !.status = Changed(request[r].plan.status, "IMPLEMENTED", @)]
    /\ UNCHANGED <<recommendation, measurements, ordered, accepted>>

ReadMeasure(r) == plan.status = "IMPLEMENTED" /\ Loads(r, "measure")

Measure(r) ==
    \E a \in Admins, result \in {"EFFECTIVE", "INEFFECTIVE"} :
        /\ Writes(r, "measure")
        /\ Len(measurements) < MaxMeasurements
        /\ measurements' = Append(measurements, [result |-> result, by |-> a, verified |-> Nobody])
        /\ plan' = [plan EXCEPT !.status = "MEASURED"]
        /\ UNCHANGED <<recommendation, ordered, accepted>>

\* Mutant: who measured may verify.
MayVerify_Anyone(a) == plan.status = "MEASURED" /\ measurements # <<>>

MayVerify(a) ==
    /\ plan.status = "MEASURED" /\ measurements # <<>>
    /\ measurements[Len(measurements)].by # a

ReadVerify(r) == \E a \in Admins : MayVerify(a) /\ Keeps(r, [Idle EXCEPT !.op = "verify", !.admin = a, !.last = Len(measurements)])

\* Of the measurement that was the last when it was loaded.
Verify(r) ==
    LET m == request[r].last
    IN  /\ Writes(r, "verify")
        /\ measurements' = [measurements EXCEPT ![m].verified = request[r].admin]
        /\ plan' = [plan EXCEPT !.status = IF measurements[m].result = "EFFECTIVE" THEN "CLOSED" ELSE "REVIEW_REQUIRED"]
        /\ UNCHANGED <<recommendation, ordered, accepted>>

-----------------------------------------------------------------------------
(* Who is given it.                                                         *)

ReadAccept(r) ==
    Keeps(r, [Idle EXCEPT !.op = "accept", !.parties = {recommendation.decided, recommendation.implemented}])

\* The plan is locked and read now, the recommendation was read before.
Accept(r) ==
    /\ Writes(r, "accept")
    /\ plan.status \notin {"none", "CLOSED"}
    /\ \E a, target \in Admins : target # a /\ target \notin request[r].parties
    /\ plan' = [plan EXCEPT !.assigned = TRUE]
    /\ ordered' = IF ordered = "no" THEN "decided" ELSE ordered
    /\ UNCHANGED <<recommendation, measurements, accepted>>

\* By an endpoint or the daily job; the row of a decision is unique.
ReadOrder(r) == ordered = "decided" /\ plan.status # "CLOSED" /\ plan.assigned /\ Loads(r, "order")

Order(r) ==
    /\ Writes(r, "order")
    /\ ordered' = "yes"
    /\ UNCHANGED <<recommendation, plan, measurements, accepted>>

Abandon(r) ==
    /\ request[r] # Idle
    /\ request' = [request EXCEPT ![r] = Idle]
    /\ UNCHANGED <<recommendation, plan, measurements, ordered, accepted>>

Next ==
    \E r \in Requests :
        \/ ReadDecide(r) \/ Decide(r) \/ ReadImplement(r) \/ Implement(r) \/ ReadCreate(r) \/ CreatePlan(r)
        \/ ReadAssign(r) \/ Assign(r) \/ ReadDone(r) \/ Done(r) \/ ReadMeasure(r) \/ Measure(r)
        \/ ReadVerify(r) \/ Verify(r) \/ ReadAccept(r) \/ Accept(r) \/ ReadOrder(r) \/ Order(r) \/ Abandon(r)

Spec == Init /\ [][Next]_vars

-----------------------------------------------------------------------------

\* A plan is closed only for a recommendation that was accepted, and by a
\* measurement that showed an effect and that another than who made it
\* verified, whatever was measured or done again meanwhile.
ClosedIsProved ==
    plan.status = "CLOSED" =>
        /\ accepted
        /\ \E i \in 1 .. Len(measurements) :
               LET m == measurements[i]
               IN  m.result = "EFFECTIVE" /\ m.verified \notin {Nobody, m.by}
=============================================================================
