---------------------------- MODULE RiskExecution ----------------------------
(***************************************************************************)
(* The carrying out of a risk decision and the verdict on its effect       *)
(* (services/executive_risk_execution_v080.py, _effectiveness_v081.py and  *)
(* their endpoints).  A request loads and, later, writes the columns it    *)
(* changed, as in RiskDecision.                                            *)
(***************************************************************************)
EXTENDS Integers

CONSTANTS Admins, Requests

VARIABLES execution,      \* ExecutiveRiskDecisionExecution
          effect,         \* ExecutiveRiskEffectiveness
          request,        \* what each request loaded and is about to write
          completers      \* history: who completed it

vars == <<execution, effect, request, completers>>

Nobody == 0
NewExecution == [status |-> "PENDING", assigned |-> Nobody, completed |-> Nobody, verified |-> Nobody]
NoEffect == [status |-> "none", reviewed |-> Nobody]
Idle == [op |-> "idle", admin |-> Nobody, execution |-> NewExecution, effect |-> NoEffect]

\* Whoever orders it may assign it at once; the daily job does not.
Init ==
    /\ \E a \in Admins \cup {Nobody} : execution = [NewExecution EXCEPT !.assigned = a]
    /\ effect = NoEffect
    /\ request = [r \in Requests |-> Idle]
    /\ completers = {}

Loads(r, op, a) ==
    /\ request[r] = Idle
    /\ request' = [request EXCEPT ![r] = [op |-> op, admin |-> a, execution |-> execution, effect |-> effect]]
    /\ UNCHANGED <<execution, effect, completers>>

Writes(r, op) == request[r].op = op /\ request' = [request EXCEPT ![r] = Idle]

\* Only the columns that change are written, over what the row is by now.
Changed(old, new, now) == IF new = old THEN now ELSE new

-----------------------------------------------------------------------------
(* The execution.                                                           *)

Unstarted == {"PENDING", "ASSIGNED"}

\* The administrator of the request is who will carry it out.
ReadAssign(r) == execution.status \in Unstarted /\ \E a \in Admins : Loads(r, "assign", a)

Assign(r) ==
    LET x == request[r].execution
    IN  /\ Writes(r, "assign")
        /\ execution' = [execution EXCEPT !.assigned = Changed(x.assigned, request[r].admin, @),
                                          !.status = Changed(x.status, "ASSIGNED", @)]
        /\ UNCHANGED <<effect, completers>>

ReadStart(r) ==
    /\ execution.status \in Unstarted
    /\ \E a \in Admins : execution.assigned \in {Nobody, a} /\ Loads(r, "start", a)

Start(r) ==
    /\ Writes(r, "start")
    /\ execution' = [execution EXCEPT !.status = "IN_EXECUTION"]
    /\ UNCHANGED <<effect, completers>>

\* Any administrator may complete it, not only who started it.
ReadComplete(r) == execution.status = "IN_EXECUTION" /\ \E a \in Admins : Loads(r, "complete", a)

Complete(r) ==
    LET x == request[r].execution
        a == request[r].admin
    IN  /\ Writes(r, "complete")
        /\ execution' = [execution EXCEPT !.status = "COMPLETED", !.completed = Changed(x.completed, a, @)]
        /\ completers' = completers \cup {a}
        /\ UNCHANGED effect

\* Mutant: who completed it may verify it.
MayVerify_Anyone(a) == execution.status = "COMPLETED"

MayVerify(a) == execution.status = "COMPLETED" /\ execution.completed # a
ReadVerify(r) == \E a \in Admins : MayVerify(a) /\ Loads(r, "verify", a)

Verify(r) ==
    /\ Writes(r, "verify")
    /\ execution' = [execution EXCEPT !.status = "VERIFIED",
                                      !.verified = Changed(request[r].execution.verified, request[r].admin, @)]
    /\ UNCHANGED <<effect, completers>>

-----------------------------------------------------------------------------
(* Its effect.                                                              *)

ReadEffect(r) == execution.status = "VERIFIED" /\ effect.status = "none" /\ Loads(r, "effect", Nobody)

\* The row of an execution is unique: a second insert fails.
OpenEffect(r) ==
    /\ Writes(r, "effect")
    /\ effect' = IF effect.status = "none" THEN [NoEffect EXCEPT !.status = "PENDING"] ELSE effect
    /\ UNCHANGED <<execution, completers>>

ReadMeasure(r) == effect.status \in {"PENDING", "MEASURED"} /\ Loads(r, "measure", Nobody)

Measure(r) ==
    /\ Writes(r, "measure")
    /\ effect' = [effect EXCEPT !.status = Changed(request[r].effect.status, "MEASURED", @)]
    /\ UNCHANGED <<execution, completers>>

\* The measurement does not record who made it: the reviewer is compared with
\* the last one, and there is none before the first review.
ReadReview(r) == effect.status = "MEASURED" /\ \E a \in Admins : effect.reviewed # a /\ Loads(r, "review", a)

Review(r) ==
    /\ Writes(r, "review")
    /\ effect' = [effect EXCEPT !.status = "VERIFIED", !.reviewed = request[r].admin]
    /\ UNCHANGED <<execution, completers>>

Abandon(r) ==
    /\ request[r] # Idle
    /\ request' = [request EXCEPT ![r] = Idle]
    /\ UNCHANGED <<execution, effect, completers>>

Next ==
    \E r \in Requests :
        \/ ReadAssign(r) \/ Assign(r) \/ ReadStart(r) \/ Start(r) \/ ReadComplete(r) \/ Complete(r)
        \/ ReadVerify(r) \/ Verify(r) \/ ReadEffect(r) \/ OpenEffect(r) \/ ReadMeasure(r) \/ Measure(r)
        \/ ReadReview(r) \/ Review(r) \/ Abandon(r)

Spec == Init /\ [][Next]_vars

-----------------------------------------------------------------------------

\* Who verified an execution is not the only one that completed it, and only
\* what was verified is judged.  Two completions at once may still leave the
\* verifier's name in both columns.
VerifiedByAnother ==
    /\ execution.verified # Nobody => completers \ {execution.verified} # {}
    /\ effect.status # "none" => execution.verified # Nobody
=============================================================================
