------------------------- MODULE PayoutVerification -------------------------
(***************************************************************************)
(* The Pix destinations of a member and the evidence of their verification *)
(* (services/member_payout_destination.py,                                 *)
(* services/payout_destination_verification.py,                            *)
(* core/payout_destination_verification.py and the guards of migrations    *)
(* 0101 and 0102).                                                         *)
(*                                                                         *)
(* Destinations and attempts change under the row lock of the member,      *)
(* held to the end of the transaction.  What a request reads before it     *)
(* takes the lock is kept in its task and may be stale when it is used.    *)
(* The provider answers an attempt as often, as late and in whatever order *)
(* it likes.                                                               *)
(***************************************************************************)
EXTENDS Naturals, FiniteSets

CONSTANTS
    Members,
    Keys,           \* idempotency keys
    Workers,        \* requests served at the same time
    MaxVersion,     \* bound: versions of a member's destination
    MaxRows,        \* bound: destinations stored
    Attempts,       \* verification attempts, by their random identifier
    Outcomes,       \* VerificationOutcome
    RequestIds,     \* identifiers the provider gives a request,
    ResponseIds,    \* a response
    EventIds,       \* and an event
    None

ASSUME VersionsAssumption == MaxVersion \in Nat \ {0}
ASSUME NoneAssumption ==
    None \notin Members \cup Keys \cup Outcomes \cup RequestIds \cup ResponseIds \cup EventIds

VARIABLES
    dest,       \* member -> version -> status of the row
    attempt,    \* id -> row of the attempt
    evidence,   \* id -> the answers stored for it, each with its freshness
    task        \* worker -> the request it serves

vars == <<dest, attempt, evidence, task>>

Versions == 1..MaxVersion
Statuses == {"none", "UNVERIFIED", "REVOKED"}
Freshnesses == {"CURRENT", "STALE", "REVOKED"}

\* A normalised answer: a pending one has no outcome, a final one has.
Answer(state, outcome, request, response, event) ==
    [state |-> state, outcome |-> outcome, request |-> request,
     response |-> response, event |-> event]

AnswerIds == (RequestIds \cup {None}) \X (ResponseIds \cup {None}) \X (EventIds \cup {None})
Answers == {Answer("PENDING", None, i[1], i[2], i[3]) : i \in AnswerIds}
           \cup {Answer("FINAL", o, i[1], i[2], i[3]) : o \in Outcomes, i \in AnswerIds}

NoAttempt == [state |-> "none", key |-> None, member |-> None, version |-> 1]
Requested(k, m, v) == [state |-> "REQUESTED", key |-> k, member |-> m, version |-> v]

Idle == [pc |-> "idle"]
Revoking(m, v) == [pc |-> "revoke", member |-> m, version |-> v, seen |-> dest[m][v]]
Starting(k, m, v) == [pc |-> "insert", key |-> k, member |-> m, version |-> v]
Recording(i, a) ==
    [pc |-> "record", id |-> i, answer |-> a,
     seen |-> dest[attempt[i].member][attempt[i].version]]

Init ==
    /\ dest = [m \in Members |-> [v \in Versions |-> "none"]]
    /\ attempt = [i \in Attempts |-> NoAttempt]
    /\ evidence = [i \in Attempts |-> {}]
    /\ task = [w \in Workers |-> Idle]

-----------------------------------------------------------------------------
(* Reads.                                                                   *)

\* The versions of m that are not revoked; the code expects at most one.
ActiveVersions(m) == {v \in Versions : dest[m][v] = "UNVERIFIED"}

Stored == {r \in Members \X Versions : dest[r[1]][r[2]] # "none"}

\* _next_version: one more than the highest version of the member.
IsNextVersion(m, v) ==
    /\ dest[m][v] = "none"
    /\ \A u \in Versions : dest[m][u] = "none" <=> u >= v
    /\ Cardinality(Stored) < MaxRows

\* The row lock of the member: a request that has checked and not yet
\* inserted holds it.
Unlocked(m) == \A w \in Workers : task[w].pc = "insert" => task[w].member # m

\* The attempts stored with an idempotency key.
WithKey(k) == {i \in Attempts : attempt[i].key = k}

Open(i) == attempt[i].state \in {"REQUESTED", "PENDING"}

\* The open attempts of a version of a destination.
OpenAttempts(m, v) ==
    {i \in Attempts : Open(i) /\ attempt[i].member = m /\ attempt[i].version = v}

\* Trigger of migration 0101: only a row that is not revoked may be revoked.
TriggerAllows(m, v) == dest[m][v] = "UNVERIFIED"

\* Mutant: the freshness of the copy that was read before the lock.
Freshness_Seen(t) == IF t.seen = "UNVERIFIED" THEN "CURRENT" ELSE "REVOKED"

\* evaluate_destination_freshness against the member's active destination.
Freshness(t) ==
    LET m == attempt[t.id].member
        v == attempt[t.id].version
    IN  IF v \in ActiveVersions(m) THEN "CURRENT"
        ELSE IF ActiveVersions(m) # {} THEN "STALE" ELSE "REVOKED"

\* One logical delivery: what the provider said, and nothing of when it was
\* received or of what the destination had become by then.
SameDelivery(e, a) == e.answer = a

\* An identifier of the provider that an answer shares with stored evidence;
\* the strongest pair both carry decides.
SharesCorrelation(b, a) ==
    LET both(x, y) == x # None /\ y # None
    IN  IF both(b.event, a.event)
        THEN \/ b.event = a.event
             \/ both(b.response, a.response) /\ b.response = a.response
        ELSE IF both(b.response, a.response)
        THEN b.response = a.response
        ELSE both(b.request, a.request) /\ b.request = a.request

-----------------------------------------------------------------------------
(* Destinations.                                                            *)

\* create_unverified_destination: the first active version.
Register(m) ==
    /\ Unlocked(m)
    /\ ActiveVersions(m) = {}
    /\ \E v \in Versions :
        /\ IsNextVersion(m, v)
        /\ dest' = [dest EXCEPT ![m][v] = "UNVERIFIED"]
    /\ UNCHANGED <<attempt, evidence, task>>

\* replace_destination: revoke the active version and insert the next one.
Replace(m) ==
    /\ Unlocked(m)
    /\ \E u \in ActiveVersions(m), v \in Versions :
        /\ IsNextVersion(m, v)
        /\ dest' = [dest EXCEPT ![m][u] = "REVOKED", ![m][v] = "UNVERIFIED"]
    /\ UNCHANGED <<attempt, evidence, task>>

\* revoke_destination loads the row to find its member ...
RevokeLocate(w, m, v) ==
    /\ task[w] = Idle
    /\ dest[m][v] # "none"
    /\ task' = [task EXCEPT ![w] = Revoking(m, v)]
    /\ UNCHANGED <<dest, attempt, evidence>>

\* ... and under the lock decides on the copy it loaded; the trigger refuses
\* the second of two revocations.
Revoke(w) ==
    LET t == task[w]
    IN  /\ t.pc = "revoke"
        /\ Unlocked(t.member)
        /\ dest' = IF t.seen # "REVOKED" /\ TriggerAllows(t.member, t.version)
                   THEN [dest EXCEPT ![t.member][t.version] = "REVOKED"]
                   ELSE dest
        /\ task' = [task EXCEPT ![w] = Idle]
        /\ UNCHANGED <<attempt, evidence>>

-----------------------------------------------------------------------------
(* Attempts.                                                                *)

\* What start_verification_attempt checks under the lock.  What it reads
\* before is the key, checked again, and columns that never change.
MayStart(k, m, v) ==
    /\ WithKey(k) = {}
    /\ ActiveVersions(m) = {v}
    /\ OpenAttempts(m, v) = {}

StartCheck(w, k, m, v) ==
    /\ task[w] = Idle
    /\ Unlocked(m)
    /\ MayStart(k, m, v)
    /\ task' = [task EXCEPT ![w] = Starting(k, m, v)]
    /\ UNCHANGED <<dest, attempt, evidence>>

\* Mutant: the check under the lock of the request's own member is enough.
KeyIsFree_Checked(t) == TRUE

\* The unique idempotency key: a request of another member, under another
\* lock, may have inserted it since it was checked.  The winner's attempt is
\* then returned, or the request is refused.
KeyIsFree(t) == WithKey(t.key) = {}

StartInsert(w) ==
    LET t == task[w]
    IN  /\ t.pc = "insert"
        /\ IF KeyIsFree(t)
           THEN \E i \in Attempts :
                    /\ attempt[i] = NoAttempt
                    /\ attempt' = [attempt EXCEPT ![i] = Requested(t.key, t.member, t.version)]
           ELSE attempt' = attempt
        /\ task' = [task EXCEPT ![w] = Idle]
        /\ UNCHANGED <<dest, evidence>>

-----------------------------------------------------------------------------
(* Results.                                                                 *)

\* record_verification_result reads the attempt and its destination ...
RecordLocate(w, i, a) ==
    /\ task[w] = Idle
    /\ attempt[i] # NoAttempt
    /\ task' = [task EXCEPT ![w] = Recording(i, a)]
    /\ UNCHANGED <<dest, attempt, evidence>>

\* Mutant: a delivery is recognised by its digest, which covers the freshness.
Replayed_Digest(t) == [answer |-> t.answer, freshness |-> Freshness(t)] \in evidence[t.id]

\* A delivery stored already has no effect.
Replayed(t) == \E e \in evidence[t.id] : SameDelivery(e, t.answer)

\* Another answer under an identifier already used.
Conflicting(t) == \E e \in evidence[t.id] : SharesCorrelation(e.answer, t.answer)

\* Mutant: the outcome of the answer becomes the state of the attempt.
Advanced_Outcome(row, a) ==
    IF a.state = "FINAL" THEN [row EXCEPT !.state = a.outcome] ELSE row

\* _advance_attempt: an attempt moves forward only.
Advanced(row, a) ==
    IF a.state = "FINAL" \/ row.state = "REQUESTED" THEN [row EXCEPT !.state = a.state] ELSE row

\* ... and under the lock stores the answer with the freshness it has now.
Record(w) ==
    LET t == task[w]
    IN  /\ t.pc = "record"
        /\ Unlocked(attempt[t.id].member)
        /\ IF ~Replayed(t) /\ ~Conflicting(t) /\ Open(t.id)
           THEN /\ evidence' = [evidence EXCEPT ![t.id] =
                                    @ \cup {[answer |-> t.answer, freshness |-> Freshness(t)]}]
                /\ attempt' = [attempt EXCEPT ![t.id] = Advanced(@, t.answer)]
           ELSE UNCHANGED <<attempt, evidence>>
        /\ task' = [task EXCEPT ![w] = Idle]
        /\ UNCHANGED dest

\* The caller owns the transaction and may roll it back.
Abandon(w) ==
    /\ task[w] # Idle
    /\ task' = [task EXCEPT ![w] = Idle]
    /\ UNCHANGED <<dest, attempt, evidence>>

-----------------------------------------------------------------------------
Next ==
    \/ \E m \in Members : Register(m) \/ Replace(m)
    \/ \E w \in Workers, m \in Members, v \in Versions : RevokeLocate(w, m, v)
    \/ \E w \in Workers, k \in Keys, m \in Members, v \in Versions : StartCheck(w, k, m, v)
    \/ \E w \in Workers, i \in Attempts, a \in Answers : RecordLocate(w, i, a)
    \/ \E w \in Workers : Revoke(w) \/ StartInsert(w) \/ Record(w) \/ Abandon(w)

Spec == Init /\ [][Next]_vars

-----------------------------------------------------------------------------
(* Properties.                                                              *)

Tasks ==
    {Idle}
    \cup [pc : {"revoke"}, member : Members, version : Versions, seen : Statuses]
    \cup [pc : {"insert"}, key : Keys, member : Members, version : Versions]
    \cup [pc : {"record"}, id : Attempts, answer : Answers, seen : Statuses]

\* The rows have the values their columns and check constraints allow.
TypeOK ==
    /\ dest \in [Members -> [Versions -> Statuses]]
    /\ attempt \in [Attempts -> {NoAttempt} \cup [state : {"REQUESTED", "PENDING", "FINAL"},
                                             key : Keys, member : Members, version : Versions]]
    /\ evidence \in [Attempts -> SUBSET [answer : Answers, freshness : Freshnesses]]
    /\ task \in [Workers -> Tasks]

\* A member has one destination in force, and it is the latest version:
\* the earlier ones are all revoked and no version is skipped.
LatestVersionIsInForce ==
    \A m \in Members : \A u, v \in Versions :
        u < v /\ dest[m][v] # "none" => dest[m][u] = "REVOKED"

\* An idempotency key names one attempt, whichever members' requests raced
\* for it under different locks, and a destination has one open attempt.
AttemptsAreUnique ==
    \A i, j \in Attempts :
        /\ attempt[i] # NoAttempt /\ attempt[j] # NoAttempt /\ attempt[i].key = attempt[j].key => i = j
        /\ Open(i) /\ j \in OpenAttempts(attempt[i].member, attempt[i].version) => i = j

\* The state of an attempt says what its evidence says: none stored, pending
\* answers only, or one final answer, whatever was delivered after it.
StateMatchesEvidence ==
    \A i \in Attempts :
        LET finals == {e \in evidence[i] : e.answer.state = "FINAL"}
        IN  /\ attempt[i].state \in {"none", "REQUESTED"} => evidence[i] = {}
            /\ attempt[i].state = "PENDING" => evidence[i] # {} /\ finals = {}
            /\ attempt[i].state = "FINAL" => \E e \in finals : finals = {e}

RecordIsSound == LatestVersionIsInForce /\ AttemptsAreUnique /\ StateMatchesEvidence

\* A provider delivery is stored once, however often it comes and whatever
\* the destination became in between, and one event or response of the
\* provider is never stored with two contents.
DeliveriesAreDistinct ==
    \A i \in Attempts : \A e, f \in evidence[i] :
        \/ e = f
        \/ /\ e.answer # f.answer
           /\ e.answer.event = f.answer.event => e.answer.event = None
           /\ e.answer.response = f.answer.response => e.answer.response = None

\* What was recorded stays: a revocation is never undone, evidence never
\* changes or goes, none follows a final answer; and an answer is recorded as
\* CURRENT only if its destination is in force at that moment, even when it
\* was replaced or revoked after the answer was accepted for recording.
EvidenceStands ==
    [][/\ \A m \in Members, v \in Versions : dest[m][v] = "REVOKED" => dest'[m][v] = "REVOKED"
       /\ \A i \in Attempts :
            /\ evidence[i] \subseteq evidence'[i]
            /\ attempt[i].state = "FINAL" => evidence'[i] = evidence[i] /\ attempt'[i] = attempt[i]
            /\ \A e \in evidence'[i] \ evidence[i] :
                e.freshness = "CURRENT" <=> dest[attempt[i].member][attempt[i].version] = "UNVERIFIED"]_vars
=============================================================================
