---------------------- MODULE PayoutVerification_proofs ----------------------
(***************************************************************************)
(* The record of destinations and verifications is sound for any members,  *)
(* requests and answers, though requests decide on what they read before   *)
(* they had the lock.                                                      *)
(***************************************************************************)
EXTENDS PayoutVerification, TLAPS

Stages == {"REQUESTED", "PENDING", "FINAL"}
Rows == [state : Stages, key : Keys, member : Members, version : Versions]

\* A request that has checked and not yet inserted: the check still holds,
\* because no other request is between the two for the same member.
LockInv ==
    \A w \in Workers : task[w].pc = "insert" =>
        /\ OpenAttempts(task[w].member, task[w].version) = {}
        /\ \A x \in Workers : task[x].pc = "insert" /\ task[x].member = task[w].member => x = w

\* A result is recorded for an attempt that exists.
RecordInv == \A w \in Workers : task[w].pc = "record" => attempt[task[w].id] \in Rows

IInv == TypeOK /\ LockInv /\ RecordInv /\ RecordIsSound /\ DeliveriesAreDistinct

\* The part of the invariant that a step keeping attempts and evidence keeps.
Attempted == AttemptsAreUnique /\ StateMatchesEvidence /\ DeliveriesAreDistinct

-----------------------------------------------------------------------------
(* Facts about rows.                                                       *)

\* The statuses of a version, its place among the versions.
LEMMA VersionsAreNumbers == \A v \in Versions : v \in Nat
  BY VersionsAssumption DEF Versions

\* No attempt is not a row, and a row is an attempt.
LEMMA RowsExist ==
    ASSUME TypeOK, NEW i \in Attempts
    PROVE  /\ attempt[i] # NoAttempt <=> attempt[i] \in Rows
           /\ attempt[i] = NoAttempt => attempt[i].state = "none" /\ attempt[i].key \notin Keys
           /\ Open(i) => attempt[i] \in Rows
  BY NoneAssumption DEF TypeOK, Rows, Stages, NoAttempt, Open

\* What a request holds according to where it is.
LEMMA TaskShapes ==
    ASSUME TypeOK, NEW w \in Workers
    PROVE  /\ task[w].pc = "revoke" => task[w].member \in Members /\ task[w].version \in Versions
           /\ task[w].pc = "insert" =>
                task[w].key \in Keys /\ task[w].member \in Members /\ task[w].version \in Versions
           /\ task[w].pc = "record" => task[w].id \in Attempts /\ task[w].answer \in Answers
  BY DEF TypeOK, Tasks, Idle

\* An answer is pending or final.
LEMMA AnswerStates == \A a \in Answers : a.state \in {"PENDING", "FINAL"}
  BY DEF Answers, Answer

\* The first state.
LEMMA InitHolds == Init => IInv
<1> SUFFICES ASSUME Init PROVE IInv
  OBVIOUS
<1>1. TypeOK
  BY DEF Init, TypeOK, Statuses, Tasks
<1>2. LockInv /\ RecordInv
  BY DEF Init, LockInv, RecordInv, Idle
<1>3. LatestVersionIsInForce
  BY DEF Init, LatestVersionIsInForce
<1>4. AttemptsAreUnique
  BY DEF Init, AttemptsAreUnique, Open, NoAttempt
<1>5. StateMatchesEvidence
  BY DEF Init, StateMatchesEvidence, NoAttempt
<1>6. DeliveriesAreDistinct
  BY DEF Init, DeliveriesAreDistinct
<1> QED
  BY <1>1, <1>2, <1>3, <1>4, <1>5, <1>6 DEF IInv, RecordIsSound

-----------------------------------------------------------------------------
(* Destinations.                                                           *)

\* A step that keeps attempts and evidence keeps what is said of them.
LEMMA AttemptedKept == ASSUME Attempted, UNCHANGED <<attempt, evidence>> PROVE Attempted'
  BY DEF Attempted, AttemptsAreUnique, StateMatchesEvidence, DeliveriesAreDistinct, Open, OpenAttempts

\* A step that keeps requests and attempts keeps what requests know.
LEMMA RequestsKept ==
    ASSUME LockInv, RecordInv, UNCHANGED <<attempt, task>>
    PROVE  LockInv' /\ RecordInv'
  BY DEF LockInv, RecordInv, Open, OpenAttempts

\* The version after the highest is not stored, those before it are.
LEMMA NextVersion ==
    ASSUME NEW m \in Members, NEW v \in Versions, IsNextVersion(m, v)
    PROVE  /\ dest[m][v] = "none"
           /\ \A u \in Versions : dest[m][u] = "none" <=> u >= v
  BY DEF IsNextVersion

\* A step that keeps the destinations keeps their order.
LEMMA LatestKept ==
    ASSUME LatestVersionIsInForce, UNCHANGED dest PROVE LatestVersionIsInForce'
  BY DEF LatestVersionIsInForce

\* The invariant after a step of a destination.
LEMMA RegisterKeeps == ASSUME IInv, NEW m \in Members, Register(m) PROVE IInv'
<1> PICK v \in Versions :
        IsNextVersion(m, v) /\ dest' = [dest EXCEPT ![m][v] = "UNVERIFIED"]
  BY DEF Register
<1> UNCHANGED <<attempt, evidence, task>> /\ ActiveVersions(m) = {}
  BY DEF Register
<1>1. TypeOK'
  BY DEF IInv, TypeOK, Statuses, Tasks, Freshnesses
<1>2. LatestVersionIsInForce'
  <2> SUFFICES ASSUME NEW n \in Members, NEW x \in Versions, NEW y \in Versions,
                      x < y, dest'[n][y] # "none"
               PROVE  dest'[n][x] = "REVOKED"
    BY DEF LatestVersionIsInForce
  <2>1. CASE n = m /\ y = v
    <3>1. dest[m][x] # "none" /\ dest[m][x] # "UNVERIFIED" /\ x # v
      BY <2>1, NextVersion, VersionsAreNumbers DEF ActiveVersions
    <3> QED
      BY <3>1, <2>1 DEF IInv, TypeOK, Statuses
  <2>2. CASE n # m \/ y # v
    <3>1. dest[n][y] # "none" /\ dest[n][x] = "REVOKED"
      BY <2>2 DEF IInv, TypeOK, RecordIsSound, LatestVersionIsInForce
    <3> QED
      BY <3>1, NextVersion DEF IInv, TypeOK
  <2> QED
    BY <2>1, <2>2
<1> QED
  BY <1>1, <1>2, AttemptedKept, RequestsKept DEF IInv, RecordIsSound, Attempted

LEMMA ReplaceKeeps == ASSUME IInv, NEW m \in Members, Replace(m) PROVE IInv'
<1> PICK u \in ActiveVersions(m), v \in Versions :
        IsNextVersion(m, v) /\ dest' = [dest EXCEPT ![m][u] = "REVOKED", ![m][v] = "UNVERIFIED"]
  BY DEF Replace
<1> UNCHANGED <<attempt, evidence, task>>
  BY DEF Replace
<1> u \in Versions /\ dest[m][u] = "UNVERIFIED" /\ u # v
  BY NextVersion DEF ActiveVersions
<1>1. TypeOK'
  BY DEF IInv, TypeOK, Statuses, Tasks, Freshnesses
<1>2. LatestVersionIsInForce'
  <2> SUFFICES ASSUME NEW n \in Members, NEW x \in Versions, NEW y \in Versions,
                      x < y, dest'[n][y] # "none"
               PROVE  dest'[n][x] = "REVOKED"
    BY DEF LatestVersionIsInForce
  <2>0. \A a, b \in Versions : a < b /\ dest[n][b] # "none" => dest[n][a] = "REVOKED"
    BY DEF IInv, RecordIsSound, LatestVersionIsInForce
  <2>1. CASE n = m /\ y = v
    <3>1. dest[m][x] # "none" /\ x # v
      BY <2>1, NextVersion, VersionsAreNumbers
    <3>2. x = u \/ dest[m][x] = "REVOKED"
      <4>1. ~(u < x)
        BY <2>0, <2>1, <3>1
      <4> QED
        BY <2>0, <2>1, <4>1, VersionsAreNumbers
    <3> QED
      BY <3>1, <3>2, <2>1 DEF IInv, TypeOK
  <2>2. CASE n # m
    BY <2>0, <2>2 DEF IInv, TypeOK
  <2>3. CASE n = m /\ y # v
    <3>1. dest[m][y] # "none"
      BY <2>3 DEF IInv, TypeOK
    <3>2. dest[m][x] = "REVOKED" /\ x # v
      BY <2>0, <2>3, <3>1, NextVersion
    <3> QED
      BY <2>3, <3>2 DEF IInv, TypeOK
  <2> QED
    BY <2>1, <2>2, <2>3
<1> QED
  BY <1>1, <1>2, AttemptedKept, RequestsKept DEF IInv, RecordIsSound, Attempted

\* A request that is no insertion and records nothing keeps what the others know.
LEMMA TaskChanges ==
    ASSUME LockInv, RecordInv, NEW w \in Workers, NEW t, task' = [task EXCEPT ![w] = t],
           t.pc \notin {"insert", "record"}, UNCHANGED attempt,
           task = [x \in Workers |-> task[x]]
    PROVE  LockInv' /\ RecordInv'
  BY DEF LockInv, RecordInv, Open, OpenAttempts

\* The table of requests is a function.
LEMMA TaskTable == ASSUME TypeOK PROVE task = [x \in Workers |-> task[x]]
  BY DEF TypeOK

LEMMA RevokeLocateKeeps ==
    ASSUME IInv, NEW w \in Workers, NEW m \in Members, NEW v \in Versions, RevokeLocate(w, m, v)
    PROVE  IInv'
<1> UNCHANGED <<dest, attempt, evidence>> /\ task' = [task EXCEPT ![w] = Revoking(m, v)]
  BY DEF RevokeLocate
<1>1. TypeOK'
  BY DEF IInv, TypeOK, Revoking, Tasks
<1>2. LockInv' /\ RecordInv'
  BY TaskChanges, TaskTable DEF IInv, Revoking
<1> QED
  BY <1>1, <1>2, AttemptedKept, LatestKept DEF IInv, RecordIsSound, Attempted

LEMMA RevokeKeeps == ASSUME IInv, NEW w \in Workers, Revoke(w) PROVE IInv'
<1> DEFINE m == task[w].member
           v == task[w].version
<1> UNCHANGED <<attempt, evidence>> /\ task' = [task EXCEPT ![w] = Idle]
  BY DEF Revoke
<1>0. m \in Members /\ v \in Versions
  BY TaskShapes DEF IInv, Revoke
<1>1. dest' = dest \/ (dest[m][v] = "UNVERIFIED" /\ dest' = [dest EXCEPT ![m][v] = "REVOKED"])
  BY DEF Revoke, TriggerAllows
<1>2. TypeOK'
  BY <1>0, <1>1 DEF IInv, TypeOK, Tasks, Statuses
<1>3. LockInv' /\ RecordInv'
  BY TaskChanges, TaskTable DEF IInv, Idle
<1>4. LatestVersionIsInForce'
  <2> HIDE DEF m, v
  <2>1. \A n \in Members, x \in Versions :
            \/ dest'[n][x] = dest[n][x]
            \/ dest[n][x] # "none" /\ dest'[n][x] = "REVOKED"
    BY <1>0, <1>1 DEF IInv, TypeOK
  <2>2. \A n \in Members, x, y \in Versions : x < y /\ dest[n][y] # "none" => dest[n][x] = "REVOKED"
    BY DEF IInv, RecordIsSound, LatestVersionIsInForce
  <2> QED
    BY <2>1, <2>2 DEF LatestVersionIsInForce
<1> QED
  BY <1>2, <1>3, <1>4, AttemptedKept DEF IInv, RecordIsSound, Attempted

LEMMA AbandonKeeps == ASSUME IInv, NEW w \in Workers, Abandon(w) PROVE IInv'
<1> UNCHANGED <<dest, attempt, evidence>> /\ task' = [task EXCEPT ![w] = Idle]
  BY DEF Abandon
<1>1. TypeOK'
  BY DEF IInv, TypeOK, Tasks
<1>2. LockInv' /\ RecordInv'
  BY TaskChanges, TaskTable DEF IInv, Idle
<1> QED
  BY <1>1, <1>2, AttemptedKept, LatestKept DEF IInv, RecordIsSound, Attempted

-----------------------------------------------------------------------------
(* Attempts.                                                               *)

\* Between its check and its insertion a request has the member to itself.
LEMMA StartCheckKeeps ==
    ASSUME IInv, NEW w \in Workers, NEW k \in Keys, NEW m \in Members, NEW v \in Versions,
           StartCheck(w, k, m, v)
    PROVE  IInv'
<1> UNCHANGED <<dest, attempt, evidence>> /\ task' = [task EXCEPT ![w] = Starting(k, m, v)]
  BY DEF StartCheck
<1>1. TypeOK'
  BY DEF IInv, TypeOK, Starting, Tasks
<1>2. RecordInv'
  BY DEF IInv, TypeOK, RecordInv, Starting
<1>3. LockInv'
  <2> SUFFICES ASSUME NEW x \in Workers, task'[x].pc = "insert"
               PROVE  /\ OpenAttempts(task'[x].member, task'[x].version) = {}
                      /\ \A y \in Workers :
                            task'[y].pc = "insert" /\ task'[y].member = task'[x].member => y = x
    BY DEF LockInv, OpenAttempts, Open
  <2>1. \A y \in Workers : task'[y] = IF y = w THEN Starting(k, m, v) ELSE task[y]
    BY DEF IInv, TypeOK
  <2>2. OpenAttempts(m, v) = {} /\ \A y \in Workers : task[y].pc = "insert" => task[y].member # m
    BY DEF StartCheck, MayStart, Unlocked
  <2> QED
    BY <2>1, <2>2 DEF IInv, LockInv, Starting
<1> QED
  BY <1>1, <1>2, <1>3, AttemptedKept, LatestKept DEF IInv, RecordIsSound, Attempted

\* The insertion: the key is free and the member has no open attempt.
LEMMA StartInsertKeeps == ASSUME IInv, NEW w \in Workers, StartInsert(w) PROVE IInv'
<1> DEFINE t == task[w]
<1> UNCHANGED <<dest, evidence>> /\ task' = [task EXCEPT ![w] = Idle] /\ t.pc = "insert"
  BY DEF StartInsert
<1> t.key \in Keys /\ t.member \in Members /\ t.version \in Versions
  BY TaskShapes DEF IInv
<1>0. LatestVersionIsInForce'
  BY LatestKept DEF IInv, RecordIsSound
<1>1. CASE UNCHANGED attempt
  <2>1. TypeOK'
    BY <1>1 DEF IInv, TypeOK, Tasks
  <2>2. LockInv' /\ RecordInv'
    BY <1>1, TaskChanges, TaskTable DEF IInv, Idle
  <2> QED
    BY <1>0, <1>1, <2>1, <2>2, AttemptedKept DEF IInv, RecordIsSound, Attempted
<1>2. CASE KeyIsFree(t)
  <2> PICK i \in Attempts :
          /\ attempt[i] = NoAttempt
          /\ attempt' = [attempt EXCEPT ![i] = Requested(t.key, t.member, t.version)]
    BY <1>2 DEF StartInsert
  <2> DEFINE row == Requested(t.key, t.member, t.version)
  <2>1. row \in Rows /\ row.state = "REQUESTED" /\ row.key = t.key
        /\ row.member = t.member /\ row.version = t.version
    BY DEF Requested, Rows, Stages
  <2>2. \A j \in Attempts : attempt'[j] = IF j = i THEN row ELSE attempt[j]
    BY DEF IInv, TypeOK
  <2> HIDE DEF row
  <2>3. TypeOK'
    <3>1. attempt' \in [Attempts -> {NoAttempt} \cup Rows]
      BY <2>1 DEF IInv, TypeOK, row, Rows, Stages
    <3>2. task' \in [Workers -> Tasks]
      BY DEF IInv, TypeOK, Tasks
    <3> QED
      BY <3>1, <3>2 DEF IInv, TypeOK, Rows, Stages
  <2>4. \A x \in Workers : task'[x] = IF x = w THEN Idle ELSE task[x]
    BY DEF IInv, TypeOK
  <2>5. RecordInv'
    BY <2>1, <2>2, <2>4, TaskShapes DEF IInv, RecordInv, Idle
  <2>6. LockInv'
    <3> SUFFICES ASSUME NEW x \in Workers, task'[x].pc = "insert"
                 PROVE  /\ (OpenAttempts(task[x].member, task[x].version))' = {}
                        /\ \A y \in Workers :
                              task'[y].pc = "insert" /\ task'[y].member = task'[x].member => y = x
      BY <2>4 DEF LockInv, Idle, OpenAttempts, Open
    <3>1. x # w /\ task'[x] = task[x]
      BY <2>4 DEF Idle
    <3>2. task[x].member # t.member
      BY <3>1 DEF IInv, LockInv
    <3>3. OpenAttempts(task[x].member, task[x].version) = {}
      BY <3>1 DEF IInv, LockInv
    <3>4. ASSUME NEW j \in Attempts, Open(j)', attempt'[j].member = task[x].member,
                 attempt'[j].version = task[x].version
          PROVE  FALSE
      BY <2>1, <2>2, <3>2, <3>3, <3>4 DEF OpenAttempts, Open
    <3>5. (OpenAttempts(task[x].member, task[x].version))' = {}
      BY <3>1, <3>4 DEF OpenAttempts, Open
    <3> QED
      BY <2>4, <3>1, <3>5 DEF IInv, LockInv, Idle
  <2>7. AttemptsAreUnique'
    <3>1. \A j \in Attempts : attempt[j].key # t.key
      BY <1>2 DEF KeyIsFree, WithKey
    <3>2. \A j \in Attempts : ~(Open(j) /\ attempt[j].member = t.member /\ attempt[j].version = t.version)
      BY DEF IInv, LockInv, OpenAttempts
    <3> SUFFICES ASSUME NEW a \in Attempts, NEW b \in Attempts
                 PROVE  /\ attempt'[a] # NoAttempt /\ attempt'[b] # NoAttempt
                               /\ attempt'[a].key = attempt'[b].key => a = b
                        /\ Open(a)' /\ Open(b)' /\ attempt'[a].member = attempt'[b].member
                               /\ attempt'[a].version = attempt'[b].version => a = b
      BY DEF AttemptsAreUnique, OpenAttempts, Open
    <3>3. CASE a # i /\ b # i
      <4>1. attempt'[a] = attempt[a] /\ attempt'[b] = attempt[b]
        BY <2>2, <3>3
      <4> QED
        BY <4>1 DEF IInv, RecordIsSound, AttemptsAreUnique, OpenAttempts, Open
    <3>4. CASE a = i \/ b = i
      BY <2>1, <2>2, <3>1, <3>2, <3>4 DEF Open
    <3> QED
      BY <3>3, <3>4
  <2>8. StateMatchesEvidence' /\ DeliveriesAreDistinct'
    <3>1. evidence[i] = {}
      BY DEF IInv, RecordIsSound, StateMatchesEvidence, NoAttempt
    <3> QED
      BY <2>1, <2>2, <3>1 DEF IInv, RecordIsSound, StateMatchesEvidence, DeliveriesAreDistinct
  <2> QED
    BY <1>0, <2>3, <2>5, <2>6, <2>7, <2>8 DEF IInv, RecordIsSound
<1> QED
  BY <1>1, <1>2 DEF StartInsert

-----------------------------------------------------------------------------
(* Results.                                                                *)

LEMMA RecordLocateKeeps ==
    ASSUME IInv, NEW w \in Workers, NEW i \in Attempts, NEW a \in Answers, RecordLocate(w, i, a)
    PROVE  IInv'
<1> UNCHANGED <<dest, attempt, evidence>> /\ task' = [task EXCEPT ![w] = Recording(i, a)]
  BY DEF RecordLocate
<1>0. attempt[i] \in Rows
  BY RowsExist DEF IInv, RecordLocate
<1>1. Recording(i, a) \in Tasks /\ Recording(i, a).pc = "record" /\ Recording(i, a).id = i
  BY <1>0 DEF IInv, TypeOK, Rows, Recording, Tasks
<1>2. TypeOK'
  BY <1>1 DEF IInv, TypeOK
<1>3. \A x \in Workers : task'[x] = IF x = w THEN Recording(i, a) ELSE task[x]
  BY DEF IInv, TypeOK
<1>4. RecordInv'
  BY <1>0, <1>1, <1>3 DEF IInv, RecordInv
<1>5. LockInv'
  BY <1>1, <1>3 DEF IInv, LockInv, OpenAttempts, Open
<1> QED
  BY <1>2, <1>4, <1>5, AttemptedKept, LatestKept DEF IInv, RecordIsSound, Attempted

\* What an answer does to the row of an open attempt.
LEMMA Advances ==
    ASSUME NEW row \in Rows, NEW a \in Answers, row.state \in {"REQUESTED", "PENDING"}
    PROVE  /\ Advanced(row, a) \in Rows
           /\ Advanced(row, a).state = a.state
           /\ Advanced(row, a).key = row.key
           /\ Advanced(row, a).member = row.member
           /\ Advanced(row, a).version = row.version
<1>1. a.state \in {"PENDING", "FINAL"}
  BY AnswerStates
<1> QED
  BY <1>1 DEF Advanced, Rows, Stages

\* The freshness of an answer is that of its destination at the moment.
LEMMA FreshnessIsNow ==
    ASSUME TypeOK, NEW t, t.id \in Attempts, attempt[t.id] \in Rows
    PROVE  /\ Freshness(t) \in Freshnesses
           /\ Freshness(t) = "CURRENT" <=>
                dest[attempt[t.id].member][attempt[t.id].version] = "UNVERIFIED"
  BY DEF Freshness, Freshnesses, ActiveVersions, Rows

\* An answer that does not conflict shares no identifier that decides.
LEMMA NoConflict ==
    ASSUME NEW a, NEW b, ~SharesCorrelation(b, a)
    PROVE  /\ a.event = b.event => a.event = None
           /\ a.response = b.response => a.response = None
  BY DEF SharesCorrelation

\* What is stored of an answer, and when.
LEMMA RecordStep ==
    ASSUME IInv, NEW w \in Workers, Record(w)
    PROVE  /\ UNCHANGED dest
           /\ task' = [task EXCEPT ![w] = Idle]
           /\ \/ UNCHANGED <<attempt, evidence>>
              \/ \E i \in Attempts, a \in Answers, f \in Freshnesses :
                    /\ Open(i)
                    /\ attempt[i] \in Rows
                    /\ f = "CURRENT" <=> dest[attempt[i].member][attempt[i].version] = "UNVERIFIED"
                    /\ \A e \in evidence[i] : e.answer # a /\ ~SharesCorrelation(e.answer, a)
                    /\ evidence' = [evidence EXCEPT ![i] = @ \cup {[answer |-> a, freshness |-> f]}]
                    /\ attempt' = [attempt EXCEPT ![i] = Advanced(attempt[i], a)]
<1> DEFINE t == task[w]
<1> UNCHANGED dest /\ task' = [task EXCEPT ![w] = Idle] /\ t.pc = "record"
  BY DEF Record
<1>1. t.id \in Attempts /\ t.answer \in Answers /\ attempt[t.id] \in Rows
  BY TaskShapes DEF IInv, RecordInv
<1>2. CASE ~Replayed(t) /\ ~Conflicting(t) /\ Open(t.id)
  <2>1. /\ evidence' = [evidence EXCEPT ![t.id] =
                            @ \cup {[answer |-> t.answer, freshness |-> Freshness(t)]}]
        /\ attempt' = [attempt EXCEPT ![t.id] = Advanced(attempt[t.id], t.answer)]
    BY <1>2 DEF Record
  <2>2. \A e \in evidence[t.id] : e.answer # t.answer /\ ~SharesCorrelation(e.answer, t.answer)
    BY <1>2 DEF Replayed, Conflicting, SameDelivery
  <2>3. /\ Freshness(t) \in Freshnesses
        /\ Freshness(t) = "CURRENT" <=>
             dest[attempt[t.id].member][attempt[t.id].version] = "UNVERIFIED"
    BY <1>1, FreshnessIsNow DEF IInv
  <2> HIDE DEF t
  <2> QED
    BY <1>1, <1>2, <2>1, <2>2, <2>3
<1>3. CASE ~(~Replayed(t) /\ ~Conflicting(t) /\ Open(t.id))
  BY <1>3 DEF Record
<1> QED
  BY <1>2, <1>3

LEMMA RecordKeeps == ASSUME IInv, NEW w \in Workers, Record(w) PROVE IInv'
<1> UNCHANGED dest /\ task' = [task EXCEPT ![w] = Idle]
  BY RecordStep
<1>0. LatestVersionIsInForce'
  BY LatestKept DEF IInv, RecordIsSound
<1>1. CASE UNCHANGED <<attempt, evidence>>
  <2>1. TypeOK'
    BY <1>1 DEF IInv, TypeOK, Tasks
  <2>2. LockInv' /\ RecordInv'
    BY <1>1, TaskChanges, TaskTable DEF IInv, Idle
  <2> QED
    BY <1>0, <1>1, <2>1, <2>2, AttemptedKept DEF IInv, RecordIsSound, Attempted
<1>2. CASE ~UNCHANGED <<attempt, evidence>>
  <2> PICK i \in Attempts, a \in Answers, f \in Freshnesses :
          /\ Open(i)
          /\ attempt[i] \in Rows
          /\ \A e \in evidence[i] : e.answer # a /\ ~SharesCorrelation(e.answer, a)
          /\ evidence' = [evidence EXCEPT ![i] = @ \cup {[answer |-> a, freshness |-> f]}]
          /\ attempt' = [attempt EXCEPT ![i] = Advanced(attempt[i], a)]
    BY <1>2, RecordStep
  <2> DEFINE row == Advanced(attempt[i], a)
             new == [answer |-> a, freshness |-> f]
  <2>1. /\ row \in Rows /\ row.state = a.state /\ row.key = attempt[i].key
        /\ row.member = attempt[i].member /\ row.version = attempt[i].version
    BY Advances DEF Open
  <2>2. \A j \in Attempts : attempt'[j] = IF j = i THEN row ELSE attempt[j]
    BY DEF IInv, TypeOK
  <2>3. \A j \in Attempts : evidence'[j] = IF j = i THEN evidence[i] \cup {new} ELSE evidence[j]
    BY DEF IInv, TypeOK
  <2>4. \A x \in Workers : task'[x] = IF x = w THEN Idle ELSE task[x]
    BY DEF IInv, TypeOK
  <2>5. new \in [answer : Answers, freshness : Freshnesses] /\ new.answer = a
    OBVIOUS
  <2>6. a.state \in {"PENDING", "FINAL"}
    BY AnswerStates
  <2> HIDE DEF row, new
  <2>7. TypeOK'
    <3>1. attempt' \in [Attempts -> {NoAttempt} \cup Rows]
      BY <2>1 DEF IInv, TypeOK, Rows, Stages, row
    <3>2. evidence' \in [Attempts -> SUBSET [answer : Answers, freshness : Freshnesses]]
      BY <2>5 DEF IInv, TypeOK, new
    <3>3. task' \in [Workers -> Tasks]
      BY DEF IInv, TypeOK, Tasks
    <3> QED
      BY <3>1, <3>2, <3>3 DEF IInv, TypeOK, Rows, Stages
  <2>8. RecordInv'
    BY <2>1, <2>2, <2>4, TaskShapes DEF IInv, RecordInv, Idle
  <2>9. LockInv'
    <3>1. \A x \in Workers : task'[x].pc = "insert" =>
              x # w /\ task'[x] = task[x] /\ task[x].member \in Members
      BY <2>4, TaskShapes DEF IInv, Idle
    <3>2. ASSUME NEW m, NEW v, OpenAttempts(m, v) = {}
          PROVE  (OpenAttempts(m, v))' = {}
      BY <2>1, <2>2, <3>2 DEF OpenAttempts, Open
    <3>3. ASSUME NEW x \in Workers, task'[x].pc = "insert"
          PROVE  /\ (OpenAttempts(task[x].member, task[x].version))' = {}
                 /\ \A y \in Workers :
                       task'[y].pc = "insert" /\ task'[y].member = task'[x].member => y = x
      <4>1. OpenAttempts(task[x].member, task[x].version) = {}
        BY <3>1, <3>3 DEF IInv, LockInv
      <4>2. \A j \in Attempts :
                ~(Open(j)' /\ attempt'[j].member = task[x].member /\ attempt'[j].version = task[x].version)
        BY <2>1, <2>2, <4>1 DEF OpenAttempts, Open
      <4>3. (OpenAttempts(task[x].member, task[x].version))' = {}
        BY <3>1, <3>3, <4>2 DEF OpenAttempts, Open
      <4> QED
        BY <3>1, <3>3, <4>3 DEF IInv, LockInv
    <3> QED
      BY <3>1, <3>3 DEF LockInv, OpenAttempts, Open
  <2>10. AttemptsAreUnique'
    <3> SUFFICES ASSUME NEW b \in Attempts, NEW c \in Attempts
                 PROVE  /\ attempt'[b] # NoAttempt /\ attempt'[c] # NoAttempt
                               /\ attempt'[b].key = attempt'[c].key => b = c
                        /\ Open(b)' /\ Open(c)' /\ attempt'[b].member = attempt'[c].member
                               /\ attempt'[b].version = attempt'[c].version => b = c
      BY DEF AttemptsAreUnique, OpenAttempts, Open
    <3>1. \A j \in Attempts :
              /\ attempt'[j] # NoAttempt => attempt[j] # NoAttempt
              /\ Open(j)' => Open(j)
              /\ attempt'[j].key = attempt[j].key
              /\ attempt'[j].member = attempt[j].member
              /\ attempt'[j].version = attempt[j].version
      BY <2>1, <2>2, RowsExist DEF IInv, Open
    <3> QED
      BY <3>1 DEF IInv, RecordIsSound, AttemptsAreUnique, OpenAttempts
  <2>11. StateMatchesEvidence'
    <3> SUFFICES ASSUME NEW j \in Attempts
                 PROVE  LET finals == {e \in evidence'[j] : e.answer.state = "FINAL"}
                        IN  /\ attempt'[j].state \in {"none", "REQUESTED"} => evidence'[j] = {}
                            /\ attempt'[j].state = "PENDING" => evidence'[j] # {} /\ finals = {}
                            /\ attempt'[j].state = "FINAL" => \E e \in finals : finals = {e}
      BY DEF StateMatchesEvidence
    <3>1. CASE j # i
      <4>1. attempt'[j] = attempt[j] /\ evidence'[j] = evidence[j]
        BY <2>2, <2>3, <3>1
      <4> QED
        BY <4>1 DEF IInv, RecordIsSound, StateMatchesEvidence
    <3>2. CASE j = i
      <4>1. \A e \in evidence[i] : e.answer.state # "FINAL"
        BY DEF IInv, RecordIsSound, StateMatchesEvidence, Open
      <4>2. attempt'[j].state = a.state /\ evidence'[j] = evidence[i] \cup {new}
        BY <2>1, <2>2, <2>3, <3>2
      <4>3. CASE a.state = "PENDING"
        BY <2>5, <4>1, <4>2, <4>3
      <4>4. CASE a.state = "FINAL"
        <5>1. {e \in evidence'[j] : e.answer.state = "FINAL"} = {new}
          BY <2>5, <4>1, <4>2, <4>4
        <5> QED
          BY <4>2, <4>4, <5>1
      <4> QED
        BY <2>6, <4>3, <4>4
    <3> QED
      BY <3>1, <3>2
  <2>12. DeliveriesAreDistinct'
    <3> DEFINE Apart(e, g) ==
                  /\ e.answer # g.answer
                  /\ e.answer.event = g.answer.event => e.answer.event = None
                  /\ e.answer.response = g.answer.response => e.answer.response = None
    <3>1. \A e \in evidence[i] : Apart(e, new) /\ Apart(new, e)
      BY <2>5, NoConflict
    <3>2. \A j \in Attempts : \A e, g \in evidence[j] : e = g \/ Apart(e, g)
      BY DEF IInv, DeliveriesAreDistinct
    <3> SUFFICES ASSUME NEW j \in Attempts, NEW e \in evidence'[j], NEW g \in evidence'[j], e # g
                 PROVE  Apart(e, g)
      BY DEF DeliveriesAreDistinct
    <3> HIDE DEF Apart
    <3>3. CASE e \in evidence[j] /\ g \in evidence[j]
      BY <3>2, <3>3
    <3>4. CASE ~(e \in evidence[j] /\ g \in evidence[j])
      BY <2>3, <3>1, <3>4
    <3> QED
      BY <3>3, <3>4
  <2> QED
    BY <1>0, <2>7, <2>8, <2>9, <2>10, <2>11, <2>12 DEF IInv, RecordIsSound
<1> QED
  BY <1>1, <1>2

-----------------------------------------------------------------------------
(* All steps.                                                              *)

LEMMA StepKeeps == IInv /\ [Next]_vars => IInv'
<1> SUFFICES ASSUME IInv, [Next]_vars PROVE IInv'
  OBVIOUS
<1>1. ASSUME NEW m \in Members, Register(m) \/ Replace(m) PROVE IInv'
  BY <1>1, RegisterKeeps, ReplaceKeeps
<1>2. ASSUME NEW w \in Workers, NEW m \in Members, NEW v \in Versions, RevokeLocate(w, m, v)
      PROVE  IInv'
  BY <1>2, RevokeLocateKeeps
<1>3. ASSUME NEW w \in Workers, NEW k \in Keys, NEW m \in Members, NEW v \in Versions,
             StartCheck(w, k, m, v)
      PROVE  IInv'
  BY <1>3, StartCheckKeeps
<1>4. ASSUME NEW w \in Workers, NEW i \in Attempts, NEW a \in Answers, RecordLocate(w, i, a)
      PROVE  IInv'
  BY <1>4, RecordLocateKeeps
<1>5. ASSUME NEW w \in Workers, Revoke(w) \/ StartInsert(w) \/ Record(w) \/ Abandon(w)
      PROVE  IInv'
  BY <1>5, RevokeKeeps, StartInsertKeeps, RecordKeeps, AbandonKeeps
<1>6. CASE UNCHANGED vars
  <2> UNCHANGED <<dest, attempt, evidence, task>>
    BY <1>6 DEF vars
  <2>1. TypeOK'
    BY DEF IInv, TypeOK, Tasks
  <2> QED
    BY <2>1, AttemptedKept, RequestsKept, LatestKept DEF IInv, RecordIsSound, Attempted
<1> QED
  BY <1>1, <1>2, <1>3, <1>4, <1>5, <1>6 DEF Next

\* What a step may not do to destinations: each action revokes, or stores a
\* version that was not there.
LEMMA RevokedStays ==
    ASSUME IInv, [Next]_vars, NEW n \in Members, NEW x \in Versions, dest[n][x] = "REVOKED"
    PROVE  dest'[n][x] = "REVOKED"
<1>1. ASSUME NEW m \in Members, Register(m) PROVE dest'[n][x] = "REVOKED"
  BY <1>1, NextVersion DEF Register, IInv, TypeOK
<1>2. ASSUME NEW m \in Members, Replace(m) PROVE dest'[n][x] = "REVOKED"
  <2> PICK u \in ActiveVersions(m), v \in Versions :
          IsNextVersion(m, v) /\ dest' = [dest EXCEPT ![m][u] = "REVOKED", ![m][v] = "UNVERIFIED"]
    BY <1>2 DEF Replace
  <2>1. u \in Versions /\ dest[m][v] = "none"
    BY NextVersion DEF ActiveVersions
  <2> QED
    BY <2>1 DEF IInv, TypeOK
<1>3. ASSUME NEW w \in Workers, Revoke(w) PROVE dest'[n][x] = "REVOKED"
  BY <1>3, TaskShapes DEF Revoke, IInv, TypeOK
<1>4. ASSUME NEW w \in Workers, StartInsert(w) \/ Record(w) \/ Abandon(w)
      PROVE  dest'[n][x] = "REVOKED"
  BY <1>4 DEF StartInsert, Record, Abandon
<1> QED
  BY <1>1, <1>2, <1>3, <1>4 DEF Next, RevokeLocate, StartCheck, RecordLocate, vars

\* The clause of EvidenceStands about an attempt.
Stands(i) ==
    /\ evidence[i] \subseteq evidence'[i]
    /\ attempt[i].state = "FINAL" => evidence'[i] = evidence[i] /\ attempt'[i] = attempt[i]
    /\ \A e \in evidence'[i] \ evidence[i] :
         e.freshness = "CURRENT" <=> dest[attempt[i].member][attempt[i].version] = "UNVERIFIED"

LEMMA AttemptStands == ASSUME IInv, [Next]_vars, NEW i \in Attempts PROVE Stands(i)
<1>1. CASE UNCHANGED <<attempt, evidence>>
  BY <1>1 DEF Stands
<1>2. ASSUME NEW w \in Workers, StartInsert(w) PROVE Stands(i)
  <2>1. evidence'[i] = evidence[i] /\ (attempt'[i] = attempt[i] \/ attempt[i] = NoAttempt)
    BY <1>2 DEF StartInsert, IInv, TypeOK
  <2> QED
    BY <2>1 DEF Stands, NoAttempt
<1>3. ASSUME NEW w \in Workers, Record(w) PROVE Stands(i)
  <2>1. CASE ~UNCHANGED <<attempt, evidence>>
    <3> PICK j \in Attempts, a \in Answers, f \in Freshnesses :
            /\ Open(j)
            /\ f = "CURRENT" <=> dest[attempt[j].member][attempt[j].version] = "UNVERIFIED"
            /\ evidence' = [evidence EXCEPT ![j] = @ \cup {[answer |-> a, freshness |-> f]}]
            /\ attempt' = [attempt EXCEPT ![j] = Advanced(attempt[j], a)]
      BY <1>3, <2>1, RecordStep
    <3>1. CASE i = j
      <4>1. evidence'[i] = evidence[i] \cup {[answer |-> a, freshness |-> f]}
        BY <3>1 DEF IInv, TypeOK
      <4> QED
        BY <3>1, <4>1 DEF Stands, Open
    <3>2. CASE i # j
      <4>1. evidence'[i] = evidence[i] /\ attempt'[i] = attempt[i]
        BY <3>2 DEF IInv, TypeOK
      <4> QED
        BY <4>1 DEF Stands
    <3> QED
      BY <3>1, <3>2
  <2> QED
    BY <1>1, <2>1
<1> QED
  BY <1>1, <1>2, <1>3 DEF Next, Register, Replace, RevokeLocate, StartCheck, RecordLocate, Revoke, Abandon, vars

-----------------------------------------------------------------------------
(* The theorems.                                                           *)

\* The invariant holds in every reachable state.
LEMMA Invariance == Spec => []IInv
  BY InitHolds, StepKeeps, PTL DEF Spec

\* The rows have the values their columns and check constraints allow.
THEOREM TypeCorrect == Spec => []TypeOK
  BY Invariance, PTL DEF IInv

\* The latest version of a destination alone may be in force, a key names one
\* attempt and a destination has one open attempt, and the state of an
\* attempt is what its evidence says (start_verification_attempt,
\* record_verification_result, replace_destination).
THEOREM RecordSound == Spec => []RecordIsSound
  BY Invariance, PTL DEF IInv

\* One delivery of the provider is stored once, and one event or response
\* never with two contents (record_verification_result).
THEOREM DeliveriesDistinct == Spec => []DeliveriesAreDistinct
  BY Invariance, PTL DEF IInv

\* Revocations and evidence are never taken back, nothing follows a final
\* answer, and an answer is CURRENT exactly if its destination is in force
\* when it is stored (evaluate_destination_freshness).
THEOREM EvidenceIsPermanent == Spec => EvidenceStands
<1>1. IInv /\ [Next]_vars =>
        [/\ \A m \in Members, v \in Versions : dest[m][v] = "REVOKED" => dest'[m][v] = "REVOKED"
         /\ \A i \in Attempts :
              /\ evidence[i] \subseteq evidence'[i]
              /\ attempt[i].state = "FINAL" => evidence'[i] = evidence[i] /\ attempt'[i] = attempt[i]
              /\ \A e \in evidence'[i] \ evidence[i] :
                  e.freshness = "CURRENT" <=> dest[attempt[i].member][attempt[i].version] = "UNVERIFIED"]_vars
  BY RevokedStays, AttemptStands DEF Stands
<1> QED
  BY <1>1, Invariance, PTL DEF Spec, EvidenceStands
=============================================================================
