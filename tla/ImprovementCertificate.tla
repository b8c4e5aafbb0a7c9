----------------------- MODULE ImprovementCertificate -----------------------
(***************************************************************************)
(* The execution of an improvement, the files that prove it and its        *)
(* certificate (services/continuous_improvement_execution_v088.py,         *)
(* _evidence_v089.py and _certification_v090.py, and the daily             *)
(* certification of worker/tasks.py).                                      *)
(*                                                                         *)
(* No row is locked.  A verification and a certification read the          *)
(* execution, then the files and the last event of the chain, then, for a  *)
(* certificate, the files again.  Each query sees what others committed    *)
(* so far, but the execution is what was first loaded.  An upload reads    *)
(* the execution, stores the file, then reads the rows of the files it     *)
(* will hash.  The events that one check records count as one.             *)
(***************************************************************************)
EXTENDS Integers, FiniteSets

CONSTANTS Admins,
          Assignee,       \* who executes
          Files, Requests,
          MaxEvents       \* bound on the checks that record an event

VARIABLES execution,      \* ContinuousImprovementExecution; manifest is the files it hashed
          rows,           \* ContinuousImprovementExecutionEvidenceFile
          disk,           \* files whose stored bytes are those that were hashed
          chain,          \* ContinuousImprovementEvidenceIntegrityEvent, as number and predecessor
          events,         \* numbers given to events, committed or not
          certificate,    \* ContinuousImprovementCertification
          request,        \* what each request is at
          past            \* history: who verified, the files the first saw, late files, checks at once

vars == <<execution, rows, disk, chain, events, certificate, request, past>>

Nobody == 0
NoCertificate == [by |-> Nobody, files |-> {}, checked |-> {}]
Idle == [op |-> "idle", at |-> "done", admin |-> Nobody, manifest |-> {}, verified |-> Nobody,
         seen |-> {}, files |-> {}, event |-> 0, prev |-> 0]

Init ==
    /\ execution = [status |-> "PENDING", verified |-> Nobody, manifest |-> {}]
    /\ rows = {} /\ disk = {} /\ chain = {} /\ events = 0
    /\ certificate = NoCertificate
    /\ request = [r \in Requests |-> Idle]
    /\ past = [verifiers |-> {}, seen |-> {}, late |-> {}, overlapped |-> FALSE]

Becomes(r, next) == request' = [request EXCEPT ![r] = next]
At(r, op, at) == request[r].op = op /\ request[r].at = at

Loads(r, op, a) ==
    /\ request[r] = Idle
    /\ Becomes(r, [Idle EXCEPT !.op = op, !.at = "loaded", !.admin = a])
    /\ UNCHANGED <<execution, rows, disk, chain, events, certificate, past>>

LoadsAll(r, op, a) ==
    /\ request[r] = Idle
    /\ Becomes(r, [Idle EXCEPT !.op = op, !.at = "loaded", !.admin = a,
                               !.manifest = execution.manifest, !.verified = execution.verified])
    /\ UNCHANGED <<execution, rows, disk, chain, events, certificate, past>>

-----------------------------------------------------------------------------
(* Executing: only the assignee starts, completes and uploads.              *)

ReadStart(r) == execution.status = "PENDING" /\ Loads(r, "start", Assignee)
ReadComplete(r) == execution.status = "IN_EXECUTION" /\ Loads(r, "complete", Assignee)

SetStatus(r) ==
    \E op \in {"start", "complete"} :
        /\ At(r, op, "loaded")
        /\ Becomes(r, Idle)
        /\ execution' = [execution EXCEPT !.status = IF op = "start" THEN "IN_EXECUTION" ELSE "COMPLETED"]
        /\ UNCHANGED <<rows, disk, chain, events, certificate, past>>

ReadUpload(r) == execution.status \in {"IN_EXECUTION", "COMPLETED"} /\ Loads(r, "upload", Assignee)

\* The file is stored under a name of its own, then its row joins the others.
Store(r) ==
    /\ At(r, "upload", "loaded")
    /\ \E f \in Files :
           /\ f \notin disk \cup rows
           /\ \A other \in Requests : f \notin request[other].files
           /\ disk' = disk \cup {f}
           /\ Becomes(r, [request[r] EXCEPT !.at = "stored", !.files = {f}, !.seen = rows \cup {f}])
    /\ UNCHANGED <<execution, rows, chain, events, certificate, past>>

Upload(r) ==
    /\ At(r, "upload", "stored")
    /\ rows' = rows \cup request[r].files
    /\ execution' = [execution EXCEPT !.manifest = request[r].seen]
    /\ past' = [past EXCEPT !.late = IF past.verifiers # {} THEN @ \cup request[r].files ELSE @]
    /\ Becomes(r, Idle)
    /\ UNCHANGED <<disk, chain, events, certificate>>

\* A stored file is lost or changes.
Damage(f) ==
    /\ f \in disk /\ f \in rows
    /\ disk' = disk \ {f}
    /\ UNCHANGED <<execution, rows, chain, events, certificate, request, past>>

-----------------------------------------------------------------------------
(* Checking the files and recording it.                                     *)

\* What an order of events says when it is walked from the first.
Linear(c) == \A e \in c : LET before == {d.id : d \in {x \in c : x.id < e.id}}
                         IN  e.prev = IF before = {} THEN 0 ELSE CHOOSE i \in before : \A j \in before : j <= i
Last(c) == IF c = {} THEN 0 ELSE CHOOSE i \in {e.id : e \in c} : \A e \in c : e.id <= i

FilesHold(manifest) == rows # {} /\ rows \subseteq disk /\ rows = manifest

\* An event waits for the commit of its request.
Recording == {r \in Requests : request[r].event # 0}

Check(r, op) ==
    /\ At(r, op, "loaded")
    /\ FilesHold(request[r].manifest)
    /\ events < MaxEvents
    /\ events' = events + 1
    /\ Becomes(r, [request[r] EXCEPT !.at = "checked", !.seen = rows, !.event = events + 1, !.prev = Last(chain)])
    /\ past' = [past EXCEPT !.overlapped = @ \/ Recording # {}]
    /\ UNCHANGED <<execution, rows, disk, chain, certificate>>

Own(r) == [id |-> request[r].event, prev |-> request[r].prev]

\* Whoever asks may have the files checked, without more.
ReadInspect(r) == LoadsAll(r, "inspect", Nobody)
CommitInspect(r) ==
    /\ At(r, "inspect", "checked")
    /\ chain' = chain \cup {Own(r)}
    /\ Becomes(r, Idle)
    /\ UNCHANGED <<execution, rows, disk, events, certificate, past>>

ReadVerify(r) == execution.status = "COMPLETED" /\ \E a \in Admins \ {Assignee} : LoadsAll(r, "verify", a)

Verify(r) ==
    /\ At(r, "verify", "checked")
    /\ execution' = [execution EXCEPT !.status = "VERIFIED",
                                      !.verified = IF request[r].verified = request[r].admin THEN @ ELSE request[r].admin]
    /\ chain' = chain \cup {Own(r)}
    /\ past' = [past EXCEPT !.verifiers = @ \cup {request[r].admin}, !.seen = IF @ = {} THEN request[r].seen ELSE @]
    /\ Becomes(r, Idle)
    /\ UNCHANGED <<rows, disk, events, certificate>>

-----------------------------------------------------------------------------
(* Certifying, by an administrator or the daily job in the name of one.     *)

MayCertify(a) ==
    /\ execution.status = "VERIFIED" /\ certificate = NoCertificate
    /\ a \notin {Assignee, execution.verified}

ReadCertify(r) == \E a \in Admins : MayCertify(a) /\ LoadsAll(r, "certify", a)

\* The chain with its own event, and the files of the package.
Pack(r) ==
    /\ At(r, "certify", "checked")
    /\ Linear(chain \cup {Own(r)})
    /\ Becomes(r, [request[r] EXCEPT !.at = "packed", !.files = rows])
    /\ UNCHANGED <<execution, rows, disk, chain, events, certificate, past>>

\* The certificate of an execution is unique.
Certify(r) ==
    /\ At(r, "certify", "packed")
    /\ certificate = NoCertificate
    /\ certificate' = [by |-> request[r].admin, files |-> request[r].files, checked |-> request[r].seen]
    /\ chain' = chain \cup {Own(r)}
    /\ Becomes(r, Idle)
    /\ UNCHANGED <<execution, rows, disk, events, past>>

\* It is refused, fails or does not live: its events go, its file stays.
Abandon(r) ==
    /\ request[r] # Idle
    /\ Becomes(r, Idle)
    /\ disk' = IF request[r].op = "upload" THEN disk \ request[r].files ELSE disk
    /\ UNCHANGED <<execution, rows, chain, events, certificate, past>>

Next ==
    \/ \E r \in Requests :
           \/ ReadStart(r) \/ ReadComplete(r) \/ SetStatus(r) \/ ReadUpload(r) \/ Store(r) \/ Upload(r)
           \/ ReadInspect(r) \/ Check(r, "inspect") \/ CommitInspect(r)
           \/ ReadVerify(r) \/ Check(r, "verify") \/ Verify(r)
           \/ ReadCertify(r) \/ Check(r, "certify") \/ Pack(r) \/ Certify(r) \/ Abandon(r)
    \/ \E f \in Files : Damage(f)

Spec == Init /\ [][Next]_vars

-----------------------------------------------------------------------------

\* A certificate is given by a third person, neither the assignee nor the only
\* one who verified; it names every file the first of them saw; and it names no file
\* that was not compared with its hash for it, but one whose upload ended after
\* the execution was verified.
CertificateIsSound ==
    certificate # NoCertificate =>
        /\ certificate.by # Assignee /\ Assignee \notin past.verifiers
        /\ past.verifiers \ {certificate.by} # {}
        /\ past.seen # {} /\ past.seen \subseteq certificate.files
        /\ certificate.files \ certificate.checked \subseteq past.late

\* The chain of events breaks only by two checks that ran at once.
ChainBreaksByOverlap == Linear(chain) \/ past.overlapped
=============================================================================
