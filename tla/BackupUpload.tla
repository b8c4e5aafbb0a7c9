---------------------------- MODULE BackupUpload ----------------------------
(***************************************************************************)
(* The upload of one encrypted backup to Google Drive                      *)
(* (app/backup_transport.py).  A host packs the backup into an envelope,   *)
(* sends it through a resumable session and keeps a receipt; the receipt   *)
(* may claim the copy only after the folder was listed again.  A lock      *)
(* serialises the uploads of one host; nothing serialises two hosts, and   *)
(* Drive accepts two objects with the same backup id.                      *)
(*                                                                         *)
(* A session of the model is the object it becomes when its last chunk     *)
(* arrives.  Any call may be lost, its answer may be lost after it took    *)
(* effect, a session may expire and the process may be killed.             *)
(***************************************************************************)
EXTENDS Naturals, FiniteSets

CONSTANTS
    Hosts,
    Sessions,   \* upload sessions, and the objects they become
    Chunks,     \* chunks of an envelope
    None

VARIABLES
    envelope,   \* host -> the file in its work directory
    receipt,    \* host -> what its receipt says
    drive,      \* session -> what the provider holds
    proc        \* host -> the upload that holds the host's lock

vars == <<envelope, receipt, drive, proc>>

NoReceipt == [status |-> "none", file |-> None]
Unused == [stage |-> "none", sent |-> 0, intact |-> FALSE, marked |-> FALSE]
Idle == [pc |-> "idle", sid |-> None, offset |-> 0]
At(pc, s) == [pc |-> pc, sid |-> s, offset |-> 0]

Init ==
    /\ envelope = [h \in Hosts |-> "none"]
    /\ receipt = [h \in Hosts |-> NoReceipt]
    /\ drive = [s \in Sessions |-> Unused]
    /\ proc = [h \in Hosts |-> Idle]

-----------------------------------------------------------------------------
Goto(h, p) == proc' = [proc EXCEPT ![h] = p]
Write(h, status, s) == receipt' = [receipt EXCEPT ![h] = [status |-> status, file |-> s]]

\* _list_backup_id: the objects of the folder with this backup id.
Matches == {s \in Sessions : drive[s].stage = "stored"}

\* _verify_remote: size, checksum and identity are those of the envelope.
Verified(s) == drive[s].intact

\* upload_package up to the receipt.  An envelope left whole by an earlier
\* upload is rebuilt, found equal and used; one left in part by a killed
\* upload is refused, and nothing changes.
Start(h) ==
    /\ proc[h].pc = "idle"
    /\ \/ /\ envelope[h] = "none"
          /\ envelope' = [envelope EXCEPT ![h] = "partial"]
          /\ Goto(h, At("pack", None))
          /\ UNCHANGED receipt
       \/ /\ envelope[h] = "whole"
          /\ Write(h, "UPLOADING", None)
          /\ Goto(h, At("before", None))
          /\ UNCHANGED envelope
    /\ UNCHANGED drive

\* create_envelope writes the file, or removes it when it cannot.
Pack(h) ==
    /\ proc[h].pc = "pack"
    /\ \/ /\ envelope' = [envelope EXCEPT ![h] = "whole"]
          /\ Write(h, "UPLOADING", None)
          /\ Goto(h, At("before", None))
       \/ /\ envelope' = [envelope EXCEPT ![h] = "none"]
          /\ Goto(h, Idle)
          /\ UNCHANGED receipt
    /\ UNCHANGED drive

\* An exception of the upload: the receipt says so.
Fail(h) ==
    /\ proc[h].pc \notin {"idle", "pack"}
    /\ Write(h, "FAILED_OFF_VM", None)
    /\ Goto(h, Idle)
    /\ UNCHANGED <<envelope, drive>>

\* _reconcile: one object, and it is the envelope, is taken for the copy.
Sole == \E s \in Matches : Matches = {s} /\ Verified(s)

\* Before a session is opened: a copy made earlier is used.
Before(h) ==
    /\ proc[h].pc = "before"
    /\ \/ Matches = {} /\ Goto(h, At("open", None))
       \/ Sole /\ \E s \in Matches : Goto(h, At("mark", s))
    /\ UNCHANGED <<envelope, receipt, drive>>

\* A session is opened; one whose answer was lost is never written to.
Open(h) ==
    /\ proc[h].pc = "open"
    /\ \E s \in Sessions :
        /\ drive[s] = Unused
        /\ drive' = [drive EXCEPT ![s].stage = "open"]
        /\ Goto(h, At("put", s))
    /\ UNCHANGED <<envelope, receipt>>

\* A chunk is sent.  It may arrive or not; the last one makes the object,
\* which may differ from what was sent.
Put(h) ==
    LET s == proc[h].sid
    IN  /\ proc[h].pc = "put"
        /\ \/ drive' = drive
           \/ /\ drive[s].stage = "open"
              /\ proc[h].offset = drive[s].sent
              /\ drive[s].sent + 1 < Chunks
              /\ drive' = [drive EXCEPT ![s].sent = @ + 1]
           \/ /\ drive[s].stage = "open"
              /\ proc[h].offset = drive[s].sent
              /\ drive[s].sent + 1 = Chunks
              /\ \E ok \in BOOLEAN :
                    drive' = [drive EXCEPT ![s] = [@ EXCEPT !.stage = "stored", !.sent = Chunks, !.intact = ok]]
        /\ proc' = [proc EXCEPT ![h].pc = "status"]
        /\ UNCHANGED <<envelope, receipt>>

\* The answer to the chunk, or to the question that replaces a lost answer:
\* the object, the bytes the session has, or that it expired.  When nothing
\* is learned the folder is asked.
Status(h) ==
    LET s == proc[h].sid
    IN  /\ proc[h].pc = "status"
        /\ \/ /\ drive[s].stage = "stored"
              /\ Goto(h, At("verify", s))
           \/ /\ drive[s].stage = "open"
              /\ proc' = [proc EXCEPT ![h] = [@ EXCEPT !.pc = "put", !.offset = drive[s].sent]]
           \/ Goto(h, At("unknown", s))
        /\ UNCHANGED <<envelope, receipt, drive>>

\* After an ambiguous result: the copy may be there nevertheless.
Unknown(h) ==
    /\ proc[h].pc = "unknown"
    /\ Sole
    /\ \E s \in Matches : Goto(h, At("mark", s))
    /\ UNCHANGED <<envelope, receipt, drive>>

\* The object of the session is compared and marked ...
Verify(h) ==
    LET s == proc[h].sid
    IN  /\ proc[h].pc = "verify"
        /\ Verified(s)
        /\ drive' = [drive EXCEPT ![s].marked = TRUE]
        /\ Goto(h, At("after", s))
        /\ UNCHANGED <<envelope, receipt>>

\* Mutant: the session's own object is enough.
Listed_Own(s) == TRUE

\* ... and the folder is listed again: another host may have uploaded too.
Listed(s) == Sole /\ s \in Matches

After(h) ==
    /\ proc[h].pc = "after"
    /\ Listed(proc[h].sid)
    /\ Goto(h, At("mark", proc[h].sid))
    /\ UNCHANGED <<envelope, receipt, drive>>

\* _mark_remote_verified of the object that is claimed, with the receipt as
\* a step of its own.
Mark(h) ==
    /\ proc[h].pc = "mark"
    /\ drive' = [drive EXCEPT ![proc[h].sid].marked = TRUE]
    /\ Goto(h, At("claim", proc[h].sid))
    /\ UNCHANGED <<envelope, receipt>>

Claim(h) ==
    /\ proc[h].pc = "claim"
    /\ Write(h, "COMPLETE_OFF_VM", proc[h].sid)
    /\ Goto(h, Idle)
    /\ UNCHANGED <<envelope, drive>>

\* The process is killed: the lock goes, the files stay.
Kill(h) ==
    /\ proc[h].pc # "idle"
    /\ Goto(h, Idle)
    /\ UNCHANGED <<envelope, receipt, drive>>

Expire(s) ==
    /\ drive[s].stage = "open"
    /\ drive' = [drive EXCEPT ![s].stage = "expired"]
    /\ UNCHANGED <<envelope, receipt, proc>>

Next ==
    \/ \E h \in Hosts :
        \/ Start(h) \/ Pack(h) \/ Fail(h) \/ Before(h) \/ Open(h) \/ Put(h) \/ Status(h)
        \/ Unknown(h) \/ Verify(h) \/ After(h) \/ Mark(h) \/ Claim(h) \/ Kill(h)
    \/ \E s \in Sessions : Expire(s)

Spec == Init /\ [][Next]_vars

-----------------------------------------------------------------------------
Complete(h) == receipt[h].status = "COMPLETE_OFF_VM"

\* A receipt says COMPLETE_OFF_VM only of an object that is in the folder,
\* whole and marked, however often calls were lost and uploads killed; and
\* the receipts of all hosts name the same object, though hosts may race.
ClaimsHold ==
    /\ \A h \in Hosts : Complete(h) =>
            /\ receipt[h].file \in Matches
            /\ Verified(receipt[h].file)
            /\ drive[receipt[h].file].marked
    /\ \A g, h \in Hosts : Complete(g) /\ Complete(h) => receipt[g].file = receipt[h].file
    /\ \A s \in Sessions : drive[s].marked => Verified(s)
=============================================================================
