----------------------------- MODULE BackupSet ------------------------------
(***************************************************************************)
(* An encrypted backup of the database and of the evidence files its rows  *)
(* name, its transport as an envelope, and its restore into an isolated    *)
(* database (app/data_protection.py and the envelope of                    *)
(* app/backup_transport.py).  The application goes on storing evidence     *)
(* while the backup is made; files are damaged or lost at any time.        *)
(***************************************************************************)
EXTENDS Naturals, FiniteSets

CONSTANTS Files     \* evidence files, numbered like their rows

VARIABLES
    rows,       \* evidence rows of the live database
    store,      \* file -> its content in the live evidence root
    snapshot,   \* rows of the snapshot the backup exported
    set,        \* the backup directory
    restored    \* the isolated database and its evidence root

vars == <<rows, store, snapshot, set, restored>>

Contents == {"none", "good", "bad"}
NoFiles == [f \in Files |-> "none"]

\* status of the manifest and where its bytes are; rows it lists; rows and
\* state of the archive.
NoSet == [status |-> "none", place |-> "local", refs |-> {}, dumped |-> {},
          archive |-> "none", copies |-> NoFiles]
NoRestore == [status |-> "none", rows |-> {}, files |-> NoFiles]

Init ==
    /\ rows = {}
    /\ store = NoFiles
    /\ snapshot = {}
    /\ set = NoSet
    /\ restored = NoRestore

-----------------------------------------------------------------------------
(* The application and the disks.                                           *)

\* An upload of evidence: the file first, then its row.
StoreFile(f) ==
    /\ f \notin rows
    /\ store[f] = "none"
    /\ store' = [store EXCEPT ![f] = "good"]
    /\ UNCHANGED <<rows, snapshot, set, restored>>

CommitRow(f) ==
    /\ f \notin rows
    /\ store[f] = "good"
    /\ rows' = rows \cup {f}
    /\ UNCHANGED <<store, snapshot, set, restored>>

\* A live file, or a member of the finished set wherever it is, is damaged.
DamageStore(f) ==
    /\ store[f] = "good"
    /\ \E c \in {"none", "bad"} : store' = [store EXCEPT ![f] = c]
    /\ UNCHANGED <<rows, snapshot, set, restored>>

DamageSet ==
    /\ set.status = "COMPLETE_LOCAL"
    /\ \/ set' = [set EXCEPT !.archive = "bad"]
       \/ \E f \in set.refs : set' = [set EXCEPT !.copies[f] = "bad"]
    /\ UNCHANGED <<rows, store, snapshot, restored>>

-----------------------------------------------------------------------------
(* create_backup.                                                           *)

\* The manifest is written IN_PROGRESS and a snapshot is exported.
Export ==
    /\ set.status = "none"
    /\ set' = [set EXCEPT !.status = "IN_PROGRESS"]
    /\ snapshot' = rows
    /\ UNCHANGED <<rows, store, restored>>

\* The rows whose files will be copied are read in the exporting transaction.
ReadRefs ==
    /\ set.status = "IN_PROGRESS"
    /\ set' = [set EXCEPT !.status = "refs", !.refs = snapshot]
    /\ UNCHANGED <<rows, store, snapshot, restored>>

\* pg_dump runs as a process of its own on the exported snapshot.
DumpedRows == snapshot

Dump ==
    /\ set.status = "refs"
    /\ set' = [set EXCEPT !.status = "dumped", !.archive = "good", !.dumped = DumpedRows]
    /\ UNCHANGED <<rows, store, snapshot, restored>>

\* The next file, in the order of the rows; a file that is not what its row
\* says ends the backup.
Pending == {f \in set.refs : set.copies[f] = "none"}

CopyEvidence ==
    /\ set.status = "dumped"
    /\ \E f \in Pending :
        /\ \A g \in Pending : f <= g
        /\ set' = IF store[f] = "good" THEN [set EXCEPT !.copies[f] = "good"]
                  ELSE [set EXCEPT !.status = "FAILED"]
    /\ UNCHANGED <<rows, store, snapshot, restored>>

Finish ==
    /\ set.status = "dumped"
    /\ Pending = {}
    /\ set' = [set EXCEPT !.status = "COMPLETE_LOCAL"]
    /\ UNCHANGED <<rows, store, snapshot, restored>>

\* Any other error; a process that is killed leaves the manifest IN_PROGRESS.
Abort ==
    /\ set.status \in {"IN_PROGRESS", "refs", "dumped"}
    /\ set' = [set EXCEPT !.status = "FAILED"]
    /\ UNCHANGED <<rows, store, snapshot, restored>>

-----------------------------------------------------------------------------
(* Transport and restore.                                                   *)

\* Every member has the size and digest the manifest gives it.
SetIsIntact ==
    /\ set.status = "COMPLETE_LOCAL"
    /\ set.archive = "good"
    /\ \A f \in set.refs : set.copies[f] = "good"

Travel(from, to) ==
    /\ set.place = from
    /\ SetIsIntact
    /\ set' = [set EXCEPT !.place = to]
    /\ UNCHANGED <<rows, store, snapshot, restored>>

\* The members are compared with the manifest when they are packed, the
\* bytes of the object when it is downloaded, and the members again before
\* they are extracted; a difference ends the journey.
Pack == Travel("local", "envelope")
Download == Travel("envelope", "download")
Extract == Travel("download", "extracted")

\* restore_isolated takes a directory, starts on an empty database and an
\* empty root and compares every member once more.
RestoreCheck ==
    /\ set.place \in {"local", "extracted"}
    /\ restored.status = "none"
    /\ SetIsIntact
    /\ restored' = [restored EXCEPT !.status = "checked"]
    /\ UNCHANGED <<rows, store, snapshot, set>>

\* The files are decrypted and compared with their rows' digests ...
RestoreFiles ==
    /\ restored.status = "checked"
    /\ restored' = IF \A f \in set.refs : set.copies[f] = "good"
                   THEN [restored EXCEPT !.status = "files",
                                         !.files = [f \in Files |-> IF f \in set.refs THEN "good" ELSE "none"]]
                   ELSE [restored EXCEPT !.status = "failed"]
    /\ UNCHANGED <<rows, store, snapshot, set>>

\* ... and the database in one transaction.  The archive was decrypted when
\* the set was checked, so later damage does not reach it.
RestoreDatabase ==
    /\ restored.status = "files"
    /\ restored' = [restored EXCEPT !.status = "database", !.rows = set.dumped]
    /\ UNCHANGED <<rows, store, snapshot, set>>

DamageRestored ==
    /\ restored.status = "database"
    /\ \E f \in set.refs : restored.files[f] = "good" /\ restored' = [restored EXCEPT !.files[f] = "bad"]
    /\ UNCHANGED <<rows, store, snapshot, set>>

\* _read_only_validation: the inventory of the restored database is the one
\* of the manifest and every file is what its row says.
Accepted ==
    /\ restored.rows = set.refs
    /\ \A f \in restored.rows : restored.files[f] = "good"

Validate ==
    /\ restored.status = "database"
    /\ restored' = [restored EXCEPT !.status = IF Accepted THEN "ok" ELSE "failed"]
    /\ UNCHANGED <<rows, store, snapshot, set>>

Next ==
    \/ \E f \in Files : StoreFile(f) \/ CommitRow(f) \/ DamageStore(f)
    \/ DamageSet \/ Export \/ ReadRefs \/ Dump \/ CopyEvidence \/ Finish \/ Abort
    \/ Pack \/ Download \/ Extract \/ RestoreCheck \/ RestoreFiles \/ RestoreDatabase \/ DamageRestored \/ Validate

Spec == Init /\ [][Next]_vars

-----------------------------------------------------------------------------
\* A set that calls itself complete lists a file for every evidence row of
\* its archive and no other, though rows were committed while it was made;
\* and a restore that reports success has exactly the rows of the exported
\* moment with every file as its row says, whatever was damaged on the way.
RestoreIsSnapshot ==
    /\ set.status = "COMPLETE_LOCAL" => set.refs = set.dumped /\ Pending = {}
    /\ restored.status = "ok" =>
        /\ restored.rows = snapshot
        /\ \A f \in Files : restored.files[f] = IF f \in snapshot THEN "good" ELSE "none"
=============================================================================
