------------------------------- MODULE Backup -------------------------------
(***************************************************************************)
(* Local backups and restores of the database, while the application goes  *)
(* on writing to it: src/src/services/local-backup.service.ts and          *)
(* src/src/app/api/backup/route.ts.                                        *)
(*                                                                         *)
(* pg_dump and pg_restore are children of the application process.  They   *)
(* outlive a crash of it.  pg_restore is one transaction (--single-        *)
(* transaction --exit-on-error) and exits with 0 exactly when it has been  *)
(* committed.  The journal and the dumps are files beside the database.    *)
(***************************************************************************)
EXTENDS FiniteSets

CONSTANTS
  Processes,      \* application processes, each with its own busy flag
  Operations,     \* backups and restores, each run once, by ProcessOf
  ProcessOf,
  Writes          \* rows the application commits

ASSUME BackupAssumption == ProcessOf \in [Operations -> Processes]

VARIABLES
  db,         \* rows in the database
  dumps,      \* contents of the dump files
  journal,    \* durable lines of restore-audit.jsonl
  busy,       \* LocalBackupService.busy of each process
  stage,      \* how far each operation got
  source,     \* content of the file a restore was sent, while it matters
  snapshot,   \* content pg_dump reads for an operation
  tool,       \* pg_restore of an operation
  written,    \* history: rows ever committed
  exposed     \* history: those committed between the snapshot of a safety
              \* backup and the end of the restore it belongs to

files == <<dumps, journal>>
history == <<written, exposed>>
backupVars == <<db, files, busy, stage, source, snapshot, tool, history>>

Exclusive == {"list", "dump", "dumping", "backup", "backing", "exit"}

Stages ==
  {"new", "started", "succeeded", "failed", "ended"} \cup Exclusive

Events == {"STARTED", "SUCCEEDED", "FAILED"}

BackupInit ==
  /\ db = {}
  /\ dumps = {{}}
  /\ journal = {}
  /\ busy = [p \in Processes |-> FALSE]
  /\ stage = [o \in Operations |-> "new"]
  /\ source = [o \in Operations |-> {}]
  /\ snapshot = [o \in Operations |-> {}]
  /\ tool = [o \in Operations |-> "none"]
  /\ written = {}
  /\ exposed = {}

-----------------------------------------------------------------------------
Pass(o, from, to) == stage[o] = from /\ stage' = [stage EXCEPT ![o] = to]

(* exclusive(): whatever the operation does, finally clears the flag.      *)
Free(o) == ~busy[ProcessOf[o]]

Enter(o) == Free(o) /\ busy' = [busy EXCEPT ![ProcessOf[o]] = TRUE]

(* Slip: no finally, the flag stays. *)
LeaveSet(o) == UNCHANGED busy

Leave(o) == busy' = [busy EXCEPT ![ProcessOf[o]] = FALSE]

Fail(o, from) ==
  /\ Pass(o, from, "failed")
  /\ source' = [source EXCEPT ![o] = {}]

Write(o, event) == journal' = journal \cup {[operation |-> o, event |-> event]}

-----------------------------------------------------------------------------
(* POST: a backup.  The flag is held until pg_dump has ended.              *)
StartBackup(o) ==
  /\ Pass(o, "new", "backup")
  /\ Enter(o)
  /\ UNCHANGED <<db, files, source, snapshot, tool, history>>

(* PUT, up to RESTORE_STARTED: the source is some dump made before.        *)
StartRestore(o) ==
  /\ \/ /\ Pass(o, "new", "started") /\ Write(o, "STARTED")
        /\ \E d \in dumps : source' = [source EXCEPT ![o] = d]
     \/ Pass(o, "new", "ended") /\ UNCHANGED <<journal, source>>
  /\ UNCHANGED <<db, dumps, busy, snapshot, tool, history>>

(* restoreBackup. *)
EnterRestore(o) ==
  /\ \/ Pass(o, "started", "list") /\ Enter(o) /\ UNCHANGED source
     \/ ~Free(o) /\ Fail(o, "started") /\ UNCHANGED busy
  /\ UNCHANGED <<db, files, snapshot, tool, history>>

(* stat and pg_restore --list accept the file, or what they throw ends it. *)
CheckFile(o) ==
  /\ \/ Pass(o, "list", "dump") /\ UNCHANGED <<busy, source>>
     \/ Fail(o, "list") /\ Leave(o)
  /\ UNCHANGED <<db, files, snapshot, tool, history>>

(* pg_dump reads one snapshot of the database.                             *)
Snapshot(o) ==
  /\ Pass(o, "dump", "dumping") \/ Pass(o, "backup", "backing")
  /\ snapshot' = [snapshot EXCEPT ![o] = db]
  /\ UNCHANGED <<db, files, busy, source, tool, history>>

(* Slip: no safety backup. *)
NoSafety(o) == UNCHANGED dumps

KeepSnapshot(o) == dumps' = dumps \cup {snapshot[o]}

Launch(o) == tool' = [tool EXCEPT ![o] = "running"]

(* runBackup returns: the file is there, and not empty or too large.  A    *)
(* restore goes on with pg_restore.                                        *)
Dump(o) ==
  /\ KeepSnapshot(o)
  /\ snapshot' = [snapshot EXCEPT ![o] = {}]
  /\ \/ Pass(o, "dumping", "exit") /\ Launch(o) /\ UNCHANGED busy
     \/ Pass(o, "backing", "ended") /\ Leave(o) /\ UNCHANGED tool
  /\ UNCHANGED <<db, journal, source, history>>

DumpFails(o) ==
  /\ \/ Fail(o, "dumping")
     \/ Pass(o, "backing", "ended") /\ UNCHANGED source
  /\ Leave(o)
  /\ snapshot' = [snapshot EXCEPT ![o] = {}]
  /\ UNCHANGED <<db, files, tool, history>>

(* The outcome of pg_restore. *)
SeeExit(o) ==
  /\ \/ tool[o] = "committed" /\ Pass(o, "exit", "succeeded")
     \/ tool[o] = "aborted" /\ Pass(o, "exit", "failed")
  /\ Leave(o)
  /\ UNCHANGED <<db, files, source, snapshot, tool, history>>

(* Slip: a journal that cannot be written counts as a failed restore. *)
RecordSuccessOrFail(o) ==
  /\ \/ Pass(o, "succeeded", "ended") /\ Write(o, "SUCCEEDED")
     \/ Pass(o, "succeeded", "failed") /\ UNCHANGED journal
  /\ UNCHANGED <<db, dumps, busy, source, snapshot, tool, history>>

(* Neither the last line of the journal nor the audit row in the database  *)
(* has to succeed.                                                         *)
RecordSuccess(o) ==
  /\ Pass(o, "succeeded", "ended")
  /\ Write(o, "SUCCEEDED") \/ UNCHANGED journal
  /\ UNCHANGED <<db, dumps, busy, source, snapshot, tool, history>>

RecordFailure(o) ==
  /\ Pass(o, "failed", "ended")
  /\ Write(o, "FAILED") \/ UNCHANGED journal
  /\ UNCHANGED <<db, dumps, busy, source, snapshot, tool, history>>

-----------------------------------------------------------------------------
(* pg_restore, in the database. *)
Commit(o) ==
  /\ tool[o] = "running"
  /\ tool' = [tool EXCEPT ![o] = "committed"]
  /\ db' = source[o]
  /\ source' = [source EXCEPT ![o] = {}]
  /\ UNCHANGED <<files, busy, stage, snapshot, history>>

Abort(o) ==
  /\ tool[o] = "running"
  /\ tool' = [tool EXCEPT ![o] = "aborted"]
  /\ source' = [source EXCEPT ![o] = {}]
  /\ UNCHANGED <<db, files, busy, stage, snapshot, history>>

(* The rest of the application commits a row. *)
Restoring(o) == stage[o] = "dumping" \/ tool[o] = "running"

CommitRow(w) ==
  /\ w \notin written
  /\ db' = db \cup {w}
  /\ written' = written \cup {w}
  /\ exposed' = IF \E o \in Operations : Restoring(o) THEN exposed \cup {w} ELSE exposed
  /\ UNCHANGED <<files, busy, stage, source, snapshot, tool>>

(* A process stops and is started again; what pg_restore does is not       *)
(* affected.                                                               *)
Crash(p) ==
  /\ \E o \in Operations : ProcessOf[o] = p /\ stage[o] \notin {"new", "ended"}
  /\ stage' = [o \in Operations |->
       IF ProcessOf[o] = p /\ stage[o] # "new" THEN "ended" ELSE stage[o]]
  /\ busy' = [busy EXCEPT ![p] = FALSE]
  /\ snapshot' = [o \in Operations |-> IF ProcessOf[o] = p THEN {} ELSE snapshot[o]]
  /\ source' = [o \in Operations |->
       IF ProcessOf[o] = p /\ tool[o] # "running" THEN {} ELSE source[o]]
  /\ UNCHANGED <<db, files, tool, history>>

Go(o) ==
  \/ EnterRestore(o) \/ CheckFile(o) \/ Snapshot(o) \/ Dump(o) \/ DumpFails(o)
  \/ SeeExit(o) \/ RecordSuccess(o) \/ RecordFailure(o)

PgRestore(o) == Commit(o) \/ Abort(o)

BackupNext ==
  \/ \E o \in Operations : StartBackup(o) \/ StartRestore(o) \/ Go(o) \/ PgRestore(o)
  \/ \E w \in Writes : CommitRow(w)
  \/ \E p \in Processes : Crash(p)

BackupSpec == BackupInit /\ [][BackupNext]_backupVars

(* Node runs every continuation, and the tools end (no timeout is set, a   *)
(* tool that hangs keeps the flag).                                        *)
FairBackupSpec ==
  BackupSpec /\ \A o \in Operations :
                  WF_backupVars(Go(o)) /\ WF_backupVars(PgRestore(o))

-----------------------------------------------------------------------------
BackupTypeOK ==
  /\ db \subseteq Writes /\ dumps \subseteq SUBSET Writes
  /\ journal \subseteq [operation : Operations, event : Events]
  /\ busy \in [Processes -> BOOLEAN]
  /\ stage \in [Operations -> Stages]
  /\ source \in [Operations -> SUBSET Writes]
  /\ snapshot \in [Operations -> SUBSET Writes]
  /\ tool \in [Operations -> {"none", "running", "committed", "aborted"}]
  /\ exposed \subseteq written /\ written \subseteq Writes

(* A row that a restore removed from the database is in a dump: the safety *)
(* backup has it, whatever crashes and however restores of two processes   *)
(* overlap.  Only a row committed after the snapshot of the safety backup  *)
(* and before the restore's own commit can be lost.                        *)
(* (local-backup.service.ts:178-184)                                       *)
NothingIsLost ==
  \A w \in written \ exposed : w \in db \/ \E d \in dumps : w \in d

Says(o, event) == [operation |-> o, event |-> event] \in journal

(* The journal says no more than what happened to the database, and that a *)
(* restore was begun before the database is replaced, also when lines of   *)
(* it cannot be written and the process stops anywhere.                    *)
(* ("Write-ahead event must be durable before any database replacement     *)
(* begins", route.ts:136; "do not report it as failed", route.ts:152)      *)
JournalIsTrue ==
  \A o \in Operations :
    /\ Says(o, "SUCCEEDED") => tool[o] = "committed"
    /\ Says(o, "FAILED") => tool[o] \in {"none", "aborted"}
    /\ tool[o] = "committed" => Says(o, "STARTED")

(* A process that backs up or restores takes the next request some time,   *)
(* whatever fails.  (local-backup.service.ts:138-146)                      *)
BusyEnds == \A p \in Processes : busy[p] ~> ~busy[p]
=============================================================================
