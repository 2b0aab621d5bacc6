----------------------------- MODULE StoredFiles -----------------------------
(***************************************************************************)
(* What the bucket holds and what the database says of it: attachments     *)
(* (routes/task_detail.rs) and project documents                           *)
(* (routes/project_documents.rs), uploaded by the browser to a signed URL  *)
(* (infra/s3.rs); and backups (routes/backups.rs, domain/backups.rs, the   *)
(* jobs of jobs/mod.rs) with the restore of the command line (main.rs),    *)
(* all of apps/api/src.                                                    *)
(*                                                                         *)
(* Bucket and database are written by different statements, either may     *)
(* fail, and the worker may stop between them.  A dump is a snapshot of    *)
(* the rows; the bucket is not part of it.                                 *)
(***************************************************************************)
EXTENDS Naturals, FiniteSets

CONSTANTS
    File,      \* attachments and documents
    Backup,    \* rows of backups: numbers, in the order of created_at
    KeepCount, \* SPRINTLY_BACKUP_RETENTION_COUNT, or None
    KeepDays,  \* SPRINTLY_BACKUP_RETENTION_DAYS, or None
    LastDay,   \* bounds the clock
    None       \* no value

VARIABLES
    file,    \* rows of task_attachments and project_documents
    backup,  \* rows of backups
    bucket,  \* the objects of files
    dump,    \* the object of each backup: the rows it holds (a retry on a later day writes another)
    dumping, \* the backup a worker is making, with where it is and what it dumped
    pruning, \* the rows run_backup_retention() has chosen and not yet dropped
    today,   \* the day
    started, \* the last id given to a backup
    made     \* history: the backups that were ever completed

vars == <<file, backup, bucket, dump, dumping, pruning, today, started, made>>

FileState == {"absent", "pending", "ready", "deleted"}
BackupRow == [status: {"pending", "running", "done", "failed"}, day: 0 .. LastDay]
Snapshot == [file: [File -> FileState], backup: [Backup -> BackupRow \cup {None}]]
NoDump == [pc |-> "idle", of |-> None, rows |-> None]

Rows == [file |-> file, backup |-> backup]
Done == {b \in Backup : backup[b] # None /\ backup[b].status = "done"}

Init ==
    /\ file = [f \in File |-> "absent"] /\ backup = [b \in Backup |-> None]
    /\ bucket = {} /\ dump = [b \in Backup |-> None] /\ dumping = NoDump /\ pruning = {}
    /\ today = 0 /\ started = 0 /\ made = {}

----------------------------------------------------------------------------
(* Files: the row first, with a signed URL; the browser uploads; then it says so. *)
CreateFile(f) ==
    /\ file[f] = "absent" /\ file' = [file EXCEPT ![f] = "pending"]
    /\ UNCHANGED <<backup, bucket, dump, dumping, pruning, today, started, made>>

(* The URL works for ten minutes, whatever became of the row. *)
Upload(f) ==
    /\ file[f] # "absent" /\ bucket' = bucket \cup {f}
    /\ UNCHANGED <<file, backup, dump, dumping, pruning, today, started, made>>

(* The browser completes what it uploaded; the server does not look. *)
CompleteFile(f) ==
    /\ file[f] = "pending" /\ f \in bucket
    /\ file' = [file EXCEPT ![f] = "ready"]
    /\ UNCHANGED <<backup, bucket, dump, dumping, pruning, today, started, made>>

(* The bucket after a deletion: "a background job removes the object", one day. *)
BucketWithout(f) == bucket

DeleteFile(f) ==
    /\ file[f] \in {"pending", "ready"}
    /\ file' = [file EXCEPT ![f] = "deleted"] /\ bucket' = BucketWithout(f)
    /\ UNCHANGED <<backup, dump, dumping, pruning, today, started, made>>

----------------------------------------------------------------------------
(* start_backup() and run_scheduled_backup(): the row and its job in one transaction. *)
StartBackup(b) ==
    /\ b = started + 1 /\ started' = b
    /\ backup' = [backup EXCEPT ![b] = [status |-> "pending", day |-> today]]
    /\ UNCHANGED <<file, bucket, dump, dumping, pruning, today, made>>

(* run_create_backup(): the status, pg_dump, the upload, the status. *)
BackupRuns(b) ==
    /\ dumping.pc = "idle"
    /\ backup[b] # None /\ backup[b].status \in {"pending", "failed"}
    /\ backup' = [backup EXCEPT ![b].status = "running"]
    /\ dumping' = [NoDump EXCEPT !.pc = "dump", !.of = b]
    /\ UNCHANGED <<file, bucket, dump, pruning, today, started, made>>

PgDump ==
    /\ dumping.pc = "dump"
    /\ dumping' = [dumping EXCEPT !.pc = "upload", !.rows = Rows]
    /\ UNCHANGED <<file, backup, bucket, dump, pruning, today, started, made>>

UploadDump ==
    /\ dumping.pc = "upload"
    /\ dump' = [dump EXCEPT ![dumping.of] = dumping.rows]
    /\ dumping' = [dumping EXCEPT !.pc = "finish"]
    /\ UNCHANGED <<file, backup, bucket, pruning, today, started, made>>

Marked(status) ==
    IF backup[dumping.of] = None THEN backup ELSE [backup EXCEPT ![dumping.of].status = status]

BackupDone ==
    /\ dumping.pc = "finish" /\ backup' = Marked("done")
    /\ made' = made \cup {dumping.of} /\ dumping' = NoDump
    /\ UNCHANGED <<file, bucket, dump, pruning, today, started>>

(* pg_dump or curl fails: mark_backup_failed(), and the job is tried again. *)
BackupFails ==
    /\ dumping.pc \in {"dump", "upload"} /\ backup' = Marked("failed") /\ dumping' = NoDump
    /\ UNCHANGED <<file, bucket, dump, pruning, today, started, made>>

(* The worker stops. *)
Crash ==
    /\ dumping.pc # "idle" \/ pruning # {}
    /\ dumping' = NoDump /\ pruning' = {}
    /\ UNCHANGED <<file, backup, bucket, dump, today, started, made>>

----------------------------------------------------------------------------
(* select_prunable(): newest first, kept by rank or by age, the newest in any case. *)
NoFloor == IF KeepCount = None THEN 0 ELSE KeepCount
Floor == IF KeepCount \in {None, 0} THEN 1 ELSE KeepCount

Rank(b) == Cardinality({c \in Done : c > b})
Young(b) == KeepDays # None /\ today - backup[b].day <= KeepDays
Prunable == {b \in Done : ~(Rank(b) < Floor \/ Young(b))}

(* run_backup_retention(); nothing to do without a policy.  One worker: not while it dumps. *)
RetentionRuns ==
    /\ dumping.pc = "idle" /\ pruning = {} /\ Prunable # {}
    /\ KeepCount # None \/ KeepDays # None
    /\ pruning' = Prunable
    /\ UNCHANGED <<file, backup, bucket, dump, dumping, today, started, made>>

(* The object, best effort, then the row. *)
PruneObject(b) ==
    /\ b \in pruning /\ dump[b] # None /\ dump' = [dump EXCEPT ![b] = None]
    /\ UNCHANGED <<file, backup, bucket, dumping, pruning, today, started, made>>

PruneRow(b) ==
    /\ b \in pruning /\ pruning' = pruning \ {b}
    /\ backup' = [backup EXCEPT ![b] = None]
    /\ UNCHANGED <<file, bucket, dump, dumping, today, started, made>>

----------------------------------------------------------------------------
(* sprintly-api restore <id> --confirm, the app being stopped: the rows are those of the
   dump, in which the backup itself was still running. *)
Restore(b) ==
    /\ dumping.pc = "idle" /\ pruning = {} /\ b \in Done /\ dump[b] # None
    /\ file' = dump[b].file /\ backup' = dump[b].backup
    /\ UNCHANGED <<bucket, dump, dumping, pruning, today, started, made>>

Tick ==
    /\ today < LastDay /\ today' = today + 1
    /\ UNCHANGED <<file, backup, bucket, dump, dumping, pruning, started, made>>

Next ==
    \/ \E f \in File : CreateFile(f) \/ Upload(f) \/ CompleteFile(f) \/ DeleteFile(f)
    \/ \E b \in Backup : StartBackup(b) \/ BackupRuns(b)
    \/ PgDump \/ UploadDump \/ BackupDone \/ BackupFails \/ Crash
    \/ RetentionRuns
    \/ \E b \in Backup : PruneObject(b) \/ PruneRow(b) \/ Restore(b)
    \/ Tick

Spec == Init /\ [][Next]_vars

----------------------------------------------------------------------------
TypeOK ==
    /\ file \in [File -> FileState] /\ backup \in [Backup -> BackupRow \cup {None}]
    /\ bucket \subseteq File /\ dump \in [Backup -> Snapshot \cup {None}] /\ started \in Backup \cup {0}
    /\ dumping.pc \in {"idle", "dump", "upload", "finish"} /\ dumping.of \in Backup \cup {None}
    /\ pruning \subseteq Backup /\ today \in 0 .. LastDay /\ made \subseteq Backup

(* A file the rows show as ready is in the bucket. *)
FilesOpen(rows) == \A f \in File : rows.file[f] = "ready" => f \in bucket

(* The newest backup that was completed can be restored, and whatever dump is restored,
   the files it shows as ready open: "the newest backup is always kept as a safety
   floor" (docs/SECURITY.md:134), whatever failed or stopped half way. *)
RestoreIsPossible ==
    /\ \A b \in made : (\A c \in made : c <= b) => dump[b] # None
    /\ FilesOpen(Rows)
    /\ \A b \in Backup : dump[b] # None => FilesOpen(dump[b])
=============================================================================
