-------------------------- MODULE MCBackgroundWork --------------------------
(***************************************************************************)
(* The jobs table and what goes in and out beside the requests, for TLC:   *)
(* JobQueue as it stands, once more with the schedule of a single replica  *)
(* ("ticker"), the handlers that mail, post webhooks, push the status of a *)
(* commit and take backups, and the events that keep open pages fresh.     *)
(* These keep rows of their own, so a behaviour moves one part, chosen at  *)
(* its start, and leaves the others as they began.                         *)
(***************************************************************************)
EXTENDS JobQueue

CONSTANTS
    Ticker,                         \* rows of a queue with one replica
    NoteKind, MaxNotes, Limit,      \* of Mail
    Sha, Payloads, MaxWaiting,      \* of GitLinks
    Delivery, Tries,                \* of WebhookDelivery, Tries being jobs.max_attempts
    File, MaxBackups, KeepCount, KeepDays, LastDay,  \* of StoredFiles
    Query, MaxWrites, Losses,       \* of EventStream
    None

VARIABLES
    part,
    ticket, replica,
    mode, kinds, last, due, note, digest,
    gstatus, live, link, conn, hook, waiting, push, shown, gtold,
    whook, pending, delivery, poster, ledger, posts, blank,
    file, backup, bucket, dump, dumping, pruning, today, started, made,
    version, member, unpublished, socket, channel, wire, page, fetch, unbroken

Schedule == INSTANCE JobQueue
    WITH Job <- Ticker, Worker <- {"replica"}, MayFail <- MayFail \ Periodic,
         Faults <- {"crash"}, job <- ticket, worker <- replica

Post == INSTANCE Mail WITH Kind <- NoteKind

Git == INSTANCE GitLinks WITH MaxJobs <- MaxWaiting, status <- gstatus, told <- gtold, run <- push

Hooks == INSTANCE WebhookDelivery
    WITH Job <- Delivery, MaxAttempts <- Tries, hook <- whook, job <- delivery, run <- poster

Files == INSTANCE StoredFiles WITH Backup <- 1 .. MaxBackups

Realtime == INSTANCE EventStream WITH Faults <- Losses, conn <- socket

(* A count of backups to keep, and the bounds, are numbers; None is nothing else. *)
ASSUME WorkAssumption ==
    /\ {MaxNotes, Limit, MaxWaiting, MaxBackups, LastDay, MaxWrites} \subseteq Nat
    /\ Tries \in Nat \ {0}
    /\ KeepCount \in Nat \cup {None}
    /\ Query \subseteq {"tasks", "project", "inbox"}
    /\ Losses \subseteq {"redis", "network", "stop"}
    /\ None \notin Sha \cup (1 .. MaxBackups) \cup Files!BackupRow \cup Files!Snapshot

scheduleVars == <<ticket, replica>>
mailVars == <<mode, kinds, last, due, note, digest>>
gitVars == <<gstatus, live, link, conn, hook, waiting, push, shown, gtold>>
hooksVars == <<whook, pending, delivery, poster, ledger, posts, blank>>
filesVars == <<file, backup, bucket, dump, dumping, pruning, today, started, made>>
eventsVars == <<version, member, unpublished, socket, channel, wire, page, fetch, unbroken>>

workVars == <<part, vars, scheduleVars, mailVars, gitVars, hooksVars, filesVars, eventsVars>>

WorkInit ==
    /\ part \in {"queue", "ticker", "mail", "git", "hooks", "files", "events"}
    /\ Init /\ Schedule!Init /\ Post!Init /\ Git!Init /\ Hooks!Init /\ Files!Init
    /\ Realtime!Init

WorkNext ==
    /\ part' = part
    /\ part # "queue" => UNCHANGED vars
    /\ part # "ticker" => UNCHANGED scheduleVars
    /\ part # "mail" => UNCHANGED mailVars
    /\ part # "git" => UNCHANGED gitVars
    /\ part # "hooks" => UNCHANGED hooksVars
    /\ part # "files" => UNCHANGED filesVars
    /\ part # "events" => UNCHANGED eventsVars
    /\ part = "queue" => Next
    /\ part = "ticker" => Schedule!Next
    /\ part = "mail" => Post!Next
    /\ part = "git" => Git!Next
    /\ part = "hooks" => Hooks!Next
    /\ part = "files" => Files!Next
    /\ part = "events" => Realtime!Next

WorkSpec == WorkInit /\ [][WorkNext]_workVars

(* The type invariants of the parts. *)
TypesOK ==
    CASE part = "queue" -> TypeOK
      [] part = "ticker" -> Schedule!TypeOK
      [] part = "mail" -> Post!TypeOK
      [] part = "git" -> Git!TypeOK
      [] part = "hooks" -> Hooks!TypeOK
      [] part = "files" -> Files!TypeOK
      [] part = "events" -> Realtime!TypeOK

(* A periodic kind that was seeded never runs out of rows, and with one worker it
   never has two pending (ensure_seed_jobs and finish_ok in jobs/mod.rs). *)
ScheduleIsKept == part = "ticker" => Schedule!TickerAlive /\ Schedule!SingleTicker

(* A notification is mailed as its user wished, and once (run_send_notification_email
   and run_notification_digest in jobs/mod.rs). *)
MailedAsWished == part = "mail" => Post!MailedAsWished

(* Once its jobs have run, a pull request's head shows whether its task is done
   (integrations.rs, run_push_commit_status in jobs/mod.rs). *)
StatusSettles == part = "git" => Git!StatusSettles

(* The ledger of a webhook is what its receiver got (run_deliver_webhook in jobs/mod.rs). *)
LedgerIsComplete == part = "hooks" => Hooks!LedgerIsComplete

(* The newest backup restores, with the files it knows (domain/backups.rs). *)
RestoreIsPossible == part = "files" => Files!RestoreIsPossible

(* A tab that lost nothing since it last asked shows what the tables hold (infra/events.rs,
   routes/ws.rs). *)
UpToDate == part = "events" => Realtime!UpToDate
=============================================================================
