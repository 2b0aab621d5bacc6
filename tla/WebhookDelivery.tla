--------------------------- MODULE WebhookDelivery ---------------------------
(***************************************************************************)
(* The outbound webhooks of a project: the row and its handlers            *)
(* (routes/webhooks.rs), the jobs an event queues (domain/webhooks.rs),    *)
(* the messages of chat targets (domain/chat_adapters.rs) and the job that *)
(* posts them and keeps the ledger of attempts (jobs/mod.rs), all of       *)
(* apps/api/src.  Each statement is a step; a receiver may answer anything *)
(* and a worker may stop anywhere.                                         *)
(***************************************************************************)
EXTENDS Naturals, FiniteSets

CONSTANTS
    Job,          \* rows of kind deliver_webhook
    MaxAttempts,  \* jobs.max_attempts
    None          \* no value

VARIABLES
    hook,    \* the row of webhooks, or None
    pending, \* dispatch() of an event: it has chosen the hook, not yet queued it
    job,     \* jobs
    run,     \* the worker of each job, with what it has read
    ledger,  \* webhook_deliveries
    posts,   \* what the receivers got
    blank    \* history: jobs with a post that could not be recorded

vars == <<hook, pending, job, run, ledger, posts, blank>>

Event == {"task.updated", "test"}
Target == {"outbound", "slack"}
HookRow == [target: Target, secret: {None, "key"}, subscribed: BOOLEAN, active: BOOLEAN]
JobRow == [state: {"absent", "waiting", "running", "stuck", "done", "failed"}, event: Event, attempts: 0 .. MaxAttempts]
Attempt == 1 .. MaxAttempts
Row == [job: Job, attempt: Attempt, ok: BOOLEAN]
Post == [job: Job, attempt: Attempt, ok: BOOLEAN, body: {"signed", "chat"}]
Run == [pc: {"idle", "read", "built", "posted"}, attempt: Attempt, body: {"signed", "chat"}, ok: BOOLEAN]

NoJob == [state |-> "absent", event |-> "test", attempts |-> 0]
Idle == [pc |-> "idle", attempt |-> 1, body |-> "chat", ok |-> FALSE]

Init ==
    /\ hook = None /\ pending = FALSE
    /\ job = [j \in Job |-> NoJob] /\ run = [j \in Job |-> Idle]
    /\ ledger = {} /\ posts = {} /\ blank = {}

----------------------------------------------------------------------------
(* create() wants a secret of an outbound target; edit() takes any row. *)
Create(row) ==
    /\ hook = None /\ row.active
    /\ row.target = "outbound" => row.secret # None
    /\ hook' = row
    /\ UNCHANGED <<pending, job, run, ledger, posts, blank>>

(* Every field is COALESCEd: a secret, once set, stays or is replaced. *)
Edit(row) ==
    /\ hook # None /\ (hook.secret # None => row.secret # None)
    /\ hook' = row
    /\ UNCHANGED <<pending, job, run, ledger, posts, blank>>

Remove ==
    /\ hook # None /\ hook' = None
    /\ UNCHANGED <<pending, job, run, ledger, posts, blank>>

----------------------------------------------------------------------------
Configured == hook # None /\ hook.active /\ (hook.target = "outbound" => hook.secret # None)
Deliverable == Configured /\ hook.subscribed

Enqueue(j, event) ==
    /\ job[j].state = "absent"
    /\ job' = [job EXCEPT ![j] = [NoJob EXCEPT !.state = "waiting", !.event = event]]

(* dispatch(): the SELECT of the hooks, then an INSERT for each. *)
Dispatch ==
    /\ ~pending /\ Deliverable /\ pending' = TRUE
    /\ UNCHANGED <<hook, job, run, ledger, posts, blank>>

DispatchEnqueue(j) ==
    /\ pending /\ pending' = FALSE /\ Enqueue(j, "task.updated")
    /\ UNCHANGED <<hook, run, ledger, posts, blank>>

(* The caller drops the error of dispatch(). *)
DispatchFails ==
    /\ pending /\ pending' = FALSE
    /\ UNCHANGED <<hook, job, run, ledger, posts, blank>>

SendTest(j) ==
    /\ hook # None /\ Enqueue(j, "test")
    /\ UNCHANGED <<hook, pending, run, ledger, posts, blank>>

----------------------------------------------------------------------------
(* The worker claims the row (jobs/mod.rs), then runs run_deliver_webhook(). *)
Claim(j) ==
    /\ job[j].state = "waiting" /\ job' = [job EXCEPT ![j].state = "running"]
    /\ UNCHANGED <<hook, pending, run, ledger, posts, blank>>

AttemptsSoFar(j) == IF job[j].attempts = 0 THEN 1 ELSE job[j].attempts

AttemptNumber(j) == job[j].attempts + 1

ReadAttempt(j) ==
    /\ job[j].state = "running" /\ run[j].pc = "idle"
    /\ run' = [run EXCEPT ![j] = [Idle EXCEPT !.pc = "read", !.attempt = AttemptNumber(j)]]
    /\ UNCHANGED <<hook, pending, job, ledger, posts, blank>>

(* Gone, switched off or without a secret: there is nothing to do. *)
Drop(j) ==
    /\ run[j].pc = "read" /\ ~Configured
    /\ run' = [run EXCEPT ![j] = Idle]
    /\ job' = [job EXCEPT ![j].state = "done"]
    /\ UNCHANGED <<hook, pending, ledger, posts, blank>>

Body == IF hook.target = "outbound" THEN "signed" ELSE "chat"

Build(j) ==
    /\ run[j].pc = "read" /\ Configured
    /\ run' = [run EXCEPT ![j].pc = "built", ![j].body = Body]
    /\ UNCHANGED <<hook, pending, job, ledger, posts, blank>>

(* curl; a receiver that got it may still be taken to have failed. *)
SendPost(j, ok) ==
    /\ run[j].pc = "built"
    /\ run' = [run EXCEPT ![j].pc = "posted", ![j].ok = ok]
    /\ posts' = posts \cup {[job |-> j, attempt |-> run[j].attempt, ok |-> ok, body |-> run[j].body]}
    /\ UNCHANGED <<hook, pending, job, ledger, blank>>

(* fail(): attempts is what this function counts, and it gives up at the last. *)
Failed(j) ==
    LET attempts == job[j].attempts + 1 IN
    job' = [job EXCEPT ![j].attempts = attempts,
                       ![j].state = IF attempts >= MaxAttempts THEN "failed" ELSE "waiting"]

Record(j) ==
    /\ run[j].pc = "posted"
    /\ ledger' = ledger \cup {[job |-> j, attempt |-> run[j].attempt, ok |-> run[j].ok]}
    /\ IF run[j].ok THEN job' = [job EXCEPT ![j].state = "done"] ELSE Failed(j)
    /\ run' = [run EXCEPT ![j] = Idle]
    /\ UNCHANGED <<hook, pending, posts, blank>>

(* The INSERT fails: the attempt failed, whatever the receiver did with it. *)
RecordFails(j) ==
    /\ run[j].pc = "posted" /\ Failed(j)
    /\ run' = [run EXCEPT ![j] = Idle] /\ blank' = blank \cup {j}
    /\ UNCHANGED <<hook, pending, ledger, posts>>

(* The worker stops; the row it claimed stays claimed. *)
Crash(j) ==
    /\ job[j].state = "running"
    /\ run' = [run EXCEPT ![j] = Idle]
    /\ job' = [job EXCEPT ![j].state = "stuck"] /\ blank' = blank \cup {j}
    /\ UNCHANGED <<hook, pending, ledger, posts>>

----------------------------------------------------------------------------
Next ==
    \/ \E row \in HookRow : Create(row) \/ Edit(row)
    \/ Remove \/ Dispatch \/ DispatchFails
    \/ \E j \in Job :
          \/ DispatchEnqueue(j) \/ SendTest(j) \/ Claim(j) \/ ReadAttempt(j) \/ Drop(j) \/ Build(j)
          \/ \E ok \in BOOLEAN : SendPost(j, ok)
          \/ Record(j) \/ RecordFails(j) \/ Crash(j)

Spec == Init /\ [][Next]_vars

----------------------------------------------------------------------------
TypeOK ==
    /\ hook \in HookRow \cup {None} /\ pending \in BOOLEAN
    /\ job \in [Job -> JobRow] /\ run \in [Job -> Run]
    /\ ledger \subseteq Row /\ posts \subseteq Post /\ blank \subseteq Job

Rows(j) == {r \in ledger : r.job = j}

(* "The result lands in webhook_deliveries": unless a worker stopped or the ledger could
   not be written, the ledger of a delivery is exactly the posts its receiver got, numbered
   without a gap, as many failures as the job has attempts, and none after a success
   (run_deliver_webhook and finish_err in jobs/mod.rs). *)
LedgerIsComplete ==
    \A j \in Job \ blank :
        /\ run[j].pc # "posted" =>
              Rows(j) = {[job |-> j, attempt |-> p.attempt, ok |-> p.ok] : p \in {q \in posts : q.job = j}}
        /\ {r.attempt : r \in Rows(j)} = 1 .. Cardinality(Rows(j))
        /\ Cardinality({r \in Rows(j) : ~r.ok}) = job[j].attempts
        /\ \A r \in Rows(j) : r.ok => r.attempt = Cardinality(Rows(j)) /\ job[j].state = "done"
=============================================================================
