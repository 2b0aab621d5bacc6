------------------------------ MODULE GitLinks ------------------------------
(***************************************************************************)
(* A task and the pull request that names it: the events a Git provider    *)
(* sends (domain/git_providers.rs), the link they keep                     *)
(* (domain/integrations.rs), and the job that tells the provider whether   *)
(* the task is done (jobs/mod.rs), all of apps/api/src.                    *)
(*                                                                         *)
(* Events are lost, repeated and reordered on their way: any may come at   *)
(* any time.  One job worker; queue_status_updates() is a statement of its *)
(* own after the change it tells of.                                       *)
(***************************************************************************)
EXTENDS Naturals

CONSTANTS
    Sha,      \* commits of the pull request
    Payloads, \* the states of pull requests, and of checks, that occur
    MaxJobs,  \* bounds the rows of push_commit_status that wait
    None      \* no value

VARIABLES
    status,   \* tasks.status
    live,     \* tasks.deleted_at IS NULL
    link,     \* the row of git_links for the task and the pull request
    conn,     \* the row of git_integrations for the project
    hook,     \* where the handler of an event is
    waiting,  \* how many push_commit_status rows wait
    run,      \* the one that runs, with what it has read
    shown,    \* at the provider: the commit status of each commit
    told      \* history: the last change was followed by queue_status_updates()

vars == <<status, live, link, conn, hook, waiting, run, shown, told>>

----------------------------------------------------------------------------
(* Payloads as the providers send them, and what parse_event() makes of them. *)
GithubPr(action, merged) ==
    IF merged THEN "merged" ELSE IF action = "closed" THEN "closed" ELSE "open"
GitlabMr(state) == IF state \in {"merged", "closed"} THEN state ELSE "open"
GithubStatus(state) ==
    IF state = "success" THEN "passed" ELSE IF state \in {"failure", "error"} THEN "failed" ELSE "pending"
GithubCheck(phase, conclusion) ==
    IF phase # "completed" THEN "pending" ELSE IF conclusion = "success" THEN "passed" ELSE "failed"
GitlabPipeline(state) ==
    IF state = "success" THEN "passed" ELSE IF state \in {"failed", "canceled"} THEN "failed" ELSE "pending"

PrState == {GithubPr(action, merged) : action \in {"opened", "closed"}, merged \in BOOLEAN}
           \cup {GitlabMr(state) : state \in {"opened", "locked", "closed", "merged"}}
CheckState == {GithubCheck(phase, end) : phase \in {"queued", "completed"}, end \in {"success", "timed_out"}}
              \cup {GitlabPipeline(state) : state \in {"running", "success", "failed"}}
              \cup {GithubStatus(state) : state \in {"pending", "success", "error"}}

Status == {"todo", "done"}
LinkRow == [state: PrState, sha: Sha \cup {None}, check: CheckState \cup {None}]
Connection == [enabled: BOOLEAN, token: BOOLEAN]
Handler == {"idle", "transition", "queue"}
Push == [pc: {"idle", "read", "aimed"}, state: Status, sha: Sha \cup {None}]

NoJob == [pc |-> "idle", state |-> "todo", sha |-> None]

(* task_status_to_state() *)
StateOf(s) == IF s = "done" THEN "success" ELSE "pending"

Init ==
    /\ status = "todo" /\ live = TRUE /\ link = None /\ conn = None
    /\ hook = "idle" /\ waiting = 0 /\ run = NoJob
    /\ shown = [s \in Sha |-> None] /\ told = FALSE

----------------------------------------------------------------------------
(* queue_status_updates(), its bound being a guard of the actions that call it. *)
Connected == conn # None /\ conn.enabled /\ conn.token
Eligible == live /\ Connected /\ link # None /\ link.sha # None
Room == waiting < MaxJobs

Queue ==
    /\ waiting' = IF Eligible THEN waiting + 1 ELSE waiting
    /\ told' = TRUE

(* apply_events() for a pull request: link() upserts, a later event without a head
   keeps the sha, and the check it carried stays whatever the head is now. *)
LinkPr(state, sha) ==
    /\ hook = "idle" /\ live
    /\ link' = IF link = None THEN [state |-> state, sha |-> sha, check |-> None]
               ELSE [link EXCEPT !.state = state, !.sha = IF sha = None THEN @ ELSE sha]
    /\ hook' = IF state = "merged" THEN "transition" ELSE "queue"
    /\ told' = FALSE
    /\ UNCHANGED <<status, live, conn, waiting, run, shown>>

(* transition_to_done(); the board may have no done column. *)
Transition ==
    /\ hook = "transition" /\ hook' = "queue"
    /\ status' \in {status, "done"}
    /\ UNCHANGED <<live, link, conn, waiting, run, shown, told>>

LinkQueue ==
    /\ hook = "queue" /\ hook' = "idle" /\ Room /\ Queue
    /\ UNCHANGED <<status, live, link, conn, run, shown>>

(* A statement of the handler fails: what it wrote stays. *)
HookFails ==
    /\ hook # "idle" /\ hook' = "idle"
    /\ UNCHANGED <<status, live, link, conn, waiting, run, shown, told>>

(* set_check_state(): every link of the commit, none is created. *)
SetCheckState(sha, check) ==
    /\ link # None /\ link.sha = sha
    /\ link' = [link EXCEPT !.check = check]
    /\ UNCHANGED <<status, live, conn, hook, waiting, run, shown, told>>

----------------------------------------------------------------------------
(* move_task(), whose call of queue_status_updates() comes after the commit. *)
Move(s) ==
    /\ live /\ hook = "idle" /\ status' = s /\ told' = FALSE /\ hook' = "queue"
    /\ UNCHANGED <<live, link, conn, waiting, run, shown>>

(* bulk() moves tasks too and tells nobody; deletion and restoration likewise. *)
MoveQuietly(s) ==
    /\ live /\ status' = s /\ told' = (told /\ s = status)
    /\ UNCHANGED <<live, link, conn, hook, waiting, run, shown>>

DeleteOrRestore ==
    /\ live' = ~live /\ told' = FALSE
    /\ UNCHANGED <<status, link, conn, hook, waiting, run, shown>>

CreateIntegration(c) ==
    /\ conn = None /\ conn' = c /\ told' = FALSE
    /\ UNCHANGED <<status, live, link, hook, waiting, run, shown>>

(* The token and the switch are two statements. *)
UpdateIntegration(c) ==
    /\ conn # None /\ conn' = c /\ (c.enabled = conn.enabled \/ c.token = conn.token)
    /\ told' = FALSE
    /\ UNCHANGED <<status, live, link, hook, waiting, run, shown>>

DeleteIntegration ==
    /\ conn' = None /\ told' = FALSE
    /\ UNCHANGED <<status, live, link, hook, waiting, run, shown>>

----------------------------------------------------------------------------
(* run_push_commit_status(): the task, then its commits and connections, then curl. *)
JobRead ==
    /\ run.pc = "idle" /\ waiting > 0 /\ waiting' = waiting - 1
    /\ run' = IF live THEN [NoJob EXCEPT !.pc = "read", !.state = status] ELSE NoJob
    /\ UNCHANGED <<status, live, link, conn, hook, shown, told>>

JobAim ==
    /\ run.pc = "read"
    /\ run' = IF Connected /\ link # None /\ link.sha # None
                THEN [run EXCEPT !.pc = "aimed", !.sha = link.sha] ELSE NoJob
    /\ UNCHANGED <<status, live, link, conn, hook, waiting, shown, told>>

BodyOfMerge(job) == IF link.state = "merged" THEN "success" ELSE StateOf(job.state)

Body(job) == StateOf(job.state)

JobPost ==
    /\ run.pc = "aimed"
    /\ shown' = [shown EXCEPT ![run.sha] = Body(run)]
    /\ run' = NoJob
    /\ UNCHANGED <<status, live, link, conn, hook, waiting, told>>

(* A refusal: the job is tried again, reading anew, until it is given up. *)
JobFails ==
    /\ run.pc = "aimed" /\ run' = NoJob
    /\ \/ Room /\ waiting' = waiting + 1 /\ UNCHANGED told
       \/ waiting' = waiting /\ told' = FALSE
    /\ UNCHANGED <<status, live, link, conn, hook, shown>>

(* The worker stops: the row it claimed stays claimed. *)
Crash ==
    /\ run.pc # "idle" /\ run' = NoJob /\ told' = FALSE
    /\ UNCHANGED <<status, live, link, conn, hook, waiting, shown>>

----------------------------------------------------------------------------
Next ==
    \/ \E state \in PrState \cap Payloads, sha \in Sha \cup {None} : LinkPr(state, sha)
    \/ Transition \/ LinkQueue \/ HookFails
    \/ \E sha \in Sha, check \in CheckState \cap Payloads : SetCheckState(sha, check)
    \/ \E s \in Status : Move(s) \/ MoveQuietly(s)
    \/ DeleteOrRestore
    \/ \E c \in Connection : CreateIntegration(c) \/ UpdateIntegration(c)
    \/ DeleteIntegration
    \/ JobRead \/ JobAim \/ JobPost \/ JobFails \/ Crash

Spec == Init /\ [][Next]_vars

----------------------------------------------------------------------------
TypeOK ==
    /\ status \in Status /\ live \in BOOLEAN /\ link \in LinkRow \cup {None}
    /\ conn \in Connection \cup {None} /\ hook \in Handler
    /\ waiting \in 0 .. MaxJobs /\ run \in Push
    /\ shown \in [Sha -> {None, "pending", "success"}] /\ told \in BOOLEAN

(* "Rapid successive moves collapse into whatever is true at run time": once every job
   has run, the provider shows whether the task is done on the head of its pull
   request, whatever overlapped, failed once and came out of order; unless the last
   change told nobody, or a job was given up (integrations.rs, jobs/mod.rs). *)
StatusSettles ==
    told /\ hook = "idle" /\ waiting = 0 /\ run.pc = "idle" /\ Eligible =>
        shown[link.sha] = StateOf(status)
=============================================================================
