------------------------------ MODULE JobQueue ------------------------------
(***************************************************************************)
(* The background workers of apps/api/src/jobs/mod.rs: one per replica of  *)
(* the API, sharing the jobs table.  A worker seeds the periodic kinds     *)
(* when its process boots, then claims one due row at a time, runs it and  *)
(* records the outcome; every statement outside the claiming transaction   *)
(* is a step of its own, and between any two the process may die or the    *)
(* statement may fail.                                                     *)
(*                                                                         *)
(* What a handler does is abstracted to its result.  Time is abstracted to *)
(* whether run_at has passed.                                              *)
(***************************************************************************)
EXTENDS Naturals, FiniteSets

CONSTANTS
    Job,          \* ids a row may take: bounds the rows not finished
    Worker,       \* the replicas
    Periodic,     \* kinds that are seeded and enqueue themselves again
    OneShot,      \* kinds enqueued by requests
    Unknown,      \* kinds of another build of the program: a rolling upgrade
    MayFail,      \* kinds whose handler can return an error
    MaxAttempts,  \* jobs.max_attempts, DEFAULT 10
    Faults        \* what can go wrong: "crash", "statement"

Kind == Periodic \cup OneShot \cup Unknown

ASSUME ConstantsAssumption ==
    /\ MaxAttempts \in Nat \ {0}
    /\ Unknown \cap (Periodic \cup OneShot) = {}
    /\ Periodic # {} /\ Periodic \cap OneShot = {}
    /\ MayFail \subseteq Kind
    /\ Faults \subseteq {"crash", "statement"}

VARIABLES
    job,     \* table jobs
    worker   \* the worker of each replica

vars == <<job, worker>>

----------------------------------------------------------------------------
(* row: whether there is one.  claimed, finished: the column is not NULL.
   due: run_at <= now().  runs and succeeded are history: how often the row
   was handed to its handler, and whether one of those runs succeeded. *)
JobRow == [row: BOOLEAN, kind: Kind \cup {"none"}, due: BOOLEAN, claimed: BOOLEAN,
           finished: BOOLEAN, attempts: 0 .. MaxAttempts,
           runs: Nat, succeeded: BOOLEAN]

(* job: the row it claimed.  kinds: the periodic kinds it has yet to seed, or
   the one it has to enqueue again. *)
WorkerState == [pc: {"down", "seed", "insert", "poll", "claim", "run", "ok", "again", "err"},
                job: SUBSET Job, kinds: SUBSET Periodic]

NoRow == [row |-> FALSE, kind |-> "none", due |-> FALSE, claimed |-> FALSE,
          finished |-> FALSE, attempts |-> 0, runs |-> 0, succeeded |-> FALSE]

Down == [pc |-> "down", job |-> {}, kinds |-> {}]
Poll == [pc |-> "poll", job |-> {}, kinds |-> {}]

Pending(j) == job[j].row /\ ~job[j].finished
PendingOf(k) == {j \in Job : Pending(j) /\ job[j].kind = k}
Holds(w, j) == j \in worker[w].job

(* No statement reads a finished row, so the id of one that no worker holds
   can stand for a new row. *)
Unused(j) == ~Pending(j) /\ \A w \in Worker : ~Holds(w, j)

(* INSERT INTO jobs (id, kind, run_at) *)
Insert(j, k, due) ==
    /\ Unused(j)
    /\ job' = [job EXCEPT ![j] = [NoRow EXCEPT !.row = TRUE, !.kind = k, !.due = due]]

Init == job = [j \in Job |-> NoRow] /\ worker = [w \in Worker |-> Down]

----------------------------------------------------------------------------
(* spawn(), ensure_seed_jobs() *)
Boot(w) ==
    /\ worker[w].pc = "down"
    /\ worker' = [worker EXCEPT ![w] = [Down EXCEPT !.pc = "seed", !.kinds = Periodic]]
    /\ UNCHANGED job

Seeded(w, k) ==
    LET rest == worker[w].kinds \ {k} IN
    worker' = [worker EXCEPT ![w] = IF rest = {} THEN Poll
                                    ELSE [Down EXCEPT !.pc = "seed", !.kinds = rest]]

(* The kinds are visited in a fixed order, which no other worker observes. *)
NextToSeed(w) == CHOOSE k \in worker[w].kinds : TRUE

SeedCount(k) == PendingOf(k)

Seed(w) ==
    /\ worker[w].pc = "seed"
    /\ IF SeedCount(NextToSeed(w)) = {}
       THEN worker' = [worker EXCEPT ![w].pc = "insert"]
       ELSE Seeded(w, NextToSeed(w))
    /\ UNCHANGED job

SeedInsert(w, j) ==
    /\ worker[w].pc = "insert"
    /\ Insert(j, NextToSeed(w), TRUE)
    /\ Seeded(w, NextToSeed(w))

----------------------------------------------------------------------------
(* run_one(): SELECT ... FOR UPDATE SKIP LOCKED, then UPDATE and COMMIT. *)
RunnableUnclaimed(j) ==
    /\ Pending(j) /\ job[j].due
    /\ \A w \in Worker : worker[w].pc = "claim" => ~Holds(w, j)

Runnable(j) ==
    /\ Pending(j) /\ ~job[j].claimed /\ job[j].due
    /\ \A w \in Worker : worker[w].pc = "claim" => ~Holds(w, j)

ClaimSelect(w, j) ==
    /\ worker[w].pc = "poll"
    /\ Runnable(j)
    /\ worker' = [worker EXCEPT ![w].pc = "claim", ![w].job = {j}]
    /\ UNCHANGED job

Claimed(row) == [row EXCEPT !.claimed = TRUE, !.runs = @ + 1]

ClaimCommit(w, j) ==
    /\ worker[w].pc = "claim" /\ Holds(w, j)
    /\ job' = [job EXCEPT ![j] = Claimed(job[j])]
    /\ worker' = [worker EXCEPT ![w].pc = "run"]

(* The dispatch on kind. *)
Run(w, j) ==
    /\ worker[w].pc = "run" /\ Holds(w, j)
    /\ \/ /\ job[j].kind \notin Unknown
          /\ job' = [job EXCEPT ![j].succeeded = TRUE]
          /\ worker' = [worker EXCEPT ![w].pc = "ok"]
       \/ /\ job[j].kind \in Unknown \cup MayFail
          /\ worker' = [worker EXCEPT ![w].pc = "err"]
          /\ UNCHANGED job

(* finish_ok(): two statements, no transaction. *)
FinishedUnmarked(row) == [row EXCEPT !.claimed = FALSE]

Finished(row) == [row EXCEPT !.finished = TRUE]

FinishOkForgets(w, j) ==
    /\ worker[w].pc = "ok" /\ Holds(w, j)
    /\ job' = [job EXCEPT ![j] = Finished(job[j])]
    /\ worker' = [worker EXCEPT ![w] = Poll]

FinishOk(w, j) ==
    /\ worker[w].pc = "ok" /\ Holds(w, j)
    /\ job' = [job EXCEPT ![j] = Finished(job[j])]
    /\ worker' = [worker EXCEPT ![w] =
                     IF job[j].kind \in Periodic
                     THEN [Down EXCEPT !.pc = "again", !.kinds = {job[j].kind}] ELSE Poll]

EnqueueAgain(w, j) ==
    /\ worker[w].pc = "again"
    /\ \E k \in worker[w].kinds : Insert(j, k, FALSE)
    /\ worker' = [worker EXCEPT ![w] = Poll]

(* finish_err(): nobody else writes a claimed row, so its SELECT and its
   UPDATE are one step.  The last attempt finishes the row, an earlier one
   releases it with a later run_at. *)
FailedStillClaimed(row) ==
    LET attempts == row.attempts + 1 IN
    [row EXCEPT !.attempts = attempts, !.finished = attempts >= MaxAttempts, !.due = FALSE]

FailedUncounted(row) == [row EXCEPT !.claimed = FALSE, !.due = FALSE]

FailedLate(row) ==
    LET attempts == row.attempts + 1 IN
    [row EXCEPT !.attempts = attempts, !.finished = attempts > MaxAttempts,
                !.claimed = FALSE, !.due = @ /\ attempts >= MaxAttempts]

Failed(row) ==
    LET attempts == row.attempts + 1 IN
    [row EXCEPT !.attempts = attempts, !.finished = attempts >= MaxAttempts,
                !.claimed = FALSE, !.due = @ /\ attempts >= MaxAttempts]

FinishErr(w, j) ==
    /\ worker[w].pc = "err" /\ Holds(w, j)
    /\ job' = [job EXCEPT ![j] = Failed(job[j])]
    /\ worker' = [worker EXCEPT ![w] = Poll]

----------------------------------------------------------------------------
(* A statement that fails ends the iteration, or the seeding. *)
StatementFails(w) ==
    /\ "statement" \in Faults
    /\ worker[w].pc \in {"seed", "insert", "claim", "ok", "again", "err"}
    /\ worker' = [worker EXCEPT ![w] = Poll]
    /\ UNCHANGED job

(* The process dies or is stopped: the runtime drops the worker. *)
Crash(w) ==
    /\ "crash" \in Faults
    /\ worker[w].pc # "down"
    /\ worker' = [worker EXCEPT ![w] = Down]
    /\ UNCHANGED job

(* Bound: requests leave an id for each replica and periodic kind. *)
Room ==
    Cardinality({j \in Job : Pending(j) /\ job[j].kind \notin Periodic})
        + Cardinality(Worker) * Cardinality(Periodic) < Cardinality(Job)

(* notifications::notify, webhooks::dispatch, integrations, trigger_backup;
   or another build of the program. *)
Enqueue(j, k) ==
    /\ k \in OneShot \cup Unknown /\ Room
    /\ Insert(j, k, TRUE)
    /\ UNCHANGED worker

(* run_at passes. *)
Elapse(j) ==
    /\ Pending(j) /\ ~job[j].due
    /\ job' = [job EXCEPT ![j].due = TRUE]
    /\ UNCHANGED worker

----------------------------------------------------------------------------
(* The statements of one worker, which its loop issues one after the other. *)
Proceed(w) ==
    \/ Boot(w) \/ Seed(w)
    \/ \E j \in Job :
         \/ SeedInsert(w, j)
         \/ ClaimCommit(w, j) \/ Run(w, j)
         \/ FinishOk(w, j) \/ EnqueueAgain(w, j) \/ FinishErr(w, j)

Next ==
    \/ \E w \in Worker :
         \/ Proceed(w) \/ StatementFails(w) \/ Crash(w)
         \/ \E j \in Job : ClaimSelect(w, j)
    \/ \E j \in Job : Elapse(j) \/ \E k \in Kind : Enqueue(j, k)

Spec == Init /\ [][Next]_vars

(* The runtime polls the worker's future, a crashed process is restarted, and
   time passes.  ORDER BY run_at serves the row that waited longest, so one
   that is runnable again and again is claimed. *)
FairSpec ==
    /\ Spec
    /\ \A w \in Worker : WF_vars(Proceed(w))
    /\ \A j \in Job : WF_vars(Elapse(j)) /\ SF_vars(\E w \in Worker : ClaimSelect(w, j))

----------------------------------------------------------------------------
(* Safety *)

(* The type invariant: rows and workers have their shapes, and attempts never
   exceeds max_attempts. *)
TypeOK == job \in [Job -> JobRow] /\ worker \in [Worker -> WorkerState]

(* A row that a worker is running is its alone, still pending and marked
   claimed, so no other replica can pick it up: what SKIP LOCKED and
   claimed_at are for. *)
RunningIsClaimed ==
    \A w \in Worker : \A j \in Job :
        Holds(w, j) /\ worker[w].pc \in {"run", "ok", "err"} =>
            /\ Pending(j) /\ job[j].claimed
            /\ \A v \in Worker \ {w} : ~Holds(v, j)

(* max_attempts bounds the runs, not only the column: crashes and failed
   statements included, a handler is not called more often. *)
RunsAreBounded == \A j \in Job : job[j].runs <= MaxAttempts

(* A row is finished because a run succeeded or because every attempt it was
   entitled to was made. *)
FinishedForAReason ==
    \A j \in Job :
        job[j].row /\ job[j].finished => job[j].succeeded \/ job[j].runs = MaxAttempts

(* The three together: what the columns of a row say of its runs is true. *)
RunsAreAccountedFor == RunningIsClaimed /\ RunsAreBounded /\ FinishedForAReason

(* A row whose run succeeded is never handed out again. *)
SucceededOnce ==
    [][\A j \in Job :
         job[j].succeeded /\ job'[j].runs # job[j].runs => job'[j].runs = 0]_vars

(* The queue keeps the promise RetryQueue states, whatever fails. *)
PhaseOf(row) ==
    IF ~row.row THEN "none" ELSE IF row.finished THEN "finished"
    ELSE IF row.claimed THEN "running" ELSE "waiting"

Queue == INSTANCE RetryQueue
    WITH entry <- [j \in Job |-> [phase |-> PhaseOf(job[j]), runs |-> job[j].runs]]

ImplementsRetryQueue == Queue!Spec

----------------------------------------------------------------------------
(* What the module's documentation says of the periodic kinds and of claims *)

(* "We ensure a single scan_achievements row exists": a periodic kind never
   has two rows pending. *)
SingleTicker == \A k \in Periodic : Cardinality(PendingOf(k)) <= 1

(* The row "re-enqueues itself": while some worker has started its loop, a
   periodic kind has a pending row or a worker about to insert one. *)
TickerAlive ==
    \A k \in Periodic :
        (\E w \in Worker : worker[w].pc \notin {"down", "seed", "insert"}) =>
            \/ PendingOf(k) # {}
            \/ \E w \in Worker : worker[w].pc = "again" /\ k \in worker[w].kinds

(* "Durable background work": a claimed row is finished or goes back to the
   queue, and a row in the queue is claimed, so every row ends finished. *)
EveryJobFinishes == \A j \in Job : Pending(j) /\ job[j].kind \notin Periodic ~> ~Pending(j)

(* A periodic kind runs again and again. *)
TickerRecurs ==
    \A k \in Periodic :
        []<>(\E w \in Worker : worker[w].pc = "run" /\ \E j \in worker[w].job : job[j].kind = k)

=============================================================================
