----------------------------- MODULE MCProgress -----------------------------
(***************************************************************************)
(* What must happen eventually, for TLC: the handlers of sprints and the   *)
(* job workers.  They share no rows, so a behaviour moves one of the two,  *)
(* the part chosen at its start, under the fairness of that part.          *)
(***************************************************************************)
EXTENDS SprintLifecycle

CONSTANTS Job, Worker

VARIABLES part, job, worker

Queue == INSTANCE JobQueue
    WITH Periodic <- {"scan"}, OneShot <- {"hook"}, Unknown <- {"alien"}, MayFail <- {"hook"},
         MaxAttempts <- 2, Faults <- {}

queueVars == <<job, worker>>

ProgressInit == part \in {"sprint", "queue"} /\ Init /\ Queue!Init

ProgressNext ==
    /\ part' = part
    /\ \/ part = "sprint" /\ Next /\ UNCHANGED queueVars
       \/ part = "queue" /\ Queue!Next /\ UNCHANGED vars

(* The fairness of SprintLifecycle!FairSpec and of JobQueue!FairSpec. *)
ProgressSpec ==
    /\ ProgressInit /\ [][ProgressNext]_<<part, vars, queueVars>>
    /\ \A r \in Request : SF_vars(Step(r)) /\ WF_vars(DeadlockAbort(r))
    /\ \A w \in Worker : WF_queueVars(part = "queue" /\ Queue!Proceed(w))
    /\ \A j \in Job :
         /\ WF_queueVars(part = "queue" /\ Queue!Elapse(j))
         /\ SF_queueVars(part = "queue" /\ \E w \in Worker : Queue!ClaimSelect(w, j))

(* Every row that is not periodic ends finished, and the periodic kind runs again and
   again: with the program's own faults left out, of which JobClaimLost shows one. *)
QueueKeepsRunning == Queue!EveryJobFinishes /\ (part = "queue" => Queue!TickerRecurs)
=============================================================================
