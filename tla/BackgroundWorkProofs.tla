------------------------ MODULE BackgroundWorkProofs ------------------------
(***************************************************************************)
(* Theorems about the jobs table and the work beside the requests, as      *)
(* MCBackgroundWork puts them together: for any rows, replicas, kinds and  *)
(* bounds that WorkAssumption allows.                                      *)
(*                                                                         *)
(* Each part has an inductive invariant of its own, named in its section:  *)
(* a step of another part leaves it alone.  What makes claims exclusive    *)
(* and runs bounded is a relation between three columns of a row and the   *)
(* worker that holds it, which Inv states: a pending row was run as often  *)
(* as it was counted, once more while it is claimed, and a worker past its *)
(* claim holds a claimed row.                                              *)
(***************************************************************************)
EXTENDS MCBackgroundWork, FiniteSetTheorems, SequenceTheorems, TLAPS

(***************************************************************************)
(* The inductive invariant                                                 *)
(***************************************************************************)

(* A worker holds a row from its claim to the statement that records the
   outcome, and a kind while it seeds or enqueues one. *)
WorkerShape ==
    \A w \in Worker :
        /\ worker[w].pc \in {"claim", "run", "ok", "err"} => \E j \in Job : worker[w].job = {j}
        /\ worker[w].pc \notin {"claim", "run", "ok", "err"} => worker[w].job = {}
        /\ worker[w].pc \in {"seed", "insert"} => worker[w].kinds # {}

(* No two workers hold the same row. *)
Exclusive == \A w, v \in Worker : w # v => worker[w].job \cap worker[v].job = {}

(* What a worker that holds a row knows of it. *)
Held(w, j) ==
    /\ Pending(j)
    /\ job[j].claimed <=> worker[w].pc # "claim"
    /\ job[j].succeeded <=> worker[w].pc = "ok"

HeldRows == \A w \in Worker : \A j \in Job : Holds(w, j) => Held(w, j)

(* The runs of a row: what its columns account for. *)
Accounted(row) ==
    /\ ~row.row => row.runs = 0
    /\ row.row /\ ~row.finished /\ ~row.claimed =>
         row.runs = row.attempts /\ row.attempts < MaxAttempts /\ ~row.succeeded
    /\ row.row /\ ~row.finished /\ row.claimed =>
         row.runs = row.attempts + 1 /\ row.attempts < MaxAttempts
    /\ row.row /\ row.finished =>
         row.runs <= MaxAttempts /\ (row.succeeded \/ row.runs = MaxAttempts)

RowsAccounted == \A j \in Job : Accounted(job[j])

Inv == TypeOK /\ WorkerShape /\ Exclusive /\ HeldRows /\ RowsAccounted

(***************************************************************************)
(* Types and rows                                                          *)
(***************************************************************************)
LEMMA ConstantTypes ==
    ASSUME NEW attempts \in 0 .. MaxAttempts, attempts < MaxAttempts
    PROVE  attempts + 1 \in 0 .. MaxAttempts
  BY ConstantsAssumption DEF ConstantsAssumption

LEMMA WorkerTypes ==
    /\ Down \in WorkerState /\ Poll \in WorkerState
    /\ \A rest \in SUBSET Periodic :
         /\ [Down EXCEPT !.pc = "seed", !.kinds = rest] \in WorkerState
         /\ [Down EXCEPT !.pc = "again", !.kinds = rest] \in WorkerState
  BY DEF Down, Poll, WorkerState

(* The columns of a row, for arithmetic on them. *)
LEMMA RowFields ==
    ASSUME NEW row \in JobRow
    PROVE  /\ row.attempts \in Nat /\ row.attempts <= MaxAttempts /\ row.runs \in Nat
           /\ {row.row, row.due, row.claimed, row.finished, row.succeeded} \subseteq BOOLEAN
           /\ row = [row |-> row.row, kind |-> row.kind, due |-> row.due,
                     claimed |-> row.claimed, finished |-> row.finished,
                     attempts |-> row.attempts, runs |-> row.runs,
                     succeeded |-> row.succeeded]
  BY ConstantsAssumption DEF ConstantsAssumption, JobRow

LEMMA NewRow ==
    ASSUME NEW k \in Kind, NEW soon \in BOOLEAN
    PROVE  /\ [NoRow EXCEPT !.row = TRUE, !.kind = k, !.due = soon] \in JobRow
           /\ Accounted([NoRow EXCEPT !.row = TRUE, !.kind = k, !.due = soon])
<1> DEFINE new == [NoRow EXCEPT !.row = TRUE, !.kind = k, !.due = soon]
<1>1. /\ new.row /\ ~new.finished /\ ~new.claimed /\ ~new.succeeded
      /\ new.attempts = 0 /\ new.runs = 0
  BY DEF NoRow
<1>2. MaxAttempts \in Nat /\ 0 < MaxAttempts
  BY ConstantsAssumption DEF ConstantsAssumption
<1>3. new \in JobRow
  <2>1. 0 \in 0 .. MaxAttempts
    BY <1>2
  <2>2. NoRow \in JobRow
    BY <2>1 DEF JobRow, NoRow
  <2> QED
    BY <2>2 DEF JobRow
<1> HIDE DEF new
<1>4. Accounted(new)
  BY <1>1, <1>2 DEF Accounted
<1> QED
  BY <1>3, <1>4 DEF new

(* The writes of a row a worker holds, and what they make of it. *)
LEMMA ClaimedRow ==
    ASSUME NEW row \in JobRow, Accounted(row), row.row, ~row.finished, ~row.claimed
    PROVE  /\ Claimed(row) \in JobRow /\ Accounted(Claimed(row))
           /\ Claimed(row).row /\ ~Claimed(row).finished /\ Claimed(row).claimed
           /\ ~Claimed(row).succeeded
<1>1. row.runs = row.attempts /\ row.attempts < MaxAttempts /\ ~row.succeeded
  BY DEF Accounted
<1>2. /\ Claimed(row).row = row.row /\ Claimed(row).finished = row.finished
      /\ Claimed(row).claimed /\ Claimed(row).succeeded = row.succeeded
      /\ Claimed(row).attempts = row.attempts /\ Claimed(row).runs = row.runs + 1
  BY DEF Claimed, JobRow
<1>3. row.runs + 1 \in Nat
  BY RowFields
<1>4. Claimed(row) \in JobRow
  BY <1>3 DEF Claimed, JobRow
<1>5. Accounted(Claimed(row))
  BY <1>1, <1>2, RowFields DEF Accounted
<1> QED
  BY <1>1, <1>2, <1>4, <1>5

LEMMA SucceededRow ==
    ASSUME NEW row \in JobRow, Accounted(row), row.row, ~row.finished, row.claimed
    PROVE  /\ [row EXCEPT !.succeeded = TRUE] \in JobRow
           /\ Accounted([row EXCEPT !.succeeded = TRUE])
  BY DEF JobRow, Accounted

LEMMA FinishedRow ==
    ASSUME NEW row \in JobRow, Accounted(row), row.row, ~row.finished, row.claimed,
           row.succeeded
    PROVE  Finished(row) \in JobRow /\ Accounted(Finished(row))
<1>1. row.runs = row.attempts + 1 /\ row.attempts < MaxAttempts
  BY DEF Accounted
<1>2. row.runs <= MaxAttempts
  BY <1>1, RowFields, ConstantsAssumption DEF ConstantsAssumption
<1>3. Finished(row) \in JobRow
  BY DEF Finished, JobRow
<1>4. /\ Finished(row).row = row.row /\ Finished(row).finished
      /\ Finished(row).runs = row.runs /\ Finished(row).succeeded = row.succeeded
  BY DEF Finished, JobRow
<1>5. Accounted(Finished(row))
  BY <1>2, <1>4 DEF Accounted
<1> QED
  BY <1>3, <1>5

LEMMA FailedRow ==
    ASSUME NEW row \in JobRow, Accounted(row), row.row, ~row.finished, row.claimed,
           ~row.succeeded
    PROVE  Failed(row) \in JobRow /\ Accounted(Failed(row))
<1> DEFINE attempts == row.attempts + 1
<1>1. row.runs = attempts /\ attempts \in Nat /\ attempts <= MaxAttempts
  BY RowFields, ConstantsAssumption DEF ConstantsAssumption, Accounted
<1>2. /\ Failed(row).row = row.row /\ ~Failed(row).claimed
      /\ Failed(row).finished <=> attempts >= MaxAttempts
      /\ Failed(row).succeeded = row.succeeded
      /\ Failed(row).attempts = attempts /\ Failed(row).runs = row.runs
  BY DEF Failed, JobRow
<1>3. /\ attempts \in 0 .. MaxAttempts
      /\ attempts >= MaxAttempts <=> attempts = MaxAttempts
  BY <1>1, ConstantsAssumption DEF ConstantsAssumption
<1>4. Failed(row) \in JobRow
  <2>1. (row.due /\ attempts >= MaxAttempts) \in BOOLEAN /\ (attempts >= MaxAttempts) \in BOOLEAN
    OBVIOUS
  <2> QED
    BY <1>3, <2>1 DEF Failed, JobRow
<1> HIDE DEF attempts
<1>5. Accounted(Failed(row))
  <2>1. CASE attempts = MaxAttempts
    BY <1>1, <1>2, <1>3, <2>1 DEF Accounted
  <2>2. CASE attempts < MaxAttempts
    BY <1>1, <1>2, <1>3, <2>2 DEF Accounted
  <2> QED
    BY <1>1, <2>1, <2>2, ConstantsAssumption DEF ConstantsAssumption
<1> QED
  BY <1>4, <1>5

(***************************************************************************)
(* Every action preserves Inv                                              *)
(***************************************************************************)
LEMMA InitInv == Init => Inv
<1> SUFFICES ASSUME Init PROVE Inv
  OBVIOUS
<1>1. NoRow \in JobRow /\ Accounted(NoRow)
  <2>1. 0 \in 0 .. MaxAttempts
    BY ConstantsAssumption DEF ConstantsAssumption
  <2> QED
    BY <2>1 DEF NoRow, JobRow, Accounted
<1>2. TypeOK /\ RowsAccounted
  BY <1>1, WorkerTypes DEF Init, TypeOK, RowsAccounted
<1>3. \A w \in Worker : worker[w].pc = "down" /\ worker[w].job = {}
  BY DEF Init, Down
<1>4. WorkerShape /\ Exclusive /\ HeldRows
  BY <1>3 DEF WorkerShape, Exclusive, HeldRows, Holds
<1> QED
  BY <1>2, <1>4 DEF Inv

(* A step of a worker that leaves the table and lets its row go, or never had
   one. *)
Empty(record) ==
    /\ record \in WorkerState /\ record.job = {}
    /\ record.pc \notin {"claim", "run", "ok", "err"}
    /\ record.pc \in {"seed", "insert"} => record.kinds # {}

LEMMA ReleaseInv ==
    ASSUME Inv, NEW w \in Worker, NEW record, Empty(record),
           worker' = [worker EXCEPT ![w] = record], job' = job
    PROVE  Inv'
<1>1. /\ worker'[w] = record /\ \A v \in Worker \ {w} : worker'[v] = worker[v]
  BY DEF Inv, TypeOK
<1>2. TypeOK' /\ RowsAccounted'
  BY DEF Inv, TypeOK, RowsAccounted, Empty
<1>3. WorkerShape' /\ Exclusive'
  BY <1>1 DEF Inv, WorkerShape, Exclusive, Empty
<1>4. HeldRows'
  BY <1>1 DEF Inv, HeldRows, Holds, Held, Pending, Empty
<1> QED
  BY <1>2, <1>3, <1>4 DEF Inv

(* A write of row j that keeps it accounted for, by the worker that holds it
   or while nobody does. *)
LEMMA WriteInv ==
    ASSUME Inv, NEW j \in Job, NEW row \in JobRow, Accounted(row),
           job' = [job EXCEPT ![j] = row],
           worker' \in [Worker -> WorkerState], WorkerShape', Exclusive',
           \A w \in Worker : \A i \in worker'[w].job :
               IF i = j THEN Held(w, i)' ELSE worker'[w] = worker[w]
    PROVE  Inv'
<1>1. /\ job'[j] = row /\ \A i \in Job \ {j} : job'[i] = job[i]
  BY DEF Inv, TypeOK
<1>2. TypeOK' /\ RowsAccounted'
  BY <1>1 DEF Inv, TypeOK, RowsAccounted
<1>3. ASSUME NEW w \in Worker, NEW i \in Job, i \in worker'[w].job
      PROVE  Held(w, i)'
  <2>1. CASE i = j
    BY <1>3, <2>1
  <2>2. CASE i # j
    BY <1>1, <1>3, <2>2 DEF Inv, HeldRows, Holds, Held, Pending
  <2> QED
    BY <2>1, <2>2
<1>4. HeldRows'
  BY <1>3 DEF HeldRows, Holds
<1> QED
  BY <1>2, <1>4 DEF Inv

(* Seeded(w, k) leaves the worker to seed another kind or to poll. *)
LEMMA SeededShape ==
    ASSUME TypeOK, NEW w \in Worker, NEW k, Seeded(w, k)
    PROVE  \E record : Empty(record) /\ worker' = [worker EXCEPT ![w] = record]
<1> DEFINE rest == worker[w].kinds \ {k}
<1>1. rest \in SUBSET Periodic
  BY DEF TypeOK, WorkerState
<1>2. CASE rest = {}
  <2>1. Empty(Poll)
    BY WorkerTypes DEF Empty, Poll
  <2> QED
    BY <1>2, <2>1 DEF Seeded
<1>3. CASE rest # {}
  <2>1. Empty([Down EXCEPT !.pc = "seed", !.kinds = rest])
    BY <1>1, <1>3, WorkerTypes DEF Empty, Down
  <2> QED
    BY <1>3, <2>1 DEF Seeded
<1> QED
  BY <1>2, <1>3

(* The rows of the workers that a step of w alone leaves as they are. *)
LEMMA OneWorker ==
    ASSUME Inv, NEW w \in Worker, NEW record, Empty(record),
           worker' = [worker EXCEPT ![w] = record]
    PROVE  /\ worker' \in [Worker -> WorkerState] /\ WorkerShape' /\ Exclusive'
           /\ worker'[w].job = {}
           /\ \A v \in Worker \ {w} : worker'[v] = worker[v]
<1>1. /\ worker'[w] = record /\ \A v \in Worker \ {w} : worker'[v] = worker[v]
  BY DEF Inv, TypeOK
<1>2. worker' \in [Worker -> WorkerState]
  BY DEF Inv, TypeOK, Empty
<1>3. WorkerShape' /\ Exclusive'
  BY <1>1 DEF Inv, WorkerShape, Exclusive, Empty
<1> QED
  BY <1>1, <1>2, <1>3 DEF Empty

(* A new row is nobody's. *)
LEMMA InsertInv ==
    ASSUME Inv, NEW j \in Job, NEW k \in Kind, NEW soon \in BOOLEAN, Insert(j, k, soon),
           worker' = worker \/ \E w \in Worker : \E record :
               Empty(record) /\ worker' = [worker EXCEPT ![w] = record]
    PROVE  Inv'
<1> DEFINE new == [NoRow EXCEPT !.row = TRUE, !.kind = k, !.due = soon]
<1>1. new \in JobRow /\ Accounted(new) /\ job' = [job EXCEPT ![j] = new]
  BY NewRow DEF Insert
<1> HIDE DEF new
<1>2. \A w \in Worker : j \notin worker[w].job
  BY DEF Insert, Unused, Holds
<1>3. /\ worker' \in [Worker -> WorkerState] /\ WorkerShape' /\ Exclusive'
      /\ \A v \in Worker : worker'[v] = worker[v] \/ worker'[v].job = {}
  <2>1. CASE worker' = worker
    BY <2>1 DEF Inv, TypeOK, WorkerShape, Exclusive
  <2>2. ASSUME NEW w \in Worker, NEW record, Empty(record),
               worker' = [worker EXCEPT ![w] = record]
        PROVE  /\ worker' \in [Worker -> WorkerState] /\ WorkerShape' /\ Exclusive'
               /\ \A v \in Worker : worker'[v] = worker[v] \/ worker'[v].job = {}
    BY <2>2, OneWorker
  <2> QED
    BY <2>1, <2>2
<1>4. \A w \in Worker : \A i \in worker'[w].job :
          IF i = j THEN Held(w, i)' ELSE worker'[w] = worker[w]
  BY <1>2, <1>3
<1> QED
  BY <1>1, <1>3, <1>4, WriteInv

LEMMA SeedKind ==
    ASSUME Inv, NEW w \in Worker, worker[w].pc \in {"seed", "insert"}
    PROVE  NextToSeed(w) \in worker[w].kinds /\ NextToSeed(w) \in Kind
<1>1. worker[w].kinds # {} /\ worker[w].kinds \subseteq Periodic
  BY DEF Inv, TypeOK, WorkerShape, WorkerState
<1> QED
  BY <1>1 DEF NextToSeed, Kind

LEMMA BootInv ==
    ASSUME Inv, NEW w \in Worker, Boot(w)
    PROVE  Inv'
<1>1. Empty([Down EXCEPT !.pc = "seed", !.kinds = Periodic])
  BY WorkerTypes, ConstantsAssumption DEF ConstantsAssumption, Empty, Down
<1> QED
  BY <1>1, ReleaseInv DEF Boot

LEMMA SeedInv ==
    ASSUME Inv, NEW w \in Worker, Seed(w)
    PROVE  Inv'
<1>1. CASE SeedCount(NextToSeed(w)) = {}
  <2>1. /\ worker[w] \in WorkerState /\ worker[w].job = {} /\ worker[w].kinds # {}
    BY DEF Inv, TypeOK, WorkerShape, Seed
  <2>2. Empty([worker[w] EXCEPT !.pc = "insert"])
    BY <2>1 DEF Empty, WorkerState
  <2>3. worker' = [worker EXCEPT ![w] = [worker[w] EXCEPT !.pc = "insert"]] /\ job' = job
    BY <1>1 DEF Seed, Inv, TypeOK
  <2> QED
    BY <2>2, <2>3, ReleaseInv
<1>2. CASE SeedCount(NextToSeed(w)) # {}
  <2>1. Seeded(w, NextToSeed(w)) /\ job' = job
    BY <1>2 DEF Seed
  <2> QED
    BY <2>1, SeededShape, ReleaseInv DEF Inv
<1> QED
  BY <1>1, <1>2

LEMMA SeedInsertInv ==
    ASSUME Inv, NEW w \in Worker, NEW j \in Job, SeedInsert(w, j)
    PROVE  Inv'
<1>1. NextToSeed(w) \in Kind
  BY SeedKind DEF SeedInsert
<1>2. \E record : Empty(record) /\ worker' = [worker EXCEPT ![w] = record]
  BY SeededShape DEF SeedInsert, Inv
<1> QED
  BY <1>1, <1>2, InsertInv DEF SeedInsert

LEMMA EnqueueAgainInv ==
    ASSUME Inv, NEW w \in Worker, NEW j \in Job, EnqueueAgain(w, j)
    PROVE  Inv'
<1>1. Empty(Poll)
  BY WorkerTypes DEF Empty, Poll
<1>2. PICK k \in worker[w].kinds : Insert(j, k, FALSE)
  BY DEF EnqueueAgain
<1>3. k \in Kind
  BY <1>2 DEF Inv, TypeOK, WorkerState, Kind
<1> QED
  BY <1>1, <1>2, <1>3, InsertInv DEF EnqueueAgain

LEMMA EnqueueInv ==
    ASSUME Inv, NEW j \in Job, NEW k \in Kind, Enqueue(j, k)
    PROVE  Inv'
  BY InsertInv DEF Enqueue

(* The row lock of the claiming transaction: SKIP LOCKED passes over the rows
   of other claims, claimed_at over those that are running. *)
LEMMA ClaimSelectInv ==
    ASSUME Inv, NEW w \in Worker, NEW j \in Job, ClaimSelect(w, j)
    PROVE  Inv'
<1>1. /\ worker'[w].pc = "claim" /\ worker'[w].job = {j}
      /\ \A v \in Worker \ {w} : worker'[v] = worker[v]
      /\ worker' \in [Worker -> WorkerState] /\ job' = job
  BY DEF Inv, TypeOK, WorkerState, ClaimSelect
<1>2. /\ Pending(j) /\ ~job[j].claimed /\ ~job[j].succeeded
  BY DEF Inv, RowsAccounted, Accounted, ClaimSelect, Runnable, Pending
<1>3. \A v \in Worker : j \notin worker[v].job
  <2>1. ASSUME NEW v \in Worker, j \in worker[v].job PROVE FALSE
    <3>1. worker[v].pc = "claim"
      BY <1>2, <2>1 DEF Inv, HeldRows, Holds, Held
    <3> QED
      BY <2>1, <3>1 DEF ClaimSelect, Runnable, Holds
  <2> QED
    BY <2>1
<1>4. TypeOK' /\ RowsAccounted'
  BY <1>1 DEF Inv, TypeOK, RowsAccounted
<1>5. WorkerShape'
  BY <1>1 DEF Inv, WorkerShape
<1>6. Exclusive'
  BY <1>1, <1>3 DEF Inv, Exclusive
<1>7. HeldRows'
  BY <1>1, <1>2 DEF Inv, HeldRows, Holds, Held, Pending
<1> QED
  BY <1>4, <1>5, <1>6, <1>7 DEF Inv

(* A step of the worker that holds row j, which it goes on holding. *)
LEMMA HolderInv ==
    ASSUME Inv, NEW w \in Worker, NEW j \in Job, Holds(w, j),
           NEW row \in JobRow, Accounted(row),
           NEW pc \in {"run", "ok", "err"},
           row.row, ~row.finished, row.claimed, row.succeeded <=> pc = "ok",
           job' = [job EXCEPT ![j] = row], worker' = [worker EXCEPT ![w].pc = pc]
    PROVE  Inv'
<1>1. /\ worker'[w].pc = pc /\ worker'[w].job = worker[w].job
      /\ \A v \in Worker \ {w} : worker'[v] = worker[v]
      /\ worker' \in [Worker -> WorkerState] /\ job'[j] = row
  BY DEF Inv, TypeOK, WorkerState
<1>2. worker[w].job = {j} /\ worker[w].pc \in {"claim", "run", "ok", "err"}
  BY DEF Inv, WorkerShape, Holds
<1>3. WorkerShape' /\ Exclusive'
  BY <1>1, <1>2 DEF Inv, WorkerShape, Exclusive
<1>4. \A v \in Worker : \A i \in worker'[v].job :
          IF i = j THEN Held(v, i)' ELSE worker'[v] = worker[v]
  <2>1. Held(w, j)'
    BY <1>1 DEF Held, Pending
  <2>2. \A v \in Worker \ {w} : j \notin worker[v].job
    BY <1>2 DEF Inv, Exclusive
  <2> QED
    BY <1>1, <1>2, <2>1, <2>2
<1> QED
  BY <1>1, <1>3, <1>4, WriteInv

(* The last step of the worker that holds row j. *)
LEMMA LastStepInv ==
    ASSUME Inv, NEW w \in Worker, NEW j \in Job, Holds(w, j),
           NEW row \in JobRow, Accounted(row), NEW record, Empty(record),
           job' = [job EXCEPT ![j] = row], worker' = [worker EXCEPT ![w] = record]
    PROVE  Inv'
<1>1. /\ worker' \in [Worker -> WorkerState] /\ WorkerShape' /\ Exclusive'
      /\ worker'[w].job = {} /\ \A v \in Worker \ {w} : worker'[v] = worker[v]
  BY OneWorker
<1>2. \A v \in Worker \ {w} : j \notin worker[v].job
  BY DEF Inv, Exclusive, Holds
<1>3. \A v \in Worker : \A i \in worker'[v].job :
          IF i = j THEN Held(v, i)' ELSE worker'[v] = worker[v]
  BY <1>1, <1>2
<1> QED
  BY <1>1, <1>3, WriteInv

(* What the holder of a row knows of it. *)
LEMMA HolderKnows ==
    ASSUME Inv, NEW w \in Worker, NEW j \in Job, Holds(w, j)
    PROVE  /\ job[j] \in JobRow /\ Accounted(job[j])
           /\ job[j].row /\ ~job[j].finished
           /\ job[j].claimed <=> worker[w].pc # "claim"
           /\ job[j].succeeded <=> worker[w].pc = "ok"
  BY DEF Inv, TypeOK, RowsAccounted, HeldRows, Held, Pending

LEMMA ClaimCommitInv ==
    ASSUME Inv, NEW w \in Worker, NEW j \in Job, ClaimCommit(w, j)
    PROVE  Inv'
<1>1. Holds(w, j) /\ worker[w].pc = "claim"
  BY DEF ClaimCommit
<1>2. /\ Claimed(job[j]) \in JobRow /\ Accounted(Claimed(job[j]))
      /\ Claimed(job[j]).row /\ ~Claimed(job[j]).finished /\ Claimed(job[j]).claimed
      /\ ~Claimed(job[j]).succeeded
  BY <1>1, HolderKnows, ClaimedRow
<1> QED
  BY <1>1, <1>2, HolderInv DEF ClaimCommit

LEMMA RunInv ==
    ASSUME Inv, NEW w \in Worker, NEW j \in Job, Run(w, j)
    PROVE  Inv'
<1>1. Holds(w, j) /\ worker[w].pc = "run"
  BY DEF Run
<1>2. /\ job[j] \in JobRow /\ Accounted(job[j]) /\ job[j].row /\ ~job[j].finished
      /\ job[j].claimed /\ ~job[j].succeeded
  BY <1>1, HolderKnows
<1>3. CASE /\ job' = [job EXCEPT ![j].succeeded = TRUE]
           /\ worker' = [worker EXCEPT ![w].pc = "ok"]
  <2> DEFINE row == [job[j] EXCEPT !.succeeded = TRUE]
  <2>1. row \in JobRow /\ Accounted(row)
    BY <1>2, SucceededRow
  <2>2. row.row /\ ~row.finished /\ row.claimed /\ row.succeeded
    BY <1>2 DEF JobRow
  <2>3. job' = [job EXCEPT ![j] = row]
    BY <1>3 DEF Inv, TypeOK
  <2> HIDE DEF row
  <2> QED
    BY <1>1, <1>3, <2>1, <2>2, <2>3, HolderInv
<1>4. CASE worker' = [worker EXCEPT ![w].pc = "err"] /\ UNCHANGED job
  <2>1. job' = [job EXCEPT ![j] = job[j]]
    BY <1>4 DEF Inv, TypeOK
  <2> QED
    BY <1>1, <1>2, <1>4, <2>1, HolderInv
<1> QED
  BY <1>3, <1>4 DEF Run

LEMMA FinishOkInv ==
    ASSUME Inv, NEW w \in Worker, NEW j \in Job, FinishOk(w, j)
    PROVE  Inv'
<1>1. Holds(w, j) /\ worker[w].pc = "ok"
  BY DEF FinishOk
<1>2. Finished(job[j]) \in JobRow /\ Accounted(Finished(job[j]))
  BY <1>1, HolderKnows, FinishedRow
<1> DEFINE record == IF job[j].kind \in Periodic
                     THEN [Down EXCEPT !.pc = "again", !.kinds = {job[j].kind}] ELSE Poll
<1>3. Empty(record)
  <2>1. CASE job[j].kind \in Periodic
    BY <2>1, WorkerTypes DEF Empty, Down
  <2>2. CASE job[j].kind \notin Periodic
    BY <2>2, WorkerTypes DEF Empty, Poll
  <2> QED
    BY <2>1, <2>2
<1>4. /\ job' = [job EXCEPT ![j] = Finished(job[j])]
      /\ worker' = [worker EXCEPT ![w] = record]
  BY DEF FinishOk
<1> HIDE DEF record
<1> QED
  BY <1>1, <1>2, <1>3, <1>4, LastStepInv

LEMMA FinishErrInv ==
    ASSUME Inv, NEW w \in Worker, NEW j \in Job, FinishErr(w, j)
    PROVE  Inv'
<1>1. Holds(w, j) /\ worker[w].pc = "err"
  BY DEF FinishErr
<1>2. Failed(job[j]) \in JobRow /\ Accounted(Failed(job[j]))
  BY <1>1, HolderKnows, FailedRow
<1>3. Empty(Poll)
  BY WorkerTypes DEF Empty, Poll
<1> QED
  BY <1>1, <1>2, <1>3, LastStepInv DEF FinishErr

LEMMA FaultInv ==
    ASSUME Inv, NEW w \in Worker, StatementFails(w) \/ Crash(w)
    PROVE  Inv'
<1>1. Empty(Poll) /\ Empty(Down)
  BY WorkerTypes DEF Empty, Poll, Down
<1> QED
  BY <1>1, ReleaseInv DEF StatementFails, Crash

LEMMA ElapseInv ==
    ASSUME Inv, NEW j \in Job, Elapse(j)
    PROVE  Inv'
<1> DEFINE row == [job[j] EXCEPT !.due = TRUE]
<1>1. job[j] \in JobRow /\ Accounted(job[j])
  BY DEF Inv, TypeOK, RowsAccounted
<1>2. /\ row.row = job[j].row /\ row.finished = job[j].finished
      /\ row.claimed = job[j].claimed /\ row.succeeded = job[j].succeeded
      /\ row.attempts = job[j].attempts /\ row.runs = job[j].runs
  BY <1>1 DEF JobRow
<1>3. row \in JobRow /\ Accounted(row)
  BY <1>1, <1>2 DEF JobRow, Accounted
<1>4. job' = [job EXCEPT ![j] = row] /\ worker' = worker
  BY DEF Elapse, Inv, TypeOK
<1>5. worker' \in [Worker -> WorkerState] /\ WorkerShape' /\ Exclusive'
  BY <1>4 DEF Inv, TypeOK, WorkerShape, Exclusive
<1> HIDE DEF row
<1>6. \A w \in Worker : \A i \in worker'[w].job :
          IF i = j THEN Held(w, i)' ELSE worker'[w] = worker[w]
  <2>1. job'[j] = row
    BY <1>4 DEF Inv, TypeOK
  <2>2. ASSUME NEW w \in Worker, j \in worker[w].job PROVE Held(w, j)'
    BY <1>2, <1>4, <2>1, <2>2 DEF Inv, HeldRows, Held, Holds, Pending
  <2> QED
    BY <1>4, <2>2
<1> QED
  BY <1>3, <1>4, <1>5, <1>6, WriteInv

LEMMA NextInv == Inv /\ [Next]_vars => Inv'
<1> SUFFICES ASSUME Inv, [Next]_vars PROVE Inv'
  OBVIOUS
<1>1. ASSUME NEW w \in Worker, Proceed(w) PROVE Inv'
  BY <1>1, BootInv, SeedInv, SeedInsertInv, ClaimCommitInv, RunInv, FinishOkInv,
     EnqueueAgainInv, FinishErrInv DEF Proceed
<1>2. ASSUME NEW w \in Worker, StatementFails(w) \/ Crash(w) PROVE Inv'
  BY <1>2, FaultInv
<1>3. ASSUME NEW w \in Worker, NEW j \in Job, ClaimSelect(w, j) PROVE Inv'
  BY <1>3, ClaimSelectInv
<1>4. ASSUME NEW j \in Job, Elapse(j) \/ \E k \in Kind : Enqueue(j, k) PROVE Inv'
  BY <1>4, ElapseInv, EnqueueInv
<1>5. CASE UNCHANGED vars
  BY <1>5 DEF vars, Inv, TypeOK, WorkerShape, Exclusive, HeldRows, Holds, Held, Pending,
              RowsAccounted
<1> QED
  BY <1>1, <1>2, <1>3, <1>4, <1>5 DEF Next

(* The invariant the theorems below are read off. *)
THEOREM Invariance == Spec => []Inv
  BY InitInv, NextInv, PTL DEF Spec

(***************************************************************************)
(* The theorems                                                            *)
(***************************************************************************)

(* Rows and workers keep their shapes, and attempts never exceeds
   max_attempts. *)
THEOREM TypeCorrect == Spec => []TypeOK
<1>1. Inv => TypeOK
  BY DEF Inv
<1> QED
  BY <1>1, Invariance, PTL

(* A row that a worker runs is its alone, pending and marked claimed, however
   many replicas poll and whatever fails. *)
THEOREM ClaimsExclude == Spec => []RunningIsClaimed
<1>1. Inv => RunningIsClaimed
  <2> SUFFICES ASSUME Inv, NEW w \in Worker, NEW j \in Job, Holds(w, j),
                      worker[w].pc \in {"run", "ok", "err"}
               PROVE  /\ Pending(j) /\ job[j].claimed
                      /\ \A v \in Worker \ {w} : ~Holds(v, j)
    BY DEF RunningIsClaimed
  <2>1. Pending(j) /\ job[j].claimed
    BY HolderKnows DEF Pending
  <2>2. \A v \in Worker \ {w} : ~Holds(v, j)
    BY DEF Inv, Exclusive, Holds
  <2> QED
    BY <2>1, <2>2
<1> QED
  BY <1>1, Invariance, PTL

(* A handler is called for a row at most max_attempts times, crashes and lost
   outcomes included. *)
THEOREM RunsBounded == Spec => []RunsAreBounded
<1>1. Inv => RunsAreBounded
  <2> SUFFICES ASSUME Inv, NEW j \in Job PROVE job[j].runs <= MaxAttempts
    BY DEF RunsAreBounded
  <2>1. job[j] \in JobRow /\ Accounted(job[j])
    BY DEF Inv, TypeOK, RowsAccounted
  <2> QED
    BY <2>1, RowFields, ConstantsAssumption DEF ConstantsAssumption, Accounted
<1> QED
  BY <1>1, Invariance, PTL

(* A finished row succeeded or used up its attempts. *)
THEOREM FinishedRows == Spec => []FinishedForAReason
<1>1. Inv => FinishedForAReason
  BY DEF Inv, RowsAccounted, Accounted, FinishedForAReason
<1> QED
  BY <1>1, Invariance, PTL

(* What the columns of a row say of its runs is true: claims exclude, attempts
   bound the runs, and a finished row has a reason (run_one, finish_ok and
   finish_err). *)
THEOREM AccountedFor == Spec => []RunsAreAccountedFor
<1>1. RunningIsClaimed /\ RunsAreBounded /\ FinishedForAReason => RunsAreAccountedFor
  BY DEF RunsAreAccountedFor
<1> QED
  BY <1>1, ClaimsExclude, RunsBounded, FinishedRows, PTL

(***************************************************************************)
(* JobQueue implements RetryQueue                                          *)
(***************************************************************************)

(* The entry a row stands for. *)
Entry(row) == [phase |-> PhaseOf(row), runs |-> row.runs]
Entries == [j \in Job |-> Entry(job[j])]

(* A step either leaves the entries alone or writes one row. *)
LEMMA OneEntry ==
    ASSUME Inv, NEW j \in Job, NEW row, job' = [job EXCEPT ![j] = row]
    PROVE  Entries' = [Entries EXCEPT ![j] = Entry(row)]
<1>1. \A i \in Job : job'[i] = IF i = j THEN row ELSE job[i]
  BY DEF Inv, TypeOK
<1> HIDE DEF Entry
<1>2. Entries' = [i \in Job |-> Entry(job'[i])]
  BY DEF Entries, Entry, PhaseOf
<1>3. \A i \in Job : Entry(job'[i]) = IF i = j THEN Entry(row) ELSE Entry(job[i])
  BY <1>1
<1> QED
  BY <1>2, <1>3 DEF Entries

(* Each action of RetryQueue, in terms of the row. *)
LEMMA SubmitStep ==
    ASSUME Inv, NEW j \in Job, NEW k \in Kind, NEW soon \in BOOLEAN, Insert(j, k, soon)
    PROVE  Queue!Next
<1> DEFINE new == [NoRow EXCEPT !.row = TRUE, !.kind = k, !.due = soon]
<1>1. job' = [job EXCEPT ![j] = new]
  BY DEF Insert
<1>2. Entry(new) = [phase |-> "waiting", runs |-> 0]
  BY DEF Entry, PhaseOf, NoRow
<1>3. Entries' = [Entries EXCEPT ![j] = [phase |-> "waiting", runs |-> 0]]
  BY <1>1, <1>2, OneEntry
<1>4. Entries[j].phase \in {"none", "finished"}
  BY DEF Insert, Unused, Pending, Entries, Entry, PhaseOf
<1> QED
  BY <1>3, <1>4 DEF Queue!Next, Queue!Submit, Entries, Entry

LEMMA TakeStep ==
    ASSUME Inv, NEW w \in Worker, NEW j \in Job, ClaimCommit(w, j)
    PROVE  Queue!Next
<1>1. /\ job[j] \in JobRow /\ Accounted(job[j])
      /\ job[j].row /\ ~job[j].finished /\ ~job[j].claimed
  BY HolderKnows DEF ClaimCommit
<1>2. job[j].runs < MaxAttempts
  BY <1>1 DEF Accounted
<1>3. /\ Claimed(job[j]).row /\ ~Claimed(job[j]).finished /\ Claimed(job[j]).claimed
      /\ Claimed(job[j]).runs = job[j].runs + 1
  BY <1>1 DEF Claimed, JobRow
<1>4. Entry(Claimed(job[j])) = [phase |-> "running", runs |-> job[j].runs + 1]
  BY <1>3 DEF Entry, PhaseOf
<1>5. Entries[j].phase = "waiting" /\ Entries[j].runs = job[j].runs
  BY <1>1 DEF Entries, Entry, PhaseOf
<1>6. Entries' = [Entries EXCEPT ![j] = Entry(Claimed(job[j]))]
  BY OneEntry DEF ClaimCommit
<1>7. Entries' = [Entries EXCEPT ![j] = [phase |-> "running", runs |-> Entries[j].runs + 1]]
  BY <1>4, <1>5, <1>6
<1> QED
  BY <1>2, <1>5, <1>7 DEF Queue!Next, Queue!Take, Entries, Entry

(* The row of a worker that has its outcome is running, below its bound until
   this run. *)
LEMMA RunningEntry ==
    ASSUME Inv, NEW w \in Worker, NEW j \in Job, Holds(w, j),
           worker[w].pc \in {"run", "ok", "err"}
    PROVE  Entries[j].phase = "running" /\ Entries[j].runs = job[j].runs
  BY HolderKnows DEF Entries, Entry, PhaseOf

LEMMA OkStep ==
    ASSUME Inv, NEW w \in Worker, NEW j \in Job, FinishOk(w, j)
    PROVE  Queue!Next
<1>1. Holds(w, j) /\ worker[w].pc = "ok" /\ job' = [job EXCEPT ![j] = Finished(job[j])]
  BY DEF FinishOk
<1>2. /\ Finished(job[j]).row /\ Finished(job[j]).finished
      /\ Finished(job[j]).runs = job[j].runs
  BY <1>1, HolderKnows DEF Finished, JobRow
<1>3. Entry(Finished(job[j])) = [phase |-> "finished", runs |-> job[j].runs]
  BY <1>2 DEF Entry, PhaseOf
<1>4. Entries[j].phase = "running" /\ Entries[j] = [phase |-> "running", runs |-> job[j].runs]
  BY <1>1, RunningEntry DEF Entries, Entry
<1>5. Entries' = [Entries EXCEPT ![j] = Entry(Finished(job[j]))]
  BY <1>1, OneEntry
<1>6. Entries' = [Entries EXCEPT ![j].phase = "finished"]
  <2>1. [Entries[j] EXCEPT !.phase = "finished"] = Entry(Finished(job[j]))
    BY <1>3, <1>4
  <2> QED
    BY <2>1, <1>5 DEF Entries
<1> QED
  BY <1>4, <1>6 DEF Queue!Next, Queue!Finish, Entries, Entry

LEMMA ErrStep ==
    ASSUME Inv, NEW w \in Worker, NEW j \in Job, FinishErr(w, j)
    PROVE  Queue!Next
<1> DEFINE row == Failed(job[j])
<1>1. Holds(w, j) /\ worker[w].pc = "err" /\ job' = [job EXCEPT ![j] = row]
  BY DEF FinishErr
<1>2. /\ job[j] \in JobRow /\ Accounted(job[j]) /\ job[j].row /\ ~job[j].finished
      /\ job[j].claimed
  BY <1>1, HolderKnows
<1>3. job[j].runs = job[j].attempts + 1
  BY <1>2 DEF Accounted
<1>4. /\ row.row /\ ~row.claimed /\ row.runs = job[j].runs
      /\ row.finished <=> job[j].runs >= MaxAttempts
  BY <1>2, <1>3 DEF Failed, JobRow
<1> HIDE DEF row
<1>5. Entries[j].phase = "running" /\ Entries[j] = [phase |-> "running", runs |-> job[j].runs]
  BY <1>1, RunningEntry DEF Entries, Entry
<1>6. Entries' = [Entries EXCEPT ![j] = Entry(row)]
  BY <1>1, OneEntry
<1>7. CASE row.finished
  <2>1. Entry(row) = [phase |-> "finished", runs |-> job[j].runs]
    BY <1>4, <1>7 DEF Entry, PhaseOf
  <2>2. Entries' = [Entries EXCEPT ![j].phase = "finished"]
    <3>1. [Entries[j] EXCEPT !.phase = "finished"] = Entry(row)
      BY <1>5, <2>1
    <3> QED
      BY <3>1, <1>6 DEF Entries
  <2> QED
    BY <1>5, <2>2 DEF Queue!Next, Queue!Finish, Entries, Entry
<1>8. CASE ~row.finished
  <2>1. Entry(row) = [phase |-> "waiting", runs |-> job[j].runs]
    BY <1>4, <1>8 DEF Entry, PhaseOf
  <2>2. Entries' = [Entries EXCEPT ![j].phase = "waiting"]
    <3>1. [Entries[j] EXCEPT !.phase = "waiting"] = Entry(row)
      BY <1>5, <2>1
    <3> QED
      BY <3>1, <1>6 DEF Entries
  <2>3. Entries[j].runs < MaxAttempts
    BY <1>2, <1>4, <1>5, <1>8, RowFields, ConstantsAssumption DEF ConstantsAssumption
  <2> QED
    BY <1>5, <2>2, <2>3 DEF Queue!Next, Queue!Return, Entries, Entry
<1> QED
  BY <1>7, <1>8

(* The other steps do not show. *)
LEMMA Stutter ==
    ASSUME Inv,
           \/ job' = job
           \/ \E w \in Worker, j \in Job : Run(w, j)
           \/ \E j \in Job : Elapse(j)
    PROVE  Entries' = Entries
<1>1. CASE job' = job
  BY <1>1 DEF Entries, Entry, PhaseOf
<1>2. ASSUME NEW j \in Job, NEW row, job' = [job EXCEPT ![j] = row],
             Entry(row) = Entry(job[j])
      PROVE  Entries' = Entries
  BY <1>2, OneEntry DEF Entries
<1>3. ASSUME NEW w \in Worker, NEW j \in Job, Run(w, j), job' # job
      PROVE  Entries' = Entries
  <2>1. job' = [job EXCEPT ![j] = [job[j] EXCEPT !.succeeded = TRUE]] /\ job[j] \in JobRow
    BY <1>3 DEF Run, Inv, TypeOK
  <2>2. Entry([job[j] EXCEPT !.succeeded = TRUE]) = Entry(job[j])
    BY <2>1 DEF Entry, PhaseOf, JobRow
  <2> QED
    BY <1>2, <2>1, <2>2
<1>4. ASSUME NEW j \in Job, Elapse(j)
      PROVE  Entries' = Entries
  <2>1. job' = [job EXCEPT ![j] = [job[j] EXCEPT !.due = TRUE]] /\ job[j] \in JobRow
    BY <1>4 DEF Elapse, Inv, TypeOK
  <2>2. Entry([job[j] EXCEPT !.due = TRUE]) = Entry(job[j])
    BY <2>1 DEF Entry, PhaseOf, JobRow
  <2> QED
    BY <1>2, <2>1, <2>2
<1> QED
  BY <1>1, <1>3, <1>4

(* The jobs table keeps the promise of RetryQueue to those who enqueue:
   whatever crashes or fails, an entry is taken by one worker at a time, at
   most max_attempts times, and never again once finished. *)
THEOREM Refinement == Spec => ImplementsRetryQueue
<1>1. Init => Queue!Init
  BY DEF Init, Queue!Init, NoRow, PhaseOf
<1>2. Inv /\ [Next]_vars => [Queue!Next]_Entries
  <2> SUFFICES ASSUME Inv, [Next]_vars PROVE Queue!Next \/ Entries' = Entries
    OBVIOUS
  <2>1. ASSUME NEW w \in Worker, Proceed(w) PROVE Queue!Next \/ Entries' = Entries
    <3>1. CASE Boot(w) \/ Seed(w)
      BY <3>1, Stutter DEF Boot, Seed
    <3>2. ASSUME NEW j \in Job, SeedInsert(w, j) PROVE Queue!Next
      BY <3>2, SeedKind, SubmitStep DEF SeedInsert
    <3>3. ASSUME NEW j \in Job, EnqueueAgain(w, j) PROVE Queue!Next
      <4>1. PICK k \in worker[w].kinds : Insert(j, k, FALSE)
        BY <3>3 DEF EnqueueAgain
      <4>2. k \in Kind
        BY <4>1 DEF Inv, TypeOK, WorkerState, Kind
      <4> QED
        BY <4>1, <4>2, SubmitStep
    <3> QED
      BY <2>1, <3>1, <3>2, <3>3, TakeStep, Stutter, OkStep, ErrStep DEF Proceed
  <2>2. ASSUME NEW w \in Worker, StatementFails(w) \/ Crash(w) \/ \E j \in Job : ClaimSelect(w, j)
        PROVE  Entries' = Entries
    BY <2>2, Stutter DEF StatementFails, Crash, ClaimSelect
  <2>3. ASSUME NEW j \in Job, Elapse(j) \/ \E k \in Kind : Enqueue(j, k)
        PROVE  Queue!Next \/ Entries' = Entries
    BY <2>3, Stutter, SubmitStep DEF Enqueue
  <2>4. CASE UNCHANGED vars
    BY <2>4, Stutter DEF vars
  <2> QED
    BY <2>1, <2>2, <2>3, <2>4 DEF Next
<1> QED
  BY <1>1, <1>2, Invariance, PTL DEF Spec, ImplementsRetryQueue, Queue!Spec, Entries, Entry

(* A row whose run succeeded is never handed out again, even when the
   statements that record the success are lost. *)
THEOREM SucceededRunsOnce == Spec => SucceededOnce
<1> DEFINE Once == \A j \in Job :
                       job[j].succeeded /\ job'[j].runs # job[j].runs => job'[j].runs = 0
<1>1. Inv /\ [Next]_vars => Once
  <2> SUFFICES ASSUME Inv, [Next]_vars, NEW i \in Job, job[i].succeeded,
                      job'[i].runs # job[i].runs
               PROVE  job'[i].runs = 0
    OBVIOUS
  <2>1. Inv'
    BY NextInv
  <2>2. job[i] \in JobRow /\ job \in [Job -> JobRow]
    BY DEF Inv, TypeOK
  <2>3. ASSUME NEW j \in Job, NEW k, NEW soon, Insert(j, k, soon)
        PROVE  job'[i].runs = 0
    BY <2>2, <2>3 DEF Insert, NoRow
  <2>4. ASSUME NEW w \in Worker, NEW j \in Job, ClaimCommit(w, j)
        PROVE  FALSE
    <3>1. ~job[j].succeeded
      BY <2>4, HolderKnows DEF ClaimCommit
    <3> QED
      BY <2>2, <2>4, <3>1 DEF ClaimCommit
  <2>5. ASSUME NEW w \in Worker, NEW j \in Job, FinishOk(w, j) \/ FinishErr(w, j) \/ Run(w, j)
        PROVE  FALSE
    <3>1. \A row \in JobRow : /\ Finished(row).runs = row.runs /\ Failed(row).runs = row.runs
                              /\ [row EXCEPT !.succeeded = TRUE].runs = row.runs
      BY DEF Finished, Failed, JobRow
    <3>2. \/ job' = job \/ job' = [job EXCEPT ![j] = Finished(job[j])]
          \/ job' = [job EXCEPT ![j] = Failed(job[j])]
          \/ job' = [job EXCEPT ![j] = [job[j] EXCEPT !.succeeded = TRUE]]
      BY <2>2, <2>5 DEF FinishOk, FinishErr, Run
    <3>3. job'[i] = job[i] \/ job'[i].runs = job[i].runs
      <4>1. /\ Finished(job[j]).runs = job[j].runs /\ Failed(job[j]).runs = job[j].runs
            /\ [job[j] EXCEPT !.succeeded = TRUE].runs = job[j].runs
        BY <2>2, <3>1
      <4>2. \A x : job' = [job EXCEPT ![j] = x] => job'[i] = IF i = j THEN x ELSE job[i]
        BY <2>2
      <4> QED
        BY <3>2, <4>1, <4>2
    <3> QED
      BY <3>3
  <2>6. ASSUME NEW j \in Job, Elapse(j) PROVE FALSE
    BY <2>2, <2>6 DEF Elapse, JobRow
  <2>7. job' # job
    OBVIOUS
  <2> QED
    BY <2>3, <2>4, <2>5, <2>6, <2>7
       DEF Next, Proceed, vars, Boot, Seed, SeedInsert, EnqueueAgain, StatementFails, Crash,
           ClaimSelect, Enqueue
<1>2. Inv /\ [Next]_vars => [Once]_vars
  BY <1>1
<1> QED
  BY <1>2, Invariance, PTL DEF Spec, SucceededOnce

(* The queue runs in the whole as it does alone, so that its theorems hold there. *)
LEMMA TheWholeRunsTheQueue == WorkSpec => Spec
<1>1. WorkInit => Init
  BY DEF WorkInit
<1>2. [WorkNext]_workVars => [Next]_vars
  BY DEF WorkNext, workVars
<1> QED
  BY <1>1, <1>2, PTL DEF WorkSpec, Spec

-----------------------------------------------------------------------------
(***************************************************************************)
(* The schedule: one replica, and periodic kinds whose handler never fails *)
(***************************************************************************)

Ticking == replica["replica"]

TicketRow == [row: BOOLEAN, kind: Kind \cup {"none"}, due: BOOLEAN, claimed: BOOLEAN,
              finished: BOOLEAN, attempts: Nat, runs: Nat, succeeded: BOOLEAN]

TickerShape ==
    /\ replica = [v \in {"replica"} |-> Ticking] /\ Ticking \in Schedule!WorkerState
    /\ ticket \in [Ticker -> TicketRow]

(* What the worker holds is pending, and a row whose run failed is of no
   periodic kind: only those can be finished without another being enqueued. *)
TickerHolds ==
    \A i \in Ticker : i \in Ticking.job =>
        /\ Schedule!Pending(i)
        /\ Ticking.pc = "err" => ticket[i].kind \notin Periodic

(* What the worker has yet to enqueue is not there, the rest of the kinds it
   seeded is, and no kind is twice. *)
TickerWorks ==
    /\ Ticking.pc = "insert" => Schedule!PendingOf(Schedule!NextToSeed("replica")) = {}
    /\ Ticking.pc = "again" => \E k \in Periodic : Ticking.kinds = {k} /\ Schedule!PendingOf(k) = {}
    /\ Ticking.pc \notin {"seed", "insert", "again"} => Ticking.kinds = {}
    /\ Ticking.pc \in {"seed", "insert"} => Ticking.kinds # {}
    /\ Ticking.pc \notin {"claim", "run", "ok", "err"} => Ticking.job = {}
    /\ Ticking.pc \in {"claim", "run", "ok", "err"} => \E i \in Ticker : Ticking.job = {i}

TickerRows ==
    \A k \in Periodic :
        /\ \A i, j \in Schedule!PendingOf(k) : i = j
        /\ Ticking.pc # "down" /\ k \notin Ticking.kinds => Schedule!PendingOf(k) # {}

TickerInv == TickerShape /\ TickerHolds /\ TickerWorks /\ TickerRows

(* A step of the worker alone, or of a row: what it does to each kind. *)
LEMMA WorkerMoves ==
    ASSUME TickerInv, NEW record,
           replica' = [replica EXCEPT !["replica"] = record], record \in Schedule!WorkerState
    PROVE  Ticking' = record /\ replica' = [v \in {"replica"} |-> Ticking']
  BY DEF TickerInv, TickerShape, Ticking

LEMMA TickerFields ==
    ASSUME TickerInv
    PROVE  /\ Ticking.pc \in {"down", "seed", "insert", "poll", "claim", "run", "ok", "again", "err"}
           /\ Ticking.job \in SUBSET Ticker /\ Ticking.kinds \in SUBSET Periodic
           /\ Ticking = [pc |-> Ticking.pc, job |-> Ticking.job, kinds |-> Ticking.kinds]
           /\ \A w \in {"replica"} : replica[w] = Ticking
           /\ \A i \in Ticker : ticket[i] \in TicketRow
  BY DEF TickerInv, TickerShape, Schedule!WorkerState, Ticking

LEMMA States ==
    /\ Schedule!Down \in Schedule!WorkerState /\ Schedule!Poll \in Schedule!WorkerState
    /\ Schedule!Down.pc = "down" /\ Schedule!Down.job = {} /\ Schedule!Down.kinds = {}
    /\ Schedule!Poll.pc = "poll" /\ Schedule!Poll.job = {} /\ Schedule!Poll.kinds = {}
    /\ \A pc \in {"seed", "again"}, ks \in SUBSET Periodic :
         /\ [Schedule!Down EXCEPT !.pc = pc, !.kinds = ks] \in Schedule!WorkerState
         /\ [Schedule!Down EXCEPT !.pc = pc, !.kinds = ks].pc = pc
         /\ [Schedule!Down EXCEPT !.pc = pc, !.kinds = ks].kinds = ks
         /\ [Schedule!Down EXCEPT !.pc = pc, !.kinds = ks].job = {}
  BY DEF Schedule!Down, Schedule!Poll, Schedule!WorkerState

LEMMA TickerInit == Schedule!Init => TickerInv
<1> SUFFICES ASSUME Schedule!Init PROVE TickerInv
  OBVIOUS
<1>1. Schedule!NoRow \in TicketRow /\ ~Schedule!NoRow.row
  BY DEF Schedule!NoRow, TicketRow
<1>2. Ticking = Schedule!Down /\ replica = [v \in {"replica"} |-> Ticking]
  BY DEF Schedule!Init, Ticking
<1>3. TickerShape
  BY <1>1, <1>2, States DEF TickerShape, Schedule!Init
<1>4. \A i \in Ticker : ~Schedule!Pending(i)
  BY <1>1 DEF Schedule!Pending, Schedule!Init
<1> QED
  BY <1>2, <1>3, <1>4, States
     DEF TickerInv, TickerHolds, TickerWorks, TickerRows, Schedule!PendingOf

(* The worker moves and the rows stay. *)
LEMMA IdleRowsInv ==
    ASSUME TickerInv, UNCHANGED ticket, NEW record \in Schedule!WorkerState,
           replica' = [replica EXCEPT !["replica"] = record],
           record.pc # "down" => \A k \in Periodic \ record.kinds : Schedule!PendingOf(k) # {},
           TickerHolds', TickerWorks'
    PROVE  TickerInv'
<1>1. Ticking' = record /\ replica' = [v \in {"replica"} |-> Ticking']
  BY WorkerMoves
<1>2. TickerShape'
  BY <1>1 DEF TickerInv, TickerShape
<1>3. \A k : Schedule!PendingOf(k)' = Schedule!PendingOf(k)
  BY DEF Schedule!PendingOf, Schedule!Pending
<1>4. TickerRows'
  BY <1>1, <1>3, TickerFields DEF TickerInv, TickerRows
<1> QED
  BY <1>2, <1>4 DEF TickerInv

LEMMA TickerBoot == TickerInv /\ Schedule!Boot("replica") => TickerInv'
<1> SUFFICES ASSUME TickerInv, Schedule!Boot("replica") PROVE TickerInv'
  OBVIOUS
<1> DEFINE record == [Schedule!Down EXCEPT !.pc = "seed", !.kinds = Periodic]
<1>1. record \in Schedule!WorkerState /\ record.pc = "seed" /\ record.kinds = Periodic /\ record.job = {}
  BY States
<1>2. replica' = [replica EXCEPT !["replica"] = record] /\ UNCHANGED ticket
  BY DEF Schedule!Boot
<1> HIDE DEF record
<1>3. Ticking' = record
  BY <1>1, <1>2, WorkerMoves
<1>4. TickerHolds' /\ TickerWorks'
  BY <1>1, <1>3, ConstantsAssumption DEF TickerHolds, TickerWorks, ConstantsAssumption
<1> QED
  BY <1>1, <1>2, <1>4, IdleRowsInv

(* What it finds is there: the kind needs no row. *)
LEMMA TickerSeed == TickerInv /\ Schedule!Seed("replica") => TickerInv'
<1> SUFFICES ASSUME TickerInv, Schedule!Seed("replica") PROVE TickerInv'
  OBVIOUS
<1>a. PICK k : k = Schedule!NextToSeed("replica")
  OBVIOUS
<1>1. /\ Ticking.pc = "seed" /\ Ticking.kinds # {} /\ Ticking.job = {}
      /\ Ticking.kinds \in SUBSET Periodic /\ UNCHANGED ticket
  BY TickerFields DEF Schedule!Seed, TickerInv, TickerWorks, Ticking
<1>2. k \in Ticking.kinds
  BY <1>1, <1>a DEF Schedule!NextToSeed, Ticking
<1>3. CASE Schedule!PendingOf(k) = {}
  <2> DEFINE record == [Ticking EXCEPT !.pc = "insert"]
  <2>1. replica' = [replica EXCEPT !["replica"] = record]
    BY <1>3, <1>a DEF Schedule!Seed, Schedule!SeedCount, Ticking, TickerInv, TickerShape
  <2>2. /\ record \in Schedule!WorkerState /\ record.pc = "insert" /\ record.job = {}
        /\ record.kinds = Ticking.kinds
    BY <1>1, TickerFields DEF Schedule!WorkerState
  <2> HIDE DEF record
  <2>3. Ticking' = record
    BY <2>1, <2>2, WorkerMoves
  <2>4. Schedule!NextToSeed("replica")' = k
    BY <1>a, <2>2, <2>3 DEF Schedule!NextToSeed, Ticking
  <2>5. Schedule!PendingOf(Schedule!NextToSeed("replica"))' = {}
    BY <1>1, <1>3, <2>4 DEF Schedule!PendingOf, Schedule!Pending
  <2>6. TickerHolds' /\ TickerWorks'
    BY <1>1, <2>2, <2>3, <2>5 DEF TickerHolds, TickerWorks
  <2> QED
    BY <1>1, <2>1, <2>2, <2>6, IdleRowsInv DEF TickerInv, TickerRows
<1>4. CASE Schedule!PendingOf(k) # {}
  <2> DEFINE rest == Ticking.kinds \ {k}
             record == IF rest = {} THEN Schedule!Poll
                       ELSE [Schedule!Down EXCEPT !.pc = "seed", !.kinds = rest]
  <2>1. replica' = [replica EXCEPT !["replica"] = record]
    BY <1>4, <1>a DEF Schedule!Seed, Schedule!SeedCount, Schedule!Seeded, Ticking
  <2>2. /\ record \in Schedule!WorkerState /\ record.pc \in {"poll", "seed"} /\ record.job = {}
        /\ record.kinds = rest /\ (record.pc = "poll" <=> rest = {})
    BY <1>1, States
  <2> HIDE DEF record
  <2>3. Ticking' = record
    BY <2>1, <2>2, WorkerMoves
  <2>4. TickerHolds' /\ TickerWorks'
    BY <1>1, <2>2, <2>3 DEF TickerHolds, TickerWorks
  <2>5. \A c \in Periodic \ rest : Schedule!PendingOf(c) # {}
    BY <1>1, <1>4 DEF TickerInv, TickerRows
  <2> QED
    BY <1>1, <2>1, <2>2, <2>4, <2>5, IdleRowsInv
<1> QED
  BY <1>3, <1>4

(* A kind that has no row gets one. *)
LEMMA NewTicketInv ==
    ASSUME TickerInv, NEW i \in Ticker, NEW k \in Kind, NEW soon \in BOOLEAN,
           Schedule!Insert(i, k, soon)
    PROVE  /\ ticket' \in [Ticker -> TicketRow]
           /\ \A j \in Ticker : j # i => ticket'[j] = ticket[j]
           /\ ~Schedule!Pending(i) /\ i \notin Ticking.job
           /\ ticket'[i].row /\ ~ticket'[i].finished /\ ticket'[i].kind = k
           /\ Schedule!PendingOf(k)' = Schedule!PendingOf(k) \cup {i}
           /\ \A c : c # k => Schedule!PendingOf(c)' = Schedule!PendingOf(c)
<1> DEFINE new == [Schedule!NoRow EXCEPT !.row = TRUE, !.kind = k, !.due = soon]
<1>1. ticket' = [ticket EXCEPT ![i] = new] /\ Schedule!Unused(i)
  BY DEF Schedule!Insert
<1>2. new \in TicketRow /\ new.row /\ ~new.finished /\ new.kind = k
  BY DEF Schedule!NoRow, TicketRow
<1> HIDE DEF new
<1>3. ~Schedule!Pending(i) /\ i \notin Ticking.job
  BY <1>1, TickerFields DEF Schedule!Unused, Schedule!Holds
<1>4. /\ ticket' \in [Ticker -> TicketRow] /\ ticket'[i] = new
      /\ \A j \in Ticker : j # i => ticket'[j] = ticket[j]
  BY <1>1, <1>2 DEF TickerInv, TickerShape
<1> QED
  BY <1>2, <1>3, <1>4 DEF Schedule!PendingOf, Schedule!Pending

LEMMA TickerSeedInsert ==
    ASSUME TickerInv, NEW i \in Ticker, Schedule!SeedInsert("replica", i)
    PROVE  TickerInv'
<1>a. PICK k : k = Schedule!NextToSeed("replica")
  OBVIOUS
<1> DEFINE rest == Ticking.kinds \ {k}
           record == IF rest = {} THEN Schedule!Poll
                     ELSE [Schedule!Down EXCEPT !.pc = "seed", !.kinds = rest]
<1>1. /\ Ticking.pc = "insert" /\ Ticking.kinds # {} /\ Ticking.job = {}
      /\ Ticking.kinds \in SUBSET Periodic /\ Schedule!PendingOf(k) = {}
  BY <1>a, TickerFields DEF Schedule!SeedInsert, TickerInv, TickerWorks, Ticking
<1>2. k \in Ticking.kinds /\ k \in Kind
  BY <1>1, <1>a DEF Schedule!NextToSeed, Ticking, Kind
<1>3. Schedule!Insert(i, k, TRUE) /\ replica' = [replica EXCEPT !["replica"] = record]
  BY <1>a DEF Schedule!SeedInsert, Schedule!Seeded, Ticking
<1>4. /\ record \in Schedule!WorkerState /\ record.pc \in {"poll", "seed"} /\ record.job = {}
      /\ record.kinds = rest /\ (record.pc = "poll" <=> rest = {})
  BY <1>1, States
<1> HIDE DEF record
<1>5. Ticking' = record /\ replica' = [v \in {"replica"} |-> Ticking']
  BY <1>3, <1>4, WorkerMoves
<1>6. /\ ticket' \in [Ticker -> TicketRow]
      /\ Schedule!PendingOf(k)' = Schedule!PendingOf(k) \cup {i}
      /\ \A c : c # k => Schedule!PendingOf(c)' = Schedule!PendingOf(c)
  BY <1>1, <1>2, <1>3, NewTicketInv
<1>7. TickerShape'
  BY <1>4, <1>5, <1>6 DEF TickerShape
<1>8. TickerHolds' /\ TickerWorks'
  BY <1>4, <1>5 DEF TickerHolds, TickerWorks
<1>9. TickerRows'
  BY <1>1, <1>2, <1>4, <1>5, <1>6 DEF TickerRows, TickerInv
<1> QED
  BY <1>7, <1>8, <1>9 DEF TickerInv

LEMMA TickerAgain ==
    ASSUME TickerInv, NEW i \in Ticker, Schedule!EnqueueAgain("replica", i)
    PROVE  TickerInv'
<1>1. PICK k \in Periodic : Ticking.kinds = {k} /\ Schedule!PendingOf(k) = {}
  BY DEF Schedule!EnqueueAgain, TickerInv, TickerWorks, Ticking
<1>2. /\ Schedule!Insert(i, k, FALSE) /\ Ticking.pc = "again" /\ k \in Kind
      /\ replica' = [replica EXCEPT !["replica"] = Schedule!Poll]
  BY <1>1 DEF Schedule!EnqueueAgain, Ticking, Kind
<1>3. Ticking' = Schedule!Poll /\ replica' = [v \in {"replica"} |-> Ticking']
  BY <1>2, WorkerMoves, States
<1>4. /\ ticket' \in [Ticker -> TicketRow]
      /\ Schedule!PendingOf(k)' = Schedule!PendingOf(k) \cup {i}
      /\ \A c : c # k => Schedule!PendingOf(c)' = Schedule!PendingOf(c)
  BY <1>1, <1>2, NewTicketInv
<1>5. TickerShape' /\ TickerHolds' /\ TickerWorks'
  BY <1>3, <1>4, States DEF TickerShape, TickerHolds, TickerWorks
<1>6. TickerRows'
  <2> SUFFICES ASSUME NEW c \in Periodic
               PROVE  /\ \A a, b \in Schedule!PendingOf(c)' : a = b
                      /\ Schedule!PendingOf(c)' # {}
    BY DEF TickerRows
  <2>1. CASE c = k
    BY <1>1, <1>4, <2>1
  <2>2. CASE c # k
    BY <1>1, <1>2, <1>4, <2>2 DEF TickerInv, TickerRows
  <2> QED
    BY <2>1, <2>2
<1> QED
  BY <1>5, <1>6 DEF TickerInv

(* A request, or another build, is about other kinds. *)
LEMMA TickerEnqueue ==
    ASSUME TickerInv, NEW i \in Ticker, NEW k \in Kind, Schedule!Enqueue(i, k)
    PROVE  TickerInv'
<1>1. /\ Schedule!Insert(i, k, TRUE) /\ k \notin Periodic /\ UNCHANGED replica
      /\ UNCHANGED Ticking
  BY ConstantsAssumption DEF Schedule!Enqueue, ConstantsAssumption, Ticking
<1>2. /\ ticket' \in [Ticker -> TicketRow] /\ i \notin Ticking.job
      /\ \A j \in Ticker : j # i => ticket'[j] = ticket[j]
      /\ \A c : c # k => Schedule!PendingOf(c)' = Schedule!PendingOf(c)
  BY <1>1, NewTicketInv
<1>3. TickerShape' /\ TickerHolds'
  BY <1>1, <1>2 DEF TickerInv, TickerShape, TickerHolds, Schedule!Pending
<1>4. Ticking.kinds \subseteq Periodic
  BY TickerFields
<1>5. Ticking.pc = "insert" => Schedule!NextToSeed("replica") \in Periodic
  BY <1>4 DEF Schedule!NextToSeed, TickerInv, TickerWorks, Ticking
<1>6. Schedule!NextToSeed("replica")' = Schedule!NextToSeed("replica")
  BY <1>1 DEF Schedule!NextToSeed
<1>7. Ticking.pc = "insert" => Schedule!PendingOf(Schedule!NextToSeed("replica"))' = {}
  BY <1>1, <1>2, <1>5, <1>6 DEF TickerInv, TickerWorks, Schedule!PendingOf
<1>8. TickerWorks'
  BY <1>1, <1>2, <1>4, <1>7 DEF TickerInv, TickerWorks
<1>9. TickerRows'
  BY <1>1, <1>2 DEF TickerInv, TickerRows
<1> QED
  BY <1>3, <1>8, <1>9 DEF TickerInv

(* A row is written that stays pending, or is of no periodic kind. *)
LEMMA TicketWriteInv ==
    ASSUME TickerInv, NEW i \in Ticker, NEW r \in TicketRow, ticket' = [ticket EXCEPT ![i] = r],
           r.row = ticket[i].row, r.kind = ticket[i].kind,
           r.finished = ticket[i].finished \/ r.kind \notin Periodic
    PROVE  /\ ticket' \in [Ticker -> TicketRow] /\ ticket'[i] = r
           /\ \A j \in Ticker : j # i => ticket'[j] = ticket[j]
           /\ \A k \in Periodic : Schedule!PendingOf(k)' = Schedule!PendingOf(k)
<1>1. /\ ticket' \in [Ticker -> TicketRow] /\ ticket'[i] = r
      /\ \A j \in Ticker : j # i => ticket'[j] = ticket[j]
  BY DEF TickerInv, TickerShape
<1> QED
  BY <1>1 DEF Schedule!PendingOf, Schedule!Pending

(* Steps of the worker outside seeding that keep what is pending of its kinds. *)
LEMMA LoopInv ==
    ASSUME TickerInv, NEW record \in Schedule!WorkerState,
           replica' = [replica EXCEPT !["replica"] = record],
           record.pc \in {"down", "poll", "claim", "run", "ok", "err"}, record.kinds = {},
           record.pc # "down" => Ticking.pc # "down" /\ Ticking.kinds = {},
           record.pc \in {"down", "poll"} => record.job = {},
           record.pc \notin {"down", "poll"} => \E i \in Ticker : record.job = {i},
           ticket' \in [Ticker -> TicketRow],
           \A k \in Periodic : Schedule!PendingOf(k)' = Schedule!PendingOf(k),
           \A i \in record.job : /\ ticket'[i].row /\ ~ticket'[i].finished
                                 /\ record.pc = "err" => ticket'[i].kind \notin Periodic
    PROVE  TickerInv'
<1>1. Ticking' = record /\ replica' = [v \in {"replica"} |-> Ticking']
  BY WorkerMoves
<1>2. TickerShape' /\ TickerWorks'
  BY <1>1 DEF TickerShape, TickerWorks
<1>3. TickerHolds'
  BY <1>1 DEF TickerHolds, Schedule!Pending
<1>4. TickerRows'
  BY <1>1 DEF TickerInv, TickerRows
<1> QED
  BY <1>2, <1>3, <1>4 DEF TickerInv

(* The worker that holds a row. *)
LEMMA Holder ==
    ASSUME TickerInv, NEW i \in Ticker, Schedule!Holds("replica", i),
           Ticking.pc \in {"claim", "run", "ok", "err"}
    PROVE  /\ ticket[i].row /\ ~ticket[i].finished /\ ticket[i] \in TicketRow
           /\ Ticking.kinds = {} /\ Ticking.job = {i}
           /\ Ticking.pc = "err" => ticket[i].kind \notin Periodic
  BY TickerFields
     DEF TickerInv, TickerHolds, TickerWorks, Schedule!Pending, Schedule!Holds, Ticking

LEMMA TickerCrash == TickerInv /\ Schedule!Crash("replica") => TickerInv'
<1> SUFFICES ASSUME TickerInv, Schedule!Crash("replica") PROVE TickerInv'
  OBVIOUS
<1>1. replica' = [replica EXCEPT !["replica"] = Schedule!Down] /\ UNCHANGED ticket
  BY DEF Schedule!Crash
<1>2. /\ ticket' \in [Ticker -> TicketRow]
      /\ \A k \in Periodic : Schedule!PendingOf(k)' = Schedule!PendingOf(k)
  BY <1>1 DEF TickerInv, TickerShape, Schedule!PendingOf, Schedule!Pending
<1> QED
  BY <1>1, <1>2, LoopInv, States

LEMMA TickerClaim ==
    ASSUME TickerInv, NEW i \in Ticker, Schedule!ClaimSelect("replica", i)
    PROVE  TickerInv'
<1> DEFINE record == [Ticking EXCEPT !.pc = "claim", !.job = {i}]
<1>1. /\ Ticking.pc = "poll" /\ Schedule!Pending(i) /\ UNCHANGED ticket
      /\ replica' = [replica EXCEPT !["replica"] = record]
  BY DEF Schedule!ClaimSelect, Schedule!Runnable, Ticking, TickerInv, TickerShape
<1>2. Ticking.kinds = {}
  BY <1>1 DEF TickerInv, TickerWorks
<1>3. record \in Schedule!WorkerState /\ record.pc = "claim" /\ record.job = {i} /\ record.kinds = {}
  BY <1>2, TickerFields DEF Schedule!WorkerState
<1> HIDE DEF record
<1>4. /\ ticket' \in [Ticker -> TicketRow]
      /\ \A k \in Periodic : Schedule!PendingOf(k)' = Schedule!PendingOf(k)
  BY <1>1 DEF TickerInv, TickerShape, Schedule!PendingOf, Schedule!Pending
<1> QED
  BY <1>1, <1>2, <1>3, <1>4, LoopInv DEF Schedule!Pending

LEMMA TickerCommit ==
    ASSUME TickerInv, NEW i \in Ticker, Schedule!ClaimCommit("replica", i)
    PROVE  TickerInv'
<1> DEFINE record == [Ticking EXCEPT !.pc = "run"]
           r == Schedule!Claimed(ticket[i])
<1>1. /\ Ticking.pc = "claim" /\ Schedule!Holds("replica", i)
      /\ ticket' = [ticket EXCEPT ![i] = r]
      /\ replica' = [replica EXCEPT !["replica"] = record]
  BY DEF Schedule!ClaimCommit, Ticking, TickerInv, TickerShape
<1>2. /\ ticket[i].row /\ ~ticket[i].finished /\ ticket[i] \in TicketRow
      /\ Ticking.kinds = {} /\ Ticking.job = {i}
  BY <1>1, Holder
<1>3. r \in TicketRow /\ r.row = ticket[i].row /\ r.kind = ticket[i].kind /\ r.finished = ticket[i].finished
  <2>1. ticket[i].runs + 1 \in Nat
    BY <1>2 DEF TicketRow
  <2> QED
    BY <1>2, <2>1 DEF Schedule!Claimed, TicketRow
<1>4. record \in Schedule!WorkerState /\ record.pc = "run" /\ record.job = Ticking.job /\ record.kinds = {}
  BY <1>2, TickerFields DEF Schedule!WorkerState
<1> HIDE DEF record, r
<1>5. /\ ticket' \in [Ticker -> TicketRow] /\ ticket'[i] = r
      /\ \A j \in Ticker : j # i => ticket'[j] = ticket[j]
      /\ \A k \in Periodic : Schedule!PendingOf(k)' = Schedule!PendingOf(k)
  BY <1>1, <1>3, TicketWriteInv
<1>6. \A j \in record.job : ticket'[j].row /\ ~ticket'[j].finished
  BY <1>2, <1>3, <1>4, <1>5
<1> QED
  BY <1>1, <1>2, <1>4, <1>5, <1>6, LoopInv

(* Only a handler of another kind fails. *)
LEMMA TickerRun ==
    ASSUME TickerInv, NEW i \in Ticker, Schedule!Run("replica", i)
    PROVE  TickerInv'
<1> DEFINE record == [Ticking EXCEPT !.pc = "ok"]
           wrong == [Ticking EXCEPT !.pc = "err"]
           r == [ticket[i] EXCEPT !.succeeded = TRUE]
<1>1. /\ Ticking.pc = "run" /\ Schedule!Holds("replica", i)
      /\ \/ ticket' = [ticket EXCEPT ![i] = r] /\ replica' = [replica EXCEPT !["replica"] = record]
         \/ /\ ticket[i].kind \in Unknown \cup (MayFail \ Periodic) /\ UNCHANGED ticket
            /\ replica' = [replica EXCEPT !["replica"] = wrong]
  BY DEF Schedule!Run, Ticking, TickerInv, TickerShape
<1>2. /\ ticket[i].row /\ ~ticket[i].finished /\ ticket[i] \in TicketRow
      /\ Ticking.kinds = {} /\ Ticking.job = {i}
  BY <1>1, Holder
<1>3. r \in TicketRow /\ r.row = ticket[i].row /\ r.kind = ticket[i].kind /\ r.finished = ticket[i].finished
  BY <1>2 DEF TicketRow
<1>4. /\ record \in Schedule!WorkerState /\ record.pc = "ok" /\ record.job = Ticking.job /\ record.kinds = {}
      /\ wrong \in Schedule!WorkerState /\ wrong.pc = "err" /\ wrong.job = Ticking.job /\ wrong.kinds = {}
  BY <1>2, TickerFields DEF Schedule!WorkerState
<1> HIDE DEF record, wrong, r
<1>5. CASE ticket' = [ticket EXCEPT ![i] = r] /\ replica' = [replica EXCEPT !["replica"] = record]
  <2>1. /\ ticket' \in [Ticker -> TicketRow] /\ ticket'[i] = r
        /\ \A j \in Ticker : j # i => ticket'[j] = ticket[j]
        /\ \A k \in Periodic : Schedule!PendingOf(k)' = Schedule!PendingOf(k)
    BY <1>3, <1>5, TicketWriteInv
  <2>2. \A j \in record.job : ticket'[j].row /\ ~ticket'[j].finished
    BY <1>2, <1>3, <1>4, <2>1
  <2>3. record.pc = "ok" /\ Ticking.pc # "down" /\ record.job = {i}
    BY <1>1, <1>2, <1>4
  <2> QED
    BY <1>2, <1>4, <1>5, <2>1, <2>2, <2>3, LoopInv
<1>6. CASE /\ ticket[i].kind \in Unknown \cup (MayFail \ Periodic) /\ UNCHANGED ticket
           /\ replica' = [replica EXCEPT !["replica"] = wrong]
  <2>1. /\ ticket' \in [Ticker -> TicketRow]
        /\ \A k \in Periodic : Schedule!PendingOf(k)' = Schedule!PendingOf(k)
    BY <1>6 DEF TickerInv, TickerShape, Schedule!PendingOf, Schedule!Pending
  <2>2. ticket[i].kind \notin Periodic
    BY <1>6, ConstantsAssumption DEF ConstantsAssumption
  <2>3. \A j \in wrong.job : /\ ticket'[j].row /\ ~ticket'[j].finished
                             /\ ticket'[j].kind \notin Periodic
    BY <1>2, <1>4, <1>6, <2>2
  <2> QED
    BY <1>1, <1>2, <1>4, <1>6, <2>1, <2>3, LoopInv
<1> QED
  BY <1>1, <1>5, <1>6

LEMMA TickerErr ==
    ASSUME TickerInv, NEW i \in Ticker, Schedule!FinishErr("replica", i)
    PROVE  TickerInv'
<1> DEFINE r == Schedule!Failed(ticket[i])
<1>1. /\ Ticking.pc = "err" /\ Schedule!Holds("replica", i)
      /\ ticket' = [ticket EXCEPT ![i] = r]
      /\ replica' = [replica EXCEPT !["replica"] = Schedule!Poll]
  BY DEF Schedule!FinishErr, Ticking
<1>2. /\ ticket[i] \in TicketRow /\ Ticking.kinds = {} /\ ticket[i].kind \notin Periodic
  BY <1>1, Holder
<1>3. r.row = ticket[i].row /\ r.kind = ticket[i].kind /\ r \in TicketRow
  <2>1. /\ ticket[i].attempts + 1 \in Nat
        /\ (ticket[i].attempts + 1 >= MaxAttempts) \in BOOLEAN
        /\ (ticket[i].due /\ ticket[i].attempts + 1 >= MaxAttempts) \in BOOLEAN
    BY <1>2 DEF TicketRow
  <2> QED
    BY <1>2, <2>1 DEF Schedule!Failed, TicketRow
<1> HIDE DEF r
<1>4. /\ ticket' \in [Ticker -> TicketRow]
      /\ \A k \in Periodic : Schedule!PendingOf(k)' = Schedule!PendingOf(k)
  BY <1>1, <1>2, <1>3, TicketWriteInv
<1> QED
  BY <1>1, <1>2, <1>4, LoopInv, States

(* The row of a periodic kind is the one of that kind, so the next may be enqueued. *)
LEMMA TickerOk ==
    ASSUME TickerInv, NEW i \in Ticker, Schedule!FinishOk("replica", i)
    PROVE  TickerInv'
<1>a. PICK k : k = ticket[i].kind
  OBVIOUS
<1> DEFINE r == Schedule!Finished(ticket[i])
<1>1. /\ Ticking.pc = "ok" /\ Schedule!Holds("replica", i)
      /\ ticket' = [ticket EXCEPT ![i] = r]
      /\ replica' = [replica EXCEPT !["replica"] =
                       IF k \in Periodic THEN [Schedule!Down EXCEPT !.pc = "again", !.kinds = {k}]
                                         ELSE Schedule!Poll]
  BY <1>a DEF Schedule!FinishOk, Ticking
<1>2. /\ ticket[i].row /\ ~ticket[i].finished /\ ticket[i] \in TicketRow
      /\ Ticking.kinds = {}
  BY <1>1, Holder
<1>3. r \in TicketRow /\ r.row = ticket[i].row /\ r.kind = k /\ r.finished
  BY <1>2, <1>a DEF Schedule!Finished, TicketRow
<1> HIDE DEF r
<1>4. CASE k \notin Periodic
  <2>1. /\ ticket' \in [Ticker -> TicketRow]
        /\ \A c \in Periodic : Schedule!PendingOf(c)' = Schedule!PendingOf(c)
    BY <1>1, <1>3, <1>4, <1>a, TicketWriteInv
  <2> QED
    BY <1>1, <1>2, <1>4, <2>1, LoopInv, States
<1>5. CASE k \in Periodic
  <2> DEFINE record == [Schedule!Down EXCEPT !.pc = "again", !.kinds = {k}]
  <2>1. /\ record \in Schedule!WorkerState /\ record.pc = "again"
        /\ record.kinds = {k} /\ record.job = {}
    <3>1. {k} \in SUBSET Periodic
      BY <1>5
    <3> QED
      BY <3>1, States
  <2>2. replica' = [replica EXCEPT !["replica"] = record]
    BY <1>1, <1>5
  <2> HIDE DEF record
  <2>3. Ticking' = record /\ replica' = [v \in {"replica"} |-> Ticking']
    BY <2>1, <2>2, WorkerMoves
  <2>4. /\ ticket' \in [Ticker -> TicketRow] /\ ticket'[i] = r
        /\ \A j \in Ticker : j # i => ticket'[j] = ticket[j]
    BY <1>1, <1>3 DEF TickerInv, TickerShape
  <2>5. Schedule!PendingOf(k) = {i}
    BY <1>2, <1>5, <1>a DEF TickerInv, TickerRows, Schedule!PendingOf, Schedule!Pending
  <2>6. Schedule!PendingOf(k)' = {}
    BY <1>3, <1>a, <2>4, <2>5 DEF Schedule!PendingOf, Schedule!Pending
  <2>7. \A c \in Periodic : c # k => Schedule!PendingOf(c)' = Schedule!PendingOf(c)
    BY <1>3, <1>a, <2>4 DEF Schedule!PendingOf, Schedule!Pending
  <2>8. TickerShape' /\ TickerHolds' /\ TickerWorks'
    BY <1>5, <2>1, <2>3, <2>4, <2>6 DEF TickerShape, TickerHolds, TickerWorks
  <2>9. TickerRows'
    <3> SUFFICES ASSUME NEW c \in Periodic
                 PROVE  /\ \A a, b \in Schedule!PendingOf(c)' : a = b
                        /\ c # k => Schedule!PendingOf(c)' # {}
      BY <2>1, <2>3 DEF TickerRows
    <3> QED
      BY <1>1, <1>2, <2>6, <2>7 DEF TickerInv, TickerRows
  <2> QED
    BY <2>8, <2>9 DEF TickerInv
<1> QED
  BY <1>4, <1>5

LEMMA TickerElapse ==
    ASSUME TickerInv, NEW i \in Ticker, Schedule!Elapse(i)
    PROVE  TickerInv'
<1> DEFINE r == [ticket[i] EXCEPT !.due = TRUE]
<1>1. /\ ticket' = [ticket EXCEPT ![i] = r] /\ UNCHANGED replica /\ UNCHANGED Ticking
  BY DEF Schedule!Elapse, Ticking
<1>2. /\ r \in TicketRow /\ r.row = ticket[i].row /\ r.kind = ticket[i].kind
      /\ r.finished = ticket[i].finished
  BY TickerFields DEF TicketRow
<1> HIDE DEF r
<1>3. /\ ticket' \in [Ticker -> TicketRow] /\ ticket'[i] = r
      /\ \A j \in Ticker : j # i => ticket'[j] = ticket[j]
      /\ \A k \in Periodic : Schedule!PendingOf(k)' = Schedule!PendingOf(k)
  BY <1>1, <1>2, TicketWriteInv
<1>4. Ticking.kinds \subseteq Periodic /\ Ticking.job \subseteq Ticker
  BY TickerFields
<1>5. Ticking.pc = "insert" => Schedule!NextToSeed("replica") \in Periodic
  BY <1>4 DEF Schedule!NextToSeed, TickerInv, TickerWorks, Ticking
<1>6. Schedule!NextToSeed("replica")' = Schedule!NextToSeed("replica")
  BY <1>1 DEF Schedule!NextToSeed
<1>7. Ticking.pc = "insert" => Schedule!PendingOf(Schedule!NextToSeed("replica"))' = {}
  BY <1>1, <1>3, <1>5, <1>6 DEF TickerInv, TickerWorks, Schedule!PendingOf
<1>8. TickerShape' /\ TickerHolds'
  BY <1>1, <1>2, <1>3, <1>4 DEF TickerInv, TickerShape, TickerHolds, Schedule!Pending
<1>9. TickerWorks'
  BY <1>1, <1>3, <1>4, <1>7 DEF TickerInv, TickerWorks
<1>10. TickerRows'
  BY <1>1, <1>3 DEF TickerInv, TickerRows
<1> QED
  BY <1>8, <1>9, <1>10 DEF TickerInv

LEMMA TickerKeeps == WorkSpec => []TickerInv
<1>1. WorkInit => TickerInv
  BY TickerInit DEF WorkInit
<1>2. ASSUME TickerInv, [WorkNext]_workVars
      PROVE  TickerInv'
  <2>1. Schedule!Next \/ UNCHANGED scheduleVars
    BY <1>2 DEF WorkNext, workVars
  <2>2. CASE UNCHANGED scheduleVars
    BY <1>2, <2>2
       DEF scheduleVars, TickerInv, TickerShape, TickerHolds, TickerWorks, TickerRows, Ticking,
           Schedule!PendingOf, Schedule!Pending, Schedule!NextToSeed
  <2>3. ASSUME Schedule!Proceed("replica")
        PROVE  TickerInv'
    BY <1>2, <2>3, TickerBoot, TickerSeed, TickerSeedInsert, TickerCommit, TickerRun, TickerOk,
       TickerAgain, TickerErr DEF Schedule!Proceed
  <2>4. ~Schedule!StatementFails("replica")
    BY DEF Schedule!StatementFails
  <2>5. ASSUME NEW i \in Ticker, NEW k \in Schedule!Kind, Schedule!Enqueue(i, k)
        PROVE  TickerInv'
    BY <1>2, <2>5, TickerEnqueue DEF Schedule!Kind, Kind
  <2>6. CASE Schedule!Next
    BY <1>2, <2>3, <2>4, <2>5, <2>6, TickerCrash, TickerClaim, TickerElapse DEF Schedule!Next
  <2> QED
    BY <2>1, <2>2, <2>6
<1> QED
  BY <1>1, <1>2, PTL DEF WorkSpec

(* A periodic kind that was seeded never runs out of rows, and with one replica whose
   periodic handlers do not fail it never has two pending, wherever the process stops
   (ensure_seed_jobs and finish_ok in jobs/mod.rs). *)
THEOREM TheScheduleRunsOn == WorkSpec => []ScheduleIsKept
<1>1. ASSUME TickerInv
      PROVE  Schedule!TickerAlive
  <2>1. /\ replica["replica"].pc \notin {"seed", "insert", "again"} => replica["replica"].kinds = {}
        /\ \A k \in Periodic : replica["replica"].pc # "down" /\ k \notin replica["replica"].kinds =>
                                Schedule!PendingOf(k) # {}
    BY <1>1 DEF TickerInv, TickerWorks, TickerRows, Ticking
  <2> QED
    BY <2>1 DEF Schedule!TickerAlive
<1>2. ASSUME TickerInv
      PROVE  Schedule!SingleTicker
  <2> SUFFICES ASSUME NEW k \in Periodic
               PROVE  Cardinality(Schedule!PendingOf(k)) <= 1
    BY DEF Schedule!SingleTicker, Schedule!Cardinality, Cardinality
  <2>1. \A i, j \in Schedule!PendingOf(k) : i = j
    BY <1>2 DEF TickerInv, TickerRows
  <2>2. CASE Schedule!PendingOf(k) = {}
    BY <2>2, FS_EmptySet
  <2>3. CASE Schedule!PendingOf(k) # {}
    <3>1. PICK i : Schedule!PendingOf(k) = {i}
      BY <2>1, <2>3
    <3> QED
      BY <3>1, FS_Singleton
  <2> QED
    BY <2>2, <2>3
<1>3. TickerInv => ScheduleIsKept
  BY <1>1, <1>2 DEF ScheduleIsKept
<1> QED
  BY <1>3, TickerKeeps, PTL

-----------------------------------------------------------------------------
(***************************************************************************)
(* Mail                                                                    *)
(***************************************************************************)

Daily == [pc : {"idle", "due", "items", "sent"}, kinds : SUBSET NoteKind, since : Nat,
          batch : SUBSET Nat]

MailShape ==
    /\ note \in Seq(Post!NoteRow) /\ last \in Nat /\ last <= Len(note)
    /\ mode \in Post!Mode /\ kinds \subseteq NoteKind /\ digest \in Daily

(* What the digest on its way knows of the table. *)
DigestKnows ==
    /\ digest.pc # "idle" => digest.since = last
    /\ digest.pc \in {"items", "sent"} =>
         \A n \in digest.batch : n \in DOMAIN note /\ n > last /\ n <= last + Limit
    /\ digest.pc = "sent" => \A n \in digest.batch : note[n].mails > 0

(* A wish that stands is what the preferences say. *)
WishStands(n) == note[n].wish # "none" => note[n].wish = Post!Wish(mode, kinds, note[n].kind)

(* Mail at once comes from the job alone: no digest began while it was wished. *)
AtOnce(n) ==
    note[n].wish = "immediate" /\ note[n].fate = "plain" =>
        /\ digest.pc = "idle"
        /\ note[n].job \in {"pending", "sending"} => note[n].mails = 0
        /\ note[n].job = "done" => note[n].mails = 1

(* Mail in a digest comes from that alone: from one that was stamped, or is
   about to be, once; and one on its way takes in all it should. *)
InDigest(n) ==
    note[n].wish = "digest" =>
        /\ note[n].job # "sending"
        /\ note[n].fate = "torn" => n <= last + Limit
        /\ note[n].fate # "torn" =>
             /\ note[n].mails <= 1
             /\ note[n].mails = 1 => n <= last \/ (digest.pc = "sent" /\ n \in digest.batch)
        /\ note[n].fate = "plain" =>
             /\ n <= last => note[n].mails > 0
             /\ digest.pc # "idle" => note[n].kind \in digest.kinds
             /\ digest.pc \in {"items", "sent"} /\ n > last => n \in digest.batch

MailInv ==
    /\ MailShape /\ DigestKnows
    /\ \A n \in DOMAIN note : WishStands(n) /\ AtOnce(n) /\ InDigest(n)

LEMMA MailFields ==
    ASSUME MailInv
    PROVE  /\ Len(note) \in Nat /\ DOMAIN note = 1 .. Len(note) /\ DOMAIN note \subseteq Nat
           /\ last \in Nat /\ Limit \in Nat
           /\ digest.pc \in {"idle", "due", "items", "sent"}
           /\ Post!NoDigest \in Daily /\ Post!NoDigest.pc = "idle"
           /\ \A n \in DOMAIN note :
                 /\ note[n] \in Post!NoteRow /\ n \in Nat
                 /\ note[n].mails \in 0 .. 2
<1>1. Len(note) \in Nat /\ DOMAIN note = 1 .. Len(note)
  BY LenProperties DEF MailInv, MailShape
<1>2. last \in Nat /\ Limit \in Nat /\ digest.pc \in {"idle", "due", "items", "sent"}
  BY WorkAssumption DEF MailInv, MailShape, Daily, WorkAssumption
<1>3. Post!NoDigest \in Daily /\ Post!NoDigest.pc = "idle"
  BY DEF Post!NoDigest, Daily
<1>4. \A n \in DOMAIN note : note[n] \in Post!NoteRow
  BY ElementOfSeq, <1>1 DEF MailInv, MailShape
<1> QED
  BY <1>1, <1>2, <1>3, <1>4 DEF Post!NoteRow

(* The notes keep their places and change their rows. *)
LEMMA RowsChange ==
    ASSUME MailInv, DOMAIN note' = DOMAIN note, \E S : note' \in [DOMAIN note -> S],
           \A n \in DOMAIN note : note'[n] \in Post!NoteRow,
           last' \in Nat, last' <= Len(note), mode' \in Post!Mode, kinds' \subseteq NoteKind, digest' \in Daily
    PROVE  MailShape' /\ Len(note') = Len(note)
<1>1. note' \in [1 .. Len(note) -> Post!NoteRow] /\ Len(note) \in Nat
  BY MailFields
<1>2. note' \in Seq(Post!NoteRow) /\ Len(note') = Len(note)
  BY <1>1, IsASeq, LenProperties
<1> QED
  BY <1>2 DEF MailShape

LEMMA MailInit == Post!Init => MailInv
<1> SUFFICES ASSUME Post!Init PROVE MailInv
  OBVIOUS
<1>1. /\ kinds = NoteKind /\ last = 0 /\ note = <<>> /\ digest = Post!NoDigest
  BY DEF Post!Init
<1>2. Post!NoDigest \in Daily /\ Post!NoDigest.pc = "idle"
  BY DEF Post!NoDigest, Daily
<1>3. note \in Seq(Post!NoteRow) /\ Len(note) = 0 /\ DOMAIN note = {}
  BY <1>1
<1>4. mode \in Post!Mode
  BY DEF Post!Init, Post!Mode
<1> QED
  BY <1>1, <1>2, <1>3, <1>4 DEF MailInv, MailShape, DigestKnows

LEMMA NotifyInv ==
    ASSUME MailInv, NEW kind \in NoteKind, Post!Notify(kind)
    PROVE  MailInv'
<1>1. PICK r \in Post!NoteRow :
        /\ r.kind = kind /\ r.job = "pending" /\ r.mails = 0
        /\ r.wish = Post!Wish(mode, kinds, kind)
        /\ r.fate = IF digest.pc = "idle" THEN "plain" ELSE "late"
        /\ note' = Append(note, r)
  <2>1. Post!Wish(mode, kinds, kind) \in {"immediate", "digest", "none"}
    BY DEF Post!Wish, MailInv, MailShape, Post!Mode
  <2> QED
    BY <2>1 DEF Post!Notify, Post!NoteRow
<1>2. UNCHANGED <<mode, kinds, last, due, digest>>
  BY DEF Post!Notify
<1>3. /\ note' \in Seq(Post!NoteRow) /\ Len(note') = Len(note) + 1
      /\ \A n \in 1 .. Len(note) : note'[n] = note[n]
      /\ note'[Len(note) + 1] = r
  BY <1>1, AppendProperties DEF MailInv, MailShape
<1>4. DOMAIN note' = DOMAIN note \cup {Len(note) + 1} /\ last < Len(note) + 1
  BY <1>3, LenProperties, MailFields DEF MailInv, MailShape
<1>5. MailShape'
  BY <1>2, <1>3, MailFields DEF MailInv, MailShape
<1>6. DigestKnows'
  BY <1>2, <1>3, <1>4, MailFields DEF MailInv, DigestKnows
<1>7. \A n \in DOMAIN note : (WishStands(n) /\ AtOnce(n) /\ InDigest(n))'
  BY <1>2, <1>3, MailFields DEF MailInv, WishStands, AtOnce, InDigest
<1>8. ASSUME NEW n, n = Len(note) + 1 PROVE (WishStands(n) /\ AtOnce(n) /\ InDigest(n))'
  BY <1>1, <1>2, <1>3, <1>4, <1>8, MailFields DEF WishStands, AtOnce, InDigest
<1> QED
  BY <1>4, <1>5, <1>6, <1>7, <1>8 DEF MailInv

LEMMA PrefsInv ==
    ASSUME MailInv, NEW m \in Post!Mode, NEW ks \in SUBSET NoteKind, Post!SetPrefs(m, ks)
    PROVE  MailInv'
<1>1. /\ mode' = m /\ kinds' = ks /\ UNCHANGED <<last, due, digest>>
      /\ DOMAIN note' = DOMAIN note
      /\ \A n \in DOMAIN note :
            note'[n] = IF Post!Wish(m, ks, note[n].kind) = note[n].wish THEN note[n]
                       ELSE [note[n] EXCEPT !.wish = "none"]
  BY DEF Post!SetPrefs, Post!Notes
<1>2. ASSUME NEW n \in DOMAIN note
      PROVE  /\ note'[n] \in Post!NoteRow /\ note'[n].job = note[n].job /\ note'[n].kind = note[n].kind
             /\ note'[n].mails = note[n].mails /\ note'[n].fate = note[n].fate
             /\ \/ note'[n].wish = note[n].wish /\ Post!Wish(m, ks, note[n].kind) = note[n].wish
                \/ note'[n].wish = "none"
  BY <1>1, MailFields DEF Post!NoteRow
<1>3. MailShape'
  BY <1>1, <1>2, RowsChange, MailFields DEF MailInv, MailShape, Post!SetPrefs, Post!Notes
<1>4. DigestKnows'
  BY <1>1, <1>2 DEF MailInv, DigestKnows
<1>5. \A n \in DOMAIN note : (WishStands(n) /\ AtOnce(n) /\ InDigest(n))'
  BY <1>1, <1>2 DEF MailInv, WishStands, AtOnce, InDigest
<1> QED
  BY <1>1, <1>3, <1>4, <1>5 DEF MailInv

(* The email job of one note takes a step. *)
LEMMA JobStepInv ==
    ASSUME MailInv, NEW k \in DOMAIN note,
           Post!EmailDecide(k) \/ Post!EmailSend(k) \/ Post!EmailFails(k) \/ Post!EmailGone(k)
    PROVE  MailInv'
<1>1. UNCHANGED <<mode, kinds, last, due, digest>>
  BY DEF Post!EmailDecide, Post!EmailSend, Post!EmailFails, Post!EmailGone
<1>2. /\ note[k] \in Post!NoteRow /\ note[k].mails \in 0 .. 2
      /\ Post!More(note[k].mails) \in 0 .. 2 /\ Post!More(note[k].mails) > 0
      /\ note[k].mails = 0 => Post!More(note[k].mails) = 1
  BY MailFields DEF Post!More
<1>3. /\ DOMAIN note' = DOMAIN note
      /\ \A n \in DOMAIN note : n # k => note'[n] = note[n]
      /\ note'[k] \in Post!NoteRow /\ note'[k].kind = note[k].kind
      /\ note'[k].wish = note[k].wish /\ note'[k].fate = note[k].fate
      /\ \/ /\ note[k].job = "pending" /\ note'[k].mails = note[k].mails
            /\ note'[k].job = IF Post!WantsImmediate(note[k].kind) THEN "sending" ELSE "done"
         \/ /\ note[k].job = "sending" /\ note'[k].job = "done"
            /\ note'[k].mails = Post!More(note[k].mails)
         \/ /\ note[k].job \in {"pending", "sending"} /\ note'[k].mails = note[k].mails
            /\ note'[k].job \in {"pending", "gone"}
  <2>1. CASE Post!EmailDecide(k)
    BY <1>2, <2>1 DEF Post!EmailDecide, Post!NoteRow
  <2>2. CASE Post!EmailSend(k)
    <3>1. PICK x \in 0 .. 2 : x = Post!More(note[k].mails)
      BY <1>2
    <3>2. note' = [note EXCEPT ![k] = [note[k] EXCEPT !.job = "done", !.mails = x]]
      BY <2>2, <3>1 DEF Post!EmailSend
    <3>3. /\ note'[k] = [note[k] EXCEPT !.job = "done", !.mails = x]
          /\ \A n \in DOMAIN note : n # k => note'[n] = note[n]
          /\ DOMAIN note' = DOMAIN note
      BY <3>2
    <3>4. /\ note'[k] \in Post!NoteRow /\ note'[k].kind = note[k].kind
          /\ note'[k].wish = note[k].wish /\ note'[k].fate = note[k].fate
          /\ note'[k].job = "done" /\ note'[k].mails = x
      BY <1>2, <3>3 DEF Post!NoteRow
    <3> QED
      BY <2>2, <3>1, <3>3, <3>4 DEF Post!EmailSend
  <2>3. CASE Post!EmailFails(k)
    BY <1>2, <2>3 DEF Post!EmailFails, Post!NoteRow
  <2>4. CASE Post!EmailGone(k)
    BY <1>2, <2>4 DEF Post!EmailGone, Post!NoteRow
  <2> QED
    BY <2>1, <2>2, <2>3, <2>4
<1>4. MailShape'
  <2>1. \A n \in DOMAIN note : note'[n] \in Post!NoteRow
    BY <1>3, MailFields
  <2>2. note' = [n \in DOMAIN note |-> note'[n]]
    BY DEF Post!EmailDecide, Post!EmailSend, Post!EmailFails, Post!EmailGone
  <2> QED
    BY <1>1, <1>3, <2>1, <2>2, RowsChange, MailFields DEF MailInv, MailShape
<1>5. DigestKnows'
  BY <1>1, <1>2, <1>3 DEF MailInv, DigestKnows
<1>6. \A n \in DOMAIN note : n # k => (WishStands(n) /\ AtOnce(n) /\ InDigest(n))'
  BY <1>1, <1>3 DEF MailInv, WishStands, AtOnce, InDigest
<1>7. WishStands(k)'
  BY <1>1, <1>3 DEF MailInv, WishStands
<1>8. AtOnce(k)'
  <2>1. note[k].wish = "immediate" => Post!WantsImmediate(note[k].kind)
    BY DEF MailInv, WishStands, Post!Wish, Post!WantsImmediate
  <2>2. note[k].wish = "immediate" /\ note[k].fate = "plain" =>
          /\ digest'.pc = "idle"
          /\ note[k].job \in {"pending", "sending"} => note[k].mails = 0
    BY <1>1 DEF MailInv, AtOnce
  <2> QED
    BY <1>2, <1>3, <2>1, <2>2 DEF AtOnce
<1>9. InDigest(k)'
  BY <1>1, <1>2, <1>3 DEF MailInv, InDigest, WishStands, Post!Wish, Post!WantsImmediate
<1> QED
  BY <1>3, <1>4, <1>5, <1>6, <1>7, <1>8, <1>9 DEF MailInv

LEMMA DigestDueInv == MailInv /\ Post!DigestDue => MailInv'
<1> SUFFICES ASSUME MailInv, Post!DigestDue PROVE MailInv'
  OBVIOUS
<1>1. /\ mode = "digest" /\ UNCHANGED <<mode, kinds, last, due, note>>
      /\ digest' = [Post!NoDigest EXCEPT !.pc = "due", !.kinds = kinds, !.since = last]
  BY DEF Post!DigestDue
<1>2. digest' \in Daily /\ digest'.pc = "due" /\ digest'.kinds = kinds /\ digest'.since = last
  BY <1>1, MailFields DEF MailInv, MailShape, Daily
<1>3. MailShape'
  BY <1>1, <1>2 DEF MailInv, MailShape
<1>4. \A n \in DOMAIN note : AtOnce(n)' /\ WishStands(n)'
  BY <1>1 DEF MailInv, WishStands, AtOnce, Post!Wish
<1>5. ASSUME NEW n \in DOMAIN note PROVE InDigest(n)'
  <2>1. note[n].wish = "digest" => note[n].kind \in kinds
    BY DEF MailInv, WishStands, Post!Wish
  <2>2. digest.pc = "idle"
    BY DEF Post!DigestDue
  <2> QED
    BY <1>1, <1>2, <2>1, <2>2 DEF MailInv, InDigest
<1> QED
  BY <1>1, <1>2, <1>3, <1>4, <1>5 DEF MailInv, DigestKnows

LEMMA DigestReadInv == MailInv /\ Post!DigestRead => MailInv'
<1> SUFFICES ASSUME MailInv, Post!DigestRead PROVE MailInv'
  OBVIOUS
<1>1. /\ digest.pc = "due" /\ digest.since = last /\ UNCHANGED <<mode, kinds, last, due>>
      /\ digest' = [digest EXCEPT !.pc = "items",
                      !.batch = {n \in Post!Items(digest.since) : note[n].kind \in digest.kinds}]
      /\ note' = [n \in DOMAIN note |->
                    IF n > digest.since + Limit THEN [note[n] EXCEPT !.fate = "late"] ELSE note[n]]
  BY DEF Post!DigestRead, Post!Notes, MailInv, DigestKnows
<1>2. PICK b \in SUBSET Nat :
        b = {n \in DOMAIN note : last < n /\ n <= last + Limit /\ note[n].kind \in digest.kinds}
  BY MailFields
<1>3. digest' = [digest EXCEPT !.pc = "items", !.batch = b]
  BY <1>1, <1>2 DEF Post!Items, Post!Notes
<1>4. /\ digest' \in Daily /\ digest'.pc = "items" /\ digest'.kinds = digest.kinds
      /\ digest'.since = last /\ digest'.batch = b
  BY <1>1, <1>3 DEF MailInv, MailShape, Daily
<1>5. ASSUME NEW n \in DOMAIN note
      PROVE  /\ note'[n] \in Post!NoteRow /\ note'[n].job = note[n].job /\ note'[n].kind = note[n].kind
             /\ note'[n].mails = note[n].mails /\ note'[n].wish = note[n].wish
             /\ note'[n].fate = IF n > last + Limit THEN "late" ELSE note[n].fate
  BY <1>1, MailFields DEF Post!NoteRow
<1>6. DOMAIN note' = DOMAIN note
  BY <1>1
<1>7. MailShape'
  BY <1>1, <1>4, <1>5, <1>6, RowsChange, MailFields DEF MailInv, MailShape
<1>8. DigestKnows'
  BY <1>1, <1>2, <1>4, <1>6, MailFields DEF DigestKnows
<1>9. ASSUME NEW n \in DOMAIN note PROVE WishStands(n)' /\ AtOnce(n)'
  BY <1>1, <1>5 DEF MailInv, WishStands, AtOnce
<1>10. ASSUME NEW n \in DOMAIN note PROVE InDigest(n)'
  BY <1>1, <1>2, <1>4, <1>5, MailFields DEF MailInv, InDigest
<1> QED
  BY <1>6, <1>7, <1>8, <1>9, <1>10 DEF MailInv

LEMMA DigestSendInv == MailInv /\ Post!DigestSend => MailInv'
<1> SUFFICES ASSUME MailInv, Post!DigestSend PROVE MailInv'
  OBVIOUS
<1>1. /\ digest.pc = "items" /\ UNCHANGED <<mode, kinds, last, due>>
      /\ digest' = [digest EXCEPT !.pc = "sent"] /\ DOMAIN note' = DOMAIN note
      /\ note' = [n \in DOMAIN note |->
                    IF n \in digest.batch THEN [note[n] EXCEPT !.mails = Post!More(@)] ELSE note[n]]
  BY DEF Post!DigestSend, Post!Notes
<1>2. /\ digest' \in Daily /\ digest'.pc = "sent" /\ digest'.kinds = digest.kinds
      /\ digest'.since = digest.since /\ digest'.batch = digest.batch
  BY <1>1 DEF MailInv, MailShape, Daily
<1>3. ASSUME NEW n \in DOMAIN note
      PROVE  /\ note'[n] \in Post!NoteRow /\ note'[n].job = note[n].job /\ note'[n].kind = note[n].kind
             /\ note'[n].wish = note[n].wish /\ note'[n].fate = note[n].fate
             /\ n \notin digest.batch => note'[n].mails = note[n].mails
             /\ n \in digest.batch => /\ note'[n].mails > 0
                                      /\ note[n].mails = 0 => note'[n].mails = 1
             /\ note[n].mails > 0 => note'[n].mails > 0
  <2>1. PICK x \in 0 .. 2 : x = Post!More(note[n].mails) /\ x > 0 /\ (note[n].mails = 0 => x = 1)
    BY MailFields DEF Post!More
  <2>2. note'[n] = IF n \in digest.batch THEN [note[n] EXCEPT !.mails = x] ELSE note[n]
    BY <1>1, <2>1
  <2> QED
    BY <2>1, <2>2, MailFields DEF Post!NoteRow
<1>4. MailShape'
  BY <1>1, <1>2, <1>3, RowsChange, MailFields DEF MailInv, MailShape
<1>5. DigestKnows'
  BY <1>1, <1>2, <1>3 DEF MailInv, DigestKnows
<1>6. ASSUME NEW n \in DOMAIN note PROVE WishStands(n)' /\ AtOnce(n)'
  BY <1>1, <1>3 DEF MailInv, WishStands, AtOnce
<1>7. ASSUME NEW n \in DOMAIN note PROVE InDigest(n)'
  <2>1. n \in digest.batch => n > last
    BY <1>1 DEF MailInv, DigestKnows
  <2>2. InDigest(n) /\ n \in Nat /\ last \in Nat /\ note[n].mails \in 0 .. 2
    BY MailFields DEF MailInv
  <2> QED
    BY <1>1, <1>2, <1>3, <2>1, <2>2 DEF InDigest
<1> QED
  BY <1>1, <1>4, <1>5, <1>6, <1>7 DEF MailInv

LEMMA DigestFailsInv == MailInv /\ Post!DigestFails => MailInv'
<1> SUFFICES ASSUME MailInv, Post!DigestFails PROVE MailInv'
  OBVIOUS
<1>1. /\ digest.pc = "items" /\ digest' = Post!NoDigest /\ UNCHANGED <<mode, kinds, last, due, note>>
  BY DEF Post!DigestFails
<1> QED
  BY <1>1, MailFields DEF MailInv, MailShape, DigestKnows, WishStands, AtOnce, InDigest

LEMMA DigestStampInv == MailInv /\ Post!DigestStamp => MailInv'
<1> SUFFICES ASSUME MailInv, Post!DigestStamp PROVE MailInv'
  OBVIOUS
<1>1. /\ digest.pc = "sent" /\ digest' = Post!NoDigest /\ last' = Len(note)
      /\ UNCHANGED <<mode, kinds, note>>
  BY DEF Post!DigestStamp, Post!StampTo
<1>2. MailShape' /\ DigestKnows'
  BY <1>1, MailFields DEF MailInv, MailShape, DigestKnows
<1>3. ASSUME NEW n \in DOMAIN note PROVE WishStands(n)' /\ AtOnce(n)'
  BY <1>1 DEF MailInv, WishStands, AtOnce
<1>4. ASSUME NEW n \in DOMAIN note PROVE InDigest(n)'
  <2>1. n <= last' /\ n <= last' + Limit
    BY <1>1, MailFields
  <2>2. note[n].wish = "digest" /\ note[n].fate = "plain" => note[n].mails > 0
    BY <1>1, MailFields DEF MailInv, InDigest, DigestKnows
  <2> QED
    BY <1>1, <2>1, <2>2, MailFields DEF MailInv, InDigest
<1> QED
  BY <1>1, <1>2, <1>3, <1>4 DEF MailInv

LEMMA MailCrashInv == MailInv /\ Post!Crash => MailInv'
<1> SUFFICES ASSUME MailInv, Post!Crash PROVE MailInv'
  OBVIOUS
<1>1. /\ digest.pc # "idle" /\ digest' = Post!NoDigest /\ UNCHANGED <<mode, kinds, last, due>>
      /\ DOMAIN note' = DOMAIN note
      /\ note' = [n \in DOMAIN note |-> IF digest.pc = "sent" /\ n \in digest.batch
                                        THEN [note[n] EXCEPT !.fate = "torn"] ELSE note[n]]
  BY DEF Post!Crash, Post!Notes
<1>2. ASSUME NEW n \in DOMAIN note
      PROVE  /\ note'[n] \in Post!NoteRow /\ note'[n].job = note[n].job /\ note'[n].kind = note[n].kind
             /\ note'[n].wish = note[n].wish /\ note'[n].mails = note[n].mails
             /\ note'[n].fate = IF digest.pc = "sent" /\ n \in digest.batch THEN "torn"
                                ELSE note[n].fate
  BY <1>1, MailFields DEF Post!NoteRow
<1>3. MailShape'
  BY <1>1, <1>2, RowsChange, MailFields DEF MailInv, MailShape
<1>4. DigestKnows'
  BY <1>1, MailFields DEF DigestKnows
<1>5. ASSUME NEW n \in DOMAIN note PROVE WishStands(n)' /\ AtOnce(n)'
  BY <1>1, <1>2 DEF MailInv, WishStands, AtOnce
<1>6. ASSUME NEW n \in DOMAIN note PROVE InDigest(n)'
  <2>1. digest.pc = "sent" /\ n \in digest.batch => n <= last + Limit
    BY DEF MailInv, DigestKnows
  <2> QED
    BY <1>1, <1>2, <2>1, MailFields DEF MailInv, InDigest
<1> QED
  BY <1>1, <1>3, <1>4, <1>5, <1>6 DEF MailInv

LEMMA MailKeeps == WorkSpec => []MailInv
<1>1. WorkInit => MailInv
  BY MailInit DEF WorkInit
<1>2. ASSUME MailInv, [WorkNext]_workVars
      PROVE  MailInv'
  <2>1. Post!Next \/ UNCHANGED mailVars
    BY <1>2 DEF WorkNext, workVars
  <2>2. CASE UNCHANGED mailVars \/ Post!NewDay
    BY <1>2, <2>2
       DEF mailVars, Post!NewDay, MailInv, MailShape, DigestKnows, WishStands, AtOnce, InDigest
  <2>3. CASE Post!Unsubscribe
    <3>1. "off" \in Post!Mode /\ kinds \in SUBSET NoteKind /\ Post!SetPrefs("off", kinds)
      BY <1>2, <2>3 DEF Post!Unsubscribe, Post!Mode, MailInv, MailShape
    <3> QED
      BY <1>2, <3>1, PrefsInv
  <2>4. CASE Post!Next
    BY <1>2, <2>2, <2>3, <2>4, NotifyInv, PrefsInv, JobStepInv, DigestDueInv, DigestReadInv,
       DigestSendInv, DigestFailsInv, DigestStampInv, MailCrashInv DEF Post!Next, Post!Notes
  <2> QED
    BY <2>1, <2>2, <2>4
<1> QED
  BY <1>1, <1>2, PTL DEF WorkSpec

(* A notification whose user wished the same all along is mailed as wished, and once,
   however jobs, changes of mind, failures, stops and the digest overlap; what is late
   or comes twice came so for a reason that Mail names
   (run_send_notification_email, run_notification_digest in jobs/mod.rs). *)
THEOREM TheMailKeepsTheWish == WorkSpec => []MailedAsWished
<1>1. MailInv => MailedAsWished
  BY MailFields DEF MailInv, AtOnce, InDigest, MailedAsWished, Post!MailedAsWished, Post!Notes
<1> QED
  BY <1>1, MailKeeps, PTL

-----------------------------------------------------------------------------
(***************************************************************************)
(* The status of a commit: what was told is on its way                     *)
(***************************************************************************)

PushShape ==
    /\ waiting \in Nat /\ gtold \in BOOLEAN
    /\ link # None => link \in Git!LinkRow
    /\ push \in Git!Push
    /\ gstatus \in Git!Status
    /\ DOMAIN shown = Sha

(* A handler tells of a change last. *)
ToldLast == hook # "idle" => ~gtold

(* As long as nothing changed since, the status of the head is the task's, or
   will be: a row waits, or the one that runs has read what is true. *)
OnItsWay ==
    gtold /\ Git!Eligible =>
        \/ waiting > 0
        \/ push.pc = "idle" /\ shown[link.sha] = Git!StateOf(gstatus)
        \/ push.pc = "read" /\ push.state = gstatus
        \/ push.pc = "aimed" /\ push.state = gstatus /\ push.sha = link.sha

PushInv == PushShape /\ ToldLast /\ OnItsWay

LEMMA PushFields ==
    ASSUME PushShape
    PROVE  /\ push.pc \in {"idle", "read", "aimed"} /\ push.state \in Git!Status
           /\ push.sha \in Sha \cup {None}
           /\ push = [pc |-> push.pc, state |-> push.state, sha |-> push.sha]
           /\ link # None => link.sha \in Sha \cup {None}
           /\ Git!NoJob \in Git!Push /\ Git!NoJob.pc = "idle"
  BY DEF PushShape, Git!Push, Git!LinkRow, Git!NoJob, Git!Status

LEMMA PushInit == Git!Init => PushInv
<1> SUFFICES ASSUME Git!Init PROVE PushInv
  OBVIOUS
<1>1. PushShape
  BY DEF Git!Init, PushShape, Git!Push, Git!NoJob, Git!Status
<1>2. ToldLast /\ OnItsWay
  BY DEF Git!Init, ToldLast, OnItsWay
<1> QED
  BY <1>1, <1>2 DEF PushInv

(* What changes the task, the link or the connection has yet to tell. *)
LEMMA ChangeInv ==
    ASSUME PushInv, PushShape', UNCHANGED <<push, waiting>>, ~gtold'
    PROVE  PushInv'
  BY DEF PushInv, ToldLast, OnItsWay

LEMMA LinkPrInv ==
    ASSUME PushInv, NEW state \in Git!PrState, NEW sha \in Sha \cup {None}, Git!LinkPr(state, sha)
    PROVE  PushInv'
<1>1. link' \in Git!LinkRow
  <2>1. CASE link = None
    BY <2>1 DEF Git!LinkPr, Git!LinkRow
  <2>2. CASE link # None
    BY <2>2 DEF Git!LinkPr, Git!LinkRow, PushInv, PushShape
  <2> QED
    BY <2>1, <2>2
<1>2. PushShape'
  BY <1>1 DEF Git!LinkPr, PushInv, PushShape
<1> QED
  BY <1>2, ChangeInv DEF Git!LinkPr

(* queue_status_updates() leaves a row that waits, if there is something to tell. *)
LEMMA LinkQueueInv == PushInv /\ Git!LinkQueue => PushInv'
<1> SUFFICES ASSUME PushInv, Git!LinkQueue PROVE PushInv'
  OBVIOUS
<1>1. PushShape'
  BY DEF PushInv, PushShape, Git!LinkQueue, Git!Queue
<1>2. Git!Eligible' => Git!Eligible
  BY DEF Git!LinkQueue, Git!Eligible, Git!Connected
<1>3. Git!Eligible => waiting' > 0
  BY DEF PushInv, PushShape, Git!LinkQueue, Git!Queue
<1> QED
  BY <1>1, <1>2, <1>3 DEF PushInv, ToldLast, OnItsWay, Git!LinkQueue

LEMMA TransitionInv == PushInv /\ Git!Transition => PushInv'
<1> SUFFICES ASSUME PushInv, Git!Transition PROVE PushInv'
  OBVIOUS
<1>1. PushShape'
  BY DEF PushInv, PushShape, Git!Transition, Git!Status
<1> QED
  BY <1>1, ChangeInv DEF PushInv, ToldLast, Git!Transition

LEMMA HookFailsInv == PushInv /\ Git!HookFails => PushInv'
<1> SUFFICES ASSUME PushInv, Git!HookFails PROVE PushInv'
  OBVIOUS
<1>1. PushShape'
  BY DEF PushInv, PushShape, Git!HookFails
<1> QED
  BY <1>1, ChangeInv DEF PushInv, ToldLast, Git!HookFails

(* A check is no news to the commit it is about. *)
LEMMA CheckInv ==
    ASSUME PushInv, NEW sha \in Sha, NEW check \in Git!CheckState, Git!SetCheckState(sha, check)
    PROVE  PushInv'
<1>1. link \in Git!LinkRow /\ link # None /\ link' = [link EXCEPT !.check = check]
  BY DEF PushInv, PushShape, Git!SetCheckState
<1>2. link' \in Git!LinkRow /\ link'.sha = link.sha
  BY <1>1 DEF Git!LinkRow
<1>3. PushShape'
  BY <1>2 DEF PushInv, PushShape, Git!SetCheckState
<1>4. Git!Eligible' => Git!Eligible
  BY <1>1, <1>2 DEF Git!SetCheckState, Git!Eligible, Git!Connected
<1> QED
  BY <1>2, <1>3, <1>4 DEF PushInv, ToldLast, OnItsWay, Git!SetCheckState

LEMMA MoveInv ==
    ASSUME PushInv, NEW s \in Git!Status, Git!Move(s) \/ Git!MoveQuietly(s)
    PROVE  PushInv'
<1>1. PushShape'
  BY DEF PushInv, PushShape, Git!Move, Git!MoveQuietly
<1>2. CASE ~gtold'
  BY <1>1, <1>2, ChangeInv DEF Git!Move, Git!MoveQuietly
<1>3. CASE gtold'
  <2>1. gtold /\ UNCHANGED <<gstatus, live, link, conn, hook, waiting, push, shown>>
    BY <1>3 DEF Git!Move, Git!MoveQuietly, PushInv, PushShape
  <2>2. Git!Eligible' => Git!Eligible
    BY <2>1 DEF Git!Eligible, Git!Connected
  <2> QED
    BY <1>1, <2>1, <2>2 DEF PushInv, ToldLast, OnItsWay
<1> QED
  BY <1>2, <1>3

LEMMA ConnectionInv ==
    ASSUME PushInv,
           \/ Git!DeleteOrRestore \/ Git!DeleteIntegration
           \/ \E c \in Git!Connection : Git!CreateIntegration(c) \/ Git!UpdateIntegration(c)
    PROVE  PushInv'
<1>1. PushShape' /\ ~gtold' /\ UNCHANGED <<push, waiting>>
  BY DEF PushInv, PushShape, Git!DeleteOrRestore, Git!DeleteIntegration,
         Git!CreateIntegration, Git!UpdateIntegration
<1> QED
  BY <1>1, ChangeInv

LEMMA JobReadInv == PushInv /\ Git!JobRead => PushInv'
<1> SUFFICES ASSUME PushInv, Git!JobRead PROVE PushInv'
  OBVIOUS
<1>1. /\ push' \in Git!Push
      /\ live => push'.pc = "read" /\ push'.state = gstatus
  BY PushFields DEF PushInv, PushShape, Git!JobRead, Git!Push, Git!NoJob
<1>2. PushShape'
  BY <1>1 DEF PushInv, PushShape, Git!JobRead
<1>3. Git!Eligible' => live
  BY DEF Git!JobRead, Git!Eligible
<1> QED
  BY <1>1, <1>2, <1>3 DEF PushInv, ToldLast, OnItsWay, Git!JobRead

LEMMA JobAimInv == PushInv /\ Git!JobAim => PushInv'
<1> SUFFICES ASSUME PushInv, Git!JobAim PROVE PushInv'
  OBVIOUS
<1>1. /\ push' \in Git!Push
      /\ Git!Eligible => push'.pc = "aimed" /\ push'.state = push.state /\ push'.sha = link.sha
  BY PushFields DEF PushInv, PushShape, Git!JobAim, Git!Push, Git!NoJob, Git!Eligible
<1>2. PushShape'
  BY <1>1 DEF PushInv, PushShape, Git!JobAim
<1>3. Git!Eligible' => Git!Eligible
  BY DEF Git!JobAim, Git!Eligible, Git!Connected
<1> QED
  BY <1>1, <1>2, <1>3 DEF PushInv, ToldLast, OnItsWay, Git!JobAim

(* What is posted last is what a row read when nothing changed any more. *)
LEMMA JobPostInv == PushInv /\ Git!JobPost => PushInv'
<1> SUFFICES ASSUME PushInv, Git!JobPost PROVE PushInv'
  OBVIOUS
<1>1. PushShape' /\ push'.pc = "idle"
  BY PushFields DEF PushInv, PushShape, Git!JobPost
<1>2. Git!Eligible' => Git!Eligible /\ link.sha \in Sha
  BY PushFields DEF Git!JobPost, Git!Eligible, Git!Connected, PushInv
<1>3. push.sha \in Sha => shown'[push.sha] = Git!StateOf(push.state)
  BY DEF Git!JobPost, Git!Body, PushInv, PushShape
<1> QED
  BY <1>1, <1>2, <1>3 DEF PushInv, ToldLast, OnItsWay, Git!JobPost

LEMMA JobEndsInv == PushInv /\ (Git!JobFails \/ Git!Crash) => PushInv'
<1> SUFFICES ASSUME PushInv, Git!JobFails \/ Git!Crash PROVE PushInv'
  OBVIOUS
<1>1. /\ push' = Git!NoJob /\ UNCHANGED <<gstatus, live, link, conn, hook, shown>>
      /\ \/ waiting' = waiting + 1 /\ gtold' = gtold
         \/ waiting' = waiting /\ gtold' = FALSE
  BY DEF Git!JobFails, Git!Crash
<1>2. waiting \in Nat /\ gtold \in BOOLEAN
  BY DEF PushInv, PushShape
<1>3. waiting' \in Nat /\ gtold' \in BOOLEAN /\ (gtold' => gtold /\ waiting' > 0)
  <2>1. CASE waiting' = waiting + 1 /\ gtold' = gtold
    <3>1. waiting' \in Nat /\ waiting' > 0
      BY <1>2, <2>1
    <3> QED
      BY <1>2, <2>1, <3>1
  <2>2. CASE waiting' = waiting /\ gtold' = FALSE
    BY <1>2, <2>2
  <2> QED
    BY <1>1, <2>1, <2>2
<1>4. PushShape'
  BY <1>1, <1>3, PushFields DEF PushInv, PushShape
<1> QED
  BY <1>1, <1>3, <1>4 DEF PushInv, ToldLast, OnItsWay

LEMMA PushKeeps == WorkSpec => []PushInv
<1>1. WorkInit => PushInv
  BY PushInit DEF WorkInit
<1>2. ASSUME PushInv, [WorkNext]_workVars
      PROVE  PushInv'
  <2>1. Git!Next \/ UNCHANGED gitVars
    BY <1>2 DEF WorkNext, workVars
  <2>2. CASE UNCHANGED gitVars
    BY <1>2, <2>2 DEF gitVars, PushInv, PushShape, ToldLast, OnItsWay, Git!Eligible, Git!Connected
  <2>3. CASE Git!Next
    BY <1>2, <2>3, LinkPrInv, TransitionInv, LinkQueueInv, HookFailsInv, CheckInv, MoveInv,
       ConnectionInv, JobReadInv, JobAimInv, JobPostInv, JobEndsInv DEF Git!Next
  <2> QED
    BY <2>1, <2>2, <2>3
<1> QED
  BY <1>1, <1>2, PTL DEF WorkSpec

(* Once its jobs have run, the provider shows whether the task is done on the head of its
   pull request, whatever overlapped, was repeated or came out of order
   (queue_status_updates() in domain/integrations.rs, run_push_commit_status in jobs/mod.rs). *)
THEOREM TheHeadShowsTheTask == WorkSpec => []StatusSettles
<1>1. PushInv => StatusSettles
  BY DEF PushInv, PushShape, OnItsWay, StatusSettles, Git!StatusSettles
<1> QED
  BY <1>1, PushKeeps, PTL

-----------------------------------------------------------------------------
(***************************************************************************)
(* The ledger of a webhook                                                 *)
(***************************************************************************)

Failure(j, i) == [job |-> j, attempt |-> i, ok |-> FALSE]
Failures(j, n) == {Failure(j, i) : i \in 1 .. n}
Success(j, i) == [job |-> j, attempt |-> i, ok |-> TRUE]
Line(j, p) == [job |-> j, attempt |-> p.attempt, ok |-> p.ok]
Received(j) == {Line(j, p) : p \in {q \in posts : q.job = j}}

DeliveryRow == [state : {"absent", "waiting", "running", "stuck", "done", "failed"},
                event : Hooks!Event, attempts : Nat]
PosterRow == [pc : {"idle", "read", "built", "posted"}, attempt : Nat,
              body : {"signed", "chat"}, ok : BOOLEAN]

DeliveryShape ==
    /\ delivery \in [Delivery -> DeliveryRow] /\ poster \in [Delivery -> PosterRow]
    /\ blank \subseteq Delivery

(* A worker has a row that is running, and the number of its next attempt. *)
PosterKnows ==
    \A j \in Delivery :
        poster[j].pc # "idle" =>
            delivery[j].state = "running" /\ poster[j].attempt = delivery[j].attempts + 1

(* The ledger of a delivery: its failures, counted, and the success that ended it. *)
Kept(j) ==
    \/ Hooks!Rows(j) = Failures(j, delivery[j].attempts)
    \/ /\ delivery[j].state = "done"
       /\ Hooks!Rows(j) = Failures(j, delivery[j].attempts) \cup {Success(j, delivery[j].attempts + 1)}

LedgerKept(j) ==
    /\ delivery[j].state = "absent" => delivery[j].attempts = 0 /\ Hooks!Rows(j) = {}
    /\ delivery[j].state # "stuck"
    /\ Kept(j)
    /\ poster[j].pc # "posted" => Received(j) = Hooks!Rows(j)
    /\ poster[j].pc = "posted" => Received(j) = Hooks!Rows(j) \cup {Line(j, poster[j])}

LedgerInv == DeliveryShape /\ PosterKnows /\ \A j \in Delivery \ blank : LedgerKept(j)

LEMMA DeliveryFields ==
    ASSUME LedgerInv, NEW j \in Delivery
    PROVE  /\ delivery[j].state \in {"absent", "waiting", "running", "stuck", "done", "failed"}
           /\ delivery[j].event \in Hooks!Event /\ delivery[j].attempts \in Nat
           /\ delivery[j] \in DeliveryRow /\ poster[j] \in PosterRow
           /\ poster[j].pc \in {"idle", "read", "built", "posted"}
           /\ poster[j].attempt \in Nat /\ poster[j].ok \in BOOLEAN
  BY DEF LedgerInv, DeliveryShape, DeliveryRow, PosterRow

LEMMA IdlePoster == Hooks!Idle \in PosterRow /\ Hooks!Idle.pc = "idle"
  BY DEF Hooks!Idle, PosterRow

LEMMA LedgerInit == Hooks!Init => LedgerInv
<1> SUFFICES ASSUME Hooks!Init PROVE LedgerInv
  OBVIOUS
<1>1. /\ Hooks!NoJob \in DeliveryRow /\ Hooks!NoJob.state = "absent" /\ Hooks!NoJob.attempts = 0
  BY DEF Hooks!NoJob, DeliveryRow, Hooks!Event
<1>2. DeliveryShape /\ PosterKnows
  BY <1>1, IdlePoster DEF Hooks!Init, DeliveryShape, PosterKnows
<1>3. ASSUME NEW j \in Delivery
      PROVE  LedgerKept(j)
  <2>1. Hooks!Rows(j) = {} /\ Received(j) = {}
    BY DEF Hooks!Init, Hooks!Rows, Received
  <2>2. Failures(j, 0) = {}
    BY DEF Failures
  <2> QED
    BY <1>1, <2>1, <2>2, IdlePoster DEF Hooks!Init, LedgerKept, Kept
<1> QED
  BY <1>2, <1>3 DEF LedgerInv

(* A step touches one delivery: the others keep their ledger. *)
LEMMA OneDelivery ==
    ASSUME LedgerInv, NEW j \in Delivery, NEW row \in DeliveryRow, NEW run \in PosterRow,
           delivery' = [delivery EXCEPT ![j] = row], poster' = [poster EXCEPT ![j] = run],
           run.pc # "idle" => row.state = "running" /\ run.attempt = row.attempts + 1,
           blank' \in {blank, blank \cup {j}},
           \A i \in Delivery : i # j => Hooks!Rows(i)' = Hooks!Rows(i) /\ Received(i)' = Received(i),
           j \notin blank' => LedgerKept(j)'
    PROVE  LedgerInv'
<1>1. /\ delivery'[j] = row /\ poster'[j] = run
      /\ \A i \in Delivery : i # j => delivery'[i] = delivery[i] /\ poster'[i] = poster[i]
  BY DEF LedgerInv, DeliveryShape
<1>2. DeliveryShape'
  BY DEF LedgerInv, DeliveryShape
<1>3. PosterKnows'
  BY <1>1 DEF LedgerInv, PosterKnows
<1>4. ASSUME NEW i \in Delivery, i \notin blank', i # j
      PROVE  LedgerKept(i)'
  BY <1>1, <1>4 DEF LedgerInv, LedgerKept, Kept, Line
<1> QED
  BY <1>2, <1>3, <1>4 DEF LedgerInv

(* Nothing is written and nothing received. *)
LEMMA SameLedger ==
    ASSUME UNCHANGED <<ledger, posts>>, NEW i
    PROVE  Hooks!Rows(i)' = Hooks!Rows(i) /\ Received(i)' = Received(i)
  BY DEF Hooks!Rows, Received, Line

(* The states before a post and after a drop keep the ledger as it is. *)
LEMMA QuietDelivery ==
    ASSUME LedgerInv, NEW j \in Delivery, NEW row \in DeliveryRow, NEW run \in PosterRow,
           delivery' = [delivery EXCEPT ![j] = row], poster' = [poster EXCEPT ![j] = run],
           run.pc # "idle" => row.state = "running" /\ run.attempt = row.attempts + 1,
           UNCHANGED <<ledger, posts, blank>>,
           poster[j].pc # "posted", run.pc # "posted",
           row.attempts = delivery[j].attempts, row.state \notin {"absent", "stuck"},
           delivery[j].state # "done"
    PROVE  LedgerInv'
<1>1. \A i : Hooks!Rows(i)' = Hooks!Rows(i) /\ Received(i)' = Received(i)
  BY SameLedger
<1>2. delivery'[j] = row /\ poster'[j] = run
  BY DEF LedgerInv, DeliveryShape
<1>3. ASSUME j \notin blank
      PROVE  LedgerKept(j)'
  <2>1. LedgerKept(j)
    BY <1>3 DEF LedgerInv
  <2> QED
    BY <1>1, <1>2, <2>1 DEF LedgerKept, Kept
<1> QED
  BY <1>1, <1>3, OneDelivery

LEMMA EnqueueInvOf ==
    ASSUME LedgerInv, NEW j \in Delivery,
           Hooks!DispatchEnqueue(j) \/ Hooks!SendTest(j)
    PROVE  LedgerInv'
<1>1. PICK event \in Hooks!Event :
        /\ delivery' = [delivery EXCEPT ![j] = [Hooks!NoJob EXCEPT !.state = "waiting", !.event = event]]
        /\ delivery[j].state = "absent" /\ UNCHANGED <<poster, ledger, posts, blank>>
  BY DEF Hooks!DispatchEnqueue, Hooks!SendTest, Hooks!Enqueue, Hooks!Event
<1> DEFINE row == [Hooks!NoJob EXCEPT !.state = "waiting", !.event = event]
<1>2. row \in DeliveryRow /\ row.state = "waiting" /\ row.attempts = 0
  BY DEF Hooks!NoJob, DeliveryRow
<1>3. poster[j].pc = "idle" /\ poster[j] \in PosterRow /\ poster' = [poster EXCEPT ![j] = poster[j]]
  BY <1>1, DeliveryFields DEF LedgerInv, PosterKnows, DeliveryShape
<1>4. \A i : Hooks!Rows(i)' = Hooks!Rows(i) /\ Received(i)' = Received(i)
  BY <1>1, SameLedger
<1>5. delivery'[j] = row
  BY <1>1 DEF LedgerInv, DeliveryShape
<1> HIDE DEF row
<1>6. ASSUME j \notin blank
      PROVE  LedgerKept(j)'
  <2>1. Hooks!Rows(j) = {} /\ Received(j) = {}
    BY <1>1, <1>3, <1>6 DEF LedgerInv, LedgerKept
  <2>2. Failures(j, 0) = {}
    BY DEF Failures
  <2> QED
    BY <1>1, <1>2, <1>3, <1>4, <1>5, <2>1, <2>2 DEF LedgerKept, Kept
<1> QED
  BY <1>1, <1>2, <1>3, <1>4, <1>6, OneDelivery DEF row

LEMMA ClaimInvOf ==
    ASSUME LedgerInv, NEW j \in Delivery, Hooks!Claim(j)
    PROVE  LedgerInv'
<1> DEFINE row == [delivery[j] EXCEPT !.state = "running"]
<1>1. /\ delivery' = [delivery EXCEPT ![j] = row] /\ delivery[j].state = "waiting"
      /\ UNCHANGED <<poster, ledger, posts, blank>>
  BY DEF Hooks!Claim
<1>2. row \in DeliveryRow /\ row.state = "running" /\ row.attempts = delivery[j].attempts
  BY DeliveryFields DEF DeliveryRow
<1>3. poster[j].pc = "idle" /\ poster[j] \in PosterRow /\ poster' = [poster EXCEPT ![j] = poster[j]]
  BY <1>1, DeliveryFields DEF LedgerInv, PosterKnows, DeliveryShape
<1> HIDE DEF row
<1> QED
  BY <1>1, <1>2, <1>3, QuietDelivery

LEMMA ReadAttemptInv ==
    ASSUME LedgerInv, NEW j \in Delivery, Hooks!ReadAttempt(j)
    PROVE  LedgerInv'
<1> DEFINE run == [Hooks!Idle EXCEPT !.pc = "read", !.attempt = delivery[j].attempts + 1]
<1>1. /\ poster' = [poster EXCEPT ![j] = run] /\ poster[j].pc = "idle" /\ delivery[j].state = "running"
      /\ UNCHANGED <<delivery, ledger, posts, blank>>
  BY DEF Hooks!ReadAttempt, Hooks!AttemptNumber
<1>2. run \in PosterRow /\ run.pc = "read" /\ run.attempt = delivery[j].attempts + 1
  <2>1. delivery[j].attempts + 1 \in Nat
    BY DeliveryFields
  <2> QED
    BY <2>1 DEF PosterRow, Hooks!Idle
<1>3. delivery[j] \in DeliveryRow /\ delivery' = [delivery EXCEPT ![j] = delivery[j]]
  BY <1>1, DeliveryFields DEF LedgerInv, DeliveryShape
<1> HIDE DEF run
<1> QED
  BY <1>1, <1>2, <1>3, QuietDelivery

LEMMA DropInv ==
    ASSUME LedgerInv, NEW j \in Delivery, Hooks!Drop(j)
    PROVE  LedgerInv'
<1> DEFINE row == [delivery[j] EXCEPT !.state = "done"]
<1>1. /\ delivery' = [delivery EXCEPT ![j] = row] /\ poster[j].pc = "read"
      /\ poster' = [poster EXCEPT ![j] = Hooks!Idle]
      /\ UNCHANGED <<ledger, posts, blank>>
  BY DEF Hooks!Drop
<1>2. row \in DeliveryRow /\ row.state = "done" /\ row.attempts = delivery[j].attempts
  BY DeliveryFields DEF DeliveryRow
<1>3. delivery[j].state = "running"
  BY <1>1 DEF LedgerInv, PosterKnows
<1> HIDE DEF row
<1> QED
  BY <1>1, <1>2, <1>3, IdlePoster, QuietDelivery

LEMMA BuildInv ==
    ASSUME LedgerInv, NEW j \in Delivery, Hooks!Build(j)
    PROVE  LedgerInv'
<1>1. Hooks!Body \in {"signed", "chat"}
  BY DEF Hooks!Body
<1> DEFINE run == [poster[j] EXCEPT !.pc = "built", !.body = Hooks!Body]
<1>2. /\ poster' = [poster EXCEPT ![j] = run] /\ poster[j].pc = "read"
      /\ UNCHANGED <<delivery, ledger, posts, blank>>
  BY DEF Hooks!Build, LedgerInv, DeliveryShape
<1>3. run \in PosterRow /\ run.pc = "built" /\ run.attempt = poster[j].attempt
  BY <1>1, DeliveryFields DEF PosterRow
<1>4. /\ delivery[j] \in DeliveryRow /\ delivery' = [delivery EXCEPT ![j] = delivery[j]]
      /\ delivery[j].state = "running" /\ poster[j].attempt = delivery[j].attempts + 1
  BY <1>2, DeliveryFields DEF LedgerInv, DeliveryShape, PosterKnows
<1> HIDE DEF run
<1> QED
  BY <1>2, <1>3, <1>4, QuietDelivery

(* The receiver gets it before the ledger says so. *)
LEMMA SendPostInv ==
    ASSUME LedgerInv, NEW j \in Delivery, NEW ok \in BOOLEAN, Hooks!SendPost(j, ok)
    PROVE  LedgerInv'
<1> DEFINE run == [poster[j] EXCEPT !.pc = "posted", !.ok = ok]
           p == [job |-> j, attempt |-> poster[j].attempt, ok |-> ok, body |-> poster[j].body]
<1>1. /\ poster' = [poster EXCEPT ![j] = run] /\ poster[j].pc = "built"
      /\ posts' = posts \cup {p} /\ UNCHANGED <<delivery, ledger, blank>>
  BY DEF Hooks!SendPost, LedgerInv, DeliveryShape
<1>2. /\ run \in PosterRow /\ run.pc = "posted" /\ run.attempt = poster[j].attempt /\ run.ok = ok
  BY DeliveryFields DEF PosterRow
<1>3. /\ delivery[j] \in DeliveryRow /\ delivery' = [delivery EXCEPT ![j] = delivery[j]]
      /\ delivery[j].state = "running" /\ poster[j].attempt = delivery[j].attempts + 1
  BY <1>1, DeliveryFields DEF LedgerInv, DeliveryShape, PosterKnows
<1>4. p.job = j /\ Line(j, p) = Line(j, run)
  BY <1>2 DEF Line
<1> HIDE DEF run, p
<1>5. \A i : Hooks!Rows(i)' = Hooks!Rows(i)
  BY <1>1 DEF Hooks!Rows
<1>6. /\ \A i : i # j => Received(i)' = Received(i)
      /\ Received(j)' = Received(j) \cup {Line(j, run)}
  <2>1. \A i : {q \in posts' : q.job = i} =
                 IF i = j THEN {q \in posts : q.job = i} \cup {p} ELSE {q \in posts : q.job = i}
    BY <1>1, <1>4
  <2> QED
    BY <1>4, <2>1 DEF Received, Line
<1>7. poster'[j] = run /\ delivery'[j] = delivery[j]
  BY <1>1 DEF LedgerInv, DeliveryShape
<1>8. ASSUME j \notin blank
      PROVE  LedgerKept(j)'
  <2>1. LedgerKept(j)
    BY <1>8 DEF LedgerInv
  <2> QED
    BY <1>1, <1>2, <1>3, <1>5, <1>6, <1>7, <2>1 DEF LedgerKept, Kept
<1> QED
  BY <1>1, <1>2, <1>3, <1>5, <1>6, <1>8, OneDelivery

(* fail() counts the attempt. *)
LEMMA FailedDelivery ==
    ASSUME LedgerInv, NEW j \in Delivery, Hooks!Failed(j)
    PROVE  \E row \in DeliveryRow :
             /\ delivery' = [delivery EXCEPT ![j] = row]
             /\ row.state \in {"failed", "waiting"} /\ row.attempts = delivery[j].attempts + 1
<1> DEFINE state == IF delivery[j].attempts + 1 >= Tries THEN "failed" ELSE "waiting"
           row == [delivery[j] EXCEPT !.attempts = @ + 1, !.state = state]
<1>1. state \in {"failed", "waiting"}
  OBVIOUS
<1>2. delivery' = [delivery EXCEPT ![j] = row]
  BY DEF Hooks!Failed, LedgerInv, DeliveryShape
<1> HIDE DEF state
<1>3. row \in DeliveryRow /\ row.state \in {"failed", "waiting"} /\ row.attempts = delivery[j].attempts + 1
  <2>1. delivery[j].attempts + 1 \in Nat /\ delivery[j] \in DeliveryRow
    BY DeliveryFields
  <2> QED
    BY <1>1, <2>1 DEF DeliveryRow
<1> QED
  BY <1>2, <1>3

(* What the ledger did not get is forgotten. *)
LEMMA LostInv ==
    ASSUME LedgerInv, NEW j \in Delivery, Hooks!RecordFails(j) \/ Hooks!Crash(j)
    PROVE  LedgerInv'
<1>1. /\ poster' = [poster EXCEPT ![j] = Hooks!Idle] /\ blank' = blank \cup {j}
      /\ UNCHANGED <<ledger, posts>>
  BY DEF Hooks!RecordFails, Hooks!Crash
<1>2. PICK row \in DeliveryRow : delivery' = [delivery EXCEPT ![j] = row]
  <2>1. CASE Hooks!RecordFails(j)
    BY <2>1, FailedDelivery DEF Hooks!RecordFails
  <2>2. CASE Hooks!Crash(j)
    <3> DEFINE row == [delivery[j] EXCEPT !.state = "stuck"]
    <3>1. row \in DeliveryRow
      BY DeliveryFields DEF DeliveryRow
    <3> QED
      BY <2>2, <3>1 DEF Hooks!Crash
  <2> QED
    BY <2>1, <2>2
<1> QED
  BY <1>1, <1>2, IdlePoster, SameLedger, OneDelivery

(* The line that is written is that of the post. *)
LEMMA RecordInv ==
    ASSUME LedgerInv, NEW j \in Delivery, Hooks!Record(j)
    PROVE  LedgerInv'
<1> DEFINE n == delivery[j].attempts
           line == [job |-> j, attempt |-> poster[j].attempt, ok |-> poster[j].ok]
<1>1. /\ poster[j].pc = "posted" /\ poster' = [poster EXCEPT ![j] = Hooks!Idle]
      /\ ledger' = ledger \cup {line} /\ UNCHANGED <<posts, blank>>
      /\ poster[j].attempt = n + 1 /\ n \in Nat /\ poster[j].ok \in BOOLEAN
      /\ delivery[j].state = "running"
  BY DeliveryFields DEF Hooks!Record, LedgerInv, PosterKnows
<1>2. PICK row \in DeliveryRow :
        /\ delivery' = [delivery EXCEPT ![j] = row]
        /\ \/ poster[j].ok /\ row.state = "done" /\ row.attempts = n
           \/ ~poster[j].ok /\ row.state \in {"failed", "waiting"} /\ row.attempts = n + 1
  <2>1. CASE poster[j].ok
    <3> DEFINE row == [delivery[j] EXCEPT !.state = "done"]
    <3>1. row \in DeliveryRow /\ row.state = "done" /\ row.attempts = n
      BY DeliveryFields DEF DeliveryRow
    <3>2. delivery' = [delivery EXCEPT ![j] = row]
      BY <2>1 DEF Hooks!Record
    <3> QED
      BY <2>1, <3>1, <3>2
  <2>2. CASE ~poster[j].ok
    BY <2>2, FailedDelivery DEF Hooks!Record
  <2> QED
    BY <2>1, <2>2
<1>3. line.job = j /\ line = Line(j, poster[j])
  BY DEF Line
<1>4. poster[j].ok => line = Success(j, n + 1)
  BY <1>1 DEF Success
<1>5. ~poster[j].ok => line = Failure(j, n + 1)
  BY <1>1 DEF Failure
<1> HIDE DEF line
<1>6. /\ \A i : i # j => Hooks!Rows(i)' = Hooks!Rows(i)
      /\ Hooks!Rows(j)' = Hooks!Rows(j) \cup {line}
  BY <1>1, <1>3 DEF Hooks!Rows
<1>7. \A i : Received(i)' = Received(i)
  BY <1>1 DEF Received, Line
<1>8. delivery'[j] = row /\ poster'[j] = Hooks!Idle
  BY <1>1, <1>2 DEF LedgerInv, DeliveryShape
<1>9. Failures(j, n + 1) = Failures(j, n) \cup {Failure(j, n + 1)}
  <2>1. 1 .. n + 1 = (1 .. n) \cup {n + 1}
    BY <1>1
  <2> QED
    BY <2>1 DEF Failures
<1> HIDE DEF n
<1>10. ASSUME j \notin blank
       PROVE  LedgerKept(j)'
  <2>1. LedgerKept(j)
    BY <1>10 DEF LedgerInv
  <2>2. Hooks!Rows(j) = Failures(j, n) /\ Received(j) = Hooks!Rows(j) \cup {line}
    BY <1>1, <1>3, <2>1 DEF LedgerKept, Kept, n
  <2>3. Kept(j)'
    BY <1>2, <1>4, <1>5, <1>6, <1>8, <1>9, <2>2 DEF Kept
  <2> QED
    BY <1>2, <1>6, <1>7, <1>8, <2>2, <2>3, IdlePoster DEF LedgerKept
<1> QED
  BY <1>1, <1>2, <1>6, <1>7, <1>10, IdlePoster, OneDelivery

LEMMA LedgerKeeps == WorkSpec => []LedgerInv
<1>1. WorkInit => LedgerInv
  BY LedgerInit DEF WorkInit
<1>2. ASSUME LedgerInv, [WorkNext]_workVars
      PROVE  LedgerInv'
  <2>1. Hooks!Next \/ UNCHANGED hooksVars
    BY <1>2 DEF WorkNext, workVars
  <2>2. ASSUME UNCHANGED <<delivery, poster, ledger, posts, blank>>
        PROVE  LedgerInv'
    BY <1>2, <2>2 DEF LedgerInv, DeliveryShape, PosterKnows, LedgerKept, Kept, Received, Line, Hooks!Rows
  <2>3. CASE UNCHANGED hooksVars
    BY <2>2, <2>3 DEF hooksVars
  <2>4. CASE Hooks!Next
    BY <1>2, <2>2, <2>4, EnqueueInvOf, ClaimInvOf, ReadAttemptInv, DropInv, BuildInv, SendPostInv,
       RecordInv, LostInv
       DEF Hooks!Next, Hooks!Create, Hooks!Edit, Hooks!Remove, Hooks!Dispatch, Hooks!DispatchFails
  <2> QED
    BY <2>1, <2>3, <2>4
<1> QED
  BY <1>1, <1>2, PTL DEF WorkSpec

(* As many failures as attempts. *)
LEMMA FailuresCounted ==
    ASSUME NEW j, NEW n \in Nat
    PROVE  IsFiniteSet(Failures(j, n)) /\ Cardinality(Failures(j, n)) = n
<1> DEFINE line == [i \in 1 .. n |-> Failure(j, i)]
<1>1. IsFiniteSet(1 .. n) /\ Cardinality(1 .. n) = n
  BY FS_Interval
<1>2. \A i, k \in 1 .. n : Failure(j, i) = Failure(j, k) => i = k
  BY DEF Failure
<1>3. line \in Bijection(1 .. n, Failures(j, n))
  BY <1>2 DEF Bijection, Injection, Surjection, IsInjective, Failures
<1> QED
  BY <1>1, <1>3, FS_Bijection DEF ExistsBijection

(* The ledger of a delivery is exactly what its receiver got, numbered without a gap, as
   many failures as the row has attempts, and none after a success, unless a worker
   stopped or the ledger could not be written (run_deliver_webhook in jobs/mod.rs). *)
THEOREM TheLedgerTellsAll == WorkSpec => []LedgerIsComplete
<1>1. ASSUME LedgerInv, NEW j \in Delivery \ blank
      PROVE  /\ poster[j].pc # "posted" =>
                  Hooks!Rows(j) = {[job |-> j, attempt |-> p.attempt, ok |-> p.ok] :
                                     p \in {q \in posts : q.job = j}}
             /\ {r.attempt : r \in Hooks!Rows(j)} = 1 .. Cardinality(Hooks!Rows(j))
             /\ Cardinality({r \in Hooks!Rows(j) : ~r.ok}) = delivery[j].attempts
             /\ \A r \in Hooks!Rows(j) :
                  r.ok => r.attempt = Cardinality(Hooks!Rows(j)) /\ delivery[j].state = "done"
  <2> DEFINE n == delivery[j].attempts
             rows == Hooks!Rows(j)
  <2>1. n \in Nat
    BY <1>1, DeliveryFields
  <2>2. LedgerKept(j)
    BY <1>1 DEF LedgerInv
  <2>3. /\ IsFiniteSet(Failures(j, n)) /\ Cardinality(Failures(j, n)) = n
        /\ \A r \in Failures(j, n) : ~r.ok /\ r.attempt \in 1 .. n
        /\ {r.attempt : r \in Failures(j, n)} = 1 .. n
    <3>1. \A i : Failure(j, i).attempt = i /\ Failure(j, i).ok = FALSE
      BY DEF Failure
    <3>2. IsFiniteSet(Failures(j, n)) /\ Cardinality(Failures(j, n)) = n
      BY <2>1, FailuresCounted
    <3>3. \A r \in Failures(j, n) : ~r.ok /\ r.attempt \in 1 .. n
      BY <3>1 DEF Failures
    <3>4. {r.attempt : r \in Failures(j, n)} = 1 .. n
      BY <3>1 DEF Failures
    <3> QED
      BY <3>2, <3>3, <3>4
  <2>4. Success(j, n + 1).ok /\ Success(j, n + 1).attempt = n + 1
    BY DEF Success
  <2>5. poster[j].pc # "posted" => rows = Received(j)
    BY <2>2 DEF LedgerKept
  <2> HIDE DEF n, rows
  <2>6. /\ {r.attempt : r \in rows} = 1 .. Cardinality(rows)
        /\ Cardinality({r \in rows : ~r.ok}) = n
        /\ \A r \in rows : r.ok => r.attempt = Cardinality(rows) /\ delivery[j].state = "done"
    <3>1. CASE rows = Failures(j, n)
      <4>1. {r \in rows : ~r.ok} = rows
        BY <2>3, <3>1
      <4> QED
        BY <2>1, <2>3, <3>1, <4>1
    <3>2. CASE delivery[j].state = "done" /\ rows = Failures(j, n) \cup {Success(j, n + 1)}
      <4>1. Success(j, n + 1) \notin Failures(j, n)
        BY <2>3, <2>4
      <4>2. Cardinality(rows) = n + 1
        BY <2>1, <2>3, <3>2, <4>1, FS_AddElement
      <4>3. {r \in rows : ~r.ok} = Failures(j, n)
        BY <2>3, <2>4, <3>2
      <4>4. {r.attempt : r \in rows} = (1 .. n) \cup {n + 1}
        BY <2>3, <2>4, <3>2
      <4>5. (1 .. n) \cup {n + 1} = 1 .. n + 1
        BY <2>1
      <4>6. \A r \in rows : r.ok => r.attempt = n + 1
        BY <2>3, <2>4, <3>2
      <4> QED
        BY <2>3, <3>2, <4>2, <4>3, <4>4, <4>5, <4>6
    <3> QED
      BY <2>2, <3>1, <3>2 DEF LedgerKept, Kept, n, rows
  <2>7. Received(j) = {[job |-> j, attempt |-> p.attempt, ok |-> p.ok] : p \in {q \in posts : q.job = j}}
    BY DEF Received, Line
  <2> QED
    BY <2>5, <2>6, <2>7 DEF n, rows
<1>2. LedgerInv => LedgerIsComplete
  BY <1>1 DEF LedgerIsComplete, Hooks!LedgerIsComplete, Hooks!Cardinality, Cardinality
<1> QED
  BY <1>2, LedgerKeeps, PTL

-----------------------------------------------------------------------------
(***************************************************************************)
(* Backups and files                                                       *)
(***************************************************************************)

Copy == 1 .. MaxBackups
Dumping == [pc : {"idle", "dump", "upload", "finish"}, of : Copy \cup {None},
            rows : Files!Snapshot \cup {None}]

BackupShape ==
    /\ file \in [File -> Files!FileState] /\ backup \in [Copy -> Files!BackupRow \cup {None}]
    /\ dump \in [Copy -> Files!Snapshot \cup {None}] /\ dumping \in Dumping
    /\ dumping.pc # "idle" => dumping.of \in Copy
    /\ dumping.pc = "upload" => dumping.rows \in Files!Snapshot
    /\ started \in Nat /\ pruning \subseteq Copy /\ made \subseteq Copy /\ today \in 0 .. LastDay

DoneIn(column, b) == column[b] # None /\ column[b].status = "done"

(* Rows that a dump may hold: the files open, what they call done was, and ids
   are given in order. *)
Sound(rows) ==
    /\ \A f \in File : rows.file[f] = "ready" => f \in bucket
    /\ \A b \in Copy : /\ DoneIn(rows.backup, b) => b \in made
                       /\ rows.backup[b] # None => b <= started

RowsSound ==
    /\ Sound(Files!Rows)
    /\ \A b \in Copy : dump[b] # None => Sound(dump[b])
    /\ dumping.pc = "upload" => Sound(dumping.rows)

(* What is dropped is done and not the newest that was completed; what is
   being dumped runs, so it is none of those. *)
PruningSpares == \A b \in pruning : DoneIn(backup, b) /\ \E c \in made : c > b

DumpRuns ==
    /\ dumping.pc # "idle" => /\ backup[dumping.of] # None
                              /\ backup[dumping.of].status = "running"
    /\ dumping.pc = "finish" => dump[dumping.of] # None

NewestKept == \A b \in made : (\A c \in made : c <= b) => dump[b] # None

BackupInv == BackupShape /\ RowsSound /\ PruningSpares /\ DumpRuns /\ NewestKept

LEMMA BackupFields ==
    ASSUME BackupInv
    PROVE  /\ dumping.pc \in {"idle", "dump", "upload", "finish"}
           /\ dumping.of \in Copy \cup {None} /\ dumping.rows \in Files!Snapshot \cup {None}
           /\ Files!NoDump \in Dumping /\ Files!NoDump.pc = "idle"
           /\ \A b \in Copy : backup[b] \in Files!BackupRow \cup {None}
           /\ Copy \subseteq Nat
           /\ Files!Rows.file = file /\ Files!Rows.backup = backup
           /\ Files!Rows \in Files!Snapshot
  BY DEF BackupInv, BackupShape, Dumping, Files!NoDump, Copy, Files!Rows, Files!Snapshot

(* What Sound says of the rows as they are. *)
LEMMA RowsNow ==
    Sound(Files!Rows) <=>
        /\ \A f \in File : file[f] = "ready" => f \in bucket
        /\ \A b \in Copy : /\ backup[b] # None /\ backup[b].status = "done" => b \in made
                           /\ backup[b] # None => b <= started
  BY DEF Sound, DoneIn, Files!Rows

LEMMA BackupInit == Files!Init => BackupInv
<1> SUFFICES ASSUME Files!Init PROVE BackupInv
  OBVIOUS
<1>1. /\ file = [f \in File |-> "absent"] /\ backup = [b \in Copy |-> None]
      /\ dump = [b \in Copy |-> None] /\ dumping = Files!NoDump /\ pruning = {} /\ made = {}
      /\ today = 0 /\ bucket = {}
  BY DEF Files!Init, Copy
<1>2. BackupShape
  <2>1. Files!NoDump \in Dumping /\ Files!NoDump.pc = "idle"
    BY DEF Dumping, Files!NoDump
  <2>2. today \in 0 .. LastDay /\ started \in Nat
    BY <1>1, WorkAssumption DEF WorkAssumption, Files!Init
  <2> QED
    BY <1>1, <2>1, <2>2 DEF BackupShape, Files!FileState
<1>3. RowsSound
  BY <1>1 DEF RowsSound, Sound, DoneIn, Files!Rows, Files!NoDump
<1> QED
  BY <1>1, <1>2, <1>3 DEF BackupInv, PruningSpares, DumpRuns, NewestKept, Files!NoDump

(* What is sound stays so: bucket, completed backups and ids only grow. *)
LEMMA SoundStays ==
    ASSUME BackupInv, bucket \subseteq bucket', made \subseteq made', started' \in Nat,
           started <= started', Sound(Files!Rows)', dump' = dump,
           dumping'.pc = "upload" => dumping'.rows = Files!Rows \/ dumping' = dumping
    PROVE  RowsSound'
<1>1. ASSUME NEW rows, Sound(rows)
      PROVE  /\ \A f \in File : rows.file[f] = "ready" => f \in bucket'
             /\ \A b \in Copy : /\ DoneIn(rows.backup, b) => b \in made'
                                /\ rows.backup[b] # None => b <= started'
  BY <1>1, BackupFields DEF Sound, BackupInv, BackupShape
<1>2. \A b \in Copy : dump'[b] # None => Sound(dump[b])
  BY DEF BackupInv, RowsSound
<1>3. dumping'.pc = "upload" => Sound(dumping'.rows)
  BY DEF BackupInv, RowsSound
<1>4. \A b \in Copy : dump'[b] # None => Sound(dump[b])'
  BY <1>1, <1>2 DEF Sound, DoneIn
<1>5. dumping'.pc = "upload" => Sound(dumping.rows)'
  BY <1>1, <1>3 DEF Sound, DoneIn
<1> QED
  BY <1>4, <1>5 DEF RowsSound

(* A file changes: it is ready only when it was uploaded. *)
LEMMA FileInv ==
    ASSUME BackupInv, NEW f \in File,
           Files!CreateFile(f) \/ Files!Upload(f) \/ Files!CompleteFile(f) \/ Files!DeleteFile(f)
    PROVE  BackupInv'
<1>1. /\ UNCHANGED <<backup, dump, dumping, pruning, today, started, made>> /\ bucket \subseteq bucket'
      /\ file' \in [File -> Files!FileState]
      /\ \A g \in File : file'[g] = "ready" => file[g] = "ready" \/ g \in bucket
  BY DEF Files!CreateFile, Files!Upload, Files!CompleteFile, Files!DeleteFile, Files!BucketWithout,
         BackupInv, BackupShape, Files!FileState
<1>2. BackupShape'
  BY <1>1 DEF BackupInv, BackupShape
<1>3. Files!Rows'.file = file' /\ Files!Rows'.backup = backup
  BY <1>1 DEF Files!Rows
<1>4. Sound(Files!Rows)'
  BY <1>1, <1>3, BackupFields DEF BackupInv, RowsSound, Sound, DoneIn
<1>5. started' \in Nat /\ started <= started'
  BY <1>1 DEF BackupInv, BackupShape
<1>6. RowsSound'
  BY <1>1, <1>4, <1>5, SoundStays
<1> QED
  BY <1>1, <1>2, <1>6 DEF BackupInv, PruningSpares, DumpRuns, NewestKept, DoneIn

(* Statuses change; none becomes done, and nothing is dumped. *)
LEMMA StatusInv ==
    ASSUME BackupInv, UNCHANGED <<file, bucket, dump, made>>, BackupShape', DumpRuns',
           started <= started',
           \A b \in Copy : /\ DoneIn(backup', b) => DoneIn(backup, b)
                           /\ backup'[b] # None => backup[b] # None \/ b = started',
           \A b \in pruning' : b \in pruning /\ DoneIn(backup', b),
           dumping'.pc = "upload" => dumping'.rows = Files!Rows \/ dumping' = dumping
    PROVE  BackupInv'
<1>1. Files!Rows.file = file /\ Files!Rows.backup = backup
  BY BackupFields
<1>2. Files!Rows'.file = file' /\ Files!Rows'.backup = backup'
  BY DEF Files!Rows
<1>3. started \in Nat /\ started' \in Nat
  BY DEF BackupInv, BackupShape
<1>4. Sound(Files!Rows)'
  <2>1. Sound(Files!Rows) /\ Copy \subseteq Nat
    BY BackupFields DEF BackupInv, RowsSound
  <2>2. \A b \in Copy : /\ DoneIn(backup, b) => b \in made
                        /\ backup[b] # None => b <= started
    BY <2>1, RowsNow DEF DoneIn
  <2>3. ASSUME NEW b \in Copy, backup'[b] # None
        PROVE  b <= started'
    <3>1. CASE backup[b] # None
      <4>1. b <= started /\ b \in Nat
        BY <2>1, <2>2, <3>1
      <4> QED
        BY <4>1, <1>3
    <3>2. CASE b = started'
      BY <1>3, <3>2
    <3> QED
      BY <2>3, <3>1, <3>2 DEF DoneIn
  <2>4. \A b \in Copy : DoneIn(backup', b) => b \in made'
    BY <2>2 DEF DoneIn
  <2>5. \A f \in File : file'[f] = "ready" => f \in bucket'
    BY <2>1, RowsNow
  <2> QED
    BY <1>2, <2>3, <2>4, <2>5 DEF Sound, DoneIn
<1>5. RowsSound'
  BY <1>3, <1>4, SoundStays
<1>6. PruningSpares'
  BY DEF BackupInv, PruningSpares, DoneIn
<1> QED
  BY <1>5, <1>6 DEF BackupInv, NewestKept

LEMMA StartBackupInv ==
    ASSUME BackupInv, NEW b \in Copy, Files!StartBackup(b)
    PROVE  BackupInv'
<1>1. /\ b = started + 1 /\ started' = b
      /\ backup' = [backup EXCEPT ![b] = [status |-> "pending", day |-> today]]
      /\ UNCHANGED <<file, bucket, dump, dumping, pruning, today, made>>
  BY DEF Files!StartBackup
<1>2. /\ started \in Nat /\ [status |-> "pending", day |-> today] \in Files!BackupRow
      /\ backup \in [Copy -> Files!BackupRow \cup {None}]
  BY DEF BackupInv, BackupShape, Files!BackupRow
<1>3. backup[b] = None
  BY <1>1, <1>2, BackupFields, RowsNow DEF BackupInv, RowsSound
<1>4. BackupShape'
  BY <1>1, <1>2 DEF BackupInv, BackupShape
<1>5. \A c \in Copy : c # b => backup'[c] = backup[c]
  BY <1>1, <1>2
<1>6. ~DoneIn(backup', b)
  BY <1>1, <1>2 DEF DoneIn
<1>7. DumpRuns'
  BY <1>1, <1>3, <1>5 DEF BackupInv, BackupShape, DumpRuns
<1>8. \A c \in pruning : c # b /\ c \in Copy /\ DoneIn(backup, c)
  BY <1>3 DEF BackupInv, BackupShape, PruningSpares, DoneIn
<1> QED
  BY <1>1, <1>2, <1>4, <1>5, <1>6, <1>7, <1>8, StatusInv DEF DoneIn

LEMMA BackupRunsInv ==
    ASSUME BackupInv, NEW b \in Copy, Files!BackupRuns(b)
    PROVE  BackupInv'
<1>1. /\ dumping.pc = "idle" /\ backup[b] # None /\ backup[b].status \in {"pending", "failed"}
      /\ backup' = [backup EXCEPT ![b].status = "running"]
      /\ dumping' = [Files!NoDump EXCEPT !.pc = "dump", !.of = b]
      /\ UNCHANGED <<file, bucket, dump, pruning, today, started, made>>
  BY DEF Files!BackupRuns
<1>2. backup \in [Copy -> Files!BackupRow \cup {None}] /\ backup[b] \in Files!BackupRow
  BY <1>1 DEF BackupInv, BackupShape
<1>3. [backup[b] EXCEPT !.status = "running"] \in Files!BackupRow
  BY <1>2 DEF Files!BackupRow
<1>4. /\ backup' \in [Copy -> Files!BackupRow \cup {None}]
      /\ backup'[b].status = "running" /\ backup'[b] \in Files!BackupRow
      /\ \A c \in Copy : c # b => backup'[c] = backup[c]
  BY <1>1, <1>2, <1>3 DEF Files!BackupRow
<1>5. dumping' \in Dumping /\ dumping'.pc = "dump" /\ dumping'.of = b
  BY <1>1 DEF Dumping, Files!NoDump
<1>6. BackupShape'
  BY <1>1, <1>4, <1>5 DEF BackupInv, BackupShape
<1>7. DumpRuns'
  BY <1>4, <1>5, WorkAssumption DEF DumpRuns, WorkAssumption
<1>8. \A c \in pruning : c # b /\ c \in Copy /\ DoneIn(backup, c)
  BY <1>1 DEF BackupInv, BackupShape, PruningSpares, DoneIn
<1>9. started <= started'
  BY <1>1 DEF BackupInv, BackupShape
<1> QED
  BY <1>1, <1>4, <1>5, <1>6, <1>7, <1>8, <1>9, StatusInv DEF DoneIn

(* pg_dump reads what is there. *)
LEMMA PgDumpInv == BackupInv /\ Files!PgDump => BackupInv'
<1> SUFFICES ASSUME BackupInv, Files!PgDump PROVE BackupInv'
  OBVIOUS
<1>1. /\ dumping.pc = "dump" /\ dumping' = [dumping EXCEPT !.pc = "upload", !.rows = Files!Rows]
      /\ UNCHANGED <<file, backup, bucket, dump, pruning, today, started, made>>
  BY DEF Files!PgDump
<1>2. /\ dumping' \in Dumping /\ dumping'.pc = "upload" /\ dumping'.rows = Files!Rows
      /\ dumping'.of = dumping.of
  BY <1>1, BackupFields DEF BackupInv, BackupShape, Dumping
<1>3. BackupShape'
  BY <1>1, <1>2, BackupFields DEF BackupInv, BackupShape
<1>4. DumpRuns'
  BY <1>1, <1>2 DEF BackupInv, DumpRuns
<1>5. started <= started'
  BY <1>1 DEF BackupInv, BackupShape
<1>6. \A b \in pruning : DoneIn(backup, b)
  BY DEF BackupInv, PruningSpares
<1> QED
  BY <1>1, <1>2, <1>3, <1>4, <1>5, <1>6, StatusInv DEF DoneIn

(* The object is what was read, and all it says still holds. *)
LEMMA UploadDumpInv == BackupInv /\ Files!UploadDump => BackupInv'
<1> SUFFICES ASSUME BackupInv, Files!UploadDump PROVE BackupInv'
  OBVIOUS
<1>1. /\ dumping.pc = "upload" /\ dump' = [dump EXCEPT ![dumping.of] = dumping.rows]
      /\ dumping' = [dumping EXCEPT !.pc = "finish"]
      /\ UNCHANGED <<file, backup, bucket, pruning, today, started, made>>
  BY DEF Files!UploadDump
<1>2. dumping' \in Dumping /\ dumping'.pc = "finish" /\ dumping'.of = dumping.of
  BY <1>1 DEF BackupInv, BackupShape, Dumping
<1>3. /\ dumping.of \in Copy /\ dumping.rows \in Files!Snapshot /\ Sound(dumping.rows)
      /\ dumping.rows # None
  BY <1>1, WorkAssumption DEF BackupInv, BackupShape, RowsSound, WorkAssumption
<1>4. /\ dump' \in [Copy -> Files!Snapshot \cup {None}] /\ dump'[dumping.of] = dumping.rows
      /\ \A b \in Copy : b # dumping.of => dump'[b] = dump[b]
  BY <1>1, <1>3 DEF BackupInv, BackupShape
<1>5. BackupShape'
  BY <1>1, <1>2, <1>4 DEF BackupInv, BackupShape
<1>6. \A b \in Copy : dump'[b] # None => Sound(dump'[b])
  BY <1>3, <1>4 DEF BackupInv, RowsSound
<1>7. RowsSound'
  BY <1>1, <1>2, <1>6 DEF BackupInv, RowsSound, Sound, DoneIn, Files!Rows
<1>8. DumpRuns' /\ PruningSpares'
  BY <1>1, <1>2, <1>3, <1>4 DEF BackupInv, DumpRuns, PruningSpares, DoneIn
<1>9. NewestKept'
  BY <1>1, <1>3, <1>4 DEF BackupInv, BackupShape, NewestKept
<1> QED
  BY <1>5, <1>7, <1>8, <1>9 DEF BackupInv

(* The row of a dump is there, so its status is what the dump came to. *)
LEMMA MarkedRow ==
    ASSUME BackupInv, dumping.pc # "idle", NEW status \in {"done", "failed"},
           backup' = Files!Marked(status)
    PROVE  /\ backup' \in [Copy -> Files!BackupRow \cup {None}] /\ dumping.of \in Copy
           /\ backup'[dumping.of] \in Files!BackupRow /\ backup'[dumping.of].status = status
           /\ backup[dumping.of] # None /\ backup[dumping.of].status = "running"
           /\ \A c \in Copy : c # dumping.of => backup'[c] = backup[c]
<1>1. /\ backup \in [Copy -> Files!BackupRow \cup {None}] /\ dumping.of \in Copy
      /\ backup[dumping.of] \in Files!BackupRow
      /\ backup[dumping.of] # None /\ backup[dumping.of].status = "running"
  BY DEF BackupInv, BackupShape, DumpRuns
<1>2. backup' = [backup EXCEPT ![dumping.of].status = status]
  BY <1>1 DEF Files!Marked
<1>3. /\ [backup[dumping.of] EXCEPT !.status = status] \in Files!BackupRow
      /\ [backup[dumping.of] EXCEPT !.status = status].status = status
  BY <1>1 DEF Files!BackupRow
<1> QED
  BY <1>1, <1>2, <1>3

LEMMA BackupDoneInv == BackupInv /\ Files!BackupDone => BackupInv'
<1> SUFFICES ASSUME BackupInv, Files!BackupDone PROVE BackupInv'
  OBVIOUS
<1>1. /\ dumping.pc = "finish" /\ backup' = Files!Marked("done") /\ dumping' = Files!NoDump
      /\ made' = made \cup {dumping.of}
      /\ UNCHANGED <<file, bucket, dump, pruning, today, started>>
  BY DEF Files!BackupDone
<1>2. /\ backup' \in [Copy -> Files!BackupRow \cup {None}] /\ dumping.of \in Copy
      /\ backup'[dumping.of] \in Files!BackupRow
      /\ backup[dumping.of] # None /\ backup[dumping.of].status = "running"
      /\ \A c \in Copy : c # dumping.of => backup'[c] = backup[c]
  BY <1>1, MarkedRow
<1>3. BackupShape'
  BY <1>1, <1>2, BackupFields DEF BackupInv, BackupShape
<1>4. Sound(Files!Rows)'
  BY <1>1, <1>2, BackupFields DEF BackupInv, RowsSound, Sound, DoneIn, Files!Rows
<1>5. started <= started' /\ started' \in Nat /\ dumping'.pc = "idle" /\ made \subseteq made'
  BY <1>1, BackupFields DEF BackupInv, BackupShape
<1>6. RowsSound'
  BY <1>1, <1>4, <1>5, SoundStays
<1>7. PruningSpares'
  BY <1>1, <1>2 DEF BackupInv, BackupShape, PruningSpares, DoneIn
<1>8. NewestKept'
  <2>1. dump[dumping.of] # None
    BY <1>1 DEF BackupInv, DumpRuns
  <2> QED
    BY <1>1, <2>1 DEF BackupInv, NewestKept
<1> QED
  BY <1>3, <1>5, <1>6, <1>7, <1>8 DEF BackupInv, DumpRuns

LEMMA BackupFailsInv == BackupInv /\ Files!BackupFails => BackupInv'
<1> SUFFICES ASSUME BackupInv, Files!BackupFails PROVE BackupInv'
  OBVIOUS
<1>1. /\ dumping.pc # "idle" /\ backup' = Files!Marked("failed") /\ dumping' = Files!NoDump
      /\ UNCHANGED <<file, bucket, dump, pruning, today, started, made>>
  BY DEF Files!BackupFails
<1>2. /\ backup' \in [Copy -> Files!BackupRow \cup {None}] /\ dumping.of \in Copy
      /\ backup'[dumping.of] \in Files!BackupRow /\ backup'[dumping.of].status = "failed"
      /\ backup[dumping.of] # None /\ backup[dumping.of].status = "running"
      /\ \A c \in Copy : c # dumping.of => backup'[c] = backup[c]
  BY <1>1, MarkedRow
<1>3. BackupShape'
  BY <1>1, <1>2, BackupFields DEF BackupInv, BackupShape
<1>4. dumping'.pc = "idle" /\ started <= started'
  BY <1>1, BackupFields DEF BackupInv, BackupShape
<1>5. DumpRuns'
  BY <1>4 DEF DumpRuns
<1>6. \A b \in pruning : b \in Copy /\ DoneIn(backup, b) /\ b # dumping.of
  BY <1>2 DEF BackupInv, BackupShape, PruningSpares, DoneIn
<1> QED
  BY <1>1, <1>2, <1>3, <1>4, <1>5, <1>6, StatusInv DEF DoneIn

LEMMA WorkerStopsInv == BackupInv /\ Files!Crash => BackupInv'
<1> SUFFICES ASSUME BackupInv, Files!Crash PROVE BackupInv'
  OBVIOUS
<1>1. /\ dumping' = Files!NoDump /\ pruning' = {}
      /\ UNCHANGED <<file, backup, bucket, dump, today, started, made>>
  BY DEF Files!Crash
<1>2. dumping'.pc = "idle" /\ started <= started'
  BY <1>1, BackupFields DEF BackupInv, BackupShape
<1>3. BackupShape' /\ DumpRuns'
  BY <1>1, <1>2, BackupFields DEF BackupInv, BackupShape, DumpRuns
<1> QED
  BY <1>1, <1>2, <1>3, StatusInv DEF DoneIn

(* select_prunable() leaves the newest of what is done: what it takes has a newer one. *)
LEMMA RetentionInv == BackupInv /\ Files!RetentionRuns => BackupInv'
<1> SUFFICES ASSUME BackupInv, Files!RetentionRuns PROVE BackupInv'
  OBVIOUS
<1>1. /\ dumping.pc = "idle" /\ pruning' = Files!Prunable
      /\ UNCHANGED <<file, backup, bucket, dump, dumping, today, started, made>>
  BY DEF Files!RetentionRuns
<1>2. Files!Floor \in Nat /\ Files!Floor >= 1
  BY WorkAssumption DEF Files!Floor, WorkAssumption
<1>3. ASSUME NEW b \in Files!Prunable
      PROVE  b \in Copy /\ DoneIn(backup, b) /\ \E c \in made : c > b
  <2>1. b \in Copy /\ DoneIn(backup, b) /\ ~(Files!Rank(b) < Files!Floor)
    BY <1>3 DEF Files!Prunable, Files!Done, DoneIn, Copy
  <2>2. Files!Rank(b) # 0
    BY <1>2, <2>1
  <2>3. {c \in Files!Done : c > b} # {}
    <3>1. Cardinality({}) = 0
      BY FS_EmptySet
    <3> QED
      BY <2>2, <3>1 DEF Files!Rank, Files!Cardinality, Cardinality
  <2>4. \A c \in Files!Done : c \in made
    BY BackupFields DEF BackupInv, RowsSound, Sound, DoneIn, Files!Done, Copy
  <2> QED
    BY <2>1, <2>3, <2>4
<1>4. BackupShape'
  BY <1>1, <1>3 DEF BackupInv, BackupShape
<1>5. RowsSound'
  BY <1>1 DEF BackupInv, RowsSound, Sound, DoneIn, Files!Rows
<1>6. PruningSpares' /\ DumpRuns' /\ NewestKept'
  BY <1>1, <1>3 DEF BackupInv, PruningSpares, DumpRuns, NewestKept, DoneIn
<1> QED
  BY <1>4, <1>5, <1>6 DEF BackupInv

LEMMA PruneObjectInv ==
    ASSUME BackupInv, NEW b \in Copy, Files!PruneObject(b)
    PROVE  BackupInv'
<1>1. /\ b \in pruning /\ dump' = [dump EXCEPT ![b] = None]
      /\ UNCHANGED <<file, backup, bucket, dumping, pruning, today, started, made>>
  BY DEF Files!PruneObject
<1>2. /\ dump' \in [Copy -> Files!Snapshot \cup {None}] /\ dump'[b] = None
      /\ \A c \in Copy : c # b => dump'[c] = dump[c]
  BY <1>1 DEF BackupInv, BackupShape
<1>3. BackupShape'
  BY <1>1, <1>2 DEF BackupInv, BackupShape
<1>4. \A c \in Copy : dump'[c] # None => dump'[c] = dump[c]
  BY <1>2
<1>5. RowsSound'
  BY <1>1, <1>4 DEF BackupInv, RowsSound, Sound, DoneIn, Files!Rows
<1>6. DoneIn(backup, b) /\ \E c \in made : c > b
  BY <1>1 DEF BackupInv, PruningSpares
<1>7. PruningSpares' /\ DumpRuns'
  BY <1>1, <1>2, <1>6 DEF BackupInv, BackupShape, PruningSpares, DumpRuns, DoneIn
<1>8. NewestKept'
  BY <1>1, <1>2, <1>6, BackupFields DEF BackupInv, BackupShape, NewestKept
<1> QED
  BY <1>3, <1>5, <1>7, <1>8 DEF BackupInv

LEMMA PruneRowInv ==
    ASSUME BackupInv, NEW b \in Copy, Files!PruneRow(b)
    PROVE  BackupInv'
<1>1. /\ b \in pruning /\ pruning' = pruning \ {b} /\ backup' = [backup EXCEPT ![b] = None]
      /\ UNCHANGED <<file, bucket, dump, dumping, today, started, made>>
  BY DEF Files!PruneRow
<1>2. /\ backup' \in [Copy -> Files!BackupRow \cup {None}] /\ backup'[b] = None
      /\ \A c \in Copy : c # b => backup'[c] = backup[c]
  BY <1>1 DEF BackupInv, BackupShape
<1>3. BackupShape'
  BY <1>1, <1>2 DEF BackupInv, BackupShape
<1>4. DoneIn(backup, b)
  BY <1>1 DEF BackupInv, PruningSpares
<1>5. DumpRuns'
  BY <1>1, <1>2, <1>4 DEF BackupInv, BackupShape, DumpRuns, DoneIn
<1>6. started <= started'
  BY <1>1 DEF BackupInv, BackupShape
<1>7. \A c \in pruning' : c \in pruning /\ c \in Copy /\ c # b /\ DoneIn(backup, c)
  BY <1>1 DEF BackupInv, BackupShape, PruningSpares
<1> QED
  BY <1>1, <1>2, <1>3, <1>5, <1>6, <1>7, StatusInv DEF DoneIn

(* The rows of a sound dump are sound again. *)
LEMMA RestoreInv ==
    ASSUME BackupInv, NEW b \in Copy, Files!Restore(b)
    PROVE  BackupInv'
<1>1. /\ dumping.pc = "idle" /\ pruning = {} /\ dump[b] # None
      /\ file' = dump[b].file /\ backup' = dump[b].backup
      /\ UNCHANGED <<bucket, dump, dumping, pruning, today, started, made>>
  BY DEF Files!Restore
<1>2. dump[b] \in Files!Snapshot /\ Sound(dump[b])
  BY <1>1 DEF BackupInv, BackupShape, RowsSound
<1>3. file' \in [File -> Files!FileState] /\ backup' \in [Copy -> Files!BackupRow \cup {None}]
  BY <1>1, <1>2 DEF Files!Snapshot, Copy
<1>4. BackupShape'
  BY <1>1, <1>3 DEF BackupInv, BackupShape
<1>5. Files!Rows'.file = dump[b].file /\ Files!Rows'.backup = dump[b].backup
  BY <1>1 DEF Files!Rows
<1>6. Sound(Files!Rows)'
  BY <1>1, <1>2, <1>5 DEF Sound, DoneIn
<1>7. started' \in Nat /\ started <= started'
  BY <1>1 DEF BackupInv, BackupShape
<1>8. RowsSound'
  BY <1>1, <1>6, <1>7, SoundStays
<1> QED
  BY <1>1, <1>4, <1>8 DEF BackupInv, PruningSpares, DumpRuns, NewestKept

LEMMA DayInv == BackupInv /\ Files!Tick => BackupInv'
<1> SUFFICES ASSUME BackupInv, Files!Tick PROVE BackupInv'
  OBVIOUS
<1>1. /\ today < LastDay /\ today' = today + 1
      /\ UNCHANGED <<file, backup, bucket, dump, dumping, pruning, started, made>>
  BY DEF Files!Tick
<1>2. BackupShape'
  BY <1>1, WorkAssumption DEF BackupInv, BackupShape, WorkAssumption
<1> QED
  BY <1>1, <1>2
     DEF BackupInv, RowsSound, Sound, DoneIn, Files!Rows, PruningSpares, DumpRuns, NewestKept

LEMMA BackupKeeps == WorkSpec => []BackupInv
<1>1. WorkInit => BackupInv
  BY BackupInit DEF WorkInit
<1>2. ASSUME BackupInv, [WorkNext]_workVars
      PROVE  BackupInv'
  <2>1. Files!Next \/ UNCHANGED filesVars
    BY <1>2 DEF WorkNext, workVars
  <2>2. CASE UNCHANGED filesVars
    BY <1>2, <2>2
       DEF filesVars, BackupInv, BackupShape, RowsSound, Sound, DoneIn, Files!Rows, PruningSpares,
           DumpRuns, NewestKept
  <2>3. CASE Files!Next
    BY <1>2, <2>3, FileInv, StartBackupInv, BackupRunsInv, PgDumpInv, UploadDumpInv, BackupDoneInv,
       BackupFailsInv, WorkerStopsInv, RetentionInv, PruneObjectInv, PruneRowInv, RestoreInv, DayInv
       DEF Files!Next, Copy
  <2> QED
    BY <2>1, <2>2, <2>3
<1> QED
  BY <1>1, <1>2, PTL DEF WorkSpec

(* The newest backup that was completed can be restored, and whatever is restored, the
   files it shows as ready open: however uploads, failures, stops, retention and restores
   follow each other (select_prunable() in domain/backups.rs, jobs/mod.rs). *)
THEOREM TheNewestRestores == WorkSpec => []RestoreIsPossible
<1>1. BackupInv => RestoreIsPossible
  BY DEF BackupInv, RowsSound, Sound, NewestKept, Copy, RestoreIsPossible,
         Files!RestoreIsPossible, Files!FilesOpen
<1> QED
  BY <1>1, BackupKeeps, PTL

-----------------------------------------------------------------------------
(***************************************************************************)
(* Realtime                                                                *)
(***************************************************************************)

(* An event; a change of tasks is about nobody. *)
Notice == {e \in [of : Query, me : BOOLEAN] : e.of = "tasks" => ~e.me}
Socket == [pc : {"closed", "loaded", "open"}, accessible : BOOLEAN, subscribed : BOOLEAN]

EventShape ==
    /\ socket \in Socket /\ member \in BOOLEAN /\ channel \in Seq(Notice) /\ wire \in Seq(Notice)
    /\ \A u \in unpublished : [of |-> u.of, me |-> u.me] \in Notice
    /\ DOMAIN fetch = Query /\ DOMAIN page = Query
    /\ DOMAIN unbroken = Query /\ DOMAIN version = Query
    /\ \A q \in Query : unbroken[q] \in BOOLEAN

Mentions(s, q) == \E i \in DOMAIN s : s[i].of = q

(* An event that will make the tab ask again. *)
Announced(q) == (\E u \in unpublished : u.of = q) \/ Mentions(channel, q) \/ Mentions(wire, q)

(* What a query shows in the end; of tasks, for a member. *)
Truth(q) == IF q = "project" THEN Realtime!Read(q) ELSE version[q]

(* While nothing was lost, the connection hears, and what is shown or was read
   for an answer is the truth, unless an event will have it asked for again. *)
Follows(q) ==
    unbroken[q] =>
        /\ Realtime!Hears
        /\ page[q] = Truth(q) \/ Announced(q) \/ fetch[q].pc # "idle"
        /\ fetch[q].pc = "answered" => fetch[q].v = Truth(q) \/ Announced(q)

TabInv == EventShape /\ \A q \in Query : Follows(q)

LEMMA SeqAppend ==
    ASSUME NEW S, NEW s \in Seq(S), NEW e \in S, NEW q
    PROVE  /\ Append(s, e) \in Seq(S)
           /\ Mentions(Append(s, e), q) <=> Mentions(s, q) \/ e.of = q
<1>1. /\ Append(s, e) \in Seq(S) /\ Len(Append(s, e)) = Len(s) + 1 /\ Len(s) \in Nat
      /\ \A i \in 1 .. Len(s) : Append(s, e)[i] = s[i]
      /\ Append(s, e)[Len(s) + 1] = e
  BY AppendProperties, LenProperties
<1>2. DOMAIN Append(s, e) = 1 .. Len(s) + 1 /\ DOMAIN s = 1 .. Len(s)
  BY <1>1, LenProperties
<1>3. DOMAIN Append(s, e) = DOMAIN s \cup {Len(s) + 1}
  BY <1>1, <1>2
<1> QED
  BY <1>1, <1>2, <1>3 DEF Mentions

LEMMA SeqTail ==
    ASSUME NEW S, NEW s \in Seq(S), s # <<>>, NEW q
    PROVE  /\ Tail(s) \in Seq(S) /\ Head(s) \in S
           /\ Mentions(s, q) <=> Mentions(Tail(s), q) \/ Head(s).of = q
<1>1. /\ Tail(s) \in Seq(S) /\ Head(s) \in S /\ Len(Tail(s)) = Len(s) - 1
      /\ \A i \in 1 .. Len(Tail(s)) : Tail(s)[i] = s[i + 1]
  BY HeadTailProperties
<1>2. /\ DOMAIN s = 1 .. Len(s) /\ Len(s) \in Nat /\ Len(s) > 0 /\ Head(s) = s[1]
      /\ DOMAIN Tail(s) = 1 .. Len(s) - 1
  BY <1>1, LenProperties, EmptySeq
<1>3. ASSUME Mentions(s, q) PROVE Mentions(Tail(s), q) \/ Head(s).of = q
  <2>1. PICK i \in DOMAIN s : s[i].of = q
    BY <1>3 DEF Mentions
  <2>2. CASE i = 1
    BY <1>2, <2>1, <2>2
  <2>3. CASE i # 1
    <3>1. i - 1 \in DOMAIN Tail(s) /\ Tail(s)[i - 1] = s[i]
      BY <1>1, <1>2, <2>1, <2>3
    <3> QED
      BY <2>1, <3>1 DEF Mentions
  <2> QED
    BY <2>2, <2>3
<1>4. ASSUME Mentions(Tail(s), q) PROVE Mentions(s, q)
  <2>1. PICK i \in DOMAIN Tail(s) : Tail(s)[i].of = q
    BY <1>4 DEF Mentions
  <2>2. i + 1 \in DOMAIN s /\ Tail(s)[i] = s[i + 1]
    BY <1>1, <1>2, <2>1
  <2> QED
    BY <2>1, <2>2 DEF Mentions
<1>5. Head(s).of = q => Mentions(s, q)
  BY <1>2 DEF Mentions
<1> QED
  BY <1>1, <1>3, <1>4, <1>5

LEMMA TabFields ==
    ASSUME TabInv
    PROVE  /\ Realtime!Closed \in Socket /\ socket.pc \in {"closed", "loaded", "open"}
           /\ Realtime!Asked.pc = "asked" /\ Realtime!Idle.pc = "idle"
           /\ Query \subseteq {"tasks", "project", "inbox"}
           /\ <<>> \in Seq(Notice)
           /\ \A q : ~Mentions(<<>>, q)
<1>1. \A q : ~Mentions(<<>>, q)
  BY DEF Mentions
<1>2. Realtime!Closed \in Socket /\ socket.pc \in {"closed", "loaded", "open"}
  BY DEF Realtime!Closed, Socket, TabInv, EventShape
<1>3. Realtime!Asked.pc = "asked" /\ Realtime!Idle.pc = "idle"
  BY DEF Realtime!Asked, Realtime!Idle
<1> QED
  BY <1>1, <1>2, <1>3, WorkAssumption DEF WorkAssumption

LEMMA TabInit == Realtime!Init => TabInv
  BY DEF Realtime!Init, TabInv, EventShape, Follows, Realtime!Closed, Socket

LEMMA TableChangeInv == 
    ASSUME TabInv, NEW q \in Query, NEW me \in BOOLEAN, Realtime!Write(q, me)
    PROVE  TabInv'
<1>1. /\ q = "tasks" => ~me
      /\ version' = [version EXCEPT ![q] = @ + 1]
      /\ member' = IF q = "project" /\ me THEN ~member ELSE member
      /\ unpublished' = unpublished \cup {[of |-> q, me |-> me, n |-> version[q]]}
      /\ UNCHANGED <<socket, channel, wire, page, fetch, unbroken>>
  BY DEF Realtime!Write
<1>2. PICK u \in unpublished' : u.of = q /\ u.me = me /\ unpublished' = unpublished \cup {u}
  BY <1>1
<1>3. EventShape' /\ Announced(q)'
  <2>1. member' \in BOOLEAN
    BY <1>1 DEF TabInv, EventShape
  <2>2. [of |-> u.of, me |-> u.me] \in Notice
    BY <1>1, <1>2 DEF Notice
  <2>3. \A w \in unpublished' : [of |-> w.of, me |-> w.me] \in Notice
    BY <1>2, <2>2 DEF TabInv, EventShape
  <2>4. EventShape'
    BY <1>1, <2>1, <2>3 DEF TabInv, EventShape
  <2> QED
    BY <1>2, <2>4 DEF Announced
<1>4. \A p \in Query : (Announced(p) => Announced(p)') /\ (p # q => Truth(p)' = Truth(p))
  BY <1>1 DEF TabInv, EventShape, Announced, Mentions, Truth, Realtime!Read
<1>5. Realtime!Hears' = Realtime!Hears
  BY <1>1 DEF Realtime!Hears
<1> QED
  BY <1>1, <1>3, <1>4, <1>5 DEF TabInv, Follows

(* What changes neither the tables nor the tab keeps Follows where nothing is lost. *)
LEMMA TabWaits ==
    ASSUME TabInv, UNCHANGED <<version, member, page, fetch>>, EventShape',
           \A q \in Query : unbroken'[q] =>
               /\ unbroken[q]
               /\ Realtime!Hears => Realtime!Hears' /\ (Announced(q) => Announced(q)')
    PROVE  TabInv'
<1>1. \A q \in Query : Truth(q)' = Truth(q)
  BY DEF Truth, Realtime!Read
<1> QED
  BY <1>1 DEF TabInv, Follows

LEMMA PublishInv == 
    ASSUME TabInv, NEW u \in unpublished, Realtime!Publish(u)
    PROVE  TabInv'
<1> DEFINE e == [of |-> u.of, me |-> u.me]
<1>1. /\ unpublished' = unpublished \ {u} /\ UNCHANGED <<version, member, socket, wire, page, fetch>>
      /\ \/ /\ channel' = IF Realtime!Hears THEN Append(channel, e) ELSE channel
            /\ unbroken' = unbroken
         \/ /\ unbroken' = [q \in Query |-> unbroken[q] /\ q \notin {u.of}]
            /\ channel' = channel
  BY DEF Realtime!Publish, Realtime!Broken
<1>2. e \in Notice /\ e.of = u.of /\ channel \in Seq(Notice)
  BY DEF TabInv, EventShape
<1> HIDE DEF e
<1>3. /\ Append(channel, e) \in Seq(Notice)
      /\ \A q : Mentions(Append(channel, e), q) <=> Mentions(channel, q) \/ u.of = q
  BY <1>2, SeqAppend
<1>4. EventShape'
  BY <1>1, <1>3 DEF TabInv, EventShape
<1>5. Realtime!Hears' = Realtime!Hears
  BY <1>1 DEF Realtime!Hears
<1>6. ASSUME NEW q \in Query, unbroken'[q]
      PROVE  unbroken[q] /\ (Realtime!Hears => (Announced(q) => Announced(q)'))
  BY <1>1, <1>3, <1>6 DEF Announced
<1> QED
  BY <1>1, <1>4, <1>5, <1>6, TabWaits

LEMMA StopInv == TabInv /\ Realtime!Stop => TabInv'
<1> SUFFICES ASSUME TabInv, Realtime!Stop PROVE TabInv'
  OBVIOUS
<1>1. /\ unpublished' = {} /\ UNCHANGED <<version, member, socket, channel, wire, page, fetch>>
      /\ unbroken' = [q \in Query |-> unbroken[q] /\ q \notin {u.of : u \in unpublished}]
  BY DEF Realtime!Stop, Realtime!Broken
<1>2. EventShape'
  BY <1>1 DEF TabInv, EventShape
<1>3. Realtime!Hears' = Realtime!Hears
  BY <1>1 DEF Realtime!Hears
<1>4. ASSUME NEW q \in Query, unbroken'[q]
      PROVE  unbroken[q] /\ (Announced(q) => Announced(q)')
  BY <1>1, <1>4 DEF Announced
<1> QED
  BY <1>1, <1>2, <1>3, <1>4, TabWaits

(* The connection opens, looks again or is lost. *)
LEMMA ConnectionsInv ==
    ASSUME TabInv,
           Realtime!Dial \/ Realtime!Subscribe \/ Realtime!Refresh \/ Realtime!LoseRedis \/ Realtime!Close
    PROVE  TabInv'
<1>1. UNCHANGED <<version, member, unpublished, page, fetch>>
  BY DEF Realtime!Dial, Realtime!Subscribe, Realtime!Refresh, Realtime!LoseRedis, Realtime!Close
<1>2. CASE Realtime!Dial \/ Realtime!Subscribe
  <2>1. UNCHANGED <<channel, wire, unbroken>> /\ ~Realtime!Hears
    BY <1>2 DEF Realtime!Dial, Realtime!Subscribe, Realtime!Hears
  <2>2. socket' \in Socket
    <3>1. member \in BOOLEAN /\ socket \in Socket
      BY DEF TabInv, EventShape
    <3>2. CASE socket' = [socket EXCEPT !.pc = "loaded", !.accessible = member]
      BY <3>1, <3>2 DEF Socket
    <3>3. CASE socket' = [socket EXCEPT !.pc = "open", !.subscribed = TRUE]
      BY <3>1, <3>3 DEF Socket
    <3> QED
      BY <1>2, <3>2, <3>3 DEF Realtime!Dial, Realtime!Subscribe
  <2>3. EventShape'
    BY <1>1, <2>1, <2>2 DEF TabInv, EventShape
  <2> QED
    BY <1>1, <2>1, <2>3, TabWaits
<1>3. CASE Realtime!Refresh
  <2>1. UNCHANGED <<channel, wire, unbroken>> /\ socket' = [socket EXCEPT !.accessible = member]
    BY <1>3 DEF Realtime!Refresh
  <2>2. socket'.pc = socket.pc /\ socket'.subscribed = socket.subscribed
    BY <2>1 DEF TabInv, EventShape, Socket
  <2>3. socket' \in Socket
    <3>1. member \in BOOLEAN
      BY DEF TabInv, EventShape
    <3> QED
      BY <2>1, <3>1 DEF TabInv, EventShape, Socket
  <2>4. EventShape'
    BY <1>1, <2>1, <2>3 DEF TabInv, EventShape
  <2> QED
    BY <1>1, <2>1, <2>2, <2>4, TabWaits DEF Realtime!Hears, Announced
<1>4. CASE Realtime!LoseRedis \/ Realtime!Close
  <2>1. unbroken' = [q \in Query |-> unbroken[q] /\ q \notin Query]
    BY <1>4 DEF Realtime!LoseRedis, Realtime!Close, Realtime!Broken
  <2>2. channel' = <<>> /\ wire' \in {wire, <<>>}
    BY <1>4 DEF Realtime!LoseRedis, Realtime!Close
  <2>3. socket' \in Socket
    BY <1>4, TabFields DEF Realtime!LoseRedis, Realtime!Close, TabInv, EventShape, Socket
  <2>4. EventShape'
    BY <1>1, <2>1, <2>2, <2>3, TabFields DEF TabInv, EventShape
  <2> QED
    BY <1>1, <2>1, <2>4, TabWaits
<1> QED
  BY <1>2, <1>3, <1>4

LEMMA ForwardInv == TabInv /\ Realtime!Forward => TabInv'
<1> SUFFICES ASSUME TabInv, Realtime!Forward PROVE TabInv'
  OBVIOUS
<1>1. PICK e \in {Head(channel)} : e = Head(channel)
  OBVIOUS
<1>2. /\ channel # <<>> /\ channel' = Tail(channel)
      /\ UNCHANGED <<version, member, unpublished, socket, page, fetch>>
      /\ IF Realtime!ShouldForward(e)
           THEN wire' = Append(wire, e) /\ unbroken' = unbroken
           ELSE /\ wire' = wire
                /\ IF e.me THEN unbroken' = unbroken
                   ELSE unbroken' = [q \in Query |-> unbroken[q] /\ q \notin {e.of}]
  BY <1>1 DEF Realtime!Forward, Realtime!Broken
<1>3. /\ e \in Notice /\ Tail(channel) \in Seq(Notice)
      /\ \A q : Mentions(channel, q) <=> Mentions(channel', q) \/ e.of = q
  BY <1>1, <1>2, SeqTail DEF TabInv, EventShape
<1>4. /\ Append(wire, e) \in Seq(Notice)
      /\ \A q : Mentions(Append(wire, e), q) <=> Mentions(wire, q) \/ e.of = q
  BY <1>3, SeqAppend DEF TabInv, EventShape
<1>5. e.me => Realtime!ShouldForward(e)
  BY <1>3, TabFields DEF Notice, Realtime!ShouldForward
<1>6. EventShape'
  BY <1>2, <1>3, <1>4 DEF TabInv, EventShape
<1>7. Realtime!Hears' = Realtime!Hears
  BY <1>2 DEF Realtime!Hears
<1>8. ASSUME NEW q \in Query, unbroken'[q]
      PROVE  unbroken[q] /\ (Announced(q) => Announced(q)')
  <2>1. CASE Realtime!ShouldForward(e)
    BY <1>2, <1>3, <1>4, <1>8, <2>1 DEF Announced
  <2>2. CASE ~Realtime!ShouldForward(e)
    BY <1>2, <1>3, <1>5, <1>8, <2>2 DEF Announced
  <2> QED
    BY <2>1, <2>2
<1> QED
  BY <1>2, <1>6, <1>7, <1>8, TabWaits

(* Asking again makes a query follow whatever is announced or not. *)
LEMMA AskAgain ==
    ASSUME TabInv, NEW Q, UNCHANGED <<version, member, unpublished, socket, channel, page, unbroken>>,
           fetch' = [q \in Query |-> IF q \in Q THEN Realtime!Asked ELSE fetch[q]],
           wire' \in Seq(Notice),
           \A q \in Query : Mentions(wire, q) => q \in Q \/ Mentions(wire', q)
    PROVE  TabInv'
<1>1. EventShape'
  BY DEF TabInv, EventShape
<1>2. \A q \in Query : Truth(q)' = Truth(q) /\ Realtime!Hears' = Realtime!Hears
  BY DEF Truth, Realtime!Read, Realtime!Hears
<1>3. \A q \in Query : Announced(q) => Announced(q)' \/ q \in Q
  BY DEF Announced
<1> QED
  BY <1>1, <1>2, <1>3, TabFields DEF TabInv, Follows

LEMMA ReceiveInv == TabInv /\ Realtime!Receive => TabInv'
<1> SUFFICES ASSUME TabInv, Realtime!Receive PROVE TabInv'
  OBVIOUS
<1>1. /\ wire # <<>> /\ wire' = Tail(wire) /\ wire \in Seq(Notice)
      /\ UNCHANGED <<version, member, unpublished, socket, channel, page, unbroken>>
      /\ fetch' = [q \in Query |-> IF q \in {Head(wire).of} THEN Realtime!Asked ELSE fetch[q]]
  BY DEF Realtime!Receive, Realtime!Invalidate, TabInv, EventShape
<1>2. /\ wire' \in Seq(Notice)
      /\ \A q \in Query : Mentions(wire, q) => q \in {Head(wire).of} \/ Mentions(wire', q)
  BY <1>1, SeqTail
<1> QED
  BY <1>1, <1>2, AskAgain

LEMMA RefetchInv == TabInv /\ Realtime!Refetch => TabInv'
  BY AskAgain DEF Realtime!Refetch, Realtime!Invalidate, TabInv, EventShape

LEMMA AnswerInv == 
    ASSUME TabInv, NEW q \in Query, Realtime!ReadAnswer(q)
    PROVE  TabInv'
<1>1. /\ UNCHANGED <<version, member, unpublished, socket, channel, wire, page>>
      /\ fetch' = [fetch EXCEPT ![q] = [pc |-> "answered", v |-> Realtime!Read(q)]]
      /\ unbroken' = [unbroken EXCEPT ![q] =
                        Realtime!Hears /\ (q = "tasks" => member /\ socket.accessible)]
  BY DEF Realtime!ReadAnswer
<1>2. /\ fetch'[q].pc = "answered" /\ fetch'[q].v = Realtime!Read(q)
      /\ unbroken'[q] => Realtime!Hears /\ (q = "tasks" => member)
      /\ unbroken'[q] \in BOOLEAN
      /\ \A p \in Query : p # q => fetch'[p] = fetch[p] /\ unbroken'[p] = unbroken[p]
  BY <1>1 DEF TabInv, EventShape, Realtime!Hears
<1>3. EventShape'
  BY <1>1, <1>2 DEF TabInv, EventShape
<1>4. /\ Realtime!Hears' = Realtime!Hears
      /\ \A p \in Query : Truth(p)' = Truth(p) /\ Announced(p)' = Announced(p)
  BY <1>1 DEF Realtime!Hears, Truth, Realtime!Read, Announced
<1>5. unbroken'[q] => Realtime!Read(q) = Truth(q)
  BY <1>2, TabFields DEF Truth, Realtime!Read
<1> QED
  BY <1>1, <1>2, <1>3, <1>4, <1>5 DEF TabInv, Follows

LEMMA ShowInv == 
    ASSUME TabInv, NEW q \in Query, Realtime!Show(q)
    PROVE  TabInv'
<1>1. /\ fetch[q].pc = "answered" /\ UNCHANGED <<version, member, unpublished, socket, channel, wire, unbroken>>
      /\ page' = [page EXCEPT ![q] = fetch[q].v] /\ fetch' = [fetch EXCEPT ![q] = Realtime!Idle]
  BY DEF Realtime!Show
<1>2. /\ page'[q] = fetch[q].v /\ fetch'[q].pc = "idle"
      /\ \A p \in Query : p # q => fetch'[p] = fetch[p] /\ page'[p] = page[p]
  BY <1>1, TabFields DEF TabInv, EventShape
<1>3. EventShape'
  BY <1>1 DEF TabInv, EventShape
<1>4. /\ Realtime!Hears' = Realtime!Hears
      /\ \A p \in Query : Truth(p)' = Truth(p) /\ Announced(p)' = Announced(p)
  BY <1>1 DEF Realtime!Hears, Truth, Realtime!Read, Announced
<1> QED
  BY <1>1, <1>2, <1>3, <1>4 DEF TabInv, Follows

LEMMA TabKeeps == WorkSpec => []TabInv
<1>1. WorkInit => TabInv
  BY TabInit DEF WorkInit
<1>2. ASSUME TabInv, [WorkNext]_workVars
      PROVE  TabInv'
  <2>1. Realtime!Next \/ UNCHANGED eventsVars
    BY <1>2 DEF WorkNext, workVars
  <2>2. CASE UNCHANGED eventsVars
    BY <1>2, <2>2
       DEF eventsVars, TabInv, EventShape, Follows, Announced, Truth, Realtime!Read, Realtime!Hears
  <2>3. CASE Realtime!Next
    BY <1>2, <2>3, TableChangeInv, PublishInv, StopInv, ConnectionsInv, ForwardInv, ReceiveInv,
       RefetchInv, AnswerInv, ShowInv DEF Realtime!Next
  <2> QED
    BY <2>1, <2>2, <2>3
<1> QED
  BY <1>1, <1>2, PTL DEF WorkSpec

(* A tab that nothing was lost to, and that nothing is on its way to, shows what the tables
   hold: whatever writes, events, answers and refetches overlap, and however stale the set of
   projects its connection filters by (infra/events.rs, routes/ws.rs, apps/web/lib/ws.ts). *)
THEOREM TheTabCatchesUp == WorkSpec => []UpToDate
<1>1. ASSUME TabInv PROVE UpToDate
  <2> SUFFICES ASSUME NEW q \in Query, unbroken[q], ~Realtime!OnItsWay(q), q = "tasks" => member
               PROVE  page[q] = Realtime!Read(q)
    BY DEF UpToDate, Realtime!UpToDate
  <2>1. ~Announced(q) /\ fetch[q].pc = "idle"
    BY <1>1, TabFields DEF Realtime!OnItsWay, Announced, Mentions
  <2>2. page[q] = Truth(q)
    BY <1>1, <2>1 DEF TabInv, Follows
  <2> QED
    BY <1>1, <2>2, TabFields DEF Truth, Realtime!Read
<1> QED
  BY <1>1, TabKeeps, PTL
-----------------------------------------------------------------------------
(***************************************************************************)
(* The types of the parts                                                  *)
(***************************************************************************)

(* The attempts of a ticket, which it has left as long as it is pending. *)
AttemptsLeft(row) == row.attempts <= MaxAttempts /\ (row.row /\ ~row.finished => row.attempts < MaxAttempts)
TicketsTyped == \A i \in Ticker : AttemptsLeft(ticket[i])

LEMMA OneTicket ==
    ASSUME TickerInv, TicketsTyped, NEW i \in Ticker, NEW r \in TicketRow,
           ticket' = [ticket EXCEPT ![i] = r], AttemptsLeft(r)
    PROVE  TicketsTyped'
<1>1. \A j \in Ticker : ticket'[j] = IF j = i THEN r ELSE ticket[j]
  BY DEF TickerInv, TickerShape
<1> QED
  BY <1>1 DEF TicketsTyped, AttemptsLeft

LEMMA TicketStep ==
    ASSUME TickerInv, TicketsTyped, Schedule!Next
    PROVE  TicketsTyped'
<1>0. MaxAttempts \in Nat \ {0}
  BY ConstantsAssumption DEF ConstantsAssumption
<1>1. CASE UNCHANGED ticket
  BY <1>1 DEF TicketsTyped
<1>2. ASSUME NEW i \in Ticker, NEW k \in Kind, NEW soon \in BOOLEAN, Schedule!Insert(i, k, soon)
      PROVE  TicketsTyped'
  <2> DEFINE r == [Schedule!NoRow EXCEPT !.row = TRUE, !.kind = k, !.due = soon]
  <2>1. ticket' = [ticket EXCEPT ![i] = r]
    BY <1>2 DEF Schedule!Insert
  <2>2. r \in TicketRow /\ r.attempts = 0
    BY DEF Schedule!NoRow, TicketRow
  <2> HIDE DEF r
  <2>3. AttemptsLeft(r)
    BY <1>0, <2>2 DEF AttemptsLeft
  <2> QED
    BY <2>1, <2>2, <2>3, OneTicket
<1>3. ASSUME NEW i \in Ticker, NEW r \in TicketRow, ticket' = [ticket EXCEPT ![i] = r],
             r.attempts = ticket[i].attempts, r.row = ticket[i].row,
             ticket[i].finished => r.finished
      PROVE  TicketsTyped'
  <2>1. AttemptsLeft(r)
    BY <1>3 DEF TicketsTyped, AttemptsLeft
  <2> QED
    BY <1>3, <2>1, OneTicket
<1>4. ASSUME NEW i \in Ticker PROVE ticket[i] \in TicketRow
  BY DEF TickerInv, TickerShape
<1>5. ASSUME NEW i \in Ticker, Schedule!ClaimCommit("replica", i) PROVE TicketsTyped'
  <2> DEFINE r == Schedule!Claimed(ticket[i])
  <2>1. ticket' = [ticket EXCEPT ![i] = r]
    BY <1>5 DEF Schedule!ClaimCommit
  <2>2. r \in TicketRow /\ r.attempts = ticket[i].attempts /\ r.row = ticket[i].row /\ r.finished = ticket[i].finished
    <3>1. PICK m \in Nat : m = ticket[i].runs + 1
      BY <1>4 DEF TicketRow
    <3>2. r = [ticket[i] EXCEPT !.claimed = TRUE, !.runs = m]
      BY <3>1 DEF Schedule!Claimed
    <3> HIDE DEF r
    <3> QED
      BY <1>4, <3>2 DEF TicketRow
  <2> HIDE DEF r
  <2> QED
    BY <1>3, <2>1, <2>2
<1>6. ASSUME NEW i \in Ticker, Schedule!Run("replica", i) PROVE TicketsTyped'
  <2> DEFINE r == [ticket[i] EXCEPT !.succeeded = TRUE]
  <2>1. ticket' = [ticket EXCEPT ![i] = r] \/ UNCHANGED ticket
    BY <1>6 DEF Schedule!Run
  <2>2. r \in TicketRow /\ r.attempts = ticket[i].attempts /\ r.row = ticket[i].row /\ r.finished = ticket[i].finished
    BY <1>4 DEF TicketRow
  <2> HIDE DEF r
  <2> QED
    BY <1>1, <1>3, <2>1, <2>2
<1>7. ASSUME NEW i \in Ticker, Schedule!FinishOk("replica", i) PROVE TicketsTyped'
  <2> DEFINE r == Schedule!Finished(ticket[i])
  <2>1. ticket' = [ticket EXCEPT ![i] = r]
    BY <1>7 DEF Schedule!FinishOk
  <2>2. r \in TicketRow /\ r.attempts = ticket[i].attempts /\ r.row = ticket[i].row /\ r.finished
    BY <1>4 DEF Schedule!Finished, TicketRow
  <2> HIDE DEF r
  <2> QED
    BY <1>3, <2>1, <2>2
<1>8. ASSUME NEW i \in Ticker, Schedule!FinishErr("replica", i) PROVE TicketsTyped'
  <2> DEFINE r == Schedule!Failed(ticket[i])
  <2>1. ticket' = [ticket EXCEPT ![i] = r] /\ i \in Ticking.job
    BY <1>8 DEF Schedule!FinishErr, Schedule!Holds, Ticking
  <2>2. ticket[i].attempts \in Nat /\ ticket[i].attempts < MaxAttempts
    BY <1>4, <2>1 DEF TickerInv, TickerHolds, Schedule!Pending, TicketsTyped, AttemptsLeft, TicketRow
  <2>3. /\ r \in TicketRow /\ r.attempts = ticket[i].attempts + 1
        /\ r.finished = (ticket[i].attempts + 1 >= MaxAttempts)
    <3>1. /\ ticket[i].attempts + 1 \in Nat
          /\ (ticket[i].attempts + 1 >= MaxAttempts) \in BOOLEAN
          /\ (ticket[i].due /\ ticket[i].attempts + 1 >= MaxAttempts) \in BOOLEAN
      BY <1>4 DEF TicketRow
    <3> QED
      BY <1>4, <3>1 DEF Schedule!Failed, TicketRow
  <2> HIDE DEF r
  <2>4. \A n \in Nat : n < MaxAttempts => n + 1 <= MaxAttempts /\ (~(n + 1 >= MaxAttempts) => n + 1 < MaxAttempts)
    BY <1>0
  <2>5. /\ ticket[i].attempts + 1 <= MaxAttempts
        /\ ~(ticket[i].attempts + 1 >= MaxAttempts) => ticket[i].attempts + 1 < MaxAttempts
    BY <2>2, <2>4
  <2>6. AttemptsLeft(r)
    BY <2>3, <2>5, Zenon DEF AttemptsLeft
  <2> QED
    BY <2>1, <2>3, <2>6, OneTicket
<1>9. ASSUME NEW i \in Ticker, Schedule!Elapse(i) PROVE TicketsTyped'
  <2> DEFINE r == [ticket[i] EXCEPT !.due = TRUE]
  <2>1. ticket' = [ticket EXCEPT ![i] = r]
    BY <1>9 DEF Schedule!Elapse
  <2>2. r \in TicketRow /\ r.attempts = ticket[i].attempts /\ r.row = ticket[i].row /\ r.finished = ticket[i].finished
    BY <1>4 DEF TicketRow
  <2> HIDE DEF r
  <2> QED
    BY <1>3, <2>1, <2>2
<1>10. ASSUME NEW i \in Ticker, Schedule!SeedInsert("replica", i) PROVE TicketsTyped'
  <2>1. Schedule!NextToSeed("replica") \in Kind /\ Schedule!Insert(i, Schedule!NextToSeed("replica"), TRUE)
    BY <1>10, TickerFields DEF Schedule!SeedInsert, Schedule!NextToSeed, TickerInv, TickerWorks, Ticking, Kind
  <2> QED
    BY <1>2, <2>1
<1>11. ASSUME NEW i \in Ticker, Schedule!EnqueueAgain("replica", i) PROVE TicketsTyped'
  <2>1. PICK k \in Kind : Schedule!Insert(i, k, FALSE)
    BY <1>11, TickerFields DEF Schedule!EnqueueAgain, Ticking, Kind
  <2> QED
    BY <1>2, <2>1
<1>12. ASSUME NEW i \in Ticker, NEW k \in Schedule!Kind, Schedule!Enqueue(i, k) PROVE TicketsTyped'
  BY <1>2, <1>12 DEF Schedule!Enqueue, Schedule!Kind, Kind
<1>13. Schedule!Boot("replica") \/ Schedule!Seed("replica") \/ Schedule!StatementFails("replica") \/ Schedule!Crash("replica")
          \/ (\E i \in Ticker : Schedule!ClaimSelect("replica", i)) => UNCHANGED ticket
  BY DEF Schedule!Boot, Schedule!Seed, Schedule!StatementFails, Schedule!Crash, Schedule!ClaimSelect
<1> QED
  BY <1>1, <1>5, <1>6, <1>7, <1>8, <1>9, <1>10, <1>11, <1>12, <1>13 DEF Schedule!Next, Schedule!Proceed

LEMMA TickerTyped == WorkSpec => []Schedule!TypeOK
<1>1. WorkInit => TicketsTyped
  BY ConstantsAssumption DEF WorkInit, Schedule!Init, Schedule!NoRow, TicketsTyped, AttemptsLeft, ConstantsAssumption
<1>2. ASSUME TickerInv, TicketsTyped, [WorkNext]_workVars
      PROVE  TicketsTyped'
  <2>1. Schedule!Next \/ UNCHANGED scheduleVars
    BY <1>2 DEF WorkNext, workVars
  <2>2. CASE UNCHANGED scheduleVars
    BY <1>2, <2>2 DEF scheduleVars, TicketsTyped
  <2> QED
    BY <1>2, <2>1, <2>2, TicketStep
<1>3. TickerInv /\ TicketsTyped => Schedule!TypeOK
  <2> SUFFICES ASSUME TickerInv, TicketsTyped PROVE Schedule!TypeOK
    OBVIOUS
  <2>1. \A i \in Ticker : ticket[i] \in Schedule!JobRow
    BY ConstantsAssumption DEF TickerInv, TickerShape, TicketRow, TicketsTyped, AttemptsLeft, Schedule!JobRow, Schedule!Kind, Kind,
       ConstantsAssumption
  <2>2. replica \in [{"replica"} -> Schedule!WorkerState]
    BY DEF TickerInv, TickerShape
  <2> QED
    BY <2>1, <2>2 DEF Schedule!TypeOK, TickerInv, TickerShape
<1> QED
  BY <1>1, <1>2, <1>3, TickerKeeps, PTL DEF WorkSpec

(* The bounds of the mail: the table, and what a digest on its way may name. *)
MailTyped == due \in BOOLEAN /\ Len(note) <= MaxNotes /\ digest \in Post!DigestRecord

LEMMA SameNotes ==
    ASSUME MailInv, MailInv', DOMAIN note' = DOMAIN note
    PROVE  Len(note') = Len(note)
<1>1. /\ Len(note) \in Nat /\ DOMAIN note = 1 .. Len(note)
      /\ Len(note') \in Nat /\ DOMAIN note' = 1 .. Len(note')
  BY LenProperties DEF MailInv, MailShape
<1> QED
  BY <1>1

LEMMA MailStep ==
    ASSUME MailInv, MailInv', MailTyped, Post!Next
    PROVE  MailTyped'
<1>0. MaxNotes \in Nat /\ Len(note) \in Nat /\ last \in 0 .. MaxNotes /\ DOMAIN note \subseteq 1 .. MaxNotes
  BY MailFields, WorkAssumption DEF WorkAssumption, MailInv, MailShape, MailTyped
<1>1. Post!NoDigest \in Post!DigestRecord
  BY <1>0 DEF Post!NoDigest, Post!DigestRecord, Post!Place
<1>2. ASSUME NEW k \in NoteKind, Post!Notify(k) PROVE MailTyped'
  <2>1. PICK r : note' = Append(note, r)
    BY <1>2 DEF Post!Notify
  <2>2. Len(note') = Len(note) + 1
    BY <2>1
  <2> QED
    BY <1>0, <1>2, <2>2 DEF MailTyped, Post!Notify
<1>3. ASSUME DOMAIN note' = DOMAIN note, due' \in BOOLEAN, digest' \in Post!DigestRecord
      PROVE  MailTyped'
  BY <1>3, SameNotes DEF MailTyped
<1>4. ASSUME NEW m, NEW ks, Post!SetPrefs(m, ks) PROVE MailTyped'
  BY <1>3, <1>4 DEF MailTyped, Post!SetPrefs, Post!Notes
<1>5. ASSUME NEW n \in Post!Notes,
             Post!EmailDecide(n) \/ Post!EmailSend(n) \/ Post!EmailFails(n) \/ Post!EmailGone(n)
      PROVE  MailTyped'
  BY <1>3, <1>5 DEF MailTyped, Post!EmailDecide, Post!EmailSend, Post!EmailFails, Post!EmailGone
<1>6. CASE Post!NewDay
  BY <1>6 DEF MailTyped, Post!NewDay
<1>7. CASE Post!DigestDue
  <2>1. kinds \in SUBSET NoteKind
    BY DEF MailInv, MailShape
  <2>2. digest' = [pc |-> "due", kinds |-> kinds, since |-> last, batch |-> {}]
    BY <1>7 DEF Post!DigestDue, Post!NoDigest
  <2>3. digest' \in Post!DigestRecord
    BY <1>0, <2>1, <2>2 DEF Post!DigestRecord, Post!Place
  <2> QED
    BY <1>7, <2>3 DEF MailTyped, Post!DigestDue
<1>8. CASE Post!DigestRead
  <2> DEFINE b == {n \in Post!Items(digest.since) : note[n].kind \in digest.kinds}
  <2>1. digest' = [digest EXCEPT !.pc = "items", !.batch = b]
    BY <1>8 DEF Post!DigestRead
  <2>2. b \in SUBSET (1 .. MaxNotes)
    BY <1>0 DEF Post!Items, Post!Notes
  <2> HIDE DEF b
  <2>3. digest' \in Post!DigestRecord
    BY <2>1, <2>2 DEF MailTyped, Post!DigestRecord
  <2> QED
    BY <1>3, <1>8, <2>3 DEF MailTyped, Post!DigestRead, Post!Notes
<1>9. CASE Post!DigestSend
  <2>1. digest' \in Post!DigestRecord
    BY <1>9 DEF MailTyped, Post!DigestSend, Post!DigestRecord
  <2> QED
    BY <1>3, <1>9, <2>1 DEF MailTyped, Post!DigestSend, Post!Notes
<1>10. CASE Post!DigestFails \/ Post!DigestStamp
  BY <1>1, <1>10 DEF MailTyped, Post!DigestFails, Post!DigestStamp
<1>11. CASE Post!Crash
  BY <1>1, <1>3, <1>11 DEF MailTyped, Post!Crash, Post!Notes
<1> QED
  BY <1>2, <1>4, <1>5, <1>6, <1>7, <1>8, <1>9, <1>10, <1>11 DEF Post!Next, Post!Unsubscribe

LEMMA PostTyped == WorkSpec => []Post!TypeOK
<1>1. WorkInit => MailTyped
  <2> SUFFICES ASSUME Post!Init PROVE MailTyped
    BY DEF WorkInit
  <2>1. MaxNotes \in Nat
    BY WorkAssumption DEF WorkAssumption
  <2>2. Len(note) = 0
    BY DEF Post!Init
  <2>3. digest \in Post!DigestRecord
    BY <2>1 DEF Post!Init, Post!NoDigest, Post!DigestRecord, Post!Place
  <2>4. Len(note) <= MaxNotes
    BY <2>1, <2>2
  <2>5. due \in BOOLEAN
    BY DEF Post!Init
  <2> QED
    BY <2>3, <2>4, <2>5 DEF MailTyped
<1>2. MailInv /\ MailInv' /\ MailTyped /\ [WorkNext]_workVars => MailTyped'
  <2> SUFFICES ASSUME MailInv, MailInv', MailTyped, [WorkNext]_workVars PROVE MailTyped'
    OBVIOUS
  <2>1. Post!Next \/ UNCHANGED mailVars
    BY DEF WorkNext, workVars
  <2>2. CASE UNCHANGED mailVars
    BY <2>2 DEF mailVars, MailTyped
  <2> QED
    BY <2>1, <2>2, MailStep
<1>3. MailInv /\ MailTyped => Post!TypeOK
  <2> SUFFICES ASSUME MailInv, MailTyped PROVE Post!TypeOK
    OBVIOUS
  <2>1. MaxNotes \in Nat /\ Len(note) \in Nat /\ last \in Nat /\ last <= Len(note) /\ Len(note) <= MaxNotes
    BY MailFields, WorkAssumption DEF WorkAssumption, MailInv, MailShape, MailTyped
  <2>2. last \in 0 .. MaxNotes
    BY <2>1
  <2> QED
    BY <2>1, <2>2, MailFields DEF MailInv, MailShape, MailTyped, Post!TypeOK, Post!Place, Post!Notes
<1> QED
  BY <1>1, <1>2, <1>3, MailKeeps, PTL DEF WorkSpec

(* What the handlers may write of a link, a connection and a commit. *)
GitTyped ==
    /\ live \in BOOLEAN /\ conn \in Git!Connection \cup {None} /\ hook \in Git!Handler
    /\ waiting <= MaxWaiting /\ shown \in [Sha -> {None, "pending", "success"}]

LEMMA GitStep ==
    ASSUME PushInv, GitTyped, Git!Next
    PROVE  GitTyped'
<1>0. MaxWaiting \in Nat /\ waiting \in Nat
  BY WorkAssumption DEF WorkAssumption, PushInv, PushShape
<1>1. live' \in BOOLEAN
  BY DEF Git!Next, GitTyped, Git!LinkPr, Git!Transition, Git!LinkQueue, Git!HookFails, Git!SetCheckState,
     Git!Move, Git!MoveQuietly, Git!DeleteOrRestore, Git!CreateIntegration, Git!UpdateIntegration,
     Git!DeleteIntegration, Git!JobRead, Git!JobAim, Git!JobPost, Git!JobFails, Git!Crash
<1>2. conn' \in Git!Connection \cup {None}
  BY DEF Git!Next, GitTyped, Git!LinkPr, Git!Transition, Git!LinkQueue, Git!HookFails, Git!SetCheckState,
     Git!Move, Git!MoveQuietly, Git!DeleteOrRestore, Git!CreateIntegration, Git!UpdateIntegration,
     Git!DeleteIntegration, Git!JobRead, Git!JobAim, Git!JobPost, Git!JobFails, Git!Crash
<1>3. hook' \in Git!Handler
  BY DEF Git!Next, GitTyped, Git!LinkPr, Git!Transition, Git!LinkQueue, Git!HookFails, Git!SetCheckState,
     Git!Move, Git!MoveQuietly, Git!DeleteOrRestore, Git!CreateIntegration, Git!UpdateIntegration,
     Git!DeleteIntegration, Git!JobRead, Git!JobAim, Git!JobPost, Git!JobFails, Git!Crash, Git!Handler
<1>4. waiting' <= MaxWaiting
  <2>1. waiting < MaxWaiting => waiting + 1 <= MaxWaiting
    BY <1>0
  <2>2. waiting <= MaxWaiting /\ waiting > 0 => waiting - 1 <= MaxWaiting
    BY <1>0
  <2>3. waiting' = waiting \/ (waiting < MaxWaiting /\ waiting' = waiting + 1) \/ (waiting > 0 /\ waiting' = waiting - 1)
    BY DEF Git!Next, Git!LinkPr, Git!Transition, Git!LinkQueue, Git!HookFails, Git!SetCheckState,
       Git!Move, Git!MoveQuietly, Git!DeleteOrRestore, Git!CreateIntegration, Git!UpdateIntegration,
       Git!DeleteIntegration, Git!JobRead, Git!JobAim, Git!JobPost, Git!JobFails, Git!Crash, Git!Queue, Git!Room
  <2> QED
    BY <2>1, <2>2, <2>3 DEF GitTyped
<1>5. shown' \in [Sha -> {None, "pending", "success"}]
  <2>1. CASE Git!JobPost
    <3>1. Git!Body(push) \in {None, "pending", "success"}
      BY DEF Git!Body, Git!StateOf
    <3> QED
      BY <2>1, <3>1 DEF Git!JobPost, GitTyped
  <2>2. CASE ~Git!JobPost
    BY <2>2 DEF Git!Next, GitTyped, Git!LinkPr, Git!Transition, Git!LinkQueue, Git!HookFails, Git!SetCheckState,
       Git!Move, Git!MoveQuietly, Git!DeleteOrRestore, Git!CreateIntegration, Git!UpdateIntegration,
       Git!DeleteIntegration, Git!JobRead, Git!JobAim, Git!JobFails, Git!Crash
  <2> QED
    BY <2>1, <2>2
<1> QED
  BY <1>1, <1>2, <1>3, <1>4, <1>5 DEF GitTyped

LEMMA LinksTyped == WorkSpec => []Git!TypeOK
<1>1. WorkInit => GitTyped
  BY WorkAssumption DEF WorkInit, Git!Init, GitTyped, Git!Handler, WorkAssumption
<1>2. PushInv /\ GitTyped /\ [WorkNext]_workVars => GitTyped'
  <2> SUFFICES ASSUME PushInv, GitTyped, [WorkNext]_workVars PROVE GitTyped'
    OBVIOUS
  <2>1. Git!Next \/ UNCHANGED gitVars
    BY DEF WorkNext, workVars
  <2>2. CASE UNCHANGED gitVars
    BY <2>2 DEF gitVars, GitTyped
  <2> QED
    BY <2>1, <2>2, GitStep
<1>3. PushInv /\ GitTyped => Git!TypeOK
  BY WorkAssumption DEF PushInv, PushShape, GitTyped, Git!TypeOK, WorkAssumption
<1> QED
  BY <1>1, <1>2, <1>3, PushKeeps, PTL DEF WorkSpec

(* What a delivery may still attempt, and what its worker, its receiver and the
   ledger know of that. *)
TriesLeft(row) ==
    /\ row.attempts <= Tries
    /\ row.state \in {"waiting", "running"} => row.attempts < Tries

HooksTyped ==
    /\ whook \in Hooks!HookRow \cup {None} /\ pending \in BOOLEAN
    /\ \A j \in Delivery : TriesLeft(delivery[j]) /\ poster[j] \in Hooks!Run
    /\ ledger \subseteq Hooks!Row /\ posts \subseteq Hooks!Post

LEMMA OneRow ==
    ASSUME LedgerInv, HooksTyped, NEW j \in Delivery, NEW row, NEW worker1 \in Hooks!Run,
           delivery' = [delivery EXCEPT ![j] = row], poster' = [poster EXCEPT ![j] = worker1],
           TriesLeft(row), UNCHANGED <<whook, ledger, posts>>, pending' \in BOOLEAN
    PROVE  HooksTyped'
<1>1. \A i \in Delivery : /\ delivery'[i] = IF i = j THEN row ELSE delivery[i]
                          /\ poster'[i] = IF i = j THEN worker1 ELSE poster[i]
  BY DEF LedgerInv, DeliveryShape
<1>2. \A i \in Delivery : TriesLeft(delivery'[i]) /\ poster'[i] \in Hooks!Run
  BY <1>1 DEF HooksTyped
<1> QED
  BY <1>2 DEF HooksTyped, TriesLeft

(* A failed attempt is counted, and the last one ends the delivery. *)
LEMMA FailureCounts ==
    ASSUME LedgerInv, HooksTyped, NEW j \in Delivery, Hooks!Failed(j), delivery[j].state = "running"
    PROVE  \E row : delivery' = [delivery EXCEPT ![j] = row] /\ TriesLeft(row)
<1>1. PICK n \in Nat : n = delivery[j].attempts + 1 /\ n <= Tries /\ (~(n >= Tries) => n < Tries)
  <2>1. delivery[j].attempts \in Nat /\ delivery[j].attempts < Tries /\ Tries \in Nat
    BY DeliveryFields, WorkAssumption DEF HooksTyped, TriesLeft, WorkAssumption
  <2> QED
    BY <2>1
<1> DEFINE row == [delivery[j] EXCEPT !.attempts = n, !.state = IF n >= Tries THEN "failed" ELSE "waiting"]
<1>2. delivery' = [delivery EXCEPT ![j] = row]
  BY <1>1 DEF Hooks!Failed
<1>3. row.attempts = n /\ (row.state \in {"waiting", "running"} => ~(n >= Tries))
  BY DeliveryFields DEF DeliveryRow
<1>4. TriesLeft(row)
  BY <1>1, <1>3, Zenon DEF TriesLeft
<1> QED
  BY <1>2, <1>4

LEMMA HooksStep ==
    ASSUME LedgerInv, HooksTyped, Hooks!Next
    PROVE  HooksTyped'
<1>0. /\ Tries \in Nat \ {0} /\ 1 \in Hooks!Attempt /\ 0 <= Tries /\ 0 < Tries
      /\ Hooks!Idle \in Hooks!Run
  BY WorkAssumption DEF WorkAssumption, Hooks!Attempt, Hooks!Idle, Hooks!Run
<1>1. \A j \in Delivery : /\ delivery[j] \in DeliveryRow /\ poster[j] \in Hooks!Run
                          /\ TriesLeft(delivery[j])
                          /\ poster = [poster EXCEPT ![j] = poster[j]]
                          /\ delivery = [delivery EXCEPT ![j] = delivery[j]]
  BY DEF LedgerInv, DeliveryShape, HooksTyped
<1>2. ASSUME NEW row \in Hooks!HookRow, Hooks!Create(row) \/ Hooks!Edit(row) PROVE HooksTyped'
  BY <1>2 DEF HooksTyped, Hooks!Create, Hooks!Edit
<1>3. CASE Hooks!Remove \/ Hooks!Dispatch \/ Hooks!DispatchFails
  BY <1>3 DEF HooksTyped, Hooks!Remove, Hooks!Dispatch, Hooks!DispatchFails
<1>4. ASSUME NEW j \in Delivery, Hooks!DispatchEnqueue(j) \/ Hooks!SendTest(j) PROVE HooksTyped'
  <2>1. PICK event : delivery' = [delivery EXCEPT ![j] = [Hooks!NoJob EXCEPT !.state = "waiting", !.event = event]]
    BY <1>4 DEF Hooks!DispatchEnqueue, Hooks!SendTest, Hooks!Enqueue
  <2> DEFINE row == [Hooks!NoJob EXCEPT !.state = "waiting", !.event = event]
  <2>2. row.attempts = 0
    BY DEF Hooks!NoJob
  <2>3. TriesLeft(row)
    BY <1>0, <2>2, Zenon DEF TriesLeft
  <2>4. UNCHANGED <<whook, ledger, posts, poster>> /\ pending' \in BOOLEAN
    BY <1>4 DEF Hooks!DispatchEnqueue, Hooks!SendTest, HooksTyped
  <2> HIDE DEF row
  <2> QED
    BY <1>1, <2>1, <2>3, <2>4, OneRow DEF row
<1>5. ASSUME NEW j \in Delivery, Hooks!Claim(j) PROVE HooksTyped'
  <2> DEFINE row == [delivery[j] EXCEPT !.state = "running"]
  <2>1. TriesLeft(row)
    BY <1>1, <1>5 DEF TriesLeft, DeliveryRow, Hooks!Claim
  <2>2. /\ delivery' = [delivery EXCEPT ![j] = row] /\ pending' \in BOOLEAN
        /\ UNCHANGED <<whook, ledger, posts, poster>>
    BY <1>5 DEF Hooks!Claim, HooksTyped
  <2> HIDE DEF row
  <2> QED
    BY <1>1, <2>1, <2>2, OneRow
<1>6. ASSUME NEW j \in Delivery, Hooks!ReadAttempt(j) PROVE HooksTyped'
  <2>1. delivery[j].attempts + 1 \in Hooks!Attempt
    <3>1. delivery[j].attempts \in Nat /\ delivery[j].attempts < Tries
      BY <1>1, <1>6 DEF TriesLeft, DeliveryRow, Hooks!ReadAttempt
    <3> QED
      BY <1>0, <3>1 DEF Hooks!Attempt
  <2> DEFINE r == [Hooks!Idle EXCEPT !.pc = "read", !.attempt = Hooks!AttemptNumber(j)]
  <2>2. r \in Hooks!Run
    BY <1>0, <2>1 DEF Hooks!AttemptNumber, Hooks!Idle, Hooks!Run
  <2>3. /\ poster' = [poster EXCEPT ![j] = r] /\ pending' \in BOOLEAN
        /\ UNCHANGED <<whook, ledger, posts, delivery>>
    BY <1>6 DEF Hooks!ReadAttempt, HooksTyped
  <2> HIDE DEF r
  <2> QED
    BY <1>1, <2>2, <2>3, OneRow
<1>7. ASSUME NEW j \in Delivery, Hooks!Drop(j) PROVE HooksTyped'
  <2> DEFINE row == [delivery[j] EXCEPT !.state = "done"]
  <2>1. TriesLeft(row)
    BY <1>1 DEF TriesLeft, DeliveryRow
  <2>2. /\ delivery' = [delivery EXCEPT ![j] = row] /\ poster' = [poster EXCEPT ![j] = Hooks!Idle]
        /\ UNCHANGED <<whook, ledger, posts>> /\ pending' \in BOOLEAN
    BY <1>7 DEF Hooks!Drop, HooksTyped
  <2> HIDE DEF row
  <2> QED
    BY <1>0, <2>1, <2>2, OneRow
<1>8. ASSUME NEW j \in Delivery, Hooks!Build(j) PROVE HooksTyped'
  <2> DEFINE r == [poster[j] EXCEPT !.pc = "built", !.body = Hooks!Body]
  <2>1. Hooks!Body \in {"signed", "chat"}
    BY DEF Hooks!Body
  <2>2. r \in Hooks!Run
    BY <1>1, <2>1 DEF Hooks!Run
  <2>3. poster' = [poster EXCEPT ![j] = r]
    BY <1>8 DEF Hooks!Build
  <2>4. UNCHANGED <<whook, ledger, posts, delivery>> /\ pending' \in BOOLEAN
    BY <1>8 DEF Hooks!Build, HooksTyped
  <2> HIDE DEF r
  <2> QED
    BY <1>1, <2>2, <2>3, <2>4, OneRow
<1>9. ASSUME NEW j \in Delivery, NEW ok \in BOOLEAN, Hooks!SendPost(j, ok) PROVE HooksTyped'
  <2> DEFINE r == [poster[j] EXCEPT !.pc = "posted", !.ok = ok]
             p == [job |-> j, attempt |-> poster[j].attempt, ok |-> ok, body |-> poster[j].body]
  <2>1. r \in Hooks!Run /\ p \in Hooks!Post
    BY <1>1 DEF Hooks!Run, Hooks!Post
  <2>2. /\ poster' = [poster EXCEPT ![j] = r] /\ posts' = posts \cup {p}
        /\ UNCHANGED <<whook, pending, delivery, ledger>>
    BY <1>9 DEF Hooks!SendPost
  <2> HIDE DEF r, p
  <2>3. \A i \in Delivery : poster'[i] \in Hooks!Run
    BY <1>1, <2>1, <2>2 DEF LedgerInv, DeliveryShape
  <2>4. posts' \subseteq Hooks!Post
    BY <2>1, <2>2 DEF HooksTyped
  <2> QED
    BY <2>2, <2>3, <2>4 DEF HooksTyped, TriesLeft
<1>10. ASSUME NEW j \in Delivery, Hooks!Record(j) PROVE HooksTyped'
  <2>1. PICK row : delivery' = [delivery EXCEPT ![j] = row] /\ TriesLeft(row)
    <3>1. CASE poster[j].ok
      <4>1. delivery' = [delivery EXCEPT ![j] = [delivery[j] EXCEPT !.state = "done"]]
        BY <1>10, <3>1 DEF Hooks!Record
      <4>2. TriesLeft([delivery[j] EXCEPT !.state = "done"])
        BY <1>1 DEF TriesLeft, DeliveryRow
      <4> QED
        BY <4>1, <4>2
    <3>2. CASE ~poster[j].ok
      <4>1. delivery[j].state = "running" /\ Hooks!Failed(j)
        BY <1>10, <3>2 DEF Hooks!Record, LedgerInv, PosterKnows
      <4> QED
        BY <4>1, FailureCounts
    <3> QED
      BY <3>1, <3>2
  <2> DEFINE r == [job |-> j, attempt |-> poster[j].attempt, ok |-> poster[j].ok]
  <2>2. r \in Hooks!Row
    BY <1>1 DEF Hooks!Run, Hooks!Row
  <2>3. /\ poster' = [poster EXCEPT ![j] = Hooks!Idle] /\ ledger' = ledger \cup {r}
        /\ UNCHANGED <<whook, pending, posts>>
    BY <1>10 DEF Hooks!Record
  <2> HIDE DEF r
  <2>4. \A i \in Delivery : /\ delivery'[i] = IF i = j THEN row ELSE delivery[i]
                            /\ poster'[i] \in Hooks!Run
    BY <1>0, <1>1, <2>1, <2>3 DEF LedgerInv, DeliveryShape
  <2>5. \A i \in Delivery : TriesLeft(delivery'[i])
    BY <1>1, <2>1, <2>4
  <2>6. ledger' \subseteq Hooks!Row
    BY <2>2, <2>3 DEF HooksTyped
  <2> QED
    BY <2>3, <2>4, <2>5, <2>6 DEF HooksTyped, TriesLeft
<1>11. ASSUME NEW j \in Delivery, Hooks!RecordFails(j) PROVE HooksTyped'
  <2>1. delivery[j].state = "running" /\ Hooks!Failed(j)
    BY <1>11 DEF Hooks!RecordFails, LedgerInv, PosterKnows
  <2>2. PICK row : delivery' = [delivery EXCEPT ![j] = row] /\ TriesLeft(row)
    BY <2>1, FailureCounts
  <2>3. /\ poster' = [poster EXCEPT ![j] = Hooks!Idle] /\ pending' \in BOOLEAN
        /\ UNCHANGED <<whook, ledger, posts>>
    BY <1>11 DEF Hooks!RecordFails, HooksTyped
  <2> QED
    BY <1>0, <2>2, <2>3, OneRow
<1>12. ASSUME NEW j \in Delivery, Hooks!Crash(j) PROVE HooksTyped'
  <2> DEFINE row == [delivery[j] EXCEPT !.state = "stuck"]
  <2>1. TriesLeft(row)
    BY <1>1 DEF TriesLeft, DeliveryRow
  <2>2. /\ delivery' = [delivery EXCEPT ![j] = row] /\ poster' = [poster EXCEPT ![j] = Hooks!Idle]
        /\ UNCHANGED <<whook, ledger, posts>> /\ pending' \in BOOLEAN
    BY <1>12 DEF Hooks!Crash, HooksTyped
  <2> HIDE DEF row
  <2> QED
    BY <1>0, <2>1, <2>2, OneRow
<1> QED
  BY <1>2, <1>3, <1>4, <1>5, <1>6, <1>7, <1>8, <1>9, <1>10, <1>11, <1>12 DEF Hooks!Next

LEMMA DeliveriesTyped == WorkSpec => []Hooks!TypeOK
<1>1. WorkInit => HooksTyped
  <2> SUFFICES ASSUME Hooks!Init PROVE HooksTyped
    BY DEF WorkInit
  <2>1. /\ Tries \in Nat \ {0} /\ 1 \in Hooks!Attempt /\ 0 <= Tries
        /\ Hooks!Idle \in Hooks!Run
    BY WorkAssumption DEF WorkAssumption, Hooks!Attempt, Hooks!Idle, Hooks!Run
  <2>2. TriesLeft(Hooks!NoJob)
    BY <2>1 DEF TriesLeft, Hooks!NoJob
  <2> QED
    BY <2>1, <2>2 DEF HooksTyped, Hooks!Init
<1>2. LedgerInv /\ HooksTyped /\ [WorkNext]_workVars => HooksTyped'
  <2> SUFFICES ASSUME LedgerInv, HooksTyped, [WorkNext]_workVars PROVE HooksTyped'
    OBVIOUS
  <2>1. Hooks!Next \/ UNCHANGED hooksVars
    BY DEF WorkNext, workVars
  <2>2. CASE UNCHANGED hooksVars
    BY <2>2 DEF hooksVars, HooksTyped, TriesLeft
  <2> QED
    BY <2>1, <2>2, HooksStep
<1>3. LedgerInv /\ HooksTyped => Hooks!TypeOK
  <2> SUFFICES ASSUME LedgerInv, HooksTyped PROVE Hooks!TypeOK
    OBVIOUS
  <2>1. \A j \in Delivery : delivery[j] \in Hooks!JobRow
    <3> SUFFICES ASSUME NEW j \in Delivery PROVE delivery[j] \in Hooks!JobRow
      OBVIOUS
    <3>1. delivery[j] \in DeliveryRow /\ delivery[j].attempts \in Nat /\ delivery[j].attempts <= Tries
      BY DeliveryFields DEF HooksTyped, TriesLeft
    <3>2. delivery[j].attempts \in 0 .. Tries
      BY <3>1, WorkAssumption DEF WorkAssumption
    <3> QED
      BY <3>1, <3>2 DEF DeliveryRow, Hooks!JobRow
  <2>2. delivery \in [Delivery -> Hooks!JobRow] /\ poster \in [Delivery -> Hooks!Run]
    BY <2>1 DEF LedgerInv, DeliveryShape, HooksTyped
  <2> QED
    BY <2>2 DEF LedgerInv, DeliveryShape, HooksTyped, Hooks!TypeOK
<1> QED
  BY <1>1, <1>2, <1>3, LedgerKeeps, PTL DEF WorkSpec

(* The bucket holds files, and ids are given to copies. *)
FilesTyped == bucket \subseteq File /\ started \in Copy \cup {0}

LEMMA FilesStep ==
    ASSUME FilesTyped, Files!Next
    PROVE  FilesTyped'
<1>1. ASSUME NEW f \in File,
             Files!CreateFile(f) \/ Files!Upload(f) \/ Files!CompleteFile(f) \/ Files!DeleteFile(f)
      PROVE  FilesTyped'
  BY <1>1 DEF FilesTyped, Files!CreateFile, Files!Upload, Files!CompleteFile, Files!DeleteFile,
              Files!BucketWithout
<1>2. ASSUME NEW b \in Copy,
             \/ Files!StartBackup(b) \/ Files!BackupRuns(b)
             \/ Files!PruneObject(b) \/ Files!PruneRow(b) \/ Files!Restore(b)
      PROVE  FilesTyped'
  BY <1>2 DEF FilesTyped, Files!StartBackup, Files!BackupRuns, Files!PruneObject, Files!PruneRow,
              Files!Restore
<1>3. \/ Files!PgDump \/ Files!UploadDump \/ Files!BackupDone \/ Files!BackupFails \/ Files!Crash
      \/ Files!RetentionRuns \/ Files!Tick
      => FilesTyped'
  BY DEF FilesTyped, Files!PgDump, Files!UploadDump, Files!BackupDone, Files!BackupFails, Files!Crash,
         Files!RetentionRuns, Files!Tick
<1> QED
  BY <1>1, <1>2, <1>3 DEF Files!Next, Copy

LEMMA BackupsTyped == WorkSpec => []Files!TypeOK
<1>1. WorkInit => FilesTyped
  BY DEF WorkInit, Files!Init, FilesTyped
<1>2. FilesTyped /\ [WorkNext]_workVars => FilesTyped'
  <2> SUFFICES ASSUME FilesTyped, [WorkNext]_workVars PROVE FilesTyped'
    OBVIOUS
  <2>1. Files!Next \/ UNCHANGED filesVars
    BY DEF WorkNext, workVars
  <2>2. CASE UNCHANGED filesVars
    BY <2>2 DEF filesVars, FilesTyped
  <2> QED
    BY <2>1, <2>2, FilesStep
<1>3. BackupInv /\ FilesTyped => Files!TypeOK
  <2> SUFFICES ASSUME BackupInv, FilesTyped PROVE Files!TypeOK
    OBVIOUS
  <2>1. dumping.pc \in {"idle", "dump", "upload", "finish"} /\ dumping.of \in Copy \cup {None}
    BY BackupFields
  <2> QED
    BY <2>1 DEF BackupInv, BackupShape, FilesTyped, Files!TypeOK, Copy
<1> QED
  BY <1>1, <1>2, <1>3, BackupKeeps, PTL DEF WorkSpec

(* What the tables count, and what a tab shows and asks of them. *)
TabTyped ==
    /\ version \in [Query -> Nat]
    /\ \A q \in Query :
        /\ page[q] \in Nat \cup {None}
        /\ fetch[q].v \in Nat \cup {None} /\ fetch[q].pc \in {"idle", "asked", "answered"}

LEMMA TabStep ==
    ASSUME TabInv, TabTyped, Realtime!Next
    PROVE  TabTyped'
<1>0. /\ DOMAIN version = Query /\ DOMAIN page = Query /\ DOMAIN fetch = Query
      /\ Realtime!Asked = [pc |-> "asked", v |-> None] /\ Realtime!Idle = [pc |-> "idle", v |-> None]
  BY DEF TabInv, EventShape, Realtime!Asked, Realtime!Idle
<1>1. ASSUME NEW q \in Query, NEW me \in BOOLEAN, Realtime!Write(q, me) PROVE TabTyped'
  <2>1. version[q] + 1 \in Nat
    BY DEF TabTyped
  <2>2. version' = [version EXCEPT ![q] = version[q] + 1] /\ UNCHANGED <<page, fetch>>
    BY <1>1 DEF Realtime!Write
  <2>3. version' \in [Query -> Nat]
    BY <2>1, <2>2 DEF TabTyped
  <2> QED
    BY <2>2, <2>3 DEF TabTyped
<1>2. ASSUME NEW Q, Realtime!Invalidate(Q), UNCHANGED <<version, page>> PROVE TabTyped'
  <2>1. \A q \in Query : fetch'[q] = IF q \in Q THEN Realtime!Asked ELSE fetch[q]
    BY <1>2 DEF Realtime!Invalidate
  <2> QED
    BY <1>0, <1>2, <2>1 DEF TabTyped
<1>3. CASE Realtime!Receive \/ Realtime!Refetch
  BY <1>2, <1>3 DEF Realtime!Receive, Realtime!Refetch
<1>4. ASSUME NEW q \in Query, Realtime!ReadAnswer(q) PROVE TabTyped'
  <2>1. Realtime!Read(q) \in Nat \cup {None}
    BY DEF TabTyped, Realtime!Read
  <2> DEFINE x == [pc |-> "answered", v |-> Realtime!Read(q)]
  <2>2. x.pc = "answered" /\ x.v \in Nat \cup {None}
    BY <2>1
  <2>3. fetch' = [fetch EXCEPT ![q] = x] /\ UNCHANGED <<version, page>>
    BY <1>4 DEF Realtime!ReadAnswer
  <2> HIDE DEF x
  <2>4. \A r \in Query : fetch'[r] = IF r = q THEN x ELSE fetch[r]
    BY <1>0, <2>3
  <2> QED
    BY <2>2, <2>3, <2>4 DEF TabTyped
<1>5. ASSUME NEW q \in Query, Realtime!Show(q) PROVE TabTyped'
  <2>1. \A r \in Query : /\ page'[r] = IF r = q THEN fetch[q].v ELSE page[r]
                         /\ fetch'[r] = IF r = q THEN Realtime!Idle ELSE fetch[r]
    BY <1>0, <1>5 DEF Realtime!Show
  <2>2. UNCHANGED version
    BY <1>5 DEF Realtime!Show
  <2> QED
    BY <1>0, <2>1, <2>2 DEF TabTyped
<1>6. ASSUME UNCHANGED <<version, page, fetch>> PROVE TabTyped'
  BY <1>6 DEF TabTyped
<1>7. \/ \E u \in unpublished : Realtime!Publish(u)
      \/ Realtime!Stop \/ Realtime!Dial \/ Realtime!Subscribe \/ Realtime!Forward \/ Realtime!Refresh
      \/ Realtime!LoseRedis \/ Realtime!Close
      => TabTyped'
  BY <1>6 DEF Realtime!Publish, Realtime!Stop, Realtime!Dial, Realtime!Subscribe, Realtime!Forward,
              Realtime!Refresh, Realtime!LoseRedis, Realtime!Close
<1> QED
  BY <1>1, <1>3, <1>4, <1>5, <1>7 DEF Realtime!Next

LEMMA EventsTyped == WorkSpec => []Realtime!TypeOK
<1>1. WorkInit => TabTyped
  BY DEF WorkInit, Realtime!Init, TabTyped, Realtime!Read, Realtime!Idle
<1>2. TabInv /\ TabTyped /\ [WorkNext]_workVars => TabTyped'
  <2> SUFFICES ASSUME TabInv, TabTyped, [WorkNext]_workVars PROVE TabTyped'
    OBVIOUS
  <2>1. Realtime!Next \/ UNCHANGED eventsVars
    BY DEF WorkNext, workVars
  <2>2. CASE UNCHANGED eventsVars
    BY <2>2 DEF eventsVars, TabTyped
  <2> QED
    BY <2>1, <2>2, TabStep
<1>3. TabInv /\ TabTyped => Realtime!TypeOK
  <2> SUFFICES ASSUME TabInv, TabTyped PROVE Realtime!TypeOK
    OBVIOUS
  <2>1. version \in [Query -> Nat]
    BY DEF TabTyped
  <2>2. Notice \subseteq Realtime!Event
    BY DEF Notice, Realtime!Event
  <2>3. channel \in Seq(Realtime!Event) /\ wire \in Seq(Realtime!Event)
    BY <2>2 DEF TabInv, EventShape
  <2>4. \A u \in unpublished : [of |-> u.of, me |-> u.me] \in Realtime!Event
    BY <2>2 DEF TabInv, EventShape
  <2> QED
    BY <2>1, <2>3, <2>4 DEF TabInv, EventShape, TabTyped, Realtime!TypeOK, Socket
<1> QED
  BY <1>1, <1>2, <1>3, TabKeeps, PTL DEF WorkSpec

(* Whatever part a behaviour moves, every part keeps its types: the rows of jobs, of
   notifications, of links, of deliveries, of backups and what a tab was told of
   (jobs/mod.rs, domain/webhooks.rs, domain/integrations.rs, domain/backups.rs, routes/ws.rs). *)
THEOREM WorkTyped == WorkSpec => []TypesOK
<1> DEFINE Part == part \in {"queue", "ticker", "mail", "git", "hooks", "files", "events"}
<1>1. WorkInit => Part
  BY DEF WorkInit
<1>2. Part /\ [WorkNext]_workVars => Part'
  BY DEF WorkNext, workVars
<1>3. WorkSpec => []Part
  BY <1>1, <1>2, PTL DEF WorkSpec
<1>4. Part /\ TypeOK /\ Schedule!TypeOK /\ Post!TypeOK /\ Git!TypeOK /\ Hooks!TypeOK /\ Files!TypeOK
        /\ Realtime!TypeOK
        => TypesOK
  BY DEF TypesOK
<1> QED
  BY <1>3, <1>4, TypeCorrect, TheWholeRunsTheQueue, TickerTyped, PostTyped, LinksTyped, DeliveriesTyped,
     BackupsTyped, EventsTyped, PTL
=============================================================================
