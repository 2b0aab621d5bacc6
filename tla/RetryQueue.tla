----------------------------- MODULE RetryQueue -----------------------------
(***************************************************************************)
(* What the jobs table promises to the code that enqueues work             *)
(* (apps/api/src/jobs/mod.rs): an entry is taken by one worker at a time,  *)
(* at most MaxAttempts times, and once it is finished it is not taken      *)
(* again.  An id whose entry has finished may be submitted anew.           *)
(***************************************************************************)
EXTENDS Naturals

CONSTANTS Job, MaxAttempts

VARIABLE entry  \* for each id, the phase of its entry and how often it was taken

Init == entry = [j \in Job |-> [phase |-> "none", runs |-> 0]]

Submit(j) ==
    /\ entry[j].phase \in {"none", "finished"}
    /\ entry' = [entry EXCEPT ![j] = [phase |-> "waiting", runs |-> 0]]

Take(j) ==
    /\ entry[j].phase = "waiting" /\ entry[j].runs < MaxAttempts
    /\ entry' = [entry EXCEPT ![j] = [phase |-> "running", runs |-> entry[j].runs + 1]]

Return(j) ==
    /\ entry[j].phase = "running" /\ entry[j].runs < MaxAttempts
    /\ entry' = [entry EXCEPT ![j].phase = "waiting"]

Finish(j) ==
    /\ entry[j].phase = "running"
    /\ entry' = [entry EXCEPT ![j].phase = "finished"]

Next == \E j \in Job : Submit(j) \/ Take(j) \/ Return(j) \/ Finish(j)

Spec == Init /\ [][Next]_entry
=============================================================================
