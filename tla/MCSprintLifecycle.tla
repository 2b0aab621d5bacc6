------------------------- MODULE MCSprintLifecycle -------------------------
(* Instances of SprintLifecycle for TLC. *)
EXTENDS SprintLifecycle, TLC

(* Sprints, tasks and request slots are interchangeable; subtasks are not. *)
Interchangeable ==
    Permutations(Sprint) \cup Permutations(Request) \cup Permutations(Task \ Subtask)

(* The metadata edit() writes is read by no guard and no property of
   SprintConcurrent: states that differ in it alone are one. *)
WithoutEdits == <<[s \in Sprint |-> [sprint[s] EXCEPT !.edited = FALSE]], task, snap, req>>
=============================================================================
