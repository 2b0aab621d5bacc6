----------------------------- MODULE MCTemplates -----------------------------
(* An instance of RecurringTemplates for TLC. *)
EXTENDS RecurringTemplates

EachPeriod == [daily |-> 1, weekly |-> 2]
=============================================================================
