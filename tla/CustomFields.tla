---------------------------- MODULE CustomFields ----------------------------
(***************************************************************************)
(* The custom fields of a project and the values its tasks give them:      *)
(* routes/fields.rs, domain/fields.rs, the field filter of the board in    *)
(* routes/tasks.rs and the points an import writes                         *)
(* (domain/import_export.rs), all of apps/api/src; the tables, the         *)
(* cascade and the triggers are those of                                   *)
(* migrations/20260611000000_custom_fields.up.sql.                         *)
(*                                                                         *)
(* A write of values is a transaction whose statements and triggers take   *)
(* row locks: of the value, of the field it refers to, of the task whose   *)
(* search text is rebuilt.  What it wrote is its own until it commits.     *)
(***************************************************************************)
EXTENDS Naturals, Sequences, FiniteSets, SequencesExt

CONSTANTS
    Field,     \* ids a row of custom_fields may take
    Task,
    Name,      \* names people give to fields
    Type,      \* of FIELD_TYPES, those in use
    Spelling,  \* values as people write them
    Options,   \* the lists of options they enter
    Fold,      \* a name or a spelling in lower case
    Numeral,   \* a spelling that is a number or a date, as it is stored
    Request,   \* slots for handlers in flight
    None       \* no value

VARIABLES
    field,  \* custom_fields
    value,  \* task_field_values
    index,  \* what search_tsv of a task has of its values
    req     \* the handlers in flight

vars == <<field, value, index, req>>

----------------------------------------------------------------------------
Absent == [row |-> "unused", name |-> None, type |-> None, options |-> <<>>]
Live(f) == field[f].row = "live"
Stored == Spelling \cup {Numeral[s] : s \in DOMAIN Numeral} \cup UNION {ToSet(o) : o \in Options}

(* A handler in flight: rows of task_field_values it wrote, all of them v, tasks still to
   be rebuilt and those it has, with their text. *)
Idle == [pc |-> "idle", does |-> None, f |-> None, t |-> None, v |-> None, new |-> FALSE,
         rows |-> {}, todo |-> {}, text |-> <<>>]

Others(r) == Request \ {r}
Held(r, t, f) == \E q \in Others(r) : <<t, f>> \in req[q].rows
Rebuilt(r, t) == \E q \in Others(r) : t \in DOMAIN req[q].text
(* DELETE locks the field's row; a new value holds a key share of it. *)
Leaving(r, f) == \E q \in Others(r) : req[q].does = "delete" /\ req[q].f = f /\ req[q].pc \notin {"idle", "write"}
Referred(r, f) == \E q \in Others(r) : req[q].new /\ req[q].f = f

(* canonical_value(). *)
Canonical(type, options, raw) ==
    LET same == {i \in DOMAIN options : Fold[options[i]] = Fold[raw]}
    IN CASE type = "text" -> raw
         [] type = "select" -> IF same = {} THEN None ELSE options[Min(same)]
         [] OTHER -> IF raw \in DOMAIN Numeral THEN Numeral[raw] ELSE None

(* check_options(): a choice is offered once, however it is spelled. *)
OfferedOnce(options) == IsInjective([i \in DOMAIN options |-> Fold[options[i]]])

CheckOptions(type, options) ==
    IF type = "select" THEN options # <<>> /\ OfferedOnce(options) ELSE options = <<>>

(* custom_fields_name_uniq, of a project, for a row that stays or is about to go. *)
NameIsFree(f, name) == ~\E g \in Field \ {f} : Live(g) /\ Fold[field[g].name] = Fold[name]

----------------------------------------------------------------------------
Init ==
    /\ field = [f \in Field |-> Absent]
    /\ value = [t \in Task |-> [f \in Field |-> None]]
    /\ index = [t \in Task |-> {}]
    /\ req = [r \in Request |-> Idle]

Fresh(f) == f = CHOOSE g \in Field : field[g].row = "unused"

CreateDef(f, name, type, options) ==
    /\ field[f].row = "unused" /\ Fresh(f)
    /\ CheckOptions(type, options) /\ NameIsFree(f, name)
    /\ field' = [field EXCEPT ![f] = [row |-> "live", name |-> name, type |-> type, options |-> options]]
    /\ UNCHANGED <<value, index, req>>

(* Rename, replace the options, or both; the type stays.  It waits for a deletion. *)
UpdateDef(f, name, options) ==
    /\ Live(f) /\ ~\E r \in Request : Leaving(r, f)
    /\ CheckOptions(field[f].type, options) /\ NameIsFree(f, name)
    /\ field' = [field EXCEPT ![f].name = name, ![f].options = options]
    /\ UNCHANGED <<value, index, req>>

(* set_value(), clear_value() and delete_def() read the field, set_value() judges the value
   by what it read, and the transaction follows. *)
Accept(r, does, t, f, v) ==
    req' = [req EXCEPT ![r] = [Idle EXCEPT !.pc = "write", !.does = does, !.t = t, !.f = f, !.v = v]]

SetRead(r, t, f, raw) ==
    /\ req[r].pc = "idle" /\ Live(f) /\ Canonical(field[f].type, field[f].options, raw) # None
    /\ Accept(r, "set", t, f, Canonical(field[f].type, field[f].options, raw))
    /\ UNCHANGED <<field, value, index>>

ClearRead(r, t, f) ==
    /\ req[r].pc = "idle" /\ Live(f)
    /\ Accept(r, "clear", t, f, None)
    /\ UNCHANGED <<field, value, index>>

DeleteRead(r, f) ==
    /\ req[r].pc = "idle" /\ Live(f)
    /\ Accept(r, "delete", None, f, None)
    /\ UNCHANGED <<field, value, index>>

(* A statement fails, a deadlock is broken, or the connection is lost. *)
Abort(r) ==
    /\ req[r].pc # "idle"
    /\ req' = [req EXCEPT ![r] = Idle]
    /\ UNCHANGED <<field, value, index>>

(* The trigger task_field_values_reindex_trigger touches the task of every row written. *)
PokedByUpsert(r, tasks) == IF req[r].does = "set" THEN tasks ELSE {}

Poked(r, tasks) == tasks

Wrote(r, rows, new) ==
    LET todo == Poked(r, {row[1] : row \in rows})
    IN req' = [req EXCEPT ![r].rows = rows, ![r].new = new, ![r].todo = todo,
                          ![r].pc = IF todo = {} THEN "commit" ELSE "reindex"]

(* The upsert: only a new row is checked against its field. *)
Upsert(r) ==
    LET t == req[r].t f == req[r].f
    IN /\ req[r].pc = "write" /\ req[r].does = "set" /\ ~Held(r, t, f)
       /\ value[t][f] = None => Live(f) /\ ~Leaving(r, f)
       /\ Wrote(r, {<<t, f>>}, value[t][f] = None)
       /\ UNCHANGED <<field, value, index>>

(* A row that another has written and not committed is not there to be cleared. *)
Erase(r) ==
    LET t == req[r].t f == req[r].f
    IN /\ req[r].pc = "write" /\ req[r].does = "clear"
       /\ value[t][f] # None => ~Held(r, t, f)
       /\ Wrote(r, IF value[t][f] = None THEN {} ELSE {<<t, f>>}, FALSE)
       /\ UNCHANGED <<field, value, index>>

LockField(r) ==
    /\ req[r].pc = "write" /\ req[r].does = "delete" /\ Live(req[r].f)
    /\ ~Leaving(r, req[r].f) /\ ~Referred(r, req[r].f)
    /\ req' = [req EXCEPT ![r].pc = "cascade"]
    /\ UNCHANGED <<field, value, index>>

Cascade(r) ==
    LET rows == {<<t, req[r].f>> : t \in {t \in Task : value[t][req[r].f] # None}}
    IN /\ req[r].pc = "cascade" /\ \A row \in rows : ~Held(r, row[1], row[2])
       /\ Wrote(r, rows, FALSE)
       /\ UNCHANGED <<field, value, index>>

(* What a transaction sees of the values: what is committed, and what it wrote. *)
Seen(r) == [t \in Task |-> [f \in Field |-> IF <<t, f>> \in req[r].rows THEN req[r].v ELSE value[t][f]]]
TextOf(row) == {row[f] : f \in Field} \ {None}
Over(text, below) == [t \in DOMAIN text \cup DOMAIN below |-> IF t \in DOMAIN text THEN text[t] ELSE below[t]]

(* sprintly_field_values_reindex_task() and, once it has the task's row,
   sprintly_tasks_update_search(). *)
Reindex(r) ==
    /\ req[r].pc = "reindex"
    /\ \E t \in req[r].todo :
          /\ ~Rebuilt(r, t)
          /\ req' = [req EXCEPT ![r].todo = @ \ {t},
                                ![r].text = Over(@, [u \in {t} |-> TextOf(Seen(r)[u])]),
                                ![r].pc = IF req[r].todo = {t} THEN "commit" ELSE "reindex"]
    /\ UNCHANGED <<field, value, index>>

Commit(r) ==
    /\ req[r].pc = "commit"
    /\ value' = Seen(r)
    /\ index' = Over(req[r].text, index)
    /\ field' = IF req[r].does = "delete" THEN [field EXCEPT ![req[r].f] = [Absent EXCEPT !.row = "deleted"]] ELSE field
    /\ req' = [req EXCEPT ![r] = Idle]

(* apply_jira_import(): the story points of a task, in the field of that name, whatever its
   type, or in one made for them.  It waits for whoever holds the value or the task. *)
ImportPoints(f, t, n) ==
    /\ \/ Live(f) /\ Fold[field[f].name] = "story points"
       \/ field[f].row = "unused" /\ Fresh(f) /\ NameIsFree(f, "story points")
    /\ \A r \in Request :
          /\ <<t, f>> \notin req[r].rows /\ t \notin DOMAIN req[r].text
          /\ req[r].does = "delete" /\ req[r].f = f => req[r].pc = "write"
    /\ field' = IF Live(f) THEN field
                ELSE [field EXCEPT ![f] = [row |-> "live", name |-> "story points", type |-> "number", options |-> <<>>]]
    /\ value' = [value EXCEPT ![t][f] = n]
    /\ index' = [index EXCEPT ![t] = TextOf(value'[t])]
    /\ UNCHANGED req

Next ==
    \/ \E f \in Field :
          \/ \E name \in Name, options \in Options :
                \/ \E type \in Type : CreateDef(f, name, type, options)
                \/ UpdateDef(f, name, options)
          \/ \E t \in Task, s \in DOMAIN Numeral : ImportPoints(f, t, Numeral[s])
    \/ \E r \in Request :
          \/ \E f \in Field : DeleteRead(r, f) \/ \E t \in Task :
                ClearRead(r, t, f) \/ \E raw \in Spelling : SetRead(r, t, f, raw)
          \/ Upsert(r) \/ Erase(r) \/ LockField(r) \/ Cascade(r) \/ Reindex(r) \/ Commit(r)
          \/ Abort(r)

Spec == Init /\ [][Next]_vars

----------------------------------------------------------------------------
TypeOK ==
    /\ \A f \in Field :
          /\ field[f].row \in {"unused", "live", "deleted"}
          /\ Live(f) => field[f].name \in Name \cup {"story points"} /\ field[f].type \in Type \cup {"number"}
    /\ value \in [Task -> [Field -> Stored \cup {None}]]
    /\ index \in [Task -> SUBSET Stored]
    /\ \A r \in Request :
          /\ req[r].pc \in {"idle", "write", "cascade", "reindex", "commit"}
          /\ req[r].rows \subseteq Task \X Field /\ req[r].todo \subseteq Task

(* However writes and deletions overlap, the search text of a task has the values the task
   shows, and no other (the triggers of the migration). *)
SearchHasTheValues == \A t \in Task : index[t] = TextOf(value[t])

(* No value outlives its field. *)
ValuesHaveFields == \A t \in Task, f \in Field : value[t][f] # None => Live(f)

(* matching_task_ids(): the tasks that match all of the pairs. *)
Matching(pairs) ==
    {t \in Task : \A p \in pairs : \E f \in Field :
        /\ Live(f) /\ Fold[field[f].name] = Fold[p[1]]
        /\ value[t][f] # None /\ value[t][f] = Canonical(field[f].type, field[f].options, p[2])}

(* A task is found by the values it shows, those no longer offered aside, by one of them or
   by all at once. *)
TasksAreFoundByTheirValues ==
    \A t \in Task :
        LET shown == {f \in Field : value[t][f] # None /\
                        (field[f].type = "select" => value[t][f] \in ToSet(field[f].options))}
        IN t \in Matching({<<field[f].name, value[t][f]>> : f \in shown})

FieldsAreFound == SearchHasTheValues /\ ValuesHaveFields /\ TasksAreFoundByTheirValues
=============================================================================
