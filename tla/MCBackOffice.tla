---------------------------- MODULE MCBackOffice ----------------------------
(***************************************************************************)
(* Office for TLC, with the search for tasks as one more part, the export  *)
(* that is imported and what people enter into custom fields.              *)
(***************************************************************************)
EXTENDS Office

VARIABLES text, answer, saved

(* Two issues, the second under the first by a number, in a sprint without an end. *)
OneExport == {[status |-> [a |-> "Open", b |-> "Resolved"],
               parentKey |-> [a |-> None, b |-> None], parentId |-> [a |-> None, b |-> 10],
               number |-> [a |-> 10, b |-> 11], sprint |-> "open ended"]}

(* A project for each task, and rates that a duration makes broken cents of. *)
BookProject == [t \in {"t1", "t2"} |-> IF t = "t1" THEN "p1" ELSE "p2"]
BookWage == [u \in {"ann", "bob"} |-> IF u = "ann" THEN 100 ELSE 50]

(* Of two tasks one has points, a due date, and blocks the other. *)
ChartPoints == [t \in {"t1", "t2"} |-> IF t = "t1" THEN 2 ELSE None]
ChartDue == [t \in {"t1", "t2"} |-> IF t = "t1" THEN 2 ELSE None]
ChartBlocks == {<<"t1", "t2">>}

(* Names and choices that differ by case only, and the points of an import. *)
FieldFold == [s \in {"Size", "size", "story points", "High", "high", "3.0", "3"} |->
                CASE s = "Size" -> "size" [] s = "High" -> "high" [] OTHER -> s]
FieldOptions == {<<>>, <<"High">>, <<"high", "3">>, <<"High", "high">>, <<"high", "High">>}
FieldNumeral == [s \in {"3.0", "3"} |-> "3"]

(* Three tasks, two of a project that one user sees; texts of up to five words, every
   condition alone, and orders, of which one may be saved. *)
SearchTasks == <<
    [live |-> TRUE, project |-> "p1", status |-> "todo", assignee |-> "ann", sprint |-> "s1",
     state |-> "active", label |-> {"bug"}, body |-> {"or"}, points |-> 3, due |-> None],
    [live |-> TRUE, project |-> "p1", status |-> "done", assignee |-> None, sprint |-> None,
     state |-> None, label |-> {}, body |-> {}, points |-> None, due |-> 1],
    [live |-> TRUE, project |-> "p2", status |-> "todo", assignee |-> "bob", sprint |-> "s2",
     state |-> "completed", label |-> {"bug"}, body |-> {"ann"}, points |-> 1, due |-> 2]>>
SearchAccess == [u \in {"ann", "bob"} |-> IF u = "ann" THEN {"p1"} ELSE {"p1", "p2"}]
SearchQuoted == [t \in {"'or'"} |-> "or"]
SearchNumber == [t \in {"3"} |-> 3]
SearchCollation == "3" :> 0 @@ "ann" :> 1 @@ "bob" :> 2 @@ "bug" :> 3 @@ "done" :> 4
    @@ "openSprints()" :> 5 @@ "or" :> 6 @@ "s1" :> 7 @@ "s2" :> 8 @@ "todo" :> 9

SearchGroups == {<<"assignee", "=", "ann">>, <<"status", "=", "done">>,
                 <<"and">>, <<"or">>, <<"not">>, <<"(">>, <<")">>}
SearchFields == {"status", "assignee", "sprint", "label", "body", "points", "due", "owner"}
SearchValues == {<<"empty">>, <<"currentUser()">>, <<"openSprints()">>, <<"ann">>, <<"'or'">>,
                 <<"3">>, <<"todo">>}
SearchLists == {<<"(", "ann", ",", "3", ")">>, <<"(", "todo", ",", ")">>, <<"(", ")">>,
                <<"closedSprints()">>, <<"(", "openSprints()", ",", "s1", ")">>,
                <<"(", "bug", ")">>}
SearchTests == {<<"is", "empty">>, <<"is", "not", "empty">>, <<"is", "open">>,
                <<"is", "not", "active">>}
SearchConditions ==
    {<<f, op>> \o v : f \in SearchFields, op \in {"=", "!=", "~", "!~", ">", ">=", "<", "<="},
                     v \in SearchValues}
    \cup {<<f, "in">> \o l : f \in SearchFields, l \in SearchLists}
    \cup {<<f, "not", "in">> \o l : f \in SearchFields, l \in SearchLists}
    \cup {<<f>> \o t : f \in SearchFields, t \in SearchTests}
SearchOrders == {<<"status", "!=", "done">>, <<"order", "by">>, <<"points">>, <<"assignee">>,
                 <<"desc">>}
SearchTexts == [groups |-> [chunks |-> SearchGroups, max |-> 5, saves |-> 0],
                conditions |-> [chunks |-> SearchConditions, max |-> 1, saves |-> 0],
                orders |-> [chunks |-> SearchOrders, max |-> 4, saves |-> 1]]

Search == INSTANCE TaskSearch
    WITH User <- {"ann", "bob"}, Tasks <- SearchTasks, Access <- SearchAccess, Texts <- SearchTexts,
         Quoted <- SearchQuoted, Number <- SearchNumber, Collation <- SearchCollation

searchVars == <<text, answer, saved>>

BackOfficeInit == OfficeInit /\ Search!Init
BackOfficeNext ==
    /\ OfficeNext
    /\ IF part = "search" THEN Search!Next ELSE UNCHANGED searchVars

BackOfficeSpec == BackOfficeInit /\ [][BackOfficeNext]_<<officeVars, searchVars>>

(* A query reads as it is written, and its pages are the rows it is true of (domain/jql.rs,
   routes/jql.rs) *)
QueriesAreUnderstood == part = "search" => Search!TypeOK /\ Search!QueriesAreUnderstood
=============================================================================
