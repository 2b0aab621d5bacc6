----------------------------- MODULE TaskSearch -----------------------------
(***************************************************************************)
(* The query language over tasks (domain/jql.rs) and the handlers that run *)
(* and save queries (routes/jql.rs, routes/search.rs), all of              *)
(* apps/api/src.                                                           *)
(*                                                                         *)
(* A text is the sequence of its tokens, lower-cased, a quoted one within  *)
(* its quotes.  A condition compiles to SQL, so it is true, false or null  *)
(* of a task.                                                              *)
(***************************************************************************)
EXTENDS Naturals, Sequences, FiniteSets, SequencesExt

CONSTANTS
    User,
    Tasks,    \* the rows, by task
    Access,   \* the projects of each user
    Texts,    \* what people type: by sort of text, its [chunks, max, saves]
    Quoted,   \* what is in the quotes of a quoted token
    Number,   \* the number, or the day, a token stands for
    Collation, \* the place of a word in the alphabet
    None      \* NULL, or no value

VARIABLES
    text,   \* the text in the box: its tokens, and the chunks it was typed in
    answer, \* of the last run
    saved   \* saved queries

vars == <<text, answer, saved>>

----------------------------------------------------------------------------
Kind == [status |-> "text", assignee |-> "text", sprint |-> "text", label |-> "array",
         body |-> "full text", points |-> "number", due |-> "date"]
Field == DOMAIN Kind
Op == {"=", "!=", "~", "!~", ">", ">=", "<", "<="}
Negative == {"!=", "!~", "not in", "is not empty"}

StateWord == [active |-> {"active"}, future |-> {"planned"}, closed |-> {"completed"},
              open |-> {"active", "planned"}]
SprintFunction(t) ==
    CASE t = "openSprints()" -> {"active", "planned"} [] t = "closedSprints()" -> {"completed"} [] OTHER -> {}

At(q, i) == IF i <= Len(q) THEN q[i] ELSE "end"
IsValue(t) == t \notin {"(", ")", ",", "end"} \cup Op
Content(t) == IF t \in DOMAIN Quoted THEN Quoted[t] ELSE t

Error == [ok |-> FALSE]
Found(at, e) == [ok |-> TRUE, at |-> at, e |-> e]
Cond(f, op, is, v) == [node |-> "cond", field |-> f, op |-> op, is |-> is, v |-> v]

----------------------------------------------------------------------------
(* coerce(): a literal in the type of its field. *)
Coerce(f, op, t, next) ==
    CASE t = "currentUser()" -> IF f = "assignee" THEN Found(next, Cond(f, op, "me", t)) ELSE Error
      [] f = "sprint" /\ SprintFunction(t) # {} -> Found(next, Cond(f, op, "states", SprintFunction(t)))
      [] t = "empty" -> Found(next, Cond(f, op, "none", t))
      [] Kind[f] \in {"number", "date"} ->
            IF t \in DOMAIN Number THEN Found(next, Cond(f, op, "number", Number[t])) ELSE Error
      [] OTHER -> Found(next, Cond(f, op, "text", Content(t)))

(* value_list(): values with commas between, and perhaps one before the end. *)
ValueList(q, i) ==
    LET ends == {j \in i + 1 .. Len(q) : q[j] = ")"}
        end == CHOOSE j \in ends : \A k \in ends : j <= k
    IN IF /\ At(q, i) = "(" /\ ends # {} /\ end > i + 1
          /\ \A k \in i + 1 .. end - 1 : IF (k - i) % 2 = 1 THEN IsValue(q[k]) ELSE q[k] = ","
       THEN Found(end + 1, {q[k] : k \in {k \in i + 1 .. end - 1 : (k - i) % 2 = 1}})
       ELSE Error

InList(f, op, q, i) ==
    LET list == ValueList(q, i)
        states == {t \in list.e : SprintFunction(t) # {}}
    IN CASE f = "sprint" /\ SprintFunction(At(q, i)) # {} ->
              Found(i + 1, Cond(f, op, "states", SprintFunction(At(q, i))))
         [] ~list.ok -> Error
         [] f = "sprint" /\ states # {} ->
              IF states # list.e THEN Error
              ELSE Found(list.at, Cond(f, op, "states", UNION {SprintFunction(t) : t \in states}))
         [] OTHER -> Found(list.at, Cond(f, op, "list", {Content(t) : t \in list.e}))

IsTest(f, negate, q, i) ==
    CASE f = "sprint" /\ At(q, i) \in DOMAIN StateWord ->
           Found(i + 1, Cond(f, IF negate THEN "!=" ELSE "=", "states", StateWord[At(q, i)]))
      [] At(q, i) = "empty" ->
           Found(i + 1, Cond(f, IF negate THEN "is not empty" ELSE "is empty", "none", At(q, i)))
      [] OTHER -> Error

ParseCond(q, i) ==
    LET f == At(q, i)
        next == At(q, i + 1)
        negate == At(q, i + 2) = "not"
    IN CASE f \notin Field -> Error
         [] next = "is" -> IsTest(f, negate, q, IF negate THEN i + 3 ELSE i + 2)
         [] next = "in" -> InList(f, "in", q, i + 2)
         [] next = "not" -> IF At(q, i + 2) = "in" THEN InList(f, "not in", q, i + 3) ELSE Error
         [] next \in Op -> IF IsValue(At(q, i + 2)) THEN Coerce(f, next, At(q, i + 2), i + 3) ELSE Error
         [] OTHER -> Error

(* expr(), and_expr() and term() at each place of the text: OR binds loosest.  A chain
   of one word groups to the right here and to the left there, which reads the same. *)
Grammar(q) ==
    LET parsed[rule \in {"or", "and", "term"}, i \in 1 .. Len(q) + 2] ==
            LET left == parsed[IF rule = "or" THEN "and" ELSE "term", i]
                right == parsed[rule, left.at + 1]
                inner == parsed[IF At(q, i) = "not" THEN "term" ELSE "or", i + 1]
            IN CASE rule # "term" /\ (~left.ok \/ At(q, left.at) # rule) -> left
                 [] rule # "term" ->
                      IF right.ok THEN Found(right.at, [node |-> rule, a |-> left.e, b |-> right.e]) ELSE Error
                 [] At(q, i) = "not" ->
                      IF inner.ok THEN Found(inner.at, [node |-> "not", a |-> inner.e]) ELSE Error
                 [] At(q, i) = "(" ->
                      IF inner.ok /\ At(q, inner.at) = ")" THEN Found(inner.at + 1, inner.e) ELSE Error
                 [] OTHER -> ParseCond(q, i)
    IN parsed

(* order_by(), of one field. *)
OrderBy(q, i) ==
    IF At(q, i) = "end" THEN Found(i, None)
    ELSE LET f == At(q, i + 2)
             word == At(q, i + 3) \in {"asc", "desc"}
         IN IF At(q, i) = "order" /\ At(q, i + 1) = "by" /\ f \in Field /\ Kind[f] \notin {"array", "full text"}
            THEN Found(IF word THEN i + 4 ELSE i + 3, [field |-> f, desc |-> At(q, i + 3) = "desc"])
            ELSE Error

Parse(q) ==
    LET filter == IF At(q, 1) \in {"order", "end"} THEN Found(1, [node |-> "all"]) ELSE Grammar(q)["or", 1]
        order == OrderBy(q, filter.at)
    IN IF filter.ok /\ order.ok /\ order.at = Len(q) + 1
       THEN [ok |-> TRUE, filter |-> filter.e, order |-> order.e] ELSE Error

----------------------------------------------------------------------------
(* SQL: what a comparison with NULL yields, and what becomes of it. *)
Bool(b) == IF b THEN "true" ELSE "false"
Not(x) == CASE x = "true" -> "false" [] x = "false" -> "true" [] OTHER -> "null"
And(x, y) == IF "false" \in {x, y} THEN "false" ELSE IF "null" \in {x, y} THEN "null" ELSE "true"
Or(x, y) == Not(And(Not(x), Not(y)))
OfValue(col, b) == IF col = None THEN "null" ELSE b

Compare(op, a, b) ==
    CASE op \in Negative -> Bool(a # b)
      [] op = ">" -> Bool(a > b) [] op = ">=" -> Bool(a >= b)
      [] op = "<" -> Bool(a < b) [] op = "<=" -> Bool(a <= b) [] OTHER -> Bool(a = b)

(* "NULL != 'x' is NULL, not true", so a negated test of a word takes the rows without one. *)
NotEqualOnly(col, eq) == Not(eq)

OrIsNull(col, eq) == Or(Bool(col = None), Not(eq))

CompileCond(c, me, row) ==
    LET col == row[c.field]
        kind == Kind[c.field]
        negated == c.op \in Negative
        Signed(x) == IF negated THEN Not(x) ELSE x
        Kept(x) == IF negated THEN OrIsNull(col, x) ELSE x
        numbers == {Number[t] : t \in c.v \cap DOMAIN Number}
    IN CASE c.is = "none" -> Signed(Bool(IF kind = "array" THEN col = {} ELSE col = None))
         [] c.is = "states" -> Kept(OfValue(col, Bool(row.state \in c.v)))
         [] c.is = "me" -> Signed(OfValue(col, Bool(col = me)))
         [] c.is = "number" -> OfValue(col, Compare(c.op, col, c.v))
         [] kind \in {"array", "full text"} -> Signed(Bool(col \cap (IF c.is = "list" THEN c.v ELSE {c.v}) # {}))
         [] kind = "number" -> IF numbers = {} THEN "false" ELSE Signed(OfValue(col, Bool(col \in numbers)))
         [] c.is = "list" -> Kept(OfValue(col, Bool(col \in c.v)))
         [] c.op \in {"~", "!~"} -> Signed(OfValue(col, Bool(col = c.v)))
         [] c.op \in {">", ">=", "<", "<="} -> OfValue(col, Compare(c.op, Collation[col], Collation[c.v]))
         [] OTHER -> Kept(OfValue(col, Bool(col = c.v)))

RECURSIVE Compile(_, _, _)
Compile(e, me, row) ==
    CASE e.node = "all" -> "true"
      [] e.node = "not" -> Not(Compile(e.a, me, row))
      [] e.node = "and" -> And(Compile(e.a, me, row), Compile(e.b, me, row))
      [] e.node = "or" -> Or(Compile(e.a, me, row), Compile(e.b, me, row))
      [] OTHER -> CompileCond(e, me, row)

(* lower() of a date: the database refuses the statement, and explain() says so. *)
RECURSIVE TypeChecks(_)
TypeChecks(e) ==
    CASE e.node = "all" -> TRUE
      [] e.node = "not" -> TypeChecks(e.a)
      [] e.node \in {"and", "or"} -> TypeChecks(e.a) /\ TypeChecks(e.b)
      [] OTHER -> ~(Kind[e.field] = "date" /\ e.is = "list")

----------------------------------------------------------------------------
Init == text = [of |-> None, chunks |-> 0, q |-> <<>>] /\ answer = None /\ saved = {}

Type(sort, chunk) ==
    /\ text.of \in {None, sort} /\ text.chunks < Texts[sort].max
    /\ text' = [of |-> sort, chunks |-> text.chunks + 1, q |-> text.q \o chunk]
    /\ answer' = None /\ UNCHANGED saved

(* ORDER BY one field, NULLS LAST, then t.key; tasks are numbered in the order of their
   keys, the last updated first, which is the default. *)
Value(f, x) == IF Kind[f] \in {"number", "date"} THEN x ELSE Collation[x]
Before(order, t, u) ==
    LET a == IF order = None THEN None ELSE Tasks[t][order.field]
        b == IF order = None THEN None ELSE Tasks[u][order.field]
    IN IF a = b THEN t < u
       ELSE IF None \in {a, b} THEN b = None
       ELSE LET x == Value(order.field, a) y == Value(order.field, b)
            IN IF order.desc THEN x > y ELSE x < y

(* run() for a user: $1 is the projects of the caller, outside the user's expression. *)
Scoped(u, t) == Tasks[t].live /\ Tasks[t].project \in Access[u]
Run(u, offset, limit) ==
    /\ text.chunks > 0 /\ Parse(text.q).ok /\ TypeChecks(Parse(text.q).filter)
    /\ LET parsed == Parse(text.q)
           hits == {t \in DOMAIN Tasks : Scoped(u, t) /\ Compile(parsed.filter, u, Tasks[t]) = "true"}
       IN answer' = [by |-> u, total |-> Cardinality(hits), offset |-> offset, limit |-> limit,
                     items |-> SubSeq(SetToSortSeq(hits, LAMBDA t, v : Before(parsed.order, t, v)),
                                      offset + 1, Min({offset + limit, Cardinality(hits)}))]
    /\ UNCHANGED <<text, saved>>

(* check_jql() of the text in the box. *)
Saveable == text.chunks > 0 /\ Parse(text.q).ok

(* A name is its owner's once. *)
CreateSaved(u, name, shared) ==
    /\ Saveable /\ Cardinality(saved) < Texts[text.of].saves
    /\ ~\E s \in saved : s.owner = u /\ s.name = name
    /\ saved' = saved \cup {[owner |-> u, name |-> name, q |-> text.q, shared |-> shared]}
    /\ UNCHANGED <<text, answer>>

UpdateSaved(u, s, name, shared) ==
    /\ s.owner = u /\ ~\E o \in saved \ {s} : o.owner = u /\ o.name = name
    /\ Saveable
    /\ saved' = (saved \ {s}) \cup {[owner |-> u, name |-> name, q |-> text.q, shared |-> shared]}
    /\ UNCHANGED <<text, answer>>

DeleteSaved(u, s) ==
    /\ s.owner = u /\ saved' = saved \ {s}
    /\ UNCHANGED <<text, answer>>

(* list_saved(), one's own and the shared ones, and one of them in the box. *)
Load(u, s) ==
    /\ s.owner = u \/ s.shared
    /\ text' = [text EXCEPT !.q = s.q] /\ answer' = None /\ UNCHANGED saved

Name == {"mine"}
Next ==
    \/ \E sort \in DOMAIN Texts : \E chunk \in Texts[sort].chunks : Type(sort, chunk)
    \/ \E u \in User :
          \/ \E offset \in {0, 1} : Run(u, offset, 2)
          \/ \E name \in Name, shared \in BOOLEAN :
                CreateSaved(u, name, shared) \/ \E s \in saved : UpdateSaved(u, s, name, shared)
          \/ \E s \in saved : DeleteSaved(u, s) \/ Load(u, s)

Spec == Init /\ [][Next]_vars

----------------------------------------------------------------------------
TypeOK ==
    /\ text.of \in DOMAIN Texts \cup {None} /\ text.chunks \in Nat /\ \A i \in DOMAIN text.q : text.q[i] \in STRING
    /\ answer # None => answer.by \in User /\ ToSet(answer.items) \subseteq DOMAIN Tasks
    /\ \A s \in saved : s.owner \in User /\ s.name \in Name /\ s.shared \in BOOLEAN

(* How a text reads, told from its outside: an "or" outside all parentheses parts it first,
   then an "and", then comes a "not", then the parentheses around it. *)
RECURSIVE Reading(_, _, _, _, _)
Reading(q, lo, hi, me, row) ==
    LET Many(t, k) == Cardinality({j \in lo .. k : q[j] = t})
        Parts(t) == {k \in lo .. hi : q[k] = t /\ Many("(", k) = Many(")", k)}
        Join(t, F(_, _)) ==
            LET k == CHOOSE k \in Parts(t) : TRUE
                x == Reading(q, lo, k - 1, me, row)
                y == Reading(q, k + 1, hi, me, row)
            IN IF "error" \in {x, y} THEN "error" ELSE F(x, y)
        c == ParseCond(q, lo)
    IN CASE lo > hi -> "error"
         [] Parts("or") # {} -> Join("or", Or)
         [] Parts("and") # {} -> Join("and", And)
         [] q[lo] = "not" -> LET x == Reading(q, lo + 1, hi, me, row) IN IF x = "error" THEN x ELSE Not(x)
         [] q[lo] = "(" /\ q[hi] = ")" -> Reading(q, lo + 1, hi - 1, me, row)
         [] OTHER -> IF c.ok /\ c.at = hi + 1 THEN CompileCond(c.e, me, row) ELSE "error"

ReadsAsWritten ==
    LET q == text.q IN
    /\ q # <<>> /\ "order" \notin ToSet(q)
    /\ Parse(q).ok => TypeChecks(Parse(q).filter)
    =>
        \A u \in User, t \in DOMAIN Tasks :
            Reading(q, 1, Len(q), u, Tasks[t]) =
                IF Parse(q).ok THEN Compile(Parse(q).filter, u, Tasks[t]) ELSE "error"

(* What is negated takes the rows without a value, save for numbers, dates, "!~" and the
   caller's own name. *)
Opposite(op) == CASE op = "!=" -> "=" [] op = "not in" -> "in" [] OTHER -> "is empty"

NegationKeepsTheEmpty ==
    LET e == Parse(text.q).filter
        plain == /\ Parse(text.q).ok /\ e.node = "cond"
                 /\ e.op \in Negative \ {"!~"} /\ e.is \notin {"me", "number"}
                 /\ e.is = "list" => Kind[e.field] \notin {"number", "date"}
        Takes(c, u, t) == CompileCond(c, u, Tasks[t]) = "true"
    IN plain => \A u \in User, t \in DOMAIN Tasks :
                    Takes(e, u, t) = ~Takes([e EXCEPT !.op = Opposite(@)], u, t)

(* An answer is the page asked for of what the caller may see, the rows that lack what it
   is ordered by at its end. *)
PagesAreRight ==
    answer # None =>
        LET order == Parse(text.q).order
            page == answer.items
        IN /\ \A i \in DOMAIN page : Scoped(answer.by, page[i])
           /\ \A i, j \in DOMAIN page : i < j =>
                 /\ page[i] # page[j]
                 /\ order # None => (Tasks[page[i]][order.field] = None => Tasks[page[j]][order.field] = None)
           /\ answer.total >= answer.offset => Len(page) = Min({answer.limit, answer.total - answer.offset})

(* A saved query can be run by whoever sees it, and its owner has one of its name. *)
SavedQueriesParse ==
    /\ \A s \in saved : Parse(s.q).ok
    /\ \A s, o \in saved : s.owner = o.owner /\ s.name = o.name => s = o

QueriesAreUnderstood == ReadsAsWritten /\ NegationKeepsTheEmpty /\ PagesAreRight /\ SavedQueriesParse
=============================================================================
