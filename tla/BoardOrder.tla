------------------------------ MODULE BoardOrder ------------------------------
(***************************************************************************)
(* The places of the items of one list: tasks.order_in_column for the      *)
(* tasks of a column (resolve_position() in apps/api/src/domain/tasks.rs), *)
(* board_columns.sort_order for the columns of a board                     *)
(* (apps/api/src/routes/boards.rs).                                        *)
(*                                                                         *)
(* Places are doubles, 1024 apart and halved to insert between two.  They  *)
(* are integers here, Gap apart; an insertion that would need a finer      *)
(* place than 1 is left out.                                               *)
(***************************************************************************)
EXTENDS Integers, FiniteSets, SequencesExt, FiniteSetsExt

CONSTANTS
    Item,      \* ids an item may take: bounds the list
    Request,   \* slots for handlers in flight: the bound on concurrency
    Overlap,   \* whether handlers overlap, or run one request at a time
    Gap,       \* the spacing of fresh places, a power of two: bounds the halvings
    MaxPlace,  \* bounds a place; the lowest is -Gap
    None       \* no value

VARIABLES
    item,  \* the rows of the list
    req    \* the handlers in flight

vars == <<item, req>>

----------------------------------------------------------------------------
Place == -Gap .. MaxPlace

ItemRow == [row: {"absent", "live", "deleted"}, place: Int]

(* An insertion that has computed its place: next to which anchor, on which side. *)
RequestRecord ==
    [pc: {"idle", "place"}, i: Item \cup {None}, side: {"after", "before", "end"},
     anchor: Item \cup {None}, place: Int]

NoItem == [row |-> "absent", place |-> 0]
Idle == [pc |-> "idle", i |-> None, side |-> "end", anchor |-> None, place |-> 0]

(* Which unused id a new item takes makes no difference. *)
New(i) == item[i].row = "absent" /\ i = CHOOSE j \in Item : item[j].row = "absent"

Live(i) == item[i].row = "live"
Places == {item[i].place : i \in {j \in Item : Live(j)}}

Init ==
    /\ item = [i \in Item |-> NoItem]
    /\ req = [r \in Request |-> Idle]

Ready == Overlap \/ \A r \in Request : req[r].pc = "idle"

----------------------------------------------------------------------------
(* position_value() between two places. *)
Between(a, b) == (a + b) \div 2

(* MAX(...) + 1024 over the live items, from 0 when there are none. *)
AtEnd == IF Places = {} THEN Gap ELSE Max(Places) + Gap

(* resolve_position() with after_id; fractional_insert_after(). *)
AfterNotBelow(a) ==
    LET above == {p \in Places : p >= a} IN
    IF above = {} THEN a + Gap ELSE Between(a, Min(above))

After(a) ==
    LET above == {p \in Places : p > a} IN
    IF above = {} THEN a + Gap ELSE Between(a, Min(above))

(* resolve_position() with before_id. *)
Before(a) ==
    LET below == {p \in Places : p < a} IN
    IF below = {} THEN a - Gap ELSE Between(Max(below), a)

(* There is a place between a and its neighbours: the bound on halvings. *)
Room(a) == {a - 1, a + 1} \cap Places = {}

Compute(r, i, side, anchor, place) ==
    /\ Ready /\ req[r].pc = "idle"
    /\ Live(i) \/ New(i)
    /\ place \in Place
    /\ req' = [req EXCEPT ![r] = [pc |-> "place", i |-> i, side |-> side,
                                  anchor |-> anchor, place |-> place]]
    /\ UNCHANGED item

(* create_task(), create_column(), and move_task() without an anchor: i is a
   new item, or one of the list. *)
ComputeEnd(r, i) == Compute(r, i, "end", None, AtEnd)

(* move_task() with after_task_id, create_column() with after_column_id: the
   anchor is live, or not found. *)
ComputeAfter(r, i, a) ==
    /\ Live(a) /\ Room(item[a].place)
    /\ Compute(r, i, "after", a, After(item[a].place))

(* move_task() with before_task_id *)
ComputeBefore(r, i, a) ==
    /\ Live(a) /\ Room(item[a].place)
    /\ Compute(r, i, "before", a, Before(item[a].place))

(* The INSERT or UPDATE with the place computed before it. *)
Write(r) ==
    /\ req[r].pc = "place"
    /\ item' = [item EXCEPT ![req[r].i] = [row |-> "live", place |-> req[r].place]]
    /\ req' = [req EXCEPT ![r] = Idle]

(* delete_task(), delete_column(), a move to another list; restore_task() puts
   a task back at its old place, wherever the others went. *)
Leave(i) ==
    /\ Ready /\ Live(i)
    /\ item' = [item EXCEPT ![i].row = "deleted"]
    /\ UNCHANGED req

Restore(i) ==
    /\ Ready /\ item[i].row = "deleted"
    /\ item' = [item EXCEPT ![i].row = "live"]
    /\ UNCHANGED req

(* reorder_columns(): every live column exactly once, at clean spacing. *)
Rebalance(order) ==
    /\ Ready
    /\ item' = [i \in Item |->
                  IF Live(i)
                    THEN [item[i] EXCEPT !.place = Gap * CHOOSE n \in DOMAIN order : order[n] = i]
                    ELSE item[i]]
    /\ UNCHANGED req

----------------------------------------------------------------------------
Next ==
    \/ \E r \in Request : Write(r)
    \/ \E r \in Request, i \in Item : ComputeEnd(r, i)
    \/ \E r \in Request, i, a \in Item : ComputeAfter(r, i, a) \/ ComputeBefore(r, i, a)
    \/ \E i \in Item : Leave(i) \/ Restore(i)
    \/ \E order \in SetToSeqs({i \in Item : Live(i)}) : Rebalance(order)

Spec == Init /\ [][Next]_vars

----------------------------------------------------------------------------
TypeOK ==
    /\ item \in [Item -> ItemRow]
    /\ req \in [Request -> RequestRecord]

(* An item lands where it was dropped: right after its anchor, right before it,
   or behind every other item, whatever deletions, restores to old places,
   insertions and rebalancings came before, one request at a time
   (resolve_position). *)
LandsWhereDropped ==
    [][\A r \in Request :
         req[r].pc = "place" /\ req'[r].pc = "idle" =>
           LET i == req[r].i
               a == req[r].anchor
               here == item'[i].place
               others == {item'[j].place : j \in {k \in Item \ {i} : item'[k].row = "live"}}
           IN CASE req[r].side = "end" -> \A p \in others : p < here
                [] req[r].side = "after" /\ i # a ->
                     item'[a].place < here /\ ~\E p \in others : item'[a].place < p /\ p <= here
                [] req[r].side = "before" /\ i # a ->
                     here < item'[a].place /\ ~\E p \in others : here <= p /\ p < item'[a].place
                [] OTHER -> TRUE]_vars

=============================================================================
