-------------------------------- MODULE Retro --------------------------------
(***************************************************************************)
(* The retrospective of one sprint: apps/api/src/routes/retros.rs.         *)
(*                                                                         *)
(* A handler that reads first and writes by id later is a request in two   *)
(* steps; votes are one statement.                                         *)
(***************************************************************************)
EXTENDS Naturals, FiniteSets

CONSTANTS
    Note,     \* ids a row of retro_notes may take: bounds the rows
    User,     \* who writes and votes
    Admin,    \* the users with the global role admin
    Body,     \* what a note may say
    Request,  \* slots for handlers in flight: the bound on concurrency
    Overlap,  \* whether handlers overlap, or run one request at a time
    None      \* no value

VARIABLES
    note,   \* table retro_notes, with the votes of retro_votes
    retro,  \* the row of sprint_retros, and sprints.summary_md
    made,   \* how many tasks were made of a note
    req     \* the handlers in flight

vars == <<note, retro, made, req>>

----------------------------------------------------------------------------
(* other stands for went_well, went_poorly and kudos. *)
Kind == {"action_item", "other"}

(* author is None for an anonymous note. *)
NoteRow == [row: {"absent", "live", "deleted"}, kind: Kind, author: User \cup {None},
            body: Body \cup {None}, votes: SUBSET User, promoted: BOOLEAN]

(* A bullet of the summary: which note, what it says, and its votes. *)
Bullet == Note \X Body \X (0 .. Cardinality(User))

RetroRow == [state: {"open", "closed"}, summary: SUBSET Bullet]

RequestRecord ==
    [pc: {"idle", "create", "edit", "promote", "close"}, n: Note \cup {None},
     kind: Kind, author: User \cup {None}, body: Body \cup {None}, summary: SUBSET Bullet]

NoNote == [row |-> "absent", kind |-> "other", author |-> None, body |-> None,
           votes |-> {}, promoted |-> FALSE]
Idle == [pc |-> "idle", n |-> None, kind |-> "other", author |-> None, body |-> None, summary |-> {}]

(* Which unused id a new row takes makes no difference. *)
Fresh(n) == note[n].row = "absent" /\ n = CHOOSE k \in Note : note[k].row = "absent"

Live(n) == note[n].row = "live"
Open == retro.state = "open"

(* complete_sprint() opens the retro. *)
Init ==
    /\ note = [n \in Note |-> NoNote]
    /\ retro = [state |-> "open", summary |-> {}]
    /\ made = [n \in Note |-> 0]
    /\ req = [r \in Request |-> Idle]

Ready == Overlap \/ \A r \in Request : req[r].pc = "idle"

Begin(r, record) ==
    /\ Ready /\ req[r].pc = "idle"
    /\ req' = [req EXCEPT ![r] = record]
    /\ UNCHANGED <<note, retro, made>>

Finish(r) == req' = [req EXCEPT ![r] = Idle]

----------------------------------------------------------------------------
(* create_note(): the retro is open, then the INSERT. *)
CreateCheck(r, u, kind, body, anonymous) ==
    /\ Open
    /\ Begin(r, [Idle EXCEPT !.pc = "create", !.kind = kind, !.body = body,
                             !.author = IF anonymous THEN None ELSE u])

CreateInsert(r, n) ==
    /\ req[r].pc = "create" /\ Fresh(n)
    /\ note' = [note EXCEPT ![n] = [NoNote EXCEPT !.row = "live", !.kind = req[r].kind,
                                       !.author = req[r].author, !.body = req[r].body]]
    /\ Finish(r)
    /\ UNCHANGED <<retro, made>>

(* Anonymous notes have no owner; an admin may write any. *)
MayWrite(u, n) == u \in Admin \/ note[n].author = u

EditableLive(u, n) == Live(n) /\ MayWrite(u, n)

Editable(u, n) == Live(n) /\ Open /\ MayWrite(u, n)

(* edit_note() *)
EditCheck(r, u, n, body) ==
    /\ Editable(u, n)
    /\ Begin(r, [Idle EXCEPT !.pc = "edit", !.n = n, !.body = body])

EditUpdate(r) ==
    /\ req[r].pc = "edit"
    /\ note' = [note EXCEPT ![req[r].n].body = req[r].body]
    /\ Finish(r)
    /\ UNCHANGED <<retro, made>>

(* delete_note(): open or closed. *)
DeleteNote(u, n) ==
    /\ Ready /\ Live(n) /\ MayWrite(u, n)
    /\ note' = [note EXCEPT ![n].row = "deleted"]
    /\ UNCHANGED <<retro, made, req>>

(* vote(), unvote(): INSERT ... ON CONFLICT DO NOTHING and DELETE, of any note
   whatever its state. *)
Vote(u, n) ==
    /\ Ready /\ note[n].row # "absent"
    /\ note' = [note EXCEPT ![n].votes = @ \cup {u}]
    /\ UNCHANGED <<retro, made, req>>

Unvote(u, n) ==
    /\ Ready
    /\ note' = [note EXCEPT ![n].votes = @ \ {u}]
    /\ UNCHANGED <<retro, made, req>>

----------------------------------------------------------------------------
(* promote(): the note is read, then one transaction makes the task and names
   it in the note. *)
Promotable(n) == Live(n) /\ note[n].kind = "action_item" /\ ~note[n].promoted

PromoteCheck(r, n) ==
    /\ Promotable(n)
    /\ Begin(r, [Idle EXCEPT !.pc = "promote", !.n = n])

PromoteCommit(r) ==
    /\ req[r].pc = "promote"
    /\ note' = [note EXCEPT ![req[r].n].promoted = TRUE]
    /\ made' = [made EXCEPT ![req[r].n] = @ + 1]
    /\ Finish(r)
    /\ UNCHANGED retro

----------------------------------------------------------------------------
(* close_retro(): the state and the notes are read, and the summary rendered;
   then one transaction closes the retro and stores the summary. *)
Bullets == {<<n, note[n].body, Cardinality(note[n].votes)>> : n \in {k \in Note : Live(k)}}

CloseRead(r) ==
    /\ Open
    /\ Begin(r, [Idle EXCEPT !.pc = "close", !.summary = Bullets])

CloseCommit(r) ==
    /\ req[r].pc = "close"
    /\ retro' = [state |-> "closed", summary |-> req[r].summary]
    /\ Finish(r)
    /\ UNCHANGED <<note, made>>

----------------------------------------------------------------------------
Next ==
    \/ \E r \in Request, u \in User, kind \in Kind, body \in Body, anonymous \in BOOLEAN :
         CreateCheck(r, u, kind, body, anonymous)
    \/ \E r \in Request, n \in Note : CreateInsert(r, n) \/ PromoteCheck(r, n)
    \/ \E r \in Request, u \in User, n \in Note, body \in Body : EditCheck(r, u, n, body)
    \/ \E u \in User, n \in Note : DeleteNote(u, n) \/ Vote(u, n) \/ Unvote(u, n)
    \/ \E r \in Request : EditUpdate(r) \/ PromoteCommit(r) \/ CloseRead(r) \/ CloseCommit(r)

Spec == Init /\ [][Next]_vars

----------------------------------------------------------------------------
TypeOK ==
    /\ note \in [Note -> NoteRow]
    /\ retro \in RetroRow
    /\ made \in [Note -> 0 .. Cardinality(Request)]
    /\ \A r \in Request : req[r].pc \in {"idle", "create", "edit", "promote", "close"}

(* The record of a closed retro does not lie: every note that is still there is
   in the summary, saying what it says now, and has made at most one task.
   Votes and deletions go on, requests run one at a time (edit_note, promote and
   close_retro). *)
RecordDoesNotLie ==
    /\ retro.state = "closed" =>
         \A n \in Note : Live(n) => \E b \in retro.summary : b[1] = n /\ b[2] = note[n].body
    /\ \A n \in Note : made[n] = IF note[n].promoted THEN 1 ELSE 0

=============================================================================
