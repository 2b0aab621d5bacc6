---------------------------- MODULE Conversation ----------------------------
(***************************************************************************)
(* The conversation on one task and who hears of it: comments, watchers,   *)
(* the assignee and mentions in the description.  create_comment(),        *)
(* delete_comment(), add_watcher() and remove_watcher() in                 *)
(* routes/task_detail.rs, edit_task() in routes/tasks.rs and               *)
(* domain/notifications.rs of apps/api/src.                                *)
(*                                                                         *)
(* The write commits first; then its handler notifies one user after       *)
(* another, best effort, while others watch and stop watching.             *)
(***************************************************************************)
EXTENDS Naturals, FiniteSets

CONSTANTS
    User,     \* the users who may work on the task
    Comment,  \* ids a row of task_comments may take: bounds the rows
    Request,  \* slots for handlers in flight: the bound on concurrency
    None      \* no value

VARIABLES
    comment,   \* table task_comments
    watching,  \* table task_watchers
    assignee,  \* tasks.assignee_id
    desc,      \* the users mentioned in tasks.description
    notice,    \* table notifications: how many about a comment a user has
    ping,      \* and how many since the description began to mention the user
    req        \* the handlers in flight

vars == <<comment, watching, assignee, desc, notice, ping, req>>

----------------------------------------------------------------------------
Person == User \cup {None}
CommentRow == [state: {"absent", "live", "deleted"}, author: Person, mentioned: SUBSET User]
(* owed is history: whom the comment should be announced to, without those for
   whom notify() failed. *)
RequestRecord ==
    [pc: {"idle", "edit", "mentions", "watchers"}, actor: Person, about: Comment \cup {None},
     old: SUBSET User, queue: SUBSET User, owed: SUBSET User]

NoComment == [state |-> "absent", author |-> None, mentioned |-> {}]
Idle == [pc |-> "idle", actor |-> None, about |-> None, old |-> {}, queue |-> {}, owed |-> {}]

Init ==
    /\ comment = [c \in Comment |-> NoComment]
    /\ watching = {} /\ assignee = None /\ desc = {}
    /\ notice = [c \in Comment |-> [u \in User |-> 0]]
    /\ ping = [u \in User |-> 0]
    /\ req = [r \in Request |-> Idle]

Live(c) == comment[c].state = "live"

----------------------------------------------------------------------------
CreateComment(r, c, author, mentioned) ==
    /\ req[r].pc = "idle" /\ comment[c].state = "absent"
    /\ comment' = [comment EXCEPT ![c] = [state |-> "live", author |-> author,
                                          mentioned |-> mentioned]]
    /\ req' = [req EXCEPT ![r] = [Idle EXCEPT !.pc = "mentions", !.actor = author,
                                              !.about = c, !.queue = mentioned,
                                              !.owed = (mentioned \cup watching) \ {author}]]
    /\ UNCHANGED <<watching, assignee, desc, notice, ping>>

DeleteComment(c) ==
    /\ Live(c)
    /\ comment' = [comment EXCEPT ![c].state = "deleted"]
    /\ UNCHANGED <<watching, assignee, desc, notice, ping, req>>

----------------------------------------------------------------------------
(* notify() skips the actor. *)
Deliver(r, u) ==
    LET q == req[r] IN
    /\ notice' = IF q.about # None /\ u # q.actor
                   THEN [notice EXCEPT ![q.about][u] = @ + 1] ELSE notice
    /\ ping' = IF q.about = None /\ u # q.actor THEN [ping EXCEPT ![u] = @ + 1] ELSE ping

NotifyOne(r, u) ==
    /\ req[r].pc \in {"mentions", "watchers"} /\ u \in req[r].queue
    /\ Deliver(r, u)
    /\ req' = [req EXCEPT ![r].queue = @ \ {u}]
    /\ UNCHANGED <<comment, watching, assignee, desc>>

(* let _ = notify(...): the INSERT fails and nobody hears of it. *)
NotifyFails(r, u) ==
    LET q == req[r] IN
    /\ q.pc \in {"mentions", "watchers"} /\ u \in q.queue
    /\ req' = [req EXCEPT ![r].queue = @ \ {u}, ![r].owed = @ \ {u}]
    /\ UNCHANGED <<comment, watching, assignee, desc, notice, ping>>

Everybody(q) == watching

(* Watchers, minus anyone already mentioned. *)
NotMentioned(q) == watching \ comment[q.about].mentioned

ReadWatchers(r) ==
    LET q == req[r] IN
    /\ q.pc = "mentions" /\ q.about # None /\ q.queue = {}
    /\ req' = [req EXCEPT ![r].pc = "watchers", ![r].queue = NotMentioned(q)]
    /\ UNCHANGED <<comment, watching, assignee, desc, notice, ping>>

FanOutEnds(r) ==
    /\ req[r].queue = {}
    /\ req[r].pc = "watchers" \/ (req[r].pc = "mentions" /\ req[r].about = None)
    /\ req' = [req EXCEPT ![r] = Idle]
    /\ UNCHANGED <<comment, watching, assignee, desc, notice, ping>>

----------------------------------------------------------------------------
Watch(u) ==
    /\ watching' = watching \cup {u}
    /\ UNCHANGED <<comment, assignee, desc, notice, ping, req>>

(* Who stops watching while a comment is announced is no longer owed it. *)
Unwatch(u) ==
    /\ watching' = watching \ {u}
    /\ req' = [r \in Request |->
                 IF req[r].about # None /\ u \notin comment[req[r].about].mentioned
                   THEN [req[r] EXCEPT !.owed = @ \ {u}] ELSE req[r]]
    /\ UNCHANGED <<comment, assignee, desc, notice, ping>>

(* edit_task(): the SELECT of the old assignee and description.  The code lets two edits
   overlap, and both may then announce one mention; here the next edit waits until the
   mentions of the one before are announced. *)
EditRead(r, actor) ==
    /\ req[r].pc = "idle"
    /\ \A s \in Request : req[s].pc # "edit" /\ (req[s].pc = "mentions" => req[s].about # None)
    /\ req' = [req EXCEPT ![r] = [Idle EXCEPT !.pc = "edit", !.actor = actor,
                                              !.old = desc]]
    /\ UNCHANGED <<comment, watching, assignee, desc, notice, ping>>

NewMentions(old, new) == new \ old

(* The UPDATE with a new description. *)
EditDescription(r, new) ==
    LET q == req[r] IN
    /\ q.pc = "edit"
    /\ desc' = new
    /\ ping' = [u \in User |-> IF u \in new THEN ping[u] ELSE 0]
    /\ req' = [req EXCEPT ![r].pc = "mentions", ![r].queue = NewMentions(q.old, new)]
    /\ UNCHANGED <<comment, watching, assignee, notice>>

(* The UPDATE with an assignee, who starts watching; None unassigns. *)
EditAssignee(r, who) ==
    LET q == req[r] IN
    /\ q.pc = "edit"
    /\ assignee' = who
    /\ watching' = watching \cup ({who} \ {None})
    /\ req' = [req EXCEPT ![r] = Idle]
    /\ UNCHANGED <<comment, desc, notice, ping>>

----------------------------------------------------------------------------
Next ==
    \/ \E r \in Request :
         \/ ReadWatchers(r) \/ FanOutEnds(r)
         \/ \E u \in User : NotifyOne(r, u) \/ NotifyFails(r, u) \/ EditRead(r, u)
         \/ \E who \in Person : EditAssignee(r, who)
         \/ \E set \in SUBSET User : EditDescription(r, set)
         \/ \E c \in Comment, u \in User, set \in SUBSET User : CreateComment(r, c, u, set)
    \/ \E c \in Comment : DeleteComment(c)
    \/ \E u \in User : Watch(u) \/ Unwatch(u)

Spec == Init /\ [][Next]_vars

----------------------------------------------------------------------------
TypeOK ==
    /\ comment \in [Comment -> CommentRow]
    /\ watching \in SUBSET User /\ assignee \in Person /\ desc \in SUBSET User
    /\ notice \in [Comment -> [User -> 0 .. 2]]
    /\ ping \in [User -> 0 .. 2]
    /\ req \in [Request -> RequestRecord]

(* Once a comment has been announced, everybody it mentions and everybody who watched
   all the time has one notification of it, the author none, nobody two; and a
   description that is saved again does not ping those it mentioned before
   (create_comment, edit_task, new_mentions). *)
EachHearsOnce ==
    /\ \A c \in Comment, u \in User :
         /\ notice[c][u] <= 1
         /\ u = comment[c].author => notice[c][u] = 0
    /\ \A r \in Request : req[r].pc = "watchers" =>
         \A u \in req[r].owed \ req[r].queue : notice[req[r].about][u] = 1
    /\ \A u \in User : ping[u] <= 1

=============================================================================
