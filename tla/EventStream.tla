----------------------------- MODULE EventStream -----------------------------
(***************************************************************************)
(* Realtime: what the handlers publish after their commits                 *)
(* (infra/events.rs), what a connection forwards (routes/ws.rs), and what  *)
(* one browser tab makes of it (apps/web/lib/ws.ts, its query cache).  All *)
(* but the last of apps/api/src.                                           *)
(*                                                                         *)
(* One project, one user with one tab that shows the tasks of the project, *)
(* its members and the user's inbox.  What a table holds is represented by *)
(* the number of writes it has had.                                        *)
(***************************************************************************)
EXTENDS Naturals, Sequences, Functions

CONSTANTS
    Query,      \* what the tab shows, of "tasks", "project" and "inbox"
    MaxWrites,  \* bounds the writes
    Faults,     \* among "redis", "network", "stop": those that occur
    None        \* an answer that says the project is not there

VARIABLES
    version,      \* the writes each table has had
    member,       \* whether the user is a member of the project
    unpublished,  \* events of committed writes, not yet published
    conn,         \* the connection: state, the accessible set, its Redis subscription
    channel,      \* published messages that the connection has not taken
    wire,         \* frames that the tab has not received
    page,         \* what the tab shows
    fetch,        \* its queries under way: not asked, asked, or what was read for the answer
    unbroken      \* whether nothing was lost to the tab since what it shows was read

vars == <<version, member, unpublished, conn, channel, wire, page, fetch, unbroken>>

----------------------------------------------------------------------------
Event == [of : Query, me : BOOLEAN]
Closed == [pc |-> "closed", accessible |-> FALSE, subscribed |-> FALSE]

Idle == [pc |-> "idle", v |-> None]
Asked == [pc |-> "asked", v |-> None]

(* What the API answers a query: those of a project are for its members. *)
Read(q) == IF q = "inbox" \/ member THEN version[q] ELSE None

(* should_forward(): a change of membership also goes to whom it is about. *)
ForwardByProject(e) == IF e.of = "inbox" THEN e.me ELSE conn.accessible

ShouldForward(e) ==
    CASE e.of = "project" -> e.me \/ conn.accessible
      [] e.of = "inbox" -> e.me
      [] OTHER -> conn.accessible

Hears == conn.pc = "open" /\ conn.subscribed

----------------------------------------------------------------------------
(* The tab was loaded and its queries answered before the socket was dialed. *)
Init ==
    /\ version = [q \in Query |-> 0] /\ member \in BOOLEAN
    /\ unpublished = {} /\ conn = Closed /\ channel = <<>> /\ wire = <<>>
    /\ page = [q \in Query |-> Read(q)] /\ fetch = [q \in Query |-> Idle]
    /\ unbroken = [q \in Query |-> FALSE]

Broken(Q) == unbroken' = [q \in Query |-> unbroken[q] /\ q \notin Q]

(* A handler commits; its event follows.  Another member's change is not about the user. *)
Write(q, me) ==
    /\ FoldFunction(+, 0, version) < MaxWrites
    /\ q = "tasks" => ~me
    /\ version' = [version EXCEPT ![q] = @ + 1]
    /\ member' = IF q = "project" /\ me THEN ~member ELSE member
    /\ unpublished' = unpublished \cup {[of |-> q, me |-> me, n |-> version[q]]}
    /\ UNCHANGED <<conn, channel, wire, page, fetch, unbroken>>

(* publish(): Redis hands the message to whoever is subscribed at that moment; an error is
   logged and the message is gone. *)
Publish(u) ==
    /\ unpublished' = unpublished \ {u}
    /\ \/ /\ channel' = IF Hears THEN Append(channel, [of |-> u.of, me |-> u.me]) ELSE channel
          /\ UNCHANGED unbroken
       \/ /\ "redis" \in Faults
          /\ Broken({u.of}) /\ UNCHANGED channel
    /\ UNCHANGED <<version, member, conn, wire, page, fetch>>

(* A process stops between its commits and what they would have published. *)
Stop ==
    /\ "stop" \in Faults /\ unpublished # {}
    /\ unpublished' = {} /\ Broken({u.of : u \in unpublished})
    /\ UNCHANGED <<version, member, conn, channel, wire, page, fetch>>

(* handle_socket(): what may be seen is loaded, then the channel is subscribed to. *)
Dial ==
    /\ conn.pc = "closed"
    /\ conn' = [conn EXCEPT !.pc = "loaded", !.accessible = member]
    /\ UNCHANGED <<version, member, unpublished, channel, wire, page, fetch, unbroken>>

Subscribe ==
    /\ conn.pc = "loaded"
    /\ conn' = [conn EXCEPT !.pc = "open", !.subscribed = TRUE]
    /\ UNCHANGED <<version, member, unpublished, channel, wire, page, fetch, unbroken>>

(* A message that the filter keeps from a tab whose project it concerns is lost to it, unless
   it is about the user, which it must not be. *)
Forward ==
    /\ conn.pc = "open" /\ channel # <<>>
    /\ LET e == Head(channel)
       IN IF ShouldForward(e)
          THEN wire' = Append(wire, e) /\ UNCHANGED unbroken
          ELSE UNCHANGED wire /\ IF e.me THEN UNCHANGED unbroken ELSE Broken({e.of})
    /\ channel' = Tail(channel)
    /\ UNCHANGED <<version, member, unpublished, conn, page, fetch>>

(* The tick that loads the accessible set again. *)
Refresh ==
    /\ conn.pc = "open" /\ conn.accessible # member
    /\ conn' = [conn EXCEPT !.accessible = member]
    /\ UNCHANGED <<version, member, unpublished, channel, wire, page, fetch, unbroken>>

(* The subscription ends: its branch of the select is disabled, the socket stays up. *)
LoseRedis ==
    /\ "redis" \in Faults /\ Hears
    /\ conn' = [conn EXCEPT !.subscribed = FALSE]
    /\ channel' = <<>> /\ Broken(Query)
    /\ UNCHANGED <<version, member, unpublished, wire, page, fetch>>

Close ==
    /\ "network" \in Faults /\ conn.pc # "closed"
    /\ conn' = Closed
    /\ channel' = <<>> /\ wire' = <<>> /\ Broken(Query)
    /\ UNCHANGED <<version, member, unpublished, page, fetch>>

(* routeToQueryCache(): an answer under way is discarded, and the query asked again. *)
Invalidate(Q) == fetch' = [q \in Query |-> IF q \in Q THEN Asked ELSE fetch[q]]

Receive ==
    /\ wire # <<>>
    /\ Invalidate({Head(wire).of})
    /\ wire' = Tail(wire)
    /\ UNCHANGED <<version, member, unpublished, conn, channel, page, unbroken>>

(* The window gets the focus, or a mutation of the tab succeeds. *)
Refetch ==
    /\ Invalidate(Query)
    /\ UNCHANGED <<version, member, unpublished, conn, channel, wire, page, unbroken>>

(* The API reads, and the answer arrives: from then on the tab hears what changes, if the
   connection could. *)
ReadAnswer(q) ==
    /\ fetch[q] = Asked
    /\ fetch' = [fetch EXCEPT ![q] = [pc |-> "answered", v |-> Read(q)]]
    /\ unbroken' = [unbroken EXCEPT ![q] = Hears /\ (q = "tasks" => member /\ conn.accessible)]
    /\ UNCHANGED <<version, member, unpublished, conn, channel, wire, page>>

Show(q) ==
    /\ fetch[q].pc = "answered"
    /\ page' = [page EXCEPT ![q] = fetch[q].v] /\ fetch' = [fetch EXCEPT ![q] = Idle]
    /\ UNCHANGED <<version, member, unpublished, conn, channel, wire, unbroken>>

Next ==
    \/ \E q \in Query, me \in BOOLEAN : Write(q, me)
    \/ \E u \in unpublished : Publish(u)
    \/ Stop \/ Dial \/ Subscribe \/ Forward \/ Refresh \/ LoseRedis \/ Close \/ Receive \/ Refetch
    \/ \E q \in Query : ReadAnswer(q) \/ Show(q)

Spec == Init /\ [][Next]_vars

----------------------------------------------------------------------------
TypeOK ==
    /\ version \in [Query -> Nat] /\ member \in BOOLEAN
    /\ conn \in [pc : {"closed", "loaded", "open"}, accessible : BOOLEAN, subscribed : BOOLEAN]
    /\ \A u \in unpublished : [of |-> u.of, me |-> u.me] \in Event
    /\ channel \in Seq(Event) /\ wire \in Seq(Event)
    /\ \A q \in Query :
          /\ {page[q], fetch[q].v} \subseteq Nat \cup {None}
          /\ fetch[q].pc \in {"idle", "asked", "answered"}

OnItsWay(q) ==
    \/ \E u \in unpublished : u.of = q
    \/ \E i \in DOMAIN channel : channel[i].of = q
    \/ \E i \in DOMAIN wire : wire[i].of = q
    \/ fetch[q] # Idle

(* A tab that nothing was lost to is up to date, or about to be: with the membership of its
   user too, however stale the set its connection filters by (ws.rs). *)
UpToDate ==
    \A q \in Query :
        unbroken[q] /\ ~OnItsWay(q) /\ (q = "tasks" => member) => page[q] = Read(q)
=============================================================================
