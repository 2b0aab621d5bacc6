--------------------------- MODULE RefreshSessions ---------------------------
(***************************************************************************)
(* The sessions of one user and the refresh tokens of one browser:         *)
(* apps/api/src/domain/sessions.rs, refresh() and logout() in              *)
(* apps/api/src/routes/auth.rs, and the handlers that end sessions.        *)
(*                                                                         *)
(* The tabs of the browser share a cookie jar.  A refresh is a transaction *)
(* that reads the token's row and then writes; the answer travels back and *)
(* may be lost, or overtaken by another.                                   *)
(***************************************************************************)
EXTENDS Naturals, FiniteSets

CONSTANTS
    Session,   \* ids a row of sessions may take: bounds the rows
    Token,     \* ids a row of refresh_tokens may take: bounds the rows
    Tab,       \* what sends requests
    Grace,     \* ROTATION_GRACE_SECS in units of the clock
    Lifetime,  \* refresh_ttl_secs in units of the clock
    LastTime,  \* bounds the clock
    None       \* no value

VARIABLES
    now,      \* the clock
    status,   \* users.status
    session,  \* table sessions: its state, or why it ended
    token,    \* table refresh_tokens
    jar,      \* the refresh cookie of the browser
    req       \* the refresh each tab has in flight

vars == <<now, status, session, token, jar, req>>

----------------------------------------------------------------------------
Time == 0 .. LastTime
Reason == {"logout", "suspended", "password_reset", "reuse_detected"}

(* at is rotated_at, None while rotated_to IS NULL. *)
TokenRow == [session: Session \cup {None}, born: Time, at: Time \cup {None}, revoked: BOOLEAN]

(* seen is the row as the transaction read it, ended whether the session had
   ended then; pc is "answered" while the answer travels. *)
RequestRecord ==
    [pc: {"idle", "read", "answered"}, presented: Token \cup {None}, seen: TokenRow,
     ended: BOOLEAN, active: BOOLEAN, start: Time, got: Token \cup {None}]

NoToken == [session |-> None, born |-> 0, at |-> None, revoked |-> FALSE]
Idle == [pc |-> "idle", presented |-> None, seen |-> NoToken, ended |-> FALSE,
         active |-> FALSE, start |-> 0, got |-> None]

Ended(s) == session[s] \in Reason

FreshSession(s) == session[s] = "absent" /\ s = CHOOSE z \in Session : session[z] = "absent"
FreshToken(t) == token[t].session = None /\ t = CHOOSE z \in Token : token[z].session = None

Init ==
    /\ now = 0 /\ status = "active"
    /\ session = [s \in Session |-> "absent"]
    /\ token = [t \in Token |-> NoToken]
    /\ jar = None
    /\ req = [b \in Tab |-> Idle]

----------------------------------------------------------------------------
(* INSERT INTO refresh_tokens *)
Leaf(t, s) == [token EXCEPT ![t] = [NoToken EXCEPT !.session = s, !.born = now]]

(* login(), once the password and any second step have matched: create() makes
   the session and its first token in one transaction. *)
Login(s, t) ==
    /\ status = "active" /\ FreshSession(s) /\ FreshToken(t)
    /\ jar # None => Ended(token[jar].session)
    /\ session' = [session EXCEPT ![s] = "live"]
    /\ token' = Leaf(t, s)
    /\ jar' = t
    /\ UNCHANGED <<now, status, req>>

(* rotate(): the SELECT of the token with its session and user. *)
RefreshRead(b) ==
    /\ req[b].pc = "idle" /\ jar # None
    /\ req' = [req EXCEPT ![b] =
                 [Idle EXCEPT !.pc = "read", !.presented = jar, !.seen = token[jar],
                              !.ended = Ended(token[jar].session),
                              !.active = status = "active", !.start = now]]
    /\ UNCHANGED <<now, status, session, token, jar>>

Rotated(row) == row.at # None
Expired(row) == row.born + Lifetime <= now

(* What would let the presented token be used, rotated or not. *)
Good(q) == ~q.seen.revoked /\ ~q.ended /\ ~Expired(q.seen) /\ q.active

NoGrace(q) == FALSE

(* rotated_at > now() - ROTATION_GRACE_SECS, read again; now() is the start of
   the transaction. *)
WithinGrace(q) == token[q.presented].at + Grace > q.start

Benign(q) == Rotated(q.seen) /\ WithinGrace(q) /\ Good(q)
Current(q) == ~Rotated(q.seen) /\ Good(q)

(* A successor of the presented token, which is marked rotated. *)
Rotate(b, t) ==
    LET q == req[b] IN
    /\ q.pc = "read" /\ Current(q) /\ FreshToken(t)
    /\ token' = [Leaf(t, q.seen.session) EXCEPT ![q.presented].at = q.start]
    /\ req' = [req EXCEPT ![b] = [Idle EXCEPT !.pc = "answered", !.got = t]]
    /\ UNCHANGED <<now, status, session, jar>>

(* A replay within the grace window gets a leaf of its own. *)
Replay(b, t) ==
    LET q == req[b] IN
    /\ q.pc = "read" /\ Benign(q) /\ FreshToken(t)
    /\ token' = Leaf(t, q.seen.session)
    /\ req' = [req EXCEPT ![b] = [Idle EXCEPT !.pc = "answered", !.got = t]]
    /\ UNCHANGED <<now, status, session, jar>>

Revoked(s) == [t \in Token |-> IF token[t].session = s THEN [token[t] EXCEPT !.revoked = TRUE]
                                                       ELSE token[t]]

(* A stale token that is no benign replay ends the session. *)
ReuseDetected(b) ==
    LET q == req[b] IN
    /\ q.pc = "read" /\ Rotated(q.seen) /\ ~Benign(q)
    /\ session' = [session EXCEPT ![q.seen.session] = "reuse_detected"]
    /\ token' = Revoked(q.seen.session)
    /\ req' = [req EXCEPT ![b] = Idle]
    /\ UNCHANGED <<now, status, jar>>

Refuse(b) ==
    LET q == req[b] IN
    /\ q.pc = "read" /\ ~Rotated(q.seen) /\ ~Good(q)
    /\ req' = [req EXCEPT ![b] = Idle]
    /\ UNCHANGED <<now, status, session, token, jar>>

(* Set-Cookie: the last answer to arrive wins. *)
Answer(b) ==
    /\ req[b].pc = "answered"
    /\ jar' = req[b].got
    /\ req' = [req EXCEPT ![b] = Idle]
    /\ UNCHANGED <<now, status, session, token>>

LoseAnswer(b) ==
    /\ req[b].pc = "answered"
    /\ req' = [req EXCEPT ![b] = Idle]
    /\ UNCHANGED <<now, status, session, token, jar>>

----------------------------------------------------------------------------
(* revoke() *)
Logout ==
    /\ jar # None /\ session[token[jar].session] = "live"
    /\ session' = [session EXCEPT ![token[jar].session] = "logout"]
    /\ token' = Revoked(token[jar].session)
    /\ UNCHANGED <<now, status, jar, req>>

EndAll(reason) == [s \in Session |-> IF session[s] = "live" THEN reason ELSE session[s]]

(* suspend(): the refresh tokens are left as they are. *)
Suspend ==
    /\ status = "active" /\ status' = "suspended" /\ session' = EndAll("suspended")
    /\ UNCHANGED <<now, token, jar, req>>

Reactivate ==
    /\ status = "suspended" /\ status' = "active"
    /\ UNCHANGED <<now, session, token, jar, req>>

(* password_reset_confirm() *)
PasswordReset ==
    /\ session' = EndAll("password_reset")
    /\ token' = [t \in Token |-> IF token[t].session = None THEN token[t]
                                 ELSE [token[t] EXCEPT !.revoked = TRUE]]
    /\ UNCHANGED <<now, status, jar, req>>

(* Requests are answered within a unit of the clock, and a tab left with a
   token that was rotated, its answer lost, tries again before the grace window
   has passed, what the grace is for, and before the token has expired: the
   replay of an expired token counts as reuse, within the window too. *)
Tick ==
    /\ now < LastTime
    /\ \A b \in Tab : req[b].pc = "idle"
    /\ jar # None /\ Rotated(token[jar]) =>
         token[jar].at + Grace > now + 1 /\ token[jar].born + Lifetime > now + 1
    /\ now' = now + 1
    /\ UNCHANGED <<status, session, token, jar, req>>

----------------------------------------------------------------------------
Next ==
    \/ \E s \in Session, t \in Token : Login(s, t)
    \/ \E b \in Tab :
         \/ RefreshRead(b) \/ ReuseDetected(b) \/ Refuse(b) \/ Answer(b) \/ LoseAnswer(b)
         \/ \E t \in Token : Rotate(b, t) \/ Replay(b, t)
    \/ Logout \/ Suspend \/ Reactivate \/ PasswordReset \/ Tick

Spec == Init /\ [][Next]_vars

----------------------------------------------------------------------------
TypeOK ==
    /\ now \in Time /\ status \in {"active", "suspended"}
    /\ session \in [Session -> {"absent", "live"} \cup Reason]
    /\ token \in [Token -> TokenRow]
    /\ jar \in Token \cup {None}
    /\ req \in [Tab -> RequestRecord]

(* Tabs that race for a refresh, and requests sent again because their answer was lost,
   never end the session they belong to: while a session is live, no refresh of
   the browser takes it for reuse (rotate in domain/sessions.rs). *)
HonestTabsStaySignedIn ==
    [][\A s \in Session : session[s] = "live" => session'[s] # "reuse_detected"]_vars

=============================================================================
