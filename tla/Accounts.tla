------------------------------ MODULE Accounts ------------------------------
(***************************************************************************)
(* Accounts: registration and invites, roles, suspension, the second       *)
(* factor and federated sign-in: register() in routes/auth.rs,             *)
(* routes/admin.rs, routes/admin_panel.rs, routes/two_factor.rs and        *)
(* domain/oidc.rs of apps/api/src.                                         *)
(*                                                                         *)
(* A handler that reads first and writes later is a request in steps.  An  *)
(* admin acts with the role in the table: that the role in an access token *)
(* can be some minutes older is left out.                                  *)
(***************************************************************************)
EXTENDS Naturals, FiniteSets

CONSTANTS
    User,        \* ids a row of users may take: bounds the rows
    Invite,      \* ids a row of invite_tokens may take: bounds the rows
    Secret,      \* the TOTP secrets that enrolments make
    OpenSignup,  \* SPRINTLY_OPEN_SIGNUP
    Request,     \* slots for handlers in flight: the bound on concurrency
    Overlap,     \* whether handlers overlap, or run one request at a time
    None         \* no value

VARIABLES
    user,    \* table users
    invite,  \* table invite_tokens
    phone,   \* the secret the user's authenticator holds
    req      \* the handlers in flight

vars == <<user, invite, phone, req>>

----------------------------------------------------------------------------
Role == {"admin", "member"}

(* secret is totp_secret; on is totp_enrolled_at IS NOT NULL; subject whether
   an identity of the provider is linked. *)
UserRow == [row: {"absent", "live"}, role: Role, status: {"active", "suspended"},
            subject: BOOLEAN, secret: Secret \cup {None}, on: BOOLEAN]

InviteRow == [state: {"absent", "open", "revoked", "consumed"}, role: Role]

RequestRecord ==
    [pc: {"idle", "insert", "stamp", "enroll", "activate"}, u: User \cup {None},
     i: Invite \cup {None}, role: Role, secret: Secret \cup {None}]

NoUser == [row |-> "absent", role |-> "member", status |-> "active", subject |-> FALSE,
           secret |-> None, on |-> FALSE]
NoInvite == [state |-> "absent", role |-> "member"]
Idle == [pc |-> "idle", u |-> None, i |-> None, role |-> "member", secret |-> None]

Live(u) == user[u].row = "live"
Empty == \A u \in User : ~Live(u)

(* Which unused id a new row takes makes no difference. *)
Fresh(u) == ~Live(u) /\ u = CHOOSE v \in User : ~Live(v)

Init ==
    /\ user = [u \in User |-> NoUser]
    /\ invite = [i \in Invite |-> NoInvite]
    /\ phone = [u \in User |-> None]
    /\ req = [r \in Request |-> Idle]

Ready == Overlap \/ \A r \in Request : req[r].pc = "idle"

Begin(r, record) ==
    /\ Ready /\ req[r].pc = "idle"
    /\ req' = [req EXCEPT ![r] = record]
    /\ UNCHANGED <<user, invite, phone>>

Finish(r) == req' = [req EXCEPT ![r] = Idle]

----------------------------------------------------------------------------
(* register(): whoever comes first is the admin; then an invite, even when
   anybody may sign up; then anybody. *)
RegisterFirst(r) ==
    Empty /\ Begin(r, [Idle EXCEPT !.pc = "insert", !.role = "admin"])

(* consume_invite() *)
RegisterInvited(r, i) ==
    /\ ~Empty /\ invite[i].state = "open"
    /\ Begin(r, [Idle EXCEPT !.pc = "insert", !.i = i, !.role = invite[i].role])

RegisterOpen(r) ==
    ~Empty /\ OpenSignup /\ Begin(r, [Idle EXCEPT !.pc = "insert"])

InsertUser(r, u) ==
    /\ req[r].pc = "insert" /\ Fresh(u)
    /\ user' = [user EXCEPT ![u] = [NoUser EXCEPT !.row = "live", !.role = req[r].role]]
    /\ req' = [req EXCEPT ![r] = IF @.i = None THEN Idle ELSE [@ EXCEPT !.pc = "stamp"]]
    /\ UNCHANGED <<invite, phone>>

(* AND consumed_at IS NULL *)
StampInvite(r) ==
    /\ req[r].pc = "stamp"
    /\ invite' = [invite EXCEPT ![req[r].i].state = "consumed"]
    /\ Finish(r)
    /\ UNCHANGED <<user, phone>>

(* A failed stamp does not undo the registration. *)
StampFails(r) ==
    /\ req[r].pc = "stamp"
    /\ Finish(r)
    /\ UNCHANGED <<user, invite, phone>>

(* upsert_user(): an identity already linked changes nothing; a verified email
   links it to the account that has it; otherwise an account is made. *)
LinkIdentity(u) ==
    /\ Ready /\ Live(u)
    /\ user' = [user EXCEPT ![u].subject = TRUE]
    /\ UNCHANGED <<invite, phone, req>>

FederatedUser(u) ==
    /\ Ready /\ Fresh(u)
    /\ user' = [user EXCEPT ![u] = [NoUser EXCEPT !.row = "live", !.subject = TRUE]]
    /\ UNCHANGED <<invite, phone, req>>

----------------------------------------------------------------------------
(* Who passes require_admin(): suspension has ended the others' sessions. *)
ActingAdmin(a) == Live(a) /\ user[a].role = "admin" /\ user[a].status = "active"

CreateInvite(a, i, role) ==
    /\ Ready /\ ActingAdmin(a) /\ invite[i].state = "absent"
    /\ invite' = [invite EXCEPT ![i] = [state |-> "open", role |-> role]]
    /\ UNCHANGED <<user, phone, req>>

RevokeInvite(a, i) ==
    /\ Ready /\ ActingAdmin(a) /\ invite[i].state = "open"
    /\ invite' = [invite EXCEPT ![i].state = "revoked"]
    /\ UNCHANGED <<user, phone, req>>

Anybody(a, u) == TRUE

NotYourself(a, u) == a # u

Suspend(a, u) ==
    /\ Ready /\ ActingAdmin(a) /\ Live(u) /\ NotYourself(a, u)
    /\ user' = [user EXCEPT ![u].status = "suspended"]
    /\ UNCHANGED <<invite, phone, req>>

Reactivate(a, u) ==
    /\ Ready /\ ActingAdmin(a) /\ Live(u)
    /\ user' = [user EXCEPT ![u].status = "active"]
    /\ UNCHANGED <<invite, phone, req>>

SetRole(a, u, role) ==
    /\ Ready /\ ActingAdmin(a) /\ Live(u) /\ (NotYourself(a, u) \/ role = "admin")
    /\ user' = [user EXCEPT ![u].role = role]
    /\ UNCHANGED <<invite, phone, req>>

----------------------------------------------------------------------------
(* enroll(): two_factor::status(), then enroll_pending(), which the user's
   authenticator then shows. *)
MayEnroll(u) == Live(u) /\ ~user[u].on

EnrollCheck(r, u, secret) ==
    /\ MayEnroll(u)
    /\ Begin(r, [Idle EXCEPT !.pc = "enroll", !.u = u, !.secret = secret])

EnrollWrite(r) ==
    LET q == req[r] IN
    /\ q.pc = "enroll"
    /\ user' = [user EXCEPT ![q.u].secret = q.secret, ![q.u].on = FALSE]
    /\ Finish(r)
    /\ UNCHANGED <<invite, phone>>

ScanCode(u) ==
    /\ Ready /\ Live(u) /\ user[u].secret # None /\ ~user[u].on
    /\ phone' = [phone EXCEPT ![u] = user[u].secret]
    /\ UNCHANGED <<user, invite, req>>

(* activate(): the code of the authenticator is verified against the secret
   read, then the UPDATE turns a pending secret on. *)
ActivateCheck(r, u) ==
    /\ Live(u) /\ user[u].secret # None /\ phone[u] = user[u].secret
    /\ Begin(r, [Idle EXCEPT !.pc = "activate", !.u = u])

ActivateWrite(r) ==
    LET q == req[r] IN
    /\ q.pc = "activate"
    /\ user' = IF user[q.u].secret # None /\ ~user[q.u].on
                 THEN [user EXCEPT ![q.u].on = TRUE] ELSE user
    /\ Finish(r)
    /\ UNCHANGED <<invite, phone>>

(* disable(), with a code of the authenticator or a recovery code. *)
Disable(u) ==
    /\ Ready /\ Live(u) /\ user[u].on
    /\ user' = [user EXCEPT ![u].secret = None, ![u].on = FALSE]
    /\ UNCHANGED <<invite, phone, req>>

----------------------------------------------------------------------------
Next ==
    \/ \E r \in Request :
         \/ RegisterFirst(r) \/ RegisterOpen(r) \/ StampInvite(r) \/ StampFails(r)
         \/ EnrollWrite(r) \/ ActivateWrite(r)
         \/ \E i \in Invite : RegisterInvited(r, i)
         \/ \E u \in User : InsertUser(r, u) \/ ActivateCheck(r, u)
                             \/ \E secret \in Secret : EnrollCheck(r, u, secret)
    \/ \E u \in User : LinkIdentity(u) \/ FederatedUser(u) \/ ScanCode(u) \/ Disable(u)
    \/ \E a, u \in User : Suspend(a, u) \/ Reactivate(a, u) \/ \E role \in Role : SetRole(a, u, role)
    \/ \E a \in User, i \in Invite : RevokeInvite(a, i) \/ \E role \in Role : CreateInvite(a, i, role)

Spec == Init /\ [][Next]_vars

----------------------------------------------------------------------------
TypeOK ==
    /\ user \in [User -> UserRow]
    /\ invite \in [Invite -> InviteRow]
    /\ phone \in [User -> Secret \cup {None}]
    /\ req \in [Request -> RequestRecord]

(* Nobody is shut out by a series of legal calls, one at a time: once a server has
   an admin who can act it always has one, and a second factor that is on asks
   for the codes of the authenticator its user holds (admin_panel.rs,
   two_factor.rs). *)
SomeAdmin == \E a \in User : ActingAdmin(a)

NobodyIsShutOut ==
    [][/\ SomeAdmin => SomeAdmin'
       /\ \A u \in User : user'[u].on => phone'[u] = user'[u].secret]_vars

=============================================================================
