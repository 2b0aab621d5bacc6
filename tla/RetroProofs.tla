----------------------------- MODULE RetroProofs -----------------------------
(***************************************************************************)
(* Theorems about Retro, for any notes, users, bodies and requests.        *)
(*                                                                         *)
(* The types, and how many tasks a note can make, hold however handlers    *)
(* overlap.  That the record of a closed retro does not lie holds when     *)
(* they do not: then what a request checked still stands when it writes    *)
(* (Alone).                                                                *)
(***************************************************************************)
EXTENDS Retro, FiniteSetTheorems, TLAPS

(* The votes of a note and the requests in flight can be counted. *)
Countable == IsFiniteSet(User) /\ IsFiniteSet(Request)

(* What a request in flight carries, by its handler. *)
Carried(q) ==
    /\ q.pc \in {"create", "edit"} => q.body \in Body
    /\ q.pc \in {"edit", "promote"} => q.n \in Note /\ note[q.n].row # "absent"

Shapes ==
    /\ note \in [Note -> NoteRow]
    /\ \A n \in Note : Live(n) => note[n].body \in Body
    /\ \A n \in Note : note[n].row = "absent" => ~note[n].promoted
    /\ retro \in RetroRow
    /\ made \in [Note -> Nat]
    /\ req \in [Request -> RequestRecord]
    /\ \A r \in Request : Carried(req[r])

Promoting(n) == {r \in Request : req[r].pc = "promote" /\ req[r].n = n}

(* Every task made of a note was made by a request that found none. *)
MadeByRequests ==
    \A n \in Note :
        /\ ~note[n].promoted => made[n] = 0
        /\ made[n] + Cardinality(Promoting(n)) <= Cardinality(Request)

Inv == Shapes /\ MadeByRequests

(* What a request checked is so. *)
Stands(q) ==
    /\ q.pc = "create" => Open
    /\ q.pc = "edit" => Open /\ Live(q.n)
    /\ q.pc = "promote" => Promotable(q.n)
    /\ q.pc = "close" => Open /\ q.summary = Bullets

Alone ==
    \A r \in Request : req[r].pc # "idle" =>
        /\ \A q \in Request \ {r} : req[q].pc = "idle"
        /\ Stands(req[r])

SerialInv == Inv /\ Alone /\ RecordDoesNotLie

----------------------------------------------------------------------------
(* Lemmas about the definitions of Retro. *)

LEMMA NoteFields ==
    ASSUME NEW row \in NoteRow
    PROVE  /\ row.row \in {"absent", "live", "deleted"} /\ row.kind \in Kind
           /\ row.author \in User \cup {None} /\ row.body \in Body \cup {None}
           /\ row.votes \in SUBSET User /\ row.promoted \in BOOLEAN
  BY DEF NoteRow

LEMMA ConstantTypes ==
    NoNote \in NoteRow /\ Idle \in RequestRecord /\ Idle.pc = "idle"
  BY DEF NoNote, NoteRow, Kind, Idle, RequestRecord

LEMMA RequestFields ==
    ASSUME NEW q \in RequestRecord
    PROVE  /\ q.pc \in {"idle", "create", "edit", "promote", "close"} /\ q.n \in Note \cup {None}
           /\ q.kind \in Kind /\ q.author \in User \cup {None} /\ q.body \in Body \cup {None}
           /\ q.summary \in SUBSET Bullet
  BY DEF RequestRecord

(* The summary close_retro() renders is one. *)
LEMMA BulletsType ==
    ASSUME Countable, Shapes
    PROVE  Bullets \in SUBSET Bullet
<1> SUFFICES ASSUME NEW n \in Note, Live(n)
             PROVE  <<n, note[n].body, Cardinality(note[n].votes)>> \in Bullet
  BY DEF Bullets
<1>1. note[n].body \in Body /\ note[n].votes \in SUBSET User
  BY NoteFields DEF Shapes
<1>2. Cardinality(note[n].votes) \in 0 .. Cardinality(User)
  BY <1>1, FS_Subset, FS_CardinalityType DEF Countable
<1> QED
  BY <1>1, <1>2 DEF Bullet

LEMMA PromotingCount ==
    ASSUME Countable, NEW n
    PROVE  /\ IsFiniteSet(Promoting(n))
           /\ Cardinality(Promoting(n)) \in Nat /\ Cardinality(Request) \in Nat
           /\ Cardinality(Promoting(n)) <= Cardinality(Request)
<1>1. Promoting(n) \in SUBSET Request
  BY DEF Promoting
<1> QED
  BY <1>1, FS_Subset, FS_CardinalityType DEF Countable

(* A request that ends makes none the more in flight. *)
LEMMA FinishPromoting ==
    ASSUME Countable, Shapes, NEW r \in Request, Finish(r), NEW n
    PROVE  /\ Cardinality(Promoting(n)') \in Nat
           /\ Cardinality(Promoting(n)') = IF r \in Promoting(n) THEN Cardinality(Promoting(n)) - 1
                                           ELSE Cardinality(Promoting(n))
<1>1. Promoting(n)' = Promoting(n) \ {r}
  BY ConstantTypes DEF Promoting, Finish, Shapes
<1> QED
  BY <1>1, PromotingCount, FS_RemoveElement, FS_CardinalityType

----------------------------------------------------------------------------
LEMMA InitInv == ASSUME Countable PROVE Init => Inv
<1> SUFFICES ASSUME Init PROVE Inv
  OBVIOUS
<1>1. Shapes
  BY ConstantTypes DEF Init, Shapes, Carried, Live, NoNote, Idle, RetroRow
<1>2. \A n \in Note : Promoting(n) = {}
  BY DEF Init, Promoting, Idle
<1>3. MadeByRequests
  BY <1>2, FS_EmptySet, PromotingCount DEF Init, MadeByRequests
<1> QED
  BY <1>1, <1>3 DEF Inv

(* A request that is accepted changes nothing but its slot. *)
LEMMA BeginInv ==
    ASSUME Countable, Inv, NEW r \in Request, NEW q \in RequestRecord, Carried(q),
           q.pc = "promote" => ~note[q.n].promoted, Begin(r, q)
    PROVE  Inv'
<1>1. /\ req' = [req EXCEPT ![r] = q] /\ req[r].pc = "idle" /\ req \in [Request -> RequestRecord]
      /\ UNCHANGED <<note, retro, made>>
  BY DEF Begin, Inv, Shapes
<1>2. Shapes'
  BY <1>1 DEF Inv, Shapes, Carried, Live
<1>3. ASSUME NEW n \in Note
      PROVE  made[n] + Cardinality(Promoting(n)') <= Cardinality(Request)
  <2>1. CASE q.pc = "promote" /\ q.n = n
    <3>1. made[n] = 0
      BY <2>1 DEF Inv, MadeByRequests
    <3>2. Promoting(n)' \in SUBSET Request
      BY DEF Promoting
    <3> QED
      BY <3>1, <3>2, FS_Subset, FS_CardinalityType DEF Countable
  <2>2. CASE ~(q.pc = "promote" /\ q.n = n)
    <3>1. Promoting(n)' = Promoting(n)
      BY <1>1, <2>2 DEF Promoting
    <3> QED
      BY <3>1 DEF Inv, MadeByRequests
  <2> QED
    BY <2>1, <2>2
<1> QED
  BY <1>1, <1>2, <1>3 DEF Inv, MadeByRequests

(* A write to retro_notes that promotes nothing. *)
LEMMA WriteNoteInv ==
    ASSUME Countable, Inv, NEW n \in Note, NEW row \in NoteRow,
           row.row = "live" => row.body \in Body,
           row.row = "absent" => note[n].row = "absent",
           row.promoted = note[n].promoted,
           note' = [note EXCEPT ![n] = row], UNCHANGED <<retro, made>>,
           \/ req' = req
           \/ \E r \in Request : Finish(r)
    PROVE  Inv'
<1>1. \A k \in Note : /\ note'[k].promoted = note[k].promoted
                      /\ note'[k].row = "absent" => note[k].row = "absent"
  BY DEF Inv, Shapes
<1>2. /\ req' \in [Request -> RequestRecord]
      /\ \A r \in Request : req'[r] = req[r] \/ req'[r] = Idle
  BY ConstantTypes DEF Inv, Shapes, Finish
<1>3. \A r \in Request : Carried(req[r])'
  BY <1>1, <1>2, ConstantTypes DEF Inv, Shapes, Carried
<1>4. \A k \in Note : Live(k)' => note'[k].body \in Body
  BY DEF Inv, Shapes, Live
<1>5. Shapes'
  BY <1>1, <1>2, <1>3, <1>4 DEF Inv, Shapes
<1>6. \A k \in Note : /\ Cardinality(Promoting(k)') \in Nat
                      /\ Cardinality(Promoting(k)') <= Cardinality(Promoting(k))
  <2>1. CASE req' = req
    <3>1. \A k \in Note : Promoting(k)' = Promoting(k)
      BY <2>1 DEF Promoting
    <3> QED
      BY <3>1, PromotingCount
  <2>2. ASSUME NEW r \in Request, Finish(r)
        PROVE  \A k \in Note : /\ Cardinality(Promoting(k)') \in Nat
                               /\ Cardinality(Promoting(k)') <= Cardinality(Promoting(k))
    BY <2>2, FinishPromoting, PromotingCount DEF Inv
  <2> QED
    BY <2>1, <2>2
<1>7. MadeByRequests'
  <2> SUFFICES ASSUME NEW k \in Note
               PROVE  /\ ~note'[k].promoted => made[k] = 0
                      /\ made[k] + Cardinality(Promoting(k)') <= Cardinality(Request)
    BY DEF MadeByRequests
  <2>1. made[k] \in Nat /\ made[k] + Cardinality(Promoting(k)) <= Cardinality(Request)
    BY DEF Inv, Shapes, MadeByRequests
  <2>2. made[k] + Cardinality(Promoting(k)') <= Cardinality(Request)
    BY <1>6, <2>1, PromotingCount
  <2> QED
    BY <1>1, <2>2 DEF Inv, MadeByRequests
<1> QED
  BY <1>5, <1>7 DEF Inv

LEMMA PromoteCommitInv ==
    ASSUME Countable, Inv, NEW r \in Request, PromoteCommit(r)
    PROVE  Inv'
<1> DEFINE n == req[r].n
           row == [note[n] EXCEPT !.promoted = TRUE]
<1>1. /\ n \in Note /\ note[n].row # "absent" /\ r \in Promoting(n)
      /\ note \in [Note -> NoteRow] /\ made \in [Note -> Nat]
  BY DEF Inv, Shapes, Carried, PromoteCommit, Promoting
<1>2. /\ note' = [note EXCEPT ![n] = row] /\ made' = [made EXCEPT ![n] = @ + 1]
      /\ Finish(r) /\ retro' = retro
  BY <1>1 DEF PromoteCommit
<1>3. /\ row \in NoteRow /\ row.promoted /\ row.row = note[n].row /\ row.body = note[n].body
  BY <1>1 DEF NoteRow
<1> HIDE DEF row
<1>4. Shapes'
  <2>1. note' \in [Note -> NoteRow] /\ made' \in [Note -> Nat]
    BY <1>1, <1>2, <1>3
  <2>2. \A k \in Note : /\ note'[k].row = note[k].row /\ note'[k].body = note[k].body
                        /\ note'[k].promoted => note[k].promoted \/ k = n
    BY <1>1, <1>2, <1>3
  <2>3. req' \in [Request -> RequestRecord] /\ \A q \in Request : Carried(req[q])'
    BY <1>2, <2>2, ConstantTypes DEF Finish, Inv, Shapes, Carried
  <2> QED
    BY <1>1, <1>2, <2>1, <2>2, <2>3 DEF Inv, Shapes, Live
<1>5. MadeByRequests'
  <2> SUFFICES ASSUME NEW k \in Note
               PROVE  /\ ~note'[k].promoted => made'[k] = 0
                      /\ made'[k] + Cardinality(Promoting(k)') <= Cardinality(Request)
    BY DEF MadeByRequests
  <2>1. /\ made[k] \in Nat /\ made[k] + Cardinality(Promoting(k)) <= Cardinality(Request)
        /\ ~note[k].promoted => made[k] = 0
    BY DEF Inv, Shapes, MadeByRequests
  <2>2. CASE k = n
    <3>1. note'[k].promoted /\ made'[k] = made[k] + 1
      BY <1>1, <1>2, <1>3, <2>2
    <3>2. Cardinality(Promoting(k)') = Cardinality(Promoting(k)) - 1
      BY <1>1, <1>2, <2>2, FinishPromoting DEF Inv
    <3> QED
      BY <2>1, <3>1, <3>2, PromotingCount
  <2>3. CASE k # n
    <3>1. note'[k] = note[k] /\ made'[k] = made[k]
      BY <1>1, <1>2, <2>3
    <3>2. Cardinality(Promoting(k)') = Cardinality(Promoting(k))
      BY <1>2, <2>3, FinishPromoting DEF Inv, Promoting
    <3> QED
      BY <2>1, <3>1, <3>2
  <2> QED
    BY <2>2, <2>3
<1> QED
  BY <1>4, <1>5 DEF Inv

LEMMA CloseCommitInv ==
    ASSUME Countable, Inv, NEW r \in Request, CloseCommit(r)
    PROVE  Inv'
<1>1. retro' \in RetroRow
  BY RequestFields DEF Inv, Shapes, CloseCommit, RetroRow
<1>2. req' \in [Request -> RequestRecord] /\ \A q \in Request : Carried(req[q])'
  BY ConstantTypes DEF Inv, Shapes, CloseCommit, Finish, Carried
<1>3. Shapes'
  BY <1>1, <1>2 DEF Inv, Shapes, CloseCommit, Live
<1>4. \A n \in Note : Cardinality(Promoting(n)') = Cardinality(Promoting(n))
  BY FinishPromoting DEF Inv, CloseCommit, Promoting
<1>5. MadeByRequests'
  BY <1>4 DEF Inv, MadeByRequests, CloseCommit
<1> QED
  BY <1>3, <1>5 DEF Inv

----------------------------------------------------------------------------
(* The requests accepted, each with what it carries, and what it checked. *)
LEMMA AcceptInv ==
    ASSUME Countable, Inv, NEW r \in Request,
           \/ \E u \in User, kind \in Kind, body \in Body, anonymous \in BOOLEAN :
                CreateCheck(r, u, kind, body, anonymous)
           \/ \E n \in Note : PromoteCheck(r, n)
           \/ \E u \in User, n \in Note, body \in Body : EditCheck(r, u, n, body)
           \/ CloseRead(r)
    PROVE  Inv' /\ \E q \in RequestRecord : Begin(r, q) /\ Stands(q)
<1>1. ASSUME NEW u \in User, NEW kind \in Kind, NEW body \in Body, NEW anonymous \in BOOLEAN,
             CreateCheck(r, u, kind, body, anonymous)
      PROVE  Inv' /\ \E q \in RequestRecord : Begin(r, q) /\ Stands(q)
  <2> DEFINE q == [Idle EXCEPT !.pc = "create", !.kind = kind, !.body = body,
                               !.author = IF anonymous THEN None ELSE u]
  <2>1. q \in RequestRecord /\ q.pc = "create" /\ q.body = body
    BY DEF Idle, RequestRecord
  <2>2. Begin(r, q) /\ Open
    BY <1>1 DEF CreateCheck
  <2> HIDE DEF q
  <2> QED
    BY <2>1, <2>2, BeginInv DEF Carried, Stands
<1>2. ASSUME NEW n \in Note, PromoteCheck(r, n)
      PROVE  Inv' /\ \E q \in RequestRecord : Begin(r, q) /\ Stands(q)
  <2> DEFINE q == [Idle EXCEPT !.pc = "promote", !.n = n]
  <2>1. q \in RequestRecord /\ q.pc = "promote" /\ q.n = n
    BY DEF Idle, RequestRecord, Kind
  <2>2. Begin(r, q) /\ Promotable(n)
    BY <1>2 DEF PromoteCheck
  <2> HIDE DEF q
  <2> QED
    BY <2>1, <2>2, BeginInv DEF Carried, Stands, Promotable, Live
<1>3. ASSUME NEW u \in User, NEW n \in Note, NEW body \in Body, EditCheck(r, u, n, body)
      PROVE  Inv' /\ \E q \in RequestRecord : Begin(r, q) /\ Stands(q)
  <2> DEFINE q == [Idle EXCEPT !.pc = "edit", !.n = n, !.body = body]
  <2>1. q \in RequestRecord /\ q.pc = "edit" /\ q.n = n /\ q.body = body
    BY DEF Idle, RequestRecord, Kind
  <2>2. Begin(r, q) /\ Open /\ Live(n)
    BY <1>3 DEF EditCheck, Editable
  <2> HIDE DEF q
  <2> QED
    BY <2>1, <2>2, BeginInv DEF Carried, Stands, Live
<1>4. ASSUME CloseRead(r)
      PROVE  Inv' /\ \E q \in RequestRecord : Begin(r, q) /\ Stands(q)
  <2> DEFINE s == Bullets
             q == [Idle EXCEPT !.pc = "close", !.summary = s]
  <2>1. s \in SUBSET Bullet
    BY BulletsType DEF Inv
  <2>2. Begin(r, q) /\ Open
    BY <1>4 DEF CloseRead
  <2>3. q \in RequestRecord /\ q.pc = "close" /\ q.summary = s
    <3> HIDE DEF s
    <3> QED
      BY <2>1 DEF Idle, RequestRecord, Kind
  <2>4. Carried(q) /\ Stands(q)
    <3> HIDE DEF q
    <3> QED
      BY <2>2, <2>3 DEF Carried, Stands
  <2> HIDE DEF q, s
  <2> QED
    BY <2>2, <2>3, <2>4, BeginInv
<1> QED
  BY <1>1, <1>2, <1>3, <1>4

(* The row that a handler writes, when it promotes nothing. *)
LEMMA RowWritten ==
    ASSUME Inv, NEW n \in Note,
           \/ \E r \in Request : CreateInsert(r, n)
           \/ \E r \in Request : EditUpdate(r) /\ n = req[r].n
           \/ \E u \in User : DeleteNote(u, n) \/ Vote(u, n) \/ Unvote(u, n)
    PROVE  \E row \in NoteRow :
             /\ note' = [note EXCEPT ![n] = row] /\ UNCHANGED <<retro, made>>
             /\ row.row = "live" => row.body \in Body
             /\ row.row = "absent" => note[n].row = "absent"
             /\ row.promoted = note[n].promoted
             /\ req' = req \/ \E r \in Request : Finish(r)
<1>1. note \in [Note -> NoteRow] /\ note[n] \in NoteRow
  BY DEF Inv, Shapes
<1>2. ASSUME NEW r \in Request, CreateInsert(r, n)
      PROVE  LET row == [NoNote EXCEPT !.row = "live", !.kind = req[r].kind,
                                       !.author = req[r].author, !.body = req[r].body]
             IN  /\ row \in NoteRow /\ row.row = "live" /\ row.body \in Body
                 /\ row.promoted = note[n].promoted
  <2>1. req[r] \in RequestRecord /\ req[r].body \in Body /\ ~note[n].promoted
    BY <1>2 DEF Inv, Shapes, Carried, CreateInsert, Fresh
  <2> QED
    BY <1>1, <2>1, RequestFields, NoteFields DEF NoNote, NoteRow
<1>3. ASSUME NEW r \in Request, EditUpdate(r), n = req[r].n
      PROVE  LET row == [note[n] EXCEPT !.body = req[r].body]
             IN  /\ row \in NoteRow /\ row.body \in Body /\ row.row = note[n].row
                 /\ row.promoted = note[n].promoted
  <2>1. req[r].body \in Body
    BY <1>3 DEF Inv, Shapes, Carried, EditUpdate
  <2> QED
    BY <1>1, <2>1 DEF NoteRow
<1>4. ASSUME NEW u \in User, NEW votes \in {note[n].votes \cup {u}, note[n].votes \ {u}}
      PROVE  LET row == [note[n] EXCEPT !.votes = votes]
             IN  /\ row \in NoteRow /\ row.body = note[n].body /\ row.row = note[n].row
                 /\ row.promoted = note[n].promoted
  <2>1. votes \in SUBSET User
    BY <1>1, NoteFields
  <2> QED
    BY <1>1, <2>1 DEF NoteRow
<1>5. LET row == [note[n] EXCEPT !.row = "deleted"]
      IN  row \in NoteRow /\ row.row = "deleted" /\ row.promoted = note[n].promoted
  BY <1>1 DEF NoteRow
<1>6. note[n].row = "live" => note[n].body \in Body
  BY DEF Inv, Shapes, Live
<1>7. ASSUME NEW r \in Request, CreateInsert(r, n)
      PROVE  /\ note' = [note EXCEPT ![n] = [NoNote EXCEPT !.row = "live", !.kind = req[r].kind,
                                       !.author = req[r].author, !.body = req[r].body]]
             /\ UNCHANGED <<retro, made>> /\ Finish(r)
  BY <1>7 DEF CreateInsert
<1>8. ASSUME NEW r \in Request, EditUpdate(r), n = req[r].n
      PROVE  /\ note' = [note EXCEPT ![n] = [note[n] EXCEPT !.body = req[r].body]]
             /\ UNCHANGED <<retro, made>> /\ Finish(r)
  BY <1>1, <1>8 DEF EditUpdate
<1>9. ASSUME NEW u \in User, Vote(u, n) \/ Unvote(u, n)
      PROVE  /\ \E votes \in {note[n].votes \cup {u}, note[n].votes \ {u}} :
                  note' = [note EXCEPT ![n] = [note[n] EXCEPT !.votes = votes]]
             /\ UNCHANGED <<retro, made, req>>
  BY <1>1, <1>9 DEF Vote, Unvote
<1>10. ASSUME NEW u \in User, DeleteNote(u, n)
       PROVE  /\ note' = [note EXCEPT ![n] = [note[n] EXCEPT !.row = "deleted"]]
              /\ UNCHANGED <<retro, made, req>>
  BY <1>1, <1>10 DEF DeleteNote
<1>11. CASE \E r \in Request : CreateInsert(r, n)
  BY <1>2, <1>7, <1>11
<1>12. CASE \E r \in Request : EditUpdate(r) /\ n = req[r].n
  BY <1>3, <1>8, <1>12
<1>13. CASE \E u \in User : Vote(u, n) \/ Unvote(u, n)
  <2>1. PICK u \in User : Vote(u, n) \/ Unvote(u, n)
    BY <1>13
  <2>2. PICK votes \in {note[n].votes \cup {u}, note[n].votes \ {u}} :
          /\ note' = [note EXCEPT ![n] = [note[n] EXCEPT !.votes = votes]]
          /\ UNCHANGED <<retro, made, req>>
    BY <1>9, <2>1
  <2> QED
    BY <1>4, <1>6, <2>2
<1>14. CASE \E u \in User : DeleteNote(u, n)
  BY <1>5, <1>10, <1>14
<1> QED
  BY <1>11, <1>12, <1>13, <1>14

LEMMA NextInv == ASSUME Countable PROVE Inv /\ [Next]_vars => Inv'
<1> SUFFICES ASSUME Inv, [Next]_vars PROVE Inv'
  OBVIOUS
<1>1. ASSUME NEW n \in Note,
             \/ \E r \in Request : CreateInsert(r, n)
             \/ \E r \in Request : EditUpdate(r) /\ n = req[r].n
             \/ \E u \in User : DeleteNote(u, n) \/ Vote(u, n) \/ Unvote(u, n)
      PROVE  Inv'
  BY <1>1, RowWritten, WriteNoteInv
<1>2. ASSUME NEW r \in Request, EditUpdate(r)
      PROVE  req[r].n \in Note
  BY <1>2 DEF Inv, Shapes, Carried, EditUpdate
<1>3. CASE UNCHANGED vars
  BY <1>3 DEF vars, Inv, Shapes, MadeByRequests, Promoting, Carried, Live
<1> QED
  BY <1>1, <1>2, <1>3, AcceptInv, PromoteCommitInv, CloseCommitInv DEF Next

LEMMA Invariance == ASSUME Countable PROVE Spec => []Inv
<1>1. Init => Inv
  BY InitInv
<1>2. Inv /\ [Next]_vars => Inv'
  BY NextInv
<1> QED
  BY <1>1, <1>2, PTL DEF Spec

----------------------------------------------------------------------------
(* One request at a time. *)

(* When a request ends, nothing is in flight. *)
LEMMA FinishAlone ==
    ASSUME Inv, Alone, NEW r \in Request, req[r].pc # "idle", Finish(r)
    PROVE  Alone'
<1>1. \A q \in Request : req'[q].pc = "idle"
  BY ConstantTypes DEF Inv, Shapes, Alone, Finish
<1> QED
  BY <1>1 DEF Alone

LEMMA BeginAlone ==
    ASSUME ~Overlap, SerialInv, NEW r \in Request, NEW q \in RequestRecord, Begin(r, q), Stands(q)
    PROVE  Alone' /\ RecordDoesNotLie'
<1>1. /\ req' = [req EXCEPT ![r] = q] /\ req \in [Request -> RequestRecord]
      /\ \A o \in Request : req[o].pc = "idle"
      /\ UNCHANGED <<note, retro, made>>
  BY DEF SerialInv, Inv, Shapes, Begin, Ready
<1>2. \A o \in Request \ {r} : req'[o].pc = "idle"
  BY <1>1
<1>3. Stands(q)'
  BY <1>1 DEF Stands, Open, Live, Promotable, Bullets
<1> QED
  BY <1>1, <1>2, <1>3 DEF Alone, RecordDoesNotLie, SerialInv, Live

(* A note is written while the retro is open, or keeps what it says. *)
LEMMA WriteNoteHonest ==
    ASSUME RecordDoesNotLie, NEW n \in Note, NEW row, note \in [Note -> NoteRow],
           note' = [note EXCEPT ![n] = row], UNCHANGED <<retro, made>>,
           row.promoted = note[n].promoted,
           Open \/ (row.row = "live" => Live(n) /\ row.body = note[n].body)
    PROVE  RecordDoesNotLie'
<1>1. \A k \in Note : note'[k].promoted = note[k].promoted
  OBVIOUS
<1>2. retro.state = "closed" =>
        \A k \in Note : Live(k)' => Live(k) /\ note'[k].body = note[k].body
  BY DEF Open, Live
<1> QED
  BY <1>1, <1>2 DEF RecordDoesNotLie

LEMMA SerialNextInv ==
    ASSUME Countable, ~Overlap
    PROVE  SerialInv /\ [Next]_vars => SerialInv'
<1> SUFFICES ASSUME SerialInv, [Next]_vars PROVE Alone' /\ RecordDoesNotLie'
  BY NextInv DEF SerialInv
<1>1. note \in [Note -> NoteRow] /\ Inv /\ Alone /\ RecordDoesNotLie
  BY DEF SerialInv, Inv, Shapes
<1>2. ASSUME NEW r \in Request, NEW n \in Note, CreateInsert(r, n)
      PROVE  Alone' /\ RecordDoesNotLie'
  <2> DEFINE row == [NoNote EXCEPT !.row = "live", !.kind = req[r].kind,
                                   !.author = req[r].author, !.body = req[r].body]
  <2>1. row.promoted = note[n].promoted
    BY <1>1, <1>2, NoteFields DEF CreateInsert, Fresh, Inv, Shapes, NoNote
  <2>2. /\ note' = [note EXCEPT ![n] = row] /\ UNCHANGED <<retro, made>>
        /\ Finish(r) /\ req[r].pc = "create"
    BY <1>2 DEF CreateInsert
  <2>3. Open
    BY <1>1, <2>2 DEF Alone, Stands
  <2> HIDE DEF row
  <2> QED
    BY <1>1, <2>1, <2>2, <2>3, FinishAlone, WriteNoteHonest
<1>3. ASSUME NEW r \in Request, EditUpdate(r)
      PROVE  Alone' /\ RecordDoesNotLie'
  <2> DEFINE n == req[r].n
             row == [note[n] EXCEPT !.body = req[r].body]
  <2>1. n \in Note /\ Open
    BY <1>1, <1>3 DEF EditUpdate, Inv, Shapes, Carried, Alone, Stands
  <2>2. row.promoted = note[n].promoted
    BY <1>1, <2>1 DEF NoteRow
  <2>3. /\ note' = [note EXCEPT ![n] = row] /\ UNCHANGED <<retro, made>>
        /\ Finish(r) /\ req[r].pc = "edit"
    BY <1>1, <1>3, <2>1 DEF EditUpdate
  <2> HIDE DEF row
  <2> QED
    BY <1>1, <2>1, <2>2, <2>3, FinishAlone, WriteNoteHonest
<1>4. ASSUME NEW u \in User, NEW n \in Note, DeleteNote(u, n) \/ Vote(u, n) \/ Unvote(u, n)
      PROVE  Alone' /\ RecordDoesNotLie'
  <2>1. PICK row : /\ note' = [note EXCEPT ![n] = row]
                   /\ row.promoted = note[n].promoted
                   /\ row.row = "live" => Live(n) /\ row.body = note[n].body
    <3>1. CASE DeleteNote(u, n)
      <4> DEFINE row == [note[n] EXCEPT !.row = "deleted"]
      <4>1. row.row = "deleted" /\ row.promoted = note[n].promoted
        BY <1>1 DEF NoteRow
      <4>2. note' = [note EXCEPT ![n] = row]
        BY <1>1, <3>1 DEF DeleteNote
      <4> HIDE DEF row
      <4> QED
        BY <4>1, <4>2
    <3>2. ASSUME NEW votes, note' = [note EXCEPT ![n] = [note[n] EXCEPT !.votes = votes]]
          PROVE  LET row == [note[n] EXCEPT !.votes = votes]
                 IN  /\ row.promoted = note[n].promoted
                     /\ row.row = note[n].row /\ row.body = note[n].body
      BY <1>1 DEF NoteRow
    <3>3. CASE Vote(u, n) \/ Unvote(u, n)
      <4>1. PICK votes : note' = [note EXCEPT ![n] = [note[n] EXCEPT !.votes = votes]]
        BY <1>1, <3>3 DEF Vote, Unvote
      <4> DEFINE row == [note[n] EXCEPT !.votes = votes]
      <4>2. /\ row.promoted = note[n].promoted
            /\ row.row = note[n].row /\ row.body = note[n].body
        BY <3>2, <4>1
      <4>3. note' = [note EXCEPT ![n] = row]
        BY <4>1
      <4> HIDE DEF row
      <4> QED
        BY <4>2, <4>3 DEF Live
    <3> QED
      BY <1>4, <3>1, <3>3
  <2>2. UNCHANGED <<retro, made, req>> /\ \A r \in Request : req[r].pc = "idle"
    BY <1>4 DEF DeleteNote, Vote, Unvote, Ready
  <2>3. Alone'
    BY <2>2 DEF Alone
  <2> QED
    BY <1>1, <2>1, <2>2, <2>3, WriteNoteHonest
<1>5. ASSUME NEW r \in Request, PromoteCommit(r)
      PROVE  Alone' /\ RecordDoesNotLie'
  <2> DEFINE n == req[r].n
             row == [note[n] EXCEPT !.promoted = TRUE]
  <2>1. /\ n \in Note /\ ~note[n].promoted /\ Finish(r) /\ req[r].pc = "promote"
        /\ note' = [note EXCEPT ![n] = row] /\ made' = [made EXCEPT ![n] = @ + 1]
        /\ retro' = retro /\ made \in [Note -> Nat]
    BY <1>1, <1>5 DEF PromoteCommit, Inv, Shapes, Carried, Alone, Stands, Promotable
  <2>2. /\ row.row = note[n].row /\ row.body = note[n].body /\ row.promoted
    BY <1>1, <2>1 DEF NoteRow
  <2> HIDE DEF row
  <2>3. \A k \in Note : note'[k].row = note[k].row /\ note'[k].body = note[k].body
    BY <1>1, <2>1, <2>2
  <2>4. \A k \in Note : made'[k] = IF note'[k].promoted THEN 1 ELSE 0
    BY <1>1, <2>1, <2>2 DEF RecordDoesNotLie
  <2> QED
    BY <1>1, <2>1, <2>3, <2>4, FinishAlone DEF RecordDoesNotLie, Live
<1>6. ASSUME NEW r \in Request, CloseCommit(r)
      PROVE  Alone' /\ RecordDoesNotLie'
  <2>1. /\ req[r].pc = "close" /\ req[r].summary = Bullets /\ Finish(r)
        /\ retro'.summary = req[r].summary /\ UNCHANGED <<note, made>>
    BY <1>1, <1>6 DEF CloseCommit, Alone, Stands
  <2>2. \A n \in Note : Live(n) =>
          <<n, note[n].body, Cardinality(note[n].votes)>> \in retro'.summary
    BY <2>1 DEF Bullets
  <2>3. \A n \in Note : Live(n) => \E b \in retro'.summary : b[1] = n /\ b[2] = note[n].body
    BY <2>2
  <2> QED
    BY <1>1, <2>1, <2>3, FinishAlone DEF RecordDoesNotLie, Live
<1>7. CASE UNCHANGED vars
  BY <1>1, <1>7 DEF vars, Alone, RecordDoesNotLie, Stands, Open, Live, Promotable, Bullets
<1>8. ASSUME NEW r \in Request,
             \/ \E u \in User, kind \in Kind, body \in Body, anonymous \in BOOLEAN :
                  CreateCheck(r, u, kind, body, anonymous)
             \/ \E n \in Note : PromoteCheck(r, n)
             \/ \E u \in User, n \in Note, body \in Body : EditCheck(r, u, n, body)
             \/ CloseRead(r)
      PROVE  Alone' /\ RecordDoesNotLie'
  BY <1>1, <1>8, AcceptInv, BeginAlone
<1> QED
  BY <1>2, <1>3, <1>4, <1>5, <1>6, <1>7, <1>8 DEF Next

----------------------------------------------------------------------------
(* Type correctness, however handlers overlap; part of it is that a note has made
   at most as many tasks as requests can be in flight, each of which found it
   not promoted (promote() in routes/retros.rs). *)
THEOREM TypeCorrect == ASSUME Countable PROVE Spec => []TypeOK
<1>1. Inv => TypeOK
  <2> SUFFICES ASSUME Inv PROVE TypeOK
    OBVIOUS
  <2>1. \A n \in Note : made[n] \in 0 .. Cardinality(Request)
    BY PromotingCount DEF Inv, Shapes, MadeByRequests
  <2> QED
    BY <2>1, RequestFields DEF Inv, Shapes, TypeOK
<1> QED
  BY <1>1, Invariance, PTL

(* The record of a closed retro does not lie, one request at a time: every note
   that is still there is in the summary with what it says now, and has made one
   task when it is promoted and none before (edit_note(), promote() and
   close_retro() in routes/retros.rs). *)
THEOREM RecordKept == ASSUME Countable, ~Overlap PROVE Spec => []RecordDoesNotLie
<1>1. Init => SerialInv
  <2>1. Init => Alone /\ RecordDoesNotLie
    BY DEF Init, Alone, RecordDoesNotLie, NoNote, Idle
  <2> QED
    BY <2>1, InitInv DEF SerialInv
<1>2. SerialInv /\ [Next]_vars => SerialInv'
  BY SerialNextInv
<1>3. SerialInv => RecordDoesNotLie
  BY DEF SerialInv
<1> QED
  BY <1>1, <1>2, <1>3, PTL DEF Spec

=============================================================================
