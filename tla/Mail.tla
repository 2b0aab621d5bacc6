-------------------------------- MODULE Mail --------------------------------
(***************************************************************************)
(* The email copies of one user's notifications: the job that sends one at *)
(* once and the daily digest (jobs/mod.rs), under the preferences of       *)
(* domain/email_prefs.rs, all of apps/api/src.                             *)
(*                                                                         *)
(* Moments are positions among the user's notifications: created_at is the *)
(* place in the sequence, last_digest_at how many there were.              *)
(***************************************************************************)
EXTENDS Naturals, Sequences, FiniteSets

CONSTANTS
    Kind,      \* kinds of notifications
    MaxNotes,  \* bounds the notifications
    Limit      \* LIMIT of the digest's SELECT, 50 in the code

VARIABLES
    mode,    \* email_prefs.mode
    kinds,   \* the kinds switched on in email_prefs.kinds
    last,    \* email_prefs.last_digest_at
    due,     \* the digest hour has come since last_digest_at
    note,    \* table notifications, with the email job of each
    digest   \* the digest job on its way

vars == <<mode, kinds, last, due, note, digest>>

----------------------------------------------------------------------------
Mode == {"off", "immediate", "digest"}
Place == 0 .. MaxNotes

(* History: wish is how the user wanted the note since it was created, as long
   as that did not change; mails how many carried it, two standing for more; fate
   that it came while a digest was on its way or lay beyond the LIMIT ("late"), or
   was in a digest that was sent and never stamped ("torn"). *)
NoteRow == [kind: Kind, job: {"pending", "sending", "done", "gone"}, mails: 0 .. 2,
            wish: {"immediate", "digest", "none"}, fate: {"plain", "late", "torn"}]

DigestRecord == [pc: {"idle", "due", "items", "sent"}, kinds: SUBSET Kind, since: Place,
                 batch: SUBSET (1 .. MaxNotes)]

NoDigest == [pc |-> "idle", kinds |-> {}, since |-> 0, batch |-> {}]
Notes == DOMAIN note
More(n) == IF n < 2 THEN n + 1 ELSE n

WantsImmediate(kind) == mode = "immediate" /\ kind \in kinds

Wish(m, ks, kind) == IF kind \in ks /\ m # "off" THEN m ELSE "none"

Init ==
    /\ mode = "immediate" /\ kinds = Kind
    /\ last = 0 /\ due = FALSE /\ note = <<>> /\ digest = NoDigest

----------------------------------------------------------------------------
(* notify(): the row and its job send_notification_email. *)
Notify(kind) ==
    /\ Len(note) < MaxNotes
    /\ note' = Append(note, [kind |-> kind, job |-> "pending", mails |-> 0,
                             wish |-> Wish(mode, kinds, kind),
                             fate |-> IF digest.pc = "idle" THEN "plain" ELSE "late"])
    /\ UNCHANGED <<mode, kinds, last, due, digest>>

(* update() of the preferences, and the unsubscribe link, which sets off. *)
SetPrefs(m, ks) ==
    /\ mode' = m /\ kinds' = ks
    /\ note' = [n \in Notes |-> IF Wish(m, ks, note[n].kind) = note[n].wish THEN note[n]
                                ELSE [note[n] EXCEPT !.wish = "none"]]
    /\ UNCHANGED <<last, due, digest>>

Unsubscribe == mode # "off" /\ SetPrefs("off", kinds)

NewDay == due' = TRUE /\ UNCHANGED <<mode, kinds, last, note, digest>>

----------------------------------------------------------------------------
(* run_send_notification_email(): the preferences are read when the job runs. *)
EmailDecide(n) ==
    /\ note[n].job = "pending"
    /\ note' = [note EXCEPT ![n].job = IF WantsImmediate(note[n].kind) THEN "sending" ELSE "done"]
    /\ UNCHANGED <<mode, kinds, last, due, digest>>

EmailSend(n) ==
    /\ note[n].job = "sending"
    /\ note' = [note EXCEPT ![n].job = "done", ![n].mails = More(@)]
    /\ UNCHANGED <<mode, kinds, last, due, digest>>

(* A failed send is tried again. *)
EmailFails(n) ==
    /\ note[n].job = "sending"
    /\ note' = [note EXCEPT ![n].job = "pending"]
    /\ UNCHANGED <<mode, kinds, last, due, digest>>

(* Never queued, given up after the last attempt, or its worker stopped. *)
EmailGone(n) ==
    /\ note[n].job \in {"pending", "sending"}
    /\ note' = [note EXCEPT ![n].job = "gone"]
    /\ UNCHANGED <<mode, kinds, last, due, digest>>

----------------------------------------------------------------------------
(* run_notification_digest(): who is due, with the switches and the last digest. *)
DigestDue ==
    /\ digest.pc = "idle" /\ mode = "digest" /\ due
    /\ digest' = [NoDigest EXCEPT !.pc = "due", !.kinds = kinds, !.since = last]
    /\ UNCHANGED <<mode, kinds, last, due, note>>

(* The oldest Limit after since; the kinds are filtered afterwards. *)
Items(since) == {n \in Notes : since < n /\ n <= since + Limit}

DigestRead ==
    /\ digest.pc = "due"
    /\ digest' = [digest EXCEPT !.pc = "items",
                    !.batch = {n \in Items(digest.since) : note[n].kind \in digest.kinds}]
    /\ note' = [n \in Notes |-> IF n > digest.since + Limit THEN [note[n] EXCEPT !.fate = "late"]
                                                            ELSE note[n]]
    /\ UNCHANGED <<mode, kinds, last, due>>

(* One mail for all, none when there is nothing to say. *)
DigestSend ==
    /\ digest.pc = "items"
    /\ note' = [n \in Notes |-> IF n \in digest.batch
                                  THEN [note[n] EXCEPT !.mails = More(@)]
                                  ELSE note[n]]
    /\ digest' = [digest EXCEPT !.pc = "sent"]
    /\ UNCHANGED <<mode, kinds, last, due>>

(* A failed send leaves the user due. *)
DigestFails ==
    /\ digest.pc = "items" /\ digest.batch # {}
    /\ digest' = NoDigest
    /\ UNCHANGED <<mode, kinds, last, due, note>>

StampedUpTo(d) == d.since

(* last_digest_at = now() *)
StampTo(d) == Len(note)

DigestStamp ==
    /\ digest.pc = "sent"
    /\ last' = StampTo(digest) /\ due' = FALSE /\ digest' = NoDigest
    /\ UNCHANGED <<mode, kinds, note>>

Crash ==
    /\ digest.pc # "idle"
    /\ digest' = NoDigest
    /\ note' = [n \in Notes |-> IF digest.pc = "sent" /\ n \in digest.batch
                                  THEN [note[n] EXCEPT !.fate = "torn"] ELSE note[n]]
    /\ UNCHANGED <<mode, kinds, last, due>>

----------------------------------------------------------------------------
Next ==
    \/ \E kind \in Kind : Notify(kind)
    \/ \E m \in Mode, ks \in SUBSET Kind : SetPrefs(m, ks)
    \/ Unsubscribe \/ NewDay
    \/ \E n \in Notes : EmailDecide(n) \/ EmailSend(n) \/ EmailFails(n) \/ EmailGone(n)
    \/ DigestDue \/ DigestRead \/ DigestSend \/ DigestFails \/ DigestStamp \/ Crash

Spec == Init /\ [][Next]_vars

----------------------------------------------------------------------------
TypeOK ==
    /\ mode \in Mode /\ kinds \in SUBSET Kind /\ last \in Place /\ due \in BOOLEAN
    /\ Len(note) <= MaxNotes /\ \A n \in Notes : note[n] \in NoteRow
    /\ digest \in DigestRecord

(* A notification whose user wanted the same all along is mailed, and once: at once
   when its job has finished, or in the digest that covers it.  What is missed
   came while a digest was on its way or lay beyond its LIMIT; what comes twice was
   in a digest that stopped before its stamp (jobs/mod.rs). *)
MailedAsWished ==
    \A n \in Notes :
        /\ note[n].wish = "immediate" /\ note[n].job = "done" /\ note[n].fate = "plain" =>
             note[n].mails = 1
        /\ note[n].wish = "digest" =>
             /\ n <= last /\ note[n].fate = "plain" => note[n].mails > 0
             /\ note[n].mails > 1 => note[n].fate = "torn"

=============================================================================
