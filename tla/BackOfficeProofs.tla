--------------------------- MODULE BackOfficeProofs ---------------------------
(***************************************************************************)
(* What TLC checks of invoices, books, sessions, accounts, imports, fields *)
(* and sprints with their charts in the system Office composes holds for   *)
(* any of them, and for any requests.                                      *)
(*                                                                         *)
(* Each part has an inductive invariant of its own.  A lemma ...Steps says *)
(* that a step of the whole is one of the part or leaves it alone, a lemma *)
(* ...Keep that the invariant of the part holds all along.                 *)
(***************************************************************************)
EXTENDS Office, TimeTrackingProofs, FiniteSetTheorems, TLAPS

----------------------------------------------------------------------------
(* Invoices: a number that was told is held by an issued invoice, and      *)
(* numbers are unique, so whoever is issued under it later is that same    *)
(* invoice.                                                                *)

LEMMA BillsSteps ==
    /\ OfficeInit => Bills!Init
    /\ [OfficeNext]_officeVars => [Bills!Next]_billsVars
<1>1. OfficeInit => Bills!Init
  BY DEF OfficeInit
<1>2. OfficeNext => IF part = "bills" THEN Bills!Next ELSE UNCHANGED billsVars
  BY DEF OfficeNext
<1>3. UNCHANGED officeVars => UNCHANGED billsVars
  BY DEF officeVars
<1> QED
  BY <1>1, <1>2, <1>3

(* None stands for no amount and no row, and the year has room for a bound. *)
BillsApart ==
    /\ None \notin Amount /\ None \notin Bills!InvoiceRow /\ 0 \in Amount
    /\ IsFiniteSet(Invoice)

(* number is UNIQUE. *)
NumbersUnique ==
    \A i, j \in Bills!Invoices : invoice[i].number = invoice[j].number => i = j

BillsInv == Bills!TypeOK /\ NumbersUnique /\ Bills!IssuedNumbersAreFinal

----------------------------------------------------------------------------
LEMMA BillRows ==
    ASSUME BillsApart, Bills!TypeOK, NEW i \in Bills!Invoices
    PROVE  /\ i \in Invoice /\ invoice[i] \in Bills!InvoiceRow
           /\ invoice[i].number \in Bills!Number /\ invoice[i].status \in Bills!Status
           /\ invoice[i].total \in Amount
  BY DEF Bills!TypeOK, Bills!Invoices, Bills!InvoiceRow

(* The count plus one is a number of the year while a row is free. *)
LEMMA NextNumberType ==
    ASSUME BillsApart, Bills!Free # {}
    PROVE  Bills!NextNumber \in Bills!Number
<1>1. Bills!Invoices \in SUBSET Invoice /\ Bills!Invoices # Invoice
  BY DEF Bills!Invoices, Bills!Free
<1>2. /\ Cardinality(Bills!Invoices) \in Nat /\ Cardinality(Invoice) \in Nat
      /\ Cardinality(Bills!Invoices) <= Cardinality(Invoice)
      /\ Cardinality(Invoice) # Cardinality(Bills!Invoices)
  BY <1>1, FS_Subset, FS_CardinalityType DEF BillsApart
<1> QED
  BY <1>2 DEF Bills!NextNumber, Bills!Number, Bills!Cardinality, Cardinality

LEMMA BillsInitInv == ASSUME BillsApart PROVE Bills!Init => BillsInv
<1> SUFFICES ASSUME Bills!Init PROVE BillsInv
  OBVIOUS
<1>1. Bills!TypeOK
  BY DEF Bills!Init, Bills!TypeOK, BillsApart
<1>2. NumbersUnique /\ Bills!IssuedNumbersAreFinal
  BY DEF Bills!Init, NumbersUnique, Bills!Invoices, Bills!IssuedNumbersAreFinal
<1> QED
  BY <1>1, <1>2 DEF BillsInv

(* Steps that touch no invoice. *)
LEMMA OtherBillInv ==
    ASSUME BillsApart, BillsInv,
           \/ \E cents \in Amount : Bills!LogTime(cents)
           \/ Bills!DeleteClient
           \/ \E r \in Request : Bills!GenerateRead(r) \/ Bills!GenerateFails(r)
           \/ UNCHANGED billsVars
    PROVE  BillsInv'
<1>1. /\ owed' \in Amount /\ client' \in BOOLEAN /\ UNCHANGED <<invoice, told>>
      /\ billing' \in [Request -> Amount \cup {None}]
  BY DEF BillsInv, Bills!TypeOK, Bills!LogTime, Bills!DeleteClient, Bills!GenerateRead,
     Bills!GenerateFails, billsVars
<1> QED
  BY <1>1 DEF BillsInv, Bills!TypeOK, NumbersUnique, Bills!IssuedNumbersAreFinal, Bills!Invoices

(* A new invoice is a draft under a number nobody has. *)
LEMMA GenerateInsertInv ==
    ASSUME BillsApart, BillsInv, NEW r \in Request, Bills!GenerateInsert(r)
    PROVE  BillsInv'
<1> DEFINE new == CHOOSE i \in Bills!Free : TRUE
           row == [number |-> Bills!NextNumber, status |-> "draft", total |-> billing[r]]
<1>1. new \in Invoice /\ invoice[new] = None
  BY DEF Bills!GenerateInsert, Bills!Free, Bills!Invoices
<1>2. row \in Bills!InvoiceRow /\ row.number = Bills!NextNumber
  BY NextNumberType DEF Bills!GenerateInsert, BillsInv, Bills!TypeOK, Bills!InvoiceRow, Bills!Status
<1>3. /\ invoice' = [invoice EXCEPT ![new] = row] /\ invoice \in [Invoice -> Bills!InvoiceRow \cup {None}]
      /\ billing' \in [Request -> Amount \cup {None}] /\ UNCHANGED <<client, owed, told>>
  BY DEF Bills!GenerateInsert, BillsInv, Bills!TypeOK
<1> HIDE DEF new, row
<1>4. \A i \in Invoice : invoice'[i] = IF i = new THEN row ELSE invoice[i]
  BY <1>1, <1>3
<1>5. row # None /\ Bills!Invoices' = Bills!Invoices \cup {new} /\ new \notin Bills!Invoices
  BY <1>1, <1>2, <1>4 DEF Bills!Invoices, BillsApart
<1>6. Bills!TypeOK'
  BY <1>1, <1>2, <1>3 DEF BillsInv, Bills!TypeOK
<1>7. NumbersUnique'
  <2>1. \A i \in Bills!Invoices : invoice[i].number # Bills!NextNumber
    BY DEF Bills!GenerateInsert, Bills!NumberTaken
  <2>2. \A i \in Bills!Invoices : invoice'[i] = invoice[i]
    BY <1>4, <1>5, BillRows DEF Bills!Invoices
  <2>3. invoice'[new].number = Bills!NextNumber
    BY <1>1, <1>2, <1>4
  <2> HIDE DEF Bills!NextNumber
  <2> QED
    BY <1>5, <2>1, <2>2, <2>3 DEF BillsInv, NumbersUnique
<1>8. Bills!IssuedNumbersAreFinal'
  BY <1>3, <1>4, <1>5 DEF BillsInv, Bills!IssuedNumbersAreFinal, Bills!Invoices
<1> QED
  BY <1>6, <1>7, <1>8 DEF BillsInv

(* An invoice that is issued keeps the amount its number was told with. *)
LEMMA IssueInv ==
    ASSUME BillsApart, BillsInv, NEW i \in Bills!Invoices, NEW st \in {"sent", "paid"},
           Bills!Issue(i, st)
    PROVE  BillsInv'
<1> DEFINE row == [invoice[i] EXCEPT !.status = st]
           n == invoice[i].number
<1>1. /\ i \in Invoice /\ n \in Bills!Number /\ invoice[i].total \in Amount
      /\ invoice \in [Invoice -> Bills!InvoiceRow \cup {None}]
      /\ told \in [Bills!Number -> Amount \cup {None}]
  BY BillRows DEF BillsInv, Bills!TypeOK
<1>2. /\ row \in Bills!InvoiceRow /\ row.number = n /\ row.status = st
      /\ row.total = invoice[i].total
  BY BillRows DEF BillsInv, Bills!InvoiceRow, Bills!Status
<1>3. /\ invoice' = [invoice EXCEPT ![i] = row]
      /\ told' = [told EXCEPT ![n] = IF told[n] = None THEN invoice[i].total ELSE told[n]]
      /\ UNCHANGED <<client, owed, billing>>
  BY <1>1 DEF Bills!Issue
<1> HIDE DEF row, n
<1>4. \A j \in Invoice : invoice'[j] = IF j = i THEN row ELSE invoice[j]
  BY <1>1, <1>3
<1>5. Bills!Invoices' = Bills!Invoices
  BY <1>2, <1>4 DEF Bills!Invoices, BillsApart
<1>6. \A j \in Bills!Invoices : /\ invoice'[j].number = invoice[j].number
                                /\ invoice'[j].total = invoice[j].total
                                /\ invoice[j].status # "draft" => invoice'[j].status # "draft"
  BY <1>2, <1>4 DEF Bills!Invoices, n
<1>7. Bills!TypeOK'
  BY <1>1, <1>2, <1>3 DEF BillsInv, Bills!TypeOK
<1>8. NumbersUnique'
  BY <1>5, <1>6 DEF BillsInv, NumbersUnique
<1>9. Bills!IssuedNumbersAreFinal'
  <2> SUFFICES ASSUME NEW m \in Bills!Number, told'[m] # None
               PROVE  \E j \in Bills!Invoices : /\ invoice'[j].number = m
                                                /\ invoice'[j].status # "draft"
                                                /\ invoice'[j].total = told'[m]
    BY <1>5 DEF Bills!IssuedNumbersAreFinal
  <2>1. CASE told[m] # None
    <3>1. told'[m] = told[m]
      BY <1>1, <1>3, <2>1
    <3>2. PICK j \in Bills!Invoices : /\ invoice[j].number = m /\ invoice[j].status # "draft"
                                      /\ invoice[j].total = told[m]
      BY <2>1 DEF BillsInv, Bills!IssuedNumbersAreFinal
    <3> QED
      BY <1>6, <3>1, <3>2
  <2>2. CASE told[m] = None
    <3>1. m = n /\ told'[m] = invoice[i].total
      BY <1>1, <1>3, <2>2
    <3> QED
      BY <1>1, <1>2, <1>4, <3>1
  <2> QED
    BY <2>1, <2>2
<1> QED
  BY <1>7, <1>8, <1>9 DEF BillsInv

LEMMA DeleteDraftInv ==
    ASSUME BillsApart, BillsInv, NEW i \in Invoice, Bills!DeleteDraft(i)
    PROVE  BillsInv'
<1>1. /\ i \in Bills!Invoices /\ invoice[i].status = "draft" /\ invoice' = [invoice EXCEPT ![i] = None]
      /\ invoice \in [Invoice -> Bills!InvoiceRow \cup {None}] /\ UNCHANGED <<client, owed, billing, told>>
  BY DEF Bills!DeleteDraft, Bills!Deletable, BillsInv, Bills!TypeOK
<1>2. Bills!Invoices' = Bills!Invoices \ {i} /\ \A j \in Bills!Invoices' : invoice'[j] = invoice[j]
  BY <1>1 DEF Bills!Invoices
<1>3. Bills!TypeOK'
  BY <1>1 DEF BillsInv, Bills!TypeOK
<1>4. NumbersUnique'
  BY <1>2 DEF BillsInv, NumbersUnique
<1>5. Bills!IssuedNumbersAreFinal'
  BY <1>1, <1>2 DEF BillsInv, Bills!IssuedNumbersAreFinal
<1> QED
  BY <1>3, <1>4, <1>5 DEF BillsInv

LEMMA BillsNextInv == ASSUME BillsApart PROVE BillsInv /\ [Bills!Next]_billsVars => BillsInv'
<1> SUFFICES ASSUME BillsInv, [Bills!Next]_billsVars PROVE BillsInv'
  OBVIOUS
<1>1. ASSUME NEW i \in Invoice, Bills!MarkSent(i) \/ Bills!MarkPaid(i)
      PROVE  BillsInv'
  BY <1>1, IssueInv DEF Bills!MarkSent, Bills!MarkPaid
<1> QED
  BY <1>1, OtherBillInv, GenerateInsertInv, DeleteDraftInv DEF Bills!Next

LEMMA BillsKeep == ASSUME BillsApart PROVE OfficeSpec => []BillsInv
<1>1. OfficeInit => BillsInv
  BY BillsInitInv, BillsSteps
<1>2. BillsInv /\ [OfficeNext]_officeVars => BillsInv'
  BY BillsNextInv, BillsSteps
<1> QED
  BY <1>1, <1>2, PTL DEF OfficeSpec

(* Type correctness of the invoices: in particular the number of one is one of as many as
   there are rows, since it counts them (domain/invoicing.rs). *)
THEOREM BillsTyped == ASSUME BillsApart PROVE OfficeSpec => []Bills!TypeOK
<1>1. BillsInv => Bills!TypeOK
  BY DEF BillsInv
<1> QED
  BY <1>1, BillsKeep, PTL

(* A number a client was sent or has paid is for good: its invoice is still there,
   issued, with the amount it had, however generations overlap and whatever is
   logged and deleted in between (domain/invoicing.rs). *)
THEOREM NumbersAreFinal == ASSUME BillsApart PROVE OfficeSpec => []IssuedNumbersAreFinal
<1>1. BillsInv => IssuedNumbersAreFinal
  BY DEF BillsInv, IssuedNumbersAreFinal
<1> QED
  BY <1>1, BillsKeep, PTL

----------------------------------------------------------------------------
(* Sessions: what a refresh read of a token is still so when it writes, or *)
(* has become such that it counts as a benign replay; and the token of an  *)
(* answer is in nobody else's hands before the answer arrives.             *)

LEMMA SessionsSteps ==
    /\ OfficeInit => Sessions!Init
    /\ [OfficeNext]_officeVars => [Sessions!Next]_(Sessions!vars)
<1>1. OfficeInit => Sessions!Init
  BY DEF OfficeInit
<1>2. OfficeNext => IF part = "sessions" THEN Sessions!Next ELSE UNCHANGED sessionVars
  BY DEF OfficeNext
<1>3. UNCHANGED officeVars => UNCHANGED sessionVars
  BY DEF officeVars
<1>4. UNCHANGED sessionVars => UNCHANGED Sessions!vars
  BY DEF sessionVars, Sessions!vars
<1> QED
  BY <1>1, <1>2, <1>3, <1>4

(* None is no row and no time, and there is a grace. *)
SessionsApart ==
    /\ None \notin Session \cup Token \cup Nat
    /\ Grace \in Nat \ {0} /\ Lifetime \in Nat /\ LastTime \in Nat

(* Every token has a session that was made, and a revoked one a session that ended. *)
TokensBelong ==
    /\ \A t \in Token : token[t].session # None =>
         /\ session[token[t].session] # "absent"
         /\ token[t].revoked => Sessions!Ended(token[t].session)
    /\ jar # None => token[jar].session # None
    /\ status = "suspended" => \A s \in Session : session[s] # "live"

(* A token that was rotated can be replayed still: within the grace, and not expired. *)
Replayable(row) == row.at + Grace > clock /\ row.born + Lifetime > clock

JarReplayable == jar # None /\ Sessions!Rotated(token[jar]) => Replayable(token[jar])

(* What a refresh read stands for what is there: the row of the token it presented, which is
   only rotated since, and a session that, if live now, was live then. *)
ReadStands ==
    \A b \in Tab : sreq[b].pc = "read" =>
        /\ sreq[b].presented # None /\ sreq[b].start = clock
        /\ sreq[b].seen.session # None
        /\ sreq[b].seen.session = token[sreq[b].presented].session
        /\ sreq[b].seen.born = token[sreq[b].presented].born
        /\ Sessions!Rotated(sreq[b].seen) =>
             Sessions!Rotated(token[sreq[b].presented]) /\ Replayable(token[sreq[b].presented])
        /\ session[sreq[b].seen.session] = "live" =>
             ~sreq[b].seen.revoked /\ ~sreq[b].ended /\ sreq[b].active

(* Nobody but the answer on its way has its token. *)
AnswersAreNew ==
    \A b \in Tab : sreq[b].pc = "answered" =>
        /\ sreq[b].got # None /\ sreq[b].got # jar
        /\ token[sreq[b].got].session # None /\ ~Sessions!Rotated(token[sreq[b].got])
        /\ \A c \in Tab : /\ sreq[c].pc = "read" => sreq[c].presented # sreq[b].got
                          /\ c # b /\ sreq[c].pc = "answered" => sreq[c].got # sreq[b].got

SessionsInv == Sessions!TypeOK /\ TokensBelong /\ JarReplayable /\ ReadStands /\ AnswersAreNew

LEMMA SessionRows ==
    ASSUME Sessions!TypeOK
    PROVE  /\ \A t \in Token :
                /\ token[t].session \in Session \cup {None} /\ token[t].born \in Sessions!Time
                /\ token[t].at \in Sessions!Time \cup {None} /\ token[t].revoked \in BOOLEAN
           /\ \A b \in Tab :
                /\ sreq[b] \in Sessions!RequestRecord /\ sreq[b].seen \in Sessions!TokenRow
                /\ sreq[b].pc \in {"idle", "read", "answered"}
                /\ sreq[b].presented \in Token \cup {None} /\ sreq[b].got \in Token \cup {None}
                /\ sreq[b].seen.session \in Session \cup {None} /\ sreq[b].seen.born \in Sessions!Time
                /\ sreq[b].seen.at \in Sessions!Time \cup {None} /\ sreq[b].seen.revoked \in BOOLEAN
                /\ sreq[b].ended \in BOOLEAN /\ sreq[b].active \in BOOLEAN
                /\ sreq[b].start \in Sessions!Time
           /\ session \in [Session -> {"absent", "live"} \cup Sessions!Reason]
           /\ jar \in Token \cup {None} /\ clock \in Sessions!Time
<1>1. \A t \in Token : token[t] \in Sessions!TokenRow
  BY DEF Sessions!TypeOK
<1>2. \A b \in Tab : sreq[b] \in Sessions!RequestRecord
  BY DEF Sessions!TypeOK
<1>3. \A b \in Tab : sreq[b].seen \in Sessions!TokenRow
  BY <1>2 DEF Sessions!RequestRecord
<1> QED
  BY <1>1, <1>2, <1>3 DEF Sessions!TokenRow, Sessions!RequestRecord, Sessions!TypeOK

LEMMA NewRows ==
    ASSUME SessionsApart
    PROVE  /\ Sessions!NoToken \in Sessions!TokenRow /\ Sessions!NoToken.session = None /\ Sessions!NoToken.at = None
           /\ ~Sessions!NoToken.revoked /\ Sessions!NoToken.born = 0
           /\ Sessions!Idle \in Sessions!RequestRecord /\ Sessions!Idle.pc = "idle"
<1>1. 0 \in Sessions!Time
  BY DEF SessionsApart, Sessions!Time
<1>2. Sessions!NoToken \in Sessions!TokenRow
  BY <1>1 DEF Sessions!NoToken, Sessions!TokenRow
<1> QED
  BY <1>1, <1>2 DEF Sessions!NoToken, Sessions!Idle, Sessions!RequestRecord

LEMMA SessionsInitInv == ASSUME SessionsApart PROVE Sessions!Init => SessionsInv
<1> SUFFICES ASSUME Sessions!Init PROVE SessionsInv
  OBVIOUS
<1>1. Sessions!TypeOK
  BY NewRows DEF Sessions!Init, Sessions!TypeOK, SessionsApart, Sessions!Time
<1>2. TokensBelong /\ JarReplayable
  BY NewRows DEF Sessions!Init, TokensBelong, JarReplayable
<1>3. ReadStands /\ AnswersAreNew
  BY NewRows DEF Sessions!Init, ReadStands, AnswersAreNew
<1> QED
  BY <1>1, <1>2, <1>3 DEF SessionsInv

(* Steps that make no token and leave the clock: sessions may end, and with them tokens be
   revoked, and requests may end. *)
LEMMA EndingInv ==
    ASSUME SessionsApart, SessionsInv, Sessions!TypeOK', UNCHANGED <<clock, jar>>,
           \A s \in Session : session'[s] = session[s] \/ session'[s] \in Sessions!Reason,
           \A t \in Token :
             /\ token'[t].session = token[t].session /\ token'[t].born = token[t].born
             /\ token'[t].at = token[t].at
             /\ token'[t].revoked /\ token[t].session # None =>
                  token[t].revoked \/ session'[token[t].session] \in Sessions!Reason,
           status' = "suspended" => \A s \in Session : session'[s] # "live",
           \A b \in Tab : sreq'[b] = sreq[b] \/ sreq'[b].pc = "idle"
    PROVE  SessionsInv'
<1> USE SessionRows DEF SessionsInv
<1>1. \A s \in Session : /\ Sessions!Ended(s) => session'[s] \in Sessions!Reason
                         /\ session'[s] = "live" => session[s] = "live"
                         /\ session'[s] = "absent" => session[s] = "absent"
  BY DEF Sessions!Ended, Sessions!Reason
<1>2. TokensBelong'
  BY <1>1 DEF TokensBelong, Sessions!Ended
<1>3. JarReplayable'
  BY DEF JarReplayable, Sessions!Rotated, Replayable
<1>4. ReadStands'
  BY <1>1 DEF ReadStands, Sessions!Rotated, Replayable
<1>5. AnswersAreNew'
  BY DEF AnswersAreNew, Sessions!Rotated
<1> QED
  BY <1>2, <1>3, <1>4, <1>5

(* A stale token whose session is live is a benign replay. *)
LEMMA ReuseIsReal ==
    ASSUME SessionsApart, SessionsInv, NEW b \in Tab, Sessions!ReuseDetected(b)
    PROVE  session[sreq[b].seen.session] # "live"
<1> SUFFICES ASSUME session[sreq[b].seen.session] = "live" PROVE FALSE
  OBVIOUS
<1>1. /\ sreq[b].pc = "read" /\ Sessions!Rotated(sreq[b].seen) /\ ~Sessions!Benign(sreq[b])
  BY DEF Sessions!ReuseDetected
<1>2. /\ sreq[b].start = clock /\ sreq[b].seen.born = token[sreq[b].presented].born
      /\ Replayable(token[sreq[b].presented])
      /\ ~sreq[b].seen.revoked /\ ~sreq[b].ended /\ sreq[b].active
  BY <1>1 DEF SessionsInv, ReadStands
<1>3. Sessions!WithinGrace(sreq[b])
  BY <1>2 DEF Replayable, Sessions!WithinGrace
<1>4. sreq[b].presented \in Token /\ sreq[b].seen.born \in Nat /\ clock \in Nat
  BY <1>1, SessionRows DEF SessionsInv, ReadStands, Sessions!Time
<1>5. ~Sessions!Expired(sreq[b].seen)
  BY <1>2, <1>4 DEF Replayable, Sessions!Expired, SessionsApart
<1> QED
  BY <1>1, <1>2, <1>3, <1>5 DEF Sessions!Benign, Sessions!Good

LEMMA RevokedRows ==
    ASSUME SessionsApart, Sessions!TypeOK, NEW s \in Session
    PROVE  /\ Sessions!Revoked(s) \in [Token -> Sessions!TokenRow]
           /\ \A t \in Token :
                /\ Sessions!Revoked(s)[t].session = token[t].session /\ Sessions!Revoked(s)[t].born = token[t].born
                /\ Sessions!Revoked(s)[t].at = token[t].at
                /\ Sessions!Revoked(s)[t].revoked => token[t].revoked \/ token[t].session = s
<1>1. \A t \in Token : token[t] \in Sessions!TokenRow
  BY DEF Sessions!TypeOK
<1>2. \A t \in Token : [token[t] EXCEPT !.revoked = TRUE] \in Sessions!TokenRow
  BY <1>1 DEF Sessions!TokenRow
<1>3. Sessions!Revoked(s) \in [Token -> Sessions!TokenRow]
  BY <1>1, <1>2 DEF Sessions!Revoked
<1> QED
  BY <1>1, <1>3 DEF Sessions!Revoked, Sessions!TokenRow

LEMMA EndAllRows ==
    ASSUME Sessions!TypeOK, NEW reason \in Sessions!Reason
    PROVE  /\ Sessions!EndAll(reason) \in [Session -> {"absent", "live"} \cup Sessions!Reason]
           /\ \A s \in Session : /\ Sessions!EndAll(reason)[s] # "live"
                                 /\ Sessions!EndAll(reason)[s] = session[s] \/ Sessions!EndAll(reason)[s] \in Sessions!Reason
                                 /\ session[s] \in {"live"} \cup Sessions!Reason => Sessions!EndAll(reason)[s] \in Sessions!Reason
  BY DEF Sessions!TypeOK, Sessions!EndAll, Sessions!Reason

LEMMA IdleTab ==
    ASSUME SessionsApart, Sessions!TypeOK, NEW b \in Tab, sreq' = [sreq EXCEPT ![b] = Sessions!Idle]
    PROVE  /\ sreq' \in [Tab -> Sessions!RequestRecord]
           /\ \A c \in Tab : sreq'[c] = sreq[c] \/ sreq'[c].pc = "idle"
  BY NewRows DEF Sessions!TypeOK

LEMMA ReuseInv ==
    ASSUME SessionsApart, SessionsInv, NEW b \in Tab, Sessions!ReuseDetected(b)
    PROVE  SessionsInv'
<1> DEFINE s == sreq[b].seen.session
<1>1. /\ s \in Session /\ session \in [Session -> {"absent", "live"} \cup Sessions!Reason]
      /\ status # "suspended" \/ \A z \in Session : session[z] # "live"
  BY SessionRows DEF Sessions!ReuseDetected, SessionsInv, ReadStands, TokensBelong
<1>2. /\ session' = [session EXCEPT ![s] = "reuse_detected"] /\ token' = Sessions!Revoked(s)
      /\ sreq' = [sreq EXCEPT ![b] = Sessions!Idle] /\ UNCHANGED <<clock, status, jar>>
  BY DEF Sessions!ReuseDetected
<1> HIDE DEF s
<1>3. /\ \A z \in Session : session'[z] = session[z] \/ session'[z] \in Sessions!Reason
      /\ session'[s] \in Sessions!Reason
      /\ session' \in [Session -> {"absent", "live"} \cup Sessions!Reason]
  BY <1>1, <1>2 DEF Sessions!Reason
<1>4. status' = "suspended" => \A z \in Session : session'[z] # "live"
  BY <1>1, <1>2, <1>3 DEF Sessions!Reason
<1>5. Sessions!TypeOK'
  BY <1>1, <1>2, <1>3, RevokedRows, IdleTab DEF SessionsInv, Sessions!TypeOK
<1>6. \A t \in Token :
        /\ token'[t].session = token[t].session /\ token'[t].born = token[t].born
        /\ token'[t].at = token[t].at
        /\ token'[t].revoked => token[t].revoked \/ session'[token[t].session] \in Sessions!Reason
  BY <1>1, <1>2, <1>3, RevokedRows DEF SessionsInv
<1>7. \A c \in Tab : sreq'[c] = sreq[c] \/ sreq'[c].pc = "idle"
  BY <1>2, IdleTab DEF SessionsInv
<1> QED
  BY <1>2, <1>3, <1>4, <1>5, <1>6, <1>7, EndingInv

LEMMA LogoutInv == ASSUME SessionsApart, SessionsInv, Sessions!Logout PROVE SessionsInv'
<1> DEFINE s == token[jar].session
<1>1. /\ s \in Session /\ session \in [Session -> {"absent", "live"} \cup Sessions!Reason]
      /\ status # "suspended" \/ \A z \in Session : session[z] # "live"
  BY SessionRows DEF Sessions!Logout, SessionsInv, TokensBelong
<1>2. /\ session' = [session EXCEPT ![s] = "logout"] /\ token' = Sessions!Revoked(s)
      /\ UNCHANGED <<clock, status, jar, sreq>>
  BY DEF Sessions!Logout
<1> HIDE DEF s
<1>3. /\ \A z \in Session : session'[z] = session[z] \/ session'[z] \in Sessions!Reason
      /\ session'[s] \in Sessions!Reason
      /\ session' \in [Session -> {"absent", "live"} \cup Sessions!Reason]
  BY <1>1, <1>2 DEF Sessions!Reason
<1>4. status' = "suspended" => \A z \in Session : session'[z] # "live"
  BY <1>1, <1>2, <1>3 DEF Sessions!Reason
<1>5. Sessions!TypeOK'
  BY <1>1, <1>2, <1>3, RevokedRows DEF SessionsInv, Sessions!TypeOK
<1>6. \A t \in Token :
        /\ token'[t].session = token[t].session /\ token'[t].born = token[t].born
        /\ token'[t].at = token[t].at
        /\ token'[t].revoked => token[t].revoked \/ session'[token[t].session] \in Sessions!Reason
  BY <1>1, <1>2, <1>3, RevokedRows DEF SessionsInv
<1> QED
  BY <1>2, <1>3, <1>4, <1>5, <1>6, EndingInv

LEMMA SuspendInv == ASSUME SessionsApart, SessionsInv, Sessions!Suspend PROVE SessionsInv'
<1>1. /\ session' = Sessions!EndAll("suspended") /\ "suspended" \in Sessions!Reason
      /\ status' = "suspended" /\ UNCHANGED <<clock, token, jar, sreq>>
  BY DEF Sessions!Suspend, Sessions!Reason
<1>2. /\ session' \in [Session -> {"absent", "live"} \cup Sessions!Reason]
      /\ \A s \in Session : /\ session'[s] # "live"
                            /\ session'[s] = session[s] \/ session'[s] \in Sessions!Reason
  BY <1>1, EndAllRows DEF SessionsInv
<1>3. Sessions!TypeOK'
  BY <1>1, <1>2 DEF SessionsInv, Sessions!TypeOK
<1> QED
  BY <1>1, <1>2, <1>3, EndingInv

LEMMA ReactivateInv == ASSUME SessionsApart, SessionsInv, Sessions!Reactivate PROVE SessionsInv'
<1>1. Sessions!TypeOK' /\ status' # "suspended" /\ UNCHANGED <<clock, session, token, jar, sreq>>
  BY DEF SessionsInv, Sessions!TypeOK, Sessions!Reactivate
<1> QED
  BY <1>1, EndingInv

LEMMA PasswordResetInv == ASSUME SessionsApart, SessionsInv, Sessions!PasswordReset PROVE SessionsInv'
<1>1. /\ session' = Sessions!EndAll("password_reset") /\ "password_reset" \in Sessions!Reason
      /\ UNCHANGED <<clock, status, jar, sreq>>
      /\ token' = [t \in Token |-> IF token[t].session = None THEN token[t]
                                    ELSE [token[t] EXCEPT !.revoked = TRUE]]
  BY DEF Sessions!PasswordReset, Sessions!Reason
<1>2. /\ session' \in [Session -> {"absent", "live"} \cup Sessions!Reason]
      /\ \A s \in Session : /\ session'[s] # "live"
                            /\ session'[s] = session[s] \/ session'[s] \in Sessions!Reason
                            /\ session[s] \in {"live"} \cup Sessions!Reason => session'[s] \in Sessions!Reason
  BY <1>1, EndAllRows DEF SessionsInv
<1>3. \A t \in Token : token[t] \in Sessions!TokenRow
  BY DEF SessionsInv, Sessions!TypeOK
<1>4. \A t \in Token : /\ token'[t] \in Sessions!TokenRow
                       /\ token'[t].session = token[t].session
                       /\ token'[t].born = token[t].born /\ token'[t].at = token[t].at
  BY <1>1, <1>3 DEF Sessions!TokenRow
<1>5. Sessions!TypeOK'
  BY <1>1, <1>2, <1>4 DEF SessionsInv, Sessions!TypeOK
<1>6. ASSUME NEW t \in Token, token[t].session # None
      PROVE  session'[token[t].session] \in Sessions!Reason
  BY <1>2, <1>6, SessionRows DEF SessionsInv, TokensBelong
<1> QED
  BY <1>1, <1>2, <1>4, <1>5, <1>6, EndingInv

LEMMA RequestEndsInv ==
    ASSUME SessionsApart, SessionsInv, NEW b \in Tab, Sessions!Refuse(b) \/ Sessions!LoseAnswer(b)
    PROVE  SessionsInv'
<1>1. sreq' = [sreq EXCEPT ![b] = Sessions!Idle] /\ UNCHANGED <<clock, status, session, token, jar>>
  BY DEF Sessions!Refuse, Sessions!LoseAnswer
<1>2. Sessions!TypeOK'
  BY <1>1, IdleTab DEF SessionsInv, Sessions!TypeOK
<1>3. status' = "suspended" => \A s \in Session : session'[s] # "live"
  BY <1>1 DEF SessionsInv, TokensBelong
<1>4. \A c \in Tab : sreq'[c] = sreq[c] \/ sreq'[c].pc = "idle"
  BY <1>1, IdleTab DEF SessionsInv
<1> QED
  BY <1>1, <1>2, <1>3, <1>4, EndingInv

LEMMA LeafRows ==
    ASSUME SessionsApart, Sessions!TypeOK, NEW t \in Token, NEW s \in Session
    PROVE  /\ Sessions!Leaf(t, s) \in [Token -> Sessions!TokenRow]
           /\ \A u \in Token : u # t => Sessions!Leaf(t, s)[u] = token[u]
           /\ Sessions!Leaf(t, s)[t].session = s /\ Sessions!Leaf(t, s)[t].at = None
           /\ ~Sessions!Leaf(t, s)[t].revoked /\ Sessions!Leaf(t, s)[t].born = clock
<1>1. /\ [Sessions!NoToken EXCEPT !.session = s, !.born = clock] \in Sessions!TokenRow
      /\ [Sessions!NoToken EXCEPT !.session = s, !.born = clock].session = s
      /\ [Sessions!NoToken EXCEPT !.session = s, !.born = clock].at = None
      /\ ~[Sessions!NoToken EXCEPT !.session = s, !.born = clock].revoked
      /\ [Sessions!NoToken EXCEPT !.session = s, !.born = clock].born = clock
  BY NewRows DEF Sessions!TypeOK, Sessions!TokenRow
<1> QED
  BY <1>1 DEF Sessions!Leaf, Sessions!TypeOK

(* A token that is new is in no jar and no request. *)
LEMMA FreshIsNew ==
    ASSUME SessionsApart, SessionsInv, NEW t \in Token, Sessions!FreshToken(t)
    PROVE  /\ jar # t
           /\ \A b \in Tab : /\ sreq[b].pc = "read" => sreq[b].presented # t
                             /\ sreq[b].pc = "answered" => sreq[b].got # t
<1>1. token[t].session = None
  BY DEF Sessions!FreshToken
<1>2. jar # t
  BY <1>1 DEF SessionsInv, TokensBelong, SessionsApart
<1>3. \A b \in Tab : sreq[b].pc = "read" => sreq[b].presented # t
  BY <1>1 DEF SessionsInv, ReadStands
<1>4. \A b \in Tab : sreq[b].pc = "answered" => sreq[b].got # t
  BY <1>1 DEF SessionsInv, AnswersAreNew
<1> QED
  BY <1>2, <1>3, <1>4

LEMMA LoginInv ==
    ASSUME SessionsApart, SessionsInv, NEW s \in Session, NEW t \in Token, Sessions!Login(s, t)
    PROVE  SessionsInv'
<1>1. /\ status = "active" /\ session[s] = "absent" /\ Sessions!FreshToken(t)
      /\ session' = [session EXCEPT ![s] = "live"] /\ token' = Sessions!Leaf(t, s) /\ jar' = t
      /\ UNCHANGED <<clock, status, sreq>> /\ Sessions!TypeOK
      /\ session \in [Session -> {"absent", "live"} \cup Sessions!Reason]
  BY DEF Sessions!Login, Sessions!FreshSession, SessionsInv, Sessions!TypeOK
<1>2. /\ token' \in [Token -> Sessions!TokenRow] /\ \A u \in Token : u # t => token'[u] = token[u]
      /\ token'[t].session = s /\ token'[t].at = None /\ ~token'[t].revoked
  BY <1>1, LeafRows
<1>3. /\ \A z \in Session : session'[z] = IF z = s THEN "live" ELSE session[z]
      /\ session' \in [Session -> {"absent", "live"} \cup Sessions!Reason]
  BY <1>1
<1>4. Sessions!TypeOK'
  BY <1>1, <1>2, <1>3 DEF Sessions!TypeOK
<1>5. TokensBelong'
  <2>1. \A u \in Token : u # t /\ token[u].session # None =>
           /\ session'[token[u].session] # "absent"
           /\ token[u].revoked => session'[token[u].session] \in Sessions!Reason
    <3>1. ASSUME NEW u \in Token, u # t, token[u].session # None
          PROVE  token[u].session # s /\ token[u].session \in Session
      BY <1>1, <3>1, SessionRows DEF SessionsInv, TokensBelong
    <3> QED
      BY <1>3, <3>1 DEF SessionsInv, TokensBelong, Sessions!Ended
  <2>2. status' # "suspended"
    BY <1>1
  <2>3. token'[jar'].session # None /\ s # None
    BY <1>1, <1>2 DEF SessionsApart
  <2> QED
    BY <1>2, <1>3, <2>1, <2>2, <2>3 DEF TokensBelong, Sessions!Ended
<1>6. JarReplayable'
  BY <1>1, <1>2 DEF JarReplayable, Sessions!Rotated
<1>7. ReadStands'
  <2> SUFFICES ASSUME NEW b \in Tab, sreq[b].pc = "read"
               PROVE  /\ sreq[b].presented # None /\ sreq[b].start = clock
                      /\ sreq[b].seen.session # None
                      /\ sreq[b].seen.session = token'[sreq[b].presented].session
                      /\ sreq[b].seen.born = token'[sreq[b].presented].born
                      /\ Sessions!Rotated(sreq[b].seen) =>
                           Sessions!Rotated(token'[sreq[b].presented]) /\ Replayable(token'[sreq[b].presented])
                      /\ session'[sreq[b].seen.session] = "live" =>
                           ~sreq[b].seen.revoked /\ ~sreq[b].ended /\ sreq[b].active
    BY <1>1 DEF ReadStands, Sessions!Rotated, Replayable
  <2>1. /\ sreq[b].presented \in Token /\ sreq[b].presented # t
        /\ sreq[b].seen.session \in Session
        /\ token[sreq[b].presented].session = sreq[b].seen.session
    BY <1>1, FreshIsNew, SessionRows DEF SessionsInv, ReadStands
  <2>2. token'[sreq[b].presented] = token[sreq[b].presented]
    BY <1>2, <2>1
  <2>3. sreq[b].seen.session # s
    BY <1>1, <2>1 DEF SessionsInv, TokensBelong, SessionsApart
  <2> QED
    BY <1>3, <2>1, <2>2, <2>3 DEF SessionsInv, ReadStands
<1>8. AnswersAreNew'
  <2>1. \A b \in Tab : sreq[b].pc = "answered" =>
          /\ sreq[b].got \in Token /\ sreq[b].got # t /\ token'[sreq[b].got] = token[sreq[b].got]
    BY <1>1, <1>2, FreshIsNew, SessionRows DEF SessionsInv, AnswersAreNew
  <2> QED
    BY <1>1, <2>1 DEF SessionsInv, AnswersAreNew, Sessions!Rotated
<1> QED
  BY <1>4, <1>5, <1>6, <1>7, <1>8 DEF SessionsInv

LEMMA RefreshReadInv ==
    ASSUME SessionsApart, SessionsInv, NEW b \in Tab, Sessions!RefreshRead(b)
    PROVE  SessionsInv'
<1> DEFINE q == [Sessions!Idle EXCEPT !.pc = "read", !.presented = jar, !.seen = token[jar],
                                      !.ended = Sessions!Ended(token[jar].session),
                                      !.active = status = "active", !.start = clock]
<1>1. /\ jar \in Token /\ jar # None /\ sreq' = [sreq EXCEPT ![b] = q]
      /\ UNCHANGED <<clock, status, session, token, jar>> /\ Sessions!TypeOK
      /\ token[jar] \in Sessions!TokenRow /\ token[jar].session \in Session
      /\ sreq \in [Tab -> Sessions!RequestRecord]
  BY SessionRows DEF Sessions!RefreshRead, SessionsInv, Sessions!TypeOK, TokensBelong
<1>2. /\ q \in Sessions!RequestRecord /\ q.pc = "read" /\ q.presented = jar /\ q.seen = token[jar]
      /\ q.ended = Sessions!Ended(token[jar].session) /\ q.active = (status = "active") /\ q.start = clock
  <2>1. Sessions!Ended(token[jar].session) \in BOOLEAN /\ (status = "active") \in BOOLEAN
    BY DEF Sessions!Ended
  <2>2. Sessions!Idle \in Sessions!RequestRecord /\ clock \in Sessions!Time
    BY <1>1, NewRows DEF Sessions!TypeOK
  <2> HIDE DEF Sessions!Ended
  <2> QED
    BY <1>1, <2>1, <2>2 DEF Sessions!RequestRecord
<1> HIDE DEF q
<1>3. \A c \in Tab : sreq'[c] = IF c = b THEN q ELSE sreq[c]
  BY <1>1
<1>4. Sessions!TypeOK'
  BY <1>1, <1>2 DEF Sessions!TypeOK
<1>5. TokensBelong' /\ JarReplayable'
  BY <1>1 DEF SessionsInv, TokensBelong, JarReplayable, Sessions!Rotated, Replayable, Sessions!Ended
<1>6. ReadStands'
  <2>1. session[token[jar].session] = "live" => ~token[jar].revoked /\ ~q.ended /\ q.active
    <3>1. session[token[jar].session] = "live" => status = "active"
      BY <1>1 DEF SessionsInv, TokensBelong, Sessions!TypeOK
    <3>2. session[token[jar].session] = "live" => ~Sessions!Ended(token[jar].session)
      BY DEF Sessions!Ended, Sessions!Reason
    <3>3. token[jar].revoked => Sessions!Ended(token[jar].session)
      BY <1>1 DEF SessionsInv, TokensBelong, SessionsApart
    <3> QED
      BY <1>2, <3>1, <3>2, <3>3
  <2>2. Sessions!Rotated(token[jar]) => Replayable(token[jar])
    BY <1>1 DEF SessionsInv, JarReplayable
  <2>3. token[jar].session # None
    BY <1>1 DEF SessionsApart
  <2> QED
    BY <1>1, <1>2, <1>3, <2>1, <2>2, <2>3 DEF SessionsInv, ReadStands, Sessions!Rotated, Replayable
<1>7. AnswersAreNew'
  <2>1. \A c \in Tab : sreq'[c].pc = "answered" => c # b /\ sreq'[c] = sreq[c]
    BY <1>2, <1>3
  <2>2. \A c \in Tab : sreq'[c].pc = "read" => sreq'[c].presented = jar \/ sreq'[c] = sreq[c]
    BY <1>2, <1>3
  <2> QED
    BY <1>1, <2>1, <2>2 DEF SessionsInv, AnswersAreNew, Sessions!Rotated
<1> QED
  BY <1>4, <1>5, <1>6, <1>7 DEF SessionsInv

(* A refresh that is granted: a new leaf, and perhaps the presented token rotated. *)
LEMMA GrantedInv ==
    ASSUME SessionsApart, SessionsInv, NEW b \in Tab, NEW t \in Token,
           sreq[b].pc = "read", Sessions!FreshToken(t),
           sreq' = [sreq EXCEPT ![b] = [Sessions!Idle EXCEPT !.pc = "answered", !.got = t]],
           token' \in [Token -> Sessions!TokenRow], UNCHANGED <<clock, status, session, jar>>,
           token'[t].session = sreq[b].seen.session, token'[t].at = None, ~token'[t].revoked,
           \A u \in Token : u # t =>
             /\ token'[u].session = token[u].session /\ token'[u].born = token[u].born
             /\ token'[u].revoked = token[u].revoked
             /\ \/ token'[u].at = token[u].at
                \/ u = sreq[b].presented /\ token'[u].at # None /\ Replayable(token'[u])
    PROVE  SessionsInv'
<1> DEFINE q == [Sessions!Idle EXCEPT !.pc = "answered", !.got = t]
<1>1. /\ q \in Sessions!RequestRecord /\ q.pc = "answered" /\ q.got = t
      /\ \A c \in Tab : sreq'[c] = IF c = b THEN q ELSE sreq[c]
      /\ sreq' \in [Tab -> Sessions!RequestRecord]
  <2>1. q \in Sessions!RequestRecord /\ q.pc = "answered" /\ q.got = t
    BY NewRows DEF Sessions!RequestRecord
  <2> HIDE DEF q
  <2>2. sreq' = [sreq EXCEPT ![b] = q]
    BY DEF q
  <2> QED
    BY <2>1, <2>2 DEF SessionsInv, Sessions!TypeOK
<1> HIDE DEF q
<1>2. Sessions!TypeOK'
  BY <1>1 DEF SessionsInv, Sessions!TypeOK
<1>3. /\ jar # t
      /\ \A c \in Tab : /\ sreq[c].pc = "read" => sreq[c].presented # t
                        /\ sreq[c].pc = "answered" => sreq[c].got # t
  BY FreshIsNew
<1>4. /\ sreq[b].presented \in Token /\ sreq[b].seen.session \in Session
      /\ sreq[b].seen.session = token[sreq[b].presented].session
  BY SessionRows DEF SessionsInv, ReadStands
<1>5. \A u \in Token : u # t /\ token[u].at # None /\ Replayable(token[u]) =>
                          token'[u].at # None /\ Replayable(token'[u])
  BY DEF Replayable
<1>6. TokensBelong'
  <2>1. session[sreq[b].seen.session] # "absent"
    BY <1>4 DEF SessionsInv, TokensBelong, SessionsApart
  <2>2. jar' # None => token'[jar'].session # None
    BY <1>3, SessionRows DEF SessionsInv, TokensBelong
  <2>3. ASSUME NEW u \in Token, token'[u].session # None
        PROVE  /\ session[token'[u].session] # "absent"
               /\ token'[u].revoked => Sessions!Ended(token'[u].session)
    <3>1. CASE u = t
      BY <2>1, <3>1
    <3>2. CASE u # t
      BY <2>3, <3>2 DEF SessionsInv, TokensBelong
    <3> QED
      BY <3>1, <3>2
  <2>4. status' = "suspended" => \A s \in Session : session'[s] # "live"
    BY DEF SessionsInv, TokensBelong
  <2>5. \A s : Sessions!Ended(s)' <=> Sessions!Ended(s)
    BY DEF Sessions!Ended
  <2> QED
    BY <2>2, <2>3, <2>4, <2>5 DEF TokensBelong, Sessions!Ended
<1>7. JarReplayable'
  <2> SUFFICES ASSUME jar # None, token'[jar].at # None PROVE Replayable(token'[jar])
    BY DEF JarReplayable, Sessions!Rotated, Replayable
  <2>1. jar \in Token /\ jar # t
    BY <1>3, SessionRows DEF SessionsInv
  <2>2. CASE token'[jar].at = token[jar].at
    BY <1>5, <2>1, <2>2 DEF SessionsInv, JarReplayable, Sessions!Rotated
  <2>3. CASE token'[jar].at # token[jar].at
    BY <2>1, <2>3
  <2> QED
    BY <2>2, <2>3
<1>8. ReadStands'
  <2> SUFFICES ASSUME NEW c \in Tab, c # b, sreq[c].pc = "read"
               PROVE  /\ sreq[c].presented # None /\ sreq[c].start = clock
                      /\ sreq[c].seen.session # None
                      /\ sreq[c].seen.session = token'[sreq[c].presented].session
                      /\ sreq[c].seen.born = token'[sreq[c].presented].born
                      /\ Sessions!Rotated(sreq[c].seen) =>
                           Sessions!Rotated(token'[sreq[c].presented]) /\ Replayable(token'[sreq[c].presented])
                      /\ session[sreq[c].seen.session] = "live" =>
                           ~sreq[c].seen.revoked /\ ~sreq[c].ended /\ sreq[c].active
    BY <1>1 DEF ReadStands, Sessions!Rotated, Replayable
  <2>1. sreq[c].presented \in Token /\ sreq[c].presented # t
    BY <1>3, SessionRows DEF SessionsInv, ReadStands
  <2> QED
    BY <1>5, <2>1 DEF SessionsInv, ReadStands, Sessions!Rotated
<1>9. AnswersAreNew'
  <2>1. ASSUME NEW c \in Tab, c # b, sreq[c].pc = "answered"
        PROVE  /\ sreq[c].got \in Token /\ sreq[c].got # t /\ sreq[c].got # sreq[b].presented
               /\ token'[sreq[c].got].session # None /\ token'[sreq[c].got].at = None
    <3>1. /\ sreq[c].got \in Token /\ sreq[c].got # t /\ sreq[c].got # sreq[b].presented
          /\ token[sreq[c].got].session # None /\ token[sreq[c].got].at = None
      BY <1>3, <2>1, SessionRows DEF SessionsInv, AnswersAreNew, Sessions!Rotated
    <3> QED
      BY <3>1
  <2>2. t # None /\ sreq[b].seen.session # None
    BY <1>4 DEF SessionsApart
  <2> SUFFICES ASSUME NEW c \in Tab, sreq'[c].pc = "answered"
               PROVE  /\ sreq'[c].got # None /\ sreq'[c].got # jar
                      /\ token'[sreq'[c].got].session # None /\ ~Sessions!Rotated(token'[sreq'[c].got])
                      /\ \A d \in Tab :
                           /\ sreq'[d].pc = "read" => sreq'[d].presented # sreq'[c].got
                           /\ d # c /\ sreq'[d].pc = "answered" => sreq'[d].got # sreq'[c].got
    BY DEF AnswersAreNew, Sessions!Rotated
  <2>3. CASE c = b
    BY <1>1, <1>3, <2>2, <2>3 DEF Sessions!Rotated
  <2>4. CASE c # b
    <3>1. sreq'[c] = sreq[c] /\ sreq[c].pc = "answered"
      BY <1>1, <2>4
    <3> DEFINE g == sreq[c].got
    <3>2. sreq'[c].got = g
      BY <3>1
    <3>3. g # None /\ g # jar
      BY <3>1 DEF SessionsInv, AnswersAreNew
    <3>4. \A d \in Tab : /\ sreq'[d].pc = "read" => sreq'[d].presented # g
                         /\ d # c /\ sreq'[d].pc = "answered" => sreq'[d].got # g
      BY <1>1, <1>3, <3>1 DEF SessionsInv, AnswersAreNew
    <3>5. token'[g].session # None /\ ~Sessions!Rotated(token'[g])
      BY <2>1, <2>4, <3>1 DEF Sessions!Rotated
    <3> HIDE DEF g
    <3> QED
      BY <3>2, <3>3, <3>4, <3>5
  <2> QED
    BY <2>3, <2>4
<1> QED
  BY <1>2, <1>6, <1>7, <1>8, <1>9 DEF SessionsInv

LEMMA ReplayInv ==
    ASSUME SessionsApart, SessionsInv, NEW b \in Tab, NEW t \in Token, Sessions!Replay(b, t)
    PROVE  SessionsInv'
<1>1. /\ sreq[b].pc = "read" /\ Sessions!FreshToken(t) /\ token' = Sessions!Leaf(t, sreq[b].seen.session)
      /\ sreq' = [sreq EXCEPT ![b] = [Sessions!Idle EXCEPT !.pc = "answered", !.got = t]]
      /\ UNCHANGED <<clock, status, session, jar>>
  BY DEF Sessions!Replay
<1>2. sreq[b].seen.session \in Session
  BY <1>1, SessionRows DEF SessionsInv, ReadStands
<1>3. /\ token' \in [Token -> Sessions!TokenRow] /\ \A u \in Token : u # t => token'[u] = token[u]
      /\ token'[t].session = sreq[b].seen.session /\ token'[t].at = None /\ ~token'[t].revoked
  BY <1>1, <1>2, LeafRows DEF SessionsInv
<1> QED
  BY <1>1, <1>3, GrantedInv

LEMMA RotateInv ==
    ASSUME SessionsApart, SessionsInv, NEW b \in Tab, NEW t \in Token, Sessions!Rotate(b, t)
    PROVE  SessionsInv'
<1> DEFINE leaf == Sessions!Leaf(t, sreq[b].seen.session)
           p == sreq[b].presented
<1>1. /\ sreq[b].pc = "read" /\ Sessions!FreshToken(t) /\ token' = [leaf EXCEPT ![p].at = sreq[b].start]
      /\ sreq' = [sreq EXCEPT ![b] = [Sessions!Idle EXCEPT !.pc = "answered", !.got = t]]
      /\ UNCHANGED <<clock, status, session, jar>> /\ ~Sessions!Expired(sreq[b].seen)
  BY DEF Sessions!Rotate, Sessions!Current, Sessions!Good
<1>2. /\ sreq[b].seen.session \in Session /\ p \in Token /\ sreq[b].start = clock /\ clock \in Sessions!Time
      /\ sreq[b].seen.born = token[p].born /\ p # t /\ token[p].born \in Sessions!Time
  BY <1>1, FreshIsNew, SessionRows DEF SessionsInv, ReadStands
<1>3. /\ leaf \in [Token -> Sessions!TokenRow] /\ \A u \in Token : u # t => leaf[u] = token[u]
      /\ leaf[t].session = sreq[b].seen.session /\ leaf[t].at = None /\ ~leaf[t].revoked
  BY <1>1, <1>2, LeafRows DEF SessionsInv
<1> HIDE DEF leaf, p
<1>4. /\ [leaf[p] EXCEPT !.at = clock] \in Sessions!TokenRow
      /\ [leaf[p] EXCEPT !.at = clock].at = clock
      /\ [leaf[p] EXCEPT !.at = clock].session = token[p].session
      /\ [leaf[p] EXCEPT !.at = clock].born = token[p].born
      /\ [leaf[p] EXCEPT !.at = clock].revoked = token[p].revoked
  BY <1>2, <1>3 DEF Sessions!TokenRow
<1>5. /\ token' \in [Token -> Sessions!TokenRow]
      /\ \A u \in Token : token'[u] = IF u = p THEN [leaf[p] EXCEPT !.at = clock] ELSE leaf[u]
  BY <1>1, <1>2, <1>3, <1>4
<1>6. Replayable(token'[p]) /\ token'[p].at # None
  <2>1. clock \in Nat /\ token[p].born \in Nat
    BY <1>2 DEF Sessions!Time
  <2>2. token[p].born + Lifetime > clock
    BY <1>1, <1>2, <2>1 DEF Sessions!Expired, SessionsApart
  <2>3. clock + Grace > clock /\ clock # None
    BY <2>1 DEF SessionsApart
  <2>4. token'[p].at = clock /\ token'[p].born = token[p].born
    BY <1>2, <1>4, <1>5
  <2> QED
    BY <2>2, <2>3, <2>4 DEF Replayable
<1>7. \A u \in Token : u # t =>
        /\ token'[u].session = token[u].session /\ token'[u].born = token[u].born
        /\ token'[u].revoked = token[u].revoked
        /\ token'[u].at = token[u].at \/ u = p
  BY <1>3, <1>4, <1>5
<1>8. /\ token'[t].session = sreq[b].seen.session /\ token'[t].at = None /\ ~token'[t].revoked
  BY <1>2, <1>3, <1>5
<1>9. \A u \in Token : u # t =>
        \/ token'[u].at = token[u].at
        \/ u = sreq[b].presented /\ token'[u].at # None /\ Replayable(token'[u])
  BY <1>6, <1>7 DEF p
<1>10. token' \in [Token -> Sessions!TokenRow]
  BY <1>5
<1> HIDE DEF leaf, p
<1> QED
  BY <1>1, <1>7, <1>8, <1>9, <1>10, GrantedInv
LEMMA AnswerInv ==
    ASSUME SessionsApart, SessionsInv, NEW b \in Tab, Sessions!Answer(b)
    PROVE  SessionsInv'
<1>1. /\ sreq[b].pc = "answered" /\ jar' = sreq[b].got /\ sreq' = [sreq EXCEPT ![b] = Sessions!Idle]
      /\ UNCHANGED <<clock, status, session, token>>
  BY DEF Sessions!Answer
<1>2. /\ sreq[b].got \in Token /\ sreq[b].got # None /\ sreq[b].got # jar
      /\ token[sreq[b].got].session # None /\ token[sreq[b].got].at = None
      /\ \A c \in Tab : /\ sreq[c].pc = "read" => sreq[c].presented # sreq[b].got
                        /\ c # b /\ sreq[c].pc = "answered" => sreq[c].got # sreq[b].got
  BY <1>1, SessionRows DEF SessionsInv, AnswersAreNew, Sessions!Rotated
<1>3. /\ sreq' \in [Tab -> Sessions!RequestRecord]
      /\ \A c \in Tab : sreq'[c] = IF c = b THEN Sessions!Idle ELSE sreq[c]
  BY <1>1, NewRows DEF SessionsInv, Sessions!TypeOK
<1>4. \A c \in Tab : sreq'[c].pc \in {"read", "answered"} => c # b /\ sreq'[c] = sreq[c]
  BY <1>3, NewRows
<1>5. Sessions!TypeOK'
  BY <1>1, <1>2, <1>3 DEF SessionsInv, Sessions!TypeOK
<1>6. TokensBelong'
  BY <1>1, <1>2 DEF SessionsInv, TokensBelong, Sessions!Ended
<1>7. JarReplayable'
  BY <1>1, <1>2 DEF JarReplayable, Sessions!Rotated
<1>8. ReadStands'
  BY <1>1, <1>4 DEF SessionsInv, ReadStands, Sessions!Rotated, Replayable
<1>9. AnswersAreNew'
  <2> SUFFICES ASSUME NEW c \in Tab, sreq'[c].pc = "answered"
               PROVE  /\ sreq'[c].got # None /\ sreq'[c].got # jar'
                      /\ token'[sreq'[c].got].session # None /\ ~Sessions!Rotated(token'[sreq'[c].got])
                      /\ \A d \in Tab :
                           /\ sreq'[d].pc = "read" => sreq'[d].presented # sreq'[c].got
                           /\ d # c /\ sreq'[d].pc = "answered" => sreq'[d].got # sreq'[c].got
    BY DEF AnswersAreNew, Sessions!Rotated
  <2>1. c # b /\ sreq'[c] = sreq[c] /\ sreq[c].got # jar'
    BY <1>1, <1>2, <1>4
  <2>2. /\ sreq[c].got # None /\ token'[sreq[c].got].session # None /\ ~Sessions!Rotated(token'[sreq[c].got])
    BY <1>1, <2>1 DEF SessionsInv, AnswersAreNew
  <2>3. \A d \in Tab : /\ sreq'[d].pc = "read" => sreq'[d].presented # sreq[c].got
                       /\ d # c /\ sreq'[d].pc = "answered" => sreq'[d].got # sreq[c].got
    BY <1>4, <2>1 DEF SessionsInv, AnswersAreNew
  <2> QED
    BY <2>1, <2>2, <2>3
<1> QED
  BY <1>5, <1>6, <1>7, <1>8, <1>9 DEF SessionsInv

LEMMA TickInv == ASSUME SessionsApart, SessionsInv, Sessions!Tick PROVE SessionsInv'
<1>1. /\ clock < LastTime /\ clock' = clock + 1 /\ \A b \in Tab : sreq[b].pc = "idle"
      /\ UNCHANGED <<status, session, token, jar, sreq>>
      /\ jar # None /\ Sessions!Rotated(token[jar]) =>
           token[jar].at + Grace > clock + 1 /\ token[jar].born + Lifetime > clock + 1
  BY DEF Sessions!Tick
<1>2. clock' \in Sessions!Time
  BY <1>1 DEF SessionsInv, Sessions!TypeOK, Sessions!Time, SessionsApart
<1>3. Sessions!TypeOK'
  BY <1>1, <1>2 DEF SessionsInv, Sessions!TypeOK
<1>4. TokensBelong'
  BY <1>1 DEF SessionsInv, TokensBelong, Sessions!Ended
<1>5. JarReplayable'
  BY <1>1 DEF JarReplayable, Sessions!Rotated, Replayable
<1>6. ReadStands' /\ AnswersAreNew'
  BY <1>1 DEF ReadStands, AnswersAreNew
<1> QED
  BY <1>3, <1>4, <1>5, <1>6 DEF SessionsInv

LEMMA SessionsNextInv == ASSUME SessionsApart, SessionsInv, [Sessions!Next]_(Sessions!vars) PROVE SessionsInv'
<1>1. ASSUME NEW s \in Session, NEW t \in Token, Sessions!Login(s, t) PROVE SessionsInv'
  BY <1>1, LoginInv
<1>2. ASSUME NEW b \in Tab, Sessions!RefreshRead(b) PROVE SessionsInv'
  BY <1>2, RefreshReadInv
<1>3. ASSUME NEW b \in Tab, Sessions!ReuseDetected(b) PROVE SessionsInv'
  BY <1>3, ReuseInv
<1>4. ASSUME NEW b \in Tab, Sessions!Refuse(b) \/ Sessions!LoseAnswer(b) PROVE SessionsInv'
  BY <1>4, RequestEndsInv
<1>5. ASSUME NEW b \in Tab, Sessions!Answer(b) PROVE SessionsInv'
  BY <1>5, AnswerInv
<1>6. ASSUME NEW b \in Tab, NEW t \in Token, Sessions!Rotate(b, t) PROVE SessionsInv'
  BY <1>6, RotateInv
<1>7. ASSUME NEW b \in Tab, NEW t \in Token, Sessions!Replay(b, t) PROVE SessionsInv'
  BY <1>7, ReplayInv
<1>8. CASE Sessions!Logout \/ Sessions!Suspend \/ Sessions!Reactivate \/ Sessions!PasswordReset \/ Sessions!Tick
  BY <1>8, LogoutInv, SuspendInv, ReactivateInv, PasswordResetInv, TickInv
<1>9. CASE UNCHANGED Sessions!vars
  <2>1. UNCHANGED <<clock, status, session, token, jar, sreq>>
    BY <1>9 DEF Sessions!vars
  <2>2. Sessions!TypeOK' /\ (status' = "suspended" => \A s \in Session : session'[s] # "live")
    BY <2>1 DEF SessionsInv, Sessions!TypeOK, TokensBelong
  <2> QED
    BY <2>1, <2>2, EndingInv
<1> QED
  BY <1>1, <1>2, <1>3, <1>4, <1>5, <1>6, <1>7, <1>8, <1>9 DEF Sessions!Next

(* The step of HonestTabsStaySignedIn: only a refresh taken for reuse ends a session with
   reuse_detected, and ReuseIsReal says whose. *)
LEMMA HonestStep ==
    ASSUME SessionsApart, SessionsInv, [Sessions!Next]_(Sessions!vars), NEW s \in Session, session[s] = "live"
    PROVE  session'[s] # "reuse_detected"
<1>1. ASSUME NEW b \in Tab, Sessions!ReuseDetected(b) PROVE session'[s] # "reuse_detected"
  <2>1. session[sreq[b].seen.session] # "live"
    BY <1>1, ReuseIsReal
  <2> QED
    BY <1>1, <2>1 DEF Sessions!ReuseDetected, SessionsInv, Sessions!TypeOK
<1>2. ASSUME NEW z \in Session, NEW t \in Token, Sessions!Login(z, t) PROVE session'[s] # "reuse_detected"
  BY <1>2 DEF Sessions!Login, SessionsInv, Sessions!TypeOK
<1>3. CASE Sessions!Logout
  BY <1>3 DEF Sessions!Logout, SessionsInv, Sessions!TypeOK
<1>4. CASE Sessions!Suspend \/ Sessions!PasswordReset
  BY <1>4 DEF Sessions!Suspend, Sessions!PasswordReset, Sessions!EndAll
<1>5. ASSUME NEW b \in Tab, \/ Sessions!RefreshRead(b) \/ Sessions!Refuse(b) \/ Sessions!Answer(b) \/ Sessions!LoseAnswer(b)
                            \/ \E t \in Token : Sessions!Rotate(b, t) \/ Sessions!Replay(b, t)
      PROVE  session' = session
  BY <1>5 DEF Sessions!RefreshRead, Sessions!Refuse, Sessions!Answer, Sessions!LoseAnswer,
     Sessions!Rotate, Sessions!Replay
<1>6. CASE Sessions!Reactivate \/ Sessions!Tick \/ UNCHANGED Sessions!vars
  BY <1>6 DEF Sessions!Reactivate, Sessions!Tick, Sessions!vars
<1> QED
  BY <1>1, <1>2, <1>3, <1>4, <1>5, <1>6 DEF Sessions!Next

LEMMA SessionsKeep == ASSUME SessionsApart PROVE OfficeSpec => []SessionsInv
<1>1. OfficeInit => SessionsInv
  BY SessionsInitInv, SessionsSteps
<1>2. SessionsInv /\ [OfficeNext]_officeVars => SessionsInv'
  BY SessionsNextInv, SessionsSteps
<1> QED
  BY <1>1, <1>2, PTL DEF OfficeSpec

(* Type correctness of the sessions, the tokens and the refreshes in flight
   (domain/sessions.rs). *)
THEOREM SessionsTyped == ASSUME SessionsApart PROVE OfficeSpec => []Sessions!TypeOK
<1>1. SessionsInv => Sessions!TypeOK
  BY DEF SessionsInv
<1> QED
  BY <1>1, SessionsKeep, PTL

(* However many tabs race for a refresh, whatever answers are lost and sent for again,
   and whatever ends sessions meanwhile, a session that is live is never ended as
   reused (rotate in domain/sessions.rs). *)
THEOREM HonestTabs == ASSUME SessionsApart PROVE OfficeSpec => HonestTabsStaySignedIn
<1>1. SessionsInv /\ [OfficeNext]_officeVars =>
        [\A s \in Session : session[s] = "live" => session'[s] # "reuse_detected"]_(Sessions!vars)
  BY SessionsSteps, HonestStep
<1> QED
  BY <1>1, SessionsKeep, PTL DEF OfficeSpec, HonestTabsStaySignedIn, Sessions!HonestTabsStaySignedIn

----------------------------------------------------------------------------
(* Accounts, one request at a time: what a handler of the second factor    *)
(* checked is still so when it writes, and whoever acts as an admin cannot *)
(* take that from themselves.                                              *)

LEMMA PeopleSteps ==
    /\ OfficeInit => People!Init
    /\ [OfficeNext]_officeVars => [People!Next]_(People!vars)
<1>1. OfficeInit => People!Init
  BY DEF OfficeInit
<1>2. OfficeNext => IF part = "people" THEN People!Next ELSE UNCHANGED peopleVars
  BY DEF OfficeNext
<1>3. UNCHANGED officeVars => UNCHANGED peopleVars
  BY DEF officeVars
<1>4. UNCHANGED peopleVars => UNCHANGED People!vars
  BY DEF peopleVars, People!vars
<1> QED
  BY <1>1, <1>2, <1>3, <1>4

(* The second factors: the authenticator of a user whose factor is on holds its secret, and
   what a handler in flight found is still so, since no other runs meanwhile. *)
FactorsStand ==
    /\ \A u \in User : user[u].on => phone[u] = user[u].secret
    /\ \A r \in {"only"} : areq[r].pc = "enroll" => areq[r].u \in User /\ ~user[areq[r].u].on
    /\ \A r \in {"only"} : areq[r].pc = "activate" =>
         areq[r].u \in User /\ phone[areq[r].u] = user[areq[r].u].secret

PeopleInv == People!TypeOK /\ FactorsStand

LEMMA PeopleRows ==
    ASSUME People!TypeOK
    PROVE  /\ \A u \in User :
                /\ user[u] \in People!UserRow /\ user[u].row \in {"absent", "live"} /\ user[u].role \in People!Role
                /\ user[u].status \in {"active", "suspended"} /\ user[u].subject \in BOOLEAN
                /\ user[u].secret \in Secret \cup {None} /\ user[u].on \in BOOLEAN
           /\ \A r \in {"only"} :
                /\ areq[r] \in People!RequestRecord /\ areq[r].u \in User \cup {None}
                /\ areq[r].i \in Invite \cup {None} /\ areq[r].role \in People!Role
                /\ areq[r].secret \in Secret \cup {None}
           /\ user \in [User -> People!UserRow] /\ areq \in [{"only"} -> People!RequestRecord]
           /\ People!NoUser \in People!UserRow /\ People!Idle \in People!RequestRecord
  BY DEF People!TypeOK, People!UserRow, People!RequestRecord, People!NoUser, People!Idle,
     People!Role

LEMMA PeopleInitInv == People!Init => PeopleInv
  BY DEF People!Init, PeopleInv, People!TypeOK, FactorsStand, People!NoUser, People!NoInvite,
     People!Idle, People!UserRow, People!InviteRow, People!RequestRecord, People!Role

(* A row that changes: what stays as it was for the second factor. *)
LEMMA RowChangesInv ==
    ASSUME PeopleInv, NEW u \in User, NEW row \in People!UserRow, user' = [user EXCEPT ![u] = row],
           row.on => phone[u] = row.secret,
           invite' \in [Invite -> People!InviteRow], UNCHANGED phone, areq' \in [{"only"} -> People!RequestRecord],
           \A r \in {"only"} : areq'[r].pc \notin {"enroll", "activate"}
    PROVE  PeopleInv'
  BY PeopleRows DEF PeopleInv, People!TypeOK, FactorsStand

(* No row changes. *)
LEMMA RowsStayInv ==
    ASSUME PeopleInv, UNCHANGED <<user, phone>>,
           invite' \in [Invite -> People!InviteRow], areq' \in [{"only"} -> People!RequestRecord],
           \A r \in {"only"} : areq'[r] = areq[r] \/ areq'[r].pc \notin {"enroll", "activate"}
    PROVE  PeopleInv'
  BY DEF PeopleInv, People!TypeOK, FactorsStand

LEMMA BeginRows ==
    ASSUME People!TypeOK, NEW r \in {"only"}, NEW record \in People!RequestRecord, People!Begin(r, record)
    PROVE  /\ areq' \in [{"only"} -> People!RequestRecord] /\ areq' = [q \in {"only"} |-> record]
           /\ UNCHANGED <<user, invite, phone>>
  BY DEF People!TypeOK, People!Begin

LEMMA FinishRows ==
    ASSUME People!TypeOK, NEW r \in {"only"}, People!Finish(r)
    PROVE  /\ areq' \in [{"only"} -> People!RequestRecord]
           /\ \A q \in {"only"} : areq'[q].pc = "idle"
  BY PeopleRows DEF People!TypeOK, People!Finish, People!Idle
(* The requests that only begin. *)
LEMMA AccountBeginInv ==
    ASSUME PeopleInv, NEW r \in {"only"},
           \/ People!RegisterFirst(r) \/ People!RegisterOpen(r)
           \/ \E i \in Invite : People!RegisterInvited(r, i)
           \/ \E u \in User : \/ People!ActivateCheck(r, u)
                              \/ \E secret \in Secret : People!EnrollCheck(r, u, secret)
    PROVE  PeopleInv'
<1> USE PeopleRows DEF PeopleInv
<1>1. CASE \/ People!RegisterFirst(r) \/ People!RegisterOpen(r) \/ \E i \in Invite : People!RegisterInvited(r, i)
  <2>1. PICK record \in People!RequestRecord : People!Begin(r, record) /\ record.pc = "insert"
    <3>1. CASE People!RegisterFirst(r)
      <4>1. [People!Idle EXCEPT !.pc = "insert", !.role = "admin"] \in People!RequestRecord
        BY DEF People!RequestRecord, People!Role
      <4>2. [People!Idle EXCEPT !.pc = "insert", !.role = "admin"].pc = "insert"
        BY DEF People!Idle
      <4> QED
        BY <3>1, <4>1, <4>2 DEF People!RegisterFirst
    <3>2. CASE People!RegisterOpen(r)
      BY <3>2 DEF People!RegisterOpen, People!RequestRecord
    <3>3. CASE \E i \in Invite : People!RegisterInvited(r, i)
      <4>1. PICK i \in Invite : People!RegisterInvited(r, i)
        BY <3>3
      <4>2. invite[i].role \in People!Role
        BY DEF People!TypeOK, People!InviteRow
      <4> DEFINE record == [People!Idle EXCEPT !.pc = "insert", !.i = i, !.role = invite[i].role]
      <4>3. record \in People!RequestRecord
        BY <4>2 DEF People!RequestRecord
      <4>4. record.pc = "insert"
        BY DEF People!Idle
      <4>5. People!Begin(r, record)
        BY <4>1 DEF People!RegisterInvited
      <4> QED
        BY <4>3, <4>4, <4>5
    <3> QED
      BY <1>1, <3>1, <3>2, <3>3
  <2>2. \A q \in {"only"} : areq'[q].pc = "insert"
    BY <2>1, BeginRows
  <2> QED
    BY <2>1, <2>2, BeginRows, RowsStayInv DEF People!TypeOK
<1>2. ASSUME NEW u \in User, NEW secret \in Secret, People!EnrollCheck(r, u, secret) PROVE PeopleInv'
  <2> DEFINE record == [People!Idle EXCEPT !.pc = "enroll", !.u = u, !.secret = secret]
  <2>1. record \in People!RequestRecord /\ record.pc = "enroll" /\ record.u = u
    BY DEF People!RequestRecord
  <2>2. People!Begin(r, record) /\ ~user[u].on
    BY <1>2 DEF People!EnrollCheck, People!MayEnroll
  <2> HIDE DEF record
  <2>3. /\ \A q \in {"only"} : areq'[q] = record
        /\ areq' \in [{"only"} -> People!RequestRecord] /\ UNCHANGED <<user, invite, phone>>
    BY <2>1, <2>2, BeginRows
  <2> QED
    BY <2>1, <2>2, <2>3 DEF People!TypeOK, FactorsStand
<1>3. ASSUME NEW u \in User, People!ActivateCheck(r, u) PROVE PeopleInv'
  <2> DEFINE record == [People!Idle EXCEPT !.pc = "activate", !.u = u]
  <2>1. record \in People!RequestRecord /\ record.pc = "activate" /\ record.u = u
    BY DEF People!RequestRecord
  <2>2. People!Begin(r, record) /\ phone[u] = user[u].secret
    BY <1>3 DEF People!ActivateCheck
  <2> HIDE DEF record
  <2>3. /\ \A q \in {"only"} : areq'[q] = record
        /\ areq' \in [{"only"} -> People!RequestRecord] /\ UNCHANGED <<user, invite, phone>>
    BY <2>1, <2>2, BeginRows
  <2> QED
    BY <2>1, <2>2, <2>3 DEF People!TypeOK, FactorsStand
<1> QED
  BY <1>1, <1>2, <1>3

(* Registration's writes, whether the invite is stamped or not. *)
LEMMA RegisterInv ==
    ASSUME PeopleInv, NEW r \in {"only"},
           People!StampInvite(r) \/ People!StampFails(r) \/ \E u \in User : People!InsertUser(r, u)
    PROVE  PeopleInv'
<1> USE PeopleRows DEF PeopleInv
<1>1. ASSUME NEW u \in User, People!InsertUser(r, u) PROVE PeopleInv'
  <2> DEFINE row == [People!NoUser EXCEPT !.row = "live", !.role = areq[r].role]
             record == IF areq[r].i = None THEN People!Idle ELSE [areq[r] EXCEPT !.pc = "stamp"]
  <2>1. row \in People!UserRow /\ ~row.on
    BY DEF People!UserRow, People!NoUser
  <2>2. record \in People!RequestRecord /\ record.pc \in {"idle", "stamp"}
    BY DEF People!RequestRecord, People!Idle
  <2>3. user' = [user EXCEPT ![u] = row] /\ areq' = [areq EXCEPT ![r] = record]
        /\ UNCHANGED <<invite, phone>>
    BY <1>1 DEF People!InsertUser
  <2> HIDE DEF row, record
  <2>4. /\ areq' \in [{"only"} -> People!RequestRecord]
        /\ \A q \in {"only"} : areq'[q].pc \notin {"enroll", "activate"}
    BY <2>2, <2>3
  <2> QED
    BY <2>1, <2>3, <2>4, RowChangesInv DEF People!TypeOK
<1>2. CASE People!StampInvite(r) \/ People!StampFails(r)
  <2>1. /\ areq' \in [{"only"} -> People!RequestRecord] /\ \A q \in {"only"} : areq'[q].pc = "idle"
        /\ UNCHANGED <<user, phone>>
    BY <1>2, FinishRows DEF People!StampInvite, People!StampFails
  <2>2. \A i \in Invite : [invite[i] EXCEPT !.state = "consumed"] \in People!InviteRow
    BY DEF People!TypeOK, People!InviteRow
  <2>3. invite' \in [Invite -> People!InviteRow]
    BY <1>2, <2>2 DEF People!TypeOK, People!StampInvite, People!StampFails
  <2> QED
    BY <2>1, <2>3, RowsStayInv
<1> QED
  BY <1>1, <1>2

(* The handlers that change one user at once, while no request is in flight. *)
LEMMA OneUserInv ==
    ASSUME PeopleInv,
           \/ \E u \in User : People!LinkIdentity(u) \/ People!FederatedUser(u) \/ People!Disable(u)
           \/ \E a, u \in User : People!Suspend(a, u) \/ People!Reactivate(a, u) \/ \E role \in People!Role : People!SetRole(a, u, role)
    PROVE  PeopleInv'
<1> USE PeopleRows DEF PeopleInv
<1>1. /\ \A q \in {"only"} : areq[q].pc = "idle"
      /\ areq' \in [{"only"} -> People!RequestRecord] /\ areq' = areq
      /\ UNCHANGED <<invite, phone>> /\ invite \in [Invite -> People!InviteRow]
  BY DEF People!LinkIdentity, People!FederatedUser, People!Disable, People!Suspend,
     People!Reactivate, People!SetRole, People!Ready, People!TypeOK
<1>2. PICK u \in User, row \in People!UserRow :
        user' = [user EXCEPT ![u] = row] /\ (row.on => user[u].on /\ row.secret = user[u].secret)
  <2>1. ASSUME NEW u \in User, People!LinkIdentity(u)
        PROVE  \E row \in People!UserRow :
                 /\ user' = [user EXCEPT ![u] = row]
                 /\ row.on => user[u].on /\ row.secret = user[u].secret
    <3>1. [user[u] EXCEPT !.subject = TRUE] \in People!UserRow
      BY DEF People!UserRow
    <3> WITNESS [user[u] EXCEPT !.subject = TRUE] \in People!UserRow
    <3> QED
      BY <2>1 DEF People!LinkIdentity, People!UserRow
  <2>2. ASSUME NEW u \in User, People!FederatedUser(u)
        PROVE  \E row \in People!UserRow :
                 /\ user' = [user EXCEPT ![u] = row]
                 /\ row.on => user[u].on /\ row.secret = user[u].secret
    <3>1. [People!NoUser EXCEPT !.row = "live", !.subject = TRUE] \in People!UserRow
      BY DEF People!UserRow
    <3> WITNESS [People!NoUser EXCEPT !.row = "live", !.subject = TRUE] \in People!UserRow
    <3> QED
      BY <2>2 DEF People!FederatedUser, People!NoUser
  <2>3. ASSUME NEW u \in User, People!Disable(u)
        PROVE  \E row \in People!UserRow :
                 /\ user' = [user EXCEPT ![u] = row]
                 /\ row.on => user[u].on /\ row.secret = user[u].secret
    <3>1. [user[u] EXCEPT !.secret = None, !.on = FALSE] \in People!UserRow
      BY DEF People!UserRow
    <3> WITNESS [user[u] EXCEPT !.secret = None, !.on = FALSE] \in People!UserRow
    <3> QED
      BY <2>3 DEF People!Disable, People!UserRow
  <2>4. ASSUME NEW a \in User, NEW u \in User, People!Suspend(a, u) \/ People!Reactivate(a, u)
        PROVE  \E row \in People!UserRow :
                 /\ user' = [user EXCEPT ![u] = row]
                 /\ row.on => user[u].on /\ row.secret = user[u].secret
    <3>1. PICK st \in {"active", "suspended"} : user' = [user EXCEPT ![u].status = st]
      BY <2>4 DEF People!Suspend, People!Reactivate
    <3>2. [user[u] EXCEPT !.status = st] \in People!UserRow
      BY DEF People!UserRow
    <3> WITNESS [user[u] EXCEPT !.status = st] \in People!UserRow
    <3> QED
      BY <3>1 DEF People!UserRow
  <2>5. ASSUME NEW a \in User, NEW u \in User, NEW role \in People!Role, People!SetRole(a, u, role)
        PROVE  \E row \in People!UserRow :
                 /\ user' = [user EXCEPT ![u] = row]
                 /\ row.on => user[u].on /\ row.secret = user[u].secret
    <3>1. [user[u] EXCEPT !.role = role] \in People!UserRow
      BY DEF People!UserRow
    <3> WITNESS [user[u] EXCEPT !.role = role] \in People!UserRow
    <3> QED
      BY <2>5 DEF People!SetRole, People!UserRow
  <2> QED
    BY <2>1, <2>2, <2>3, <2>4, <2>5
<1>3. row.on => phone[u] = row.secret
  BY <1>2 DEF FactorsStand
<1> QED
  BY <1>1, <1>2, <1>3, RowChangesInv

LEMMA InviteInv ==
    ASSUME PeopleInv, NEW a \in User, NEW i \in Invite,
           People!RevokeInvite(a, i) \/ \E role \in People!Role : People!CreateInvite(a, i, role)
    PROVE  PeopleInv'
<1>1. invite \in [Invite -> People!InviteRow] /\ invite[i] \in People!InviteRow
  BY DEF PeopleInv, People!TypeOK
<1>2. [invite[i] EXCEPT !.state = "revoked"] \in People!InviteRow
  BY <1>1 DEF People!InviteRow
<1>3. \A role \in People!Role : [state |-> "open", role |-> role] \in People!InviteRow
  BY DEF People!InviteRow
<1>4. invite' \in [Invite -> People!InviteRow] /\ UNCHANGED <<user, phone, areq>>
  BY <1>1, <1>2, <1>3 DEF People!RevokeInvite, People!CreateInvite
<1> QED
  BY <1>4, RowsStayInv DEF PeopleInv, People!TypeOK

(* The writes of the second factor, and the scan of its code. *)
LEMMA FactorInv ==
    ASSUME PeopleInv,
           \/ \E r \in {"only"} : People!EnrollWrite(r) \/ People!ActivateWrite(r)
           \/ \E u \in User : People!ScanCode(u)
    PROVE  PeopleInv'
<1> USE PeopleRows DEF PeopleInv
<1>1. ASSUME NEW r \in {"only"}, People!EnrollWrite(r) PROVE PeopleInv'
  <2> DEFINE u == areq[r].u
             row == [user[u] EXCEPT !.secret = areq[r].secret, !.on = FALSE]
  <2>1. /\ u \in User /\ user' = [user EXCEPT ![u].secret = areq[r].secret, ![u].on = FALSE]
        /\ People!Finish(r) /\ UNCHANGED <<invite, phone>>
    BY <1>1 DEF People!EnrollWrite, FactorsStand
  <2>2. row \in People!UserRow /\ ~row.on
    BY <2>1 DEF People!UserRow
  <2>3. user' = [user EXCEPT ![u] = row]
    BY <2>1
  <2>4. /\ areq' \in [{"only"} -> People!RequestRecord] /\ \A q \in {"only"} : areq'[q].pc = "idle"
    BY <2>1, FinishRows
  <2> HIDE DEF row, u
  <2> QED
    BY <2>1, <2>2, <2>3, <2>4, RowChangesInv DEF People!TypeOK
<1>2. ASSUME NEW r \in {"only"}, People!ActivateWrite(r) PROVE PeopleInv'
  <2> DEFINE u == areq[r].u
             row == [user[u] EXCEPT !.on = TRUE]
  <2> HIDE DEF u
  <2>1. /\ u \in User /\ phone[u] = user[u].secret /\ People!Finish(r) /\ UNCHANGED <<invite, phone>>
        /\ user' = user \/ user' = [user EXCEPT ![u].on = TRUE]
    BY <1>2 DEF People!ActivateWrite, FactorsStand, u
  <2>2. row \in People!UserRow /\ row.secret = user[u].secret
    <3>1. user[u] \in People!UserRow
      BY <2>1
    <3> QED
      BY <3>1 DEF People!UserRow
  <2>3. user' = user \/ user' = [user EXCEPT ![u] = row]
    BY <2>1
  <2>4. /\ areq' \in [{"only"} -> People!RequestRecord] /\ \A q \in {"only"} : areq'[q].pc = "idle"
    BY <2>1, FinishRows
  <2> HIDE DEF row
  <2>5. CASE user' = user
    BY <2>1, <2>4, <2>5, RowsStayInv DEF People!TypeOK
  <2>6. CASE user' = [user EXCEPT ![u] = row]
    BY <2>1, <2>2, <2>4, <2>6, RowChangesInv DEF People!TypeOK
  <2> QED
    BY <2>3, <2>5, <2>6
<1>3. ASSUME NEW u \in User, People!ScanCode(u) PROVE PeopleInv'
  <2>1. /\ \A q \in {"only"} : areq[q].pc = "idle"
        /\ phone' = [phone EXCEPT ![u] = user[u].secret] /\ ~user[u].on
        /\ UNCHANGED <<user, invite, areq>>
    BY <1>3 DEF People!ScanCode, People!Ready
  <2>2. People!TypeOK'
    BY <2>1 DEF People!TypeOK
  <2>3. FactorsStand'
    BY <2>1 DEF People!TypeOK, FactorsStand
  <2> QED
    BY <2>2, <2>3
<1> QED
  BY <1>1, <1>2, <1>3

LEMMA PeopleNextInv == ASSUME PeopleInv, [People!Next]_(People!vars) PROVE PeopleInv'
<1>1. CASE UNCHANGED People!vars
  BY <1>1, RowsStayInv DEF People!vars, PeopleInv, People!TypeOK
<1> QED
  BY <1>1, AccountBeginInv, RegisterInv, OneUserInv, InviteInv, FactorInv DEF People!Next
(* An admin who can act stays, or the one who acts is one. *)
LEMMA AdminStep ==
    ASSUME PeopleInv, [People!Next]_(People!vars), NEW a \in User, People!ActingAdmin(a)
    PROVE  \E b \in User : People!ActingAdmin(b)'
<1> USE PeopleRows DEF PeopleInv
<1>1. ASSUME NEW r \in {"only"}, NEW u \in User, People!InsertUser(r, u) PROVE People!ActingAdmin(a)'
  BY <1>1 DEF People!InsertUser, People!Fresh, People!ActingAdmin, People!Live
<1>2. ASSUME NEW u \in User, People!LinkIdentity(u) \/ People!FederatedUser(u) \/ People!ScanCode(u) \/ People!Disable(u)
      PROVE  People!ActingAdmin(a)'
  BY <1>2 DEF People!LinkIdentity, People!FederatedUser, People!ScanCode, People!Disable,
     People!Fresh, People!ActingAdmin, People!Live, People!UserRow
<1>3. ASSUME NEW b \in User, NEW u \in User, People!Suspend(b, u) PROVE People!ActingAdmin(b)'
  BY <1>3 DEF People!Suspend, People!NotYourself, People!ActingAdmin, People!Live
<1>4. ASSUME NEW b \in User, NEW u \in User, People!Reactivate(b, u) PROVE People!ActingAdmin(a)'
  BY <1>4 DEF People!Reactivate, People!ActingAdmin, People!Live, People!UserRow
<1>5. ASSUME NEW b \in User, NEW u \in User, NEW role \in People!Role, People!SetRole(b, u, role)
      PROVE  People!ActingAdmin(b)'
  BY <1>5 DEF People!SetRole, People!NotYourself, People!ActingAdmin, People!Live, People!UserRow
<1>6. ASSUME NEW r \in {"only"}, People!EnrollWrite(r) PROVE People!ActingAdmin(a)'
  BY <1>6 DEF People!EnrollWrite, FactorsStand, People!ActingAdmin, People!Live, People!UserRow
<1>7. ASSUME NEW r \in {"only"}, People!ActivateWrite(r) PROVE People!ActingAdmin(a)'
  BY <1>7 DEF People!ActivateWrite, FactorsStand, People!ActingAdmin, People!Live, People!UserRow
<1>8. ASSUME NEW r \in {"only"},
             \/ People!RegisterFirst(r) \/ People!RegisterOpen(r) \/ People!StampInvite(r) \/ People!StampFails(r)
             \/ \E i \in Invite : People!RegisterInvited(r, i)
             \/ \E u \in User : People!ActivateCheck(r, u) \/ \E secret \in Secret : People!EnrollCheck(r, u, secret)
      PROVE  user' = user
  BY <1>8 DEF People!RegisterFirst, People!RegisterOpen, People!StampInvite, People!StampFails,
     People!RegisterInvited, People!ActivateCheck, People!EnrollCheck, People!Begin
<1>9. ASSUME NEW b \in User, NEW i \in Invite,
             People!RevokeInvite(b, i) \/ \E role \in People!Role : People!CreateInvite(b, i, role)
      PROVE  user' = user
  BY <1>9 DEF People!RevokeInvite, People!CreateInvite
<1>10. CASE UNCHANGED People!vars
  BY <1>10 DEF People!vars, People!ActingAdmin, People!Live
<1>11. user' = user => People!ActingAdmin(a)'
  BY DEF People!ActingAdmin, People!Live
<1> QED
  BY <1>1, <1>2, <1>3, <1>4, <1>5, <1>6, <1>7, <1>8, <1>9, <1>10, <1>11 DEF People!Next

LEMMA ShutOutStep ==
    ASSUME PeopleInv, [People!Next]_(People!vars)
    PROVE  /\ People!SomeAdmin => People!SomeAdmin'
           /\ \A u \in User : user'[u].on => phone'[u] = user'[u].secret
<1>1. People!SomeAdmin => People!SomeAdmin'
  BY AdminStep DEF People!SomeAdmin
<1>2. PeopleInv'
  BY PeopleNextInv
<1> QED
  BY <1>1, <1>2 DEF PeopleInv, FactorsStand
LEMMA PeopleKeep == OfficeSpec => []PeopleInv
<1>1. OfficeInit => PeopleInv
  BY PeopleInitInv, PeopleSteps
<1>2. PeopleInv /\ [OfficeNext]_officeVars => PeopleInv'
  BY PeopleNextInv, PeopleSteps
<1> QED
  BY <1>1, <1>2, PTL DEF OfficeSpec

(* Type correctness of the users, the invites and the handlers in flight (routes/auth.rs,
   routes/admin_panel.rs, routes/two_factor.rs). *)
THEOREM PeopleTyped == OfficeSpec => []People!TypeOK
<1>1. PeopleInv => People!TypeOK
  BY DEF PeopleInv
<1> QED
  BY <1>1, PeopleKeep, PTL

(* Once a server has an admin who can act it always has one, and a second factor that is on
   asks for the codes of the authenticator its user holds, whatever legal calls come one
   after the other (admin_panel.rs, two_factor.rs). *)
THEOREM NobodyShutOut == OfficeSpec => NobodyIsShutOut
<1>1. PeopleInv /\ [OfficeNext]_officeVars =>
        [/\ People!SomeAdmin => People!SomeAdmin'
         /\ \A u \in User : user'[u].on => phone'[u] = user'[u].secret]_(People!vars)
  BY PeopleSteps, ShutOutStep
<1> QED
  BY <1>1, PeopleKeep, PTL DEF OfficeSpec, NobodyIsShutOut, People!NobodyIsShutOut

----------------------------------------------------------------------------
(* Sprints, one request at a time: the invariant is SprintLifecycleProofs'. *)

SprintFacts == INSTANCE SprintLifecycleProofs
    WITH Task <- Work, Request <- {"only"},
         Handlers <- {"start", "velocity", "delete_tasks", "assign", "insert", "edit"},
         sprint <- cycle, task <- planned, req <- sprintReq

(* The ids of sprints and tasks, no value and the backlog are apart. *)
SprintsApart ==
    /\ Subtask \subseteq Work
    /\ Backlog \notin Sprint /\ None \notin Sprint /\ None \notin {"only"}
    /\ Backlog # None
    /\ \A T \in SUBSET Work : T # None

LEMMA SameWrites ==
    /\ \A r : Sprints!StartUpdate(r) <=> SprintFacts!StartUpdate(r)
    /\ \A r : Sprints!EditUpdate(r) <=> SprintFacts!EditUpdate(r)
    /\ \A r : Sprints!AssignUpdate(r) <=> SprintFacts!AssignUpdate(r)
    /\ \A r : Sprints!CreateTaskInsert(r) <=> SprintFacts!CreateTaskInsert(r)
    /\ \A r : Sprints!DeleteCommit(r) <=> SprintFacts!DeleteCommit(r)
    /\ \A r : Sprints!CompleteCommit(r) <=> SprintFacts!CompleteCommit(r)
    /\ \A r : Sprints!Abort(r) <=> SprintFacts!Abort(r)
<1>1. \A r : Sprints!StartUpdate(r) <=> SprintFacts!StartUpdate(r)
  BY DEF Sprints!StartUpdate, SprintFacts!StartUpdate, Sprints!SprintLocked,
     SprintFacts!SprintLocked, Sprints!ActiveConflict, SprintFacts!ActiveConflict, Sprints!Live,
     SprintFacts!Live, Sprints!Finish, SprintFacts!Finish, Sprints!Continue, SprintFacts!Continue,
     Sprints!Idle, SprintFacts!Idle, Sprints!NoSnapshot, SprintFacts!NoSnapshot
<1>2. \A r : Sprints!EditUpdate(r) <=> SprintFacts!EditUpdate(r)
  BY DEF Sprints!EditUpdate, SprintFacts!EditUpdate, Sprints!SprintLocked, SprintFacts!SprintLocked,
     Sprints!Finish, SprintFacts!Finish, Sprints!Continue, SprintFacts!Continue, Sprints!Idle,
     SprintFacts!Idle, Sprints!NoSnapshot, SprintFacts!NoSnapshot
<1>3. \A r : Sprints!AssignUpdate(r) <=> SprintFacts!AssignUpdate(r)
  BY DEF Sprints!AssignUpdate, SprintFacts!AssignUpdate, Sprints!LiveTask, SprintFacts!LiveTask,
     Sprints!Free, SprintFacts!Free, Sprints!TaskLocked, SprintFacts!TaskLocked, Sprints!Finish,
     SprintFacts!Finish, Sprints!Continue, SprintFacts!Continue, Sprints!Idle, SprintFacts!Idle,
     Sprints!NoSnapshot, SprintFacts!NoSnapshot
<1>4. \A r : Sprints!CreateTaskInsert(r) <=> SprintFacts!CreateTaskInsert(r)
  BY DEF Sprints!CreateTaskInsert, SprintFacts!CreateTaskInsert, Sprints!Status, SprintFacts!Status,
     Sprints!Finish, SprintFacts!Finish, Sprints!Continue, SprintFacts!Continue, Sprints!Idle,
     SprintFacts!Idle, Sprints!NoSnapshot, SprintFacts!NoSnapshot
<1>5. \A r : Sprints!DeleteCommit(r) <=> SprintFacts!DeleteCommit(r)
  BY DEF Sprints!DeleteCommit, SprintFacts!DeleteCommit, Sprints!SprintLocked,
     SprintFacts!SprintLocked, Sprints!Finish, SprintFacts!Finish, Sprints!Continue,
     SprintFacts!Continue, Sprints!Idle, SprintFacts!Idle, Sprints!NoSnapshot,
     SprintFacts!NoSnapshot
<1>6. \A r : Sprints!CompleteCommit(r) <=> SprintFacts!CompleteCommit(r)
  BY DEF Sprints!CompleteCommit, SprintFacts!CompleteCommit, Sprints!Completed,
     SprintFacts!Completed, Sprints!Opened, SprintFacts!Opened, Sprints!Merge, SprintFacts!Merge,
     Sprints!Finish, SprintFacts!Finish, Sprints!Continue, SprintFacts!Continue, Sprints!Idle,
     SprintFacts!Idle, Sprints!NoSnapshot, SprintFacts!NoSnapshot
<1>7. \A r : Sprints!Abort(r) <=> SprintFacts!Abort(r)
  BY DEF Sprints!Abort, SprintFacts!Abort, Sprints!Finish, SprintFacts!Finish, Sprints!Continue,
     SprintFacts!Continue, Sprints!Idle, SprintFacts!Idle, Sprints!NoSnapshot,
     SprintFacts!NoSnapshot
<1> QED
  BY <1>1, <1>2, <1>3, <1>4, <1>5, <1>6, <1>7

LEMMA SameReads ==
    /\ \A r : Sprints!CompleteVelocity(r) <=> SprintFacts!CompleteVelocity(r)
    /\ \A r : Sprints!CompleteUpdate(r) <=> SprintFacts!CompleteUpdate(r)
    /\ \A r, target : Sprints!CompleteTarget(r, target) <=> SprintFacts!CompleteTarget(r, target)
    /\ \A r : Sprints!CompleteCarry(r) <=> SprintFacts!CompleteCarry(r)
    /\ \A r : Sprints!DeleteTasks(r) <=> SprintFacts!DeleteTasks(r)
    /\ \A r : Sprints!Accept(r) <=> SprintFacts!Accept(r)
<1>1. \A r : Sprints!CompleteVelocity(r) <=> SprintFacts!CompleteVelocity(r)
  BY DEF Sprints!CompleteVelocity, SprintFacts!CompleteVelocity, Sprints!Counted,
     SprintFacts!Counted, Sprints!TasksOf, SprintFacts!TasksOf, Sprints!LiveTask,
     SprintFacts!LiveTask, Sprints!Continue, SprintFacts!Continue
<1>2. \A r : Sprints!CompleteUpdate(r) <=> SprintFacts!CompleteUpdate(r)
  BY DEF Sprints!CompleteUpdate, SprintFacts!CompleteUpdate, Sprints!SprintLocked,
     SprintFacts!SprintLocked, Sprints!SnapshotRows, SprintFacts!SnapshotRows, Sprints!TasksOf,
     SprintFacts!TasksOf, Sprints!LiveTask, SprintFacts!LiveTask, Sprints!Continue,
     SprintFacts!Continue
<1>3. \A r, target : Sprints!CompleteTarget(r, target) <=> SprintFacts!CompleteTarget(r, target)
  BY DEF Sprints!CompleteTarget, SprintFacts!CompleteTarget, Sprints!OpenTarget,
     SprintFacts!OpenTarget, Sprints!Live, SprintFacts!Live, Sprints!FreshSprint,
     SprintFacts!FreshSprint, Sprints!Continue, SprintFacts!Continue
<1>4. \A r : Sprints!CompleteCarry(r) <=> SprintFacts!CompleteCarry(r)
  BY DEF Sprints!CompleteCarry, SprintFacts!CompleteCarry, Sprints!Unfinished,
     SprintFacts!Unfinished, Sprints!TasksOf, SprintFacts!TasksOf, Sprints!LiveTask,
     SprintFacts!LiveTask, Sprints!Free, SprintFacts!Free, Sprints!TaskLocked,
     SprintFacts!TaskLocked, Sprints!Continue, SprintFacts!Continue
<1>5. \A r : Sprints!DeleteTasks(r) <=> SprintFacts!DeleteTasks(r)
  BY DEF Sprints!DeleteTasks, SprintFacts!DeleteTasks, Sprints!TasksOf, SprintFacts!TasksOf,
     Sprints!Free, SprintFacts!Free, Sprints!TaskLocked, SprintFacts!TaskLocked, Sprints!Continue,
     SprintFacts!Continue
<1>6. \A r : Sprints!Accept(r) <=> SprintFacts!Accept(r)
  BY DEF Sprints!Accept, SprintFacts!Accept, Sprints!StartRead, SprintFacts!StartRead,
     Sprints!CompleteRead, SprintFacts!CompleteRead, Sprints!DeleteRead, SprintFacts!DeleteRead,
     Sprints!EditRead, SprintFacts!EditRead, Sprints!Editable, SprintFacts!Editable,
     Sprints!CreateTaskRead, SprintFacts!CreateTaskRead, Sprints!AssignRead, SprintFacts!AssignRead,
     Sprints!FreshTask, SprintFacts!FreshTask, Sprints!Begin, SprintFacts!Begin, Sprints!Continue,
     SprintFacts!Continue, Sprints!Idle, SprintFacts!Idle, Sprints!NoSnapshot,
     SprintFacts!NoSnapshot, Sprints!Live, SprintFacts!Live, Sprints!NextState,
     SprintFacts!NextState
<1> QED
  BY <1>1, <1>2, <1>3, <1>4, <1>5, <1>6

LEMMA SameSprints ==
    /\ Sprints!Init <=> SprintFacts!Init
    /\ Sprints!SerialNext <=> SprintFacts!SerialNext
    /\ sprintVars = SprintFacts!vars /\ sprintVars = Sprints!vars
<1>1. Sprints!Init <=> SprintFacts!Init
  BY DEF Sprints!Init, SprintFacts!Init, Sprints!NoSnapshot, SprintFacts!NoSnapshot, Sprints!Idle,
     SprintFacts!Idle
<1>2. sprintVars = SprintFacts!vars /\ sprintVars = Sprints!vars
  BY DEF sprintVars, SprintFacts!vars, Sprints!vars
<1>3. \A r : Sprints!Step(r) <=> SprintFacts!Step(r)
  BY SameWrites, SameReads DEF Sprints!Step, SprintFacts!Step, Sprints!Target, SprintFacts!Target
<1>4. Sprints!Direct <=> SprintFacts!Direct
  BY DEF Sprints!Direct, SprintFacts!Direct, Sprints!CreateSprint, SprintFacts!CreateSprint,
     Sprints!FreshSprint, SprintFacts!FreshSprint, Sprints!CreateTask, SprintFacts!CreateTask,
     Sprints!FreshTask, SprintFacts!FreshTask, Sprints!MoveTask, SprintFacts!MoveTask,
     Sprints!LiveTask, SprintFacts!LiveTask, Sprints!DeleteTask, SprintFacts!DeleteTask,
     Sprints!RestoreTask, SprintFacts!RestoreTask, Sprints!Unschedule, SprintFacts!Unschedule,
     Sprints!WriteTask, SprintFacts!WriteTask, Sprints!TaskLocked, SprintFacts!TaskLocked,
     Sprints!Status, SprintFacts!Status
<1>5. Sprints!Quiet <=> SprintFacts!Quiet
  BY DEF Sprints!Quiet, SprintFacts!Quiet
<1>6. Sprints!SerialNext <=> SprintFacts!SerialNext
  BY <1>3, <1>4, <1>5, SameWrites, SameReads DEF Sprints!SerialNext, SprintFacts!SerialNext
<1> QED
  BY <1>1, <1>2, <1>6

LEMMA SprintSteps ==
    /\ OfficeInit => SprintFacts!Init
    /\ [OfficeNext]_officeVars => [SprintFacts!SerialNext]_(SprintFacts!vars)
<1>1. OfficeInit => SprintFacts!Init
  BY SameSprints DEF OfficeInit
<1>2. OfficeNext => IF part = "sprints" THEN Sprints!SerialNext ELSE UNCHANGED sprintVars
  BY DEF OfficeNext
<1>3. UNCHANGED officeVars => UNCHANGED sprintVars
  BY DEF officeVars
<1>4. UNCHANGED sprintVars => UNCHANGED SprintFacts!vars
  BY DEF sprintVars, SprintFacts!vars
<1> QED
  BY <1>1, <1>2, <1>3, <1>4, SameSprints

LEMMA SprintsKeep == ASSUME SprintsApart PROVE OfficeSpec => []SprintFacts!SerialInv
<1>1. SprintFacts!ConstantsAssumption
  BY DEF SprintsApart, SprintFacts!ConstantsAssumption
<1>2. OfficeInit => SprintFacts!SerialInv
  BY <1>1, SprintFacts!SerialInitInv, SprintSteps
<1>3. SprintFacts!SerialInv /\ [OfficeNext]_officeVars => SprintFacts!SerialInv'
  BY <1>1, SprintFacts!SerialNextInv, SprintSteps
<1> QED
  BY <1>2, <1>3, PTL DEF OfficeSpec

(* One request at a time, deleting a sprint loses no work, and the velocity of a completed
   sprint counts exactly what its snapshot froze as done (delete_sprint and complete in
   routes/sprints.rs). *)
THEOREM WorkKept == ASSUME SprintsApart PROVE OfficeSpec => []WorkIsKept
<1>1. SprintFacts!SerialInv => Sprints!NoWorkLost
  BY DEF SprintFacts!SerialInv, SprintFacts!WorkPlaced, Sprints!NoWorkLost, Sprints!Live,
     SprintFacts!Live
<1>2. SprintFacts!SerialInv => Sprints!SnapshotMatchesVelocity
  BY DEF SprintFacts!SerialInv, SprintFacts!SnapshotMatchesVelocity, Sprints!SnapshotMatchesVelocity
<1>3. SprintFacts!SerialInv => WorkIsKept
  BY <1>1, <1>2 DEF WorkIsKept
<1> QED
  BY <1>3, SprintsKeep, PTL

(* One request at a time, a completed sprint stays so, with the name, goal, dates and
   velocity it had, and an active one never goes back (domain/sprints.rs). *)
THEOREM ClosedSprintsStay == ASSUME SprintsApart PROVE OfficeSpec => ClosedSprintStays
<1>1. SprintFacts!ConstantsAssumption
  BY DEF SprintsApart, SprintFacts!ConstantsAssumption
<1>2. SprintFacts!SerialInv /\ [OfficeNext]_officeVars =>
        [\A s \in Sprint :
           /\ cycle[s].state = "completed" => cycle'[s].state = "completed"
           /\ cycle[s].state = "active" => cycle'[s].state # "planned"]_(Sprints!vars)
  BY <1>1, SprintSteps, SprintFacts!SprintStep
<1>3. SprintFacts!SerialInv /\ [OfficeNext]_officeVars =>
        [\A s \in Sprint :
           cycle[s].velocity # None => cycle'[s].velocity = cycle[s].velocity]_(Sprints!vars)
  BY <1>1, SprintSteps, SprintFacts!SprintStep
<1>4. SprintFacts!SerialInv /\ [OfficeNext]_officeVars =>
        [\A s \in Sprint :
           cycle[s].state = "completed" => cycle'[s].edited = cycle[s].edited]_(Sprints!vars)
  BY <1>1, SprintSteps, SprintFacts!SprintStep
<1> QED
  BY <1>2, <1>3, <1>4, SprintsKeep, PTL
     DEF OfficeSpec, ClosedSprintStays, Sprints!NoGoingBack, Sprints!VelocityDoesNotDrift,
         Sprints!CompletedIsFrozen

(* One request at a time, a task that a completion takes out of its sprint is in the
   sprint's snapshot, and lands in a sprint that is open (complete in routes/sprints.rs). *)
THEOREM CarriedWorkKept == ASSUME SprintsApart PROVE OfficeSpec => CarriedWorkIsKept
<1>1. SprintFacts!ConstantsAssumption
  BY DEF SprintsApart, SprintFacts!ConstantsAssumption
<1>2. \A r : Sprints!CompleteCommit(r) => SprintFacts!CompleteCommit(r)
  BY SameWrites
<1>3. SprintFacts!SerialInv /\ [OfficeNext]_officeVars =>
        [\A r \in {"only"} : \A t \in Work :
           Sprints!CompleteCommit(r) /\ planned'[t].sprint # planned[t].sprint =>
             snap'[sprintReq[r].s][t] # "absent"]_(Sprints!vars)
  BY <1>1, <1>2, SprintFacts!CarryStep
<1>4. SprintFacts!SerialInv /\ [OfficeNext]_officeVars =>
        [\A r \in {"only"} : \A t \in Work :
           Sprints!CompleteCommit(r) /\ planned'[t].sprint # planned[t].sprint
           /\ planned'[t].sprint # Backlog =>
             cycle'[planned'[t].sprint].state # "completed"]_(Sprints!vars)
  BY <1>1, <1>2, SprintFacts!CarryStep
<1> QED
  BY <1>3, <1>4, SprintsKeep, PTL
     DEF OfficeSpec, CarriedWorkIsKept, Sprints!CarriedWorkIsInSnapshot, Sprints!CarriedWorkLandsOpen

----------------------------------------------------------------------------
(* Imports: a transaction keeps what it wrote apart from the tables until it  *)
(* commits, and what it rests on there stays, by the locks it holds.       *)

LEMMA ImportSteps ==
    /\ OfficeInit => Jira!Init
    /\ [OfficeNext]_officeVars => [Jira!Next]_(Jira!vars)
<1>1. OfficeInit => Jira!Init
  BY DEF OfficeInit
<1>2. OfficeNext => IF part = "import" THEN Jira!Next ELSE UNCHANGED importVars
  BY DEF OfficeNext
<1>3. UNCHANGED officeVars => UNCHANGED importVars
  BY DEF officeVars
<1>4. UNCHANGED importVars => UNCHANGED Jira!vars
  BY DEF importVars, Jira!vars
<1> QED
  BY <1>1, <1>2, <1>3, <1>4

(* None is no row, no number of one and no part of a plan. *)
ImportApart == None \notin Jira!TaskRow \cup Jira!Id \cup Jira!State

(* What an export names. *)
Issues == UNION {Jira!Issue(plan) : plan \in Plans}

RowsOf == UNION {[D -> Jira!TaskRow] : D \in SUBSET Jira!Id}

TxnRecord ==
    [pc: {"idle", "select", "write"}, plan: Plans \cup {None}, left: SUBSET Issues,
     at: Issues \cup {None}, found: Jira!Id \cup {None}, rows: RowsOf, logs: SUBSET Jira!Id,
     sprint: Jira!State \cup {None}, person: {"matched", "provisioned", "unmatched", None}]

ImportTypes ==
    /\ task \in [Jira!Id -> Jira!TaskRow \cup {None}] /\ logs \in [Jira!Id -> 0 .. 1]
    /\ sprint \in [Jira!State -> Nat] /\ sprint["active"] <= 1
    /\ txn \in [Request -> TxnRecord]

(* A row under a parent: that task is there, and is the one a plan names. *)
ParentStands(row) ==
    row.parent # None =>
        /\ task[row.parent] # None
        /\ \E plan \in Plans : task[row.parent].issue = Jira!ParentOf(plan, row.issue)

TasksStand == \A t \in Jira!Id : task[t] # None => task[t].comments = 1 /\ ParentStands(task[t])

OneLiveTask == \A t, u \in Jira!Id : Jira!Live(t) /\ Jira!Live(u) /\ task[t].issue = task[u].issue => t = u

(* What a transaction has written: new versions of tasks that are as they were when it
   locked them, or tasks of issues that have none. *)
RowStands(row, t) ==
    /\ task[t] # None => row.issue = task[t].issue /\ row.live = task[t].live
    /\ task[t] = None => Jira!Existing(row.issue) = {}
    /\ row.comments = 1 /\ ParentStands(row)

(* Every issue of the plan has its row, is at hand or is left, and no two rows share one. *)
TxnStands(x) ==
    /\ \A t \in DOMAIN x.rows : /\ RowStands(x.rows[t], t) /\ x.rows[t].issue \notin x.left
                                /\ x.pc = "write" => x.rows[t].issue # x.at
    /\ \A t, u \in DOMAIN x.rows : x.rows[t].issue = x.rows[u].issue => t = u
    /\ \A t \in x.logs : t \in DOMAIN x.rows /\ logs[t] = 0
    /\ x.pc # "idle" =>
         /\ x.plan \in Plans
         /\ \A i \in Jira!Issue(x.plan) : \/ i \in x.left
                                          \/ x.pc = "write" /\ i = x.at
                                          \/ \E t \in DOMAIN x.rows : x.rows[t].issue = i
    /\ x.pc = "write" =>
         /\ x.at \in Issues /\ x.at \notin x.left
         /\ x.found # None => task[x.found] # None /\ task[x.found].issue = x.at

(* The locks: a task is in one transaction, and one transaction mints. *)
LocksHold ==
    \A r, q \in Request : \A t \in DOMAIN txn[r].rows, u \in DOMAIN txn[q].rows :
        (t = u \/ (task[t] = None /\ task[u] = None)) => r = q

ImportInv ==
    /\ ImportTypes /\ TasksStand /\ OneLiveTask /\ LocksHold
    /\ \A r \in Request : TxnStands(txn[r])

LEMMA ImportRows ==
    ASSUME ImportApart, ImportInv
    PROVE  /\ task \in [Jira!Id -> Jira!TaskRow \cup {None}] /\ logs \in [Jira!Id -> 0 .. 1]
           /\ txn \in [Request -> TxnRecord]
           /\ \A t \in Jira!Id : task[t] # None =>
                /\ task[t] \in Jira!TaskRow /\ task[t].issue \in Issues /\ task[t].live \in BOOLEAN
                /\ task[t].parent \in Jira!Id \cup {None}
           /\ \A r \in Request :
                /\ txn[r] \in TxnRecord /\ TxnStands(txn[r])
                /\ txn[r].left \in SUBSET Issues /\ txn[r].logs \in SUBSET Jira!Id
                /\ txn[r].found \in Jira!Id \cup {None} /\ txn[r].sprint \in Jira!State \cup {None}
                /\ DOMAIN txn[r].rows \subseteq Jira!Id
                /\ \A t \in DOMAIN txn[r].rows :
                     /\ txn[r].rows[t] \in Jira!TaskRow /\ txn[r].rows[t].live \in BOOLEAN
                     /\ txn[r].rows[t].issue \in Issues /\ txn[r].rows[t].parent \in Jira!Id \cup {None}
<1>1. /\ task \in [Jira!Id -> Jira!TaskRow \cup {None}] /\ logs \in [Jira!Id -> 0 .. 1]
      /\ txn \in [Request -> TxnRecord]
  BY DEF ImportInv, ImportTypes
<1>2. \A row \in Jira!TaskRow : /\ row.issue \in Issues /\ row.live \in BOOLEAN
                                /\ row.parent \in Jira!Id \cup {None}
  BY DEF Jira!TaskRow, Issues
<1>3. ASSUME NEW r \in Request
      PROVE  /\ txn[r] \in TxnRecord /\ TxnStands(txn[r])
             /\ txn[r].left \in SUBSET Issues /\ txn[r].logs \in SUBSET Jira!Id
             /\ txn[r].found \in Jira!Id \cup {None} /\ txn[r].sprint \in Jira!State \cup {None}
             /\ txn[r].rows \in RowsOf
  BY <1>1 DEF ImportInv, TxnRecord
<1>4. \A rows \in RowsOf : DOMAIN rows \subseteq Jira!Id /\ \A t \in DOMAIN rows : rows[t] \in Jira!TaskRow
  BY DEF RowsOf
<1> QED
  BY <1>1, <1>2, <1>3, <1>4

(* The empty transaction. *)
LEMMA NoTxnStands ==
    /\ Jira!NoTxn \in TxnRecord /\ TxnStands(Jira!NoTxn)
    /\ Jira!NoTxn.pc = "idle" /\ Jira!NoTxn.left = {} /\ Jira!NoTxn.logs = {} /\ DOMAIN Jira!NoTxn.rows = {}
    /\ Jira!NoTxn.rows \in RowsOf
<1>1. DOMAIN <<>> = {} /\ <<>> \in [{} -> Jira!TaskRow]
  OBVIOUS
<1>2. <<>> \in RowsOf
  BY <1>1 DEF RowsOf
<1>3. Jira!NoTxn \in TxnRecord
  BY <1>2 DEF Jira!NoTxn, TxnRecord
<1>4. /\ Jira!NoTxn.pc = "idle" /\ Jira!NoTxn.left = {} /\ Jira!NoTxn.logs = {} /\ Jira!NoTxn.rows = <<>>
  BY DEF Jira!NoTxn
<1>5. TxnStands(Jira!NoTxn)
  BY <1>1, <1>4 DEF TxnStands
<1> QED
  BY <1>1, <1>2, <1>3, <1>4, <1>5

LEMMA ImportInitInv == ASSUME ImportApart PROVE Jira!Init => ImportInv
<1> SUFFICES ASSUME Jira!Init PROVE ImportInv
  OBVIOUS
<1>1. /\ task = [t \in Jira!Id |-> None] /\ logs = [t \in Jira!Id |-> 0]
      /\ sprint = [s \in Jira!State |-> 0] /\ txn = [r \in Request |-> Jira!NoTxn]
  BY DEF Jira!Init
<1>2. ImportTypes
  BY <1>1, NoTxnStands DEF ImportTypes, Jira!State
<1>3. TasksStand /\ OneLiveTask
  BY <1>1 DEF TasksStand, OneLiveTask, Jira!Live
<1>4. LocksHold /\ \A r \in Request : TxnStands(txn[r])
  BY <1>1, NoTxnStands DEF LocksHold
<1> QED
  BY <1>2, <1>3, <1>4 DEF ImportInv

(* A statement of one transaction, which no table shows yet. *)
LEMMA TxnStep ==
    ASSUME ImportInv, NEW r \in Request, NEW x \in TxnRecord, txn' = [txn EXCEPT ![r] = x],
           UNCHANGED <<task, logs, sprint>>, TxnStands(x),
           \A t \in DOMAIN x.rows :
             \/ t \in DOMAIN txn[r].rows
             \/ /\ \A q \in Request : t \notin DOMAIN txn[q].rows
                /\ task[t] = None => \A q \in Request \ {r} : \A u \in DOMAIN txn[q].rows : task[u] # None
    PROVE  ImportInv'
<1>1. \A q \in Request : txn'[q] = IF q = r THEN x ELSE txn[q]
  BY DEF ImportInv, ImportTypes
<1>2. ImportTypes'
  BY DEF ImportInv, ImportTypes
<1>3. TasksStand' /\ OneLiveTask'
  BY DEF ImportInv, TasksStand, OneLiveTask, Jira!Live, ParentStands
<1>4. LocksHold'
  BY <1>1 DEF ImportInv, LocksHold
<1>5. ASSUME NEW q \in Request PROVE TxnStands(txn[q])'
  <2> DEFINE y == IF q = r THEN x ELSE txn[q]
  <2>1. txn'[q] = y /\ TxnStands(y)
    BY <1>1 DEF ImportInv
  <2> HIDE DEF y
  <2> QED
    BY <2>1 DEF TxnStands, RowStands, ParentStands, Jira!Existing, Jira!Live
<1> QED
  BY <1>2, <1>3, <1>4, <1>5 DEF ImportInv

LEMMA RollbackInv ==
    ASSUME ImportInv, NEW r \in Request, Jira!Rollback(r), UNCHANGED <<task, logs, sprint>>
    PROVE  ImportInv'
  BY NoTxnStands, TxnStep DEF Jira!Rollback

LEMMA BeginImportInv ==
    ASSUME ImportApart, ImportInv, NEW r \in Request, NEW plan \in Plans, NEW create \in BOOLEAN,
           Jira!Begin(r, plan, create)
    PROVE  ImportInv'
<1> DEFINE there == \E s \in Jira!State : sprint[s] > 0
           st == Jira!SprintState(plan, sprint["active"] > 0)
           x == [Jira!NoTxn EXCEPT !.pc = "select", !.plan = plan, !.left = Jira!Issue(plan),
                                   !.person = Jira!Person(create), !.sprint = IF there THEN None ELSE st]
<1>1. txn' = [txn EXCEPT ![r] = x] /\ UNCHANGED <<task, logs, sprint>>
  BY DEF Jira!Begin
<1>2. st \in Jira!State /\ Jira!Person(create) \in {"matched", "provisioned", "unmatched"}
  BY DEF Jira!SprintState, Jira!State, Jira!Person
<1>3. Jira!Issue(plan) \in SUBSET Issues
  BY DEF Issues
<1> HIDE DEF there, st
<1>4. x \in TxnRecord
  BY <1>2, <1>3, NoTxnStands DEF TxnRecord
<1>5. x.pc = "select" /\ x.plan = plan /\ x.left = Jira!Issue(plan) /\ x.rows = Jira!NoTxn.rows /\ x.logs = Jira!NoTxn.logs
  BY DEF Jira!NoTxn
<1> HIDE DEF x
<1>6. TxnStands(x)
  BY <1>5, NoTxnStands DEF TxnStands
<1> QED
  BY <1>1, <1>4, <1>5, <1>6, NoTxnStands, TxnStep

LEMMA SelectInv ==
    ASSUME ImportApart, ImportInv, NEW r \in Request, Jira!Select(r)
    PROVE  ImportInv'
<1> DEFINE y == txn[r]
           i == CHOOSE z \in y.left : TRUE
           found == IF Jira!Existing(i) = {} THEN None ELSE CHOOSE t \in Jira!Existing(i) : TRUE
           x == [y EXCEPT !.pc = "write", !.at = i, !.left = y.left \ {i}, !.found = found]
<1>1. /\ y.pc = "select" /\ i \in y.left /\ txn' = [txn EXCEPT ![r] = x]
      /\ UNCHANGED <<task, logs, sprint>> /\ y \in TxnRecord /\ TxnStands(y)
      /\ y.left \in SUBSET Issues
  BY ImportRows DEF Jira!Select
<1>2. found = None \/ found \in Jira!Existing(i)
  OBVIOUS
<1>3. found \in Jira!Id \cup {None} /\ (found # None => task[found] # None /\ task[found].issue = i)
  BY <1>2 DEF Jira!Existing, Jira!Live
<1> HIDE DEF y, i, found
<1>4. x \in TxnRecord
  BY <1>1, <1>3 DEF TxnRecord
<1>5. /\ x.pc = "write" /\ x.at = i /\ x.left = y.left \ {i} /\ x.found = found
      /\ x.plan = y.plan /\ x.rows = y.rows /\ x.logs = y.logs
  BY <1>1 DEF TxnRecord
<1> HIDE DEF x
<1>6. TxnStands(x)
  BY <1>1, <1>3, <1>5 DEF TxnStands
<1> QED
  BY <1>1, <1>4, <1>5, <1>6, TxnStep DEF y

(* A row is written for the issue at hand. *)
LEMMA WrittenInv ==
    ASSUME ImportApart, ImportInv, NEW r \in Request, NEW t \in Jira!Id, NEW row \in Jira!TaskRow,
           txn[r].pc = "write", Jira!Written(r, t, row), UNCHANGED <<task, logs, sprint>>,
           ~Jira!Locked(t), RowStands(row, t), row.issue = txn[r].at,
           task[t] = None => ~Jira!ProjectLocked(r)
    PROVE  ImportInv'
<1> DEFINE y == txn[r]
           rows == [u \in DOMAIN y.rows \cup {t} |-> IF u = t THEN row ELSE y.rows[u]]
           added == IF Jira!LogIsThere(t) \/ y.person = "unmatched" THEN y.logs ELSE y.logs \cup {t}
           x == [y EXCEPT !.pc = "select", !.rows = rows, !.logs = added]
<1>1. /\ txn' = [txn EXCEPT ![r] = x] /\ y \in TxnRecord /\ TxnStands(y) /\ y.pc = "write"
      /\ DOMAIN y.rows \subseteq Jira!Id /\ \A u \in DOMAIN y.rows : y.rows[u] \in Jira!TaskRow
      /\ y.logs \in SUBSET Jira!Id /\ logs \in [Jira!Id -> 0 .. 1]
      /\ \A q \in Request : t \notin DOMAIN txn[q].rows
  BY ImportRows DEF Jira!Written, Jira!Locked
<1> HIDE DEF y
<1>2. /\ rows \in RowsOf /\ DOMAIN rows = DOMAIN y.rows \cup {t} /\ rows[t] = row
      /\ \A u \in DOMAIN y.rows : u # t /\ rows[u] = y.rows[u]
  <2>1. DOMAIN y.rows \cup {t} \in SUBSET Jira!Id /\ rows \in [DOMAIN y.rows \cup {t} -> Jira!TaskRow]
    BY <1>1
  <2> QED
    BY <1>1, <2>1 DEF RowsOf, y
<1>3. added \in SUBSET Jira!Id /\ \A u \in added : u \in y.logs \/ (u = t /\ logs[t] = 0)
  <2>1. added = y.logs \/ (added = y.logs \cup {t} /\ ~Jira!LogIsThere(t))
    OBVIOUS
  <2>2. ~Jira!LogIsThere(t) => logs[t] = 0
    BY <1>1 DEF Jira!LogIsThere
  <2> QED
    BY <1>1, <2>1, <2>2
<1> HIDE DEF rows, added
<1>4. x \in TxnRecord
  BY <1>1, <1>2, <1>3 DEF TxnRecord
<1>5. /\ x.pc = "select" /\ x.rows = rows /\ x.logs = added
      /\ x.plan = y.plan /\ x.left = y.left
  BY <1>1 DEF TxnRecord
<1> HIDE DEF x
<1>6. TxnStands(x)
  <2>1. \A u \in DOMAIN rows : RowStands(rows[u], u) /\ rows[u].issue \notin y.left
    BY <1>1, <1>2 DEF TxnStands, y
  <2>2. ASSUME NEW u \in DOMAIN rows, NEW v \in DOMAIN rows, rows[u].issue = rows[v].issue
        PROVE  u = v
    BY <1>1, <1>2, <2>2 DEF TxnStands, y
  <2>3. \A u \in added : u \in DOMAIN rows /\ logs[u] = 0
    BY <1>1, <1>2, <1>3 DEF TxnStands
  <2>4. /\ y.plan \in Plans
        /\ \A i \in Jira!Issue(y.plan) : i \in y.left \/ \E u \in DOMAIN rows : rows[u].issue = i
    BY <1>1, <1>2 DEF TxnStands, y
  <2> QED
    BY <1>5, <2>1, <2>2, <2>3, <2>4 DEF TxnStands
<1>7. task[t] = None => \A q \in Request \ {r} : \A u \in DOMAIN txn[q].rows : task[u] # None
  BY DEF Jira!ProjectLocked, Jira!Minted
<1>8. \A u \in DOMAIN x.rows : u \in DOMAIN txn[r].rows \/ u = t
  BY <1>2, <1>5 DEF y
<1> QED
  BY <1>1, <1>4, <1>6, <1>7, <1>8, TxnStep

LEMMA WriteUpdateInv ==
    ASSUME ImportApart, ImportInv, NEW r \in Request, Jira!WriteUpdate(r)
    PROVE  ImportInv'
<1> DEFINE t == txn[r].found
           st == Jira!Category(txn[r].plan.status[txn[r].at])
           row == [task[t] EXCEPT !.status = st, !.completed = (st = "done")]
<1>1. /\ txn[r].pc = "write" /\ t \in Jira!Id /\ ~Jira!Locked(t) /\ Jira!Written(r, t, row)
      /\ UNCHANGED <<task, logs, sprint>> /\ task[t] # None /\ task[t].issue = txn[r].at
      /\ task[t] \in Jira!TaskRow /\ task[t].comments = 1 /\ ParentStands(task[t])
  BY ImportRows DEF Jira!WriteUpdate, TxnStands, ImportInv, TasksStand
<1>2. st \in {"todo", "done"} /\ (st = "done") \in BOOLEAN
  BY DEF Jira!Category
<1> HIDE DEF t, st
<1>3. row \in Jira!TaskRow /\ row.issue = task[t].issue /\ row.live = task[t].live
      /\ row.comments = task[t].comments /\ row.parent = task[t].parent
  BY <1>1, <1>2 DEF Jira!TaskRow
<1> HIDE DEF row
<1>4. RowStands(row, t)
  BY <1>1, <1>3 DEF RowStands, ParentStands
<1> QED
  BY <1>1, <1>3, <1>4, WrittenInv

LEMMA WriteInsertInv ==
    ASSUME ImportApart, ImportInv, NEW r \in Request, Jira!WriteInsert(r)
    PROVE  ImportInv'
<1> DEFINE st == Jira!Category(txn[r].plan.status[txn[r].at])
           row == [issue |-> txn[r].at, live |-> TRUE, status |-> st, completed |-> (st = "done"),
                   parent |-> None, comments |-> 1]
<1>1. /\ txn[r].pc = "write" /\ ~Jira!ProjectLocked(r) /\ Jira!Existing(txn[r].at) = {}
      /\ \E t \in Jira!Id : task[t] = None /\ ~Jira!Locked(t)
      /\ Jira!Written(r, Jira!Fresh, row) /\ UNCHANGED <<task, logs, sprint>>
  BY DEF Jira!WriteInsert
<1>2. Jira!Fresh \in Jira!Id /\ task[Jira!Fresh] = None /\ ~Jira!Locked(Jira!Fresh)
  BY <1>1 DEF Jira!Fresh
<1>3. st \in {"todo", "done"} /\ (st = "done") \in BOOLEAN /\ txn[r].at \in Issues
  BY <1>1, ImportRows DEF Jira!Category, TxnStands
<1> HIDE DEF st
<1>4. /\ row \in Jira!TaskRow /\ row.issue = txn[r].at /\ row.comments = 1 /\ row.parent = None
  BY <1>3 DEF Jira!TaskRow, Issues
<1> HIDE DEF row
<1>5. RowStands(row, Jira!Fresh)
  BY <1>1, <1>2, <1>4 DEF RowStands, ParentStands
<1> QED
  BY <1>1, <1>2, <1>4, <1>5, WrittenInv

(* What the transactions that go on rest on stays when the tables change. *)
LEMMA TxnsStay ==
    ASSUME ImportApart, ImportInv, NEW q \in Request, txn'[q] = txn[q],
           \A t \in DOMAIN txn[q].rows : task'[t] = task[t],
           \A t \in Jira!Id : task[t] # None => task'[t] # None /\ task'[t].issue = task[t].issue,
           \A t \in DOMAIN txn[q].rows :
             task[t] = None => \A u \in Jira!Existing(txn[q].rows[t].issue)' : FALSE,
           \A t \in txn[q].logs : logs'[t] = 0
    PROVE  TxnStands(txn[q])'
<1> DEFINE x == txn[q]
<1>1. /\ TxnStands(x) /\ DOMAIN x.rows \subseteq Jira!Id /\ x.found \in Jira!Id \cup {None}
      /\ \A t \in DOMAIN x.rows : x.rows[t].parent \in Jira!Id \cup {None}
  BY ImportRows
<1>2. \A t \in DOMAIN x.rows : ParentStands(x.rows[t])'
  BY <1>1 DEF TxnStands, RowStands, ParentStands
<1>3. \A t \in DOMAIN x.rows : /\ task[t] # None => /\ x.rows[t].issue = task[t].issue
                                                   /\ x.rows[t].live = task[t].live
                               /\ x.rows[t].comments = 1
  BY <1>1 DEF TxnStands, RowStands
<1>4. \A t \in DOMAIN x.rows : task[t] = None => Jira!Existing(x.rows[t].issue)' = {}
  OBVIOUS
<1> HIDE DEF x
<1>5. \A t \in DOMAIN x.rows : RowStands(x.rows[t], t)'
  BY <1>2, <1>3, <1>4 DEF RowStands, x
<1>6. TxnStands(x)'
  BY <1>1, <1>5 DEF TxnStands, x
<1> QED
  BY <1>6 DEF x

(* A commit: what Nested makes of the rows. *)
LEMMA NestedRows ==
    ASSUME ImportApart, ImportInv, NEW r \in Request, txn[r].pc = "select", txn[r].left = {},
           NEW t \in DOMAIN txn[r].rows
    PROVE  /\ DOMAIN Jira!Nested(r) = DOMAIN txn[r].rows
           /\ Jira!Nested(r)[t] \in Jira!TaskRow
           /\ Jira!Nested(r)[t].issue = txn[r].rows[t].issue /\ Jira!Nested(r)[t].live = txn[r].rows[t].live
           /\ Jira!Nested(r)[t].comments = 1
           /\ \/ Jira!Nested(r)[t].parent = txn[r].rows[t].parent
              \/ /\ Jira!Nested(r)[t].parent \in DOMAIN txn[r].rows
                 /\ txn[r].rows[Jira!Nested(r)[t].parent].issue
                      = Jira!ParentOf(txn[r].plan, txn[r].rows[t].issue)
<1> DEFINE rows == txn[r].rows
           p == Jira!ParentOf(txn[r].plan, rows[t].issue)
           TaskOf(i) == CHOOSE u \in DOMAIN rows : rows[u].issue = i
           parent == IF p \in Jira!Issue(txn[r].plan) THEN TaskOf(p) ELSE rows[t].parent
<1>1. /\ DOMAIN Jira!Nested(r) = DOMAIN rows
      /\ Jira!Nested(r)[t] = [rows[t] EXCEPT !.parent = parent]
  BY DEF Jira!Nested
<1>2. /\ rows[t] \in Jira!TaskRow /\ DOMAIN rows \subseteq Jira!Id /\ rows[t].comments = 1
      /\ rows[t].parent \in Jira!Id \cup {None}
  BY ImportRows DEF TxnStands, RowStands
<1>3. \/ parent = rows[t].parent
      \/ parent \in DOMAIN rows /\ rows[parent].issue = p
  <2>1. CASE p \in Jira!Issue(txn[r].plan)
    <3>1. \E u \in DOMAIN rows : rows[u].issue = p
      BY <2>1, ImportRows DEF TxnStands
    <3> QED
      BY <2>1, <3>1
  <2> QED
    BY <2>1
<1>4. parent \in Jira!Id \cup {None}
  BY <1>2, <1>3
<1> HIDE DEF rows, parent
<1>5. /\ [rows[t] EXCEPT !.parent = parent] \in Jira!TaskRow
      /\ [rows[t] EXCEPT !.parent = parent].issue = rows[t].issue
      /\ [rows[t] EXCEPT !.parent = parent].live = rows[t].live
      /\ [rows[t] EXCEPT !.parent = parent].comments = rows[t].comments
      /\ [rows[t] EXCEPT !.parent = parent].parent = parent
  BY <1>2, <1>4 DEF Jira!TaskRow
<1> QED
  BY <1>1, <1>2, <1>3, <1>5 DEF rows

LEMMA CommitInv ==
    ASSUME ImportApart, ImportInv, NEW r \in Request, Jira!Commit(r)
    PROVE  ImportInv'
<1> DEFINE x == txn[r]
           rows == Jira!Nested(r)
<1>1. /\ x.pc = "select" /\ x.left = {} /\ txn' = [txn EXCEPT ![r] = Jira!NoTxn]
      /\ task' = [t \in Jira!Id |-> IF t \in DOMAIN rows THEN rows[t] ELSE task[t]]
      /\ logs' = [t \in Jira!Id |-> IF t \in x.logs THEN logs[t] + 1 ELSE logs[t]]
      /\ sprint' = IF x.sprint = None THEN sprint ELSE [sprint EXCEPT ![x.sprint] = sprint[x.sprint] + 1]
      /\ x.sprint = "active" => sprint["active"] = 0
  BY DEF Jira!Commit, Jira!Rollback
<1>2. /\ DOMAIN x.rows \subseteq Jira!Id /\ x.logs \subseteq DOMAIN x.rows /\ \A t \in x.logs : logs[t] = 0
      /\ TxnStands(x) /\ x.sprint \in Jira!State \cup {None} /\ logs \in [Jira!Id -> 0 .. 1]
      /\ task \in [Jira!Id -> Jira!TaskRow \cup {None}]
  BY ImportRows DEF TxnStands
<1>3. DOMAIN rows = DOMAIN x.rows
  BY DEF Jira!Nested
<1>4. \A t \in DOMAIN x.rows :
        /\ rows[t] \in Jira!TaskRow /\ rows[t] # None
        /\ rows[t].issue = x.rows[t].issue /\ rows[t].live = x.rows[t].live /\ rows[t].comments = 1
        /\ \/ rows[t].parent = x.rows[t].parent
           \/ /\ rows[t].parent \in DOMAIN x.rows
              /\ x.rows[rows[t].parent].issue = Jira!ParentOf(x.plan, x.rows[t].issue)
  BY <1>1, NestedRows DEF ImportApart
<1> HIDE DEF x, rows
<1>5. /\ \A q \in Request \ {r} : txn'[q] = txn[q]
      /\ txn'[r] = Jira!NoTxn /\ txn' \in [Request -> TxnRecord]
  BY <1>1, NoTxnStands DEF ImportInv, ImportTypes
<1>6. \A t \in Jira!Id : task'[t] = IF t \in DOMAIN x.rows THEN rows[t] ELSE task[t]
  BY <1>1, <1>3
(* Tasks keep their issue and whether they live; new ones are of issues without any. *)
<1>7. \A t \in Jira!Id : task[t] # None =>
        task'[t] # None /\ task'[t].issue = task[t].issue /\ task'[t].live = task[t].live
  BY <1>2, <1>4, <1>6 DEF TxnStands, RowStands
<1>8. \A t \in Jira!Id : task[t] = None /\ task'[t] # None =>
        t \in DOMAIN x.rows /\ task'[t].issue = x.rows[t].issue /\ Jira!Existing(x.rows[t].issue) = {}
  BY <1>2, <1>4, <1>6 DEF TxnStands, RowStands
<1>9. ImportTypes'
  <2>1. task' \in [Jira!Id -> Jira!TaskRow \cup {None}]
    BY <1>1, <1>2, <1>3, <1>4
  <2>2. logs' \in [Jira!Id -> 0 .. 1]
    BY <1>1, <1>2
  <2>3. sprint' \in [Jira!State -> Nat] /\ sprint'["active"] <= 1
    BY <1>1, <1>2 DEF ImportInv, ImportTypes, Jira!State
  <2> QED
    BY <1>5, <2>1, <2>2, <2>3 DEF ImportTypes
<1>10. TasksStand'
  <2> SUFFICES ASSUME NEW t \in Jira!Id, task'[t] # None
               PROVE  task'[t].comments = 1 /\ ParentStands(task[t])'
    BY DEF TasksStand
  <2>1. CASE t \notin DOMAIN x.rows
    <3>1. task'[t] = task[t] /\ task[t].comments = 1 /\ ParentStands(task[t]) /\ task[t].parent \in Jira!Id \cup {None}
      BY <1>6, <2>1, ImportRows DEF ImportInv, TasksStand
    <3> QED
      BY <1>7, <3>1 DEF ParentStands
  <2>2. CASE t \in DOMAIN x.rows
    <3>1. /\ task'[t] = rows[t] /\ rows[t].comments = 1 /\ rows[t].issue = x.rows[t].issue
          /\ x.rows[t].parent \in Jira!Id \cup {None} /\ ParentStands(x.rows[t])
      BY <1>2, <1>4, <1>6, <2>2, ImportRows DEF TxnStands, RowStands, x
    <3>2. CASE rows[t].parent = x.rows[t].parent
      BY <1>7, <3>1, <3>2 DEF ParentStands
    <3>3. CASE /\ rows[t].parent \in DOMAIN x.rows
               /\ x.rows[rows[t].parent].issue = Jira!ParentOf(x.plan, x.rows[t].issue)
      <4>1. task'[rows[t].parent] # None /\ task'[rows[t].parent].issue = Jira!ParentOf(x.plan, rows[t].issue)
        BY <1>2, <1>4, <1>6, <3>1, <3>3
      <4>2. x.plan \in Plans
        BY <1>1, <1>2 DEF TxnStands
      <4> QED
        BY <3>1, <4>1, <4>2 DEF ParentStands
    <3> QED
      BY <1>4, <2>2, <3>2, <3>3
  <2> QED
    BY <2>1, <2>2
<1>11. OneLiveTask'
  <2> SUFFICES ASSUME NEW t \in Jira!Id, NEW u \in Jira!Id, task'[t] # None, task'[u] # None,
                      task'[t].live, task'[u].live, task'[t].issue = task'[u].issue
               PROVE  t = u
    BY DEF OneLiveTask, Jira!Live
  <2>1. CASE task[t] # None /\ task[u] # None
    BY <1>7, <2>1 DEF ImportInv, OneLiveTask, Jira!Live
  <2>2. CASE task[t] = None /\ task[u] = None
    BY <1>2, <1>8, <2>2 DEF TxnStands
  <2>3. CASE task[t] = None /\ task[u] # None
    <3>1. u \in Jira!Existing(task'[t].issue)
      BY <1>7, <2>3 DEF Jira!Existing, Jira!Live
    <3> QED
      BY <1>8, <2>3, <3>1
  <2>4. CASE task[t] # None /\ task[u] = None
    <3>1. t \in Jira!Existing(task'[u].issue)
      BY <1>7, <2>4 DEF Jira!Existing, Jira!Live
    <3> QED
      BY <1>8, <2>4, <3>1
  <2> QED
    BY <2>1, <2>2, <2>3, <2>4
<1>12. LocksHold'
  <2>1. \A q \in Request : \A t \in DOMAIN txn'[q].rows : q # r /\ txn'[q] = txn[q] /\ t \in Jira!Id
    BY <1>5, NoTxnStands, ImportRows
  <2>2. \A t \in Jira!Id : task'[t] = None => task[t] = None
    BY <1>7
  <2> QED
    BY <2>1, <2>2 DEF ImportInv, LocksHold
<1>13. ASSUME NEW q \in Request PROVE TxnStands(txn[q])'
  <2>1. CASE q = r
    BY <1>5, <2>1, NoTxnStands DEF TxnStands
  <2>2. CASE q # r
    <3>1. txn'[q] = txn[q] /\ DOMAIN txn[q].rows \subseteq Jira!Id /\ TxnStands(txn[q])
      BY <1>5, <2>2, ImportRows
    <3>2. \A t \in DOMAIN txn[q].rows : t \notin DOMAIN x.rows
      BY <2>2 DEF ImportInv, LocksHold, x
    <3>3. \A t \in DOMAIN txn[q].rows : task'[t] = task[t]
      BY <1>6, <3>1, <3>2
    <3>4. ASSUME NEW t \in DOMAIN txn[q].rows, task[t] = None,
                 NEW u \in Jira!Existing(txn[q].rows[t].issue)'
          PROVE  FALSE
      <4>1. \A v \in DOMAIN x.rows : task[v] # None
        BY <2>2, <3>4 DEF ImportInv, LocksHold, x
      <4>2. u \in Jira!Id /\ task'[u] # None /\ task'[u].live /\ task'[u].issue = txn[q].rows[t].issue
        BY <3>1, <3>4 DEF Jira!Existing, Jira!Live
      <4>3. u \in Jira!Existing(txn[q].rows[t].issue)
        BY <1>7, <1>8, <4>1, <4>2 DEF Jira!Existing, Jira!Live
      <4> QED
        BY <3>1, <3>4, <4>3 DEF TxnStands, RowStands
    <3>5. \A t \in txn[q].logs : logs'[t] = 0
      BY <1>1, <1>2, <3>1, <3>2, ImportRows DEF TxnStands
    <3> QED
      BY <1>7, <3>1, <3>3, <3>4, <3>5, TxnsStay
  <2> QED
    BY <2>1, <2>2
<1> QED
  BY <1>9, <1>10, <1>11, <1>12, <1>13 DEF ImportInv

(* The team changes whether a task lives, of no transaction's rows. *)
LEMMA TeamInv ==
    ASSUME ImportApart, ImportInv, NEW t \in Jira!Id, NEW live \in BOOLEAN, task[t] # None,
           task' = [task EXCEPT ![t].live = live], UNCHANGED <<logs, sprint, txn>>,
           \A q \in Request : t \notin DOMAIN txn[q].rows,
           live => /\ Jira!Existing(task[t].issue) = {}
                   /\ \A q \in Request : \A u \in DOMAIN txn[q].rows :
                        txn[q].rows[u].issue # task[t].issue
    PROVE  ImportInv'
<1> DEFINE row == [task[t] EXCEPT !.live = live]
<1>1. /\ task' = [task EXCEPT ![t] = row] /\ task[t] \in Jira!TaskRow
      /\ task \in [Jira!Id -> Jira!TaskRow \cup {None}]
  BY ImportRows
<1>2. /\ row \in Jira!TaskRow /\ row.issue = task[t].issue /\ row.comments = task[t].comments
      /\ row.parent = task[t].parent /\ row.live = live
  BY <1>1 DEF Jira!TaskRow
<1> HIDE DEF row
<1>3. row # None
  BY <1>2 DEF ImportApart
<1>4. /\ \A u \in Jira!Id : task'[u] = IF u = t THEN row ELSE task[u]
      /\ task' \in [Jira!Id -> Jira!TaskRow \cup {None}]
  BY <1>1, <1>2
<1>5. \A u \in Jira!Id : /\ (task'[u] = None) <=> (task[u] = None)
                         /\ task[u] # None => /\ task'[u].issue = task[u].issue
                                              /\ task'[u].comments = task[u].comments
                                              /\ task'[u].parent = task[u].parent
                                              /\ u # t => task'[u].live = task[u].live
  BY <1>2, <1>3, <1>4
<1>6. ImportTypes'
  BY <1>4 DEF ImportInv, ImportTypes
<1>7. TasksStand'
  <2> SUFFICES ASSUME NEW u \in Jira!Id, task'[u] # None
               PROVE  task'[u].comments = 1 /\ ParentStands(task[u])'
    BY DEF TasksStand
  <2>1. /\ task[u] # None /\ task[u].comments = 1 /\ ParentStands(task[u])
        /\ task[u].parent \in Jira!Id \cup {None}
    BY <1>5, ImportRows DEF ImportInv, TasksStand
  <2> QED
    BY <1>5, <2>1 DEF ParentStands
<1>8. OneLiveTask'
  <2> SUFFICES ASSUME NEW u \in Jira!Id, NEW v \in Jira!Id, task'[u] # None, task'[v] # None,
                      task'[u].live, task'[v].live, task'[u].issue = task'[v].issue
               PROVE  u = v
    BY DEF OneLiveTask, Jira!Live
  <2>1. CASE u # t /\ v # t
    BY <1>5, <2>1 DEF ImportInv, OneLiveTask, Jira!Live
  <2>2. CASE u = t /\ v # t
    <3>1. live /\ task[v] # None /\ task[v].live /\ task[v].issue = task[t].issue
      BY <1>2, <1>4, <1>5, <2>2
    <3> QED
      BY <3>1 DEF Jira!Existing, Jira!Live
  <2>3. CASE u # t /\ v = t
    <3>1. live /\ task[u] # None /\ task[u].live /\ task[u].issue = task[t].issue
      BY <1>2, <1>4, <1>5, <2>3
    <3> QED
      BY <3>1 DEF Jira!Existing, Jira!Live
  <2> QED
    BY <2>1, <2>2, <2>3
<1>9. LocksHold'
  <2>1. \A q \in Request : DOMAIN txn[q].rows \subseteq Jira!Id
    BY ImportRows
  <2>2. \A u \in Jira!Id : task'[u] = None => task[u] = None
    BY <1>5
  <2> QED
    BY <2>1, <2>2 DEF ImportInv, LocksHold
<1>10. ASSUME NEW q \in Request PROVE TxnStands(txn[q])'
  <2>1. /\ txn'[q] = txn[q] /\ DOMAIN txn[q].rows \subseteq Jira!Id /\ TxnStands(txn[q])
    BY ImportRows
  <2>2. \A u \in DOMAIN txn[q].rows : task'[u] = task[u]
    BY <1>4, <2>1
  <2>3. ASSUME NEW u \in DOMAIN txn[q].rows, task[u] = None,
               NEW v \in Jira!Existing(txn[q].rows[u].issue)'
        PROVE  FALSE
    <3>1. v \in Jira!Id /\ task'[v] # None /\ task'[v].live /\ task'[v].issue = txn[q].rows[u].issue
      BY <2>1, <2>3 DEF Jira!Existing, Jira!Live
    <3>2. CASE v = t
      BY <1>2, <1>4, <2>3, <3>1, <3>2
    <3>3. CASE v # t
      <4>1. v \in Jira!Existing(txn[q].rows[u].issue)
        BY <1>5, <3>1, <3>3 DEF Jira!Existing, Jira!Live
      <4> QED
        BY <2>1, <2>3, <4>1 DEF TxnStands, RowStands
    <3> QED
      BY <3>2, <3>3
  <2>4. \A u \in txn[q].logs : logs'[u] = 0
    BY <2>1 DEF TxnStands
  <2> QED
    BY <1>5, <2>1, <2>2, <2>3, <2>4, TxnsStay
<1> QED
  BY <1>6, <1>7, <1>8, <1>9, <1>10 DEF ImportInv

LEMMA DeleteTaskInv ==
    ASSUME ImportApart, ImportInv, NEW t \in Jira!Id, Jira!DeleteTask(t)
    PROVE  ImportInv'
  BY TeamInv DEF Jira!DeleteTask, Jira!Live, Jira!Locked

LEMMA RestoreTaskInv ==
    ASSUME ImportApart, ImportInv, NEW t \in Jira!Id, Jira!RestoreTask(t)
    PROVE  ImportInv'
<1>1. \A q \in Request : t \notin DOMAIN txn[q].rows
  BY ImportRows DEF Jira!RestoreTask, TxnStands, RowStands
<1> QED
  BY <1>1, TeamInv DEF Jira!RestoreTask

LEMMA TouchLogInv ==
    ASSUME ImportApart, ImportInv, NEW t \in Jira!Id, Jira!TouchLog(t)
    PROVE  ImportInv'
<1>1. /\ logs[t] > 0 /\ logs' = [logs EXCEPT ![t] = logs[t] - 1] /\ UNCHANGED <<task, sprint, txn>>
  BY DEF Jira!TouchLog
<1>2. logs \in [Jira!Id -> 0 .. 1] /\ logs' \in [Jira!Id -> 0 .. 1]
  BY <1>1, ImportRows
<1>3. ImportTypes' /\ TasksStand' /\ OneLiveTask' /\ LocksHold'
  BY <1>1, <1>2 DEF ImportInv, ImportTypes, TasksStand, ParentStands, OneLiveTask, Jira!Live,
     LocksHold
<1>4. ASSUME NEW q \in Request PROVE TxnStands(txn[q])'
  <2>1. TxnStands(txn[q]) /\ txn[q].logs \in SUBSET Jira!Id /\ DOMAIN txn[q].rows \subseteq Jira!Id
    BY ImportRows
  <2>2. \A u \in txn[q].logs : logs'[u] = 0
    BY <1>1, <1>2, <2>1 DEF TxnStands
  <2>3. \A u \in DOMAIN txn[q].rows : task[u] = None => Jira!Existing(txn[q].rows[u].issue)' = {}
    BY <1>1, <2>1 DEF TxnStands, RowStands, Jira!Existing, Jira!Live
  <2> QED
    BY <1>1, <2>1, <2>2, <2>3, TxnsStay
<1> QED
  BY <1>3, <1>4 DEF ImportInv

LEMMA ImportNextInv == ASSUME ImportApart, ImportInv, [Jira!Next]_(Jira!vars) PROVE ImportInv'
<1>1. CASE UNCHANGED Jira!vars
  BY <1>1 DEF Jira!vars, ImportInv, ImportTypes, TasksStand, ParentStands, OneLiveTask, Jira!Live,
     LocksHold,
              TxnStands, RowStands, Jira!Existing
<1>2. ASSUME NEW r \in Request, NEW plan \in Plans, NEW create \in BOOLEAN, Jira!Begin(r, plan, create)
      PROVE  ImportInv'
  BY <1>2, BeginImportInv
<1>3. ASSUME NEW r \in Request, Jira!Select(r) PROVE ImportInv'
  BY <1>3, SelectInv
<1>4. ASSUME NEW r \in Request, Jira!WriteUpdate(r) PROVE ImportInv'
  BY <1>4, WriteUpdateInv
<1>5. ASSUME NEW r \in Request, Jira!WriteInsert(r) PROVE ImportInv'
  BY <1>5, WriteInsertInv
<1>6. ASSUME NEW r \in Request, Jira!WriteConflicts(r) PROVE ImportInv'
  BY <1>6, RollbackInv DEF Jira!WriteConflicts
<1>7. ASSUME NEW r \in Request, Jira!Abandon(r) PROVE ImportInv'
  BY <1>7, RollbackInv DEF Jira!Abandon
<1>8. ASSUME NEW r \in Request, Jira!Commit(r) PROVE ImportInv'
  BY <1>8, CommitInv
<1>9. ASSUME NEW t \in Jira!Id, Jira!DeleteTask(t) \/ Jira!RestoreTask(t) \/ Jira!TouchLog(t) PROVE ImportInv'
  BY <1>9, DeleteTaskInv, RestoreTaskInv, TouchLogInv
<1> QED
  BY <1>1, <1>2, <1>3, <1>4, <1>5, <1>6, <1>7, <1>8, <1>9 DEF Jira!Next

LEMMA InvImportedOnce == ASSUME ImportApart, ImportInv PROVE Jira!ImportedOnce
<1>1. \A t \in Jira!Id : logs[t] <= 1
  BY ImportRows
<1>2. \A t, u \in Jira!Id : Jira!Live(t) /\ Jira!Live(u) /\ task[t].issue = task[u].issue => t = u
  BY DEF ImportInv, OneLiveTask
<1>3. \A t \in Jira!Id : task[t] # None => task[t].comments = 1 /\ ParentStands(task[t])
  BY DEF ImportInv, TasksStand
<1>4. sprint["active"] <= 1
  BY DEF ImportInv, ImportTypes
<1> QED
  BY <1>1, <1>2, <1>3, <1>4 DEF Jira!ImportedOnce, ParentStands

LEMMA ImportKeep == ASSUME ImportApart PROVE OfficeSpec => []ImportInv
<1>1. OfficeInit => ImportInv
  BY ImportInitInv, ImportSteps
<1>2. ImportInv /\ [OfficeNext]_officeVars => ImportInv'
  BY ImportNextInv, ImportSteps
<1> QED
  BY <1>1, <1>2, PTL DEF OfficeSpec

(* However many imports of however many exports overlap, and whatever the team deletes,
   restores or edits between their statements, an issue has one live task, with its comments
   once and its worklogs at most once, under the task of its parent if under any, and one
   sprint is active at most (apply_jira_import in domain/import_export.rs). *)
THEOREM ImportsApplyOnce == ASSUME ImportApart PROVE OfficeSpec => []ImportedOnce
<1>1. ImportInv => ImportedOnce
  BY InvImportedOnce DEF ImportedOnce
<1> QED
  BY <1>1, ImportKeep, PTL

----------------------------------------------------------------------------
(* Custom fields: what a transaction rebuilt of a task stays right until   *)
(* it commits, for nobody else writes a value of that task without         *)
(* waiting for its row, and a field that goes takes its values along.      *)

LEMMA FieldsSteps ==
    /\ OfficeInit => Fields!Init
    /\ [OfficeNext]_officeVars => [Fields!Next]_(Fields!vars)
<1>1. OfficeInit => Fields!Init
  BY DEF OfficeInit
<1>2. OfficeNext => IF part = "fields" THEN Fields!Next ELSE UNCHANGED fieldsVars
  BY DEF OfficeNext
<1>3. UNCHANGED officeVars => UNCHANGED fieldsVars
  BY DEF officeVars
<1>4. UNCHANGED fieldsVars => UNCHANGED Fields!vars
  BY DEF fieldsVars, Fields!vars
<1> QED
  BY <1>1, <1>2, <1>3, <1>4

(* None is the name of no handler, options are lists of what can be folded, and a numeral
   reads as itself. *)
FieldsApart ==
    /\ None \notin {"set", "clear", "delete"}
    /\ Options \subseteq Seq(DOMAIN Fold)
    /\ \A s \in DOMAIN Numeral : Numeral[s] \in DOMAIN Numeral /\ Numeral[Numeral[s]] = Numeral[s]

FieldRow ==
    [row: {"unused", "live", "deleted"}, name: FieldName \cup {"story points", None},
     type: FieldType \cup {"number", None}, options: Options \cup {<<>>}]

Texts == UNION {[D -> SUBSET Fields!Stored] : D \in SUBSET Card}

HandlerRecord ==
    [pc: {"idle", "write", "cascade", "reindex", "commit"}, does: {"set", "clear", "delete", None},
     f: FieldId \cup {None}, t: Card \cup {None}, v: Fields!Stored \cup {None}, new: BOOLEAN,
     rows: SUBSET (Card \X FieldId), todo: SUBSET Card, text: Texts]

FieldShapes ==
    /\ field \in [FieldId -> FieldRow] /\ fieldReq \in [Request -> HandlerRecord]
    /\ value \in [Card -> [FieldId -> Fields!Stored \cup {None}]] /\ index \in [Card -> SUBSET Fields!Stored]

(* What set_value() judged right for a field whose type does not change. *)
Fits(f, v) == field[f].type \in {"text", "select"} \/ \E s \in DOMAIN Numeral : v = Numeral[s]

DefsStand ==
    \A f \in FieldId : Fields!Live(f) =>
        /\ field[f].name \in FieldName \cup {"story points"} /\ field[f].type \in FieldType \cup {"number"}
        /\ field[f].type = "select" => Fields!OfferedOnce(field[f].options)

ValuesFit == \A t \in Card, f \in FieldId : value[t][f] # None => Fits(f, value[t][f])

(* A row of a task as a transaction sees it. *)
RowSeen(x, t) == [f \in FieldId |-> IF <<t, f>> \in x.rows THEN x.v ELSE value[t][f]]

Deletes(x) == x.does = "delete" /\ x.pc \in {"cascade", "reindex", "commit"}

(* What a transaction wrote, and what it rests on. *)
TextStands(x) ==
    /\ x.pc \in {"idle", "write", "cascade"} =>
         x.rows = {} /\ x.todo = {} /\ DOMAIN x.text = {} /\ ~x.new
    /\ x.pc # "idle" =>
         /\ x.does # None /\ x.f \in FieldId /\ field[x.f].row # "unused"
         /\ x.does # "delete" => x.t \in Card
         /\ x.does # "set" => x.v = None
         /\ x.does = "set" /\ Fields!Live(x.f) => Fits(x.f, x.v)
         /\ \A t \in Card, f \in FieldId : <<t, f>> \in x.rows => f = x.f
    /\ x.pc \in {"reindex", "commit"} =>
         /\ \A t \in Card : (<<t, x.f>> \in x.rows) <=> (t \in x.todo \cup DOMAIN x.text)
         /\ x.pc = "commit" => x.todo = {}
    /\ \A t \in DOMAIN x.text : x.text[t] = Fields!TextOf(RowSeen(x, t))
    /\ x.new => x.does = "set" /\ Fields!Live(x.f)
    /\ x.does = "set" /\ ~x.new => \A t \in Card : <<t, x.f>> \in x.rows => value[t][x.f] # None
    /\ x.pc = "cascade" => x.does = "delete"
    /\ Deletes(x) =>
         /\ Fields!Live(x.f)
         /\ x.pc # "cascade" => \A t \in Card : value[t][x.f] # None => <<t, x.f>> \in x.rows

(* The row locks: of the values, of the tasks, and of a field that goes. *)
Apart(x, y) ==
    /\ x.rows \cap y.rows = {} /\ DOMAIN x.text \cap DOMAIN y.text = {}
    /\ Deletes(x) /\ y.f = x.f => ~y.new /\ ~Deletes(y)

FieldInv ==
    /\ FieldShapes /\ DefsStand /\ ValuesFit /\ Fields!SearchHasTheValues /\ Fields!ValuesHaveFields
    /\ \A r \in Request : TextStands(fieldReq[r])
    /\ \A r, q \in Request : r # q => Apart(fieldReq[r], fieldReq[q])

LEMMA FieldFacts ==
    ASSUME FieldInv
    PROVE  /\ field \in [FieldId -> FieldRow] /\ fieldReq \in [Request -> HandlerRecord]
           /\ value \in [Card -> [FieldId -> Fields!Stored \cup {None}]] /\ index \in [Card -> SUBSET Fields!Stored]
           /\ \A t \in Card, f \in FieldId : value[t][f] \in Fields!Stored \cup {None}
           /\ \A r \in Request :
                /\ fieldReq[r] \in HandlerRecord /\ TextStands(fieldReq[r])
                /\ fieldReq[r].pc \in {"idle", "write", "cascade", "reindex", "commit"}
                /\ fieldReq[r].f \in FieldId \cup {None} /\ fieldReq[r].t \in Card \cup {None}
                /\ fieldReq[r].v \in Fields!Stored \cup {None} /\ fieldReq[r].new \in BOOLEAN
                /\ fieldReq[r].rows \in SUBSET (Card \X FieldId) /\ fieldReq[r].todo \in SUBSET Card
                /\ fieldReq[r].text \in Texts /\ DOMAIN fieldReq[r].text \subseteq Card
                /\ fieldReq[r].does \in {"set", "clear", "delete", None}
<1>1. /\ field \in [FieldId -> FieldRow] /\ fieldReq \in [Request -> HandlerRecord]
      /\ value \in [Card -> [FieldId -> Fields!Stored \cup {None}]] /\ index \in [Card -> SUBSET Fields!Stored]
  BY DEF FieldInv, FieldShapes
<1>2. \A text \in Texts : DOMAIN text \subseteq Card
  BY DEF Texts
<1>3. ASSUME NEW r \in Request
      PROVE  /\ fieldReq[r] \in HandlerRecord /\ TextStands(fieldReq[r])
             /\ fieldReq[r].pc \in {"idle", "write", "cascade", "reindex", "commit"}
             /\ fieldReq[r].f \in FieldId \cup {None} /\ fieldReq[r].t \in Card \cup {None}
             /\ fieldReq[r].v \in Fields!Stored \cup {None} /\ fieldReq[r].new \in BOOLEAN
             /\ fieldReq[r].rows \in SUBSET (Card \X FieldId) /\ fieldReq[r].todo \in SUBSET Card
             /\ fieldReq[r].text \in Texts
             /\ fieldReq[r].does \in {"set", "clear", "delete", None}
  BY <1>1 DEF FieldInv, HandlerRecord
<1> QED
  BY <1>1, <1>2, <1>3

(* A handler that is not in flight. *)
LEMMA IdleStands ==
    /\ Fields!Idle \in HandlerRecord /\ TextStands(Fields!Idle) /\ \A y : Apart(Fields!Idle, y) /\ Apart(y, Fields!Idle)
    /\ Fields!Idle.pc = "idle" /\ Fields!Idle.rows = {} /\ Fields!Idle.todo = {} /\ DOMAIN Fields!Idle.text = {} /\ ~Fields!Idle.new
    /\ ~Deletes(Fields!Idle)
<1>1. DOMAIN <<>> = {} /\ <<>> \in [{} -> SUBSET Fields!Stored]
  OBVIOUS
<1>2. <<>> \in Texts
  BY <1>1 DEF Texts
<1>3. Fields!Idle \in HandlerRecord
  BY <1>2 DEF Fields!Idle, HandlerRecord
<1>4. /\ Fields!Idle.pc = "idle" /\ Fields!Idle.rows = {} /\ Fields!Idle.todo = {} /\ Fields!Idle.text = <<>> /\ Fields!Idle.new = FALSE
      /\ Fields!Idle.does = None
  BY DEF Fields!Idle
<1>5. ~Deletes(Fields!Idle)
  BY <1>4 DEF Deletes
<1>6. TextStands(Fields!Idle)
  BY <1>1, <1>4, <1>5 DEF TextStands
<1>7. \A y : Apart(Fields!Idle, y) /\ Apart(y, Fields!Idle)
  BY <1>1, <1>4, <1>5 DEF Apart
<1> QED
  BY <1>1, <1>3, <1>4, <1>5, <1>6, <1>7

LEMMA FieldInitInv == Fields!Init => FieldInv
<1> SUFFICES ASSUME Fields!Init PROVE FieldInv
  OBVIOUS
<1>1. /\ field = [f \in FieldId |-> Fields!Absent] /\ value = [t \in Card |-> [f \in FieldId |-> None]]
      /\ index = [t \in Card |-> {}] /\ fieldReq = [r \in Request |-> Fields!Idle]
  BY DEF Fields!Init
<1>2. Fields!Absent \in FieldRow /\ Fields!Absent.row = "unused"
  BY DEF Fields!Absent, FieldRow
<1>3. FieldShapes
  BY <1>1, <1>2, IdleStands DEF FieldShapes
<1>4. \A f \in FieldId : ~Fields!Live(f)
  BY <1>1, <1>2 DEF Fields!Live
<1>5. \A t \in Card, f \in FieldId : value[t][f] = None
  BY <1>1
<1>6. DefsStand /\ ValuesFit /\ Fields!ValuesHaveFields
  BY <1>4, <1>5 DEF DefsStand, ValuesFit, Fields!ValuesHaveFields
<1>7. Fields!SearchHasTheValues
  BY <1>1, <1>5 DEF Fields!SearchHasTheValues, Fields!TextOf
<1>8. \A r \in Request : fieldReq[r] = Fields!Idle
  BY <1>1
<1> QED
  BY <1>3, <1>6, <1>7, <1>8, IdleStands DEF FieldInv

(* A statement of one handler, which no table shows yet. *)
LEMMA HandlerStep ==
    ASSUME FieldInv, NEW r \in Request, NEW x \in HandlerRecord, fieldReq' = [fieldReq EXCEPT ![r] = x],
           UNCHANGED <<field, value, index>>, TextStands(x),
           \A q \in Request \ {r} : Apart(x, fieldReq[q]) /\ Apart(fieldReq[q], x)
    PROVE  FieldInv'
<1>1. \A q \in Request : fieldReq'[q] = IF q = r THEN x ELSE fieldReq[q]
  BY DEF FieldInv, FieldShapes
<1>2. FieldShapes'
  BY DEF FieldInv, FieldShapes
<1>3. DefsStand' /\ ValuesFit' /\ Fields!SearchHasTheValues' /\ Fields!ValuesHaveFields'
  BY DEF FieldInv, DefsStand, ValuesFit, Fields!SearchHasTheValues, Fields!ValuesHaveFields,
     Fields!Live, Fits
<1>4. ASSUME NEW q \in Request PROVE TextStands(fieldReq[q])'
  <2> DEFINE y == IF q = r THEN x ELSE fieldReq[q]
  <2>1. fieldReq'[q] = y /\ TextStands(y)
    BY <1>1 DEF FieldInv
  <2> HIDE DEF y
  <2> QED
    BY <2>1 DEF TextStands, Fields!Live, Fits, RowSeen, Deletes
<1>5. ASSUME NEW p \in Request, NEW q \in Request, p # q PROVE Apart(fieldReq[p], fieldReq[q])'
  <2> DEFINE y == IF p = r THEN x ELSE fieldReq[p]
             z == IF q = r THEN x ELSE fieldReq[q]
  <2>1. fieldReq'[p] = y /\ fieldReq'[q] = z /\ Apart(y, z)
    BY <1>1, <1>5 DEF FieldInv
  <2> HIDE DEF y, z
  <2> QED
    BY <2>1 DEF Apart, Deletes
<1> QED
  BY <1>2, <1>3, <1>4, <1>5 DEF FieldInv

LEMMA AbortFieldInv ==
    ASSUME FieldInv, NEW r \in Request, Fields!Abort(r)
    PROVE  FieldInv'
  BY HandlerStep, IdleStands DEF Fields!Abort

(* A handler begins with nothing written. *)
LEMMA AcceptFieldInv ==
    ASSUME FieldInv, NEW r \in Request, NEW does \in {"set", "clear", "delete"},
           NEW t \in Card \cup {None}, NEW f \in FieldId, NEW v \in Fields!Stored \cup {None},
           Fields!Accept(r, does, t, f, v), UNCHANGED <<field, value, index>>,
           None \notin {"set", "clear", "delete"},
           field[f].row # "unused", does # "delete" => t \in Card, does # "set" => v = None,
           does = "set" => Fits(f, v)
    PROVE  FieldInv'
<1> DEFINE x == [Fields!Idle EXCEPT !.pc = "write", !.does = does, !.t = t, !.f = f, !.v = v]
<1>1. fieldReq' = [fieldReq EXCEPT ![r] = x]
  BY DEF Fields!Accept
<1>2. x \in HandlerRecord
  BY IdleStands DEF HandlerRecord
<1>3. /\ x.pc = "write" /\ x.does = does /\ x.t = t /\ x.f = f /\ x.v = v
      /\ x.rows = {} /\ x.todo = {} /\ DOMAIN x.text = {} /\ ~x.new
  BY IdleStands DEF Fields!Idle
<1> HIDE DEF x
<1>4. ~Deletes(x)
  BY <1>3 DEF Deletes
<1>5. TextStands(x)
  BY <1>3, <1>4 DEF TextStands
<1>6. \A q \in Request \ {r} : Apart(x, fieldReq[q]) /\ Apart(fieldReq[q], x)
  BY <1>3, <1>4 DEF Apart
<1> QED
  BY <1>1, <1>2, <1>5, <1>6, HandlerStep

(* What canonical_value() makes of a spelling is a value, and fits the field it is judged by. *)
LEMMA CanonicalFits ==
    ASSUME FieldsApart, FieldInv, NEW f \in FieldId, NEW raw \in Spelling, Fields!Live(f),
           Fields!Canonical(field[f].type, field[f].options, raw) # None
    PROVE  /\ Fields!Canonical(field[f].type, field[f].options, raw) \in Fields!Stored
           /\ Fits(f, Fields!Canonical(field[f].type, field[f].options, raw))
<1> DEFINE o == field[f].options
           same == {i \in DOMAIN o : Fold[o[i]] = Fold[raw]}
           c == Fields!Canonical(field[f].type, o, raw)
<1>1. CASE field[f].type = "text"
  <2>1. c = raw
    BY <1>1 DEF Fields!Canonical
  <2> QED
    BY <1>1, <2>1 DEF Fits, Fields!Stored
<1>2. CASE field[f].type = "select"
  <2>1. c = IF same = {} THEN None ELSE o[Fields!Min(same)]
    BY <1>2 DEF Fields!Canonical
  <2>2. o \in Options \cup {<<>>}
    BY FieldFacts DEF FieldRow
  <2>3. same # {} /\ c = o[Fields!Min(same)]
    BY <2>1
  <2>4. DOMAIN o \subseteq Nat
    BY <2>2 DEF FieldsApart
  <2>5. \A i, j \in same : i = j
    <3>1. Fields!IsInjective([i \in DOMAIN o |-> Fold[o[i]]])
      BY <1>2 DEF FieldInv, DefsStand, Fields!OfferedOnce
    <3> HIDE DEF o
    <3> QED
      BY <3>1 DEF Fields!IsInjective
  <2>6. PICK i \in DOMAIN o : same = {i}
    BY <2>3, <2>5
  <2>7. Fields!Min(same) = i
    BY <2>4, <2>6 DEF Fields!Min
  <2>8. o[i] \in Fields!ToSet(o) /\ c = o[i]
    BY <2>3, <2>7 DEF Fields!ToSet
  <2>9. o \in Options
    BY <2>2, <2>6
  <2> QED
    BY <1>2, <2>8, <2>9 DEF Fits, Fields!Stored
<1>3. CASE field[f].type \notin {"text", "select"}
  <2>1. c = IF raw \in DOMAIN Numeral THEN Numeral[raw] ELSE None
    BY <1>3 DEF Fields!Canonical
  <2> QED
    BY <2>1 DEF Fits, Fields!Stored
<1> QED
  BY <1>1, <1>2, <1>3

LEMMA FieldReadInv ==
    ASSUME FieldsApart, FieldInv, NEW r \in Request, NEW f \in FieldId,
           \/ Fields!DeleteRead(r, f)
           \/ \E t \in Card : Fields!ClearRead(r, t, f) \/ \E raw \in Spelling : Fields!SetRead(r, t, f, raw)
    PROVE  FieldInv'
<1>1. CASE Fields!DeleteRead(r, f)
  BY <1>1, AcceptFieldInv DEF Fields!DeleteRead, Fields!Live, FieldsApart
<1>2. ASSUME NEW t \in Card, Fields!ClearRead(r, t, f) PROVE FieldInv'
  BY <1>2, AcceptFieldInv DEF Fields!ClearRead, Fields!Live, FieldsApart
<1>3. ASSUME NEW t \in Card, NEW raw \in Spelling, Fields!SetRead(r, t, f, raw) PROVE FieldInv'
  <2> DEFINE v == Fields!Canonical(field[f].type, field[f].options, raw)
  <2>1. /\ Fields!Live(f) /\ v # None /\ Fields!Accept(r, "set", t, f, v) /\ UNCHANGED <<field, value, index>>
    BY <1>3 DEF Fields!SetRead
  <2>2. v \in Fields!Stored /\ Fits(f, v)
    BY <2>1, CanonicalFits
  <2>3. field[f].row # "unused"
    BY <2>1 DEF Fields!Live
  <2> HIDE DEF v
  <2> QED
    BY <2>1, <2>2, <2>3, AcceptFieldInv DEF FieldsApart
<1> QED
  BY <1>1, <1>2, <1>3

(* The rows a statement writes, and the tasks the trigger has then to rebuild. *)
LEMMA WroteInv ==
    ASSUME FieldInv, NEW r \in Request, NEW rows \in SUBSET (Card \X FieldId), NEW new \in BOOLEAN,
           fieldReq[r].pc \in {"write", "cascade"}, Fields!Wrote(r, rows, new), UNCHANGED <<field, value, index>>,
           \A t \in Card, f \in FieldId : <<t, f>> \in rows => f = fieldReq[r].f,
           \A q \in Request \ {r} : rows \cap fieldReq[q].rows = {},
           new => /\ fieldReq[r].does = "set" /\ Fields!Live(fieldReq[r].f)
                  /\ \A q \in Request \ {r} : Deletes(fieldReq[q]) => fieldReq[q].f # fieldReq[r].f,
           fieldReq[r].does = "set" /\ ~new =>
             \A t \in Card : <<t, fieldReq[r].f>> \in rows => value[t][fieldReq[r].f] # None,
           fieldReq[r].does = "delete" =>
             /\ fieldReq[r].pc = "cascade"
             /\ \A t \in Card : value[t][fieldReq[r].f] # None => <<t, fieldReq[r].f>> \in rows
    PROVE  FieldInv'
<1> DEFINE y == fieldReq[r]
           todo == {row[1] : row \in rows}
           pc == IF todo = {} THEN "commit" ELSE "reindex"
           x == [y EXCEPT !.rows = rows, !.new = new, !.todo = todo, !.pc = pc]
<1>1. /\ fieldReq' = [fieldReq EXCEPT ![r] = x] /\ y \in HandlerRecord /\ TextStands(y)
      /\ y.f \in FieldId /\ y.pc \in {"write", "cascade"}
  <2>1. fieldReq' = [fieldReq EXCEPT ![r].rows = rows, ![r].new = new, ![r].todo = todo, ![r].pc = pc]
    BY DEF Fields!Wrote, Fields!Poked
  <2>2. fieldReq[r] \in HandlerRecord /\ TextStands(fieldReq[r]) /\ fieldReq \in [Request -> HandlerRecord]
    BY FieldFacts
  <2>3. fieldReq[r].f \in FieldId
    BY <2>2 DEF TextStands
  <2> HIDE DEF todo, pc
  <2> QED
    BY <2>1, <2>2, <2>3
<1>2. /\ todo \in SUBSET Card
      /\ \A t \in Card : (<<t, y.f>> \in rows) <=> (t \in todo)
  <2>1. \A row \in rows : /\ row[1] \in Card /\ row[2] \in FieldId /\ row = <<row[1], row[2]>>
                         /\ row[2] = y.f
    BY <1>1
  <2> QED
    BY <2>1
<1>3. pc \in {"commit", "reindex"} /\ (pc = "commit" => todo = {})
  OBVIOUS
<1> HIDE DEF y, todo, pc
<1>4. x \in HandlerRecord
  BY <1>1, <1>2, <1>3 DEF HandlerRecord
<1>5. /\ x.pc = pc /\ x.rows = rows /\ x.new = new /\ x.todo = todo /\ x.does = y.does /\ x.f = y.f
      /\ x.t = y.t /\ x.v = y.v /\ x.text = y.text
  BY <1>1 DEF HandlerRecord
<1> HIDE DEF x
<1>6. DOMAIN x.text = {}
  BY <1>1, <1>5 DEF TextStands
<1>7. TextStands(x)
  <2>1. /\ x.does # None /\ x.f \in FieldId /\ field[x.f].row # "unused"
        /\ x.does # "delete" => x.t \in Card
        /\ x.does # "set" => x.v = None
        /\ x.does = "set" /\ Fields!Live(x.f) => Fits(x.f, x.v)
        /\ \A t \in Card, f \in FieldId : <<t, f>> \in x.rows => f = x.f
    BY <1>1, <1>5 DEF TextStands, y
  <2>2. /\ \A t \in Card : (<<t, x.f>> \in x.rows) <=> (t \in x.todo \cup DOMAIN x.text)
        /\ x.pc = "commit" => x.todo = {}
    BY <1>2, <1>3, <1>5, <1>6
  <2>3. /\ x.new => x.does = "set" /\ Fields!Live(x.f)
        /\ x.does = "set" /\ ~x.new => \A t \in Card : <<t, x.f>> \in x.rows => value[t][x.f] # None
    BY <1>5 DEF y
  <2>4. Deletes(x) => /\ Fields!Live(x.f)
                      /\ \A t \in Card : value[t][x.f] # None => <<t, x.f>> \in x.rows
    BY <1>1, <1>5 DEF TextStands, Deletes, y
  <2> QED
    BY <1>3, <1>5, <1>6, <2>1, <2>2, <2>3, <2>4 DEF TextStands
<1>8. \A q \in Request \ {r} : Apart(x, fieldReq[q]) /\ Apart(fieldReq[q], x)
  <2> SUFFICES ASSUME NEW q \in Request \ {r} PROVE Apart(x, fieldReq[q]) /\ Apart(fieldReq[q], x)
    OBVIOUS
  <2>1. x.rows \cap fieldReq[q].rows = {} /\ DOMAIN x.text \cap DOMAIN fieldReq[q].text = {}
    BY <1>5, <1>6
  <2>2. Apart(y, fieldReq[q]) /\ Apart(fieldReq[q], y)
    BY DEF FieldInv, y
  <2>3. Deletes(x) => Deletes(y)
    BY <1>1, <1>5 DEF Deletes, y
  <2>4. Deletes(fieldReq[q]) /\ x.f = fieldReq[q].f => ~x.new /\ ~Deletes(x)
    BY <1>5, <2>2, <2>3 DEF Apart, y
  <2>5. Deletes(x) /\ fieldReq[q].f = x.f => ~fieldReq[q].new /\ ~Deletes(fieldReq[q])
    BY <1>5, <2>2, <2>3 DEF Apart
  <2> QED
    BY <2>1, <2>4, <2>5 DEF Apart
<1> QED
  BY <1>1, <1>4, <1>7, <1>8, HandlerStep

LEMMA UpsertInv ==
    ASSUME FieldsApart, FieldInv, NEW r \in Request, Fields!Upsert(r)
    PROVE  FieldInv'
<1> DEFINE t == fieldReq[r].t
           f == fieldReq[r].f
           rows == {<<t, f>>}
           new == (value[t][f] = None)
<1>1. /\ fieldReq[r].pc = "write" /\ fieldReq[r].does = "set" /\ ~Fields!Held(r, t, f)
      /\ value[t][f] = None => Fields!Live(f) /\ ~Fields!Leaving(r, f)
      /\ Fields!Wrote(r, rows, new) /\ UNCHANGED <<field, value, index>>
  BY DEF Fields!Upsert
<1>2. t \in Card /\ f \in FieldId
  BY <1>1, FieldFacts DEF TextStands, FieldsApart
<1>3. rows \in SUBSET (Card \X FieldId) /\ new \in BOOLEAN
  BY <1>2
<1>4. \A q \in Request \ {r} : rows \cap fieldReq[q].rows = {}
  BY <1>1 DEF Fields!Held, Fields!Others
<1>5. ~Fields!Leaving(r, f) => \A q \in Request \ {r} : Deletes(fieldReq[q]) => fieldReq[q].f # f
  BY DEF Fields!Leaving, Fields!Others, Deletes
<1>6. ASSUME new PROVE Fields!Live(f) /\ \A q \in Request \ {r} : Deletes(fieldReq[q]) => fieldReq[q].f # f
  BY <1>1, <1>5, <1>6
<1>7. \A u \in Card, g \in FieldId : <<u, g>> \in rows => u = t /\ g = f
  OBVIOUS
<1>8. ~new => \A u \in Card : <<u, f>> \in rows => value[u][f] # None
  BY <1>2, <1>7
<1> HIDE DEF rows, new
<1>9. \A u \in Card, g \in FieldId : <<u, g>> \in rows => g = fieldReq[r].f
  BY <1>7
<1> QED
  BY <1>1, <1>3, <1>4, <1>6, <1>8, <1>9, WroteInv

LEMMA EraseInv ==
    ASSUME FieldsApart, FieldInv, NEW r \in Request, Fields!Erase(r)
    PROVE  FieldInv'
<1> DEFINE t == fieldReq[r].t
           f == fieldReq[r].f
           rows == IF value[t][f] = None THEN {} ELSE {<<t, f>>}
<1>1. /\ fieldReq[r].pc = "write" /\ fieldReq[r].does = "clear"
      /\ value[t][f] # None => ~Fields!Held(r, t, f)
      /\ Fields!Wrote(r, rows, FALSE) /\ UNCHANGED <<field, value, index>>
  BY DEF Fields!Erase
<1>2. t \in Card /\ f \in FieldId
  BY <1>1, FieldFacts DEF TextStands, FieldsApart
<1>3. rows \in SUBSET (Card \X FieldId)
  BY <1>2
<1>4. \A q \in Request \ {r} : rows \cap fieldReq[q].rows = {}
  BY <1>1 DEF Fields!Held, Fields!Others
<1>5. \A u \in Card, g \in FieldId : <<u, g>> \in rows => g = fieldReq[r].f
  OBVIOUS
<1> HIDE DEF rows
<1> QED
  BY <1>1, <1>3, <1>4, <1>5, WroteInv

LEMMA LockFieldInv ==
    ASSUME FieldsApart, FieldInv, NEW r \in Request, Fields!LockField(r)
    PROVE  FieldInv'
<1> DEFINE y == fieldReq[r]
           x == [y EXCEPT !.pc = "cascade"]
<1>1. /\ fieldReq' = [fieldReq EXCEPT ![r] = x] /\ y \in HandlerRecord /\ TextStands(y) /\ y.pc = "write"
      /\ y.does = "delete" /\ Fields!Live(y.f) /\ ~Fields!Leaving(r, y.f) /\ ~Fields!Referred(r, y.f)
      /\ UNCHANGED <<field, value, index>>
  BY FieldFacts DEF Fields!LockField
<1> HIDE DEF y
<1>2. x \in HandlerRecord
  BY <1>1 DEF HandlerRecord
<1>3. /\ x.pc = "cascade" /\ x.rows = y.rows /\ x.new = y.new /\ x.todo = y.todo /\ x.does = y.does
      /\ x.f = y.f /\ x.t = y.t /\ x.v = y.v /\ x.text = y.text
  BY <1>1 DEF HandlerRecord
<1> HIDE DEF x
<1>4. x.rows = {} /\ DOMAIN x.text = {} /\ x.todo = {} /\ ~x.new
  BY <1>1, <1>3 DEF TextStands
<1>5. TextStands(x)
  <2>1. /\ x.does = "delete" /\ x.does # None /\ x.does # "set" /\ x.f \in FieldId
        /\ field[x.f].row # "unused" /\ x.v = None /\ Fields!Live(x.f)
    BY <1>1, <1>3 DEF TextStands, FieldsApart
  <2> QED
    BY <1>3, <1>4, <2>1 DEF TextStands
<1>6. \A q \in Request \ {r} : Apart(x, fieldReq[q]) /\ Apart(fieldReq[q], x)
  <2> SUFFICES ASSUME NEW q \in Request \ {r} PROVE Apart(x, fieldReq[q]) /\ Apart(fieldReq[q], x)
    OBVIOUS
  <2>1. fieldReq[q].f = x.f => ~fieldReq[q].new
    BY <1>1, <1>3 DEF Fields!Referred, Fields!Others
  <2>2. fieldReq[q].f = x.f => ~Deletes(fieldReq[q])
    BY <1>1, <1>3 DEF Fields!Leaving, Fields!Others, Deletes
  <2> QED
    BY <1>4, <2>1, <2>2 DEF Apart
<1> QED
  BY <1>1, <1>2, <1>5, <1>6, HandlerStep

LEMMA CascadeInv ==
    ASSUME FieldsApart, FieldInv, NEW r \in Request, Fields!Cascade(r)
    PROVE  FieldInv'
<1> DEFINE f == fieldReq[r].f
           rows == {<<t, f>> : t \in {t \in Card : value[t][f] # None}}
<1>1. /\ fieldReq[r].pc = "cascade" /\ \A row \in rows : ~Fields!Held(r, row[1], row[2])
      /\ Fields!Wrote(r, rows, FALSE) /\ UNCHANGED <<field, value, index>>
  BY DEF Fields!Cascade
<1>2. f \in FieldId /\ fieldReq[r].does = "delete"
  BY <1>1, FieldFacts DEF TextStands
<1>3. rows \in SUBSET (Card \X FieldId)
  BY <1>2
<1>4. \A t \in Card : value[t][f] # None => <<t, f>> \in rows
  OBVIOUS
<1>5. \A t \in Card, g \in FieldId : <<t, g>> \in rows => g = f
  OBVIOUS
<1>6. ASSUME NEW q \in Request \ {r} PROVE rows \cap fieldReq[q].rows = {}
  <2>1. \A row \in rows : row = <<row[1], row[2]>>
    OBVIOUS
  <2>2. \A row \in rows : row \notin fieldReq[q].rows
    BY <1>1, <2>1 DEF Fields!Held, Fields!Others
  <2> QED
    BY <2>2
<1> HIDE DEF rows
<1> QED
  BY <1>1, <1>2, <1>3, <1>4, <1>5, <1>6, WroteInv DEF FieldsApart

LEMMA TextType ==
    ASSUME FieldInv, NEW x \in HandlerRecord, NEW t \in Card
    PROVE  Fields!TextOf(RowSeen(x, t)) \in SUBSET Fields!Stored
<1>1. x.v \in Fields!Stored \cup {None}
  BY DEF HandlerRecord
<1>2. \A f \in FieldId : RowSeen(x, t)[f] \in Fields!Stored \cup {None}
  BY <1>1, FieldFacts DEF RowSeen
<1> QED
  BY <1>2 DEF Fields!TextOf

LEMMA ReindexInv ==
    ASSUME FieldsApart, FieldInv, NEW r \in Request, Fields!Reindex(r)
    PROVE  FieldInv'
<1> DEFINE y == fieldReq[r]
<1>1. PICK t \in y.todo :
        /\ ~Fields!Rebuilt(r, t)
        /\ fieldReq' = [fieldReq EXCEPT ![r].todo = @ \ {t},
                                        ![r].text = Fields!Over(@, [u \in {t} |-> Fields!TextOf(Fields!Seen(r)[u])]),
                                        ![r].pc = IF fieldReq[r].todo = {t} THEN "commit" ELSE "reindex"]
  BY DEF Fields!Reindex
<1> DEFINE words == Fields!TextOf(RowSeen(y, t))
           text == Fields!Over(y.text, [u \in {t} |-> words])
           pc == IF y.todo = {t} THEN "commit" ELSE "reindex"
           x == [y EXCEPT !.todo = y.todo \ {t}, !.text = text, !.pc = pc]
<1>2. /\ y \in HandlerRecord /\ TextStands(y) /\ y.pc = "reindex" /\ t \in Card
      /\ UNCHANGED <<field, value, index>> /\ y.text \in Texts /\ y.f \in FieldId
  BY FieldFacts DEF Fields!Reindex, TextStands
<1>3. fieldReq' = [fieldReq EXCEPT ![r] = x]
  <2>1. Fields!Seen(r)[t] = RowSeen(y, t)
    BY <1>2 DEF Fields!Seen, RowSeen
  <2>2. [u \in {t} |-> Fields!TextOf(Fields!Seen(r)[u])] = [u \in {t} |-> words]
    BY <2>1
  <2>3. fieldReq \in [Request -> HandlerRecord]
    BY FieldFacts
  <2> HIDE DEF words
  <2> QED
    BY <1>1, <2>2, <2>3
<1>4. t \notin DOMAIN y.text \/ y.text[t] = words
  BY <1>2 DEF TextStands
<1>5. words \in SUBSET Fields!Stored
  BY <1>2, TextType
<1> HIDE DEF y, words
<1>6. /\ text \in Texts /\ DOMAIN text = DOMAIN y.text \cup {t}
      /\ \A u \in DOMAIN y.text : text[u] = y.text[u]
      /\ text[t] = words
  <2>1. y.text \in [DOMAIN y.text -> SUBSET Fields!Stored] /\ DOMAIN y.text \subseteq Card
    BY <1>2 DEF Texts
  <2>2. text \in [DOMAIN y.text \cup {t} -> SUBSET Fields!Stored]
    BY <1>5, <2>1 DEF Fields!Over
  <2>3. DOMAIN y.text \cup {t} \in SUBSET Card
    BY <1>2, <2>1
  <2>4. text \in Texts
    BY <2>2, <2>3 DEF Texts
  <2> QED
    BY <1>4, <2>2, <2>4 DEF Fields!Over
<1>7. pc = "reindex" \/ (pc = "commit" /\ y.todo \ {t} = {})
  OBVIOUS
<1> HIDE DEF text, pc
<1>8. x \in HandlerRecord
  BY <1>2, <1>6, <1>7 DEF HandlerRecord
<1>9. /\ x.pc = pc /\ x.rows = y.rows /\ x.new = y.new /\ x.todo = y.todo \ {t} /\ x.does = y.does
      /\ x.f = y.f /\ x.t = y.t /\ x.v = y.v /\ x.text = text
  BY <1>2 DEF HandlerRecord
<1> HIDE DEF x
<1>10. TextStands(x)
  <2>1. /\ x.does # None /\ x.f \in FieldId /\ field[x.f].row # "unused"
        /\ x.does # "delete" => x.t \in Card
        /\ x.does # "set" => x.v = None
        /\ x.does = "set" /\ Fields!Live(x.f) => Fits(x.f, x.v)
        /\ \A u \in Card, f \in FieldId : <<u, f>> \in x.rows => f = x.f
        /\ x.new => x.does = "set" /\ Fields!Live(x.f)
        /\ x.does = "set" /\ ~x.new => \A u \in Card : <<u, x.f>> \in x.rows => value[u][x.f] # None
    BY <1>2, <1>9 DEF TextStands
  <2>2. /\ \A u \in Card : (<<u, x.f>> \in x.rows) <=> (u \in x.todo \cup DOMAIN x.text)
        /\ x.pc = "commit" => x.todo = {}
    BY <1>1, <1>2, <1>6, <1>7, <1>9 DEF TextStands
  <2>3. ASSUME NEW u \in DOMAIN x.text PROVE x.text[u] = Fields!TextOf(RowSeen(x, u))
    <3>1. RowSeen(x, u) = RowSeen(y, u)
      BY <1>9 DEF RowSeen
    <3>2. CASE u = t
      BY <1>6, <1>9, <3>1, <3>2 DEF words
    <3>3. CASE u \in DOMAIN y.text
      BY <1>2, <1>6, <1>9, <3>1, <3>3 DEF TextStands
    <3> QED
      BY <1>6, <1>9, <3>2, <3>3
  <2>4. Deletes(x) => /\ Fields!Live(x.f)
                      /\ \A u \in Card : value[u][x.f] # None => <<u, x.f>> \in x.rows
    BY <1>2, <1>9 DEF TextStands, Deletes
  <2> QED
    BY <1>7, <1>9, <2>1, <2>2, <2>3, <2>4 DEF TextStands
<1>11. \A q \in Request \ {r} : Apart(x, fieldReq[q]) /\ Apart(fieldReq[q], x)
  <2> SUFFICES ASSUME NEW q \in Request \ {r} PROVE Apart(x, fieldReq[q]) /\ Apart(fieldReq[q], x)
    OBVIOUS
  <2>1. Apart(y, fieldReq[q]) /\ Apart(fieldReq[q], y)
    BY DEF FieldInv, y
  <2>2. t \notin DOMAIN fieldReq[q].text
    BY <1>1 DEF Fields!Rebuilt, Fields!Others
  <2>3. Deletes(x) => Deletes(y)
    BY <1>2, <1>9 DEF Deletes
  <2> QED
    BY <1>6, <1>9, <2>1, <2>2, <2>3 DEF Apart
<1> QED
  BY <1>2, <1>3, <1>8, <1>10, <1>11, HandlerStep

(* What a handler in flight has written and rests on stands while another touches neither
   the rows it holds nor the tasks it rebuilt. *)
LEMMA OthersStand ==
    ASSUME FieldInv, NEW q \in Request, fieldReq'[q] = fieldReq[q],
           fieldReq[q].f \in FieldId /\ field[fieldReq[q].f].row # "unused" =>
              /\ field'[fieldReq[q].f].row # "unused"
              /\ field'[fieldReq[q].f].row = "live" =>
                   Fields!Live(fieldReq[q].f) /\ field'[fieldReq[q].f].type = field[fieldReq[q].f].type,
           fieldReq[q].new \/ Deletes(fieldReq[q]) => field'[fieldReq[q].f].row = "live",
           \A t \in DOMAIN fieldReq[q].text : \A f \in FieldId : <<t, f>> \notin fieldReq[q].rows => value'[t][f] = value[t][f],
           \A t \in Card, f \in FieldId : <<t, f>> \in fieldReq[q].rows => value'[t][f] = value[t][f],
           Deletes(fieldReq[q]) /\ fieldReq[q].pc # "cascade" =>
              \A t \in Card : value'[t][fieldReq[q].f] # None => <<t, fieldReq[q].f>> \in fieldReq[q].rows
    PROVE  TextStands(fieldReq[q])'
<1> DEFINE x == fieldReq[q]
<1>1. TextStands(x) /\ x \in HandlerRecord /\ x.rows \in SUBSET (Card \X FieldId)
  BY FieldFacts
<1>2. fieldReq'[q] = x
  OBVIOUS
<1>3. /\ (x.pc \in {"idle", "write", "cascade"} =>
           x.rows = {} /\ x.todo = {} /\ DOMAIN x.text = {} /\ ~x.new)
      /\ (x.pc \in {"reindex", "commit"} =>
           /\ \A t \in Card : (<<t, x.f>> \in x.rows) <=> (t \in x.todo \cup DOMAIN x.text)
           /\ x.pc = "commit" => x.todo = {})
      /\ (x.pc = "cascade" => x.does = "delete")
      /\ (x.new => x.does = "set")
  BY <1>1 DEF TextStands
<1>4. (fieldReq[q].pc # "idle" =>
         /\ fieldReq[q].does # None /\ fieldReq[q].f \in FieldId /\ field[fieldReq[q].f].row # "unused"
         /\ fieldReq[q].does # "delete" => fieldReq[q].t \in Card
         /\ fieldReq[q].does # "set" => fieldReq[q].v = None
         /\ fieldReq[q].does = "set" /\ Fields!Live(fieldReq[q].f) => Fits(fieldReq[q].f, fieldReq[q].v)
         /\ \A t \in Card, f \in FieldId : <<t, f>> \in fieldReq[q].rows => f = fieldReq[q].f)'
  BY <1>1, <1>2 DEF TextStands, Fields!Live, Fits
<1>5. \A t \in DOMAIN x.text : x.text[t] = Fields!TextOf([f \in FieldId |-> IF <<t, f>> \in x.rows THEN x.v ELSE value'[t][f]])
  <2> SUFFICES ASSUME NEW t \in DOMAIN x.text
               PROVE  x.text[t] = Fields!TextOf([f \in FieldId |-> IF <<t, f>> \in x.rows THEN x.v ELSE value'[t][f]])
    OBVIOUS
  <2>1. [f \in FieldId |-> IF <<t, f>> \in x.rows THEN x.v ELSE value'[t][f]] = RowSeen(x, t)
    BY DEF RowSeen
  <2> QED
    BY <1>1, <2>1 DEF TextStands
<1>6. x.does = "set" /\ ~x.new => \A t \in Card : <<t, x.f>> \in x.rows => value'[t][x.f] # None
  BY <1>1 DEF TextStands
<1>7. /\ Deletes(x) /\ x.pc # "cascade" => \A t \in Card : value'[t][x.f] # None => <<t, x.f>> \in x.rows
      /\ x.new \/ Deletes(x) => field'[x.f].row = "live"
  OBVIOUS
<1>8. (\A t \in DOMAIN fieldReq[q].text : fieldReq[q].text[t] = Fields!TextOf(RowSeen(fieldReq[q], t)))'
  <2>1. \A t \in DOMAIN fieldReq'[q].text : fieldReq'[q].text[t] =
           Fields!TextOf([f \in FieldId |-> IF <<t, f>> \in fieldReq'[q].rows THEN fieldReq'[q].v ELSE value'[t][f]])
    BY <1>2, <1>5
  <2> QED
    BY <2>1 DEF RowSeen, Fields!TextOf
<1> HIDE DEF x
<1>9. (x.pc = "cascade" => x.does = "delete") /\ (x.new => x.does = "set" /\ field'[x.f].row = "live")
  BY <1>3, <1>7
<1>10. (/\ fieldReq[q].pc \in {"idle", "write", "cascade"} =>
             fieldReq[q].rows = {} /\ fieldReq[q].todo = {} /\ DOMAIN fieldReq[q].text = {} /\ ~fieldReq[q].new
        /\ fieldReq[q].pc \in {"reindex", "commit"} =>
             /\ \A t \in Card : (<<t, fieldReq[q].f>> \in fieldReq[q].rows) <=> (t \in fieldReq[q].todo \cup DOMAIN fieldReq[q].text)
             /\ fieldReq[q].pc = "commit" => fieldReq[q].todo = {})'
  BY <1>2, <1>3
<1>12. (/\ fieldReq[q].new => fieldReq[q].does = "set" /\ Fields!Live(fieldReq[q].f)
        /\ fieldReq[q].does = "set" /\ ~fieldReq[q].new => \A t \in Card : <<t, fieldReq[q].f>> \in fieldReq[q].rows => value[t][fieldReq[q].f] # None
        /\ fieldReq[q].pc = "cascade" => fieldReq[q].does = "delete")'
  BY <1>2, <1>6, <1>9 DEF Fields!Live
<1>13. (Deletes(fieldReq[q]) =>
         /\ Fields!Live(fieldReq[q].f)
         /\ fieldReq[q].pc # "cascade" => \A t \in Card : value[t][fieldReq[q].f] # None => <<t, fieldReq[q].f>> \in fieldReq[q].rows)'
  BY <1>2, <1>7 DEF Fields!Live, Deletes
<1> QED
  BY <1>4, <1>8, <1>10, <1>12, <1>13 DEF TextStands

(* A transaction ends, and everything it wrote is there at once. *)
LEMMA CommitFieldInv ==
    ASSUME FieldInv, NEW r \in Request, Fields!Commit(r), FieldsApart
    PROVE  FieldInv'
<1> DEFINE y == fieldReq[r]
           gone == [Fields!Absent EXCEPT !.row = "deleted"]
<1>1. /\ y.pc = "commit" /\ y \in HandlerRecord /\ TextStands(y) /\ y.f \in FieldId /\ y.todo = {}
      /\ y.rows \in SUBSET (Card \X FieldId) /\ y.v \in Fields!Stored \cup {None} /\ DOMAIN y.text \subseteq Card
      /\ y.text \in Texts
      /\ \A t \in Card, f \in FieldId : <<t, f>> \in y.rows => f = y.f
      /\ \A t \in Card : (<<t, y.f>> \in y.rows) <=> (t \in DOMAIN y.text)
      /\ field \in [FieldId -> FieldRow] /\ fieldReq \in [Request -> HandlerRecord]
  BY FieldFacts DEF Fields!Commit, TextStands
<1>2. /\ y.does # "set" => y.v = None
      /\ y.does = "set" /\ Fields!Live(y.f) => Fits(y.f, y.v)
      /\ y.new => y.does = "set" /\ Fields!Live(y.f)
      /\ y.does = "set" /\ ~y.new => \A t \in Card : <<t, y.f>> \in y.rows => value[t][y.f] # None
      /\ y.does = "delete" => Deletes(y) /\ Fields!Live(y.f)
      /\ y.does = "delete" => \A t \in Card : value[t][y.f] # None => <<t, y.f>> \in y.rows
  BY <1>1 DEF TextStands, Deletes
<1>3. \A q \in Request : fieldReq'[q] = IF q = r THEN Fields!Idle ELSE fieldReq[q]
  BY <1>1 DEF Fields!Commit
<1>4. \A t \in Card : /\ value'[t] = RowSeen(y, t)
                      /\ \A f \in FieldId : value'[t][f] = IF <<t, f>> \in y.rows THEN y.v ELSE value[t][f]
  BY DEF Fields!Commit, Fields!Seen, RowSeen
<1>5. /\ gone \in FieldRow /\ gone.row = "deleted"
  BY DEF Fields!Absent, FieldRow
<1>6. /\ field' \in [FieldId -> FieldRow]
      /\ \A f \in FieldId : field'[f] = IF y.does = "delete" /\ f = y.f THEN gone ELSE field[f]
  BY <1>1, <1>5 DEF Fields!Commit
<1> HIDE DEF gone, y
<1>7. \A f \in FieldId : Fields!Live(f)' => Fields!Live(f) /\ field'[f] = field[f] /\ ~(y.does = "delete" /\ f = y.f)
  BY <1>5, <1>6 DEF Fields!Live
<1>8. FieldShapes'
  <2>1. value' \in [Card -> [FieldId -> Fields!Stored \cup {None}]]
    <3>1. value' = [t \in Card |-> RowSeen(y, t)]
      BY DEF Fields!Commit, Fields!Seen, RowSeen, y
    <3>2. \A t \in Card : RowSeen(y, t) \in [FieldId -> Fields!Stored \cup {None}]
      BY <1>1, FieldFacts DEF RowSeen
    <3> QED
      BY <3>1, <3>2
  <2>2. index' \in [Card -> SUBSET Fields!Stored]
    <3>1. index' = [t \in DOMAIN y.text \cup DOMAIN index |-> IF t \in DOMAIN y.text THEN y.text[t] ELSE index[t]]
      BY DEF Fields!Commit, Fields!Over, y
    <3>2. index \in [Card -> SUBSET Fields!Stored] /\ DOMAIN index = Card
      BY FieldFacts
    <3>3. \A t \in DOMAIN y.text : y.text[t] \in SUBSET Fields!Stored
      BY <1>1 DEF Texts
    <3>4. DOMAIN y.text \cup DOMAIN index = Card
      BY <1>1, <3>2
    <3> QED
      BY <3>1, <3>2, <3>3, <3>4
  <2>3. fieldReq' \in [Request -> HandlerRecord]
    BY <1>1, IdleStands DEF Fields!Commit
  <2> QED
    BY <1>6, <2>1, <2>2, <2>3 DEF FieldShapes
<1>9. Fields!SearchHasTheValues'
  <2> SUFFICES ASSUME NEW t \in Card PROVE index'[t] = Fields!TextOf(value'[t])
    BY DEF Fields!SearchHasTheValues, Fields!TextOf
  <2>1. index'[t] = IF t \in DOMAIN y.text THEN y.text[t] ELSE index[t]
    BY FieldFacts DEF Fields!Commit, Fields!Over, y
  <2>2. CASE t \in DOMAIN y.text
    BY <1>1, <1>4, <2>1, <2>2 DEF TextStands
  <2>3. CASE t \notin DOMAIN y.text
    <3>1. \A f \in FieldId : <<t, f>> \notin y.rows
      BY <1>1, <2>3
    <3>2. \A f \in FieldId : value'[t][f] = value[t][f]
      BY <1>4, <3>1
    <3> QED
      BY <2>1, <2>3, <3>2 DEF FieldInv, Fields!SearchHasTheValues, Fields!TextOf
  <2> QED
    BY <2>2, <2>3
<1>10. ASSUME NEW t \in Card, NEW f \in FieldId, value'[t][f] # None
       PROVE  Fields!Live(f) /\ Fits(f, value'[t][f]) /\ Fields!Live(f)'
  <2>1. Fields!Live(f) /\ Fits(f, value'[t][f])
    <3>1. CASE <<t, f>> \in y.rows
      <4>1. f = y.f /\ value'[t][f] = y.v /\ y.does = "set"
        BY <1>1, <1>2, <1>4, <1>10, <3>1
      <4>2. Fields!Live(f)
        BY <1>2, <3>1, <4>1 DEF FieldInv, Fields!ValuesHaveFields
      <4> QED
        BY <1>2, <4>1, <4>2
    <3>2. CASE <<t, f>> \notin y.rows
      BY <1>4, <1>10, <3>2 DEF FieldInv, Fields!ValuesHaveFields, ValuesFit
    <3> QED
      BY <3>1, <3>2
  <2>2. ~(y.does = "delete" /\ f = y.f)
    <3>1. value'[t][f] = IF <<t, f>> \in y.rows THEN y.v ELSE value[t][f]
      BY <1>4
    <3> QED
      BY <1>2, <1>10, <3>1
  <2> QED
    BY <1>6, <2>1, <2>2 DEF Fields!Live
<1>11. Fields!ValuesHaveFields' /\ ValuesFit'
  <2>1. \A t \in Card, f \in FieldId : value'[t][f] # None => field'[f].row = "live"
    BY <1>10 DEF Fields!Live
  <2>2. \A t \in Card, f \in FieldId : value'[t][f] # None =>
           field'[f].type \in {"text", "select"} \/ \E s \in DOMAIN Numeral : value'[t][f] = Numeral[s]
    BY <1>7, <1>10 DEF Fits
  <2> QED
    BY <2>1, <2>2 DEF Fields!ValuesHaveFields, ValuesFit, Fields!Live, Fits
<1>12. DefsStand'
  <2> SUFFICES ASSUME NEW f \in FieldId, Fields!Live(f)'
               PROVE  /\ field'[f].name \in FieldName \cup {"story points"} /\ field'[f].type \in FieldType \cup {"number"}
                      /\ field'[f].type = "select" => Fields!OfferedOnce(field'[f].options)
    BY DEF DefsStand, Fields!OfferedOnce
  <2> QED
    BY <1>7 DEF FieldInv, DefsStand
<1>13. ASSUME NEW q \in Request PROVE TextStands(fieldReq[q])'
  <2>1. CASE q = r
    <3>1. fieldReq'[q] = Fields!Idle
      BY <1>3, <2>1
    <3> QED
      BY <3>1, IdleStands DEF TextStands, Deletes
  <2>2. CASE q # r
    <3>1. fieldReq'[q] = fieldReq[q] /\ Apart(fieldReq[q], y) /\ Apart(y, fieldReq[q])
      BY <1>3, <2>2 DEF FieldInv, y
    <3>2. fieldReq[q].f \in FieldId /\ field[fieldReq[q].f].row # "unused" =>
              /\ field'[fieldReq[q].f].row # "unused"
              /\ field'[fieldReq[q].f].row = "live" =>
                   Fields!Live(fieldReq[q].f) /\ field'[fieldReq[q].f].type = field[fieldReq[q].f].type
      BY <1>5, <1>6, <1>7 DEF Fields!Live
    <3>3. fieldReq[q].new \/ Deletes(fieldReq[q]) => field'[fieldReq[q].f].row = "live"
      <4>1. fieldReq[q].new \/ Deletes(fieldReq[q]) => Fields!Live(fieldReq[q].f) /\ fieldReq[q].f \in FieldId
        BY FieldFacts DEF TextStands, Deletes
      <4> QED
        BY <1>2, <1>6, <3>1, <4>1 DEF Apart, Fields!Live
    <3>4. \A t \in DOMAIN fieldReq[q].text : \A f \in FieldId : <<t, f>> \notin fieldReq[q].rows => value'[t][f] = value[t][f]
      <4> SUFFICES ASSUME NEW t \in DOMAIN fieldReq[q].text, NEW f \in FieldId PROVE value'[t][f] = value[t][f]
        OBVIOUS
      <4>1. t \in Card /\ t \notin DOMAIN y.text
        BY <3>1, FieldFacts DEF Apart
      <4>2. <<t, f>> \notin y.rows
        BY <1>1, <4>1
      <4> QED
        BY <1>4, <4>1, <4>2
    <3>5. \A t \in Card, f \in FieldId : <<t, f>> \in fieldReq[q].rows => value'[t][f] = value[t][f]
      BY <1>4, <3>1 DEF Apart
    <3>6. Deletes(fieldReq[q]) /\ fieldReq[q].pc # "cascade" =>
              \A t \in Card : value'[t][fieldReq[q].f] # None => <<t, fieldReq[q].f>> \in fieldReq[q].rows
      <4> SUFFICES ASSUME Deletes(fieldReq[q]), fieldReq[q].pc # "cascade", NEW t \in Card, value'[t][fieldReq[q].f] # None,
                          <<t, fieldReq[q].f>> \notin fieldReq[q].rows
                   PROVE  FALSE
        OBVIOUS
      <4>1. fieldReq[q].f \in FieldId /\ (value[t][fieldReq[q].f] # None => <<t, fieldReq[q].f>> \in fieldReq[q].rows)
        BY FieldFacts DEF TextStands, Deletes
      <4>2. <<t, fieldReq[q].f>> \in y.rows
        BY <1>4, <4>1
      <4>3. fieldReq[q].f = y.f /\ y.v # None
        BY <1>1, <1>4, <4>1, <4>2
      <4>4. ~y.new
        BY <3>1, <4>3 DEF Apart
      <4> QED
        BY <1>2, <4>1, <4>2, <4>3, <4>4
    <3> QED
      BY <3>1, <3>2, <3>3, <3>4, <3>5, <3>6, OthersStand
  <2> QED
    BY <2>1, <2>2
<1>14. ASSUME NEW p \in Request, NEW q \in Request, p # q PROVE Apart(fieldReq[p], fieldReq[q])'
  <2> DEFINE z == IF p = r THEN Fields!Idle ELSE fieldReq[p]
             w == IF q = r THEN Fields!Idle ELSE fieldReq[q]
  <2>1. fieldReq'[p] = z /\ fieldReq'[q] = w /\ Apart(z, w)
    BY <1>3, <1>14, IdleStands DEF FieldInv
  <2> HIDE DEF z, w
  <2> QED
    BY <2>1 DEF Apart, Deletes
<1> QED
  BY <1>8, <1>9, <1>11, <1>12, <1>13, <1>14 DEF FieldInv

(* A field made or changed: what is in flight and the values of the tasks refer to fields
   there are, and a field keeps its type. *)
LEMMA DefInv ==
    ASSUME FieldInv, NEW f \in FieldId, NEW row \in FieldRow, field' = [field EXCEPT ![f] = row],
           UNCHANGED <<value, index, fieldReq>>,
           row.row = "live", row.name \in FieldName \cup {"story points"}, row.type \in FieldType \cup {"number"},
           row.type = "select" => Fields!OfferedOnce(row.options),
           field[f].row = "unused" \/ (Fields!Live(f) /\ row.type = field[f].type)
    PROVE  FieldInv'
<1>1. \A g \in FieldId : field'[g] = IF g = f THEN row ELSE field[g]
  BY FieldFacts
<1>2. FieldShapes'
  BY DEF FieldInv, FieldShapes
<1>3. DefsStand'
  <2> SUFFICES ASSUME NEW g \in FieldId, field'[g].row = "live"
               PROVE  /\ field'[g].name \in FieldName \cup {"story points"} /\ field'[g].type \in FieldType \cup {"number"}
                      /\ field'[g].type = "select" => Fields!OfferedOnce(field'[g].options)
    BY DEF DefsStand, Fields!Live, Fields!OfferedOnce
  <2> QED
    BY <1>1 DEF FieldInv, DefsStand, Fields!Live
<1>4. \A t \in Card, g \in FieldId : value[t][g] # None =>
         Fields!Live(g) /\ Fits(g, value[t][g]) /\ field'[g].row = "live" /\ field'[g].type = field[g].type
  BY <1>1 DEF FieldInv, Fields!ValuesHaveFields, ValuesFit, Fields!Live
<1>5. Fields!ValuesHaveFields' /\ ValuesFit'
  BY <1>4 DEF Fields!ValuesHaveFields, ValuesFit, Fields!Live, Fits
<1>6. Fields!SearchHasTheValues'
  BY DEF FieldInv, Fields!SearchHasTheValues, Fields!TextOf
<1>7. ASSUME NEW q \in Request PROVE TextStands(fieldReq[q])'
  <2>1. fieldReq[q].f \in FieldId /\ field[fieldReq[q].f].row # "unused" =>
           /\ field'[fieldReq[q].f].row # "unused"
           /\ field'[fieldReq[q].f].row = "live" =>
                Fields!Live(fieldReq[q].f) /\ field'[fieldReq[q].f].type = field[fieldReq[q].f].type
    BY <1>1 DEF Fields!Live
  <2>2. fieldReq[q].new \/ Deletes(fieldReq[q]) => fieldReq[q].f \in FieldId /\ Fields!Live(fieldReq[q].f)
    BY FieldFacts DEF TextStands, Deletes
  <2>3. fieldReq[q].new \/ Deletes(fieldReq[q]) => field'[fieldReq[q].f].row = "live"
    BY <1>1, <2>2 DEF Fields!Live
  <2>4. Deletes(fieldReq[q]) /\ fieldReq[q].pc # "cascade" =>
           \A t \in Card : value'[t][fieldReq[q].f] # None => <<t, fieldReq[q].f>> \in fieldReq[q].rows
    BY FieldFacts DEF TextStands
  <2> QED
    BY <2>1, <2>3, <2>4, OthersStand
<1>8. \A p, q \in Request : p # q => Apart(fieldReq[p], fieldReq[q])'
  BY DEF FieldInv, Apart, Deletes
<1> QED
  BY <1>2, <1>3, <1>5, <1>6, <1>7, <1>8 DEF FieldInv

LEMMA CreateDefInv ==
    ASSUME FieldInv, NEW f \in FieldId, NEW name \in FieldName, NEW type \in FieldType, NEW options \in Options,
           Fields!CreateDef(f, name, type, options)
    PROVE  FieldInv'
<1> DEFINE row == [row |-> "live", name |-> name, type |-> type, options |-> options]
<1>1. row \in FieldRow
  BY DEF FieldRow
<1>2. row.row = "live" /\ row.name = name /\ row.type = type /\ row.options = options
  OBVIOUS
<1>3. /\ field[f].row = "unused" /\ field' = [field EXCEPT ![f] = row] /\ UNCHANGED <<value, index, fieldReq>>
      /\ type = "select" => Fields!OfferedOnce(options)
  BY DEF Fields!CreateDef, Fields!CheckOptions
<1> HIDE DEF row
<1> QED
  BY <1>1, <1>2, <1>3, DefInv

LEMMA UpdateDefInv ==
    ASSUME FieldInv, NEW f \in FieldId, NEW name \in FieldName, NEW options \in Options, Fields!UpdateDef(f, name, options)
    PROVE  FieldInv'
<1> DEFINE row == [field[f] EXCEPT !.name = name, !.options = options]
<1>1. field \in [FieldId -> FieldRow] /\ field[f] \in FieldRow /\ Fields!Live(f)
  BY FieldFacts DEF Fields!UpdateDef
<1>2. row \in FieldRow /\ row.row = "live" /\ row.name = name /\ row.type = field[f].type /\ row.options = options
  BY <1>1 DEF FieldRow, Fields!Live
<1>3. /\ field' = [field EXCEPT ![f] = row] /\ UNCHANGED <<value, index, fieldReq>>
      /\ field[f].type = "select" => Fields!OfferedOnce(options)
  BY <1>1 DEF Fields!UpdateDef, Fields!CheckOptions
<1>4. field[f].type \in FieldType \cup {"number"}
  BY <1>1 DEF FieldInv, DefsStand
<1> HIDE DEF row
<1> QED
  BY <1>1, <1>2, <1>3, <1>4, DefInv

(* The points of an import: where the field is made for them no task has a value of it, and
   where it stands no handler has its row of the task, the task, or the field to take away. *)
LEMMA ImportPointsInv ==
    ASSUME FieldInv, NEW f \in FieldId, NEW t \in Card, NEW s \in DOMAIN Numeral, Fields!ImportPoints(f, t, Numeral[s])
    PROVE  FieldInv'
<1> DEFINE n == Numeral[s]
           made == [row |-> "live", name |-> "story points", type |-> "number", options |-> <<>>]
<1>1. n \in Fields!Stored
  BY DEF Fields!Stored
<1>2. made \in FieldRow /\ made.row = "live" /\ made.type = "number" /\ made.name = "story points"
  BY DEF FieldRow
<1>3. /\ Fields!Live(f) \/ field[f].row = "unused"
      /\ \A r \in Request : /\ <<t, f>> \notin fieldReq[r].rows /\ t \notin DOMAIN fieldReq[r].text
                            /\ fieldReq[r].does = "delete" /\ fieldReq[r].f = f => fieldReq[r].pc = "write"
      /\ field' = IF Fields!Live(f) THEN field ELSE [field EXCEPT ![f] = made]
      /\ value' = [value EXCEPT ![t][f] = n]
      /\ index' = [index EXCEPT ![t] = Fields!TextOf(value'[t])]
      /\ UNCHANGED fieldReq
  BY DEF Fields!ImportPoints
<1> HIDE DEF made
<1>4. /\ field' \in [FieldId -> FieldRow]
      /\ \A g \in FieldId : field'[g] = IF g = f /\ ~Fields!Live(f) THEN made ELSE field[g]
  BY <1>2, <1>3, FieldFacts
<1>5. /\ value' \in [Card -> [FieldId -> Fields!Stored \cup {None}]]
      /\ \A u \in Card, g \in FieldId : value'[u][g] = IF u = t /\ g = f THEN n ELSE value[u][g]
  BY <1>1, <1>3, FieldFacts
<1> HIDE DEF n
<1>6. /\ Fields!TextOf(value'[t]) \in SUBSET Fields!Stored
      /\ \A u \in Card : index'[u] = IF u = t THEN Fields!TextOf(value'[t]) ELSE index[u]
  <2>1. Fields!TextOf(value'[t]) \in SUBSET Fields!Stored
    BY <1>5 DEF Fields!TextOf
  <2> HIDE DEF Fields!TextOf
  <2> QED
    BY <1>3, <2>1, FieldFacts
<1>7. FieldShapes'
  <2>1. index' \in [Card -> SUBSET Fields!Stored]
    BY <1>3, <1>6, FieldFacts
  <2> QED
    BY <1>3, <1>4, <1>5, <2>1, FieldFacts DEF FieldShapes
<1>8. DefsStand'
  <2> SUFFICES ASSUME NEW g \in FieldId, field'[g].row = "live"
               PROVE  /\ field'[g].name \in FieldName \cup {"story points"} /\ field'[g].type \in FieldType \cup {"number"}
                      /\ field'[g].type = "select" => Fields!OfferedOnce(field'[g].options)
    BY DEF DefsStand, Fields!Live, Fields!OfferedOnce
  <2> QED
    BY <1>2, <1>4 DEF FieldInv, DefsStand, Fields!Live
<1>9. \A u \in Card, g \in FieldId : value'[u][g] # None =>
         /\ field'[g].row = "live"
         /\ field'[g].type \in {"text", "select"} \/ \E k \in DOMAIN Numeral : value'[u][g] = Numeral[k]
  <2> SUFFICES ASSUME NEW u \in Card, NEW g \in FieldId, value'[u][g] # None
               PROVE  /\ field'[g].row = "live"
                      /\ field'[g].type \in {"text", "select"} \/ \E k \in DOMAIN Numeral : value'[u][g] = Numeral[k]
    OBVIOUS
  <2>1. CASE u = t /\ g = f
    <3>1. field'[g].row = "live"
      BY <1>2, <1>4, <2>1 DEF Fields!Live
    <3>2. value'[u][g] = Numeral[s]
      BY <1>5, <2>1 DEF n
    <3> QED
      BY <3>1, <3>2
  <2>2. CASE ~(u = t /\ g = f)
    <3>1. value[u][g] # None /\ value'[u][g] = value[u][g]
      BY <1>5, <2>2
    <3>2. Fields!Live(g) /\ Fits(g, value[u][g])
      BY <3>1 DEF FieldInv, Fields!ValuesHaveFields, ValuesFit
    <3>3. field'[g] = field[g]
      BY <1>4, <3>2
    <3> QED
      BY <3>1, <3>2, <3>3 DEF Fields!Live, Fits
  <2> QED
    BY <2>1, <2>2
<1>10. Fields!ValuesHaveFields' /\ ValuesFit'
  BY <1>9 DEF Fields!ValuesHaveFields, ValuesFit, Fields!Live, Fits
<1>11. Fields!SearchHasTheValues'
  <2> SUFFICES ASSUME NEW u \in Card PROVE index'[u] = Fields!TextOf(value'[u])
    BY DEF Fields!SearchHasTheValues, Fields!TextOf
  <2>1. CASE u = t
    BY <1>6, <2>1
  <2>2. CASE u # t
    <3>1. \A g \in FieldId : value'[u][g] = value[u][g]
      BY <1>5, <2>2
    <3>2. Fields!TextOf(value'[u]) = Fields!TextOf(value[u])
      BY <3>1 DEF Fields!TextOf
    <3> QED
      BY <1>6, <2>2, <3>2 DEF FieldInv, Fields!SearchHasTheValues
  <2> QED
    BY <2>1, <2>2
<1>12. ASSUME NEW q \in Request PROVE TextStands(fieldReq[q])'
  <2>1. fieldReq'[q] = fieldReq[q]
    BY <1>3
  <2>2. fieldReq[q].f \in FieldId /\ field[fieldReq[q].f].row # "unused" =>
           /\ field'[fieldReq[q].f].row # "unused"
           /\ field'[fieldReq[q].f].row = "live" =>
                Fields!Live(fieldReq[q].f) /\ field'[fieldReq[q].f].type = field[fieldReq[q].f].type
    BY <1>3, <1>4 DEF Fields!Live
  <2>3. fieldReq[q].new \/ Deletes(fieldReq[q]) => fieldReq[q].f \in FieldId /\ Fields!Live(fieldReq[q].f)
    BY FieldFacts DEF TextStands, Deletes
  <2>4. fieldReq[q].new \/ Deletes(fieldReq[q]) => field'[fieldReq[q].f].row = "live"
    BY <1>4, <2>3 DEF Fields!Live
  <2>5. \A u \in DOMAIN fieldReq[q].text : \A g \in FieldId : <<u, g>> \notin fieldReq[q].rows => value'[u][g] = value[u][g]
    BY <1>3, <1>5, FieldFacts
  <2>6. \A u \in Card, g \in FieldId : <<u, g>> \in fieldReq[q].rows => value'[u][g] = value[u][g]
    BY <1>3, <1>5
  <2>7. Deletes(fieldReq[q]) /\ fieldReq[q].pc # "cascade" =>
           \A u \in Card : value'[u][fieldReq[q].f] # None => <<u, fieldReq[q].f>> \in fieldReq[q].rows
    <3> SUFFICES ASSUME Deletes(fieldReq[q]), fieldReq[q].pc # "cascade", NEW u \in Card, value'[u][fieldReq[q].f] # None
                 PROVE  <<u, fieldReq[q].f>> \in fieldReq[q].rows
      OBVIOUS
    <3>1. fieldReq[q].f \in FieldId /\ fieldReq[q].f # f
      BY <1>3, <2>3 DEF Deletes
    <3>2. value[u][fieldReq[q].f] # None
      BY <1>5, <3>1
    <3> QED
      BY <3>2, FieldFacts DEF TextStands
  <2> QED
    BY <2>1, <2>2, <2>4, <2>5, <2>6, <2>7, OthersStand
<1>13. \A p, q \in Request : p # q => Apart(fieldReq[p], fieldReq[q])'
  BY <1>3 DEF FieldInv, Apart, Deletes
<1> QED
  BY <1>7, <1>8, <1>10, <1>11, <1>12, <1>13 DEF FieldInv

LEMMA FieldNextInv ==
    ASSUME FieldsApart, FieldInv, [Fields!Next]_(Fields!vars)
    PROVE  FieldInv'
<1>1. ASSUME NEW f \in FieldId, NEW name \in FieldName, NEW options \in Options,
             (\E type \in FieldType : Fields!CreateDef(f, name, type, options)) \/ Fields!UpdateDef(f, name, options)
      PROVE  FieldInv'
  BY <1>1, CreateDefInv, UpdateDefInv
<1>2. ASSUME NEW f \in FieldId, NEW t \in Card, NEW s \in DOMAIN Numeral, Fields!ImportPoints(f, t, Numeral[s])
      PROVE  FieldInv'
  BY <1>2, ImportPointsInv
<1>3. ASSUME NEW r \in Request, NEW f \in FieldId,
             Fields!DeleteRead(r, f) \/ \E t \in Card :
                Fields!ClearRead(r, t, f) \/ \E raw \in Spelling : Fields!SetRead(r, t, f, raw)
      PROVE  FieldInv'
  BY <1>3, FieldReadInv
<1>4. ASSUME NEW r \in Request,
             Fields!Upsert(r) \/ Fields!Erase(r) \/ Fields!LockField(r) \/ Fields!Cascade(r) \/ Fields!Reindex(r) \/ Fields!Commit(r) \/ Fields!Abort(r)
      PROVE  FieldInv'
  BY <1>4, UpsertInv, EraseInv, LockFieldInv, CascadeInv, ReindexInv, CommitFieldInv, AbortFieldInv
<1>5. CASE UNCHANGED Fields!vars
  <2>1. UNCHANGED <<field, value, index, fieldReq>>
    BY <1>5 DEF Fields!vars
  <2>2. FieldShapes' /\ Fields!SearchHasTheValues'
    BY <2>1 DEF FieldInv, FieldShapes, Fields!SearchHasTheValues, Fields!TextOf
  <2>3. DefsStand' /\ ValuesFit' /\ Fields!ValuesHaveFields'
    BY <2>1 DEF FieldInv, DefsStand, Fields!OfferedOnce, ValuesFit, Fields!ValuesHaveFields,
       Fields!Live, Fits
  <2>4. ASSUME NEW r \in Request PROVE TextStands(fieldReq[r])'
    <3>1. /\ fieldReq[r].new \/ Deletes(fieldReq[r]) => Fields!Live(fieldReq[r].f)
          /\ Deletes(fieldReq[r]) /\ fieldReq[r].pc # "cascade" =>
               \A t \in Card : value[t][fieldReq[r].f] # None => <<t, fieldReq[r].f>> \in fieldReq[r].rows
      BY FieldFacts DEF TextStands, Deletes
    <3> QED
      BY <2>1, <3>1, OthersStand DEF Fields!Live
  <2>5. \A r, q \in Request : r # q => Apart(fieldReq[r], fieldReq[q])'
    BY <2>1 DEF FieldInv, Apart, Deletes
  <2> QED
    BY <2>2, <2>3, <2>4, <2>5 DEF FieldInv
<1>6. CASE Fields!Next
  BY <1>1, <1>2, <1>3, <1>4, <1>6 DEF Fields!Next
<1> QED
  BY <1>5, <1>6

(* What a field keeps of a value is what it makes of that value when it is asked for: the
   one choice spelled so, or a numeral that reads as itself. *)
LEMMA KeptValueIsCanonical ==
    ASSUME FieldsApart, FieldInv, NEW t \in Card, NEW f \in FieldId, value[t][f] # None,
           field[f].type = "select" => value[t][f] \in Fields!ToSet(field[f].options)
    PROVE  Fields!Live(f) /\ value[t][f] = Fields!Canonical(field[f].type, field[f].options, value[t][f])
<1> DEFINE v == value[t][f]
           o == field[f].options
           same == {i \in DOMAIN o : Fold[o[i]] = Fold[v]}
           c == Fields!Canonical(field[f].type, o, v)
<1>1. Fields!Live(f) /\ Fits(f, v)
  BY DEF FieldInv, Fields!ValuesHaveFields, ValuesFit
<1>2. CASE field[f].type = "text"
  BY <1>1, <1>2 DEF Fields!Canonical
<1>3. CASE field[f].type = "select"
  <2>1. c = IF same = {} THEN None ELSE o[Fields!Min(same)]
    BY <1>3 DEF Fields!Canonical
  <2>2. o \in Options \cup {<<>>}
    BY FieldFacts DEF FieldRow
  <2>3. DOMAIN o \subseteq Nat
    BY <2>2 DEF FieldsApart
  <2>4. PICK i \in DOMAIN o : v = o[i]
    BY <1>3, <2>2 DEF Fields!ToSet, FieldsApart
  <2>5. Fields!IsInjective([j \in DOMAIN o |-> Fold[o[j]]])
    BY <1>1, <1>3 DEF FieldInv, DefsStand, Fields!OfferedOnce
  <2> HIDE DEF o, v
  <2>6. same = {i}
    BY <2>4, <2>5 DEF Fields!IsInjective
  <2>7. Fields!Min(same) = i
    BY <2>3, <2>6 DEF Fields!Min
  <2>8. v = c
    BY <2>1, <2>4, <2>6, <2>7
  <2> QED
    BY <1>1, <2>8 DEF v, o
<1>4. CASE field[f].type \notin {"text", "select"}
  <2>1. PICK s \in DOMAIN Numeral : v = Numeral[s]
    BY <1>1, <1>4 DEF Fits
  <2>2. v \in DOMAIN Numeral /\ Numeral[v] = v
    BY <2>1 DEF FieldsApart
  <2> QED
    BY <1>1, <1>4, <2>2 DEF Fields!Canonical
<1> QED
  BY <1>2, <1>3, <1>4

LEMMA FieldInvFound == ASSUME FieldsApart, FieldInv PROVE Fields!FieldsAreFound
<1>1. ASSUME NEW t \in Card
      PROVE  LET shown == {f \in FieldId : value[t][f] # None /\
                             (field[f].type = "select" => value[t][f] \in Fields!ToSet(field[f].options))}
             IN t \in Fields!Matching({<<field[f].name, value[t][f]>> : f \in shown})
  <2> DEFINE shown == {f \in FieldId : value[t][f] # None /\
                         (field[f].type = "select" => value[t][f] \in Fields!ToSet(field[f].options))}
             pairs == {<<field[f].name, value[t][f]>> : f \in shown}
  <2>1. ASSUME NEW p \in pairs
        PROVE  \E f \in FieldId :
                 /\ Fields!Live(f) /\ Fold[field[f].name] = Fold[p[1]]
                 /\ value[t][f] # None /\ value[t][f] = Fields!Canonical(field[f].type, field[f].options, p[2])
    <3>1. PICK f \in shown : p = <<field[f].name, value[t][f]>>
      OBVIOUS
    <3>2. /\ f \in FieldId /\ value[t][f] # None /\ p[1] = field[f].name /\ p[2] = value[t][f]
          /\ field[f].type = "select" => value[t][f] \in Fields!ToSet(field[f].options)
      BY <3>1
    <3>3. Fields!Live(f) /\ value[t][f] = Fields!Canonical(field[f].type, field[f].options, value[t][f])
      BY <3>2, KeptValueIsCanonical
    <3> QED
      BY <3>2, <3>3
  <2> HIDE DEF pairs
  <2>2. t \in Fields!Matching(pairs)
    BY <2>1 DEF Fields!Matching
  <2> QED
    BY <2>2 DEF pairs
<1> QED
  BY <1>1 DEF FieldInv, Fields!FieldsAreFound, Fields!TasksAreFoundByTheirValues

LEMMA FieldInvTypes == FieldInv => Fields!TypeOK
<1> SUFFICES ASSUME FieldInv PROVE Fields!TypeOK
  OBVIOUS
<1>1. \A f \in FieldId : field[f] \in FieldRow
  BY FieldFacts
<1>2. \A f \in FieldId : field[f].row \in {"unused", "live", "deleted"}
  BY <1>1 DEF FieldRow
<1> QED
  BY <1>2, FieldFacts DEF Fields!TypeOK, FieldInv, DefsStand

LEMMA FieldsKeep == ASSUME FieldsApart PROVE OfficeSpec => []FieldInv
<1>1. OfficeInit => FieldInv
  BY FieldInitInv, FieldsSteps
<1>2. FieldInv /\ [OfficeNext]_officeVars => FieldInv'
  BY FieldNextInv, FieldsSteps
<1> QED
  BY <1>1, <1>2, PTL DEF OfficeSpec

(* Type correctness of the fields, their values, the search text of the tasks and the
   handlers in flight (domain/fields.rs). *)
THEOREM FieldsTyped == ASSUME FieldsApart PROVE OfficeSpec => []Fields!TypeOK
<1>1. FieldInv => Fields!TypeOK
  BY FieldInvTypes
<1> QED
  BY <1>1, FieldsKeep, PTL

(* However writes of values, deletions of fields and imports of points overlap, abort and
   wait for each other's rows: the search text of a task has the values it shows and no
   other, no value outlives its field, and a task is found by every value it shows that is
   still offered (domain/fields.rs, the triggers of its migration, the field filter of
   routes/tasks.rs). *)
THEOREM TasksFoundByFields == ASSUME FieldsApart PROVE OfficeSpec => []FieldsAreFound
<1>1. FieldInv => FieldsAreFound
  BY FieldInvFound DEF FieldsAreFound
<1> QED
  BY <1>1, FieldsKeep, PTL

----------------------------------------------------------------------------
(* Sums over finite sets.  What a sum is for every set takes an induction, *)
(* made here by hand: of bad subsets of a finite set there is one that     *)
(* is not bad with any element less.                                       *)

LEMMA SmallestBad ==
    ASSUME NEW S, IsFiniteSet(S), NEW Bad \in SUBSET SUBSET S, Bad # {}
    PROVE  \E s \in Bad : \A x \in s : s \ {x} \notin Bad
<1> DEFINE Sizes == {Cardinality(s) : s \in Bad}
<1>1. \A s \in SUBSET S : IsFiniteSet(s) /\ Cardinality(s) \in Nat
  BY FS_Subset, FS_CardinalityType
<1>2. Sizes \subseteq Nat /\ Sizes # {}
  BY <1>1
<1>3. PICK n \in Sizes : \A k \in Sizes : ~(<<k, n>> \in OpToRel(<, Nat))
  <2> HIDE DEF Sizes
  <2> QED
    BY <1>2, WFMin, NatLessThanWellFounded
<1>4. PICK s \in Bad : n = Cardinality(s)
  OBVIOUS
<1>5. ASSUME NEW x \in s, s \ {x} \in Bad
      PROVE  FALSE
  <2>1. Cardinality(s \ {x}) = n - 1 /\ n \in Nat /\ Cardinality(s \ {x}) \in Sizes
    BY <1>1, <1>4, <1>5, FS_RemoveElement
  <2> HIDE DEF Sizes
  <2>2. Cardinality(s \ {x}) < n
    BY <2>1
  <2> QED
    BY <1>2, <1>3, <2>1, <2>2 DEF OpToRel
<1> QED
  BY <1>4, <1>5

(* The function that a sum over S is a value of. *)
First(s) == CHOOSE x \in s : TRUE
Sums(f, g, S) ==
    f = [s \in SUBSET S |-> IF s = {} THEN 0 ELSE g[First(s)] + f[s \ {First(s)}]]
Sum(g, S) == (CHOOSE f : Sums(f, g, S))[S]

LEMMA FirstIn == ASSUME NEW s, s # {} PROVE First(s) \in s
  BY DEF First

LEMMA SumsStep ==
    ASSUME NEW S, NEW g, NEW f, Sums(f, g, S), NEW s \in SUBSET S
    PROVE  f[s] = IF s = {} THEN 0 ELSE g[First(s)] + f[s \ {First(s)}]
  BY DEF Sums

LEMMA SumsAgree ==
    ASSUME NEW S, IsFiniteSet(S), NEW T, NEW g, NEW f, NEW h, Sums(f, g, S), Sums(h, g, T)
    PROVE  \A s \in SUBSET (S \cap T) : f[s] = h[s]
<1> DEFINE Bad == {s \in SUBSET (S \cap T) : f[s] # h[s]}
<1> SUFFICES ASSUME Bad # {} PROVE FALSE
  OBVIOUS
<1>1. PICK s \in Bad : \A x \in s : s \ {x} \notin Bad
  <2>1. Bad \in SUBSET SUBSET S
    OBVIOUS
  <2> HIDE DEF Bad
  <2> QED
    BY <2>1, SmallestBad
<1>2. /\ f[s] = IF s = {} THEN 0 ELSE g[First(s)] + f[s \ {First(s)}]
      /\ h[s] = IF s = {} THEN 0 ELSE g[First(s)] + h[s \ {First(s)}]
  BY SumsStep
<1>3. s # {}
  BY <1>2
<1>4. First(s) \in s
  BY <1>3, FirstIn
<1>5. f[s \ {First(s)}] = h[s \ {First(s)}]
  BY <1>1, <1>4
<1> QED
  BY <1>2, <1>3, <1>5

LEMMA SumsExist ==
    ASSUME NEW S, IsFiniteSet(S), NEW g
    PROVE  \E f : Sums(f, g, S)
<1> DEFINE Bad == {T \in SUBSET S : ~\E f : Sums(f, g, T)}
<1> SUFFICES ASSUME Bad # {} PROVE FALSE
  OBVIOUS
<1>1. PICK T \in Bad : \A x \in T : T \ {x} \notin Bad
  <2>1. Bad \in SUBSET SUBSET S
    OBVIOUS
  <2> HIDE DEF Bad
  <2> QED
    BY <2>1, SmallestBad
<1> DEFINE F(x) == CHOOSE f : Sums(f, g, T \ {x})
           h == [s \in SUBSET T |-> IF s = {} THEN 0 ELSE g[First(s)] + F(First(s))[s \ {First(s)}]]
<1>2. T \in SUBSET S /\ IsFiniteSet(T)
  BY FS_Subset
<1>3. \A x \in T : Sums(F(x), g, T \ {x})
  <2> TAKE x \in T
  <2>1. \E f : Sums(f, g, T \ {x})
    BY <1>1
  <2> QED
    BY <2>1
<1>4. ASSUME NEW s \in SUBSET T, s # {}, NEW x \in T \ s
      PROVE  F(x)[s] = h[s]
  <2> DEFINE y == First(s)
  <2>1. y \in s /\ y \in T
    BY <1>4, FirstIn
  <2>2. F(x)[s] = g[y] + F(x)[s \ {y}]
    <3>1. Sums(F(x), g, T \ {x}) /\ s \in SUBSET (T \ {x})
      BY <1>3, <1>4
    <3>2. F(x)[s] = IF s = {} THEN 0 ELSE g[First(s)] + F(x)[s \ {First(s)}]
      <4> HIDE DEF F, y
      <4> QED
        BY <3>1, SumsStep
    <3> QED
      BY <1>4, <3>2
  <2>3. F(x)[s \ {y}] = F(y)[s \ {y}]
    <3>1. Sums(F(x), g, T \ {x}) /\ Sums(F(y), g, T \ {y}) /\ IsFiniteSet(T \ {x})
      BY <1>2, <1>3, <1>4, <2>1, FS_Subset
    <3>2. s \ {y} \in SUBSET ((T \ {x}) \cap (T \ {y}))
      BY <1>4
    <3> HIDE DEF F, y
    <3> QED
      BY <3>1, <3>2, SumsAgree
  <2>4. h[s] = g[y] + F(y)[s \ {y}]
    <3> HIDE DEF F
    <3> QED
      BY <1>4
  <2> QED
    BY <2>2, <2>3, <2>4
<1>5. ASSUME NEW s \in SUBSET T, s # {}
      PROVE  F(First(s))[s \ {First(s)}] = h[s \ {First(s)}]
  <2> DEFINE x == First(s)
  <2>1. x \in T
    BY <1>5, FirstIn
  <2> SUFFICES F(x)[s \ {x}] = h[s \ {x}]
    OBVIOUS
  <2>2. CASE s \ {x} # {}
    <3>1. s \ {x} \in SUBSET T /\ x \in T \ (s \ {x})
      BY <2>1
    <3> HIDE DEF h, F, x
    <3> QED
      BY <1>4, <2>2, <3>1
  <2>3. CASE s \ {x} = {}
    <3>1. Sums(F(x), g, T \ {x})
      BY <1>3, <2>1
    <3>2. F(x)[{}] = 0
      <4> HIDE DEF F, x
      <4> QED
        BY <3>1, SumsStep
    <3>3. h[{}] = 0
      <4> HIDE DEF F, x
      <4> QED
        OBVIOUS
    <3> HIDE DEF F, h
    <3> QED
      BY <2>3, <3>2, <3>3
  <2> QED
    BY <2>2, <2>3
<1>6. Sums(h, g, T)
  <2> HIDE DEF F
  <2> QED
    BY <1>5 DEF Sums
<1> QED
  BY <1>6

LEMMA SumIs ==
    ASSUME NEW S, IsFiniteSet(S), NEW g
    PROVE  Sums(CHOOSE f : Sums(f, g, S), g, S)
  BY SumsExist

LEMMA SumEmpty == ASSUME NEW g PROVE Sum(g, {}) = 0
<1> DEFINE a == CHOOSE f : Sums(f, g, {})
<1>1. Sums(a, g, {})
  BY FS_EmptySet, SumIs
<1>2. a[{}] = 0
  <2> HIDE DEF a
  <2> QED
    BY <1>1, SumsStep
<1> QED
  BY <1>2 DEF Sum

LEMMA SumFirst ==
    ASSUME NEW S, IsFiniteSet(S), S # {}, NEW g
    PROVE  Sum(g, S) = g[First(S)] + Sum(g, S \ {First(S)})
<1> DEFINE R == S \ {First(S)}
           a == CHOOSE f : Sums(f, g, S)
           b == CHOOSE f : Sums(f, g, R)
<1>1. Sums(a, g, S)
  BY SumIs
<1>2. IsFiniteSet(R) /\ R \in SUBSET S
  BY FS_Subset
<1>3. Sums(b, g, R)
  <2> HIDE DEF R
  <2> QED
    BY <1>2, SumIs
<1>4. a[S] = g[First(S)] + a[R]
  <2> HIDE DEF a
  <2> QED
    BY <1>1, SumsStep
<1>5. a[R] = b[R]
  <2>1. R \in SUBSET (S \cap R)
    BY <1>2
  <2> HIDE DEF a, b, R
  <2> QED
    BY <1>1, <1>2, <1>3, <2>1, SumsAgree
<1> QED
  BY <1>4, <1>5 DEF Sum

LEMMA SumType ==
    ASSUME NEW S, IsFiniteSet(S), NEW g, \A x \in S : g[x] \in Int
    PROVE  Sum(g, S) \in Int
<1> DEFINE Bad == {s \in SUBSET S : Sum(g, s) \notin Int}
<1> SUFFICES ASSUME Bad # {} PROVE FALSE
  <2>1. S \in SUBSET S
    OBVIOUS
  <2> QED
    BY <2>1
<1>1. PICK s \in Bad : \A x \in s : s \ {x} \notin Bad
  <2>1. Bad \in SUBSET SUBSET S
    OBVIOUS
  <2> HIDE DEF Bad
  <2> QED
    BY <2>1, SmallestBad
<1>2. s # {}
  BY SumEmpty
<1>3. First(s) \in s /\ IsFiniteSet(s) /\ s \in SUBSET S
  BY <1>2, FirstIn, FS_Subset
<1>4. Sum(g, s) = g[First(s)] + Sum(g, s \ {First(s)})
  BY <1>2, <1>3, SumFirst
<1>5. Sum(g, s \ {First(s)}) \in Int
  BY <1>1, <1>3
<1> QED
  BY <1>3, <1>4, <1>5

(* Any element may be the first. *)
LEMMA SumRemove ==
    ASSUME NEW S, IsFiniteSet(S), NEW g, \A x \in S : g[x] \in Int, NEW x \in S
    PROVE  Sum(g, S) = g[x] + Sum(g, S \ {x})
<1> DEFINE Bad == {s \in SUBSET S : \E z \in s : Sum(g, s) # g[z] + Sum(g, s \ {z})}
<1> SUFFICES ASSUME Bad # {} PROVE FALSE
  <2>1. S \in SUBSET S
    OBVIOUS
  <2> QED
    BY <2>1
<1>1. PICK s \in Bad : \A z \in s : s \ {z} \notin Bad
  <2>1. Bad \in SUBSET SUBSET S
    OBVIOUS
  <2> HIDE DEF Bad
  <2> QED
    BY <2>1, SmallestBad
<1>2. PICK z \in s : Sum(g, s) # g[z] + Sum(g, s \ {z})
  OBVIOUS
<1> DEFINE y == First(s)
<1>3. s \in SUBSET S /\ IsFiniteSet(s) /\ y \in s
  BY FirstIn, FS_Subset
<1>4. Sum(g, s) = g[y] + Sum(g, s \ {y})
  BY <1>3, SumFirst
<1>5. y # z
  BY <1>2, <1>4
<1> HIDE DEF y
<1>6. /\ Sum(g, s \ {y}) = g[z] + Sum(g, (s \ {y}) \ {z})
      /\ Sum(g, s \ {z}) = g[y] + Sum(g, (s \ {z}) \ {y})
  BY <1>1, <1>3, <1>5
<1>7. (s \ {y}) \ {z} = (s \ {z}) \ {y}
  OBVIOUS
<1>8. Sum(g, (s \ {z}) \ {y}) \in Int /\ g[y] \in Int /\ g[z] \in Int
  <2>1. IsFiniteSet((s \ {z}) \ {y})
    BY <1>3, FS_Subset
  <2>2. \A v \in (s \ {z}) \ {y} : g[v] \in Int
    BY <1>3
  <2> QED
    BY <1>3, <2>1, <2>2, SumType
<1>9. Sum(g, s \ {y}) = g[z] + Sum(g, (s \ {z}) \ {y})
  BY <1>6, <1>7
<1>10. Sum(g, s) = g[z] + Sum(g, s \ {z})
  BY <1>4, <1>6, <1>8, <1>9
<1> QED
  BY <1>2, <1>10

(* Sums of what is the same, less, added, or as many times more. *)
LEMMA SumSame ==
    ASSUME NEW S, IsFiniteSet(S), NEW g, NEW h, \A x \in S : g[x] = h[x]
    PROVE  Sum(g, S) = Sum(h, S)
<1> DEFINE Bad == {s \in SUBSET S : Sum(g, s) # Sum(h, s)}
<1> SUFFICES ASSUME Bad # {} PROVE FALSE
  <2>1. S \in SUBSET S
    OBVIOUS
  <2> QED
    BY <2>1
<1>1. PICK s \in Bad : \A x \in s : s \ {x} \notin Bad
  <2>1. Bad \in SUBSET SUBSET S
    OBVIOUS
  <2> HIDE DEF Bad
  <2> QED
    BY <2>1, SmallestBad
<1>2. s # {}
  BY SumEmpty
<1>3. First(s) \in s /\ IsFiniteSet(s) /\ s \in SUBSET S
  BY <1>2, FirstIn, FS_Subset
<1>4. /\ Sum(g, s) = g[First(s)] + Sum(g, s \ {First(s)})
      /\ Sum(h, s) = h[First(s)] + Sum(h, s \ {First(s)})
  BY <1>2, <1>3, SumFirst
<1>5. Sum(g, s \ {First(s)}) = Sum(h, s \ {First(s)})
  BY <1>1, <1>3
<1> QED
  BY <1>3, <1>4, <1>5

LEMMA SumSingle ==
    ASSUME NEW x, NEW g, g[x] \in Int
    PROVE  Sum(g, {x}) = g[x]
<1>1. IsFiniteSet({x}) /\ First({x}) = x
  BY FS_Singleton, FirstIn
<1>2. Sum(g, {x}) = g[x] + Sum(g, {x} \ {x})
  BY <1>1, SumFirst
<1> QED
  BY <1>2, SumEmpty

LEMMA SumAtMost ==
    ASSUME NEW S, IsFiniteSet(S), NEW g, NEW h,
           \A x \in S : g[x] \in Int /\ h[x] \in Int /\ g[x] <= h[x]
    PROVE  Sum(g, S) <= Sum(h, S)
<1> DEFINE Bad == {s \in SUBSET S : ~(Sum(g, s) <= Sum(h, s))}
<1> SUFFICES ASSUME Bad # {} PROVE FALSE
  <2>1. S \in SUBSET S
    OBVIOUS
  <2> QED
    BY <2>1
<1>1. PICK s \in Bad : \A x \in s : s \ {x} \notin Bad
  <2>1. Bad \in SUBSET SUBSET S
    OBVIOUS
  <2> HIDE DEF Bad
  <2> QED
    BY <2>1, SmallestBad
<1>2. s # {}
  <2>1. Sum(g, {}) = 0 /\ Sum(h, {}) = 0
    BY SumEmpty
  <2>2. Sum(g, {}) <= Sum(h, {})
    BY <2>1
  <2> QED
    BY <2>2
<1> DEFINE y == First(s)
<1>3. y \in s /\ IsFiniteSet(s) /\ s \in SUBSET S /\ IsFiniteSet(s \ {y})
  BY <1>2, FirstIn, FS_Subset
<1>4. Sum(g, s) = g[y] + Sum(g, s \ {y}) /\ Sum(h, s) = h[y] + Sum(h, s \ {y})
  BY <1>2, <1>3, SumFirst
<1> HIDE DEF y
<1>5. Sum(g, s \ {y}) <= Sum(h, s \ {y})
  BY <1>1, <1>3
<1>6. \A x \in s \ {y} : g[x] \in Int /\ h[x] \in Int
  BY <1>3
<1>7. Sum(g, s \ {y}) \in Int /\ Sum(h, s \ {y}) \in Int
  BY <1>3, <1>6, SumType
<1>8. g[y] \in Int /\ h[y] \in Int /\ g[y] <= h[y]
  BY <1>3
<1>9. Sum(g, s) <= Sum(h, s)
  BY <1>4, <1>5, <1>7, <1>8
<1> QED
  BY <1>9

LEMMA SumPlus ==
    ASSUME NEW S, IsFiniteSet(S), NEW g, NEW h, NEW k,
           \A x \in S : g[x] \in Int /\ h[x] \in Int /\ k[x] = g[x] + h[x]
    PROVE  Sum(k, S) = Sum(g, S) + Sum(h, S)
<1> DEFINE Bad == {s \in SUBSET S : Sum(k, s) # Sum(g, s) + Sum(h, s)}
<1> SUFFICES ASSUME Bad # {} PROVE FALSE
  <2>1. S \in SUBSET S
    OBVIOUS
  <2> QED
    BY <2>1
<1>1. PICK s \in Bad : \A x \in s : s \ {x} \notin Bad
  <2>1. Bad \in SUBSET SUBSET S
    OBVIOUS
  <2> HIDE DEF Bad
  <2> QED
    BY <2>1, SmallestBad
<1>2. s # {}
  <2>1. Sum(k, {}) = 0 /\ Sum(g, {}) = 0 /\ Sum(h, {}) = 0
    BY SumEmpty
  <2>2. Sum(k, {}) = Sum(g, {}) + Sum(h, {})
    BY <2>1
  <2> QED
    BY <2>2
<1> DEFINE y == First(s)
<1>3. y \in s /\ IsFiniteSet(s) /\ s \in SUBSET S /\ IsFiniteSet(s \ {y})
  BY <1>2, FirstIn, FS_Subset
<1>4. /\ Sum(g, s) = g[y] + Sum(g, s \ {y}) /\ Sum(h, s) = h[y] + Sum(h, s \ {y})
      /\ Sum(k, s) = k[y] + Sum(k, s \ {y})
  BY <1>2, <1>3, SumFirst
<1> HIDE DEF y
<1>5. Sum(k, s \ {y}) = Sum(g, s \ {y}) + Sum(h, s \ {y})
  BY <1>1, <1>3
<1>6. \A x \in s \ {y} : g[x] \in Int /\ h[x] \in Int
  BY <1>3
<1>7. Sum(g, s \ {y}) \in Int /\ Sum(h, s \ {y}) \in Int
  BY <1>3, <1>6, SumType
<1>8. g[y] \in Int /\ h[y] \in Int /\ k[y] = g[y] + h[y]
  BY <1>3
<1>9. Sum(k, s) = Sum(g, s) + Sum(h, s)
  BY <1>4, <1>5, <1>7, <1>8
<1> QED
  BY <1>9

LEMMA TimesPlus == ASSUME NEW a \in Int, NEW b \in Int, NEW c \in Int PROVE a * (b + c) = a * b + a * c
  OBVIOUS

LEMMA SumTimes ==
    ASSUME NEW S, IsFiniteSet(S), NEW a \in Int, NEW g, NEW h,
           \A x \in S : g[x] \in Int /\ h[x] = a * g[x]
    PROVE  Sum(h, S) = a * Sum(g, S)
<1> DEFINE Bad == {s \in SUBSET S : Sum(h, s) # a * Sum(g, s)}
<1> SUFFICES ASSUME Bad # {} PROVE FALSE
  <2>1. S \in SUBSET S
    OBVIOUS
  <2> QED
    BY <2>1
<1>1. PICK s \in Bad : \A x \in s : s \ {x} \notin Bad
  <2>1. Bad \in SUBSET SUBSET S
    OBVIOUS
  <2> HIDE DEF Bad
  <2> QED
    BY <2>1, SmallestBad
<1>2. s # {}
  <2>1. Sum(h, {}) = a * Sum(g, {})
    BY SumEmpty
  <2> QED
    BY <2>1
<1> DEFINE y == First(s)
<1>3. y \in s /\ IsFiniteSet(s) /\ s \in SUBSET S /\ IsFiniteSet(s \ {y})
  BY <1>2, FirstIn, FS_Subset
<1>4. Sum(g, s) = g[y] + Sum(g, s \ {y}) /\ Sum(h, s) = h[y] + Sum(h, s \ {y})
  BY <1>2, <1>3, SumFirst
<1> HIDE DEF y
<1>5. Sum(h, s \ {y}) = a * Sum(g, s \ {y})
  BY <1>1, <1>3
<1>6. \A x \in s \ {y} : g[x] \in Int
  BY <1>3
<1>7. Sum(g, s \ {y}) \in Int
  BY <1>3, <1>6, SumType
<1>8. g[y] \in Int /\ h[y] = a * g[y]
  BY <1>3
<1>9. Sum(h, s) = a * Sum(g, s)
  BY <1>4, <1>5, <1>7, <1>8, TimesPlus
<1> QED
  BY <1>9

(* As many ones as elements. *)
LEMMA SumOnes ==
    ASSUME NEW S, IsFiniteSet(S), NEW g, \A x \in S : g[x] = 1
    PROVE  Sum(g, S) = Cardinality(S)
<1> DEFINE Bad == {s \in SUBSET S : Sum(g, s) # Cardinality(s)}
<1> SUFFICES ASSUME Bad # {} PROVE FALSE
  <2>1. S \in SUBSET S
    OBVIOUS
  <2> QED
    BY <2>1
<1>1. PICK s \in Bad : \A x \in s : s \ {x} \notin Bad
  <2>1. Bad \in SUBSET SUBSET S
    OBVIOUS
  <2> HIDE DEF Bad
  <2> QED
    BY <2>1, SmallestBad
<1>2. s # {}
  BY SumEmpty, FS_EmptySet
<1> DEFINE y == First(s)
<1>3. y \in s /\ IsFiniteSet(s) /\ s \in SUBSET S
  BY <1>2, FirstIn, FS_Subset
<1>4. Sum(g, s) = g[y] + Sum(g, s \ {y})
  BY <1>2, <1>3, SumFirst
<1> HIDE DEF y
<1>5. Sum(g, s \ {y}) = Cardinality(s \ {y}) /\ g[y] = 1
  BY <1>1, <1>3
<1>6. Cardinality(s \ {y}) = Cardinality(s) - 1 /\ Cardinality(s) \in Nat
  BY <1>3, FS_RemoveElement, FS_CardinalityType
<1>7. Sum(g, s) = Cardinality(s)
  BY <1>4, <1>5, <1>6
<1> QED
  BY <1>7

(* What is split by a key and summed part by part. *)
LEMMA SumSplit ==
    ASSUME NEW S, IsFiniteSet(S), NEW K, IsFiniteSet(K), NEW g, NEW key,
           \A x \in S : g[x] \in Int /\ key[x] \in K
    PROVE  Sum(g, S) = Sum([u \in K |-> Sum(g, {x \in S : key[x] = u})], K)
<1> DEFINE Of(s, u) == {x \in s : key[x] = u}
           Parts(s) == [u \in K |-> Sum(g, Of(s, u))]
           Bad == {s \in SUBSET S : Sum(g, s) # Sum(Parts(s), K)}
<1> SUFFICES ASSUME Bad # {} PROVE FALSE
  <2>1. S \in SUBSET S
    OBVIOUS
  <2> HIDE DEF Parts
  <2>2. Sum(g, S) = Sum(Parts(S), K)
    BY <2>1
  <2> QED
    BY <2>2 DEF Parts
<1>1. PICK s \in Bad : \A x \in s : s \ {x} \notin Bad
  <2>1. Bad \in SUBSET SUBSET S
    OBVIOUS
  <2> HIDE DEF Bad
  <2> QED
    BY <2>1, SmallestBad
<1>2. s # {}
  <2>1. \A u \in K : Parts({})[u] = 0
    <3>1. \A u \in K : Of({}, u) = {}
      OBVIOUS
    <3> HIDE DEF Of
    <3> QED
      BY <3>1, SumEmpty
  <2>2. \A u \in K : Parts({})[u] \in Int /\ Parts({})[u] = 0 * Parts({})[u]
    <3> HIDE DEF Parts
    <3> QED
      BY <2>1
  <2>3. Sum(Parts({}), K) = 0 * Sum(Parts({}), K) /\ Sum(Parts({}), K) \in Int
    <3> HIDE DEF Parts
    <3>1. 0 \in Int
      OBVIOUS
    <3> QED
      BY <2>2, <3>1, SumTimes, SumType
  <2>4. Sum(Parts({}), K) = 0
    <3> HIDE DEF Parts
    <3> QED
      BY <2>3
  <2> HIDE DEF Parts
  <2> QED
    BY <2>4, SumEmpty
<1> DEFINE y == First(s)
           r == s \ {y}
           v == key[y]
<1>3. y \in s /\ IsFiniteSet(s) /\ s \in SUBSET S /\ IsFiniteSet(r) /\ r \in SUBSET S
  BY <1>2, FirstIn, FS_Subset
<1>4. Sum(g, s) = g[y] + Sum(g, r)
  BY <1>2, <1>3, SumFirst
<1>5. Sum(g, r) = Sum(Parts(r), K)
  <2> HIDE DEF Parts, y
  <2> QED
    BY <1>1, <1>3
<1> HIDE DEF y
<1>6. v \in K /\ g[y] \in Int
  BY <1>3
<1>7. \A t \in SUBSET S, u \in K : Sum(g, Of(t, u)) \in Int
  <2> TAKE t \in SUBSET S, u \in K
  <2>1. IsFiniteSet(Of(t, u)) /\ \A x \in Of(t, u) : g[x] \in Int
    BY FS_Subset
  <2> HIDE DEF Of
  <2> QED
    BY <2>1, SumType
<1>8. Parts(s)[v] = g[y] + Parts(r)[v]
  <2>1. IsFiniteSet(Of(s, v)) /\ y \in Of(s, v) /\ Of(s, v) \ {y} = Of(r, v)
        /\ \A x \in Of(s, v) : g[x] \in Int
    BY <1>3, FS_Subset
  <2> HIDE DEF Of, r, v
  <2>2. Sum(g, Of(s, v)) = g[y] + Sum(g, Of(r, v))
    BY <2>1, SumRemove
  <2> QED
    BY <1>6, <2>2
<1>9. \A u \in K \ {v} : Parts(s)[u] = Parts(r)[u]
  <2>1. \A u \in K \ {v} : Of(s, u) = Of(r, u)
    BY <1>3
  <2> HIDE DEF Of, r, v
  <2> QED
    BY <2>1
<1>10. \A u \in K : Parts(s)[u] \in Int /\ Parts(r)[u] \in Int
  <2> HIDE DEF Of, r
  <2> QED
    BY <1>3, <1>7
<1> HIDE DEF Parts, r, v
<1>11. /\ Sum(Parts(s), K) = Parts(s)[v] + Sum(Parts(s), K \ {v})
       /\ Sum(Parts(r), K) = Parts(r)[v] + Sum(Parts(r), K \ {v})
  BY <1>6, <1>10, SumRemove
<1>12. IsFiniteSet(K \ {v})
  BY FS_Subset
<1>13. Sum(Parts(s), K \ {v}) = Sum(Parts(r), K \ {v}) /\ Sum(Parts(r), K \ {v}) \in Int
  BY <1>9, <1>10, <1>12, SumSame, SumType
<1>14. Sum(g, s) = Sum(Parts(s), K)
  BY <1>4, <1>5, <1>6, <1>8, <1>10, <1>11, <1>13
<1> QED
  BY <1>14

(* SumFunction() is that sum. *)
LEMMA SumOfFunction ==
    ASSUME NEW g
    PROVE  Books!SumFunction(g) = Sum(g, DOMAIN g)
<1> DEFINE A(f) == f = [s \in SUBSET DOMAIN g |->
                          IF s = {} THEN 0
                          ELSE g[CHOOSE x \in s : TRUE] + f[s \ {CHOOSE x \in s : TRUE}]]
<1>1. Books!SumFunction(g) = (CHOOSE f : A(f))[DOMAIN g]
  BY DEF Books!SumFunction, Books!SumFunctionOnSet, Books!FoldFunctionOnSet, Books!MapThenFoldSet
<1>2. \A f : A(f) <=> Sums(f, g, DOMAIN g)
  BY DEF Sums, First
<1>3. (CHOOSE f : A(f)) = CHOOSE f : Sums(f, g, DOMAIN g)
  <2> HIDE DEF A
  <2> QED
    BY <1>2, Zenon
<1> QED
  BY <1>1, <1>3 DEF Sum

LEMMA SumNat ==
    ASSUME NEW S, IsFiniteSet(S), NEW g, \A x \in S : g[x] \in Nat
    PROVE  Sum(g, S) \in Nat
<1> DEFINE z == [x \in S |-> 0]
<1>1. \A x \in S : g[x] \in Int /\ z[x] \in Int /\ z[x] <= g[x]
  OBVIOUS
<1>2. \A x \in S : z[x] = 0 * g[x]
  BY <1>1
<1> HIDE DEF z
<1>3. Sum(z, S) <= Sum(g, S)
  BY <1>1, SumAtMost
<1>4. Sum(g, S) \in Int /\ Sum(z, S) \in Int
  BY <1>1, SumType
<1>5. 0 \in Int
  OBVIOUS
<1>6. Sum(z, S) = 0 * Sum(g, S)
  BY <1>1, <1>2, <1>5, SumTimes
<1> QED
  BY <1>3, <1>4, <1>6

(* Flooring each of the parts, by sixty, loses less than one a part. *)
LEMMA FloorsLose ==
    ASSUME NEW S, IsFiniteSet(S), NEW g, NEW q,
           \A x \in S : /\ g[x] \in Int /\ q[x] \in Int
                        /\ 60 * q[x] <= g[x] /\ g[x] <= 60 * q[x] + 59
    PROVE  60 * Sum(q, S) <= Sum(g, S) /\ Sum(g, S) <= 60 * Sum(q, S) + 59 * Cardinality(S)
<1> DEFINE low == [x \in S |-> 60 * q[x]]
           one == [x \in S |-> 1]
           lost == [x \in S |-> 59 * one[x]]
           high == [x \in S |-> low[x] + lost[x]]
<1>1. \A x \in S : /\ q[x] \in Int /\ low[x] = 60 * q[x] /\ low[x] \in Int
                   /\ one[x] = 1 /\ one[x] \in Int /\ lost[x] = 59 * one[x] /\ lost[x] \in Int
                   /\ high[x] = low[x] + lost[x] /\ high[x] \in Int
  OBVIOUS
<1>2. \A x \in S : g[x] \in Int /\ low[x] <= g[x] /\ g[x] <= high[x]
  <2> HIDE DEF low, one, lost, high
  <2> QED
    BY <1>1
<1> HIDE DEF low, one, lost, high
<1>3. Sum(low, S) <= Sum(g, S)
  BY <1>1, <1>2, SumAtMost
<1>4. Sum(g, S) <= Sum(high, S)
  BY <1>1, <1>2, SumAtMost
<1>5. 60 \in Int /\ 59 \in Int
  OBVIOUS
<1>6. Sum(low, S) = 60 * Sum(q, S)
  BY <1>1, <1>5, SumTimes
<1>7. Sum(lost, S) = 59 * Sum(one, S)
  BY <1>1, <1>5, SumTimes
<1>8. Sum(one, S) = Cardinality(S)
  BY <1>1, SumOnes
<1>9. Sum(high, S) = Sum(low, S) + Sum(lost, S)
  BY <1>1, SumPlus
<1> QED
  BY <1>3, <1>4, <1>6, <1>7, <1>8, <1>9

LEMMA FloorOf ==
    ASSUME NEW a \in Nat
    PROVE  a \div 60 \in Nat /\ 60 * (a \div 60) <= a /\ a <= 60 * (a \div 60) + 59
  OBVIOUS

LEMMA NaturalProduct == ASSUME NEW a \in Nat, NEW b \in Nat PROVE a * b \in Nat /\ (a = 0 \/ b = 0 => a * b = 0) /\ a * b = b * a
  OBVIOUS

----------------------------------------------------------------------------
(* Reports, payroll and invoices of logged time. *)

LEMMA BooksTyped == OfficeSpec => []Books!TypeOK
<1>1. OfficeInit => Books!TypeOK
  BY DEF OfficeInit, Books!Init, Books!TypeOK
<1>2. Books!TypeOK /\ [OfficeNext]_officeVars => Books!TypeOK'
  <2> SUFFICES ASSUME Books!TypeOK, [OfficeNext]_officeVars PROVE Books!TypeOK'
    OBVIOUS
  <2>1. Books!Next \/ UNCHANGED booksVars
    BY DEF OfficeNext, officeVars
  <2>2. CASE UNCHANGED booksVars
    BY <2>2 DEF booksVars, Books!TypeOK
  <2>3. ASSUME NEW l \in Log, Books!DeleteLog(l)
        PROVE  Books!TypeOK'
    BY <2>3 DEF Books!DeleteLog, Books!TypeOK
  <2>4. ASSUME NEW l \in Log, NEW row \in Books!LogRow, Books!LogTime(l, row)
        PROVE  Books!TypeOK'
    BY <2>4 DEF Books!LogTime, Books!TypeOK
  <2>5. ASSUME NEW p \in Books!Project, Books!SetProjectClient(p)
        PROVE  Books!TypeOK'
    BY <2>5 DEF Books!SetProjectClient, Books!TypeOK
  <2>6. ASSUME NEW u \in Worker, Books!PayrollMarkPaid(u) \/ Books!PayrollReopen(u)
        PROVE  Books!TypeOK'
    BY <2>6 DEF Books!PayrollMarkPaid, Books!PayrollReopen, Books!TypeOK
  <2> QED
    BY <2>1, <2>2, <2>3, <2>4, <2>5, <2>6 DEF Books!Next
<1> QED
  BY <1>1, <1>2, PTL DEF OfficeSpec

(* A duration is not negative by how the column is generated; rates are set outside the code. *)
BooksApart ==
    /\ IsFiniteSet(Log) /\ IsFiniteSet(Worker) /\ IsFiniteSet(Job) /\ Job # {}
    /\ Wage \in [Worker -> Nat] /\ Duration \subseteq Nat /\ None \notin Books!LogRow

(* Minutes, users, tasks and projects of the logs. *)
MinutesOf == [l \in Books!Closed |-> spent[l].minutes]
UserOf == [l \in Books!Closed |-> spent[l].user]
TaskOf == [l \in Books!Closed |-> spent[l].task]
PlaceOf == [l \in Books!Closed |-> JobProject[spent[l].task]]

LEMMA LogRows ==
    ASSUME BooksApart, Books!TypeOK
    PROVE  /\ IsFiniteSet(Books!Closed)
           /\ \A l \in Books!Closed :
                /\ MinutesOf[l] = spent[l].minutes /\ MinutesOf[l] \in Nat
                /\ UserOf[l] = spent[l].user /\ UserOf[l] \in Worker
                /\ TaskOf[l] = spent[l].task /\ TaskOf[l] \in Job
                /\ PlaceOf[l] = JobProject[spent[l].task] /\ PlaceOf[l] \in Books!Project
<1>1. Books!Closed \in SUBSET Log
  BY DEF Books!Closed
<1>2. IsFiniteSet(Books!Closed)
  BY <1>1, FS_Subset DEF BooksApart
<1>3. \A l \in Books!Closed : spent[l] \in Books!LogRow
  BY DEF Books!Closed, Books!TypeOK
<1>4. \A l \in Books!Closed :
        /\ spent[l].minutes \in Nat /\ spent[l].user \in Worker /\ spent[l].task \in Job
        /\ JobProject[spent[l].task] \in Books!Project
  BY <1>3 DEF Books!LogRow, Books!Project, BooksApart
<1> QED
  BY <1>2, <1>4 DEF MinutesOf, UserOf, TaskOf, PlaceOf

LEMMA ProjectsFinite ==
    ASSUME BooksApart
    PROVE  IsFiniteSet(Books!Project) /\ Cardinality(Books!Project) \in Nat \ {0}
<1> DEFINE f == [t \in Job |-> JobProject[t]]
<1>1. f \in Surjection(Job, Books!Project)
  BY DEF Books!Project, Surjection
<1>2. IsFiniteSet(Books!Project)
  <2> HIDE DEF f
  <2> QED
    BY <1>1, FS_Surjection DEF BooksApart
<1>3. Books!Project # {}
  BY DEF Books!Project, BooksApart
<1> QED
  BY <1>2, <1>3, FS_CardinalityType, FS_EmptySet

(* The minutes of any logs. *)
LEMMA MinutesAre ==
    ASSUME BooksApart, Books!TypeOK, NEW S \in SUBSET Books!Closed
    PROVE  Books!SumMinutes(S) = Sum(MinutesOf, S) /\ Sum(MinutesOf, S) \in Nat /\ IsFiniteSet(S)
<1> DEFINE m == [l \in S |-> spent[l].minutes]
<1>1. IsFiniteSet(S) /\ \A l \in S : MinutesOf[l] \in Nat /\ m[l] = MinutesOf[l]
  BY LogRows, FS_Subset
<1>2. Books!SumMinutes(S) = Sum(m, DOMAIN m)
  <2>1. Books!SumMinutes(S) = Books!SumFunction(m)
    BY DEF Books!SumMinutes
  <2> HIDE DEF m
  <2> QED
    BY <2>1, SumOfFunction
<1>3. DOMAIN m = S
  OBVIOUS
<1> HIDE DEF m
<1> QED
  BY <1>1, <1>2, <1>3, SumSame, SumNat

(* PayCents() floors, and guards against what is nothing. *)
LEMMA PayFloors ==
    ASSUME NEW m \in Nat, NEW r \in Nat
    PROVE  /\ Books!PayCents(m, r) \in Nat /\ m * r \in Nat
           /\ 60 * Books!PayCents(m, r) <= m * r /\ m * r <= 60 * Books!PayCents(m, r) + 59
<1> DEFINE a == m * r
<1>1. a \in Nat /\ (m = 0 \/ r = 0 => a = 0)
  BY NaturalProduct
<1>2. Books!PayCents(m, r) = IF r <= 0 \/ m <= 0 THEN 0 ELSE a \div 60
  BY DEF Books!PayCents
<1> HIDE DEF a
<1>3. CASE r <= 0 \/ m <= 0
  <2>1. a = 0 /\ Books!PayCents(m, r) = 0
    BY <1>1, <1>2, <1>3
  <2> QED
    BY <2>1 DEF a
<1>4. CASE ~(r <= 0 \/ m <= 0)
  <2>1. Books!PayCents(m, r) = a \div 60
    BY <1>2, <1>4
  <2>2. Books!PayCents(m, r) \in Nat /\ 60 * Books!PayCents(m, r) <= a /\ a <= 60 * Books!PayCents(m, r) + 59
    BY <1>1, <2>1, FloorOf
  <2> QED
    BY <1>1, <2>2 DEF a
<1> QED
  BY <1>3, <1>4

(* What is split into buckets adds up. *)
LEMMA SplitMinutes ==
    ASSUME BooksApart, Books!TypeOK, NEW S \in SUBSET Books!Closed, NEW K, IsFiniteSet(K), NEW key,
           \A l \in S : key[l] \in K
    PROVE  Books!SumMinutes(S) =
               Books!SumFunction([u \in K |-> Books!SumMinutes({l \in S : key[l] = u})])
<1> DEFINE share(u) == {l \in S : key[l] = u}
           h == [u \in K |-> Books!SumMinutes(share(u))]
           k == [u \in K |-> Sum(MinutesOf, share(u))]
<1>1. Books!SumMinutes(S) = Sum(MinutesOf, S) /\ IsFiniteSet(S)
  BY MinutesAre
<1>2. \A l \in S : MinutesOf[l] \in Int /\ key[l] \in K
  BY LogRows
<1>3. Sum(MinutesOf, S) = Sum(k, K)
  BY <1>1, <1>2, SumSplit
<1>4. \A u \in K : h[u] = k[u]
  <2>1. \A u \in K : share(u) \in SUBSET Books!Closed
    OBVIOUS
  <2> HIDE DEF share
  <2> QED
    BY <2>1, MinutesAre
<1>5. Books!SumFunction(h) = Sum(h, DOMAIN h) /\ DOMAIN h = K
  BY SumOfFunction
<1> HIDE DEF h, k
<1>6. Sum(h, K) = Sum(k, K)
  BY <1>4, SumSame
<1>7. Books!SumMinutes(S) = Books!SumFunction(h)
  BY <1>1, <1>3, <1>5, <1>6
<1> QED
  BY <1>7 DEF h

(* A report's splits by user and by task. *)
LEMMA ReportsAddUp ==
    ASSUME BooksApart, Books!TypeOK, NEW p \in Books!Project, NEW kind \in {"total", "billable"}
    PROVE  LET report == Books!TimeReport(p, MonthDay)
           IN  /\ report.all[kind] = Books!SumFunction([u \in Worker |-> report.users[u][kind]])
               /\ report.all[kind] = Books!SumFunction([t \in Job |-> report.tasks[t][kind]])
<1> DEFINE worked == Books!Of(p) \cap Books!In(MonthDay)
           S == IF kind = "total" THEN worked ELSE Books!Billable(worked)
           users == [u \in Worker |-> Books!ByUser(worked)[u][kind]]
           tasks == [t \in Job |-> Books!ByTask(worked)[t][kind]]
<1>1. worked \in SUBSET Books!Closed /\ S \in SUBSET Books!Closed
  BY DEF Books!Of, Books!In, Books!Billable
<1>2. \A l \in S : /\ UserOf[l] \in Worker /\ UserOf[l] = spent[l].user
                   /\ TaskOf[l] \in Job /\ TaskOf[l] = spent[l].task
  BY <1>1, LogRows
<1>3. Books!Bucket(worked)[kind] = Books!SumMinutes(S)
  <2> HIDE DEF worked
  <2> QED
    BY DEF Books!Bucket
<1>4. users = [u \in Worker |-> Books!SumMinutes({l \in S : UserOf[l] = u})]
  <2> SUFFICES ASSUME NEW u \in Worker
               PROVE  Books!ByUser(worked)[u][kind] = Books!SumMinutes({l \in S : UserOf[l] = u})
    OBVIOUS
  <2>1. {l \in S : UserOf[l] = u} =
          IF kind = "total" THEN worked \cap Books!By(u) ELSE Books!Billable(worked \cap Books!By(u))
    <3> HIDE DEF worked
    <3> QED
      BY <1>1, <1>2 DEF Books!Billable, Books!By
  <2>2. Books!ByUser(worked)[u] = Books!Bucket(worked \cap Books!By(u))
    <3> HIDE DEF worked
    <3> QED
      BY DEF Books!ByUser
  <2>3. Books!Bucket(worked \cap Books!By(u))[kind] =
          Books!SumMinutes(IF kind = "total" THEN worked \cap Books!By(u) ELSE Books!Billable(worked \cap Books!By(u)))
    <3> HIDE DEF worked
    <3> QED
      BY DEF Books!Bucket
  <2> HIDE DEF worked, S
  <2> QED
    BY <2>1, <2>2, <2>3
<1>5. tasks = [t \in Job |-> Books!SumMinutes({l \in S : TaskOf[l] = t})]
  <2> SUFFICES ASSUME NEW t \in Job
               PROVE  Books!ByTask(worked)[t][kind] = Books!SumMinutes({l \in S : TaskOf[l] = t})
    OBVIOUS
  <2>1. {l \in S : TaskOf[l] = t} =
          IF kind = "total" THEN {l \in worked : spent[l].task = t}
          ELSE Books!Billable({l \in worked : spent[l].task = t})
    <3> HIDE DEF worked
    <3> QED
      BY <1>1, <1>2 DEF Books!Billable
  <2>2. Books!ByTask(worked)[t] = Books!Bucket({l \in worked : spent[l].task = t})
    <3> HIDE DEF worked
    <3> QED
      BY DEF Books!ByTask
  <2>3. Books!Bucket({l \in worked : spent[l].task = t})[kind] =
          Books!SumMinutes(IF kind = "total" THEN {l \in worked : spent[l].task = t} ELSE Books!Billable({l \in worked : spent[l].task = t}))
    <3> HIDE DEF worked
    <3> QED
      BY DEF Books!Bucket
  <2> HIDE DEF worked, S
  <2> QED
    BY <2>1, <2>2, <2>3
<1>6. /\ Books!SumMinutes(S) = Books!SumFunction(users)
      /\ Books!SumMinutes(S) = Books!SumFunction(tasks)
  <2> HIDE DEF S, users, tasks
  <2> QED
    BY <1>1, <1>2, <1>4, <1>5, SplitMinutes DEF BooksApart
<1>7. /\ Books!TimeReport(p, MonthDay).all = Books!Bucket(worked)
      /\ Books!TimeReport(p, MonthDay).users = Books!ByUser(worked)
      /\ Books!TimeReport(p, MonthDay).tasks = Books!ByTask(worked)
  BY DEF Books!TimeReport
<1> HIDE DEF S, worked
<1> QED
  BY <1>3, <1>6, <1>7

(* The month of a user, in all and by project. *)
LEMMA DetailAddsUp ==
    ASSUME BooksApart, Books!TypeOK, NEW u \in Worker
    PROVE  /\ Books!MonthRow(u).minutes = Books!MonthDetail(u).minutes
           /\ Books!MonthRow(u).pay = Books!MonthDetail(u).pay
<1> DEFINE worked == Books!By(u) \cap Books!In(MonthDay)
           S(kind) == IF kind = "total" THEN worked ELSE Books!Billable(worked)
           lines == [p \in Books!Project |-> Books!Bucket(Books!By(u) \cap Books!Of(p) \cap Books!In(MonthDay))]
           sum(kind) == Books!SumFunction([p \in Books!Project |-> lines[p][kind]])
<1>1. ASSUME NEW kind \in {"total", "billable"}
      PROVE  Books!SumMinutes(S(kind)) = sum(kind)
  <2> DEFINE g == [p \in Books!Project |-> lines[p][kind]]
             Z == S(kind)
  <2>1. worked \in SUBSET Books!Closed /\ Z \in SUBSET Books!Closed
    BY DEF Books!By, Books!In, Books!Billable
  <2>2. \A l \in Z : PlaceOf[l] \in Books!Project /\ PlaceOf[l] = JobProject[spent[l].task]
    BY <2>1, LogRows
  <2>3. g = [p \in Books!Project |-> Books!SumMinutes({l \in Z : PlaceOf[l] = p})]
    <3> SUFFICES ASSUME NEW p \in Books!Project
                 PROVE  lines[p][kind] = Books!SumMinutes({l \in Z : PlaceOf[l] = p})
      OBVIOUS
    <3> DEFINE of == Books!By(u) \cap Books!Of(p) \cap Books!In(MonthDay)
    <3>1. {l \in Z : PlaceOf[l] = p} = IF kind = "total" THEN of ELSE Books!Billable(of)
      BY <2>1, <2>2 DEF Books!Billable, Books!Of, Books!By, Books!In
    <3>2. lines[p] = Books!Bucket(of)
      OBVIOUS
    <3> HIDE DEF of, Z, lines
    <3> QED
      BY <3>1, <3>2 DEF Books!Bucket
  <2>4. Books!SumMinutes(Z) = Books!SumFunction(g)
    <3> HIDE DEF Z, g
    <3> QED
      BY <2>1, <2>2, <2>3, ProjectsFinite, SplitMinutes
  <2> QED
    BY <2>4
<1>2. /\ Books!MonthRow(u).minutes = Books!Bucket(worked)
      /\ Books!MonthRow(u).pay = Books!PayCents(Books!SumMinutes(Books!Billable(worked)), Wage[u])
  BY DEF Books!MonthRow
<1>3. /\ Books!MonthDetail(u).minutes = [total |-> sum("total"), billable |-> sum("billable")]
      /\ Books!MonthDetail(u).pay = Books!PayCents(sum("billable"), Wage[u])
  BY DEF Books!MonthDetail
<1>4. Books!SumMinutes(worked) = sum("total") /\ Books!SumMinutes(Books!Billable(worked)) = sum("billable")
  <2>1. S("total") = worked /\ S("billable") = Books!Billable(worked)
    OBVIOUS
  <2> HIDE DEF S, sum, worked
  <2> QED
    BY <1>1, <2>1
<1> HIDE DEF worked, sum
<1> QED
  BY <1>2, <1>3, <1>4 DEF Books!Bucket

(* What the logs of one user earn, log by log and in all. *)
LogCents == [l \in Books!Closed |-> Books!LogPay(l)]

LEMMA LogPays ==
    ASSUME BooksApart, Books!TypeOK, NEW l \in Books!Closed
    PROVE  /\ LogCents[l] = Books!LogPay(l) /\ LogCents[l] \in Nat
           /\ Wage[UserOf[l]] * MinutesOf[l] \in Nat
           /\ 60 * LogCents[l] <= Wage[UserOf[l]] * MinutesOf[l]
           /\ Wage[UserOf[l]] * MinutesOf[l] <= 60 * LogCents[l] + 59
<1> DEFINE a == Wage[UserOf[l]] * MinutesOf[l]
<1>1. MinutesOf[l] \in Nat /\ Wage[UserOf[l]] \in Nat
  BY LogRows DEF BooksApart
<1>2. a \in Nat
  BY <1>1, NaturalProduct
<1>3. LogCents[l] = a \div 60 /\ LogCents[l] = Books!LogPay(l)
  BY LogRows DEF LogCents, Books!LogPay
<1> HIDE DEF a
<1>4. LogCents[l] \in Nat /\ 60 * LogCents[l] <= a /\ a <= 60 * LogCents[l] + 59
  BY <1>2, <1>3, FloorOf
<1> QED
  BY <1>2, <1>3, <1>4 DEF a

LEMMA UserFloors ==
    ASSUME BooksApart, Books!TypeOK, NEW u \in Worker, NEW S \in SUBSET Books!Closed,
           \A l \in S : UserOf[l] = u
    PROVE  LET pay == Books!PayCents(Books!SumMinutes(S), Wage[u])
           IN  /\ pay \in Nat /\ Sum(LogCents, S) \in Nat /\ Cardinality(S) \in Nat
               /\ Sum(LogCents, S) <= pay /\ pay <= Sum(LogCents, S) + Cardinality(S)
<1> DEFINE r == Wage[u]
           g == [l \in S |-> r * MinutesOf[l]]
           m == Sum(MinutesOf, S)
           a == m * r
           pay == Books!PayCents(m, r)
<1>1. r \in Nat /\ r \in Int
  BY DEF BooksApart
<1>2. Books!SumMinutes(S) = m /\ m \in Nat /\ IsFiniteSet(S)
  BY MinutesAre
<1>3. \A l \in S : /\ g[l] = r * MinutesOf[l] /\ g[l] \in Int /\ MinutesOf[l] \in Int
                   /\ LogCents[l] \in Int /\ LogCents[l] \in Nat
                   /\ 60 * LogCents[l] <= g[l] /\ g[l] <= 60 * LogCents[l] + 59
  <2> TAKE l \in S
  <2>1. g[l] = r * MinutesOf[l] /\ UserOf[l] = u /\ MinutesOf[l] \in Nat
    BY LogRows
  <2> HIDE DEF g
  <2> QED
    BY <2>1, LogPays
<1> HIDE DEF g
<1>4. Sum(g, S) = r * m
  <2> HIDE DEF r
  <2> QED
    BY <1>1, <1>2, <1>3, SumTimes
<1>5. 60 * Sum(LogCents, S) <= Sum(g, S) /\ Sum(g, S) <= 60 * Sum(LogCents, S) + 59 * Cardinality(S)
  BY <1>2, <1>3, FloorsLose
<1>6. Sum(LogCents, S) \in Nat /\ Cardinality(S) \in Nat
  BY <1>2, <1>3, SumNat, FS_CardinalityType
<1> HIDE DEF m, r
<1>7. a \in Nat /\ pay \in Nat /\ 60 * pay <= a /\ a <= 60 * pay + 59 /\ r * m = a
  BY <1>1, <1>2, PayFloors, NaturalProduct
<1> HIDE DEF a, pay
<1>8. Sum(LogCents, S) <= pay /\ pay <= Sum(LogCents, S) + Cardinality(S)
  BY <1>4, <1>5, <1>6, <1>7
<1> QED
  BY <1>2, <1>6, <1>7, <1>8 DEF pay, r

LEMMA SameCardinality == ASSUME NEW S PROVE Books!Cardinality(S) = Cardinality(S)
  BY DEF Books!Cardinality, Cardinality

(* What a report pays, in all and a user. *)
LEMMA ReportPay ==
    ASSUME NEW p, NEW period
    PROVE  Books!TimeReport(p, period).pay =
               Sum(Books!UserPay(Books!Of(p) \cap Books!In(period)), Worker)
<1> DEFINE worked == Books!Of(p) \cap Books!In(period)
<1>1. Books!TimeReport(p, period).pay = Books!SumFunction(Books!UserPay(worked))
  BY DEF Books!TimeReport
<1> HIDE DEF worked
<1>2. DOMAIN Books!UserPay(worked) = Worker
  BY DEF Books!UserPay
<1>3. Books!SumFunction(Books!UserPay(worked)) = Sum(Books!UserPay(worked), Worker)
  BY <1>2, SumOfFunction
<1> QED
  BY <1>1, <1>3 DEF worked

LEMMA UserPays ==
    ASSUME NEW worked, NEW u \in Worker
    PROVE  Books!UserPay(worked)[u] =
               Books!PayCents(Books!SumMinutes(Books!Billable(worked \cap Books!By(u))), Wage[u])
<1>1. Books!ByUser(worked)[u].billable = Books!SumMinutes(Books!Billable(worked \cap Books!By(u)))
  BY DEF Books!ByUser, Books!Bucket
<1> QED
  BY <1>1 DEF Books!UserPay

(* The burn of a project floors every log, its report every user. *)
LEMMA BurnLoses ==
    ASSUME BooksApart, Books!TypeOK, NEW p \in Books!Project
    PROVE  /\ Books!Burn(p) <= Books!TimeReport(p, MonthDay).pay
           /\ Books!TimeReport(p, MonthDay).pay - Books!Burn(p) <= Books!Cardinality(Books!Of(p))
<1> DEFINE worked == Books!Of(p) \cap Books!In(MonthDay)
           B == Books!Billable(worked)
           share(u) == {l \in B : UserOf[l] = u}
           F == [u \in Worker |-> Sum(LogCents, share(u))]
           one == [l \in B |-> 1]
           N == [u \in Worker |-> Sum(one, share(u))]
           H == [u \in Worker |-> F[u] + N[u]]
           P == Books!UserPay(worked)
           burnt == [l \in B |-> Books!LogPay(l)]
<1>1. B \in SUBSET Books!Closed /\ B \in SUBSET Books!Of(p) /\ Books!Of(p) \in SUBSET Books!Closed
  BY DEF Books!Billable, Books!Of, Books!In
<1>2. /\ IsFiniteSet(B) /\ IsFiniteSet(Books!Of(p)) /\ IsFiniteSet(Worker)
      /\ Cardinality(B) <= Cardinality(Books!Of(p))
      /\ Cardinality(B) \in Nat /\ Cardinality(Books!Of(p)) \in Nat
  <2> HIDE DEF B
  <2> QED
    BY <1>1, LogRows, FS_Subset, FS_CardinalityType DEF BooksApart
<1>3. Books!Burn(p) = Sum(LogCents, B)
  <2>1. Books!Burn(p) = Books!SumFunction(burnt)
    BY DEF Books!Burn
  <2>2. DOMAIN burnt = B /\ \A l \in B : burnt[l] = LogCents[l]
    BY <1>1, LogPays
  <2> HIDE DEF burnt, B
  <2> QED
    BY <1>2, <2>1, <2>2, SumOfFunction, SumSame
<1>4. \A l \in B : /\ UserOf[l] \in Worker /\ UserOf[l] = spent[l].user
                   /\ LogCents[l] \in Int /\ one[l] = 1 /\ one[l] \in Int
  <2>1. \A l \in B : one[l] = 1 /\ 1 \in Int
    OBVIOUS
  <2> HIDE DEF one, B
  <2> QED
    BY <1>1, <2>1, LogRows, LogPays
<1>5. Sum(LogCents, B) = Sum(F, Worker)
  <2> HIDE DEF B
  <2> QED
    BY <1>2, <1>4, SumSplit
<1>6. Cardinality(B) = Sum(N, Worker)
  <2> HIDE DEF B, one
  <2>1. Sum(one, B) = Sum(N, Worker)
    BY <1>2, <1>4, SumSplit
  <2>2. Sum(one, B) = Cardinality(B)
    BY <1>2, <1>4, SumOnes
  <2> QED
    BY <2>1, <2>2
<1>7. \A u \in Worker : F[u] \in Int /\ N[u] \in Int /\ P[u] \in Int /\ F[u] <= P[u] /\ P[u] <= F[u] + N[u]
  <2> TAKE u \in Worker
  <2>1. Books!Billable(worked \cap Books!By(u)) = share(u)
    BY <1>1, <1>4 DEF Books!Billable, Books!By
  <2>2. P[u] = Books!PayCents(Books!SumMinutes(share(u)), Wage[u])
    <3> HIDE DEF share
    <3> QED
      BY <2>1, UserPays
  <2>3. share(u) \in SUBSET Books!Closed /\ (\A l \in share(u) : UserOf[l] = u) /\ share(u) \in SUBSET B
    BY <1>1
  <2>4. IsFiniteSet(share(u)) /\ \A l \in share(u) : one[l] = 1
    <3> HIDE DEF share, B, one
    <3> QED
      BY <1>2, <1>4, <2>3, FS_Subset
  <2>5. F[u] = Sum(LogCents, share(u)) /\ N[u] = Sum(one, share(u))
    <3> HIDE DEF share, one
    <3> QED
      OBVIOUS
  <2> HIDE DEF share, F, N, P, one
  <2>6. N[u] = Cardinality(share(u))
    BY <2>4, <2>5, SumOnes
  <2> QED
    BY <2>2, <2>3, <2>5, <2>6, UserFloors
<1>8. Books!TimeReport(p, MonthDay).pay = Sum(P, Worker)
  BY ReportPay
<1>9. \A u \in Worker : H[u] = F[u] + N[u] /\ H[u] \in Int
  <2>1. \A u \in Worker : H[u] = F[u] + N[u]
    <3> HIDE DEF F, N
    <3> QED
      OBVIOUS
  <2> HIDE DEF F, N, H, P
  <2> QED
    BY <1>7, <2>1
<1> HIDE DEF F, N, H, P
<1>10. Sum(F, Worker) <= Sum(P, Worker) /\ Sum(P, Worker) <= Sum(H, Worker)
  <2>1. Sum(F, Worker) <= Sum(P, Worker)
    BY <1>2, <1>7, SumAtMost
  <2>2. \A u \in Worker : P[u] \in Int /\ H[u] \in Int /\ P[u] <= H[u]
    BY <1>7, <1>9
  <2>3. Sum(P, Worker) <= Sum(H, Worker)
    BY <1>2, <2>2, SumAtMost
  <2> QED
    BY <2>1, <2>3
<1>11. Sum(H, Worker) = Sum(F, Worker) + Sum(N, Worker)
  BY <1>2, <1>7, <1>9, SumPlus
<1>12. Sum(F, Worker) \in Int /\ Sum(P, Worker) \in Int
  BY <1>2, <1>7, SumType
<1>13. Books!Cardinality(Books!Of(p)) = Cardinality(Books!Of(p))
  BY SameCardinality
<1> HIDE DEF B
<1> QED
  BY <1>2, <1>3, <1>5, <1>6, <1>8, <1>10, <1>11, <1>12, <1>13

(* The lines of a user floor every project, the month of the user all of them. *)
LEMMA LinesLose ==
    ASSUME BooksApart, Books!TypeOK, NEW u \in Worker
    PROVE  LET lines == Books!SumFunction([p \in Books!Project |-> Books!LineOf(p, u, MonthDay).amount])
           IN  /\ lines <= Books!MonthRow(u).pay
               /\ Books!MonthRow(u).pay - lines < Books!Cardinality(Books!Project)
<1> DEFINE of(p) == Books!Billable(Books!Of(p) \cap Books!By(u) \cap Books!In(MonthDay))
           S == Books!Billable(Books!By(u) \cap Books!In(MonthDay))
           r == Wage[u]
           m == [p \in Books!Project |-> Books!SumMinutes(of(p))]
           g == [p \in Books!Project |-> r * m[p]]
           q == [p \in Books!Project |-> Books!LineOf(p, u, MonthDay).amount]
           M == Books!SumMinutes(S)
           pay == Books!PayCents(M, r)
           n == Cardinality(Books!Project)
           lines == Books!SumFunction(q)
<1>1. S \in SUBSET Books!Closed /\ \A p \in Books!Project : of(p) \in SUBSET Books!Closed
  BY DEF Books!Billable, Books!By, Books!In, Books!Of
<1>2. r \in Nat /\ r \in Int /\ n \in Nat \ {0} /\ IsFiniteSet(Books!Project)
  BY ProjectsFinite DEF BooksApart
<1>3. \A p \in Books!Project : m[p] \in Nat
  <2> HIDE DEF of
  <2> QED
    BY <1>1, MinutesAre
<1>4. M = Sum(m, Books!Project) /\ M \in Nat
  <2>1. \A p \in Books!Project : of(p) = {l \in S : PlaceOf[l] = p}
    BY LogRows DEF Books!Billable, Books!By, Books!In, Books!Of
  <2>2. m = [p \in Books!Project |-> Books!SumMinutes({l \in S : PlaceOf[l] = p})]
    <3> HIDE DEF of, S
    <3> QED
      BY <2>1
  <2>3. \A l \in S : PlaceOf[l] \in Books!Project
    <3> HIDE DEF S
    <3> QED
      BY <1>1, LogRows
  <2>4. DOMAIN m = Books!Project
    OBVIOUS
  <2> HIDE DEF S, m
  <2>5. Books!SumMinutes(S) = Books!SumFunction(m)
    BY <1>1, <1>2, <2>2, <2>3, SplitMinutes
  <2> QED
    BY <1>1, <2>4, <2>5, SumOfFunction, MinutesAre
<1>5. \A p \in Books!Project : /\ m[p] \in Int /\ g[p] = r * m[p] /\ g[p] \in Int /\ q[p] \in Int
                               /\ 60 * q[p] <= g[p] /\ g[p] <= 60 * q[p] + 59
  <2> TAKE p \in Books!Project
  <2>1. q[p] = Books!PayCents(m[p], r)
    <3>1. Books!LineOf(p, u, MonthDay).amount = Books!PayCents(Books!SumMinutes(of(p)), r)
      BY DEF Books!LineOf
    <3> HIDE DEF of, r
    <3> QED
      BY <3>1
  <2>2. g[p] = r * m[p]
    <3> HIDE DEF m, r
    <3> QED
      OBVIOUS
  <2> HIDE DEF m, r, q, g
  <2>3. /\ q[p] \in Nat /\ m[p] * r \in Nat /\ m[p] * r = r * m[p]
        /\ 60 * q[p] <= m[p] * r /\ m[p] * r <= 60 * q[p] + 59
    <3>1. m[p] \in Nat /\ r \in Nat
      BY <1>2, <1>3
    <3>2. m[p] * r \in Nat /\ m[p] * r = r * m[p]
      BY <3>1, NaturalProduct
    <3>3. /\ Books!PayCents(m[p], r) \in Nat
          /\ 60 * Books!PayCents(m[p], r) <= m[p] * r
          /\ m[p] * r <= 60 * Books!PayCents(m[p], r) + 59
      BY <3>1, PayFloors
    <3> QED
      BY <2>1, <3>2, <3>3
  <2> QED
    BY <1>3, <2>2, <2>3
<1>6. lines = Sum(q, Books!Project)
  <2>1. DOMAIN q = Books!Project
    OBVIOUS
  <2> HIDE DEF q
  <2> QED
    BY <2>1, SumOfFunction
<1> HIDE DEF m, g, q, M, r, n
<1>7. Sum(g, Books!Project) = r * M
  BY <1>2, <1>4, <1>5, SumTimes
<1>8. /\ 60 * Sum(q, Books!Project) <= Sum(g, Books!Project)
      /\ Sum(g, Books!Project) <= 60 * Sum(q, Books!Project) + 59 * n
  BY <1>2, <1>5, FloorsLose DEF n
<1>9. Sum(q, Books!Project) \in Int
  BY <1>2, <1>5, SumType
<1> DEFINE a == M * r
<1>10. pay \in Nat /\ a \in Nat /\ 60 * pay <= a /\ a <= 60 * pay + 59 /\ r * M = a
  BY <1>2, <1>4, PayFloors, NaturalProduct
<1>11. Books!MonthRow(u).pay = pay
  BY DEF Books!MonthRow, M, r
<1>12. Books!Cardinality(Books!Project) = n
  BY SameCardinality DEF n
<1> HIDE DEF a, pay, lines
<1>13. lines <= pay /\ pay - lines < n
  BY <1>2, <1>6, <1>7, <1>8, <1>9, <1>10
<1> QED
  BY <1>11, <1>12, <1>13 DEF lines, q

(* The lines of an invoice are those of its projects and users that come to something,
   so that they add up to the reports. *)
LEMMA InvoiceIsReports ==
    ASSUME BooksApart, Books!TypeOK, NEW period
    PROVE  Books!Total(Books!Lines(period)) =
               Books!SumFunction([p \in owned |-> Books!TimeReport(p, period).pay])
<1> DEFINE line(p, u) == Books!LineOf(p, u, period)
           amount(p, u) == line(p, u).amount
           L == Books!Lines(period)
           cents == [x \in L |-> x.amount]
           project == [x \in L |-> x.project]
           worker == [x \in L |-> x.user]
           Lp(p) == {x \in L : project[x] = p}
           Lu(p, u) == {x \in Lp(p) : worker[x] = u}
           pays == [p \in owned |-> Books!TimeReport(p, period).pay]
<1>1. owned \in SUBSET Books!Project /\ IsFiniteSet(owned) /\ IsFiniteSet(Worker)
  BY ProjectsFinite, FS_Subset DEF Books!TypeOK, BooksApart
<1>2. ASSUME NEW p \in owned, NEW u \in Worker
      PROVE  /\ amount(p, u) \in Nat /\ line(p, u).project = p /\ line(p, u).user = u
             /\ amount(p, u) = Books!UserPay(Books!Of(p) \cap Books!In(period))[u]
  <2> DEFINE S == Books!Billable(Books!Of(p) \cap Books!By(u) \cap Books!In(period))
             worked == Books!Of(p) \cap Books!In(period)
  <2>1. S \in SUBSET Books!Closed /\ S = Books!Billable(worked \cap Books!By(u))
    BY DEF Books!Billable, Books!By, Books!In, Books!Of
  <2>2. /\ amount(p, u) = Books!PayCents(Books!SumMinutes(S), Wage[u])
        /\ line(p, u).project = p /\ line(p, u).user = u
    BY DEF Books!LineOf
  <2>3. Books!SumMinutes(S) \in Nat /\ Wage[u] \in Nat
    <3> HIDE DEF S
    <3> QED
      BY <2>1, MinutesAre DEF BooksApart
  <2>4. Books!UserPay(worked)[u] = Books!PayCents(Books!SumMinutes(Books!Billable(worked \cap Books!By(u))), Wage[u])
    BY UserPays
  <2> HIDE DEF S, worked, line
  <2>5. amount(p, u) \in Nat /\ amount(p, u) = Books!UserPay(worked)[u]
    BY <2>1, <2>2, <2>3, <2>4, PayFloors
  <2> QED
    BY <2>2, <2>5 DEF worked
<1>3. /\ \A x \in L : \E p \in owned, u \in Worker : x = line(p, u) /\ amount(p, u) > 0
      /\ \A p \in owned, u \in Worker : amount(p, u) > 0 => line(p, u) \in L
  BY DEF Books!Lines
<1> HIDE DEF line
<1>4. \A x \in L : /\ x.project \in owned /\ x.user \in Worker /\ x.amount \in Nat
                   /\ x = line(x.project, x.user)
  <2> TAKE x \in L
  <2>1. PICK p \in owned, u \in Worker : x = line(p, u)
    BY <1>3
  <2> HIDE DEF L
  <2> QED
    BY <1>2, <2>1
<1> HIDE DEF L
<1>5. \A x \in L : /\ cents[x] = x.amount /\ cents[x] \in Int
                   /\ project[x] = x.project /\ project[x] \in owned
                   /\ worker[x] = x.user /\ worker[x] \in Worker
  BY <1>4
<1>6. IsFiniteSet(L)
  <2> DEFINE f == [x \in L |-> <<x.project, x.user>>]
  <2>1. f \in [L -> owned \X Worker]
    BY <1>4
  <2>2. \A x, y \in L : f[x] = f[y] => x = y
    BY <1>4
  <2>3. f \in Injection(L, owned \X Worker)
    <3> HIDE DEF f
    <3> QED
      BY <2>1, <2>2 DEF Injection, IsInjective
  <2>4. IsFiniteSet(owned \X Worker)
    BY <1>1, FS_Product
  <2> HIDE DEF f
  <2> QED
    BY <2>3, <2>4, FS_Injection
<1>7. Books!Total(L) = Sum(cents, L)
  <2>1. Books!Total(L) = Books!SumFunction(cents) /\ DOMAIN cents = L
    BY DEF Books!Total
  <2> HIDE DEF cents
  <2> QED
    BY <2>1, SumOfFunction
<1> HIDE DEF cents, project, worker
<1>8. Sum(cents, L) = Sum([p \in owned |-> Sum(cents, Lp(p))], owned)
  BY <1>1, <1>5, <1>6, SumSplit
<1>9. ASSUME NEW p \in owned
      PROVE  Sum(cents, Lp(p)) = Books!TimeReport(p, period).pay
  <2> DEFINE P == Books!UserPay(Books!Of(p) \cap Books!In(period))
             K == [u \in Worker |-> Sum(cents, Lu(p, u))]
  <2>1. IsFiniteSet(Lp(p)) /\ \A x \in Lp(p) : cents[x] \in Int /\ worker[x] \in Worker
    BY <1>5, <1>6, FS_Subset
  <2>2. Sum(cents, Lp(p)) = Sum(K, Worker)
    <3> HIDE DEF Lp
    <3> QED
      BY <1>1, <2>1, SumSplit
  <2>3. \A u \in Worker : K[u] = P[u]
    <3> TAKE u \in Worker
    <3>1. amount(p, u) \in Nat /\ P[u] = amount(p, u) /\ line(p, u).project = p /\ line(p, u).user = u
      BY <1>2
    <3>2. \A x \in Lu(p, u) : x \in L /\ x = line(p, u)
      BY <1>4, <1>5
    <3>3. K[u] = Sum(cents, Lu(p, u))
      <4> HIDE DEF Lu
      <4> QED
        OBVIOUS
    <3> HIDE DEF P, K
    <3>4. CASE amount(p, u) > 0
      <4>1. line(p, u) \in L
        BY <1>3, <3>4
      <4>2. line(p, u) \in Lu(p, u) /\ cents[line(p, u)] = amount(p, u)
        BY <1>5, <3>1, <4>1
      <4>3. Lu(p, u) = {line(p, u)}
        <5> HIDE DEF Lu
        <5> QED
          BY <3>2, <4>2
      <4> HIDE DEF Lu
      <4> QED
        BY <3>1, <3>3, <4>2, <4>3, SumSingle
    <3>5. CASE ~(amount(p, u) > 0)
      <4>1. amount(p, u) = 0
        BY <3>1, <3>5
      <4>2. Lu(p, u) = {}
        <5> SUFFICES ASSUME NEW x \in Lu(p, u) PROVE FALSE
          OBVIOUS
        <5>1. x \in L /\ x = line(p, u)
          BY <3>2
        <5>2. PICK v \in owned, w \in Worker : x = line(v, w) /\ amount(v, w) > 0
          BY <1>3, <5>1
        <5>3. amount(v, w) = amount(p, u)
          BY <5>1, <5>2
        <5> QED
          BY <3>5, <5>2, <5>3
      <4> HIDE DEF Lu
      <4> QED
        BY <3>1, <3>3, <4>1, <4>2, SumEmpty
    <3> QED
      BY <3>4, <3>5
  <2> HIDE DEF K, P
  <2>4. Sum(K, Worker) = Sum(P, Worker)
    BY <1>1, <2>3, SumSame
  <2> QED
    BY <2>2, <2>4, ReportPay DEF P
<1>10. Books!SumFunction(pays) = Sum(pays, owned)
  <2>1. DOMAIN pays = owned
    OBVIOUS
  <2> HIDE DEF pays
  <2> QED
    BY <2>1, SumOfFunction
<1>11. [p \in owned |-> Sum(cents, Lp(p))] = pays
  <2> HIDE DEF Lp
  <2> QED
    BY <1>9
<1> QED
  BY <1>7, <1>8, <1>10, <1>11 DEF L

LEMMA BooksAreRight == ASSUME BooksApart, Books!TypeOK PROVE Books!BooksAgree
<1>1. \A first, last \in MonthDay :
        Books!Total(Books!Lines(Books!Between(first, last))) =
            Books!SumFunction([p \in owned |-> Books!TimeReport(p, Books!Between(first, last)).pay])
  BY InvoiceIsReports
<1>2. \A p \in Books!Project :
        LET report == Books!TimeReport(p, MonthDay)
        IN  /\ \A kind \in {"total", "billable"} :
                 /\ report.all[kind] = Books!SumFunction([u \in Worker |-> report.users[u][kind]])
                 /\ report.all[kind] = Books!SumFunction([t \in Job |-> report.tasks[t][kind]])
            /\ Books!Burn(p) <= report.pay
            /\ report.pay - Books!Burn(p) <= Books!Cardinality(Books!Of(p))
  BY ReportsAddUp, BurnLoses
<1>3. \A u \in Worker :
        LET lines == Books!SumFunction([p \in Books!Project |-> Books!LineOf(p, u, MonthDay).amount])
        IN  /\ Books!MonthRow(u).minutes = Books!MonthDetail(u).minutes
            /\ Books!MonthRow(u).pay = Books!MonthDetail(u).pay
            /\ lines <= Books!MonthRow(u).pay
            /\ Books!MonthRow(u).pay - lines < Books!Cardinality(Books!Project)
  BY DetailAddsUp, LinesLose
<1> QED
  BY <1>1, <1>2, <1>3 DEF Books!BooksAgree

(* The accounts made of logged time agree, whatever is logged, by however many users at
   whatever rates, on however many tasks and projects: the total of an invoice is the
   pay in the reports of its projects, a report's splits add up, and flooring loses less
   than a cent a piece and never gains (domain/invoicing.rs, domain/time_report.rs,
   routes/payroll.rs). *)
THEOREM BooksAlwaysAgree == ASSUME BooksApart PROVE OfficeSpec => []BooksAgree
<1>1. Books!TypeOK => BooksAgree
  BY BooksAreRight DEF BooksAgree
<1> QED
  BY <1>1, BooksTyped, PTL

----------------------------------------------------------------------------
(* Charts.  An invariant relates the rows to what was remembered of every  *)
(* instant; what the pages rebuild from the rows is then what was.         *)

(* None is no instant, number or point of a chart. *)
ChartsApart ==
    /\ IsFiniteSet(Story) /\ StoryPoints \in [Story -> Int \cup {None}]
    /\ InstantsADay \in Nat \ {0} /\ Starts \in Nat /\ Ends \in Nat /\ LastInstant \in Nat
    /\ None \notin Int /\ None \notin {"done", "open"}
    /\ None \notin [scope: Int, done: Int, remaining: Int]

(* A finite set is put in order by a sequence. *)
LEMMA SetAsSeq ==
    ASSUME NEW S, IsFiniteSet(S)
    PROVE  /\ Charts!SetToSeq(S) \in Seq(S)
           /\ \A x \in S : \E i \in 1 .. Len(Charts!SetToSeq(S)) : Charts!SetToSeq(S)[i] = x
<1> DEFINE n == Cardinality(S)
           q == Charts!SetToSeq(S)
<1>1. n \in Nat /\ ExistsBijection(1 .. n, S)
  BY FS_CardinalityType
<1>2. PICK f \in [1 .. n -> S] : \A a, b \in 1 .. n : f[a] = f[b] => a = b
  BY <1>1 DEF ExistsBijection, Bijection, Injection, IsInjective
<1>3. Charts!IsInjective(f)
  BY <1>2 DEF Charts!IsInjective
<1>4. q \in [1 .. n -> S] /\ Charts!IsInjective(q)
  BY <1>3 DEF Charts!SetToSeq, Charts!Cardinality, Cardinality
<1> HIDE DEF q
<1>5. q \in Injection(1 .. n, S)
  BY <1>4 DEF Charts!IsInjective, Injection, IsInjective
<1>6. IsFiniteSet(1 .. n) /\ Cardinality(1 .. n) = n
  BY <1>1, FS_Interval
<1>7. q \in Surjection(1 .. n, S)
  BY <1>5, <1>6, FS_Injection
<1> HIDE DEF n
<1>8. \A x \in S : \E i \in 1 .. n : q[i] = x
  BY <1>7 DEF Surjection
<1>9. q \in Seq(S) /\ Len(q) = n
  BY <1>1, <1>4
<1> QED
  BY <1>8, <1>9 DEF q

(* What was remembered of an instant. *)
Moment == [within: SUBSET Story, done: SUBSET Story]

ChartShape == Charts!TypeOK /\ was \in Seq(Moment)

(* What scope events and snapshots tell of the past is how it was; a task is done since the
   last time it was not. *)
ScopeTold ==
    /\ \A i \in DOMAIN scope : scope[i].at <= instant
    /\ was[1].within = {} /\ was[instant + 1].within = within
    /\ \A t \in Story, at \in 0 .. instant : Charts!InAt(t, at) <=> t \in was[at + 1].within
DoneTold ==
    /\ \A t \in Story : doneAt[t] # None => doneAt[t] <= instant
    /\ \A t \in Story, at \in 0 .. instant :
         (\A i \in at .. instant : t \in was[i + 1].done) <=> doneAt[t] # None /\ doneAt[t] <= at
ClosingTold ==
    /\ charted.state = "planned" => charted.startedAt = None
    /\ charted.state # "planned" => charted.startedAt \in 1 .. instant
    /\ charted.state # "completed" => charted.completedAt = None /\ \A t \in Story : frozen[t] = None
    /\ charted.state = "completed" =>
         /\ charted.completedAt \in 1 .. instant /\ charted.startedAt < charted.completedAt
         /\ \A t \in Story :
              /\ frozen[t] # None =>
                   /\ t \in was[charted.completedAt].within
                   /\ frozen[t] = "done" <=> t \in was[charted.completedAt].done
              /\ t \in Charts!Live /\ t \in was[charted.completedAt].within => frozen[t] # None

ChartInv == ChartShape /\ ScopeTold /\ DoneTold /\ ClosingTold

----------------------------------------------------------------------------
LEMMA Greatest ==
    ASSUME NEW n \in Nat, NEW S \in SUBSET (1 .. n), S # {}
    PROVE  Charts!Max(S) \in S /\ \A x \in S : x <= Charts!Max(S)
<1> DEFINE T == {n - x : x \in S}
<1>1. T \subseteq Nat /\ T # {}
  <2>1. \A x \in S : x \in Nat /\ x <= n
    OBVIOUS
  <2>2. \A x \in S : n - x \in Nat
    BY <2>1
  <2> QED
    BY <2>2
<1>2. PICK t \in T : \A u \in T : ~(<<u, t>> \in OpToRel(<, Nat))
  <2> HIDE DEF T
  <2> QED
    BY <1>1, WFMin, NatLessThanWellFounded
<1>3. \A u \in T : ~(u < t)
  BY <1>1, <1>2 DEF OpToRel
<1>4. PICK x \in S : t = n - x
  OBVIOUS
<1>5. \A y \in S : ~(n - y < n - x) /\ x \in Int /\ y \in Int
  BY <1>3, <1>4
<1>6. \A y \in S : x >= y
  BY <1>5
<1>7. Charts!Max(S) \in S /\ \A y \in S : Charts!Max(S) >= y
  BY <1>6 DEF Charts!Max
<1> QED
  BY <1>7

(* The events a step adds are of the tasks that came or went, and say which. *)
EventsSay(T) ==
    /\ T \subseteq Story /\ within' = T
    /\ scope' \in Seq(Charts!ScopeEvent) /\ Len(scope) <= Len(scope')
    /\ \A i \in 1 .. Len(scope) : scope'[i] = scope[i]
    /\ \A i \in Len(scope) + 1 .. Len(scope') :
         /\ scope'[i].at = instant + 1 /\ (scope'[i].added <=> scope'[i].task \in T)
         /\ scope'[i].task \in within <=> scope'[i].task \notin T
    /\ \A t \in Story : (t \in within <=> t \notin T) =>
         \E i \in Len(scope) + 1 .. Len(scope') : scope'[i].task = t

LEMMA NewEvents ==
    ASSUME ChartsApart, ChartShape, NEW T \in SUBSET Story, NEW added \in BOOLEAN, instant < LastInstant
    PROVE  LET new == Charts!SetToSeq({Charts!Event(t, added) : t \in T})
           IN  /\ new \in Seq(Charts!ScopeEvent)
               /\ \A i \in 1 .. Len(new) : new[i].task \in T /\ new[i].added = added /\ new[i].at = instant + 1
               /\ \A t \in T : \E i \in 1 .. Len(new) : new[i].task = t
<1> DEFINE Ev(t) == Charts!Event(t, added)
           S == {Ev(t) : t \in T}
           f == [t \in T |-> Ev(t)]
           new == Charts!SetToSeq(S)
<1>1. \A t \in T : /\ Ev(t) \in Charts!ScopeEvent
                   /\ Ev(t).task = t /\ Ev(t).added = added /\ Ev(t).at = instant + 1
  BY DEF Charts!Event, Charts!ScopeEvent, Charts!TypeOK, Charts!Instant, Charts!At, ChartShape, ChartsApart
<1> HIDE DEF Ev
<1>2. f \in Surjection(T, S)
  BY DEF Surjection
<1>3. IsFiniteSet(T)
  BY FS_Subset DEF ChartsApart
<1>4. IsFiniteSet(S)
  <2> HIDE DEF f, S
  <2> QED
    BY <1>2, <1>3, FS_Surjection
<1>5. \A e \in S : e \in Charts!ScopeEvent /\ e.task \in T /\ e.added = added /\ e.at = instant + 1
  BY <1>1
<1>6. \A t \in T : \E e \in S : e.task = t
  BY <1>1
<1>7. new \in Seq(S) /\ \A x \in S : \E i \in 1 .. Len(new) : new[i] = x
  <2> HIDE DEF S
  <2> QED
    BY <1>4, SetAsSeq
<1> HIDE DEF new
<1>8. /\ new \in Seq(Charts!ScopeEvent)
      /\ \A i \in 1 .. Len(new) : new[i].task \in T /\ new[i].added = added /\ new[i].at = instant + 1
  <2> HIDE DEF S
  <2>1. \A i \in 1 .. Len(new) : new[i] \in S
    BY <1>7
  <2> QED
    BY <1>5, <1>7, <2>1
<1>9. \A t \in T : \E i \in 1 .. Len(new) : new[i].task = t
  <2> HIDE DEF S
  <2> QED
    BY <1>6, <1>7
<1> QED
  BY <1>8, <1>9 DEF new, S, Ev

LEMMA TasksInSay ==
    ASSUME ChartsApart, ChartShape, NEW T \in SUBSET Story, Charts!TasksIn(T), Charts!Remember
    PROVE  EventsSay(T)
<1> DEFINE gone == Charts!SetToSeq({Charts!Event(t, FALSE) : t \in within \ T})
           new == Charts!SetToSeq({Charts!Event(t, TRUE) : t \in T \ within})
           n == Len(scope)
           g == Len(gone)
           m == Len(new)
<1>1. /\ within \in SUBSET Story /\ scope \in Seq(Charts!ScopeEvent) /\ instant < LastInstant
      /\ within' = T /\ scope' = scope \o gone \o new
  BY DEF ChartShape, Charts!TypeOK, Charts!Remember, Charts!TasksIn
<1>2. /\ gone \in Seq(Charts!ScopeEvent)
      /\ \A i \in 1 .. g : gone[i].task \in within \ T /\ gone[i].added = FALSE /\ gone[i].at = instant + 1
      /\ \A t \in within \ T : \E i \in 1 .. g : gone[i].task = t
  <2>1. within \ T \in SUBSET Story /\ FALSE \in BOOLEAN
    BY <1>1
  <2> QED
    BY <1>1, <2>1, NewEvents
<1>3. /\ new \in Seq(Charts!ScopeEvent)
      /\ \A i \in 1 .. m : new[i].task \in T \ within /\ new[i].added = TRUE /\ new[i].at = instant + 1
      /\ \A t \in T \ within : \E i \in 1 .. m : new[i].task = t
  <2>1. T \ within \in SUBSET Story /\ TRUE \in BOOLEAN
    BY <1>1
  <2> QED
    BY <1>1, <2>1, NewEvents
<1> HIDE DEF gone, new
<1>4. /\ n \in Nat /\ g \in Nat /\ m \in Nat
      /\ scope' \in Seq(Charts!ScopeEvent) /\ Len(scope') = n + g + m
      /\ \A i \in 1 .. n : scope'[i] = scope[i]
      /\ \A i \in 1 .. g : scope'[n + i] = gone[i]
      /\ \A i \in 1 .. m : scope'[n + g + i] = new[i]
  <2>1. n \in Nat /\ g \in Nat /\ m \in Nat
    BY <1>1, <1>2, <1>3
  <2> DEFINE old == scope \o gone
  <2>2. /\ old \in Seq(Charts!ScopeEvent) /\ Len(old) = n + g
        /\ \A i \in 1 .. n : old[i] = scope[i]
    BY <1>1, <1>2
  <2>3. ASSUME NEW i \in 1 .. g
        PROVE  old[n + i] = gone[i]
    <3>1. n + i \in 1 .. Len(scope) + Len(gone) /\ ~(n + i <= Len(scope)) /\ (n + i) - Len(scope) = i
      BY <2>1
    <3> QED
      BY <1>1, <1>2, <3>1
  <2> HIDE DEF old
  <2>4. /\ scope' \in Seq(Charts!ScopeEvent) /\ Len(scope') = n + g + m
        /\ \A i \in 1 .. n + g : scope'[i] = old[i]
    BY <1>1, <1>3, <2>1, <2>2 DEF old
  <2>5. ASSUME NEW i \in 1 .. m
        PROVE  scope'[n + g + i] = new[i]
    <3>1. scope' = old \o new /\ n + g + i \in 1 .. Len(old) + Len(new) /\ ~(n + g + i <= Len(old))
          /\ (n + g + i) - Len(old) = i
      BY <1>1, <2>1, <2>2 DEF old
    <3> QED
      BY <1>3, <2>2, <3>1
  <2>6. \A i \in 1 .. n : i \in 1 .. n + g
    BY <2>1
  <2>7. \A i \in 1 .. g : n + i \in 1 .. n + g
    BY <2>1
  <2> HIDE DEF n, g, m
  <2> QED
    BY <2>1, <2>2, <2>3, <2>4, <2>5, <2>6, <2>7
<1> HIDE DEF n, g, m
<1>5. ASSUME NEW i \in n + 1 .. n + g + m
      PROVE  /\ scope'[i].at = instant + 1 /\ (scope'[i].added <=> scope'[i].task \in T)
             /\ scope'[i].task \in within <=> scope'[i].task \notin T
  <2>1. CASE i <= n + g
    <3>1. i - n \in 1 .. g /\ n + (i - n) = i
      BY <1>4, <2>1
    <3>2. scope'[i] = gone[i - n]
      BY <1>4, <3>1
    <3> QED
      BY <1>2, <3>1, <3>2 DEF g
  <2>2. CASE ~(i <= n + g)
    <3>1. i - (n + g) \in 1 .. m /\ n + g + (i - (n + g)) = i
      BY <1>4, <2>2
    <3>2. scope'[i] = new[i - (n + g)]
      BY <1>4, <3>1
    <3> QED
      BY <1>3, <3>1, <3>2 DEF m
  <2> QED
    BY <2>1, <2>2
<1>6. ASSUME NEW t \in Story, t \in within <=> t \notin T
      PROVE  \E i \in n + 1 .. n + g + m : scope'[i].task = t
  <2>1. CASE t \in within
    <3>1. PICK i \in 1 .. g : gone[i].task = t
      BY <1>2, <1>6, <2>1 DEF g
    <3>2. n + i \in n + 1 .. n + g + m /\ scope'[n + i] = gone[i]
      BY <1>4
    <3> QED
      BY <3>1, <3>2
  <2>2. CASE t \notin within
    <3>1. PICK i \in 1 .. m : new[i].task = t
      BY <1>3, <1>6, <2>2 DEF m
    <3>2. n + g + i \in n + 1 .. n + g + m /\ scope'[n + g + i] = new[i]
      BY <1>4
    <3> QED
      BY <3>1, <3>2
  <2> QED
    BY <2>1, <2>2
<1>7. Len(scope) <= Len(scope') /\ Len(scope') = n + g + m /\ Len(scope) = n
  BY <1>4 DEF n
<1> QED
  BY <1>1, <1>4, <1>5, <1>6, <1>7 DEF EventsSay

LEMMA NothingSaid ==
    ASSUME ChartShape, UNCHANGED <<within, scope>>
    PROVE  EventsSay(within)
<1>1. scope \in Seq(Charts!ScopeEvent) /\ within \in SUBSET Story /\ Len(scope) \in Nat
  BY DEF ChartShape, Charts!TypeOK
<1> QED
  BY <1>1 DEF EventsSay

LEMMA MomentRemembered ==
    ASSUME ChartsApart, ChartShape, Charts!Remember, within' \subseteq Story
    PROVE  /\ instant \in Nat /\ instant' = instant + 1 /\ instant' \in Charts!Instant
           /\ was' \in Seq(Moment) /\ Len(was') = instant' + 1
           /\ \A i \in 1 .. instant + 1 : was'[i] = was[i] /\ was[i] \in Moment
           /\ was'[instant' + 1].within = within'
           /\ was'[instant' + 1].done = {t \in Story : doneAt'[t] # None}
<1> DEFINE m == [within |-> within', done |-> {t \in Story : doneAt'[t] # None}]
<1>1. /\ m \in Moment /\ m.within = within' /\ m.done = {t \in Story : doneAt'[t] # None}
  BY DEF Moment
<1>2. /\ was' = Append(was, m) /\ was \in Seq(Moment) /\ Len(was) = instant + 1
      /\ instant \in 0 .. LastInstant /\ instant < LastInstant /\ instant' = instant + 1
  BY DEF Charts!Remember, ChartShape, Charts!TypeOK, Charts!Instant, Charts!At
<1> HIDE DEF m
<1>3. /\ was' \in Seq(Moment) /\ Len(was') = instant' + 1 /\ was'[instant' + 1] = m
      /\ \A i \in 1 .. instant + 1 : was'[i] = was[i] /\ was[i] \in Moment
  BY <1>1, <1>2
<1> QED
  BY <1>1, <1>2, <1>3 DEF Charts!Instant, ChartsApart

(* What is told of the past stays so, and the step is told of. *)
LEMMA ScopeStaysTold ==
    ASSUME ChartsApart, ChartShape, ScopeTold, Charts!Remember, NEW T, EventsSay(T)
    PROVE  ScopeTold'
<1> DEFINE n == Len(scope)
           N == Len(scope')
           E(t) == {i \in 1 .. n : scope[i].task = t}
           F(t) == {i \in 1 .. N : scope'[i].task = t}
           P(t, at) == {i \in E(t) : scope[i].at <= at}
           Q(t, at) == {i \in F(t) : scope'[i].at <= at}
           Before(t, at) == IF E(t) = {} THEN t \in within
                            ELSE P(t, at) # {} /\ scope[Charts!Max(P(t, at))].added
           After(t, at) == IF F(t) = {} THEN t \in T
                           ELSE Q(t, at) # {} /\ scope'[Charts!Max(Q(t, at))].added
<1>1. /\ scope \in Seq(Charts!ScopeEvent) /\ scope' \in Seq(Charts!ScopeEvent)
      /\ n \in Nat /\ N \in Nat /\ n <= N /\ T \subseteq Story /\ within' = T
      /\ DOMAIN scope = 1 .. n /\ DOMAIN scope' = 1 .. N
      /\ instant \in Nat /\ instant' = instant + 1
  BY MomentRemembered DEF EventsSay, ChartShape, Charts!TypeOK
<1>2. /\ was'[instant' + 1].within = T /\ \A i \in 1 .. instant + 1 : was'[i] = was[i]
  BY <1>1, MomentRemembered
<1>3. /\ \A i \in 1 .. n : scope'[i] = scope[i] /\ scope[i].at <= instant
      /\ \A i \in n + 1 .. N :
           /\ scope'[i].at = instant + 1 /\ (scope'[i].added <=> scope'[i].task \in T)
           /\ scope'[i].task \in within <=> scope'[i].task \notin T
      /\ \A t \in Story : (t \in within <=> t \notin T) => \E i \in n + 1 .. N : scope'[i].task = t
  BY <1>1 DEF EventsSay, ScopeTold
<1>4. \A t, at : Charts!InAt(t, at) <=> Before(t, at)
  BY <1>1 DEF Charts!InAt
<1>5. \A t, at : Charts!InAt(t, at)' <=> After(t, at)
  BY <1>1 DEF Charts!InAt
<1>6. /\ was[1].within = {} /\ was[instant + 1].within = within
      /\ \A t \in Story, at \in 0 .. instant : Before(t, at) <=> t \in was[at + 1].within
  BY <1>4 DEF ScopeTold
<1>7. \A i \in 1 .. n : scope[i].at \in Int
  <2>1. \A i \in 1 .. n : scope[i] \in Charts!ScopeEvent
    BY <1>1
  <2> QED
    BY <2>1 DEF Charts!ScopeEvent, Charts!Instant, ChartsApart
<1> HIDE DEF n, N
<1>8. ASSUME NEW t \in Story, NEW at \in 0 .. instant
      PROVE  After(t, at) <=> t \in was[at + 1].within
  <2>1. Q(t, at) = P(t, at)
    <3>1. \A i \in 1 .. N : i \in Q(t, at) => i \in 1 .. n
      <4> TAKE i \in 1 .. N
      <4> HAVE i \in Q(t, at)
      <4>1. scope'[i].at <= at
        OBVIOUS
      <4>2. ~(i \in n + 1 .. N)
        BY <1>1, <1>3, <4>1
      <4> QED
        BY <1>1, <4>2
    <3>2. \A i \in 1 .. n : i \in 1 .. N
      BY <1>1
    <3> QED
      BY <1>3, <3>1, <3>2
  <2>2. E(t) \subseteq F(t)
    <3>1. \A i \in 1 .. n : i \in 1 .. N
      BY <1>1
    <3> QED
      BY <1>3, <3>1
  <2>3. \A i \in P(t, at) : scope'[i] = scope[i]
    BY <1>3
  <2>4. CASE E(t) # {}
    <3>1. After(t, at) <=> Before(t, at)
      <4>1. CASE P(t, at) = {}
        BY <2>1, <2>2, <2>4, <4>1
      <4>2. CASE P(t, at) # {}
        <5>1. Charts!Max(P(t, at)) \in P(t, at)
          <6>1. P(t, at) \in SUBSET (1 .. n)
            OBVIOUS
          <6> HIDE DEF P
          <6> QED
            BY <1>1, <4>2, <6>1, Greatest
        <5> HIDE DEF E, F, P, Q
        <5> QED
          BY <2>1, <2>2, <2>3, <2>4, <4>2, <5>1
      <4> QED
        BY <4>1, <4>2
    <3> QED
      BY <1>6, <3>1
  <2>5. CASE E(t) = {} /\ F(t) = {}
    <3>1. t \in T <=> t \in within
      <4>1. \A i \in n + 1 .. N : i \in 1 .. N
        BY <1>1
      <4> QED
        BY <1>3, <2>5, <4>1
    <3>2. Before(t, at) <=> t \in within
      BY <2>5
    <3>3. After(t, at) <=> t \in T
      BY <2>5
    <3> QED
      BY <1>6, <3>1, <3>2, <3>3
  <2>6. CASE E(t) = {} /\ F(t) # {}
    <3>1. Before(t, 0) <=> t \in within
      BY <2>6
    <3>2. Before(t, at) <=> t \in within
      BY <2>6
    <3>3. 0 \in 0 .. instant /\ 0 + 1 = 1
      BY <1>1
    <3>4. t \notin was[at + 1].within
      <4> HIDE DEF Before
      <4>1. ~Before(t, 0)
        BY <1>6, <3>3
      <4> QED
        BY <1>6, <3>1, <3>2, <4>1
    <3>5. Q(t, at) = {}
      BY <2>1, <2>6
    <3> QED
      BY <2>6, <3>4, <3>5
  <2> QED
    BY <2>4, <2>5, <2>6
<1>9. ASSUME NEW t \in Story
      PROVE  After(t, instant + 1) <=> t \in T
  <2> DEFINE last == Charts!Max(F(t))
  <2>1. Q(t, instant + 1) = F(t)
    <3>1. \A i \in 1 .. N : scope'[i].at <= instant + 1
      <4> TAKE i \in 1 .. N
      <4>1. CASE i \in 1 .. n
        BY <1>1, <1>3, <1>7, <4>1
      <4>2. CASE i \in n + 1 .. N
        BY <1>1, <1>3, <4>2
      <4> QED
        BY <1>1, <4>1, <4>2
    <3> QED
      BY <3>1
  <2>2. CASE F(t) = {}
    BY <2>2
  <2>3. CASE F(t) # {}
    <3>1. last \in F(t) /\ \A i \in F(t) : i <= last
      <4>1. F(t) \in SUBSET (1 .. N)
        OBVIOUS
      <4> HIDE DEF F
      <4> QED
        BY <1>1, <2>3, <4>1, Greatest
    <3>2. After(t, instant + 1) <=> scope'[last].added
      <4> HIDE DEF F, Q
      <4> QED
        BY <2>1, <2>3
    <3>3. last \in 1 .. N /\ scope'[last].task = t
      BY <3>1
    <3>4. CASE last \in n + 1 .. N
      <4> HIDE DEF last
      <4> QED
        BY <1>3, <3>2, <3>3, <3>4
    <3>5. CASE last \in 1 .. n
      <4>1. \A i \in n + 1 .. N : scope'[i].task # t
        <5> TAKE i \in n + 1 .. N
        <5>1. i \in 1 .. N /\ ~(i <= last)
          <6> HIDE DEF last
          <6> QED
            BY <1>1, <3>5
        <5> HIDE DEF last
        <5> QED
          BY <3>1, <5>1
      <4>2. F(t) = E(t)
        <5>1. \A i \in 1 .. N : i \in 1 .. n \/ i \in n + 1 .. N
          BY <1>1
        <5>2. \A i \in 1 .. n : i \in 1 .. N
          BY <1>1
        <5> QED
          BY <1>3, <4>1, <5>1, <5>2
      <4>3. t \in T <=> t \in within
        BY <1>3, <4>1
      <4>4. P(t, instant) = E(t)
        BY <1>3
      <4>5. Before(t, instant) <=> scope[last].added
        <5> HIDE DEF E, F, P
        <5> QED
          BY <2>3, <4>2, <4>4
      <4>6. Before(t, instant) <=> t \in within
        <5>1. instant \in 0 .. instant
          BY <1>1
        <5> HIDE DEF Before
        <5> QED
          BY <1>6, <5>1
      <4>7. scope'[last] = scope[last]
        BY <1>3, <3>5
      <4> HIDE DEF last, Before, After
      <4> QED
        BY <3>2, <4>3, <4>5, <4>6, <4>7
    <3>6. last \in 1 .. n \/ last \in n + 1 .. N
      <4> HIDE DEF last
      <4> QED
        BY <1>1, <3>3
    <3> HIDE DEF last, After
    <3> QED
      BY <3>4, <3>5, <3>6
  <2> QED
    BY <2>2, <2>3
<1>10. \A i \in DOMAIN scope' : scope'[i].at <= instant'
  <2> SUFFICES ASSUME NEW i \in 1 .. N PROVE scope'[i].at <= instant + 1
    BY <1>1 DEF N
  <2>1. CASE i \in 1 .. n
    BY <1>1, <1>3, <1>7, <2>1
  <2>2. CASE i \in n + 1 .. N
    BY <1>1, <1>3, <2>2
  <2> QED
    BY <1>1, <2>1, <2>2
<1>11. was'[1].within = {} /\ was'[instant' + 1].within = within'
  <2>1. 1 \in 1 .. instant + 1
    BY <1>1
  <2> QED
    BY <1>1, <1>2, <1>6, <2>1
<1>12. ASSUME NEW t \in Story, NEW at \in 0 .. instant'
       PROVE  Charts!InAt(t, at)' <=> t \in was'[at + 1].within
  <2> HIDE DEF After
  <2>1. CASE at \in 0 .. instant
    <3>1. at + 1 \in 1 .. instant + 1
      BY <1>1, <2>1
    <3> QED
      BY <1>2, <1>5, <1>8, <2>1, <3>1
  <2>2. CASE at = instant + 1
    BY <1>1, <1>2, <1>5, <1>9, <2>2
  <2> QED
    BY <1>1, <2>1, <2>2
<1> QED
  BY <1>10, <1>11, <1>12 DEF ScopeTold

LEMMA DoneStaysTold ==
    ASSUME ChartsApart, ChartShape, DoneTold, Charts!Remember, within' \subseteq Story,
           \A t \in Story : \/ doneAt'[t] = doneAt[t]
                            \/ doneAt[t] = None /\ doneAt'[t] = instant + 1
                            \/ doneAt'[t] = None
    PROVE  DoneTold'
<1>1. /\ instant \in Nat /\ instant' = instant + 1
      /\ \A i \in 1 .. instant + 1 : was'[i] = was[i]
      /\ was'[instant + 2].done = {t \in Story : doneAt'[t] # None}
  BY MomentRemembered
<1>2. \A t \in Story : doneAt[t] \in Int \cup {None}
  BY DEF ChartShape, Charts!TypeOK, Charts!Instant, ChartsApart
<1>3. ASSUME NEW t \in Story, doneAt'[t] # None
      PROVE  doneAt'[t] <= instant'
  <2>1. CASE doneAt'[t] = doneAt[t]
    BY <1>1, <1>2, <1>3, <2>1 DEF DoneTold
  <2>2. CASE doneAt'[t] = instant + 1
    BY <1>1, <2>2
  <2> QED
    BY <1>3, <2>1, <2>2
<1>4. ASSUME NEW t \in Story, NEW at \in 0 .. instant'
      PROVE  (\A i \in at .. instant' : t \in was'[i + 1].done) <=> doneAt'[t] # None /\ doneAt'[t] <= at
  <2>1. t \in was'[instant + 2].done <=> doneAt'[t] # None
    BY <1>1
  <2>2. CASE at = instant + 1
    <3>1. \A i \in at .. instant' : i + 1 = instant + 2
      BY <1>1, <2>2
    <3>2. at \in at .. instant'
      BY <1>1, <2>2
    <3>3. (\A i \in at .. instant' : t \in was'[i + 1].done) <=> doneAt'[t] # None
      BY <2>1, <3>1, <3>2
    <3> QED
      BY <1>1, <1>3, <2>2, <3>3
  <2>3. CASE at \in 0 .. instant
    <3>1. \A i \in at .. instant : i + 1 \in 1 .. instant + 1 /\ i \in at .. instant'
      BY <1>1, <2>3
    <3>2. \A i \in at .. instant' : i \in at .. instant \/ i + 1 = instant + 2
      BY <1>1, <2>3
    <3>3. instant + 1 \in at .. instant' /\ (instant + 1) + 1 = instant + 2
      BY <1>1, <2>3
    <3>4. \A i \in at .. instant : was'[i + 1] = was[i + 1]
      BY <1>1, <3>1
    <3>5. (\A i \in at .. instant' : t \in was'[i + 1].done) <=>
            (\A i \in at .. instant : t \in was[i + 1].done) /\ t \in was'[instant + 2].done
      BY <3>1, <3>2, <3>3, <3>4
    <3>6. (\A i \in at .. instant : t \in was[i + 1].done) <=> doneAt[t] # None /\ doneAt[t] <= at
      BY <2>3 DEF DoneTold
    <3>7. (\A i \in at .. instant' : t \in was'[i + 1].done) <=>
            doneAt[t] # None /\ doneAt[t] <= at /\ doneAt'[t] # None
      BY <2>1, <3>5, <3>6
    <3>8. CASE doneAt'[t] = doneAt[t]
      BY <3>7, <3>8
    <3>9. CASE doneAt[t] = None /\ doneAt'[t] = instant + 1
      <4>1. ~(doneAt'[t] <= at)
        BY <1>1, <2>3, <3>9
      <4> QED
        BY <3>7, <3>9, <4>1
    <3>10. CASE doneAt'[t] = None
      BY <3>7, <3>10
    <3> QED
      BY <3>8, <3>9, <3>10
  <2> QED
    BY <1>1, <2>2, <2>3
<1> QED
  BY <1>3, <1>4 DEF DoneTold

(* What is done is what was last remembered as done. *)
LEMMA DoneWas ==
    ASSUME ChartsApart, ChartShape, DoneTold, NEW t \in Story
    PROVE  t \in was[instant + 1].done <=> doneAt[t] # None
<1>1. instant \in Nat
  BY DEF ChartShape, Charts!TypeOK, Charts!Instant, ChartsApart
<1>2. instant \in 0 .. instant /\ \A i \in instant .. instant : i = instant
  BY <1>1
<1>3. instant \in instant .. instant
  BY <1>1
<1>4. (\A i \in instant .. instant : t \in was[i + 1].done) <=> doneAt[t] # None /\ doneAt[t] <= instant
  BY <1>2 DEF DoneTold
<1>5. doneAt[t] # None => doneAt[t] <= instant
  BY DEF DoneTold
<1> QED
  BY <1>2, <1>3, <1>4, <1>5

LEMMA ClosingStaysTold ==
    ASSUME ChartsApart, ChartShape, ClosingTold, Charts!Remember, within' \subseteq Story,
           UNCHANGED <<charted, frozen>>, removed \subseteq removed'
    PROVE  ClosingTold'
<1>1. /\ instant \in Nat /\ instant' = instant + 1
      /\ \A i \in 1 .. instant + 1 : was'[i] = was[i]
  BY MomentRemembered
<1>2. \A i \in 1 .. instant : i \in 1 .. instant' /\ was'[i] = was[i]
  BY <1>1
<1>3. Charts!Live' \subseteq Charts!Live
  BY DEF Charts!Live
<1>4. /\ charted'.state = "planned" => charted'.startedAt = None
      /\ charted'.state # "planned" => charted'.startedAt \in 1 .. instant'
      /\ charted'.state # "completed" =>
           charted'.completedAt = None /\ \A t \in Story : frozen'[t] = None
  BY <1>2 DEF ClosingTold
<1>5. ASSUME charted'.state = "completed"
      PROVE  /\ charted'.completedAt \in 1 .. instant' /\ charted'.startedAt < charted'.completedAt
             /\ \A t \in Story :
                  /\ frozen'[t] # None =>
                       /\ t \in was'[charted'.completedAt].within
                       /\ frozen'[t] = "done" <=> t \in was'[charted'.completedAt].done
                  /\ t \in Charts!Live' /\ t \in was'[charted'.completedAt].within => frozen'[t] # None
  <2>1. /\ charted.completedAt \in 1 .. instant /\ charted' = charted /\ frozen' = frozen
        /\ charted.startedAt < charted.completedAt
        /\ \A t \in Story :
              /\ frozen[t] # None =>
                   /\ t \in was[charted.completedAt].within
                   /\ frozen[t] = "done" <=> t \in was[charted.completedAt].done
              /\ t \in Charts!Live /\ t \in was[charted.completedAt].within => frozen[t] # None
    BY <1>5 DEF ClosingTold
  <2>2. was'[charted'.completedAt] = was[charted.completedAt] /\ charted'.completedAt \in 1 .. instant'
    BY <1>2, <2>1
  <2> QED
    BY <1>3, <2>1, <2>2
<1> QED
  BY <1>4, <1>5 DEF ClosingTold

LEMMA StartTold ==
    ASSUME ChartsApart, ChartShape, ClosingTold, Charts!Start
    PROVE  ClosingTold'
<1>1. /\ charted \in Charts!SprintRow /\ charted.state = "planned" /\ Charts!Remember /\ frozen' = frozen
      /\ charted' = [charted EXCEPT !.state = "active", !.startedAt = instant + 1] /\ within' \subseteq Story
  BY DEF Charts!Start, Charts!At, ChartShape, Charts!TypeOK
<1>2. instant \in Nat /\ instant' = instant + 1
  BY <1>1, MomentRemembered
<1>3. charted'.state = "active" /\ charted'.startedAt = instant + 1 /\ charted'.completedAt = charted.completedAt
  BY <1>1 DEF Charts!SprintRow
<1>4. charted.completedAt = None /\ \A t \in Story : frozen[t] = None
  BY <1>1 DEF ClosingTold
<1>5. instant + 1 \in 1 .. instant'
  BY <1>2
<1> QED
  BY <1>1, <1>3, <1>4, <1>5 DEF ClosingTold

LEMMA CompleteTold ==
    ASSUME ChartsApart, ChartShape, ScopeTold, DoneTold, ClosingTold, NEW carry, Charts!Complete(carry),
           within' \subseteq Story
    PROVE  ClosingTold'
<1>1. /\ charted \in Charts!SprintRow /\ charted.state = "active" /\ Charts!Remember /\ removed' = removed
      /\ charted' = [charted EXCEPT !.state = "completed", !.completedAt = instant + 1]
      /\ \A t \in Story : frozen'[t] = IF t \notin within \cap Charts!Live THEN None
                                       ELSE IF t \in Charts!Done THEN "done" ELSE "open"
  BY DEF Charts!Complete, Charts!At, ChartShape, Charts!TypeOK
<1>2. /\ instant \in Nat /\ instant' = instant + 1
      /\ \A i \in 1 .. instant + 1 : was'[i] = was[i]
  BY <1>1, MomentRemembered
<1>3. /\ charted'.state = "completed" /\ charted'.completedAt = instant + 1
      /\ charted'.startedAt = charted.startedAt
  BY <1>1 DEF Charts!SprintRow
<1>4. instant + 1 \in 1 .. instant' /\ was'[instant + 1] = was[instant + 1]
      /\ \A i \in 1 .. instant : i \in 1 .. instant'
  BY <1>2
<1>5. /\ charted.startedAt \in 1 .. instant /\ charted.startedAt < instant + 1
      /\ was[instant + 1].within = within
  BY <1>1, <1>2 DEF ClosingTold, ScopeTold
<1>6. \A t \in Story : t \in was[instant + 1].done <=> t \in Charts!Done
  BY DoneWas DEF Charts!Done
<1>7. Charts!Live' = Charts!Live
  BY <1>1 DEF Charts!Live
<1>8. ASSUME NEW t \in Story
      PROVE  /\ frozen'[t] # None =>
                  /\ t \in was'[instant + 1].within
                  /\ frozen'[t] = "done" <=> t \in was'[instant + 1].done
             /\ t \in Charts!Live' /\ t \in was'[instant + 1].within => frozen'[t] # None
  BY <1>1, <1>4, <1>5, <1>6, <1>7 DEF ChartsApart
<1> QED
  BY <1>3, <1>4, <1>5, <1>8 DEF ClosingTold

LEMMA ChartNextInv == ASSUME ChartsApart, ChartInv, Charts!Next PROVE ChartInv'
<1>0. /\ ChartShape /\ ScopeTold /\ DoneTold /\ ClosingTold
      /\ charted \in Charts!SprintRow /\ within \subseteq Story /\ removed \subseteq Story
      /\ doneAt \in [Story -> Charts!Instant \cup {None}]
      /\ scope \in Seq(Charts!ScopeEvent) /\ frozen \in [Story -> {None, "done", "open"}]
  BY DEF ChartInv, ChartShape, Charts!TypeOK
<1>1. ASSUME Charts!Remember, NEW T, EventsSay(T),
             charted' \in Charts!SprintRow, removed' \subseteq Story,
             doneAt' \in [Story -> Charts!Instant \cup {None}],
             frozen' \in [Story -> {None, "done", "open"}]
      PROVE  ChartShape' /\ ScopeTold'
  <2>1. scope' \in Seq(Charts!ScopeEvent) /\ within' \subseteq Story
    BY <1>1 DEF EventsSay
  <2>2. ScopeTold'
    BY <1>0, <1>1, ScopeStaysTold
  <2> QED
    BY <1>0, <1>1, <2>1, <2>2, MomentRemembered DEF ChartShape, Charts!TypeOK
<1>2. ASSUME Charts!Remember, UNCHANGED doneAt, within' \subseteq Story
      PROVE  DoneTold'
  BY <1>0, <1>2, DoneStaysTold
<1>3. EventsSay(within) \/ ~UNCHANGED <<within, scope>>
  BY <1>0, NothingSaid
<1>4. CASE Charts!Tick
  <2>1. Charts!Remember /\ UNCHANGED <<charted, within, doneAt, removed, scope, frozen>>
    BY <1>4 DEF Charts!Tick
  <2>2. ClosingTold' /\ DoneTold'
    BY <1>0, <1>2, <2>1, ClosingStaysTold
  <2>3. ChartShape' /\ ScopeTold'
    BY <1>0, <1>1, <1>3, <2>1
  <2> QED
    BY <2>2, <2>3 DEF ChartInv
<1>5. CASE Charts!Start
  <2>1. Charts!Remember /\ UNCHANGED <<within, doneAt, removed, scope, frozen>>
        /\ charted' = [charted EXCEPT !.state = "active", !.startedAt = instant + 1]
    BY <1>5 DEF Charts!Start, Charts!At
  <2>2. instant + 1 \in Charts!Instant
    BY <1>0, <2>1, MomentRemembered
  <2>3. charted' \in Charts!SprintRow
    BY <1>0, <2>1, <2>2 DEF Charts!SprintRow
  <2>4. ChartShape' /\ ScopeTold'
    BY <1>0, <1>1, <1>3, <2>1, <2>3
  <2>5. DoneTold' /\ ClosingTold'
    BY <1>0, <1>2, <1>5, <2>1, StartTold
  <2> QED
    BY <2>4, <2>5 DEF ChartInv
<1>6. ASSUME NEW carry \in BOOLEAN, Charts!Complete(carry)
      PROVE  ChartInv'
  <2> DEFINE T == IF carry THEN within \ (Charts!Live \ Charts!Done) ELSE within
  <2>1. Charts!Remember /\ UNCHANGED <<doneAt, removed>> /\ Charts!TasksIn(T)
        /\ charted' = [charted EXCEPT !.state = "completed", !.completedAt = instant + 1]
    BY <1>6 DEF Charts!Complete, Charts!At
  <2>2. T \in SUBSET Story
    BY <1>0
  <2> HIDE DEF T
  <2>3. EventsSay(T)
    BY <1>0, <2>1, <2>2, TasksInSay
  <2>4. within' \subseteq Story
    BY <2>3 DEF EventsSay
  <2>5. instant + 1 \in Charts!Instant
    BY <1>0, <2>1, <2>4, MomentRemembered
  <2>6. charted' \in Charts!SprintRow
    BY <1>0, <2>1, <2>5 DEF Charts!SprintRow
  <2>7. frozen' \in [Story -> {None, "done", "open"}]
    BY <1>6 DEF Charts!Complete
  <2>8. ChartShape' /\ ScopeTold'
    BY <1>0, <1>1, <2>1, <2>3, <2>6, <2>7
  <2>9. DoneTold' /\ ClosingTold'
    BY <1>0, <1>2, <1>6, <2>1, <2>4, CompleteTold
  <2> QED
    BY <2>8, <2>9 DEF ChartInv
<1>7. ASSUME NEW t \in Story, Charts!Assign(t) \/ Charts!Unassign(t)
      PROVE  ChartInv'
  <2>1. PICK T \in SUBSET Story : Charts!TasksIn(T)
    <3>1. within \cup {t} \in SUBSET Story /\ within \ {t} \in SUBSET Story
      BY <1>0
    <3>2. Charts!TasksIn(within \cup {t}) \/ Charts!TasksIn(within \ {t})
      BY <1>7 DEF Charts!Assign, Charts!Unassign
    <3> QED
      BY <3>1, <3>2
  <2>2. Charts!Remember /\ UNCHANGED <<charted, doneAt, removed, frozen>>
    BY <1>7 DEF Charts!Assign, Charts!Unassign
  <2>3. EventsSay(T)
    BY <1>0, <2>1, <2>2, TasksInSay
  <2>4. within' \subseteq Story
    BY <2>3 DEF EventsSay
  <2>5. ChartShape' /\ ScopeTold'
    BY <1>0, <1>1, <2>2, <2>3
  <2>6. DoneTold' /\ ClosingTold'
    BY <1>0, <1>2, <2>2, <2>4, ClosingStaysTold
  <2> QED
    BY <2>5, <2>6 DEF ChartInv
<1>8. ASSUME NEW t \in Story, Charts!MoveTask(t)
      PROVE  ChartInv'
  <2>1. Charts!Remember /\ UNCHANGED <<charted, within, removed, scope, frozen>>
        /\ doneAt' = [doneAt EXCEPT ![t] = IF doneAt[t] = None THEN instant + 1 ELSE None]
    BY <1>8 DEF Charts!MoveTask, Charts!At
  <2>2. instant + 1 \in Charts!Instant
    BY <1>0, <2>1, MomentRemembered
  <2>3. doneAt' \in [Story -> Charts!Instant \cup {None}]
    BY <1>0, <2>1, <2>2
  <2>4. \A s \in Story : \/ doneAt'[s] = doneAt[s]
                         \/ doneAt[s] = None /\ doneAt'[s] = instant + 1
                         \/ doneAt'[s] = None
    BY <1>0, <2>1
  <2>5. ChartShape' /\ ScopeTold'
    BY <1>0, <1>1, <1>3, <2>1, <2>3
  <2>6. ClosingTold'
    BY <1>0, <2>1, ClosingStaysTold
  <2>7. DoneTold'
    BY <1>0, <2>1, <2>4, DoneStaysTold
  <2> QED
    BY <2>5, <2>6, <2>7 DEF ChartInv
<1>9. ASSUME NEW t \in Story, Charts!DeleteTask(t)
      PROVE  ChartInv'
  <2>1. Charts!Remember /\ UNCHANGED <<charted, within, doneAt, scope, frozen>> /\ removed' = removed \cup {t}
    BY <1>9 DEF Charts!DeleteTask
  <2>2. ChartShape' /\ ScopeTold'
    BY <1>0, <1>1, <1>3, <2>1
  <2>3. ClosingTold' /\ DoneTold'
    BY <1>0, <1>2, <2>1, ClosingStaysTold
  <2> QED
    BY <2>2, <2>3 DEF ChartInv
<1> QED
  BY <1>4, <1>5, <1>6, <1>7, <1>8, <1>9 DEF Charts!Next

LEMMA ChartInitInv == ASSUME ChartsApart, Charts!Init PROVE ChartInv
<1>1. ChartShape
  <2>1. was \in Seq(Moment) /\ Len(was) = 1 /\ scope \in Seq(Charts!ScopeEvent)
    BY DEF Charts!Init, Moment
  <2>2. charted \in Charts!SprintRow
    BY DEF Charts!Init, Charts!SprintRow
  <2> QED
    BY <2>1, <2>2 DEF Charts!Init, ChartShape, Charts!TypeOK, Charts!Instant, ChartsApart
<1>2. /\ instant = 0 /\ within = {} /\ scope = <<>> /\ was = <<[within |-> {}, done |-> {}]>>
      /\ charted = [state |-> "planned", startedAt |-> None, completedAt |-> None]
      /\ \A t \in Story : doneAt[t] = None /\ frozen[t] = None
  BY DEF Charts!Init
<1>3. DOMAIN scope = {} /\ was[1].within = {} /\ was[1].done = {}
  BY <1>2
<1>4. \A at \in 0 .. instant : at + 1 = 1 /\ at \in at .. instant
  BY <1>2
<1>5. ScopeTold
  <2>1. \A t \in Story, at \in 0 .. instant : ~Charts!InAt(t, at)
    BY <1>2, <1>3 DEF Charts!InAt
  <2>2. instant + 1 = 1
    BY <1>2
  <2> QED
    BY <1>2, <1>3, <1>4, <2>1, <2>2 DEF ScopeTold
<1>6. DoneTold
  BY <1>2, <1>3, <1>4 DEF DoneTold
<1>7. ClosingTold
  <2>1. charted.state = "planned" /\ charted.startedAt = None /\ charted.completedAt = None
    BY <1>2
  <2> QED
    BY <1>2, <2>1 DEF ClosingTold
<1> QED
  BY <1>1, <1>5, <1>6, <1>7 DEF ChartInv

LEMMA ChartsKeep == ASSUME ChartsApart PROVE OfficeSpec => []ChartInv
<1>1. OfficeInit => ChartInv
  BY ChartInitInv DEF OfficeInit
<1>2. ChartInv /\ [OfficeNext]_officeVars => ChartInv'
  <2>1. OfficeNext => Charts!Next \/ UNCHANGED chartsVars
    BY DEF OfficeNext
  <2>2. UNCHANGED officeVars => UNCHANGED chartsVars
    BY DEF officeVars
  <2>3. ASSUME ChartInv, UNCHANGED chartsVars
        PROVE  ChartInv'
    <3>1. UNCHANGED <<instant, charted, within, doneAt, removed, scope, frozen, was>>
      BY <2>3 DEF chartsVars
    <3>2. ChartShape'
      BY <2>3, <3>1 DEF ChartInv, ChartShape, Charts!TypeOK
    <3>3. ScopeTold'
      <4>1. \A t, at : Charts!InAt(t, at)' <=> Charts!InAt(t, at)
        BY <3>1 DEF Charts!InAt
      <4> QED
        BY <2>3, <3>1, <4>1 DEF ChartInv, ScopeTold
    <3>4. DoneTold'
      BY <2>3, <3>1 DEF ChartInv, DoneTold
    <3>5. ClosingTold'
      <4>1. Charts!Live' = Charts!Live
        BY <3>1 DEF Charts!Live
      <4> QED
        BY <2>3, <3>1, <4>1 DEF ChartInv, ClosingTold
    <3> QED
      BY <3>2, <3>3, <3>4, <3>5 DEF ChartInv
  <2> QED
    BY <2>1, <2>2, <2>3, ChartNextInv
<1> QED
  BY <1>1, <1>2, PTL DEF OfficeSpec

LEMMA ChartsTyped == ASSUME ChartsApart PROVE OfficeSpec => []Charts!TypeOK
<1>1. ChartInv => Charts!TypeOK
  BY DEF ChartInv, ChartShape
<1> QED
  BY <1>1, ChartsKeep, PTL

----------------------------------------------------------------------------
(* What the pages answer is what was. *)

LEMMA Greater ==
    ASSUME NEW a \in Int, NEW b \in Int
    PROVE  Charts!Max({a, b}) = IF a >= b THEN a ELSE b
<1>1. CASE a >= b
  <2>1. a \in {a, b} /\ \A y \in {a, b} : a >= y
    BY <1>1
  <2>2. \A x \in {a, b} : (\A y \in {a, b} : x >= y) => x = a
    BY <1>1
  <2> QED
    BY <1>1, <2>1, <2>2 DEF Charts!Max
<1>2. CASE ~(a >= b)
  <2>1. b \in {a, b} /\ \A y \in {a, b} : b >= y
    BY <1>2
  <2>2. \A x \in {a, b} : (\A y \in {a, b} : x >= y) => x = b
    BY <1>2
  <2> QED
    BY <1>2, <2>1, <2>2 DEF Charts!Max
<1> QED
  BY <1>1, <1>2

LEMMA Lesser ==
    ASSUME NEW a \in Int, NEW b \in Int
    PROVE  Charts!Min({a, b}) = IF a <= b THEN a ELSE b
<1>1. CASE a <= b
  <2>1. a \in {a, b} /\ \A y \in {a, b} : a <= y
    BY <1>1
  <2>2. \A x \in {a, b} : (\A y \in {a, b} : x <= y) => x = a
    BY <1>1
  <2> QED
    BY <1>1, <2>1, <2>2 DEF Charts!Min
<1>2. CASE ~(a <= b)
  <2>1. b \in {a, b} /\ \A y \in {a, b} : b <= y
    BY <1>2
  <2>2. \A x \in {a, b} : (\A y \in {a, b} : x <= y) => x = b
    BY <1>2
  <2> QED
    BY <1>2, <2>1, <2>2 DEF Charts!Min
<1> QED
  BY <1>1, <1>2

LEMMA LeastOfThree ==
    ASSUME NEW a \in Int, NEW b \in Int, NEW c \in Int
    PROVE  Charts!Min({a, b, c}) \in {a, b, c} /\ \A y \in {a, b, c} : Charts!Min({a, b, c}) <= y
<1>1. \E x \in {a, b, c} : \A y \in {a, b, c} : x <= y
  <2>1. CASE a <= b /\ a <= c
    BY <2>1
  <2>2. CASE b <= a /\ b <= c
    BY <2>2
  <2>3. CASE c <= a /\ c <= b
    BY <2>3
  <2> QED
    BY <2>1, <2>2, <2>3
<1> QED
  BY <1>1 DEF Charts!Min

LEMMA Division ==
    ASSUME NEW i \in Nat, NEW n \in Nat \ {0}
    PROVE  /\ i \div n \in Nat /\ (i \div n) * n \in Nat
           /\ (i \div n) * n <= i /\ i <= (i \div n) * n + n - 1
  OBVIOUS

LEMMA ProductOrder ==
    ASSUME NEW p \in Nat, NEW q \in Nat, NEW n \in Nat \ {0}, p * n <= q * n + n - 1
    PROVE  p <= q
  OBVIOUS

LEMMA DayOrder ==
    ASSUME NEW i \in Nat, NEW k \in Nat, i <= k, NEW n \in Nat \ {0}
    PROVE  i \div n <= k \div n
<1> DEFINE p == i \div n
           q == k \div n
<1>1. /\ p \in Nat /\ q \in Nat /\ p * n \in Nat /\ q * n \in Nat
      /\ p * n <= i /\ k <= q * n + n - 1
  BY Division
<1> HIDE DEF p, q
<1>2. p * n <= q * n + n - 1
  BY <1>1
<1>3. p <= q
  BY <1>1, <1>2, ProductOrder
<1> QED
  BY <1>3 DEF p, q

LEMMA ChartSum == ASSUME NEW g PROVE Charts!SumFunction(g) = Sum(g, DOMAIN g)
<1> DEFINE A(f) == f = [s \in SUBSET DOMAIN g |->
                          IF s = {} THEN 0
                          ELSE g[CHOOSE x \in s : TRUE] + f[s \ {CHOOSE x \in s : TRUE}]]
<1>1. Charts!SumFunction(g) = (CHOOSE f : A(f))[DOMAIN g]
  BY DEF Charts!SumFunction, Charts!SumFunctionOnSet, Charts!FoldFunctionOnSet, Charts!MapThenFoldSet
<1>2. \A f : A(f) <=> Sums(f, g, DOMAIN g)
  BY DEF Sums, First
<1>3. (CHOOSE f : A(f)) = CHOOSE f : Sums(f, g, DOMAIN g)
  <2> HIDE DEF A
  <2> QED
    BY <1>2, Zenon
<1> QED
  BY <1>1, <1>3 DEF Sum

(* Fewer of what is not negative come to no more. *)
LEMMA SumOfPart ==
    ASSUME NEW S, IsFiniteSet(S), NEW g, \A x \in S : g[x] \in Nat, NEW P \in SUBSET S
    PROVE  Sum(g, P) <= Sum(g, S) /\ Sum(g, P) \in Nat /\ Sum(g, S) \in Nat
<1> DEFINE K == {0, 1}
           key == [x \in S |-> IF x \in P THEN 1 ELSE 0]
           of(b) == {x \in S : key[x] = b}
           h == [b \in K |-> Sum(g, of(b))]
<1>1. \A x \in S : g[x] \in Int /\ g[x] \in Nat /\ key[x] \in K
  OBVIOUS
<1>2. IsFiniteSet(K)
  <2>1. IsFiniteSet({0} \cup {1})
    BY FS_Singleton, FS_Union
  <2>2. {0} \cup {1} = {0, 1}
    OBVIOUS
  <2> QED
    BY <2>1, <2>2
<1>3. K \ {1} = {0} /\ 1 \in K /\ 0 \in K
  BY DEF K
<1>4. of(1) = P
  OBVIOUS
<1>5. of(0) \in SUBSET S /\ IsFiniteSet(of(0)) /\ IsFiniteSet(P)
  BY FS_Subset
<1> HIDE DEF key, K
<1>6. Sum(g, S) = Sum(h, K)
  BY <1>1, <1>2, SumSplit
<1> HIDE DEF of
<1>7. h[1] = Sum(g, P) /\ h[0] = Sum(g, of(0))
  BY <1>4, <1>3
<1>8. Sum(g, P) \in Nat /\ Sum(g, of(0)) \in Nat
  BY <1>1, <1>5, SumNat
<1> HIDE DEF h
<1>9. \A b \in K : h[b] \in Int
  BY <1>7, <1>8 DEF K
<1>10. Sum(h, K) = h[1] + Sum(h, K \ {1})
  BY <1>2, <1>9, <1>3, SumRemove
<1>11. Sum(h, {0}) = h[0]
  BY <1>9, <1>3, SumSingle
<1>12. Sum(g, S) = Sum(g, P) + Sum(g, of(0))
  BY <1>6, <1>7, <1>10, <1>3, <1>11
<1> QED
  BY <1>8, <1>12

LEMMA ChartFacts ==
    ASSUME ChartsApart, ChartInv
    PROVE  /\ instant \in Nat /\ Charts!AsOf \in 0 .. instant
           /\ charted.state # "planned" => charted.startedAt \in 1 .. instant /\ Charts!StartedAt = charted.startedAt
           /\ charted.state # "completed" => Charts!AsOf = instant
           /\ charted.state # "planned" => Charts!StartedAt <= Charts!AsOf
           /\ charted.state = "completed" =>
                Charts!AsOf = charted.completedAt - 1 /\ charted.completedAt \in 1 .. instant
<1>1. ChartShape /\ ClosingTold
  BY DEF ChartInv
<1>2. instant \in Nat
  BY <1>1 DEF ChartShape, Charts!TypeOK, Charts!Instant, ChartsApart
<1>3. CASE charted.state = "completed"
  <2>1. /\ charted.completedAt \in 1 .. instant /\ charted.startedAt \in 1 .. instant
        /\ charted.startedAt < charted.completedAt
    BY <1>1, <1>3 DEF ClosingTold
  <2>2. charted.completedAt # None /\ charted.startedAt # None
    BY <2>1 DEF ChartsApart
  <2>3. Charts!AsOf = charted.completedAt - 1 /\ Charts!StartedAt = charted.startedAt
    BY <2>2 DEF Charts!AsOf, Charts!StartedAt
  <2>4. charted.completedAt - 1 \in 0 .. instant /\ charted.startedAt <= charted.completedAt - 1
    BY <1>2, <2>1
  <2> QED
    BY <1>2, <1>3, <2>1, <2>3, <2>4
<1>4. CASE charted.state # "completed"
  <2>1. Charts!AsOf = instant
    BY <1>1, <1>4 DEF ClosingTold, Charts!AsOf
  <2>2. charted.state # "planned" => charted.startedAt \in 1 .. instant
    BY <1>1 DEF ClosingTold
  <2>3. charted.state # "planned" => charted.startedAt # None
    BY <2>2 DEF ChartsApart
  <2>4. charted.state # "planned" => Charts!StartedAt = charted.startedAt
    BY <2>3 DEF Charts!StartedAt
  <2> QED
    BY <1>2, <1>4, <2>1, <2>2, <2>4
<1> QED
  BY <1>3, <1>4

(* The tasks of the sprint at an instant. *)
LEMMA WithinTold ==
    ASSUME ChartsApart, ChartInv, NEW at \in 0 .. instant
    PROVE  {t \in Charts!StatTasks : Charts!InAt(t, at)} = Charts!WithinAt(at)
<1>1. \A t \in Story : Charts!InAt(t, at) <=> t \in was[at + 1].within
  BY DEF ChartInv, ScopeTold
<1>2. \A t \in Charts!Live : Charts!InAt(t, at) => t \in Charts!StatTasks
  BY DEF Charts!InAt, Charts!StatTasks
<1>3. Charts!StatTasks \subseteq Charts!Live /\ Charts!Live \subseteq Story
  BY DEF Charts!StatTasks, Charts!Live
<1> QED
  BY <1>1, <1>2, <1>3 DEF Charts!WithinAt

LEMMA DoneSinceTold ==
    ASSUME ChartsApart, ChartInv, NEW at \in 0 .. instant
    PROVE  Charts!DoneSince(at) = {t \in Charts!Live : t \in Charts!Done /\ doneAt[t] <= at}
<1>1. \A t \in Story : (\A i \in at .. instant : t \in was[i + 1].done) <=> doneAt[t] # None /\ doneAt[t] <= at
  BY DEF ChartInv, DoneTold
<1>2. Charts!Live \subseteq Story
  BY DEF Charts!Live
<1> QED
  BY <1>1, <1>2 DEF Charts!DoneSince, Charts!Done

LEMMA ScopeIsTrue == ASSUME ChartsApart, ChartInv PROVE Charts!ScopeIsTrue
<1> SUFFICES ASSUME charted.state # "planned" PROVE
      /\ Charts!Members = UNION {Charts!Progress.done, Charts!Health.blocked, Charts!Health.atRisk,
                                 Charts!Health.onTrack}
      /\ Charts!Original = Charts!WithinAt(Charts!StartedAt)
      /\ Charts!Members = Charts!WithinAt(Charts!AsOf)
      /\ Charts!Members \subseteq (Charts!Original \ Charts!Removed) \cup Charts!Added
      /\ Charts!Members \cap Charts!Original = Charts!Original \ Charts!Removed
  BY DEF Charts!ScopeIsTrue, Charts!Started
<1>1. /\ instant \in Nat /\ Charts!AsOf \in 0 .. instant /\ Charts!StartedAt \in 0 .. instant
      /\ Charts!StartedAt <= Charts!AsOf
  BY ChartFacts
<1>2. Charts!Members = UNION {Charts!Progress.done, Charts!Health.blocked, Charts!Health.atRisk,
                              Charts!Health.onTrack}
  BY DEF Charts!Progress, Charts!Health
<1>3. Charts!Original = Charts!WithinAt(Charts!StartedAt) /\ Charts!Members = Charts!WithinAt(Charts!AsOf)
  BY <1>1, WithinTold DEF Charts!Original, Charts!Members
<1>4. Charts!Members \cap Charts!Original = Charts!Original \ Charts!Removed
  BY DEF Charts!Removed
<1>5. ASSUME NEW t \in Charts!Members, t \notin Charts!Original
      PROVE  t \in Charts!Added
  <2> DEFINE E == {i \in DOMAIN scope : scope[i].task = t}
             P == {i \in E : scope[i].at <= Charts!AsOf}
             S == {i \in E : scope[i].at <= Charts!StartedAt}
             last == Charts!Max(P)
  <2>1. t \in Charts!StatTasks /\ Charts!InAt(t, Charts!AsOf) /\ ~Charts!InAt(t, Charts!StartedAt)
    BY <1>5 DEF Charts!Members, Charts!Original
  <2>2. /\ IF E = {} THEN t \in within ELSE P # {} /\ scope[last].added
        /\ ~(IF E = {} THEN t \in within ELSE S # {} /\ scope[Charts!Max(S)].added)
    BY <2>1 DEF Charts!InAt
  <2>3. P # {} /\ scope[last].added /\ E # {}
    BY <2>2
  <2>4. scope \in Seq(Charts!ScopeEvent) /\ Len(scope) \in Nat /\ DOMAIN scope = 1 .. Len(scope)
    BY DEF ChartInv, ChartShape, Charts!TypeOK
  <2>5. P \in SUBSET (1 .. Len(scope)) /\ S \in SUBSET (1 .. Len(scope))
    BY <2>4
  <2>6. last \in P /\ \A x \in P : x <= last
    <3> HIDE DEF P
    <3> QED
      BY <2>3, <2>4, <2>5, Greatest
  <2>7. scope[last].at > Charts!StartedAt
    <3>1. scope[last].at \in Nat
      <4>1. scope[last] \in Charts!ScopeEvent
        <5> HIDE DEF last
        <5> QED
          BY <2>4, <2>5, <2>6
      <4> HIDE DEF last
      <4> QED
        BY <4>1 DEF Charts!ScopeEvent, Charts!Instant, ChartsApart
    <3> SUFFICES ASSUME scope[last].at <= Charts!StartedAt PROVE FALSE
      <4> HIDE DEF last
      <4> QED
        BY <1>1, <3>1
    <3>2. last \in S
      <4> HIDE DEF last
      <4> QED
        BY <2>6
    <3>3. Charts!Max(S) \in S /\ \A x \in S : x <= Charts!Max(S)
      <4> HIDE DEF S, last
      <4> QED
        BY <2>4, <2>5, <3>2, Greatest
    <3>4. Charts!Max(S) \in 1 .. Len(scope) /\ last \in 1 .. Len(scope)
      <4> HIDE DEF S, P, last
      <4> QED
        BY <2>5, <2>6, <3>3
    <3>5. Charts!Max(S) \in P
      <4> DEFINE m == Charts!Max(S)
      <4>1. scope[m] \in Charts!ScopeEvent
        <5>1. \A i \in 1 .. Len(scope) : scope[i] \in Charts!ScopeEvent
          BY <2>4
        <5> QED
          BY <3>4, <5>1
      <4>2. m \in E /\ scope[m].at <= Charts!StartedAt
        BY <3>3
      <4> HIDE DEF m, S, E
      <4>3. scope[m].at \in Nat
        BY <4>1 DEF Charts!ScopeEvent, Charts!Instant, ChartsApart
      <4>4. scope[m].at <= Charts!AsOf
        BY <1>1, <4>2, <4>3
      <4> QED
        BY <4>2, <4>4 DEF m
    <3>6. Charts!Max(S) = last
      <4> HIDE DEF P, S, last
      <4> QED
        BY <2>6, <3>2, <3>3, <3>4, <3>5
    <3> HIDE DEF P, S, E, last
    <3> QED
      BY <2>2, <2>3, <3>2, <3>6
  <2>8. last \in DOMAIN scope /\ scope[last].task = t /\ scope[last].at <= Charts!AsOf
    BY <2>6
  <2> HIDE DEF last
  <2> QED
    BY <1>5, <2>3, <2>7, <2>8 DEF Charts!Added
<1> QED
  BY <1>2, <1>3, <1>4, <1>5 DEF Charts!Removed

LEMMA WorthIsNumber ==
    ASSUME ChartsApart, NEW T \in SUBSET Story
    PROVE  /\ Charts!Worth(T) \in Int
           /\ Charts!PointsIn(T) \in Int
           /\ (\A t \in T : Charts!PointsOf(t) >= 0) =>
                /\ \A P \in SUBSET T : Charts!PointsIn(T) - Charts!PointsIn(P) >= 0
                /\ Charts!HasPoints => Charts!Worth(T) = Charts!PointsIn(T)
<1> DEFINE w == [t \in T |-> Charts!Value(t)]
           g == [t \in T |-> Charts!PointsOf(t)]
<1>1. IsFiniteSet(T) /\ \A t \in T : Charts!PointsOf(t) \in Int
  <2>1. \A t \in T : StoryPoints[t] \in Int \cup {None}
    BY DEF ChartsApart
  <2> QED
    BY <2>1, FS_Subset DEF ChartsApart, Charts!PointsOf
<1>2. ASSUME NEW t \in T
      PROVE  /\ Charts!Value(t) \in Int
             /\ Charts!HasPoints /\ Charts!PointsOf(t) >= 0 => Charts!Value(t) = Charts!PointsOf(t)
  <2> DEFINE x == Charts!PointsOf(t)
  <2>1. x \in Int
    BY <1>1
  <2>2. Charts!Value(t) = IF Charts!HasPoints THEN Charts!Max({0, x}) ELSE 1
    BY DEF Charts!Value
  <2> HIDE DEF x
  <2>3. Charts!Max({0, x}) = IF 0 >= x THEN 0 ELSE x
    BY <2>1, Greater
  <2>4. Charts!Max({0, x}) \in Int /\ (x >= 0 => Charts!Max({0, x}) = x)
    BY <2>1, <2>3
  <2> QED
    BY <2>2, <2>4 DEF x
<1>3. Charts!Worth(T) = Sum(w, T)
  <2>1. DOMAIN w = T
    OBVIOUS
  <2>2. Charts!Worth(T) = Charts!SumFunction(w)
    BY DEF Charts!Worth
  <2> HIDE DEF w
  <2> QED
    BY <2>1, <2>2, ChartSum
<1>4. Sum(w, T) \in Int
  <2>1. \A t \in T : w[t] \in Int
    BY <1>2
  <2> HIDE DEF w
  <2> QED
    BY <1>1, <2>1, SumType
<1>5. Charts!PointsIn(T) = Sum(g, T)
  <2>1. DOMAIN g = T
    OBVIOUS
  <2>2. Charts!PointsIn(T) = Charts!SumFunction(g)
    BY DEF Charts!PointsIn
  <2> HIDE DEF g
  <2> QED
    BY <2>1, <2>2, ChartSum
<1>6. \A t \in T : g[t] = Charts!PointsOf(t) /\ g[t] \in Int
  BY <1>1
<1>7. ASSUME NEW P \in SUBSET T
      PROVE  Charts!PointsIn(P) = Sum(g, P)
  <2> DEFINE p == [t \in P |-> Charts!PointsOf(t)]
  <2>1. DOMAIN p = P /\ \A t \in P : p[t] = g[t]
    OBVIOUS
  <2>2. Charts!PointsIn(P) = Charts!SumFunction(p)
    BY DEF Charts!PointsIn
  <2>3. IsFiniteSet(P)
    BY <1>1, FS_Subset
  <2> HIDE DEF p, g
  <2>4. Charts!PointsIn(P) = Sum(p, P)
    BY <2>1, <2>2, ChartSum
  <2> QED
    BY <2>1, <2>3, <2>4, SumSame
<1>8. ASSUME \A t \in T : Charts!PointsOf(t) >= 0, NEW P \in SUBSET T
      PROVE  Charts!PointsIn(T) - Charts!PointsIn(P) >= 0
  <2> HIDE DEF g
  <2>0. \A t \in T : g[t] \in Nat
    BY <1>6, <1>8
  <2>1. Sum(g, P) <= Sum(g, T) /\ Sum(g, P) \in Nat /\ Sum(g, T) \in Nat
    BY <1>1, <2>0, SumOfPart
  <2>2. Charts!PointsIn(T) = Sum(g, T) /\ Charts!PointsIn(P) = Sum(g, P)
    BY <1>5, <1>7
  <2> QED
    BY <2>1, <2>2
<1>9. Charts!PointsIn(T) \in Int
  <2> HIDE DEF g
  <2>1. Sum(g, T) \in Int
    BY <1>1, <1>6, SumType
  <2> QED
    BY <1>5, <2>1
<1>10. ASSUME \A t \in T : Charts!PointsOf(t) >= 0, Charts!HasPoints
       PROVE  Charts!Worth(T) = Charts!PointsIn(T)
  <2>1. w = g
    BY <1>2, <1>10
  <2>2. Charts!Worth(T) = Charts!SumFunction(w) /\ Charts!PointsIn(T) = Charts!SumFunction(g)
    BY DEF Charts!Worth, Charts!PointsIn
  <2> HIDE DEF w, g
  <2> QED
    BY <2>1, <2>2
<1> QED
  BY <1>3, <1>4, <1>8, <1>9, <1>10

(* The days of the charts. *)
LEMMA GridFacts ==
    ASSUME ChartsApart, ChartInv, charted.state # "planned"
    PROVE  /\ Charts!PlanStart \in Nat /\ Charts!PlanEnd \in Nat /\ Charts!Day(Charts!AsOf) \in Nat
           /\ Charts!GridStart \in Nat /\ Charts!GridStart <= Charts!PlanStart
           /\ Charts!GridEnd \in Nat /\ Charts!PlanEnd <= Charts!GridEnd
           /\ DOMAIN Charts!Series = Charts!GridStart .. Charts!GridEnd
           /\ \A d \in Charts!GridStart .. Charts!GridEnd : Charts!Series[d] = Charts!DayPoint(d)
<1>1. Starts \in Nat /\ Ends \in Nat /\ InstantsADay \in Nat \ {0}
  BY DEF ChartsApart
<1>2. Charts!AsOf \in Nat /\ Charts!StartedAt \in Nat
  BY ChartFacts
<1>3. \A i \in Nat : Charts!Day(i) \in Nat
  BY <1>1, Division DEF Charts!Day
<1>4. Charts!PlanStart \in Nat
  BY <1>1, <1>3 DEF Charts!PlanStart
<1>5. Charts!PlanEnd \in Nat
  <2>1. Charts!Day(Ends) \in Nat
    BY <1>1, <1>3
  <2> QED
    BY <1>4, <2>1, Greater DEF Charts!PlanEnd
<1>6. Charts!GridStart \in Nat /\ Charts!GridStart <= Charts!PlanStart
  <2>1. Charts!Day(Charts!StartedAt) \in Nat
    BY <1>2, <1>3
  <2> DEFINE a == Charts!Day(Charts!StartedAt)
             b == Charts!PlanStart
             c == Charts!PlanEnd
  <2>2. Charts!GridStart = Charts!Min({a, b, c})
    BY DEF Charts!GridStart
  <2>3. /\ a \in Nat /\ b \in Nat /\ c \in Nat
        /\ a \in Int /\ b \in Int /\ c \in Int
    BY <1>4, <1>5, <2>1
  <2> HIDE DEF a, b, c
  <2>4. Charts!Min({a, b, c}) \in {a, b, c} /\ Charts!Min({a, b, c}) <= b
    BY <2>3, LeastOfThree
  <2>5. Charts!GridStart \in Nat /\ Charts!GridStart <= b
    BY <2>2, <2>3, <2>4
  <2> QED
    BY <2>5 DEF b
<1>7. Charts!Day(Charts!AsOf) \in Nat
  BY <1>2, <1>3
<1>8. Charts!GridEnd \in Nat /\ Charts!PlanEnd <= Charts!GridEnd
  BY <1>5, <1>7, Greater DEF Charts!GridEnd
<1>9. Charts!Series = [d \in Charts!GridStart .. Charts!GridEnd |-> Charts!DayPoint(d)]
  BY DEF Charts!Series, Charts!Started
<1> QED
  BY <1>4, <1>5, <1>6, <1>7, <1>8, <1>9

(* A measured day is the sprint at the end of that day, or as it stands. *)
LEMMA DayMeasured ==
    ASSUME ChartsApart, ChartInv, charted.state # "planned",
           NEW d \in Nat, d <= Charts!Day(Charts!AsOf)
    PROVE  LET at == Charts!Min({Charts!EndOfDay(d), Charts!AsOf})
               scoped == Charts!WithinAt(at)
               done == {t \in scoped : t \in Charts!Done /\ doneAt[t] <= at}
           IN  /\ at \in 0 .. instant /\ scoped \in SUBSET Story
               /\ done = scoped \cap Charts!DoneSince(at)
               /\ Charts!DayPoint(d) = [scope |-> Charts!Worth(scoped), done |-> Charts!Worth(done),
                                        remaining |-> Charts!Worth(scoped) - Charts!Worth(done)]
               /\ Charts!DayPoint(d) # None
<1> DEFINE at == Charts!Min({Charts!EndOfDay(d), Charts!AsOf})
           scoped == Charts!WithinAt(at)
           done == {t \in scoped : t \in Charts!Done /\ doneAt[t] <= at}
<1>1. InstantsADay \in Nat \ {0} /\ instant \in Nat /\ Charts!AsOf \in 0 .. instant
  BY ChartFacts DEF ChartsApart
<1>2. Charts!Day(Charts!AsOf) \in Nat
  BY GridFacts
<1>3. at \in 0 .. instant
  <2>1. Charts!EndOfDay(d) \in Nat
    <3>1. d * InstantsADay \in Nat
      BY <1>1, NaturalProduct
    <3> DEFINE x == d * InstantsADay
    <3>2. x \in Nat /\ Charts!EndOfDay(d) = x + InstantsADay - 1
      BY <3>1 DEF Charts!EndOfDay
    <3> HIDE DEF x
    <3> QED
      BY <1>1, <3>2
  <2> QED
    BY <1>1, <2>1, Lesser
<1>4. scoped \in SUBSET Story /\ scoped \subseteq Charts!Live
  BY DEF Charts!WithinAt, Charts!Live
<1> HIDE DEF at
<1>5. {t \in Charts!StatTasks : Charts!InAt(t, at)} = scoped
  BY <1>3, WithinTold
<1>6. done = scoped \cap Charts!DoneSince(at)
  <2>1. Charts!DoneSince(at) = {t \in Charts!Live : t \in Charts!Done /\ doneAt[t] <= at}
    BY <1>3, DoneSinceTold
  <2> HIDE DEF scoped
  <2> QED
    BY <1>4, <2>1
<1>7. ~(d > Charts!Day(Charts!AsOf))
  BY <1>2
<1>8. Charts!DayPoint(d) = [scope |-> Charts!Worth(scoped), done |-> Charts!Worth(done),
                            remaining |-> Charts!Worth(scoped) - Charts!Worth(done)]
  <2> HIDE DEF scoped
  <2>1. Charts!DayPoint(d) =
          LET s == {t \in Charts!StatTasks : Charts!InAt(t, at)}
              n == {t \in s : t \in Charts!Done /\ doneAt[t] <= at}
          IN [scope |-> Charts!Worth(s), done |-> Charts!Worth(n),
              remaining |-> Charts!Worth(s) - Charts!Worth(n)]
    BY <1>7 DEF Charts!DayPoint, at
  <2> QED
    BY <1>5, <2>1
<1>9. Charts!Worth(scoped) \in Int /\ Charts!Worth(done) \in Int
  <2>1. done \in SUBSET Story
    BY <1>4
  <2> HIDE DEF scoped, done
  <2> QED
    BY <1>4, <2>1, WorthIsNumber
<1>10. Charts!DayPoint(d) # None
  <2> HIDE DEF scoped, done
  <2>1. Charts!DayPoint(d) \in [scope: Int, done: Int, remaining: Int]
    BY <1>8, <1>9
  <2> QED
    BY <2>1 DEF ChartsApart
<1> QED
  BY <1>3, <1>4, <1>6, <1>8, <1>10 DEF at

LEMMA DaysAreTrue == ASSUME ChartsApart, ChartInv PROVE Charts!DaysAreTrue
<1>1. ASSUME charted.state # "planned"
      PROVE  Charts!Elapsed = Charts!Cardinality({d \in Charts!PlanStart .. Charts!PlanEnd : Charts!Series[d] # None})
  <2> DEFINE from == Charts!PlanStart
             to == Charts!PlanEnd
             today == Charts!Day(Charts!AsOf)
             last == IF today <= to THEN today ELSE to
  <2>1. /\ from \in Nat /\ to \in Nat /\ today \in Nat
        /\ Charts!GridStart \in Nat /\ Charts!GridStart <= from
        /\ Charts!GridEnd \in Nat /\ to <= Charts!GridEnd
        /\ \A d \in Charts!GridStart .. Charts!GridEnd : Charts!Series[d] = Charts!DayPoint(d)
    BY <1>1, GridFacts
  <2>2. ASSUME NEW d \in from .. to
        PROVE  Charts!Series[d] # None <=> d <= today
    <3>1. d \in Nat /\ Charts!Series[d] = Charts!DayPoint(d)
      BY <2>1
    <3>2. CASE d <= today
      BY <1>1, <3>1, <3>2, DayMeasured
    <3>3. CASE ~(d <= today)
      <4>1. d > Charts!Day(Charts!AsOf)
        BY <2>1, <3>1, <3>3
      <4> QED
        BY <3>1, <3>3, <4>1 DEF Charts!DayPoint
    <3> QED
      BY <3>2, <3>3
  <2>3. {d \in from .. to : Charts!Series[d] # None} = {d \in from .. to : d <= today}
    BY <2>2
  <2>4. Charts!Elapsed = Charts!Max({0, Charts!Min({today - from + 1, to - from + 1})})
    BY <1>1 DEF Charts!Elapsed, Charts!Started
  <2> HIDE DEF from, to, today
  <2>5. {d \in from .. to : d <= today} = from .. last
    BY <2>1
  <2>6. last \in Int
    BY <2>1
  <2>7. Charts!Min({today - from + 1, to - from + 1}) = last - from + 1
    <3>1. today - from + 1 \in Int /\ to - from + 1 \in Int
      BY <2>1
    <3>2. Charts!Min({today - from + 1, to - from + 1}) =
            IF today - from + 1 <= to - from + 1 THEN today - from + 1 ELSE to - from + 1
      BY <3>1, Lesser
    <3> QED
      BY <2>1, <3>2
  <2> HIDE DEF last
  <2>8. Charts!Elapsed = IF 0 >= last - from + 1 THEN 0 ELSE last - from + 1
    <3>1. last - from + 1 \in Int
      BY <2>1, <2>6
    <3> QED
      BY <2>4, <2>7, <3>1, Greater
  <2>9. Cardinality(from .. last) = IF from > last THEN 0 ELSE last - from + 1
    BY <2>1, <2>6, FS_Interval
  <2>10. Charts!Elapsed = Cardinality(from .. last)
    BY <2>1, <2>6, <2>8, <2>9
  <2>11. Charts!Cardinality(from .. last) = Cardinality(from .. last)
    BY DEF Charts!Cardinality, Cardinality
  <2> QED
    BY <2>3, <2>5, <2>10, <2>11 DEF from, to
<1>2. ASSUME NEW d \in DOMAIN Charts!Series, Charts!Series[d] # None
      PROVE  LET at == Charts!Min({Charts!EndOfDay(d), Charts!AsOf}) IN
             /\ Charts!Series[d].scope = Charts!Worth(Charts!WithinAt(at))
             /\ Charts!Series[d].done = Charts!Worth(Charts!WithinAt(at) \cap Charts!DoneSince(at))
  <2>1. charted.state # "planned"
    <3> SUFFICES ASSUME charted.state = "planned" PROVE FALSE
      OBVIOUS
    <3>1. Charts!Series = <<>>
      BY DEF Charts!Series, Charts!Started
    <3> QED
      BY <1>2, <3>1
  <2>2. /\ d \in Charts!GridStart .. Charts!GridEnd /\ Charts!GridStart \in Nat /\ Charts!GridEnd \in Nat
        /\ Charts!Series[d] = Charts!DayPoint(d) /\ Charts!Day(Charts!AsOf) \in Nat
    BY <1>2, <2>1, GridFacts
  <2>3. d \in Nat
    BY <2>2
  <2>4. ~(d > Charts!Day(Charts!AsOf))
    BY <1>2, <2>2 DEF Charts!DayPoint
  <2>5. d <= Charts!Day(Charts!AsOf)
    BY <2>2, <2>3, <2>4
  <2> DEFINE at == Charts!Min({Charts!EndOfDay(d), Charts!AsOf})
             scoped == Charts!WithinAt(at)
             done == {t \in scoped : t \in Charts!Done /\ doneAt[t] <= at}
  <2>6. /\ done = scoped \cap Charts!DoneSince(at)
        /\ Charts!DayPoint(d) = [scope |-> Charts!Worth(scoped), done |-> Charts!Worth(done),
                                 remaining |-> Charts!Worth(scoped) - Charts!Worth(done)]
    BY <2>1, <2>3, <2>5, DayMeasured
  <2> HIDE DEF at, scoped, done
  <2>7. Charts!Series[d].scope = Charts!Worth(scoped) /\ Charts!Series[d].done = Charts!Worth(done)
    BY <2>2, <2>6
  <2>8. Charts!Worth(done) = Charts!Worth(scoped \cap Charts!DoneSince(at))
    BY <2>6
  <2> QED
    BY <2>7, <2>8 DEF at, scoped
<1> QED
  BY <1>1, <1>2 DEF Charts!DaysAreTrue, Charts!Started

LEMMA ClosingIsKept == ASSUME ChartsApart, ChartInv PROVE Charts!ClosingIsKept
<1> SUFFICES ASSUME charted.state = "completed", Charts!HasSnapshot
             PROVE  LET before == was[charted.completedAt] IN
                    /\ Charts!Progress.done = before.done \cap Charts!WithinAt(Charts!AsOf)
                    /\ Charts!Listed \cap Charts!Live = Charts!WithinAt(Charts!AsOf)
                    /\ Charts!Velocity.tasks = Charts!Cardinality(Charts!Snapshot \cap before.done)
  BY DEF Charts!ClosingIsKept
<1>1. /\ Charts!AsOf \in 0 .. instant /\ Charts!AsOf = charted.completedAt - 1
      /\ charted.completedAt \in 1 .. instant /\ instant \in Nat
  BY ChartFacts
<1>2. Charts!WithinAt(Charts!AsOf) = was[charted.completedAt].within \cap Charts!Live
  <2>1. Charts!AsOf + 1 = charted.completedAt
    BY <1>1
  <2> QED
    BY <2>1 DEF Charts!WithinAt
<1>3. \A t \in Story :
        /\ frozen[t] # None => /\ t \in was[charted.completedAt].within
                               /\ frozen[t] = "done" <=> t \in was[charted.completedAt].done
        /\ t \in Charts!Live /\ t \in was[charted.completedAt].within => frozen[t] # None
  BY DEF ChartInv, ClosingTold
<1>4. Charts!Members = Charts!WithinAt(Charts!AsOf)
  BY <1>1, WithinTold DEF Charts!Members
<1>5. Charts!Live \subseteq Story
  BY DEF Charts!Live
<1>6. Charts!Progress.done = was[charted.completedAt].done \cap Charts!WithinAt(Charts!AsOf)
  <2>1. \A t \in Charts!Members : Charts!DoneNow(t) <=> t \in was[charted.completedAt].done
    BY <1>2, <1>3, <1>4, <1>5 DEF Charts!DoneNow
  <2>2. Charts!Progress.done = {t \in Charts!Members : Charts!DoneNow(t)}
    BY DEF Charts!Progress
  <2> QED
    BY <1>4, <2>1, <2>2
<1>7. Charts!Listed \cap Charts!Live = Charts!WithinAt(Charts!AsOf)
  <2>1. Charts!Listed = {t \in Story : frozen[t] # None}
    BY DEF Charts!Listed, Charts!Snapshot
  <2> QED
    BY <1>2, <1>3, <1>5, <2>1
<1>8. Charts!Velocity.tasks = Charts!Cardinality(Charts!Snapshot \cap was[charted.completedAt].done)
  <2>1. Charts!Velocity = Charts!Tally({t \in Charts!Snapshot : frozen[t] = "done"})
    BY DEF Charts!Velocity
  <2>2. {t \in Charts!Snapshot : frozen[t] = "done"} = Charts!Snapshot \cap was[charted.completedAt].done
    BY <1>3 DEF Charts!Snapshot
  <2> QED
    BY <2>1, <2>2 DEF Charts!Tally
<1> QED
  BY <1>6, <1>7, <1>8

LEMMA ChartsAgree == ASSUME ChartsApart, ChartInv PROVE Charts!ChartsAgree
<1> DEFINE today == Charts!Day(instant)
<1> SUFFICES ASSUME charted.state = "active", Charts!HasPoints,
                    \A t \in within \cap Charts!Live : Charts!PointsOf(t) >= 0,
                    today \in DOMAIN Charts!Burndown
             PROVE  Charts!Burndown[today] = Charts!Series[today].remaining
  BY DEF Charts!ChartsAgree, Charts!Estimated
<1>1. instant \in Nat /\ Charts!AsOf = instant /\ InstantsADay \in Nat \ {0}
  BY ChartFacts DEF ChartsApart
<1>2. /\ Charts!PlanStart \in Nat /\ Charts!PlanEnd \in Nat /\ today \in Nat
      /\ Charts!GridStart \in Nat /\ Charts!GridStart <= Charts!PlanStart
      /\ Charts!GridEnd \in Nat /\ Charts!PlanEnd <= Charts!GridEnd
      /\ \A d \in Charts!GridStart .. Charts!GridEnd : Charts!Series[d] = Charts!DayPoint(d)
  BY <1>1, GridFacts
<1> DEFINE tasks == within \cap Charts!Live
           burned == {t \in tasks \cap Charts!Done : Charts!Day(doneAt[t]) <= today}
<1>3. today \in Charts!PlanStart .. Charts!PlanEnd
      /\ Charts!Burndown[today] = Charts!Max({0, Charts!PointsIn(tasks) - Charts!PointsIn(burned)})
  BY DEF Charts!Burndown, Charts!Remaining
<1>4. Charts!Series[today] = Charts!DayPoint(today)
  <2> HIDE DEF today
  <2> QED
    BY <1>2, <1>3
<1> DEFINE at == Charts!Min({Charts!EndOfDay(today), Charts!AsOf})
           scoped == Charts!WithinAt(at)
           done == {t \in scoped : t \in Charts!Done /\ doneAt[t] <= at}
<1>5. Charts!DayPoint(today) = [scope |-> Charts!Worth(scoped), done |-> Charts!Worth(done),
                                remaining |-> Charts!Worth(scoped) - Charts!Worth(done)]
  <2>1. today <= Charts!Day(Charts!AsOf)
    BY <1>1, <1>2
  <2> HIDE DEF today
  <2> QED
    BY <1>2, <2>1, DayMeasured
<1>6. at = instant
  <2>1. Charts!EndOfDay(today) \in Nat /\ instant <= Charts!EndOfDay(today)
    <3> DEFINE x == (instant \div InstantsADay) * InstantsADay
    <3>1. x \in Nat /\ instant <= x + InstantsADay - 1
      BY <1>1, Division
    <3>2. Charts!EndOfDay(today) = x + InstantsADay - 1
      BY DEF Charts!EndOfDay, Charts!Day
    <3> HIDE DEF x
    <3>3. x + InstantsADay - 1 \in Nat
      BY <1>1, <3>1
    <3> QED
      BY <3>1, <3>2, <3>3
  <2> HIDE DEF today
  <2>2. at = IF Charts!EndOfDay(today) <= instant THEN Charts!EndOfDay(today) ELSE instant
    BY <1>1, <2>1, Lesser
  <2> QED
    BY <1>1, <2>1, <2>2
<1>7. scoped = tasks
  <2>1. was[instant + 1].within = within
    BY DEF ChartInv, ScopeTold
  <2> HIDE DEF at
  <2> QED
    BY <1>6, <2>1 DEF Charts!WithinAt
<1>8. done = burned
  <2>1. ASSUME NEW t \in tasks, t \in Charts!Done
        PROVE  doneAt[t] <= instant /\ Charts!Day(doneAt[t]) <= today
    <3>1. t \in Story /\ doneAt[t] # None
      BY <2>1 DEF Charts!Live, Charts!Done
    <3>2. doneAt[t] \in Nat
      BY <3>1 DEF ChartInv, ChartShape, Charts!TypeOK, Charts!Instant, ChartsApart
    <3>3. doneAt[t] <= instant
      BY <3>1 DEF ChartInv, DoneTold
    <3>4. doneAt[t] \div InstantsADay <= instant \div InstantsADay
      BY <1>1, <3>2, <3>3, DayOrder
    <3> QED
      BY <3>3, <3>4 DEF Charts!Day
  <2> HIDE DEF at, scoped, tasks, today
  <2> QED
    BY <1>6, <1>7, <2>1
<1>9. /\ tasks \in SUBSET Story /\ burned \in SUBSET tasks /\ burned \in SUBSET Story
      /\ \A t \in tasks : Charts!PointsOf(t) >= 0
      /\ \A t \in burned : Charts!PointsOf(t) >= 0
  BY DEF Charts!Live
<1> HIDE DEF today, at, scoped, done, tasks, burned
<1>10. /\ Charts!Worth(scoped) = Charts!PointsIn(tasks) /\ Charts!Worth(done) = Charts!PointsIn(burned)
       /\ Charts!PointsIn(tasks) \in Int /\ Charts!PointsIn(burned) \in Int
       /\ Charts!PointsIn(tasks) - Charts!PointsIn(burned) >= 0
  BY <1>7, <1>8, <1>9, WorthIsNumber
<1>11. Charts!Series[today].remaining = Charts!PointsIn(tasks) - Charts!PointsIn(burned)
  BY <1>4, <1>5, <1>10
<1>12. Charts!Max({0, Charts!PointsIn(tasks) - Charts!PointsIn(burned)}) =
         Charts!PointsIn(tasks) - Charts!PointsIn(burned)
  <2> DEFINE x == Charts!PointsIn(tasks) - Charts!PointsIn(burned)
  <2>1. x \in Int /\ x >= 0
    BY <1>10
  <2> HIDE DEF x
  <2>2. Charts!Max({0, x}) = IF 0 >= x THEN 0 ELSE x
    BY <2>1, Greater
  <2>3. Charts!Max({0, x}) = x
    BY <2>1, <2>2
  <2> QED
    BY <2>3 DEF x
<1> QED
  BY <1>3, <1>11, <1>12

(* Whatever happens to a sprint and its tasks, before it closes and after, the pages show what   *)
(* was: the days of the burndown, the scope card with its original, added and removed tasks,     *)
(* the closing's progress, velocity and list, and both charts alike (sprint_stats.rs and         *)
(* routes/sprints.rs, over sprint_scope_events, completed_at and sprint_task_snapshots).         *)
THEOREM ChartsTellTheTruth == ASSUME ChartsApart PROVE OfficeSpec => []ChartTellsTheTruth
<1>1. ChartInv => ChartTellsTheTruth
  BY DaysAreTrue, ScopeIsTrue, ClosingIsKept, ChartsAgree DEF ChartTellsTheTruth, Charts!ChartTellsTheTruth
<1> QED
  BY <1>1, ChartsKeep, PTL

----------------------------------------------------------------------------
(* The types of the parts *)

LEMMA ImportTyped == ASSUME ImportApart PROVE OfficeSpec => []Jira!TypeOK
<1> DEFINE Noted == touched \subseteq Jira!Id /\ known \in BOOLEAN
<1>1. OfficeInit => Noted
  BY DEF OfficeInit, Jira!Init
<1>2. Noted /\ [OfficeNext]_officeVars => Noted'
  <2> SUFFICES ASSUME Noted, [OfficeNext]_officeVars PROVE Noted'
    OBVIOUS
  <2>1. Jira!Next \/ UNCHANGED Jira!vars
    BY ImportSteps
  <2>2. CASE UNCHANGED <<touched, known>>
    BY <2>2
  <2>3. ASSUME NEW r \in Request, Jira!Commit(r)
        PROVE  Noted'
    BY <2>3 DEF Jira!Commit
  <2>4. ASSUME NEW t \in Jira!Id, Jira!TouchLog(t)
        PROVE  Noted'
    BY <2>4 DEF Jira!TouchLog
  <2>5. ASSUME NEW r \in Request,
               \/ \E plan \in Plans, create \in BOOLEAN : Jira!Begin(r, plan, create)
               \/ Jira!Select(r) \/ Jira!WriteUpdate(r) \/ Jira!WriteInsert(r)
               \/ Jira!WriteConflicts(r) \/ Jira!Abandon(r)
        PROVE  UNCHANGED <<touched, known>>
    BY <2>5 DEF Jira!Begin, Jira!Select, Jira!WriteUpdate, Jira!WriteInsert, Jira!WriteConflicts,
                Jira!Abandon
  <2>6. ASSUME NEW t \in Jira!Id, Jira!DeleteTask(t) \/ Jira!RestoreTask(t)
        PROVE  UNCHANGED <<touched, known>>
    BY <2>6 DEF Jira!DeleteTask, Jira!RestoreTask
  <2>7. UNCHANGED Jira!vars => UNCHANGED <<touched, known>>
    BY DEF Jira!vars
  <2> HIDE DEF Noted
  <2> QED
    BY <2>1, <2>2, <2>3, <2>4, <2>5, <2>6, <2>7 DEF Jira!Next
<1>3. ImportInv /\ Noted => Jira!TypeOK
  <2> SUFFICES ASSUME ImportInv, Noted PROVE Jira!TypeOK
    OBVIOUS
  <2>1. /\ task \in [Jira!Id -> Jira!TaskRow \cup {None}] /\ logs \in [Jira!Id -> 0 .. 2]
        /\ sprint \in [Jira!State -> Nat] /\ txn \in [Request -> TxnRecord]
    BY DEF ImportInv, ImportTypes
  <2>2. \A r \in Request : txn[r].pc \in {"idle", "select", "write"}
    BY <2>1 DEF TxnRecord
  <2> QED
    BY <2>1, <2>2 DEF Jira!TypeOK
<1> QED
  BY <1>1, <1>2, <1>3, ImportKeep, PTL DEF OfficeSpec

LEMMA TimeTyped == OfficeSpec => []TypeOK
<1>1. OfficeInit => Init
  BY DEF OfficeInit
<1>2. OfficeNext => [Next]_vars
  BY DEF OfficeNext
<1>3. UNCHANGED officeVars => UNCHANGED vars
  BY DEF officeVars
<1>4. [OfficeNext]_officeVars => [Next]_vars
  BY <1>2, <1>3
<1> QED
  BY <1>1, <1>4, TypeCorrect, PTL DEF OfficeSpec, Spec

LEMMA SprintsTyped == ASSUME SprintsApart PROVE OfficeSpec => []Sprints!TypeOK
<1>1. SprintFacts!TypeOK => Sprints!TypeOK
  <2>1. Sprints!SprintRow = SprintFacts!SprintRow
    BY DEF Sprints!SprintRow, Sprints!Row, Sprints!State, SprintFacts!SprintRow, SprintFacts!Row,
           SprintFacts!State
  <2>2. Sprints!TaskRow = SprintFacts!TaskRow /\ Sprints!Snapshot = SprintFacts!Snapshot
    BY DEF Sprints!TaskRow, Sprints!Row, Sprints!Status, Sprints!Snapshot, SprintFacts!TaskRow,
           SprintFacts!Row, SprintFacts!Status, SprintFacts!Snapshot
  <2>3. Sprints!Target = SprintFacts!Target
    BY DEF Sprints!Target, SprintFacts!Target
  <2>4. Sprints!RequestRecord = SprintFacts!RequestRecord
    BY <2>2, <2>3 DEF Sprints!RequestRecord, SprintFacts!RequestRecord
  <2> QED
    BY <2>1, <2>2, <2>4 DEF Sprints!TypeOK, SprintFacts!TypeOK
<1>2. SprintFacts!SerialInv => SprintFacts!TypeOK
  BY DEF SprintFacts!SerialInv, SprintFacts!Inv
<1> QED
  BY <1>1, <1>2, SprintsKeep, PTL

(* Whatever part a behaviour moves, its rows, its requests and what is on its way keep their
   types: time, sessions, accounts, books, invoices, imports, sprints, charts and fields
   (domain/sessions.rs, routes/admin_panel.rs, domain/invoicing.rs, domain/import_export.rs,
   routes/sprints.rs, domain/sprint_stats.rs, domain/fields.rs). *)
THEOREM OfficeTyped ==
    ASSUME BillsApart, SessionsApart, SprintsApart, ImportApart, FieldsApart, ChartsApart
    PROVE  OfficeSpec => []PartsTypeOK
<1>1. TypeOK /\ Sessions!TypeOK /\ People!TypeOK /\ Books!TypeOK /\ Bills!TypeOK /\ Jira!TypeOK
        /\ Sprints!TypeOK /\ Charts!TypeOK /\ Fields!TypeOK
        => PartsTypeOK
  BY DEF PartsTypeOK
<1> QED
  BY <1>1, TimeTyped, SessionsTyped, PeopleTyped, BooksTyped, BillsTyped, ImportTyped, SprintsTyped,
     ChartsTyped, FieldsTyped, PTL
================================================================================
