----------------------------- MODULE Invoicing -----------------------------
(***************************************************************************)
(* The invoices of a year: generate(), the status changes and the deletion *)
(* of drafts of apps/api/src/domain/invoicing.rs.  What the lines of an    *)
(* invoice come to is Billing's matter: here it is an amount that changes  *)
(* with the time logged, 0 when nothing is billable.                       *)
(***************************************************************************)
EXTENDS Naturals, FiniteSets

CONSTANTS
    Invoice,    \* ids a row of invoices may take: bounds the rows
    Amount,     \* what the billable time of the client comes to
    Request,    \* slots for generate() in flight: the bound on concurrency
    MaxDeleted, \* bounds the deletions of drafts
    None        \* no value

VARIABLES
    client,   \* clients.deleted_at IS NULL
    owed,     \* the billable time of the period, in cents
    invoice,  \* table invoices, invoice_lines being in the amount
    req,      \* generate() between its reads and its transaction, None when idle
    told,     \* history: what each number was when its invoice was sent or paid
    deleted   \* history: drafts deleted

vars == <<client, owed, invoice, req, told, deleted>>

----------------------------------------------------------------------------
Number == 1 .. Cardinality(Invoice)
Status == {"draft", "sent", "paid"}
InvoiceRow == [number: Number, status: Status, total: Amount]

Invoices == {i \in Invoice : invoice[i] # None}

(* The count plus one, whatever was deleted; number is UNIQUE. *)
NextNumber == Cardinality(Invoices) + 1
NumberTaken == \E i \in Invoices : invoice[i].number = NextNumber

Init ==
    /\ client = TRUE /\ owed = 0 /\ deleted = 0
    /\ invoice = [i \in Invoice |-> None]
    /\ req = [r \in Request |-> None]
    /\ told = [n \in Number |-> None]

----------------------------------------------------------------------------
LogTime(cents) == owed' = cents /\ UNCHANGED <<client, invoice, req, told, deleted>>
DeleteClient == client' = FALSE /\ UNCHANGED <<owed, invoice, req, told, deleted>>

(* get_client() and the rollup, before the transaction. *)
GenerateRead(r) ==
    /\ req[r] = None /\ client /\ owed > 0
    /\ req' = [req EXCEPT ![r] = owed]
    /\ UNCHANGED <<client, owed, invoice, told, deleted>>

Free == Invoice \ Invoices

GenerateInsert(r) ==
    /\ req[r] # None /\ Free # {} /\ ~NumberTaken
    /\ invoice' = [invoice EXCEPT ![CHOOSE i \in Free : TRUE] =
                     [number |-> NextNumber, status |-> "draft", total |-> req[r]]]
    /\ req' = [req EXCEPT ![r] = None]
    /\ UNCHANGED <<client, owed, told, deleted>>

(* The number was taken, by an overlapping generate() or since ever: a 500. *)
GenerateFails(r) ==
    /\ req[r] # None /\ NumberTaken
    /\ req' = [req EXCEPT ![r] = None]
    /\ UNCHANGED <<client, owed, invoice, told, deleted>>

Issue(i, status) ==
    /\ invoice' = [invoice EXCEPT ![i].status = status]
    /\ told' = [told EXCEPT ![invoice[i].number] = IF @ = None THEN invoice[i].total ELSE @]
    /\ UNCHANGED <<client, owed, req, deleted>>

MarkSent(i) == i \in Invoices /\ invoice[i].status = "draft" /\ Issue(i, "sent")
MarkPaid(i) == i \in Invoices /\ invoice[i].status # "paid" /\ Issue(i, "paid")

DeletableUnlessPaid(i) == invoice[i].status # "paid"

Deletable(i) == invoice[i].status = "draft"

DeleteDraft(i) ==
    /\ i \in Invoices /\ Deletable(i) /\ deleted < MaxDeleted
    /\ invoice' = [invoice EXCEPT ![i] = None] /\ deleted' = deleted + 1
    /\ UNCHANGED <<client, owed, req, told>>

----------------------------------------------------------------------------
Next ==
    \/ \E cents \in Amount : LogTime(cents)
    \/ DeleteClient
    \/ \E r \in Request : GenerateRead(r) \/ GenerateInsert(r) \/ GenerateFails(r)
    \/ \E i \in Invoice : MarkSent(i) \/ MarkPaid(i) \/ DeleteDraft(i)

Spec == Init /\ [][Next]_vars

----------------------------------------------------------------------------
TypeOK ==
    /\ client \in BOOLEAN /\ owed \in Amount
    /\ invoice \in [Invoice -> InvoiceRow \cup {None}]
    /\ req \in [Request -> Amount \cup {None}]
    /\ told \in [Number -> Amount \cup {None}]

(* A number the client was sent or has paid is for good: its invoice is still there
   with the amount it had, and no other invoice was ever told under it, whatever was
   logged, deleted and generated since (domain/invoicing.rs). *)
IssuedNumbersAreFinal ==
    \A n \in Number : told[n] # None =>
        \E i \in Invoices : invoice[i].number = n /\ invoice[i].status # "draft" /\ invoice[i].total = told[n]

(* Whenever there is billable time the next number is free: generate() is "rejected
   if there's no billable time in the window" and otherwise gives "a human-friendly
   sequential number" (domain/invoicing.rs). *)
NumberIsFree == client /\ owed > 0 => ~NumberTaken
=============================================================================
