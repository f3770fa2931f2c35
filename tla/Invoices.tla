---- MODULE Invoices ----
(***************************************************************************)
(* The invoice of each succeeded payment: invoices.service.ts over         *)
(* prisma-invoice.repository.ts.  generateForPayment is called without     *)
(* waiting, by the settlement of a payment and by every replay of it, so   *)
(* two generations of one invoice overlap; each writes row and document by *)
(* id, whatever the other has done.  A provider or storage call may fail;  *)
(* a database call that fails has no effect here.                          *)
(***************************************************************************)
EXTENDS Media

CONSTANTS
  Payments,    \* succeeded payments
  Numbers,     \* invoice numbers that can be drawn
  MaxAttempts  \* MAX_NUMBER_ATTEMPTS

ASSUME InvoicesAssumption == None \notin Numbers /\ MaxAttempts \in Nat \ {0}

VARIABLES invoice, issued

invoicing == <<invoice, issued>>

Documents == {a \in Assets : Purpose[a] = "invoice"}
NoInvoice == [status |-> "none", number |-> None, document |-> None]

InvoicesInit ==
  /\ invoice = [p \in Payments |-> NoInvoice]
  /\ issued = [p \in Payments |-> {}]

CallFor(p, step) == [step |-> step, payment |-> p, attempt |-> 1, document |-> None]

\* generateForPayment: an invoice already generated is returned untouched.
GenerateForPayment(c, p) ==
  /\ invoice[p].status # "generated"
  /\ Begin(c, CallFor(p, IF invoice[p].status = "none" THEN "number" ELSE "reset"))
  /\ UNCHANGED <<invoicing, media>>

\* Whether a row with this payment or this number is there already (two unique indexes).
TakenForPayment(p, n) == invoice[p].status # "none"
Taken(p, n) == invoice[p].status # "none" \/ \E q \in Payments : invoice[q].number = n

\* createPendingInvoice: a number is drawn and the row inserted, or the insert is refused.
CreatePending(c) ==
  LET p == call[c].payment IN
  /\ At(c, "number")
  /\ \E n \in Numbers :
       IF Taken(p, n)
       THEN Goto(c, "reread") /\ UNCHANGED invoicing
       ELSE /\ invoice' = [invoice EXCEPT ![p] =
                            [status |-> "pending", number |-> n, document |-> None]]
            /\ issued' = [issued EXCEPT ![p] = @ \cup {n}]
            /\ Goto(c, "provider")
  /\ UNCHANGED media

\* Its answer to a refusal: the payment's own invoice, another number, or no more attempts.
Reread(c) ==
  /\ At(c, "reread")
  /\ IF invoice[call[c].payment].status # "none" THEN Goto(c, "provider")
     ELSE IF call[c].attempt = MaxAttempts THEN Finish(c)
     ELSE call' = [call EXCEPT ![c].step = "number", ![c].attempt = @ + 1]
  /\ UNCHANGED <<invoicing, media>>

SetInvoice(p, status) == invoice' = [invoice EXCEPT ![p].status = status]

\* markPending.
MarkPending(c) ==
  /\ At(c, "reset")
  /\ SetInvoice(call[c].payment, "pending")
  /\ Goto(c, "provider")
  /\ UNCHANGED <<issued, media>>

\* provider.generateInvoice answers and the document's asset is created, or it fails; which of
\* the fresh ids the asset gets makes no difference.
FreshDocuments == {a \in Documents : asset[a] = "none"}
CreateDocument(c) ==
  /\ At(c, "provider")
  /\ \/ Goto(c, "failInvoice") /\ UNCHANGED asset
     \/ /\ FreshDocuments # {}
        /\ LET fresh == CHOOSE a \in FreshDocuments : TRUE IN
           /\ SetAsset(fresh, "pending")
           /\ call' = [call EXCEPT ![c].step = "upload", ![c].document = fresh]
  /\ UNCHANGED <<invoicing, stored>>

\* uploadObject (never overwrites), or its failure.
UploadDocument(c) ==
  /\ At(c, "upload")
  /\ \/ Goto(c, "failDocument") /\ UNCHANGED stored
     \/ stored' = [stored EXCEPT ![call[c].document] = "good"] /\ Goto(c, "ready")
  /\ UNCHANGED <<invoicing, asset>>

MarkReady(c) ==
  /\ At(c, "ready")
  /\ SetAsset(call[c].document, "ready")
  /\ Goto(c, "generated")
  /\ UNCHANGED <<invoicing, stored>>

\* markGenerated files the document with the invoice, or fails.
MarkGenerated(c) ==
  LET p == call[c].payment IN
  /\ At(c, "generated")
  /\ \/ Goto(c, "failDocument") /\ UNCHANGED invoice
     \/ /\ invoice' = [invoice EXCEPT ![p].status = "generated",
                                      ![p].document = call[c].document]
        /\ Finish(c)
  /\ UNCHANGED <<issued, media>>

\* What a failed generation gives up: its own document, and the invoice's status.
GivenUpFiled(c) == {call[c].document, invoice[call[c].payment].document}
GivenUp(c) == {call[c].document}

\* The catch of generateForPayment: markFailed of the asset, then of the invoice, by id; the
\* failure of either write is swallowed.
FailDocument(c) ==
  /\ At(c, "failDocument")
  /\ \/ asset' = [a \in Assets |-> IF a \in GivenUp(c) THEN "failed" ELSE asset[a]]
     \/ UNCHANGED asset
  /\ Goto(c, "failInvoice")
  /\ UNCHANGED <<invoicing, stored>>
FailInvoice(c) ==
  /\ At(c, "failInvoice")
  /\ SetInvoice(call[c].payment, "failed") \/ UNCHANGED invoice
  /\ Finish(c)
  /\ UNCHANGED <<issued, media>>

InvoicesNext ==
  \E c \in Calls :
    \/ \E p \in Payments : GenerateForPayment(c, p)
    \/ CreatePending(c) \/ Reread(c) \/ MarkPending(c) \/ CreateDocument(c)
    \/ UploadDocument(c) \/ MarkReady(c) \/ MarkGenerated(c)
    \/ FailDocument(c) \/ FailInvoice(c)

----
InvoicesTypeOK ==
  invoice \in [Payments -> [status : {"none", "pending", "generated", "failed"},
                            number : Numbers \cup {None}, document : Documents \cup {None}]]

\* hasDocument, of the answers.
HasDocument(p) == invoice[p].status = "generated" /\ invoice[p].document # None

\* An invoice that says it has a document has one that can be read (getDocument), though
\* another generation of the same invoice may have failed meanwhile.
GeneratedHasDocument ==
  \A p \in Payments : invoice[p].status = "generated" =>
    HasDocument(p) /\ HasUrl(invoice[p].document)

\* A payment is issued one number for good and no two payments share one, though numbers
\* are drawn at random, two generations insert at once and each may be retried.
OneNumberPerPayment ==
  /\ \A p \in Payments : issued[p] = {invoice[p].number} \ {None}
  /\ \A p, q \in Payments : p # q => issued[p] \cap issued[q] = {}

\* An invoice stands: its number is its own for good and its document is there.
InvoicesStand == GeneratedHasDocument /\ OneNumberPerPayment
====
