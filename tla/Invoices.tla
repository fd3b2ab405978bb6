------------------------------ MODULE Invoices ------------------------------
(***************************************************************************)
(* The tax invoices.  One is created after a payment was captured (by the  *)
(* browser's verification and by the webhook, which may overlap) or after  *)
(* a cash order was placed, and again whenever one of them is repeated.    *)
(* Its number is read from the highest one there is; two unique columns,   *)
(* the number and the order, decide between overlapping creations.         *)
(***************************************************************************)
EXTENDS Naturals, FiniteSets, FiniteSetsExt

CONSTANTS
    Sales,              \* orders
    Issuers,            \* calls of createInvoiceForOrder that may overlap
    MaxNumberings       \* MAX_INVOICE_ATTEMPTS

ASSUME InvoicesAssumption == MaxNumberings \in Nat \ {0}

VARIABLES
    invoices,   \* the rows: order, number, cancelled, and whether a PDF is archived
    sale,       \* the orders: status, paid, cash, and the invoice they are linked to
    issuer,     \* the calls, with the order as they read it
    unfinished  \* history: orders whose call stopped between the row and the link

invoiceVars == <<invoices, sale, issuer, unfinished>>

NoCall == [step |-> "none"]
NoNumber == 0

InvoicesInit ==
    /\ invoices = {}
    /\ sale \in [Sales -> {[status |-> "CONFIRMED", paid |-> FALSE, cash |-> TRUE, invoice |-> NoNumber],
                           [status |-> "PENDING_PAYMENT", paid |-> FALSE, cash |-> FALSE, invoice |-> NoNumber]}]
    /\ issuer = [i \in Issuers |-> NoCall]
    /\ unfinished = {}

Calls(i, step) == issuer[i].step = step
Turns(i, step) == issuer' = [issuer EXCEPT ![i].step = step]
EndsCall(i) == issuer' = [issuer EXCEPT ![i] = NoCall]
InvoiceOf(o) == {r \in invoices : r.order = o}

(* The order has been settled, or is a cash order that stands.             *)
MayBeInvoiced(s) == s.paid \/ (s.cash /\ s.status = "CONFIRMED")

(* An order that has an invoice is answered with it; nothing is written.   *)
AskForInvoice(i, o) ==
    /\ Calls(i, "none")
    /\ InvoiceOf(o) = {} /\ MayBeInvoiced(sale[o])
    /\ issuer' = [issuer EXCEPT ![i] =
                    [step |-> "number", order |-> o, seen |-> sale[o].status, attempt |-> 1, number |-> NoNumber]]
    /\ UNCHANGED <<invoices, sale, unfinished>>

NextNumber == Max({r.number : r \in invoices} \cup {NoNumber}) + 1

GenerateInvoiceNumber(i) ==
    /\ Calls(i, "number")
    /\ issuer' = [issuer EXCEPT ![i].step = "create", ![i].number = NextNumber]
    /\ UNCHANGED <<invoices, sale, unfinished>>

(* The unique columns of the table.                                        *)
FreeOrderOnly(o, n) == InvoiceOf(o) = {}
IsFree(o, n) == InvoiceOf(o) = {} /\ \A r \in invoices : r.number # n

(* A conflict over the order is answered with the row that is there; one   *)
(* over the number is tried again, MaxNumberings times in all.             *)
CreateRow(i) ==
    LET c == issuer[i] IN
    /\ Calls(i, "create")
    /\ \/ /\ IsFree(c.order, c.number)
          /\ invoices' = invoices \cup {[order |-> c.order, number |-> c.number,
                                         cancelled |-> FALSE, archived |-> FALSE]}
          /\ Turns(i, "store")
       \/ /\ ~IsFree(c.order, c.number)
          /\ IF InvoiceOf(c.order) # {} \/ c.attempt = MaxNumberings
             THEN EndsCall(i)
             ELSE issuer' = [issuer EXCEPT ![i].step = "number", ![i].attempt = @ + 1]
          /\ UNCHANGED invoices
    /\ UNCHANGED <<sale, unfinished>>

Rewrite(S, field(_)) == invoices' = (invoices \ S) \cup {field(r) : r \in S}
Archived(r) == [r EXCEPT !.archived = TRUE]
Cancelled(r) == [r EXCEPT !.cancelled = TRUE]

(* The upload may fail; the row stays.                                     *)
ArchivePdf(i) ==
    /\ Calls(i, "store")
    /\ UNCHANGED invoices \/ Rewrite(InvoiceOf(issuer[i].order), Archived)
    /\ Turns(i, "link")
    /\ UNCHANGED <<sale, unfinished>>

(* The promotion goes by the status the call read at its start.            *)
LinkOrder(i) ==
    LET c == issuer[i] IN
    /\ Calls(i, "link")
    /\ sale' = [sale EXCEPT ![c.order].invoice = c.number,
                            ![c.order].status = IF c.seen = "PENDING_PAYMENT" THEN "CONFIRMED" ELSE @]
    /\ EndsCall(i)
    /\ UNCHANGED <<invoices, unfinished>>

(* The server stops, or a write fails: the call is not tried again by      *)
(* itself, and a repeated one finds the row and returns before the link.   *)
IssuerStops(i) ==
    /\ ~Calls(i, "none")
    /\ unfinished' = IF issuer[i].step \in {"store", "link"} THEN unfinished \cup {issuer[i].order} ELSE unfinished
    /\ EndsCall(i)
    /\ UNCHANGED <<invoices, sale>>

RegenerateInvoicePdf(r) ==
    /\ Rewrite({r}, Archived) /\ UNCHANGED <<sale, issuer, unfinished>>

CancelInvoice(r) ==
    /\ ~r.cancelled
    /\ Rewrite({r}, Cancelled) /\ UNCHANGED <<sale, issuer, unfinished>>

(* What the orders do meanwhile: a payment confirmed, which sets the order *)
(* CONFIRMED from whatever it was, and a cancellation.                     *)
SettleSale(o) ==
    /\ ~sale[o].paid
    /\ sale' = [sale EXCEPT ![o].paid = TRUE, ![o].status = "CONFIRMED"]
    /\ UNCHANGED <<invoices, issuer, unfinished>>

CancelSale(o) ==
    /\ sale[o].status # "CANCELLED"
    /\ sale' = [sale EXCEPT ![o].status = "CANCELLED"]
    /\ UNCHANGED <<invoices, issuer, unfinished>>

InvoiceStep ==
    \/ \E i \in Issuers :
        \/ \E o \in Sales : AskForInvoice(i, o)
        \/ GenerateInvoiceNumber(i) \/ CreateRow(i) \/ ArchivePdf(i) \/ LinkOrder(i) \/ IssuerStops(i)
    \/ \E r \in invoices : RegenerateInvoicePdf(r) \/ CancelInvoice(r)
    \/ \E o \in Sales : SettleSale(o) \/ CancelSale(o)

InvoicesSpec == InvoicesInit /\ [][InvoiceStep]_invoiceVars

-----------------------------------------------------------------------------
(* The books are in order: the numbers run from 1 without a gap, each is   *)
(* used once and each order has one, and every order with an invoice is    *)
(* linked to it, unless the call that creates it is under way or was cut   *)
(* off in between.  Whatever overlaps, repeats or stops.                   *)
BooksAreInOrder ==
    /\ {r.number : r \in invoices} = 1..Cardinality(invoices)
    /\ Cardinality({r.order : r \in invoices}) = Cardinality(invoices)
    /\ \A r \in invoices :
        \/ sale[r.order].invoice = r.number
        \/ sale[r.order].invoice = NoNumber
           /\ (r.order \in unfinished
               \/ \E i \in Issuers : issuer[i].step \in {"store", "link"} /\ issuer[i].number = r.number)
=============================================================================
