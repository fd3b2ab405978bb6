----------------------------- MODULE PaymentFlow -----------------------------
(***************************************************************************)
(* Online payment: integrations/razorpay/razorpay.service.ts and, as an    *)
(* external part, the payment gateway behind it.  Of the gateway only what *)
(* the service relies on is modelled: an order it created can have attempts *)
(* that fail and at most one that is authorised and captured; it delivers  *)
(* the events payment.failed and payment.captured at least once, late, and *)
(* in any order; it refunds at most what it captured.                      *)
(***************************************************************************)
EXTENDS OrderStore

CONSTANTS
    Amount,         \* the recorded amount of every payment, in units of money
    Prompt          \* TRUE: no money arrives, or is in flight, when an order
                    \* is given up (an assumption on the customers)


VARIABLE gateway    \* the gateway's record of each of its orders

NoOrder == "no order"

ASSUME PaymentAssumption ==
    /\ Amount \in Nat \ {0}
    /\ Prompt \in BOOLEAN
    /\ NoOrder \notin Orders

GatewayRecords ==
    [order: Orders \cup {NoOrder}, state: {"created", "offered", "authorized", "captured"},
     failed: BOOLEAN, refunded: 0 .. Amount]

GatewayInit ==
    gateway = [g \in GatewayOrders |->
                 [order |-> NoOrder, state |-> "created", failed |-> FALSE, refunded |-> 0]]

storeVars == <<ledger, rows>>

Open(g) == gateway[g].order # NoOrder

(* Money the gateway holds for o that no handler has recorded yet.         *)
Unsettled(o) ==
    \E g \in GatewayOrders :
        /\ gateway[g].order = o
        /\ gateway[g].state \in {"authorized", "captured"}
        /\ ~(payment[o] \in {"CAPTURED", "REFUNDED"} /\ rzpPayment[o] = g)

(* An order is given up only when nothing is in flight, if Prompt.         *)
MayGiveUp(o) == Prompt => ~Unsettled(o)

----------------------------------------------------------------------------
(* The gateway (external).                                                 *)

AttemptFails(g) ==
    /\ "failed" \in Handlers
    /\ gateway[g].state = "offered" /\ ~gateway[g].failed
    /\ gateway' = [gateway EXCEPT ![g].failed = TRUE]
    /\ UNCHANGED <<storeVars, req>>

Authorize(g) ==
    /\ gateway[g].state = "offered"
    /\ Prompt => orderStatus[gateway[g].order] = "PENDING_PAYMENT"
    /\ gateway' = [gateway EXCEPT ![g].state = "authorized"]
    /\ UNCHANGED <<storeVars, req>>

Capture(g) ==
    /\ gateway[g].state = "authorized"
    /\ gateway' = [gateway EXCEPT ![g].state = "captured"]
    /\ UNCHANGED <<storeVars, req>>

----------------------------------------------------------------------------
(* initiatePayment: reads the order, creates a gateway order unless a      *)
(* pending one is on record, and saves its id over whatever id is there.   *)
(* The browser learns the id from the answer: only then can it be paid.    *)

InitiateRead(w, o) ==
    /\ ReadPayment(w, "initiate", o, NoGatewayOrder, 0)
    /\ orderStatus[o] = "PENDING_PAYMENT"
    /\ o \notin CodOrders
    /\ ~(rzpOrder[o] # NoGatewayOrder /\ payment[o] = "PENDING")
    /\ UNCHANGED <<storeVars, gateway>>

InitiateAtGateway(w) ==
    /\ Serving(w, "initiate", "read")
    /\ \E g \in GatewayOrders :
        /\ ~Open(g)
        /\ gateway' = [gateway EXCEPT ![g].order = req[w].order]
        /\ req' = [req EXCEPT ![w].step = "gateway", ![w].g = g]
    /\ UNCHANGED storeVars

InitiateSave(w) ==
    /\ Serving(w, "initiate", "gateway")
    /\ LET o == req[w].order IN
        /\ rzpOrder' = [rzpOrder EXCEPT ![o] = req[w].g]
        /\ SetPayment(o, "PENDING")
    /\ gateway' = [gateway EXCEPT ![req[w].g].state = "offered"]
    /\ Done(w)
    /\ UNCHANGED <<ledger, orderStatus, paymentStatus, rzpPayment, delivery>>

----------------------------------------------------------------------------
(* verifyAndConfirmPayment, called by the browser after a payment on g.    *)

(* A slip of the checks: the gateway order named by the browser is not     *)
(* compared with the one on record.                                        *)
VerifyReadAnyOrder(w, o) ==
    \E g \in GatewayOrders :
        /\ ReadPayment(w, "verify", o, g, 0)
        /\ payment[o] # "CAPTURED"
        /\ UNCHANGED <<storeVars, gateway>>

VerifyRead(w, o) ==
    \E g \in GatewayOrders :
        /\ ReadPayment(w, "verify", o, g, 0)
        /\ rzpOrder[o] = g
        /\ payment[o] # "CAPTURED"
        /\ rzpPayment[o] \in {NoGatewayOrder, g}
        /\ UNCHANGED <<storeVars, gateway>>

(* The signature does not match: the payment row is failed, nothing else.  *)
VerifyBadSignature(w) ==
    /\ "badSignature" \in Handlers
    /\ Serving(w, "verify", "read")
    /\ SetPayment(req[w].order, "FAILED")
    /\ Done(w)
    /\ UNCHANGED <<ledger, orderStatus, paymentStatus, rzpOrder, rzpPayment,
                   delivery, gateway>>

(* A slip of it: the signature alone is believed.                          *)
SignatureAlone(g) == TRUE

(* assertGatewayPaymentMatchesRecord: the gateway must report the payment  *)
(* captured for the recorded amount, and not refunded since.               *)
GatewayConfirms(g) == gateway[g].state = "captured" /\ gateway[g].refunded < Amount

VerifyAtGateway(w) ==
    /\ Serving(w, "verify", "read")
    /\ GatewayConfirms(req[w].g)
    /\ req' = [req EXCEPT ![w].step = "gateway"]
    /\ UNCHANGED <<storeVars, gateway>>

(* A slip of the gate: the update is not conditional.                      *)
GateAlwaysOpen(o, g) ==
    /\ SetPayment(o, "CAPTURED")
    /\ rzpPayment' = [rzpPayment EXCEPT ![o] = g]

(* The compare-and-set both confirmation paths run first.                  *)
CaptureGate(o, g) ==
    /\ payment[o] # "CAPTURED"
    /\ SetPayment(o, "CAPTURED")
    /\ rzpPayment' = [rzpPayment EXCEPT ![o] = g]

ConfirmOrder(o) ==
    /\ SetOrder(o, "CONFIRMED")
    /\ SetPaid(o, "PAID")
    /\ ConfirmDeduction(Items[o])

VerifyConfirm(w) ==
    /\ Serving(w, "verify", "gateway")
    /\ LET o == req[w].order IN
        \/ /\ CaptureGate(o, req[w].g)
           /\ ConfirmOrder(o)
        \/ /\ payment[o] = "CAPTURED"       \* lost the race: a replay
           /\ UNCHANGED <<ledger, orderStatus, paymentStatus, payment, rzpPayment>>
    /\ Done(w)
    /\ UNCHANGED <<rzpOrder, delivery, gateway>>

----------------------------------------------------------------------------
(* handlePaymentCaptured: the webhook.  The order is confirmed when it was *)
(* PENDING_PAYMENT in the row read before the transaction.                 *)

CapturedRead(w, o) ==
    \E g \in GatewayOrders :
        /\ gateway[g].state = "captured"
        /\ ReadPayment(w, "captured", o, g, 0)
        /\ rzpOrder[o] = g
        /\ payment[o] # "CAPTURED"
        /\ UNCHANGED <<storeVars, gateway>>

(* A slip of the webhook: a late capture of an order that is no longer     *)
(* waiting is ignored.                                                     *)
CapturedIgnoresLate(w) ==
    /\ Serving(w, "captured", "read")
    /\ LET o == req[w].order IN
        IF req[w].seen.status = "PENDING_PAYMENT"
        THEN CaptureGate(o, req[w].g) /\ ConfirmOrder(o)
        ELSE UNCHANGED <<ledger, orderStatus, paymentStatus, payment, rzpPayment>>
    /\ Done(w)
    /\ UNCHANGED <<rzpOrder, delivery, gateway>>

CapturedConfirm(w) ==
    /\ Serving(w, "captured", "read")
    /\ LET o == req[w].order IN
        \/ /\ CaptureGate(o, req[w].g)
           /\ IF req[w].seen.status = "PENDING_PAYMENT"
              THEN ConfirmOrder(o)
              ELSE UNCHANGED <<ledger, orderStatus, paymentStatus>>
        \/ /\ payment[o] = "CAPTURED"
           /\ UNCHANGED <<ledger, orderStatus, paymentStatus, payment, rzpPayment>>
    /\ Done(w)
    /\ UNCHANGED <<rzpOrder, delivery, gateway>>

----------------------------------------------------------------------------
(* handlePaymentFailed: the webhook, for any failed attempt on g.          *)

FailedRead(w, o) ==
    \E g \in GatewayOrders :
        /\ gateway[g].failed
        /\ ReadPayment(w, "failed", o, g, 0)
        /\ rzpOrder[o] = g
        /\ payment[o] # "CAPTURED"
        /\ paymentStatus[o] # "PAID"
        /\ UNCHANGED <<storeVars, gateway>>

FailedWrite(w) ==
    /\ Serving(w, "failed", "read")
    /\ LET o == req[w].order IN
        /\ SetPayment(o, "FAILED")
        /\ SetOrder(o, "PAYMENT_FAILED")
        /\ SetPaid(o, "FAILED")
        /\ ReleaseReservation(Items[o])
    /\ Done(w)
    /\ UNCHANGED <<rzpOrder, rzpPayment, delivery, gateway>>

----------------------------------------------------------------------------
(* refundPayment: reads the payment, refunds at the gateway, then records. *)
(* A crash after the gateway step leaves the refund unrecorded.            *)

RefundRead(w, o) ==
    \E amount \in 1 .. Amount :
        /\ ReadPayment(w, "refund", o, NoGatewayOrder, amount)
        /\ payment[o] = "CAPTURED"
        /\ rzpPayment[o] # NoGatewayOrder
        /\ UNCHANGED <<storeVars, gateway>>

RefundAtGateway(w) ==
    /\ Serving(w, "refund", "read")
    /\ LET g == req[w].seen.payId IN
        /\ gateway[g].refunded + req[w].amount <= Amount
        /\ gateway' = [gateway EXCEPT ![g].refunded = @ + req[w].amount]
    /\ req' = [req EXCEPT ![w].step = "gateway"]
    /\ UNCHANGED storeVars

(* A slip of refundPayment: a refund of a part is recorded as one of all.  *)
RefundSaveFull(w) ==
    /\ Serving(w, "refund", "gateway")
    /\ SetPayment(req[w].order, "REFUNDED")
    /\ SetPaid(req[w].order, "REFUNDED")
    /\ Done(w)
    /\ UNCHANGED <<ledger, orderStatus, rzpOrder, rzpPayment, delivery, gateway>>

RefundSave(w) ==
    /\ Serving(w, "refund", "gateway")
    /\ LET o == req[w].order
           full == req[w].amount >= Amount
       IN  /\ SetPayment(o, IF full THEN "REFUNDED" ELSE "CAPTURED")
           /\ SetPaid(o, IF full THEN "REFUNDED" ELSE "PARTIALLY_REFUNDED")
    /\ Done(w)
    /\ UNCHANGED <<ledger, orderStatus, rzpOrder, rzpPayment, delivery, gateway>>

----------------------------------------------------------------------------

GatewayStep ==
    \E g \in GatewayOrders : AttemptFails(g) \/ Authorize(g) \/ Capture(g)

PaymentStep(w) ==
    \/ \E o \in Orders : \/ InitiateRead(w, o) \/ VerifyRead(w, o) \/ CapturedRead(w, o)
                         \/ FailedRead(w, o) \/ RefundRead(w, o)
    \/ InitiateAtGateway(w) \/ InitiateSave(w)
    \/ VerifyBadSignature(w) \/ VerifyAtGateway(w) \/ VerifyConfirm(w)
    \/ CapturedConfirm(w)
    \/ FailedWrite(w)
    \/ RefundAtGateway(w) \/ RefundSave(w)
=============================================================================
