------------------------------ MODULE OrderDesk ------------------------------
(***************************************************************************)
(* The paths that move an order without a payment event: the customer's    *)
(* cancel and payment-failed calls and the administrator's status change   *)
(* (order.controller.ts), the guarded status change of PATCH               *)
(* /orders/:id/status (checkout.service.ts), the reservation sweep, and    *)
(* the delivery desk (delivery.service.ts), which writes a delivery's      *)
(* status through to its order, whatever status the order has by then.     *)
(* Each handler picks the stock operation from the status it read before   *)
(* its transaction, and writes the order without looking again.            *)
(***************************************************************************)
EXTENDS OrderStore

(* restockOrder when the log check runs after the order row is locked.     *)
RestockUnderLock(o) == RestockOrder(o, Items[o], RestockLogged(o))

CancelDelivery(o) == SetDelivery(o, "CANCELLED")

----------------------------------------------------------------------------
(* cancelOrder.                                                            *)

CancelRead(w, o) ==
    /\ Read(w, "cancel", o, "CANCELLED")
    /\ orderStatus[o] \notin {"CANCELLED", "DELIVERED"}
    /\ UNCHANGED <<ledger, rows>>

CancelWrite(w) ==
    /\ Serving(w, "cancel", "read")
    /\ LET o == req[w].order
           seen == req[w].seen.status
       IN  /\ SetOrder(o, "CANCELLED")
           /\ CancelDelivery(o)
           /\ CASE seen \in DeductedStatuses -> RestockUnderLock(o)
                [] seen \in {"FAILED", "PAYMENT_FAILED"} -> UNCHANGED ledger
                [] OTHER -> ReleaseReservation(Items[o])
    /\ Done(w)
    /\ UNCHANGED <<paymentStatus, payment, rzpOrder, rzpPayment>>

----------------------------------------------------------------------------
(* failPayment: the browser reports that the payment failed.               *)

FailPaymentRead(w, o) ==
    /\ Read(w, "failPayment", o, "FAILED")
    /\ paymentStatus[o] # "PAID"
    /\ orderStatus[o] \notin {"FAILED", "CANCELLED"}
    /\ UNCHANGED <<ledger, rows>>

FailPaymentWrite(w) ==
    /\ Serving(w, "failPayment", "read")
    /\ LET o == req[w].order IN
        /\ SetOrder(o, "FAILED")
        /\ SetPaid(o, "FAILED")
        /\ SetPayment(o, IF payment[o] = "CAPTURED" THEN "CAPTURED" ELSE "FAILED")
        /\ ReleaseReservation(Items[o])
    /\ Done(w)
    /\ UNCHANGED <<rzpOrder, rzpPayment, delivery>>

----------------------------------------------------------------------------
(* updateOrderStatus: PUT /admin/orders/:id/status.                        *)

AdminStatusRead(w, o) ==
    \E to \in Transitions(orderStatus[o]) :
        /\ Read(w, "adminStatus", o, to)
        /\ UNCHANGED <<ledger, rows>>

(* inventoryDispositionForTransition.                                      *)
Disposition(from, to) ==
    IF to \notin {"CANCELLED", "FAILED"} THEN "none"
    ELSE IF from = "PENDING_PAYMENT" THEN "release"
    ELSE IF from \in DeductedStatuses THEN "restock"
    ELSE "none"

AdminStatusWrite(w) ==
    /\ Serving(w, "adminStatus", "read")
    /\ LET o == req[w].order
           disposition == Disposition(req[w].seen.status, req[w].to)
       IN  /\ SetOrder(o, req[w].to)
           /\ CASE disposition = "release" -> ReleaseReservation(Items[o])
                [] disposition = "restock" -> RestockUnderLock(o)
                [] disposition = "none" -> UNCHANGED ledger
    /\ Done(w)
    /\ UNCHANGED <<paymentStatus, payment, rzpOrder, rzpPayment, delivery>>

----------------------------------------------------------------------------
(* transitionOrderStatus: PATCH /orders/:id/status.  Here the stock moves  *)
(* first and the order row is locked last, so the log check of a restock   *)
(* is a step of its own.                                                   *)

TransitionRead(w, o) ==
    \E to \in ValidOrderTransitions(orderStatus[o]) :
        /\ Read(w, "transition", o, to)
        /\ UNCHANGED <<ledger, rows>>

TransitionRestocks(w) ==
    /\ req[w].to = "CANCELLED"
    /\ req[w].seen.status \in {"CONFIRMED", "PROCESSING", "PACKED"}

TransitionCheck(w) ==
    /\ Serving(w, "transition", "read")
    /\ TransitionRestocks(w)
    /\ req' = [req EXCEPT ![w].step = "checked", ![w].logged = RestockLogged(req[w].order)]
    /\ UNCHANGED <<ledger, rows>>

TransitionWrite(w) ==
    /\ \/ Serving(w, "transition", "read") /\ ~TransitionRestocks(w)
       \/ Serving(w, "transition", "checked")
    /\ LET o == req[w].order
           cancels == req[w].to = "CANCELLED"
       IN  /\ SetOrder(o, req[w].to)
           /\ IF cancels THEN CancelDelivery(o) ELSE UNCHANGED delivery
           /\ CASE req[w].step = "checked" -> RestockOrder(o, Items[o], req[w].logged)
                [] req[w].step = "read" /\ cancels /\ req[w].seen.status = "PENDING_PAYMENT" ->
                       ReleaseReservation(Items[o])
                [] OTHER -> UNCHANGED ledger
    /\ Done(w)
    /\ UNCHANGED <<paymentStatus, payment, rzpOrder, rzpPayment>>

----------------------------------------------------------------------------
(* Slips of the sweep: the units are not released; an order whose payment  *)
(* was initiated is left alone.                                            *)
SweepForgetsStock(o) ==
    /\ "sweep" \in Handlers
    /\ orderStatus[o] = "PENDING_PAYMENT"
    /\ SetOrder(o, "CANCELLED")
    /\ UNCHANGED <<ledger, paymentStatus, payment, rzpOrder, rzpPayment, delivery, req>>

SweepSkipsInitiated(o) ==
    /\ "sweep" \in Handlers
    /\ orderStatus[o] = "PENDING_PAYMENT"
    /\ rzpOrder[o] = NoGatewayOrder
    /\ SetOrder(o, "CANCELLED")
    /\ ReleaseReservation(Items[o])
    /\ UNCHANGED <<paymentStatus, payment, rzpOrder, rzpPayment, delivery, req>>

(* runOnce of the reservation sweep: an order still PENDING_PAYMENT after  *)
(* its time is cancelled by a conditional UPDATE and its units released.   *)
(* The code sweeps a batch in one transaction; a batch is a run of these   *)
(* steps.  Time is abstracted: any pending order may be old enough.        *)
Sweep(o) ==
    /\ "sweep" \in Handlers
    /\ orderStatus[o] = "PENDING_PAYMENT"
    /\ SetOrder(o, "CANCELLED")
    /\ ReleaseReservation(Items[o])
    /\ UNCHANGED <<paymentStatus, payment, rzpOrder, rzpPayment, delivery, req>>

----------------------------------------------------------------------------
(* assignStaff: writes the delivery without comparing it with what it read. *)

AssignRead(w, o) ==
    /\ Read(w, "assign", o, "ASSIGNED")
    /\ delivery[o] \notin {"CANCELLED", "DELIVERED"}
    /\ UNCHANGED <<ledger, rows>>

AssignWrite(w) ==
    /\ Serving(w, "assign", "read")
    /\ LET o == req[w].order
           seen == req[w].seen
       IN  /\ SetDelivery(o, IF seen.delivery = "PENDING" THEN "ASSIGNED" ELSE seen.delivery)
           /\ IF seen.delivery = "PENDING" /\ seen.status = "CONFIRMED"
              THEN SetOrder(o, "PROCESSING")
              ELSE UNCHANGED orderStatus
    /\ Done(w)
    /\ UNCHANGED <<ledger, paymentStatus, payment, rzpOrder, rzpPayment>>

----------------------------------------------------------------------------
(* updateDeliveryStatus.                                                   *)

DeliverRead(w, o) ==
    \E to \in ValidDeliveryTransitions(delivery[o]) :
        /\ Read(w, "deliver", o, to)
        /\ orderStatus[o] # "CANCELLED"
        /\ UNCHANGED <<ledger, rows>>

(* RETURNED locks no order row, so its restock check is a step of its own. *)
ReturnRestocks(w) ==
    req[w].to = "RETURNED" /\ req[w].seen.status \in DeductedStatuses

ReturnCheck(w) ==
    /\ Serving(w, "deliver", "read")
    /\ ReturnRestocks(w)
    /\ delivery[req[w].order] = req[w].seen.delivery
    /\ req' = [req EXCEPT ![w].step = "checked", ![w].logged = RestockLogged(req[w].order)]
    /\ UNCHANGED <<ledger, rows>>

(* The order is read before the transaction; what it held then decides.    *)
DisposeOnDelivery(w) ==
    LET o == req[w].order
        seen == req[w].seen.status
        ends == req[w].to \in {"CANCELLED", "RETURNED"}
    IN  CASE ~ends -> UNCHANGED ledger
          [] ends /\ req[w].step = "checked" -> RestockOrder(o, Items[o], req[w].logged)
          [] ends /\ req[w].step = "read" ->
                IF seen \in DeductedStatuses THEN RestockOrder(o, Items[o], RestockLogged(o))
                ELSE IF seen \in {"FAILED", "PAYMENT_FAILED", "CANCELLED"} THEN UNCHANGED ledger
                ELSE ReleaseReservation(Items[o])

DeliverWrite(w) ==
    /\ \/ Serving(w, "deliver", "read") /\ ~ReturnRestocks(w)
       \/ Serving(w, "deliver", "checked")
    /\ LET o == req[w].order
           to == req[w].to
           cash == to = "DELIVERED" /\ o \in CodOrders /\ req[w].seen.paid # "PAID"
       IN  /\ delivery[o] = req[w].seen.delivery
           /\ SetDelivery(o, to)
           /\ IF to \in DeliveryToOrderStatus THEN SetOrder(o, to) ELSE UNCHANGED orderStatus
           /\ IF cash THEN SetPaid(o, "PAID") /\ SetPayment(o, "CAPTURED")
              ELSE UNCHANGED <<paymentStatus, payment>>
    /\ DisposeOnDelivery(w)
    /\ Done(w)
    /\ UNCHANGED <<rzpOrder, rzpPayment>>

----------------------------------------------------------------------------

DeskStep(w) ==
    \/ \E o \in Orders : \/ CancelRead(w, o) \/ FailPaymentRead(w, o)
                         \/ AdminStatusRead(w, o) \/ TransitionRead(w, o)
    \/ CancelWrite(w)
    \/ FailPaymentWrite(w)
    \/ AdminStatusWrite(w)
    \/ TransitionCheck(w) \/ TransitionWrite(w)

FulfilmentStep(w) ==
    \/ \E o \in Orders : AssignRead(w, o) \/ DeliverRead(w, o)
    \/ AssignWrite(w)
    \/ ReturnCheck(w) \/ DeliverWrite(w)
=============================================================================
