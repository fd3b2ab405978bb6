------------------------------ MODULE OrderStore ------------------------------
(***************************************************************************)
(* The rows the order lifecycle shares: orders, payments, deliveries and   *)
(* the inventory ledger, with the two transition matrices the code has for *)
(* an order and the one it has for a delivery.                             *)
(*                                                                         *)
(* A request handler of the server reads these rows first and writes them  *)
(* later in one transaction.  The handlers run on Workers: req[w] is the   *)
(* request worker w is serving, with the snapshot of the rows it read.     *)
(***************************************************************************)
EXTENDS InventoryLedger, FiniteSets

CONSTANTS
    CodOrders,      \* the orders paid in cash on delivery
    Items,          \* Items[o]: the bag of order o
    InitialStock,   \* units on the shelf at the start, per product
    GatewayOrders,  \* ids the payment gateway can give to its orders
    NoGatewayOrder, \* a null razorpayOrderId / razorpayPaymentId
    Workers,        \* requests the server may have open at the same time
    Handlers        \* the entry points in use

ASSUME StoreAssumption ==
    /\ CodOrders \subseteq Orders
    /\ Items \in [Orders -> Quantities]
    /\ InitialStock \in Quantities
    /\ NoGatewayOrder \notin GatewayOrders
    /\ IsFiniteSet(Workers)

VARIABLES
    orderStatus,    \* orders.status; "NONE" before checkout creates the row
    paymentStatus,  \* orders.paymentStatus
    payment,        \* payments.status, the one payment row of the order
    rzpOrder,       \* payments.razorpayOrderId
    rzpPayment,     \* payments.razorpayPaymentId, named by its gateway order
    delivery,       \* deliveries.status
    req             \* the request each worker is serving

rows == <<orderStatus, paymentStatus, payment, rzpOrder, rzpPayment, delivery>>

OrderStatuses ==
    {"PENDING", "PENDING_PAYMENT", "PAYMENT_FAILED", "CONFIRMED", "PROCESSING",
     "PACKED", "SHIPPED", "OUT_FOR_DELIVERY", "DELIVERED", "CANCELLED", "FAILED"}

PaymentStatuses == {"PENDING", "PAID", "FAILED", "REFUNDED", "PARTIALLY_REFUNDED"}

PaymentRecordStatuses == {"PENDING", "CAPTURED", "FAILED", "REFUNDED"}

DeliveryStatuses ==
    {"PENDING", "ASSIGNED", "PACKED", "SHIPPED", "OUT_FOR_DELIVERY",
     "DELIVERED", "FAILED", "RETURNED", "CANCELLED"}

DeductedStatuses == {"CONFIRMED", "PROCESSING", "PACKED", "SHIPPED", "OUT_FOR_DELIVERY"}

(* utils/order-status.ts: the matrix of PUT /admin/orders/:id/status.      *)
Transitions(from) ==
    CASE from = "PENDING"          -> {"PENDING_PAYMENT", "CONFIRMED", "CANCELLED"}
      [] from = "PENDING_PAYMENT"  -> {"CONFIRMED", "PAYMENT_FAILED", "CANCELLED"}
      [] from = "PAYMENT_FAILED"   -> {"PENDING_PAYMENT", "CONFIRMED", "CANCELLED"}
      [] from = "CONFIRMED"        -> {"PROCESSING", "PACKED", "CANCELLED", "FAILED"}
      [] from = "PROCESSING"       -> {"PACKED", "FAILED", "CANCELLED"}
      [] from = "PACKED"           -> {"SHIPPED", "FAILED", "CANCELLED"}
      [] from = "SHIPPED"          -> {"OUT_FOR_DELIVERY", "DELIVERED"}
      [] from = "OUT_FOR_DELIVERY" -> {"DELIVERED", "FAILED"}
      [] OTHER                     -> {}

(* types/checkout.types.ts: the matrix of PATCH /orders/:id/status.        *)
ValidOrderTransitions(from) ==
    CASE from = "PENDING"          -> {"PENDING_PAYMENT", "CONFIRMED", "CANCELLED", "FAILED"}
      [] from = "PENDING_PAYMENT"  -> {"CONFIRMED", "PAYMENT_FAILED", "CANCELLED"}
      [] from = "PAYMENT_FAILED"   -> {"PENDING_PAYMENT", "CANCELLED"}
      [] from = "CONFIRMED"        -> {"PROCESSING", "CANCELLED"}
      [] from = "PROCESSING"       -> {"PACKED", "CANCELLED"}
      [] from = "PACKED"           -> {"SHIPPED", "CANCELLED"}
      [] from = "SHIPPED"          -> {"OUT_FOR_DELIVERY", "CANCELLED"}
      [] from = "OUT_FOR_DELIVERY" -> {"DELIVERED", "CANCELLED"}
      [] OTHER                     -> {}

(* types/delivery.types.ts.  The fallback rows of the legacy statuses      *)
(* PICKED_UP and IN_TRANSIT, which no transition enters, are left out.     *)
ValidDeliveryTransitions(from) ==
    CASE from = "PENDING"          -> {"ASSIGNED", "PACKED", "CANCELLED"}
      [] from = "ASSIGNED"         -> {"PACKED", "SHIPPED", "CANCELLED"}
      [] from = "PACKED"           -> {"ASSIGNED", "SHIPPED", "CANCELLED"}
      [] from = "SHIPPED"          -> {"OUT_FOR_DELIVERY", "FAILED", "CANCELLED"}
      [] from = "OUT_FOR_DELIVERY" -> {"DELIVERED", "FAILED", "RETURNED", "CANCELLED"}
      [] from = "FAILED"           -> {"OUT_FOR_DELIVERY", "RETURNED", "CANCELLED"}
      [] from = "RETURNED"         -> {"CANCELLED"}
      [] OTHER                     -> {}

(* The delivery statuses that are written through to the order.            *)
DeliveryToOrderStatus == {"PACKED", "SHIPPED", "OUT_FOR_DELIVERY", "DELIVERED", "CANCELLED"}

----------------------------------------------------------------------------
(* Requests.                                                               *)

Idle == [kind |-> "idle"]

Kinds == {"initiate", "verify", "captured", "failed", "refund", "failPayment",
          "cancel", "adminStatus", "transition", "assign", "deliver"}

(* What a handler's first query returns of the order and the rows joined   *)
(* to it.                                                                  *)
Seen(o) == [status |-> orderStatus[o], paid |-> paymentStatus[o],
            delivery |-> delivery[o], payId |-> rzpPayment[o]]

Snapshots == [status: OrderStatuses, paid: PaymentStatuses, delivery: DeliveryStatuses,
              payId: GatewayOrders \cup {NoGatewayOrder}]

(* step: how far the request is; to: the status it asks for; g, amount: the *)
(* gateway order and the money it names; logged: the outcome of the log    *)
(* check of restockOrder.                                                  *)
Requests ==
    [kind: Kinds, order: Orders, step: {"read", "gateway", "checked"},
     to: OrderStatuses \cup DeliveryStatuses \cup {"NONE"},
     g: GatewayOrders \cup {NoGatewayOrder}, amount: Nat,
     seen: Snapshots, logged: BOOLEAN]

Exists(o) == orderStatus[o] # "NONE"

(* The first query of a handler that goes on to write.                     *)
Begin(w, kind, o, to, g, amount) ==
    /\ kind \in Handlers
    /\ req[w] = Idle
    /\ Exists(o)
    /\ req' = [req EXCEPT ![w] =
                 [kind |-> kind, order |-> o, step |-> "read", to |-> to, g |-> g,
                  amount |-> amount, seen |-> Seen(o), logged |-> FALSE]]

Read(w, kind, o, to) == Begin(w, kind, o, to, NoGatewayOrder, 0)

ReadPayment(w, kind, o, g, amount) == Begin(w, kind, o, "NONE", g, amount)

Serving(w, kind, step) == req[w] # Idle /\ req[w].kind = kind /\ req[w].step = step

Done(w) == req' = [req EXCEPT ![w] = Idle]

(* A request ends without its transaction: an error answer, a lost         *)
(* compare-and-set, a rollback, or the server going down.                  *)
Drop(w) ==
    /\ req[w] # Idle
    /\ Done(w)
    /\ UNCHANGED <<ledger, rows>>

----------------------------------------------------------------------------
(* Row updates.                                                            *)

SetOrder(o, status) == orderStatus' = [orderStatus EXCEPT ![o] = status]

SetPaid(o, paid) == paymentStatus' = [paymentStatus EXCEPT ![o] = paid]

SetPayment(o, status) == payment' = [payment EXCEPT ![o] = status]

SetDelivery(o, status) == delivery' = [delivery EXCEPT ![o] = status]

----------------------------------------------------------------------------

StoreTypeOK ==
    /\ LedgerTypeOK
    /\ orderStatus \in [Orders -> OrderStatuses \cup {"NONE"}]
    /\ paymentStatus \in [Orders -> PaymentStatuses]
    /\ payment \in [Orders -> PaymentRecordStatuses]
    /\ rzpOrder \in [Orders -> GatewayOrders \cup {NoGatewayOrder}]
    /\ rzpPayment \in [Orders -> GatewayOrders \cup {NoGatewayOrder}]
    /\ delivery \in [Orders -> DeliveryStatuses]
    /\ req \in [Workers -> Requests \cup {Idle}]

StoreInit ==
    /\ LedgerInit(InitialStock)
    /\ orderStatus = [o \in Orders |-> "NONE"]
    /\ paymentStatus = [o \in Orders |-> "PENDING"]
    /\ payment = [o \in Orders |-> "PENDING"]
    /\ rzpOrder = [o \in Orders |-> NoGatewayOrder]
    /\ rzpPayment = [o \in Orders |-> NoGatewayOrder]
    /\ delivery = [o \in Orders |-> "PENDING"]
    /\ req = [w \in Workers |-> Idle]

(* processCheckout: one transaction reserves every line, creates the order, *)
(* its payment and its delivery, and deducts at once when cash is paid on   *)
(* delivery.  A line that is not available rolls all of it back.            *)
Checkout(w, o) ==
    /\ "checkout" \in Handlers
    /\ req[w] = Idle
    /\ ~Exists(o)
    /\ \A p \in Products : Items[o][p] <= available[p]
    /\ IF o \in CodOrders
       THEN /\ available' = [p \in Products |-> available[p] - Items[o][p]]
            /\ sold' = [p \in Products |-> sold[p] + Items[o][p]]
            /\ SyncStock({p \in Products : Items[o][p] > 0})
            /\ UNCHANGED <<reserved, restocks>>
            /\ SetOrder(o, "CONFIRMED")
       ELSE /\ ReserveStock(Items[o])
            /\ SetOrder(o, "PENDING_PAYMENT")
    /\ UNCHANGED <<paymentStatus, payment, rzpOrder, rzpPayment, delivery, req>>
=============================================================================
