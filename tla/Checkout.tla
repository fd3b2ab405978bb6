------------------------------- MODULE Checkout -------------------------------
(***************************************************************************)
(* Placing an order from the storefront: the checkout page with its one    *)
(* idempotency key (pages/customer/CheckoutPage.tsx), the request handler  *)
(* with its reads before the transaction (services/checkout.service.ts,    *)
(* processCheckout) and the transaction, next to the carts it empties and  *)
(* the coupon it uses.  A page that loses an answer may submit again while *)
(* the first request still runs.                                           *)
(***************************************************************************)
EXTENDS Coupons, Carts

CONSTANTS
    ItemsOf,        \* the lines a page submits; none: the server cart is ordered
    CartOf,         \* the cart the page shows: the account's, or a guest session's
    CashPages,      \* pages that chose cash on delivery
    CouponPages,    \* pages that submit the coupon's code
    Requests,       \* checkout requests the server handles at a time
    InitialShelf    \* available quantity of each product

ASSUME CheckoutAssumption ==
    /\ Customers \subseteq Accounts
    /\ ItemsOf \in [Pages -> [Products -> Nat]]
    /\ CartOf \in [Pages -> Owners]
    /\ InitialShelf \in [Products -> Nat]

VARIABLES
    order,      \* the order under each page's key: status, and its lines
    creq,       \* the checkout requests
    page,       \* where each page is
    awaits,     \* the request whose answer the page waits for
    failing     \* the page's failPayment call is on its way

checkoutVars == <<order, creq, page, awaits, failing>>
shopVars == <<couponVars, cartVars, shelf, checkoutVars>>

NoOrder == [status |-> "NONE", lines |-> NoLines, discounted |-> FALSE]
NoLimits == [maxUses |-> 0, perUserLimit |-> 0]
IdleReq == [step |-> "idle", page |-> "none", lines |-> NoLines, limits |-> NoLimits]
NoRequest == "none"

CheckoutTypeOK ==
    /\ CouponTypeOK /\ CartTypeOK
    /\ \A k \in Pages :
        /\ order[k].status \in {"NONE", "PENDING_PAYMENT", "CONFIRMED", "FAILED"}
        /\ page[k] \in {"open", "placing", "paying", "done"}
        /\ awaits[k] \in Requests \cup {NoRequest}
        /\ failing[k] \in BOOLEAN
    /\ \A r \in Requests :
        creq[r].step \in {"idle", "sent", "probed", "priced", "recording",
                          "created", "replayed", "refused"}

CheckoutInit ==
    /\ CouponInit /\ CartInit
    /\ shelf = InitialShelf
    /\ order = [k \in Pages |-> NoOrder]
    /\ creq = [r \in Requests |-> IdleReq]
    /\ page = [k \in Pages |-> "open"]
    /\ awaits = [k \in Pages |-> NoRequest]
    /\ failing = [k \in Pages |-> FALSE]

Placed(k) == order[k].status # "NONE"

----------------------------------------------------------------------------
(* The page.                                                               *)

(* placeCheckout submits, with the same key as every time before.          *)
Submit(r, k) ==
    /\ page[k] = "open" /\ creq[r].step = "idle"
    /\ page' = [page EXCEPT ![k] = "placing"]
    /\ awaits' = [awaits EXCEPT ![k] = r]
    /\ creq' = [creq EXCEPT ![r] = [IdleReq EXCEPT !.step = "sent", !.page = k]]
    /\ UNCHANGED <<couponVars, cartVars, shelf, order, failing>>

(* The connection breaks: the page shows an error, the server carries on.  *)
LoseAnswer(k) ==
    /\ page[k] = "placing"
    /\ page' = [page EXCEPT ![k] = "open"]
    /\ awaits' = [awaits EXCEPT ![k] = NoRequest]
    /\ UNCHANGED <<couponVars, cartVars, shelf, order, creq, failing>>

(* goToSuccess empties the basket the page shows.                          *)
Succeed(k) ==
    /\ page' = [page EXCEPT ![k] = "done"]
    /\ cart' = [cart EXCEPT ![CartOf[k]] = NoLines]
    /\ cartReq' = Touch(cartReq, CartOf[k], Waiting)

(* The answer arrives: an online order goes on to its payment, a cash      *)
(* order is done, a refusal leaves the page where it was.                  *)
Answer(r) ==
    /\ creq[r].step \in {"created", "replayed", "refused"}
    /\ creq' = [creq EXCEPT ![r] = IdleReq]
    /\ awaits' = [k \in Pages |-> IF awaits[k] = r THEN NoRequest ELSE awaits[k]]
    /\ LET k == creq[r].page IN
        IF awaits[k] # r THEN UNCHANGED <<page, cartVars>>
        ELSE IF creq[r].step = "refused"
             THEN page' = [page EXCEPT ![k] = "open"] /\ UNCHANGED cartVars
        ELSE IF k \in CashPages THEN Succeed(k)
        ELSE page' = [page EXCEPT ![k] = "paying"] /\ UNCHANGED cartVars
    /\ UNCHANGED <<couponVars, shelf, order, failing>>

(* payOnline: the customer pays, and the payment is verified.              *)
Pay(k) ==
    /\ page[k] = "paying"
    /\ order[k].status = "PENDING_PAYMENT"
    /\ order' = [order EXCEPT ![k].status = "CONFIRMED"]
    /\ Succeed(k)
    /\ UNCHANGED <<couponVars, shelf, creq, awaits, failing>>

(* payOnline: initiatePayment refuses the order, or the customer closes    *)
(* the gateway.  The page calls failPayment without waiting for it.        *)
PaymentFails(k) ==
    /\ page[k] = "paying"
    /\ page' = [page EXCEPT ![k] = "open"]
    /\ failing' = [failing EXCEPT ![k] = TRUE]
    /\ UNCHANGED <<couponVars, cartVars, shelf, order, creq, awaits>>

(* failPayment on the server, unless the call was lost.                    *)
FailPayment(k) ==
    /\ failing[k]
    /\ failing' = [failing EXCEPT ![k] = FALSE]
    /\ IF order[k].status = "PENDING_PAYMENT"
       THEN /\ order' = [order EXCEPT ![k].status = "FAILED"]
            /\ shelf' = [p \in Products |-> shelf[p] + order[k].lines[p]]
       ELSE UNCHANGED <<order, shelf>>
    /\ UNCHANGED <<couponVars, cartVars, creq, page, awaits>>

FailPaymentLost(k) ==
    /\ failing[k]
    /\ failing' = [failing EXCEPT ![k] = FALSE]
    /\ UNCHANGED <<couponVars, cartVars, shelf, order, creq, page, awaits>>

----------------------------------------------------------------------------
(* The server: processCheckout.                                            *)

Ends(r, how) ==
    /\ creq' = [creq EXCEPT ![r].step = how]
    /\ UNCHANGED <<couponVars, cartVars, shelf, order, page, awaits, failing>>

(* The idempotency probe: an order under the key is the answer.            *)
Probe(r) ==
    /\ creq[r].step = "sent"
    /\ Ends(r, IF Placed(creq[r].page) THEN "replayed" ELSE "probed")

LinesOf(k) == IF ItemsOf[k] # NoLines THEN ItemsOf[k] ELSE cart[CustomerOf[k]]

InStock(lines) == lines # NoLines /\ \A p \in Products : lines[p] <= shelf[p]

(* Items, prices, stock and coupon, read before the transaction.           *)
Price(r) ==
    LET k == creq[r].page
        ok == InStock(LinesOf(k)) /\ (k \in CouponPages => Redeemable(CustomerOf[k]))
    IN  /\ creq[r].step = "probed"
        /\ creq' = [creq EXCEPT ![r].step = IF ok THEN "priced" ELSE "refused",
                                ![r].lines = IF ok THEN LinesOf(k) ELSE NoLines]
        /\ UNCHANGED <<couponVars, cartVars, shelf, order, page, awaits, failing>>

(* The transaction, as far as recordCouponUsage's unlocked look at the row. *)
ReadCoupon(r) ==
    /\ creq[r].step = "priced" /\ creq[r].page \in CouponPages
    /\ coupon.exists
    /\ creq' = [creq EXCEPT ![r].step = "recording", ![r].limits = LimitsRead]
    /\ UNCHANGED <<couponVars, cartVars, shelf, order, page, awaits, failing>>

InTransaction(r) ==
    creq[r].step = IF creq[r].page \in CouponPages THEN "recording" ELSE "priced"

(* Step E: the lines of the ordered products go, whatever they hold by now. *)
EmptyCart(u, lines) ==
    /\ cart' = [cart EXCEPT ![u] = [p \in Products |-> IF lines[p] > 0 THEN 0 ELSE @[p]]]
    /\ cartReq' = Touch(cartReq, u, Waiting)

(* The order is created although its key is taken.                         *)
CommitTwice(r) ==
    LET k == creq[r].page IN
    /\ InTransaction(r)
    /\ InStock(creq[r].lines)
    /\ shelf' = [p \in Products |-> shelf[p] - creq[r].lines[p]]
    /\ order' = [order EXCEPT ![k] =
                    [status |-> IF k \in CashPages THEN "CONFIRMED" ELSE "PENDING_PAYMENT",
                     lines |-> creq[r].lines, discounted |-> k \in CouponPages]]
    /\ IF k \in CouponPages THEN RecordCouponUsage(k, creq[r].limits) ELSE UNCHANGED couponVars
    /\ EmptyCart(CustomerOf[k], creq[r].lines)
    /\ creq' = [creq EXCEPT ![r].step = "created"]
    /\ UNCHANGED <<page, awaits, failing>>

(* The transaction commits: stock reserved, order, payment and delivery    *)
(* created under a key nobody has, ordered lines taken out of the cart and *)
(* the coupon's use recorded.                                              *)
Commit(r) ==
    LET k == creq[r].page IN
    /\ InTransaction(r)
    /\ InStock(creq[r].lines)
    /\ ~Placed(k)
    /\ shelf' = [p \in Products |-> shelf[p] - creq[r].lines[p]]
    /\ order' = [order EXCEPT ![k] =
                    [status |-> IF k \in CashPages THEN "CONFIRMED" ELSE "PENDING_PAYMENT",
                     lines |-> creq[r].lines, discounted |-> k \in CouponPages]]
    /\ IF k \in CouponPages THEN RecordCouponUsage(k, creq[r].limits) ELSE UNCHANGED couponVars
    /\ EmptyCart(CustomerOf[k], creq[r].lines)
    /\ creq' = [creq EXCEPT ![r].step = "created"]
    /\ UNCHANGED <<page, awaits, failing>>

(* The unique key refuses the row (P2002), once the stock was reserved: the *)
(* transaction is undone and the order under the key is the answer.        *)
Collide(r) ==
    /\ InTransaction(r)
    /\ InStock(creq[r].lines)
    /\ Placed(creq[r].page)
    /\ Ends(r, "replayed")

(* The stock or the coupon refuses: the transaction is undone.             *)
Refuse(r) ==
    LET k == creq[r].page IN
    /\ \/ InTransaction(r) /\ ~InStock(creq[r].lines)
       \/ InTransaction(r) /\ ~Placed(k) /\ k \in CouponPages /\ ~CanRecord(k, creq[r].limits)
       \/ creq[r].step = "priced" /\ k \in CouponPages /\ ~coupon.exists
    /\ Ends(r, "refused")

CheckoutStep ==
    \/ \E k \in Pages :
        \/ \E r \in Requests : Submit(r, k)
        \/ LoseAnswer(k) \/ Pay(k) \/ PaymentFails(k) \/ FailPayment(k) \/ FailPaymentLost(k)
    \/ \E r \in Requests :
        \/ Answer(r) \/ Probe(r) \/ Price(r) \/ ReadCoupon(r)
        \/ Commit(r) \/ Collide(r) \/ Refuse(r)

(* Everything that happens to carts, coupon and orders.                    *)
ShopStep ==
    \/ CartStep /\ UNCHANGED <<couponVars, checkoutVars>>
    \/ DeskStep /\ UNCHANGED <<cartVars, shelf, checkoutVars>>
    \/ CheckoutStep

CheckoutSpec == CheckoutInit /\ [][ShopStep]_shopVars

----------------------------------------------------------------------------

Live == {k \in Pages : order[k].status \in {"PENDING_PAYMENT", "CONFIRMED"}}

(* However often a page submits and however its requests overlap, stock is *)
(* reserved once per key: what left the shelf is what live orders ordered. *)
StockReservedOnce ==
    \A p \in Products :
        shelf[p] + SumFunctionOnSet([k \in Pages |-> order[k].lines[p]], Live) = InitialShelf[p]

(* Coupon and stock, under the same overlaps and repetitions.              *)
CheckoutHolds == CouponWithinLimits /\ StockReservedOnce

(* A page that submits again is answered with an order it can pay.         *)
RetriesCanPay ==
    [][\A k \in Pages :
        page[k] = "placing" /\ page'[k] = "paying" => order[k].status = "PENDING_PAYMENT"]_shopVars
=============================================================================
