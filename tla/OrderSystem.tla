----------------------------- MODULE OrderSystem -----------------------------
(***************************************************************************)
(* The order lifecycle as a whole: every handler that moves an order, its  *)
(* payment, its delivery or its stock, on Workers that interleave between  *)
(* a handler's unlocked reads and its transaction.  One worker gives the   *)
(* serial server; Handlers selects the entry points a run exercises.       *)
(***************************************************************************)
EXTENDS PaymentFlow, OrderDesk, Functions

vars == <<ledger, rows, req, gateway>>

TypeOK == StoreTypeOK /\ gateway \in [GatewayOrders -> GatewayRecords]

Init == StoreInit /\ GatewayInit

(* A step that cancels or fails an order while money for it is in flight.  *)
GivesUpTooEarly ==
    \E o \in Orders :
        /\ orderStatus[o] = "PENDING_PAYMENT"
        /\ orderStatus'[o] \in {"CANCELLED", "FAILED", "PAYMENT_FAILED"}
        /\ ~MayGiveUp(o)

Step ==
    \/ GatewayStep
    \/ \E w \in Workers : PaymentStep(w)
    \/ /\ \/ \E w \in Workers : \/ DeskStep(w) \/ FulfilmentStep(w) \/ Drop(w)
                                \/ \E o \in Orders : Checkout(w, o)
          \/ \E o \in Orders : Sweep(o)
       /\ UNCHANGED gateway

Next == Step /\ ~GivesUpTooEarly

Spec == Init /\ [][Next]_vars

(* The sweep's timer always fires again.  The gateway delivers an event    *)
(* again until its handler commits, and the server does not go down before *)
(* every commit.  No request stays open: transactions and calls time out.  *)
Scheduling ==
    /\ \A o \in Orders : WF_vars(Sweep(o) /\ UNCHANGED gateway)
    /\ \A w \in Workers :
        /\ WF_vars(Drop(w) /\ UNCHANGED gateway)
        /\ SF_vars(\E o \in Orders : CapturedRead(w, o))
        /\ SF_vars(CapturedConfirm(w))

FairSpec == Spec /\ Scheduling

----------------------------------------------------------------------------
(* Stock.                                                                  *)

Total(p, kept) == SumFunctionOnSet([o \in Orders |-> Items[o][p]], kept)

Holding == {o \in Orders : orderStatus[o] = "PENDING_PAYMENT"}

Selling ==
    {o \in Orders : orderStatus[o] \in DeductedStatuses \cup {"DELIVERED"} /\ ~RestockLogged(o)}

(* Every unit a product has reserved belongs to an order that is waiting   *)
(* for its payment, and every such order has its units: what a cancelled,  *)
(* failed or confirmed order held was released or deducted on the way.     *)
ReservedMatchesOrders == \A p \in Products : reserved[p] = Total(p, Holding)

(* Every unit counted as sold belongs to a confirmed order, and the rest   *)
(* of the initial stock is on the shelf.                                   *)
SoldMatchesOrders ==
    \A p \in Products :
        /\ sold[p] = Total(p, Selling)
        /\ InFlow(p) = InitialStock[p]

(* The counters are what the orders add up to: units are reserved for the  *)
(* orders that hold them and sold to the orders that keep them, and for no *)
(* others.                                                                 *)
CountersMatchOrders == ReservedMatchesOrders /\ SoldMatchesOrders

(* No unit is counted as sold twice: sold never exceeds what the orders    *)
(* that were confirmed asked for.                                          *)
NoSecondDeduction ==
    \A p \in Products :
        sold[p] <= Total(p, {o \in Orders : orderStatus[o] \notin {"NONE", "PENDING_PAYMENT"}})

(* The requests that have looked the log up before they lock anything,     *)
(* found no RESTOCK row of the order and are still to write.               *)
Looked(o) ==
    {w \in Workers : /\ req[w] # Idle /\ req[w].order = o
                     /\ req[w].step = "checked" /\ ~req[w].logged}

(* The comment of restockOrder says the units of an order are credited     *)
(* back once, whichever recovery paths target it.  What holds is that they *)
(* are credited again only by a request whose look at the log is older     *)
(* than the first credit, a return or a guarded transition that overlapped *)
(* it: not more often than requests can overlap, once when they take turns, *)
(* and twice with an administrator's FAILED inside a courier's RETURNED.   *)
CreditedOncePerLook ==
    /\ [](\A o \in Orders : restocks[o] <= Cardinality(Workers))
    /\ [][\A o \in Orders :
            restocks'[o] # restocks[o] /\ RestockLogged(o)
                => \E w \in Looked(o) : req'[w] = Idle]_vars

(* The abstract promise, read off the rows.                                *)
ClaimOf(o) ==
    IF ~Exists(o) THEN "none"
    ELSE IF o \in Holding THEN "held"
    ELSE IF o \in Selling THEN "sold" ELSE "back"

Promise == INSTANCE StockPromise
    WITH shelf <- available, held <- reserved, gone <- sold,
         claim <- [o \in Orders |-> ClaimOf(o)]

KeepsStockPromise == Promise!Spec

----------------------------------------------------------------------------
(* Money.                                                                  *)

CapturedFor(o) ==
    \E g \in GatewayOrders : gateway[g].order = o /\ gateway[g].state = "captured"

(* An online order is marked PAID only when the gateway has captured money *)
(* for that very order; a signed callback alone is not enough.             *)
PaidIsCollected ==
    \A o \in Orders \ CodOrders : paymentStatus[o] = "PAID" => CapturedFor(o)

(* What the handlers know of the gateway while they wait: an id being      *)
(* saved is fresh and nobody else's, the id on record and the ids in       *)
(* requests are of gateway orders opened for that very order, a request    *)
(* that passed the capture check still speaks of captured money, and       *)
(* nothing happened to a gateway order that was never opened.              *)
Saving(w) == Serving(w, "initiate", "gateway")

HandlersAreInformed ==
    /\ \A g \in GatewayOrders : Open(g) \/ gateway[g].state = "created"
    /\ \A o \in Orders : rzpOrder[o] # NoGatewayOrder => gateway[rzpOrder[o]].order = o
    /\ \A w \in Workers :
        /\ Saving(w) => /\ req[w].g \in GatewayOrders
                        /\ gateway[req[w].g].order = req[w].order
                        /\ gateway[req[w].g].state = "created"
                        /\ \A v \in Workers \ {w} : Saving(v) => req[v].g # req[w].g
        /\ req[w].kind \in {"verify", "captured"} =>
              /\ req[w].g \in GatewayOrders
              /\ gateway[req[w].g].order = req[w].order
        /\ req[w].kind = "captured" \/ Serving(w, "verify", "gateway") =>
              gateway[req[w].g].state = "captured"

(* A payment is recorded REFUNDED, in full or in part, only after money    *)
(* went back at the gateway: in full means all of it.                      *)
RefundIsReal ==
    \A o \in Orders \ CodOrders :
        LET Returned(amount) ==
                \E g \in GatewayOrders : gateway[g].order = o /\ gateway[g].refunded >= amount
        IN  /\ payment[o] = "REFUNDED" => Returned(Amount)
            /\ paymentStatus[o] = "PARTIALLY_REFUNDED" => Returned(1)

(* Whatever the rows say of money, paid or returned, the gateway's records *)
(* bear out, and what the handlers carry between their steps stays true.   *)
MoneyIsBacked == PaidIsCollected /\ RefundIsReal /\ HandlersAreInformed

(* No event degrades a captured payment except a refund of it.             *)
CapturedNeverDegrades ==
    [][\A o \in Orders : payment[o] = "CAPTURED" => payment'[o] \in {"CAPTURED", "REFUNDED"}]_vars

(* Money the gateway captured on an order's gateway order of record ends   *)
(* up recorded on its payment, even if the browser never calls back and    *)
(* handlers die half-way, unless a new gateway order replaces that one.    *)
MoneyIsRecorded ==
    \A o \in Orders, g \in GatewayOrders :
        gateway[g].state = "captured" /\ rzpOrder[o] = g
            ~> payment[o] \in {"CAPTURED", "REFUNDED"} \/ rzpOrder[o] # g

----------------------------------------------------------------------------
(* Statuses.                                                               *)

(* Every change of an order's status is one the matrix of order-status.ts  *)
(* allows.                                                                 *)
TransitionsFollowMatrix ==
    [][\A o \in Orders :
        \/ orderStatus'[o] = orderStatus[o]
        \/ orderStatus[o] = "NONE"
        \/ orderStatus'[o] \in Transitions(orderStatus[o])]_vars

(* An order waiting for a payment does not hold its units for ever.        *)
HoldsAreReleased ==
    \A o \in Orders : orderStatus[o] = "PENDING_PAYMENT" ~> orderStatus[o] # "PENDING_PAYMENT"
=============================================================================
