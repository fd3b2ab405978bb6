-------------------------- MODULE OrderSystemProofs --------------------------
(***************************************************************************)
(* Proofs about the order lifecycle with every handler in use, for any     *)
(* number of products, orders, gateway orders and concurrent requests.     *)
(***************************************************************************)
EXTENDS OrderSystem, LedgerProofs, SumLemmas

USE DEF Quantities

(* What a request may ask for, by its kind.                                *)
RequestFits(r) ==
    /\ r \in Requests \cup {Idle}
    /\ r.kind \in {"cancel", "failPayment", "adminStatus", "transition"} => r.to \in OrderStatuses
    /\ r.kind = "deliver" => r.to \in DeliveryStatuses

RequestsFit == \A w \in Workers : RequestFits(req[w])

TypeInv == TypeOK /\ RequestsFit

(* The type invariant without the requests.                                *)
RowsOK ==
    /\ orderStatus \in [Orders -> OrderStatuses \cup {"NONE"}]
    /\ paymentStatus \in [Orders -> PaymentStatuses]
    /\ payment \in [Orders -> PaymentRecordStatuses]
    /\ rzpOrder \in [Orders -> GatewayOrders \cup {NoGatewayOrder}]
    /\ rzpPayment \in [Orders -> GatewayOrders \cup {NoGatewayOrder}]
    /\ delivery \in [Orders -> DeliveryStatuses]

ReqOK == req \in [Workers -> Requests \cup {Idle}] /\ RequestsFit

GatewayOK == gateway \in [GatewayOrders -> GatewayRecords]

LEMMA TypeInvParts == TypeInv <=> LedgerTypeOK /\ RowsOK /\ ReqOK /\ GatewayOK
  BY DEF TypeInv, TypeOK, StoreTypeOK, RowsOK, ReqOK, GatewayOK

LEMMA TypeInvPartsPrime == TypeInv' <=> LedgerTypeOK' /\ RowsOK' /\ ReqOK' /\ GatewayOK'
  BY DEF TypeInv, TypeOK, StoreTypeOK, RowsOK, ReqOK, GatewayOK

----------------------------------------------------------------------------
(* Requests.                                                               *)

(* A handler's first query opens a well-formed request.                    *)
LEMMA BeginFact ==
    ASSUME ReqOK, RowsOK, NEW w \in Workers, NEW o \in Orders, NEW kind \in Kinds,
           NEW to \in OrderStatuses \cup DeliveryStatuses \cup {"NONE"},
           NEW g \in GatewayOrders \cup {NoGatewayOrder}, NEW amount \in Nat,
           kind \in {"cancel", "failPayment", "adminStatus", "transition"} => to \in OrderStatuses,
           kind = "deliver" => to \in DeliveryStatuses,
           Begin(w, kind, o, to, g, amount)
    PROVE  ReqOK'
  <1> DEFINE r == [kind |-> kind, order |-> o, step |-> "read", to |-> to, g |-> g,
                   amount |-> amount, seen |-> Seen(o), logged |-> FALSE]
  <1>1. Seen(o) \in Snapshots
    BY DEF Begin, Exists, RowsOK, Seen, Snapshots
  <1>2. r \in Requests
    BY <1>1 DEF Requests
  <1>3. RequestFits(r)
    BY <1>2 DEF RequestFits
  <1>4. req' = [req EXCEPT ![w] = r]
    BY DEF Begin
  <1> HIDE DEF r
  <1>5. req' \in [Workers -> Requests \cup {Idle}]
    BY <1>2, <1>4 DEF ReqOK
  <1>6. \A v \in Workers : req'[v] = req[v] \/ req'[v] = r
    BY <1>4 DEF ReqOK
  <1> QED BY <1>3, <1>5, <1>6 DEF ReqOK, RequestsFit, RequestFits

(* A worker that is done has no request.                                   *)
LEMMA DoneFact ==
    ASSUME ReqOK, NEW w \in Workers, Done(w)
    PROVE  ReqOK'
  <1>1. \A v \in Workers : req'[v] = req[v] \/ req'[v] = Idle
    BY DEF Done, ReqOK
  <1>2. RequestFits(Idle)
    BY DEF RequestFits, Idle
  <1>3. req' \in [Workers -> Requests \cup {Idle}]
    BY DEF Done, ReqOK
  <1> QED BY <1>1, <1>2, <1>3 DEF ReqOK, RequestsFit, RequestFits

(* Serving a request of a kind the code has: the request is well formed.   *)
LEMMA ServingFact ==
    ASSUME ReqOK, NEW w \in Workers, req[w].kind \in Kinds
    PROVE  req[w] \in Requests /\ RequestFits(req[w])
  BY DEF ReqOK, RequestsFit, Kinds, Idle

(* Moving a request on, or noting the gateway order or the log check.      *)
LEMMA AdvanceFact ==
    ASSUME ReqOK, NEW w \in Workers, req[w].kind \in Kinds,
           NEW step \in {"read", "gateway", "checked"},
           NEW g \in GatewayOrders \cup {NoGatewayOrder}, NEW logged \in BOOLEAN,
           req' = [req EXCEPT ![w] = [req[w] EXCEPT !.step = step, !.g = g, !.logged = logged]]
    PROVE  ReqOK'
  <1> DEFINE r == [req[w] EXCEPT !.step = step, !.g = g, !.logged = logged]
  <1>1. req[w] \in Requests /\ RequestFits(req[w])
    BY ServingFact
  <1>2. r \in Requests /\ r.kind = req[w].kind /\ r.to = req[w].to
    BY <1>1 DEF Requests
  <1>3. RequestFits(r)
    BY <1>1, <1>2 DEF RequestFits
  <1> HIDE DEF r
  <1>4. req' = [req EXCEPT ![w] = r]
    BY DEF r
  <1>5. req' \in [Workers -> Requests \cup {Idle}]
    BY <1>2, <1>4 DEF ReqOK
  <1>6. \A v \in Workers : req'[v] = req[v] \/ req'[v] = r
    BY <1>4 DEF ReqOK
  <1> QED BY <1>3, <1>5, <1>6 DEF ReqOK, RequestsFit, RequestFits

----------------------------------------------------------------------------
(* The type invariant, handler by handler.                                 *)

LEMMA LedgerStays == LedgerTypeOK /\ UNCHANGED ledger => LedgerTypeOK'
  BY DEF LedgerTypeOK, ledger

LEMMA RestockFact ==
    ASSUME LedgerTypeOK, NEW o \in Orders, NEW logged \in BOOLEAN,
           RestockOrder(o, Items[o], logged)
    PROVE  LedgerTypeOK'
  BY CreditFact, LedgerStays, StoreAssumption DEF RestockOrder

LEMMA RestockUnderLockFact ==
    ASSUME LedgerTypeOK, NEW o \in Orders, RestockUnderLock(o)
    PROVE  LedgerTypeOK'
  <1>1. RestockLogged(o) \in BOOLEAN
    BY DEF RestockLogged
  <1> QED BY <1>1, RestockFact DEF RestockUnderLock

LEMMA RequestRanges ==
    ASSUME NEW r \in Requests
    PROVE  /\ r.kind \in Kinds /\ r.order \in Orders /\ r.logged \in BOOLEAN
           /\ r.step \in {"read", "gateway", "checked"}
           /\ r.g \in GatewayOrders \cup {NoGatewayOrder} /\ r.amount \in Nat
           /\ r.seen \in Snapshots
           /\ r.seen.status \in OrderStatuses /\ r.seen.delivery \in DeliveryStatuses
  BY DEF Requests, Snapshots

LEMMA InitTypeInv == Init => TypeInv
  <1> SUFFICES ASSUME Init PROVE TypeInv
    OBVIOUS
  <1>1. LedgerTypeOK
    BY StoreAssumption DEF Init, StoreInit, LedgerInit, LedgerTypeOK
  <1>2. RowsOK
    BY DEF Init, StoreInit, RowsOK, PaymentStatuses, PaymentRecordStatuses, DeliveryStatuses
  <1>3. ReqOK
    <2>1. RequestFits(Idle)
      BY DEF RequestFits, Idle
    <2> QED BY <2>1 DEF Init, StoreInit, ReqOK, RequestsFit
  <1>4. GatewayOK
    <2>1. 0 \in 0 .. Amount
      BY PaymentAssumption
    <2> QED BY <2>1 DEF Init, GatewayInit, GatewayOK, GatewayRecords
  <1> QED BY <1>1, <1>2, <1>3, <1>4, TypeInvParts

(* Checkout, the sweep, and requests that come to nothing.                 *)
LEMMA CheckoutTypes ==
    ASSUME TypeInv, NEW w \in Workers, NEW o \in Orders, Checkout(w, o), UNCHANGED gateway
    PROVE  TypeInv'
  <1>0. LedgerTypeOK /\ RowsOK /\ ReqOK /\ GatewayOK /\ Items[o] \in Quantities
    BY TypeInvParts, StoreAssumption
  <1>1. LedgerTypeOK'
    <2>1. CASE o \in CodOrders
      <3>1. /\ \A p \in Products : Items[o][p] \in Nat /\ Items[o][p] <= available[p]
            /\ available' = [p \in Products |-> available[p] - Items[o][p]]
            /\ sold' = [p \in Products |-> sold[p] + Items[o][p]]
            /\ stock' = [p \in Products |-> IF p \in {q \in Products : Items[o][q] > 0}
                                            THEN available'[p] ELSE stock[p]]
            /\ UNCHANGED <<reserved, restocks>>
        BY <1>0, <2>1 DEF Checkout, SyncStock
      <3>2. available' \in Quantities /\ sold' \in Quantities
        BY <1>0, <3>1 DEF LedgerTypeOK
      <3>3. stock' \in Quantities
        BY <1>0, <3>1, <3>2 DEF LedgerTypeOK
      <3> QED BY <1>0, <3>1, <3>2, <3>3 DEF LedgerTypeOK
    <2>2. CASE o \notin CodOrders
      BY <1>0, <2>2, ReserveFact DEF Checkout
    <2> QED BY <2>1, <2>2
  <1>2. RowsOK'
    BY <1>0 DEF Checkout, SetOrder, RowsOK, OrderStatuses
  <1>3. ReqOK' /\ GatewayOK'
    BY <1>0 DEF Checkout, ReqOK, RequestsFit, GatewayOK
  <1> QED BY <1>1, <1>2, <1>3, TypeInvPartsPrime

LEMMA SweepTypes ==
    ASSUME TypeInv, NEW o \in Orders, Sweep(o), UNCHANGED gateway
    PROVE  TypeInv'
  <1>0. LedgerTypeOK /\ RowsOK /\ ReqOK /\ GatewayOK /\ Items[o] \in Quantities
    BY TypeInvParts, StoreAssumption
  <1>1. LedgerTypeOK'
    BY <1>0, ReleaseFact DEF Sweep
  <1>2. RowsOK'
    BY <1>0 DEF Sweep, SetOrder, RowsOK, OrderStatuses
  <1>3. ReqOK' /\ GatewayOK'
    BY <1>0 DEF Sweep, ReqOK, RequestsFit, GatewayOK
  <1> QED BY <1>1, <1>2, <1>3, TypeInvPartsPrime

LEMMA DropTypes ==
    ASSUME TypeInv, NEW w \in Workers, Drop(w), UNCHANGED gateway
    PROVE  TypeInv'
  <1>0. LedgerTypeOK /\ RowsOK /\ ReqOK /\ GatewayOK
    BY TypeInvParts
  <1>1. LedgerTypeOK' /\ RowsOK' /\ GatewayOK'
    BY <1>0, LedgerStays DEF Drop, rows, RowsOK, GatewayOK
  <1>2. ReqOK'
    BY <1>0, DoneFact DEF Drop
  <1> QED BY <1>1, <1>2, TypeInvPartsPrime

(* The desk.                                                               *)
LEMMA DeskReadTypes ==
    ASSUME TypeInv, NEW w \in Workers, NEW o \in Orders, UNCHANGED gateway,
           CancelRead(w, o) \/ FailPaymentRead(w, o) \/ AdminStatusRead(w, o)
               \/ TransitionRead(w, o)
    PROVE  TypeInv'
  <1>0. LedgerTypeOK /\ RowsOK /\ ReqOK /\ GatewayOK
    BY TypeInvParts
  <1>1. PICK kind \in {"cancel", "failPayment", "adminStatus", "transition"},
             to \in OrderStatuses : Read(w, kind, o, to)
    BY DEF CancelRead, FailPaymentRead, AdminStatusRead, TransitionRead, Transitions,
           ValidOrderTransitions, OrderStatuses
  <1>2. ReqOK'
    BY <1>0, <1>1, BeginFact DEF Read, Kinds
  <1>3. UNCHANGED <<ledger, rows>>
    BY DEF CancelRead, FailPaymentRead, AdminStatusRead, TransitionRead
  <1>4. LedgerTypeOK' /\ RowsOK' /\ GatewayOK'
    BY <1>0, <1>3, LedgerStays DEF rows, RowsOK, GatewayOK
  <1> QED BY <1>2, <1>4, TypeInvPartsPrime

LEMMA DeskWriteTypes ==
    ASSUME TypeInv, NEW w \in Workers, UNCHANGED gateway,
           CancelWrite(w) \/ FailPaymentWrite(w) \/ AdminStatusWrite(w)
               \/ TransitionWrite(w)
    PROVE  TypeInv'
  <1> DEFINE o == req[w].order
  <1>0. LedgerTypeOK /\ RowsOK /\ ReqOK /\ GatewayOK
    BY TypeInvParts
  <1>1. req[w].kind \in {"cancel", "failPayment", "adminStatus", "transition"}
    BY DEF CancelWrite, FailPaymentWrite, AdminStatusWrite, TransitionWrite, Serving
  <1>2. req[w] \in Requests /\ req[w].to \in OrderStatuses
    BY <1>0, <1>1, ServingFact DEF RequestFits, Kinds
  <1>3. o \in Orders /\ req[w].logged \in BOOLEAN /\ Items[o] \in Quantities
    BY <1>2, RequestRanges, StoreAssumption
  <1>4. ReqOK'
    <2>1. Done(w)
      BY DEF CancelWrite, FailPaymentWrite, AdminStatusWrite, TransitionWrite
    <2> QED BY <1>0, <2>1, DoneFact
  <1>5. RowsOK'
    <2>1. CASE CancelWrite(w)
      BY <1>0, <1>3, <2>1 DEF CancelWrite, SetOrder, CancelDelivery, SetDelivery, RowsOK,
                              OrderStatuses, DeliveryStatuses
    <2>2. CASE FailPaymentWrite(w)
      BY <1>0, <1>3, <2>2 DEF FailPaymentWrite, SetOrder, SetPaid, SetPayment, RowsOK,
                              OrderStatuses, PaymentStatuses, PaymentRecordStatuses
    <2>3. CASE AdminStatusWrite(w)
      BY <1>0, <1>2, <1>3, <2>3 DEF AdminStatusWrite, SetOrder, RowsOK
    <2>4. CASE TransitionWrite(w)
      BY <1>0, <1>2, <1>3, <2>4 DEF TransitionWrite, SetOrder, CancelDelivery, SetDelivery,
                                    RowsOK, DeliveryStatuses
    <2> QED BY <2>1, <2>2, <2>3, <2>4
  <1>6. \/ UNCHANGED ledger \/ ReleaseReservation(Items[o]) \/ RestockUnderLock(o)
        \/ RestockOrder(o, Items[o], req[w].logged)
    <2>1. CASE CancelWrite(w)
      BY <2>1 DEF CancelWrite
    <2>2. CASE FailPaymentWrite(w)
      BY <2>2 DEF FailPaymentWrite
    <2>3. CASE AdminStatusWrite(w)
      BY <2>3 DEF AdminStatusWrite, Disposition
    <2>4. CASE TransitionWrite(w)
      BY <2>4 DEF TransitionWrite
    <2> QED BY <2>1, <2>2, <2>3, <2>4
  <1>7. LedgerTypeOK'
    BY <1>0, <1>3, <1>6, LedgerStays, ReleaseFact, RestockUnderLockFact, RestockFact
  <1>8. GatewayOK'
    BY <1>0 DEF GatewayOK
  <1> QED BY <1>4, <1>5, <1>7, <1>8, TypeInvPartsPrime

(* The unlocked log check of a restock, of the desk or of a return.        *)
LEMMA CheckTypes ==
    ASSUME TypeInv, NEW w \in Workers, UNCHANGED gateway, TransitionCheck(w) \/ ReturnCheck(w)
    PROVE  TypeInv'
  <1>0. LedgerTypeOK /\ RowsOK /\ ReqOK /\ GatewayOK
    BY TypeInvParts
  <1>1. req[w].kind \in Kinds
    BY DEF TransitionCheck, ReturnCheck, Serving, Kinds
  <1>2. req[w] \in Requests
    BY <1>0, <1>1, ServingFact
  <1> DEFINE logged == RestockLogged(req[w].order)
  <1>3. logged \in BOOLEAN /\ req[w].g \in GatewayOrders \cup {NoGatewayOrder}
    BY <1>2, RequestRanges DEF RestockLogged
  <1>4. req' = [req EXCEPT ![w] = [req[w] EXCEPT !.step = "checked", !.g = req[w].g,
                                                !.logged = logged]]
    BY <1>0, <1>2 DEF TransitionCheck, ReturnCheck, Requests, ReqOK
  <1>5. ReqOK'
    BY <1>0, <1>1, <1>3, <1>4, AdvanceFact
  <1>6. UNCHANGED <<ledger, rows>>
    BY DEF TransitionCheck, ReturnCheck
  <1>7. LedgerTypeOK' /\ RowsOK' /\ GatewayOK'
    BY <1>0, <1>6, LedgerStays DEF rows, RowsOK, GatewayOK
  <1> QED BY <1>5, <1>7, TypeInvPartsPrime

(* Fulfilment.                                                             *)
LEMMA FulfilmentReadTypes ==
    ASSUME TypeInv, NEW w \in Workers, NEW o \in Orders, UNCHANGED gateway,
           AssignRead(w, o) \/ DeliverRead(w, o)
    PROVE  TypeInv'
  <1>0. LedgerTypeOK /\ RowsOK /\ ReqOK /\ GatewayOK
    BY TypeInvParts
  <1>1. PICK kind \in {"assign", "deliver"}, to \in DeliveryStatuses : Read(w, kind, o, to)
    BY DEF AssignRead, DeliverRead, ValidDeliveryTransitions, DeliveryStatuses
  <1>2. ReqOK'
    BY <1>0, <1>1, BeginFact DEF Read, Kinds
  <1>3. UNCHANGED <<ledger, rows>>
    BY DEF AssignRead, DeliverRead
  <1>4. LedgerTypeOK' /\ RowsOK' /\ GatewayOK'
    BY <1>0, <1>3, LedgerStays DEF rows, RowsOK, GatewayOK
  <1> QED BY <1>2, <1>4, TypeInvPartsPrime

LEMMA AssignWriteTypes ==
    ASSUME TypeInv, NEW w \in Workers, UNCHANGED gateway, AssignWrite(w)
    PROVE  TypeInv'
  <1>0. LedgerTypeOK /\ RowsOK /\ ReqOK /\ GatewayOK
    BY TypeInvParts
  <1>1. req[w] \in Requests
    BY <1>0, ServingFact DEF AssignWrite, Serving, Kinds
  <1>2. req[w].order \in Orders /\ req[w].seen.delivery \in DeliveryStatuses
    BY <1>1, RequestRanges
  <1>3. RowsOK'
    BY <1>0, <1>2 DEF AssignWrite, SetDelivery, SetOrder, RowsOK, OrderStatuses, DeliveryStatuses
  <1>4. LedgerTypeOK' /\ ReqOK' /\ GatewayOK'
    BY <1>0, LedgerStays, DoneFact DEF AssignWrite, GatewayOK
  <1> QED BY <1>3, <1>4, TypeInvPartsPrime

LEMMA DeliverWriteTypes ==
    ASSUME TypeInv, NEW w \in Workers, UNCHANGED gateway, DeliverWrite(w)
    PROVE  TypeInv'
  <1> DEFINE o == req[w].order
             to == req[w].to
  <1>0. LedgerTypeOK /\ RowsOK /\ ReqOK /\ GatewayOK
    BY TypeInvParts
  <1>1. req[w] \in Requests /\ to \in DeliveryStatuses
    BY <1>0, ServingFact DEF DeliverWrite, Serving, Kinds, RequestFits
  <1>2. o \in Orders /\ req[w].logged \in BOOLEAN /\ Items[o] \in Quantities
    BY <1>1, RequestRanges, StoreAssumption
  <1>3. RowsOK'
    <2>1. delivery' \in [Orders -> DeliveryStatuses]
      BY <1>0, <1>1, <1>2 DEF DeliverWrite, SetDelivery, RowsOK
    <2>2. orderStatus' \in [Orders -> OrderStatuses \cup {"NONE"}]
      BY <1>0, <1>1, <1>2
      DEF DeliverWrite, SetOrder, RowsOK, DeliveryToOrderStatus, OrderStatuses
    <2>3. /\ paymentStatus' \in [Orders -> PaymentStatuses]
          /\ payment' \in [Orders -> PaymentRecordStatuses]
      BY <1>0, <1>2
      DEF DeliverWrite, SetPaid, SetPayment, RowsOK, PaymentStatuses, PaymentRecordStatuses
    <2> QED BY <1>0, <2>1, <2>2, <2>3 DEF DeliverWrite, RowsOK
  <1>4. LedgerTypeOK'
    <2>1. \/ UNCHANGED ledger \/ ReleaseReservation(Items[o]) \/ RestockUnderLock(o)
          \/ RestockOrder(o, Items[o], req[w].logged)
      <3>1. DisposeOnDelivery(w)
        BY DEF DeliverWrite
      <3>2. req[w].step \in {"read", "checked"}
        BY DEF DeliverWrite, Serving
      <3> QED BY <3>1, <3>2 DEF DisposeOnDelivery, RestockUnderLock
    <2> QED BY <1>0, <1>2, <2>1, LedgerStays, ReleaseFact, RestockUnderLockFact, RestockFact
  <1>5. ReqOK' /\ GatewayOK'
    BY <1>0, DoneFact DEF DeliverWrite, GatewayOK
  <1> QED BY <1>3, <1>4, <1>5, TypeInvPartsPrime

(* The gateway.                                                            *)
LEMMA GatewayTypes ==
    ASSUME TypeInv, GatewayStep
    PROVE  TypeInv'
  <1>0. LedgerTypeOK /\ RowsOK /\ ReqOK /\ GatewayOK
    BY TypeInvParts
  <1>1. PICK g \in GatewayOrders : AttemptFails(g) \/ Authorize(g) \/ Capture(g)
    BY DEF GatewayStep
  <1>2. UNCHANGED <<storeVars, req>>
    BY <1>1 DEF AttemptFails, Authorize, Capture
  <1>3. GatewayOK'
    <2>0. gateway[g] \in GatewayRecords
      BY <1>0, <1>1 DEF GatewayOK
    <2>1. PICK r \in GatewayRecords : gateway' = [gateway EXCEPT ![g] = r]
      <3>1. CASE AttemptFails(g)
        BY <2>0, <3>1 DEF AttemptFails, GatewayRecords
      <3>2. CASE Authorize(g) \/ Capture(g)
        BY <2>0, <3>2 DEF Authorize, Capture, GatewayRecords
      <3> QED BY <1>1, <3>1, <3>2
    <2> QED BY <1>0, <2>1 DEF GatewayOK
  <1>4. LedgerTypeOK' /\ RowsOK' /\ ReqOK'
    BY <1>0, <1>2, LedgerStays DEF storeVars, rows, RowsOK, ReqOK, RequestsFit
  <1> QED BY <1>3, <1>4, TypeInvPartsPrime

(* Payments.                                                               *)
LEMMA PaymentReadTypes ==
    ASSUME TypeInv, NEW w \in Workers, NEW o \in Orders,
           InitiateRead(w, o) \/ VerifyRead(w, o) \/ CapturedRead(w, o)
               \/ FailedRead(w, o) \/ RefundRead(w, o)
    PROVE  TypeInv'
  <1>0. LedgerTypeOK /\ RowsOK /\ ReqOK /\ GatewayOK
    BY TypeInvParts
  <1>1. PICK kind \in {"initiate", "verify", "captured", "failed", "refund"},
             g \in GatewayOrders \cup {NoGatewayOrder}, amount \in Nat :
                 ReadPayment(w, kind, o, g, amount)
    BY PaymentAssumption DEF InitiateRead, VerifyRead, CapturedRead, FailedRead, RefundRead
  <1>2. ReqOK'
    BY <1>0, <1>1, BeginFact DEF ReadPayment, Kinds
  <1>3. UNCHANGED <<storeVars, gateway>>
    BY DEF InitiateRead, VerifyRead, CapturedRead, FailedRead, RefundRead
  <1>4. LedgerTypeOK' /\ RowsOK' /\ GatewayOK'
    BY <1>0, <1>3, LedgerStays DEF storeVars, rows, RowsOK, GatewayOK
  <1> QED BY <1>2, <1>4, TypeInvPartsPrime

LEMMA AtGatewayTypes ==
    ASSUME TypeInv, NEW w \in Workers,
           InitiateAtGateway(w) \/ VerifyAtGateway(w) \/ RefundAtGateway(w)
    PROVE  TypeInv'
  <1>0. LedgerTypeOK /\ RowsOK /\ ReqOK /\ GatewayOK
    BY TypeInvParts
  <1>1. req[w].kind \in Kinds
    BY DEF InitiateAtGateway, VerifyAtGateway, RefundAtGateway, Serving, Kinds
  <1>2. req[w] \in Requests
    BY <1>0, <1>1, ServingFact
  <1>3. /\ req[w].order \in Orders /\ req[w].logged \in BOOLEAN /\ req[w].amount \in Nat
        /\ req[w].g \in GatewayOrders \cup {NoGatewayOrder}
    BY <1>2, RequestRanges
  <1>4. ReqOK'
    <2>1. PICK g \in GatewayOrders \cup {NoGatewayOrder} :
              req' = [req EXCEPT ![w] = [req[w] EXCEPT !.step = "gateway", !.g = g,
                                                      !.logged = req[w].logged]]
      <3>1. CASE InitiateAtGateway(w)
        <4>1. PICK g \in GatewayOrders :
                  req' = [req EXCEPT ![w].step = "gateway", ![w].g = g]
          BY <3>1 DEF InitiateAtGateway
        <4>2. req' = [req EXCEPT ![w] = [req[w] EXCEPT !.step = "gateway", !.g = g,
                                                     !.logged = req[w].logged]]
          BY <1>0, <1>2, <4>1 DEF Requests, ReqOK
        <4> QED BY <4>2
      <3>2. CASE VerifyAtGateway(w) \/ RefundAtGateway(w)
        <4>1. req' = [req EXCEPT ![w].step = "gateway"]
          BY <3>2 DEF VerifyAtGateway, RefundAtGateway
        <4>2. req' = [req EXCEPT ![w] = [req[w] EXCEPT !.step = "gateway", !.g = req[w].g,
                                                     !.logged = req[w].logged]]
          BY <1>0, <1>2, <4>1 DEF Requests, ReqOK
        <4> QED BY <1>3, <4>2
      <3> QED BY <3>1, <3>2
    <2> QED BY <1>0, <1>1, <1>3, <2>1, AdvanceFact
  <1>5. GatewayOK'
    <2>1. CASE InitiateAtGateway(w)
      BY <1>0, <1>3, <2>1 DEF InitiateAtGateway, GatewayOK, GatewayRecords
    <2>2. CASE VerifyAtGateway(w)
      BY <1>0, <2>2 DEF VerifyAtGateway, GatewayOK
    <2>3. CASE RefundAtGateway(w)
      <3> DEFINE g == req[w].seen.payId
                 r == [gateway[g] EXCEPT !.refunded = @ + req[w].amount]
      <3>1. gateway' = [gateway EXCEPT ![g] = r] /\ gateway[g].refunded + req[w].amount <= Amount
        BY <2>3 DEF RefundAtGateway
      <3>2. CASE g \in GatewayOrders
        <4>1. gateway[g] \in GatewayRecords
          BY <1>0, <3>2 DEF GatewayOK
        <4>2. r \in GatewayRecords
          BY <1>3, <3>1, <4>1, PaymentAssumption DEF GatewayRecords
        <4> QED BY <1>0, <3>1, <4>2 DEF GatewayOK
      <3>3. CASE g \notin GatewayOrders
        BY <1>0, <3>1, <3>3 DEF GatewayOK
      <3> QED BY <3>2, <3>3
    <2> QED BY <2>1, <2>2, <2>3
  <1>6. UNCHANGED storeVars
    BY DEF InitiateAtGateway, VerifyAtGateway, RefundAtGateway, storeVars
  <1>7. LedgerTypeOK' /\ RowsOK'
    BY <1>0, <1>6, LedgerStays DEF storeVars, rows, RowsOK
  <1> QED BY <1>4, <1>5, <1>7, TypeInvPartsPrime

LEMMA PaymentWriteTypes ==
    ASSUME TypeInv, NEW w \in Workers,
           InitiateSave(w) \/ VerifyBadSignature(w) \/ VerifyConfirm(w)
               \/ CapturedConfirm(w) \/ FailedWrite(w) \/ RefundSave(w)
    PROVE  TypeInv'
  <1> DEFINE o == req[w].order
  <1>0. LedgerTypeOK /\ RowsOK /\ ReqOK /\ GatewayOK
    BY TypeInvParts
  <1>1. req[w] \in Requests
    <2>1. req[w].kind \in Kinds
      BY DEF InitiateSave, VerifyBadSignature, VerifyConfirm, CapturedConfirm, FailedWrite,
             RefundSave, Serving, Kinds
    <2> QED BY <1>0, <2>1, ServingFact
  <1>2. /\ o \in Orders /\ Items[o] \in Quantities
        /\ req[w].g \in GatewayOrders \cup {NoGatewayOrder}
    BY <1>1, RequestRanges, StoreAssumption
  <1>3. ReqOK'
    <2>1. Done(w)
      BY DEF InitiateSave, VerifyBadSignature, VerifyConfirm, CapturedConfirm, FailedWrite,
             RefundSave
    <2> QED BY <1>0, <2>1, DoneFact
  <1>4. RowsOK'
    BY <1>0, <1>2
    DEF InitiateSave, VerifyBadSignature, VerifyConfirm, CapturedConfirm, FailedWrite, RefundSave,
        CaptureGate, ConfirmOrder, SetOrder, SetPaid, SetPayment, RowsOK, OrderStatuses,
        PaymentStatuses, PaymentRecordStatuses
  <1>5. LedgerTypeOK'
    <2>1. UNCHANGED ledger \/ ConfirmDeduction(Items[o]) \/ ReleaseReservation(Items[o])
      BY DEF InitiateSave, VerifyBadSignature, VerifyConfirm, CapturedConfirm, FailedWrite,
             RefundSave, ConfirmOrder
    <2> QED BY <1>0, <1>2, <2>1, LedgerStays, DeductFact, ReleaseFact
  <1>6. GatewayOK'
    BY <1>0 DEF InitiateSave, VerifyBadSignature, VerifyConfirm, CapturedConfirm, FailedWrite,
                RefundSave, GatewayOK, GatewayRecords
  <1> QED BY <1>3, <1>4, <1>5, <1>6, TypeInvPartsPrime

LEMMA NextTypeInv == TypeInv /\ [Next]_vars => TypeInv'
  <1> SUFFICES ASSUME TypeInv, [Next]_vars PROVE TypeInv'
    OBVIOUS
  <1>1. CASE UNCHANGED vars
    <2>0. LedgerTypeOK /\ RowsOK /\ ReqOK /\ GatewayOK
      BY TypeInvParts
    <2>1. LedgerTypeOK' /\ RowsOK' /\ ReqOK' /\ GatewayOK'
      BY <1>1, <2>0, LedgerStays DEF vars, rows, RowsOK, ReqOK, RequestsFit, GatewayOK
    <2> QED BY <2>1, TypeInvPartsPrime
  <1>2. CASE GatewayStep
    BY <1>2, GatewayTypes
  <1>3. ASSUME NEW w \in Workers, PaymentStep(w) PROVE TypeInv'
    BY <1>3, PaymentReadTypes, AtGatewayTypes, PaymentWriteTypes DEF PaymentStep
  <1>4. ASSUME NEW w \in Workers, DeskStep(w), UNCHANGED gateway PROVE TypeInv'
    BY <1>4, DeskReadTypes, DeskWriteTypes, CheckTypes DEF DeskStep
  <1>5. ASSUME NEW w \in Workers, FulfilmentStep(w), UNCHANGED gateway PROVE TypeInv'
    BY <1>5, FulfilmentReadTypes, AssignWriteTypes, DeliverWriteTypes, CheckTypes
    DEF FulfilmentStep
  <1>6. ASSUME NEW w \in Workers, Drop(w) \/ (\E o \in Orders : Checkout(w, o)),
               UNCHANGED gateway
        PROVE  TypeInv'
    BY <1>6, DropTypes, CheckoutTypes
  <1>7. ASSUME NEW o \in Orders, Sweep(o), UNCHANGED gateway PROVE TypeInv'
    BY <1>7, SweepTypes
  <1> QED BY <1>1, <1>2, <1>3, <1>4, <1>5, <1>6, <1>7 DEF Next, Step

(* Every row, request and gateway record stays well formed, and the stock  *)
(* counters never go below zero, whichever handlers overlap.               *)
THEOREM TypeCorrect == Spec => []TypeOK
  <1>1. TypeInv => TypeOK
    BY DEF TypeInv
  <1> QED BY InitTypeInv, NextTypeInv, <1>1, PTL DEF Spec

----------------------------------------------------------------------------
(* Money.                                                                  *)

MoneyInv == TypeInv /\ HandlersAreInformed /\ PaidIsCollected

(* A gateway order keeps its order, captured money stays captured, a       *)
(* gateway order whose id is being saved stays unpaid and one that is not  *)
(* open is left alone.                                                     *)
GatewayGrows ==
    \A g \in GatewayOrders :
        /\ gateway[g].order # NoOrder => gateway'[g].order = gateway[g].order
        /\ gateway[g].state = "captured" => gateway'[g].state = "captured"
        /\ gateway[g].state = "created" => gateway'[g].state = "created"

(* No worker learns anything new about the gateway.                        *)
NothingLearnt ==
    \A w \in Workers :
        \/ req'[w] = req[w]
        \/ /\ req'[w].kind \notin {"verify", "captured"}
           /\ req'[w].kind = "initiate" => req'[w].step # "gateway"

LEMMA InformedStay ==
    ASSUME TypeInv, HandlersAreInformed, GatewayGrows, NothingLearnt, UNCHANGED rzpOrder
    PROVE  HandlersAreInformed'
  <1>0. RowsOK /\ ReqOK /\ GatewayOK
    BY TypeInvParts
  <1>1. ASSUME NEW o \in Orders, rzpOrder'[o] # NoGatewayOrder
        PROVE  gateway'[rzpOrder'[o]].order = o
    <2>1. rzpOrder[o] \in GatewayOrders /\ gateway[rzpOrder[o]].order = o
      BY <1>0, <1>1 DEF RowsOK, HandlersAreInformed
    <2> QED BY <2>1, PaymentAssumption DEF GatewayGrows
  <1>2. ASSUME NEW w \in Workers, Saving(w)'
        PROVE  /\ req'[w].g \in GatewayOrders
               /\ gateway'[req'[w].g].order = req'[w].order
               /\ gateway'[req'[w].g].state = "created"
               /\ \A v \in Workers \ {w} : Saving(v)' => req'[v].g # req'[w].g
    <2>1. \A v \in Workers : Saving(v)' => req'[v] = req[v] /\ Saving(v)
      BY DEF NothingLearnt, Saving, Serving
    <2>2. req[w] \in Requests
      BY <1>0, <1>2, <2>1, ServingFact DEF Saving, Serving, Kinds
    <2>3. req[w].order # NoOrder
      BY <2>2, RequestRanges, PaymentAssumption
    <2>4. /\ req[w].g \in GatewayOrders
          /\ gateway[req[w].g].order = req[w].order
          /\ gateway[req[w].g].state = "created"
          /\ \A v \in Workers \ {w} : Saving(v) => req[v].g # req[w].g
      BY <1>2, <2>1 DEF HandlersAreInformed
    <2>5. /\ gateway'[req[w].g].order = req[w].order
          /\ gateway'[req[w].g].state = "created"
      BY <2>3, <2>4 DEF GatewayGrows, Open
    <2> QED BY <1>2, <2>1, <2>4, <2>5
  <1>3. ASSUME NEW w \in Workers, req'[w].kind \in {"verify", "captured"}
        PROVE  /\ req'[w].g \in GatewayOrders
               /\ gateway'[req'[w].g].order = req'[w].order
               /\ req'[w].kind = "captured" \/ Serving(w, "verify", "gateway")' =>
                     gateway'[req'[w].g].state = "captured"
    <2>1. req'[w] = req[w]
      BY <1>3 DEF NothingLearnt
    <2>2. req[w].order \in Orders
      BY <1>0, <1>3, <2>1, ServingFact, RequestRanges DEF Kinds
    <2>3. /\ req[w].g \in GatewayOrders
          /\ gateway[req[w].g].order = req[w].order
          /\ req[w].kind = "captured" \/ Serving(w, "verify", "gateway") =>
                gateway[req[w].g].state = "captured"
      BY <1>3, <2>1 DEF HandlersAreInformed
    <2>4. Serving(w, "verify", "gateway")' <=> Serving(w, "verify", "gateway")
      BY <2>1 DEF Serving
    <2> QED BY <2>1, <2>2, <2>3, <2>4, PaymentAssumption DEF GatewayGrows
  <1>5. \A g \in GatewayOrders : Open(g)' \/ gateway'[g].state = "created"
    BY DEF HandlersAreInformed, GatewayGrows, Open
  <1>4. \A w \in Workers : Serving(w, "verify", "gateway")' => req'[w].kind = "verify"
    BY DEF Serving
  <1> QED BY <1>1, <1>2, <1>3, <1>4, <1>5 DEF HandlersAreInformed

(* An order that was not marked PAID in this step stays collected.         *)
LEMMA PaidStays ==
    ASSUME TypeInv, PaidIsCollected, GatewayGrows,
           \A o \in Orders \ CodOrders : paymentStatus'[o] = "PAID" => paymentStatus[o] = "PAID"
    PROVE  PaidIsCollected'
  <1> SUFFICES ASSUME NEW o \in Orders \ CodOrders, paymentStatus'[o] = "PAID"
               PROVE  CapturedFor(o)'
    BY DEF PaidIsCollected
  <1>1. PICK g \in GatewayOrders : gateway[g].order = o /\ gateway[g].state = "captured"
    BY DEF PaidIsCollected, CapturedFor
  <1>2. gateway'[g].order = o /\ gateway'[g].state = "captured"
    BY <1>1, PaymentAssumption DEF GatewayGrows
  <1> QED BY <1>2 DEF CapturedFor

LEMMA InitMoneyInv == Init => MoneyInv
  <1> SUFFICES ASSUME Init PROVE MoneyInv
    OBVIOUS
  <1>1. HandlersAreInformed
    BY DEF Init, StoreInit, GatewayInit, HandlersAreInformed, Saving, Serving, Idle
  <1>2. PaidIsCollected
    BY DEF Init, StoreInit, PaidIsCollected
  <1> QED BY <1>1, <1>2, InitTypeInv DEF MoneyInv

LEMMA SameGateway == UNCHANGED gateway => GatewayGrows
  BY DEF GatewayGrows

(* Opening a request that does not name a gateway order teaches nothing.   *)
LEMMA BeginLearnsNothing ==
    ASSUME ReqOK, NEW w \in Workers, NEW kind, NEW o, NEW to, NEW g, NEW amount,
           kind \notin {"verify", "captured"}, Begin(w, kind, o, to, g, amount)
    PROVE  NothingLearnt
  BY DEF Begin, NothingLearnt, ReqOK

LEMMA DoneLearnsNothing ==
    ASSUME ReqOK, NEW w \in Workers, Done(w)
    PROVE  NothingLearnt
  BY DEF Done, Idle, NothingLearnt, ReqOK

(* The steps that only touch the rows, and mark no online order PAID.      *)
LEMMA RowStepsKeepMoney ==
    ASSUME MoneyInv, TypeInv', UNCHANGED gateway,
           \/ \E w \in Workers : \/ DeskStep(w) \/ FulfilmentStep(w) \/ Drop(w)
                                \/ \E o \in Orders : Checkout(w, o)
           \/ \E o \in Orders : Sweep(o)
    PROVE  MoneyInv'
  <1> DEFINE NoneMarkedPaid ==
                 \A o \in Orders \ CodOrders :
                     paymentStatus'[o] = "PAID" => paymentStatus[o] = "PAID"
             Quiet == NothingLearnt /\ UNCHANGED rzpOrder /\ NoneMarkedPaid
  <1>0. RowsOK /\ ReqOK /\ GatewayGrows
    BY TypeInvParts, SameGateway DEF MoneyInv
  <1>1. ASSUME NEW w \in Workers, DeskStep(w) PROVE Quiet
    <2>1. ASSUME NEW o \in Orders,
                 CancelRead(w, o) \/ FailPaymentRead(w, o) \/ AdminStatusRead(w, o)
                     \/ TransitionRead(w, o)
          PROVE  Quiet
      <3>1. PICK kind, to :
                /\ kind \in {"cancel", "failPayment", "adminStatus", "transition"}
                /\ Read(w, kind, o, to)
        BY <2>1 DEF CancelRead, FailPaymentRead, AdminStatusRead, TransitionRead
      <3>2. NothingLearnt
        BY <1>0, <3>1, BeginLearnsNothing DEF Read
      <3> QED BY <2>1, <3>2
              DEF CancelRead, FailPaymentRead, AdminStatusRead, TransitionRead, rows
    <2>2. CASE CancelWrite(w) \/ FailPaymentWrite(w) \/ AdminStatusWrite(w) \/ TransitionWrite(w)
      <3>1. NothingLearnt
        BY <1>0, <2>2, DoneLearnsNothing
        DEF CancelWrite, FailPaymentWrite, AdminStatusWrite, TransitionWrite
      <3>2. NoneMarkedPaid
        BY <1>0, <2>2 DEF CancelWrite, FailPaymentWrite, AdminStatusWrite, TransitionWrite,
                          SetPaid, RowsOK
      <3> QED BY <2>2, <3>1, <3>2
              DEF CancelWrite, FailPaymentWrite, AdminStatusWrite, TransitionWrite
    <2>3. CASE TransitionCheck(w)
      <3>1. req[w] \in Requests
        BY <1>0, <2>3, ServingFact DEF TransitionCheck, Serving, Kinds
      <3>2. NothingLearnt
        BY <1>0, <2>3, <3>1 DEF TransitionCheck, Serving, Requests, NothingLearnt, ReqOK
      <3> QED BY <2>3, <3>2 DEF TransitionCheck, rows
    <2> QED BY <1>1, <2>1, <2>2, <2>3 DEF DeskStep
  <1>2. ASSUME NEW w \in Workers, FulfilmentStep(w) PROVE Quiet
    <2>1. ASSUME NEW o \in Orders, AssignRead(w, o) \/ DeliverRead(w, o) PROVE Quiet
      <3>1. PICK kind, to : kind \in {"assign", "deliver"} /\ Read(w, kind, o, to)
        BY <2>1 DEF AssignRead, DeliverRead
      <3>2. NothingLearnt
        BY <1>0, <3>1, BeginLearnsNothing DEF Read
      <3> QED BY <2>1, <3>2 DEF AssignRead, DeliverRead, rows
    <2>2. CASE AssignWrite(w) \/ DeliverWrite(w)
      <3>1. NothingLearnt
        BY <1>0, <2>2, DoneLearnsNothing DEF AssignWrite, DeliverWrite
      <3>2. NoneMarkedPaid
        BY <1>0, <2>2 DEF AssignWrite, DeliverWrite, SetPaid, RowsOK
      <3> QED BY <2>2, <3>1, <3>2 DEF AssignWrite, DeliverWrite
    <2>3. CASE ReturnCheck(w)
      <3>1. req[w] \in Requests
        BY <1>0, <2>3, ServingFact DEF ReturnCheck, Serving, Kinds
      <3>2. NothingLearnt
        BY <1>0, <2>3, <3>1 DEF ReturnCheck, Serving, Requests, NothingLearnt, ReqOK
      <3> QED BY <2>3, <3>2 DEF ReturnCheck, rows
    <2> QED BY <1>2, <2>1, <2>2, <2>3 DEF FulfilmentStep
  <1>3. ASSUME NEW w \in Workers, Drop(w) PROVE Quiet
    BY <1>0, <1>3, DoneLearnsNothing DEF Drop, rows
  <1>4. ASSUME NEW w \in Workers, NEW o \in Orders, Checkout(w, o) PROVE Quiet
    BY <1>4 DEF Checkout, NothingLearnt
  <1>5. ASSUME NEW o \in Orders, Sweep(o) PROVE Quiet
    BY <1>5 DEF Sweep, NothingLearnt
  <1>6. Quiet
    BY <1>1, <1>2, <1>3, <1>4, <1>5
  <1> QED BY <1>0, <1>6, InformedStay, PaidStays DEF MoneyInv

(* The gateway's own steps.                                                *)
LEMMA GatewayKeepsMoney ==
    ASSUME MoneyInv, TypeInv', GatewayStep
    PROVE  MoneyInv'
  <1>0. GatewayOK
    BY TypeInvParts DEF MoneyInv
  <1>1. GatewayGrows
    BY <1>0 DEF GatewayStep, AttemptFails, Authorize, Capture, GatewayGrows, GatewayOK,
                GatewayRecords
  <1>2. UNCHANGED <<storeVars, req>>
    BY DEF GatewayStep, AttemptFails, Authorize, Capture
  <1>3. NothingLearnt /\ UNCHANGED <<rzpOrder, paymentStatus>>
    BY <1>2 DEF NothingLearnt, storeVars, rows
  <1> QED BY <1>1, <1>3, InformedStay, PaidStays DEF MoneyInv

(* Payment steps after which no worker knows more than before.             *)
LEMMA PlainPaymentKeepsMoney ==
    ASSUME MoneyInv, TypeInv', NEW w \in Workers,
           \/ \E o \in Orders : InitiateRead(w, o) \/ FailedRead(w, o) \/ RefundRead(w, o)
           \/ VerifyBadSignature(w) \/ FailedWrite(w) \/ RefundSave(w)
           \/ RefundAtGateway(w)
    PROVE  MoneyInv'
  <1> DEFINE NoneMarkedPaid ==
                 \A o \in Orders \ CodOrders :
                     paymentStatus'[o] = "PAID" => paymentStatus[o] = "PAID"
             Quiet == /\ GatewayGrows /\ NothingLearnt /\ UNCHANGED rzpOrder
                      /\ NoneMarkedPaid
  <1>0. RowsOK /\ ReqOK /\ GatewayOK
    BY TypeInvParts DEF MoneyInv
  <1>1. ASSUME NEW o \in Orders, InitiateRead(w, o) \/ FailedRead(w, o) \/ RefundRead(w, o)
        PROVE  Quiet
    <2>1. PICK kind, g, amount :
              /\ kind \in {"initiate", "failed", "refund"}
              /\ ReadPayment(w, kind, o, g, amount)
      BY <1>1 DEF InitiateRead, FailedRead, RefundRead
    <2>2. NothingLearnt
      BY <1>0, <2>1, BeginLearnsNothing DEF ReadPayment
    <2> QED BY <1>1, <2>2, SameGateway DEF InitiateRead, FailedRead, RefundRead, storeVars, rows
  <1>2. ASSUME VerifyBadSignature(w) \/ FailedWrite(w) \/ RefundSave(w) PROVE Quiet
    <2>1. NothingLearnt
      BY <1>0, <1>2, DoneLearnsNothing DEF VerifyBadSignature, FailedWrite, RefundSave
    <2>2. NoneMarkedPaid
      BY <1>0, <1>2 DEF VerifyBadSignature, FailedWrite, RefundSave, SetPaid, RowsOK
    <2> QED BY <1>2, <2>1, <2>2, SameGateway DEF VerifyBadSignature, FailedWrite, RefundSave
  <1>3. ASSUME RefundAtGateway(w) PROVE Quiet
    <2>1. req[w] \in Requests
      BY <1>0, <1>3, ServingFact DEF RefundAtGateway, Serving, Kinds
    <2>2. NothingLearnt
      BY <1>0, <1>3, <2>1 DEF RefundAtGateway, Serving, Requests, NothingLearnt, ReqOK
    <2>3. GatewayGrows
      BY <1>0, <1>3 DEF RefundAtGateway, GatewayGrows, GatewayOK, GatewayRecords
    <2> QED BY <1>3, <2>2, <2>3 DEF RefundAtGateway, storeVars, rows
  <1>4. Quiet
    BY <1>1, <1>2, <1>3
  <1> QED BY <1>4, InformedStay, PaidStays DEF MoneyInv

(* The two transactions that mark an order PAID: the request still names   *)
(* captured money of that order.                                           *)
LEMMA ConfirmKeepsMoney ==
    ASSUME MoneyInv, TypeInv', NEW w \in Workers, VerifyConfirm(w) \/ CapturedConfirm(w)
    PROVE  MoneyInv'
  <1> DEFINE o == req[w].order
  <1>0. RowsOK /\ ReqOK /\ GatewayOK
    BY TypeInvParts DEF MoneyInv
  <1>1. GatewayGrows /\ NothingLearnt /\ UNCHANGED <<rzpOrder, gateway>>
    BY <1>0, SameGateway, DoneLearnsNothing DEF VerifyConfirm, CapturedConfirm
  <1>2. /\ req[w].g \in GatewayOrders
        /\ gateway[req[w].g].order = o /\ gateway[req[w].g].state = "captured"
    BY DEF MoneyInv, HandlersAreInformed, VerifyConfirm, CapturedConfirm, Serving
  <1>3. \A p \in Orders : paymentStatus'[p] = "PAID" => paymentStatus[p] = "PAID" \/ p = o
    BY <1>0 DEF VerifyConfirm, CapturedConfirm, ConfirmOrder, SetPaid, RowsOK
  <1>4. PaidIsCollected'
    BY <1>1, <1>2, <1>3 DEF MoneyInv, PaidIsCollected, CapturedFor
  <1> QED BY <1>1, <1>4, InformedStay DEF MoneyInv

(* A request that names the gateway order on record.                       *)
LEMMA NamedReadKeepsMoney ==
    ASSUME MoneyInv, TypeInv', NEW w \in Workers, NEW o \in Orders,
           VerifyRead(w, o) \/ CapturedRead(w, o)
    PROVE  MoneyInv'
  <1>0. RowsOK /\ ReqOK /\ GatewayOK
    BY TypeInvParts DEF MoneyInv
  <1>1. PICK g \in GatewayOrders :
            /\ rzpOrder[o] = g
            /\ \/ ReadPayment(w, "verify", o, g, 0)
               \/ ReadPayment(w, "captured", o, g, 0) /\ gateway[g].state = "captured"
    BY DEF VerifyRead, CapturedRead
  <1>2. gateway[g].order = o
    BY <1>1, StoreAssumption DEF MoneyInv, HandlersAreInformed
  <1>3. UNCHANGED <<gateway, rzpOrder, paymentStatus>>
    BY DEF VerifyRead, CapturedRead, storeVars, rows
  <1>4. /\ req'[w].g = g /\ req'[w].order = o /\ req'[w].step = "read"
        /\ \/ req'[w].kind = "verify"
           \/ req'[w].kind = "captured" /\ gateway[g].state = "captured"
        /\ \A v \in Workers \ {w} : req'[v] = req[v]
    <2>1. DOMAIN req = Workers
      BY <1>0 DEF ReqOK
    <2>2. CASE ReadPayment(w, "verify", o, g, 0)
      <3> DEFINE r == [kind |-> "verify", order |-> o, step |-> "read", to |-> "NONE",
                       g |-> g, amount |-> 0, seen |-> Seen(o), logged |-> FALSE]
      <3>1. req' = [req EXCEPT ![w] = r]
        BY <2>2 DEF ReadPayment, Begin
      <3>2. r.kind = "verify" /\ r.g = g /\ r.order = o /\ r.step = "read"
        OBVIOUS
      <3> HIDE DEF r
      <3>3. req'[w] = r /\ \A v \in Workers \ {w} : req'[v] = req[v]
        BY <2>1, <3>1
      <3> QED BY <3>2, <3>3
    <2>3. CASE ReadPayment(w, "captured", o, g, 0) /\ gateway[g].state = "captured"
      <3> DEFINE r == [kind |-> "captured", order |-> o, step |-> "read", to |-> "NONE",
                       g |-> g, amount |-> 0, seen |-> Seen(o), logged |-> FALSE]
      <3>1. req' = [req EXCEPT ![w] = r]
        BY <2>3 DEF ReadPayment, Begin
      <3>2. r.kind = "captured" /\ r.g = g /\ r.order = o /\ r.step = "read"
        OBVIOUS
      <3> HIDE DEF r
      <3>3. req'[w] = r /\ \A v \in Workers \ {w} : req'[v] = req[v]
        BY <2>1, <3>1
      <3> QED BY <2>3, <3>2, <3>3
    <2> QED BY <1>1, <2>2, <2>3
  <1>5. HandlersAreInformed'
    <2>1. ASSUME NEW v \in Workers, v # w
          PROVE  (Saving(v)' <=> Saving(v)) /\ req'[v] = req[v]
                 /\ (Serving(v, "verify", "gateway")' <=> Serving(v, "verify", "gateway"))
      BY <1>4, <2>1 DEF Saving, Serving
    <2>2. ~Saving(w)' /\ ~Serving(w, "verify", "gateway")'
      BY <1>4 DEF Saving, Serving
    <2>3. HandlersAreInformed
      BY DEF MoneyInv
    <2>4. \A h \in GatewayOrders : Open(h)' \/ gateway'[h].state = "created"
      BY <1>3, <2>3 DEF HandlersAreInformed, Open
    <2>5. \A p \in Orders : rzpOrder'[p] # NoGatewayOrder => gateway'[rzpOrder'[p]].order = p
      BY <1>3, <2>3 DEF HandlersAreInformed
    <2>6. \A v \in Workers :
            Saving(v)' => /\ req'[v].g \in GatewayOrders
                          /\ gateway'[req'[v].g].order = req'[v].order
                          /\ gateway'[req'[v].g].state = "created"
                          /\ \A u \in Workers \ {v} : Saving(u)' => req'[u].g # req'[v].g
      BY <1>3, <2>1, <2>2, <2>3 DEF HandlersAreInformed
    <2>7. ASSUME NEW v \in Workers
          PROVE  /\ req'[v].kind \in {"verify", "captured"} =>
                       /\ req'[v].g \in GatewayOrders
                       /\ gateway'[req'[v].g].order = req'[v].order
                 /\ req'[v].kind = "captured" \/ Serving(v, "verify", "gateway")' =>
                       gateway'[req'[v].g].state = "captured"
      <3>1. CASE v = w
        BY <1>2, <1>3, <1>4, <2>2, <3>1
      <3>2. CASE v # w
        BY <1>3, <2>1, <2>3, <3>2 DEF HandlersAreInformed
      <3> QED BY <3>1, <3>2
    <2> QED BY <2>4, <2>5, <2>6, <2>7 DEF HandlersAreInformed
  <1>6. PaidIsCollected'
    BY <1>3 DEF MoneyInv, PaidIsCollected, CapturedFor
  <1> QED BY <1>5, <1>6 DEF MoneyInv

(* The gateway reports the capture to verifyAndConfirmPayment.             *)
LEMMA VerifyAtGatewayKeepsMoney ==
    ASSUME MoneyInv, TypeInv', NEW w \in Workers, VerifyAtGateway(w)
    PROVE  MoneyInv'
  <1>0. RowsOK /\ ReqOK /\ GatewayOK
    BY TypeInvParts DEF MoneyInv
  <1>1. req[w] \in Requests /\ req[w].kind = "verify"
    BY <1>0, ServingFact DEF VerifyAtGateway, Serving, Kinds
  <1>2. /\ req'[w].kind = "verify" /\ req'[w].g = req[w].g /\ req'[w].order = req[w].order
        /\ gateway[req[w].g].state = "captured"
        /\ \A v \in Workers \ {w} : req'[v] = req[v]
    BY <1>0, <1>1 DEF VerifyAtGateway, GatewayConfirms, Requests, ReqOK
  <1>3. UNCHANGED <<gateway, rzpOrder, paymentStatus>>
    BY DEF VerifyAtGateway, storeVars, rows
  <1>4. HandlersAreInformed'
    <2>1. ASSUME NEW v \in Workers, v # w
          PROVE  (Saving(v)' <=> Saving(v)) /\ req'[v] = req[v]
                 /\ (Serving(v, "verify", "gateway")' <=> Serving(v, "verify", "gateway"))
      BY <1>2, <2>1 DEF Saving, Serving
    <2>2. ~Saving(w)'
      BY <1>2 DEF Saving, Serving
    <2>3. HandlersAreInformed
      BY DEF MoneyInv
    <2>4. \A h \in GatewayOrders : Open(h)' \/ gateway'[h].state = "created"
      BY <1>3, <2>3 DEF HandlersAreInformed, Open
    <2>5. \A p \in Orders : rzpOrder'[p] # NoGatewayOrder => gateway'[rzpOrder'[p]].order = p
      BY <1>3, <2>3 DEF HandlersAreInformed
    <2>6. \A v \in Workers :
            Saving(v)' => /\ req'[v].g \in GatewayOrders
                          /\ gateway'[req'[v].g].order = req'[v].order
                          /\ gateway'[req'[v].g].state = "created"
                          /\ \A u \in Workers \ {v} : Saving(u)' => req'[u].g # req'[v].g
      BY <1>3, <2>1, <2>2, <2>3 DEF HandlersAreInformed
    <2>7. ASSUME NEW v \in Workers
          PROVE  /\ req'[v].kind \in {"verify", "captured"} =>
                       /\ req'[v].g \in GatewayOrders
                       /\ gateway'[req'[v].g].order = req'[v].order
                 /\ req'[v].kind = "captured" \/ Serving(v, "verify", "gateway")' =>
                       gateway'[req'[v].g].state = "captured"
      <3>1. CASE v = w
        BY <1>1, <1>2, <1>3, <2>3, <3>1 DEF HandlersAreInformed
      <3>2. CASE v # w
        BY <1>3, <2>1, <2>3, <3>2 DEF HandlersAreInformed
      <3> QED BY <3>1, <3>2
    <2> QED BY <2>4, <2>5, <2>6, <2>7 DEF HandlersAreInformed
  <1>5. PaidIsCollected'
    BY <1>3 DEF MoneyInv, PaidIsCollected, CapturedFor
  <1> QED BY <1>4, <1>5 DEF MoneyInv

(* initiatePayment gets a gateway order nobody has heard of.               *)
LEMMA InitiateAtGatewayKeepsMoney ==
    ASSUME MoneyInv, TypeInv', NEW w \in Workers, InitiateAtGateway(w)
    PROVE  MoneyInv'
  <1>0. RowsOK /\ ReqOK /\ GatewayOK /\ HandlersAreInformed
    BY TypeInvParts DEF MoneyInv
  <1>1. req[w] \in Requests /\ req[w].kind = "initiate"
    BY <1>0, ServingFact DEF InitiateAtGateway, Serving, Kinds
  <1>2. req[w].order \in Orders
    BY <1>1, RequestRanges
  <1>3. PICK g \in GatewayOrders :
            /\ gateway[g].order = NoOrder
            /\ gateway' = [gateway EXCEPT ![g].order = req[w].order]
            /\ req' = [req EXCEPT ![w].step = "gateway", ![w].g = g]
    BY DEF InitiateAtGateway, Open
  <1>4. /\ gateway'[g].order = req[w].order /\ gateway'[g].state = gateway[g].state
        /\ \A h \in GatewayOrders \ {g} : gateway'[h] = gateway[h]
    BY <1>0, <1>3 DEF GatewayOK, GatewayRecords
  <1>5. /\ req'[w].kind = "initiate" /\ req'[w].g = g /\ req'[w].order = req[w].order
        /\ \A v \in Workers \ {w} : req'[v] = req[v]
    BY <1>0, <1>1, <1>3 DEF Requests, ReqOK
  <1>6. UNCHANGED <<rzpOrder, paymentStatus>>
    BY DEF InitiateAtGateway, storeVars, rows
  <1>7. GatewayGrows
    BY <1>3, <1>4 DEF GatewayGrows, Open
  <1>8. \A v \in Workers : req[v].kind \in Kinds => req[v].order # NoOrder
    BY <1>0, ServingFact, RequestRanges, PaymentAssumption
  <1>9. gateway[g].state = "created"
    BY <1>0, <1>3 DEF HandlersAreInformed, Open
  <1>10. HandlersAreInformed'
    <2>1. \A o \in Orders : rzpOrder'[o] # NoGatewayOrder => gateway'[rzpOrder'[o]].order = o
      BY <1>0, <1>6, <1>7, PaymentAssumption DEF HandlersAreInformed, RowsOK, GatewayGrows
    <2>2. \A h \in GatewayOrders : Open(h)' \/ gateway'[h].state = "created"
      BY <1>0, <1>4, <1>9 DEF HandlersAreInformed, Open
    <2>3. ASSUME NEW v \in Workers, v # w
          PROVE  /\ req'[v] = req[v] /\ (Saving(v)' <=> Saving(v))
                 /\ (Serving(v, "verify", "gateway")' <=> Serving(v, "verify", "gateway"))
      BY <1>5, <2>3 DEF Saving, Serving
    <2>4. \A v \in Workers : Saving(v) => req[v].kind \in Kinds /\ req[v].kind = "initiate"
      BY DEF Saving, Serving, Kinds
    <2>5. \A v \in Workers : Saving(v) => req[v].g # g
      BY <1>0, <1>3, <1>8, <2>4 DEF HandlersAreInformed
    <2>6. ASSUME NEW v \in Workers, v # w, Saving(v)'
          PROVE  /\ req'[v].g \in GatewayOrders
                 /\ gateway'[req'[v].g].order = req'[v].order
                 /\ gateway'[req'[v].g].state = "created"
                 /\ \A u \in Workers \ {v} : Saving(u)' => req'[u].g # req'[v].g
      BY <1>0, <1>4, <1>5, <2>3, <2>5, <2>6 DEF HandlersAreInformed
    <2>7. /\ req'[w].g \in GatewayOrders
          /\ gateway'[req'[w].g].order = req'[w].order
          /\ gateway'[req'[w].g].state = "created"
          /\ \A u \in Workers \ {w} : Saving(u)' => req'[u].g # req'[w].g
      BY <1>4, <1>5, <1>9, <2>3, <2>5
    <2>8. ASSUME NEW v \in Workers, req'[v].kind \in {"verify", "captured"}
          PROVE  /\ req'[v].g \in GatewayOrders
                 /\ gateway'[req'[v].g].order = req'[v].order
                 /\ req'[v].kind = "captured" \/ Serving(v, "verify", "gateway")' =>
                       gateway'[req'[v].g].state = "captured"
      <3>1. v # w /\ req[v].kind \in Kinds
        BY <1>5, <2>3, <2>8 DEF Kinds
      <3>2. req'[v] = req[v] /\ (Serving(v, "verify", "gateway")' => Serving(v, "verify", "gateway"))
        BY <1>5, <2>3, <3>1 DEF Serving
      <3>3. /\ req[v].g \in GatewayOrders
            /\ gateway[req[v].g].order = req[v].order
            /\ req[v].kind = "captured" \/ Serving(v, "verify", "gateway") =>
                  gateway[req[v].g].state = "captured"
        BY <1>0, <2>8, <3>2 DEF HandlersAreInformed
      <3>4. req[v].g # g
        BY <1>3, <1>8, <3>1, <3>3
      <3> QED BY <1>4, <3>2, <3>3, <3>4
    <2>9. \A v \in Workers : Serving(v, "verify", "gateway")' => req'[v].kind = "verify"
      BY DEF Serving
    <2> QED BY <2>1, <2>2, <2>6, <2>7, <2>8, <2>9 DEF HandlersAreInformed
  <1>11. PaidIsCollected'
    BY <1>6, <1>7, PaidStays DEF MoneyInv
  <1> QED BY <1>10, <1>11 DEF MoneyInv

(* initiatePayment saves the id, which the customer then can pay.          *)
LEMMA InitiateSaveKeepsMoney ==
    ASSUME MoneyInv, TypeInv', NEW w \in Workers, InitiateSave(w)
    PROVE  MoneyInv'
  <1> DEFINE g == req[w].g
             o == req[w].order
  <1>0. RowsOK /\ ReqOK /\ GatewayOK /\ HandlersAreInformed
    BY TypeInvParts DEF MoneyInv
  <1>1. Saving(w)
    BY DEF InitiateSave, Saving
  <1>2. o \in Orders
    BY <1>0, <1>1, ServingFact, RequestRanges DEF Saving, Serving, Kinds
  <1>3. /\ g \in GatewayOrders /\ gateway[g].order = o /\ gateway[g].state = "created"
        /\ \A v \in Workers \ {w} : Saving(v) => req[v].g # g
    BY <1>0, <1>1 DEF HandlersAreInformed
  <1>4. /\ gateway' = [gateway EXCEPT ![g].state = "offered"]
        /\ rzpOrder' = [rzpOrder EXCEPT ![o] = g]
        /\ req' = [req EXCEPT ![w] = Idle]
        /\ UNCHANGED paymentStatus
    BY DEF InitiateSave, Done
  <1>5. /\ gateway'[g].order = o /\ gateway'[g].state = "offered"
        /\ \A h \in GatewayOrders \ {g} : gateway'[h] = gateway[h]
    BY <1>0, <1>3, <1>4 DEF GatewayOK, GatewayRecords
  <1>6. /\ req'[w] = Idle
        /\ \A v \in Workers \ {w} : req'[v] = req[v]
    BY <1>0, <1>4 DEF ReqOK
  <1>7. HandlersAreInformed'
    <2>1. ASSUME NEW p \in Orders, rzpOrder'[p] # NoGatewayOrder
          PROVE  gateway'[rzpOrder'[p]].order = p
      <3>1. CASE p = o
        BY <1>0, <1>2, <1>4, <1>5, <3>1 DEF RowsOK
      <3>2. CASE p # o
        BY <1>0, <1>2, <1>3, <1>4, <1>5, <2>1, <3>2 DEF RowsOK, HandlersAreInformed
      <3> QED BY <3>1, <3>2
    <2>2. \A h \in GatewayOrders : Open(h)' \/ gateway'[h].state = "created"
      BY <1>0, <1>2, <1>5, PaymentAssumption DEF HandlersAreInformed, Open
    <2>3. ASSUME NEW v \in Workers, v # w
          PROVE  /\ req'[v] = req[v] /\ (Saving(v)' <=> Saving(v))
                 /\ (Serving(v, "verify", "gateway")' <=> Serving(v, "verify", "gateway"))
      BY <1>6, <2>3 DEF Saving, Serving
    <2>4. ~Saving(w)' /\ ~Serving(w, "verify", "gateway")' /\ req'[w].kind = "idle"
      BY <1>6 DEF Saving, Serving, Idle
    <2>5. ASSUME NEW v \in Workers, v # w, Saving(v)'
          PROVE  /\ req'[v].g \in GatewayOrders
                 /\ gateway'[req'[v].g].order = req'[v].order
                 /\ gateway'[req'[v].g].state = "created"
                 /\ \A u \in Workers \ {v} : Saving(u)' => req'[u].g # req'[v].g
      BY <1>0, <1>3, <1>5, <2>3, <2>4, <2>5 DEF HandlersAreInformed
    <2>6. ASSUME NEW v \in Workers, v # w, req'[v].kind \in {"verify", "captured"}
          PROVE  /\ req'[v].g \in GatewayOrders
                 /\ gateway'[req'[v].g].order = req'[v].order
                 /\ req'[v].kind = "captured" \/ Serving(v, "verify", "gateway")' =>
                       gateway'[req'[v].g].state = "captured"
      BY <1>0, <1>3, <1>5, <2>3, <2>6 DEF HandlersAreInformed
    <2>7. \A v \in Workers : Serving(v, "verify", "gateway")' => req'[v].kind = "verify"
      BY DEF Serving
    <2> QED BY <2>1, <2>2, <2>4, <2>5, <2>6, <2>7 DEF HandlersAreInformed
  <1>8. PaidIsCollected'
    BY <1>3, <1>4, <1>5 DEF MoneyInv, PaidIsCollected, CapturedFor
  <1> QED BY <1>7, <1>8 DEF MoneyInv

LEMMA NextMoneyInv == MoneyInv /\ [Next]_vars => MoneyInv'
  <1> SUFFICES ASSUME MoneyInv, [Next]_vars PROVE MoneyInv'
    OBVIOUS
  <1>0. TypeInv'
    BY NextTypeInv DEF MoneyInv
  <1>1. CASE UNCHANGED vars
    <2>1. UNCHANGED <<gateway, req, rzpOrder, paymentStatus>>
      BY <1>1 DEF vars, rows
    <2>2. GatewayGrows /\ NothingLearnt
      BY <2>1, SameGateway DEF NothingLearnt
    <2> QED BY <1>0, <2>1, <2>2, InformedStay, PaidStays DEF MoneyInv
  <1>2. CASE GatewayStep
    BY <1>0, <1>2, GatewayKeepsMoney
  <1>3. ASSUME NEW w \in Workers, PaymentStep(w) PROVE MoneyInv'
    BY <1>0, <1>3, PlainPaymentKeepsMoney, ConfirmKeepsMoney, NamedReadKeepsMoney,
       VerifyAtGatewayKeepsMoney, InitiateAtGatewayKeepsMoney, InitiateSaveKeepsMoney
    DEF PaymentStep
  <1>4. CASE /\ \/ \E w \in Workers : \/ DeskStep(w) \/ FulfilmentStep(w) \/ Drop(w)
                                      \/ \E o \in Orders : Checkout(w, o)
                \/ \E o \in Orders : Sweep(o)
             /\ UNCHANGED gateway
    BY <1>0, <1>4, RowStepsKeepMoney
  <1> QED BY <1>1, <1>2, <1>3, <1>4 DEF Next, Step

(* An online order is marked PAID only when the gateway captured money for *)
(* it, whatever the browser, the webhooks and the desk do meanwhile.       *)
THEOREM PaidOrdersAreCollected == Spec => []PaidIsCollected
  <1>1. MoneyInv => PaidIsCollected
    BY DEF MoneyInv
  <1> QED BY InitMoneyInv, NextMoneyInv, <1>1, PTL DEF Spec

(* What a waiting handler knows of the gateway stays true until it acts.   *)
THEOREM WaitingHandlersAreInformed == Spec => []HandlersAreInformed
  <1>1. MoneyInv => HandlersAreInformed
    BY DEF MoneyInv
  <1> QED BY InitMoneyInv, NextMoneyInv, <1>1, PTL DEF Spec

----------------------------------------------------------------------------
(* Refunds.                                                                *)

(* The payment on record was made for the order it is recorded with; a     *)
(* refund that is under way names such a payment, and one that has been at *)
(* the gateway has returned its amount.                                    *)
RefundInv ==
    /\ \A o \in Orders : rzpPayment[o] # NoGatewayOrder => gateway[rzpPayment[o]].order = o
    /\ \A w \in Workers : req[w].kind = "refund" =>
        /\ req[w].seen.payId \in GatewayOrders
        /\ gateway[req[w].seen.payId].order = req[w].order
        /\ req[w].amount \in 1 .. Amount
        /\ req[w].step = "gateway" => gateway[req[w].seen.payId].refunded >= req[w].amount
    /\ RefundIsReal

(* A gateway order keeps its order, and money that went back is back.      *)
RefundsGrow ==
    \A g \in GatewayOrders :
        /\ gateway[g].order # NoOrder => gateway'[g].order = gateway[g].order
        /\ gateway'[g].refunded >= gateway[g].refunded

NoRefundMoves == \A w \in Workers : req'[w] = req[w] \/ req'[w].kind # "refund"

(* No row is marked refunded.                                              *)
NoneMarkedRefunded ==
    \A o \in Orders \ CodOrders :
        /\ payment'[o] = "REFUNDED" => payment[o] = "REFUNDED"
        /\ paymentStatus'[o] = "PARTIALLY_REFUNDED" => paymentStatus[o] = "PARTIALLY_REFUNDED"

LEMMA RefundRanges ==
    ASSUME GatewayOK, NEW g \in GatewayOrders
    PROVE  gateway[g].refunded \in 0 .. Amount /\ gateway[g].order \in Orders \cup {NoOrder}
  BY DEF GatewayOK, GatewayRecords

LEMMA SameGatewaySameRefunds == GatewayOK /\ UNCHANGED gateway => RefundsGrow
  <1> SUFFICES ASSUME GatewayOK, UNCHANGED gateway PROVE RefundsGrow
    OBVIOUS
  <1>1. \A g \in GatewayOrders : gateway[g].refunded \in Int
    BY RefundRanges, PaymentAssumption
  <1> QED BY <1>1 DEF RefundsGrow

(* The refunds known and under way stay what they are.                     *)
LEMMA KnownRefundsStay ==
    ASSUME TypeInv, TypeInv', RefundInv, RefundsGrow, NoRefundMoves
    PROVE  \A w \in Workers : req'[w].kind = "refund" =>
              /\ req'[w].seen.payId \in GatewayOrders
              /\ gateway'[req'[w].seen.payId].order = req'[w].order
              /\ req'[w].amount \in 1 .. Amount
              /\ req'[w].step = "gateway" => gateway'[req'[w].seen.payId].refunded >= req'[w].amount
  <1> SUFFICES ASSUME NEW w \in Workers, req'[w].kind = "refund"
               PROVE  /\ req'[w].seen.payId \in GatewayOrders
                      /\ gateway'[req'[w].seen.payId].order = req'[w].order
                      /\ req'[w].amount \in 1 .. Amount
                      /\ req'[w].step = "gateway" =>
                            gateway'[req'[w].seen.payId].refunded >= req'[w].amount
    OBVIOUS
  <1>0. ReqOK /\ GatewayOK /\ GatewayOK'
    BY TypeInvParts, TypeInvPartsPrime
  <1> DEFINE g == req[w].seen.payId
  <1>1. req'[w] = req[w] /\ req[w].kind = "refund"
    BY DEF NoRefundMoves
  <1>2. req[w].order \in Orders /\ g \in GatewayOrders /\ gateway[g].order = req[w].order
        /\ req[w].amount \in 1 .. Amount
        /\ (req[w].step = "gateway" => gateway[g].refunded >= req[w].amount)
    BY <1>0, <1>1, ServingFact, RequestRanges DEF RefundInv, Kinds
  <1>3. gateway'[g].order = req[w].order /\ gateway'[g].refunded >= gateway[g].refunded
    BY <1>2, PaymentAssumption DEF RefundsGrow
  <1>4. gateway[g].refunded \in Int /\ gateway'[g].refunded \in Int /\ req[w].amount \in Int
    BY <1>0, <1>2, PaymentAssumption DEF GatewayOK, GatewayRecords
  <1> HIDE DEF g
  <1>5. req[w].step = "gateway" => gateway'[g].refunded >= req[w].amount
    BY <1>2, <1>3, <1>4
  <1> QED BY <1>1, <1>2, <1>3, <1>5 DEF g

(* Money that came back for an order does not go away.                     *)
LEMMA ReturnedStays ==
    ASSUME TypeInv, TypeInv', RefundsGrow, NEW o \in Orders, NEW amount \in Nat,
           \E g \in GatewayOrders : gateway[g].order = o /\ gateway[g].refunded >= amount
    PROVE  \E g \in GatewayOrders : gateway'[g].order = o /\ gateway'[g].refunded >= amount
  <1>0. GatewayOK /\ GatewayOK'
    BY TypeInvParts, TypeInvPartsPrime
  <1>1. PICK g \in GatewayOrders : gateway[g].order = o /\ gateway[g].refunded >= amount
    OBVIOUS
  <1>2. gateway[g].refunded \in Int /\ gateway'[g].refunded \in Int
    BY <1>0, PaymentAssumption DEF GatewayOK, GatewayRecords
  <1>3. gateway'[g].order = o /\ gateway'[g].refunded >= gateway[g].refunded
    BY <1>1, PaymentAssumption DEF RefundsGrow
  <1>4. gateway'[g].refunded >= amount
    BY <1>1, <1>2, <1>3
  <1> QED BY <1>3, <1>4

LEMMA RealStays ==
    ASSUME TypeInv, TypeInv', RefundInv, RefundsGrow, NoneMarkedRefunded
    PROVE  RefundIsReal'
  <1>1. Amount \in Nat /\ 1 \in Nat
    BY PaymentAssumption
  <1> QED BY <1>1, ReturnedStays DEF RefundInv, RefundIsReal, NoneMarkedRefunded

LEMMA RecordedStay ==
    ASSUME TypeInv, RefundInv, RefundsGrow, UNCHANGED rzpPayment
    PROVE  \A o \in Orders : rzpPayment'[o] # NoGatewayOrder => gateway'[rzpPayment'[o]].order = o
  <1> SUFFICES ASSUME NEW o \in Orders, rzpPayment[o] # NoGatewayOrder
               PROVE  gateway'[rzpPayment[o]].order = o
    OBVIOUS
  <1>1. rzpPayment[o] \in GatewayOrders
    BY TypeInvParts DEF RowsOK
  <1> QED BY <1>1, PaymentAssumption DEF RefundInv, RefundsGrow

LEMMA QuietRefunds ==
    ASSUME TypeInv, TypeInv', RefundInv, RefundsGrow, NoRefundMoves, NoneMarkedRefunded, UNCHANGED rzpPayment
    PROVE  RefundInv'
  BY KnownRefundsStay, RealStays, RecordedStay DEF RefundInv

LEMMA BeginMovesNoRefund ==
    ASSUME ReqOK, NEW w \in Workers, NEW kind, NEW o, NEW to, NEW g, NEW amount,
           kind # "refund", Begin(w, kind, o, to, g, amount)
    PROVE  NoRefundMoves
  BY DEF Begin, NoRefundMoves, ReqOK

LEMMA DoneMovesNoRefund ==
    ASSUME ReqOK, NEW w \in Workers, Done(w)
    PROVE  NoRefundMoves
  BY DEF Done, Idle, NoRefundMoves, ReqOK

(* The steps that only touch the rows mark no payment refunded.            *)
LEMMA RowStepsKeepRefunds ==
    ASSUME TypeInv, TypeInv', RefundInv, UNCHANGED gateway,
           \/ \E w \in Workers : \/ DeskStep(w) \/ FulfilmentStep(w) \/ Drop(w)
                                \/ \E o \in Orders : Checkout(w, o)
           \/ \E o \in Orders : Sweep(o)
    PROVE  RefundInv'
  <1> DEFINE Quiet == NoRefundMoves /\ UNCHANGED rzpPayment /\ NoneMarkedRefunded
  <1>0. RowsOK /\ ReqOK /\ RefundsGrow
    BY TypeInvParts, SameGatewaySameRefunds
  <1>1. ASSUME NEW w \in Workers, DeskStep(w) PROVE Quiet
    <2>1. ASSUME NEW o \in Orders,
                 CancelRead(w, o) \/ FailPaymentRead(w, o) \/ AdminStatusRead(w, o)
                     \/ TransitionRead(w, o)
          PROVE  Quiet
      <3>1. PICK kind, to : kind # "refund" /\ Read(w, kind, o, to)
        BY <2>1 DEF CancelRead, FailPaymentRead, AdminStatusRead, TransitionRead
      <3>2. NoRefundMoves
        BY <1>0, <3>1, BeginMovesNoRefund DEF Read
      <3> QED BY <2>1, <3>2
              DEF CancelRead, FailPaymentRead, AdminStatusRead, TransitionRead, rows, NoneMarkedRefunded
    <2>2. CASE CancelWrite(w) \/ FailPaymentWrite(w) \/ AdminStatusWrite(w) \/ TransitionWrite(w)
      <3>1. NoRefundMoves
        BY <1>0, <2>2, DoneMovesNoRefund
        DEF CancelWrite, FailPaymentWrite, AdminStatusWrite, TransitionWrite
      <3>2. NoneMarkedRefunded
        BY <1>0, <2>2 DEF CancelWrite, FailPaymentWrite, AdminStatusWrite, TransitionWrite,
                          SetPaid, SetPayment, RowsOK, NoneMarkedRefunded
      <3> QED BY <2>2, <3>1, <3>2
              DEF CancelWrite, FailPaymentWrite, AdminStatusWrite, TransitionWrite
    <2>3. CASE TransitionCheck(w)
      <3>1. req[w] \in Requests
        BY <1>0, <2>3, ServingFact DEF TransitionCheck, Serving, Kinds
      <3>2. NoRefundMoves
        BY <1>0, <2>3, <3>1 DEF TransitionCheck, Serving, Requests, NoRefundMoves, ReqOK
      <3> QED BY <2>3, <3>2 DEF TransitionCheck, rows, NoneMarkedRefunded
    <2> QED BY <1>1, <2>1, <2>2, <2>3 DEF DeskStep
  <1>2. ASSUME NEW w \in Workers, FulfilmentStep(w) PROVE Quiet
    <2>1. ASSUME NEW o \in Orders, AssignRead(w, o) \/ DeliverRead(w, o) PROVE Quiet
      <3>1. PICK kind, to : kind # "refund" /\ Read(w, kind, o, to)
        BY <2>1 DEF AssignRead, DeliverRead
      <3>2. NoRefundMoves
        BY <1>0, <3>1, BeginMovesNoRefund DEF Read
      <3> QED BY <2>1, <3>2 DEF AssignRead, DeliverRead, rows, NoneMarkedRefunded
    <2>2. CASE AssignWrite(w) \/ DeliverWrite(w)
      <3>1. NoRefundMoves
        BY <1>0, <2>2, DoneMovesNoRefund DEF AssignWrite, DeliverWrite
      <3>2. NoneMarkedRefunded
        BY <1>0, <2>2 DEF AssignWrite, DeliverWrite, SetPaid, SetPayment, RowsOK, NoneMarkedRefunded
      <3> QED BY <2>2, <3>1, <3>2 DEF AssignWrite, DeliverWrite
    <2>3. CASE ReturnCheck(w)
      <3>1. req[w] \in Requests
        BY <1>0, <2>3, ServingFact DEF ReturnCheck, Serving, Kinds
      <3>2. NoRefundMoves
        BY <1>0, <2>3, <3>1 DEF ReturnCheck, Serving, Requests, NoRefundMoves, ReqOK
      <3> QED BY <2>3, <3>2 DEF ReturnCheck, rows, NoneMarkedRefunded
    <2> QED BY <1>2, <2>1, <2>2, <2>3 DEF FulfilmentStep
  <1>3. ASSUME NEW w \in Workers, Drop(w) PROVE Quiet
    BY <1>0, <1>3, DoneMovesNoRefund DEF Drop, rows, NoneMarkedRefunded
  <1>4. ASSUME NEW w \in Workers, NEW o \in Orders, Checkout(w, o) PROVE Quiet
    BY <1>4 DEF Checkout, NoRefundMoves, NoneMarkedRefunded
  <1>5. ASSUME NEW o \in Orders, Sweep(o) PROVE Quiet
    BY <1>5 DEF Sweep, NoRefundMoves, NoneMarkedRefunded
  <1>6. Quiet
    BY <1>1, <1>2, <1>3, <1>4, <1>5
  <1> QED BY <1>0, <1>6, QuietRefunds

(* The gateway's own steps return no money and take none back.             *)
LEMMA GatewayKeepsRefunds ==
    ASSUME TypeInv, TypeInv', RefundInv, GatewayStep
    PROVE  RefundInv'
  <1>0. GatewayOK /\ \A g \in GatewayOrders : gateway[g].refunded \in Int
    BY TypeInvParts, RefundRanges, PaymentAssumption
  <1>1. RefundsGrow
    BY <1>0 DEF GatewayStep, AttemptFails, Authorize, Capture, RefundsGrow, GatewayOK, GatewayRecords
  <1>2. UNCHANGED <<storeVars, req>>
    BY DEF GatewayStep, AttemptFails, Authorize, Capture
  <1>3. NoRefundMoves /\ NoneMarkedRefunded /\ UNCHANGED rzpPayment
    BY <1>2 DEF NoRefundMoves, NoneMarkedRefunded, storeVars, rows
  <1> QED BY <1>1, <1>3, QuietRefunds

(* Payment steps that are not about a refund and record no payment.        *)
LEMMA PlainPaymentKeepsRefunds ==
    ASSUME TypeInv, TypeInv', RefundInv, NEW w \in Workers,
           \/ \E o \in Orders : \/ InitiateRead(w, o) \/ FailedRead(w, o)
                               \/ VerifyRead(w, o) \/ CapturedRead(w, o)
           \/ InitiateAtGateway(w) \/ InitiateSave(w) \/ VerifyAtGateway(w)
           \/ VerifyBadSignature(w) \/ FailedWrite(w)
    PROVE  RefundInv'
  <1> DEFINE Quiet == /\ RefundsGrow /\ NoRefundMoves /\ UNCHANGED rzpPayment
                      /\ NoneMarkedRefunded
  <1>0. RowsOK /\ ReqOK /\ GatewayOK /\ \A g \in GatewayOrders : gateway[g].refunded \in Int
    BY TypeInvParts, RefundRanges, PaymentAssumption
  <1>1. ASSUME NEW o \in Orders, InitiateRead(w, o) \/ FailedRead(w, o) \/ VerifyRead(w, o) \/ CapturedRead(w, o)
        PROVE  Quiet
    <2>1. PICK kind, g, amount : kind # "refund" /\ ReadPayment(w, kind, o, g, amount)
      BY <1>1 DEF InitiateRead, FailedRead, VerifyRead, CapturedRead
    <2>2. NoRefundMoves
      BY <1>0, <2>1, BeginMovesNoRefund DEF ReadPayment
    <2>3. UNCHANGED <<storeVars, gateway>>
      BY <1>1 DEF InitiateRead, FailedRead, VerifyRead, CapturedRead
    <2> QED BY <1>0, <2>2, <2>3, SameGatewaySameRefunds DEF storeVars, rows, NoneMarkedRefunded
  <1>2. ASSUME VerifyBadSignature(w) \/ FailedWrite(w) PROVE Quiet
    <2>1. NoRefundMoves
      BY <1>0, <1>2, DoneMovesNoRefund DEF VerifyBadSignature, FailedWrite
    <2>2. NoneMarkedRefunded
      BY <1>0, <1>2 DEF VerifyBadSignature, FailedWrite, SetPaid, SetPayment, RowsOK, NoneMarkedRefunded
    <2> QED BY <1>0, <1>2, <2>1, <2>2, SameGatewaySameRefunds DEF VerifyBadSignature, FailedWrite
  <1>3. ASSUME VerifyAtGateway(w) PROVE Quiet
    <2>1. req[w] \in Requests
      BY <1>0, <1>3, ServingFact DEF VerifyAtGateway, Serving, Kinds
    <2>2. NoRefundMoves
      <3>1. req' = [req EXCEPT ![w].step = "gateway"] /\ req[w].kind = "verify"
        BY <1>3 DEF VerifyAtGateway, Serving
      <3>2. \A v \in Workers \ {w} : req'[v] = req[v]
        BY <1>0, <3>1 DEF ReqOK
      <3>3. req'[w].kind = req[w].kind
        BY <1>0, <2>1, <3>1 DEF Requests, ReqOK
      <3> QED BY <3>1, <3>2, <3>3 DEF NoRefundMoves
    <2> QED BY <1>0, <1>3, <2>2, SameGatewaySameRefunds
            DEF VerifyAtGateway, storeVars, rows, NoneMarkedRefunded
  <1>4. ASSUME InitiateAtGateway(w) PROVE Quiet
    <2>1. req[w] \in Requests
      BY <1>0, <1>4, ServingFact DEF InitiateAtGateway, Serving, Kinds
    <2>2. NoRefundMoves
      <3>1. PICK g \in GatewayOrders : req' = [req EXCEPT ![w].step = "gateway", ![w].g = g]
        BY <1>4 DEF InitiateAtGateway
      <3>2. \A v \in Workers \ {w} : req'[v] = req[v]
        BY <1>0, <3>1 DEF ReqOK
      <3>3. req'[w].kind = req[w].kind
        BY <1>0, <2>1, <3>1 DEF Requests, ReqOK
      <3>4. req[w].kind = "initiate"
        BY <1>4 DEF InitiateAtGateway, Serving
      <3> QED BY <3>2, <3>3, <3>4 DEF NoRefundMoves
    <2>3. RefundsGrow
      BY <1>0, <1>4 DEF InitiateAtGateway, RefundsGrow, Open, GatewayOK, GatewayRecords
    <2> QED BY <1>4, <2>2, <2>3 DEF InitiateAtGateway, storeVars, rows, NoneMarkedRefunded
  <1>5. ASSUME InitiateSave(w) PROVE Quiet
    <2>1. NoRefundMoves
      BY <1>0, <1>5, DoneMovesNoRefund DEF InitiateSave
    <2>2. RefundsGrow
      BY <1>0, <1>5 DEF InitiateSave, RefundsGrow, GatewayOK, GatewayRecords
    <2>3. NoneMarkedRefunded
      BY <1>0, <1>5 DEF InitiateSave, SetPayment, RowsOK, NoneMarkedRefunded
    <2> QED BY <1>5, <2>1, <2>2, <2>3 DEF InitiateSave
  <1>6. Quiet
    BY <1>1, <1>2, <1>3, <1>4, <1>5
  <1> QED BY <1>6, QuietRefunds

(* The two confirmations record a payment that was made for this order.    *)
LEMMA ConfirmKeepsRefunds ==
    ASSUME MoneyInv, TypeInv', RefundInv, NEW w \in Workers, VerifyConfirm(w) \/ CapturedConfirm(w)
    PROVE  RefundInv'
  <1> DEFINE o == req[w].order
  <1>0. TypeInv /\ RowsOK /\ ReqOK /\ GatewayOK
    BY TypeInvParts DEF MoneyInv
  <1>1. RefundsGrow /\ NoRefundMoves /\ UNCHANGED gateway
    BY <1>0, SameGatewaySameRefunds, DoneMovesNoRefund DEF VerifyConfirm, CapturedConfirm
  <1>2. req[w].g \in GatewayOrders /\ gateway[req[w].g].order = o
    BY DEF MoneyInv, HandlersAreInformed, VerifyConfirm, CapturedConfirm, Serving
  <1>3. NoneMarkedRefunded
    BY <1>0 DEF VerifyConfirm, CapturedConfirm, CaptureGate, ConfirmOrder, SetPaid, SetPayment,
                RowsOK, NoneMarkedRefunded
  <1>4. \A p \in Orders : rzpPayment'[p] = rzpPayment[p] \/ (p = o /\ rzpPayment'[p] = req[w].g)
    BY <1>0 DEF VerifyConfirm, CapturedConfirm, CaptureGate, RowsOK
  <1>5. \A p \in Orders : rzpPayment'[p] # NoGatewayOrder => gateway'[rzpPayment'[p]].order = p
    BY <1>1, <1>2, <1>4 DEF RefundInv
  <1> QED BY <1>0, <1>1, <1>3, <1>5, KnownRefundsStay, RealStays DEF RefundInv

(* refundPayment takes the payment on record to the gateway, and records   *)
(* what has come back.                                                     *)
LEMMA RefundReadKeepsRefunds ==
    ASSUME TypeInv, TypeInv', RefundInv, NEW w \in Workers, NEW o \in Orders, RefundRead(w, o)
    PROVE  RefundInv'
  <1>0. RowsOK /\ ReqOK /\ GatewayOK
    BY TypeInvParts
  <1>1. PICK amount \in 1 .. Amount :
          /\ ReadPayment(w, "refund", o, NoGatewayOrder, amount)
          /\ rzpPayment[o] # NoGatewayOrder
    BY DEF RefundRead
  <1>2. UNCHANGED <<gateway, rzpPayment, payment, paymentStatus>>
    BY DEF RefundRead, storeVars, rows
  <1>3. /\ req'[w].seen.payId = rzpPayment[o] /\ req'[w].order = o /\ req'[w].amount = amount
        /\ req'[w].step = "read" /\ \A v \in Workers \ {w} : req'[v] = req[v]
    BY <1>0, <1>1 DEF ReadPayment, Begin, Seen, ReqOK
  <1>4. rzpPayment[o] \in GatewayOrders /\ gateway[rzpPayment[o]].order = o
    BY <1>0, <1>1 DEF RefundInv, RowsOK
  <1>5. \A v \in Workers : req'[v].kind = "refund" =>
              /\ req'[v].seen.payId \in GatewayOrders
              /\ gateway'[req'[v].seen.payId].order = req'[v].order
              /\ req'[v].amount \in 1 .. Amount
              /\ req'[v].step = "gateway" => gateway'[req'[v].seen.payId].refunded >= req'[v].amount
    <2> SUFFICES ASSUME NEW v \in Workers, req'[v].kind = "refund"
                 PROVE  /\ req'[v].seen.payId \in GatewayOrders
                        /\ gateway'[req'[v].seen.payId].order = req'[v].order
                        /\ req'[v].amount \in 1 .. Amount
                        /\ req'[v].step = "gateway" =>
                              gateway'[req'[v].seen.payId].refunded >= req'[v].amount
      OBVIOUS
    <2>1. CASE v = w
      BY <1>1, <1>2, <1>3, <1>4, <2>1
    <2>2. CASE v # w
      BY <1>2, <1>3, <2>2 DEF RefundInv
    <2> QED BY <2>1, <2>2
  <1> QED BY <1>2, <1>5 DEF RefundInv, RefundIsReal

LEMMA RefundAtGatewayKeepsRefunds ==
    ASSUME TypeInv, TypeInv', RefundInv, NEW w \in Workers, RefundAtGateway(w)
    PROVE  RefundInv'
  <1> DEFINE g == req[w].seen.payId
  <1>0. ReqOK /\ GatewayOK
    BY TypeInvParts
  <1>1. req[w].kind = "refund" /\ req[w] \in Requests
    BY <1>0, ServingFact DEF RefundAtGateway, Serving, Kinds
  <1>2. /\ g \in GatewayOrders /\ gateway[g].order = req[w].order /\ req[w].amount \in 1 .. Amount
        /\ gateway[g].refunded \in Nat /\ req[w].order \in Orders /\ req[w].amount \in Nat
    BY <1>0, <1>1, RefundRanges, RequestRanges, PaymentAssumption DEF RefundInv
  <1>3. gateway' = [gateway EXCEPT ![g].refunded = gateway[g].refunded + req[w].amount]
    BY DEF RefundAtGateway
  <1>4. /\ req'[w].kind = "refund" /\ req'[w].seen.payId = g /\ req'[w].order = req[w].order
        /\ req'[w].amount = req[w].amount
        /\ \A v \in Workers \ {w} : req'[v] = req[v]
    BY <1>0, <1>1 DEF RefundAtGateway, Requests, ReqOK
  <1> HIDE DEF g
  <1>5. /\ gateway'[g].refunded = gateway[g].refunded + req[w].amount
        /\ gateway'[g].order = gateway[g].order
        /\ \A h \in GatewayOrders \ {g} : gateway'[h] = gateway[h]
    BY <1>0, <1>2, <1>3 DEF GatewayOK, GatewayRecords
  <1>6. RefundsGrow
    <2>1. \A h \in GatewayOrders : gateway[h].refunded \in Int
      BY <1>0, RefundRanges, PaymentAssumption
    <2> QED BY <1>2, <1>5, <2>1 DEF RefundsGrow
  <1>7. gateway'[g].refunded >= req[w].amount
    BY <1>2, <1>5
  <1>8. UNCHANGED <<rzpPayment, payment, paymentStatus>>
    BY DEF RefundAtGateway, storeVars, rows
  <1>9. ASSUME NEW v \in Workers, req'[v].kind = "refund"
        PROVE  /\ req'[v].seen.payId \in GatewayOrders
               /\ gateway'[req'[v].seen.payId].order = req'[v].order
               /\ req'[v].amount \in 1 .. Amount
               /\ req'[v].step = "gateway" =>
                     gateway'[req'[v].seen.payId].refunded >= req'[v].amount
    <2>1. CASE v = w
      BY <1>2, <1>4, <1>5, <1>7, <2>1
    <2>2. CASE v # w
      <3>1. req'[v] = req[v] /\ req[v].kind = "refund"
        BY <1>4, <1>9, <2>2
      <3> DEFINE h == req[v].seen.payId
      <3>2. /\ h \in GatewayOrders /\ gateway[h].order = req[v].order /\ req[v].amount \in 1 .. Amount
            /\ (req[v].step = "gateway" => gateway[h].refunded >= req[v].amount)
        BY <3>1 DEF RefundInv
      <3>3. gateway[h].refunded \in Int /\ gateway'[h].refunded \in Int /\ req[v].amount \in Int
        <4>1. GatewayOK'
          BY TypeInvPartsPrime
        <4> QED BY <1>0, <3>2, <4>1, PaymentAssumption DEF GatewayOK, GatewayRecords
      <3>4. gateway'[h].order = gateway[h].order /\ gateway'[h].refunded >= gateway[h].refunded
        BY <1>5, <1>6, <3>2 DEF RefundsGrow
      <3> HIDE DEF h
      <3>5. req[v].step = "gateway" => gateway'[h].refunded >= req[v].amount
        BY <3>2, <3>3, <3>4
      <3> QED BY <3>1, <3>2, <3>4, <3>5 DEF h
    <2> QED BY <2>1, <2>2
  <1>10. NoneMarkedRefunded
    BY <1>8 DEF NoneMarkedRefunded
  <1> QED BY <1>6, <1>8, <1>9, <1>10, RealStays, RecordedStay DEF RefundInv

LEMMA RefundSaveKeepsRefunds ==
    ASSUME TypeInv, TypeInv', RefundInv, NEW w \in Workers, RefundSave(w)
    PROVE  RefundInv'
  <1> DEFINE o == req[w].order
             g == req[w].seen.payId
  <1>0. RowsOK /\ ReqOK /\ GatewayOK
    BY TypeInvParts
  <1>1. req[w].kind = "refund" /\ req[w].step = "gateway"
    BY DEF RefundSave, Serving
  <1>2. /\ g \in GatewayOrders /\ gateway[g].order = o
        /\ req[w].amount \in 1 .. Amount /\ gateway[g].refunded >= req[w].amount
    BY <1>1 DEF RefundInv
  <1>3. RefundsGrow /\ NoRefundMoves /\ UNCHANGED <<gateway, rzpPayment>>
    BY <1>0, SameGatewaySameRefunds, DoneMovesNoRefund DEF RefundSave
  <1>4. /\ \A p \in Orders \ {o} : payment'[p] = payment[p] /\ paymentStatus'[p] = paymentStatus[p]
        /\ payment'[o] = "REFUNDED" => req[w].amount >= Amount
        /\ o \in Orders
    BY <1>0, <1>1, ServingFact, RequestRanges DEF RefundSave, SetPayment, SetPaid, RowsOK, Kinds
  <1>5. gateway[g].refunded >= 1 /\ (req[w].amount >= Amount => gateway[g].refunded >= Amount)
    <2>1. gateway[g].refunded \in Int /\ Amount \in Int /\ req[w].amount \in Int /\ req[w].amount >= 1
      BY <1>0, <1>2, RefundRanges, PaymentAssumption
    <2> HIDE DEF g
    <2> QED BY <1>2, <2>1
  <1> HIDE DEF o, g
  <1>6. RefundIsReal'
    <2> SUFFICES ASSUME NEW p \in Orders \ CodOrders
                 PROVE  /\ payment'[p] = "REFUNDED" =>
                            \E h \in GatewayOrders : gateway[h].order = p /\ gateway[h].refunded >= Amount
                        /\ paymentStatus'[p] = "PARTIALLY_REFUNDED" =>
                            \E h \in GatewayOrders : gateway[h].order = p /\ gateway[h].refunded >= 1
      BY <1>3 DEF RefundIsReal
    <2>1. CASE p = o
      BY <1>2, <1>4, <1>5, <2>1
    <2>2. CASE p # o
      BY <1>4, <2>2 DEF RefundInv, RefundIsReal
    <2> QED BY <2>1, <2>2
  <1> QED BY <1>3, <1>6, KnownRefundsStay, RecordedStay DEF RefundInv

LEMMA InitRefundInv == Init => RefundInv
  BY DEF Init, StoreInit, GatewayInit, RefundInv, RefundIsReal, Idle

LEMMA NextRefundInv == MoneyInv /\ RefundInv /\ [Next]_vars => RefundInv'
  <1> SUFFICES ASSUME MoneyInv, RefundInv, [Next]_vars PROVE RefundInv'
    OBVIOUS
  <1>0. TypeInv /\ TypeInv'
    BY NextTypeInv DEF MoneyInv
  <1>1. CASE UNCHANGED vars
    <2>1. UNCHANGED <<gateway, req, rzpPayment, payment, paymentStatus>>
      BY <1>1 DEF vars, rows
    <2> QED BY <2>1 DEF RefundInv, RefundIsReal
  <1>2. CASE GatewayStep
    BY <1>0, <1>2, GatewayKeepsRefunds
  <1>3. ASSUME NEW w \in Workers, PaymentStep(w) PROVE RefundInv'
    BY <1>0, <1>3, PlainPaymentKeepsRefunds, ConfirmKeepsRefunds, RefundReadKeepsRefunds,
       RefundAtGatewayKeepsRefunds, RefundSaveKeepsRefunds
    DEF PaymentStep
  <1>4. CASE /\ \/ \E w \in Workers : \/ DeskStep(w) \/ FulfilmentStep(w) \/ Drop(w)
                                      \/ \E o \in Orders : Checkout(w, o)
                \/ \E o \in Orders : Sweep(o)
             /\ UNCHANGED gateway
    BY <1>0, <1>4, RowStepsKeepRefunds
  <1> QED BY <1>1, <1>2, <1>3, <1>4 DEF Next, Step

(* A refund is recorded only when the gateway returned the money of this   *)
(* very order, whatever else handlers do between its call and its commit.  *)
THEOREM RefundsAreReal == Spec => []RefundIsReal
  <1>1. RefundInv => RefundIsReal
    BY DEF RefundInv
  <1> QED BY InitMoneyInv, NextMoneyInv, InitRefundInv, NextRefundInv, <1>1, PTL DEF Spec

(* Paid, returned or still on its way: what the rows and the handlers say  *)
(* of money is borne out by the gateway's records.                         *)
THEOREM MoneyIsBorneOut == Spec => []MoneyIsBacked
  <1>1. PaidIsCollected /\ RefundIsReal /\ HandlersAreInformed => MoneyIsBacked
    BY DEF MoneyIsBacked
  <1> QED BY PaidOrdersAreCollected, RefundsAreReal, WaitingHandlersAreInformed, <1>1, PTL

----------------------------------------------------------------------------
(* Credits.  restockOrder looks the log up and then writes it.  Cancelling *)
(* and the administrator's endpoint do both under the order's lock, the    *)
(* guarded transition and a return do not: each look of theirs that finds  *)
(* nothing is worth one credit.                                            *)

CheckedLog(r) == r.kind \in {"transition", "deliver"} /\ r.step = "checked"

PastLook(r) == r # Idle /\ r.step = "checked"

(* The credits of an order and the looks that still allow one are together *)
(* no more than the requests that can overlap, once there is a credit.     *)
CreditInv ==
    /\ \A w \in Workers : req[w].kind \in Handlers \cup {"idle"}
    /\ \A o \in Orders :
            restocks[o] = 0 \/ restocks[o] + Cardinality(Looked(o)) <= Cardinality(Workers)

(* A request that is no further than it was with the log, or looks now.    *)
LogIsKnown ==
    \A w \in Workers :
        \/ req'[w] = req[w]
        \/ /\ req'[w].kind \in Handlers \cup {"idle"}
           /\ PastLook(req'[w]) => req'[w].logged = RestockLogged(req'[w].order)

(* A step that credits an order, for the first time or upon an old look,   *)
(* and ends its request.                                                   *)
Credit(w, o) ==
    /\ Done(w)
    /\ restocks[o] = 0 \/ w \in Looked(o)
    /\ restocks' = [restocks EXCEPT ![o] = @ + 1]

LEMMA LookedIsFinite ==
    ASSUME NEW o
    PROVE  /\ IsFiniteSet(Looked(o)) /\ Cardinality(Looked(o)) \in Nat
           /\ \A T : T \subseteq Looked(o) => Cardinality(T) \in Nat /\ Cardinality(T) <= Cardinality(Looked(o))
           /\ \A T : \A x \in Looked(o) : T \subseteq Looked(o) \ {x}
                    => Cardinality(T) \in Nat /\ Cardinality(T) + 1 <= Cardinality(Looked(o))
  <1>1. IsFiniteSet(Looked(o))
    BY StoreAssumption, FS_Subset DEF Looked
  <1>2. Cardinality(Looked(o)) \in Nat
    BY <1>1, FS_CardinalityType
  <1>3. ASSUME NEW S, NEW T, IsFiniteSet(S), T \subseteq S
        PROVE  Cardinality(T) \in Nat /\ Cardinality(T) <= Cardinality(S)
    BY <1>3, FS_Subset, FS_CardinalityType
  <1>4. ASSUME NEW T, NEW x \in Looked(o), T \subseteq Looked(o) \ {x}
        PROVE  Cardinality(T) \in Nat /\ Cardinality(T) + 1 <= Cardinality(Looked(o))
    <2>1. IsFiniteSet(Looked(o) \ {x}) /\ Cardinality(Looked(o) \ {x}) = Cardinality(Looked(o)) - 1
      BY <1>1, FS_RemoveElement
    <2>2. Cardinality(T) \in Nat /\ Cardinality(T) <= Cardinality(Looked(o) \ {x})
      BY <1>3, <1>4, <2>1
    <2> QED BY <1>2, <2>1, <2>2
  <1> QED BY <1>1, <1>2, <1>3, <1>4

(* The looks of the workers but one leave room for a credit.               *)
LEMMA RoomForOne ==
    ASSUME NEW w \in Workers, NEW T, T \subseteq Workers \ {w}
    PROVE  Cardinality(T) \in Nat /\ Cardinality(T) + 1 <= Cardinality(Workers)
  <1>1. /\ IsFiniteSet(Workers \ {w}) /\ Cardinality(Workers \ {w}) = Cardinality(Workers) - 1
        /\ Cardinality(Workers) \in Nat
    BY StoreAssumption, FS_RemoveElement, FS_CardinalityType
  <1>2. IsFiniteSet(T) /\ Cardinality(T) <= Cardinality(Workers \ {w})
    BY <1>1, FS_Subset
  <1> QED BY <1>1, <1>2, FS_CardinalityType

LEMMA BeginKnowsLog ==
    ASSUME ReqOK, NEW w \in Workers, NEW kind, NEW o, NEW to, NEW g, NEW amount,
           Begin(w, kind, o, to, g, amount)
    PROVE  LogIsKnown
  BY DEF Begin, LogIsKnown, PastLook, ReqOK

LEMMA DoneKnowsLog ==
    ASSUME ReqOK, NEW w \in Workers, Done(w)
    PROVE  LogIsKnown
  BY DEF Done, Idle, LogIsKnown, PastLook, ReqOK

(* A payment request that moves on does not look at the log.               *)
LEMMA PaymentKnowsLog ==
    ASSUME ReqOK, CreditInv, NEW w \in Workers, NEW g, req[w] \in Requests,
           req' = [req EXCEPT ![w] = [req[w] EXCEPT !.step = "gateway", !.g = g]]
    PROVE  LogIsKnown
  BY DEF LogIsKnown, PastLook, CreditInv, ReqOK, Requests

(* restockOrder with a check that is up to date, or that the request made  *)
(* before.                                                                 *)
LEMMA RestockCredits ==
    ASSUME NEW w \in Workers, NEW o \in Orders, LedgerTypeOK, Done(w), NEW logged,
           ~logged => ~RestockLogged(o) \/ w \in Looked(o),
           RestockOrder(o, Items[o], logged)
    PROVE  UNCHANGED restocks \/ Credit(w, o)
  <1>1. CASE logged
    BY <1>1 DEF RestockOrder, ledger
  <1>2. CASE ~logged
    <2>1. restocks' = [restocks EXCEPT ![o] = @ + 1]
      BY <1>2 DEF RestockOrder, CreditRestock
    <2>2. restocks[o] = 0 \/ w \in Looked(o)
      BY <1>2 DEF RestockLogged, LedgerTypeOK
    <2> QED BY <2>1, <2>2 DEF Credit
  <1> QED BY <1>1, <1>2

LEMMA QuietCredits ==
    ASSUME CreditInv, ReqOK, LedgerTypeOK, UNCHANGED restocks, LogIsKnown
    PROVE  CreditInv'
  <1>0. \A w \in Workers : req'[w].kind \in Handlers \cup {"idle"}
    BY DEF CreditInv, LogIsKnown
  <1> SUFFICES ASSUME NEW o \in Orders, restocks[o] # 0
               PROVE  restocks[o] + Cardinality(Looked(o)') <= Cardinality(Workers)
    BY <1>0 DEF CreditInv
  <1>1. Looked(o)' \subseteq Looked(o)
    <2> SUFFICES ASSUME NEW w \in Workers, req'[w] # Idle, req'[w].order = o,
                        req'[w].step = "checked", ~req'[w].logged
                 PROVE  w \in Looked(o)
      BY DEF Looked
    <2>1. RestockLogged(o)
      BY DEF RestockLogged, LedgerTypeOK
    <2>2. req'[w] = req[w]
      BY <2>1 DEF LogIsKnown, PastLook
    <2> QED BY <2>2 DEF Looked
  <1>2. /\ Cardinality(Looked(o)) \in Nat /\ Cardinality(Looked(o)') \in Nat
        /\ Cardinality(Looked(o)') <= Cardinality(Looked(o))
    BY <1>1, LookedIsFinite
  <1>3. restocks[o] + Cardinality(Looked(o)) <= Cardinality(Workers) /\ restocks[o] \in Nat
    BY DEF CreditInv, LedgerTypeOK
  <1>4. Cardinality(Workers) \in Nat
    BY StoreAssumption, FS_CardinalityType
  <1> QED BY <1>2, <1>3, <1>4

LEMMA CreditKeeps ==
    ASSUME CreditInv, ReqOK, LedgerTypeOK, NEW w \in Workers, NEW o \in Orders, Credit(w, o)
    PROVE  CreditInv'
  <1>0. \A v \in Workers : req'[v].kind \in Handlers \cup {"idle"}
    BY DEF CreditInv, Credit, Done, ReqOK, Idle
  <1> SUFFICES ASSUME NEW q \in Orders, restocks'[q] # 0
               PROVE  restocks'[q] + Cardinality(Looked(q)') <= Cardinality(Workers)
    BY <1>0 DEF CreditInv
  <1>1. Looked(q)' \subseteq Looked(q) \ {w}
    BY DEF Looked, Credit, Done, ReqOK
  <1>2. Looked(q)' \subseteq Workers \ {w}
    BY <1>1 DEF Looked
  <1>3. /\ Cardinality(Looked(q)) \in Nat /\ Cardinality(Looked(q)') \in Nat
        /\ Cardinality(Looked(q)') <= Cardinality(Looked(q))
        /\ w \in Looked(q) => Cardinality(Looked(q)') + 1 <= Cardinality(Looked(q))
    BY <1>1, LookedIsFinite
  <1>4. Cardinality(Looked(q)') + 1 <= Cardinality(Workers) /\ Cardinality(Workers) \in Nat
    BY <1>2, RoomForOne, StoreAssumption, FS_CardinalityType
  <1>5. restocks[q] \in Nat /\ restocks'[q] = IF q = o THEN restocks[q] + 1 ELSE restocks[q]
    BY DEF Credit, LedgerTypeOK
  <1>6. restocks[q] = 0 \/ restocks[q] + Cardinality(Looked(q)) <= Cardinality(Workers)
    BY DEF CreditInv
  <1>7. CASE q # o
    BY <1>3, <1>4, <1>5, <1>6, <1>7
  <1>8. CASE q = o /\ restocks[q] = 0
    BY <1>3, <1>4, <1>5, <1>8
  <1>9. CASE q = o /\ restocks[q] # 0
    <2>1. w \in Looked(q)
      BY <1>9 DEF Credit
    <2> QED BY <1>3, <1>4, <1>5, <1>6, <1>9, <2>1
  <1> QED BY <1>7, <1>8, <1>9

LEMMA InitCreditInv == Init => CreditInv
  BY DEF Init, StoreInit, LedgerInit, CreditInv, Idle

(* Payments move units between shelf, reservations and sales only.         *)
LEMMA PaymentCreditsNothing ==
    ASSUME TypeInv, CreditInv, NEW w \in Workers, PaymentStep(w)
    PROVE  UNCHANGED restocks /\ LogIsKnown
  <1> DEFINE Quiet == UNCHANGED restocks /\ LogIsKnown
  <1>0. ReqOK
    BY TypeInvParts
  <1>1. ASSUME NEW o \in Orders,
               \/ InitiateRead(w, o) \/ VerifyRead(w, o) \/ CapturedRead(w, o)
               \/ FailedRead(w, o) \/ RefundRead(w, o)
        PROVE  Quiet
    <2>1. PICK kind, g, amount : ReadPayment(w, kind, o, g, amount)
      BY <1>1 DEF InitiateRead, VerifyRead, CapturedRead, FailedRead, RefundRead
    <2>2. LogIsKnown
      BY <1>0, <2>1, BeginKnowsLog DEF ReadPayment
    <2> QED BY <1>1, <2>2
            DEF InitiateRead, VerifyRead, CapturedRead, FailedRead, RefundRead, storeVars, ledger
  <1>2. ASSUME \/ InitiateSave(w) \/ VerifyBadSignature(w) \/ VerifyConfirm(w)
               \/ CapturedConfirm(w) \/ FailedWrite(w) \/ RefundSave(w)
        PROVE  Quiet
    <2>1. LogIsKnown
      BY <1>0, <1>2, DoneKnowsLog
      DEF InitiateSave, VerifyBadSignature, VerifyConfirm, CapturedConfirm, FailedWrite, RefundSave
    <2>2. UNCHANGED restocks
      BY <1>2 DEF InitiateSave, VerifyBadSignature, VerifyConfirm, CapturedConfirm, FailedWrite,
                  RefundSave, ConfirmOrder, ConfirmDeduction, ReleaseReservation, ledger
    <2> QED BY <2>1, <2>2
  <1>3. ASSUME InitiateAtGateway(w) \/ VerifyAtGateway(w) \/ RefundAtGateway(w)
        PROVE  Quiet
    <2>1. req[w].kind \in {"initiate", "verify", "refund"}
      BY <1>3 DEF InitiateAtGateway, VerifyAtGateway, RefundAtGateway, Serving
    <2>2. req[w] \in Requests
      BY <1>0, <2>1, ServingFact DEF Kinds
    <2>3. PICK g : req' = [req EXCEPT ![w] = [req[w] EXCEPT !.step = "gateway", !.g = g]]
      <3>1. CASE InitiateAtGateway(w)
        BY <1>0, <3>1, <2>2 DEF InitiateAtGateway, ReqOK, Requests
      <3>2. CASE VerifyAtGateway(w) \/ RefundAtGateway(w)
        <4>1. [req[w] EXCEPT !.step = "gateway"]
                  = [req[w] EXCEPT !.step = "gateway", !.g = req[w].g]
          BY <2>2 DEF Requests
        <4>2. req' = [req EXCEPT ![w] = [req[w] EXCEPT !.step = "gateway"]]
          BY <1>0, <3>2 DEF VerifyAtGateway, RefundAtGateway, ReqOK
        <4> QED BY <4>1, <4>2
      <3> QED BY <1>3, <3>1, <3>2
    <2>4. LogIsKnown
      BY <1>0, <2>1, <2>2, <2>3, PaymentKnowsLog
    <2> QED BY <1>3, <2>4
            DEF InitiateAtGateway, VerifyAtGateway, RefundAtGateway, storeVars, ledger
  <1> QED BY <1>1, <1>2, <1>3 DEF PaymentStep

(* The unlocked look at the log.                                           *)
LEMMA LookKeepsCredits ==
    ASSUME TypeInv, CreditInv, NEW w \in Workers, TransitionCheck(w) \/ ReturnCheck(w)
    PROVE  UNCHANGED restocks /\ LogIsKnown
  <1>0. ReqOK
    BY TypeInvParts
  <1>1. req[w].kind \in {"transition", "deliver"}
    BY DEF TransitionCheck, ReturnCheck, Serving
  <1>2. req[w] \in Requests
    BY <1>0, <1>1, ServingFact DEF Kinds
  <1>3. req' = [req EXCEPT ![w] = [req[w] EXCEPT !.step = "checked",
                                                 !.logged = RestockLogged(req[w].order)]]
    BY <1>0, <1>2 DEF TransitionCheck, ReturnCheck, ReqOK, Requests
  <1>4. LogIsKnown
    BY <1>0, <1>2, <1>3 DEF LogIsKnown, PastLook, CreditInv, ReqOK, Requests
  <1> QED BY <1>4 DEF TransitionCheck, ReturnCheck, ledger

(* Every write of the desks credits nothing, or its order once.            *)
LEMMA WritesCredit ==
    ASSUME TypeInv, CreditInv, NEW w \in Workers,
           \/ CancelWrite(w) \/ FailPaymentWrite(w) \/ AdminStatusWrite(w)
           \/ TransitionWrite(w) \/ AssignWrite(w) \/ DeliverWrite(w)
    PROVE  UNCHANGED restocks \/ \E o \in Orders : Credit(w, o)
  <1> DEFINE o == req[w].order
             Known == \E logged : /\ RestockOrder(o, Items[o], logged)
                                  /\ ~logged => ~RestockLogged(o) \/ w \in Looked(o)
  <1>0. ReqOK /\ LedgerTypeOK
    BY TypeInvParts
  <1>1. req[w] \in Requests /\ RequestFits(req[w])
    <2>1. req[w].kind \in Kinds
      BY DEF CancelWrite, FailPaymentWrite, AdminStatusWrite, TransitionWrite, AssignWrite,
             DeliverWrite, Serving, Kinds
    <2> QED BY <1>0, <2>1, ServingFact
  <1>2. o \in Orders /\ Done(w)
    BY <1>1 DEF Requests, CancelWrite, FailPaymentWrite, AdminStatusWrite, TransitionWrite,
                AssignWrite, DeliverWrite
  <1>3. UNCHANGED restocks \/ Known
    <2>1. CASE CancelWrite(w)
      BY <2>1 DEF CancelWrite, RestockUnderLock, ReleaseReservation, ledger
    <2>2. CASE FailPaymentWrite(w) \/ AssignWrite(w)
      BY <2>2 DEF FailPaymentWrite, AssignWrite, ReleaseReservation, ledger
    <2>3. CASE AdminStatusWrite(w)
      BY <2>3 DEF AdminStatusWrite, Disposition, RestockUnderLock, ReleaseReservation, ledger
    <2>4. CASE TransitionWrite(w)
      <3>1. CASE req[w].step = "checked"
        <4>1. ~req[w].logged => w \in Looked(o)
          BY <2>4, <3>1 DEF TransitionWrite, Serving, Looked
        <4> QED BY <2>4, <3>1, <4>1 DEF TransitionWrite
      <3>2. CASE req[w].step # "checked"
        BY <2>4, <3>2 DEF TransitionWrite, ReleaseReservation, ledger
      <3> QED BY <3>1, <3>2
    <2>5. CASE DeliverWrite(w)
      <3>0. DisposeOnDelivery(w)
        BY <2>5 DEF DeliverWrite
      <3>1. CASE req[w].to \notin {"CANCELLED", "RETURNED"}
        BY <3>0, <3>1 DEF DisposeOnDelivery, ledger
      <3>2. CASE req[w].to \in {"CANCELLED", "RETURNED"} /\ req[w].step = "checked"
        <4>1. ~req[w].logged => w \in Looked(o)
          BY <2>5, <3>2 DEF DeliverWrite, Serving, Looked
        <4> QED BY <3>0, <3>2, <4>1 DEF DisposeOnDelivery
      <3>3. CASE req[w].to \in {"CANCELLED", "RETURNED"} /\ req[w].step = "read"
        BY <3>0, <3>3 DEF DisposeOnDelivery, ReleaseReservation, ledger
      <3> QED BY <2>5, <3>1, <3>2, <3>3 DEF DeliverWrite, Serving
    <2> QED BY <2>1, <2>2, <2>3, <2>4, <2>5
  <1> HIDE DEF o
  <1> QED BY <1>0, <1>2, <1>3, RestockCredits

LEMMA RowStepsCredit ==
    ASSUME TypeInv, CreditInv,
           \/ \E w \in Workers : \/ DeskStep(w) \/ FulfilmentStep(w) \/ Drop(w)
                                \/ \E o \in Orders : Checkout(w, o)
           \/ \E o \in Orders : Sweep(o)
    PROVE  \/ UNCHANGED restocks /\ LogIsKnown
           \/ \E w \in Workers, o \in Orders : Credit(w, o)
  <1> DEFINE Quiet == UNCHANGED restocks /\ LogIsKnown
  <1>0. ReqOK /\ LedgerTypeOK
    BY TypeInvParts
  <1>1. ASSUME NEW w \in Workers, DeskStep(w) \/ FulfilmentStep(w)
        PROVE  Quiet \/ \E o \in Orders : Credit(w, o)
    <2>1. ASSUME NEW o \in Orders,
                 \/ CancelRead(w, o) \/ FailPaymentRead(w, o) \/ AdminStatusRead(w, o)
                 \/ TransitionRead(w, o) \/ AssignRead(w, o) \/ DeliverRead(w, o)
          PROVE  Quiet
      <3>1. PICK kind, to : Read(w, kind, o, to)
        BY <2>1 DEF CancelRead, FailPaymentRead, AdminStatusRead, TransitionRead, AssignRead,
                    DeliverRead
      <3>2. LogIsKnown
        BY <1>0, <3>1, BeginKnowsLog DEF Read
      <3> QED BY <2>1, <3>2 DEF CancelRead, FailPaymentRead, AdminStatusRead, TransitionRead,
                                AssignRead, DeliverRead, ledger
    <2>2. CASE \/ CancelWrite(w) \/ FailPaymentWrite(w) \/ AdminStatusWrite(w)
               \/ TransitionWrite(w) \/ AssignWrite(w) \/ DeliverWrite(w)
      <3>1. LogIsKnown
        BY <1>0, <2>2, DoneKnowsLog DEF CancelWrite, FailPaymentWrite, AdminStatusWrite,
                                        TransitionWrite, AssignWrite, DeliverWrite
      <3> QED BY <2>2, <3>1, WritesCredit
    <2>3. CASE TransitionCheck(w) \/ ReturnCheck(w)
      BY <2>3, LookKeepsCredits
    <2> QED BY <1>1, <2>1, <2>2, <2>3 DEF DeskStep, FulfilmentStep
  <1>2. ASSUME NEW w \in Workers, Drop(w) PROVE Quiet
    BY <1>0, <1>2, DoneKnowsLog DEF Drop, ledger
  <1>3. ASSUME NEW w \in Workers, NEW o \in Orders, Checkout(w, o) PROVE Quiet
    BY <1>3 DEF Checkout, ReserveStock, LogIsKnown
  <1>4. ASSUME NEW o \in Orders, Sweep(o) PROVE Quiet
    BY <1>4 DEF Sweep, ReleaseReservation, LogIsKnown
  <1> QED BY <1>1, <1>2, <1>3, <1>4

(* No step but one that ends its request credits anything.                 *)
LEMMA NextCredits ==
    ASSUME TypeInv, CreditInv, [Next]_vars
    PROVE  \/ UNCHANGED restocks /\ LogIsKnown
           \/ \E w \in Workers, o \in Orders : Credit(w, o)
  <1>1. CASE UNCHANGED vars
    BY <1>1 DEF vars, ledger, LogIsKnown
  <1>2. CASE GatewayStep
    BY <1>2 DEF GatewayStep, AttemptFails, Authorize, Capture, storeVars, ledger, LogIsKnown
  <1>3. ASSUME NEW w \in Workers, PaymentStep(w) PROVE UNCHANGED restocks /\ LogIsKnown
    BY <1>3, PaymentCreditsNothing
  <1>4. CASE \/ \E w \in Workers : \/ DeskStep(w) \/ FulfilmentStep(w) \/ Drop(w)
                                   \/ \E o \in Orders : Checkout(w, o)
             \/ \E o \in Orders : Sweep(o)
    BY <1>4, RowStepsCredit
  <1> QED BY <1>1, <1>2, <1>3, <1>4 DEF Next, Step

LEMMA NextCreditInv ==
    ASSUME TypeInv, CreditInv, [Next]_vars
    PROVE  CreditInv'
  BY TypeInvParts, NextCredits, QuietCredits, CreditKeeps

(* The units of an order go back to the shelf once for each look at the    *)
(* log that overlaps the first credit, whichever handlers run and however  *)
(* they interleave, and so not more often than requests can overlap.       *)
THEOREM UnitsComeBackOncePerLook == Spec => CreditedOncePerLook
  <1> DEFINE Few == \A o \in Orders : restocks[o] <= Cardinality(Workers)
             Again == \A o \in Orders :
                          restocks'[o] # restocks[o] /\ RestockLogged(o)
                              => \E w \in Looked(o) : req'[w] = Idle
  <1>1. TypeInv /\ CreditInv => Few
    <2> SUFFICES ASSUME TypeInv, CreditInv, NEW o \in Orders
                 PROVE  restocks[o] <= Cardinality(Workers)
      OBVIOUS
    <2>1. restocks[o] \in Nat
      BY TypeInvParts DEF LedgerTypeOK
    <2>2. restocks[o] = 0 \/ restocks[o] + Cardinality(Looked(o)) <= Cardinality(Workers)
      BY DEF CreditInv
    <2>3. Cardinality(Looked(o)) \in Nat /\ Cardinality(Workers) \in Nat
      BY LookedIsFinite, StoreAssumption, FS_CardinalityType
    <2> QED BY <2>1, <2>2, <2>3
  <1>2. ASSUME TypeInv, CreditInv, [Next]_vars PROVE Again
    <2>1. CASE UNCHANGED restocks
      BY <2>1
    <2>2. ASSUME NEW w \in Workers, NEW o \in Orders, Credit(w, o) PROVE Again
      <3>1. \A q \in Orders : q # o => restocks'[q] = restocks[q]
        BY <1>2, <2>2, TypeInvParts DEF Credit, LedgerTypeOK
      <3>2. req'[w] = Idle
        BY <1>2, <2>2, TypeInvParts DEF Credit, Done, ReqOK
      <3>3. ~RestockLogged(o) \/ w \in Looked(o)
        BY <2>2 DEF Credit, RestockLogged
      <3> QED BY <3>1, <3>2, <3>3
    <2> QED BY <1>2, <2>1, <2>2, NextCredits
  <1>3. TypeInv /\ CreditInv /\ [Next]_vars => [Again]_vars
    BY <1>2
  <1>4. TypeInv /\ CreditInv /\ [Next]_vars => CreditInv'
    BY NextCreditInv
  <1> QED BY InitTypeInv, NextTypeInv, InitCreditInv, <1>1, <1>3, <1>4, PTL
          DEF Spec, CreditedOncePerLook

(* Once, where requests take turns.                                        *)
THEOREM UnitsComeBackOnce ==
    ASSUME Cardinality(Workers) = 1
    PROVE  Spec => [](\A o \in Orders : restocks[o] <= 1)
  <1> DEFINE Few == \A o \in Orders : restocks[o] <= Cardinality(Workers)
             Once == \A o \in Orders : restocks[o] <= 1
  <1>1. Few => Once
    OBVIOUS
  <1>2. CreditedOncePerLook => []Few
    BY PTL DEF CreditedOncePerLook
  <1> QED BY UnitsComeBackOncePerLook, <1>1, <1>2, PTL

----------------------------------------------------------------------------
(* The counters are sums over the orders.                                  *)

(* Totals over finitely many orders.                                       *)
LEMMA TotalFact ==
    ASSUME IsFiniteSet(Orders), NEW S \in SUBSET Orders, NEW o \in Orders, NEW p \in Products
    PROVE  /\ Total(p, S) \in Nat
           /\ o \in S => /\ Items[o][p] <= Total(p, S)
                         /\ Total(p, S \ {o}) = Total(p, S) - Items[o][p]
           /\ o \notin S => Total(p, S \cup {o}) = Total(p, S) + Items[o][p]
  <1> DEFINE f == [q \in Orders |-> Items[q][p]]
  <1>1. \A q \in Orders : f[q] \in Nat /\ f[q] = Items[q][p]
    BY StoreAssumption
  <1>2. \A T \in SUBSET Orders : Total(p, T) = SumFunctionOnSet(f, T)
    BY DEF Total
  <1> HIDE DEF f
  <1>3. ASSUME NEW T \in SUBSET Orders
        PROVE  IsFiniteSet(T) /\ SumFunctionOnSet(f, T) \in Nat
    BY <1>1, FS_Subset, SumOfSome
  <1>4. ASSUME NEW T \in SUBSET Orders, o \in T
        PROVE  SumFunctionOnSet(f, T) = f[o] + SumFunctionOnSet(f, T \ {o})
    <2>1. \A x \in T : f[x] \in Int
      BY <1>1
    <2> QED BY <1>3, <1>4, <2>1, SumStep
  <1>5. S \ {o} \in SUBSET Orders /\ S \cup {o} \in SUBSET Orders
    OBVIOUS
  <1>6. CASE o \in S
    <2>1. /\ Total(p, S) = SumFunctionOnSet(f, S)
          /\ Total(p, S \ {o}) = SumFunctionOnSet(f, S \ {o})
      BY <1>2, <1>5
    <2>2. SumFunctionOnSet(f, S) \in Nat /\ SumFunctionOnSet(f, S \ {o}) \in Nat
      BY <1>3, <1>5
    <2>3. SumFunctionOnSet(f, S) = Items[o][p] + SumFunctionOnSet(f, S \ {o}) /\ Items[o][p] \in Nat
      BY <1>1, <1>4, <1>6
    <2> QED BY <1>6, <2>1, <2>2, <2>3
  <1>7. CASE o \notin S
    <2>1. (S \cup {o}) \ {o} = S /\ o \in S \cup {o}
      BY <1>7
    <2>2. SumFunctionOnSet(f, S \cup {o}) = f[o] + SumFunctionOnSet(f, S)
      BY <1>4, <1>5, <2>1
    <2> QED BY <1>1, <1>2, <1>3, <1>5, <1>7, <2>2
  <1> QED BY <1>6, <1>7

LEMMA TotalOfNone == \A p : Total(p, {}) = 0
  BY SumEmpty DEF Total

----------------------------------------------------------------------------
(* What a step does to the claims.                                         *)

Exchange(o, from, to) ==
    /\ ClaimOf(o) = from /\ ClaimOf(o)' = to
    /\ \A q \in Orders : q # o => ClaimOf(q)' = ClaimOf(q)

NoExchange == \A q \in Orders : ClaimOf(q)' = ClaimOf(q)

(* An order's claim says in which of the two sets it is.                   *)
LEMMA ClaimSets ==
    /\ Holding = {o \in Orders : ClaimOf(o) = "held"}
    /\ Selling = {o \in Orders : ClaimOf(o) = "sold"}
  BY DEF Holding, Selling, ClaimOf, Exists, DeductedStatuses

LEMMA ClaimSetsPrime ==
    /\ Holding' = {o \in Orders : ClaimOf(o)' = "held"}
    /\ Selling' = {o \in Orders : ClaimOf(o)' = "sold"}
  BY DEF Holding, Selling, ClaimOf, Exists, DeductedStatuses

(* How the counters move when units of o change hands.                     *)
Moves(o, onShelf, inHold, inSales) ==
    /\ available' = [p \in Products |-> available[p] + onShelf * Items[o][p]]
    /\ reserved' = [p \in Products |-> reserved[p] + inHold * Items[o][p]]
    /\ sold' = [p \in Products |-> sold[p] + inSales * Items[o][p]]

StockExchange(o) ==
    \/ Exchange(o, "none", "held") /\ Moves(o, -1, 1, 0) /\ \A p \in Products : Items[o][p] <= available[p]
    \/ Exchange(o, "none", "sold") /\ Moves(o, -1, 0, 1) /\ \A p \in Products : Items[o][p] <= available[p]
    \/ Exchange(o, "held", "sold") /\ Moves(o, 0, -1, 1)
    \/ Exchange(o, "held", "back") /\ Moves(o, 1, -1, 0)
    \/ Exchange(o, "sold", "back") /\ Moves(o, 1, 0, -1)

StockStays == NoExchange /\ UNCHANGED <<available, reserved, sold>>

LEMMA StaysKeepsCounters ==
    ASSUME CountersMatchOrders, StockStays
    PROVE  CountersMatchOrders'
  <1>1. Holding' = Holding /\ Selling' = Selling
    BY ClaimSets, ClaimSetsPrime DEF StockStays, NoExchange
  <1> QED BY <1>1 DEF CountersMatchOrders, ReservedMatchesOrders, SoldMatchesOrders, StockStays,
                      InFlow, Total

LEMMA ExchangeKeepsCounters ==
    ASSUME IsFiniteSet(Orders), LedgerTypeOK, CountersMatchOrders,
           NEW o \in Orders, StockExchange(o)
    PROVE  CountersMatchOrders'
  <1>1. /\ Holding \in SUBSET Orders /\ Selling \in SUBSET Orders
        /\ ClaimOf(o) = "held" <=> o \in Holding
        /\ ClaimOf(o) = "sold" <=> o \in Selling
    BY ClaimSets
  <1>2. /\ Holding' = IF ClaimOf(o)' = "held" THEN Holding \cup {o} ELSE Holding \ {o}
        /\ Selling' = IF ClaimOf(o)' = "sold" THEN Selling \cup {o} ELSE Selling \ {o}
    BY ClaimSets, ClaimSetsPrime DEF StockExchange, Exchange
  <1>3. ASSUME NEW p \in Products
        PROVE  /\ reserved'[p] = Total(p, Holding')
               /\ sold'[p] = Total(p, Selling')
               /\ InFlow(p)' = InitialStock[p]
    <2>1. /\ available[p] \in Nat /\ reserved[p] \in Nat /\ sold[p] \in Nat
          /\ Items[o][p] \in Nat
      BY StoreAssumption DEF LedgerTypeOK
    <2>2. /\ reserved[p] = Total(p, Holding) /\ sold[p] = Total(p, Selling)
          /\ available[p] + reserved[p] + sold[p] = InitialStock[p]
      BY DEF CountersMatchOrders, ReservedMatchesOrders, SoldMatchesOrders, InFlow
    <2>3. /\ o \in Holding => Total(p, Holding \ {o}) = Total(p, Holding) - Items[o][p]
          /\ o \notin Holding => /\ Total(p, Holding \cup {o}) = Total(p, Holding) + Items[o][p]
                                 /\ Holding \ {o} = Holding
      BY <1>1, TotalFact
    <2>4. /\ o \in Selling => Total(p, Selling \ {o}) = Total(p, Selling) - Items[o][p]
          /\ o \notin Selling => /\ Total(p, Selling \cup {o}) = Total(p, Selling) + Items[o][p]
                                 /\ Selling \ {o} = Selling
      BY <1>1, TotalFact
    <2> DEFINE u == Items[o][p]
    <2>6. CASE Exchange(o, "none", "held") /\ Moves(o, -1, 1, 0)
      <3>1. /\ available'[p] = available[p] - Items[o][p]
            /\ reserved'[p] = reserved[p] + Items[o][p]
            /\ sold'[p] = sold[p]
        BY <2>1, <2>6 DEF Moves
      <3>2. ClaimOf(o) = "none" /\ ClaimOf(o)' = "held"
        BY <2>6 DEF Exchange
      <3>3. /\ o \notin Holding
            /\ o \notin Selling
        BY <1>1, <3>2
      <3>4. /\ Total(p, Holding') = Total(p, Holding) + u
            /\ Total(p, Selling') = Total(p, Selling)
        BY <1>2, <2>3, <2>4, <3>2, <3>3
      <3>5. Total(p, Holding) \in Nat /\ Total(p, Selling) \in Nat
        BY <2>1, <2>2
      <3> HIDE DEF u
      <3> QED BY <2>1, <2>2, <3>1, <3>4, <3>5 DEF u, InFlow
    <2>7. CASE Exchange(o, "none", "sold") /\ Moves(o, -1, 0, 1)
      <3>1. /\ available'[p] = available[p] - Items[o][p]
            /\ reserved'[p] = reserved[p]
            /\ sold'[p] = sold[p] + Items[o][p]
        BY <2>1, <2>7 DEF Moves
      <3>2. ClaimOf(o) = "none" /\ ClaimOf(o)' = "sold"
        BY <2>7 DEF Exchange
      <3>3. /\ o \notin Holding
            /\ o \notin Selling
        BY <1>1, <3>2
      <3>4. /\ Total(p, Holding') = Total(p, Holding)
            /\ Total(p, Selling') = Total(p, Selling) + u
        BY <1>2, <2>3, <2>4, <3>2, <3>3
      <3>5. Total(p, Holding) \in Nat /\ Total(p, Selling) \in Nat
        BY <2>1, <2>2
      <3> HIDE DEF u
      <3> QED BY <2>1, <2>2, <3>1, <3>4, <3>5 DEF u, InFlow
    <2>8. CASE Exchange(o, "held", "sold") /\ Moves(o, 0, -1, 1)
      <3>1. /\ available'[p] = available[p]
            /\ reserved'[p] = reserved[p] - Items[o][p]
            /\ sold'[p] = sold[p] + Items[o][p]
        BY <2>1, <2>8 DEF Moves
      <3>2. ClaimOf(o) = "held" /\ ClaimOf(o)' = "sold"
        BY <2>8 DEF Exchange
      <3>3. /\ o \in Holding
            /\ o \notin Selling
        BY <1>1, <3>2
      <3>4. /\ Total(p, Holding') = Total(p, Holding) - u
            /\ Total(p, Selling') = Total(p, Selling) + u
        BY <1>2, <2>3, <2>4, <3>2, <3>3
      <3>5. Total(p, Holding) \in Nat /\ Total(p, Selling) \in Nat
        BY <2>1, <2>2
      <3> HIDE DEF u
      <3> QED BY <2>1, <2>2, <3>1, <3>4, <3>5 DEF u, InFlow
    <2>9. CASE Exchange(o, "held", "back") /\ Moves(o, 1, -1, 0)
      <3>1. /\ available'[p] = available[p] + Items[o][p]
            /\ reserved'[p] = reserved[p] - Items[o][p]
            /\ sold'[p] = sold[p]
        BY <2>1, <2>9 DEF Moves
      <3>2. ClaimOf(o) = "held" /\ ClaimOf(o)' = "back"
        BY <2>9 DEF Exchange
      <3>3. /\ o \in Holding
            /\ o \notin Selling
        BY <1>1, <3>2
      <3>4. /\ Total(p, Holding') = Total(p, Holding) - u
            /\ Total(p, Selling') = Total(p, Selling)
        BY <1>2, <2>3, <2>4, <3>2, <3>3
      <3>5. Total(p, Holding) \in Nat /\ Total(p, Selling) \in Nat
        BY <2>1, <2>2
      <3> HIDE DEF u
      <3> QED BY <2>1, <2>2, <3>1, <3>4, <3>5 DEF u, InFlow
    <2>10. CASE Exchange(o, "sold", "back") /\ Moves(o, 1, 0, -1)
      <3>1. /\ available'[p] = available[p] + Items[o][p]
            /\ reserved'[p] = reserved[p]
            /\ sold'[p] = sold[p] - Items[o][p]
        BY <2>1, <2>10 DEF Moves
      <3>2. ClaimOf(o) = "sold" /\ ClaimOf(o)' = "back"
        BY <2>10 DEF Exchange
      <3>3. /\ o \notin Holding
            /\ o \in Selling
        BY <1>1, <3>2
      <3>4. /\ Total(p, Holding') = Total(p, Holding)
            /\ Total(p, Selling') = Total(p, Selling) - u
        BY <1>2, <2>3, <2>4, <3>2, <3>3
      <3>5. Total(p, Holding) \in Nat /\ Total(p, Selling) \in Nat
        BY <2>1, <2>2
      <3> HIDE DEF u
      <3> QED BY <2>1, <2>2, <3>1, <3>4, <3>5 DEF u, InFlow
    <2> QED BY <2>6, <2>7, <2>8, <2>9, <2>10 DEF StockExchange
  <1> QED BY <1>3 DEF CountersMatchOrders, ReservedMatchesOrders, SoldMatchesOrders, Total

(* Each exchange is a step of the promise.                                 *)
LEMMA StaysKeepsPromise ==
    ASSUME StockStays
    PROVE  UNCHANGED Promise!promise
  BY DEF StockStays, NoExchange, Promise!promise

LEMMA ExchangeKeepsPromise ==
    ASSUME LedgerTypeOK, NEW o \in Orders, StockExchange(o)
    PROVE  Promise!Next
  <1>0. \A p \in Products : /\ available[p] \in Nat /\ reserved[p] \in Nat
                            /\ sold[p] \in Nat /\ Items[o][p] \in Nat
    BY StoreAssumption DEF LedgerTypeOK
  <1>1. \A from, to : Exchange(o, from, to) => Promise!Claim(o, from, to)
    BY DEF Exchange, Promise!Claim
  <1>2. \A p \in Products : /\ -1 * Items[o][p] = -Items[o][p] /\ 0 * Items[o][p] = 0
                            /\ 1 * Items[o][p] = Items[o][p]
    <2>1. \A n \in Nat : -1 * n = -n /\ 0 * n = 0 /\ 1 * n = n
      OBVIOUS
    <2> QED BY <1>0, <2>1
  <1>3. /\ [p \in Products |-> available[p]] = available
        /\ [p \in Products |-> reserved[p]] = reserved
        /\ [p \in Products |-> sold[p]] = sold
    BY DEF LedgerTypeOK
  <1>4. CASE Exchange(o, "none", "held") /\ Moves(o, -1, 1, 0) /\ \A p \in Products : Items[o][p] <= available[p]
    <2>1. /\ available' = [p \in Products |-> available[p] - Items[o][p]]
          /\ reserved' = [p \in Products |-> reserved[p] + Items[o][p]]
          /\ sold' = sold
      BY <1>0, <1>2, <1>3, <1>4 DEF Moves
    <2>2. Promise!Hold(o)
      BY <1>1, <1>4, <2>1 DEF Promise!Hold, Promise!Take, Promise!Minus, Promise!Plus
    <2> QED BY <2>2 DEF Promise!Next
  <1>5. CASE Exchange(o, "none", "sold") /\ Moves(o, -1, 0, 1) /\ \A p \in Products : Items[o][p] <= available[p]
    <2>1. /\ available' = [p \in Products |-> available[p] - Items[o][p]]
          /\ sold' = [p \in Products |-> sold[p] + Items[o][p]]
          /\ reserved' = reserved
      BY <1>0, <1>2, <1>3, <1>5 DEF Moves
    <2>2. Promise!SellAtOnce(o)
      BY <1>1, <1>5, <2>1 DEF Promise!SellAtOnce, Promise!Take, Promise!Minus, Promise!Plus
    <2> QED BY <2>2 DEF Promise!Next
  <1>6. CASE Exchange(o, "held", "sold") /\ Moves(o, 0, -1, 1)
    <2>1. /\ available' = available
          /\ reserved' = [p \in Products |-> reserved[p] - Items[o][p]]
          /\ sold' = [p \in Products |-> sold[p] + Items[o][p]]
      BY <1>0, <1>2, <1>3, <1>6 DEF Moves
    <2>2. Promise!Sell(o)
      BY <1>1, <1>6, <2>1 DEF Promise!Sell, Promise!Minus, Promise!Plus
    <2> QED BY <2>2 DEF Promise!Next
  <1>7. CASE Exchange(o, "held", "back") /\ Moves(o, 1, -1, 0)
    <2>1. /\ available' = [p \in Products |-> available[p] + Items[o][p]]
          /\ reserved' = [p \in Products |-> reserved[p] - Items[o][p]]
          /\ sold' = sold
      BY <1>0, <1>2, <1>3, <1>7 DEF Moves
    <2>2. Promise!LetGo(o)
      BY <1>1, <1>7, <2>1 DEF Promise!LetGo, Promise!Minus, Promise!Plus
    <2> QED BY <2>2 DEF Promise!Next
  <1>8. CASE Exchange(o, "sold", "back") /\ Moves(o, 1, 0, -1)
    <2>1. /\ available' = [p \in Products |-> available[p] + Items[o][p]]
          /\ sold' = [p \in Products |-> sold[p] - Items[o][p]]
          /\ reserved' = reserved
      BY <1>0, <1>2, <1>3, <1>8 DEF Moves
    <2>2. Promise!TakeBack(o)
      BY <1>1, <1>8, <2>1 DEF Promise!TakeBack, Promise!Minus, Promise!Plus
    <2> QED BY <2>2 DEF Promise!Next
  <1> QED BY <1>4, <1>5, <1>6, <1>7, <1>8 DEF StockExchange

----------------------------------------------------------------------------
(* Stock and orders.  Each handler keeps the books while what it read is   *)
(* still so, and the code holds no lock from the reading to the writing:   *)
(* the theorems say what has to hold in between.                           *)

(* A finite number of orders, the handlers that can share the books, and   *)
(* no money that arrives for an order nobody waits for any more.           *)
StockHandlers ==
    /\ IsFiniteSet(Orders)
    /\ Prompt
    /\ Handlers \subseteq {"checkout", "initiate", "verify", "captured", "failPayment",
                           "cancel", "sweep", "assign", "deliver"}

(* Nobody reports the payment of a cash order as failed, or sends a        *)
(* courier for an online order that is not paid.                           *)
CallsFit ==
    \A w \in Workers :
        LET kind == req[w].kind IN
        /\ kind = "failPayment" => req[w].order \notin CodOrders
        /\ kind \in {"assign", "deliver"} =>
              \/ req[w].order \in CodOrders
              \/ req[w].seen.status \notin {"PENDING_PAYMENT", "FAILED"}

(* Until a request ends, the rows it decides by stay as it read them, as   *)
(* if it had locked its order when it read it.  Confirmations of a payment *)
(* need no such lock: theirs is the capture gate.                          *)
Desks == {"cancel", "failPayment", "assign", "deliver"}

ReadHolds(w) ==
    LET o == req[w].order IN
    req'[w] # Idle =>
        /\ req[w].kind \in Desks => /\ orderStatus'[o] = orderStatus[o]
                                    /\ paymentStatus'[o] = paymentStatus[o]
                                    /\ delivery'[o] = delivery[o]
                                    /\ restocks'[o] = restocks[o]
        /\ req[w].kind = "initiate" => rzpOrder'[o] = rzpOrder[o]

ReadsHold == \A w \in Workers : ReadHolds(w)

(* Both are so when requests take turns; what must not run beside them is  *)
(* named then: payment-failed calls for cash orders, couriers for online   *)
(* ones, and a sweep beside a request that also gives up orders.           *)
StockInTurn ==
    /\ IsFiniteSet(Orders)
    /\ \A v, w \in Workers : v = w
    /\ Prompt
    /\ Handlers \subseteq {"checkout", "initiate", "verify", "captured", "failPayment",
                           "cancel", "sweep", "assign", "deliver"}
    /\ "failPayment" \in Handlers => CodOrders = {}
    /\ {"assign", "deliver"} \cap Handlers # {} => CodOrders = Orders
    /\ "sweep" \in Handlers => {"cancel", "failPayment"} \cap Handlers = {}

Keeping == DeductedStatuses \cup {"DELIVERED"}

(* The statuses an order can have, and what goes with them.                *)
StatusesFit ==
    \A o \in Orders :
        /\ IF o \in CodOrders
           THEN orderStatus[o] \in Keeping \cup {"NONE", "CANCELLED"}
           ELSE /\ orderStatus[o] \in Keeping \cup {"NONE", "PENDING_PAYMENT", "CANCELLED", "FAILED"}
                /\ orderStatus[o] \in Keeping => paymentStatus[o] = "PAID"
                /\ payment[o] # "REFUNDED"
                /\ orderStatus[o] \in {"NONE", "PENDING_PAYMENT"} => payment[o] = "PENDING"
                /\ payment[o] = "CAPTURED" => rzpOrder[o] # NoGatewayOrder
        /\ restocks[o] > 0 => orderStatus[o] \notin {"NONE", "PENDING_PAYMENT"}
        /\ orderStatus[o] = "DELIVERED" => delivery[o] = "DELIVERED"

(* Money on its way is for an order that waits for it, until it is         *)
(* recorded.                                                               *)
MoneyWaits ==
    \A g \in GatewayOrders :
        /\ gateway[g].order \notin CodOrders
        /\ gateway[g].state \in {"authorized", "captured"} =>
              payment[gateway[g].order] = "CAPTURED"
                  \/ orderStatus[gateway[g].order] = "PENDING_PAYMENT"

(* What the request of a worker read is still so.                          *)
Current(w) ==
    LET o == req[w].order
        kind == req[w].kind
    IN  /\ kind \in Handlers \cup {"idle"}
        /\ kind # "idle" => Exists(o)
        /\ kind \in Desks => /\ req[w].seen.status = orderStatus[o]
                             /\ req[w].seen.delivery = delivery[o]
        /\ kind = "cancel" => orderStatus[o] \notin {"CANCELLED", "DELIVERED"}
        /\ kind = "failPayment" => /\ o \notin CodOrders
                                   /\ paymentStatus[o] # "PAID"
                                   /\ orderStatus[o] \notin {"CANCELLED", "FAILED"}
        /\ kind = "deliver" => /\ req[w].to \in ValidDeliveryTransitions(delivery[o])
                               /\ orderStatus[o] # "CANCELLED"
        /\ kind \in {"assign", "deliver"} => orderStatus[o] \in Keeping \cup {"CANCELLED"}
        /\ kind = "captured" => \/ req[w].seen.status = "PENDING_PAYMENT"
                                \/ orderStatus[o] # "PENDING_PAYMENT"
        /\ kind \in {"verify", "captured"} => rzpOrder[o] # NoGatewayOrder
        /\ kind = "initiate" => o \notin CodOrders /\ rzpOrder[o] = NoGatewayOrder

(* ... and what it found in the log.                                       *)
LogHolds(w) == CheckedLog(req[w]) => req[w].logged = RestockLogged(req[w].order)

RequestIsCurrent == \A w \in Workers : Current(w) /\ LogHolds(w)

RowsInv == StatusesFit /\ MoneyWaits /\ RequestIsCurrent

StockInv == CountersMatchOrders /\ RowsInv

(* The claim of an order, from its own row and the log.                    *)
LEMMA ClaimIs ==
    ASSUME NEW o \in Orders
    PROVE  ClaimOf(o) = IF orderStatus[o] = "NONE" THEN "none"
                        ELSE IF orderStatus[o] = "PENDING_PAYMENT" THEN "held"
                        ELSE IF orderStatus[o] \in Keeping /\ ~(restocks[o] > 0) THEN "sold"
                        ELSE "back"
  BY DEF ClaimOf, Exists, Holding, Selling, Keeping, RestockLogged

LEMMA ClaimIsPrime ==
    ASSUME NEW o \in Orders
    PROVE  ClaimOf(o)' = IF orderStatus'[o] = "NONE" THEN "none"
                         ELSE IF orderStatus'[o] = "PENDING_PAYMENT" THEN "held"
                         ELSE IF orderStatus'[o] \in Keeping /\ ~(restocks'[o] > 0) THEN "sold"
                         ELSE "back"
  BY DEF ClaimOf, Exists, Holding, Selling, Keeping, RestockLogged

OthersStay(o) ==
    \A q \in Orders : q # o => orderStatus'[q] = orderStatus[q] /\ restocks'[q] = restocks[q]

LEMMA ExchangeIs ==
    ASSUME NEW o \in Orders, OthersStay(o), NEW from, NEW to,
           ClaimOf(o) = from, ClaimOf(o)' = to
    PROVE  Exchange(o, from, to)
  BY ClaimIs, ClaimIsPrime DEF Exchange, OthersStay

LEMMA NoExchangeIs ==
    ASSUME NEW o \in Orders, OthersStay(o), ClaimOf(o)' = ClaimOf(o)
    PROVE  NoExchange
  BY ClaimIs, ClaimIsPrime DEF NoExchange, OthersStay

LEMMA SameClaims == UNCHANGED <<orderStatus, restocks>> => NoExchange
  BY ClaimIs, ClaimIsPrime DEF NoExchange

(* What an order holds is in the counters, so that no clamp bites.         *)
LEMMA HasUnits ==
    ASSUME IsFiniteSet(Orders), CountersMatchOrders, NEW o \in Orders
    PROVE  /\ ClaimOf(o) = "held" => \A p \in Products : Items[o][p] <= reserved[p]
           /\ ClaimOf(o) = "sold" => \A p \in Products : Items[o][p] <= sold[p]
  <1>1. /\ Holding \in SUBSET Orders /\ Selling \in SUBSET Orders
        /\ ClaimOf(o) = "held" => o \in Holding
        /\ ClaimOf(o) = "sold" => o \in Selling
    BY ClaimSets
  <1> QED BY <1>1, TotalFact DEF CountersMatchOrders, ReservedMatchesOrders, SoldMatchesOrders

LEMMA LedgerMoves ==
    ASSUME LedgerTypeOK, NEW o \in Orders
    PROVE  /\ ReserveStock(Items[o]) => Moves(o, -1, 1, 0)
           /\ /\ ReleaseReservation(Items[o])
              /\ \A p \in Products : Items[o][p] <= reserved[p]
              => Moves(o, 1, -1, 0)
           /\ /\ ConfirmDeduction(Items[o])
              /\ \A p \in Products : Items[o][p] <= reserved[p]
              => Moves(o, 0, -1, 1)
           /\ /\ CreditRestock(o, Items[o])
              /\ \A p \in Products : Items[o][p] <= sold[p]
              => Moves(o, 1, 0, -1)
  <1>1. \A p \in Products : /\ available[p] \in Nat /\ reserved[p] \in Nat
                            /\ sold[p] \in Nat /\ Items[o][p] \in Nat
    BY StoreAssumption DEF LedgerTypeOK
  <1>2. /\ \A p \in Products : Items[o][p] <= reserved[p] => AtMost(reserved[p], Items[o][p]) = Items[o][p]
        /\ \A p \in Products : Items[o][p] <= sold[p] => AtMost(sold[p], Items[o][p]) = Items[o][p]
    BY <1>1 DEF AtMost
  <1>3. /\ available = [p \in Products |-> available[p]]
        /\ reserved = [p \in Products |-> reserved[p]]
        /\ sold = [p \in Products |-> sold[p]]
    BY DEF LedgerTypeOK
  <1>4. /\ [p \in Products |-> available[p] + 0 * Items[o][p]] = available
        /\ [p \in Products |-> reserved[p] + 0 * Items[o][p]] = reserved
        /\ [p \in Products |-> sold[p] + 0 * Items[o][p]] = sold
    BY <1>1, <1>3
  <1>5. ReserveStock(Items[o]) => Moves(o, -1, 1, 0)
    BY <1>1, <1>4 DEF ReserveStock, Moves
  <1>6. ASSUME ReleaseReservation(Items[o]), \A p \in Products : Items[o][p] <= reserved[p]
        PROVE  Moves(o, 1, -1, 0)
    <2>1. /\ available' = [p \in Products |-> available[p] + Items[o][p]]
          /\ reserved' = [p \in Products |-> reserved[p] - Items[o][p]]
          /\ sold' = sold
      BY <1>2, <1>6 DEF ReleaseReservation
    <2> QED BY <1>1, <1>4, <2>1 DEF Moves
  <1>7. ASSUME ConfirmDeduction(Items[o]), \A p \in Products : Items[o][p] <= reserved[p]
        PROVE  Moves(o, 0, -1, 1)
    <2>1. /\ sold' = [p \in Products |-> sold[p] + Items[o][p]]
          /\ reserved' = [p \in Products |-> reserved[p] - Items[o][p]]
          /\ available' = available
      BY <1>2, <1>7 DEF ConfirmDeduction
    <2> QED BY <1>1, <1>4, <2>1 DEF Moves
  <1>8. ASSUME CreditRestock(o, Items[o]), \A p \in Products : Items[o][p] <= sold[p]
        PROVE  Moves(o, 1, 0, -1)
    <2>1. /\ available' = [p \in Products |-> available[p] + Items[o][p]]
          /\ sold' = [p \in Products |-> sold[p] - Items[o][p]]
          /\ reserved' = reserved
      BY <1>2, <1>8 DEF CreditRestock
    <2> QED BY <1>1, <1>4, <2>1 DEF Moves
  <1> QED BY <1>5, <1>6, <1>7, <1>8
----------------------------------------------------------------------------

StockReady == StockHandlers /\ MoneyInv /\ StockInv

(* Units of one order change hands, or none do.                            *)
StockStep == StockStays \/ \E o \in Orders : StockExchange(o)

LEMMA ReadyFacts ==
    ASSUME StockReady
    PROVE  /\ TypeInv /\ LedgerTypeOK /\ RowsOK /\ ReqOK /\ GatewayOK
           /\ CountersMatchOrders /\ IsFiniteSet(Orders)
           /\ StatusesFit /\ MoneyWaits /\ RequestIsCurrent
           /\ \A w \in Workers : req[w].kind \in Handlers \cup {"idle"}
  <1>1. \A w \in Workers : req[w].kind \in Handlers \cup {"idle"}
    BY DEF StockReady, StockInv, RowsInv, RequestIsCurrent, Current
  <1> QED BY <1>1, TypeInvParts DEF StockReady, StockHandlers, MoneyInv, StockInv, RowsInv

LEMMA CurrentFact ==
    ASSUME StockReady, NEW w \in Workers
    PROVE  Current(w) /\ LogHolds(w)
  BY ReadyFacts DEF RequestIsCurrent

(* An order that exists stays, does not wait for its payment again, and    *)
(* keeps a gateway order on record.                                        *)
RowsGrow ==
    \A o \in Orders :
        /\ orderStatus[o] # "NONE" => /\ orderStatus'[o] # "NONE"
                                      /\ orderStatus'[o] = "PENDING_PAYMENT" => orderStatus[o] = "PENDING_PAYMENT"
        /\ rzpOrder[o] # NoGatewayOrder => rzpOrder'[o] # NoGatewayOrder

LEMMA SameRowsGrow == UNCHANGED <<orderStatus, rzpOrder>> => RowsGrow
  BY DEF RowsGrow

(* A request that goes on is still current, when what it read holds.       *)
LEMMA StillCurrent ==
    ASSUME StockReady, ReadsHold, RowsGrow, NEW v \in Workers, req[v].kind # "idle",
           req'[v].kind = req[v].kind, req'[v].order = req[v].order,
           req'[v].to = req[v].to, req'[v].seen = req[v].seen,
           CheckedLog(req'[v]) => req'[v].logged = RestockLogged(req[v].order)
    PROVE  Current(v)' /\ LogHolds(v)'
  <1> PICK o : o = req[v].order
    OBVIOUS
  <1> PICK kind : kind = req[v].kind
    OBVIOUS
  <1>0. Current(v) /\ req'[v] # Idle
    BY CurrentFact DEF Idle
  <1>1. kind \in Kinds \cup {"checkout", "sweep"}
    BY <1>0 DEF Current, StockReady, StockHandlers, Kinds
  <1>2. kind \in Kinds
    BY <1>1, ReadyFacts DEF ReqOK, Requests, Idle
  <1>3. o \in Orders
    BY <1>2, ServingFact, ReadyFacts DEF Requests
  <1>4. /\ kind \in Desks => /\ orderStatus'[o] = orderStatus[o]
                             /\ paymentStatus'[o] = paymentStatus[o]
                             /\ delivery'[o] = delivery[o]
                             /\ restocks'[o] = restocks[o]
        /\ kind = "initiate" => rzpOrder'[o] = rzpOrder[o]
    BY <1>0 DEF ReadsHold, ReadHolds
  <1>5. /\ orderStatus'[o] # "NONE" /\ orderStatus[o] # "NONE"
        /\ orderStatus'[o] = "PENDING_PAYMENT" => orderStatus[o] = "PENDING_PAYMENT"
        /\ rzpOrder[o] # NoGatewayOrder => rzpOrder'[o] # NoGatewayOrder
    BY <1>0, <1>3 DEF RowsGrow, Current, Exists
  <1>6. LogHolds(v)'
    <2>1. kind \in {"cancel", "assign", "deliver"} => RestockLogged(o)' = RestockLogged(o)
      BY <1>4 DEF Desks, RestockLogged
    <2>2. kind # "transition"
      BY <1>0 DEF Current, StockReady, StockHandlers
    <2> QED BY <2>1, <2>2 DEF LogHolds, CheckedLog
  <1>7. Current(v)'
    BY <1>0, <1>4, <1>5 DEF Current, Exists, Desks
  <1> QED BY <1>6, <1>7

LEMMA IdleIsCurrent ==
    ASSUME NEW v \in Workers, req'[v] = Idle
    PROVE  Current(v)' /\ LogHolds(v)'
  BY DEF Idle, Current, LogHolds, CheckedLog, Desks

(* So is one that waits while others move.                                 *)
LEMMA WaitingIsCurrent ==
    ASSUME StockReady, ReadsHold, RowsGrow, NEW v \in Workers, req'[v] = req[v]
    PROVE  Current(v)' /\ LogHolds(v)'
  <1>1. CASE req[v] = Idle
    BY <1>1, IdleIsCurrent
  <1>2. CASE req[v] # Idle
    <2>1. req[v] \in Requests
      BY <1>2, ReadyFacts DEF ReqOK
    <2>2. req[v].kind # "idle"
      BY <2>1 DEF Requests, Kinds
    <2>3. CheckedLog(req[v]) => req[v].logged = RestockLogged(req[v].order)
      BY CurrentFact DEF LogHolds
    <2> QED BY <2>2, <2>3, StillCurrent
  <1> QED BY <1>1, <1>2

LEMMA SameRequests ==
    ASSUME StockReady, ReadsHold, RowsGrow, UNCHANGED req
    PROVE  RequestIsCurrent'
  BY WaitingIsCurrent DEF RequestIsCurrent

LEMMA DoneIsCurrent ==
    ASSUME StockReady, ReadsHold, RowsGrow, NEW w \in Workers, Done(w)
    PROVE  RequestIsCurrent'
  <1>1. \A v \in Workers : req'[v] = IF v = w THEN Idle ELSE req[v]
    BY ReadyFacts DEF Done, ReqOK
  <1> QED BY <1>1, IdleIsCurrent, WaitingIsCurrent DEF RequestIsCurrent

(* A request that takes a step of its own and goes on.                     *)
LEMMA GoesOnIsCurrent ==
    ASSUME StockReady, ReadsHold, RowsGrow, NEW w \in Workers, req[w].kind # "idle",
           \A v \in Workers \ {w} : req'[v] = req[v],
           req'[w].kind = req[w].kind, req'[w].order = req[w].order,
           req'[w].to = req[w].to, req'[w].seen = req[w].seen,
           CheckedLog(req'[w]) => req'[w].logged = RestockLogged(req[w].order)
    PROVE  RequestIsCurrent'
  <1>1. Current(w)' /\ LogHolds(w)'
    BY StillCurrent
  <1>2. \A v \in Workers \ {w} : Current(v)' /\ LogHolds(v)'
    BY WaitingIsCurrent
  <1> QED BY <1>1, <1>2 DEF RequestIsCurrent

LEMMA SameRows ==
    ASSUME StockReady, UNCHANGED <<ledger, rows>>
    PROVE  StatusesFit' /\ StockStays /\ RowsGrow
  <1>1. UNCHANGED <<available, reserved, sold, restocks, orderStatus, paymentStatus, payment, delivery, rzpOrder>>
    BY DEF ledger, rows
  <1> QED BY <1>1, ReadyFacts, SameClaims, SameRowsGrow DEF StatusesFit, StockStays

LEMMA SameMoney ==
    ASSUME StockReady, UNCHANGED <<orderStatus, payment>>,
           \A g \in GatewayOrders : /\ gateway'[g].order = gateway[g].order
                                    /\ gateway'[g].state = gateway[g].state
    PROVE  MoneyWaits'
  BY ReadyFacts DEF MoneyWaits

(* A first query finds the rows as they are.                               *)
LEMMA BeginKeepsRows ==
    ASSUME StockReady, ReadsHold, CallsFit', UNCHANGED <<ledger, rows, gateway>>,
           NEW w \in Workers, NEW kind, NEW o \in Orders, NEW to, NEW g, NEW amount,
           Begin(w, kind, o, to, g, amount),
           kind = "cancel" => orderStatus[o] \notin {"CANCELLED", "DELIVERED"},
           kind = "failPayment" => paymentStatus[o] # "PAID" /\ orderStatus[o] \notin {"CANCELLED", "FAILED"},
           kind = "deliver" => to \in ValidDeliveryTransitions(delivery[o]) /\ orderStatus[o] # "CANCELLED",
           kind \in {"verify", "captured"} => rzpOrder[o] # NoGatewayOrder,
           kind = "initiate" => /\ o \notin CodOrders /\ orderStatus[o] = "PENDING_PAYMENT"
                                /\ ~(rzpOrder[o] # NoGatewayOrder /\ payment[o] = "PENDING")
    PROVE  RowsInv' /\ StockStep
  <1> DEFINE r == [kind |-> kind, order |-> o, step |-> "read", to |-> to, g |-> g,
                   amount |-> amount, seen |-> Seen(o), logged |-> FALSE]
  <1>1. req' = [req EXCEPT ![w] = r] /\ kind \in Handlers /\ Exists(o)
    BY DEF Begin
  <1>2. /\ r.kind = kind /\ r.order = o /\ r.to = to /\ r.step = "read"
        /\ r.seen.status = orderStatus[o] /\ r.seen.delivery = delivery[o]
    BY DEF Seen
  <1> HIDE DEF r
  <1>3. req'[w] = r /\ \A v \in Workers \ {w} : req'[v] = req[v]
    BY <1>1, ReadyFacts DEF ReqOK
  <1>4. UNCHANGED <<orderStatus, paymentStatus, payment, delivery, rzpOrder>>
    BY DEF rows
  <1>5. /\ kind = "failPayment" => o \notin CodOrders
        /\ kind \in {"assign", "deliver"} =>
              o \in CodOrders \/ orderStatus[o] \notin {"PENDING_PAYMENT", "FAILED"}
    BY <1>2, <1>3 DEF CallsFit
  <1>6. kind \in {"assign", "deliver"} => orderStatus[o] \in Keeping \cup {"CANCELLED"}
    BY <1>1, <1>5, ReadyFacts DEF StatusesFit, Exists
  <1>7. kind = "initiate" => rzpOrder[o] = NoGatewayOrder
    BY ReadyFacts DEF StatusesFit
  <1>8. Current(w)'
    BY <1>1, <1>2, <1>3, <1>4, <1>5, <1>6, <1>7 DEF Current, Exists, Desks
  <1>9. LogHolds(w)'
    BY <1>2, <1>3 DEF LogHolds, CheckedLog
  <1>10. RowsGrow
    BY <1>4, SameRowsGrow
  <1>11. RequestIsCurrent'
    BY <1>3, <1>8, <1>9, <1>10, WaitingIsCurrent DEF RequestIsCurrent
  <1>12. MoneyWaits' /\ StatusesFit' /\ StockStays
    BY <1>4, SameRows, SameMoney
  <1> QED BY <1>11, <1>12 DEF RowsInv, StockStep

LEMMA ReadsKeepRows ==
    ASSUME StockReady, ReadsHold, CallsFit', UNCHANGED gateway, NEW w \in Workers, NEW o \in Orders,
           \/ CancelRead(w, o) \/ FailPaymentRead(w, o) \/ AdminStatusRead(w, o)
           \/ TransitionRead(w, o) \/ AssignRead(w, o) \/ DeliverRead(w, o)
           \/ InitiateRead(w, o) \/ VerifyRead(w, o) \/ CapturedRead(w, o)
           \/ FailedRead(w, o) \/ RefundRead(w, o)
    PROVE  RowsInv' /\ StockStep
  <1>1. UNCHANGED <<ledger, rows, gateway>>
    BY DEF CancelRead, FailPaymentRead, AdminStatusRead, TransitionRead, AssignRead, DeliverRead,
           InitiateRead, VerifyRead, CapturedRead, FailedRead, RefundRead, storeVars
  <1>2. CASE CancelRead(w, o)
    BY <1>1, <1>2, BeginKeepsRows DEF CancelRead, Read
  <1>3. CASE FailPaymentRead(w, o)
    BY <1>1, <1>3, BeginKeepsRows DEF FailPaymentRead, Read
  <1>4. CASE AdminStatusRead(w, o) \/ TransitionRead(w, o)
    <2>1. PICK kind \in {"adminStatus", "transition"},
                to \in Transitions(orderStatus[o]) \cup ValidOrderTransitions(orderStatus[o]) :
              Read(w, kind, o, to)
      BY <1>4 DEF AdminStatusRead, TransitionRead
    <2> QED BY <1>1, <2>1, BeginKeepsRows DEF Read
  <1>5. CASE AssignRead(w, o)
    BY <1>1, <1>5, BeginKeepsRows DEF AssignRead, Read
  <1>6. CASE DeliverRead(w, o)
    <2>1. PICK to \in ValidDeliveryTransitions(delivery[o]) :
              Read(w, "deliver", o, to) /\ orderStatus[o] # "CANCELLED"
      BY <1>6 DEF DeliverRead
    <2> QED BY <1>1, <2>1, BeginKeepsRows DEF Read
  <1>7. CASE InitiateRead(w, o)
    BY <1>1, <1>7, BeginKeepsRows DEF InitiateRead, ReadPayment
  <1>8. CASE VerifyRead(w, o) \/ CapturedRead(w, o) \/ FailedRead(w, o)
    <2>1. PICK kind \in {"verify", "captured", "failed"}, g \in GatewayOrders :
              ReadPayment(w, kind, o, g, 0) /\ rzpOrder[o] = g
      BY <1>8 DEF VerifyRead, CapturedRead, FailedRead
    <2>2. rzpOrder[o] # NoGatewayOrder
      BY <2>1, StoreAssumption
    <2> QED BY <1>1, <2>1, <2>2, BeginKeepsRows DEF ReadPayment
  <1>9. CASE RefundRead(w, o)
    <2>1. PICK amount \in 1 .. Amount : ReadPayment(w, "refund", o, NoGatewayOrder, amount)
      BY <1>9 DEF RefundRead
    <2> QED BY <1>1, <2>1, BeginKeepsRows DEF ReadPayment
  <1> QED BY <1>2, <1>3, <1>4, <1>5, <1>6, <1>7, <1>8, <1>9

(* Checkout takes the units of an order nobody has seen yet.               *)
LEMMA CheckoutKeepsRows ==
    ASSUME StockReady, ReadsHold, UNCHANGED gateway, NEW w \in Workers, NEW o \in Orders, Checkout(w, o)
    PROVE  RowsInv' /\ StockStep
  <1>0. LedgerTypeOK /\ RowsOK /\ StatusesFit /\ MoneyWaits
    BY ReadyFacts
  <1>1. orderStatus[o] = "NONE" /\ restocks' = restocks /\ ~(restocks[o] > 0)
    BY <1>0 DEF Checkout, Exists, ReserveStock, StatusesFit
  <1>2. orderStatus' = [orderStatus EXCEPT ![o] = IF o \in CodOrders THEN "CONFIRMED" ELSE "PENDING_PAYMENT"]
    BY DEF Checkout, SetOrder
  <1>3. OthersStay(o)
    BY <1>0, <1>1, <1>2 DEF OthersStay, RowsOK
  <1>4. ClaimOf(o) = "none" /\ ClaimOf(o)' = IF o \in CodOrders THEN "sold" ELSE "held"
    BY <1>0, <1>1, <1>2, ClaimIs, ClaimIsPrime DEF RowsOK, Keeping, DeductedStatuses
  <1>5. StockExchange(o)
    <2>1. CASE o \in CodOrders
      <3>1. Moves(o, -1, 0, 1)
        <4>1. /\ available' = [p \in Products |-> available[p] - Items[o][p]]
              /\ sold' = [p \in Products |-> sold[p] + Items[o][p]]
              /\ reserved' = reserved
          BY <2>1 DEF Checkout
        <4>2. /\ \A p \in Products : available[p] \in Nat /\ reserved[p] \in Nat
                                     /\ sold[p] \in Nat /\ Items[o][p] \in Nat
              /\ reserved = [p \in Products |-> reserved[p]]
          BY <1>0, StoreAssumption DEF LedgerTypeOK
        <4>3. [p \in Products |-> reserved[p] + 0 * Items[o][p]] = reserved
          BY <4>2
        <4> QED BY <4>1, <4>2, <4>3 DEF Moves
      <3>2. Exchange(o, "none", "sold")
        BY <2>1, <1>3, <1>4, ExchangeIs
      <3> QED BY <3>1, <3>2 DEF Checkout, StockExchange
    <2>2. CASE o \notin CodOrders
      <3>1. Moves(o, -1, 1, 0)
        BY <2>2, <1>0, LedgerMoves DEF Checkout
      <3>2. Exchange(o, "none", "held")
        BY <2>2, <1>3, <1>4, ExchangeIs
      <3> QED BY <3>1, <3>2 DEF Checkout, StockExchange
    <2> QED BY <2>1, <2>2
  <1>6. StatusesFit'
    BY <1>0, <1>1, <1>2 DEF StatusesFit, Checkout, RowsOK, Keeping, DeductedStatuses
  <1>7. MoneyWaits'
    BY <1>0, <1>1, <1>2 DEF MoneyWaits, StatusesFit, Checkout, RowsOK
  <1>8. RequestIsCurrent'
    <2>1. RowsGrow
      BY <1>0, <1>1, <1>2 DEF RowsGrow, RowsOK, Checkout
    <2> QED BY <2>1, SameRequests DEF Checkout
  <1> QED BY <1>5, <1>6, <1>7, <1>8 DEF RowsInv, StockStep

(* What an order that waits for its payment held goes back.                *)
LEMMA ReleaseExchanges ==
    ASSUME StockReady, NEW o \in Orders, orderStatus[o] = "PENDING_PAYMENT",
           NEW to \in {"CANCELLED", "FAILED"},
           orderStatus' = [orderStatus EXCEPT ![o] = to], ReleaseReservation(Items[o])
    PROVE  StockExchange(o) /\ UNCHANGED restocks
  <1>0. LedgerTypeOK /\ RowsOK
    BY ReadyFacts
  <1>1. ClaimOf(o) = "held" /\ ClaimOf(o)' = "back"
    BY <1>0, ClaimIs, ClaimIsPrime DEF RowsOK, Keeping, DeductedStatuses
  <1>2. OthersStay(o) /\ UNCHANGED restocks
    BY <1>0 DEF OthersStay, RowsOK, ReleaseReservation
  <1>3. Moves(o, 1, -1, 0)
    BY <1>0, <1>1, HasUnits, LedgerMoves, ReadyFacts
  <1>4. Exchange(o, "held", "back")
    BY <1>1, <1>2, ExchangeIs
  <1> QED BY <1>2, <1>3, <1>4 DEF StockExchange

(* An order that is given up while it waits has no money under way.        *)
LEMMA GivenUpKeepsMoney ==
    ASSUME StockReady, ~GivesUpTooEarly, NEW o \in Orders, orderStatus[o] = "PENDING_PAYMENT",
           NEW to \in {"CANCELLED", "FAILED"},
           orderStatus' = [orderStatus EXCEPT ![o] = to], UNCHANGED gateway,
           \A q \in Orders : payment[q] = "CAPTURED" => payment'[q] = "CAPTURED"
    PROVE  MoneyWaits'
  <1>0. RowsOK /\ StatusesFit /\ MoneyWaits /\ Prompt
    BY ReadyFacts DEF StockReady, StockHandlers
  <1>1. ~Unsettled(o)
    <2>1. orderStatus'[o] = to
      BY <1>0 DEF RowsOK
    <2> QED BY <1>0, <2>1 DEF GivesUpTooEarly, MayGiveUp
  <1>2. o \notin CodOrders /\ payment[o] \notin {"CAPTURED", "REFUNDED"}
    BY <1>0 DEF StatusesFit, Keeping, DeductedStatuses
  <1>3. \A g \in GatewayOrders : gateway[g].state \in {"authorized", "captured"} => gateway[g].order # o
    BY <1>1, <1>2 DEF Unsettled
  <1>4. \A g \in GatewayOrders : gateway[g].state \in {"authorized", "captured"} => gateway[g].order \in Orders
    <2>1. GatewayOK /\ HandlersAreInformed
      BY ReadyFacts DEF StockReady, MoneyInv
    <2> QED BY <2>1 DEF HandlersAreInformed, Open, GatewayOK, GatewayRecords
  <1> QED BY <1>0, <1>3, <1>4 DEF MoneyWaits, RowsOK

LEMMA SweepKeepsRows ==
    ASSUME StockReady, ReadsHold, ~GivesUpTooEarly, UNCHANGED gateway, NEW o \in Orders, Sweep(o)
    PROVE  RowsInv' /\ StockStep
  <1>0. LedgerTypeOK /\ RowsOK /\ StatusesFit
    BY ReadyFacts
  <1>1. /\ orderStatus[o] = "PENDING_PAYMENT"
        /\ orderStatus' = [orderStatus EXCEPT ![o] = "CANCELLED"]
        /\ ReleaseReservation(Items[o])
        /\ UNCHANGED <<paymentStatus, payment, delivery, rzpOrder, req>>
    BY DEF Sweep, SetOrder
  <1>2. StockExchange(o) /\ UNCHANGED restocks
    BY <1>1, ReleaseExchanges
  <1>3. StatusesFit'
    BY <1>0, <1>1, <1>2 DEF StatusesFit, RowsOK, Keeping, DeductedStatuses
  <1>4. MoneyWaits'
    BY <1>1, GivenUpKeepsMoney
  <1>5. RowsGrow
    BY <1>0, <1>1 DEF RowsGrow, RowsOK, Sweep
  <1>6. RequestIsCurrent'
    BY <1>1, <1>5, SameRequests
  <1> QED BY <1>2, <1>3, <1>4, <1>6 DEF RowsInv, StockStep

----------------------------------------------------------------------------
(* Payments.                                                               *)

LEMMA GatewayKeepsRows ==
    ASSUME StockReady, ReadsHold, GatewayStep
    PROVE  RowsInv' /\ StockStep
  <1>0. GatewayOK /\ HandlersAreInformed /\ MoneyWaits /\ RequestIsCurrent /\ Prompt
    BY ReadyFacts DEF StockReady, StockHandlers, MoneyInv
  <1>1. PICK h \in GatewayOrders : Authorize(h) \/ Capture(h)
    BY DEF GatewayStep, AttemptFails, StockReady, StockHandlers
  <1>2. UNCHANGED <<ledger, rows, req>>
    BY <1>1 DEF Authorize, Capture, storeVars
  <1>3. UNCHANGED <<orderStatus, paymentStatus, payment, delivery>>
    BY <1>2 DEF rows
  <1>4. \A g \in GatewayOrders :
            /\ gateway'[g].order = gateway[g].order
            /\ gateway'[g].state \in {"authorized", "captured"} =>
                  \/ gateway[g].state \in {"authorized", "captured"}
                  \/ orderStatus[gateway[g].order] = "PENDING_PAYMENT"
    BY <1>0, <1>1 DEF Authorize, Capture, GatewayOK, GatewayRecords
  <1>5. MoneyWaits'
    BY <1>0, <1>3, <1>4 DEF MoneyWaits
  <1>6. RequestIsCurrent'
    BY <1>2, SameRequests, SameRows
  <1>7. StatusesFit' /\ StockStays
    BY <1>2, SameRows
  <1> QED BY <1>5, <1>6, <1>7 DEF RowsInv, StockStep

(* A request that only goes on to the gateway.                             *)
LEMMA AtGatewayKeepsRows ==
    ASSUME StockReady, ReadsHold, NEW w \in Workers, InitiateAtGateway(w) \/ VerifyAtGateway(w)
    PROVE  RowsInv' /\ StockStep
  <1>0. ReqOK /\ GatewayOK /\ HandlersAreInformed /\ MoneyWaits /\ RequestIsCurrent
    BY ReadyFacts DEF StockReady, MoneyInv
  <1>1. UNCHANGED <<ledger, rows>>
    BY DEF InitiateAtGateway, VerifyAtGateway, storeVars
  <1>2. UNCHANGED <<orderStatus, paymentStatus, payment, delivery>>
    BY <1>1 DEF rows
  <1>3. req[w] \in Requests
    BY <1>0, ServingFact DEF InitiateAtGateway, VerifyAtGateway, Serving, Kinds
  <1>4. /\ req'[w].kind = req[w].kind /\ req'[w].order = req[w].order
        /\ req'[w].to = req[w].to /\ req'[w].seen = req[w].seen
        /\ \A v \in Workers \ {w} : req'[v] = req[v]
    BY <1>0, <1>3 DEF InitiateAtGateway, VerifyAtGateway, ReqOK, Requests
  <1>5. RequestIsCurrent'
    <2>1. req[w].kind \in {"initiate", "verify"}
      BY DEF InitiateAtGateway, VerifyAtGateway, Serving
    <2>2. ~CheckedLog(req'[w]) /\ req[w].kind # "idle"
      BY <1>4, <2>1 DEF CheckedLog
    <2> QED BY <1>1, <1>4, <2>2, SameRows, GoesOnIsCurrent
  <1>6. MoneyWaits'
    <2>1. CASE VerifyAtGateway(w)
      BY <1>2, <2>1, SameMoney DEF VerifyAtGateway
    <2>2. CASE InitiateAtGateway(w)
      <3>1. PICK h \in GatewayOrders :
                ~Open(h) /\ gateway' = [gateway EXCEPT ![h].order = req[w].order]
        BY <2>2 DEF InitiateAtGateway
      <3>2. gateway[h].state = "created"
        BY <1>0, <3>1 DEF HandlersAreInformed
      <3>3. req[w].order \notin CodOrders
        BY <2>2, CurrentFact DEF Current, InitiateAtGateway, Serving
      <3>4. /\ gateway'[h].state = "created" /\ gateway'[h].order = req[w].order
            /\ \A g \in GatewayOrders : g # h => gateway'[g] = gateway[g]
        BY <1>0, <3>1, <3>2 DEF GatewayOK, GatewayRecords
      <3> QED BY <1>0, <1>2, <3>3, <3>4 DEF MoneyWaits
    <2> QED BY <2>1, <2>2
  <1>7. StatusesFit' /\ StockStays
    BY <1>1, SameRows
  <1> QED BY <1>5, <1>6, <1>7 DEF RowsInv, StockStep

LEMMA InitiateSaveKeepsRows ==
    ASSUME StockReady, ReadsHold, NEW w \in Workers, InitiateSave(w)
    PROVE  RowsInv' /\ StockStep
  <1> PICK o : o = req[w].order
    OBVIOUS
  <1> PICK h : h = req[w].g
    OBVIOUS
  <1>0. ReqOK /\ RowsOK /\ GatewayOK /\ HandlersAreInformed /\ MoneyWaits /\ RequestIsCurrent /\ StatusesFit
    BY ReadyFacts DEF StockReady, MoneyInv
  <1>1. req[w] \in Requests
    BY <1>0, ServingFact DEF InitiateSave, Serving, Kinds
  <1>2. /\ o \in Orders /\ o \notin CodOrders /\ h \in GatewayOrders /\ h # NoGatewayOrder
        /\ rzpOrder[o] = NoGatewayOrder /\ payment[o] # "CAPTURED"
    <2>1. o \in Orders /\ o \notin CodOrders /\ rzpOrder[o] = NoGatewayOrder
      BY <1>1, CurrentFact DEF Requests, Current, InitiateSave, Serving
    <2>2. h \in GatewayOrders /\ h # NoGatewayOrder
      BY <1>0, StoreAssumption DEF InitiateSave, HandlersAreInformed, Saving
    <2> QED BY <1>0, <2>1, <2>2 DEF StatusesFit
  <1>3. /\ payment' = [payment EXCEPT ![o] = "PENDING"]
        /\ rzpOrder' = [rzpOrder EXCEPT ![o] = h]
        /\ gateway' = [gateway EXCEPT ![h].state = "offered"]
        /\ UNCHANGED <<ledger, orderStatus, paymentStatus, delivery>> /\ Done(w)
    BY DEF InitiateSave, SetPayment
  <1>4. UNCHANGED <<available, reserved, sold, restocks>>
    BY <1>3 DEF ledger
  <1>5. StatusesFit'
    BY <1>0, <1>2, <1>3, <1>4 DEF StatusesFit, RowsOK
  <1>6. \A g \in GatewayOrders :
            /\ gateway'[g].order = gateway[g].order
            /\ gateway'[g].state \in {"authorized", "captured"} => gateway'[g].state = gateway[g].state
    BY <1>0, <1>2, <1>3 DEF GatewayOK, GatewayRecords
  <1>7. \A q : payment'[q] = "CAPTURED" \/ payment[q] # "CAPTURED" \/ q \notin Orders
    BY <1>0, <1>2, <1>3 DEF RowsOK
  <1>8. \A g \in GatewayOrders : gateway[g].state \in {"authorized", "captured"} => gateway[g].order \in Orders
    BY <1>0 DEF HandlersAreInformed, Open, GatewayOK, GatewayRecords
  <1>9. MoneyWaits'
    BY <1>0, <1>3, <1>6, <1>7, <1>8 DEF MoneyWaits
  <1>10. StockStays
    BY <1>3, <1>4, SameClaims DEF StockStays
  <1>11. RowsGrow
    BY <1>0, <1>2, <1>3 DEF RowsGrow, RowsOK
  <1> QED BY <1>3, <1>5, <1>9, <1>10, <1>11, DoneIsCurrent DEF RowsInv, StockStep

(* The two confirmations find the order still waiting.                     *)
LEMMA ConfirmKeepsRows ==
    ASSUME StockReady, ReadsHold, NEW w \in Workers, VerifyConfirm(w) \/ CapturedConfirm(w)
    PROVE  RowsInv' /\ StockStep
  <1>0. /\ LedgerTypeOK /\ ReqOK /\ RowsOK /\ GatewayOK /\ HandlersAreInformed
        /\ MoneyWaits /\ RequestIsCurrent /\ StatusesFit
    BY ReadyFacts DEF StockReady, MoneyInv
  <1>1. req[w] \in Requests
    BY <1>0, ServingFact DEF VerifyConfirm, CapturedConfirm, Serving, Kinds
  <1> PICK o : o = req[w].order
    OBVIOUS
  <1> PICK h : h = req[w].g
    OBVIOUS
  <1>2. /\ o \in Orders /\ h \in GatewayOrders
        /\ gateway[h].order = o /\ gateway[h].state = "captured"
    BY <1>0, <1>1 DEF Requests, VerifyConfirm, CapturedConfirm, Serving, HandlersAreInformed
  <1>3. o \notin CodOrders
    BY <1>0, <1>2 DEF MoneyWaits
  <1>4. Done(w) /\ UNCHANGED <<delivery, gateway, rzpOrder>>
    BY DEF VerifyConfirm, CapturedConfirm
  <1>5. rzpOrder[o] # NoGatewayOrder
    BY CurrentFact DEF Current, VerifyConfirm, CapturedConfirm, Serving
  <1>6. \/ UNCHANGED <<ledger, orderStatus, paymentStatus, payment>>
        \/ payment[o] # "CAPTURED" /\ SetPayment(o, "CAPTURED") /\ ConfirmOrder(o)
    <2>1. CASE VerifyConfirm(w)
      BY <2>1 DEF VerifyConfirm, CaptureGate
    <2>2. CASE CapturedConfirm(w)
      <3>1. CASE payment[o] # "CAPTURED"
        <4>1. orderStatus[o] = "PENDING_PAYMENT"
          BY <1>0, <1>2, <3>1 DEF MoneyWaits
        <4>2. req[w].seen.status = "PENDING_PAYMENT"
          BY <2>2, <4>1, CurrentFact DEF Current, CapturedConfirm, Serving
        <4> QED BY <2>2, <3>1, <4>2 DEF CapturedConfirm, CaptureGate
      <3>2. CASE payment[o] = "CAPTURED"
        BY <2>2, <3>2 DEF CapturedConfirm, CaptureGate
      <3> QED BY <3>1, <3>2
    <2> QED BY <2>1, <2>2
  <1>7. CASE UNCHANGED <<ledger, orderStatus, paymentStatus, payment>>
    <2>1. UNCHANGED <<available, reserved, sold, restocks>>
      BY <1>7 DEF ledger
    <2>2. StatusesFit'
      BY <1>0, <1>4, <1>7, <2>1 DEF StatusesFit
    <2>3. MoneyWaits' /\ StockStays
      BY <1>4, <1>7, <2>1, SameMoney, SameClaims DEF StockStays
    <2>4. RequestIsCurrent'
      BY <1>4, <1>7, SameRowsGrow, DoneIsCurrent
    <2> QED BY <2>2, <2>3, <2>4 DEF RowsInv, StockStep
  <1>8. CASE payment[o] # "CAPTURED" /\ SetPayment(o, "CAPTURED") /\ ConfirmOrder(o)
    <2>1. orderStatus[o] = "PENDING_PAYMENT"
      BY <1>0, <1>2, <1>8 DEF MoneyWaits
    <2>2. /\ payment' = [payment EXCEPT ![o] = "CAPTURED"]
          /\ orderStatus' = [orderStatus EXCEPT ![o] = "CONFIRMED"]
          /\ paymentStatus' = [paymentStatus EXCEPT ![o] = "PAID"]
          /\ ConfirmDeduction(Items[o]) /\ UNCHANGED restocks
      BY <1>8 DEF SetPayment, ConfirmOrder, SetOrder, SetPaid, ConfirmDeduction
    <2>3. ~(restocks[o] > 0)
      BY <1>0, <1>2, <2>1 DEF StatusesFit
    <2>4. ClaimOf(o) = "held" /\ ClaimOf(o)' = "sold"
      BY <1>0, <1>2, <2>1, <2>2, <2>3, ClaimIs, ClaimIsPrime DEF RowsOK, Keeping, DeductedStatuses
    <2>5. Exchange(o, "held", "sold")
      <3>1. OthersStay(o)
        BY <1>0, <1>2, <2>2 DEF OthersStay, RowsOK
      <3> QED BY <1>2, <2>4, <3>1, ExchangeIs
    <2>6. Moves(o, 0, -1, 1)
      BY <1>2, <2>2, <2>4, HasUnits, LedgerMoves, ReadyFacts
    <2>7. StockStep
      BY <1>2, <2>5, <2>6 DEF StockExchange, StockStep
    <2>8. StatusesFit'
      BY <1>0, <1>2, <1>3, <1>4, <1>5, <2>2, <2>3 DEF StatusesFit, RowsOK, Keeping, DeductedStatuses
    <2>9. \A q \in Orders : q # o => payment'[q] = payment[q] /\ orderStatus'[q] = orderStatus[q]
      BY <1>0, <2>2 DEF RowsOK
    <2>10. payment'[o] = "CAPTURED"
      BY <1>0, <1>2, <2>2 DEF RowsOK
    <2>11. \A g \in GatewayOrders : gateway[g].state \in {"authorized", "captured"} => gateway[g].order \in Orders
      BY <1>0 DEF HandlersAreInformed, Open, GatewayOK, GatewayRecords
    <2>12. MoneyWaits'
      BY <1>0, <1>4, <2>9, <2>10, <2>11 DEF MoneyWaits
    <2>13. RowsGrow
      BY <1>0, <1>2, <1>4, <2>1, <2>2 DEF RowsGrow, RowsOK
    <2>14. RequestIsCurrent'
      BY <1>4, <2>13, DoneIsCurrent
    <2> QED BY <2>7, <2>8, <2>12, <2>14 DEF RowsInv
  <1> QED BY <1>6, <1>7, <1>8

----------------------------------------------------------------------------
(* Desks.                                                                  *)

(* restockOrder with an up-to-date check, of an order that has its units   *)
(* sold or back already.                                                   *)
LEMMA RestockExchanges ==
    ASSUME StockReady, NEW o \in Orders, orderStatus[o] \in DeductedStatuses,
           RestockOrder(o, Items[o], RestockLogged(o)),
           \A q \in Orders : q # o => orderStatus'[q] = orderStatus[q],
           orderStatus'[o] \in DeductedStatuses \cup {"CANCELLED"}
    PROVE  StockStep /\ restocks'[o] > 0 /\ \A q \in Orders : q # o => restocks'[q] = restocks[q]
  <1>0. LedgerTypeOK
    BY ReadyFacts
  <1>1. CASE RestockLogged(o)
    <2>1. UNCHANGED <<available, reserved, sold, restocks>>
      BY <1>1 DEF RestockOrder, ledger
    <2>2. restocks[o] > 0
      BY <1>1 DEF RestockLogged
    <2>3. ClaimOf(o)' = ClaimOf(o)
      BY <2>1, <2>2, ClaimIs, ClaimIsPrime DEF DeductedStatuses
    <2>4. NoExchange
      BY <2>1, <2>3, NoExchangeIs DEF OthersStay
    <2> QED BY <2>1, <2>2, <2>4 DEF StockStep, StockStays
  <1>2. CASE ~RestockLogged(o)
    <2>1. CreditRestock(o, Items[o])
      BY <1>2 DEF RestockOrder
    <2>2. /\ restocks' = [restocks EXCEPT ![o] = @ + 1] /\ restocks[o] \in Nat
          /\ restocks'[o] = restocks[o] + 1
          /\ \A q \in Orders : q # o => restocks'[q] = restocks[q]
      BY <1>0, <2>1 DEF CreditRestock, LedgerTypeOK
    <2>3. ~(restocks[o] > 0) /\ restocks'[o] > 0
      BY <1>2, <2>2 DEF RestockLogged
    <2>4. ClaimOf(o) = "sold" /\ ClaimOf(o)' = "back"
      BY <2>3, ClaimIs, ClaimIsPrime DEF DeductedStatuses, Keeping
    <2>5. Exchange(o, "sold", "back")
      BY <2>2, <2>4, ExchangeIs DEF OthersStay
    <2>6. Moves(o, 1, 0, -1)
      BY <1>0, <2>1, <2>4, HasUnits, LedgerMoves, ReadyFacts
    <2> QED BY <2>2, <2>3, <2>5, <2>6 DEF StockStep, StockExchange
  <1> QED BY <1>1, <1>2

(* A row is changed of an order that is not on its way to be paid.         *)
LEMMA SettledKeepsMoney ==
    ASSUME StockReady, UNCHANGED gateway, NEW o \in Orders, orderStatus[o] # "PENDING_PAYMENT",
           \A q \in Orders : /\ q # o => orderStatus'[q] = orderStatus[q]
                             /\ payment[q] = "CAPTURED" => payment'[q] = "CAPTURED"
    PROVE  MoneyWaits'
  <1>1. \A g \in GatewayOrders : gateway[g].state \in {"authorized", "captured"} => gateway[g].order \in Orders
    <2>1. GatewayOK /\ HandlersAreInformed
      BY ReadyFacts DEF StockReady, MoneyInv
    <2> QED BY <2>1 DEF HandlersAreInformed, Open, GatewayOK, GatewayRecords
  <1> QED BY <1>1, ReadyFacts DEF MoneyWaits

LEMMA CancelWriteKeepsRows ==
    ASSUME StockReady, ReadsHold, ~GivesUpTooEarly, UNCHANGED gateway, NEW w \in Workers, CancelWrite(w)
    PROVE  RowsInv' /\ StockStep
  <1> PICK o : o = req[w].order
    OBVIOUS
  <1>0. LedgerTypeOK /\ ReqOK /\ RowsOK /\ StatusesFit
    BY ReadyFacts
  <1>1. req[w] \in Requests
    BY <1>0, ServingFact DEF CancelWrite, Serving, Kinds
  <1>2. /\ o \in Orders /\ req[w].seen.status = orderStatus[o] /\ Exists(o)
        /\ orderStatus[o] \notin {"NONE", "CANCELLED", "DELIVERED"}
    BY <1>1, CurrentFact DEF Requests, CancelWrite, Serving, Current, Exists, Desks
  <1>3. /\ orderStatus' = [orderStatus EXCEPT ![o] = "CANCELLED"]
        /\ delivery' = [delivery EXCEPT ![o] = "CANCELLED"]
        /\ UNCHANGED <<paymentStatus, payment, rzpOrder>> /\ Done(w)
        /\ CASE orderStatus[o] \in DeductedStatuses -> RestockOrder(o, Items[o], RestockLogged(o))
             [] orderStatus[o] \in {"FAILED", "PAYMENT_FAILED"} -> UNCHANGED ledger
             [] OTHER -> ReleaseReservation(Items[o])
    BY <1>2 DEF CancelWrite, SetOrder, CancelDelivery, SetDelivery, RestockUnderLock
  <1>4. RequestIsCurrent'
    <2>1. RowsGrow
      BY <1>0, <1>2, <1>3 DEF RowsGrow, RowsOK
    <2> QED BY <1>3, <2>1, DoneIsCurrent
  <1>5. /\ orderStatus'[o] = "CANCELLED" /\ delivery'[o] = "CANCELLED"
        /\ \A q \in Orders : q # o => orderStatus'[q] = orderStatus[q] /\ delivery'[q] = delivery[q]
    BY <1>0, <1>2, <1>3 DEF RowsOK
  <1>6. ASSUME \A q \in Orders : q # o => restocks'[q] = restocks[q]
        PROVE  StatusesFit'
    BY <1>0, <1>2, <1>3, <1>5, <1>6 DEF StatusesFit, Keeping, DeductedStatuses
  <1>7. CASE orderStatus[o] \in DeductedStatuses
    <2>1. RestockOrder(o, Items[o], RestockLogged(o))
      BY <1>3, <1>7 DEF DeductedStatuses
    <2>2. StockStep /\ \A q \in Orders : q # o => restocks'[q] = restocks[q]
      BY <1>2, <1>5, <1>7, <2>1, RestockExchanges
    <2>3. MoneyWaits'
      BY <1>2, <1>3, <1>5, <1>7, SettledKeepsMoney DEF DeductedStatuses
    <2> QED BY <1>4, <1>6, <2>2, <2>3 DEF RowsInv
  <1>8. CASE orderStatus[o] = "PENDING_PAYMENT"
    <2>1. ReleaseReservation(Items[o])
      BY <1>3, <1>8 DEF DeductedStatuses
    <2>2. StockExchange(o) /\ UNCHANGED restocks
      BY <1>2, <1>3, <1>8, <2>1, ReleaseExchanges
    <2>3. MoneyWaits'
      BY <1>2, <1>3, <1>8, GivenUpKeepsMoney
    <2> QED BY <1>2, <1>4, <1>6, <2>2, <2>3 DEF RowsInv, StockStep
  <1>9. CASE orderStatus[o] = "FAILED"
    <2>1. UNCHANGED <<available, reserved, sold, restocks>>
      BY <1>3, <1>9 DEF DeductedStatuses, ledger
    <2>2. ClaimOf(o)' = ClaimOf(o)
      BY <1>2, <1>5, <1>9, ClaimIs, ClaimIsPrime DEF Keeping, DeductedStatuses
    <2>3. StockStays
      BY <1>2, <1>5, <2>1, <2>2, NoExchangeIs DEF StockStays, OthersStay
    <2>4. MoneyWaits'
      BY <1>2, <1>3, <1>5, <1>9, SettledKeepsMoney
    <2> QED BY <1>4, <1>6, <2>1, <2>3, <2>4 DEF RowsInv, StockStep
  <1>10. orderStatus[o] \in DeductedStatuses \cup {"PENDING_PAYMENT", "FAILED"}
    BY <1>0, <1>2 DEF StatusesFit, Keeping, DeductedStatuses
  <1> QED BY <1>7, <1>8, <1>9, <1>10

LEMMA FailPaymentWriteKeepsRows ==
    ASSUME StockReady, ReadsHold, ~GivesUpTooEarly, UNCHANGED gateway, NEW w \in Workers, FailPaymentWrite(w)
    PROVE  RowsInv' /\ StockStep
  <1> PICK o : o = req[w].order
    OBVIOUS
  <1>0. LedgerTypeOK /\ ReqOK /\ RowsOK /\ StatusesFit
    BY ReadyFacts
  <1>1. req[w] \in Requests
    BY <1>0, ServingFact DEF FailPaymentWrite, Serving, Kinds
  <1>2. o \in Orders /\ o \notin CodOrders
    BY <1>1, CurrentFact DEF Requests, Current, FailPaymentWrite, Serving
  <1>3. orderStatus[o] = "PENDING_PAYMENT"
    <2>1. /\ orderStatus[o] \notin {"NONE", "CANCELLED", "FAILED"}
          /\ paymentStatus[o] # "PAID"
      BY CurrentFact DEF FailPaymentWrite, Serving, Current, Exists
    <2> QED BY <1>0, <1>2, <2>1 DEF StatusesFit
  <1>4. /\ orderStatus' = [orderStatus EXCEPT ![o] = "FAILED"]
        /\ paymentStatus' = [paymentStatus EXCEPT ![o] = "FAILED"]
        /\ payment' = [payment EXCEPT ![o] = IF payment[o] = "CAPTURED" THEN "CAPTURED" ELSE "FAILED"]
        /\ ReleaseReservation(Items[o]) /\ Done(w) /\ UNCHANGED <<delivery, rzpOrder>>
    BY DEF FailPaymentWrite, SetOrder, SetPaid, SetPayment
  <1>5. RequestIsCurrent'
    <2>1. RowsGrow
      BY <1>0, <1>2, <1>3, <1>4 DEF RowsGrow, RowsOK
    <2> QED BY <1>4, <2>1, DoneIsCurrent
  <1>6. StockExchange(o) /\ UNCHANGED restocks
    BY <1>2, <1>3, <1>4, ReleaseExchanges
  <1>7. StatusesFit'
    BY <1>0, <1>2, <1>4, <1>6 DEF StatusesFit, RowsOK, Keeping, DeductedStatuses
  <1>8. \A q \in Orders : payment[q] = "CAPTURED" => payment'[q] = "CAPTURED"
    BY <1>0, <1>2, <1>4 DEF RowsOK
  <1>9. MoneyWaits'
    BY <1>2, <1>3, <1>4, <1>8, GivenUpKeepsMoney
  <1> QED BY <1>2, <1>5, <1>6, <1>7, <1>9 DEF RowsInv, StockStep

(* A courier's request is about an order that keeps its units.             *)
LEMMA CourierFacts ==
    ASSUME StockReady, NEW w \in Workers, NEW o, o = req[w].order,
           req[w] \in Requests, req[w].kind \in {"assign", "deliver"}
    PROVE  /\ o \in Orders
           /\ req[w].seen.status = orderStatus[o] /\ req[w].seen.delivery = delivery[o]
           /\ orderStatus[o] \in Keeping \cup {"CANCELLED"}
  BY CurrentFact DEF Requests, Current, Desks

LEMMA AssignWriteKeepsRows ==
    ASSUME StockReady, ReadsHold, UNCHANGED gateway, NEW w \in Workers, AssignWrite(w)
    PROVE  RowsInv' /\ StockStep
  <1> PICK o : o = req[w].order
    OBVIOUS
  <1>0. LedgerTypeOK /\ ReqOK /\ RowsOK /\ StatusesFit
    BY ReadyFacts
  <1>1. req[w] \in Requests
    BY <1>0, ServingFact DEF AssignWrite, Serving, Kinds
  <1>2. /\ o \in Orders
        /\ req[w].seen.status = orderStatus[o] /\ req[w].seen.delivery = delivery[o]
        /\ orderStatus[o] \in Keeping \cup {"CANCELLED"}
    BY <1>1, CourierFacts DEF AssignWrite, Serving
  <1>3. /\ UNCHANGED <<ledger, paymentStatus, payment, rzpOrder>> /\ Done(w)
        /\ delivery' = [delivery EXCEPT ![o] = IF delivery[o] = "PENDING" THEN "ASSIGNED" ELSE delivery[o]]
        /\ \/ UNCHANGED orderStatus
           \/ orderStatus[o] = "CONFIRMED" /\ orderStatus' = [orderStatus EXCEPT ![o] = "PROCESSING"]
    BY <1>2 DEF AssignWrite, SetDelivery, SetOrder
  <1>4. /\ UNCHANGED <<available, reserved, sold, restocks>>
        /\ \A q \in Orders : q # o => orderStatus'[q] = orderStatus[q] /\ delivery'[q] = delivery[q]
        /\ delivery[o] = "DELIVERED" => delivery'[o] = "DELIVERED"
        /\ \/ orderStatus'[o] = orderStatus[o]
           \/ orderStatus[o] = "CONFIRMED" /\ orderStatus'[o] = "PROCESSING"
    BY <1>0, <1>2, <1>3 DEF ledger, RowsOK
  <1>5. StatusesFit'
    BY <1>0, <1>2, <1>3, <1>4 DEF StatusesFit, Keeping, DeductedStatuses
  <1>6. ClaimOf(o)' = ClaimOf(o)
    BY <1>2, <1>4, ClaimIs, ClaimIsPrime DEF Keeping, DeductedStatuses
  <1>7. StockStays
    BY <1>2, <1>4, <1>6, NoExchangeIs DEF StockStays, OthersStay
  <1>8. MoneyWaits'
    BY <1>2, <1>3, <1>4, SettledKeepsMoney DEF Keeping, DeductedStatuses
  <1>9. RowsGrow
    BY <1>2, <1>3, <1>4 DEF RowsGrow
  <1> QED BY <1>3, <1>5, <1>7, <1>8, <1>9, DoneIsCurrent DEF RowsInv, StockStep

LEMMA ReturnCheckKeepsRows ==
    ASSUME StockReady, ReadsHold, UNCHANGED gateway, NEW w \in Workers, ReturnCheck(w)
    PROVE  RowsInv' /\ StockStep
  <1>0. ReqOK
    BY ReadyFacts
  <1>1. req[w] \in Requests
    BY <1>0, ServingFact DEF ReturnCheck, Serving, Kinds
  <1>2. UNCHANGED <<ledger, rows>>
    BY DEF ReturnCheck
  <1>3. UNCHANGED <<orderStatus, paymentStatus, payment, delivery>>
    BY <1>2 DEF rows
  <1>4. /\ req'[w].kind = req[w].kind /\ req'[w].order = req[w].order
        /\ req'[w].to = req[w].to /\ req'[w].seen = req[w].seen
        /\ req'[w].logged = RestockLogged(req[w].order)
        /\ \A v \in Workers \ {w} : req'[v] = req[v]
    BY <1>0, <1>1 DEF ReturnCheck, ReqOK, Requests
  <1>5. RequestIsCurrent'
    <2>1. req[w].kind # "idle"
      BY DEF ReturnCheck, Serving
    <2> QED BY <1>2, <1>4, <2>1, SameRows, GoesOnIsCurrent
  <1>6. MoneyWaits' /\ StatusesFit' /\ StockStays
    BY <1>2, <1>3, SameMoney, SameRows
  <1> QED BY <1>5, <1>6 DEF RowsInv, StockStep

LEMMA DeliverWriteKeepsRows ==
    ASSUME StockReady, ReadsHold, UNCHANGED gateway, NEW w \in Workers, DeliverWrite(w)
    PROVE  RowsInv' /\ StockStep
  <1> PICK o : o = req[w].order
    OBVIOUS
  <1> PICK to : to = req[w].to
    OBVIOUS
  <1>0. LedgerTypeOK /\ ReqOK /\ RowsOK /\ StatusesFit
    BY ReadyFacts
  <1>1. req[w] \in Requests
    BY <1>0, ServingFact DEF DeliverWrite, Serving, Kinds
  <1>2. /\ o \in Orders
        /\ req[w].seen.status = orderStatus[o]
        /\ orderStatus[o] \in Keeping \cup {"CANCELLED"}
    BY <1>1, CourierFacts DEF DeliverWrite, Serving
  <1>3. to \in ValidDeliveryTransitions(delivery[o]) /\ orderStatus[o] # "CANCELLED"
    BY CurrentFact DEF Current, DeliverWrite, Serving
  <1>4. orderStatus[o] \in DeductedStatuses
    <2>1. orderStatus[o] # "DELIVERED"
      BY <1>0, <1>2, <1>3 DEF StatusesFit, ValidDeliveryTransitions
    <2> QED BY <1>2, <1>3, <2>1 DEF Keeping
  <1>5. /\ delivery' = [delivery EXCEPT ![o] = to]
        /\ IF to \in DeliveryToOrderStatus THEN orderStatus' = [orderStatus EXCEPT ![o] = to]
           ELSE UNCHANGED orderStatus
        /\ payment' = payment \/ (o \in CodOrders /\ payment' = [payment EXCEPT ![o] = "CAPTURED"])
        /\ paymentStatus' = paymentStatus \/ paymentStatus' = [paymentStatus EXCEPT ![o] = "PAID"]
        /\ Done(w) /\ DisposeOnDelivery(w) /\ UNCHANGED rzpOrder
    BY DEF DeliverWrite, SetDelivery, SetOrder, SetPaid, SetPayment
  <1>6. /\ delivery'[o] = to
        /\ orderStatus'[o] = IF to \in DeliveryToOrderStatus THEN to ELSE orderStatus[o]
        /\ \A q \in Orders :
              /\ q # o => /\ orderStatus'[q] = orderStatus[q] /\ delivery'[q] = delivery[q]
                          /\ payment'[q] = payment[q] /\ paymentStatus'[q] = paymentStatus[q]
              /\ payment[q] = "CAPTURED" => payment'[q] = "CAPTURED"
              /\ payment'[q] # payment[q] => q \in CodOrders
              /\ paymentStatus[q] = "PAID" => paymentStatus'[q] = "PAID"
    BY <1>0, <1>2, <1>5 DEF RowsOK
  <1>7. orderStatus'[o] \in DeductedStatuses \cup {"DELIVERED", "CANCELLED"}
        /\ (orderStatus'[o] = "DELIVERED" => delivery'[o] = "DELIVERED")
    BY <1>4, <1>6 DEF DeliveryToOrderStatus, DeductedStatuses
  <1>8. MoneyWaits'
    BY <1>2, <1>4, <1>6, SettledKeepsMoney DEF DeductedStatuses
  <1>9. ASSUME \A q \in Orders : q # o => restocks'[q] = restocks[q]
        PROVE  StatusesFit'
    <2>1. ASSUME NEW q \in Orders, q # o
          PROVE  /\ IF q \in CodOrders
                    THEN orderStatus'[q] \in Keeping \cup {"NONE", "CANCELLED"}
                    ELSE /\ orderStatus'[q] \in Keeping \cup {"NONE", "PENDING_PAYMENT", "CANCELLED", "FAILED"}
                         /\ orderStatus'[q] \in Keeping => paymentStatus'[q] = "PAID"
                         /\ payment'[q] # "REFUNDED"
                         /\ orderStatus'[q] \in {"NONE", "PENDING_PAYMENT"} => payment'[q] = "PENDING"
                         /\ payment'[q] = "CAPTURED" => rzpOrder'[q] # NoGatewayOrder
                 /\ restocks'[q] > 0 => orderStatus'[q] \notin {"NONE", "PENDING_PAYMENT"}
                 /\ orderStatus'[q] = "DELIVERED" => delivery'[q] = "DELIVERED"
      BY <1>0, <1>5, <1>6, <1>9, <2>1 DEF StatusesFit
    <2>2. /\ orderStatus'[o] \in Keeping \cup {"CANCELLED"}
          /\ orderStatus'[o] \notin {"NONE", "PENDING_PAYMENT"}
      BY <1>7 DEF Keeping, DeductedStatuses
    <2>3. o \notin CodOrders => /\ paymentStatus'[o] = "PAID"
                                /\ payment'[o] # "REFUNDED"
                                /\ payment'[o] = "CAPTURED" => rzpOrder'[o] # NoGatewayOrder
      BY <1>0, <1>2, <1>4, <1>5, <1>6 DEF StatusesFit, Keeping
    <2> QED BY <1>2, <1>7, <2>1, <2>2, <2>3 DEF StatusesFit
  <1>10. RequestIsCurrent'
    <2>1. RowsGrow
      BY <1>2, <1>4, <1>5, <1>6, <1>7 DEF RowsGrow, DeductedStatuses
    <2> QED BY <1>5, <2>1, DoneIsCurrent
  <1>11. CASE to \notin {"CANCELLED", "RETURNED"}
    <2>1. UNCHANGED <<available, reserved, sold, restocks>>
      BY <1>5, <1>11 DEF DisposeOnDelivery, ledger
    <2>2. orderStatus'[o] \in Keeping
      BY <1>4, <1>6, <1>11 DEF DeliveryToOrderStatus, DeductedStatuses, Keeping
    <2>3. ClaimOf(o)' = ClaimOf(o)
      BY <1>2, <1>4, <2>1, <2>2, ClaimIs, ClaimIsPrime DEF Keeping, DeductedStatuses
    <2>4. StockStays
      BY <1>2, <1>6, <2>1, <2>3, NoExchangeIs DEF StockStays, OthersStay
    <2> QED BY <1>8, <1>9, <1>10, <2>1, <2>4 DEF RowsInv, StockStep
  <1>12. CASE to \in {"CANCELLED", "RETURNED"}
    <2>1. RestockOrder(o, Items[o], RestockLogged(o))
      <3>1. CASE req[w].step = "checked"
        <4>1. req[w].logged = RestockLogged(o)
          BY <3>1, CurrentFact DEF LogHolds, CheckedLog, DeliverWrite, Serving
        <4> QED BY <1>5, <1>12, <3>1, <4>1 DEF DisposeOnDelivery
      <3>2. CASE req[w].step = "read"
        BY <1>2, <1>4, <1>5, <1>12, <3>2 DEF DisposeOnDelivery
      <3> QED BY <3>1, <3>2 DEF DeliverWrite, Serving
    <2>2. orderStatus'[o] \in DeductedStatuses \cup {"CANCELLED"}
      BY <1>4, <1>6, <1>12 DEF DeliveryToOrderStatus
    <2>3. StockStep /\ \A q \in Orders : q # o => restocks'[q] = restocks[q]
      BY <1>2, <1>4, <1>6, <2>1, <2>2, RestockExchanges
    <2> QED BY <1>8, <1>9, <1>10, <2>3 DEF RowsInv
  <1> QED BY <1>11, <1>12

----------------------------------------------------------------------------

(* The handlers that are not in use.                                       *)
LEMMA UnusedAreIdle ==
    ASSUME StockReady, NEW w \in Workers
    PROVE  /\ ~VerifyBadSignature(w) /\ ~FailedWrite(w) /\ ~RefundAtGateway(w) /\ ~RefundSave(w)
           /\ ~AdminStatusWrite(w) /\ ~TransitionCheck(w) /\ ~TransitionWrite(w)
  <1>1. req[w].kind \notin {"failed", "refund", "adminStatus", "transition"}
        /\ "badSignature" \notin Handlers
    BY ReadyFacts DEF StockReady, StockHandlers
  <1> QED BY <1>1 DEF VerifyBadSignature, FailedWrite, RefundAtGateway, RefundSave,
                      AdminStatusWrite, TransitionCheck, TransitionWrite, Serving

LEMMA NextRowsInv == StockReady /\ ReadsHold /\ CallsFit' /\ Next => RowsInv' /\ StockStep
  <1> SUFFICES ASSUME StockReady, ReadsHold, CallsFit', Next PROVE RowsInv' /\ StockStep
    OBVIOUS
  <1>0. ~GivesUpTooEarly
    BY DEF Next
  <1>1. CASE GatewayStep
    BY <1>1, GatewayKeepsRows
  <1>2. ASSUME NEW w \in Workers, PaymentStep(w) PROVE RowsInv' /\ StockStep
    <2>1. ASSUME NEW o \in Orders,
                 \/ InitiateRead(w, o) \/ VerifyRead(w, o) \/ CapturedRead(w, o)
                 \/ FailedRead(w, o) \/ RefundRead(w, o)
          PROVE  RowsInv' /\ StockStep
      <3>1. UNCHANGED gateway
        BY <2>1 DEF InitiateRead, VerifyRead, CapturedRead, FailedRead, RefundRead
      <3> QED BY <2>1, <3>1, ReadsKeepRows
    <2> QED BY <1>2, <2>1, UnusedAreIdle, AtGatewayKeepsRows, InitiateSaveKeepsRows, ConfirmKeepsRows
            DEF PaymentStep
  <1>3. ASSUME NEW w \in Workers, DeskStep(w) \/ FulfilmentStep(w) \/ Drop(w), UNCHANGED gateway
        PROVE  RowsInv' /\ StockStep
    <2>1. CASE Drop(w)
      <3>1. UNCHANGED <<ledger, rows>> /\ Done(w)
        BY <2>1 DEF Drop
      <3>2. StatusesFit' /\ StockStays /\ RowsGrow
        BY <3>1, SameRows
      <3>3. MoneyWaits'
        BY <1>3, <3>1, SameMoney DEF rows
      <3> QED BY <3>1, <3>2, <3>3, DoneIsCurrent DEF RowsInv, StockStep
    <2>2. ASSUME NEW o \in Orders,
                 \/ CancelRead(w, o) \/ FailPaymentRead(w, o) \/ AdminStatusRead(w, o)
                 \/ TransitionRead(w, o) \/ AssignRead(w, o) \/ DeliverRead(w, o)
          PROVE  RowsInv' /\ StockStep
      BY <1>3, <2>2, ReadsKeepRows
    <2> QED BY <1>0, <1>3, <2>1, <2>2, UnusedAreIdle, CancelWriteKeepsRows, FailPaymentWriteKeepsRows,
               AssignWriteKeepsRows, ReturnCheckKeepsRows, DeliverWriteKeepsRows
            DEF DeskStep, FulfilmentStep
  <1>4. ASSUME NEW w \in Workers, NEW o \in Orders, Checkout(w, o), UNCHANGED gateway
        PROVE  RowsInv' /\ StockStep
    BY <1>4, CheckoutKeepsRows
  <1>5. ASSUME NEW o \in Orders, Sweep(o), UNCHANGED gateway
        PROVE  RowsInv' /\ StockStep
    BY <1>0, <1>5, SweepKeepsRows
  <1> QED BY <1>1, <1>2, <1>3, <1>4, <1>5 DEF Next, Step

LEMMA NextStock ==
    ASSUME StockReady, CallsFit', [Next]_vars, [ReadsHold]_vars
    PROVE  RowsInv' /\ StockStep
  <1>1. CASE UNCHANGED vars
    <2>1. UNCHANGED <<ledger, rows, req, gateway>>
      BY <1>1 DEF vars
    <2>2. UNCHANGED <<orderStatus, paymentStatus, payment, delivery, rzpOrder, restocks, req>>
      BY <2>1 DEF rows, ledger
    <2>3. ReadsHold
      BY <2>2 DEF ReadsHold, ReadHolds
    <2>4. RequestIsCurrent'
      BY <2>2, <2>3, SameRowsGrow, SameRequests
    <2> QED BY <2>1, <2>2, <2>4, SameRows, SameMoney DEF RowsInv, StockStep
  <1> QED BY <1>1, NextRowsInv

LEMMA NextStockInv ==
    ASSUME StockHandlers, MoneyInv, StockInv, CallsFit', [Next]_vars, [ReadsHold]_vars
    PROVE  /\ StockInv'
           /\ [Promise!Next]_(Promise!promise)
  <1>0. StockReady
    BY DEF StockReady
  <1>1. RowsInv' /\ StockStep
    BY <1>0, NextStock
  <1>2. CountersMatchOrders'
    BY <1>0, <1>1, ReadyFacts, StaysKeepsCounters, ExchangeKeepsCounters DEF StockStep
  <1>3. [Promise!Next]_(Promise!promise)
    BY <1>0, <1>1, ReadyFacts, StaysKeepsPromise, ExchangeKeepsPromise DEF StockStep
  <1> QED BY <1>1, <1>2, <1>3 DEF StockInv

LEMMA InitStockInv == StockHandlers /\ Init => StockInv
  <1> SUFFICES ASSUME StockHandlers, Init PROVE StockInv
    OBVIOUS
  <1>1. Holding = {} /\ Selling = {}
    BY DEF Init, StoreInit, Holding, Selling, DeductedStatuses
  <1>2. CountersMatchOrders
    <2>1. \A p \in Products : Total(p, Holding) = 0 /\ Total(p, Selling) = 0
      BY <1>1, TotalOfNone
    <2>2. \A p \in Products : InitialStock[p] \in Nat
      BY StoreAssumption
    <2> QED BY <2>1, <2>2 DEF Init, StoreInit, LedgerInit, CountersMatchOrders, ReservedMatchesOrders,
                              SoldMatchesOrders, InFlow
  <1>3. StatusesFit
    BY StoreAssumption DEF Init, StoreInit, LedgerInit, StatusesFit, Keeping, DeductedStatuses
  <1>4. MoneyWaits
    BY StoreAssumption, PaymentAssumption DEF Init, GatewayInit, MoneyWaits
  <1>5. RequestIsCurrent
    BY DEF Init, StoreInit, Idle, RequestIsCurrent, Current, LogHolds, CheckedLog, Desks
  <1> QED BY <1>2, <1>3, <1>4, <1>5 DEF StockInv, RowsInv

LEMMA InitPromise == Init => Promise!Init
  <1>1. ASSUME Init PROVE \A o \in Orders : ClaimOf(o) = "none"
    BY <1>1 DEF Init, StoreInit, ClaimOf, Exists
  <1> QED BY <1>1 DEF Init, StoreInit, LedgerInit, Promise!Init

(* The counters of every product are what the orders add up to, for any    *)
(* number of products, orders and requests at work at once, cash and       *)
(* online orders together, as long as what a handler has read of its order *)
(* holds until it writes.                                                  *)
THEOREM CountersAddUpWhileReadsHold ==
    ASSUME StockHandlers
    PROVE  Spec /\ []CallsFit /\ [][ReadsHold]_vars => []CountersMatchOrders
  <1>1. Init => StockInv
    BY InitStockInv
  <1>2. MoneyInv /\ StockInv /\ CallsFit' /\ [Next]_vars /\ [ReadsHold]_vars => StockInv'
    BY NextStockInv
  <1>3. StockInv => CountersMatchOrders
    BY DEF StockInv
  <1> QED BY <1>1, <1>2, <1>3, InitMoneyInv, NextMoneyInv, PTL DEF Spec

(* Under the same condition the order lifecycle implements the stock       *)
(* promise: each step takes, holds, sells or gives back the units of one   *)
(* order, or touches none.                                                 *)
THEOREM ThePromiseIsKeptWhileReadsHold ==
    ASSUME StockHandlers
    PROVE  Spec /\ []CallsFit /\ [][ReadsHold]_vars => KeepsStockPromise
  <1>1. Init => StockInv
    BY InitStockInv
  <1>2. MoneyInv /\ StockInv /\ CallsFit' /\ [Next]_vars /\ [ReadsHold]_vars
            => StockInv' /\ [Promise!Next]_(Promise!promise)
    BY NextStockInv
  <1> QED BY <1>1, <1>2, InitPromise, InitMoneyInv, NextMoneyInv, PTL
          DEF Spec, KeepsStockPromise, Promise!Spec

----------------------------------------------------------------------------
(* Requests that take turns find their rows as they read them.             *)

LEMMA InTurnHandlers == StockInTurn => StockHandlers
  BY DEF StockInTurn, StockHandlers

(* A step that writes rows ends the request it belongs to, if there is one.*)
LEMMA WritersEnd ==
    ASSUME StockReady, Next
    PROVE  \/ UNCHANGED <<ledger, rows>>
           \/ \E w \in Workers : Done(w)
           \/ \E w \in Workers : req[w] = Idle /\ UNCHANGED req
           \/ \E o \in Orders : Sweep(o)
  <1>1. ASSUME NEW w \in Workers, PaymentStep(w)
        PROVE  UNCHANGED <<ledger, rows>> \/ Done(w)
    <2>1. ASSUME NEW o \in Orders,
                 \/ InitiateRead(w, o) \/ VerifyRead(w, o) \/ CapturedRead(w, o)
                 \/ FailedRead(w, o) \/ RefundRead(w, o)
          PROVE  UNCHANGED <<ledger, rows>>
      BY <2>1 DEF InitiateRead, VerifyRead, CapturedRead, FailedRead, RefundRead, storeVars
    <2>2. CASE InitiateAtGateway(w) \/ VerifyAtGateway(w) \/ RefundAtGateway(w)
      BY <2>2 DEF InitiateAtGateway, VerifyAtGateway, RefundAtGateway, storeVars
    <2>3. CASE InitiateSave(w) \/ VerifyBadSignature(w) \/ VerifyConfirm(w) \/ CapturedConfirm(w)
                  \/ FailedWrite(w) \/ RefundSave(w)
      BY <2>3 DEF InitiateSave, VerifyBadSignature, VerifyConfirm, CapturedConfirm, FailedWrite, RefundSave
    <2> QED BY <1>1, <2>1, <2>2, <2>3 DEF PaymentStep
  <1>2. ASSUME NEW w \in Workers, DeskStep(w) \/ FulfilmentStep(w) \/ Drop(w)
        PROVE  UNCHANGED <<ledger, rows>> \/ Done(w)
    <2>1. ASSUME NEW o \in Orders,
                 \/ CancelRead(w, o) \/ FailPaymentRead(w, o) \/ AdminStatusRead(w, o)
                 \/ TransitionRead(w, o) \/ AssignRead(w, o) \/ DeliverRead(w, o)
          PROVE  UNCHANGED <<ledger, rows>>
      BY <2>1 DEF CancelRead, FailPaymentRead, AdminStatusRead, TransitionRead, AssignRead, DeliverRead
    <2>2. CASE TransitionCheck(w) \/ ReturnCheck(w)
      BY <2>2 DEF TransitionCheck, ReturnCheck
    <2>3. CASE CancelWrite(w) \/ FailPaymentWrite(w) \/ AdminStatusWrite(w) \/ TransitionWrite(w)
                  \/ AssignWrite(w) \/ DeliverWrite(w) \/ Drop(w)
      BY <2>3 DEF CancelWrite, FailPaymentWrite, AdminStatusWrite, TransitionWrite, AssignWrite,
                  DeliverWrite, Drop
    <2> QED BY <1>2, <2>1, <2>2, <2>3 DEF DeskStep, FulfilmentStep
  <1>3. ASSUME NEW w \in Workers, NEW o \in Orders, Checkout(w, o)
        PROVE  req[w] = Idle /\ UNCHANGED req
    BY <1>3 DEF Checkout
  <1>4. CASE GatewayStep
    BY <1>4 DEF GatewayStep, AttemptFails, Authorize, Capture, storeVars
  <1> QED BY <1>1, <1>2, <1>3, <1>4 DEF Next, Step

LEMMA InTurnReadsHold ==
    ASSUME StockInTurn, StockReady, Next
    PROVE  ReadsHold
  <1>1. \A v, w \in Workers : v = w
    BY DEF StockInTurn
  <1>2. CASE UNCHANGED <<ledger, rows>>
    BY <1>2 DEF ReadsHold, ReadHolds, ledger, rows
  <1>3. ASSUME NEW w \in Workers, Done(w) \/ (req[w] = Idle /\ UNCHANGED req) PROVE ReadsHold
    <2>1. req'[w] = Idle
      BY <1>3, ReadyFacts DEF Done, ReqOK
    <2> QED BY <1>1, <2>1 DEF ReadsHold, ReadHolds
  <1>4. ASSUME NEW o \in Orders, Sweep(o) PROVE ReadsHold
    <2>1. orderStatus[o] = "PENDING_PAYMENT" /\ "sweep" \in Handlers /\ UNCHANGED rzpOrder
      BY <1>4 DEF Sweep
    <2>2. o \notin CodOrders
      BY <2>1, ReadyFacts DEF StatusesFit, Keeping, DeductedStatuses
    <2>3. Desks \cap Handlers = {}
      BY <2>1, <2>2 DEF StockInTurn, Desks
    <2>4. \A w \in Workers : req[w].kind \notin Desks
      BY <2>3, ReadyFacts DEF Desks
    <2> QED BY <2>1, <2>4 DEF ReadsHold, ReadHolds
  <1> QED BY <1>2, <1>3, <1>4, WritersEnd

LEMMA InTurnCallsFit ==
    ASSUME StockInTurn, TypeInv', CreditInv'
    PROVE  CallsFit'
  <1>1. \A w \in Workers :
            /\ req'[w].kind \in Handlers \cup {"idle"}
            /\ req'[w] # Idle => req'[w] \in Requests
    BY TypeInvPartsPrime DEF CreditInv, ReqOK
  <1>2. \A w \in Workers :
            /\ req'[w].kind \in {"failPayment", "assign", "deliver"} => req'[w].order \in Orders
            /\ req'[w].kind = "failPayment" => "failPayment" \in Handlers
            /\ req'[w].kind \in {"assign", "deliver"} => {"assign", "deliver"} \cap Handlers # {}
    BY <1>1 DEF Requests, Idle
  <1> QED BY <1>2 DEF CallsFit, StockInTurn

LEMMA InTurnStep ==
    ASSUME StockInTurn, MoneyInv, CreditInv, StockInv, [Next]_vars, MoneyInv'
    PROVE  CreditInv' /\ CallsFit' /\ [ReadsHold]_vars
  <1>1. StockReady
    BY InTurnHandlers DEF StockReady
  <1>2. CreditInv'
    BY NextCreditInv DEF MoneyInv
  <1>3. CallsFit'
    BY <1>2, InTurnCallsFit DEF MoneyInv
  <1> QED BY <1>1, <1>2, <1>3, InTurnReadsHold

(* When requests take turns the counters add up without any condition.     *)
THEOREM CountersAddUp ==
    ASSUME StockInTurn
    PROVE  Spec => []CountersMatchOrders
  <1>1. Init => StockInv
    BY InitStockInv, InTurnHandlers
  <1>2. MoneyInv /\ CreditInv /\ StockInv /\ [Next]_vars /\ MoneyInv' => CreditInv' /\ StockInv'
    BY InTurnStep, NextStockInv, InTurnHandlers
  <1>3. StockInv => CountersMatchOrders
    BY DEF StockInv
  <1> QED BY <1>1, <1>2, <1>3, InitMoneyInv, NextMoneyInv, InitCreditInv, PTL DEF Spec

(* ... and the stock promise is kept.                                      *)
THEOREM ThePromiseIsKept ==
    ASSUME StockInTurn
    PROVE  Spec => KeepsStockPromise
  <1>1. Init => StockInv
    BY InitStockInv, InTurnHandlers
  <1>2. MoneyInv /\ CreditInv /\ StockInv /\ [Next]_vars /\ MoneyInv'
            => CreditInv' /\ StockInv' /\ [Promise!Next]_(Promise!promise)
    BY InTurnStep, NextStockInv, InTurnHandlers
  <1> QED BY <1>1, <1>2, InitPromise, InitMoneyInv, NextMoneyInv, InitCreditInv, PTL
          DEF Spec, KeepsStockPromise, Promise!Spec
=============================================================================
