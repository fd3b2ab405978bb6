-------------------------- MODULE InventoryLedger --------------------------
(***************************************************************************)
(* The inventory ledger of backend/src/services/inventory.service.ts: one  *)
(* row of counters per product, the copy of the available count kept in    *)
(* Product.stock, and the RESTOCK rows of the movement log.  Each operator *)
(* below is the part of a service method that runs inside the caller's     *)
(* transaction with the rows locked FOR UPDATE, hence one atomic step.     *)
(*                                                                         *)
(* A bag of order items is a function from Products to quantities; a       *)
(* product that is not in the order has quantity 0.                        *)
(***************************************************************************)
EXTENDS Integers

CONSTANTS
    Products,   \* product ids
    Orders      \* order ids

VARIABLES
    available,  \* inventories.availableQuantity
    reserved,   \* inventories.reservedQuantity
    sold,       \* inventories.soldQuantity
    stock,      \* products.stock, the copy the storefront lists from
    restocks    \* number of RESTOCK rows in inventory_logs, per order

ledger == <<available, reserved, sold, stock, restocks>>

Quantities == [Products -> Nat]

(* The units of a product the three counters account for.                 *)
InFlow(p) == available[p] + reserved[p] + sold[p]

LedgerTypeOK ==
    /\ available \in Quantities
    /\ reserved \in Quantities
    /\ sold \in Quantities
    /\ stock \in Quantities
    /\ restocks \in [Orders -> Nat]

LedgerInit(initialStock) ==
    /\ available = initialStock
    /\ stock = initialStock
    /\ reserved = [p \in Products |-> 0]
    /\ sold = [p \in Products |-> 0]
    /\ restocks = [o \in Orders |-> 0]

AtMost(bound, q) == IF q <= bound THEN q ELSE bound

(* Product.stock is rewritten only for the rows the operation touched.     *)
SyncStock(touched) ==
    stock' = [p \in Products |-> IF p \in touched THEN available'[p] ELSE stock[p]]

----------------------------------------------------------------------------

(* Checkout: every line is available or the whole transaction rolls back.  *)
ReserveStock(items) ==
    /\ \A p \in Products : items[p] <= available[p]
    /\ available' = [p \in Products |-> available[p] - items[p]]
    /\ reserved' = [p \in Products |-> reserved[p] + items[p]]
    /\ SyncStock({p \in Products : items[p] > 0})
    /\ UNCHANGED <<sold, restocks>>

(* Slips of releaseReservation: no clamp; Product.stock forgotten.         *)
ReleaseUnclamped(items) ==
    /\ available' = [p \in Products |-> available[p] + items[p]]
    /\ reserved' = [p \in Products |-> reserved[p] - items[p]]
    /\ SyncStock({p \in Products : items[p] > 0})
    /\ UNCHANGED <<sold, restocks>>

ReleaseUnsynced(items) ==
    LET back == [p \in Products |-> AtMost(reserved[p], items[p])]
    IN  /\ available' = [p \in Products |-> available[p] + back[p]]
        /\ reserved' = [p \in Products |-> reserved[p] - back[p]]
        /\ UNCHANGED <<sold, stock, restocks>>

(* Releases at most what the row has reserved, whoever reserved it.        *)
ReleaseReservation(items) ==
    LET back == [p \in Products |-> AtMost(reserved[p], items[p])]
    IN  /\ available' = [p \in Products |-> available[p] + back[p]]
        /\ reserved' = [p \in Products |-> reserved[p] - back[p]]
        /\ SyncStock({p \in Products : back[p] > 0})
        /\ UNCHANGED <<sold, restocks>>

(* A slip of confirmDeduction: the units are not counted as sold.          *)
DeductUncounted(items) ==
    /\ reserved' = [p \in Products |-> reserved[p] - AtMost(reserved[p], items[p])]
    /\ UNCHANGED <<available, sold, stock, restocks>>

(* Moves at most what the row has reserved to sold.                        *)
ConfirmDeduction(items) ==
    LET taken == [p \in Products |-> AtMost(reserved[p], items[p])]
    IN  /\ reserved' = [p \in Products |-> reserved[p] - taken[p]]
        /\ sold' = [p \in Products |-> sold[p] + taken[p]]
        /\ UNCHANGED <<available, stock, restocks>>

(* The RESTOCK row of the order, once written, makes the call a no-op.     *)
RestockLogged(o) == restocks[o] > 0

(* The credit that follows the check: the sold count is clamped at zero.   *)
CreditRestock(o, items) ==
    /\ available' = [p \in Products |-> available[p] + items[p]]
    /\ sold' = [p \in Products |-> sold[p] - AtMost(sold[p], items[p])]
    /\ SyncStock({p \in Products : items[p] > 0})
    /\ restocks' = [restocks EXCEPT ![o] = @ + 1]
    /\ UNCHANGED reserved

(* A slip of restockOrder: the log is not consulted.                       *)
RestockAlways(o, items, logged) == CreditRestock(o, items)

(* logged is the outcome of the check, which is read before any lock.      *)
RestockOrder(o, items, logged) ==
    IF logged THEN UNCHANGED ledger ELSE CreditRestock(o, items)
=============================================================================
