------------------------------ MODULE Inventory ------------------------------
(***************************************************************************)
(* The inventory service with every caller of it: orders that reserve,     *)
(* release, deduct and restock in any order and any number of times, the   *)
(* warehouse desk (adjustStock, updateInventorySettings) and the catalogue *)
(* desk (updateProduct of product.service.ts).  Nothing here assumes that  *)
(* the callers are disciplined: what this module shows holds whatever the  *)
(* order lifecycle does.  OrderSystem is the module about the lifecycle.   *)
(*                                                                         *)
(* The two desks read a row before their transaction locks anything, so    *)
(* each of their operations is a Read step and a Write step with what was  *)
(* read kept in `desk' meanwhile.                                          *)
(***************************************************************************)
EXTENDS InventoryLedger, FiniteSets

CONSTANTS
    Items,          \* Items[o]: the bag of order o
    InitialStock,   \* units on the shelf at the start, per product
    Quantity,       \* quantities an adjustment or an edit may name
    Thresholds,     \* reorder thresholds an administrator may set
    MaxQuantity,    \* MAX_INVENTORY_QUANTITY (2^31 - 1 in the code)
    MaxUnits,       \* bound of the model: units of a product in circulation
    MaxRestockers,  \* bound of the model: concurrent restocks of one order
    Desks           \* subset of {"settings", "catalogue"}: desks in use

ASSUME OrdersAssumption ==
    /\ Items \in [Orders -> Quantities]
    /\ InitialStock \in Quantities
    /\ Quantity \subseteq Nat \ {0}
    /\ Thresholds \subseteq Nat /\ 10 \in Thresholds
    /\ MaxQuantity \in Nat /\ MaxUnits \in Nat /\ MaxRestockers \in Nat

VARIABLES
    threshold,      \* inventories.reorderThreshold
    label,          \* inventories.status
    restocking,     \* restocks of an order that passed the log check, uncredited
    desk,           \* what the desk's unlocked read saw, or Idle
    supplied        \* history: units put in, minus units taken out, by a desk

vars == <<ledger, threshold, label, restocking, desk, supplied>>

Labels == {"IN_STOCK", "LOW_STOCK", "OUT_OF_STOCK", "BACKORDER"}

ComputeStatus(units, limit) ==
    IF units <= 0 THEN "OUT_OF_STOCK"
    ELSE IF units <= limit THEN "LOW_STOCK" ELSE "IN_STOCK"

Idle == [job |-> "idle"]

DeskJobs ==
    {Idle}
    \cup [job: {"settings"}, product: Products, units: Nat, label: Labels]
    \cup [job: {"catalogue"}, product: Products, units: Nat]

TypeOK ==
    /\ LedgerTypeOK
    /\ threshold \in [Products -> Thresholds]
    /\ label \in [Products -> Labels]
    /\ restocking \in [Orders -> 0 .. MaxRestockers]
    /\ desk \in DeskJobs
    /\ supplied \in [Products -> Int]

Init ==
    /\ LedgerInit(InitialStock)
    /\ threshold = [p \in Products |-> 10]
    /\ label = [p \in Products |-> ComputeStatus(InitialStock[p], 10)]
    /\ restocking = [o \in Orders |-> 0]
    /\ desk = Idle
    /\ supplied = InitialStock

(* Every operation that moves available recomputes the label of its rows.  *)
Relabel(touched, limits) ==
    label' = [p \in Products |-> IF p \in touched
                                 THEN ComputeStatus(available'[p], limits[p])
                                 ELSE label[p]]

----------------------------------------------------------------------------
(* The order lifecycle's calls.                                            *)

Reserve(o) ==
    /\ ReserveStock(Items[o])
    /\ Relabel({p \in Products : Items[o][p] > 0}, threshold)
    /\ UNCHANGED <<threshold, restocking, desk, supplied>>

Release(o) ==
    /\ ReleaseReservation(Items[o])
    /\ Relabel({p \in Products : AtMost(reserved[p], Items[o][p]) > 0}, threshold)
    /\ UNCHANGED <<threshold, restocking, desk, supplied>>

Deduct(o) ==
    /\ ConfirmDeduction(Items[o])
    /\ UNCHANGED <<threshold, label, restocking, desk, supplied>>

(* restockOrder looks for the RESTOCK row before it locks a row.           *)
RestockCheck(o) ==
    /\ ~RestockLogged(o)
    /\ restocking[o] < MaxRestockers
    /\ restocking' = [restocking EXCEPT ![o] = @ + 1]
    /\ UNCHANGED <<ledger, threshold, label, desk, supplied>>

RestockCredit(o) ==
    /\ restocking[o] > 0
    /\ RestockOrder(o, Items[o], FALSE)
    /\ Relabel({p \in Products : Items[o][p] > 0}, threshold)
    /\ restocking' = [restocking EXCEPT ![o] = @ - 1]
    /\ UNCHANGED <<threshold, desk, supplied>>

----------------------------------------------------------------------------
(* The warehouse desk.                                                     *)

(* adjustStock: the row is locked before it is read, so one step.  RESTOCK *)
(* takes the units back out of sold only when sold covers them.            *)
AdjustTo(p, units, newSold, limit) ==
    /\ units \in 0 .. MaxQuantity
    /\ units + reserved[p] + newSold <= MaxUnits
    /\ available' = [available EXCEPT ![p] = units]
    /\ sold' = [sold EXCEPT ![p] = newSold]
    /\ SyncStock({p})
    /\ threshold' = [threshold EXCEPT ![p] = limit]
    /\ Relabel({p}, threshold')
    /\ supplied' = [supplied EXCEPT ![p] = @ + (units - available[p]) + (newSold - sold[p])]
    /\ UNCHANGED <<reserved, restocks, restocking, desk>>

AdjustStock(p) ==
    \E q \in Quantity, limit \in Thresholds :
        \/ AdjustTo(p, available[p] + q, sold[p], limit)            \* ADD_STOCK
        \/ AdjustTo(p, available[p] + q,
                    IF sold[p] >= q THEN sold[p] - q ELSE sold[p], limit) \* RESTOCK
        \/ available[p] >= q
           /\ AdjustTo(p, available[p] - q, sold[p], limit)         \* REMOVE_STOCK
        \/ AdjustTo(p, q, sold[p], limit)                           \* MANUAL_ADJUSTMENT

(* updateInventorySettings reads the row unlocked and writes a label that  *)
(* is computed from that reading; BACKORDER is kept or forced.             *)
ReadSettings(p) ==
    /\ "settings" \in Desks
    /\ desk = Idle
    /\ desk' = [job |-> "settings", product |-> p,
                units |-> available[p], label |-> label[p]]
    /\ UNCHANGED <<ledger, threshold, label, restocking, supplied>>

WriteSettings ==
    /\ desk.job = "settings"
    /\ \E limit \in Thresholds, forced \in {desk.label, "BACKORDER", "IN_STOCK"} :
        /\ threshold' = [threshold EXCEPT ![desk.product] = limit]
        /\ label' = [label EXCEPT ![desk.product] =
                        IF forced = "BACKORDER" THEN forced
                        ELSE ComputeStatus(desk.units, limit)]
    /\ desk' = Idle
    /\ UNCHANGED <<ledger, restocking, supplied>>

----------------------------------------------------------------------------
(* The catalogue desk: updateProduct writes Product.stock on every edit,   *)
(* with the value it read when the edit does not name a stock.  An edit    *)
(* that does name one writes the inventory row too.                        *)
ReadProduct(p) ==
    /\ "catalogue" \in Desks
    /\ desk = Idle
    /\ desk' = [job |-> "catalogue", product |-> p, units |-> stock[p]]
    /\ UNCHANGED <<ledger, threshold, label, restocking, supplied>>

WriteProduct ==
    /\ desk.job = "catalogue"
    /\ stock' = [stock EXCEPT ![desk.product] = desk.units]
    /\ desk' = Idle
    /\ UNCHANGED <<available, reserved, sold, restocks, threshold, label,
                   restocking, supplied>>

WriteProductStock ==
    /\ desk.job = "catalogue"
    /\ \E q \in Quantity \cup {0} :
        LET p == desk.product IN
        /\ q + reserved[p] + sold[p] <= MaxUnits
        /\ available' = [available EXCEPT ![p] = q]
        /\ stock' = [stock EXCEPT ![p] = q]
        /\ label' = [label EXCEPT ![p] = ComputeStatus(q, 10)]
        /\ supplied' = [supplied EXCEPT ![p] = @ + (q - available[p])]
    /\ desk' = Idle
    /\ UNCHANGED <<reserved, sold, restocks, threshold, restocking>>

----------------------------------------------------------------------------

Next ==
    \/ \E o \in Orders : \/ Reserve(o) \/ Release(o) \/ Deduct(o)
                         \/ RestockCheck(o) \/ RestockCredit(o)
    \/ \E p \in Products : AdjustStock(p) \/ ReadSettings(p) \/ ReadProduct(p)
    \/ WriteSettings
    \/ WriteProduct
    \/ WriteProductStock

Spec == Init /\ [][Next]_vars

----------------------------------------------------------------------------
(* Properties.                                                             *)

(* No call of the order lifecycle, in any order and however often it is    *)
(* repeated, makes a unit disappear: what the three counters hold is never *)
(* less than what the desks put in.  (It can be more: a restock credits    *)
(* available in full even when sold is clamped at zero.)                   *)
NoUnitLost == \A p \in Products : InFlow(p) >= supplied[p]

(* While no catalogue edit is made, the copy in Product.stock that the     *)
(* storefront filters and sorts by is the available count.                 *)
StockInSync == stock = available

(* What the storefront shows of a product moves with the count, in the     *)
(* same transaction: whichever operation changes the available count also  *)
(* writes the copy, and the label is OUT_OF_STOCK exactly when none is left. *)
MovesAreShown ==
    [][\A p \in Products : available'[p] # available[p] =>
            /\ stock'[p] = available'[p]
            /\ label'[p] = "OUT_OF_STOCK" <=> available'[p] = 0]_vars
=============================================================================
