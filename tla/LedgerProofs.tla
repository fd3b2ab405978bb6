---------------------------- MODULE LedgerProofs ----------------------------
(***************************************************************************)
(* What each operation of the inventory ledger does to the counters of a   *)
(* row, for any basket: they stay natural numbers, their sum is kept (or   *)
(* grows, for a restock), and the copy in Product.stock follows.           *)
(***************************************************************************)
EXTENDS InventoryLedger, TLAPS

USE DEF Quantities

(* Capping a natural number by another gives one that is at most either.   *)
LEMMA AtMostFact ==
    ASSUME NEW a \in Nat, NEW b \in Nat
    PROVE  /\ AtMost(a, b) \in Nat
           /\ AtMost(a, b) <= a
           /\ AtMost(a, b) <= b
  BY DEF AtMost

(* Reserving keeps the counters natural numbers and their sum.             *)
LEMMA ReserveFact ==
    ASSUME LedgerTypeOK, NEW items \in Quantities, ReserveStock(items)
    PROVE  /\ LedgerTypeOK'
           /\ \A p \in Products : InFlow(p)' = InFlow(p)
           /\ stock = available => stock' = available'
  <1>1. LedgerTypeOK'
    BY DEF LedgerTypeOK, ReserveStock, SyncStock
  <1>2. \A p \in Products : InFlow(p)' = InFlow(p)
    BY DEF LedgerTypeOK, ReserveStock, InFlow
  <1>3. ASSUME stock = available PROVE stock' = available'
    <2>1. \A p \in Products : items[p] > 0 \/ available'[p] = available[p]
      BY DEF LedgerTypeOK, ReserveStock
    <2>2. stock' \in [Products -> Nat] /\ available' \in [Products -> Nat]
      BY <1>1 DEF LedgerTypeOK
    <2>3. \A p \in Products : stock'[p] = available'[p]
      BY <1>3, <2>1 DEF ReserveStock, SyncStock
    <2> QED BY <2>2, <2>3
  <1> QED BY <1>1, <1>2, <1>3

(* Releasing keeps the counters natural numbers and their sum.             *)
LEMMA ReleaseFact ==
    ASSUME LedgerTypeOK, NEW items \in Quantities, ReleaseReservation(items)
    PROVE  /\ LedgerTypeOK'
           /\ \A p \in Products : InFlow(p)' = InFlow(p)
           /\ stock = available => stock' = available'
  <1> DEFINE back == [p \in Products |-> AtMost(reserved[p], items[p])]
  <1>1. \A p \in Products : back[p] \in Nat /\ back[p] <= reserved[p]
    BY AtMostFact DEF LedgerTypeOK
  <1>2. /\ available' = [p \in Products |-> available[p] + back[p]]
        /\ reserved' = [p \in Products |-> reserved[p] - back[p]]
        /\ stock' = [p \in Products |-> IF back[p] > 0 THEN available'[p] ELSE stock[p]]
        /\ UNCHANGED <<sold, restocks>>
    BY DEF ReleaseReservation, SyncStock
  <1> HIDE DEF back
  <1>3. LedgerTypeOK'
    BY <1>1, <1>2 DEF LedgerTypeOK
  <1>4. \A p \in Products : InFlow(p)' = InFlow(p)
    BY <1>1, <1>2 DEF LedgerTypeOK, InFlow
  <1>5. ASSUME stock = available PROVE stock' = available'
    <2>1. \A p \in Products : back[p] > 0 \/ available'[p] = available[p]
      BY <1>1, <1>2 DEF LedgerTypeOK
    <2>2. stock' \in [Products -> Nat] /\ available' \in [Products -> Nat]
      BY <1>3 DEF LedgerTypeOK
    <2>3. \A p \in Products : stock'[p] = available'[p]
      BY <1>2, <1>5, <2>1
    <2> QED BY <2>2, <2>3
  <1> QED BY <1>3, <1>4, <1>5

(* Deducting keeps the counters natural numbers and their sum.             *)
LEMMA DeductFact ==
    ASSUME LedgerTypeOK, NEW items \in Quantities, ConfirmDeduction(items)
    PROVE  /\ LedgerTypeOK'
           /\ \A p \in Products : InFlow(p)' = InFlow(p)
           /\ UNCHANGED <<available, stock>>
  <1> DEFINE taken == [p \in Products |-> AtMost(reserved[p], items[p])]
  <1>1. \A p \in Products : taken[p] \in Nat /\ taken[p] <= reserved[p]
    BY AtMostFact DEF LedgerTypeOK
  <1>2. /\ reserved' = [p \in Products |-> reserved[p] - taken[p]]
        /\ sold' = [p \in Products |-> sold[p] + taken[p]]
        /\ UNCHANGED <<available, stock, restocks>>
    BY DEF ConfirmDeduction
  <1> HIDE DEF taken
  <1> QED BY <1>1, <1>2 DEF LedgerTypeOK, InFlow

(* A restock adds to the sum, or leaves it, because sold is clamped at 0.  *)
LEMMA CreditFact ==
    ASSUME LedgerTypeOK, NEW o \in Orders, NEW items \in Quantities,
           CreditRestock(o, items)
    PROVE  /\ LedgerTypeOK'
           /\ \A p \in Products : InFlow(p)' >= InFlow(p)
           /\ stock = available => stock' = available'
  <1> DEFINE taken == [p \in Products |-> AtMost(sold[p], items[p])]
  <1>1. \A p \in Products : /\ taken[p] \in Nat
                            /\ taken[p] <= sold[p] /\ taken[p] <= items[p]
    BY AtMostFact DEF LedgerTypeOK
  <1>2. /\ available' = [p \in Products |-> available[p] + items[p]]
        /\ sold' = [p \in Products |-> sold[p] - taken[p]]
        /\ stock' = [p \in Products |-> IF items[p] > 0 THEN available'[p] ELSE stock[p]]
        /\ restocks' = [restocks EXCEPT ![o] = @ + 1]
        /\ UNCHANGED reserved
    BY DEF CreditRestock, SyncStock
  <1> HIDE DEF taken
  <1>3. LedgerTypeOK'
    BY <1>1, <1>2 DEF LedgerTypeOK
  <1>4. \A p \in Products : InFlow(p)' >= InFlow(p)
    BY <1>1, <1>2 DEF LedgerTypeOK, InFlow
  <1>5. ASSUME stock = available PROVE stock' = available'
    <2>1. \A p \in Products : items[p] > 0 \/ available'[p] = available[p]
      BY <1>2 DEF LedgerTypeOK
    <2>2. stock' \in [Products -> Nat] /\ available' \in [Products -> Nat]
      BY <1>3 DEF LedgerTypeOK
    <2>3. \A p \in Products : stock'[p] = available'[p]
      BY <1>2, <1>5, <2>1
    <2> QED BY <2>2, <2>3
  <1> QED BY <1>3, <1>4, <1>5
=============================================================================
