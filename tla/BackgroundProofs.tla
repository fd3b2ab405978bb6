--------------------------- MODULE BackgroundProofs --------------------------
(***************************************************************************)
(* Proofs about the inventory service under any callers, for any products, *)
(* orders, baskets and bounds: the type invariant, that no unit is lost,   *)
(* and that Product.stock is the available count as long as no count moves *)
(* under an open catalogue edit.  Proofs about the outbox for any messages, *)
(* keys, instances and bounds, passes that outlive their locks included;   *)
(* about the nightly backups, for any runs and retention; and about the    *)
(* events of orders, for any servers, consoles and changes.                *)
(***************************************************************************)
EXTENDS Inventory, Outbox, Backups, Realtime, LedgerProofs, SequenceTheorems,
        FiniteSetTheorems

USE DEF Quantities

(* The label computed from any count and threshold is one of the labels.   *)
LEMMA RelabelFact ==
    ASSUME label \in [Products -> Labels], NEW touched, NEW limits,
           Relabel(touched, limits)
    PROVE  label' \in [Products -> Labels]
  BY DEF Relabel, ComputeStatus, Labels

(* An adjustment of the warehouse desk sets one row to natural numbers and *)
(* records the units it put in or took out.                                *)
LEMMA AdjustFact ==
    ASSUME TypeOK, NoUnitLost, NEW p \in Products, NEW units \in Int, NEW newSold \in Nat,
           NEW limit \in Thresholds, AdjustTo(p, units, newSold, limit)
    PROVE  TypeOK' /\ NoUnitLost' /\ (stock = available => stock' = available')
  <1>1. units \in Nat
    BY OrdersAssumption DEF AdjustTo
  <1>2. /\ available' = [available EXCEPT ![p] = units]
        /\ sold' = [sold EXCEPT ![p] = newSold]
        /\ stock' = [q \in Products |-> IF q = p THEN available'[q] ELSE stock[q]]
        /\ threshold' = [threshold EXCEPT ![p] = limit]
        /\ supplied' = [supplied EXCEPT ![p] = @ + (units - available[p]) + (newSold - sold[p])]
        /\ UNCHANGED <<reserved, restocks, restocking, desk>>
    BY DEF AdjustTo, SyncStock
  <1>3. LedgerTypeOK'
    BY <1>1, <1>2 DEF TypeOK, LedgerTypeOK
  <1>4. TypeOK'
    BY <1>1, <1>2, <1>3, RelabelFact DEF TypeOK, LedgerTypeOK, AdjustTo
  <1>5. NoUnitLost'
    BY <1>1, <1>2 DEF TypeOK, LedgerTypeOK, NoUnitLost, InFlow
  <1>6. ASSUME stock = available PROVE stock' = available'
    <2>1. stock' \in [Products -> Nat] /\ available' \in [Products -> Nat]
      BY <1>3 DEF LedgerTypeOK
    <2> QED BY <1>2, <1>6, <2>1 DEF TypeOK, LedgerTypeOK
  <1> QED BY <1>4, <1>5, <1>6

----------------------------------------------------------------------------
(* The invariants.                                                         *)

IInv == TypeOK /\ NoUnitLost

(* What a step does to the invariant and to the copy in Product.stock.     *)
StepKeeps == IInv' /\ (stock = available => stock' = available')

LEMMA InitIInv == Init => IInv
  BY OrdersAssumption
  DEF Init, IInv, TypeOK, LedgerInit, LedgerTypeOK, ComputeStatus, Labels, DeskJobs,
      NoUnitLost, InFlow

(* The calls of the order lifecycle.                                       *)
LEMMA OrderCallsKeep ==
    ASSUME IInv, NEW o \in Orders,
           Reserve(o) \/ Release(o) \/ Deduct(o) \/ RestockCheck(o) \/ RestockCredit(o)
    PROVE  StepKeeps
  <1> USE DEF IInv
  <1> Items[o] \in Quantities
    BY OrdersAssumption
  <1>1. CASE Reserve(o)
    <2>1. /\ LedgerTypeOK' /\ (stock = available => stock' = available')
          /\ \A p \in Products : InFlow(p)' = InFlow(p)
      BY <1>1, ReserveFact DEF Reserve, TypeOK
    <2> QED BY <1>1, <2>1, RelabelFact DEF Reserve, TypeOK, NoUnitLost, StepKeeps
  <1>2. CASE Release(o)
    <2>1. /\ LedgerTypeOK' /\ (stock = available => stock' = available')
          /\ \A p \in Products : InFlow(p)' = InFlow(p)
      BY <1>2, ReleaseFact DEF Release, TypeOK
    <2> QED BY <1>2, <2>1, RelabelFact DEF Release, TypeOK, NoUnitLost, StepKeeps
  <1>3. CASE Deduct(o)
    <2>1. /\ LedgerTypeOK' /\ UNCHANGED <<available, stock>>
          /\ \A p \in Products : InFlow(p)' = InFlow(p)
      BY <1>3, DeductFact DEF Deduct, TypeOK
    <2> QED BY <1>3, <2>1 DEF Deduct, TypeOK, NoUnitLost, StepKeeps
  <1>4. CASE RestockCheck(o)
    BY <1>4, OrdersAssumption
    DEF RestockCheck, TypeOK, ledger, LedgerTypeOK, NoUnitLost, InFlow, StepKeeps
  <1>5. CASE RestockCredit(o)
    <2>1. CreditRestock(o, Items[o])
      BY <1>5 DEF RestockCredit, RestockOrder
    <2>2. /\ LedgerTypeOK' /\ (stock = available => stock' = available')
          /\ \A p \in Products : InFlow(p)' >= InFlow(p)
      BY <2>1, CreditFact DEF TypeOK
    <2>3. TypeOK'
      BY <1>5, <2>2, RelabelFact, OrdersAssumption DEF RestockCredit, TypeOK
    <2>4. NoUnitLost'
      <3>1. \A p \in Products : InFlow(p) \in Nat /\ InFlow(p)' \in Nat
        BY <2>2 DEF TypeOK, LedgerTypeOK, InFlow
      <3> QED BY <1>5, <2>2, <3>1 DEF RestockCredit, TypeOK, NoUnitLost
    <2> QED BY <2>2, <2>3, <2>4 DEF StepKeeps
  <1> QED BY <1>1, <1>2, <1>3, <1>4, <1>5

(* The warehouse desk.                                                     *)
LEMMA DeskKeeps ==
    ASSUME IInv, NEW p \in Products, AdjustStock(p) \/ ReadSettings(p) \/ WriteSettings
    PROVE  StepKeeps
  <1> USE DEF IInv
  <1>1. CASE AdjustStock(p)
    <2>1. PICK q \in Quantity, limit \in Thresholds, units \in Int, newSold \in Nat :
              AdjustTo(p, units, newSold, limit)
      <3>1. available[p] \in Nat /\ sold[p] \in Nat
        BY DEF TypeOK, LedgerTypeOK
      <3>2. PICK q \in Quantity, limit \in Thresholds :
                \/ AdjustTo(p, available[p] + q, sold[p], limit)
                \/ AdjustTo(p, available[p] + q,
                            IF sold[p] >= q THEN sold[p] - q ELSE sold[p], limit)
                \/ AdjustTo(p, available[p] - q, sold[p], limit)
                \/ AdjustTo(p, q, sold[p], limit)
        BY <1>1 DEF AdjustStock
      <3>3. q \in Nat
        BY OrdersAssumption
      <3>4. /\ available[p] + q \in Int /\ available[p] - q \in Int
            /\ (IF sold[p] >= q THEN sold[p] - q ELSE sold[p]) \in Nat
        BY <3>1, <3>3
      <3> HIDE DEF Quantities
      <3> QED BY <3>1, <3>2, <3>3, <3>4
    <2> QED BY <2>1, AdjustFact DEF StepKeeps
  <1>2. CASE ReadSettings(p)
    BY <1>2 DEF ReadSettings, TypeOK, ledger, LedgerTypeOK, DeskJobs, NoUnitLost, InFlow, StepKeeps
  <1>3. CASE WriteSettings
    <2>1. desk \in [job: {"settings"}, product: Products, units: Nat, label: Labels]
      BY <1>3 DEF WriteSettings, TypeOK, DeskJobs, Idle
    <2>2. TypeOK'
      BY <1>3, <2>1
      DEF WriteSettings, TypeOK, ledger, LedgerTypeOK, DeskJobs, ComputeStatus, Labels
    <2> QED BY <1>3, <2>2 DEF WriteSettings, ledger, NoUnitLost, InFlow, StepKeeps
  <1> QED BY <1>1, <1>2, <1>3

(* The catalogue desk, about which nothing is claimed of Product.stock.    *)
LEMMA CatalogueKeeps ==
    ASSUME IInv, NEW p \in Products, ReadProduct(p) \/ WriteProduct \/ WriteProductStock
    PROVE  IInv'
  <1> USE DEF IInv
  <1>1. CASE ReadProduct(p)
    BY <1>1 DEF ReadProduct, TypeOK, ledger, LedgerTypeOK, DeskJobs, NoUnitLost, InFlow
  <1>2. CASE WriteProduct
    <2>1. desk \in [job: {"catalogue"}, product: Products, units: Nat]
      BY <1>2 DEF WriteProduct, TypeOK, DeskJobs, Idle
    <2> QED BY <1>2, <2>1
            DEF WriteProduct, TypeOK, LedgerTypeOK, DeskJobs, NoUnitLost, InFlow
  <1>3. CASE WriteProductStock
    <2> DEFINE r == desk.product
    <2>1. desk \in [job: {"catalogue"}, product: Products, units: Nat]
      BY <1>3 DEF WriteProductStock, TypeOK, DeskJobs, Idle
    <2>2. PICK q \in Nat :
            /\ available' = [available EXCEPT ![r] = q]
            /\ stock' = [stock EXCEPT ![r] = q]
            /\ label' = [label EXCEPT ![r] = ComputeStatus(q, 10)]
            /\ supplied' = [supplied EXCEPT ![r] = @ + (q - available[r])]
      BY <1>3, OrdersAssumption DEF WriteProductStock
    <2>3. r \in Products
      BY <2>1
    <2> HIDE DEF r
    <2>4. TypeOK'
      <3>1. ComputeStatus(q, 10) \in Labels
        BY DEF ComputeStatus, Labels
      <3>2. /\ available' \in [Products -> Nat] /\ stock' \in [Products -> Nat]
            /\ label' \in [Products -> Labels]
        BY <2>2, <3>1 DEF TypeOK, LedgerTypeOK
      <3>3. supplied' \in [Products -> Int]
        BY <2>2, <2>3 DEF TypeOK, LedgerTypeOK
      <3>4. UNCHANGED <<reserved, sold, restocks, threshold, restocking>> /\ desk' \in DeskJobs
        BY <1>3 DEF WriteProductStock, DeskJobs
      <3> QED BY <3>2, <3>3, <3>4 DEF TypeOK, LedgerTypeOK
    <2>5. NoUnitLost'
      BY <1>3, <2>2, <2>3 DEF WriteProductStock, TypeOK, LedgerTypeOK, NoUnitLost, InFlow
    <2> QED BY <2>4, <2>5
  <1> QED BY <1>1, <1>2, <1>3

LEMMA NextIInv == IInv /\ [Next]_vars => IInv'
  <1> SUFFICES ASSUME IInv, [Next]_vars PROVE IInv'
    OBVIOUS
  <1>1. CASE UNCHANGED vars
    BY <1>1 DEF vars, ledger, IInv, TypeOK, LedgerTypeOK, NoUnitLost, InFlow
  <1>2. CASE \E o \in Orders : \/ Reserve(o) \/ Release(o) \/ Deduct(o)
                              \/ RestockCheck(o) \/ RestockCredit(o)
    BY <1>2, OrderCallsKeep DEF StepKeeps
  <1>3. CASE \E p \in Products : AdjustStock(p) \/ ReadSettings(p)
    BY <1>3, DeskKeeps DEF StepKeeps
  <1>4. CASE WriteSettings
    <2>1. \E p : p \in Products
      BY <1>4 DEF WriteSettings, IInv, TypeOK, DeskJobs, Idle
    <2> QED BY <1>4, <2>1, DeskKeeps DEF StepKeeps
  <1>5. CASE \E p \in Products : ReadProduct(p)
    BY <1>5, CatalogueKeeps
  <1>6. CASE WriteProduct \/ WriteProductStock
    <2>1. \E p : p \in Products
      BY <1>6 DEF WriteProduct, WriteProductStock, IInv, TypeOK, DeskJobs, Idle
    <2> QED BY <1>6, <2>1, CatalogueKeeps
  <1> QED BY <1>1, <1>2, <1>3, <1>4, <1>5, <1>6 DEF Next

(* The counters stay natural numbers and every row stays well formed.      *)
THEOREM TypeCorrect == Spec => []TypeOK
  <1>1. IInv => TypeOK
    BY DEF IInv
  <1> QED BY InitIInv, NextIInv, <1>1, PTL DEF Spec

(* No sequence of calls, however undisciplined, makes a unit disappear.    *)
THEOREM NothingLost == Spec => []NoUnitLost
  <1>1. IInv => NoUnitLost
    BY DEF IInv
  <1> QED BY InitIInv, NextIInv, <1>1, PTL DEF Spec

(* The window of a catalogue edit: while the desk holds the units it read  *)
(* of a product, no other operation moves that product's copy.             *)
EditsHold ==
    desk.job = "catalogue" /\ UNCHANGED desk => stock'[desk.product] = stock[desk.product]

(* The copy is the count, and an open edit holds the units of its copy.    *)
SyncInv ==
    /\ IInv
    /\ StockInSync
    /\ desk.job = "catalogue" => desk.units = stock[desk.product]

(* The calls of the order lifecycle leave the desk alone.                  *)
LEMMA OrderCallsKeepSync ==
    ASSUME SyncInv, EditsHold, NEW o \in Orders,
           Reserve(o) \/ Release(o) \/ Deduct(o) \/ RestockCheck(o) \/ RestockCredit(o)
    PROVE  SyncInv'
  <1>1. IInv' /\ stock' = available'
    BY OrderCallsKeep DEF SyncInv, StockInSync, StepKeeps
  <1>2. UNCHANGED desk
    BY DEF Reserve, Release, Deduct, RestockCheck, RestockCredit
  <1> QED BY <1>1, <1>2 DEF SyncInv, StockInSync, EditsHold

(* The warehouse desk adjusts, opens an edit of the settings or closes one. *)
LEMMA DeskKeepsSync ==
    ASSUME SyncInv, EditsHold, NEW p \in Products,
           AdjustStock(p) \/ ReadSettings(p) \/ WriteSettings
    PROVE  SyncInv'
  <1>1. IInv' /\ stock' = available'
    BY DeskKeeps DEF SyncInv, StockInSync, StepKeeps
  <1>2. UNCHANGED desk \/ desk'.job # "catalogue"
    <2>1. ASSUME AdjustStock(p) PROVE UNCHANGED desk
      BY <2>1 DEF AdjustStock, AdjustTo
    <2>2. ASSUME ReadSettings(p) PROVE desk'.job = "settings"
      BY <2>2 DEF ReadSettings
    <2>3. ASSUME WriteSettings PROVE desk'.job = "idle"
      BY <2>3 DEF WriteSettings, Idle
    <2> QED BY <2>1, <2>2, <2>3
  <1> QED BY <1>1, <1>2 DEF SyncInv, StockInSync, EditsHold

(* The catalogue desk writes back the units it read, which are still those *)
(* of the copy, or sets the copy and the count to the same number.         *)
LEMMA CatalogueKeepsSync ==
    ASSUME SyncInv, NEW p \in Products, ReadProduct(p) \/ WriteProduct \/ WriteProductStock
    PROVE  SyncInv'
  <1>1. IInv'
    BY CatalogueKeeps DEF SyncInv
  <1>2. stock \in [Products -> Nat] /\ available \in [Products -> Nat]
    BY DEF SyncInv, IInv, TypeOK, LedgerTypeOK
  <1>3. CASE ReadProduct(p)
    BY <1>1, <1>3 DEF ReadProduct, ledger, SyncInv, StockInSync
  <1>4. CASE WriteProduct
    <2>1. stock' = stock
      BY <1>2, <1>4 DEF WriteProduct, SyncInv
    <2>2. UNCHANGED available /\ desk'.job = "idle"
      BY <1>4 DEF WriteProduct, Idle
    <2> QED BY <1>1, <2>1, <2>2 DEF SyncInv, StockInSync
  <1>5. CASE WriteProductStock
    <2>1. stock' = available'
      BY <1>2, <1>5 DEF WriteProductStock, SyncInv, StockInSync
    <2>2. desk'.job = "idle"
      BY <1>5 DEF WriteProductStock, Idle
    <2> QED BY <1>1, <2>1, <2>2 DEF SyncInv, StockInSync
  <1> QED BY <1>3, <1>4, <1>5

(* The copy in Product.stock is the available count at every step as long  *)
(* as no count moves under an open catalogue edit of its product: each of  *)
(* the service's operations rewrites the copy for exactly the rows whose   *)
(* count it moved, and updateProduct's blind write of the units its form   *)
(* was opened with can only be stale if they moved in between.             *)
THEOREM CopyInSyncWhileEditsHold == Spec /\ [][EditsHold]_vars => []StockInSync
  <1>1. Init => SyncInv
    BY InitIInv DEF Init, LedgerInit, Idle, SyncInv, StockInSync
  <1>2. SyncInv /\ [Next]_vars /\ [EditsHold]_vars => SyncInv'
    <2> SUFFICES ASSUME SyncInv, [Next]_vars, [EditsHold]_vars PROVE SyncInv'
      OBVIOUS
    <2>1. CASE UNCHANGED vars
      <3>1. IInv'
        BY <2>1, NextIInv DEF SyncInv
      <3> QED BY <2>1, <3>1 DEF vars, ledger, SyncInv, StockInSync
    <2>2. CASE Next /\ EditsHold
      <3>1. CASE \E o \in Orders : \/ Reserve(o) \/ Release(o) \/ Deduct(o)
                                  \/ RestockCheck(o) \/ RestockCredit(o)
        BY <2>2, <3>1, OrderCallsKeepSync
      <3>2. CASE \E p \in Products : AdjustStock(p) \/ ReadSettings(p)
        BY <2>2, <3>2, DeskKeepsSync
      <3>3. CASE WriteSettings
        <4>1. \E p : p \in Products
          BY <3>3 DEF WriteSettings, SyncInv, IInv, TypeOK, DeskJobs, Idle
        <4> QED BY <2>2, <3>3, <4>1, DeskKeepsSync
      <3>4. CASE \E p \in Products : ReadProduct(p)
        BY <3>4, CatalogueKeepsSync
      <3>5. CASE WriteProduct \/ WriteProductStock
        <4>1. \E p : p \in Products
          BY <3>5 DEF WriteProduct, WriteProductStock, SyncInv, IInv, TypeOK, DeskJobs, Idle
        <4> QED BY <3>5, <4>1, CatalogueKeepsSync
      <3> QED BY <2>2, <3>1, <3>2, <3>3, <3>4, <3>5 DEF Next
    <2> QED BY <2>1, <2>2
  <1>3. SyncInv => StockInSync
    BY DEF SyncInv
  <1> QED BY <1>1, <1>2, <1>3, PTL DEF Spec

(* In particular when nobody edits the catalogue.                          *)
THEOREM CopyInSync == "catalogue" \notin Desks => (Spec => []StockInSync)
  <1> DEFINE Closed == desk.job # "catalogue"
  <1> SUFFICES ASSUME "catalogue" \notin Desks PROVE Spec => []StockInSync
    OBVIOUS
  <1>1. Init => Closed
    BY DEF Init, Idle
  <1>2. Closed /\ [Next]_vars => Closed'
    <2> SUFFICES ASSUME Closed, [Next]_vars PROVE Closed'
      OBVIOUS
    <2>1. CASE UNCHANGED desk
      BY <2>1
    <2>2. ASSUME NEW p \in Products, ReadSettings(p) PROVE Closed'
      BY <2>2 DEF ReadSettings
    <2>3. CASE WriteSettings
      BY <2>3 DEF WriteSettings, Idle
    <2>4. ASSUME NEW p \in Products, ReadProduct(p) PROVE FALSE
      BY <2>4 DEF ReadProduct
    <2>5. CASE WriteProduct \/ WriteProductStock
      BY <2>5 DEF WriteProduct, WriteProductStock
    <2>6. ASSUME NEW p \in Products, AdjustStock(p) PROVE UNCHANGED desk
      BY <2>6 DEF AdjustStock, AdjustTo
    <2>7. ASSUME NEW o \in Orders,
                 Reserve(o) \/ Release(o) \/ Deduct(o) \/ RestockCheck(o) \/ RestockCredit(o)
          PROVE  UNCHANGED desk
      BY <2>7 DEF Reserve, Release, Deduct, RestockCheck, RestockCredit
    <2> QED BY <2>1, <2>2, <2>3, <2>4, <2>5, <2>6, <2>7 DEF Next, vars
  <1>3. Closed => EditsHold
    BY DEF EditsHold
  <1>4. Spec => [][EditsHold]_vars
    BY <1>1, <1>2, <1>3, PTL DEF Spec
  <1> QED BY <1>4, CopyInSyncWhileEditsHold, PTL

----------------------------------------------------------------------------
(* The copy and the label move with the count.                             *)

Shown(p) ==
    available'[p] # available[p] =>
        /\ stock'[p] = available'[p]
        /\ (label'[p] = "OUT_OF_STOCK" <=> available'[p] = 0)

(* A row that an operation rewrites gets the copy and the label of its new *)
(* count, because counts are natural numbers.                              *)
LEMMA RewrittenIsShown ==
    ASSUME available' \in [Products -> Nat], NEW touched, NEW limits,
           SyncStock(touched), Relabel(touched, limits),
           NEW p \in Products, available'[p] # available[p] => p \in touched
    PROVE  Shown(p)
  <1>1. ASSUME p \in touched PROVE Shown(p)
    <2>1. stock'[p] = available'[p] /\ label'[p] = ComputeStatus(available'[p], limits[p])
      BY <1>1 DEF SyncStock, Relabel
    <2>2. available'[p] \in Nat
      OBVIOUS
    <2> QED BY <2>1, <2>2 DEF Shown, ComputeStatus
  <1> QED BY <1>1 DEF Shown

(* The order lifecycle's calls rewrite every row whose count they move.    *)
LEMMA OrderCallsShow ==
    ASSUME IInv, NEW o \in Orders, NEW p \in Products,
           Reserve(o) \/ Release(o) \/ Deduct(o) \/ RestockCheck(o) \/ RestockCredit(o)
    PROVE  Shown(p)
  <1>1. /\ available \in [Products -> Nat] /\ available' \in [Products -> Nat]
        /\ reserved \in [Products -> Nat] /\ Items[o] \in [Products -> Nat]
    BY OrderCallsKeep, OrdersAssumption DEF StepKeeps, IInv, TypeOK, LedgerTypeOK
  <1>2. CASE Reserve(o)
    <2>1. available'[p] = available[p] - Items[o][p]
      BY <1>2 DEF Reserve, ReserveStock
    <2>2. available'[p] # available[p] => p \in {q \in Products : Items[o][q] > 0}
      BY <1>1, <2>1
    <2> QED BY <1>1, <1>2, <2>2, RewrittenIsShown DEF Reserve, ReserveStock
  <1>3. CASE Release(o)
    <2>1. available'[p] = available[p] + AtMost(reserved[p], Items[o][p])
      BY <1>3 DEF Release, ReleaseReservation
    <2>2. AtMost(reserved[p], Items[o][p]) \in Nat
      BY <1>1, AtMostFact
    <2>3. available'[p] # available[p] =>
              p \in {q \in Products : AtMost(reserved[q], Items[o][q]) > 0}
      BY <1>1, <2>1, <2>2
    <2>4. SyncStock({q \in Products : AtMost(reserved[q], Items[o][q]) > 0})
      BY <1>3 DEF Release, ReleaseReservation, SyncStock
    <2> QED BY <1>1, <1>3, <2>3, <2>4, RewrittenIsShown DEF Release
  <1>4. CASE Deduct(o) \/ RestockCheck(o)
    BY <1>4 DEF Deduct, ConfirmDeduction, RestockCheck, ledger, Shown
  <1>5. CASE RestockCredit(o)
    <2>1. CreditRestock(o, Items[o])
      BY <1>5 DEF RestockCredit, RestockOrder
    <2>2. available'[p] = available[p] + Items[o][p]
      BY <2>1 DEF CreditRestock
    <2>3. available'[p] # available[p] => p \in {q \in Products : Items[o][q] > 0}
      BY <1>1, <2>2
    <2> QED BY <1>1, <1>5, <2>1, <2>3, RewrittenIsShown DEF RestockCredit, CreditRestock
  <1> QED BY <1>2, <1>3, <1>4, <1>5

(* The desks: an adjustment and a stock-naming edit rewrite the row, the   *)
(* other edits move no count.                                              *)
LEMMA DeskShows ==
    ASSUME IInv, IInv', NEW p \in Products, NEW r \in Products,
           \/ AdjustStock(r) \/ ReadSettings(r) \/ WriteSettings
           \/ ReadProduct(r) \/ WriteProduct \/ WriteProductStock
    PROVE  Shown(p)
  <1>1. available \in [Products -> Nat] /\ available' \in [Products -> Nat]
    BY DEF IInv, TypeOK, LedgerTypeOK
  <1>2. CASE AdjustStock(r)
    <2>1. PICK units, newSold, limit : AdjustTo(r, units, newSold, limit)
      BY <1>2 DEF AdjustStock
    <2>2. available'[p] # available[p] => p \in {r}
      BY <1>1, <2>1 DEF AdjustTo
    <2> QED BY <1>1, <2>1, <2>2, RewrittenIsShown DEF AdjustTo
  <1>3. CASE WriteProductStock
    <2>1. PICK q \in Nat : /\ available' = [available EXCEPT ![desk.product] = q]
                           /\ stock' = [stock EXCEPT ![desk.product] = q]
                           /\ label' = [label EXCEPT ![desk.product] = ComputeStatus(q, 10)]
      BY <1>3, OrdersAssumption DEF WriteProductStock
    <2>2. /\ available \in [Products -> Nat] /\ stock \in [Products -> Nat]
          /\ label \in [Products -> Labels]
      BY DEF IInv, TypeOK, LedgerTypeOK
    <2>3. CASE p = desk.product
      <3>1. available'[p] = q /\ stock'[p] = q /\ label'[p] = ComputeStatus(q, 10)
        BY <2>1, <2>2, <2>3
      <3> QED BY <3>1 DEF Shown, ComputeStatus
    <2>4. CASE p # desk.product
      BY <2>1, <2>2, <2>4 DEF Shown
    <2> QED BY <2>3, <2>4
  <1>4. CASE ReadSettings(r) \/ WriteSettings \/ ReadProduct(r) \/ WriteProduct
    BY <1>4 DEF ReadSettings, WriteSettings, ReadProduct, WriteProduct, ledger, Shown
  <1> QED BY <1>2, <1>3, <1>4

(* Whichever operation moves the available count of a product writes the   *)
(* copy the storefront lists from, and the label that says sold out, in    *)
(* the same transaction.                                                   *)
THEOREM CountIsShown == Spec => MovesAreShown
  <1> DEFINE A == \A p \in Products : available'[p] # available[p] =>
                      /\ stock'[p] = available'[p]
                      /\ label'[p] = "OUT_OF_STOCK" <=> available'[p] = 0
  <1>1. IInv /\ [Next]_vars => [A]_vars
    <2> SUFFICES ASSUME IInv, Next, NEW p \in Products PROVE Shown(p)
      BY DEF Shown
    <2>1. IInv'
      BY NextIInv
    <2>2. CASE \E o \in Orders : \/ Reserve(o) \/ Release(o) \/ Deduct(o)
                                \/ RestockCheck(o) \/ RestockCredit(o)
      BY <2>2, OrderCallsShow
    <2>3. CASE \/ \E r \in Products : AdjustStock(r) \/ ReadSettings(r) \/ ReadProduct(r)
               \/ WriteSettings \/ WriteProduct \/ WriteProductStock
      BY <2>1, <2>3, DeskShows
    <2> QED BY <2>2, <2>3 DEF Next
  <1> QED BY <1>1, InitIInv, NextIInv, PTL DEF Spec, MovesAreShown

----------------------------------------------------------------------------
(* The outbox.                                                             *)

(* Unless its lock was outlived, a row in somebody's hand is in process,   *)
(* its lock is fresh, and it is the worker's.                              *)
HeldOK ==
    \A w \in Workers, m \in Messages \ outlived : Holds(w, m) =>
        status[m] = "PROCESSING" /\ ~stale[m] /\ Locks(w, m)

(* Between two passes a worker has no row in hand.                         *)
IdleHoldsNothing ==
    \A w \in Workers, m \in Messages : step[w] \in {"idle", "ready"} => ~Holds(w, m)

(* A verdict is about a row the worker has in hand.                        *)
VerdictOK ==
    \A w \in Workers : step[w] = "mark" =>
        verdict[w] # NoVerdict /\ Holds(w, verdict[w].row)

(* A row holds its key exactly while it is queued or sent, unless its lock *)
(* was outlived, and no two rows hold the same.                            *)
Alive(m) == status[m] \in {"PENDING", "PROCESSING", "SENT"}

KeysOK ==
    /\ \A m \in Messages \ outlived : dedupeKey[m] = IF Alive(m) THEN KeyOf[m] ELSE NoKey
    /\ \A m, n \in Messages : m # n /\ dedupeKey[m] # NoKey => dedupeKey[m] # dedupeKey[n]

HandsOK ==
    /\ OutboxTypeOK
    /\ HeldOK
    /\ OneWorkerPerRow
    /\ IdleHoldsNothing
    /\ VerdictOK
    /\ KeysOK

(* Whoever may still deliver a message, or queue it again: the workers     *)
(* that have it in hand and no other verdict on it than to try again.      *)
Judged(w, m) == step[w] = "mark" /\ verdict[w].row = m

Chances(m) == {w \in Workers : Holds(w, m) /\ (Judged(w, m) => verdict[w].to = "PENDING")}

(* Of those, the ones whose failure puts the message back into the queue.  *)
Retriers(m) == {w \in Chances(m) : ~Judged(w, m) => tries[w][m] < MaxAttempts}

(* The message may be claimed, or come back into the queue by its lock.    *)
Loose(m) ==
    \/ status[m] \in {"NONE", "PENDING"}
    \/ status[m] = "PROCESSING" /\ (stale[m] \/ \A w \in Workers : ~Locks(w, m))

Queued(m) == IF Loose(m) THEN 1 ELSE 0

(* Every copy, and every chance of another one, is paid for.               *)
CopyIsPaid(m) == copies[m] + Cardinality(Chances(m)) + Queued(m) <= 1 + faults

(* Every claim beyond the last attempt is paid for, in advance.            *)
TryIsPaid(m) ==
    /\ Cardinality(Retriers(m)) + Queued(m) <= 1 + faults
    /\ attempts[m] >= MaxAttempts =>
        attempts[m] + Cardinality(Retriers(m)) + Queued(m) <= MaxAttempts + faults

OutboxInv == HandsOK /\ \A m \in Messages : CopyIsPaid(m) /\ TryIsPaid(m)

----------------------------------------------------------------------------
(* Counting.                                                               *)

LEMMA Counting ==
    ASSUME NEW S, IsFiniteSet(S), NEW T
    PROVE  /\ Cardinality(S) \in Nat
           /\ T \subseteq S => Cardinality(T) \in Nat /\ Cardinality(T) <= Cardinality(S)
           /\ \A x \in S : T \subseteq S \ {x} =>
                  Cardinality(T) \in Nat /\ Cardinality(T) + 1 <= Cardinality(S)
           /\ \A x : T \subseteq S \cup {x} =>
                  Cardinality(T) \in Nat /\ Cardinality(T) <= Cardinality(S) + 1
  <1>1. ASSUME NEW R, IsFiniteSet(R), T \subseteq R
        PROVE  Cardinality(T) \in Nat /\ Cardinality(T) <= Cardinality(R)
    BY <1>1, FS_Subset, FS_CardinalityType
  <1>2. Cardinality(S) \in Nat
    BY FS_CardinalityType
  <1>3. ASSUME NEW x \in S, T \subseteq S \ {x}
        PROVE  Cardinality(T) \in Nat /\ Cardinality(T) + 1 <= Cardinality(S)
    <2>1. IsFiniteSet(S \ {x}) /\ Cardinality(S \ {x}) = Cardinality(S) - 1
      BY <1>3, FS_RemoveElement
    <2>2. Cardinality(T) \in Nat /\ Cardinality(T) <= Cardinality(S \ {x})
      BY <1>1, <1>3, <2>1
    <2> QED BY <1>2, <2>1, <2>2
  <1>4. ASSUME NEW x, T \subseteq S \cup {x}
        PROVE  Cardinality(T) \in Nat /\ Cardinality(T) <= Cardinality(S) + 1
    <2>1. IsFiniteSet(S \cup {x}) /\ Cardinality(S \cup {x}) <= Cardinality(S) + 1
      BY <1>2, FS_AddElement
    <2>2. Cardinality(T) \in Nat /\ Cardinality(T) <= Cardinality(S \cup {x})
      BY <1>1, <1>4, <2>1
    <2>3. Cardinality(S \cup {x}) \in Nat
      BY <2>1, FS_CardinalityType
    <2> QED BY <1>2, <2>1, <2>2, <2>3
  <1> QED BY <1>1, <1>2, <1>3, <1>4

LEMMA CountsAreFinite ==
    ASSUME NEW m \in Messages
    PROVE  /\ IsFiniteSet(Chances(m)) /\ IsFiniteSet(Retriers(m))
           /\ Queued(m) \in {0, 1} /\ Queued(m)' \in {0, 1}
  <1>1. Chances(m) \subseteq Workers /\ Retriers(m) \subseteq Workers
    BY DEF Chances, Retriers
  <1> QED BY <1>1, OutboxAssumption, FS_Subset DEF Queued

(* Nothing about m is put at stake by a step that gives no new chance.     *)
LEMMA NothingNew ==
    ASSUME HandsOK, NEW m \in Messages, CopyIsPaid(m), TryIsPaid(m),
           Chances(m)' \subseteq Chances(m), Retriers(m)' \subseteq Retriers(m),
           Loose(m)' => Loose(m),
           copies'[m] = copies[m], attempts'[m] = attempts[m],
           faults' \in Nat, faults' >= faults
    PROVE  CopyIsPaid(m)' /\ TryIsPaid(m)'
  <1>1. Queued(m) \in {0, 1} /\ Queued(m)' \in {0, 1} /\ Queued(m)' <= Queued(m)
    BY DEF Queued
  <1>2. /\ Cardinality(Chances(m)) \in Nat
        /\ Cardinality(Chances(m)') \in Nat /\ Cardinality(Chances(m)') <= Cardinality(Chances(m))
    BY CountsAreFinite, Counting
  <1>3. /\ Cardinality(Retriers(m)) \in Nat
        /\ Cardinality(Retriers(m)') \in Nat /\ Cardinality(Retriers(m)') <= Cardinality(Retriers(m))
    BY CountsAreFinite, Counting
  <1>4. copies[m] \in Nat /\ attempts[m] \in Nat /\ faults \in Nat /\ MaxAttempts \in Nat
    BY OutboxAssumption DEF HandsOK, OutboxTypeOK
  <1>5. CopyIsPaid(m)'
    BY <1>1, <1>2, <1>4 DEF CopyIsPaid
  <1>6. TryIsPaid(m)'
    BY <1>1, <1>3, <1>4 DEF TryIsPaid
  <1> QED BY <1>5, <1>6

(* A fault pays for one chance, in a worker's hand or in the queue.        *)
LEMMA FaultPays ==
    ASSUME HandsOK, NEW m \in Messages, CopyIsPaid(m), TryIsPaid(m), NEW w,
           \/ /\ Chances(m)' \subseteq Chances(m) \cup {w}
              /\ Retriers(m)' \subseteq Retriers(m) \cup {w}
              /\ Loose(m)' => Loose(m)
           \/ Chances(m)' \subseteq Chances(m) /\ Retriers(m)' \subseteq Retriers(m),
           copies'[m] = copies[m], attempts'[m] = attempts[m], faults' = faults + 1
    PROVE  CopyIsPaid(m)' /\ TryIsPaid(m)'
  <1>1. Queued(m) \in {0, 1} /\ Queued(m)' \in {0, 1}
    BY DEF Queued
  <1>2. /\ Cardinality(Chances(m)) \in Nat /\ Cardinality(Chances(m)') \in Nat
        /\ Cardinality(Chances(m)') + Queued(m)' <= Cardinality(Chances(m)) + Queued(m) + 1
    <2>1. CASE Chances(m)' \subseteq Chances(m) \cup {w} /\ (Loose(m)' => Loose(m))
      <3>1. Queued(m)' <= Queued(m)
        BY <2>1 DEF Queued
      <3>2. /\ Cardinality(Chances(m)) \in Nat /\ Cardinality(Chances(m)') \in Nat
            /\ Cardinality(Chances(m)') <= Cardinality(Chances(m)) + 1
        BY <2>1, CountsAreFinite, Counting
      <3> QED BY <1>1, <3>1, <3>2
    <2>2. CASE Chances(m)' \subseteq Chances(m)
      <3>1. /\ Cardinality(Chances(m)) \in Nat /\ Cardinality(Chances(m)') \in Nat
            /\ Cardinality(Chances(m)') <= Cardinality(Chances(m))
        BY <2>2, CountsAreFinite, Counting
      <3> QED BY <1>1, <3>1
    <2> QED BY <2>1, <2>2
  <1>3. /\ Cardinality(Retriers(m)) \in Nat /\ Cardinality(Retriers(m)') \in Nat
        /\ Cardinality(Retriers(m)') + Queued(m)' <= Cardinality(Retriers(m)) + Queued(m) + 1
    <2>1. CASE Retriers(m)' \subseteq Retriers(m) \cup {w} /\ (Loose(m)' => Loose(m))
      <3>1. Queued(m)' <= Queued(m)
        BY <2>1 DEF Queued
      <3>2. /\ Cardinality(Retriers(m)) \in Nat /\ Cardinality(Retriers(m)') \in Nat
            /\ Cardinality(Retriers(m)') <= Cardinality(Retriers(m)) + 1
        BY <2>1, CountsAreFinite, Counting
      <3> QED BY <1>1, <3>1, <3>2
    <2>2. CASE Retriers(m)' \subseteq Retriers(m)
      <3>1. /\ Cardinality(Retriers(m)) \in Nat /\ Cardinality(Retriers(m)') \in Nat
            /\ Cardinality(Retriers(m)') <= Cardinality(Retriers(m))
        BY <2>2, CountsAreFinite, Counting
      <3> QED BY <1>1, <3>1
    <2> QED BY <2>1, <2>2
  <1>4. copies[m] \in Nat /\ attempts[m] \in Nat /\ faults \in Nat /\ MaxAttempts \in Nat
    BY OutboxAssumption DEF HandsOK, OutboxTypeOK
  <1>5. CopyIsPaid(m)'
    BY <1>1, <1>2, <1>4 DEF CopyIsPaid
  <1>6. TryIsPaid(m)'
    BY <1>1, <1>3, <1>4 DEF TryIsPaid
  <1> QED BY <1>5, <1>6

(* The counts of m depend on its row, on who has it in hand with which     *)
(* attempt, and on the verdicts about it.                                  *)
LEMMA Untouched ==
    ASSUME NEW m \in Messages,
           status'[m] = status[m], stale'[m] = stale[m], attempts'[m] = attempts[m],
           \A v \in Workers : /\ tries'[v][m] = tries[v][m]
                              /\ Judged(v, m)' <=> Judged(v, m)
                              /\ Judged(v, m) => verdict'[v].to = verdict[v].to
    PROVE  /\ Chances(m)' = Chances(m) /\ Retriers(m)' = Retriers(m)
           /\ Loose(m)' <=> Loose(m)
  <1>1. \A v \in Workers : (Holds(v, m)' <=> Holds(v, m)) /\ (Locks(v, m)' <=> Locks(v, m))
    BY DEF Holds, Locks
  <1>2. Chances(m)' = Chances(m)
    BY <1>1 DEF Chances
  <1>3. Retriers(m)' = Retriers(m)
    BY <1>2 DEF Retriers, Chances
  <1>4. Loose(m)' <=> Loose(m)
    BY <1>1 DEF Loose
  <1> QED BY <1>2, <1>3, <1>4

----------------------------------------------------------------------------
(* The initial state, and each action in turn.                             *)

LEMMA OutboxInitInv == OutboxInit => OutboxInv
  <1> SUFFICES ASSUME OutboxInit PROVE OutboxInv
    OBVIOUS
  <1>1. HandsOK
    <2> USE OutboxAssumption DEF OutboxInit, NothingClaimed, Holds
    <2>1. OutboxTypeOK
      BY DEF OutboxTypeOK, Statuses, Keys, Verdicts
    <2>2. HeldOK /\ OneWorkerPerRow /\ IdleHoldsNothing /\ VerdictOK
      BY DEF HeldOK, OneWorkerPerRow, IdleHoldsNothing, VerdictOK
    <2>3. KeysOK
      BY DEF KeysOK, Alive
    <2> QED BY <2>1, <2>2, <2>3 DEF HandsOK
  <1>2. ASSUME NEW m \in Messages PROVE CopyIsPaid(m) /\ TryIsPaid(m)
    <2>1. Chances(m) = {} /\ Retriers(m) = {}
      BY DEF OutboxInit, NothingClaimed, Holds, Chances, Retriers
    <2>2. Cardinality({}) = 0
      BY FS_EmptySet
    <2>3. Queued(m) = 1
      BY DEF OutboxInit, Queued, Loose
    <2>4. copies[m] = 0 /\ attempts[m] = 0 /\ faults = 0 /\ MaxAttempts \in Nat \ {0}
      BY OutboxAssumption DEF OutboxInit
    <2> QED BY <2>1, <2>2, <2>3, <2>4 DEF CopyIsPaid, TryIsPaid
  <1> QED BY <1>1, <1>2 DEF OutboxInv

(* A new row has a key nobody holds and no attempt behind it.              *)
LEMMA EnqueueKeeps ==
    ASSUME OutboxInv, NEW m \in Messages, Enqueue(m)
    PROVE  OutboxInv'
  <1>1. HandsOK'
    <2> USE OutboxAssumption DEF OutboxInv, HandsOK, Enqueue, pass
    <2>1. OutboxTypeOK'
      BY DEF OutboxTypeOK, Statuses, Keys
    <2>2. HeldOK' /\ OneWorkerPerRow' /\ IdleHoldsNothing' /\ VerdictOK'
      BY DEF OutboxTypeOK, HeldOK, OneWorkerPerRow, IdleHoldsNothing, VerdictOK, Holds, Locks
    <2>3. KeysOK'
      BY DEF OutboxTypeOK, KeysOK, Alive
    <2> QED BY <2>1, <2>2, <2>3
  <1>2. ASSUME NEW n \in Messages PROVE CopyIsPaid(n)' /\ TryIsPaid(n)'
    <2>1. Chances(n)' = Chances(n) /\ Retriers(n)' = Retriers(n) /\ (Loose(n)' => Loose(n))
      BY DEF OutboxInv, HandsOK, OutboxTypeOK, Enqueue, pass, Chances, Retriers, Judged, Loose, Holds, Locks
    <2>2. faults \in Nat /\ UNCHANGED <<copies, attempts, faults>>
      BY DEF OutboxInv, HandsOK, OutboxTypeOK, Enqueue
    <2> QED BY <2>1, <2>2, NothingNew DEF OutboxInv
  <1> QED BY <1>1, <1>2 DEF OutboxInv

(* The lock of a row that was left grows old, and nobody has it in hand.   *)
LEMMA ExpireKeeps ==
    ASSUME OutboxInv, NEW m \in Messages, Expire(m)
    PROVE  OutboxInv'
  <1>1. HandsOK'
    <2> USE DEF OutboxInv, HandsOK, Expire, pass
    <2>1. OutboxTypeOK'
      BY DEF OutboxTypeOK
    <2>2. HeldOK' /\ OneWorkerPerRow' /\ IdleHoldsNothing' /\ VerdictOK'
      BY DEF OutboxTypeOK, HeldOK, OneWorkerPerRow, IdleHoldsNothing, VerdictOK, Holds, Locks
    <2>3. KeysOK'
      BY DEF KeysOK, Alive
    <2> QED BY <2>1, <2>2, <2>3
  <1>2. ASSUME NEW n \in Messages PROVE CopyIsPaid(n)' /\ TryIsPaid(n)'
    <2>1. Chances(n)' = Chances(n) /\ Retriers(n)' = Retriers(n)
      BY DEF Expire, pass, Chances, Retriers, Judged, Holds
    <2>2. Loose(n)' => Loose(n)
      BY DEF OutboxInv, HandsOK, OutboxTypeOK, Expire, pass, Loose, Holds, Locks
    <2>3. faults \in Nat /\ UNCHANGED <<copies, attempts, faults>>
      BY DEF OutboxInv, HandsOK, OutboxTypeOK, Expire
    <2> QED BY <2>1, <2>2, <2>3, NothingNew DEF OutboxInv
  <1> QED BY <1>1, <1>2 DEF OutboxInv

(* A pass that outlives a lock may have its row taken from it: a chance    *)
(* more, which the fault pays for.                                         *)
LEMMA OverrunKeeps ==
    ASSUME OutboxInv, NEW m \in Messages, Overrun(m)
    PROVE  OutboxInv'
  <1>1. HandsOK'
    <2> USE DEF OutboxInv, HandsOK, Overrun, pass
    <2>1. OutboxTypeOK'
      BY DEF OutboxTypeOK
    <2>2. HeldOK' /\ OneWorkerPerRow' /\ IdleHoldsNothing' /\ VerdictOK'
      BY DEF OutboxTypeOK, HeldOK, OneWorkerPerRow, IdleHoldsNothing, VerdictOK, Holds, Locks
    <2>3. KeysOK'
      BY DEF KeysOK, Alive
    <2> QED BY <2>1, <2>2, <2>3
  <1>2. ASSUME NEW n \in Messages PROVE CopyIsPaid(n)' /\ TryIsPaid(n)'
    <2>1. Chances(n)' = Chances(n) /\ Retriers(n)' = Retriers(n)
      BY DEF Overrun, pass, Chances, Retriers, Judged, Holds
    <2>2. UNCHANGED <<copies, attempts>> /\ faults' = faults + 1
      BY DEF Overrun
    <2> QED BY <2>1, <2>2, FaultPays DEF OutboxInv
  <1> QED BY <1>1, <1>2 DEF OutboxInv

(* Reclaiming touches only rows whose lock has grown old.                  *)
LEMMA ReclaimKeeps ==
    ASSUME OutboxInv, NEW w \in Workers, Reclaim(w)
    PROVE  OutboxInv'
  <1>1. HandsOK'
    <2> USE DEF OutboxInv, HandsOK, Reclaim, Abandoned
    <2>1. OutboxTypeOK'
      BY DEF OutboxTypeOK, Statuses
    <2>2. HeldOK' /\ OneWorkerPerRow'
      BY DEF OutboxTypeOK, HeldOK, OneWorkerPerRow, Holds, Locks
    <2>3. IdleHoldsNothing' /\ VerdictOK'
      BY DEF OutboxTypeOK, IdleHoldsNothing, VerdictOK, Holds
    <2>4. KeysOK'
      BY DEF OutboxTypeOK, KeysOK, Alive
    <2> QED BY <2>1, <2>2, <2>3, <2>4
  <1>2. ASSUME NEW n \in Messages PROVE CopyIsPaid(n)' /\ TryIsPaid(n)'
    <2>1. \A v \in Workers : Judged(v, n)' <=> Judged(v, n)
      BY DEF OutboxInv, HandsOK, OutboxTypeOK, Reclaim, Judged
    <2>2. Chances(n)' = Chances(n) /\ Retriers(n)' = Retriers(n)
      BY <2>1 DEF Reclaim, Chances, Retriers, Holds
    <2>3. Loose(n)' => Loose(n)
      BY DEF OutboxInv, HandsOK, OutboxTypeOK, Reclaim, Abandoned, Loose, Holds, Locks
    <2>4. faults \in Nat /\ UNCHANGED <<copies, attempts, faults>>
      BY DEF OutboxInv, HandsOK, OutboxTypeOK, Reclaim
    <2> QED BY <2>2, <2>3, <2>4, NothingNew DEF OutboxInv
  <1> QED BY <1>1, <1>2 DEF OutboxInv

(* A claim takes rows that are queued: the chance in the queue becomes one *)
(* in the worker's hand, or the attempt it paid for.                       *)
LEMMA ClaimKeeps ==
    ASSUME OutboxInv, NEW w \in Workers, NEW batch \in SUBSET Messages, Claim(w, batch)
    PROVE  OutboxInv'
  <1>1. HandsOK'
    <2> USE DEF OutboxInv, HandsOK, Claim
    <2>1. OutboxTypeOK'
      BY DEF OutboxTypeOK, Statuses
    <2>2. \A m \in batch \ outlived, v \in Workers : ~Holds(v, m)
      BY DEF HeldOK
    <2>3. \A v \in Workers, m \in Messages :
              Holds(v, m)' => IF v = w THEN m \in batch ELSE Holds(v, m)
      BY DEF OutboxTypeOK, Holds
    <2>4. HeldOK'
      <3>1. ASSUME NEW m \in batch
            PROVE  status'[m] = "PROCESSING" /\ ~stale'[m] /\ tries'[w][m] = attempts'[m]
        BY DEF OutboxTypeOK
      <3>2. ASSUME NEW v \in Workers, NEW m \in Messages, v # w, m \notin batch
            PROVE  /\ status'[m] = status[m] /\ stale'[m] = stale[m]
                   /\ attempts'[m] = attempts[m] /\ tries'[v][m] = tries[v][m]
        BY <3>2 DEF OutboxTypeOK
      <3>3. ASSUME NEW v \in Workers, NEW m \in Messages \ outlived, Holds(v, m)'
            PROVE  status'[m] = "PROCESSING" /\ ~stale'[m] /\ tries'[v][m] = attempts'[m]
        <4>1. CASE v = w
          BY <2>3, <3>1, <3>3, <4>1
        <4>2. CASE v # w
          <5>1. Holds(v, m) /\ m \notin batch
            BY <2>2, <2>3, <3>3, <4>2
          <5> QED BY <3>2, <4>2, <5>1 DEF HeldOK, Locks
        <4> QED BY <4>1, <4>2
      <3> QED BY <3>3 DEF HeldOK, Locks
    <2>5. OneWorkerPerRow'
      BY <2>2, <2>3 DEF OneWorkerPerRow
    <2>6. VerdictOK'
      BY DEF OutboxTypeOK, VerdictOK, Holds
    <2>7. IdleHoldsNothing'
      BY <2>3 DEF OutboxTypeOK, IdleHoldsNothing
    <2>8. KeysOK'
      BY DEF OutboxTypeOK, KeysOK, Alive
    <2> QED BY <2>1, <2>4, <2>5, <2>6, <2>7, <2>8
  <1>2. OutboxTypeOK /\ step[w] = "ready" /\ (\A n \in Messages : ~Holds(w, n))
    BY DEF OutboxInv, HandsOK, IdleHoldsNothing, Claim
  <1>3. \A v \in Workers, n \in Messages : v # w =>
            /\ tries'[v][n] = tries[v][n]
            /\ (Judged(v, n)' <=> Judged(v, n)) /\ verdict'[v] = verdict[v]
    BY <1>2 DEF OutboxTypeOK, Claim, Judged
  <1>4. \A n \in Messages : ~Judged(w, n) /\ ~Judged(w, n)'
    BY <1>2 DEF OutboxTypeOK, Claim, Judged
  <1>5. ASSUME NEW n \in Messages \ batch PROVE CopyIsPaid(n)' /\ TryIsPaid(n)'
    <2>1. tries'[w][n] = 0 /\ tries[w][n] = 0
      BY <1>2 DEF OutboxTypeOK, Claim, Holds
    <2>2. status'[n] = status[n] /\ stale'[n] = stale[n] /\ attempts'[n] = attempts[n]
      BY <1>2 DEF OutboxTypeOK, Claim
    <2>3. Chances(n)' = Chances(n) /\ Retriers(n)' = Retriers(n) /\ (Loose(n)' <=> Loose(n))
      BY <1>3, <1>4, <2>1, <2>2, Untouched
    <2>4. faults \in Nat /\ UNCHANGED <<copies, faults>>
      BY <1>2 DEF OutboxTypeOK, Claim
    <2> QED BY <2>2, <2>3, <2>4, NothingNew DEF OutboxInv
  <1>6. ASSUME NEW n \in batch PROVE CopyIsPaid(n)' /\ TryIsPaid(n)'
    <2>1. /\ status[n] = "PENDING" /\ status'[n] = "PROCESSING" /\ ~stale'[n]
          /\ attempts'[n] = attempts[n] + 1 /\ tries'[w][n] = attempts[n] + 1
      BY <1>2 DEF OutboxTypeOK, Claim
    <2>2. Queued(n) = 1
      BY <2>1 DEF Queued, Loose
    <2>3. attempts[n] \in Nat /\ copies[n] \in Nat /\ faults \in Nat /\ MaxAttempts \in Nat
      BY <1>2, OutboxAssumption DEF OutboxTypeOK
    <2>4. Queued(n)' = 0
      <3>1. Locks(w, n)'
        BY <2>1, <2>3 DEF Locks, Holds
      <3> QED BY <2>1, <3>1 DEF Queued, Loose
    <2>5. \A v \in Workers : v # w => (Holds(v, n)' <=> Holds(v, n))
      BY <1>3 DEF Holds
    <2>6. Chances(n)' \subseteq Chances(n) \cup {w}
      BY <1>3, <2>5 DEF Chances
    <2>7. /\ Retriers(n)' \subseteq Retriers(n) \cup {w}
          /\ attempts[n] + 1 >= MaxAttempts => Retriers(n)' \subseteq Retriers(n)
      <3>1. \A v \in Workers : v # w => (v \in Retriers(n)' <=> v \in Retriers(n))
        BY <1>3, <2>5 DEF Retriers, Chances
      <3>2. w \in Retriers(n)' => attempts[n] + 1 < MaxAttempts
        BY <1>4, <2>1 DEF Retriers
      <3>3. Retriers(n)' \subseteq Workers
        BY DEF Retriers, Chances
      <3> QED BY <2>3, <3>1, <3>2, <3>3
    <2>8. CopyIsPaid(n) /\ TryIsPaid(n) /\ UNCHANGED <<copies, faults>>
      BY DEF OutboxInv, Claim
    <2>9. CopyIsPaid(n)'
      <3>1. /\ Cardinality(Chances(n)) \in Nat /\ Cardinality(Chances(n)') \in Nat
            /\ Cardinality(Chances(n)') <= Cardinality(Chances(n)) + 1
        BY <2>6, CountsAreFinite, Counting
      <3> QED BY <2>2, <2>3, <2>4, <2>8, <3>1 DEF CopyIsPaid
    <2>10. TryIsPaid(n)'
      <3>1. /\ Cardinality(Retriers(n)) \in Nat /\ Cardinality(Retriers(n)') \in Nat
            /\ Cardinality(Retriers(n)') <= Cardinality(Retriers(n)) + 1
        BY <2>7, CountsAreFinite, Counting
      <3>2. attempts[n] + 1 >= MaxAttempts => Cardinality(Retriers(n)') <= Cardinality(Retriers(n))
        BY <2>7, CountsAreFinite, Counting
      <3>3. Cardinality(Retriers(n)') <= 1 + faults
        BY <2>2, <2>3, <2>8, <3>1 DEF TryIsPaid
      <3>4. attempts[n] + 1 >= MaxAttempts =>
                attempts[n] + 1 + Cardinality(Retriers(n)') <= MaxAttempts + faults
        <4>1. CASE attempts[n] >= MaxAttempts
          BY <4>1, <2>2, <2>3, <2>8, <3>1, <3>2 DEF TryIsPaid
        <4>2. CASE attempts[n] + 1 = MaxAttempts
          BY <4>2, <2>2, <2>3, <2>8, <3>1, <3>2 DEF TryIsPaid
        <4> QED BY <2>3, <4>1, <4>2
      <3> QED BY <2>1, <2>3, <2>4, <2>8, <3>1, <3>3, <3>4 DEF TryIsPaid
    <2> QED BY <2>9, <2>10
  <1> QED BY <1>1, <1>5, <1>6 DEF OutboxInv

(* A delivery turns the worker's chance into a copy, or keeps it for       *)
(* another try, or gives it up; only a lost answer is a copy that leaves   *)
(* the chance, and it is a fault.                                          *)
LEMMA DeliverKeeps ==
    ASSUME OutboxInv, NEW w \in Workers, Deliver(w)
    PROVE  OutboxInv'
  <1>1. PICK m \in Messages :
            /\ Holds(w, m)
            /\ Accepted(w, m) \/ Rejected(w, m) \/ Postponed(w, m) \/ AnswerLost(w, m)
    BY DEF Deliver
  <1>2. step[w] = "batch" /\ HandsOK /\ OutboxTypeOK
    BY DEF Deliver, OutboxInv, HandsOK
  <1>3. PICK to \in Marks, caught \in BOOLEAN :
            /\ Decide(w, m, to, caught)
            /\ to = "PENDING" => tries[w][m] < MaxAttempts
            /\ \/ copies' = copies /\ faults' = faults
               \/ to = "SENT" /\ copies' = [copies EXCEPT ![m] = @ + 1] /\ faults' = faults
               \/ copies' = [copies EXCEPT ![m] = @ + 1] /\ faults' = faults + 1
    <2>1. AfterError(w, m) \in Marks /\ (AfterError(w, m) = "PENDING" => tries[w][m] < MaxAttempts)
      BY <1>2, OutboxAssumption DEF OutboxTypeOK, AfterError, Marks
    <2>2. CASE Accepted(w, m)
      BY <2>2 DEF Accepted, Marks
    <2>3. CASE Rejected(w, m)
      BY <2>3 DEF Rejected, Marks
    <2>4. CASE Postponed(w, m)
      BY <2>1, <2>4 DEF Postponed
    <2>5. CASE AnswerLost(w, m)
      BY <2>1, <2>5 DEF AnswerLost
    <2> QED BY <1>1, <2>2, <2>3, <2>4, <2>5
  <1>4. /\ step' = [step EXCEPT ![w] = "mark"]
        /\ verdict' = [verdict EXCEPT ![w] = [row |-> m, to |-> to, caught |-> caught]]
        /\ UNCHANGED <<status, attempts, dedupeKey, stale, tries, outlived>>
    BY <1>3 DEF Decide, table
  <1>5. /\ copies' \in [Messages -> Nat] /\ faults' \in Nat /\ faults' >= faults
        /\ \A n \in Messages \ {m} : copies'[n] = copies[n]
    BY <1>2, <1>3 DEF OutboxTypeOK
  <1>6. HandsOK'
    <2>1. OutboxTypeOK'
      BY <1>2, <1>4, <1>5 DEF OutboxTypeOK, Verdicts
    <2>2. HeldOK' /\ OneWorkerPerRow' /\ IdleHoldsNothing' /\ KeysOK'
      BY <1>2, <1>4 DEF HandsOK, OutboxTypeOK, HeldOK, OneWorkerPerRow, IdleHoldsNothing, Holds,
                        Locks, KeysOK, Alive
    <2>3. VerdictOK'
      <3>1. verdict'[w].row = m /\ verdict'[w].to = to
        BY <1>2, <1>4 DEF OutboxTypeOK
      <3>2. verdict'[w] # NoVerdict /\ Holds(w, m)'
        BY <3>1, <1>1, <1>4 DEF NoVerdict, Marks, Holds
      <3>3. \A v \in Workers : v # w => step'[v] = step[v] /\ verdict'[v] = verdict[v]
        BY <1>2, <1>4 DEF OutboxTypeOK
      <3> QED BY <3>1, <3>2, <3>3, <1>2, <1>4 DEF HandsOK, VerdictOK, Holds
    <2> QED BY <2>1, <2>2, <2>3 DEF HandsOK
  <1>7. \A n \in Messages : /\ ~Judged(w, n)
                            /\ Judged(w, n)' <=> n = m
    BY <1>2, <1>4 DEF OutboxTypeOK, Judged
  <1>8. \A v \in Workers, n \in Messages : v # w =>
            (Judged(v, n)' <=> Judged(v, n)) /\ verdict'[v] = verdict[v]
    BY <1>2, <1>4 DEF OutboxTypeOK, Judged
  <1>9. ASSUME NEW n \in Messages \ {m} PROVE CopyIsPaid(n)' /\ TryIsPaid(n)'
    <2>1. Chances(n)' = Chances(n) /\ Retriers(n)' = Retriers(n) /\ (Loose(n)' <=> Loose(n))
      BY <1>4, <1>7, <1>8, Untouched
    <2> QED BY <1>2, <1>4, <1>5, <2>1, NothingNew DEF OutboxInv
  <1>10. CopyIsPaid(m)' /\ TryIsPaid(m)'
    <2>1. w \in Chances(m)
      BY <1>1, <1>7 DEF Chances
    <2>2. verdict'[w].to = to
      BY <1>2, <1>4 DEF OutboxTypeOK
    <2>3. /\ Chances(m)' \subseteq Chances(m)
          /\ to = "SENT" => Chances(m)' \subseteq Chances(m) \ {w}
      BY <1>4, <1>7, <1>8, <2>1, <2>2 DEF Chances, Holds
    <2>4. Retriers(m)' \subseteq Retriers(m)
      <3>1. ASSUME w \in Retriers(m)' PROVE w \in Retriers(m)
        <4>1. to = "PENDING"
          BY <1>7, <2>2, <3>1 DEF Retriers, Chances
        <4> QED BY <1>3, <2>1, <4>1 DEF Retriers
      <3>2. ASSUME NEW v \in Retriers(m)', v # w PROVE v \in Retriers(m)
        BY <1>4, <1>8, <2>3, <3>2 DEF Retriers, Chances
      <3> QED BY <3>1, <3>2
    <2>5. Loose(m)' <=> Loose(m)
      BY <1>4 DEF Loose, Locks, Holds
    <2>6. Queued(m)' = Queued(m) /\ Queued(m) \in {0, 1} /\ attempts'[m] = attempts[m]
      BY <1>4, <2>5 DEF Queued
    <2>7. copies[m] \in Nat /\ attempts[m] \in Nat /\ faults \in Nat /\ MaxAttempts \in Nat
      BY <1>2, OutboxAssumption DEF OutboxTypeOK
    <2>8. /\ Cardinality(Retriers(m)) \in Nat /\ Cardinality(Retriers(m)') \in Nat
          /\ Cardinality(Retriers(m)') <= Cardinality(Retriers(m))
      BY <2>4, CountsAreFinite, Counting
    <2>9. /\ Cardinality(Chances(m)) \in Nat /\ Cardinality(Chances(m)') \in Nat
          /\ Cardinality(Chances(m)') <= Cardinality(Chances(m))
          /\ to = "SENT" => Cardinality(Chances(m)') + 1 <= Cardinality(Chances(m))
      BY <2>1, <2>3, CountsAreFinite, Counting
    <2>10. CopyIsPaid(m) /\ TryIsPaid(m)
      BY DEF OutboxInv
    <2>11. \/ copies'[m] = copies[m] /\ faults' = faults
           \/ to = "SENT" /\ copies'[m] = copies[m] + 1 /\ faults' = faults
           \/ copies'[m] = copies[m] + 1 /\ faults' = faults + 1
      BY <1>2, <1>3 DEF OutboxTypeOK
    <2>12. CopyIsPaid(m)'
      BY <2>6, <2>7, <2>9, <2>10, <2>11 DEF CopyIsPaid
    <2>13. TryIsPaid(m)'
      BY <1>5, <2>6, <2>7, <2>8, <2>10 DEF TryIsPaid
    <2> QED BY <2>12, <2>13
  <1> QED BY <1>6, <1>9, <1>10 DEF OutboxInv

(* A mark that failed is a fault, which pays for another try.              *)
LEMMA MarkFailsKeeps ==
    ASSUME OutboxInv, NEW w \in Workers, MarkFails(w)
    PROVE  OutboxInv'
  <1> DEFINE m == verdict[w].row
  <1>0. HandsOK /\ OutboxTypeOK /\ VerdictOK /\ step[w] = "mark"
    BY DEF OutboxInv, HandsOK, MarkFails
  <1>1. m \in Messages /\ Holds(w, m) /\ verdict[w] \in [row: Messages, to: Marks, caught: BOOLEAN]
    BY <1>0 DEF OutboxTypeOK, VerdictOK, Verdicts
  <1>2. AfterError(w, m) \in Marks /\ (AfterError(w, m) = "PENDING" => tries[w][m] < MaxAttempts)
    BY <1>0, <1>1, OutboxAssumption DEF OutboxTypeOK, AfterError, Marks
  <1>3. /\ verdict' = [verdict EXCEPT ![w] = [row |-> m, to |-> AfterError(w, m), caught |-> FALSE]]
        /\ faults' = faults + 1
        /\ UNCHANGED <<status, attempts, dedupeKey, stale, step, tries, copies, outlived>>
    BY <1>0, <1>1 DEF OutboxTypeOK, MarkFails, table
  <1>4. OutboxTypeOK'
    <2>1. [row |-> m, to |-> AfterError(w, m), caught |-> FALSE] \in Verdicts
      BY <1>1, <1>2 DEF Verdicts
    <2>2. verdict' \in [Workers -> Verdicts]
      BY <1>0, <1>3, <2>1 DEF OutboxTypeOK
    <2>3. faults' \in Nat
      BY <1>0, <1>3 DEF OutboxTypeOK
    <2> QED BY <1>0, <1>3, <2>2, <2>3 DEF OutboxTypeOK
  <1>5. HeldOK' /\ OneWorkerPerRow' /\ IdleHoldsNothing' /\ KeysOK'
    BY <1>0, <1>3 DEF HandsOK, OutboxTypeOK, HeldOK, OneWorkerPerRow, IdleHoldsNothing, Holds,
                      Locks, KeysOK, Alive
  <1> HIDE DEF m
  <1>6. /\ verdict'[w].row = m /\ verdict'[w].to = AfterError(w, m)
        /\ \A v \in Workers : v # w => verdict'[v] = verdict[v]
    BY <1>0, <1>3 DEF OutboxTypeOK
  <1>7. VerdictOK'
    <2> SUFFICES ASSUME NEW v \in Workers, step'[v] = "mark"
                 PROVE  verdict'[v] # NoVerdict /\ Holds(v, verdict[v].row)'
      BY DEF VerdictOK
    <2>1. \A n : Holds(v, n)' <=> Holds(v, n)
      BY <1>3 DEF Holds
    <2>2. verdict[v] # NoVerdict /\ Holds(v, verdict[v].row)
      BY <1>0, <1>3 DEF VerdictOK
    <2>3. CASE v = w
      <3>1. verdict'[v] # NoVerdict
        BY <1>2, <1>6, <2>3 DEF NoVerdict, Marks
      <3> QED BY <1>1, <1>6, <2>1, <2>3, <3>1
    <2>4. CASE v # w
      <3>1. verdict'[v] = verdict[v]
        BY <1>6, <2>4
      <3> QED BY <2>1, <2>2, <3>1
    <2> QED BY <2>3, <2>4
  <1>8. ASSUME NEW n \in Messages PROVE CopyIsPaid(n)' /\ TryIsPaid(n)'
    <2>1. \A v \in Workers : v # w => (Judged(v, n)' <=> Judged(v, n))
      BY <1>3, <1>6 DEF Judged
    <2>2. Judged(w, n)' <=> n = m
      BY <1>0, <1>3, <1>6 DEF Judged
    <2>3. Judged(w, n) <=> n = m
      BY <1>0 DEF Judged, m
    <2>4. Chances(n)' \subseteq Chances(n) \cup {w}
      BY <1>3, <1>6, <2>1 DEF Chances, Holds
    <2>5. Retriers(n)' \subseteq Retriers(n) \cup {w}
      BY <1>3, <1>6, <2>1, <2>4 DEF Retriers, Chances, Holds
    <2>6. Loose(n)' => Loose(n)
      BY <1>3 DEF Loose, Locks, Holds
    <2>7. copies'[n] = copies[n] /\ attempts'[n] = attempts[n]
      BY <1>3
    <2> QED BY <1>0, <1>3, <2>4, <2>5, <2>6, <2>7, FaultPays DEF OutboxInv
  <1> QED BY <1>4, <1>5, <1>7, <1>8 DEF OutboxInv, HandsOK

(* The row leaves the worker's hand with the status the verdict names: a   *)
(* chance that is kept goes back into the queue.                           *)
LEMMA MarkKeeps ==
    ASSUME OutboxInv, NEW w \in Workers, Mark(w)
    PROVE  OutboxInv'
  <1> DEFINE m == verdict[w].row
             to == verdict[w].to
             left == [tries[w] EXCEPT ![m] = 0]
  <1>0. HandsOK /\ OutboxTypeOK /\ VerdictOK /\ step[w] = "mark"
    BY DEF OutboxInv, HandsOK, Mark
  <1>1. m \in Messages /\ to \in Marks /\ Holds(w, m)
    BY <1>0 DEF OutboxTypeOK, VerdictOK, Verdicts
  <1>2. /\ status' = [status EXCEPT ![m] = to]
        /\ stale' = [stale EXCEPT ![m] = FALSE]
        /\ dedupeKey' = [dedupeKey EXCEPT ![m] = IF to = "FAILED" THEN NoKey ELSE @]
        /\ tries' = [tries EXCEPT ![w] = left]
        /\ step' = [step EXCEPT ![w] = IF left = NothingClaimed THEN "idle" ELSE "batch"]
        /\ verdict' = [verdict EXCEPT ![w] = NoVerdict]
        /\ UNCHANGED <<attempts, copies, outlived, faults>>
    BY DEF Mark
  <1>3. left \in [Messages -> Nat]
    BY <1>0, <1>1 DEF OutboxTypeOK
  <1>4. \A v \in Workers, n \in Messages :
            IF v = w /\ n = m THEN tries'[v][n] = 0 ELSE tries'[v][n] = tries[v][n]
    BY <1>0, <1>1, <1>2 DEF OutboxTypeOK
  <1>5. \A v \in Workers, n \in Messages : Holds(v, n)' <=> Holds(v, n) /\ ~(v = w /\ n = m)
    BY <1>4 DEF Holds
  <1>6. \A v \in Workers : v # w => step'[v] = step[v] /\ verdict'[v] = verdict[v]
    BY <1>0, <1>2 DEF OutboxTypeOK
  <1>7. step'[w] # "mark" /\ (step'[w] = "idle" => left = NothingClaimed) /\ step'[w] # "ready"
    BY <1>0, <1>2 DEF OutboxTypeOK
  <1>8. HandsOK'
    <2>1. OutboxTypeOK'
      BY <1>0, <1>1, <1>2, <1>3 DEF OutboxTypeOK, Statuses, Marks, Keys, Verdicts
    <2>2. \A n \in Messages : n # m => /\ status'[n] = status[n] /\ stale'[n] = stale[n]
                                       /\ dedupeKey'[n] = dedupeKey[n]
      BY <1>0, <1>2 DEF OutboxTypeOK
    <2>3. m \in outlived \/ (status[m] = "PROCESSING" /\ \A v \in Workers : v # w => ~Holds(v, m))
      BY <1>0, <1>1 DEF HandsOK, HeldOK, OneWorkerPerRow
    <2>4. HeldOK'
      <3> SUFFICES ASSUME NEW v \in Workers, NEW n \in Messages \ outlived, Holds(v, n)'
                   PROVE  status'[n] = "PROCESSING" /\ ~stale'[n] /\ Locks(v, n)'
        BY <1>2 DEF HeldOK
      <3>1. n # m /\ Holds(v, n)
        BY <1>5, <2>3
      <3>2. tries'[v][n] = tries[v][n] /\ attempts'[n] = attempts[n]
        BY <1>2, <1>4, <3>1
      <3> QED BY <1>0, <2>2, <3>1, <3>2 DEF HandsOK, HeldOK, Locks, Holds
    <2>5. OneWorkerPerRow'
      BY <1>0, <1>2, <1>5 DEF HandsOK, OneWorkerPerRow
    <2>6. IdleHoldsNothing'
      <3>1. ASSUME step'[w] \in {"idle", "ready"} PROVE \A n \in Messages : ~Holds(w, n)'
        <4>1. \A n \in Messages : tries'[w][n] = 0
          BY <3>1, <1>0, <1>2, <1>7 DEF OutboxTypeOK, NothingClaimed
        <4> QED BY <4>1 DEF Holds
      <3> QED BY <3>1, <1>0, <1>5, <1>6 DEF HandsOK, IdleHoldsNothing
    <2>7. VerdictOK'
      <3>1. ASSUME NEW v \in Workers, step'[v] = "mark"
            PROVE  /\ v # w /\ verdict'[v] = verdict[v] /\ verdict[v] # NoVerdict
                   /\ verdict[v].row \in Messages /\ Holds(v, verdict[v].row)
        BY <3>1, <1>0, <1>6, <1>7 DEF OutboxTypeOK, VerdictOK, Verdicts
      <3> QED BY <3>1, <1>5 DEF VerdictOK
    <2>8. KeysOK'
      <3>1. dedupeKey'[m] = (IF to = "FAILED" THEN NoKey ELSE dedupeKey[m]) /\ status'[m] = to
        BY <1>0, <1>1, <1>2 DEF OutboxTypeOK
      <3>2. ASSUME NEW n \in Messages \ outlived
            PROVE  dedupeKey'[n] = IF Alive(n)' THEN KeyOf[n] ELSE NoKey
        <4>1. CASE n = m
          BY <1>0, <1>1, <2>3, <3>1, <3>2, <4>1 DEF HandsOK, KeysOK, Alive, Marks
        <4>2. CASE n # m
          BY <1>0, <2>2, <3>2, <4>2 DEF HandsOK, KeysOK, Alive
        <4> QED BY <4>1, <4>2
      <3>3. \A n \in Messages : dedupeKey'[n] \in {dedupeKey[n], NoKey}
        BY <2>2, <3>1
      <3>4. ASSUME NEW n \in Messages, NEW l \in Messages, n # l, dedupeKey'[n] # NoKey
            PROVE  dedupeKey'[n] # dedupeKey'[l]
        BY <1>0, <3>3, <3>4 DEF HandsOK, KeysOK
      <3> QED BY <1>2, <3>2, <3>4 DEF KeysOK
    <2> QED BY <2>1, <2>4, <2>5, <2>6, <2>7, <2>8 DEF HandsOK
  <1>9. ASSUME NEW n \in Messages PROVE CopyIsPaid(n)' /\ TryIsPaid(n)'
    <2>1. \A v \in Workers : v # w => (Judged(v, n)' <=> Judged(v, n))
      BY <1>6 DEF Judged
    <2>2. ~Judged(w, n)' /\ (Judged(w, n) <=> n = m)
      BY <1>0, <1>7 DEF Judged
    <2>3. faults \in Nat /\ UNCHANGED <<copies, attempts, faults>>
      BY <1>0, <1>2 DEF OutboxTypeOK
    <2>4. CASE n # m
      <3>1. status'[n] = status[n] /\ stale'[n] = stale[n]
        BY <1>0, <1>2, <2>4 DEF OutboxTypeOK
      <3>2. Chances(n)' = Chances(n) /\ Retriers(n)' = Retriers(n) /\ (Loose(n)' <=> Loose(n))
        BY <1>4, <1>6, <2>1, <2>2, <2>3, <2>4, <3>1, Untouched
      <3> QED BY <1>0, <2>3, <3>2, NothingNew DEF OutboxInv
    <2>5. CASE n = m
      <3>1. Chances(n)' \subseteq Chances(n) \ {w}
        BY <1>5, <1>6, <2>1, <2>5 DEF Chances
      <3>2. Retriers(n)' \subseteq Retriers(n) \ {w}
        <4>1. ASSUME NEW v \in Chances(n)', ~Judged(v, n)' => tries'[v][n] < MaxAttempts
              PROVE  v \in Chances(n) \ {w} /\ (~Judged(v, n) => tries[v][n] < MaxAttempts)
          <5>1. v \in Chances(n) \ {w}
            BY <3>1, <4>1
          <5>2. v \in Workers
            BY <5>1 DEF Chances
          <5>3. tries'[v][n] = tries[v][n] /\ (Judged(v, n)' <=> Judged(v, n))
            BY <1>4, <2>1, <5>1, <5>2
          <5> QED BY <4>1, <5>1, <5>3
        <4> QED BY <4>1 DEF Retriers
      <3>3. status'[n] = to
        BY <1>0, <2>5, <1>2 DEF OutboxTypeOK
      <3>4. CASE to # "PENDING"
        <4>1. ~Loose(n)'
          BY <1>1, <3>3, <3>4 DEF Loose, Marks
        <4> QED BY <1>0, <2>3, <3>1, <3>2, <4>1, NothingNew DEF OutboxInv
      <3>5. CASE to = "PENDING"
        <4>1. w \in Chances(n) /\ w \in Retriers(n)
          BY <1>1, <2>2, <2>5, <3>5 DEF Chances, Retriers
        <4>2. /\ Cardinality(Chances(n)) \in Nat /\ Cardinality(Chances(n)') \in Nat
              /\ Cardinality(Chances(n)') + 1 <= Cardinality(Chances(n))
          BY <3>1, <4>1, CountsAreFinite, Counting
        <4>3. /\ Cardinality(Retriers(n)) \in Nat /\ Cardinality(Retriers(n)') \in Nat
              /\ Cardinality(Retriers(n)') + 1 <= Cardinality(Retriers(n))
          BY <3>2, <4>1, CountsAreFinite, Counting
        <4>4. Queued(n) \in {0, 1} /\ Queued(n)' \in {0, 1}
          BY CountsAreFinite
        <4>5. copies[n] \in Nat /\ attempts[n] \in Nat /\ MaxAttempts \in Nat
          BY <1>0, OutboxAssumption DEF OutboxTypeOK
        <4>6. CopyIsPaid(n) /\ TryIsPaid(n)
          BY DEF OutboxInv
        <4>7. CopyIsPaid(n)'
          BY <2>3, <4>2, <4>4, <4>5, <4>6 DEF CopyIsPaid
        <4>8. TryIsPaid(n)'
          BY <2>3, <4>3, <4>4, <4>5, <4>6 DEF TryIsPaid
        <4> QED BY <4>7, <4>8
      <3> QED BY <3>4, <3>5
    <2> QED BY <2>4, <2>5
  <1> QED BY <1>8, <1>9 DEF OutboxInv

(* A dead worker has nothing in hand; its fault pays for what comes back   *)
(* by the locks it leaves.                                                 *)
LEMMA CrashKeeps ==
    ASSUME OutboxInv, NEW w \in Workers, Crash(w)
    PROVE  OutboxInv'
  <1>0. HandsOK /\ OutboxTypeOK
    BY DEF OutboxInv, HandsOK
  <1>1. OutboxTypeOK'
    BY <1>0 DEF OutboxTypeOK, Crash, table, NothingClaimed, Verdicts
  <1>2. \A v \in Workers, n \in Messages : Holds(v, n)' <=> v # w /\ Holds(v, n)
    BY <1>0 DEF OutboxTypeOK, Crash, NothingClaimed, Holds
  <1>3. \A v \in Workers : v # w =>
            step'[v] = step[v] /\ verdict'[v] = verdict[v] /\ tries'[v] = tries[v]
    BY <1>0 DEF OutboxTypeOK, Crash
  <1>4. step'[w] = "idle" /\ faults' = faults + 1 /\ UNCHANGED <<table, copies, outlived>>
    BY <1>0 DEF OutboxTypeOK, Crash
  <1>5. HeldOK' /\ OneWorkerPerRow'
    BY <1>0, <1>2, <1>3, <1>4 DEF HandsOK, HeldOK, OneWorkerPerRow, Locks, table
  <1>6. IdleHoldsNothing' /\ VerdictOK'
    <2>1. IdleHoldsNothing'
      BY <1>0, <1>2, <1>3 DEF HandsOK, IdleHoldsNothing
    <2>2. ASSUME NEW v \in Workers, step'[v] = "mark"
          PROVE  v # w /\ verdict'[v] = verdict[v] /\ verdict[v] # NoVerdict
                 /\ verdict[v].row \in Messages /\ Holds(v, verdict[v].row)
      BY <2>2, <1>0, <1>3, <1>4 DEF HandsOK, OutboxTypeOK, VerdictOK, Verdicts
    <2> QED BY <2>1, <2>2, <1>2 DEF VerdictOK
  <1>7. KeysOK'
    BY <1>0, <1>4 DEF HandsOK, KeysOK, Alive, table
  <1>8. ASSUME NEW n \in Messages PROVE CopyIsPaid(n)' /\ TryIsPaid(n)'
    <2>1. \A v \in Workers : v # w => (Judged(v, n)' <=> Judged(v, n))
      BY <1>3 DEF Judged
    <2>2. Chances(n)' \subseteq Chances(n)
      BY <1>2, <1>3, <2>1 DEF Chances
    <2>3. Retriers(n)' \subseteq Retriers(n)
      BY <1>2, <1>3, <2>1, <2>2 DEF Retriers, Chances
    <2>4. copies'[n] = copies[n] /\ attempts'[n] = attempts[n]
      BY <1>4 DEF table
    <2> QED BY <1>0, <1>4, <2>2, <2>3, <2>4, FaultPays DEF OutboxInv
  <1> QED BY <1>1, <1>5, <1>6, <1>7, <1>8 DEF OutboxInv, HandsOK

LEMMA OutboxNextInv == OutboxInv /\ [OutboxNext]_outboxVars => OutboxInv'
  <1> SUFFICES ASSUME OutboxInv, [OutboxNext]_outboxVars PROVE OutboxInv'
    OBVIOUS
  <1>1. ASSUME NEW m \in Messages, Enqueue(m) \/ Expire(m) \/ Overrun(m) PROVE OutboxInv'
    BY <1>1, EnqueueKeeps, ExpireKeeps, OverrunKeeps
  <1>2. ASSUME NEW w \in Workers, PassStep(w) PROVE OutboxInv'
    <2>1. CASE Reclaim(w)
      BY <2>1, ReclaimKeeps
    <2>2. ASSUME NEW batch \in SUBSET Messages, Claim(w, batch) PROVE OutboxInv'
      BY <2>2, ClaimKeeps
    <2>3. CASE Deliver(w)
      BY <2>3, DeliverKeeps
    <2>4. CASE Mark(w)
      BY <2>4, MarkKeeps
    <2> QED BY <1>2, <2>1, <2>2, <2>3, <2>4 DEF PassStep
  <1>3. ASSUME NEW w \in Workers, MarkFails(w) PROVE OutboxInv'
    BY <1>3, MarkFailsKeeps
  <1>4. ASSUME NEW w \in Workers, Crash(w) PROVE OutboxInv'
    BY <1>4, CrashKeeps
  <1>5. CASE UNCHANGED outboxVars
    <2>1. HandsOK'
      BY <1>5 DEF outboxVars, table, pass, OutboxInv, HandsOK, OutboxTypeOK, HeldOK, OneWorkerPerRow,
                  IdleHoldsNothing, VerdictOK, KeysOK, Alive, Holds, Locks
    <2>2. ASSUME NEW m \in Messages PROVE CopyIsPaid(m)' /\ TryIsPaid(m)'
      <3>1. \A v \in Workers : Judged(v, m)' <=> Judged(v, m)
        BY <1>5 DEF outboxVars, pass, Judged
      <3>2. Chances(m)' = Chances(m) /\ Retriers(m)' = Retriers(m) /\ (Loose(m)' <=> Loose(m))
        BY <1>5, <3>1, Untouched DEF outboxVars, table, pass
      <3>3. HandsOK /\ faults \in Nat /\ UNCHANGED <<copies, attempts, faults>>
        BY <1>5 DEF outboxVars, table, OutboxInv, HandsOK, OutboxTypeOK
      <3> QED BY <3>2, <3>3, NothingNew DEF OutboxInv
    <2> QED BY <2>1, <2>2 DEF OutboxInv
  <1> QED BY <1>1, <1>2, <1>3, <1>4, <1>5 DEF OutboxNext

LEMMA Inductive == OutboxSpec => []OutboxInv
  BY OutboxInitInv, OutboxNextInv, PTL DEF OutboxSpec

----------------------------------------------------------------------------

(* The rows, the passes and the histories keep their types.                *)
THEOREM OutboxTypeCorrect == OutboxSpec => []OutboxTypeOK
  <1>1. OutboxInv => OutboxTypeOK
    BY DEF OutboxInv, HandsOK
  <1> QED BY Inductive, <1>1, PTL

(* No copy and no attempt too many without a fault, be it a crash, a lost  *)
(* answer, a lost mark, or a lock that a slow pass outlived.               *)
THEOREM RepeatsArePaidFor == OutboxSpec => []RepeatsNeedFaults
  <1>1. ASSUME OutboxInv PROVE RepeatsNeedFaults
    <2> SUFFICES ASSUME NEW m \in Messages
                 PROVE  copies[m] <= 1 + faults /\ attempts[m] <= MaxAttempts + faults
      BY DEF RepeatsNeedFaults, CopiesNeedFaults, AttemptsAreLimited
    <2>1. /\ copies[m] \in Nat /\ attempts[m] \in Nat /\ faults \in Nat /\ MaxAttempts \in Nat
          /\ CopyIsPaid(m) /\ TryIsPaid(m)
      BY <1>1, OutboxAssumption DEF OutboxInv, HandsOK, OutboxTypeOK
    <2>2. /\ Cardinality(Chances(m)) \in Nat /\ Cardinality(Retriers(m)) \in Nat
          /\ Queued(m) \in {0, 1}
      BY CountsAreFinite, Counting
    <2> QED BY <2>1, <2>2 DEF CopyIsPaid, TryIsPaid
  <1> QED BY Inductive, <1>1, PTL

(* One hand to a row and one row to an event, for any number of instances, *)
(* until a lock is outlived.                                               *)
THEOREM RowsStayApart == OutboxSpec => []OneHandOneRow
  <1>1. ASSUME OutboxInv PROVE OneHandOneRow
    <2>1. OneWorkerPerRow
      BY <1>1 DEF OutboxInv, HandsOK
    <2>2. OneRowPerEvent
      BY <1>1 DEF OutboxInv, HandsOK, OutboxTypeOK, Statuses, KeysOK, Alive, OneRowPerEvent
    <2> QED BY <2>1, <2>2 DEF OneHandOneRow
  <1> QED BY Inductive, <1>1, PTL

(* Of all the passes, with slow ones among them, only one that outlived    *)
(* its lock on a row can move the row once it is sent or failed.           *)
THEOREM EndIsFinal == OutboxSpec => EndedStaysEnded
  <1> DEFINE Stays == \A m \in Messages :
                          status[m] \in Ended /\ status'[m] # status[m] => m \in outlived
  <1>1. ASSUME OutboxInv, [OutboxNext]_outboxVars PROVE Stays
    <2> SUFFICES ASSUME NEW m \in Messages \ outlived, status[m] \in Ended PROVE status'[m] = status[m]
      OBVIOUS
    <2> USE DEF Ended
    <2>1. \A w \in Workers : ~Holds(w, m)
      BY <1>1 DEF OutboxInv, HandsOK, HeldOK
    <2>2. ASSUME NEW n \in Messages, Enqueue(n) \/ Expire(n) \/ Overrun(n) PROVE status'[m] = status[m]
      BY <2>2, <1>1 DEF OutboxInv, HandsOK, OutboxTypeOK, Enqueue, Expire, Overrun
    <2>3. ASSUME NEW w \in Workers, PassStep(w) \/ MarkFails(w) \/ Crash(w)
          PROVE  status'[m] = status[m]
      <3>1. CASE Reclaim(w)
        BY <3>1 DEF Reclaim, Abandoned
      <3>2. CASE \E batch \in SUBSET Messages : Claim(w, batch)
        BY <3>2 DEF Claim
      <3>3. CASE Deliver(w)
        BY <3>3 DEF Deliver, Accepted, Rejected, Postponed, AnswerLost, Decide, table
      <3>4. CASE Mark(w)
        <4>1. verdict[w].row # m
          BY <3>4, <2>1, <1>1 DEF OutboxInv, HandsOK, VerdictOK, Mark
        <4> QED BY <4>1, <3>4, <1>1 DEF OutboxInv, HandsOK, OutboxTypeOK, Mark
      <3>5. CASE MarkFails(w) \/ Crash(w)
        BY <3>5 DEF MarkFails, Crash, table
      <3> QED BY <2>3, <3>1, <3>2, <3>3, <3>4, <3>5 DEF PassStep
    <2> QED BY <2>2, <2>3, <1>1 DEF OutboxNext, outboxVars, table
  <1>2. OutboxInv /\ [OutboxNext]_outboxVars => [Stays]_outboxVars
    BY <1>1
  <1> QED BY <1>2, Inductive, PTL DEF OutboxSpec, EndedStaysEnded

----------------------------------------------------------------------------
(* The backups.                                                            *)

RunTypes ==
    /\ bucket \in [Nightly -> {NoObject} \cup [state : {"complete", "partial"}, date : Nat]]
    /\ backup \in [Nightly -> {NotRun} \cup
            [days : Nat, readable : BOOLEAN, step : {"validated", "uploaded", "compared", "ended"}]]
    /\ verified \subseteq Nightly /\ night \in Nat

(* A run that goes on has listed its archive, and one that has been        *)
(* compared left a whole object, which only retention takes away.          *)
RunsAreSound ==
    /\ \A r \in Nightly : backup[r].step \in {"validated", "uploaded", "compared"} => backup[r].readable
    /\ \A r \in Nightly : RunAt(r, "compared") => r \in verified
    /\ \A r \in verified :
        /\ backup[r].step \in {"compared", "ended"} /\ backup[r].readable
        /\ bucket[r] # NoObject => Complete(r)

BackupInv == RunTypes /\ RunsAreSound /\ BackupRemains

(* What a step of one run writes, when it leaves the objects of the others *)
(* alone.                                                                  *)
LEMMA LoneRunKeeps ==
    ASSUME BackupInv, NEW r \in Nightly, RunTypes',
           \A o \in Nightly \ {r} : backup'[o] = backup[o] /\ bucket'[o] = bucket[o],
           verified' = verified, overslept' = overslept,
           backup'[r].step \in {"validated", "uploaded"} => r \notin verified,
           backup'[r].step \in {"validated", "uploaded", "compared"} => backup'[r].readable,
           backup'[r].step # "compared",
           r \in verified => /\ bucket'[r] = bucket[r] /\ backup'[r].readable
                             /\ backup'[r].step = "ended"
    PROVE  BackupInv'
<1>1. RunsAreSound'
  BY DEF RunsAreSound, RunAt, Complete, BackupInv, RunTypes
<1>2. \A o \in verified : Complete(o) /\ backup[o].readable => Complete(o)' /\ backup'[o].readable
  BY DEF Complete, BackupInv, RunTypes
<1>3. BackupRemains'
  BY <1>2 DEF BackupRemains, BackupInv
<1> QED
  BY <1>1, <1>3 DEF BackupInv

LEMMA BackupInitInv == BackupsInit => BackupInv
  BY DEF BackupsInit, BackupInv, RunTypes, RunsAreSound, BackupRemains, NotRun, NoObject, RunAt

LEMMA BackupStepInv == BackupInv /\ [BackupsStep]_backupVars => BackupInv'
<1> SUFFICES ASSUME BackupInv, [BackupsStep]_backupVars PROVE BackupInv'
  OBVIOUS
<1>0. RunTypes /\ RunsAreSound
  BY DEF BackupInv
<1>1. ASSUME NEW r \in Nightly, NEW days \in Retentions, NEW custom \in BOOLEAN, NEW dry \in BOOLEAN,
             Dump(r, days, custom, dry)
      PROVE  BackupInv'
  <2> DEFINE Made(inList) ==
        [days |-> days, readable |-> custom => inList,
         step |-> IF (custom /\ ~inList) \/ dry THEN "ended" ELSE "validated"]
  <2>0. days \in Nat
    BY BackupsAssumption
  <2>1. PICK inList \in BOOLEAN : backup' = [backup EXCEPT ![r] = Made(inList)]
    BY <1>1 DEF Dump
  <2> DEFINE new == Made(inList)
  <2>2. new \in [days : Nat, readable : BOOLEAN, step : {"validated", "uploaded", "compared", "ended"}]
    BY <2>0
  <2>3. new.step \in {"ended", "validated"} /\ (new.step = "validated" => new.readable)
    OBVIOUS
  <2> HIDE DEF new
  <2>4. UNCHANGED <<night, bucket, verified, overslept>> /\ backup[r] = NotRun
    BY <1>1 DEF Dump
  <2>5. r \notin verified
    BY <1>0, <2>4 DEF RunsAreSound, NotRun
  <2>6. backup' = [backup EXCEPT ![r] = new]
    BY <2>1 DEF new
  <2>7. RunTypes' /\ backup'[r] = new /\ \A o \in Nightly \ {r} : backup'[o] = backup[o]
    BY <1>0, <2>2, <2>4, <2>6 DEF RunTypes
  <2> QED
    BY <2>3, <2>4, <2>5, <2>7, LoneRunKeeps
<1>2. ASSUME NEW r \in Nightly, Upload(r) PROVE BackupInv'
  <2>1. RunAt(r, "validated") /\ r \notin verified /\ backup[r].readable
    BY <1>0, <1>2 DEF Upload, RunsAreSound, RunAt
  <2>2. PICK complete \in BOOLEAN :
            bucket' = [bucket EXCEPT ![r] = [state |-> IF complete THEN "complete" ELSE "partial", date |-> night]]
    BY <1>2 DEF Upload
  <2>3. backup' = [backup EXCEPT ![r].step = "uploaded"] /\ UNCHANGED <<night, verified, overslept>>
    BY <1>2 DEF Upload
  <2>4. RunTypes' /\ \A o \in Nightly \ {r} : backup'[o] = backup[o] /\ bucket'[o] = bucket[o]
    BY <1>0, <2>1, <2>2, <2>3 DEF RunTypes, RunAt, NotRun
  <2>5. backup'[r].step = "uploaded" /\ backup'[r].readable
    BY <1>0, <2>1, <2>3 DEF RunTypes, RunAt, NotRun
  <2> QED
    BY <2>1, <2>3, <2>4, <2>5, LoneRunKeeps
<1>3. ASSUME NEW r \in Nightly, CompareSizes(r) PROVE BackupInv'
  <2>1. RunAt(r, "uploaded") /\ r \notin verified /\ backup[r].readable
    BY <1>0, <1>3 DEF CompareSizes, RunsAreSound, RunAt
  <2>2. UNCHANGED <<night, bucket, overslept>>
    BY <1>3 DEF CompareSizes
  <2>3. CASE bucket[r] # NoObject /\ bucket[r].state = "complete"
    <3>1. backup' = [backup EXCEPT ![r].step = "compared"] /\ verified' = verified \cup {r}
      BY <1>3, <2>3 DEF CompareSizes
    <3>2. /\ RunTypes' /\ backup'[r].step = "compared" /\ backup'[r].readable
          /\ \A o \in Nightly \ {r} : backup'[o] = backup[o]
      BY <1>0, <2>1, <2>2, <3>1 DEF RunTypes, RunAt, NotRun
    <3>3. RunsAreSound'
      BY <1>0, <2>2, <2>3, <3>1, <3>2 DEF RunsAreSound, RunAt, Complete
    <3>4. BackupRemains'
      BY <2>2, <2>3, <3>1, <3>2 DEF BackupRemains, Complete
    <3> QED
      BY <3>2, <3>3, <3>4 DEF BackupInv
  <2>4. CASE ~(bucket[r] # NoObject /\ bucket[r].state = "complete")
    <3>1. backup' = [backup EXCEPT ![r].step = "ended"] /\ verified' = verified
      BY <1>3, <2>4 DEF CompareSizes
    <3>2. /\ RunTypes' /\ backup'[r].step = "ended" /\ backup'[r].readable
          /\ \A o \in Nightly \ {r} : backup'[o] = backup[o]
      BY <1>0, <2>1, <2>2, <3>1 DEF RunTypes, RunAt, NotRun
    <3> QED
      BY <2>1, <2>2, <3>1, <3>2, LoneRunKeeps
  <2> QED
    BY <2>3, <2>4
<1>4. ASSUME NEW r \in Nightly, ApplyRetention(r) PROVE BackupInv'
  <2>1. RunAt(r, "compared") /\ r \in verified /\ backup[r].readable
    BY <1>0, <1>4 DEF ApplyRetention, RunsAreSound, RunAt
  <2>2. backup' = [backup EXCEPT ![r].step = "ended"] /\ UNCHANGED <<night, verified>>
    BY <1>4 DEF ApplyRetention
  <2>3. /\ backup'[r].step = "ended" /\ backup'[r].readable /\ \A o \in Nightly \ {r} : backup'[o] = backup[o]
        /\ backup' \in [Nightly -> {NotRun} \cup
                [days : Nat, readable : BOOLEAN, step : {"validated", "uploaded", "compared", "ended"}]]
    BY <1>0, <2>1, <2>2 DEF RunTypes, RunAt, NotRun
  <2>4. CASE backup[r].days = 0
    <3>1. UNCHANGED <<bucket, overslept>>
      BY <1>4, <2>4 DEF ApplyRetention
    <3> QED
      BY <1>0, <2>1, <2>2, <2>3, <3>1, LoneRunKeeps DEF RunTypes
  <2>5. CASE backup[r].days # 0
    <3> DEFINE gone == Expired(backup[r].days)
    <3>1. /\ bucket' = [o \in Nightly |-> IF o \in gone THEN NoObject ELSE bucket[o]]
          /\ overslept' = (overslept \/ r \notin Stored \ gone)
      BY <1>4, <2>5 DEF ApplyRetention
    <3> HIDE DEF gone
    <3>2. RunTypes'
      BY <1>0, <2>2, <2>3, <3>1 DEF RunTypes
    <3>3. \A o \in Nightly : bucket'[o] = NoObject \/ bucket'[o] = bucket[o]
      BY <3>1
    <3>4. RunsAreSound'
      BY <1>0, <2>1, <2>2, <2>3, <3>3 DEF RunsAreSound, RunAt, Complete, RunTypes
    <3>5. ~overslept' => Complete(r)'
      <4>1. ~overslept' => r \in Stored /\ r \notin gone
        BY <3>1
      <4>2. r \in Stored => Complete(r)
        BY <1>0, <2>1 DEF Stored, RunsAreSound
      <4> QED
        BY <3>1, <4>1, <4>2 DEF Complete
    <3>6. BackupRemains'
      BY <2>1, <2>2, <2>3, <3>5 DEF BackupRemains
    <3> QED
      BY <3>2, <3>4, <3>6 DEF BackupInv
  <2> QED
    BY <2>4, <2>5
<1>5. ASSUME NEW r \in Nightly, Interrupted(r) PROVE BackupInv'
  <2>1. /\ backup[r].step \in {"validated", "uploaded", "compared"} /\ backup[r].readable
        /\ backup' = [backup EXCEPT ![r].step = "ended"] /\ UNCHANGED <<night, bucket, verified, overslept>>
    BY <1>0, <1>5 DEF Interrupted, RunsAreSound
  <2>2. /\ RunTypes' /\ backup'[r].step = "ended" /\ backup'[r].readable
        /\ \A o \in Nightly \ {r} : backup'[o] = backup[o]
    BY <1>0, <2>1 DEF RunTypes, NotRun
  <2> QED
    BY <2>1, <2>2, LoneRunKeeps
<1>6. ASSUME NightPasses \/ UNCHANGED backupVars PROVE BackupInv'
  <2>1. UNCHANGED <<bucket, backup, verified, overslept>> /\ night' \in Nat
    BY <1>0, <1>6 DEF NightPasses, backupVars, RunTypes
  <2>2. RunTypes' /\ RunsAreSound' /\ BackupRemains'
    BY <1>0, <2>1 DEF RunTypes, RunsAreSound, BackupRemains, RunAt, Complete, BackupInv
  <2> QED
    BY <2>2 DEF BackupInv
<1> QED
  BY <1>1, <1>2, <1>3, <1>4, <1>5, <1>6 DEF BackupsStep

(* However many runs fail or are interrupted, and whatever retention each  *)
(* is given, a verified and readable backup remains.                       *)
THEOREM ABackupRemains == BackupsSpec => []BackupRemains
<1>1. BackupInv => BackupRemains
  BY DEF BackupInv
<1> QED
  BY <1>1, BackupInitInv, BackupStepInv, PTL DEF BackupsSpec

----------------------------------------------------------------------------
(* The events and the consoles.                                            *)

(* Sequences whose pairs, in their order, are related; and one after       *)
(* another.                                                                *)
Sorted(s, R) == \A k, l \in DOMAIN s : k < l => <<s[k], s[l]>> \in R
Ahead(s, t, R) == \A k \in DOMAIN s, l \in DOMAIN t : <<s[k], t[l]>> \in R

(* Shorter or longer, it stays in order.                                   *)
LEMMA SortedTail == ASSUME NEW S, NEW s \in Seq(S), s # <<>>, NEW R, Sorted(s, R) PROVE Sorted(Tail(s), R)
<1>1. DOMAIN s = 1..Len(s) /\ Len(s) \in Nat \ {0} /\ DOMAIN Tail(s) = 1..(Len(s) - 1)
      /\ \A k \in DOMAIN Tail(s) : Tail(s)[k] = s[k + 1]
  OBVIOUS
<1> QED BY <1>1 DEF Sorted

LEMMA SortedAppend ==
    ASSUME NEW S, NEW s \in Seq(S), NEW R, Sorted(s, R), NEW e \in S, \A k \in DOMAIN s : <<s[k], e>> \in R
    PROVE  Sorted(Append(s, e), R)
<1>1. DOMAIN s = 1..Len(s) /\ Len(s) \in Nat /\ DOMAIN Append(s, e) = 1..(Len(s) + 1)
      /\ (\A k \in DOMAIN s : Append(s, e)[k] = s[k]) /\ Append(s, e)[Len(s) + 1] = e
  OBVIOUS
<1> QED BY <1>1 DEF Sorted

(* What is at the head of a sequence is ahead of the rest of it.           *)
LEMMA HeadAhead ==
    ASSUME NEW S, NEW s \in Seq(S), s # <<>>, NEW R, Sorted(s, R)
    PROVE  \A l \in DOMAIN Tail(s) : <<Head(s), Tail(s)[l]>> \in R
<1>1. DOMAIN s = 1..Len(s) /\ Len(s) \in Nat \ {0} /\ DOMAIN Tail(s) = 1..(Len(s) - 1)
      /\ (\A k \in DOMAIN Tail(s) : Tail(s)[k] = s[k + 1]) /\ Head(s) = s[1]
  OBVIOUS
<1> QED BY <1>1 DEF Sorted

(* Ahead it stays when one of the two gets shorter or longer.              *)
LEMMA AheadTailLeft ==
    ASSUME NEW S, NEW s \in Seq(S), s # <<>>, NEW t, NEW R, Ahead(s, t, R) PROVE Ahead(Tail(s), t, R)
<1>1. DOMAIN s = 1..Len(s) /\ Len(s) \in Nat \ {0} /\ DOMAIN Tail(s) = 1..(Len(s) - 1)
      /\ \A k \in DOMAIN Tail(s) : Tail(s)[k] = s[k + 1] /\ k + 1 \in DOMAIN s
  OBVIOUS
<1> QED BY <1>1 DEF Ahead

LEMMA AheadTailRight ==
    ASSUME NEW S, NEW t \in Seq(S), t # <<>>, NEW s, NEW R, Ahead(s, t, R)
    PROVE  Ahead(s, Tail(t), R) /\ \A k \in DOMAIN s : <<s[k], Head(t)>> \in R
<1>1. DOMAIN t = 1..Len(t) /\ Len(t) \in Nat \ {0} /\ DOMAIN Tail(t) = 1..(Len(t) - 1)
      /\ (\A k \in DOMAIN Tail(t) : Tail(t)[k] = t[k + 1] /\ k + 1 \in DOMAIN t) /\ Head(t) = t[1] /\ 1 \in DOMAIN t
  OBVIOUS
<1> QED BY <1>1 DEF Ahead

LEMMA AheadAppendLeft ==
    ASSUME NEW S, NEW s \in Seq(S), NEW e \in S, NEW t, NEW R, Ahead(s, t, R), \A l \in DOMAIN t : <<e, t[l]>> \in R
    PROVE  Ahead(Append(s, e), t, R)
<1>1. DOMAIN s = 1..Len(s) /\ Len(s) \in Nat /\ DOMAIN Append(s, e) = 1..(Len(s) + 1)
      /\ (\A k \in DOMAIN s : Append(s, e)[k] = s[k]) /\ Append(s, e)[Len(s) + 1] = e
  OBVIOUS
<1>2. \A k \in DOMAIN Append(s, e) : k \in DOMAIN s \/ k = Len(s) + 1
  BY <1>1
<1> QED BY <1>1, <1>2 DEF Ahead

LEMMA AheadAppendRight ==
    ASSUME NEW S, NEW t \in Seq(S), NEW e \in S, NEW s, NEW R, Ahead(s, t, R), \A k \in DOMAIN s : <<s[k], e>> \in R
    PROVE  Ahead(s, Append(t, e), R)
<1>1. DOMAIN t = 1..Len(t) /\ Len(t) \in Nat /\ DOMAIN Append(t, e) = 1..(Len(t) + 1)
      /\ (\A k \in DOMAIN t : Append(t, e)[k] = t[k]) /\ Append(t, e)[Len(t) + 1] = e
  OBVIOUS
<1>2. \A k \in DOMAIN Append(t, e) : k \in DOMAIN t \/ k = Len(t) + 1
  BY <1>1
<1> QED BY <1>1, <1>2 DEF Ahead

(* Elements of a sequence after it has lost its head or got one more.      *)
LEMMA TailElements ==
    ASSUME NEW S, NEW s \in Seq(S), s # <<>>
    PROVE  /\ Tail(s) \in Seq(S) /\ Head(s) \in ToSet(s) /\ Head(s) \in S
           /\ ToSet(Tail(s)) \subseteq ToSet(s) /\ ToSet(s) = {Head(s)} \cup ToSet(Tail(s))
<1>1. DOMAIN s = 1..Len(s) /\ Len(s) \in Nat \ {0} /\ DOMAIN Tail(s) = 1..(Len(s) - 1)
      /\ (\A k \in DOMAIN Tail(s) : Tail(s)[k] = s[k + 1] /\ k + 1 \in DOMAIN s) /\ Head(s) = s[1] /\ 1 \in DOMAIN s
  OBVIOUS
<1>2. \A k \in DOMAIN s : k = 1 \/ (k - 1 \in DOMAIN Tail(s) /\ Tail(s)[k - 1] = s[k])
  BY <1>1
<1>3. Tail(s) \in Seq(S) /\ Head(s) \in S
  OBVIOUS
<1>4. ToSet(Tail(s)) \subseteq ToSet(s) /\ Head(s) \in ToSet(s)
  BY <1>1 DEF ToSet
<1>5. ToSet(s) \subseteq {Head(s)} \cup ToSet(Tail(s))
  BY <1>1, <1>2 DEF ToSet
<1> QED BY <1>3, <1>4, <1>5

LEMMA AppendElements ==
    ASSUME NEW S, NEW s \in Seq(S), NEW e \in S
    PROVE  Append(s, e) \in Seq(S) /\ ToSet(Append(s, e)) = ToSet(s) \cup {e}
<1>1. DOMAIN s = 1..Len(s) /\ Len(s) \in Nat /\ DOMAIN Append(s, e) = 1..(Len(s) + 1)
      /\ (\A k \in DOMAIN s : Append(s, e)[k] = s[k] /\ k \in DOMAIN Append(s, e))
      /\ Append(s, e)[Len(s) + 1] = e /\ Len(s) + 1 \in DOMAIN Append(s, e)
  OBVIOUS
<1>2. \A k \in DOMAIN Append(s, e) : k \in DOMAIN s \/ k = Len(s) + 1
  BY <1>1
<1>3. ToSet(Append(s, e)) \subseteq ToSet(s) \cup {e}
  BY <1>1, <1>2 DEF ToSet
<1>4. ToSet(s) \cup {e} \subseteq ToSet(Append(s, e))
  BY <1>1 DEF ToSet
<1> QED BY <1>3, <1>4

----------------------------------------------------------------------------
(* The tables.                                                             *)

ReadRecords == {NoRead} \cup [step : {"sent", "read"}, rows : SUBSET Changes]

PageTypes ==
    /\ window \in [Consoles -> {"idle", "quiet", "armed"}]
    /\ fetch \in [Consoles -> [now : ReadRecords, old : ReadRecords]]
    /\ listed \in [Consoles -> SUBSET Changes]
    /\ missed \in [Consoles -> SUBSET Changes]
    /\ known \in [Consoles -> SUBSET Changes]

(* A change that was heard is in the table, or was read past, or will be   *)
(* read, or is in the answer of a read.                                    *)
ToBeShown(c, x) ==
    \/ x \in listed[c] \cup missed[c] \/ window[c] = "armed"
    \/ \E slot \in {"now", "old"} :
          \/ fetch[c][slot].step = "sent"
          \/ fetch[c][slot].step = "read" /\ x \in fetch[c][slot].rows

PageInv == PageTypes /\ \A c \in Consoles : \A x \in known[c] : ToBeShown(c, x)

(* Only the page of the console c moves.                                   *)
LEMMA OthersAreShown ==
    ASSUME PageInv, NEW c \in Consoles, PageTypes',
           \A d \in Consoles \ {c} : /\ window'[d] = window[d] /\ fetch'[d] = fetch[d] /\ listed'[d] = listed[d]
                                     /\ missed'[d] = missed[d] /\ known'[d] = known[d],
           \A x \in known'[c] : ToBeShown(c, x)'
    PROVE  PageInv'
<1>1. ASSUME NEW d \in Consoles \ {c}, NEW x \in known'[d] PROVE ToBeShown(d, x)'
  <2>1. x \in known[d]
    BY <1>1
  <2>2. ToBeShown(d, x)
    BY <2>1 DEF PageInv
  <2> QED BY <2>2 DEF ToBeShown
<1> QED BY <1>1 DEF PageInv

(* A refresh covers everything heard so far.                               *)
LEMMA RunFact ==
    ASSUME PageInv, NEW c \in Consoles, NEW heard \in SUBSET Changes, Run(c, heard), UNCHANGED listed,
           known' = [known EXCEPT ![c] = heard], NEW w \in {"idle", "quiet", "armed"}, window' = [window EXCEPT ![c] = w]
    PROVE  PageInv'
<1> DEFINE now == fetch[c].now
           sent == [fetch[c] EXCEPT !.now.step = "sent"]
<1>1. PageTypes /\ now \in ReadRecords /\ fetch[c].old \in ReadRecords
  BY DEF PageInv, PageTypes
<1>2. sent \in [now : ReadRecords, old : ReadRecords] /\ sent.now.step = "sent"
  <2>1. [now EXCEPT !.step = "sent"] \in ReadRecords
    BY <1>1 DEF ReadRecords, NoRead
  <2>2. fetch[c] \in [now : ReadRecords, old : ReadRecords]
    BY <1>1 DEF PageTypes
  <2>3. sent = [fetch[c] EXCEPT !.now = [now EXCEPT !.step = "sent"]]
    BY <2>2
  <2>4. [now EXCEPT !.step = "sent"].step = "sent"
    BY <1>1 DEF ReadRecords, NoRead
  <2> QED BY <2>1, <2>2, <2>3, <2>4
<1> HIDE DEF sent
<1>3. fetch' = IF now = NoRead THEN [fetch EXCEPT ![c] = sent] ELSE fetch
  BY DEF Run, sent
<1>4. missed' = [missed EXCEPT ![c] = IF now.step = "read" THEN missed[c] \cup (heard \ now.rows) ELSE missed[c]]
  BY <1>1 DEF Run, PageTypes
<1> HIDE DEF now
<1>5. PageTypes'
  <2>1. fetch' \in [Consoles -> [now : ReadRecords, old : ReadRecords]]
    BY <1>1, <1>2, <1>3 DEF PageTypes
  <2>2. missed' \in [Consoles -> SUBSET Changes]
    BY <1>1, <1>4 DEF PageTypes
  <2> QED BY <1>1, <2>1, <2>2 DEF PageTypes
<1>6. ASSUME NEW x \in known'[c] PROVE ToBeShown(c, x)'
  <2>0. x \in heard
    BY <1>1 DEF PageTypes
  <2>1. CASE now = NoRead
    BY <1>1, <1>2, <1>3, <2>1 DEF ToBeShown, PageTypes
  <2>2. CASE now # NoRead
    <3>1. fetch' = fetch
      BY <1>3, <2>2
    <3>2. now.step \in {"sent", "read"}
      BY <1>1, <2>2 DEF ReadRecords
    <3>3. CASE now.step = "sent"
      BY <3>1, <3>3 DEF ToBeShown, now
    <3>4. CASE now.step = "read"
      BY <1>1, <1>4, <2>0, <3>1, <3>4 DEF ToBeShown, now, PageTypes
    <3> QED BY <3>2, <3>3, <3>4
  <2> QED BY <2>1, <2>2
<1>7. \A d \in Consoles \ {c} : /\ window'[d] = window[d] /\ fetch'[d] = fetch[d] /\ listed'[d] = listed[d]
                                 /\ missed'[d] = missed[d] /\ known'[d] = known[d]
  BY <1>1, <1>3, <1>4 DEF PageTypes
<1> QED BY <1>5, <1>6, <1>7, OthersAreShown

(* The steps of a page, one by one.                                        *)
LEMMA HearShown == ASSUME PageInv, NEW c \in Consoles, Hear(c), Head(stream[c].frames) \in Changes PROVE PageInv'
<1> DEFINE x == Head(stream[c].frames)
           heard == known[c] \cup {x}
<1>0. PageTypes
  BY DEF PageInv
<1>1. /\ known' = [known EXCEPT ![c] = heard] /\ window' = [window EXCEPT ![c] = Throttled(window[c])]
      /\ UNCHANGED listed /\ heard \in SUBSET Changes
  BY <1>0 DEF Hear, PageTypes
<1>2. CASE window[c] = "idle"
  <2>1. Run(c, heard) /\ window' = [window EXCEPT ![c] = "quiet"]
    BY <1>1, <1>2 DEF Hear, Throttled
  <2> HIDE DEF heard
  <2> QED BY <1>1, <2>1, RunFact
<1>3. CASE window[c] # "idle"
  <2>1. UNCHANGED <<fetch, missed>> /\ window' = [window EXCEPT ![c] = "armed"]
    BY <1>1, <1>3 DEF Hear, Throttled
  <2> HIDE DEF heard
  <2>2. PageTypes'
    BY <1>0, <1>1, <2>1 DEF PageTypes
  <2>3. window'[c] = "armed"
    BY <1>0, <2>1 DEF PageTypes
  <2>4. \A y \in known'[c] : ToBeShown(c, y)'
    BY <2>3 DEF ToBeShown
  <2>5. \A d \in Consoles \ {c} : /\ window'[d] = window[d] /\ fetch'[d] = fetch[d] /\ listed'[d] = listed[d]
                                   /\ missed'[d] = missed[d] /\ known'[d] = known[d]
    BY <1>0, <1>1, <2>1 DEF PageTypes
  <2> QED BY <2>2, <2>4, <2>5, OthersAreShown
<1> QED BY <1>2, <1>3

LEMMA FlushShown == ASSUME PageInv, NEW c \in Consoles, Flush(c) PROVE PageInv'
<1>1. PageTypes
  BY DEF PageInv
<1>2. Run(c, known[c]) /\ UNCHANGED listed /\ window' = [window EXCEPT ![c] = "quiet"] /\ known' = known
  BY DEF Flush, streamVars
<1>3. known' = [known EXCEPT ![c] = known[c]] /\ known[c] \in SUBSET Changes
  BY <1>1, <1>2 DEF PageTypes
<1> QED BY <1>2, <1>3, RunFact

LEMMA RefreshShown ==
    ASSUME PageInv, NEW c \in Consoles, NEW x \in Changes, RefreshAfterUpdate(c, x) PROVE PageInv'
<1> DEFINE heard == known[c] \cup {x}
<1>1. PageTypes
  BY DEF PageInv
<1>2. Run(c, heard) /\ UNCHANGED listed /\ window' = window /\ known' = [known EXCEPT ![c] = heard]
  BY <1>1 DEF RefreshAfterUpdate, PageTypes
<1>3. window' = [window EXCEPT ![c] = window[c]] /\ window[c] \in {"idle", "quiet", "armed"} /\ heard \in SUBSET Changes
  BY <1>1, <1>2 DEF PageTypes
<1> HIDE DEF heard
<1> QED BY <1>2, <1>3, RunFact

LEMMA WindowEndsShown == ASSUME PageInv, NEW c \in Consoles, WindowEnds(c) PROVE PageInv'
<1>1. PageTypes
  BY DEF PageInv
<1>2. window[c] = "quiet" /\ window' = [window EXCEPT ![c] = "idle"] /\ UNCHANGED <<fetch, listed, missed, known>>
  BY DEF WindowEnds, streamVars
<1>3. PageTypes'
  BY <1>1, <1>2 DEF PageTypes
<1>4. \A x \in known[c] : ToBeShown(c, x)
  BY DEF PageInv
<1>5. \A x \in known'[c] : ToBeShown(c, x)'
  BY <1>2, <1>4 DEF ToBeShown
<1>6. \A d \in Consoles \ {c} : window'[d] = window[d]
  BY <1>1, <1>2 DEF PageTypes
<1> QED BY <1>2, <1>3, <1>5, <1>6, OthersAreShown

(* A read of one of the two tokens becomes another.                        *)
LEMMA FetchFact ==
    ASSUME PageInv, NEW c \in Consoles, NEW slot \in {"now", "old"}, NEW r \in ReadRecords,
           fetch' = [fetch EXCEPT ![c][slot] = r], UNCHANGED <<window, known>>,
           NEW rows \in SUBSET Changes, listed' = [listed EXCEPT ![c] = rows],
           NEW past \in SUBSET Changes, missed' = [missed EXCEPT ![c] = missed[c] \cup past],
           \A x \in known[c] : ToBeShown(c, x) => ToBeShown(c, x)'
    PROVE  PageInv'
<1>1. PageTypes
  BY DEF PageInv
<1> DEFINE reads == [fetch[c] EXCEPT ![slot] = r]
<1>2. reads \in [now : ReadRecords, old : ReadRecords]
  <2>1. fetch[c] \in [now : ReadRecords, old : ReadRecords]
    BY <1>1 DEF PageTypes
  <2> QED BY <2>1
<1>3. fetch' = [fetch EXCEPT ![c] = reads]
  BY <1>1 DEF PageTypes
<1> HIDE DEF reads
<1>4. PageTypes'
  BY <1>1, <1>2, <1>3 DEF PageTypes
<1>5. \A x \in known'[c] : ToBeShown(c, x)'
  BY DEF PageInv
<1>6. \A d \in Consoles \ {c} : /\ window'[d] = window[d] /\ fetch'[d] = fetch[d] /\ listed'[d] = listed[d]
                                 /\ missed'[d] = missed[d] /\ known'[d] = known[d]
  BY <1>1, <1>3 DEF PageTypes
<1> QED BY <1>4, <1>5, <1>6, OthersAreShown

LEMMA FetchReadShown ==
    ASSUME PageInv, NEW c \in Consoles, NEW slot \in {"now", "old"}, FetchRead(c, slot), Visible \in SUBSET Changes
    PROVE  PageInv'
<1>1. PageTypes
  BY DEF PageInv
<1> DEFINE r == [step |-> "read", rows |-> Visible]
           past == known[c] \ Visible
<1>2. r \in ReadRecords /\ past \in SUBSET Changes
  BY <1>1 DEF ReadRecords, PageTypes
<1>3. fetch' = [fetch EXCEPT ![c][slot] = r]
  BY DEF FetchRead
<1>4. UNCHANGED <<window, known, listed>> /\ missed' = [missed EXCEPT ![c] = missed[c] \cup past]
  BY DEF FetchRead, streamVars
<1>5. listed' = [listed EXCEPT ![c] = listed[c]] /\ listed[c] \in SUBSET Changes
  BY <1>1, <1>4 DEF PageTypes
<1>6. \A x \in known[c] : ToBeShown(c, x)'
  <2> SUFFICES ASSUME NEW x \in known[c] PROVE ToBeShown(c, x)'
    OBVIOUS
  <2>1. CASE x \in Visible
    <3>1. fetch'[c][slot] = r
      BY <1>1, <1>3 DEF PageTypes
    <3> QED BY <2>1, <3>1 DEF ToBeShown
  <2>2. CASE x \notin Visible
    <3>1. x \in missed'[c]
      BY <1>1, <1>4, <2>2 DEF PageTypes
    <3> QED BY <3>1 DEF ToBeShown
  <2> QED BY <2>1, <2>2
<1> HIDE DEF r, past
<1> QED BY <1>2, <1>3, <1>4, <1>5, <1>6, FetchFact

LEMMA FetchAnswerShown ==
    ASSUME PageInv, NEW c \in Consoles, NEW slot \in {"now", "old"}, FetchAnswer(c, slot)
    PROVE  PageInv'
<1>1. PageTypes
  BY DEF PageInv
<1> DEFINE rows == fetch[c][slot].rows
           past == listed[c] \ rows
<1>2. rows \in SUBSET Changes /\ past \in SUBSET Changes /\ NoRead \in ReadRecords
  <2>1. fetch[c] \in [now : ReadRecords, old : ReadRecords]
    BY <1>1 DEF PageTypes
  <2>2. fetch[c][slot] \in ReadRecords
    BY <2>1
  <2> QED BY <1>1, <2>2 DEF ReadRecords, NoRead, PageTypes
<1>3. /\ fetch' = [fetch EXCEPT ![c][slot] = NoRead] /\ UNCHANGED <<window, known>>
      /\ listed' = [listed EXCEPT ![c] = rows] /\ missed' = [missed EXCEPT ![c] = missed[c] \cup past]
  BY DEF FetchAnswer, streamVars
<1>4. fetch[c][slot].step = "read"
  BY DEF FetchAnswer
<1>5. \A s \in {"now", "old"} : s # slot => fetch'[c][s] = fetch[c][s]
  BY <1>1, <1>3 DEF PageTypes
<1>6. \A x \in known[c] : ToBeShown(c, x) => ToBeShown(c, x)'
  <2> SUFFICES ASSUME NEW x \in known[c], ToBeShown(c, x) PROVE ToBeShown(c, x)'
    OBVIOUS
  <2>1. listed'[c] = rows /\ missed'[c] = missed[c] \cup past /\ window' = window
    BY <1>1, <1>3 DEF PageTypes
  <2>2. CASE x \in listed[c] \cup missed[c] \/ x \in rows
    BY <2>1, <2>2 DEF ToBeShown
  <2>3. CASE x \notin listed[c] \cup missed[c] /\ x \notin rows
    <3>1. window[c] = "armed" \/ \E s \in {"now", "old"} : s # slot /\
              (fetch[c][s].step = "sent" \/ (fetch[c][s].step = "read" /\ x \in fetch[c][s].rows))
      BY <1>4, <2>3 DEF ToBeShown
    <3> QED BY <1>5, <2>1, <3>1 DEF ToBeShown
  <2> QED BY <2>2, <2>3
<1> HIDE DEF rows, past
<1> QED BY <1>2, <1>3, <1>6, FetchFact

LEMMA FetchFailsShown ==
    ASSUME PageInv, NEW c \in Consoles, NEW slot \in {"now", "old"}, FetchFails(c, slot)
    PROVE  PageInv'
<1>1. PageTypes
  BY DEF PageInv
<1> DEFINE past == known[c] \ listed[c]
<1>2. past \in SUBSET Changes /\ listed[c] \in SUBSET Changes /\ NoRead \in ReadRecords
  BY <1>1 DEF PageTypes, ReadRecords
<1>3. /\ fetch' = [fetch EXCEPT ![c][slot] = NoRead] /\ UNCHANGED <<window, known>>
      /\ listed' = [listed EXCEPT ![c] = listed[c]] /\ missed' = [missed EXCEPT ![c] = missed[c] \cup past]
  BY <1>1 DEF FetchFails, streamVars, PageTypes
<1>4. \A x \in known[c] : ToBeShown(c, x)'
  BY <1>1, <1>3 DEF PageTypes, ToBeShown
<1> HIDE DEF past
<1> QED BY <1>2, <1>3, <1>4, FetchFact

LEMMA TokenRotatesShown == ASSUME PageInv, NEW c \in Consoles, TokenRotates(c) PROVE PageInv'
<1>1. PageTypes
  BY DEF PageInv
<1> DEFINE reads == [now |-> NoRead, old |-> fetch[c].now]
<1>2. fetch' = [fetch EXCEPT ![c] = reads] /\ UNCHANGED <<window, known, listed, missed>>
  BY DEF TokenRotates
<1>3. fetch[c].now \in ReadRecords /\ NoRead \in ReadRecords /\ fetch[c].old = NoRead
  BY <1>1 DEF PageTypes, ReadRecords, TokenRotates
<1>4. reads \in [now : ReadRecords, old : ReadRecords]
  BY <1>3
<1>5. reads.old = fetch[c].now
  OBVIOUS
<1> HIDE DEF reads
<1>6. PageTypes'
  BY <1>1, <1>2, <1>4 DEF PageTypes
<1>7. \A d \in Consoles \ {c} : fetch'[d] = fetch[d]
  BY <1>1, <1>2 DEF PageTypes
<1>8. ASSUME NEW x \in known'[c] PROVE ToBeShown(c, x)'
  <2>1. ToBeShown(c, x)
    BY <1>2, <1>8 DEF PageInv
  <2>2. fetch'[c].old = fetch[c].now
    BY <1>1, <1>2, <1>5 DEF PageTypes
  <2>3. fetch[c].old.step = "none"
    BY <1>3 DEF NoRead
  <2> QED BY <1>2, <2>1, <2>2, <2>3 DEF ToBeShown
<1> QED BY <1>2, <1>6, <1>7, <1>8, OthersAreShown

----------------------------------------------------------------------------
(* The events on their way.                                                *)

WireRecords == [origin : Processes, change : Changes]
StreamRecords ==
    [up : BOOLEAN, at : Processes \cup {"none"}, staff : BOOLEAN, fresh : BOOLEAN,
     frames : Seq(Changes), heard : Seq(Changes)]
ChangeRecords == [way : Ways, at : Processes, step : {"todo", "stored", "told", "done", "failed"}]

HubTypes ==
    /\ change \in [Changes -> ChangeRecords]
    /\ chain \in [Processes -> Seq(Changes)]
    /\ wire \in [Processes -> Seq(WireRecords)]
    /\ stream \in [Consoles -> StreamRecords]
    /\ published \in Seq(Changes)
    /\ known \in [Consoles -> SUBSET Changes]
    /\ cut \in [Consoles -> SUBSET Changes]

(* Everything on its way was published, once, after it was told; it is in  *)
(* the chain of the server that made the change, under whose name it goes  *)
(* over the wire; and a stream that is closed carries nothing.             *)
EventsAreTold ==
    /\ IsInjective(published)
    /\ \A x \in ToSet(published) : change[x].step \in {"told", "done", "failed"}
    /\ \A i \in Processes : \A x \in ToSet(chain[i]) : change[x].at = i /\ x \in ToSet(published)
    /\ \A j \in Processes : \A m \in ToSet(wire[j]) :
          m.origin = change[m.change].at /\ m.change \in ToSet(published)
    /\ \A c \in Consoles :
          /\ ToSet(stream[c].frames) \cup ToSet(stream[c].heard) \subseteq ToSet(published)
          /\ IF stream[c].up THEN stream[c].at \in Processes
             ELSE stream[c].frames = <<>> /\ stream[c].heard = <<>>

(* A change that is told was not told before, and stays where it was made. *)
LEMMA AdvanceFact ==
    ASSUME HubTypes, NEW x \in Changes, NEW stage \in {"todo", "stored", "told", "done", "failed"}, Advance(x, stage)
    PROVE  /\ change' \in [Changes -> ChangeRecords] /\ change'[x].step = stage
           /\ \A y \in Changes : /\ change'[y].at = change[y].at
                                 /\ y # x => change'[y].step = change[y].step
<1> DEFINE r == [change[x] EXCEPT !.step = stage]
<1>1. change[x] \in ChangeRecords
  BY DEF HubTypes
<1>2. r \in ChangeRecords /\ r.step = stage /\ r.at = change[x].at
  BY <1>1 DEF ChangeRecords
<1>3. change' = [change EXCEPT ![x] = r]
  BY DEF Advance
<1> HIDE DEF r
<1> QED BY <1>2, <1>3 DEF HubTypes

(* The streams of a server get one event more.                             *)
LEMMA DeliverFact ==
    ASSUME HubTypes, NEW i \in Processes, NEW x \in Changes, DeliverLocal(i, x)
    PROVE  /\ stream' \in [Consoles -> StreamRecords]
           /\ \A c \in Consoles :
                /\ stream'[c].up = stream[c].up /\ stream'[c].at = stream[c].at /\ stream'[c].staff = stream[c].staff
                /\ stream'[c].heard = stream[c].heard
                /\ Listens(c, i) => stream'[c].frames = Append(stream[c].frames, x)
                /\ ~Listens(c, i) => stream'[c].frames = stream[c].frames
<1>0. \A c \in Consoles : stream[c] \in StreamRecords
  BY DEF HubTypes
<1>1. ASSUME NEW c \in Consoles
      PROVE  /\ stream'[c] \in StreamRecords
             /\ stream'[c].up = stream[c].up /\ stream'[c].at = stream[c].at /\ stream'[c].staff = stream[c].staff
             /\ stream'[c].heard = stream[c].heard
             /\ Listens(c, i) => stream'[c].frames = Append(stream[c].frames, x)
             /\ ~Listens(c, i) => stream'[c].frames = stream[c].frames
  <2> DEFINE frames == Append(stream[c].frames, x)
             r == [stream[c] EXCEPT !.frames = frames]
  <2>1. frames \in Seq(Changes)
    <3>1. stream[c].frames \in Seq(Changes)
      BY <1>0 DEF StreamRecords
    <3> QED BY <3>1
  <2>2. stream'[c] = IF Listens(c, i) THEN r ELSE stream[c]
    BY DEF DeliverLocal
  <2> HIDE DEF frames
  <2>3. /\ r \in StreamRecords /\ r.up = stream[c].up /\ r.at = stream[c].at /\ r.staff = stream[c].staff
        /\ r.heard = stream[c].heard /\ r.frames = frames
    BY <1>0, <2>1 DEF StreamRecords
  <2> HIDE DEF r
  <2> QED BY <1>0, <2>2, <2>3 DEF frames
<1>2. DOMAIN stream' = Consoles /\ stream' = [c \in Consoles |-> stream'[c]]
  BY DEF DeliverLocal
<1> QED BY <1>1, <1>2

(* What is published for the first time.                                   *)
LEMMA PublishTypes ==
    ASSUME HubTypes, EventsAreTold, NEW i \in Processes, NEW x \in Changes, change[x].at = i,
           x \notin ToSet(published), Advance(x, "told"), Publish(i, x)
    PROVE  HubTypes' /\ EventsAreTold' /\ ToSet(published') = ToSet(published) \cup {x}
<1>1. /\ change' \in [Changes -> ChangeRecords] /\ change'[x].step = "told"
      /\ \A y \in Changes : change'[y].at = change[y].at /\ (y # x => change'[y].step = change[y].step)
  BY AdvanceFact
<1>2. published' = Append(published, x) /\ published' \in Seq(Changes) /\ ToSet(published') = ToSet(published) \cup {x}
  BY AppendElements DEF Publish, HubTypes
<1>3. /\ chain' = [chain EXCEPT ![i] = Append(chain[i], x)] /\ Append(chain[i], x) \in Seq(Changes)
      /\ ToSet(Append(chain[i], x)) = ToSet(chain[i]) \cup {x}
  BY AppendElements DEF Publish, HubTypes
<1>4. wire' = wire /\ known' = known
  BY DEF Publish
<1>5. cut' \in [Consoles -> SUBSET Changes]
  BY DEF Publish, Cuts, HubTypes
<1>6. /\ stream' \in [Consoles -> StreamRecords]
      /\ \A c \in Consoles :
            /\ stream'[c].up = stream[c].up /\ stream'[c].at = stream[c].at /\ stream'[c].staff = stream[c].staff
            /\ stream'[c].heard = stream[c].heard
            /\ Listens(c, i) => stream'[c].frames = Append(stream[c].frames, x)
            /\ ~Listens(c, i) => stream'[c].frames = stream[c].frames
  BY DeliverFact DEF Publish
<1>7. HubTypes'
  BY <1>1, <1>2, <1>3, <1>4, <1>5, <1>6 DEF HubTypes
<1>8. IsInjective(published')
  <2>1. /\ DOMAIN published = 1..Len(published) /\ Len(published) \in Nat
        /\ DOMAIN published' = 1..(Len(published) + 1)
        /\ (\A k \in DOMAIN published : published'[k] = published[k]) /\ published'[Len(published) + 1] = x
    BY <1>2 DEF HubTypes
  <2>2. \A k \in DOMAIN published : published[k] # x
    BY DEF ToSet
  <2>3. \A k \in DOMAIN published' : k \in DOMAIN published \/ k = Len(published) + 1
    BY <2>1
  <2> QED BY <2>1, <2>2, <2>3 DEF IsInjective, EventsAreTold
<1>9. \A y \in ToSet(published') : change'[y].step \in {"told", "done", "failed"}
  <2>1. ToSet(published) \subseteq Changes
    BY DEF ToSet, HubTypes
  <2> QED BY <1>1, <1>2, <2>1 DEF EventsAreTold
<1>10. ASSUME NEW j \in Processes, NEW y \in ToSet(chain'[j]) PROVE change'[y].at = j /\ y \in ToSet(published')
  <2>1. (y = x /\ j = i) \/ y \in ToSet(chain[j])
    BY <1>3, <1>10 DEF HubTypes
  <2>2. \A z \in ToSet(chain[j]) : z \in Changes
    BY DEF ToSet, HubTypes
  <2> QED BY <1>1, <1>2, <2>1, <2>2 DEF EventsAreTold
<1>11. ASSUME NEW j \in Processes, NEW m \in ToSet(wire'[j])
       PROVE  m.origin = change'[m.change].at /\ m.change \in ToSet(published')
  <2>1. m \in ToSet(wire[j]) /\ m \in WireRecords
    BY <1>4 DEF ToSet, HubTypes
  <2>2. m.change \in Changes
    BY <2>1 DEF WireRecords
  <2> QED BY <1>1, <1>2, <2>1, <2>2 DEF EventsAreTold
<1>12. ASSUME NEW c \in Consoles
       PROVE  /\ ToSet(stream'[c].frames) \cup ToSet(stream'[c].heard) \subseteq ToSet(published')
              /\ IF stream'[c].up THEN stream'[c].at \in Processes
                 ELSE stream'[c].frames = <<>> /\ stream'[c].heard = <<>>
  <2>1. stream[c].frames \in Seq(Changes)
    BY DEF HubTypes, StreamRecords
  <2>2. ToSet(Append(stream[c].frames, x)) = ToSet(stream[c].frames) \cup {x}
    BY <2>1, AppendElements
  <2> QED BY <1>2, <1>6, <2>2 DEF EventsAreTold, Listens
<1> QED BY <1>2, <1>7, <1>8, <1>9, <1>10, <1>11, <1>12 DEF EventsAreTold

(* A change goes on without being told now.                                *)
LEMMA AdvanceTypes ==
    ASSUME HubTypes, EventsAreTold, NEW x \in Changes, NEW stage \in {"stored", "told", "done", "failed"}, Advance(x, stage),
           x \notin ToSet(published) \/ stage # "stored", UNCHANGED <<chain, wire, published, stream, cut>>,
           known' \in [Consoles -> SUBSET Changes]
    PROVE  HubTypes' /\ EventsAreTold'
<1>1. /\ change' \in [Changes -> ChangeRecords] /\ change'[x].step = stage
      /\ \A y \in Changes : change'[y].at = change[y].at /\ (y # x => change'[y].step = change[y].step)
  BY AdvanceFact
<1>2. HubTypes'
  BY <1>1 DEF HubTypes
<1>3. ToSet(published) \subseteq Changes /\ \A j \in Processes : ToSet(chain[j]) \subseteq Changes
      /\ \A m \in ToSet(wire[j]) : m.change \in Changes
  <2>1. ToSet(published) \subseteq Changes
    BY DEF ToSet, HubTypes
  <2>2. ASSUME NEW j \in Processes PROVE ToSet(chain[j]) \subseteq Changes /\ ToSet(wire[j]) \subseteq WireRecords
    <3>1. chain[j] \in Seq(Changes) /\ wire[j] \in Seq(WireRecords)
      BY DEF HubTypes
    <3> QED BY <3>1 DEF ToSet
  <2> QED BY <2>1, <2>2 DEF WireRecords
<1>4. /\ \A y \in ToSet(published) : change'[y].step \in {"told", "done", "failed"}
      /\ \A i \in Processes : \A y \in ToSet(chain[i]) : change'[y].at = i /\ y \in ToSet(published)
      /\ \A j \in Processes : \A m \in ToSet(wire[j]) : m.origin = change'[m.change].at /\ m.change \in ToSet(published)
  <2>1. \A y \in ToSet(published) : change'[y].step \in {"told", "done", "failed"}
    BY <1>1, <1>3 DEF EventsAreTold
  <2>2. \A i \in Processes : \A y \in ToSet(chain[i]) : change'[y].at = i /\ y \in ToSet(published)
    BY <1>1, <1>3 DEF EventsAreTold
  <2>3. \A j \in Processes : \A m \in ToSet(wire[j]) : m.origin = change'[m.change].at /\ m.change \in ToSet(published)
    BY <1>1, <1>3 DEF EventsAreTold
  <2> QED BY <2>1, <2>2, <2>3
<1> QED BY <1>2, <1>4 DEF EventsAreTold

(* An event leaves a server's chain.                                       *)
LEMMA ChainTypes ==
    ASSUME HubTypes, EventsAreTold, NEW i \in Processes, chain[i] # <<>>, chain' = [chain EXCEPT ![i] = Tail(chain[i])],
           UNCHANGED <<change, published, stream, known>>, cut' \in [Consoles -> SUBSET Changes],
           wire' \in [Processes -> Seq(WireRecords)],
           \A j \in Processes : \A m \in ToSet(wire'[j]) :
               m \in ToSet(wire[j]) \/ m = [origin |-> i, change |-> Head(chain[i])]
    PROVE  HubTypes' /\ EventsAreTold'
<1>1. chain[i] \in Seq(Changes)
  BY DEF HubTypes
<1>2. /\ Tail(chain[i]) \in Seq(Changes) /\ Head(chain[i]) \in ToSet(chain[i])
      /\ ToSet(Tail(chain[i])) \subseteq ToSet(chain[i])
  BY <1>1, TailElements
<1>3. \A j \in Processes : chain'[j] \in Seq(Changes) /\ ToSet(chain'[j]) \subseteq ToSet(chain[j])
  BY <1>2 DEF HubTypes
<1>4. HubTypes'
  BY <1>3 DEF HubTypes
<1>5. \A j \in Processes : \A m \in ToSet(wire'[j]) : m.origin = change[m.change].at /\ m.change \in ToSet(published)
  BY <1>2 DEF EventsAreTold
<1> QED BY <1>3, <1>4, <1>5 DEF EventsAreTold

(* The two ends of a chain.                                                *)
LEMMA RedisPublishTypes == ASSUME HubTypes, EventsAreTold, NEW i \in Processes, RedisPublish(i) PROVE HubTypes' /\ EventsAreTold'
<1> DEFINE m == [origin |-> i, change |-> Head(chain[i])]
<1>1. chain[i] \in Seq(Changes) /\ chain[i] # <<>> /\ chain' = [chain EXCEPT ![i] = Tail(chain[i])]
  BY DEF HubTypes, RedisPublish
<1>2. m \in WireRecords
  BY <1>1 DEF WireRecords
<1>3. wire' = [j \in Processes |-> IF link[j] = "up" THEN Append(wire[j], m) ELSE wire[j]]
  BY DEF RedisPublish, Fanned
<1> HIDE DEF m
<1>4. \A j \in Processes : wire'[j] \in Seq(WireRecords) /\ ToSet(wire'[j]) \subseteq ToSet(wire[j]) \cup {m}
  <2> SUFFICES ASSUME NEW j \in Processes PROVE wire'[j] \in Seq(WireRecords) /\ ToSet(wire'[j]) \subseteq ToSet(wire[j]) \cup {m}
    OBVIOUS
  <2>1. wire[j] \in Seq(WireRecords)
    BY DEF HubTypes
  <2>2. Append(wire[j], m) \in Seq(WireRecords) /\ ToSet(Append(wire[j], m)) = ToSet(wire[j]) \cup {m}
    BY <1>2, <2>1, AppendElements
  <2> QED BY <1>3, <2>1, <2>2
<1>5. cut' \in [Consoles -> SUBSET Changes]
  BY <1>1 DEF RedisPublish, Cuts, HubTypes
<1>6. wire' \in [Processes -> Seq(WireRecords)]
  BY <1>3, <1>4
<1>7. UNCHANGED <<change, published, stream, known>>
  BY DEF RedisPublish
<1> QED BY <1>1, <1>4, <1>5, <1>6, <1>7, ChainTypes DEF m

LEMMA PublishFailsTypes == ASSUME HubTypes, EventsAreTold, NEW i \in Processes, PublishFails(i) PROVE HubTypes' /\ EventsAreTold'
<1>1. chain[i] \in Seq(Changes) /\ chain[i] # <<>> /\ chain' = [chain EXCEPT ![i] = Tail(chain[i])]
  BY DEF HubTypes, PublishFails
<1>2. cut' \in [Consoles -> SUBSET Changes]
  BY <1>1 DEF PublishFails, Cuts, HubTypes
<1>3. wire' = wire /\ wire' \in [Processes -> Seq(WireRecords)] /\ UNCHANGED <<change, published, stream, known>>
  BY DEF PublishFails, HubTypes
<1> QED BY <1>1, <1>2, <1>3, ChainTypes

(* A message leaves a wire.                                                *)
LEMMA WireTypes ==
    ASSUME HubTypes, EventsAreTold, NEW j \in Processes, wire[j] # <<>>, wire' = [wire EXCEPT ![j] = Tail(wire[j])],
           UNCHANGED <<change, chain, published, known>>, cut' \in [Consoles -> SUBSET Changes],
           UNCHANGED stream \/ DeliverLocal(j, Head(wire[j]).change)
    PROVE  HubTypes' /\ EventsAreTold'
<1>1. wire[j] \in Seq(WireRecords)
  BY DEF HubTypes
<1>2. /\ Tail(wire[j]) \in Seq(WireRecords) /\ Head(wire[j]) \in ToSet(wire[j]) /\ Head(wire[j]) \in WireRecords
      /\ ToSet(Tail(wire[j])) \subseteq ToSet(wire[j])
  BY <1>1, TailElements
<1> DEFINE x == Head(wire[j]).change
<1>3. x \in Changes /\ x \in ToSet(published)
  BY <1>2 DEF WireRecords, EventsAreTold
<1>4. \A k \in Processes : wire'[k] \in Seq(WireRecords) /\ ToSet(wire'[k]) \subseteq ToSet(wire[k])
  BY <1>2 DEF HubTypes
<1> HIDE DEF x
<1>5. /\ stream' \in [Consoles -> StreamRecords]
      /\ \A c \in Consoles :
            /\ ToSet(stream'[c].frames) \cup ToSet(stream'[c].heard) \subseteq ToSet(published)
            /\ IF stream'[c].up THEN stream'[c].at \in Processes
               ELSE stream'[c].frames = <<>> /\ stream'[c].heard = <<>>
  <2>1. CASE UNCHANGED stream
    BY <2>1 DEF HubTypes, EventsAreTold
  <2>2. CASE DeliverLocal(j, x)
    <3>1. /\ stream' \in [Consoles -> StreamRecords]
          /\ \A c \in Consoles :
                /\ stream'[c].up = stream[c].up /\ stream'[c].at = stream[c].at /\ stream'[c].staff = stream[c].staff
                /\ stream'[c].heard = stream[c].heard
                /\ Listens(c, j) => stream'[c].frames = Append(stream[c].frames, x)
                /\ ~Listens(c, j) => stream'[c].frames = stream[c].frames
      BY <1>3, <2>2, DeliverFact
    <3>2. ASSUME NEW c \in Consoles
          PROVE  /\ ToSet(stream'[c].frames) \cup ToSet(stream'[c].heard) \subseteq ToSet(published)
                 /\ IF stream'[c].up THEN stream'[c].at \in Processes
                    ELSE stream'[c].frames = <<>> /\ stream'[c].heard = <<>>
      <4>1. stream[c].frames \in Seq(Changes)
        BY DEF HubTypes, StreamRecords
      <4>2. ToSet(Append(stream[c].frames, x)) = ToSet(stream[c].frames) \cup {x}
        BY <1>3, <4>1, AppendElements
      <4>3. /\ ToSet(stream[c].frames) \cup ToSet(stream[c].heard) \subseteq ToSet(published)
            /\ IF stream[c].up THEN stream[c].at \in Processes
               ELSE stream[c].frames = <<>> /\ stream[c].heard = <<>>
        BY DEF EventsAreTold
      <4>4. CASE Listens(c, j)
        <5>1. stream'[c].frames = Append(stream[c].frames, x) /\ stream[c].up /\ stream'[c].heard = stream[c].heard
              /\ stream'[c].up = stream[c].up /\ stream'[c].at = stream[c].at
          BY <3>1, <4>4 DEF Listens
        <5> QED BY <1>3, <4>2, <4>3, <5>1
      <4>5. CASE ~Listens(c, j)
        BY <3>1, <4>3, <4>5
      <4> QED BY <4>4, <4>5
    <3> QED BY <3>1, <3>2
  <2> QED BY <2>1, <2>2 DEF x
<1>6. HubTypes'
  BY <1>4, <1>5 DEF HubTypes
<1> QED BY <1>4, <1>5, <1>6 DEF EventsAreTold

(* The two ends of a wire.                                                 *)
LEMMA HandleTypes == ASSUME HubTypes, EventsAreTold, NEW j \in Processes, HandleRedisMessage(j) PROVE HubTypes' /\ EventsAreTold'
<1>1. /\ wire[j] # <<>> /\ wire' = [wire EXCEPT ![j] = Tail(wire[j])] /\ UNCHANGED <<change, chain, published, known>>
      /\ UNCHANGED stream \/ DeliverLocal(j, Head(wire[j]).change)
  BY DEF HandleRedisMessage
<1>2. cut' \in [Consoles -> SUBSET Changes]
  BY DEF HandleRedisMessage, HubTypes
<1> QED BY <1>1, <1>2, WireTypes

LEMMA LosesTypes == ASSUME HubTypes, EventsAreTold, NEW j \in Processes, SubscriberLoses(j) PROVE HubTypes' /\ EventsAreTold'
<1>1. /\ wire[j] # <<>> /\ wire' = [wire EXCEPT ![j] = Tail(wire[j])] /\ UNCHANGED <<change, chain, published, known, stream>>
  BY DEF SubscriberLoses
<1>2. Head(wire[j]).change \in Changes
  <2>1. wire[j] \in Seq(WireRecords)
    BY DEF HubTypes
  <2>2. Head(wire[j]) \in WireRecords
    BY <1>1, <2>1, TailElements
  <2> QED BY <2>2 DEF WireRecords
<1>3. cut' \in [Consoles -> SUBSET Changes]
  BY <1>2 DEF SubscriberLoses, Cuts, HubTypes
<1> QED BY <1>1, <1>3, WireTypes

(* Only streams change.                                                    *)
LEMMA StreamTypes ==
    ASSUME HubTypes, EventsAreTold, NEW c \in Consoles, NEW r \in StreamRecords, stream' = [stream EXCEPT ![c] = r],
           ToSet(r.frames) \cup ToSet(r.heard) \subseteq ToSet(published),
           IF r.up THEN r.at \in Processes ELSE r.frames = <<>> /\ r.heard = <<>>,
           UNCHANGED <<change, chain, wire, published>>,
           known' \in [Consoles -> SUBSET Changes], cut' \in [Consoles -> SUBSET Changes]
    PROVE  HubTypes' /\ EventsAreTold'
<1>1. stream' \in [Consoles -> StreamRecords] /\ stream'[c] = r /\ \A d \in Consoles \ {c} : stream'[d] = stream[d]
  BY DEF HubTypes
<1>2. HubTypes'
  BY <1>1 DEF HubTypes
<1>3. ASSUME NEW d \in Consoles
      PROVE  /\ ToSet(stream'[d].frames) \cup ToSet(stream'[d].heard) \subseteq ToSet(published)
             /\ IF stream'[d].up THEN stream'[d].at \in Processes
                ELSE stream'[d].frames = <<>> /\ stream'[d].heard = <<>>
  BY <1>1 DEF EventsAreTold
<1> QED BY <1>2, <1>3 DEF EventsAreTold

(* The types, and that nothing moves that was not told.                    *)
Told == HubTypes /\ EventsAreTold

(* A change is published once, after it was told.                          *)
LEMMA TellTypes ==
    ASSUME Told, NEW x \in Changes, TellCreated(x) \/ TellUpdated(x)
    PROVE  /\ Told' /\ Publish(change[x].at, x) /\ Advance(x, "told") /\ change[x].at \in Processes
           /\ x \notin ToSet(published) /\ ToSet(published') = ToSet(published) \cup {x}
           /\ \A y \in Changes : change'[y].at = change[y].at
<1>1. /\ change[x].step \in {"todo", "stored"} /\ Publish(change[x].at, x) /\ Advance(x, "told")
  BY DEF TellCreated, TellUpdated
<1>2. x \notin ToSet(published)
  BY <1>1 DEF Told, EventsAreTold
<1>3. change[x].at \in Processes
  BY DEF Told, HubTypes, ChangeRecords
<1>4. \A y \in Changes : change'[y].at = change[y].at
  BY <1>1, AdvanceFact DEF Told
<1> QED BY <1>1, <1>2, <1>3, <1>4, PublishTypes DEF Told

(* Steps of a change that nothing is told of.                              *)
LEMMA AdvanceTold ==
    ASSUME Told, NEW x \in Changes,
           CommitCreated(x) \/ StoreUpdated(x) \/ (\E c \in Consoles : RefreshAfterUpdate(c, x))
    PROVE  /\ Told' /\ UNCHANGED <<chain, wire, published, stream, cut>>
           /\ \A c \in Consoles : known[c] \subseteq known'[c]
           /\ \A y \in Changes : change'[y].at = change[y].at
<1>1. UNCHANGED <<chain, wire, published, stream, cut>>
  BY DEF CommitCreated, StoreUpdated, RefreshAfterUpdate, streamVars
<1>2. known' \in [Consoles -> SUBSET Changes] /\ \A c \in Consoles : known[c] \subseteq known'[c]
  <2>0. known \in [Consoles -> SUBSET Changes]
    BY DEF Told, HubTypes
  <2>1. CASE CommitCreated(x) \/ StoreUpdated(x)
    <3>1. known' = known
      BY <2>1 DEF CommitCreated, StoreUpdated, streamVars
    <3> QED BY <2>0, <3>1
  <2>2. CASE \E c \in Consoles : RefreshAfterUpdate(c, x)
    BY <2>0, <2>2 DEF RefreshAfterUpdate
  <2> QED BY <2>1, <2>2
<1>3. PICK stage \in {"stored", "told", "done", "failed"} :
         Advance(x, stage) /\ (x \notin ToSet(published) \/ stage # "stored")
  <2>1. CASE CommitCreated(x)
    BY <2>1 DEF CommitCreated
  <2>2. CASE StoreUpdated(x)
    BY <2>2 DEF StoreUpdated, Told, EventsAreTold
  <2>3. CASE \E c \in Consoles : RefreshAfterUpdate(c, x)
    BY <2>3 DEF RefreshAfterUpdate
  <2> QED BY <2>1, <2>2, <2>3
<1>4. \A y \in Changes : change'[y].at = change[y].at
  BY <1>3, AdvanceFact DEF Told
<1> QED BY <1>1, <1>2, <1>3, <1>4, AdvanceTypes DEF Told

(* Steps of the pages and of a connection to Redis.                        *)
LEMMA StillTold ==
    ASSUME Told, UNCHANGED <<change, chain, wire, published, streamVars>> PROVE Told'
BY DEF Told, HubTypes, EventsAreTold, streamVars

(* The steps of a stream, one by one.                                      *)
LEMMA CutsOffTypes ==
    ASSUME Told, NEW c \in Consoles, CutsOff(c) PROVE cut' \in [Consoles -> SUBSET Changes]
<1>1. ToSet(published) \subseteq Changes
  BY DEF ToSet, Told, HubTypes
<1>2. cut \in [Consoles -> SUBSET Changes]
  BY DEF Told, HubTypes
<1> QED BY <1>1, <1>2 DEF CutsOff

LEMMA ConnectTypes ==
    ASSUME Told, NEW c \in Consoles, NEW i \in Processes, Connect(c, i)
    PROVE  Told' /\ stream'[c].frames = <<>> /\ stream'[c].heard = <<>> /\ \A d \in Consoles \ {c} : stream'[d] = stream[d]
<1>0. PICK t \in BOOLEAN : t = TRUE
  OBVIOUS
<1> DEFINE r == [f \in {"up", "at", "staff", "fresh", "frames", "heard"} |->
                    IF f = "up" THEN t ELSE IF f = "at" THEN i ELSE IF f = "staff" THEN stream[c].fresh
                    ELSE stream[c][f]]
<1>1. stream[c] \in StreamRecords /\ stream \in [Consoles -> StreamRecords]
  BY DEF Told, HubTypes
<1>2. [stream[c] EXCEPT !.up = TRUE, !.at = i, !.staff = stream[c].fresh] = r
  <2>1. DOMAIN stream[c] = {"up", "at", "staff", "fresh", "frames", "heard"}
    BY <1>1 DEF StreamRecords
  <2> QED BY <1>0, <1>1, <2>1 DEF StreamRecords
<1>3. /\ r \in StreamRecords /\ r.frames = stream[c].frames /\ r.heard = stream[c].heard /\ r.at = i
  <2>1. r = [up |-> t, at |-> i, staff |-> stream[c].fresh, fresh |-> stream[c].fresh,
             frames |-> stream[c].frames, heard |-> stream[c].heard]
    OBVIOUS
  <2> QED BY <1>1, <2>1 DEF StreamRecords
<1>4. stream' = [stream EXCEPT ![c] = r]
  BY <1>2 DEF Connect
<1> HIDE DEF r
<1>5. stream[c].frames = <<>> /\ stream[c].heard = <<>>
  BY DEF Connect, Told, EventsAreTold
<1>6. ToSet(r.frames) \cup ToSet(r.heard) \subseteq ToSet(published)
  BY <1>3 DEF Told, EventsAreTold
<1>7. UNCHANGED <<change, chain, wire, published>> /\ known' \in [Consoles -> SUBSET Changes]
  BY DEF Connect, Told, HubTypes
<1>8. cut' \in [Consoles -> SUBSET Changes]
  BY CutsOffTypes DEF Connect
<1>9. Told'
  BY <1>3, <1>4, <1>5, <1>6, <1>7, <1>8, StreamTypes DEF Told
<1> QED BY <1>1, <1>3, <1>4, <1>5, <1>9

(* A stream is closed.                                                     *)
LEMMA CloseTypes ==
    ASSUME Told, NEW c \in Consoles, Disconnect(c) \/ TokenRotates(c)
    PROVE  /\ Told' /\ ~stream'[c].up /\ stream'[c].frames = <<>> /\ stream'[c].heard = <<>>
           /\ CutsOff(c) /\ UNCHANGED <<known, hubVars>> /\ \A d \in Consoles \ {c} : stream'[d] = stream[d]
<1>1. stream[c] \in StreamRecords /\ stream \in [Consoles -> StreamRecords]
  BY DEF Told, HubTypes
<1>2. CutsOff(c) /\ UNCHANGED <<known, hubVars>>
  BY DEF Disconnect, TokenRotates
<1> DEFINE r == [Down EXCEPT !.fresh = stream[c].fresh]
<1>3a. <<>> \in Seq(Changes)
  OBVIOUS
<1>3b. Down \in StreamRecords
  BY <1>3a DEF Down, StreamRecords
<1>3. /\ Down \in StreamRecords /\ ~Down.up /\ Down.frames = <<>> /\ Down.heard = <<>>
      /\ r \in StreamRecords /\ ~r.up /\ r.frames = <<>> /\ r.heard = <<>>
  <2>1. ~Down.up /\ Down.frames = <<>> /\ Down.heard = <<>>
    BY DEF Down
  <2>2. stream[c].fresh \in BOOLEAN
    BY <1>1 DEF StreamRecords
  <2>3. r \in StreamRecords /\ r.up = Down.up /\ r.frames = Down.frames /\ r.heard = Down.heard
    BY <1>3b, <2>2 DEF StreamRecords
  <2> QED BY <1>3b, <2>1, <2>3
<1>4. PICK s \in StreamRecords : /\ stream' = [stream EXCEPT ![c] = s] /\ ~s.up
                                 /\ s.frames = <<>> /\ s.heard = <<>>
  BY <1>3 DEF Disconnect, TokenRotates
<1>5. ToSet(s.frames) \cup ToSet(s.heard) \subseteq ToSet(published)
  BY <1>4 DEF ToSet
<1>6. cut' \in [Consoles -> SUBSET Changes]
  BY <1>2, CutsOffTypes
<1>7. UNCHANGED <<change, chain, wire, published>> /\ known' \in [Consoles -> SUBSET Changes]
  BY <1>2 DEF hubVars, Told, HubTypes
<1>8. Told'
  BY <1>4, <1>5, <1>6, <1>7, StreamTypes DEF Told
<1> QED BY <1>1, <1>2, <1>4, <1>8

LEMMA LapseTypes ==
    ASSUME Told, NEW c \in Consoles, TokenLapses(c)
    PROVE  /\ Told' /\ UNCHANGED <<hubVars, known, cut>>
           /\ stream'[c].up = stream[c].up /\ stream'[c].at = stream[c].at /\ stream'[c].staff = stream[c].staff
           /\ stream'[c].frames = stream[c].frames /\ stream'[c].heard = stream[c].heard
           /\ \A d \in Consoles \ {c} : stream'[d] = stream[d]
<1> DEFINE r == [stream[c] EXCEPT !.fresh = FALSE]
<1>1. stream[c] \in StreamRecords /\ stream \in [Consoles -> StreamRecords]
  BY DEF Told, HubTypes
<1>2. /\ r \in StreamRecords /\ r.up = stream[c].up /\ r.at = stream[c].at /\ r.staff = stream[c].staff
      /\ r.frames = stream[c].frames /\ r.heard = stream[c].heard
  BY <1>1 DEF StreamRecords
<1>3. stream' = [stream EXCEPT ![c] = r] /\ UNCHANGED <<hubVars, known, cut>>
  BY DEF TokenLapses
<1> HIDE DEF r
<1>4. /\ ToSet(r.frames) \cup ToSet(r.heard) \subseteq ToSet(published)
      /\ IF r.up THEN r.at \in Processes ELSE r.frames = <<>> /\ r.heard = <<>>
  BY <1>2 DEF Told, EventsAreTold
<1>5. UNCHANGED <<change, chain, wire, published>> /\ known' \in [Consoles -> SUBSET Changes]
      /\ cut' \in [Consoles -> SUBSET Changes]
  BY <1>3 DEF hubVars, Told, HubTypes
<1>6. Told'
  BY <1>2, <1>3, <1>4, <1>5, StreamTypes DEF Told
<1> QED BY <1>1, <1>2, <1>3, <1>6

LEMMA HearTypes ==
    ASSUME Told, NEW c \in Consoles, Hear(c)
    PROVE  /\ Told' /\ UNCHANGED <<hubVars, cut>> /\ Head(stream[c].frames) \in Changes
           /\ stream'[c].up = stream[c].up /\ stream'[c].at = stream[c].at /\ stream'[c].staff = stream[c].staff
           /\ stream[c].frames \in Seq(Changes) /\ stream[c].heard \in Seq(Changes) /\ stream[c].frames # <<>>
           /\ stream'[c].frames = Tail(stream[c].frames)
           /\ stream'[c].heard = Append(stream[c].heard, Head(stream[c].frames))
           /\ known' = [known EXCEPT ![c] = known[c] \cup {Head(stream[c].frames)}]
           /\ \A d \in Consoles \ {c} : stream'[d] = stream[d]
<1> DEFINE x == Head(stream[c].frames)
           rest == Tail(stream[c].frames)
           heard == Append(stream[c].heard, x)
           r == [f \in {"up", "at", "staff", "fresh", "frames", "heard"} |->
                    IF f = "frames" THEN rest ELSE IF f = "heard" THEN heard ELSE stream[c][f]]
<1>1. stream[c] \in StreamRecords /\ stream \in [Consoles -> StreamRecords]
  BY DEF Told, HubTypes
<1>2. stream[c].frames \in Seq(Changes) /\ stream[c].heard \in Seq(Changes) /\ stream[c].frames # <<>>
  BY <1>1 DEF StreamRecords, Hear
<1>3. /\ rest \in Seq(Changes) /\ x \in Changes /\ x \in ToSet(stream[c].frames)
      /\ ToSet(rest) \subseteq ToSet(stream[c].frames)
  BY <1>2, TailElements
<1>4. heard \in Seq(Changes) /\ ToSet(heard) = ToSet(stream[c].heard) \cup {x}
  BY <1>2, <1>3, AppendElements
<1>5. stream' = [stream EXCEPT ![c] = [stream[c] EXCEPT !.frames = rest, !.heard = heard]]
  BY <1>1 DEF Hear
<1>6. UNCHANGED <<hubVars, cut>> /\ known' = [known EXCEPT ![c] = known[c] \cup {x}]
  BY DEF Hear
<1> HIDE DEF x, rest, heard
<1>7. [stream[c] EXCEPT !.frames = rest, !.heard = heard] = r
  <2>1. DOMAIN stream[c] = {"up", "at", "staff", "fresh", "frames", "heard"}
    BY <1>1 DEF StreamRecords
  <2> QED BY <1>1, <2>1 DEF StreamRecords
<1>8. /\ r \in StreamRecords /\ r.frames = rest /\ r.heard = heard /\ r.at = stream[c].at /\ r.up = stream[c].up
      /\ r.staff = stream[c].staff
  <2>1. r = [up |-> stream[c].up, at |-> stream[c].at, staff |-> stream[c].staff, fresh |-> stream[c].fresh,
             frames |-> rest, heard |-> heard]
    OBVIOUS
  <2> QED BY <1>1, <1>3, <1>4, <2>1 DEF StreamRecords
<1>9. stream' = [stream EXCEPT ![c] = r]
  BY <1>5, <1>7
<1> HIDE DEF r
<1>10. stream[c].up /\ stream[c].at \in Processes
       /\ ToSet(stream[c].frames) \cup ToSet(stream[c].heard) \subseteq ToSet(published)
  BY <1>2 DEF Told, EventsAreTold
<1>11. ToSet(r.frames) \cup ToSet(r.heard) \subseteq ToSet(published)
  BY <1>3, <1>4, <1>8, <1>10
<1>12. UNCHANGED <<change, chain, wire, published>> /\ cut' \in [Consoles -> SUBSET Changes]
       /\ known' \in [Consoles -> SUBSET Changes]
  BY <1>3, <1>6 DEF hubVars, Told, HubTypes
<1>13. Told'
  BY <1>8, <1>9, <1>10, <1>11, <1>12, StreamTypes DEF Told
<1>14. stream'[c] = r /\ \A d \in Consoles \ {c} : stream'[d] = stream[d]
  BY <1>1, <1>9
<1> QED BY <1>2, <1>3, <1>6, <1>8, <1>13, <1>14 DEF x, rest, heard

(* An event is on its way to a stream: among its frames, or with another   *)
(* server, in the chain or on the wire.                                    *)
OnItsWay(c, x) ==
    /\ stream[c].up /\ stream[c].staff
    /\ \/ x \in ToSet(stream[c].frames)
       \/ /\ change[x].at # stream[c].at
          /\ \/ x \in ToSet(chain[change[x].at])
             \/ \E m \in ToSet(wire[stream[c].at]) : m.change = x

Reached(c, x) == x \in known[c] \cup cut[c] \/ OnItsWay(c, x)

ReachInv == \A c \in Consoles : \A x \in ToSet(published) : Reached(c, x)

(* Only changes are published.                                             *)
LEMMA PublishedFact == ASSUME Told PROVE ToSet(published) \subseteq Changes
BY DEF ToSet, Told, HubTypes

(* A new event is delivered, chained, or cut off.                          *)
LEMMA PublishReaches ==
    ASSUME Told, ReachInv, NEW i \in Processes, NEW x \in Changes, change[x].at = i, Publish(i, x),
           \A y \in Changes : change'[y].at = change[y].at, ToSet(published') = ToSet(published) \cup {x}
    PROVE  ReachInv'
<1>1. /\ chain' = [chain EXCEPT ![i] = Append(chain[i], x)] /\ UNCHANGED <<wire, known>>
      /\ cut' = [c \in Consoles |-> IF ~stream[c].up \/ ~stream[c].staff THEN cut[c] \cup {x} ELSE cut[c]]
  BY DEF Publish, Cuts
<1>2. \A c \in Consoles :
            /\ stream'[c].up = stream[c].up /\ stream'[c].at = stream[c].at /\ stream'[c].staff = stream[c].staff
            /\ Listens(c, i) => stream'[c].frames = Append(stream[c].frames, x)
            /\ ~Listens(c, i) => stream'[c].frames = stream[c].frames
  BY DeliverFact DEF Publish, Told
<1>3. ToSet(chain'[i]) = ToSet(chain[i]) \cup {x} /\ \A j \in Processes : ToSet(chain[j]) \subseteq ToSet(chain'[j])
  <2>1. chain \in [Processes -> Seq(Changes)]
    BY DEF Told, HubTypes
  <2>2. ToSet(Append(chain[i], x)) = ToSet(chain[i]) \cup {x}
    BY <2>1, AppendElements
  <2> QED BY <1>1, <2>1, <2>2
<1>4. ASSUME NEW c \in Consoles
      PROVE  /\ ToSet(stream[c].frames) \subseteq ToSet(stream'[c].frames)
             /\ Listens(c, i) => x \in ToSet(stream'[c].frames)
  <2>1. stream[c].frames \in Seq(Changes)
    BY DEF Told, HubTypes, StreamRecords
  <2>2. ToSet(Append(stream[c].frames, x)) = ToSet(stream[c].frames) \cup {x}
    BY <2>1, AppendElements
  <2> QED BY <1>2, <2>2
<1>5. ASSUME NEW c \in Consoles PROVE Reached(c, x)'
  <2>1. CASE ~stream[c].up \/ ~stream[c].staff
    BY <1>1, <2>1 DEF Reached
  <2>2. CASE Listens(c, i)
    BY <1>2, <1>4, <2>2 DEF Reached, OnItsWay, Listens
  <2>3. CASE stream[c].up /\ stream[c].staff /\ stream[c].at # i
    BY <1>2, <1>3, <2>3 DEF Reached, OnItsWay
  <2> QED BY <2>1, <2>2, <2>3 DEF Listens
<1>6. ASSUME NEW c \in Consoles, NEW y \in ToSet(published) PROVE Reached(c, y)'
  <2>1. Reached(c, y) /\ y \in Changes
    BY PublishedFact DEF ReachInv
  <2>2. change[y].at \in Processes /\ change'[y].at = change[y].at
    BY <2>1 DEF Told, HubTypes, ChangeRecords
  <2>3. CASE y \in known[c] \cup cut[c]
    BY <1>1, <2>3 DEF Reached
  <2>4. CASE OnItsWay(c, y)
    BY <1>1, <1>2, <1>3, <1>4, <2>2, <2>4 DEF Reached, OnItsWay
  <2> QED BY <2>1, <2>3, <2>4 DEF Reached
<1> QED BY <1>5, <1>6 DEF ReachInv

(* The head of a chain is handed to the servers that listen, or is cut off *)
(* from all the others.                                                    *)
LEMMA ChainReaches ==
    ASSUME Told, ReachInv, NEW i \in Processes, RedisPublish(i) \/ PublishFails(i) PROVE ReachInv'
<1> DEFINE h == Head(chain[i])
           m == [origin |-> i, change |-> h]
<1>1. /\ chain[i] # <<>> /\ chain' = [chain EXCEPT ![i] = Tail(chain[i])]
      /\ UNCHANGED <<change, published, stream, known>>
  BY DEF RedisPublish, PublishFails
<1>2. chain \in [Processes -> Seq(Changes)] /\ wire \in [Processes -> Seq(WireRecords)]
  BY DEF Told, HubTypes
<1>3. ToSet(chain[i]) = {h} \cup ToSet(Tail(chain[i])) /\ h \in Changes /\ change[h].at = i
  BY <1>1, <1>2, TailElements DEF Told, EventsAreTold
<1>4. \A j \in Processes : ToSet(chain[j]) \subseteq ToSet(chain'[j]) \cup {h}
  BY <1>1, <1>2, <1>3
<1>5. \A j \in Processes : ToSet(wire[j]) \subseteq ToSet(wire'[j])
  <2>1. CASE PublishFails(i)
    BY <2>1 DEF PublishFails
  <2>2. CASE RedisPublish(i)
    <3>1. m \in WireRecords
      BY <1>3 DEF WireRecords
    <3>2. wire' = [j \in Processes |-> IF link[j] = "up" THEN Append(wire[j], m) ELSE wire[j]]
      BY <2>2 DEF RedisPublish, Fanned
    <3> HIDE DEF m
    <3>3. \A j \in Processes : ToSet(Append(wire[j], m)) = ToSet(wire[j]) \cup {m}
      BY <1>2, <3>1, AppendElements
    <3> QED BY <3>2, <3>3
  <2> QED BY <2>1, <2>2
<1>6. \A c \in Consoles : cut[c] \subseteq cut'[c]
  BY DEF RedisPublish, PublishFails, Cuts
<1>7. ASSUME NEW c \in Consoles, stream[c].up, stream[c].at # i
      PROVE  h \in cut'[c] \/ \E n \in ToSet(wire'[stream[c].at]) : n.change = h
  <2>1. CASE PublishFails(i)
    BY <1>7, <2>1 DEF PublishFails, Cuts
  <2>2. CASE RedisPublish(i)
    <3>1. CASE link[stream[c].at] # "up"
      BY <1>7, <2>2, <3>1 DEF RedisPublish, Cuts, Severed
    <3>2. CASE link[stream[c].at] = "up"
      <4>1. stream[c].at \in Processes
        BY <1>7 DEF Told, EventsAreTold
      <4>2. m \in WireRecords /\ m.change = h
        BY <1>3 DEF WireRecords
      <4>3. wire'[stream[c].at] = Append(wire[stream[c].at], m)
        BY <2>2, <3>2, <4>1 DEF RedisPublish, Fanned
      <4>4. wire[stream[c].at] \in Seq(WireRecords)
        BY <1>2, <4>1
      <4> HIDE DEF m
      <4>5. m \in ToSet(wire'[stream[c].at])
        BY <4>2, <4>3, <4>4, AppendElements
      <4> QED BY <4>2, <4>5
    <3> QED BY <3>1, <3>2
  <2> QED BY <2>1, <2>2
<1> HIDE DEF h, m
<1>8. ASSUME NEW c \in Consoles, NEW y \in ToSet(published) PROVE Reached(c, y)'
  <2>1. Reached(c, y) /\ y \in Changes
    BY PublishedFact DEF ReachInv
  <2>2. change[y].at \in Processes
    BY <2>1 DEF Told, HubTypes, ChangeRecords
  <2>3. CASE y \in known[c] \cup cut[c] \/ y \in cut'[c]
    BY <1>1, <1>6, <2>3 DEF Reached
  <2>4. CASE OnItsWay(c, y) /\ ~(change[y].at # stream[c].at /\ y \in ToSet(chain[change[y].at]))
    <3>1. y \in ToSet(stream[c].frames) \/ (change[y].at # stream[c].at /\ \E n \in ToSet(wire[stream[c].at]) : n.change = y)
      BY <2>4 DEF OnItsWay
    <3>2. stream[c].at \in Processes
      BY <2>4 DEF OnItsWay, Told, EventsAreTold
    <3> QED BY <1>1, <1>5, <2>4, <3>1, <3>2 DEF Reached, OnItsWay
  <2>5. CASE OnItsWay(c, y) /\ change[y].at # stream[c].at /\ y \in ToSet(chain[change[y].at]) /\ y \notin cut'[c]
    <3>1. CASE y \in ToSet(chain'[change[y].at])
      BY <1>1, <2>5, <3>1 DEF Reached, OnItsWay
    <3>2. CASE y = h
      BY <1>1, <1>3, <1>7, <2>5, <3>2 DEF Reached, OnItsWay
    <3> QED BY <1>4, <2>2, <2>5, <3>1, <3>2
  <2> QED BY <2>1, <2>3, <2>4, <2>5 DEF Reached
<1> QED BY <1>1, <1>8 DEF ReachInv

(* A message is delivered to the streams of its server, or is lost there.  *)
LEMMA WireReaches ==
    ASSUME Told, ReachInv, NEW j \in Processes, HandleRedisMessage(j) \/ SubscriberLoses(j) PROVE ReachInv'
<1> DEFINE m == Head(wire[j])
<1>1. wire[j] # <<>> /\ wire' = [wire EXCEPT ![j] = Tail(wire[j])] /\ UNCHANGED <<change, chain, published, known>>
  BY DEF HandleRedisMessage, SubscriberLoses
<1>2. wire \in [Processes -> Seq(WireRecords)]
  BY DEF Told, HubTypes
<1>3. /\ ToSet(wire[j]) = {m} \cup ToSet(Tail(wire[j])) /\ m \in WireRecords
      /\ m.origin = change[m.change].at
  BY <1>1, <1>2, TailElements DEF Told, EventsAreTold
<1>4. \A k \in Processes : ToSet(wire[k]) \subseteq ToSet(wire'[k]) \cup {m}
      /\ (k # j => ToSet(wire[k]) \subseteq ToSet(wire'[k]))
  BY <1>1, <1>2, <1>3
<1>5. m.change \in Changes
  BY <1>3 DEF WireRecords
<1>6. ASSUME NEW c \in Consoles
      PROVE  /\ cut[c] \subseteq cut'[c]
             /\ stream'[c].up = stream[c].up /\ stream'[c].at = stream[c].at /\ stream'[c].staff = stream[c].staff
             /\ ToSet(stream[c].frames) \subseteq ToSet(stream'[c].frames)
             /\ Listens(c, j) /\ m.origin # j => m.change \in ToSet(stream'[c].frames) \cup cut'[c]
  <2>0. stream[c].frames \in Seq(Changes)
    BY DEF Told, HubTypes, StreamRecords
  <2>1. ToSet(Append(stream[c].frames, m.change)) = ToSet(stream[c].frames) \cup {m.change}
    BY <1>5, <2>0, AppendElements
  <2>2. CASE SubscriberLoses(j)
    BY <2>2 DEF SubscriberLoses, Cuts, Listens
  <2>3. CASE HandleRedisMessage(j) /\ m.origin = j
    BY <2>3 DEF HandleRedisMessage
  <2>4. CASE HandleRedisMessage(j) /\ m.origin # j
    <3>1. DeliverLocal(j, m.change) /\ UNCHANGED cut
      BY <2>4 DEF HandleRedisMessage
    <3> HIDE DEF m
    <3>2. /\ stream'[c].up = stream[c].up /\ stream'[c].at = stream[c].at /\ stream'[c].staff = stream[c].staff
          /\ Listens(c, j) => stream'[c].frames = Append(stream[c].frames, m.change)
          /\ ~Listens(c, j) => stream'[c].frames = stream[c].frames
      BY <1>5, <3>1, DeliverFact DEF Told
    <3> QED BY <2>1, <3>1, <3>2
  <2> QED BY <2>2, <2>3, <2>4
<1> HIDE DEF m
<1>7. ASSUME NEW c \in Consoles, NEW y \in ToSet(published) PROVE Reached(c, y)'
  <2>1. Reached(c, y)
    BY DEF ReachInv
  <2>2. CASE y \in known[c] \cup cut[c] \/ y \in cut'[c]
    BY <1>1, <1>6, <2>2 DEF Reached
  <2>3. CASE OnItsWay(c, y) /\ (y \in ToSet(stream[c].frames) \/ (change[y].at # stream[c].at /\ y \in ToSet(chain[change[y].at])))
    BY <1>1, <1>6, <2>3 DEF Reached, OnItsWay
  <2>4. CASE OnItsWay(c, y) /\ y \notin cut'[c] /\ change[y].at # stream[c].at
             /\ \E n \in ToSet(wire[stream[c].at]) : n.change = y
    <3>0. stream[c].at \in Processes
      BY <2>4 DEF OnItsWay, Told, EventsAreTold
    <3>1. PICK n \in ToSet(wire[stream[c].at]) : n.change = y
      BY <2>4
    <3>2. CASE n \in ToSet(wire'[stream[c].at])
      BY <1>1, <1>6, <2>4, <3>1, <3>2 DEF Reached, OnItsWay
    <3>3. CASE n = m /\ stream[c].at = j
      <4>1. Listens(c, j) /\ m.origin # j /\ m.change = y
        BY <1>3, <2>4, <3>1, <3>3 DEF Listens, OnItsWay
      <4>2. y \in ToSet(stream'[c].frames)
        BY <1>6, <2>4, <4>1
      <4> QED BY <1>6, <2>4, <4>2 DEF Reached, OnItsWay
    <3> QED BY <1>4, <3>0, <3>1, <3>2, <3>3
  <2> QED BY <2>1, <2>2, <2>3, <2>4 DEF Reached, OnItsWay
<1> QED BY <1>1, <1>7 DEF ReachInv

(* Nothing is on the move but what one console hears, and what it has      *)
(* lost is written down.                                                   *)
LEMMA StreamReaches ==
    ASSUME Told, ReachInv, NEW c \in Consoles, UNCHANGED <<chain, wire, published>>,
           \A y \in Changes : change'[y].at = change[y].at,
           \A d \in Consoles : known[d] \subseteq known'[d] /\ cut[d] \subseteq cut'[d],
           \A d \in Consoles \ {c} : stream'[d] = stream[d],
           \/ CutsOff(c)
           \/ /\ stream'[c].up = stream[c].up /\ stream'[c].at = stream[c].at /\ stream'[c].staff = stream[c].staff
              /\ ToSet(stream[c].frames) \subseteq ToSet(stream'[c].frames) \cup known'[c]
    PROVE  ReachInv'
<1>1. ASSUME NEW d \in Consoles, NEW y \in ToSet(published) PROVE Reached(d, y)'
  <2>1. Reached(d, y) /\ y \in Changes
    BY PublishedFact DEF ReachInv
  <2>2. CASE CutsOff(c) /\ d = c
    <3>1. cut'[c] = cut[c] \cup (ToSet(published) \ known[c])
      BY <2>2 DEF CutsOff, Told, HubTypes
    <3> QED BY <2>2, <3>1 DEF Reached
  <2>3. CASE y \in known[d] \cup cut[d]
    BY <2>3 DEF Reached
  <2>4. CASE OnItsWay(d, y) /\ d # c
    BY <2>1, <2>4 DEF Reached, OnItsWay
  <2>5. CASE OnItsWay(d, y) /\ d = c /\ ~CutsOff(c)
    BY <2>1, <2>5 DEF Reached, OnItsWay
  <2> QED BY <2>1, <2>2, <2>3, <2>4, <2>5 DEF Reached
<1> QED BY <1>1 DEF ReachInv

(* A relation may grow.                                                    *)
LEMMA SortedMore == ASSUME NEW s, NEW R, NEW Q, Sorted(s, R), R \subseteq Q PROVE Sorted(s, Q)
BY DEF Sorted

LEMMA AheadMore == ASSUME NEW s, NEW t, NEW R, NEW Q, Ahead(s, t, R), R \subseteq Q PROVE Ahead(s, t, Q)
BY DEF Ahead

(* What was heard and what will be: a frame moves from one to the other.   *)
LEMMA JoinFact ==
    ASSUME NEW S, NEW h \in Seq(S), NEW f \in Seq(S)
    PROVE  /\ h \o f \in Seq(S) /\ ToSet(h \o f) = ToSet(h) \cup ToSet(f)
           /\ \A k \in DOMAIN h : k \in DOMAIN (h \o f) /\ (h \o f)[k] = h[k]
<1>1. /\ DOMAIN h = 1..Len(h) /\ DOMAIN f = 1..Len(f) /\ Len(h) \in Nat /\ Len(f) \in Nat
      /\ h \o f \in Seq(S) /\ DOMAIN (h \o f) = 1..(Len(h) + Len(f))
      /\ \A k \in 1..(Len(h) + Len(f)) : (h \o f)[k] = IF k <= Len(h) THEN h[k] ELSE f[k - Len(h)]
  OBVIOUS
<1>2. \A k \in DOMAIN h : k \in DOMAIN (h \o f) /\ (h \o f)[k] = h[k]
  BY <1>1
<1>3. \A k \in DOMAIN f : k + Len(h) \in DOMAIN (h \o f) /\ (h \o f)[k + Len(h)] = f[k]
  BY <1>1
<1>4. \A k \in DOMAIN (h \o f) : (k \in DOMAIN h /\ (h \o f)[k] = h[k]) \/ (k - Len(h) \in DOMAIN f /\ (h \o f)[k] = f[k - Len(h)])
  BY <1>1
<1>5. ToSet(h) \cup ToSet(f) \subseteq ToSet(h \o f)
  BY <1>2, <1>3 DEF ToSet
<1>6. ToSet(h \o f) \subseteq ToSet(h) \cup ToSet(f)
  BY <1>4 DEF ToSet
<1> QED BY <1>1, <1>2, <1>5, <1>6

LEMMA JoinAppend ==
    ASSUME NEW S, NEW h \in Seq(S), NEW f \in Seq(S), NEW x \in S PROVE h \o Append(f, x) = Append(h \o f, x)
<1>1. Len(h) \in Nat /\ Len(f) \in Nat
  OBVIOUS
<1>2. Len(h \o Append(f, x)) = Len(Append(h \o f, x)) /\ h \o Append(f, x) \in Seq(S) /\ Append(h \o f, x) \in Seq(S)
  OBVIOUS
<1>3. ASSUME NEW k \in 1..Len(h \o Append(f, x)) PROVE (h \o Append(f, x))[k] = Append(h \o f, x)[k]
  <2>1. CASE k <= Len(h)
    BY <1>1, <1>3, <2>1
  <2>2. CASE k > Len(h) /\ k <= Len(h) + Len(f)
    BY <1>1, <1>3, <2>2
  <2>3. CASE k = Len(h) + Len(f) + 1
    BY <1>1, <1>3, <2>3
  <2> QED BY <1>1, <1>3, <2>1, <2>2, <2>3
<1> QED BY <1>2, <1>3, SeqEqual

LEMMA JoinMoves ==
    ASSUME NEW S, NEW h \in Seq(S), NEW f \in Seq(S), f # <<>> PROVE Append(h, Head(f)) \o Tail(f) = h \o f
<1>1. Len(h) \in Nat /\ Len(f) \in Nat \ {0}
  OBVIOUS
<1>2. Len(Append(h, Head(f)) \o Tail(f)) = Len(h \o f) /\ Append(h, Head(f)) \o Tail(f) \in Seq(S) /\ h \o f \in Seq(S)
  OBVIOUS
<1>3. ASSUME NEW k \in 1..Len(h \o f) PROVE (Append(h, Head(f)) \o Tail(f))[k] = (h \o f)[k]
  <2>1. CASE k <= Len(h)
    BY <1>1, <1>3, <2>1
  <2>2. CASE k = Len(h) + 1
    BY <1>1, <1>3, <2>2
  <2>3. CASE k > Len(h) + 1
    BY <1>1, <1>3, <2>3
  <2> QED BY <1>1, <1>3, <2>1, <2>2, <2>3
<1> QED BY <1>2, <1>3, SeqEqual

(* The changes the messages on a wire tell of.                             *)
Carried(w) == [k \in DOMAIN w |-> w[k].change]

(* They follow the messages.                                               *)
LEMMA CarriedTypes == ASSUME NEW w \in Seq(WireRecords) PROVE Carried(w) \in Seq(Changes) /\ Len(Carried(w)) = Len(w)
<1>1. DOMAIN w = 1..Len(w) /\ Len(w) \in Nat /\ \A k \in DOMAIN w : w[k].change \in Changes
  <2>1. DOMAIN w = 1..Len(w) /\ Len(w) \in Nat /\ \A k \in DOMAIN w : w[k] \in WireRecords
    OBVIOUS
  <2>2. \A m \in WireRecords : m.change \in Changes
    BY DEF WireRecords
  <2> QED BY <2>1, <2>2
<1> QED BY <1>1 DEF Carried

LEMMA CarriedAppend ==
    ASSUME NEW w \in Seq(WireRecords), NEW m \in WireRecords PROVE Carried(Append(w, m)) = Append(Carried(w), m.change)
<1>1. DOMAIN w = 1..Len(w) /\ Len(w) \in Nat /\ DOMAIN Append(w, m) = 1..(Len(w) + 1)
      /\ (\A k \in DOMAIN w : Append(w, m)[k] = w[k]) /\ Append(w, m)[Len(w) + 1] = m /\ m.change \in Changes
  BY DEF WireRecords
<1>2. Carried(w) \in Seq(Changes) /\ Len(Carried(w)) = Len(w)
  BY CarriedTypes
<1>3. Append(w, m) \in Seq(WireRecords) /\ Len(Append(w, m)) = Len(w) + 1
  OBVIOUS
<1>4. Carried(Append(w, m)) \in Seq(Changes) /\ Len(Carried(Append(w, m))) = Len(w) + 1
  <2> DEFINE v == Append(w, m)
  <2>1. v \in Seq(WireRecords) /\ Len(v) = Len(w) + 1
    BY <1>3
  <2> HIDE DEF v
  <2>2. Carried(v) \in Seq(Changes) /\ Len(Carried(v)) = Len(w) + 1
    BY <2>1, CarriedTypes
  <2> QED BY <2>2 DEF v
<1>5. /\ Append(Carried(w), m.change) \in Seq(Changes) /\ Len(Append(Carried(w), m.change)) = Len(w) + 1
      /\ \A k \in 1..Len(w) : Append(Carried(w), m.change)[k] = Carried(w)[k]
      /\ Append(Carried(w), m.change)[Len(w) + 1] = m.change
  BY <1>1, <1>2
<1>6. ASSUME NEW k \in 1..(Len(w) + 1) PROVE Carried(Append(w, m))[k] = Append(Carried(w), m.change)[k]
  <2>1. CASE k \in 1..Len(w)
    BY <1>1, <1>5, <2>1 DEF Carried
  <2>2. CASE k = Len(w) + 1
    BY <1>1, <1>5, <2>2 DEF Carried
  <2>3. k \in 1..Len(w) \/ k = Len(w) + 1
    <3>1. PICK n \in Nat : n = Len(w)
      BY <1>1
    <3> QED BY <1>6, <3>1
  <2> QED BY <2>1, <2>2, <2>3
<1> QED BY <1>4, <1>5, <1>6, SeqEqual

LEMMA CarriedTail ==
    ASSUME NEW w \in Seq(WireRecords), w # <<>>
    PROVE  Carried(w) # <<>> /\ Head(Carried(w)) = Head(w).change /\ Carried(Tail(w)) = Tail(Carried(w))
<1>1. DOMAIN w = 1..Len(w) /\ Len(w) \in Nat \ {0} /\ DOMAIN Tail(w) = 1..(Len(w) - 1) /\ Len(Tail(w)) = Len(w) - 1
      /\ (\A k \in DOMAIN Tail(w) : Tail(w)[k] = w[k + 1]) /\ Head(w) = w[1] /\ Tail(w) \in Seq(WireRecords)
  OBVIOUS
<1>2. Carried(w) \in Seq(Changes) /\ Len(Carried(w)) = Len(w)
  BY CarriedTypes
<1>3. Carried(Tail(w)) \in Seq(Changes) /\ Len(Carried(Tail(w))) = Len(w) - 1
  BY <1>1, CarriedTypes
<1>4. /\ Carried(w) # <<>> /\ Head(Carried(w)) = Carried(w)[1] /\ Tail(Carried(w)) \in Seq(Changes)
      /\ Len(Tail(Carried(w))) = Len(w) - 1 /\ \A k \in 1..(Len(w) - 1) : Tail(Carried(w))[k] = Carried(w)[k + 1]
  BY <1>1, <1>2
<1>5. ASSUME NEW k \in 1..(Len(w) - 1) PROVE Carried(Tail(w))[k] = Tail(Carried(w))[k]
  <2>1. k \in DOMAIN Tail(w) /\ k + 1 \in DOMAIN w
    BY <1>1
  <2> QED BY <1>1, <1>4, <2>1 DEF Carried
<1>6. Head(Carried(w)) = Head(w).change
  BY <1>1, <1>4 DEF Carried
<1> QED BY <1>3, <1>4, <1>5, <1>6, SeqEqual

(* The pairs of changes that are told in the order they were published,    *)
(* for those of one server; and for those of one server other than j.      *)
Before(x, y) == \E k, l \in DOMAIN published : k < l /\ published[k] = x /\ published[l] = y
Ordered == {p \in Changes \X Changes : change[p[1]].at = change[p[2]].at => Before(p[1], p[2])}
Foreign(j) ==
    {p \in Changes \X Changes : change[p[1]].at = change[p[2]].at /\ change[p[1]].at # j => Before(p[1], p[2])}

(* What a stream has heard, and then what is among its frames.             *)
Got(c) == stream[c].heard \o stream[c].frames

(* What a stream got, the wire of its server, and the chains: each in      *)
(* order, and one ahead of the next.  What a server made itself its        *)
(* streams have before it is on the wire.                                  *)
OrderInv ==
    /\ \A i \in Processes : Sorted(chain[i], Ordered)
    /\ \A j \in Processes : Sorted(Carried(wire[j]), Ordered)
    /\ \A i, j \in Processes : Ahead(Carried(wire[j]), chain[i], Ordered)
    /\ \A c \in Consoles : Sorted(Got(c), Ordered)
    /\ \A c \in Consoles, j \in Processes : stream[c].up /\ stream[c].at = j =>
          /\ Ahead(Got(c), Carried(wire[j]), Foreign(j))
          /\ \A i \in Processes : Ahead(Got(c), chain[i], Foreign(j))

(* What the two relations say of a pair.                                   *)
LEMMA PairFact ==
    ASSUME NEW x \in Changes, NEW y \in Changes
    PROVE  /\ <<x, y>> \in Ordered <=> (change[x].at = change[y].at => Before(x, y))
           /\ \A j : <<x, y>> \in Foreign(j) <=> (change[x].at = change[y].at /\ change[x].at # j => Before(x, y))
           /\ \A j : <<x, y>> \in Ordered => <<x, y>> \in Foreign(j)
BY DEF Ordered, Foreign

LEMMA ForeignMore == ASSUME NEW j PROVE Ordered \subseteq Foreign(j)
BY DEF Ordered, Foreign

LEMMA GotTypes ==
    ASSUME Told, NEW c \in Consoles
    PROVE  /\ stream[c].heard \in Seq(Changes) /\ stream[c].frames \in Seq(Changes) /\ Got(c) \in Seq(Changes)
           /\ ToSet(Got(c)) \subseteq ToSet(published)
<1>1. stream[c].heard \in Seq(Changes) /\ stream[c].frames \in Seq(Changes)
  BY DEF Told, HubTypes, StreamRecords
<1>2. ToSet(stream[c].heard) \cup ToSet(stream[c].frames) \subseteq ToSet(published)
  BY DEF Told, EventsAreTold
<1> QED BY <1>1, <1>2, JoinFact DEF Got

(* What was published in an order stays published in that order.           *)
LEMMA PairsStay ==
    ASSUME Told, published' = published \/ (\E x \in Changes : published' = Append(published, x)),
           \A y \in Changes : change'[y].at = change[y].at
    PROVE  Ordered \subseteq Ordered' /\ \A j : Foreign(j) \subseteq Foreign(j)'
<1>1. \A k \in DOMAIN published : k \in DOMAIN published' /\ published'[k] = published[k]
  <2>1. CASE published' = published
    BY <2>1
  <2>2. CASE \E x \in Changes : published' = Append(published, x)
    <3>1. PICK x \in Changes : published' = Append(published, x)
      BY <2>2
    <3>2. published \in Seq(Changes)
      BY DEF Told, HubTypes
    <3>3. /\ DOMAIN published = 1..Len(published) /\ Len(published) \in Nat
          /\ DOMAIN published' = 1..(Len(published) + 1) /\ \A k \in DOMAIN published : published'[k] = published[k]
      BY <3>1, <3>2
    <3> QED BY <3>3
  <2> QED BY <2>1, <2>2
<1>2. \A x, y \in Changes : Before(x, y) => Before(x, y)'
  <2> SUFFICES ASSUME NEW x \in Changes, NEW y \in Changes, Before(x, y) PROVE Before(x, y)'
    OBVIOUS
  <2>1. PICK k, l \in DOMAIN published : k < l /\ published[k] = x /\ published[l] = y
    BY DEF Before
  <2> QED BY <1>1, <2>1 DEF Before
<1> QED BY <1>2 DEF Ordered, Foreign

(* Nothing is told: what a stream got it keeps or, with its connection,    *)
(* forgets.                                                                *)
LEMMA OrderKept ==
    ASSUME Told, OrderInv, UNCHANGED <<chain, wire, published>>,
           \A y \in Changes : change'[y].at = change[y].at,
           \A c \in Consoles : \/ Got(c)' = <<>>
                               \/ /\ Got(c)' = Got(c) /\ stream'[c].at = stream[c].at
                                  /\ stream'[c].up => stream[c].up
    PROVE  OrderInv'
<1>1. Ordered \subseteq Ordered' /\ \A j : Foreign(j) \subseteq Foreign(j)'
  BY PairsStay
<1>2. \A i \in Processes : Sorted(chain'[i], Ordered') /\ Sorted(Carried(wire'[i]), Ordered')
  BY <1>1, SortedMore DEF OrderInv
<1>3. \A i, j \in Processes : Ahead(Carried(wire'[j]), chain'[i], Ordered')
  BY <1>1, AheadMore DEF OrderInv
<1>4. ASSUME NEW c \in Consoles PROVE Sorted(Got(c)', Ordered')
  <2>1. CASE Got(c)' = <<>>
    BY <2>1 DEF Sorted
  <2>2. CASE Got(c)' = Got(c)
    BY <1>1, <2>2, SortedMore DEF OrderInv
  <2> QED BY <2>1, <2>2
<1>5. ASSUME NEW c \in Consoles, NEW j \in Processes, stream'[c].up, stream'[c].at = j
      PROVE  /\ Ahead(Got(c)', Carried(wire'[j]), Foreign(j)')
             /\ \A i \in Processes : Ahead(Got(c)', chain'[i], Foreign(j)')
  <2>1. CASE Got(c)' = <<>>
    BY <2>1 DEF Ahead
  <2>2. CASE Got(c)' = Got(c) /\ stream[c].at = j /\ stream[c].up
    <3>1. Ahead(Got(c), Carried(wire[j]), Foreign(j)) /\ \A i \in Processes : Ahead(Got(c), chain[i], Foreign(j))
      BY <2>2 DEF OrderInv
    <3> QED BY <1>1, <2>2, <3>1, AheadMore
  <2> QED BY <1>5, <2>1, <2>2
<1>6. /\ \A i \in Processes : Sorted(chain'[i], Ordered')
      /\ \A j \in Processes : Sorted(Carried(wire'[j]), Ordered')
  BY <1>2
<1> QED BY <1>3, <1>4, <1>5, <1>6 DEF OrderInv

(* A delivery adds one event to what the streams of the server got.        *)
LEMMA DeliverGot ==
    ASSUME Told, NEW i \in Processes, NEW x \in Changes, DeliverLocal(i, x), NEW c \in Consoles
    PROVE  /\ stream'[c].up = stream[c].up /\ stream'[c].at = stream[c].at
           /\ Listens(c, i) => Got(c)' = Append(Got(c), x)
           /\ ~Listens(c, i) => Got(c)' = Got(c)
<1>1. /\ stream'[c].up = stream[c].up /\ stream'[c].at = stream[c].at /\ stream'[c].heard = stream[c].heard
      /\ Listens(c, i) => stream'[c].frames = Append(stream[c].frames, x)
      /\ ~Listens(c, i) => stream'[c].frames = stream[c].frames
  BY DeliverFact DEF Told
<1>2. stream[c].heard \o Append(stream[c].frames, x) = Append(stream[c].heard \o stream[c].frames, x)
  <2>1. PICK h \in Seq(Changes), f \in Seq(Changes) : h = stream[c].heard /\ f = stream[c].frames
    BY GotTypes
  <2>2. h \o Append(f, x) = Append(h \o f, x)
    BY JoinAppend
  <2> QED BY <2>1, <2>2
<1> QED BY <1>1, <1>2 DEF Got

(* The messages on a wire and the events in a chain were published, and    *)
(* are changes.                                                            *)
LEMMA CarriedFact ==
    ASSUME Told, NEW j \in Processes
    PROVE  /\ Carried(wire[j]) \in Seq(Changes) /\ wire[j] \in Seq(WireRecords)
           /\ chain[j] \in Seq(Changes)
           /\ \A k \in DOMAIN Carried(wire[j]) : Carried(wire[j])[k] \in ToSet(published)
           /\ \A k \in DOMAIN chain[j] : chain[j][k] \in ToSet(published) /\ change[chain[j][k]].at = j
<1>1. wire[j] \in Seq(WireRecords) /\ chain[j] \in Seq(Changes)
  BY DEF Told, HubTypes
<1>2. \A k \in DOMAIN wire[j] : wire[j][k].change \in ToSet(published)
  BY DEF ToSet, Told, EventsAreTold
<1>3. \A k \in DOMAIN chain[j] : chain[j][k] \in ToSet(published) /\ change[chain[j][k]].at = j
  BY DEF ToSet, Told, EventsAreTold
<1>4. \A k \in DOMAIN Carried(wire[j]) : Carried(wire[j])[k] \in ToSet(published)
  BY <1>2 DEF Carried
<1> QED BY <1>1, <1>3, <1>4, CarriedTypes

(* What is published now comes after all that was published.               *)
LEMMA PublishOrdered ==
    ASSUME Told, OrderInv, NEW i \in Processes, NEW x \in Changes, change[x].at = i, Publish(i, x),
           \A y \in Changes : change'[y].at = change[y].at
    PROVE  OrderInv'
<1>1. /\ published' = Append(published, x) /\ chain' = [chain EXCEPT ![i] = Append(chain[i], x)]
      /\ wire' = wire /\ DeliverLocal(i, x)
  BY DEF Publish
<1>2. Ordered \subseteq Ordered' /\ \A j : Foreign(j) \subseteq Foreign(j)'
  BY <1>1, PairsStay
<1>3. \A y \in ToSet(published) : <<y, x>> \in Ordered' /\ \A j : <<y, x>> \in Foreign(j)'
  <2> SUFFICES ASSUME NEW y \in ToSet(published) PROVE <<y, x>> \in Ordered' /\ \A j : <<y, x>> \in Foreign(j)'
    OBVIOUS
  <2>1. y \in Changes
    BY PublishedFact
  <2>2. PICK k \in DOMAIN published : published[k] = y
    BY DEF ToSet
  <2>3. published \in Seq(Changes)
    BY DEF Told, HubTypes
  <2>4. /\ k \in DOMAIN published' /\ published'[k] = y /\ Len(published) + 1 \in DOMAIN published'
        /\ published'[Len(published) + 1] = x /\ k < Len(published) + 1
    BY <1>1, <2>2, <2>3
  <2>5. Before(y, x)'
    BY <2>4 DEF Before
  <2> QED BY <2>1, <2>5 DEF Ordered, Foreign
<1>4. chain'[i] = Append(chain[i], x) /\ \A k \in Processes : k # i => chain'[k] = chain[k]
  BY <1>1 DEF Told, HubTypes
<1>5. ASSUME NEW k \in Processes PROVE Sorted(chain'[k], Ordered')
  <2>1. Sorted(chain[k], Ordered') /\ chain[k] \in Seq(Changes)
    BY <1>2, SortedMore, CarriedFact DEF OrderInv
  <2>2. \A l \in DOMAIN chain[k] : <<chain[k][l], x>> \in Ordered'
    BY <1>3, CarriedFact
  <2>3. Sorted(Append(chain[k], x), Ordered')
    BY <2>1, <2>2, SortedAppend
  <2> QED BY <1>4, <2>1, <2>3
<1>6. ASSUME NEW j \in Processes PROVE Sorted(Carried(wire'[j]), Ordered')
  BY <1>1, <1>2, SortedMore DEF OrderInv
<1>7. ASSUME NEW k \in Processes, NEW j \in Processes PROVE Ahead(Carried(wire'[j]), chain'[k], Ordered')
  <2>1. Ahead(Carried(wire[j]), chain[k], Ordered') /\ chain[k] \in Seq(Changes)
    BY <1>2, AheadMore, CarriedFact DEF OrderInv
  <2>2. \A l \in DOMAIN Carried(wire[j]) : <<Carried(wire[j])[l], x>> \in Ordered'
    BY <1>3, CarriedFact
  <2>3. Ahead(Carried(wire[j]), Append(chain[k], x), Ordered')
    BY <2>1, <2>2, AheadAppendRight
  <2> QED BY <1>1, <1>4, <2>1, <2>3
<1>8. ASSUME NEW c \in Consoles
      PROVE  /\ stream'[c].up = stream[c].up /\ stream'[c].at = stream[c].at
             /\ Listens(c, i) => Got(c)' = Append(Got(c), x)
             /\ ~Listens(c, i) => Got(c)' = Got(c)
  BY <1>1, DeliverGot
<1>9. ASSUME NEW c \in Consoles
      PROVE  Got(c) \in Seq(Changes) /\ \A k \in DOMAIN Got(c) : Got(c)[k] \in ToSet(published)
  BY GotTypes DEF ToSet
<1>10. ASSUME NEW c \in Consoles PROVE Sorted(Got(c)', Ordered')
  <2>1. Sorted(Got(c), Ordered')
    BY <1>2, SortedMore DEF OrderInv
  <2>2. \A k \in DOMAIN Got(c) : <<Got(c)[k], x>> \in Ordered'
    BY <1>3, <1>9
  <2>3. Sorted(Append(Got(c), x), Ordered')
    BY <1>9, <2>1, <2>2, SortedAppend
  <2> QED BY <1>8, <2>1, <2>3
<1>11. ASSUME NEW c \in Consoles, NEW j \in Processes, stream'[c].up, stream'[c].at = j
       PROVE  /\ Ahead(Got(c)', Carried(wire'[j]), Foreign(j)')
              /\ \A k \in Processes : Ahead(Got(c)', chain'[k], Foreign(j)')
  <2>1. Ahead(Got(c), Carried(wire[j]), Foreign(j)) /\ \A k \in Processes : Ahead(Got(c), chain[k], Foreign(j))
    BY <1>8, <1>11 DEF OrderInv
  <2>2. Ahead(Got(c), Carried(wire[j]), Foreign(j)') /\ \A k \in Processes : Ahead(Got(c), chain[k], Foreign(j)')
    BY <1>2, <2>1, AheadMore
  <2>3. \A l \in DOMAIN Got(c) : <<Got(c)[l], x>> \in Foreign(j)'
    BY <1>3, <1>9
  <2>4. \A k \in Processes : Ahead(Got(c), chain'[k], Foreign(j)')
    <3> SUFFICES ASSUME NEW k \in Processes PROVE Ahead(Got(c), chain'[k], Foreign(j)')
      OBVIOUS
    <3>1. chain[k] \in Seq(Changes) /\ Ahead(Got(c), chain[k], Foreign(j)')
      BY <2>2, CarriedFact
    <3>2. Ahead(Got(c), Append(chain[k], x), Foreign(j)')
      BY <2>3, <3>1, AheadAppendRight
    <3> QED BY <1>4, <3>1, <3>2
  <2>5. CASE ~Listens(c, i)
    BY <1>1, <1>8, <2>2, <2>4, <2>5
  <2>6. CASE Listens(c, i)
    <3>1. j = i
      BY <1>8, <1>11, <2>6 DEF Listens
    <3>2. \A y \in Changes : <<x, y>> \in Foreign(j)'
      <4> SUFFICES ASSUME NEW y \in Changes PROVE <<x, y>> \in Foreign(j)'
        OBVIOUS
      <4>1. change'[x].at = j
        BY <3>1
      <4> QED BY <4>1 DEF Foreign
    <3>3. \A l \in DOMAIN Carried(wire[j]) : <<x, Carried(wire[j])[l]>> \in Foreign(j)'
      BY <3>2, CarriedFact, PublishedFact
    <3>4. Ahead(Append(Got(c), x), Carried(wire[j]), Foreign(j)')
      BY <1>9, <2>2, <3>3, AheadAppendLeft
    <3>5. ASSUME NEW k \in Processes PROVE Ahead(Append(Got(c), x), chain'[k], Foreign(j)')
      <4>1. \A l \in DOMAIN chain'[k] : chain'[k][l] \in Changes
        <5>1. chain[k] \in Seq(Changes)
          BY CarriedFact
        <5>2. chain'[k] \in Seq(Changes)
          BY <1>4, <5>1
        <5> QED BY <5>2
      <4>2. \A l \in DOMAIN chain'[k] : <<x, chain'[k][l]>> \in Foreign(j)'
        BY <3>2, <4>1
      <4> QED BY <1>9, <2>4, <4>2, AheadAppendLeft
    <3> QED BY <1>1, <1>8, <2>6, <3>4, <3>5
  <2> QED BY <2>5, <2>6
<1> QED BY <1>5, <1>6, <1>7, <1>10, <1>11 DEF OrderInv

(* Without a publish the relations stay.                                   *)
LEMMA SamePairs ==
    ASSUME UNCHANGED <<change, published>> PROVE Ordered' = Ordered /\ \A j : Foreign(j)' = Foreign(j)
BY DEF Ordered, Foreign, Before

(* The head of a chain is ahead of the rest, and goes to the end of wires. *)
LEMMA ChainOrdered ==
    ASSUME Told, OrderInv, NEW i \in Processes, RedisPublish(i) \/ PublishFails(i) PROVE OrderInv'
<1> DEFINE h == Head(chain[i])
           m == [origin |-> i, change |-> h]
<1>1. /\ chain[i] # <<>> /\ chain' = [chain EXCEPT ![i] = Tail(chain[i])] /\ UNCHANGED <<change, published, stream>>
  BY DEF RedisPublish, PublishFails
<1>2. chain[i] \in Seq(Changes) /\ chain \in [Processes -> Seq(Changes)]
  BY DEF Told, HubTypes
<1>3. h \in Changes /\ change[h].at = i
  BY <1>1, <1>2, TailElements DEF Told, EventsAreTold
<1>4. m \in WireRecords /\ m.change = h
  BY <1>3 DEF WireRecords
<1>5. ASSUME NEW j \in Processes
      PROVE  Carried(wire'[j]) = Carried(wire[j]) \/ Carried(wire'[j]) = Append(Carried(wire[j]), h)
  <2>1. CASE PublishFails(i)
    BY <2>1 DEF PublishFails
  <2>2. CASE RedisPublish(i)
    <3>1. wire'[j] = wire[j] \/ wire'[j] = Append(wire[j], m)
      BY <2>2 DEF RedisPublish, Fanned
    <3>2. wire[j] \in Seq(WireRecords)
      BY CarriedFact
    <3> HIDE DEF m
    <3>3. Carried(Append(wire[j], m)) = Append(Carried(wire[j]), h)
      BY <1>4, <3>2, CarriedAppend
    <3> QED BY <3>1, <3>3
  <2> QED BY <2>1, <2>2
<1>6. chain'[i] = Tail(chain[i]) /\ \A k \in Processes : k # i => chain'[k] = chain[k]
  BY <1>1, <1>2
<1>7. Ordered' = Ordered /\ (\A j : Foreign(j)' = Foreign(j)) /\ \A c \in Consoles : Got(c)' = Got(c)
  BY <1>1, SamePairs DEF Got
<1>8. Sorted(chain[i], Ordered) /\ \A l \in DOMAIN Tail(chain[i]) : <<h, Tail(chain[i])[l]>> \in Ordered
  BY <1>1, <1>2, HeadAhead DEF OrderInv
<1>9. ASSUME NEW k \in Processes PROVE Sorted(chain'[k], Ordered)
  <2>1. Sorted(Tail(chain[i]), Ordered)
    BY <1>1, <1>2, <1>8, SortedTail
  <2> QED BY <1>6, <2>1 DEF OrderInv
<1>10. ASSUME NEW s \in Seq(Changes), NEW R, NEW k \in Processes, Ahead(s, chain[k], R) PROVE Ahead(s, chain'[k], R)
  <2>1. CASE k = i
    BY <1>1, <1>2, <1>6, <1>10, <2>1, AheadTailRight
  <2>2. CASE k # i
    BY <1>6, <1>10, <2>2
  <2> QED BY <2>1, <2>2
<1>11. ASSUME NEW s \in Seq(Changes), NEW R, Ahead(s, chain[i], R) PROVE \A k \in DOMAIN s : <<s[k], h>> \in R
  BY <1>1, <1>2, <1>11, AheadTailRight
<1>12. ASSUME NEW k \in Processes PROVE \A l \in DOMAIN chain'[k] : <<h, chain'[k][l]>> \in Ordered
  <2>1. CASE k = i
    BY <1>6, <1>8, <2>1
  <2>2. CASE k # i
    <3> SUFFICES ASSUME NEW l \in DOMAIN chain[k] PROVE <<h, chain[k][l]>> \in Ordered
      BY <1>6, <2>2
    <3>1. change[chain[k][l]].at = k /\ chain[k][l] \in Changes
      BY CarriedFact, PublishedFact
    <3> QED BY <1>3, <2>2, <3>1, PairFact
  <2> QED BY <2>1, <2>2
<1> HIDE DEF h, m
<1>13. ASSUME NEW j \in Processes
       PROVE  /\ Sorted(Carried(wire'[j]), Ordered)
              /\ \A k \in Processes : Ahead(Carried(wire'[j]), chain'[k], Ordered)
  <2> DEFINE w == Carried(wire[j])
  <2>1. w \in Seq(Changes) /\ Sorted(w, Ordered) /\ \A k \in Processes : Ahead(w, chain[k], Ordered)
    BY CarriedFact DEF OrderInv
  <2>2. Carried(wire'[j]) = w \/ Carried(wire'[j]) = Append(w, h)
    BY <1>5
  <2> HIDE DEF w
  <2>3. \A k \in Processes : Ahead(w, chain'[k], Ordered)
    BY <1>10, <2>1
  <2>4. \A k \in DOMAIN w : <<w[k], h>> \in Ordered
    BY <1>11, <2>1
  <2>5. Sorted(Append(w, h), Ordered)
    BY <1>3, <2>1, <2>4, SortedAppend
  <2>6. \A k \in Processes : Ahead(Append(w, h), chain'[k], Ordered)
    BY <1>3, <1>12, <2>1, <2>3, AheadAppendLeft
  <2> QED BY <2>1, <2>2, <2>3, <2>5, <2>6
<1>14. ASSUME NEW c \in Consoles, NEW j \in Processes, stream[c].up, stream[c].at = j
       PROVE  /\ Ahead(Got(c), Carried(wire'[j]), Foreign(j))
              /\ \A k \in Processes : Ahead(Got(c), chain'[k], Foreign(j))
  <2> DEFINE g == Got(c)
             w == Carried(wire[j])
             Q == Foreign(j)
  <2>1. /\ g \in Seq(Changes) /\ w \in Seq(Changes)
        /\ Ahead(g, w, Q) /\ \A k \in Processes : Ahead(g, chain[k], Q)
    BY <1>14, CarriedFact, GotTypes DEF OrderInv
  <2>2. Carried(wire'[j]) = w \/ Carried(wire'[j]) = Append(w, h)
    BY <1>5
  <2> HIDE DEF g, w, Q
  <2>3. \A k \in Processes : Ahead(g, chain'[k], Q)
    BY <1>10, <2>1
  <2>4. \A k \in DOMAIN g : <<g[k], h>> \in Q
    BY <1>11, <2>1
  <2>5. Ahead(g, Append(w, h), Q)
    BY <1>3, <2>1, <2>4, AheadAppendRight
  <2> QED BY <2>1, <2>2, <2>3, <2>5 DEF g, Q
<1>15. \A c \in Consoles : Sorted(Got(c)', Ordered')
  BY <1>7 DEF OrderInv
<1> QED BY <1>1, <1>7, <1>9, <1>13, <1>14, <1>15 DEF OrderInv

(* The head of a wire is behind what its streams got, unless it is their own. *)
LEMMA WireOrdered ==
    ASSUME Told, OrderInv, NEW j \in Processes, HandleRedisMessage(j) \/ SubscriberLoses(j) PROVE OrderInv'
<1> DEFINE m == Head(wire[j])
           x == m.change
           w == Carried(wire[j])
<1>1. wire[j] # <<>> /\ wire' = [wire EXCEPT ![j] = Tail(wire[j])] /\ UNCHANGED <<change, chain, published>>
  BY DEF HandleRedisMessage, SubscriberLoses
<1>2. wire[j] \in Seq(WireRecords) /\ wire \in [Processes -> Seq(WireRecords)] /\ w \in Seq(Changes)
  BY CarriedFact DEF Told, HubTypes
<1>3. m \in WireRecords /\ m.origin = change[x].at
  BY <1>1, <1>2, TailElements DEF Told, EventsAreTold
<1>4. x \in Changes
  BY <1>3 DEF WireRecords
<1>5. w # <<>> /\ Head(w) = x /\ Carried(Tail(wire[j])) = Tail(w)
  BY <1>1, <1>2, CarriedTail
<1>6. Carried(wire'[j]) = Tail(w) /\ \A k \in Processes : k # j => Carried(wire'[k]) = Carried(wire[k])
  BY <1>1, <1>2, <1>5
<1>7. Ordered' = Ordered /\ \A k : Foreign(k)' = Foreign(k)
  BY <1>1, SamePairs
<1>8. ASSUME NEW c \in Consoles
      PROVE  /\ stream'[c].up = stream[c].up /\ stream'[c].at = stream[c].at
             /\ Got(c)' = Got(c) \/ (Got(c)' = Append(Got(c), x) /\ stream[c].at = j /\ stream[c].up /\ change[x].at # j)
  <2>1. CASE stream' = stream
    BY <2>1 DEF Got
  <2>2. CASE DeliverLocal(j, x) /\ m.origin # j
    <3> HIDE DEF x
    <3>1. /\ stream'[c].up = stream[c].up /\ stream'[c].at = stream[c].at
          /\ Listens(c, j) => Got(c)' = Append(Got(c), x)
          /\ ~Listens(c, j) => Got(c)' = Got(c)
      BY <1>4, <2>2, DeliverGot
    <3> QED BY <1>3, <2>2, <3>1 DEF Listens
  <2> QED BY <2>1, <2>2 DEF HandleRedisMessage, SubscriberLoses
<1>9. Sorted(w, Ordered) /\ \A k \in Processes : Ahead(w, chain[k], Ordered)
  BY DEF OrderInv
<1> HIDE DEF m, x, w
<1>10. /\ Sorted(Tail(w), Ordered) /\ \A k \in Processes : Ahead(Tail(w), chain[k], Ordered)
  BY <1>2, <1>5, <1>9, SortedTail, AheadTailLeft
<1>11. \A k \in Processes : Sorted(Carried(wire'[k]), Ordered) /\ \A i \in Processes : Ahead(Carried(wire'[k]), chain[i], Ordered)
  BY <1>6, <1>10 DEF OrderInv
<1>12. /\ \A l \in DOMAIN Tail(w) : <<x, Tail(w)[l]>> \in Ordered
       /\ \A k \in Processes : \A l \in DOMAIN chain[k] : <<x, chain[k][l]>> \in Ordered
  <2>1. \A l \in DOMAIN Tail(w) : <<x, Tail(w)[l]>> \in Ordered
    BY <1>2, <1>5, <1>9, HeadAhead
  <2>2. 1 \in DOMAIN w /\ w[1] = x
    BY <1>2, <1>5
  <2> QED BY <1>9, <2>1, <2>2 DEF Ahead
<1>13. ASSUME NEW c \in Consoles, stream[c].at = j, stream[c].up, change[x].at # j
       PROVE  \A k \in DOMAIN Got(c) : <<Got(c)[k], x>> \in Ordered
  <2>1. Ahead(Got(c), w, Foreign(j))
    BY <1>13 DEF OrderInv, w
  <2>2. \A k \in DOMAIN Got(c) : <<Got(c)[k], x>> \in Foreign(j)
    BY <1>2, <1>5, <2>1, AheadTailRight
  <2> SUFFICES ASSUME NEW k \in DOMAIN Got(c) PROVE <<Got(c)[k], x>> \in Ordered
    OBVIOUS
  <2>3. Got(c)[k] \in Changes
    BY GotTypes
  <2> QED BY <1>4, <1>13, <2>2, <2>3, PairFact
<1>14. ASSUME NEW c \in Consoles PROVE Sorted(Got(c)', Ordered)
  <2>1. Sorted(Got(c), Ordered) /\ Got(c) \in Seq(Changes)
    BY GotTypes DEF OrderInv
  <2>2. CASE Got(c)' = Got(c)
    BY <2>1, <2>2
  <2>3. CASE Got(c)' = Append(Got(c), x) /\ stream[c].at = j /\ stream[c].up /\ change[x].at # j
    <3>1. \A k \in DOMAIN Got(c) : <<Got(c)[k], x>> \in Ordered
      BY <1>13, <2>3
    <3>2. Sorted(Append(Got(c), x), Ordered)
      BY <1>4, <2>1, <3>1, SortedAppend
    <3> QED BY <2>3, <3>2
  <2> QED BY <1>8, <2>2, <2>3
<1>15. ASSUME NEW c \in Consoles, NEW i \in Processes, stream[c].up, stream[c].at = i
       PROVE  /\ Ahead(Got(c)', Carried(wire'[i]), Foreign(i))
              /\ \A k \in Processes : Ahead(Got(c)', chain[k], Foreign(i))
  <2>1. /\ Ahead(Got(c), Carried(wire[i]), Foreign(i)) /\ (\A k \in Processes : Ahead(Got(c), chain[k], Foreign(i)))
        /\ Got(c) \in Seq(Changes)
    BY <1>15, GotTypes DEF OrderInv
  <2>2. Ahead(Got(c), Carried(wire'[i]), Foreign(i))
    <3>1. CASE i = j
      <4>1. Ahead(Got(c), w, Foreign(i))
        BY <2>1, <3>1 DEF w
      <4>2. Ahead(Got(c), Tail(w), Foreign(i))
        BY <1>2, <1>5, <4>1, AheadTailRight
      <4> QED BY <1>6, <3>1, <4>2
    <3>2. CASE i # j
      BY <1>6, <2>1, <3>2
    <3> QED BY <3>1, <3>2
  <2>3. CASE Got(c)' = Got(c)
    BY <2>1, <2>2, <2>3
  <2>4. CASE Got(c)' = Append(Got(c), x) /\ i = j
    <3>1. Ordered \subseteq Foreign(i)
      BY ForeignMore
    <3>2. \A l \in DOMAIN Carried(wire'[i]) : <<x, Carried(wire'[i])[l]>> \in Foreign(i)
      BY <1>6, <1>12, <2>4, <3>1
    <3>3. Ahead(Append(Got(c), x), Carried(wire'[i]), Foreign(i))
      BY <1>4, <2>1, <2>2, <3>2, AheadAppendLeft
    <3>4. \A k \in Processes : \A l \in DOMAIN chain[k] : <<x, chain[k][l]>> \in Foreign(i)
      BY <1>12, <3>1
    <3>5. \A k \in Processes : Ahead(Append(Got(c), x), chain[k], Foreign(i))
      BY <1>4, <2>1, <3>4, AheadAppendLeft
    <3> QED BY <2>4, <3>3, <3>5
  <2> QED BY <1>8, <1>15, <2>3, <2>4
<1> QED BY <1>1, <1>7, <1>8, <1>11, <1>14, <1>15 DEF OrderInv

(* The pages, the types, what is on its way, and its order, together.      *)
RealtimeInv == PageInv /\ Told /\ ReachInv /\ OrderInv

(* The invariant, action by action.                                        *)
LEMMA PageStays == ASSUME PageInv, UNCHANGED <<pageVars, known>> PROVE PageInv'
BY DEF PageInv, PageTypes, ToBeShown, pageVars

(* Nothing on its way moves.                                               *)
LEMMA QuietKept ==
    ASSUME Told, ReachInv, OrderInv, UNCHANGED <<chain, wire, published, stream, cut>>,
           \A y \in Changes : change'[y].at = change[y].at,
           \A c \in Consoles : known[c] \subseteq known'[c]
    PROVE  ReachInv' /\ OrderInv'
<1>1. ASSUME NEW c \in Consoles, NEW y \in ToSet(published) PROVE Reached(c, y)'
  <2>1. Reached(c, y) /\ y \in Changes
    BY PublishedFact DEF ReachInv
  <2>2. CASE y \in known[c] \cup cut[c]
    BY <2>2 DEF Reached
  <2>3. CASE OnItsWay(c, y)
    BY <2>1, <2>3 DEF Reached, OnItsWay
  <2> QED BY <2>1, <2>2, <2>3 DEF Reached
<1>2. ReachInv'
  BY <1>1 DEF ReachInv
<1>3. \A c \in Consoles : Got(c)' = Got(c)
  BY DEF Got
<1>4. OrderInv'
  BY <1>3, OrderKept
<1> QED BY <1>2, <1>4

LEMMA HubKeepsInv == ASSUME RealtimeInv, HubStep PROVE RealtimeInv'
<1>1. PageInv /\ Told /\ ReachInv /\ OrderInv
  BY DEF RealtimeInv
<1>2. ASSUME NEW x \in Changes, TellCreated(x) \/ TellUpdated(x) PROVE RealtimeInv'
  <2>1. /\ Told' /\ Publish(change[x].at, x) /\ change[x].at \in Processes
        /\ ToSet(published') = ToSet(published) \cup {x}
        /\ \A y \in Changes : change'[y].at = change[y].at
    BY <1>1, <1>2, TellTypes
  <2>2. PageInv'
    BY <1>1, <2>1, PageStays DEF Publish
  <2>3. PICK i \in Processes : i = change[x].at
    BY <2>1
  <2>4. ReachInv' /\ OrderInv'
    BY <1>1, <2>1, <2>3, PublishReaches, PublishOrdered
  <2> QED BY <2>1, <2>2, <2>4 DEF RealtimeInv
<1>3. ASSUME NEW x \in Changes, CommitCreated(x) \/ StoreUpdated(x) PROVE RealtimeInv'
  <2>1. /\ Told' /\ UNCHANGED <<chain, wire, published, stream, cut>>
        /\ (\A c \in Consoles : known[c] \subseteq known'[c])
        /\ \A y \in Changes : change'[y].at = change[y].at
    BY <1>1, <1>3, AdvanceTold
  <2>2. PageInv'
    BY <1>1, <1>3, PageStays DEF CommitCreated, StoreUpdated, streamVars
  <2> QED BY <1>1, <2>1, <2>2, QuietKept DEF RealtimeInv
<1>4. ASSUME NEW i \in Processes, ConnectRedis(i) PROVE RealtimeInv'
  <2>1. UNCHANGED <<change, chain, wire, published, streamVars, pageVars>>
    BY <1>4 DEF ConnectRedis
  <2>2. UNCHANGED <<stream, known, cut>>
    BY <2>1 DEF streamVars
  <2>3. Told'
    BY <1>1, <2>1, StillTold
  <2>4. PageInv'
    BY <1>1, <2>1, <2>2, PageStays
  <2> QED BY <1>1, <2>1, <2>2, <2>3, <2>4, QuietKept DEF RealtimeInv
<1>5. ASSUME NEW i \in Processes, RedisPublish(i) \/ PublishFails(i) PROVE RealtimeInv'
  <2>1. Told'
    BY <1>1, <1>5, RedisPublishTypes, PublishFailsTypes DEF Told
  <2>2. PageInv'
    BY <1>1, <1>5, PageStays DEF RedisPublish, PublishFails
  <2> QED BY <1>1, <1>5, <2>1, <2>2, ChainReaches, ChainOrdered DEF RealtimeInv
<1>6. ASSUME NEW j \in Processes, HandleRedisMessage(j) \/ SubscriberLoses(j) PROVE RealtimeInv'
  <2>1. Told'
    BY <1>1, <1>6, HandleTypes, LosesTypes DEF Told
  <2>2. PageInv'
    BY <1>1, <1>6, PageStays DEF HandleRedisMessage, SubscriberLoses
  <2> QED BY <1>1, <1>6, <2>1, <2>2, WireReaches, WireOrdered DEF RealtimeInv
<1> QED BY <1>2, <1>3, <1>4, <1>5, <1>6 DEF HubStep

LEMMA EmptyGot == <<>> \o <<>> = <<>>
OBVIOUS

LEMMA StreamKeepsInv == ASSUME RealtimeInv, StreamStep PROVE RealtimeInv'
<1>1. PageInv /\ Told /\ ReachInv /\ OrderInv
  BY DEF RealtimeInv
<1>2. PICK c \in Consoles : (\E i \in Processes : Connect(c, i)) \/ Disconnect(c) \/ TokenLapses(c) \/ TokenRotates(c)
  BY DEF StreamStep
<1>3. CASE \E i \in Processes : Connect(c, i)
  <2>1. PICK i \in Processes : Connect(c, i)
    BY <1>3
  <2>2. /\ Told' /\ stream'[c].frames = <<>> /\ stream'[c].heard = <<>>
        /\ \A d \in Consoles \ {c} : stream'[d] = stream[d]
    BY <1>1, <2>1, ConnectTypes
  <2>3. UNCHANGED <<change, chain, wire, published, known, pageVars>> /\ CutsOff(c)
    BY <2>1 DEF Connect
  <2>4. PageInv'
    BY <1>1, <2>3, PageStays
  <2>5. \A d \in Consoles : known[d] \subseteq known'[d] /\ cut[d] \subseteq cut'[d]
    BY <1>1, <2>3 DEF CutsOff, Told, HubTypes
  <2>6. ReachInv'
    BY <1>1, <2>2, <2>3, <2>5, StreamReaches
  <2>7. Got(c)' = <<>> /\ \A d \in Consoles \ {c} : Got(d)' = Got(d)
    BY <2>2, EmptyGot DEF Got
  <2>8. OrderInv'
    BY <1>1, <2>2, <2>3, <2>7, OrderKept
  <2> QED BY <2>2, <2>4, <2>6, <2>8 DEF RealtimeInv
<1>4. CASE Disconnect(c) \/ TokenRotates(c)
  <2>1. /\ Told' /\ stream'[c].frames = <<>> /\ stream'[c].heard = <<>>
        /\ CutsOff(c) /\ UNCHANGED <<known, hubVars>> /\ \A d \in Consoles \ {c} : stream'[d] = stream[d]
    BY <1>1, <1>4, CloseTypes
  <2>2. PageInv'
    <3>1. CASE Disconnect(c)
      BY <1>1, <3>1, PageStays DEF Disconnect
    <3>2. CASE TokenRotates(c)
      BY <1>1, <3>2, TokenRotatesShown
    <3> QED BY <1>4, <3>1, <3>2
  <2>3. UNCHANGED <<change, chain, wire, published>>
    BY <2>1 DEF hubVars
  <2>4. \A d \in Consoles : known[d] \subseteq known'[d] /\ cut[d] \subseteq cut'[d]
    BY <1>1, <2>1 DEF CutsOff, Told, HubTypes
  <2>5. ReachInv'
    BY <1>1, <2>1, <2>3, <2>4, StreamReaches
  <2>6. Got(c)' = <<>> /\ \A d \in Consoles \ {c} : Got(d)' = Got(d)
    BY <2>1, EmptyGot DEF Got
  <2>7. OrderInv'
    BY <1>1, <2>1, <2>3, <2>6, OrderKept
  <2> QED BY <2>1, <2>2, <2>5, <2>7 DEF RealtimeInv
<1>5. CASE TokenLapses(c)
  <2>1. /\ Told' /\ UNCHANGED <<hubVars, known, cut>>
        /\ stream'[c].up = stream[c].up /\ stream'[c].at = stream[c].at /\ stream'[c].staff = stream[c].staff
        /\ stream'[c].frames = stream[c].frames /\ stream'[c].heard = stream[c].heard
        /\ \A d \in Consoles \ {c} : stream'[d] = stream[d]
    BY <1>1, <1>5, LapseTypes
  <2>2. PageInv'
    BY <1>1, <1>5, PageStays DEF TokenLapses
  <2>3. UNCHANGED <<change, chain, wire, published>>
    BY <2>1 DEF hubVars
  <2>4. ReachInv'
    BY <1>1, <2>1, <2>3, StreamReaches
  <2>5. \A d \in Consoles : Got(d)' = Got(d) /\ stream'[d].at = stream[d].at /\ stream'[d].up = stream[d].up
    BY <2>1 DEF Got
  <2>6. OrderInv'
    BY <1>1, <2>3, <2>5, OrderKept
  <2> QED BY <2>1, <2>2, <2>4, <2>6 DEF RealtimeInv
<1> QED BY <1>2, <1>3, <1>4, <1>5

LEMMA HearKeepsInv == ASSUME RealtimeInv, NEW c \in Consoles, Hear(c) PROVE RealtimeInv'
<1>1. PageInv /\ Told /\ ReachInv /\ OrderInv
  BY DEF RealtimeInv
<1>2. /\ Told' /\ UNCHANGED <<hubVars, cut>> /\ Head(stream[c].frames) \in Changes
      /\ stream'[c].up = stream[c].up /\ stream'[c].at = stream[c].at /\ stream'[c].staff = stream[c].staff
      /\ stream[c].frames \in Seq(Changes) /\ stream[c].heard \in Seq(Changes) /\ stream[c].frames # <<>>
      /\ stream'[c].frames = Tail(stream[c].frames)
      /\ stream'[c].heard = Append(stream[c].heard, Head(stream[c].frames))
      /\ known' = [known EXCEPT ![c] = known[c] \cup {Head(stream[c].frames)}]
      /\ \A d \in Consoles \ {c} : stream'[d] = stream[d]
  BY <1>1, HearTypes
<1>3. PageInv'
  BY <1>1, <1>2, HearShown
<1>4. UNCHANGED <<change, chain, wire, published>>
  BY <1>2 DEF hubVars
<1>5. \A d \in Consoles : known[d] \subseteq known'[d] /\ cut[d] \subseteq cut'[d]
  BY <1>1, <1>2 DEF Told, HubTypes
<1>6. ToSet(stream[c].frames) \subseteq ToSet(stream'[c].frames) \cup known'[c]
  <2>1. ToSet(stream[c].frames) = {Head(stream[c].frames)} \cup ToSet(Tail(stream[c].frames))
    BY <1>2, TailElements
  <2>2. Head(stream[c].frames) \in known'[c]
    BY <1>1, <1>2 DEF Told, HubTypes
  <2> QED BY <1>2, <2>1, <2>2
<1>7. ReachInv'
  BY <1>1, <1>2, <1>4, <1>5, <1>6, StreamReaches
<1>8. \A d \in Consoles : Got(d)' = Got(d) /\ stream'[d].at = stream[d].at /\ stream'[d].up = stream[d].up
  <2>1. PICK h \in Seq(Changes), f \in Seq(Changes) : h = stream[c].heard /\ f = stream[c].frames /\ f # <<>>
    BY <1>2
  <2>2. Append(h, Head(f)) \o Tail(f) = h \o f
    BY <2>1, JoinMoves
  <2>3. Got(c)' = Got(c)
    BY <1>2, <2>1, <2>2 DEF Got
  <2> QED BY <1>2, <2>3 DEF Got
<1>9. OrderInv'
  BY <1>1, <1>4, <1>8, OrderKept
<1> QED BY <1>2, <1>3, <1>7, <1>9 DEF RealtimeInv

LEMMA PageKeepsInv == ASSUME RealtimeInv, PageStep PROVE RealtimeInv'
<1>1. PageInv /\ Told /\ ReachInv /\ OrderInv
  BY DEF RealtimeInv
<1>2. PICK c \in Consoles : \/ WindowEnds(c) \/ Flush(c)
                            \/ \E x \in Changes : RefreshAfterUpdate(c, x)
                            \/ \E slot \in {"now", "old"} : FetchRead(c, slot) \/ FetchAnswer(c, slot) \/ FetchFails(c, slot)
  BY DEF PageStep
<1>3. CASE \E x \in Changes : RefreshAfterUpdate(c, x)
  <2>1. PICK x \in Changes : RefreshAfterUpdate(c, x)
    BY <1>3
  <2>2. /\ Told' /\ UNCHANGED <<chain, wire, published, stream, cut>>
        /\ (\A d \in Consoles : known[d] \subseteq known'[d])
        /\ \A y \in Changes : change'[y].at = change[y].at
    BY <1>1, <2>1, AdvanceTold
  <2> QED BY <1>1, <2>1, <2>2, RefreshShown, QuietKept DEF RealtimeInv
<1>4. CASE ~\E x \in Changes : RefreshAfterUpdate(c, x)
  <2>1. UNCHANGED <<hubVars, streamVars>>
    BY <1>2, <1>4 DEF WindowEnds, Flush, FetchRead, FetchAnswer, FetchFails
  <2>2. UNCHANGED <<change, chain, wire, published, stream, known, cut>>
    BY <2>1 DEF hubVars, streamVars
  <2>3. Told'
    BY <1>1, <2>1, <2>2, StillTold
  <2>4. Visible \in SUBSET Changes
    BY DEF Visible
  <2>5. PageInv'
    BY <1>1, <1>2, <1>4, <2>4, WindowEndsShown, FlushShown, FetchReadShown, FetchAnswerShown, FetchFailsShown
  <2> QED BY <1>1, <2>2, <2>3, <2>5, QuietKept DEF RealtimeInv
<1> QED BY <1>3, <1>4

LEMMA RealtimeStarts == ASSUME RealtimeInit PROVE RealtimeInv
<1>1. PICK way \in [Changes -> Ways], at \in [Changes -> Processes] :
          change = [x \in Changes |-> [way |-> way[x], at |-> at[x], step |-> "todo"]]
  BY DEF RealtimeInit
<1>2. change \in [Changes -> ChangeRecords]
  BY <1>1 DEF ChangeRecords
<1>3. /\ chain = [i \in Processes |-> <<>>] /\ wire = [i \in Processes |-> <<>>]
      /\ stream = [c \in Consoles |-> Down] /\ window = [c \in Consoles |-> "idle"]
      /\ fetch = [c \in Consoles |-> NoFetch] /\ listed = [c \in Consoles |-> {}]
      /\ published = <<>> /\ known = [c \in Consoles |-> {}] /\ cut = [c \in Consoles |-> {}]
      /\ missed = [c \in Consoles |-> {}]
  BY DEF RealtimeInit
<1>4. /\ ~Down.up /\ Down.frames = <<>> /\ Down.heard = <<>>
  BY DEF Down
<1>5. Down \in StreamRecords
  <2>1. <<>> \in Seq(Changes)
    OBVIOUS
  <2> QED BY <2>1 DEF Down, StreamRecords
<1>6. ToSet(<<>>) = {}
  BY DEF ToSet
<1>7. PageInv
  BY <1>3 DEF PageInv, PageTypes, ReadRecords, NoFetch, NoRead
<1>8. HubTypes
  <2>1. <<>> \in Seq(Changes) /\ <<>> \in Seq(WireRecords)
    OBVIOUS
  <2> QED BY <1>2, <1>3, <1>5, <2>1 DEF HubTypes
<1>9. EventsAreTold
  <2>1. IsInjective(published)
    BY <1>3 DEF IsInjective
  <2>2. /\ ToSet(published) = {} /\ \A i \in Processes : ToSet(chain[i]) = {} /\ ToSet(wire[i]) = {}
    BY <1>3, <1>6
  <2>3. \A c \in Consoles : /\ ToSet(stream[c].frames) \cup ToSet(stream[c].heard) \subseteq ToSet(published)
                            /\ IF stream[c].up THEN stream[c].at \in Processes
                               ELSE stream[c].frames = <<>> /\ stream[c].heard = <<>>
    BY <1>3, <1>4, <1>6
  <2> QED BY <2>1, <2>2, <2>3 DEF EventsAreTold
<1>10. ReachInv
  BY <1>3, <1>6 DEF ReachInv
<1>11. OrderInv
  <2>1. \A i \in Processes : Carried(wire[i]) = <<>> /\ chain[i] = <<>>
    BY <1>3 DEF Carried
  <2>2. \A c \in Consoles : Got(c) = <<>>
    BY <1>3, <1>4, EmptyGot DEF Got
  <2>3. (\A R : Sorted(<<>>, R)) /\ \A R : Ahead(<<>>, <<>>, R)
    BY DEF Sorted, Ahead
  <2> QED BY <2>1, <2>2, <2>3 DEF OrderInv
<1> QED BY <1>7, <1>8, <1>9, <1>10, <1>11 DEF RealtimeInv, Told

LEMMA RealtimeKept == RealtimeInv /\ [RealtimeStep]_realtimeVars => RealtimeInv'
<1>1. ASSUME RealtimeInv, RealtimeStep PROVE RealtimeInv'
  BY <1>1, HubKeepsInv, StreamKeepsInv, HearKeepsInv, PageKeepsInv DEF RealtimeStep
<1>2. ASSUME RealtimeInv, UNCHANGED realtimeVars PROVE RealtimeInv'
  <2>1. UNCHANGED <<change, chain, wire, published, streamVars>> /\ UNCHANGED <<stream, known, cut>> /\ UNCHANGED <<pageVars, known>>
    BY <1>2 DEF realtimeVars, hubVars, streamVars, pageVars
  <2>2. PageInv /\ Told /\ ReachInv /\ OrderInv
    BY <1>2 DEF RealtimeInv
  <2> QED BY <2>1, <2>2, PageStays, StillTold, QuietKept DEF RealtimeInv
<1> QED BY <1>1, <1>2

(* The invariant implies the two properties.                               *)
LEMMA HeardFollows == ASSUME Told, OrderInv PROVE HeardInOrder
<1> SUFFICES ASSUME NEW c \in Consoles
             PROVE  LET h == stream[c].heard IN
                    /\ IsInjective(h)
                    /\ \A j, k \in DOMAIN h : j < k /\ change[h[j]].at = change[h[k]].at =>
                          At(published, h[j]) < At(published, h[k])
  BY DEF HeardInOrder
<1>1. PICK h \in Seq(Changes), f \in Seq(Changes) : h = stream[c].heard /\ f = stream[c].frames
  BY GotTypes
<1>2. \A k \in DOMAIN h : k \in DOMAIN Got(c) /\ Got(c)[k] = h[k]
  BY <1>1, JoinFact DEF Got
<1>3. Sorted(h, Ordered) /\ DOMAIN h = 1..Len(h) /\ Len(h) \in Nat
  BY <1>2 DEF OrderInv, Sorted
<1>4. IsInjective(published) /\ DOMAIN published \subseteq Nat
  BY DEF Told, EventsAreTold, HubTypes
<1>5. ASSUME NEW j \in DOMAIN h, NEW k \in DOMAIN h, j < k, change[h[j]].at = change[h[k]].at
      PROVE  At(published, h[j]) < At(published, h[k]) /\ h[j] # h[k]
  <2>1. h[j] \in Changes /\ h[k] \in Changes /\ <<h[j], h[k]>> \in Ordered
    BY <1>3, <1>5 DEF Sorted
  <2>2. Before(h[j], h[k])
    BY <1>5, <2>1, PairFact
  <2>3. PICK m, n \in DOMAIN published : m < n /\ published[m] = h[j] /\ published[n] = h[k]
    BY <2>2 DEF Before
  <2>4. ASSUME NEW x, NEW l \in DOMAIN published, published[l] = x PROVE At(published, x) = l
    BY <1>4, <2>4 DEF At, IsInjective
  <2>5. At(published, h[j]) = m /\ At(published, h[k]) = n
    BY <2>3, <2>4
  <2> QED BY <1>4, <2>3, <2>5 DEF IsInjective
<1>6. IsInjective(h)
  <2> SUFFICES ASSUME NEW j \in DOMAIN h, NEW k \in DOMAIN h, h[j] = h[k] PROVE j = k
    BY DEF IsInjective
  <2>1. ~(j < k) /\ ~(k < j)
    BY <1>5
  <2> QED BY <1>3, <2>1
<1> QED BY <1>1, <1>5, <1>6

LEMMA CatchesUpFollows == ASSUME PageInv, Told, ReachInv PROVE TableCatchesUp
<1> SUFFICES ASSUME NEW c \in Consoles
             PROVE  /\ (\A i \in Processes : chain[i] = <<>> /\ wire[i] = <<>>) /\ stream[c].frames = <<>>
                       => ToSet(published) \subseteq known[c] \cup cut[c]
                    /\ window[c] # "armed" /\ fetch[c] = NoFetch
                       => known[c] \subseteq listed[c] \cup missed[c]
  BY DEF TableCatchesUp
<1>1. ToSet(<<>>) = {}
  BY DEF ToSet
<1>2. ASSUME \A i \in Processes : chain[i] = <<>> /\ wire[i] = <<>>, stream[c].frames = <<>>
      PROVE  ToSet(published) \subseteq known[c] \cup cut[c]
  <2> SUFFICES ASSUME NEW x \in ToSet(published) PROVE x \in known[c] \cup cut[c]
    OBVIOUS
  <2>1. change[x].at \in Processes
    BY <1>2, PublishedFact DEF Told, HubTypes, ChangeRecords
  <2>2. ~OnItsWay(c, x)
    <3>1. stream[c].up => stream[c].at \in Processes
      BY <1>2 DEF Told, EventsAreTold
    <3> QED BY <1>1, <1>2, <2>1, <3>1 DEF OnItsWay
  <2> QED BY <2>2 DEF ReachInv, Reached
<1>3. ASSUME window[c] # "armed", fetch[c] = NoFetch PROVE known[c] \subseteq listed[c] \cup missed[c]
  BY <1>3 DEF PageInv, ToBeShown, NoFetch, NoRead
<1> QED BY <1>2, <1>3

(* Whatever servers and consoles there are: a console hears every event    *)
(* at most once, and those of one server in their order; it hears of every *)
(* one that was not cut off, and its table shows every change it has heard *)
(* of and not read past (pg-events.ts, use-live-query.ts).                 *)
THEOREM ConsolesCatchUp == RealtimeSpec => []ConsoleCatchesUp
<1>1. RealtimeInit => RealtimeInv
  BY RealtimeStarts
<1>2. RealtimeInv => ConsoleCatchesUp
  BY HeardFollows, CatchesUpFollows DEF RealtimeInv, ConsoleCatchesUp
<1> QED BY <1>1, <1>2, RealtimeKept, PTL DEF RealtimeSpec
=============================================================================
