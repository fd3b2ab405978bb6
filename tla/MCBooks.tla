------------------------------- MODULE MCBooks -------------------------------
(***************************************************************************)
(* What is written down twice, for TLC: stock and orders, in three groups  *)
(* of handlers, each with its own orders and concurrency; reviews and the  *)
(* pair a product's card shows; payments and the gateway's; and the sums   *)
(* of the reports.  The initial state picks the group; the others stay.    *)
(***************************************************************************)
EXTENDS OrderSystem, Reviews, Reconciliation, Reports

CONSTANTS p1, o1, o2, o3, o4, g1, g2, none, Groups

VARIABLE group

MCProducts == {p1}
MCFourOrders == {o1, o2, o3, o4}
MCItems == [o \in Orders |-> [p \in MCProducts |-> 1]]
MCInitialStock == [p \in MCProducts |-> 2]

OrderGroups == {"cash", "giveUp", "race"}

Entries ==
    CASE group = "cash" -> {"checkout", "assign", "deliver", "cancel"}
      [] group = "giveUp" -> {"checkout", "initiate", "verify", "captured", "failPayment", "cancel"}
      [] group = "race" -> {"checkout", "initiate", "verify", "captured", "sweep"}

OrdersHere ==
    CASE group = "cash" -> CodOrders
      [] group = "giveUp" -> {o1, o2}
      [] group = "race" -> {o1, o2, o3}

Busy == {w \in Workers : req[w] # Idle}

OrderGroup ==
    /\ Next
    /\ \A w \in Workers : req'[w].kind \in Entries \cup {"idle"}
    /\ \A o \in Orders \ OrdersHere : orderStatus'[o] = "NONE"
    /\ group = "race" \/ Cardinality(Busy') <= 1
    /\ group # "race" => ~\E o \in Orders : Sweep(o)

(* Purchases are placed in the order of time, the first by the first       *)
(* shopper; one of them may move while a report is made.                   *)
MCWindows == {[from |-> 1, to |-> -1], [from |-> 0, to |-> 1], [from |-> 0, to |-> 2]}
ReportInTurn ==
    /\ ReportsStep
    /\ purchase'["b2"] # Unplaced => purchase'["b1"] # Unplaced /\ purchase'["b1"].buyer = "u1"
    /\ purchase'["b2"] # Unplaced => purchase'["b2"].at >= purchase'["b1"].at
    /\ moved => UNCHANGED purchase

(* The first review is the first author's, the second anybody's.           *)
GroupInit ==
    /\ group \in Groups
    /\ Init /\ ReconInit
    /\ ReviewsInit /\ review["v1"].author = "u1"
    /\ group # "reviews" => review["v2"].author = "u1"
    /\ ReportsInit /\ (group # "reports" => zone = 0)

GroupNext ==
    /\ UNCHANGED group
    /\ IF group \in OrderGroups THEN OrderGroup ELSE UNCHANGED vars
    /\ IF group = "reviews" THEN ReviewStep ELSE UNCHANGED reviewVars
    /\ IF group = "payments" THEN ReconStep ELSE UNCHANGED reconVars
    /\ IF group = "reports" THEN ReportInTurn ELSE UNCHANGED reportVars

GroupSpec == GroupInit /\ [][GroupNext]_<<vars, reviewVars, reconVars, reportVars, group>>
=============================================================================
