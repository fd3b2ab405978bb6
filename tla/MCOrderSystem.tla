---------------------------- MODULE MCOrderSystem ----------------------------
(***************************************************************************)
(* Orders for one unit each of a product, for TLC.  The initial state      *)
(* picks a group: "race" is the handlers of an online payment on two       *)
(* workers with two gateway orders, "restock" every handler that credits   *)
(* the units of a paid order back, on two workers, "serial" every handler  *)
(* there is, one at a time, and "free" all of them on all workers.         *)
(***************************************************************************)
EXTENDS OrderSystem

CONSTANTS p1, o1, o2, g1, g2, none, w1, Groups

VARIABLE group

MCProducts == {p1}
MCOrders == {o1, o2}
MCOneOrder == {o1}
MCItems == [o \in Orders |-> [p \in MCProducts |-> 1]]
MCInitialStock == [p \in MCProducts |-> 2]

Raced == {"checkout", "initiate", "verify", "badSignature", "captured", "refund", "sweep"}

Paying == {"initiate", "captured"}
Restocking == {"cancel", "adminStatus", "transition", "deliver"}

(* The order is paid for first, by one request at a time; the delivery     *)
(* desk moves it on, and the other two endpoints end it.                   *)
PaidThenRestocked(w) ==
    \/ req'[w].kind = "idle"
    \/ req'[w].kind \in Paying /\ w = w1
    \/ /\ req'[w].kind \in Restocking /\ payment'[o1] = "CAPTURED"
       /\ req'[w].kind \in {"adminStatus", "transition"} => req'[w].to \in {"CANCELLED", "FAILED"}

On(w) == group # "serial" \/ w = w1

GroupInit == group \in Groups /\ Init

GroupNext ==
    /\ Next
    /\ \A w \in Workers : req'[w] = req[w] \/ On(w)
    /\ group = "race" =>
        /\ \A w \in Workers : req'[w].kind \in Raced \cup {"idle"}
        /\ \A g \in GatewayOrders : ~gateway'[g].failed
    /\ group = "restock" =>
        /\ \A w \in Workers : PaidThenRestocked(w)
        /\ ~gateway'[g1].failed
    /\ group \in {"restock", "serial"} => gateway'[g2] = gateway[g2]
    /\ UNCHANGED group

(* Scheduling, for the workers there are.                                  *)
GroupScheduling ==
    /\ \A o \in Orders : WF_vars(Sweep(o) /\ UNCHANGED gateway)
    /\ \A w \in Workers :
        /\ WF_vars(Drop(w) /\ UNCHANGED gateway)
        /\ SF_vars(On(w) /\ \E o \in Orders : CapturedRead(w, o))
        /\ SF_vars(CapturedConfirm(w))

GroupSpec == GroupInit /\ [][GroupNext]_<<vars, group>>

FairGroupSpec == GroupSpec /\ GroupScheduling
=============================================================================
