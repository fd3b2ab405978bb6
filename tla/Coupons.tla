------------------------------- MODULE Coupons -------------------------------
(***************************************************************************)
(* One coupon of services/discount.service.ts: its row, its usage rows, a  *)
(* checkout's validation and recording of a use, and the promotions desk.  *)
(* Dates, minimum values and product filters only make a coupon refuse a   *)
(* cart it would otherwise accept; Pricing models the amount.              *)
(***************************************************************************)
EXTENDS Naturals, FiniteSets

CONSTANTS
    Customers,      \* accounts
    Pages,          \* checkout attempts, one order each at most
    CustomerOf,     \* the account of each
    Limits,         \* values of maxUses the desk enters
    UserLimits      \* values of perUserLimit the desk enters

ASSUME CouponAssumption ==
    /\ CustomerOf \in [Pages -> Customers]
    /\ IsFiniteSet(Pages)
    /\ Limits \subseteq Nat \ {0}
    /\ UserLimits \subseteq Nat \ {0}

VARIABLES
    coupon,     \* the row
    usages,     \* coupon_usages: the orders that used it
    deletion,   \* the desk's deleteCoupon: idle, or what its count decided
    ceiling     \* history: the highest limits ever in force

couponVars == <<coupon, usages, deletion, ceiling>>

CouponRows ==
    [exists: BOOLEAN, isActive: BOOLEAN, usedCount: Nat, maxUses: Nat, perUserLimit: Nat]

CouponTypeOK ==
    /\ coupon \in CouponRows
    /\ usages \subseteq Pages
    /\ deletion \in {"idle", "deactivate", "delete"}
    /\ ceiling \in [maxUses: Nat, perUserLimit: Nat]

(* createCoupon *)
CouponInit ==
    /\ \E max \in Limits, per \in UserLimits :
        /\ coupon = [exists |-> TRUE, isActive |-> TRUE, usedCount |-> 0,
                     maxUses |-> max, perUserLimit |-> per]
        /\ ceiling = [maxUses |-> max, perUserLimit |-> per]
    /\ usages = {}
    /\ deletion = "idle"

UsagesOf(u) == {k \in usages : CustomerOf[k] = u}

----------------------------------------------------------------------------
(* Checkout's side.                                                        *)

(* validateAndCalculateCoupon: an unlocked look at the row and at the      *)
(* customer's usages.                                                      *)
Redeemable(u) ==
    /\ coupon.exists /\ coupon.isActive
    /\ coupon.usedCount < coupon.maxUses
    /\ Cardinality(UsagesOf(u)) < coupon.perUserLimit

(* What recordCouponUsage reads before its conditional update.             *)
LimitsRead == [maxUses |-> coupon.maxUses, perUserLimit |-> coupon.perUserLimit]

(* recordCouponUsage counts the customer's usages outside the row lock.    *)
RecordUncounted(k, limits) ==
    /\ coupon.exists /\ coupon.isActive
    /\ coupon.usedCount < limits.maxUses
    /\ coupon' = [coupon EXCEPT !.usedCount = @ + 1]
    /\ usages' = usages \cup {k}
    /\ UNCHANGED <<deletion, ceiling>>

CanRecord(k, limits) ==
    /\ coupon.exists /\ coupon.isActive
    /\ coupon.usedCount < limits.maxUses
    /\ Cardinality(UsagesOf(CustomerOf[k])) < limits.perUserLimit

(* recordCouponUsage: the conditional increment locks the row, so the      *)
(* customer's usages counted after it include every committed one.         *)
RecordCouponUsage(k, limits) ==
    /\ CanRecord(k, limits)
    /\ coupon' = [coupon EXCEPT !.usedCount = @ + 1]
    /\ usages' = usages \cup {k}
    /\ UNCHANGED <<deletion, ceiling>>

----------------------------------------------------------------------------
(* The promotions desk.                                                    *)

Raised(a, b) == IF a < b THEN b ELSE a

(* updateCoupon writes the fields of the request, whatever was used.       *)
UpdateCoupon(max, per, active) ==
    /\ coupon.exists
    /\ coupon' = [coupon EXCEPT !.maxUses = max, !.perUserLimit = per, !.isActive = active]
    /\ ceiling' = [maxUses |-> Raised(ceiling.maxUses, max),
                   perUserLimit |-> Raised(ceiling.perUserLimit, per)]
    /\ UNCHANGED <<usages, deletion>>

ToggleCoupon(active) ==
    /\ coupon.exists
    /\ coupon' = [coupon EXCEPT !.isActive = active]
    /\ UNCHANGED <<usages, deletion, ceiling>>

(* deleteCoupon counts the usages ...                                      *)
DeleteCouponRead ==
    /\ coupon.exists /\ deletion = "idle"
    /\ deletion' = IF usages = {} THEN "delete" ELSE "deactivate"
    /\ UNCHANGED <<coupon, usages, ceiling>>

(* ... and deactivates a coupon that was used; the row of an unused one    *)
(* goes, and with it (onDelete: Cascade) the usages it has by then.        *)
DeleteCouponWrite ==
    /\ deletion # "idle"
    /\ deletion' = "idle"
    /\ IF deletion = "delete"
       THEN /\ coupon' = [coupon EXCEPT !.exists = FALSE, !.isActive = FALSE]
            /\ usages' = {}
       ELSE /\ coupon' = [coupon EXCEPT !.isActive = FALSE]
            /\ UNCHANGED usages
    /\ UNCHANGED ceiling

DeskStep ==
    \/ \E max \in Limits, per \in UserLimits, a \in BOOLEAN : UpdateCoupon(max, per, a)
    \/ \E a \in BOOLEAN : ToggleCoupon(a)
    \/ DeleteCouponRead
    \/ DeleteCouponWrite

----------------------------------------------------------------------------

(* The counter and the usage rows tell the same story, neither exceeds the *)
(* highest limit the desk ever set, and no customer exceeds the highest    *)
(* limit per customer, however checkouts overlap between their validation  *)
(* and their recording.                                                    *)
CouponWithinLimits ==
    /\ coupon.exists => coupon.usedCount = Cardinality(usages)
    /\ Cardinality(usages) <= ceiling.maxUses
    /\ \A u \in Customers : Cardinality(UsagesOf(u)) <= ceiling.perUserLimit
=============================================================================
