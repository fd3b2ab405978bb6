------------------------------- MODULE Pricing -------------------------------
(***************************************************************************)
(* What a basket costs, computed in three places: the cart the server      *)
(* shows (cart.service.ts), the order it bills (checkout.service.ts with   *)
(* discount.service.ts), and the summary the storefront draws from the     *)
(* server's cart and a coupon (CartContext.tsx).  Amounts are in paise; a  *)
(* rounding to two decimals of rupees is a rounding to whole paise.        *)
(***************************************************************************)
EXTENDS Integers, FiniteSets, Functions

CONSTANTS
    Goods,          \* products of a basket
    Prices,         \* prices in paise
    MaxUnits,       \* units of a product in a basket
    Coupons         \* coupons a customer may enter

(* The schemas of the coupon desk admit no negative value or maximum; 0    *)
(* stands for no maximum.                                                  *)
ASSUME PricingAssumption ==
    /\ IsFiniteSet(Goods) /\ Prices \subseteq Nat /\ MaxUnits \in Nat
    /\ \A c \in Coupons : c.value \in Nat /\ c.max \in Nat

FreeShippingFrom == 49900
ShippingFee == 4900
TaxPercent == 5

VARIABLES
    basket,     \* price and quantity of each product
    code,       \* the coupon entered
    shown,      \* the server's cart, once it was fetched
    bill        \* the order, once it was placed

pricingVars == <<basket, code, shown, bill>>

NoQuote == [subtotal |-> 0, shipping |-> 0, discount |-> 0, tax |-> 0, total |-> 0]
NoCoupon == [type |-> "none", value |-> 0, max |-> 0, min |-> 0, on |-> {}]

PricingInit ==
    /\ basket \in [Goods -> [price: Prices, quantity: 0..MaxUnits]]
    /\ \E p \in Goods : basket[p].quantity > 0
    /\ code \in Coupons \cup {NoCoupon}
    /\ shown = NoQuote /\ bill = NoQuote

(* Math.round: halves go up.                                               *)
Percent(amount, percent) == (amount * percent + 50) \div 100

Least(a, b) == IF a < b THEN a ELSE b

(* What a line costs, and what some of the lines do.                       *)
LinePrice == [p \in Goods |-> basket[p].price * basket[p].quantity]
Worth(products) == SumFunctionOnSet(LinePrice, products)
Lines == {p \in Goods : basket[p].quantity > 0}

Shipping(subtotal) == IF subtotal >= FreeShippingFrom THEN 0 ELSE ShippingFee

(* formatCartWithInventory: no coupon, tax on the whole subtotal.          *)
CartQuote ==
    LET subtotal == Worth(Lines)
        shipping == Shipping(subtotal)
        tax == Percent(subtotal, TaxPercent)
    IN  [subtotal |-> subtotal, shipping |-> shipping, discount |-> 0, tax |-> tax,
         total |-> subtotal + shipping + tax]

(* validateAndCalculateCoupon: the lines a coupon is for ...               *)
Eligible(c) == IF c.on = {} THEN Lines ELSE Lines \cap c.on

Accepted(c) == Eligible(c) # {} /\ Worth(Eligible(c)) >= c.min

(* ... and the amount: a percentage of them up to the maximum, or a fixed  *)
(* amount, never more than they are worth.                                 *)
DiscountOf(c) ==
    LET worth == Worth(Eligible(c))
        percentage == IF c.max > 0 THEN Least(Percent(worth, c.value), c.max)
                      ELSE Percent(worth, c.value)
    IN  Least(IF c.type = "PERCENTAGE" THEN percentage ELSE c.value, worth)

(* A slip of processCheckout: free shipping is judged after the discount.  *)
OrderQuoteLateShipping(discount) ==
    LET subtotal == Worth(Lines)
        taxable == subtotal - discount
        shipping == Shipping(taxable)
        tax == Percent(taxable, TaxPercent)
    IN  [subtotal |-> subtotal, shipping |-> shipping, discount |-> discount, tax |-> tax,
         total |-> taxable + shipping + tax]

(* A slip of processCheckout: tax on what was paid for shipping too.       *)
OrderQuoteTaxedShipping(discount) ==
    LET subtotal == Worth(Lines)
        taxable == subtotal - discount
        shipping == Shipping(subtotal)
        tax == Percent(taxable + shipping, TaxPercent)
    IN  [subtotal |-> subtotal, shipping |-> shipping, discount |-> discount, tax |-> tax,
         total |-> taxable + shipping + tax]

(* processCheckout: shipping on the subtotal, tax on what the discount     *)
(* leaves of it.                                                           *)
OrderQuote(discount) ==
    LET subtotal == Worth(Lines)
        taxable == IF discount > subtotal THEN 0 ELSE subtotal - discount
        shipping == Shipping(subtotal)
        tax == Percent(taxable, TaxPercent)
    IN  [subtotal |-> subtotal, shipping |-> shipping, discount |-> discount, tax |-> tax,
         total |-> taxable + shipping + tax]

(* totalsFromServer: the storefront's payable total.                       *)
Summary ==
    LET discount == IF code # NoCoupon /\ Accepted(code)
                    THEN Least(DiscountOf(code), shown.subtotal) ELSE 0
    IN  [shown EXCEPT !.discount = discount,
                      !.total = IF discount > @ THEN 0 ELSE @ - discount]

ShowCart ==
    /\ shown = NoQuote
    /\ shown' = CartQuote
    /\ UNCHANGED <<basket, code, bill>>

PlaceOrder ==
    /\ shown # NoQuote /\ bill = NoQuote
    /\ code = NoCoupon \/ Accepted(code)
    /\ bill' = OrderQuote(IF code = NoCoupon THEN 0 ELSE DiscountOf(code))
    /\ UNCHANGED <<basket, code, shown>>

PricingStep == ShowCart \/ PlaceOrder

PricingSpec == PricingInit /\ [][PricingStep]_pricingVars

----------------------------------------------------------------------------

Billed == bill # NoQuote

(* A discount stays within what its coupon applies to, and an order with a *)
(* coupon never costs more than the same basket without.  Without a coupon *)
(* the order costs what the cart showed; with one, nobody is billed more   *)
(* than the payable total the storefront showed, although its summary and  *)
(* the order take the discount off differently.                            *)
QuotesAgree ==
    Billed =>
        /\ bill.discount <= (IF code = NoCoupon THEN 0 ELSE Worth(Eligible(code)))
        /\ bill.total <= shown.total
        /\ code = NoCoupon => bill = shown
        /\ bill.total <= Summary.total
=============================================================================
