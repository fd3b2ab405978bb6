----------------------------- MODULE StockPromise -----------------------------
(***************************************************************************)
(* What the order lifecycle promises about stock, whatever paths an order  *)
(* takes through checkout, payment, cancellation and delivery: the units   *)
(* of an order leave the shelf together when it is placed, are held or     *)
(* sold, and go back to the shelf together, once, if it comes to nothing.  *)
(* An order whose units went back never gets them again.                   *)
(***************************************************************************)
EXTENDS Integers

CONSTANTS Products, Orders, Items, InitialStock

VARIABLES
    shelf,  \* units of each product free to be ordered
    held,   \* units of each product set aside for orders not yet paid
    gone,   \* units of each product that belong to confirmed orders
    claim   \* what each order has: "none", "held", "sold" or "back"

promise == <<shelf, held, gone, claim>>

Plus(f, g) == [p \in Products |-> f[p] + g[p]]

Minus(f, g) == [p \in Products |-> f[p] - g[p]]

Init ==
    /\ shelf = InitialStock
    /\ held = [p \in Products |-> 0]
    /\ gone = [p \in Products |-> 0]
    /\ claim = [o \in Orders |-> "none"]

Claim(o, from, to) == claim[o] = from /\ claim' = [claim EXCEPT ![o] = to]

Take(o) ==
    /\ \A p \in Products : Items[o][p] <= shelf[p]
    /\ shelf' = Minus(shelf, Items[o])

Hold(o) ==
    /\ Claim(o, "none", "held") /\ Take(o)
    /\ held' = Plus(held, Items[o])
    /\ UNCHANGED gone

SellAtOnce(o) ==
    /\ Claim(o, "none", "sold") /\ Take(o)
    /\ gone' = Plus(gone, Items[o])
    /\ UNCHANGED held

Sell(o) ==
    /\ Claim(o, "held", "sold")
    /\ held' = Minus(held, Items[o])
    /\ gone' = Plus(gone, Items[o])
    /\ UNCHANGED shelf

LetGo(o) ==
    /\ Claim(o, "held", "back")
    /\ held' = Minus(held, Items[o])
    /\ shelf' = Plus(shelf, Items[o])
    /\ UNCHANGED gone

TakeBack(o) ==
    /\ Claim(o, "sold", "back")
    /\ gone' = Minus(gone, Items[o])
    /\ shelf' = Plus(shelf, Items[o])
    /\ UNCHANGED held

Next == \E o \in Orders : Hold(o) \/ SellAtOnce(o) \/ Sell(o) \/ LetGo(o) \/ TakeBack(o)

Spec == Init /\ [][Next]_promise
=============================================================================
