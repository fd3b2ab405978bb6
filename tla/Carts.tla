-------------------------------- MODULE Carts --------------------------------
(***************************************************************************)
(* The server carts of services/cart.service.ts: one per customer and one  *)
(* per guest session.  An addition reads the line under a lock of the cart *)
(* row; a merge reads the guest's lines before its transaction and the     *)
(* customer's lines inside it without a lock; the others are one           *)
(* statement on one line.                                                  *)
(***************************************************************************)
EXTENDS Naturals, FiniteSets, Functions

CONSTANTS
    Accounts,       \* customers' carts
    Guests,         \* carts of guest sessions
    Products,
    LineCap,        \* 100 units of a product in a cart
    CartRequests    \* requests the server handles at a time

ASSUME CartAssumption ==
    /\ IsFiniteSet(Accounts) /\ IsFiniteSet(Guests) /\ Accounts \cap Guests = {}
    /\ LineCap \in Nat

VARIABLES
    cart,       \* cart_items.quantity per cart and product, 0: no line
    cartReq,    \* the requests between their reads and their writes
    shelf       \* the available quantity of each product

cartVars == <<cart, cartReq>>

Owners == Accounts \cup Guests
NoLines == [p \in Products |-> 0]
IdleCartReq ==
    [step |-> "idle", owner |-> "none", guest |-> "none", lines |-> NoLines, seen |-> NoLines,
     touched |-> FALSE]

CartTypeOK ==
    /\ cart \in [Owners -> [Products -> 0..LineCap]]
    /\ \A r \in CartRequests :
        /\ cartReq[r].step \in {"idle", "adding", "mergeRead", "merging"}
        /\ cartReq[r].lines \in [Products -> 0..LineCap]
        /\ cartReq[r].seen \in [Products -> 0..LineCap]
    /\ shelf \in [Products -> Nat]

CartInit ==
    /\ cart = [o \in Owners |-> NoLines]
    /\ cartReq = [r \in CartRequests |-> IdleCartReq]

Adding(o) == \E r \in CartRequests : cartReq[r].step = "adding" /\ cartReq[r].owner = o

(* History: the requests in steps that wait while cart o is written.       *)
Touch(reqs, o, steps) ==
    [r \in CartRequests |->
        IF reqs[r].step \in steps /\ o \in {reqs[r].owner, reqs[r].guest}
        THEN [reqs[r] EXCEPT !.touched = TRUE] ELSE reqs[r]]

Merging == {"mergeRead", "merging"}
Waiting == {"adding"} \cup Merging

----------------------------------------------------------------------------

(* addItem without the lock of the cart row.                               *)
AddUnlocked(r, o, p, qty) ==
    /\ cartReq[r].step = "idle"
    /\ cart[o][p] + qty <= shelf[p]
    /\ cart[o][p] + qty <= LineCap
    /\ cartReq' = [cartReq EXCEPT ![r] = [IdleCartReq EXCEPT
                      !.step = "adding", !.owner = o, !.seen[p] = cart[o][p], !.lines[p] = qty]]
    /\ UNCHANGED <<cart, shelf>>

(* addItem takes the lock of the cart row and reads the line.              *)
AddLock(r, o, p, qty) ==
    /\ cartReq[r].step = "idle"
    /\ ~Adding(o)
    /\ cart[o][p] + qty <= shelf[p]
    /\ cart[o][p] + qty <= LineCap
    /\ cartReq' = [cartReq EXCEPT ![r] = [IdleCartReq EXCEPT
                      !.step = "adding", !.owner = o, !.seen[p] = cart[o][p], !.lines[p] = qty]]
    /\ UNCHANGED <<cart, shelf>>

(* ... and upserts the quantity it computed.                               *)
AddWrite(r) ==
    /\ cartReq[r].step = "adding"
    /\ cart' = [cart EXCEPT ![cartReq[r].owner] = [p \in Products |->
                   IF cartReq[r].lines[p] = 0 THEN @[p]
                   ELSE cartReq[r].seen[p] + cartReq[r].lines[p]]]
    /\ cartReq' = [Touch(cartReq, cartReq[r].owner, Merging) EXCEPT ![r] = IdleCartReq]
    /\ UNCHANGED shelf

(* updateItemQuantity: an existing line gets the quantity; zero removes it. *)
UpdateItemQuantity(o, p, qty) ==
    /\ cart[o][p] > 0
    /\ qty <= shelf[p] /\ qty <= LineCap
    /\ cart' = [cart EXCEPT ![o][p] = qty]
    /\ cartReq' = Touch(cartReq, o, Waiting)
    /\ UNCHANGED shelf

RemoveItem(o, p) ==
    /\ cart[o][p] > 0
    /\ cart' = [cart EXCEPT ![o][p] = 0]
    /\ cartReq' = Touch(cartReq, o, Waiting)
    /\ UNCHANGED shelf

ClearCart(o) ==
    /\ cart' = [cart EXCEPT ![o] = NoLines]
    /\ cartReq' = Touch(cartReq, o, Waiting)
    /\ UNCHANGED shelf

(* mergeGuestCart reads the guest's lines outside its transaction ...      *)
MergeRead(r, u, g) ==
    /\ cartReq[r].step = "idle"
    /\ cart[g] # NoLines
    /\ cartReq' = [cartReq EXCEPT ![r] = [IdleCartReq EXCEPT
                      !.step = "mergeRead", !.owner = u, !.guest = g, !.lines = cart[g]]]
    /\ UNCHANGED <<cart, shelf>>

(* ... the customer's lines inside it ...                                  *)
MergeExisting(r) ==
    /\ cartReq[r].step = "mergeRead"
    /\ cartReq' = [cartReq EXCEPT ![r].step = "merging", ![r].seen = cart[cartReq[r].owner]]
    /\ UNCHANGED <<cart, shelf>>

Capped(n) == IF n > LineCap THEN LineCap ELSE n

(* ... and writes the sums, without looking at the stock.  A line that     *)
(* appeared since refuses the insert of the same line (its unique key) and *)
(* with it the whole merge; a line that went refuses the update.           *)
MergeWrite(r) ==
    /\ cartReq[r].step = "merging"
    /\ LET u == cartReq[r].owner
           refused == \E p \in Products :
               cartReq[r].lines[p] > 0 /\ (cartReq[r].seen[p] = 0) # (cart[u][p] = 0)
           merged == [p \in Products |->
                        IF cartReq[r].lines[p] = 0 THEN cart[u][p]
                        ELSE Capped(cartReq[r].seen[p] + cartReq[r].lines[p])]
       IN  cart' = IF refused THEN cart
                   ELSE [cart EXCEPT ![u] = merged, ![cartReq[r].guest] = NoLines]
    /\ cartReq' = [Touch(Touch(cartReq, cartReq[r].owner, Waiting), cartReq[r].guest, Waiting)
                    EXCEPT ![r] = IdleCartReq]
    /\ UNCHANGED shelf

CartStep ==
    \/ \E r \in CartRequests :
        \/ \E o \in Owners, p \in Products, qty \in 1..LineCap : AddLock(r, o, p, qty)
        \/ AddWrite(r)
        \/ \E u \in Accounts, g \in Guests : MergeRead(r, u, g)
        \/ MergeExisting(r)
        \/ MergeWrite(r)
    \/ \E o \in Owners :
        \/ ClearCart(o)
        \/ \E p \in Products : \/ RemoveItem(o, p)
                               \/ \E qty \in 0..LineCap : UpdateItemQuantity(o, p, qty)

----------------------------------------------------------------------------

UnitsInCarts(p) == SumFunction([o \in Owners |-> cart[o][p]])

AddedUp(r, p) ==
    LET o == cartReq[r].owner IN cart'[o][p] = cart[o][p] + cartReq[r].lines[p]

MovedOver(r, p) ==
    \/ UnitsInCarts(p)' = UnitsInCarts(p)
    \/ UnitsInCarts(p)' < UnitsInCarts(p) /\ cart'[cartReq[r].owner][p] = LineCap

(* An addition that takes effect adds what it asked for to what the cart   *)
(* then holds, whatever other additions overlap with it.  Signing in moves *)
(* units from the guest's cart to the customer's: a merge never leaves     *)
(* more units in the carts than were in them, and only loses what the cap  *)
(* of a line cuts off.  Both unless a request of another kind wrote one of *)
(* the carts meanwhile.                                                    *)
CartsAddUp ==
    [][\A r \in CartRequests : cartReq'[r].step = "idle" /\ ~cartReq[r].touched =>
        \A p \in Products : /\ cartReq[r].step = "adding" => AddedUp(r, p)
                            /\ cartReq[r].step = "merging" => MovedOver(r, p)]_cartVars
=============================================================================
