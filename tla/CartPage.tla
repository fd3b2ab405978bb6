------------------------------- MODULE CartPage -------------------------------
(***************************************************************************)
(* The basket a storefront page shows (src/frontend/src/context/           *)
(* CartContext.tsx), against the carts of the server: an optimistic        *)
(* overlay while calls are under way, answers applied in the order they    *)
(* arrive, the change of cart when somebody signs in or out, and a coupon  *)
(* that is quoted again for every cart that is applied.                    *)
(*                                                                         *)
(* The server handles a call in one step (Carts has the steps); the basket *)
(* holds one product, only this page writes its carts, and a call the page *)
(* has given up on is not handled afterwards (it waits a minute for it).   *)
(*                                                                         *)
(* The cart's routes take a call without a good access token for a         *)
(* guest's.  The page keeps the token in memory only and refreshes it when *)
(* a call is answered 401, which these routes do for a merge alone: a      *)
(* signed-in page may be answered with the guest's cart.                   *)
(***************************************************************************)
EXTENDS Naturals, FiniteSets

CONSTANTS
    MaxCalls,   \* calls that may be under way at once
    MaxLine,    \* units the server admits in a line
    QuotedFrom  \* units from which the coupon is valid

ASSUME CartPageAssumption == MaxCalls \in Nat \ {0} /\ MaxLine \in Nat /\ QuotedFrom \in Nat

VARIABLES
    who,        \* whom the page takes its user for
    token,      \* its access token: "good", or "none" that the server accepts
    held,       \* the server's carts, in units
    applied,    \* the cart last applied, none at first
    overlay,    \* the optimistic units, none at rest
    call,       \* per call: what it does and how far it is
    voucher,    \* the units the applied coupon was quoted for, none without coupon
    quote,      \* the units of the quotation under way that will be listened to
    asked,      \* the units of a coupon just entered
    strayed     \* history: what is shown was left wrong, and no later answer has mended it

Calls == 1..MaxCalls

basketVars == <<who, token, held, applied, overlay, call, voucher, quote, asked, strayed>>

Identities == {"guest", "customer"}
NoCall == [kind |-> "none", of |-> "guest", units |-> 0, at |-> "none", answer |-> 0,
           older |-> {}, overtaken |-> FALSE]

(* optionalAuth: whose cart a call reaches, whoever the page belongs to.   *)
Reached == IF token = "good" THEN "customer" ELSE "guest"

Sent(kind, i, n) == [NoCall EXCEPT !.kind = kind, !.of = i, !.units = n, !.at = "sent"]
Free(c) == call[c] = NoCall
(* Calls under way are interchangeable: a new one takes the first place.   *)
FirstFree(c) == Free(c) /\ \A d \in Calls : d < c => ~Free(d)
AtRest == \A c \in Calls : Free(c)

ShownUnits == IF applied = {} THEN 0 ELSE (CHOOSE s \in applied : TRUE).units
SeenUnits == IF overlay = {} THEN ShownUnits ELSE CHOOSE n \in overlay : TRUE

(* A provider that mounts reads the cart, and finds an identity that is    *)
(* new to it: a signed-in one makes it merge, a guest's read once more.    *)
(* After a reload the page knows its user, and has no token yet.           *)
BasketInit ==
    /\ who \in Identities /\ token = "none"
    /\ held \in [Identities -> {0, 1}]
    /\ applied = {} /\ overlay = {}
    /\ call = [c \in Calls |-> CASE c = 1 -> Sent("get", "guest", 0)
                                 [] c = 2 -> Sent(IF who = "guest" THEN "get" ELSE "merge", "guest", 0)
                                 [] OTHER -> NoCall]
    /\ voucher \in {{}, {1}} /\ quote = {} /\ asked = {}
    /\ strayed = FALSE

----------------------------------------------------------------------------
(* What the customer does.                                                 *)

(* One call under way may be overtaken by the next: nothing disables the   *)
(* buttons.                                                                *)
Mutate(c, kind, n, seen) ==
    /\ FirstFree(c)
    /\ overlay' = {seen}
    /\ call' = [call EXCEPT ![c] = Sent(kind, Reached, n)]
    /\ UNCHANGED <<who, token, held, applied, asked, strayed>>

Add(c) ==
    /\ Mutate(c, "add", 1, IF SeenUnits < MaxLine THEN SeenUnits + 1 ELSE MaxLine)
    /\ UNCHANGED <<voucher, quote>>

UpdateQuantity(c, n) ==
    /\ SeenUnits > 0
    /\ Mutate(c, "update", n, n)
    /\ UNCHANGED <<voucher, quote>>

RemoveLine(c) ==
    /\ SeenUnits > 0
    /\ Mutate(c, "remove", 0, 0)
    /\ UNCHANGED <<voucher, quote>>

(* clear drops the coupon too, and with it the quotation under way.        *)
Clear(c) ==
    /\ Mutate(c, "clear", 0, 0)
    /\ voucher' = {} /\ quote' = {}

(* Signing in merges the guest's cart; signing out, or the end of the      *)
(* session, turns to the guest's.                                          *)
SwitchIdentity(c) ==
    /\ FirstFree(c)
    /\ who' = IF who = "guest" THEN "customer" ELSE "guest"
    /\ token' = IF who = "guest" THEN "good" ELSE "none"
    /\ call' = [call EXCEPT ![c] = Sent(IF who = "guest" THEN "merge" ELSE "get", who', 0)]
    /\ UNCHANGED <<held, applied, overlay, voucher, quote, asked, strayed>>

(* The access token expires, which is as good as none to the cart's        *)
(* routes.  A call on its way counts as sent afterwards.                   *)
AccessLapses ==
    /\ token = "good" /\ token' = "none"
    /\ UNCHANGED <<who, held, applied, overlay, call, voucher, quote, asked, strayed>>

(* The session is restored after a reload, or refreshed after a 401 of     *)
(* another route.  The user is the same: the cart is not read again.       *)
AccessRestored ==
    /\ who = "customer" /\ token = "none" /\ token' = "good"
    /\ UNCHANGED <<who, held, applied, overlay, call, voucher, quote, asked, strayed>>

----------------------------------------------------------------------------
(* What the server does.  A merge adds up, as far as the cap allows.       *)

Refused(k) ==
    \/ k.kind = "add" /\ held[k.of] + k.units > MaxLine
    \/ k.kind \in {"update", "remove"} /\ held[k.of] = 0
    \/ k.kind = "merge" /\ k.of = "guest"

UpToCap(n) == IF n > MaxLine THEN MaxLine ELSE n

Effect(k) ==
    CASE k.kind = "add" -> [held EXCEPT ![k.of] = @ + k.units]
      [] k.kind = "update" -> [held EXCEPT ![k.of] = k.units]
      [] k.kind \in {"remove", "clear"} -> [held EXCEPT ![k.of] = 0]
      [] k.kind = "merge" -> [guest |-> 0, customer |-> UpToCap(held.guest + held.customer)]
      [] k.kind = "get" -> held

(* The calls still unanswered when a later one was handled are older.      *)
Serve(c) ==
    LET k == call[c] IN
    /\ k.at = "sent" /\ ~Refused(k)
    /\ held' = Effect(k)
    /\ call' = [call EXCEPT ![c].at = "served", ![c].answer = Effect(k)[k.of],
                            ![c].older = {d \in Calls \ {c} : call[d].at = "served"}]
    /\ UNCHANGED <<who, token, applied, overlay, voucher, quote, asked, strayed>>

----------------------------------------------------------------------------
(* What the page makes of answers.                                         *)

(* A slip: the quotation under way is not given up when the cart changes.  *)
StaleQuotation(n, coupon) ==
    quote' = IF coupon = {} \/ n = 0 THEN {} ELSE IF quote # {} THEN quote ELSE {n}

(* Each cart and each coupon that is applied starts a quotation, and the   *)
(* one under way is not listened to any more.                              *)
Requotes(n, coupon) == quote' = IF coupon = {} \/ n = 0 THEN {} ELSE {n}

Finished(c) ==
    [d \in Calls |->
        IF d = c THEN NoCall
        ELSE [call[d] EXCEPT !.overtaken = @ \/ d \in call[c].older, !.older = @ \ {c}]]

(* applyServer, whatever has been applied meanwhile and whoever the page   *)
(* belongs to now.                                                         *)
ApplyServer(c) ==
    /\ call[c].at = "served"
    /\ applied' = {[of |-> call[c].of, units |-> call[c].answer]}
    /\ overlay' = {}
    /\ strayed' = (call[c].overtaken \/ call[c].of # who)
    /\ call' = Finished(c)
    /\ Requotes(call[c].answer, voucher)
    /\ UNCHANGED <<who, token, held, voucher, asked>>

(* A slip: a call that failed leaves its overlay behind.                   *)
WithoutReconcile(kind) == FALSE

(* A failed change or merge reads the cart again; a failed reading is left *)
(* at that.                                                                *)
Reconciles(kind) == kind # "get"

(* The call is refused or lost, or its answer is.                          *)
Fails(c) ==
    /\ ~Free(c)
    /\ IF Reconciles(call[c].kind)
       THEN /\ call' = [Finished(c) EXCEPT ![c] = Sent("get", Reached, 0)]
            /\ UNCHANGED strayed
       ELSE /\ call' = Finished(c)
            /\ strayed' = (strayed \/ call[c].kind = "get")
    /\ UNCHANGED <<who, token, held, applied, overlay, voucher, quote, asked>>

(* The quotation for the cart that was applied: the coupon is dropped,     *)
(* replaced, or kept.  validate turns a failed request into a refusal too. *)
QuoteArrives ==
    /\ quote # {}
    /\ \E new \in {{}} \cup {{n} : n \in {m \in quote : m >= QuotedFrom}} :
        /\ voucher' = new
        /\ IF new \in {voucher, {}} THEN quote' = {} ELSE Requotes(ShownUnits, new)
    /\ UNCHANGED <<who, token, held, applied, overlay, call, asked, strayed>>

(* applyCoupon asks for what the customer sees, and takes the answer.      *)
ApplyCoupon ==
    /\ asked = {} /\ SeenUnits > 0
    /\ asked' = {SeenUnits}
    /\ UNCHANGED <<who, token, held, applied, overlay, call, voucher, quote, strayed>>

CouponArrives ==
    /\ asked # {}
    /\ IF \A n \in asked : n >= QuotedFrom
       THEN voucher' = asked /\ (IF applied = {} THEN UNCHANGED quote ELSE Requotes(ShownUnits, asked))
       ELSE UNCHANGED <<voucher, quote>>
    /\ asked' = {}
    /\ UNCHANGED <<who, token, held, applied, overlay, call, strayed>>

RemoveCoupon ==
    /\ voucher # {}
    /\ voucher' = {} /\ quote' = {}
    /\ UNCHANGED <<who, token, held, applied, overlay, call, asked, strayed>>

BasketStep ==
    \/ \E c \in Calls :
        \/ Add(c) \/ RemoveLine(c) \/ Clear(c) \/ SwitchIdentity(c)
        \/ \E n \in 0..MaxLine : UpdateQuantity(c, n)
        \/ Serve(c) \/ ApplyServer(c) \/ Fails(c)
    \/ AccessLapses \/ AccessRestored
    \/ QuoteArrives \/ ApplyCoupon \/ CouponArrives \/ RemoveCoupon

BasketSpec == BasketInit /\ [][BasketStep]_basketVars

----------------------------------------------------------------------------
(* "Optimistic updates never outlive the failed request": when no call is  *)
(* under way, the page shows the server's cart of the one it belongs to,   *)
(* and no overlay, whatever was refused or lost.  Only an answer that      *)
(* arrived after that of a later call, a reading that failed, or an answer *)
(* from the other one's cart can leave it wrong, until the next answer.    *)
(* The last is what a reload does to a signed-in page: its readings go out *)
(* before the session is restored, the merge is refused, and it may rest   *)
(* on the guest's cart, as it may after its token has lapsed.              *)
PageShowsCart ==
    AtRest /\ ~strayed => overlay = {} /\ applied = {[of |-> who, units |-> held[who]]}

(* A coupon is subtracted as quoted for the cart that is shown, whenever   *)
(* it was entered or stored, once no quotation is under way.               *)
CouponFitsCart ==
    applied # {} /\ ShownUnits > 0 /\ quote = {} => voucher \in {{}, {ShownUnits}}

BasketHolds == PageShowsCart /\ CouponFitsCart
=============================================================================
