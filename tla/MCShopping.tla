------------------------------ MODULE MCShopping ------------------------------
(***************************************************************************)
(* The storefront's services and its basket for TLC, and how the console   *)
(* hears of its orders.  Parts that share no state are explored one at a   *)
(* time: the initial state picks the part, and the rest stays as it was.   *)
(***************************************************************************)
EXTENDS Checkout, Addresses, Pricing, Catalogue, CatalogueCache,
        Campaigns, Realtime, CartPage, Transport

CONSTANTS u1, g1, k1, k2, k3, k4, p1, p2, none, Parts

VARIABLE part

vars == <<part, shopVars, addressVars, pricingVars, catalogueVars, cacheVars, galleryVars,
          campaignVars, realtimeVars, basketVars, transportVars>>

MCCustomerOf == [k \in Pages |-> u1]
MCItemsOf == [k \in Pages |-> [p \in Products |-> IF k = k2 THEN 0 ELSE 1]]
MCCartOf == [k \in Pages |-> IF k = k1 THEN g1 ELSE u1]
MCShelf == [p \in Products |-> 2]

MCCoupons ==
    {[type |-> "PERCENTAGE", value |-> 10, max |-> m, min |-> 100, on |-> {}] : m \in {0, 4000}}
    \cup {[type |-> "FIXED_AMOUNT", value |-> 30000, max |-> 0, min |-> 0, on |-> s] :
            s \in {{}, {p1}}}

MCTtl == [k \in Views |-> IF k = "productList" THEN 1 ELSE 2]

(* Categories are created in order, and the first overlap ends the day.    *)
BornInOrder ==
    \A cd \in {<<"k1", "k2">>, <<"k2", "k3">>} : parent[cd[1]] = Unborn => parent[cd[2]] = Unborn

(* One of the clerks rewrites galleries.                                   *)
OneRewrites == task["y2"].kind # "rewrite"

(* The pages a part exercises, and the limits its coupon has.              *)
Active ==
    CASE part = "orders" -> {k1, k3}
      [] part = "carts" -> {k2}
      [] part = "coupons" -> {k3, k4}
      [] OTHER -> {}

(* One writing and two readings under one operator, and the readings under *)
(* two.                                                                    *)
TwoReadings ==
    /\ \A c \in ConsoleCalls : request[c] # Unmade => request[c].get = (c # "c1")
    /\ request["c3"] # Unmade => request["c2"] # Unmade
WritingPart == TransportStep /\ TwoReadings' /\ bearer'.owner # "u2" /\ era' <= 1
OwnersPart == TransportStep /\ TwoReadings' /\ request'["c1"] = Unmade /\ era' <= 2

Init ==
    /\ part \in Parts
    /\ CheckoutInit /\ (part # "coupons" => coupon.maxUses = 1 /\ coupon.perUserLimit = 1)
    /\ AddressInit
    /\ PricingInit
    /\ CatalogueInit /\ CacheInit /\ GalleryInit /\ CampaignInit
    /\ part # "pricing" => /\ code = NoCoupon
                           /\ basket = [p \in Goods |-> [price |-> CHOOSE x \in Prices : TRUE, quantity |-> 1]]
    /\ RealtimeInit
    /\ part = "hub" => \A x \in Changes : change[x].way # "silent"
    /\ change["x1"].at = "n1" /\ (part # "hub" => \A x \in Changes : change[x].at = "n1")
    /\ part \notin {"hub", "page"} => \A x \in Changes : change[x].way = "silent"
    /\ BasketInit /\ TransportInit
    /\ part # "voucher" => voucher = {}
    /\ part \notin {"basket", "voucher"} => who = "guest" /\ held = [i \in Identities |-> 0]

(* The way of an event to a console whose page reads nothing again and     *)
(* whose token stays good; and what a page makes of events on a single     *)
(* server, which publishes one before it tells of the next.                *)
HubPart ==
    /\ HubStep \/ (\E c \in Consoles : Hear(c)) \/ (StreamStep /\ UNCHANGED fetch)
    /\ \A c \in Consoles : stream'[c].fresh
PagePart ==
    /\ RealtimeStep /\ (\A i \in Processes : link'[i] # "up" /\ Len(chain'[i]) <= 1)
    /\ \A c \in Consoles : stream'[c].at # "n2"

(* Calls that overlap, without coupons, where a page without a token only  *)
(* adds and reads, and no quantity is set to one; and coupons while one     *)
(* customer's calls come one after the other.                              *)
BasketPart ==
    /\ BasketStep /\ asked' = {}
    /\ \A c \in Calls : call'[c].kind = "update" => call'[c].units # 1
    /\ who' = "customer" /\ token' = "none" => \A c \in Calls : call'[c].kind \notin {"update", "remove", "clear"}
VoucherPart ==
    /\ BasketStep /\ who' = who
    /\ \A c \in Calls : call'[c].at = "sent" => ~Free(c) \/ AtRest

ShopNext ==
    /\ \/ part = "carts" /\ CartStep /\ UNCHANGED <<couponVars, checkoutVars>>
       \/ part = "coupons" /\ DeskStep /\ UNCHANGED <<cartVars, shelf, checkoutVars>>
       \/ part \in {"orders", "carts", "coupons"} /\ CheckoutStep
    /\ \A k \in Pages \ Active : page'[k] = "open"
    /\ part = "orders" \/ \A k \in Pages : ~LoseAnswer(k)

Next ==
    /\ UNCHANGED part
    /\ IF part \in {"orders", "carts", "coupons"} THEN ShopNext ELSE UNCHANGED shopVars
    /\ IF part = "addresses" THEN AddressStep ELSE UNCHANGED addressVars
    /\ IF part = "pricing" THEN PricingStep ELSE UNCHANGED pricingVars
    /\ IF part = "catalogue" THEN CatalogueStep /\ ~overlapped /\ BornInOrder' ELSE UNCHANGED catalogueVars
    /\ IF part = "cache" THEN CacheStep ELSE UNCHANGED cacheVars
    /\ IF part = "gallery" THEN GalleryStep /\ OneRewrites' ELSE UNCHANGED galleryVars
    /\ IF part = "campaigns" THEN CampaignStep ELSE UNCHANGED campaignVars
    /\ IF part = "hub" THEN HubPart ELSE IF part = "page" THEN PagePart ELSE UNCHANGED realtimeVars
    /\ IF part = "basket" THEN BasketPart ELSE IF part = "voucher" THEN VoucherPart ELSE UNCHANGED basketVars
    /\ IF part = "writing" THEN WritingPart ELSE IF part = "owners" THEN OwnersPart ELSE UNCHANGED transportVars

Spec == Init /\ [][Next]_vars
=============================================================================
