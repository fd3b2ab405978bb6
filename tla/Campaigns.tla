------------------------------ MODULE Campaigns ------------------------------
(***************************************************************************)
(* A promotion: its row with the discount and the dates, the desk's        *)
(* partial updates, and the announcement to the customers' inboxes when it *)
(* goes live.                                                              *)
(***************************************************************************)
EXTENDS Naturals, FiniteSets

CONSTANTS
    Shoppers,       \* holders of the customer role
    PromoRequests,  \* requests of the promotions desk that may be under way at once
    MaxRemovals     \* notices of it that one shopper deletes

VARIABLES
    campaign,   \* the row; a value above 100 is "large"
    reachable,  \* shoppers whose account is active and not deleted
    inbox,      \* shoppers with a notice of it in the inbox
    promoReq,   \* per request: its next step and what it has read
    told,       \* history: notices written, per shopper
    removed,    \* history: notices deleted, per shopper
    misjudged   \* history: an update was checked against a row that had changed

campaignVars == <<campaign, reachable, inbox, promoReq, told, removed, misjudged>>

Kinds == {"PERCENTAGE", "FIXED_AMOUNT"}
Days == 1..2
Fields == [state: {"row"}, kind: Kinds, large: BOOLEAN, start: Days, end: Days, live: BOOLEAN]

(* What the schemas demand.                                                *)
Sound(c) == (c.kind = "PERCENTAGE" => ~c.large) /\ c.start <= c.end

NoPatch == [f \in {} |-> FALSE]
PromoIdle == [step |-> "idle", patch |-> NoPatch, stale |-> FALSE, to |-> {}, looked |-> {}]

CampaignInit ==
    /\ campaign = [state |-> "unborn", kind |-> "PERCENTAGE", large |-> FALSE, start |-> 1, end |-> 1, live |-> FALSE]
    /\ reachable = Shoppers
    /\ inbox = {}
    /\ promoReq = [q \in PromoRequests |-> PromoIdle]
    /\ told = [u \in Shoppers |-> 0]
    /\ removed = [u \in Shoppers |-> 0]
    /\ misjudged = FALSE

Exists == campaign.state = "row"
AtDesk(q, step) == promoReq[q].step = step

(* The row is written, and the request goes on; other updates under way    *)
(* were checked against an older row.                                      *)
Writes(q, row, next) ==
    /\ campaign' = row
    /\ promoReq' = [o \in PromoRequests |->
                      CASE o = q -> [PromoIdle EXCEPT !.step = next]
                        [] o # q /\ AtDesk(o, "update") -> [promoReq[o] EXCEPT !.stale = TRUE]
                        [] OTHER -> promoReq[o]]
    /\ UNCHANGED <<reachable, inbox, told, removed>>

After(live) == IF live THEN "announce" ELSE "idle"

CreatePromotion(q, fields) ==
    /\ AtDesk(q, "idle") /\ campaign.state = "unborn"
    /\ Sound(fields)
    /\ Writes(q, fields, After(fields.live))
    /\ UNCHANGED misjudged

(* Updates of one field.                                                   *)
Change(f, values) == {[x \in {f} |-> v] : v \in values}
Patches == Change("kind", Kinds) \cup Change("large", BOOLEAN) \cup Change("live", BOOLEAN)
           \cup Change("start", Days) \cup Change("end", Days)

(* What a PATCH makes of the row: the fields it names, over the others.    *)
Patched(row, patch) == [f \in DOMAIN row |-> IF f \in DOMAIN patch THEN patch[f] ELSE row[f]]

(* A slip: the request is checked alone, as the schema does.               *)
JudgesRequestAlone(patch) ==
    Sound(Patched([state |-> "row", kind |-> "FIXED_AMOUNT", large |-> FALSE, start |-> 1, end |-> 2, live |-> FALSE], patch))

(* updatePromotion checks the row as it would become ...                   *)
Acceptable(patch) == Sound(Patched(campaign, patch))

PatchLook(q, patch) ==
    /\ AtDesk(q, "idle") /\ Exists
    /\ Acceptable(patch)
    /\ promoReq' = [promoReq EXCEPT ![q] = [PromoIdle EXCEPT !.step = "update", !.patch = patch]]
    /\ UNCHANGED <<campaign, reachable, inbox, told, removed, misjudged>>

(* ... and writes the fields of the request; it announces nothing.         *)
PatchWrite(q) ==
    /\ AtDesk(q, "update") /\ Exists
    /\ Writes(q, Patched(campaign, promoReq[q].patch), "idle")
    /\ misjudged' = (misjudged \/ promoReq[q].stale)

TogglePromotion(q, live) ==
    /\ AtDesk(q, "idle") /\ Exists
    /\ Writes(q, [campaign EXCEPT !.live = live], After(live))
    /\ UNCHANGED misjudged

DeletePromotion(q) ==
    /\ AtDesk(q, "idle") /\ Exists
    /\ Writes(q, [campaign EXCEPT !.state = "gone"], "idle")
    /\ UNCHANGED misjudged

(* broadcastToRoleActors lists the customers it will tell.                 *)
Announce(q) ==
    /\ AtDesk(q, "announce")
    /\ promoReq' = [promoReq EXCEPT ![q] = [PromoIdle EXCEPT !.step = "tell", !.to = reachable]]
    /\ UNCHANGED <<campaign, reachable, inbox, told, removed, misjudged>>

(* emit, for each of them at once: a notice there already is enough ...    *)
EmitLook(q, u) ==
    /\ u \in promoReq[q].to
    /\ promoReq' = [promoReq EXCEPT ![q].to = @ \ {u},
                                    ![q].looked = IF u \in inbox THEN @ ELSE @ \cup {u}]
    /\ UNCHANGED <<campaign, reachable, inbox, told, removed, misjudged>>

(* ... or one is written, and the unique key refuses a second; the insert  *)
(* may fail, and nobody minds.                                             *)
EmitInsert(q, u, ok) ==
    /\ u \in promoReq[q].looked
    /\ promoReq' = [promoReq EXCEPT ![q].looked = @ \ {u}]
    /\ inbox' = IF ok THEN inbox \cup {u} ELSE inbox
    /\ told' = IF ok /\ u \notin inbox THEN [told EXCEPT ![u] = @ + 1] ELSE told
    /\ UNCHANGED <<campaign, reachable, removed, misjudged>>

AnnouncementDone(q) ==
    /\ AtDesk(q, "tell") /\ promoReq[q].to \cup promoReq[q].looked = {}
    /\ promoReq' = [promoReq EXCEPT ![q] = PromoIdle]
    /\ UNCHANGED <<campaign, reachable, inbox, told, removed, misjudged>>

(* The request fails or its process stops.                                 *)
PromoRequestDies(q) ==
    /\ ~AtDesk(q, "idle")
    /\ promoReq' = [promoReq EXCEPT ![q] = PromoIdle]
    /\ UNCHANGED <<campaign, reachable, inbox, told, removed, misjudged>>

(* The inbox row is also what keeps a second notice away.                  *)
RemoveNotice(u) ==
    /\ u \in inbox /\ removed[u] < MaxRemovals
    /\ inbox' = inbox \ {u}
    /\ removed' = [removed EXCEPT ![u] = @ + 1]
    /\ UNCHANGED <<campaign, reachable, promoReq, told, misjudged>>

Deactivate(u) ==
    /\ u \in reachable
    /\ reachable' = reachable \ {u}
    /\ UNCHANGED <<campaign, inbox, promoReq, told, removed, misjudged>>

CampaignStep ==
    \/ \E u \in Shoppers : RemoveNotice(u) \/ Deactivate(u)
    \/ \E q \in PromoRequests :
        \/ \E f \in Fields : CreatePromotion(q, f)
        \/ \E patch \in Patches : PatchLook(q, patch)
        \/ PatchWrite(q) \/ DeletePromotion(q) \/ Announce(q) \/ AnnouncementDone(q) \/ PromoRequestDies(q)
        \/ \E live \in BOOLEAN : TogglePromotion(q, live)
        \/ \E u \in Shoppers : EmitLook(q, u) \/ \E ok \in BOOLEAN : EmitInsert(q, u, ok)

CampaignSpec == CampaignInit /\ [][CampaignStep]_campaignVars

-----------------------------------------------------------------------------
(* Unless an update was checked against a row that another one changed     *)
(* before it was written, a percentage stays within 100 and the dates in   *)
(* order; and however often the desk announces, a customer gets a second   *)
(* notice only for having deleted the first.                               *)
CampaignHolds ==
    /\ Exists /\ ~misjudged => Sound(campaign)
    /\ \A u \in Shoppers : told[u] <= 1 + removed[u]
=============================================================================
