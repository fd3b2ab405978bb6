-------------------------------- MODULE Reviews -------------------------------
(***************************************************************************)
(* The reviews of one product, their moderation, and the count and average *)
(* that the product row caches for its card (services/content.service.ts). *)
(* The cached pair is derived by two queries after the write of the        *)
(* verdict, and stored by a third statement, none of it in a transaction;  *)
(* the console's product form sends the pair back as it loaded it.         *)
(***************************************************************************)
EXTENDS Naturals, FiniteSets

CONSTANTS
    Authors,        \* customers
    ReviewIds,      \* reviews that may ever be written
    ReviewRequests  \* requests, of customers and of the desk, that may be under way at once

VARIABLES
    review,     \* per id: its state and its author
    card,       \* the product's pair, each as the set of reviews it was derived from
    reviewReq,  \* per request: what it is about to do, and what it has read
    astray,     \* history: the card was put at risk since it was last derived undisturbed
    hasty       \* history: authors two of whose submissions were under way at once

reviewVars == <<review, card, reviewReq, astray, hasty>>

ReviewStates == {"none", "pending", "approved", "rejected", "deleted"}
Verdicts == {"approved", "rejected"}
Queries == {"count", "average"}

Stored == {r \in ReviewIds : review[r].state \notin {"none", "deleted"}}
By(a) == {r \in Stored : review[r].author = a}

(* What the storefront lists.                                              *)
Approved == {r \in ReviewIds : review[r].state = "approved"}

NoReview == [kind |-> "none"]
Refreshing(q) == reviewReq[q].kind = "refresh"

ReviewsInit ==
    /\ review \in [ReviewIds -> [state : {"none"}, author : Authors]]
    /\ card = [counted |-> {}, rated |-> {}]
    /\ reviewReq = [q \in ReviewRequests |-> NoReview]
    /\ astray = FALSE
    /\ hasty = {}

Becomes(q, to) == reviewReq' = [reviewReq EXCEPT ![q] = to]

----------------------------------------------------------------------------
(* A customer submits: one review per product and author, whatever became  *)
(* of it, is all that is allowed; no key of the table says so.             *)

SubmitCheck(q, a) ==
    /\ reviewReq[q] = NoReview
    /\ By(a) = {}
    /\ Becomes(q, [kind |-> "submit", author |-> a])
    /\ hasty' = IF \E o \in ReviewRequests : reviewReq[o] = [kind |-> "submit", author |-> a]
                THEN hasty \cup {a} ELSE hasty
    /\ UNCHANGED <<review, card, astray>>

SubmitCreate(q, r) ==
    /\ reviewReq[q].kind = "submit"
    /\ review[r].state = "none" /\ review[r].author = reviewReq[q].author
    /\ review' = [review EXCEPT ![r].state = "pending"]
    /\ Becomes(q, NoReview)
    /\ UNCHANGED <<card, astray, hasty>>

----------------------------------------------------------------------------
(* The desk.                                                               *)

(* The derivations under way, of which a change of the approved set takes  *)
(* no notice.                                                              *)
Disturbed == [o \in ReviewRequests |->
                IF Refreshing(o) THEN [reviewReq[o] EXCEPT !.alone = FALSE] ELSE reviewReq[o]]

(* A slip: the pair is derived anew for approvals only.                    *)
OnlyApprovals(verdict) == verdict = "approved"

Recomputes(verdict) == verdict \in Verdicts

(* The verdict is written at once, and may be changed as often as wanted.  *)
Moderate(q, r, verdict) ==
    /\ reviewReq[q] = NoReview
    /\ r \in Stored
    /\ review' = [review EXCEPT ![r].state = verdict]
    /\ reviewReq' = [Disturbed EXCEPT ![q] =
                        IF Recomputes(verdict)
                        THEN [kind |-> "refresh", todo |-> Queries, counted |-> {}, rated |-> {}, alone |-> TRUE]
                        ELSE @]
    /\ UNCHANGED <<card, astray, hasty>>

CountApproved(q) ==
    /\ Refreshing(q) /\ "count" \in reviewReq[q].todo
    /\ Becomes(q, [reviewReq[q] EXCEPT !.todo = @ \ {"count"}, !.counted = Approved])
    /\ UNCHANGED <<review, card, astray, hasty>>

AverageApproved(q) ==
    /\ Refreshing(q) /\ "average" \in reviewReq[q].todo
    /\ Becomes(q, [reviewReq[q] EXCEPT !.todo = @ \ {"average"}, !.rated = Approved])
    /\ UNCHANGED <<review, card, astray, hasty>>

StoreCard(q) ==
    /\ Refreshing(q) /\ reviewReq[q].todo = {}
    /\ card' = [counted |-> reviewReq[q].counted, rated |-> reviewReq[q].rated]
    /\ astray' = ~reviewReq[q].alone
    /\ Becomes(q, NoReview)
    /\ UNCHANGED <<review, hasty>>

(* A deletion derives nothing.                                             *)
DeleteReview(r) ==
    /\ r \in Stored
    /\ review' = [review EXCEPT ![r].state = "deleted"]
    /\ IF r \in Approved
       THEN reviewReq' = Disturbed /\ astray' = TRUE
       ELSE UNCHANGED <<reviewReq, astray>>
    /\ UNCHANGED <<card, hasty>>

(* The product form keeps the pair of the list it was opened from, and     *)
(* every save, whatever was edited, puts it back.                          *)
OpenForm(q) ==
    /\ reviewReq[q] = NoReview
    /\ Becomes(q, [kind |-> "form", loaded |-> card])
    /\ UNCHANGED <<review, card, astray, hasty>>

SaveForm(q) ==
    /\ reviewReq[q].kind = "form"
    /\ card' = reviewReq[q].loaded
    /\ astray' = (astray \/ card' # card)
    /\ Becomes(q, NoReview)
    /\ UNCHANGED <<review, hasty>>

(* A request ends between two statements, or a form is closed.             *)
ReviewDrop(q) ==
    /\ reviewReq[q] # NoReview
    /\ astray' = (astray \/ Refreshing(q))
    /\ Becomes(q, NoReview)
    /\ UNCHANGED <<review, card, hasty>>

ReviewStep ==
    \/ \E q \in ReviewRequests :
        \/ CountApproved(q) \/ AverageApproved(q) \/ StoreCard(q)
        \/ OpenForm(q) \/ SaveForm(q) \/ ReviewDrop(q)
        \/ \E a \in Authors : SubmitCheck(q, a)
        \/ \E r \in ReviewIds :
            \/ SubmitCreate(q, r)
            \/ \E verdict \in Verdicts : Moderate(q, r, verdict)
    \/ \E r \in ReviewIds : DeleteReview(r)

ReviewsSpec == ReviewsInit /\ [][ReviewStep]_reviewVars

----------------------------------------------------------------------------
(* "The store card, detail page and filter counts never disagree with the  *)
(* review list": once no derivation is under way, both halves of the pair  *)
(* are of the approved reviews.  A deletion, a derivation that another     *)
(* change overlapped or that stopped, and a form opened before the pair    *)
(* changed can put it wrong, and only until one that nothing disturbs.     *)
CardIsCurrent ==
    (\A q \in ReviewRequests : ~Refreshing(q)) /\ ~astray =>
        card.counted = Approved /\ card.rated = Approved

(* One review per author, except one who submitted twice at the same time. *)
OneReviewPerAuthor ==
    \A r1, r2 \in Stored : review[r1].author = review[r2].author /\ review[r1].author \notin hasty => r1 = r2

ReviewsHold == CardIsCurrent /\ OneReviewPerAuthor
=============================================================================
