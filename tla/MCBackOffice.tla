----------------------------- MODULE MCBackOffice -----------------------------
(***************************************************************************)
(* The services behind the shop, for TLC.  They share no state, and are    *)
(* explored one at a time: the initial state picks the part.               *)
(***************************************************************************)
EXTENDS Sessions, Staff, Tickets, Notices, Invoices, Suppression,
        GatewaySettings, Passwords, OrderMail, RateLimits, TLC

CONSTANTS Parts

VARIABLE part

vars == <<part, sessionVars, staffVars, ticketVars, noticeVars, invoiceVars, suppressionVars,
          gatewayVars, passwordVars, orderMailVars, rateVars, intakeVars>>

MCBrowserOf == [t \in Tabs |-> IF t \in {"t1", "t2"} THEN "b1" ELSE "b2"]

(* Two tabs of the console, two of the storefront, or one of each.         *)
TabsOf(p) ==
    CASE p = "console" -> {"t1", "t2"} [] p = "storefront" -> {"t3", "t4"} [] p = "devices" -> {"t1", "t3"}
      [] OTHER -> {}

MCTicketOf == [e \in Events |-> "t1"]

FirstMessage == [status |-> "NEW", spam |-> FALSE, account |-> TRUE, ticket |-> NoTicket]

(* An update of an account changes its role or its standing.               *)
OneChange ==
    \A d \in StaffRequests :
        staffReq[d].kind = "update" => "keep" \in {staffReq[d].role, staffReq[d].standing}

(* Tickets are alike, and so are events: the first ones are filed first,   *)
(* and the first ones get their rows first.                                *)
TicketsInOrder == (Filed("t3") => Filed("t2")) /\ (Filed("t2") => Filed("t1"))
OneTicket == \A t \in TicketIds \ {"t1"} : ~Filed(t)
EventsInOrder ==
    \A p \in {<<"e1", "e2">>, <<"e2", "e3">>, <<"e3", "e4">>} : notice[p[2]] # "none" => notice[p[1]] # "none"

(* One order is cancelled at most, the second of the two that are alike is *)
(* settled or cancelled after the first, and the desk works on the first   *)
(* invoice.                                                                *)
QuietBooks ==
    /\ sale["s3"].status # "PENDING_PAYMENT" => sale["s2"].status # "PENDING_PAYMENT"
    /\ Cardinality({o \in Sales : sale[o].status = "CANCELLED"}) <= 1
    /\ \A r \in invoices : r.cancelled \/ r.archived => r.number = 1 /\ ~(r.cancelled /\ r.archived)
    /\ Cardinality(unfinished) <= 1

(* The switches: online payment and cash are switched together.  Either    *)
(* one server holds a copy at all, saves name pairs, one form may be sent  *)
(* to the other server, and it alone knows the second pair; or no server   *)
(* holds a copy, the other one takes no saves, and they name what they     *)
(* like.                                                                   *)
QuietGateway ==
    /\ ~mixed
    /\ \A f \in Forms : form'[f].step = "row" => form'[f].row.cod = ~form'[f].row.online
PairsInCopies ==
    /\ \A f \in Forms : form'[f].names # "half"
    /\ form'["f1"].at # "n2" /\ form'["f1"].row.key # "p2"
    /\ ~session'["n2"].held /\ ~reading'["n2"].held
HalvesWithoutCopies ==
    /\ \A f \in Forms : form'[f].at # "n2"
    /\ \A i \in Servers : ~session'[i].held /\ ~reading'[i].held

HooksInTurn ==
    /\ hook["h2"] # NotCalled => hook["h1"] # NotCalled /\ hook["h1"].host = "n1"
    /\ hook["h3"] # NotCalled => hook["h2"] # NotCalled

(* The first call that changes the list runs on the first instance.        *)
CallsInTurn == change["b1"] # NoChange => change["b1"].at = "n1" /\ change["b1"].of.kind # "consult"

(* Two limiters; the requests come to a server each, and only the commands *)
(* of the first one fail.                                                  *)
MCRoute == <<"api", "auth">>
MCMaxHits == [b \in {"api", "auth"} |-> IF b = "api" THEN 2 ELSE 1]
QuietStore ==
    /\ \A b \in Limiters : hits[b] <= MaxHits[b] + 1
    /\ stray["api"] + stray["auth"] <= 1
    /\ ~VisitAt("v2", "loading")
    /\ \A c \in Visits : visit[c] # Away => visit[c].server = (IF c = "v1" THEN "n1" ELSE "n2")

(* Three enquiries, of which one at a time is told to the staff; the       *)
(* second text is sent from one address and is not the first that is       *)
(* stored, and a day passes after the first.                               *)
MCSignals == {{"quick"}, {"quick", "noAgent"}}
FewEnquiries ==
    /\ contactRows # <<>> => contactRows[1].text = "m1"
    /\ Len(contactRows) + Cardinality({q \in Enquiries : enquiry[q].step \in {"scored", "judged"}}) <= 3
    /\ \A q \in Enquiries : AsksAt(q, "scored") /\ enquiry[q].text = "m2" =>
            enquiry[q].origin = "a1" /\ enquiry[q].signals = {"quick"}
    /\ Cardinality({q \in Enquiries : enquiry[q].step \in {"stored", "mailed"}}) <= 1
DayAfterFirst ==
    today' # today => Len(contactRows) = 1 /\ \A q \in Enquiries : enquiry[q].step \in {"idle", "judged"}

Init ==
    /\ part \in Parts
    /\ SessionsInit
    /\ StaffInit
    /\ NoticesInit
    /\ InvoicesInit /\ {o \in Sales : sale[o].cash} = {"s1"}
    /\ SuppressionInit
    /\ GatewayInit
    /\ PasswordsInit /\ (part # "passwords" => ~isStaff /\ password = [phrase |-> "p0", legacy |-> FALSE])
    /\ TicketsInit /\ (part # "triage" => contact = [c \in Contacts |-> FirstMessage])
    /\ OrderMailInit /\ (part # "orderMail" => ~bounced)
    /\ RateInit /\ (part # "limits" => reachable)
    /\ IntakeInit

Next ==
    /\ UNCHANGED part
    /\ IF part \in {"console", "storefront", "devices"}
       THEN SessionsStep /\ \A t \in Tabs \ TabsOf(part) : call'[t] = Idle
       ELSE UNCHANGED sessionVars
    /\ IF part = "staff" THEN StaffStep /\ OneChange' ELSE UNCHANGED staffVars
    /\ IF part \in {"tickets", "triage"}
       THEN \/ part = "tickets" /\ Answering /\ OneTicket'
            \/ part = "triage" /\ Triaging /\ TicketsInOrder'
       ELSE UNCHANGED ticketVars
    /\ IF part = "notices" THEN NoticesNext /\ EventsInOrder' ELSE UNCHANGED noticeVars
    /\ IF part = "invoices" THEN InvoiceStep /\ QuietBooks' ELSE UNCHANGED invoiceVars
    /\ IF part = "suppression" THEN SuppressionStep /\ ~clobbered /\ CallsInTurn' ELSE UNCHANGED suppressionVars
    /\ IF part \in {"switches", "halves"}
       THEN GatewayStep /\ QuietGateway /\ (IF part = "switches" THEN PairsInCopies ELSE HalvesWithoutCopies)
       ELSE UNCHANGED gatewayVars
    /\ IF part = "passwords" THEN PasswordsStep /\ (crossed = {} \/ UNCHANGED crossed) ELSE UNCHANGED passwordVars
    /\ IF part = "orderMail" THEN OrderMailStep /\ HooksInTurn' ELSE UNCHANGED orderMailVars
    /\ IF part = "limits" THEN RateStep /\ QuietStore' ELSE UNCHANGED rateVars
    /\ IF part = "intake" THEN IntakeStep /\ FewEnquiries' /\ DayAfterFirst ELSE UNCHANGED intakeVars

Spec == Init /\ [][Next]_vars
=============================================================================
