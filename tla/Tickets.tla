------------------------------ MODULE Tickets ------------------------------
(***************************************************************************)
(* Support tickets and the contact messages they may come from.  A handler *)
(* loads the row, decides from what it loaded, and writes later; most of   *)
(* them never consult the transition table the status desk enforces.       *)
(* Below, the public contact form that contact messages come in by: an     *)
(* enquiry is scored by its text, compared with the enquiries of the last  *)
(* day, stored with the verdict, and only an accepted one is mailed to the *)
(* staff and shown in their inbox.                                         *)
(***************************************************************************)
EXTENDS Naturals, Sequences, FiniteSets, Functions

CONSTANTS
    TicketIds, Contacts,
    NoTicket,
    TicketRequests,     \* handlers that may be at work at once
    MaxReopens          \* bound on how often a ticket is reopened

VARIABLES
    ticket,     \* rows of support_tickets; dates are kept as set or not
    contact,    \* rows of contact_submissions
    origin,     \* the contact message a ticket was escalated from, or none
    ticketReq,  \* handlers between their read and their write
    overtaken   \* tickets an answer took up that were closed after it had
                \* loaded them, and messages filed after their check

ticketVars == <<ticket, contact, origin, ticketReq, overtaken>>

TicketStatuses == {"OPEN", "IN_PROGRESS", "WAITING_FOR_CUSTOMER", "RESOLVED", "CLOSED"}

(* TICKET_STATUS_TRANSITIONS.                                              *)
TicketTransitions ==
    [OPEN |-> {"IN_PROGRESS", "WAITING_FOR_CUSTOMER", "RESOLVED", "CLOSED"},
     IN_PROGRESS |-> {"WAITING_FOR_CUSTOMER", "RESOLVED", "CLOSED"},
     WAITING_FOR_CUSTOMER |-> {"IN_PROGRESS", "RESOLVED", "CLOSED"},
     RESOLVED |-> {"CLOSED", "IN_PROGRESS", "OPEN"},
     CLOSED |-> {"OPEN"}]

NoHandler == [kind |-> "idle"]
NoMessage == "none"

(* Identifiers of two tables are never the same.                           *)
ASSUME TicketsAssumption == NoTicket \notin TicketIds /\ NoMessage \notin Contacts /\ TicketIds \cap Contacts = {}

Absent == [status |-> "ABSENT"]
Filed(t) == ticket[t] # Absent
NewTicket == [status |-> "OPEN", resolved |-> FALSE, closed |-> FALSE, responded |-> FALSE, reopened |-> 0]

NewContact == [status : {"NEW"}, spam : BOOLEAN, account : BOOLEAN, ticket : {NoTicket}]

TicketsInit ==
    /\ ticket = [t \in TicketIds |-> Absent]
    /\ contact \in [Contacts -> NewContact]
    /\ origin = [t \in TicketIds |-> NoMessage]
    /\ ticketReq = [q \in TicketRequests |-> NoHandler]
    /\ overtaken = {}

LoadsTicket(q, t, r) ==
    /\ ticketReq[q] = NoHandler /\ Filed(t)
    /\ ticketReq' = [ticketReq EXCEPT ![q] = r]
    /\ UNCHANGED <<ticket, contact, origin, overtaken>>

(* Sets the fields the handler names, whatever the row has become.  What a *)
(* closure, a reopening or the status desk writes says itself whether the  *)
(* ticket is closed.                                                       *)
PatchesTicket(q, row) ==
    /\ ticket' = [ticket EXCEPT ![ticketReq[q].ticket] = row]
    /\ ticketReq' = [ticketReq EXCEPT ![q] = NoHandler]
    /\ UNCHANGED <<contact, origin>>

Settles(t) == overtaken' = overtaken \ {t}

CreateTicket(t) ==
    /\ ~Filed(t)
    /\ ticket' = [ticket EXCEPT ![t] = NewTicket]
    /\ UNCHANGED <<contact, origin, ticketReq, overtaken>>

ReplyLoad(q, t, staff) ==
    /\ ticket[t].status = "CLOSED" => staff
    /\ LoadsTicket(q, t, [kind |-> "reply", ticket |-> t, seen |-> ticket[t], staff |-> staff])

(* A slip: a staff answer takes up the ticket whatever its status.         *)
ReplyPatchReopens(seen, staff, row) ==
    IF staff THEN [row EXCEPT !.responded = TRUE, !.status = "IN_PROGRESS"]
    ELSE IF seen.status = "RESOLVED" THEN [row EXCEPT !.status = "IN_PROGRESS", !.resolved = FALSE]
    ELSE [row EXCEPT !.status = IF seen.status = "WAITING_FOR_CUSTOMER" THEN "IN_PROGRESS" ELSE @]

(* A staff answer takes up the ticket; a customer's takes it up again.     *)
ReplyPatch(seen, staff, row) ==
    LET waits == seen.status = "WAITING_FOR_CUSTOMER"
    IN  IF staff
        THEN [row EXCEPT !.responded = TRUE,
                         !.status = IF waits \/ seen.status = "OPEN" THEN "IN_PROGRESS" ELSE @]
        ELSE IF seen.status = "RESOLVED" THEN [row EXCEPT !.status = "IN_PROGRESS", !.resolved = FALSE]
        ELSE [row EXCEPT !.status = IF waits THEN "IN_PROGRESS" ELSE @]

ReplyWrite(q) ==
    LET r == ticketReq[q] IN
    /\ r.kind = "reply"
    /\ PatchesTicket(q, ReplyPatch(r.seen, r.staff, ticket[r.ticket]))
    /\ overtaken' = IF ticket[r.ticket].status = "CLOSED" /\ r.seen.status # "CLOSED"
                    THEN overtaken \cup {r.ticket} ELSE overtaken

CloseLoad(q, t) ==
    /\ ticket[t].status # "CLOSED"
    /\ LoadsTicket(q, t, [kind |-> "close", ticket |-> t, seen |-> ticket[t]])

CloseWrite(q) ==
    LET r == ticketReq[q] IN
    /\ r.kind = "close"
    /\ PatchesTicket(q, [ticket[r.ticket] EXCEPT !.status = "CLOSED", !.closed = TRUE, !.resolved = TRUE])
    /\ Settles(r.ticket)

ReopenLoad(q, t) ==
    /\ ticket[t].status = "CLOSED"
    /\ LoadsTicket(q, t, [kind |-> "reopen", ticket |-> t, seen |-> ticket[t]])

ReopenWrite(q) ==
    LET r == ticketReq[q] IN
    /\ r.kind = "reopen"
    /\ ticket[r.ticket].reopened < MaxReopens
    /\ PatchesTicket(q, [ticket[r.ticket] EXCEPT !.status = "OPEN", !.closed = FALSE, !.reopened = @ + 1])
    /\ Settles(r.ticket)

StatusLoad(q, t, s) ==
    /\ s \in TicketTransitions[ticket[t].status]
    /\ LoadsTicket(q, t, [kind |-> "status", ticket |-> t, seen |-> ticket[t], to |-> s])

(* The dates after a change of status from what was seen.                  *)
ResolvedAfter(seen, to, now) ==
    IF to = "RESOLVED" \/ (to = "CLOSED" /\ ~seen.resolved) THEN TRUE
    ELSE IF seen.status = "RESOLVED" THEN FALSE ELSE now

(* A slip: a reopened ticket keeps the note of who closed it.              *)
StatusPatchKeepsClosure(seen, to, row) ==
    [status |-> to,
     resolved |-> ResolvedAfter(seen, to, row.resolved),
     closed |-> to = "CLOSED" \/ row.closed,
     responded |-> row.responded \/ (to = "IN_PROGRESS" /\ ~seen.responded),
     reopened |-> row.reopened + (IF seen.status = "CLOSED" THEN 1 ELSE 0)]

StatusPatch(seen, to, row) ==
    [status |-> to,
     resolved |-> ResolvedAfter(seen, to, row.resolved),
     closed |-> to = "CLOSED",
     responded |-> row.responded \/ (to = "IN_PROGRESS" /\ ~seen.responded),
     reopened |-> row.reopened + (IF seen.status = "CLOSED" THEN 1 ELSE 0)]

StatusWrite(q) ==
    LET r == ticketReq[q] IN
    /\ r.kind = "status"
    /\ ticket[r.ticket].reopened < MaxReopens
    /\ PatchesTicket(q, StatusPatch(r.seen, r.to, ticket[r.ticket]))
    /\ Settles(r.ticket)

----------------------------------------------------------------------------
(* Triage: the message's status is written first; escalation may then be   *)
(* refused, and the status stays.                                          *)
Triage(q, c, s, link) ==
    /\ ticketReq[q] = NoHandler
    /\ contact' = [contact EXCEPT ![c].status = s]
    /\ ticketReq' = [ticketReq EXCEPT ![q] = IF link = "none" THEN NoHandler
                        ELSE [kind |-> IF link = "escalate" THEN "check" ELSE "link", contact |-> c]]
    /\ UNCHANGED <<ticket, origin, overtaken>>

LinkTicket(q, t) ==
    LET c == ticketReq[q].contact IN
    /\ ticketReq[q].kind = "link"
    /\ Filed(t)
    /\ \A d \in Contacts \ {c} : contact[d].ticket # t
    /\ contact' = [contact EXCEPT ![c].ticket = t]
    /\ ticketReq' = [ticketReq EXCEPT ![q] = NoHandler]
    /\ UNCHANGED <<ticket, origin, overtaken>>

(* A slip: the message is escalated again although it has its ticket.      *)
MayEscalateAgain(c) == ~contact[c].spam /\ contact[c].account

MayEscalate(c) == contact[c].ticket = NoTicket /\ ~contact[c].spam /\ contact[c].account

EscalateCheck(q) ==
    LET c == ticketReq[q].contact IN
    /\ ticketReq[q].kind = "check"
    /\ ticketReq' = [ticketReq EXCEPT ![q] =
            IF MayEscalate(c) THEN [kind |-> "escalate", contact |-> c, seen |-> contact[c].ticket] ELSE NoHandler]
    /\ UNCHANGED <<ticket, contact, origin, overtaken>>

Escalate(q, t) ==
    LET c == ticketReq[q].contact IN
    /\ ticketReq[q].kind = "escalate"
    /\ ~Filed(t)
    /\ ticket' = [ticket EXCEPT ![t] = NewTicket]
    /\ contact' = [contact EXCEPT ![c].ticket = t]
    /\ origin' = [origin EXCEPT ![t] = c]
    /\ overtaken' = IF contact[c].ticket # ticketReq[q].seen THEN overtaken \cup {c} ELSE overtaken
    /\ ticketReq' = [ticketReq EXCEPT ![q] = NoHandler]

(* A handler that dies, or answers an error, before it writes.             *)
TicketDrop(q) ==
    /\ ticketReq[q] # NoHandler
    /\ ticketReq' = [ticketReq EXCEPT ![q] = NoHandler]
    /\ UNCHANGED <<ticket, contact, origin, overtaken>>

Answering ==
    \/ \E t \in TicketIds : CreateTicket(t)
    \/ \E q \in TicketRequests :
        \/ ReplyWrite(q) \/ CloseWrite(q) \/ ReopenWrite(q) \/ StatusWrite(q) \/ TicketDrop(q)
        \/ \E t \in TicketIds : Filed(t) /\
            \/ CloseLoad(q, t) \/ ReopenLoad(q, t)
            \/ \E staff \in BOOLEAN : ReplyLoad(q, t, staff)
            \/ \E s \in TicketStatuses : StatusLoad(q, t, s)

Triaging ==
    \E q \in TicketRequests :
        \/ EscalateCheck(q) \/ TicketDrop(q)
        \/ \E t \in TicketIds : CreateTicket(t) \/ Escalate(q, t) \/ LinkTicket(q, t)
        \/ \E c \in Contacts, s \in {"TRIAGED", "ARCHIVED"}, link \in {"none", "escalate", "ticket"} :
            Triage(q, c, s, link)

TicketsSpec == TicketsInit /\ [][Answering \/ Triaging]_ticketVars

----------------------------------------------------------------------------
(* A reply, a reopening or a change of status is carried out that loaded   *)
(* another row than it now writes over.                                    *)
WrittenLate(t) ==
    \E q \in TicketRequests :
        /\ ticketReq[q].kind \in {"reply", "reopen", "status"} /\ ticketReq[q].ticket = t
        /\ ticketReq[q].seen # ticket[t] /\ ticketReq'[q] = NoHandler

(* Replies, closures and reopenings, which do not look at the table, move  *)
(* a ticket only as the table allows; and every way back from CLOSED is    *)
(* counted, and nothing else is.  A closure does so however late it comes; *)
(* the others do not when the row changed after they loaded it.            *)
HandlersFollowTable ==
    [][\A t \in TicketIds : Filed(t) =>
        \/ WrittenLate(t)
        \/ /\ ticket'[t].status = ticket[t].status
              \/ ticket'[t].status \in TicketTransitions[ticket[t].status]
           /\ ticket'[t].reopened - ticket[t].reopened =
               IF ticket[t].status = "CLOSED" /\ ticket'[t].status # "CLOSED" THEN 1 ELSE 0]_ticketVars

(* A closed ticket says who closed it and why, however handlers overlap;   *)
(* and no other ticket does, but one that was closed while an answer to it *)
(* was on its way, until it is next closed, reopened or given a status.    *)
ClosureIsShown ==
    \A t \in TicketIds : Filed(t) =>
        /\ ticket[t].status = "CLOSED" => ticket[t].closed
        /\ ticket[t].closed => ticket[t].status = "CLOSED" \/ t \in overtaken

(* A contact message becomes one ticket at most, however often the desk    *)
(* files it again, links it elsewhere or retries: unless it got a ticket   *)
(* after an escalation had checked that it has none.                       *)
OneTicketPerContact ==
    \A c \in Contacts \ overtaken : Cardinality({t \in TicketIds : origin[t] = c}) <= 1

(* The ticket table: what closed and escalated tickets say is so.          *)
TicketsHold == ClosureIsShown /\ OneTicketPerContact

----------------------------------------------------------------------------
(* The contact form.                                                       *)

CONSTANTS
    Enquiries,      \* calls of the form that may be under way
    Texts, Origins, \* what is written, and the address it comes from
    Signals,        \* sets of signals a text and its request may carry
    SpamScore, BurstSize, NewestRows,
    LastDay         \* days looked at

(* score: each rule adds its weight.                                       *)
WeightOf == [honeypot |-> 10, keyword |-> 5, markup |-> 5, quick |-> 4, links |-> 3, repeated |-> 2,
             spaced |-> 2, capitals |-> 2, wordy |-> 2, shortLink |-> 1, noAgent |-> 1]
HardSignals == {"honeypot", "keyword", "markup"}

(* One rule alone, unless a hard one, leaves an enquiry below the score.   *)
ASSUME IntakeAssumption ==
    /\ Signals \subseteq SUBSET DOMAIN WeightOf
    /\ SpamScore \in Nat \ {0} /\ \A s \in DOMAIN WeightOf \ HardSignals : WeightOf[s] < SpamScore
    /\ BurstSize \in Nat \ {0} /\ NewestRows \in Nat /\ LastDay \in Nat

VARIABLES
    contactRows,    \* contactSubmission, by creation, with what the verdict rested on
    enquiry,        \* per call: how far it is and what it carries
    today,
    told            \* rows the staff were mailed, or have in their notices

intakeVars == <<contactRows, enquiry, today, told>>

NoEnquiry == [step |-> "idle"]
EnquirySteps == {"scored", "judged", "stored", "mailed"}

IntakeInit ==
    /\ contactRows = <<>> /\ today = 0
    /\ enquiry = [q \in Enquiries |-> NoEnquiry]
    /\ told = {}

AsksAt(q, step) == enquiry[q].step = step
Score(signals) == SumFunctionOnSet(WeightOf, signals)

SubmitEnquiry(q, t, a, signals) ==
    /\ enquiry[q] = NoEnquiry
    /\ enquiry' = [enquiry EXCEPT ![q] = [step |-> "scored", text |-> t, origin |-> a, signals |-> signals]]
    /\ UNCHANGED <<contactRows, today, told>>

(* The rows findRecentDuplicate reads: of the last day, the newest ones.   *)
Recent == {k \in DOMAIN contactRows : contactRows[k].day = today /\ k + NewestRows > Len(contactRows)}

(* A slip: the fingerprint is taken of another text than was submitted.    *)
NeverSame(q) == FALSE

SameText(q) == \E k \in Recent : contactRows[k].text = enquiry[q].text

FromOneAddress(q) == Cardinality({k \in Recent : contactRows[k].origin = enquiry[q].origin}) >= BurstSize

Judged(q, looked, spam) ==
    enquiry' = [enquiry EXCEPT ![q] = [step |-> "judged", row |->
        [text |-> enquiry[q].text, origin |-> enquiry[q].origin, signals |-> enquiry[q].signals, day |-> today,
         spam |-> spam, looked |-> looked, seen |-> Len(contactRows), when |-> today]]]

(* A full honeypot needs no lookup; one that fails is logged, and finds    *)
(* nothing.                                                                *)
Evaluate(q) ==
    /\ AsksAt(q, "scored")
    /\ LET heavy == Score(enquiry[q].signals) >= SpamScore
       IN  \/ Judged(q, FALSE, heavy)
           \/ /\ "honeypot" \notin enquiry[q].signals
              /\ Judged(q, TRUE, heavy \/ SameText(q) \/ FromOneAddress(q))
    /\ UNCHANGED <<contactRows, today, told>>

EnquiryEnds(q) == enquiry' = [enquiry EXCEPT ![q] = NoEnquiry]

(* Stored either way; a quarantined one goes no further.                   *)
Store(q) ==
    /\ AsksAt(q, "judged")
    /\ contactRows' = Append(contactRows, [enquiry[q].row EXCEPT !.day = today])
    /\ IF enquiry[q].row.spam THEN EnquiryEnds(q)
       ELSE enquiry' = [enquiry EXCEPT ![q] = [step |-> "stored", at |-> Len(contactRows')]]
    /\ UNCHANGED <<today, told>>

(* A mail that is suppressed or fails leaves the row in the staff inbox.   *)
MailStaff(q) ==
    /\ AsksAt(q, "stored")
    /\ \E sent \in BOOLEAN :
        told' = IF sent THEN told \cup {enquiry[q].at} ELSE told
    /\ enquiry' = [enquiry EXCEPT ![q].step = "mailed"]
    /\ UNCHANGED <<contactRows, today>>

ShowStaff(q) ==
    /\ AsksAt(q, "mailed")
    /\ told' = told \cup {enquiry[q].at}
    /\ EnquiryEnds(q)
    /\ UNCHANGED <<contactRows, today>>

(* The server stops, or a statement of the handler fails.                  *)
Dies(q) ==
    /\ enquiry[q].step \in EnquirySteps
    /\ EnquiryEnds(q)
    /\ UNCHANGED <<contactRows, today, told>>

NextDay == today < LastDay /\ today' = today + 1 /\ UNCHANGED <<contactRows, enquiry, told>>

IntakeStep ==
    \/ \E q \in Enquiries :
        \/ \E t \in Texts, a \in Origins, signals \in Signals : SubmitEnquiry(q, t, a, signals)
        \/ Evaluate(q) \/ Store(q) \/ MailStaff(q) \/ ShowStaff(q) \/ Dies(q)
    \/ NextDay

IntakeSpec == IntakeInit /\ [][IntakeStep]_intakeVars

----------------------------------------------------------------------------
Accepted(k) == ~contactRows[k].spam

(* A text is accepted once a day.  Excepted are checks that overlapped, a  *)
(* lookup that failed, and a first copy that more than the rows looked at  *)
(* have followed.                                                          *)
TextsComeOnce ==
    \A j, k \in DOMAIN contactRows :
        j < k /\ Accepted(j) /\ Accepted(k) /\ contactRows[j].text = contactRows[k].text =>
            \/ contactRows[k].when # contactRows[j].day \/ ~contactRows[k].looked
            \/ contactRows[k].seen < j \/ contactRows[k].seen >= j + NewestRows

(* A customer is not turned away: what carries one weak signal at most, is *)
(* the first of its text, and comes from an address not heard before, is   *)
(* accepted, however heavy the traffic.                                    *)
CustomersComeThrough ==
    \A k \in DOMAIN contactRows :
        LET row == contactRows[k]
        IN  /\ Cardinality(row.signals) <= 1 /\ row.signals \cap HardSignals = {}
            /\ \A j \in 1 .. k - 1 : contactRows[j].text # row.text /\ contactRows[j].origin # row.origin
            => Accepted(k)

(* The staff hear of accepted enquiries only.                              *)
QuarantineIsSilent == \A k \in told : Accepted(k)

IntakeHolds == TextsComeOnce /\ CustomersComeThrough /\ QuarantineIsSilent
=============================================================================
