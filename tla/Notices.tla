------------------------------- MODULE Notices -------------------------------
(***************************************************************************)
(* E-mails about tickets.  A row per event is created before the mail      *)
(* leaves, so that a second dispatch of the event finds it; a breaker      *)
(* stops the mails of a ticket after a number of failures.  Nothing comes  *)
(* back to a row that was left behind.                                     *)
(***************************************************************************)
EXTENDS Naturals, FiniteSets

CONSTANTS
    Events,             \* dedupe keys, each of an event and its recipient
    TicketOf,           \* the ticket an event belongs to
    Dispatchers,        \* requests that may be dispatching at once
    BreakerThreshold

ASSUME NoticesAssumption ==
    BreakerThreshold \in Nat \ {0} /\ IsFiniteSet(Events) /\ IsFiniteSet(Dispatchers)

VARIABLES
    notice,     \* per event: the row of support_notifications
    copies,     \* per event: the mails that have left
    dispatch    \* per dispatcher: what it is doing, and for which event

noticeVars == <<notice, copies, dispatch>>

NoticeStatuses == {"none", "PENDING", "SENT", "FAILED", "SKIPPED"}
NoEvent == "none"
Waiting == [step |-> "idle", event |-> NoEvent]
DispatchSteps == {"check", "create", "send", "sent", "failed"}

NoticesInit ==
    /\ notice = [e \in Events |-> "none"]
    /\ copies = [e \in Events |-> 0]
    /\ dispatch = [d \in Dispatchers |-> Waiting]

Dispatching(d, step) == dispatch[d].step = step
Proceeds(d, step) == dispatch' = [dispatch EXCEPT ![d].step = step]
Leaves(d) == dispatch' = [dispatch EXCEPT ![d] = Waiting]
EventOf(d) == dispatch[d].event
RowBecomes(d, status) == notice' = [notice EXCEPT ![EventOf(d)] = status]

Failures(e) == {f \in Events : TicketOf[f] = TicketOf[e] /\ notice[f] = "FAILED"}

IsSuppressed(e) == Cardinality(Failures(e)) >= BreakerThreshold

Begin(d, e) ==
    /\ dispatch[d] = Waiting
    /\ dispatch' = [dispatch EXCEPT ![d] = [step |-> "check", event |-> e]]
    /\ UNCHANGED <<notice, copies>>

(* record: a skip takes the event's row, if it is still free.              *)
Skip(d) ==
    /\ RowBecomes(d, IF notice[EventOf(d)] = "none" THEN "SKIPPED" ELSE notice[EventOf(d)])
    /\ Leaves(d)

(* The actor would mail himself, or is automated; or the breaker is open.  *)
Check(d) ==
    /\ Dispatching(d, "check")
    /\ \/ Skip(d)
       \/ ~IsSuppressed(EventOf(d)) /\ Proceeds(d, "create") /\ UNCHANGED notice
    /\ UNCHANGED copies

(* A slip: a row that failed is tried again.                               *)
CreateOverFailed(d) ==
    /\ Dispatching(d, "create")
    /\ IF notice[EventOf(d)] \in {"none", "FAILED"}
       THEN RowBecomes(d, "PENDING") /\ Proceeds(d, "send")
       ELSE Leaves(d) /\ UNCHANGED notice
    /\ UNCHANGED copies

Create(d) ==
    /\ Dispatching(d, "create")
    /\ IF notice[EventOf(d)] = "none"
       THEN RowBecomes(d, "PENDING") /\ Proceeds(d, "send")
       ELSE Leaves(d) /\ UNCHANGED notice
    /\ UNCHANGED copies

(* The provider takes the mail, refuses it, or takes it and is not heard.  *)
Send(d) ==
    /\ Dispatching(d, "send")
    /\ \E left \in {0, 1}, heard \in BOOLEAN :
        /\ copies' = [copies EXCEPT ![EventOf(d)] = @ + left]
        /\ Proceeds(d, IF left = 1 /\ heard THEN "sent" ELSE "failed")
    /\ UNCHANGED notice

(* An update that fails after the mail has left is caught like a failure.  *)
MarkSent(d) ==
    /\ Dispatching(d, "sent")
    /\ \/ RowBecomes(d, "SENT") /\ Leaves(d)
       \/ Proceeds(d, "failed") /\ UNCHANGED notice
    /\ UNCHANGED copies

MarkFailed(d) ==
    /\ Dispatching(d, "failed")
    /\ RowBecomes(d, "FAILED") /\ Leaves(d)
    /\ UNCHANGED copies

(* The process stops, or the database does not answer.                     *)
DispatcherDies(d) == dispatch[d] # Waiting /\ Leaves(d) /\ UNCHANGED <<notice, copies>>

DispatchStep(d) ==
    \/ \E e \in Events : Begin(d, e)
    \/ Check(d) \/ Create(d) \/ Send(d) \/ MarkSent(d) \/ MarkFailed(d) \/ DispatcherDies(d)

NoticesNext == \E d \in Dispatchers : DispatchStep(d)
NoticesSpec == NoticesInit /\ [][NoticesNext]_noticeVars

----------------------------------------------------------------------------
NoticesTypeOK ==
    /\ notice \in [Events -> NoticeStatuses]
    /\ copies \in [Events -> Nat]
    /\ dispatch \in [Dispatchers -> {Waiting} \cup [step : DispatchSteps, event : Events]]

(* An event is mailed once at most: repeated and concurrent dispatches,    *)
(* lost answers, failed updates and restarts never send a second copy.     *)
(* And a row says SENT only of a mail that has left.                       *)
OneCopyPerEvent ==
    \A e \in Events : copies[e] <= 1 /\ (notice[e] = "SENT" => copies[e] = 1)

(* The breaker is read long before the failure it would count is written:  *)
(* it may be overshot, but by no more than the dispatches under way.       *)
BreakerHolds ==
    \A e \in Events :
        Cardinality(Failures(e)) < BreakerThreshold + Cardinality(Dispatchers)

(* An event is mailed once, and a ticket whose mails fail is left alone.   *)
NoticesHold == OneCopyPerEvent /\ BreakerHolds
=============================================================================
