---------------------------- MODULE NoticesProofs ----------------------------
(***************************************************************************)
(* Proofs about the e-mails of tickets and orders, about the rate limits,  *)
(* about the contact form, and about the tickets themselves, for any       *)
(* events, orders, addresses, servers, dispatchers, limits, texts, origins, *)
(* tickets, messages and threshold of the breaker.                         *)
(***************************************************************************)
EXTENDS Notices, OrderMail, RateLimits, Tickets, SumLemmas, SequenceTheorems

(* Past the insert, a dispatcher is the only one that works on its event,  *)
(* the row is its own, and it knows whether the mail has left.             *)
Past(d) == dispatch[d].step \in {"send", "sent", "failed"}

OwnersKnow ==
    \A d \in Dispatchers : Past(d) =>
        /\ notice[EventOf(d)] = "PENDING"
        /\ Dispatching(d, "send") => copies[EventOf(d)] = 0
        /\ Dispatching(d, "sent") => copies[EventOf(d)] = 1
        /\ \A c \in Dispatchers : Past(c) /\ EventOf(c) = EventOf(d) => c = d

(* Before the insert no mail of an event has left.                         *)
RowsKnow ==
    \A e \in Events :
        /\ copies[e] <= 1
        /\ notice[e] = "none" => copies[e] = 0
        /\ notice[e] = "SENT" => copies[e] = 1

CopiesInv == NoticesTypeOK /\ OwnersKnow /\ RowsKnow

----------------------------------------------------------------------------
(* A dispatcher that is not at rest has an event.                          *)
LEMMA HasEvent ==
    ASSUME NoticesTypeOK, NEW d \in Dispatchers, dispatch[d].step # "idle"
    PROVE  EventOf(d) \in Events /\ dispatch[d] \in [step : DispatchSteps, event : Events]
  BY DEF NoticesTypeOK, Waiting, EventOf

(* What Proceeds, Leaves and RowBecomes write.                             *)
LEMMA ProceedsFact ==
    ASSUME NoticesTypeOK, NEW d \in Dispatchers, dispatch[d].step # "idle",
           NEW step \in DispatchSteps, Proceeds(d, step)
    PROVE  /\ dispatch' \in [Dispatchers -> {Waiting} \cup [step : DispatchSteps, event : Events]]
           /\ dispatch'[d].step = step /\ dispatch'[d].event = EventOf(d)
           /\ \A c \in Dispatchers \ {d} : dispatch'[c] = dispatch[c]
  BY HasEvent DEF NoticesTypeOK, Proceeds, EventOf

LEMMA LeavesFact ==
    ASSUME NoticesTypeOK, NEW d \in Dispatchers, Leaves(d)
    PROVE  /\ dispatch' \in [Dispatchers -> {Waiting} \cup [step : DispatchSteps, event : Events]]
           /\ dispatch'[d].step = "idle"
           /\ \A c \in Dispatchers \ {d} : dispatch'[c] = dispatch[c]
  BY DEF NoticesTypeOK, Leaves, Waiting

LEMMA RowBecomesFact ==
    ASSUME NoticesTypeOK, NEW d \in Dispatchers, EventOf(d) \in Events,
           NEW status \in NoticeStatuses, RowBecomes(d, status)
    PROVE  /\ notice' \in [Events -> NoticeStatuses]
           /\ notice'[EventOf(d)] = status
           /\ \A e \in Events \ {EventOf(d)} : notice'[e] = notice[e]
  BY DEF NoticesTypeOK, RowBecomes

----------------------------------------------------------------------------
(* One mail for each event.                                                *)

LEMMA NoticesInitInv == NoticesInit => CopiesInv
  BY DEF NoticesInit, CopiesInv, NoticesTypeOK, OwnersKnow, RowsKnow, Past, Waiting,
         NoticeStatuses, DispatchSteps

LEMMA BeginKeeps ==
    ASSUME CopiesInv, NEW d \in Dispatchers, NEW e \in Events, Begin(d, e)
    PROVE  CopiesInv'
  <1>1. /\ dispatch'[d] = [step |-> "check", event |-> e]
        /\ \A c \in Dispatchers \ {d} : dispatch'[c] = dispatch[c]
        /\ UNCHANGED <<notice, copies>>
    BY DEF Begin, CopiesInv, NoticesTypeOK
  <1>2. NoticesTypeOK'
    BY <1>1 DEF Begin, CopiesInv, NoticesTypeOK, DispatchSteps
  <1>3. OwnersKnow'
    BY <1>1 DEF CopiesInv, OwnersKnow, Past, Dispatching, EventOf
  <1> QED BY <1>1, <1>2, <1>3 DEF CopiesInv, RowsKnow

(* A dispatcher that leaves takes no row along.                            *)
LEMMA LeavingKeeps ==
    ASSUME CopiesInv, NEW d \in Dispatchers, Leaves(d), UNCHANGED <<notice, copies>>
    PROVE  CopiesInv'
  <1>1. /\ dispatch'[d].step = "idle"
        /\ \A c \in Dispatchers \ {d} : dispatch'[c] = dispatch[c]
        /\ NoticesTypeOK'
    BY LeavesFact DEF CopiesInv, NoticesTypeOK
  <1>2. OwnersKnow'
    BY <1>1 DEF CopiesInv, OwnersKnow, Past, Dispatching, EventOf
  <1> QED BY <1>1, <1>2 DEF CopiesInv, RowsKnow

LEMMA CheckKeeps ==
    ASSUME CopiesInv, NEW d \in Dispatchers, Check(d)
    PROVE  CopiesInv'
  <1>0. NoticesTypeOK /\ EventOf(d) \in Events /\ dispatch[d].step = "check"
    BY HasEvent DEF Check, Dispatching, CopiesInv
  <1>1. CASE Skip(d)
    <2> DEFINE status == IF notice[EventOf(d)] = "none" THEN "SKIPPED" ELSE notice[EventOf(d)]
    <2>1. status \in NoticeStatuses /\ RowBecomes(d, status) /\ Leaves(d) /\ UNCHANGED copies
      BY <1>0, <1>1 DEF Skip, Check, NoticesTypeOK, NoticeStatuses
    <2>2. /\ notice' \in [Events -> NoticeStatuses]
          /\ notice'[EventOf(d)] = status
          /\ \A e \in Events \ {EventOf(d)} : notice'[e] = notice[e]
      BY <1>0, <2>1, RowBecomesFact
    <2>3. /\ dispatch'[d].step = "idle"
          /\ \A c \in Dispatchers \ {d} : dispatch'[c] = dispatch[c]
          /\ dispatch' \in [Dispatchers -> {Waiting} \cup [step : DispatchSteps, event : Events]]
      BY <1>0, <2>1, LeavesFact
    <2>4. \A e \in Events : notice'[e] = notice[e] \/ (notice[e] = "none" /\ notice'[e] = "SKIPPED")
      BY <2>2
    <2>5. \A c \in Dispatchers : Past(c)' => Past(c) /\ EventOf(c) \in Events /\ dispatch'[c] = dispatch[c]
      BY <1>0, <2>3, HasEvent DEF Past
    <2>6. OwnersKnow'
      BY <2>1, <2>4, <2>5 DEF CopiesInv, OwnersKnow, Dispatching, EventOf
    <2>7. RowsKnow'
      BY <2>1, <2>4 DEF CopiesInv, RowsKnow
    <2> QED BY <1>0, <2>1, <2>2, <2>3, <2>6, <2>7 DEF CopiesInv, NoticesTypeOK
  <1>2. CASE Proceeds(d, "create") /\ UNCHANGED notice
    <2>1. /\ dispatch' \in [Dispatchers -> {Waiting} \cup [step : DispatchSteps, event : Events]]
          /\ dispatch'[d].step = "create"
          /\ \A c \in Dispatchers \ {d} : dispatch'[c] = dispatch[c]
      BY <1>0, <1>2, ProceedsFact DEF DispatchSteps
    <2>2. UNCHANGED <<notice, copies>>
      BY <1>2 DEF Check
    <2>3. OwnersKnow'
      BY <2>1, <2>2 DEF CopiesInv, OwnersKnow, Past, Dispatching, EventOf
    <2> QED BY <1>0, <2>1, <2>2, <2>3 DEF CopiesInv, NoticesTypeOK, RowsKnow
  <1> QED BY <1>1, <1>2 DEF Check

LEMMA CreateKeeps ==
    ASSUME CopiesInv, NEW d \in Dispatchers, Create(d)
    PROVE  CopiesInv'
  <1>0. NoticesTypeOK /\ EventOf(d) \in Events /\ dispatch[d].step = "create" /\ UNCHANGED copies
    BY HasEvent DEF Create, Dispatching, CopiesInv
  <1>1. CASE notice[EventOf(d)] = "none"
    <2>1. RowBecomes(d, "PENDING") /\ Proceeds(d, "send")
      BY <1>1 DEF Create
    <2>2. /\ notice' \in [Events -> NoticeStatuses]
          /\ notice'[EventOf(d)] = "PENDING"
          /\ \A e \in Events \ {EventOf(d)} : notice'[e] = notice[e]
      BY <1>0, <2>1, RowBecomesFact DEF NoticeStatuses
    <2>3. /\ dispatch' \in [Dispatchers -> {Waiting} \cup [step : DispatchSteps, event : Events]]
          /\ dispatch'[d].step = "send" /\ dispatch'[d].event = EventOf(d)
          /\ \A c \in Dispatchers \ {d} : dispatch'[c] = dispatch[c]
      BY <1>0, <2>1, ProceedsFact DEF DispatchSteps
    <2>4. \A c \in Dispatchers : Past(c) => c # d /\ EventOf(c) \in Events \ {EventOf(d)}
      BY <1>0, <1>1, HasEvent DEF CopiesInv, OwnersKnow, Past
    <2>5. copies[EventOf(d)] = 0
      BY <1>0, <1>1 DEF CopiesInv, RowsKnow
    <2>6. OwnersKnow'
      BY <1>0, <2>2, <2>3, <2>4, <2>5 DEF CopiesInv, OwnersKnow, Past, Dispatching, EventOf
    <2>7. RowsKnow'
      BY <1>0, <2>2 DEF CopiesInv, RowsKnow
    <2> QED BY <1>0, <2>2, <2>3, <2>6, <2>7 DEF CopiesInv, NoticesTypeOK
  <1>2. CASE notice[EventOf(d)] # "none"
    BY <1>2, LeavingKeeps DEF Create
  <1> QED BY <1>1, <1>2

LEMMA SendKeeps ==
    ASSUME CopiesInv, NEW d \in Dispatchers, Send(d)
    PROVE  CopiesInv'
  <1>0. NoticesTypeOK /\ EventOf(d) \in Events /\ dispatch[d].step = "send" /\ UNCHANGED notice
    BY HasEvent DEF Send, Dispatching, CopiesInv
  <1>1. PICK left \in {0, 1}, step \in {"sent", "failed"} :
            /\ copies' = [copies EXCEPT ![EventOf(d)] = @ + left]
            /\ step = "sent" => left = 1
            /\ Proceeds(d, step)
    BY DEF Send
  <1>2. /\ dispatch' \in [Dispatchers -> {Waiting} \cup [step : DispatchSteps, event : Events]]
        /\ dispatch'[d].step = step /\ dispatch'[d].event = EventOf(d)
        /\ \A c \in Dispatchers \ {d} : dispatch'[c] = dispatch[c]
    BY <1>0, <1>1, ProceedsFact DEF DispatchSteps
  <1>3. copies[EventOf(d)] = 0 /\ notice[EventOf(d)] = "PENDING"
    BY <1>0 DEF CopiesInv, OwnersKnow, Past, Dispatching
  <1>4. /\ copies' \in [Events -> Nat]
        /\ copies'[EventOf(d)] = left
        /\ \A e \in Events \ {EventOf(d)} : copies'[e] = copies[e]
    BY <1>0, <1>1, <1>3 DEF NoticesTypeOK
  <1>5. \A c \in Dispatchers \ {d} : Past(c) => EventOf(c) \in Events \ {EventOf(d)}
    BY <1>0, HasEvent DEF CopiesInv, OwnersKnow, Past
  <1>6. OwnersKnow'
    BY <1>0, <1>1, <1>2, <1>3, <1>4, <1>5 DEF CopiesInv, OwnersKnow, Past, Dispatching, EventOf
  <1>7. RowsKnow'
    BY <1>0, <1>3, <1>4 DEF CopiesInv, RowsKnow
  <1> QED BY <1>0, <1>2, <1>4, <1>6, <1>7 DEF CopiesInv, NoticesTypeOK

(* A row that is the dispatcher's own is closed.                           *)
LEMMA ClosingKeeps ==
    ASSUME CopiesInv, NEW d \in Dispatchers, NEW status \in {"SENT", "FAILED"}, Past(d),
           status = "SENT" => Dispatching(d, "sent"),
           RowBecomes(d, status), Leaves(d), UNCHANGED copies
    PROVE  CopiesInv'
  <1>0. NoticesTypeOK /\ EventOf(d) \in Events
    BY HasEvent DEF Past, CopiesInv
  <1>1. /\ notice' \in [Events -> NoticeStatuses]
        /\ notice'[EventOf(d)] = status
        /\ \A e \in Events \ {EventOf(d)} : notice'[e] = notice[e]
    BY <1>0, RowBecomesFact DEF NoticeStatuses
  <1>2. /\ dispatch'[d].step = "idle"
        /\ \A c \in Dispatchers \ {d} : dispatch'[c] = dispatch[c]
        /\ dispatch' \in [Dispatchers -> {Waiting} \cup [step : DispatchSteps, event : Events]]
    BY <1>0, LeavesFact
  <1>3. \A c \in Dispatchers \ {d} : Past(c) => EventOf(c) \in Events \ {EventOf(d)}
    BY <1>0, HasEvent DEF CopiesInv, OwnersKnow, Past
  <1>4. OwnersKnow'
    BY <1>1, <1>2, <1>3 DEF CopiesInv, OwnersKnow, Past, Dispatching, EventOf
  <1>5. RowsKnow'
    BY <1>0, <1>1 DEF CopiesInv, RowsKnow, OwnersKnow
  <1> QED BY <1>0, <1>1, <1>2, <1>4, <1>5 DEF CopiesInv, NoticesTypeOK

LEMMA MarkSentKeeps ==
    ASSUME CopiesInv, NEW d \in Dispatchers, MarkSent(d)
    PROVE  CopiesInv'
  <1>0. NoticesTypeOK /\ EventOf(d) \in Events /\ dispatch[d].step = "sent" /\ UNCHANGED copies
    BY HasEvent DEF MarkSent, Dispatching, CopiesInv
  <1>1. CASE RowBecomes(d, "SENT") /\ Leaves(d)
    BY <1>0, <1>1, ClosingKeeps DEF Past, Dispatching
  <1>2. CASE Proceeds(d, "failed") /\ UNCHANGED notice
    <2>1. /\ dispatch' \in [Dispatchers -> {Waiting} \cup [step : DispatchSteps, event : Events]]
          /\ dispatch'[d].step = "failed" /\ dispatch'[d].event = EventOf(d)
          /\ \A c \in Dispatchers \ {d} : dispatch'[c] = dispatch[c]
      BY <1>0, <1>2, ProceedsFact DEF DispatchSteps
    <2>2. OwnersKnow'
      BY <1>0, <1>2, <2>1 DEF CopiesInv, OwnersKnow, Past, Dispatching, EventOf
    <2> QED BY <1>0, <1>2, <2>1, <2>2 DEF CopiesInv, NoticesTypeOK, RowsKnow
  <1> QED BY <1>1, <1>2 DEF MarkSent

LEMMA MarkFailedKeeps ==
    ASSUME CopiesInv, NEW d \in Dispatchers, MarkFailed(d)
    PROVE  CopiesInv'
  BY ClosingKeeps DEF MarkFailed, Past, Dispatching

LEMMA NoticesNextInv == CopiesInv /\ [NoticesNext]_noticeVars => CopiesInv'
  <1> SUFFICES ASSUME CopiesInv, [NoticesNext]_noticeVars PROVE CopiesInv'
    OBVIOUS
  <1>1. CASE UNCHANGED noticeVars
    BY <1>1 DEF noticeVars, CopiesInv, NoticesTypeOK, OwnersKnow, RowsKnow, Past, Dispatching, EventOf
  <1>2. ASSUME NEW d \in Dispatchers, DispatchStep(d) PROVE CopiesInv'
    <2>1. CASE DispatcherDies(d)
      BY <2>1, LeavingKeeps DEF DispatcherDies
    <2> QED BY <1>2, <2>1, BeginKeeps, CheckKeeps, CreateKeeps, SendKeeps, MarkSentKeeps, MarkFailedKeeps
            DEF DispatchStep
  <1> QED BY <1>1, <1>2 DEF NoticesNext

(* Whatever the number of events and dispatchers, no event is mailed twice *)
(* and a row says SENT only of a mail that has left.                       *)
THEOREM EventsAreMailedOnce == NoticesSpec => []OneCopyPerEvent
  <1>1. CopiesInv => OneCopyPerEvent
    BY DEF CopiesInv, RowsKnow, OneCopyPerEvent
  <1> QED BY NoticesInitInv, NoticesNextInv, <1>1, PTL DEF NoticesSpec

----------------------------------------------------------------------------
(* The breaker.                                                            *)

(* Dispatches of a ticket that are past the breaker and may still fail.    *)
Underway(e) ==
    {d \in Dispatchers :
        /\ dispatch[d].step \in {"create", "send", "sent", "failed"}
        /\ TicketOf[EventOf(d)] = TicketOf[e]}

BreakerInv ==
    \A e \in Events :
        Cardinality(Failures(e)) + Cardinality(Underway(e)) < BreakerThreshold + Cardinality(Dispatchers)

LEMMA FiniteParts ==
    ASSUME NEW e \in Events
    PROVE  /\ IsFiniteSet(Failures(e)) /\ IsFiniteSet(Underway(e))
           /\ IsFiniteSet(Failures(e)') /\ IsFiniteSet(Underway(e)')
           /\ Cardinality(Failures(e)) \in Nat /\ Cardinality(Underway(e)) \in Nat
           /\ Cardinality(Failures(e)') \in Nat /\ Cardinality(Underway(e)') \in Nat
           /\ Cardinality(Underway(e)) <= Cardinality(Dispatchers)
           /\ Cardinality(Underway(e)') <= Cardinality(Dispatchers)
           /\ Cardinality(Dispatchers) \in Nat /\ BreakerThreshold \in Nat \ {0}
  <1>1. /\ Failures(e) \in SUBSET Events /\ Failures(e)' \in SUBSET Events
        /\ Underway(e) \in SUBSET Dispatchers /\ Underway(e)' \in SUBSET Dispatchers
    BY DEF Failures, Underway
  <1>2. IsFiniteSet(Events) /\ IsFiniteSet(Dispatchers) /\ BreakerThreshold \in Nat \ {0}
    BY NoticesAssumption
  <1> HIDE DEF Failures, Underway
  <1>3. IsFiniteSet(Failures(e)) /\ IsFiniteSet(Failures(e)')
    BY <1>1, <1>2, FS_Subset
  <1>4. /\ IsFiniteSet(Underway(e)) /\ IsFiniteSet(Underway(e)')
        /\ Cardinality(Underway(e)) <= Cardinality(Dispatchers)
        /\ Cardinality(Underway(e)') <= Cardinality(Dispatchers)
    BY <1>1, <1>2, FS_Subset
  <1> QED BY <1>2, <1>3, <1>4, FS_CardinalityType

(* Neither new failures nor new dispatches: the bound stays.               *)
LEMMA FewerIsFine ==
    ASSUME BreakerInv,
           \A e \in Events : Failures(e)' \subseteq Failures(e) /\ Underway(e)' \subseteq Underway(e)
    PROVE  BreakerInv'
  <1>1. ASSUME NEW e \in Events
        PROVE  Cardinality(Failures(e)') + Cardinality(Underway(e)')
                 < BreakerThreshold + Cardinality(Dispatchers)
    <2>1. /\ Cardinality(Failures(e)') <= Cardinality(Failures(e))
          /\ Cardinality(Underway(e)') <= Cardinality(Underway(e))
      BY FiniteParts, FS_Subset
    <2> QED BY <2>1, FiniteParts DEF BreakerInv
  <1> QED BY <1>1 DEF BreakerInv

LEMMA NoticesInitBreaker == NoticesInit => BreakerInv
  <1> SUFFICES ASSUME NoticesInit, NEW e \in Events
               PROVE  Cardinality(Failures(e)) + Cardinality(Underway(e))
                        < BreakerThreshold + Cardinality(Dispatchers)
    BY DEF BreakerInv
  <1>1. Failures(e) = {} /\ Underway(e) = {}
    BY DEF NoticesInit, Failures, Underway, Waiting
  <1> QED BY <1>1, FiniteParts, FS_EmptySet

(* The dispatcher that passes was told of fewer failures than the breaker  *)
(* allows, and no more than all of them can be under way.                  *)
LEMMA PassingKeepsBreaker ==
    ASSUME CopiesInv, BreakerInv, NEW d \in Dispatchers, Dispatching(d, "check"),
           ~IsSuppressed(EventOf(d)), Proceeds(d, "create"), UNCHANGED notice
    PROVE  BreakerInv'
  <1>0. NoticesTypeOK /\ EventOf(d) \in Events
    BY HasEvent DEF Dispatching, CopiesInv
  <1>1. /\ dispatch'[d].step = "create" /\ dispatch'[d].event = EventOf(d)
        /\ \A c \in Dispatchers \ {d} : dispatch'[c] = dispatch[c]
    BY <1>0, ProceedsFact DEF DispatchSteps, Dispatching
  <1>2. ASSUME NEW e \in Events
        PROVE  Cardinality(Failures(e)') + Cardinality(Underway(e)')
                 < BreakerThreshold + Cardinality(Dispatchers)
    <2>1. Failures(e)' = Failures(e)
      BY DEF Failures
    <2>2. CASE TicketOf[e] = TicketOf[EventOf(d)]
      <3>1. Failures(e) = Failures(EventOf(d))
        BY <2>2 DEF Failures
      <3>2. ~(Cardinality(Failures(e)) >= BreakerThreshold)
        BY <3>1 DEF IsSuppressed
      <3> QED BY <2>1, <3>2, FiniteParts
    <2>3. CASE TicketOf[e] # TicketOf[EventOf(d)]
      <3>1. Underway(e)' = Underway(e)
        BY <1>1, <2>3 DEF Underway, EventOf
      <3> QED BY <2>1, <3>1 DEF BreakerInv
    <2> QED BY <2>2, <2>3
  <1> QED BY <1>2 DEF BreakerInv

(* A failure is counted when its dispatcher leaves.                        *)
LEMMA FailingKeepsBreaker ==
    ASSUME CopiesInv, BreakerInv, NEW d \in Dispatchers, MarkFailed(d)
    PROVE  BreakerInv'
  <1>0. NoticesTypeOK /\ EventOf(d) \in Events /\ dispatch[d].step = "failed"
    BY HasEvent DEF MarkFailed, Dispatching, CopiesInv
  <1>1. /\ dispatch'[d].step = "idle"
        /\ \A c \in Dispatchers \ {d} : dispatch'[c] = dispatch[c]
    BY <1>0, LeavesFact DEF MarkFailed
  <1>2. \A f \in Events \ {EventOf(d)} : notice'[f] = notice[f]
    BY <1>0, RowBecomesFact DEF MarkFailed, NoticeStatuses
  <1>3. ASSUME NEW e \in Events
        PROVE  Cardinality(Failures(e)') + Cardinality(Underway(e)')
                 < BreakerThreshold + Cardinality(Dispatchers)
    <2>1. CASE TicketOf[e] = TicketOf[EventOf(d)]
      <3>1. Failures(e)' \subseteq Failures(e) \cup {EventOf(d)}
        BY <1>2 DEF Failures
      <3>2. d \in Underway(e) /\ Underway(e)' \subseteq Underway(e) \ {d}
        BY <1>0, <1>1, <2>1 DEF Underway, EventOf
      <3>3. Cardinality(Failures(e)') <= Cardinality(Failures(e)) + 1
        <4>1. /\ IsFiniteSet(Failures(e) \cup {EventOf(d)})
              /\ Cardinality(Failures(e) \cup {EventOf(d)}) \in Nat
              /\ Cardinality(Failures(e) \cup {EventOf(d)}) <= Cardinality(Failures(e)) + 1
          <5>1. IsFiniteSet(Failures(e)) /\ Cardinality(Failures(e)) \in Nat
            BY FiniteParts
          <5>2. /\ IsFiniteSet(Failures(e) \cup {EventOf(d)})
                /\ \/ Cardinality(Failures(e) \cup {EventOf(d)}) = Cardinality(Failures(e))
                   \/ Cardinality(Failures(e) \cup {EventOf(d)}) = Cardinality(Failures(e)) + 1
            BY <5>1, FS_AddElement
          <5> QED BY <5>1, <5>2
        <4>2. Cardinality(Failures(e)') <= Cardinality(Failures(e) \cup {EventOf(d)})
          BY <3>1, <4>1, FS_Subset
        <4> QED BY <4>1, <4>2, FiniteParts
      <3>4. Cardinality(Underway(e)') <= Cardinality(Underway(e)) - 1
        <4>1. /\ IsFiniteSet(Underway(e) \ {d})
              /\ Cardinality(Underway(e) \ {d}) = Cardinality(Underway(e)) - 1
          BY <3>2, FiniteParts, FS_RemoveElement
        <4> QED BY <3>2, <4>1, FS_Subset
      <3> QED BY <3>3, <3>4, FiniteParts DEF BreakerInv
    <2>2. CASE TicketOf[e] # TicketOf[EventOf(d)]
      <3>1. Failures(e)' \subseteq Failures(e)
        BY <1>2, <2>2 DEF Failures
      <3>2. Underway(e)' \subseteq Underway(e)
        BY <1>1 DEF Underway, EventOf
      <3>3. /\ Cardinality(Failures(e)') <= Cardinality(Failures(e))
            /\ Cardinality(Underway(e)') <= Cardinality(Underway(e))
        BY <3>1, <3>2, FiniteParts, FS_Subset
      <3> QED BY <3>3, FiniteParts DEF BreakerInv
    <2> QED BY <2>1, <2>2
  <1> QED BY <1>3 DEF BreakerInv

(* Everything else adds neither a failure nor a dispatch past the breaker. *)
LEMMA OtherStepsKeepBreaker ==
    ASSUME CopiesInv, BreakerInv, NEW d \in Dispatchers,
           \/ \E e \in Events : Begin(d, e)
           \/ Dispatching(d, "check") /\ Skip(d)
           \/ Create(d) \/ Send(d) \/ MarkSent(d) \/ DispatcherDies(d)
    PROVE  BreakerInv'
  <1>0. NoticesTypeOK
    BY DEF CopiesInv
  <1>1. /\ \A c \in Dispatchers \ {d} : dispatch'[c] = dispatch[c]
        /\ dispatch'[d].step \in {"create", "send", "sent", "failed"} =>
              /\ dispatch[d].step \in {"create", "send", "sent", "failed"}
              /\ EventOf(d)' = EventOf(d)
    <2>1. CASE \E e \in Events : Begin(d, e)
      BY <1>0, <2>1 DEF Begin, NoticesTypeOK
    <2>2. CASE Leaves(d)
      BY <1>0, <2>2, LeavesFact
    <2>3. ASSUME NEW step \in DispatchSteps, Proceeds(d, step),
                 dispatch[d].step \in {"create", "send", "sent", "failed"}
          PROVE  <1>1!1 /\ <1>1!2
      BY <1>0, <2>3, ProceedsFact DEF EventOf
    <2>4. \/ \E e \in Events : Begin(d, e)
          \/ Leaves(d)
          \/ /\ dispatch[d].step \in {"create", "send", "sent", "failed"}
             /\ \E step \in DispatchSteps : Proceeds(d, step)
      BY DEF Skip, Create, Send, MarkSent, DispatcherDies, Dispatching, DispatchSteps
    <2> QED BY <2>1, <2>2, <2>3, <2>4
  <1>2. \A e \in Events : notice'[e] = "FAILED" => notice[e] = "FAILED"
    <2>1. CASE UNCHANGED notice
      BY <2>1
    <2>2. ASSUME NEW status \in NoticeStatuses, EventOf(d) \in Events, RowBecomes(d, status),
                 status = "FAILED" => notice[EventOf(d)] = "FAILED"
          PROVE  \A e \in Events : notice'[e] = "FAILED" => notice[e] = "FAILED"
      BY <1>0, <2>2, RowBecomesFact
    <2>3. CASE Dispatching(d, "check") /\ Skip(d)
      <3>1. EventOf(d) \in Events
        BY <1>0, <2>3, HasEvent DEF Dispatching
      <3> QED BY <1>0, <2>2, <2>3, <3>1 DEF Skip, NoticesTypeOK, NoticeStatuses
    <2>4. CASE Create(d) /\ RowBecomes(d, "PENDING")
      BY <1>0, <2>2, <2>4, HasEvent DEF Create, Dispatching, NoticeStatuses
    <2>5. CASE MarkSent(d) /\ RowBecomes(d, "SENT")
      BY <1>0, <2>2, <2>5, HasEvent DEF MarkSent, Dispatching, NoticeStatuses
    <2> QED BY <2>1, <2>3, <2>4, <2>5 DEF Begin, Create, Send, MarkSent, DispatcherDies
  <1>3. \A e \in Events : Failures(e)' \subseteq Failures(e) /\ Underway(e)' \subseteq Underway(e)
    BY <1>1, <1>2 DEF Failures, Underway, EventOf
  <1> QED BY <1>3, FewerIsFine

LEMMA NoticesNextBreaker == CopiesInv /\ BreakerInv /\ [NoticesNext]_noticeVars => BreakerInv'
  <1> SUFFICES ASSUME CopiesInv, BreakerInv, [NoticesNext]_noticeVars PROVE BreakerInv'
    OBVIOUS
  <1>1. CASE UNCHANGED noticeVars
    <2>1. \A e \in Events : Failures(e)' = Failures(e) /\ Underway(e)' = Underway(e)
      BY <1>1 DEF noticeVars, Failures, Underway, EventOf
    <2> QED BY <2>1, FewerIsFine
  <1>2. ASSUME NEW d \in Dispatchers, DispatchStep(d) PROVE BreakerInv'
    <2>1. CASE Check(d)
      BY <2>1, PassingKeepsBreaker, OtherStepsKeepBreaker DEF Check
    <2> QED BY <1>2, <2>1, FailingKeepsBreaker, OtherStepsKeepBreaker DEF DispatchStep
  <1> QED BY <1>1, <1>2 DEF NoticesNext

(* The breaker is overshot by no more than the dispatches under way.       *)
THEOREM BreakerIsHardlyOvershot == NoticesSpec => []BreakerHolds
  <1>1. BreakerInv => BreakerHolds
    <2> SUFFICES ASSUME BreakerInv, NEW e \in Events
                 PROVE  Cardinality(Failures(e)) < BreakerThreshold + Cardinality(Dispatchers)
      BY DEF BreakerHolds
    <2> QED BY FiniteParts DEF BreakerInv
  <1> QED BY NoticesInitInv, NoticesNextInv, NoticesInitBreaker, NoticesNextBreaker, <1>1, PTL
          DEF NoticesSpec

(* Both hold of every dispatch, of any number of tickets and events.       *)
THEOREM NoticesAreKept == NoticesSpec => []NoticesHold
  <1>1. OneCopyPerEvent /\ BreakerHolds => NoticesHold
    BY DEF NoticesHold
  <1> QED BY EventsAreMailedOnce, BreakerIsHardlyOvershot, <1>1, PTL

----------------------------------------------------------------------------
(* What a customer is told of an order.                                    *)

(* A call that has claimed its key holds it, alone on its instance.        *)
HoldsKey(h) == hook[h].step \in {"claimed", "sending"}

KeyIsHeld ==
    \A h \in Hooks : HoldsKey(h) =>
        /\ Told(h) \in recentlySent[hook[h].host]
        /\ hook[h].host \in callers[Told(h)]
        /\ \A g \in Hooks : HoldsKey(g) /\ Told(g) = Told(h) /\ hook[g].host = hook[h].host => g = h

MirrorsKnow == \A h \in Hooks : HookAt(h, "mirror") => mailed[Told(h)] > 0 \/ Told(h) \in unmailed

(* Instances that were called for an event and may yet send a copy that is *)
(* not excused.                                                            *)
MayStill(e) == {i \in callers[e] : e \notin recentlySent[i] \/ Trying(i, e)}

CopiesAreCounted ==
    \A e \in Happenings : mailed[e] + Cardinality(MayStill(e)) <= Cardinality(callers[e]) + excused[e]

MailInv ==
    OrderMailTypeOK /\ KeyIsHeld /\ MirrorsKnow /\ CopiesAreCounted /\ KeysAreHonest /\ NoticesFollowMail

HookType == [step : HookSteps, host : Hosts, of : Happenings, left : 1..MaxSends]

(* A call under way has an event and an instance.                          *)
LEMMA HookFact ==
    ASSUME OrderMailTypeOK, NEW h \in Hooks, hook[h].step \in HookSteps
    PROVE  hook[h] \in HookType /\ Told(h) \in Happenings /\ hook[h].host \in Hosts
  BY DEF OrderMailTypeOK, NotCalled, HookSteps, HookType, Told

(* What HookGoes writes.                                                   *)
LEMMA HookGoesFact ==
    ASSUME OrderMailTypeOK, NEW h \in Hooks, hook[h].step \in HookSteps, NEW step \in HookSteps, HookGoes(h, step)
    PROVE  /\ hook' \in [Hooks -> {NotCalled} \cup HookType]
           /\ hook'[h].step = step /\ hook'[h].of = Told(h) /\ hook'[h].host = hook[h].host
           /\ \A g \in Hooks \ {h} : hook'[g] = hook[g]
<1>1. hook[h] \in HookType
  BY HookFact
<1>2. [hook[h] EXCEPT !.step = step] \in HookType
  BY <1>1 DEF HookType
<1> QED
  BY <1>1, <1>2 DEF OrderMailTypeOK, HookGoes, HookType, Told

(* The instances called for an event can be counted.                       *)
LEMMA CallersAreFinite ==
    ASSUME OrderMailTypeOK, NEW e \in Happenings
    PROVE  /\ IsFiniteSet(callers[e]) /\ Cardinality(callers[e]) \in Nat
           /\ IsFiniteSet(MayStill(e)) /\ Cardinality(MayStill(e)) \in Nat
<1>1. callers[e] \subseteq Hosts /\ MayStill(e) \subseteq callers[e]
  BY DEF OrderMailTypeOK, MayStill
<1> QED
  BY <1>1, OrderMailAssumption, FS_Subset, FS_CardinalityType

(* What may still be sent shrinks or stays, and nothing was.               *)
LEMMA NothingSent ==
    ASSUME MailInv, OrderMailTypeOK', NEW e \in Happenings,
           mailed'[e] = mailed[e], callers'[e] = callers[e], excused[e] <= excused'[e],
           MayStill(e)' \subseteq MayStill(e)
    PROVE  mailed'[e] + Cardinality(MayStill(e)') <= Cardinality(callers'[e]) + excused'[e]
<1>1. Cardinality(MayStill(e)') <= Cardinality(MayStill(e)) /\ Cardinality(MayStill(e)') \in Nat
  BY CallersAreFinite, FS_Subset, FS_CardinalityType DEF MailInv
<1>2. /\ mailed[e] \in Nat /\ excused[e] \in Nat /\ excused'[e] \in Nat /\ Cardinality(callers[e]) \in Nat
      /\ Cardinality(MayStill(e)) \in Nat
  BY CallersAreFinite DEF MailInv, OrderMailTypeOK
<1>3. mailed[e] + Cardinality(MayStill(e)) <= Cardinality(callers[e]) + excused[e]
  BY DEF MailInv, CopiesAreCounted
<1> QED
  BY <1>1, <1>2, <1>3

(* One excuse pays for one copy, or for one instance that may send again.  *)
LEMMA ExcusePays ==
    ASSUME MailInv, OrderMailTypeOK', NEW e \in Happenings, NEW i,
           callers'[e] = callers[e], excused'[e] = excused[e] + 1,
           \/ mailed'[e] = mailed[e] /\ MayStill(e)' \subseteq MayStill(e) \cup {i}
           \/ mailed'[e] = mailed[e] + 1 /\ MayStill(e)' \subseteq MayStill(e)
    PROVE  mailed'[e] + Cardinality(MayStill(e)') <= Cardinality(callers'[e]) + excused'[e]
<1>1. /\ IsFiniteSet(MayStill(e)) /\ Cardinality(MayStill(e)) \in Nat
      /\ mailed[e] \in Nat /\ excused[e] \in Nat /\ Cardinality(callers[e]) \in Nat
  BY CallersAreFinite DEF MailInv, OrderMailTypeOK
<1>2. mailed[e] + Cardinality(MayStill(e)) <= Cardinality(callers[e]) + excused[e]
  BY DEF MailInv, CopiesAreCounted
<1>3. CASE mailed'[e] = mailed[e] /\ MayStill(e)' \subseteq MayStill(e) \cup {i}
  <2> DEFINE S == MayStill(e)
  <2>a. IsFiniteSet(S) /\ Cardinality(S) \in Nat
    BY <1>1
  <2>b. /\ IsFiniteSet(S \cup {i})
        /\ Cardinality(S \cup {i}) \in {Cardinality(S), Cardinality(S) + 1}
    <3> HIDE DEF S
    <3> QED
      BY <2>a, FS_AddElement
  <2>1. /\ IsFiniteSet(MayStill(e) \cup {i})
        /\ Cardinality(MayStill(e) \cup {i}) <= Cardinality(MayStill(e)) + 1
        /\ Cardinality(MayStill(e) \cup {i}) \in Nat
    BY <2>a, <2>b
  <2>2. /\ Cardinality(MayStill(e)') <= Cardinality(MayStill(e) \cup {i})
        /\ Cardinality(MayStill(e)') \in Nat
    BY <1>3, <2>1, FS_Subset, FS_CardinalityType
  <2> QED
    BY <1>1, <1>2, <1>3, <2>1, <2>2
<1>4. CASE mailed'[e] = mailed[e] + 1 /\ MayStill(e)' \subseteq MayStill(e)
  <2>1. Cardinality(MayStill(e)') <= Cardinality(MayStill(e)) /\ Cardinality(MayStill(e)') \in Nat
    BY <1>1, <1>4, FS_Subset, FS_CardinalityType
  <2> QED
    BY <1>1, <1>2, <1>4, <2>1
<1> QED
  BY <1>3, <1>4

----
(* The mails begin in the invariant, ...                                   *)
LEMMA MailInitInv == OrderMailInit => MailInv
<1> SUFFICES ASSUME OrderMailInit PROVE MailInv
  OBVIOUS
<1>1. OrderMailTypeOK
  BY DEF OrderMailInit, OrderMailTypeOK
<1>2. KeyIsHeld /\ MirrorsKnow /\ KeysAreHonest /\ NoticesFollowMail
  BY DEF OrderMailInit, KeyIsHeld, MirrorsKnow, KeysAreHonest, NoticesFollowMail, HoldsKey, HookAt, NotCalled
<1>3. ASSUME NEW e \in Happenings
      PROVE  mailed[e] + Cardinality(MayStill(e)) <= Cardinality(callers[e]) + excused[e]
  <2>1. callers[e] = {} /\ MayStill(e) = {} /\ mailed[e] = 0 /\ excused[e] = 0
    BY DEF OrderMailInit, MayStill
  <2> QED
    BY <2>1, FS_EmptySet
<1> QED
  BY <1>1, <1>2, <1>3 DEF MailInv, CopiesAreCounted

(* ... and every step keeps it: a call begins, ...                         *)
LEMMA CallKeeps ==
    ASSUME MailInv, NEW h \in Hooks, NEW i \in Hosts, NEW e \in Happenings, CallHook(h, i, e)
    PROVE  MailInv'
<1> DEFINE new == [step |-> "called", host |-> i, of |-> e, left |-> MaxSends]
<1>1. /\ hook' \in [Hooks -> {NotCalled} \cup HookType]
      /\ hook'[h].step = "called" /\ \A g \in Hooks \ {h} : hook'[g] = hook[g]
  <2>1. new \in HookType
    BY OrderMailAssumption DEF HookType, HookSteps
  <2> QED
    BY <2>1 DEF CallHook, MailInv, OrderMailTypeOK, HookType
<1>2. OrderMailTypeOK'
  BY <1>1 DEF CallHook, MailInv, OrderMailTypeOK, mailHistory, HookType
<1>3. ~HoldsKey(h) /\ ~HoldsKey(h)' /\ ~HookAt(h, "mirror")'
  BY <1>1 DEF CallHook, HoldsKey, HookAt, NotCalled
<1>4. \A j, f : Trying(j, f)' <=> Trying(j, f)
  BY <1>1, <1>3 DEF Trying, Told, HoldsKey
<1>5. KeyIsHeld'
  BY <1>1, <1>3 DEF CallHook, MailInv, KeyIsHeld, HoldsKey, Told, mailHistory
<1>6. MirrorsKnow'
  BY <1>1, <1>3 DEF CallHook, MailInv, MirrorsKnow, HookAt, Told, mailHistory
<1>7. KeysAreHonest' /\ NoticesFollowMail'
  BY <1>4 DEF CallHook, MailInv, KeysAreHonest, NoticesFollowMail, mailHistory
<1>8. CopiesAreCounted'
  <2>1. \A f \in Happenings : MayStill(f)' = MayStill(f)
    BY <1>4 DEF MayStill, CallHook, mailHistory
  <2> QED
    BY <2>1 DEF CallHook, mailHistory, MailInv, CopiesAreCounted
<1> QED
  BY <1>2, <1>5, <1>6, <1>7, <1>8 DEF MailInv

(* A call that moves without taking or giving a key.                       *)
LEMMA ClaimKeeps ==
    ASSUME MailInv, NEW h \in Hooks, ClaimDedupe(h)
    PROVE  MailInv'
<1>p. Told(h) \in Happenings /\ hook[h].host \in Hosts
  BY HookFact DEF MailInv, ClaimDedupe, HookAt, HookSteps
<1>c. PICK e \in Happenings, i \in Hosts : e = Told(h) /\ i = hook[h].host
  BY <1>p
<1> USE <1>c
<1>0. OrderMailTypeOK /\ e \in Happenings /\ i \in Hosts /\ HookAt(h, "called")
  BY HookFact DEF MailInv, ClaimDedupe, HookAt, HookSteps
<1>a. ~HoldsKey(h) /\ ~HookAt(h, "mirror")
  BY <1>0 DEF HoldsKey, HookAt
<1>1. CASE e \in recentlySent[i]
  <2>1. /\ hook' \in [Hooks -> {NotCalled} \cup HookType]
        /\ hook'[h].step = "mirror" /\ hook'[h].of = e /\ hook'[h].host = i
        /\ \A g \in Hooks \ {h} : hook'[g] = hook[g]
    BY <1>0, <1>1, HookGoesFact DEF ClaimDedupe, HookAt, HookSteps
  <2>2. OrderMailTypeOK'
    BY <1>0, <1>1, <2>1 DEF ClaimDedupe, OrderMailTypeOK, HookType, LetsThrough
  <2>3. ~HoldsKey(h)'
    BY <2>1 DEF HoldsKey
  <2>4. \A j, f : Trying(j, f)' <=> Trying(j, f)
    BY <2>1, <2>3, <1>a DEF Trying, Told, HoldsKey
  <2>5. KeyIsHeld'
    BY <1>1, <2>1, <2>3 DEF ClaimDedupe, MailInv, KeyIsHeld, HoldsKey, Told
  <2>6. MirrorsKnow'
    <3>1. mailed'[e] > 0 \/ e \in unmailed'
      BY <1>0, <1>1 DEF ClaimDedupe, LetsThrough, OrderMailTypeOK
    <3>2. unmailed \subseteq unmailed' /\ mailed' = mailed
      BY <1>1 DEF ClaimDedupe, LetsThrough
    <3> QED
      BY <2>1, <3>1, <3>2 DEF MailInv, MirrorsKnow, HookAt, Told
  <2>7. KeysAreHonest' /\ NoticesFollowMail'
    <3>1. unmailed \subseteq unmailed'
      BY <1>1 DEF ClaimDedupe, LetsThrough
    <3> QED
      BY <1>1, <2>4, <3>1 DEF ClaimDedupe, MailInv, KeysAreHonest, NoticesFollowMail
  <2>8. CopiesAreCounted'
    <3>1. \A f \in Happenings : MayStill(f)' = MayStill(f)
      BY <1>1, <2>4 DEF MayStill, ClaimDedupe
    <3> QED
      BY <1>1, <3>1 DEF ClaimDedupe, MailInv, CopiesAreCounted
  <2> QED
    BY <2>2, <2>5, <2>6, <2>7, <2>8 DEF MailInv
<1>2. CASE e \notin recentlySent[i]
  <2>1. /\ hook' \in [Hooks -> {NotCalled} \cup HookType]
        /\ hook'[h].step = "claimed" /\ hook'[h].of = e /\ hook'[h].host = i
        /\ \A g \in Hooks \ {h} : hook'[g] = hook[g]
    BY <1>0, <1>2, HookGoesFact DEF ClaimDedupe, HookAt, HookSteps
  <2>2. /\ recentlySent' = [recentlySent EXCEPT ![i] = @ \cup {e}]
        /\ callers' = [callers EXCEPT ![e] = @ \cup {i}]
        /\ UNCHANGED <<mailed, inbox, bounced, excused, unmailed>>
    BY <1>2 DEF ClaimDedupe
  <2>3. OrderMailTypeOK'
    BY <1>0, <2>1, <2>2 DEF OrderMailTypeOK, HookType
  <2>4. HoldsKey(h)' /\ \A g \in Hooks \ {h} : HoldsKey(g)' <=> HoldsKey(g)
    BY <2>1 DEF HoldsKey
  <2>5. /\ \A j \in Hosts : recentlySent[j] \subseteq recentlySent'[j] /\ (j # i => recentlySent'[j] = recentlySent[j])
        /\ e \in recentlySent'[i] /\ recentlySent'[i] = recentlySent[i] \cup {e}
        /\ \A f \in Happenings : callers[f] \subseteq callers'[f] /\ (f # e => callers'[f] = callers[f])
        /\ callers'[e] = callers[e] \cup {i}
    BY <1>0, <2>2 DEF OrderMailTypeOK
  <2>6. KeyIsHeld'
    <3> SUFFICES ASSUME NEW g \in Hooks, HoldsKey(g)'
                 PROVE  /\ Told(g)' \in recentlySent'[hook'[g].host]
                        /\ hook'[g].host \in callers'[Told(g)']
                        /\ \A d \in Hooks : HoldsKey(d)' /\ Told(d)' = Told(g)' /\ hook'[d].host = hook'[g].host => d = g
      BY DEF KeyIsHeld
    <3>1. \A d \in Hooks \ {h} : HoldsKey(d) => ~(Told(d) = e /\ hook[d].host = i)
      BY <1>2 DEF MailInv, KeyIsHeld
    <3>2. CASE g = h
      BY <2>1, <2>4, <2>5, <3>1, <3>2 DEF Told
    <3>3. CASE g # h
      <4>1. HoldsKey(g) /\ hook'[g] = hook[g] /\ Told(g)' = Told(g) /\ Told(g) \in Happenings /\ hook[g].host \in Hosts
        BY <1>0, <2>1, <2>4, <3>3, HookFact DEF Told, HoldsKey, HookSteps
      <4>2. Told(g) \in recentlySent[hook[g].host] /\ hook[g].host \in callers[Told(g)]
        BY <4>1 DEF MailInv, KeyIsHeld
      <4>3. \A d \in Hooks \ {h} : HoldsKey(d)' /\ Told(d)' = Told(g)' /\ hook'[d].host = hook'[g].host => d = g
        BY <2>1, <2>4, <4>1 DEF MailInv, KeyIsHeld, Told
      <4>4. ~(Told(h)' = Told(g)' /\ hook'[h].host = hook'[g].host)
        BY <2>1, <3>1, <3>3, <4>1 DEF Told
      <4> QED
        BY <2>5, <4>1, <4>2, <4>3, <4>4
    <3> QED
      BY <3>2, <3>3
  <2>7. MirrorsKnow'
    BY <2>1, <2>2 DEF MailInv, MirrorsKnow, HookAt, Told
  <2>8. Trying(i, e)' /\ \A j, f : Trying(j, f) => Trying(j, f)'
    BY <2>1, <2>4, <1>a DEF Trying, Told, HoldsKey
  <2>9. \A j, f : ~(j = i /\ f = e) /\ Trying(j, f)' => Trying(j, f)
    BY <2>1, <2>4 DEF Trying, Told, HoldsKey
  <2>10. KeysAreHonest' /\ NoticesFollowMail'
    <3>1. NoticesFollowMail'
      BY <2>2 DEF MailInv, NoticesFollowMail
    <3>2. ASSUME NEW j \in Hosts, NEW f \in recentlySent'[j] PROVE mailed[f] > 0 \/ Trying(j, f)'
      <4>1. CASE f \in recentlySent[j]
        BY <2>8, <4>1 DEF MailInv, KeysAreHonest
      <4>2. CASE f \notin recentlySent[j]
        BY <2>5, <2>8, <4>2
      <4> QED
        BY <4>1, <4>2
    <3> QED
      BY <2>2, <3>1, <3>2 DEF KeysAreHonest
  <2>11. ASSUME NEW f \in Happenings
         PROVE  mailed'[f] + Cardinality(MayStill(f)') <= Cardinality(callers'[f]) + excused'[f]
    <3>1. CASE f # e
      <4>1. MayStill(f)' \subseteq MayStill(f) /\ callers'[f] = callers[f] /\ mailed'[f] = mailed[f] /\ excused'[f] = excused[f]
        <5>1. \A j \in callers[f] : j \in Hosts /\ (f \in recentlySent'[j] <=> f \in recentlySent[j])
          BY <1>0, <2>5, <3>1 DEF OrderMailTypeOK
        <5> QED
          BY <2>2, <2>5, <2>9, <3>1, <5>1 DEF MayStill
      <4>2. excused[f] <= excused'[f]
        BY <4>1, <1>0 DEF OrderMailTypeOK
      <4> QED
        BY <2>3, <4>1, <4>2, NothingSent
    <3>2. CASE f = e
      <4>1. \A j \in callers[e] \ {i} : j \in Hosts /\ (e \in recentlySent'[j] <=> e \in recentlySent[j])
        BY <1>0, <2>5 DEF OrderMailTypeOK
      <4>2. MayStill(e)' = MayStill(e) \cup {i} /\ (i \in MayStill(e) <=> i \in callers[e])
        <5>1. i \in callers'[e] /\ i \in MayStill(e)'
          BY <2>5, <2>8 DEF MayStill
        <5>2. i \in MayStill(e) <=> i \in callers[e]
          BY <1>2 DEF MayStill
        <5>3. ASSUME NEW j, j # i PROVE j \in MayStill(e)' <=> j \in MayStill(e)
          <6>1. j \in callers'[e] <=> j \in callers[e]
            BY <2>5, <5>3
          <6>2. Trying(j, e)' <=> Trying(j, e)
            BY <2>8, <2>9, <5>3
          <6> QED
            BY <4>1, <5>3, <6>1, <6>2 DEF MayStill
        <5> QED
          BY <5>1, <5>2, <5>3
      <4>3. /\ IsFiniteSet(callers[e]) /\ IsFiniteSet(MayStill(e))
            /\ Cardinality(callers[e]) \in Nat /\ Cardinality(MayStill(e)) \in Nat
            /\ mailed[e] \in Nat /\ excused[e] \in Nat
        BY <1>0, CallersAreFinite DEF OrderMailTypeOK
      <4>4. mailed[e] + Cardinality(MayStill(e)) <= Cardinality(callers[e]) + excused[e]
        BY <1>0 DEF MailInv, CopiesAreCounted
      <4>m. mailed'[e] = mailed[e] /\ excused'[e] = excused[e]
        BY <2>2
      <4>5. CASE i \in callers[e]
        <5>1. callers'[e] = callers[e] /\ MayStill(e)' = MayStill(e)
          BY <2>5, <4>2, <4>5
        <5> QED
          BY <3>2, <4>4, <4>m, <5>1
      <4>6. CASE i \notin callers[e]
        <5>1. /\ Cardinality(callers'[e]) = Cardinality(callers[e]) + 1
              /\ Cardinality(MayStill(e)') = Cardinality(MayStill(e)) + 1
          <6>1. Cardinality(callers[e] \cup {i}) = Cardinality(callers[e]) + 1
            BY <4>3, <4>6, FS_AddElement
          <6>2. i \notin MayStill(e)
            BY <4>2, <4>6
          <6>3. Cardinality(MayStill(e) \cup {i}) = Cardinality(MayStill(e)) + 1
            BY <4>3, <6>2, FS_AddElement
          <6> QED
            BY <2>5, <4>2, <6>1, <6>3
        <5> QED
          BY <3>2, <4>3, <4>4, <4>m, <5>1
      <4> QED
        BY <4>5, <4>6
    <3> QED
      BY <3>1, <3>2
  <2> QED
    BY <2>3, <2>6, <2>7, <2>10, <2>11 DEF MailInv, CopiesAreCounted
<1> QED
  BY <1>1, <1>2

(* What a provider may do with one call: nothing, or one copy more for     *)
(* which nobody takes the credit.                                          *)
LostAnswer(e) ==
    \/ UNCHANGED <<mailed, excused>>
    \/ mailed' = [mailed EXCEPT ![e] = @ + 1] /\ Excuse(e)

(* A call that holds its key and goes on holding it.                       *)
LEMMA HoldingKeeps ==
    ASSUME MailInv, NEW h \in Hooks, HoldsKey(h),
           hook' \in [Hooks -> {NotCalled} \cup HookType], HoldsKey(h)', hook'[h].of = Told(h), hook'[h].host = hook[h].host,
           \A g \in Hooks \ {h} : hook'[g] = hook[g],
           LostAnswer(Told(h)), UNCHANGED <<recentlySent, inbox, bounced, callers, unmailed>>
    PROVE  MailInv'
<1>p. Told(h) \in Happenings /\ hook[h].host \in Hosts
  BY HookFact DEF MailInv, HoldsKey, HookSteps
<1>c. PICK e \in Happenings, i \in Hosts : e = Told(h) /\ i = hook[h].host
  BY <1>p
<1> USE <1>c
<1>0. OrderMailTypeOK /\ e \in Happenings
  BY HookFact DEF MailInv, HoldsKey, HookSteps
<1>1. OrderMailTypeOK'
  BY <1>0 DEF OrderMailTypeOK, LostAnswer, Excuse, HookType
<1>2. \A g \in Hooks : (HoldsKey(g)' <=> HoldsKey(g)) /\ (HoldsKey(g) => Told(g)' = Told(g) /\ hook'[g].host = hook[g].host)
  BY DEF HoldsKey, Told
<1>3. \A j, f : Trying(j, f)' <=> Trying(j, f)
  BY <1>2 DEF Trying, HoldsKey
<1>4. KeyIsHeld'
  BY <1>2 DEF MailInv, KeyIsHeld
<1>5. \A f \in Happenings : mailed[f] > 0 => mailed'[f] > 0
  BY <1>0 DEF LostAnswer, OrderMailTypeOK
<1>6. MirrorsKnow'
  <2> SUFFICES ASSUME NEW g \in Hooks, HookAt(g, "mirror")'
               PROVE  mailed'[Told(g)'] > 0 \/ Told(g)' \in unmailed
    BY DEF MirrorsKnow
  <2>1. g # h /\ HookAt(g, "mirror") /\ Told(g)' = Told(g)
    BY DEF HookAt, HoldsKey, Told
  <2>2. Told(g) \in Happenings
    BY <1>0, <2>1, HookFact DEF HookAt, HookSteps
  <2> QED
    BY <2>1, <2>2, <1>5 DEF MailInv, MirrorsKnow
<1>7. KeysAreHonest' /\ NoticesFollowMail'
  <2>1. \A j \in Hosts : recentlySent[j] \subseteq Happenings /\ inbox \subseteq Happenings
    BY <1>0 DEF OrderMailTypeOK
  <2>2. NoticesFollowMail'
    BY <1>5, <2>1 DEF MailInv, NoticesFollowMail
  <2>3. ASSUME NEW j \in Hosts, NEW f \in recentlySent[j] PROVE mailed'[f] > 0 \/ Trying(j, f)'
    BY <1>3, <1>5, <2>1 DEF MailInv, KeysAreHonest
  <2> QED
    BY <2>2, <2>3 DEF KeysAreHonest
<1>8. \A f \in Happenings : MayStill(f)' = MayStill(f)
  BY <1>3 DEF MayStill
<1>9. ASSUME NEW f \in Happenings
      PROVE  mailed'[f] + Cardinality(MayStill(f)') <= Cardinality(callers'[f]) + excused'[f]
  <2>1. CASE mailed'[f] = mailed[f] /\ excused'[f] = excused[f]
    BY <2>1, <1>8 DEF MailInv, CopiesAreCounted
  <2>2. CASE mailed'[f] = mailed[f] + 1 /\ excused'[f] = excused[f] + 1
    BY <2>2, <1>1, <1>8, ExcusePays
  <2> QED
    BY <1>0, <2>1, <2>2 DEF LostAnswer, Excuse, OrderMailTypeOK
<1> QED
  BY <1>1, <1>4, <1>6, <1>7, <1>9 DEF MailInv, CopiesAreCounted

(* A call that gives its key back.                                         *)
LEMMA ReleaseKeeps ==
    ASSUME MailInv, NEW h \in Hooks, HoldsKey(h), NEW step \in {"mirror", "gone"}, HookGoes(h, step), Releases(h),
           LostAnswer(Told(h)), UNCHANGED <<inbox, bounced, callers>>,
           unmailed' \in SUBSET Happenings, unmailed \subseteq unmailed',
           step = "mirror" => mailed'[Told(h)] > 0 \/ Told(h) \in unmailed'
    PROVE  MailInv'
<1>p. Told(h) \in Happenings /\ hook[h].host \in Hosts
  BY HookFact DEF MailInv, HoldsKey, HookSteps
<1>c. PICK e \in Happenings, i \in Hosts : e = Told(h) /\ i = hook[h].host
  BY <1>p
<1> USE <1>c
<1>0. OrderMailTypeOK /\ e \in Happenings /\ i \in Hosts
  BY HookFact DEF MailInv, HoldsKey, HookSteps
<1>a. /\ hook' \in [Hooks -> {NotCalled} \cup HookType]
      /\ hook'[h].step = step /\ hook'[h].of = e /\ hook'[h].host = i
      /\ \A g \in Hooks \ {h} : hook'[g] = hook[g]
  BY <1>0, HookGoesFact DEF HoldsKey, HookSteps
<1>b. /\ \A j \in Hosts : recentlySent'[j] = IF j = i THEN recentlySent[j] \ {e} ELSE recentlySent[j]
      /\ recentlySent' \in [Hosts -> SUBSET Happenings]
  BY <1>0 DEF OrderMailTypeOK, Releases
<1>1. OrderMailTypeOK'
  BY <1>0, <1>a, <1>b DEF OrderMailTypeOK, LostAnswer, Excuse, HookType
<1>2. ~HoldsKey(h)' /\ \A g \in Hooks \ {h} : (HoldsKey(g)' <=> HoldsKey(g)) /\ Told(g)' = Told(g) /\ hook'[g].host = hook[g].host
  BY <1>a DEF HoldsKey, Told
<1>3. \A g \in Hooks \ {h} : HoldsKey(g) => ~(Told(g) = e /\ hook[g].host = i)
  BY DEF MailInv, KeyIsHeld
<1>4. KeyIsHeld'
  <2> SUFFICES ASSUME NEW g \in Hooks, HoldsKey(g)'
               PROVE  /\ Told(g)' \in recentlySent'[hook'[g].host]
                      /\ hook'[g].host \in callers[Told(g)']
                      /\ \A d \in Hooks : HoldsKey(d)' /\ Told(d)' = Told(g)' /\ hook'[d].host = hook'[g].host => d = g
    BY DEF KeyIsHeld
  <2>1. g # h /\ HoldsKey(g) /\ Told(g)' = Told(g) /\ hook'[g].host = hook[g].host
    BY <1>2
  <2>2. hook[g].host \in Hosts
    BY <1>0, <2>1, HookFact DEF HoldsKey, HookSteps
  <2>3. Told(g) \in recentlySent'[hook[g].host] /\ hook[g].host \in callers[Told(g)]
    BY <1>3, <1>b, <2>1, <2>2 DEF MailInv, KeyIsHeld
  <2> QED
    BY <1>2, <2>1, <2>3 DEF MailInv, KeyIsHeld
<1>5. \A j, f : ~(j = i /\ f = e) => (Trying(j, f)' <=> Trying(j, f))
  BY <1>2 DEF Trying, HoldsKey
<1>6. \A f \in Happenings : mailed[f] > 0 => mailed'[f] > 0
  BY <1>0 DEF LostAnswer, OrderMailTypeOK
<1>7. MirrorsKnow'
  <2> SUFFICES ASSUME NEW g \in Hooks, HookAt(g, "mirror")'
               PROVE  mailed'[Told(g)'] > 0 \/ Told(g)' \in unmailed'
    BY DEF MirrorsKnow
  <2>1. CASE g = h
    BY <2>1, <1>a DEF HookAt, Told
  <2>2. CASE g # h
    <3>1. HookAt(g, "mirror") /\ Told(g)' = Told(g)
      BY <2>2, <1>a DEF HookAt, Told
    <3>2. Told(g) \in Happenings
      BY <1>0, <3>1, HookFact DEF HookAt, HookSteps
    <3> QED
      BY <3>1, <3>2, <1>6 DEF MailInv, MirrorsKnow
  <2> QED
    BY <2>1, <2>2
<1>8. KeysAreHonest' /\ NoticesFollowMail'
  <2>1. inbox \subseteq Happenings
    BY <1>0 DEF OrderMailTypeOK
  <2>2. NoticesFollowMail'
    BY <1>6, <2>1 DEF MailInv, NoticesFollowMail
  <2>3. ASSUME NEW j \in Hosts, NEW f \in recentlySent'[j] PROVE mailed'[f] > 0 \/ Trying(j, f)'
    <3>1. f \in Happenings /\ f \in recentlySent[j] /\ ~(j = i /\ f = e)
      BY <1>b
    <3> QED
      BY <3>1, <1>5, <1>6 DEF MailInv, KeysAreHonest
  <2> QED
    BY <2>2, <2>3 DEF KeysAreHonest
<1>9. ASSUME NEW f \in Happenings
      PROVE  mailed'[f] + Cardinality(MayStill(f)') <= Cardinality(callers'[f]) + excused'[f]
  <2>1. MayStill(f)' \subseteq MayStill(f)
    <3>1. ASSUME NEW j \in MayStill(f)' PROVE j \in MayStill(f)
      <4>1. j \in callers[f] /\ j \in Hosts
        BY <1>0 DEF MayStill, OrderMailTypeOK
      <4>2. CASE j = i /\ f = e
        BY <4>1, <4>2 DEF MayStill, Trying, HoldsKey
      <4>3. CASE ~(j = i /\ f = e)
        <5>1. f \in recentlySent'[j] <=> f \in recentlySent[j]
          BY <1>b, <4>1, <4>3
        <5> QED
          BY <1>5, <4>1, <4>3, <5>1 DEF MayStill
      <4> QED
        BY <4>2, <4>3
    <3> QED
      BY <3>1
  <2>2. CASE mailed'[f] = mailed[f] /\ excused'[f] = excused[f]
    <3>1. excused[f] <= excused'[f]
      BY <2>2, <1>0 DEF OrderMailTypeOK
    <3> QED
      BY <2>1, <2>2, <3>1, <1>1, NothingSent
  <2>3. CASE mailed'[f] = mailed[f] + 1 /\ excused'[f] = excused[f] + 1
    BY <2>1, <2>3, <1>1, ExcusePays
  <2> QED
    BY <1>0, <2>2, <2>3 DEF LostAnswer, Excuse, OrderMailTypeOK
<1> QED
  BY <1>1, <1>4, <1>7, <1>8, <1>9 DEF MailInv, CopiesAreCounted

(* A mail the provider has accepted: its instance may send none again.     *)
LEMMA AcceptedKeeps ==
    ASSUME MailInv, NEW h \in Hooks, SendAccepted(h)
    PROVE  MailInv'
<1>p. Told(h) \in Happenings /\ hook[h].host \in Hosts
  BY HookFact DEF MailInv, SendAccepted, HookAt, HoldsKey, HookSteps
<1>c. PICK e \in Happenings, i \in Hosts : e = Told(h) /\ i = hook[h].host
  BY <1>p
<1> USE <1>c
<1>0. OrderMailTypeOK /\ HoldsKey(h) /\ e \in Happenings /\ i \in Hosts
  BY HookFact DEF MailInv, SendAccepted, HookAt, HoldsKey, HookSteps
<1>a. /\ hook' \in [Hooks -> {NotCalled} \cup HookType]
      /\ hook'[h].step = "mirror" /\ hook'[h].of = e /\ hook'[h].host = i
      /\ \A g \in Hooks \ {h} : hook'[g] = hook[g]
  BY <1>0, HookGoesFact DEF HoldsKey, HookSteps, SendAccepted
<1>b. /\ mailed' = [mailed EXCEPT ![e] = @ + 1]
      /\ UNCHANGED <<recentlySent, inbox, bounced, callers, excused, unmailed>>
  BY DEF SendAccepted, mailHistory
<1>1. OrderMailTypeOK'
  BY <1>0, <1>a, <1>b DEF OrderMailTypeOK, HookType
<1>2. ~HoldsKey(h)' /\ \A g \in Hooks \ {h} : (HoldsKey(g)' <=> HoldsKey(g)) /\ Told(g)' = Told(g) /\ hook'[g].host = hook[g].host
  BY <1>a DEF HoldsKey, Told
<1>3. \A g \in Hooks \ {h} : HoldsKey(g) => ~(Told(g) = e /\ hook[g].host = i)
  BY <1>0 DEF MailInv, KeyIsHeld
<1>4. KeyIsHeld'
  BY <1>2, <1>b DEF MailInv, KeyIsHeld
<1>5. /\ \A j, f : ~(j = i /\ f = e) => (Trying(j, f)' <=> Trying(j, f))
      /\ ~Trying(i, e)'
  <2>1. ~Trying(i, e)'
    BY <1>2, <1>3 DEF Trying, HoldsKey
  <2>2. ASSUME NEW j, NEW f, ~(j = i /\ f = e) PROVE Trying(j, f)' <=> Trying(j, f)
    BY <1>2, <2>2 DEF Trying, HoldsKey
  <2> QED
    BY <2>1, <2>2
<1>6. mailed'[e] > 0 /\ \A f \in Happenings : mailed[f] > 0 => mailed'[f] > 0
  BY <1>0, <1>b DEF OrderMailTypeOK
<1>7. MirrorsKnow'
  <2> SUFFICES ASSUME NEW g \in Hooks, HookAt(g, "mirror")'
               PROVE  mailed'[Told(g)'] > 0 \/ Told(g)' \in unmailed'
    BY DEF MirrorsKnow
  <2>1. CASE g = h
    BY <2>1, <1>a, <1>6 DEF HookAt, Told
  <2>2. CASE g # h
    <3>1. HookAt(g, "mirror") /\ Told(g)' = Told(g)
      BY <2>2, <1>a DEF HookAt, Told
    <3>2. Told(g) \in Happenings
      BY <1>0, <3>1, HookFact DEF HookAt, HookSteps
    <3> QED
      BY <3>1, <3>2, <1>6, <1>b DEF MailInv, MirrorsKnow
  <2> QED
    BY <2>1, <2>2
<1>8. KeysAreHonest' /\ NoticesFollowMail'
  <2>1. inbox \subseteq Happenings /\ \A j \in Hosts : recentlySent[j] \subseteq Happenings
    BY <1>0 DEF OrderMailTypeOK
  <2>2. NoticesFollowMail'
    BY <1>6, <1>b, <2>1 DEF MailInv, NoticesFollowMail
  <2>3. ASSUME NEW j \in Hosts, NEW f \in recentlySent'[j] PROVE mailed'[f] > 0 \/ Trying(j, f)'
    <3>1. f \in Happenings /\ f \in recentlySent[j]
      BY <1>b, <2>1
    <3> QED
      BY <3>1, <1>5, <1>6 DEF MailInv, KeysAreHonest
  <2> QED
    BY <2>2, <2>3 DEF KeysAreHonest
<1>9. ASSUME NEW f \in Happenings
      PROVE  mailed'[f] + Cardinality(MayStill(f)') <= Cardinality(callers'[f]) + excused'[f]
  <2>1. CASE f # e
    <3>1. MayStill(f)' = MayStill(f)
      BY <1>5, <1>b, <2>1 DEF MayStill
    <3>2. mailed'[f] = mailed[f]
      BY <1>0, <1>b, <2>1 DEF OrderMailTypeOK
    <3> QED
      BY <1>b, <3>1, <3>2 DEF MailInv, CopiesAreCounted
  <2>2. CASE f = e
    <3>1. e \in recentlySent[i] /\ i \in callers[e] /\ Trying(i, e)
      BY <1>0 DEF MailInv, KeyIsHeld, Trying, HoldsKey
    <3>2. i \in MayStill(e) /\ MayStill(e)' = MayStill(e) \ {i}
      <4>1. i \in MayStill(e) /\ i \notin MayStill(e)'
        BY <1>5, <1>b, <3>1 DEF MayStill
      <4>2. ASSUME NEW j, j # i PROVE j \in MayStill(e)' <=> j \in MayStill(e)
        <5>1. Trying(j, e)' <=> Trying(j, e)
          BY <1>5, <4>2
        <5> QED
          BY <1>b, <5>1 DEF MayStill
      <4> QED
        BY <4>1, <4>2
    <3>3. mailed'[e] = mailed[e] + 1
      BY <1>0, <1>b DEF OrderMailTypeOK
    <3>4. /\ IsFiniteSet(MayStill(e)) /\ Cardinality(callers[e]) \in Nat /\ Cardinality(MayStill(e)) \in Nat
          /\ mailed[e] \in Nat /\ excused[e] \in Nat
      BY <1>0, CallersAreFinite DEF OrderMailTypeOK
    <3>5. Cardinality(MayStill(e)') = Cardinality(MayStill(e)) - 1
      <4>1. Cardinality(MayStill(e) \ {i}) = Cardinality(MayStill(e)) - 1
        BY <3>2, <3>4, FS_RemoveElement
      <4> QED
        BY <3>2, <4>1
    <3>6. mailed[e] + Cardinality(MayStill(e)) <= Cardinality(callers[e]) + excused[e]
      BY <1>0 DEF MailInv, CopiesAreCounted
    <3>7. callers'[e] = callers[e] /\ excused'[e] = excused[e]
      BY <1>b
    <3> QED
      BY <2>2, <3>3, <3>4, <3>5, <3>6, <3>7
  <2> QED
    BY <2>1, <2>2
<1> QED
  BY <1>1, <1>4, <1>7, <1>8, <1>9 DEF MailInv, CopiesAreCounted

(* ... looks at the suppression list, ...                                  *)
LEMMA LookUpKeeps ==
    ASSUME MailInv, NEW h \in Hooks, LookUpAddress(h)
    PROVE  MailInv'
<1>0. OrderMailTypeOK /\ HoldsKey(h) /\ hook[h].step \in HookSteps /\ Told(h) \in Happenings
  BY HookFact DEF MailInv, LookUpAddress, HookAt, HoldsKey, HookSteps
<1>1. LostAnswer(Told(h))
  BY DEF LookUpAddress, LostAnswer
<1>2. CASE bounced
  <2>1. Releases(h) /\ HookGoes(h, "mirror") /\ UNCHANGED <<mailed, inbox, bounced, callers>>
    BY <1>2 DEF LookUpAddress
  <2>2. /\ unmailed' \in SUBSET Happenings /\ unmailed \subseteq unmailed'
        /\ mailed'[Told(h)] > 0 \/ Told(h) \in unmailed'
    BY <1>0, <1>2 DEF LookUpAddress, LetsThrough, OrderMailTypeOK
  <2> QED
    BY <1>0, <1>1, <2>1, <2>2, ReleaseKeeps
<1>3. CASE ~bounced
  <2>1. HookGoes(h, "sending") /\ UNCHANGED <<recentlySent, inbox, bounced, callers, unmailed>>
    BY <1>3 DEF LookUpAddress
  <2>2. /\ hook' \in [Hooks -> {NotCalled} \cup HookType]
        /\ hook'[h].step = "sending" /\ hook'[h].of = Told(h) /\ hook'[h].host = hook[h].host
        /\ \A g \in Hooks \ {h} : hook'[g] = hook[g]
    BY <1>0, <2>1, HookGoesFact DEF HookSteps
  <2>3. HoldsKey(h)'
    BY <2>2 DEF HoldsKey
  <2> QED
    BY <1>0, <1>1, <2>1, <2>2, <2>3, HoldingKeeps
<1> QED
  BY <1>2, <1>3

(* ... is not told that its mail was accepted, ...                         *)
LEMMA FailKeeps ==
    ASSUME MailInv, NEW h \in Hooks, SendFails(h)
    PROVE  MailInv'
<1>0. /\ OrderMailTypeOK /\ HoldsKey(h) /\ hook[h].step \in HookSteps /\ Told(h) \in Happenings
      /\ hook[h] \in HookType /\ hook[h].step = "sending"
  BY HookFact DEF MailInv, SendFails, HookAt, HoldsKey, HookSteps
<1>1. LostAnswer(Told(h)) /\ UNCHANGED <<inbox, bounced, callers, unmailed>>
  BY DEF SendFails, LostAnswer
<1>2. \/ GiveUp(h)
      \/ hook[h].left # 1 /\ hook' = [hook EXCEPT ![h].left = @ - 1] /\ UNCHANGED recentlySent
  BY DEF SendFails
<1>3. CASE GiveUp(h)
  <2>1. unmailed' \in SUBSET Happenings /\ unmailed \subseteq unmailed'
    BY <1>0, <1>1 DEF OrderMailTypeOK
  <2> QED
    BY <1>0, <1>1, <1>3, <2>1, ReleaseKeeps DEF GiveUp
<1>4. CASE hook[h].left # 1 /\ hook' = [hook EXCEPT ![h].left = @ - 1] /\ UNCHANGED recentlySent
  <2>1. hook[h].left - 1 \in 1..MaxSends
    BY <1>0, <1>4, OrderMailAssumption DEF HookType
  <2>2. [hook[h] EXCEPT !.left = @ - 1] \in HookType
    BY <1>0, <2>1 DEF HookType
  <2>3. /\ hook' \in [Hooks -> {NotCalled} \cup HookType]
        /\ hook'[h] = [hook[h] EXCEPT !.left = @ - 1]
        /\ \A g \in Hooks \ {h} : hook'[g] = hook[g]
    BY <1>0, <1>4, <2>2 DEF OrderMailTypeOK, HookType
  <2>4. hook'[h].of = Told(h) /\ hook'[h].host = hook[h].host /\ hook'[h].step = "sending"
    BY <1>0, <2>3 DEF HookType, Told
  <2>5. HoldsKey(h)'
    BY <2>4 DEF HoldsKey
  <2> QED
    BY <1>0, <1>1, <1>4, <2>3, <2>4, <2>5, HoldingKeeps
<1> QED
  BY <1>2, <1>3, <1>4

(* ... and writes the inbox; ...                                           *)
LEMMA MirrorKeeps ==
    ASSUME MailInv, NEW h \in Hooks, Mirror(h)
    PROVE  MailInv'
<1>0. OrderMailTypeOK /\ ~HoldsKey(h) /\ hook[h].step \in HookSteps /\ Told(h) \in Happenings
  BY HookFact DEF MailInv, Mirror, HookAt, HoldsKey, HookSteps
<1>a. /\ hook' \in [Hooks -> {NotCalled} \cup HookType]
      /\ hook'[h].step = "gone" /\ \A g \in Hooks \ {h} : hook'[g] = hook[g]
  BY <1>0, HookGoesFact DEF Mirror, HookSteps
<1>b. UNCHANGED <<recentlySent, mailed, bounced, callers, excused, unmailed>>
  BY DEF Mirror, mailHistory
<1>1. OrderMailTypeOK'
  BY <1>0, <1>a, <1>b DEF OrderMailTypeOK, HookType, Mirror
<1>2. ~HoldsKey(h)' /\ ~HookAt(h, "mirror")'
  BY <1>a DEF HoldsKey, HookAt
<1>3. \A j, f : Trying(j, f)' <=> Trying(j, f)
  BY <1>0, <1>a, <1>2 DEF Trying, Told, HoldsKey
<1>4. KeyIsHeld' /\ MirrorsKnow'
  BY <1>a, <1>b, <1>2 DEF MailInv, KeyIsHeld, MirrorsKnow, HoldsKey, HookAt, Told
<1>5. KeysAreHonest'
  BY <1>3, <1>b DEF MailInv, KeysAreHonest
<1>6. NoticesFollowMail'
  <2>1. mailed[Told(h)] > 0 \/ Told(h) \in unmailed
    BY DEF Mirror, MailInv, MirrorsKnow
  <2> QED
    BY <1>b, <2>1 DEF Mirror, MailInv, NoticesFollowMail
<1>7. \A f \in Happenings : MayStill(f)' = MayStill(f)
  BY <1>3, <1>b DEF MayStill
<1> QED
  BY <1>1, <1>4, <1>5, <1>6, <1>7, <1>b DEF MailInv, CopiesAreCounted

(* ... a day ends, ...                                                     *)
LEMMA ForgetKeeps ==
    ASSUME MailInv, NEW i \in Hosts, NEW e \in Happenings, ForgetKey(i, e)
    PROVE  MailInv'
<1>0. OrderMailTypeOK /\ ~Trying(i, e) /\ UNCHANGED <<hook, mailed, inbox, bounced, callers, unmailed>>
  BY DEF MailInv, ForgetKey
<1>b. /\ \A j \in Hosts : recentlySent'[j] = IF j = i THEN recentlySent[j] \ {e} ELSE recentlySent[j]
      /\ recentlySent' \in [Hosts -> SUBSET Happenings]
      /\ excused' \in [Happenings -> Nat]
      /\ excused'[e] = excused[e] + 1 /\ \A f \in Happenings \ {e} : excused'[f] = excused[f]
  <2>1. /\ recentlySent \in [Hosts -> SUBSET Happenings] /\ excused \in [Happenings -> Nat]
        /\ recentlySent' = [recentlySent EXCEPT ![i] = @ \ {e}] /\ excused' = [excused EXCEPT ![e] = @ + 1]
    BY <1>0 DEF OrderMailTypeOK, ForgetKey, Excuse
  <2>2. excused' \in [Happenings -> Nat] /\ excused'[e] = excused[e] + 1 /\ \A f \in Happenings \ {e} : excused'[f] = excused[f]
    BY <2>1
  <2>3. /\ \A j \in Hosts : recentlySent'[j] = IF j = i THEN recentlySent[j] \ {e} ELSE recentlySent[j]
        /\ recentlySent' \in [Hosts -> SUBSET Happenings]
    BY <2>1
  <2> QED
    BY <2>2, <2>3
<1>1. OrderMailTypeOK'
  BY <1>0, <1>b DEF OrderMailTypeOK
<1>3. \A j, f : Trying(j, f)' <=> Trying(j, f)
  BY <1>0 DEF Trying, Told
<1>4. KeyIsHeld'
  <2> SUFFICES ASSUME NEW g \in Hooks, HoldsKey(g)
               PROVE  Told(g) \in recentlySent'[hook[g].host]
    BY <1>0 DEF MailInv, KeyIsHeld, HoldsKey, Told
  <2>1. hook[g].host \in Hosts /\ ~(hook[g].host = i /\ Told(g) = e)
    BY <1>0, HookFact DEF HoldsKey, HookSteps, Trying
  <2> QED
    BY <1>b, <2>1 DEF MailInv, KeyIsHeld
<1>5. MirrorsKnow' /\ NoticesFollowMail'
  BY <1>0 DEF MailInv, MirrorsKnow, NoticesFollowMail, HookAt, Told
<1>6. KeysAreHonest'
  BY <1>0, <1>3, <1>b DEF MailInv, KeysAreHonest
<1>7. ASSUME NEW f \in Happenings
      PROVE  mailed'[f] + Cardinality(MayStill(f)') <= Cardinality(callers'[f]) + excused'[f]
  <2>0. \A j \in callers[f] : j \in Hosts
    BY <1>0 DEF OrderMailTypeOK
  <2>1. CASE f = e
    <3>1. MayStill(e)' \subseteq MayStill(e) \cup {i}
      BY <1>0, <1>3, <1>b, <2>0, <2>1 DEF MayStill
    <3> QED
      BY <1>0, <1>1, <1>b, <2>1, <3>1, ExcusePays
  <2>2. CASE f # e
    <3>1. MayStill(f)' = MayStill(f)
      BY <1>0, <1>3, <1>b, <2>0, <2>2 DEF MayStill
    <3> QED
      BY <1>0, <1>b, <2>2, <3>1 DEF MailInv, CopiesAreCounted
  <2> QED
    BY <2>1, <2>2
<1> QED
  BY <1>1, <1>4, <1>5, <1>6, <1>7 DEF MailInv, CopiesAreCounted

(* ... and an instance is replaced.                                        *)
LEMMA ReplaceKeeps ==
    ASSUME MailInv, NEW i \in Hosts, Replace(i)
    PROVE  MailInv'
<1>0. OrderMailTypeOK /\ UNCHANGED <<mailed, inbox, bounced, callers, unmailed>>
  BY DEF MailInv, Replace
<1>b. /\ recentlySent' \in [Hosts -> SUBSET Happenings]
      /\ recentlySent'[i] = {} /\ \A j \in Hosts \ {i} : recentlySent'[j] = recentlySent[j]
      /\ excused' \in [Happenings -> Nat]
      /\ \A f \in Happenings : excused'[f] = excused[f] + (IF f \in recentlySent[i] THEN 1 ELSE 0)
  BY <1>0 DEF OrderMailTypeOK, Replace
<1>a. ASSUME NEW h \in Hooks
      PROVE  /\ hook'[h] \in {NotCalled} \cup HookType
             /\ hook[h] # NotCalled /\ hook[h].host = i => hook'[h].step = "gone"
             /\ ~(hook[h] # NotCalled /\ hook[h].host = i) => hook'[h] = hook[h]
  <2>1. CASE hook[h] # NotCalled /\ hook[h].host = i
    <3>1. hook[h] \in HookType /\ hook'[h] = [hook[h] EXCEPT !.step = "gone"]
      BY <1>0, <2>1 DEF Replace, OrderMailTypeOK, HookType
    <3>2. hook'[h] \in HookType /\ hook'[h].step = "gone"
      BY <3>1 DEF HookType, HookSteps
    <3> QED
      BY <2>1, <3>2
  <2>2. CASE ~(hook[h] # NotCalled /\ hook[h].host = i)
    BY <1>0, <2>2 DEF Replace, OrderMailTypeOK, HookType
  <2> QED
    BY <2>1, <2>2
<1>c. hook' \in [Hooks -> {NotCalled} \cup HookType]
  BY <1>a DEF Replace
<1>1. OrderMailTypeOK'
  BY <1>0, <1>b, <1>c DEF OrderMailTypeOK, HookType
<1>2. \A h \in Hooks : HoldsKey(h)' <=> HoldsKey(h) /\ hook[h].host # i
  BY <1>a DEF HoldsKey, NotCalled
<1>3. \A h \in Hooks : HoldsKey(h)' \/ HookAt(h, "mirror")' => hook'[h] = hook[h]
  BY <1>a DEF HoldsKey, HookAt
<1>4. /\ \A f : ~Trying(i, f)'
      /\ \A j, f : j # i => (Trying(j, f)' <=> Trying(j, f))
  <2>1. \A h \in Hooks : \A j : HoldsKey(h) /\ hook[h].host = j /\ j # i => HoldsKey(h)' /\ hook'[h] = hook[h]
    BY <1>2, <1>3
  <2> QED
    BY <1>2, <1>3, <2>1 DEF Trying, HoldsKey, Told
<1>5. KeyIsHeld'
  <2> SUFFICES ASSUME NEW g \in Hooks, HoldsKey(g)'
               PROVE  /\ Told(g)' \in recentlySent'[hook'[g].host]
                      /\ hook'[g].host \in callers[Told(g)']
                      /\ \A d \in Hooks : HoldsKey(d)' /\ Told(d)' = Told(g)' /\ hook'[d].host = hook'[g].host => d = g
    BY <1>0 DEF KeyIsHeld
  <2>1. HoldsKey(g) /\ hook[g].host # i /\ hook'[g] = hook[g] /\ Told(g)' = Told(g) /\ hook[g].host \in Hosts
    BY <1>0, <1>2, <1>3, HookFact DEF Told, HoldsKey, HookSteps
  <2>2. Told(g) \in recentlySent'[hook[g].host] /\ hook[g].host \in callers[Told(g)]
    BY <1>b, <2>1 DEF MailInv, KeyIsHeld
  <2>3. \A d \in Hooks : HoldsKey(d)' => HoldsKey(d) /\ hook'[d] = hook[d] /\ Told(d)' = Told(d)
    BY <1>2, <1>3 DEF Told
  <2> QED
    BY <2>1, <2>2, <2>3 DEF MailInv, KeyIsHeld
<1>6. MirrorsKnow' /\ NoticesFollowMail'
  BY <1>0, <1>3 DEF MailInv, MirrorsKnow, NoticesFollowMail, HookAt, Told
<1>7. KeysAreHonest'
  BY <1>0, <1>4, <1>b DEF MailInv, KeysAreHonest
<1>8. ASSUME NEW f \in Happenings
      PROVE  mailed'[f] + Cardinality(MayStill(f)') <= Cardinality(callers'[f]) + excused'[f]
  <2>0. \A j \in callers[f] : j \in Hosts
    BY <1>0 DEF OrderMailTypeOK
  <2>1. MayStill(f)' \subseteq MayStill(f) \cup {i}
    BY <1>0, <1>4, <1>b, <2>0 DEF MayStill
  <2>2. CASE f \in recentlySent[i]
    <3>1. excused'[f] = excused[f] + 1
      BY <1>b, <2>2
    <3> QED
      BY <1>0, <1>1, <2>1, <3>1, ExcusePays
  <2>3. CASE f \notin recentlySent[i]
    <3>1. excused'[f] = excused[f] /\ excused[f] <= excused'[f]
      BY <1>0, <1>b, <2>3 DEF OrderMailTypeOK
    <3>2. i \in callers[f] => i \in MayStill(f)
      BY <2>3 DEF MayStill
    <3>3. MayStill(f)' \subseteq MayStill(f)
      BY <1>0, <2>1, <3>2 DEF MayStill
    <3> QED
      BY <1>0, <1>1, <3>1, <3>3, NothingSent
  <2> QED
    BY <2>2, <2>3
<1> QED
  BY <1>1, <1>5, <1>6, <1>7, <1>8 DEF MailInv, CopiesAreCounted

(* Neither a report of the provider nor a stutter touches keys or mails.   *)
LEMMA MailStutters ==
    ASSUME MailInv, UNCHANGED <<recentlySent, hook, mailed, inbox, callers, excused, unmailed>>, bounced' \in BOOLEAN
    PROVE  MailInv'
<1>1. OrderMailTypeOK'
  BY DEF MailInv, OrderMailTypeOK
<1>2. \A j, f : Trying(j, f)' <=> Trying(j, f)
  BY DEF Trying, Told
<1>3. \A f \in Happenings : MayStill(f)' = MayStill(f)
  BY <1>2 DEF MayStill
<1>4. KeyIsHeld' /\ MirrorsKnow' /\ NoticesFollowMail'
  BY DEF MailInv, KeyIsHeld, MirrorsKnow, NoticesFollowMail, HoldsKey, HookAt, Told
<1>5. KeysAreHonest'
  BY <1>2 DEF MailInv, KeysAreHonest
<1> QED
  BY <1>1, <1>3, <1>4, <1>5 DEF MailInv, CopiesAreCounted

(* Every step of the mails keeps the invariant.                            *)
LEMMA MailStepInv == MailInv /\ [OrderMailStep]_orderMailVars => MailInv'
<1> SUFFICES ASSUME MailInv, [OrderMailStep]_orderMailVars PROVE MailInv'
  OBVIOUS
<1>1. ASSUME Report PROVE MailInv'
  BY <1>1, MailStutters DEF Report, MailInv, OrderMailTypeOK, mailHistory
<1>2. ASSUME UNCHANGED orderMailVars PROVE MailInv'
  BY <1>2, MailStutters DEF orderMailVars, MailInv, OrderMailTypeOK
<1> QED
  BY <1>1, <1>2, CallKeeps, ClaimKeeps, LookUpKeeps, AcceptedKeeps, FailKeeps, MirrorKeeps, ForgetKeeps, ReplaceKeeps
     DEF OrderMailStep

(* However often an order's event is reported and its mail retried, the    *)
(* customer gets the copies that restarts, days and lost answers explain,  *)
(* a key is held only for a mail, and a notice goes with one.              *)
THEOREM OrderMailIsExplained == OrderMailSpec => []OrderMailHolds
<1>1. MailInv => OrderMailHolds
  <2> SUFFICES ASSUME MailInv PROVE OrderMailHolds
    OBVIOUS
  <2>1. ASSUME NEW e \in Happenings PROVE mailed[e] <= Cardinality(callers[e]) + excused[e]
    <3>1. mailed[e] \in Nat /\ excused[e] \in Nat /\ Cardinality(callers[e]) \in Nat /\ Cardinality(MayStill(e)) \in Nat
      BY CallersAreFinite DEF MailInv, OrderMailTypeOK
    <3>2. mailed[e] + Cardinality(MayStill(e)) <= Cardinality(callers[e]) + excused[e]
      BY DEF MailInv, CopiesAreCounted
    <3> QED
      BY <3>1, <3>2
  <2> QED
    BY <2>1 DEF MailInv, OrderMailHolds, CopiesAreExplained
<1> QED
  BY <1>1, MailInitInv, MailStepInv, PTL DEF OrderMailSpec

----------------------------------------------------------------------------
(* The rate limits.                                                        *)

Holders(b) ==
    {c \in Visits : VisitAt(c, "counted") /\ LimiterOf(c) = b /\ visit[c].fits /\ ~visit[c].old}

RoomIsHeld ==
    \A b \in Limiters :
        admitted[b] + Cardinality(Holders(b)) <= hits[b] /\ admitted[b] + Cardinality(Holders(b)) <= MaxHits[b]

SightIsSound ==
    \A i \in Fleet :
        /\ outageLogged[i] <=> entries[i] = "outage"
        /\ i \in joined => (outageLogged[i] <=> storeHealth[i] = "disconnected")
        /\ i \notin joined => storeHealth[i] = "disconnected" /\ ~outageLogged[i]

RateInv == RateTypeOK /\ RoomIsHeld /\ SightIsSound

(* What a server may do to what it knows of the store.                     *)
SightType ==
    /\ storeHealth \in [Fleet -> {"connected", "disconnected"}]
    /\ outageLogged \in [Fleet -> BOOLEAN]
    /\ entries \in [Fleet -> {"none", "outage", "recovery"}] /\ joined \subseteq Fleet

(* A server notes that it has lost the store.                              *)
LEMMA UnavailableKeeps ==
    ASSUME NEW i \in Fleet, SightType, SightIsSound, MarkStoreUnavailable(i)
    PROVE  SightType' /\ SightIsSound'
<1>1. SightType'
  BY DEF SightType, MarkStoreUnavailable
<1>2. ASSUME NEW j \in Fleet, j # i
      PROVE  /\ outageLogged'[j] = outageLogged[j] /\ entries'[j] = entries[j]
             /\ storeHealth'[j] = storeHealth[j] /\ (j \in joined' <=> j \in joined)
  BY <1>2 DEF SightType, MarkStoreUnavailable
<1>3. /\ outageLogged'[i] <=> entries'[i] = "outage"
      /\ i \in joined' => (outageLogged'[i] <=> storeHealth'[i] = "disconnected")
      /\ i \notin joined' => storeHealth'[i] = "disconnected" /\ ~outageLogged'[i]
  BY DEF SightType, SightIsSound, MarkStoreUnavailable
<1> QED
  BY <1>1, <1>2, <1>3 DEF SightIsSound

(* A server notes that the store has answered.                             *)
LEMMA AvailableKeeps ==
    ASSUME NEW i \in Fleet, SightType, SightIsSound, MarkStoreAvailable(i)
    PROVE  SightType' /\ SightIsSound'
<1>1. SightType'
  BY DEF SightType, MarkStoreAvailable
<1>2. ASSUME NEW j \in Fleet, j # i
      PROVE  /\ outageLogged'[j] = outageLogged[j] /\ entries'[j] = entries[j]
             /\ storeHealth'[j] = storeHealth[j] /\ (j \in joined' <=> j \in joined)
  BY <1>2 DEF SightType, MarkStoreAvailable
<1>3. /\ outageLogged'[i] <=> entries'[i] = "outage"
      /\ i \in joined' => (outageLogged'[i] <=> storeHealth'[i] = "disconnected")
      /\ i \notin joined' => storeHealth'[i] = "disconnected" /\ ~outageLogged'[i]
  BY DEF SightType, SightIsSound, MarkStoreAvailable
<1> QED
  BY <1>1, <1>2, <1>3 DEF SightIsSound

VisitType ==
    visit \in [Visits -> {Away} \cup [step : VisitSteps, server : Fleet, at : DOMAIN Route,
                                      again : BOOLEAN, fits : BOOLEAN, old : BOOLEAN]]
CountType ==
    /\ hits \in [Limiters -> Nat] /\ stray \in [Limiters -> Nat] /\ admitted \in [Limiters -> Nat]
    /\ reachable \in BOOLEAN

(* The type invariant in its three parts.                                  *)
LEMMA RateTypeParts == RateTypeOK <=> SightType /\ VisitType /\ CountType
  BY DEF RateTypeOK, SightType, VisitType, CountType

(* A request under way is at a limiter of the route.                       *)
LEMMA UnderWay ==
    ASSUME VisitType, NEW c \in Visits, visit[c].step \in VisitSteps
    PROVE  /\ visit[c] \in [step : VisitSteps, server : Fleet, at : DOMAIN Route, again : BOOLEAN, fits : BOOLEAN, old : BOOLEAN]
           /\ LimiterOf(c) \in Limiters /\ visit[c].server \in Fleet
<1>1. visit[c] \in [step : VisitSteps, server : Fleet, at : DOMAIN Route, again : BOOLEAN, fits : BOOLEAN, old : BOOLEAN]
  BY DEF VisitType, Away, VisitSteps
<1> QED
  BY <1>1 DEF LimiterOf, Limiters

(* Requests are finitely many, so those that hold a place are counted.     *)
LEMMA HoldersAreFinite ==
    ASSUME NEW b
    PROVE  IsFiniteSet(Holders(b)) /\ Cardinality(Holders(b)) \in Nat
<1>1. Holders(b) \subseteq Visits
  BY DEF Holders
<1> QED
  BY <1>1, FS_Subset, FS_CardinalityType, RateLimitsAssumption

(* The room is kept by what touches neither the counts nor the holders, or *)
(* lets a holder go.                                                       *)
LEMMA RoomKeeps ==
    ASSUME CountType, RoomIsHeld, CountType',
           \A b \in Limiters : /\ hits[b] <= hits'[b] /\ admitted'[b] = admitted[b]
                               /\ Holders(b)' \subseteq Holders(b)
    PROVE  RoomIsHeld'
<1> SUFFICES ASSUME NEW b \in Limiters
             PROVE  /\ admitted'[b] + Cardinality(Holders(b)') <= hits'[b]
                    /\ admitted'[b] + Cardinality(Holders(b)') <= MaxHits[b]
  BY DEF RoomIsHeld
<1>1. Cardinality(Holders(b)') <= Cardinality(Holders(b)) /\ Cardinality(Holders(b)') \in Nat
  BY HoldersAreFinite, FS_Subset, FS_CardinalityType
<1>2. /\ hits[b] \in Nat /\ hits'[b] \in Nat /\ admitted[b] \in Nat /\ admitted'[b] \in Nat
      /\ MaxHits[b] \in Nat /\ Cardinality(Holders(b)) \in Nat
  BY HoldersAreFinite, RateLimitsAssumption DEF CountType
<1> QED
  BY <1>1, <1>2 DEF RoomIsHeld

(* One more request holds a place, ...                                     *)
LEMMA OneHolderMore ==
    ASSUME NEW b, NEW c \in Visits, c \notin Holders(b), Holders(b)' = Holders(b) \cup {c}
    PROVE  Cardinality(Holders(b)') = Cardinality(Holders(b)) + 1
  BY HoldersAreFinite, FS_AddElement

(* ... or one fewer does.                                                  *)
LEMMA OneHolderLess ==
    ASSUME NEW b, NEW c \in Holders(b), Holders(b)' = Holders(b) \ {c}
    PROVE  Cardinality(Holders(b)') = Cardinality(Holders(b)) - 1
  BY HoldersAreFinite, FS_RemoveElement

----
(* The store counts a request: it takes a place if one is left.            *)
LEMMA IncrementKeeps ==
    ASSUME RateInv, NEW c \in Visits, Increment(c)
    PROVE  VisitType' /\ CountType' /\ RoomIsHeld'
<1> USE RateTypeParts DEF RateInv
<1>1. /\ visit[c] \in [step : VisitSteps, server : Fleet, at : DOMAIN Route, again : BOOLEAN, fits : BOOLEAN, old : BOOLEAN]
      /\ LimiterOf(c) \in Limiters
  BY UnderWay DEF Increment, VisitAt, VisitSteps
<1>2. CountType'
  BY <1>1 DEF Increment, CountType
<1>3. VisitType'
  <2> DEFINE fits == hits[LimiterOf(c)] < MaxHits[LimiterOf(c)]
  <2>1. visit' = [visit EXCEPT ![c] = [visit[c] EXCEPT !.step = "counted", !.fits = fits]]
    BY DEF Increment
  <2>2. fits \in BOOLEAN
    OBVIOUS
  <2> HIDE DEF fits
  <2>3. [visit[c] EXCEPT !.step = "counted", !.fits = fits]
          \in [step : VisitSteps, server : Fleet, at : DOMAIN Route, again : BOOLEAN, fits : BOOLEAN, old : BOOLEAN]
    BY <1>1, <2>2 DEF VisitSteps
  <2> QED
    BY <2>1, <2>3 DEF VisitType
<1>4. \A d \in Visits \ {c} : visit'[d] = visit[d]
  BY DEF Increment, VisitType
<1>6. visit[c].step = "waiting"
  BY DEF Increment, VisitAt
<1>7. RoomIsHeld'
  <2>0. \A b \in Limiters : c \notin Holders(b)
    BY <1>6 DEF Holders, VisitAt
  <2>1. /\ visit'[c].step = "counted" /\ visit'[c].at = visit[c].at
        /\ visit'[c].fits = (hits[LimiterOf(c)] < MaxHits[LimiterOf(c)])
    BY <1>1, <1>6 DEF Increment, VisitType
  <2>2. \A b \in Limiters \ {LimiterOf(c)} : Holders(b)' = Holders(b)
    BY <1>4, <2>0, <2>1 DEF Holders, VisitAt, LimiterOf
  <2>3. CASE hits[LimiterOf(c)] < MaxHits[LimiterOf(c)]
    <3> SUFFICES ASSUME NEW b \in Limiters
                 PROVE  /\ admitted'[b] + Cardinality(Holders(b)') <= hits'[b]
                        /\ admitted'[b] + Cardinality(Holders(b)') <= MaxHits[b]
      BY <1>2, <1>3 DEF RoomIsHeld
    <3>0. /\ hits[b] \in Nat /\ admitted[b] \in Nat /\ MaxHits[b] \in Nat /\ Cardinality(Holders(b)) \in Nat
          /\ admitted'[b] = admitted[b]
      BY HoldersAreFinite, RateLimitsAssumption DEF CountType, Increment
    <3>a. admitted[b] + Cardinality(Holders(b)) <= hits[b] /\ admitted[b] + Cardinality(Holders(b)) <= MaxHits[b]
      BY DEF RoomIsHeld
    <3>1. CASE b # LimiterOf(c)
      <4>1. hits'[b] = hits[b] /\ Holders(b)' = Holders(b)
        BY <2>2, <3>1, <1>1 DEF Increment, CountType
      <4> QED
        BY <4>1, <3>0, <3>a
    <3>2. CASE b = LimiterOf(c)
      <4>1. hits'[b] = hits[b] + 1
        BY <3>2, <1>1 DEF Increment, CountType
      <4>2. Cardinality(Holders(b)') <= Cardinality(Holders(b)) + 1 /\ Cardinality(Holders(b)') \in Nat
        <5>1. Holders(b)' \subseteq Holders(b) \cup {c}
          BY <1>4 DEF Holders, VisitAt, LimiterOf
        <5>2. /\ IsFiniteSet(Holders(b) \cup {c})
              /\ Cardinality(Holders(b) \cup {c}) = Cardinality(Holders(b)) + 1
          BY <2>0, HoldersAreFinite, FS_AddElement
        <5>3. /\ Cardinality(Holders(b)') <= Cardinality(Holders(b) \cup {c})
              /\ Cardinality(Holders(b)') \in Nat
          BY <5>1, <5>2, FS_Subset, FS_CardinalityType
        <5> QED
          BY <5>2, <5>3
      <4>3. hits[b] < MaxHits[b]
        BY <2>3, <3>2
      <4> QED
        BY <4>1, <4>2, <4>3, <3>0, <3>a
    <3> QED
      BY <3>1, <3>2
  <2>4. CASE ~(hits[LimiterOf(c)] < MaxHits[LimiterOf(c)])
    <3>1. \A b \in Limiters : Holders(b)' \subseteq Holders(b)
      BY <1>4, <2>1, <2>4 DEF Holders, VisitAt, LimiterOf
    <3>2. \A b \in Limiters : hits[b] <= hits'[b] /\ admitted'[b] = admitted[b]
      BY <1>1 DEF Increment, CountType
    <3> QED
      BY <1>2, <1>3, <3>1, <3>2, RoomKeeps
  <2> QED
    BY <1>2, <1>3, <2>3, <2>4
<1> QED
  BY <1>2, <1>3, <1>7

(* A late command only fills the window.                                   *)
LEMMA CountLateKeeps ==
    ASSUME RateInv, NEW w \in Limiters, CountLate(w)
    PROVE  VisitType' /\ CountType' /\ RoomIsHeld'
<1> USE RateTypeParts DEF RateInv
<1>1. VisitType' /\ CountType'
  BY DEF CountLate, VisitType, CountType
<1>2. \A b \in Limiters : /\ hits[b] <= hits'[b] /\ admitted'[b] = admitted[b]
                         /\ Holders(b)' \subseteq Holders(b)
  BY DEF CountLate, CountType, Holders, VisitAt, LimiterOf
<1> QED
  BY <1>1, <1>2, RoomKeeps

(* A request that is let through turns its place into an admission.        *)
LEMMA PassesKeeps ==
    ASSUME RateInv, NEW c \in Visits, VisitAt(c, "counted"), visit[c].fits, Passes(c), UNCHANGED <<hits, stray, reachable>>
    PROVE  VisitType' /\ CountType' /\ RoomIsHeld'
<1> USE RateTypeParts DEF RateInv
<1>1. /\ visit[c] \in [step : VisitSteps, server : Fleet, at : DOMAIN Route, again : BOOLEAN, fits : BOOLEAN, old : BOOLEAN]
      /\ LimiterOf(c) \in Limiters
  BY UnderWay DEF VisitAt, VisitSteps
<1>2. CountType'
  BY <1>1 DEF Passes, CountType
<1>3. VisitType' /\ visit'[c].step \in {"idle", "waiting", "loading"}
  <2>1. CASE visit[c].at = Len(Route)
    BY <2>1 DEF Passes, VisitType, Away
  <2>2. CASE visit[c].at # Len(Route)
    <3>0. visit[c].at \in DOMAIN Route /\ DOMAIN Route = 1..Len(Route) /\ Len(Route) \in Nat
      BY <1>1, RateLimitsAssumption
    <3>1. visit[c].at + 1 \in DOMAIN Route
      BY <2>2, <3>0
    <3>2. PICK step \in {"waiting", "loading"} :
              visit' = [visit EXCEPT ![c] = Fresh(visit[c].server, visit[c].at + 1, step)]
      BY <2>2 DEF Passes
    <3>3. Fresh(visit[c].server, visit[c].at + 1, step)
            \in [step : VisitSteps, server : Fleet, at : DOMAIN Route, again : BOOLEAN, fits : BOOLEAN, old : BOOLEAN]
      BY <1>1, <3>1 DEF VisitSteps, Fresh
    <3>4. Fresh(visit[c].server, visit[c].at + 1, step).step = step
      BY DEF Fresh
    <3> QED
      BY <3>2, <3>3, <3>4 DEF VisitType
  <2> QED
    BY <2>1, <2>2
<1>4. \A d \in Visits \ {c} : visit'[d] = visit[d]
  BY DEF Passes, VisitType
<1>5. \A b \in Limiters : Holders(b)' = Holders(b) \ {c}
  BY <1>3, <1>4 DEF Holders, VisitAt, LimiterOf
<1>6. CASE visit[c].old
  <2>1. \A b \in Limiters : hits[b] <= hits'[b] /\ admitted'[b] = admitted[b]
    BY <1>6 DEF Passes, CountType
  <2> QED
    BY <1>2, <1>3, <1>5, <2>1, RoomKeeps
<1>7. CASE ~visit[c].old
  <2> SUFFICES ASSUME NEW b \in Limiters
               PROVE  /\ admitted'[b] + Cardinality(Holders(b)') <= hits'[b]
                      /\ admitted'[b] + Cardinality(Holders(b)') <= MaxHits[b]
    BY <1>2, <1>3 DEF RoomIsHeld
  <2>0. /\ hits[b] \in Nat /\ admitted[b] \in Nat /\ MaxHits[b] \in Nat /\ Cardinality(Holders(b)) \in Nat
        /\ hits'[b] = hits[b]
    BY HoldersAreFinite, RateLimitsAssumption DEF CountType
  <2>a. admitted[b] + Cardinality(Holders(b)) <= hits[b] /\ admitted[b] + Cardinality(Holders(b)) <= MaxHits[b]
    BY DEF RoomIsHeld
  <2>1. CASE b # LimiterOf(c)
    <3>1. admitted'[b] = admitted[b]
      BY <1>1, <1>7, <2>1 DEF Passes, CountType
    <3>2. c \notin Holders(b)
      BY <2>1 DEF Holders
    <3>3. Holders(b)' = Holders(b)
      BY <1>5, <3>2
    <3> QED
      BY <2>0, <2>a, <3>1, <3>3
  <2>2. CASE b = LimiterOf(c)
    <3>1. admitted'[b] = admitted[b] + 1
      BY <1>1, <1>7, <2>2 DEF Passes, CountType
    <3>2. c \in Holders(b)
      BY <1>7, <2>2 DEF Holders
    <3>3. Cardinality(Holders(b)') = Cardinality(Holders(b)) - 1
      BY <1>5, <3>2, OneHolderLess
    <3> QED
      BY <2>0, <2>a, <3>1, <3>3
  <2> QED
    BY <2>1, <2>2
<1> QED
  BY <1>2, <1>3, <1>6, <1>7

(* A request that goes back or waits holds no room.                        *)
LEMMA VisitEndKeeps ==
    ASSUME RateInv, NEW c \in Visits, NEW v, v.step # "counted",
           v \in {Away} \cup [step : VisitSteps, server : Fleet, at : DOMAIN Route, again : BOOLEAN, fits : BOOLEAN, old : BOOLEAN],
           visit' = [visit EXCEPT ![c] = v], UNCHANGED <<hits, admitted>>, reachable' \in BOOLEAN,
           stray' \in [Limiters -> Nat]
    PROVE  VisitType' /\ CountType' /\ RoomIsHeld'
<1> USE RateTypeParts DEF RateInv
<1>1. VisitType' /\ CountType'
  BY DEF VisitType, CountType
<1>2. visit'[c] = v /\ \A d \in Visits \ {c} : visit'[d] = visit[d]
  BY DEF VisitType
<1>3. \A b \in Limiters : Holders(b)' \subseteq Holders(b)
  BY <1>2 DEF Holders, VisitAt, LimiterOf
<1>4. \A b \in Limiters : hits[b] <= hits'[b] /\ admitted'[b] = admitted[b]
  BY DEF CountType
<1> QED
  BY <1>1, <1>3, <1>4, RoomKeeps

(* A new window forgets the count, and with it every place.                *)
LEMMA NewWindowKeeps ==
    ASSUME RateInv, NEW w \in Limiters, NewWindow(w)
    PROVE  VisitType' /\ CountType' /\ RoomIsHeld'
<1> USE RateTypeParts DEF RateInv
<1>1. CountType'
  BY DEF NewWindow, CountType
<1>2. ASSUME NEW c \in Visits
      PROVE  /\ visit'[c] \in {Away} \cup [step : VisitSteps, server : Fleet, at : DOMAIN Route,
                                           again : BOOLEAN, fits : BOOLEAN, old : BOOLEAN]
             /\ VisitAt(c, "counted") /\ LimiterOf(c) = w => visit'[c].old
             /\ ~(VisitAt(c, "counted") /\ LimiterOf(c) = w) => visit'[c] = visit[c]
             /\ visit'[c].step = visit[c].step /\ (visit[c].step = "counted" => visit'[c].at = visit[c].at)
  <2>1. CASE VisitAt(c, "counted") /\ LimiterOf(c) = w
    <3>1. visit[c] \in [step : VisitSteps, server : Fleet, at : DOMAIN Route, again : BOOLEAN, fits : BOOLEAN, old : BOOLEAN]
      BY <2>1, UnderWay DEF VisitAt, VisitSteps
    <3>2. visit'[c] = [visit[c] EXCEPT !.old = TRUE]
      BY <2>1 DEF NewWindow
    <3>3. visit'[c] \in [step : VisitSteps, server : Fleet, at : DOMAIN Route, again : BOOLEAN, fits : BOOLEAN, old : BOOLEAN]
      BY <3>1, <3>2
    <3> QED
      BY <2>1, <3>1, <3>2, <3>3
  <2>2. CASE ~(VisitAt(c, "counted") /\ LimiterOf(c) = w)
    BY <2>2 DEF NewWindow, VisitType
  <2> QED
    BY <2>1, <2>2
<1>3. VisitType'
  BY <1>2 DEF NewWindow, VisitType
<1>4. Holders(w)' = {}
  BY <1>2 DEF Holders, VisitAt, LimiterOf
<1>5. \A b \in Limiters \ {w} : Holders(b)' = Holders(b)
  BY <1>2 DEF Holders, VisitAt, LimiterOf
<1>6. SUFFICES ASSUME NEW b \in Limiters
               PROVE  /\ admitted'[b] + Cardinality(Holders(b)') <= hits'[b]
                      /\ admitted'[b] + Cardinality(Holders(b)') <= MaxHits[b]
  BY <1>1, <1>3 DEF RoomIsHeld
<1>7. CASE b = w
  <2>1. hits'[b] = 0 /\ admitted'[b] = 0 /\ MaxHits[b] \in Nat
    BY <1>7, RateLimitsAssumption DEF NewWindow, CountType
  <2>2. Cardinality(Holders(b)') = 0
    BY <1>4, <1>7, FS_EmptySet
  <2> QED
    BY <2>1, <2>2
<1>8. CASE b # w
  <2>1. hits'[b] = hits[b] /\ admitted'[b] = admitted[b]
    BY <1>8 DEF NewWindow, CountType
  <2>2. Holders(b)' = Holders(b)
    BY <1>5, <1>8
  <2> QED
    BY <2>1, <2>2 DEF RoomIsHeld
<1> QED
  BY <1>7, <1>8

(* Steps that count nothing.                                               *)
LEMMA RateStutters ==
    ASSUME RateInv, UNCHANGED <<hits, visit, stray, admitted>>, reachable' \in BOOLEAN
    PROVE  VisitType' /\ CountType' /\ RoomIsHeld'
<1> USE RateTypeParts DEF RateInv
<1>1. VisitType' /\ CountType'
  BY DEF VisitType, CountType
<1>2. \A b \in Limiters : Holders(b)' = Holders(b)
  BY DEF Holders, VisitAt, LimiterOf
<1> QED
  BY <1>1, <1>2 DEF RoomIsHeld

(* The limiters begin in the invariant, ...                                *)
LEMMA RateInitInv == RateInit => RateInv
<1> SUFFICES ASSUME RateInit PROVE RateInv
  OBVIOUS
<1>1. RateTypeOK
  BY DEF RateInit, RateTypeOK
<1>2. SightIsSound
  BY DEF RateInit, SightIsSound
<1>3. \A b \in Limiters : Holders(b) = {}
  BY DEF Holders, RateInit, VisitAt, Away
<1>4. ASSUME NEW b \in Limiters
      PROVE  /\ admitted[b] + Cardinality(Holders(b)) <= hits[b]
             /\ admitted[b] + Cardinality(Holders(b)) <= MaxHits[b]
  <2>1. Cardinality(Holders(b)) = 0 /\ admitted[b] = 0 /\ hits[b] = 0 /\ MaxHits[b] \in Nat
    BY <1>3, FS_EmptySet, RateLimitsAssumption DEF RateInit
  <2> QED
    BY <2>1
<1> QED
  BY <1>1, <1>2, <1>4 DEF RateInv, RoomIsHeld

(* ... and every step keeps it.                                            *)
LEMMA RateStepInv == RateInv /\ [RateStep]_rateVars => RateInv'
<1> SUFFICES ASSUME RateInv, [RateStep]_rateVars PROVE RateInv'
  OBVIOUS
<1> USE RateTypeParts
<1>0. SightType /\ VisitType /\ CountType /\ SightIsSound /\ RoomIsHeld
  BY DEF RateInv
<1>q. ASSUME SightType', VisitType', CountType', SightIsSound', RoomIsHeld' PROVE RateInv'
  BY <1>q DEF RateInv, RateTypeOK, SightType, VisitType, CountType
<1>s. ASSUME UNCHANGED serverSight PROVE SightType' /\ SightIsSound'
  BY <1>s, <1>0 DEF serverSight, SightType, SightIsSound
<1>1. ASSUME NEW c \in Visits, NEW i \in Fleet, SendCommand(c, i) PROVE RateInv'
  <2>0. PICK step \in {"waiting", "loading"} : visit' = [visit EXCEPT ![c] = Fresh(i, 1, step)]
    BY <1>1 DEF SendCommand
  <2> DEFINE v == Fresh(i, 1, step)
  <2>1. 1 \in DOMAIN Route
    BY RateLimitsAssumption
  <2>2. v \in [step : VisitSteps, server : Fleet, at : DOMAIN Route, again : BOOLEAN, fits : BOOLEAN, old : BOOLEAN] /\ v.step # "counted"
    BY <2>1 DEF VisitSteps, Fresh
  <2>3. /\ visit' = [visit EXCEPT ![c] = v] /\ UNCHANGED <<hits, admitted>>
        /\ reachable' \in BOOLEAN /\ stray' \in [Limiters -> Nat]
    BY <1>1, <1>0, <2>0 DEF SendCommand, CountType
  <2> HIDE DEF v
  <2>4. VisitType' /\ CountType' /\ RoomIsHeld'
    BY <2>2, <2>3, VisitEndKeeps
  <2> QED
    BY <2>4, <1>1, <1>q, <1>s DEF SendCommand
<1>2. ASSUME NEW c \in Visits, Increment(c) PROVE RateInv'
  BY <1>2, <1>q, <1>s, IncrementKeeps DEF Increment
<1>3. ASSUME NEW c \in Visits, Answered(c) PROVE RateInv'
  <2>1. visit[c].server \in Fleet
    BY <1>0, <1>3, UnderWay DEF Answered, VisitAt, VisitSteps
  <2>2. SightType' /\ SightIsSound'
    BY <2>1, <1>0, <1>3, AvailableKeeps DEF Answered
  <2>3. VisitType' /\ CountType' /\ RoomIsHeld'
    <3>1. CASE visit[c].fits
      BY <3>1, <1>3, PassesKeeps DEF Answered
    <3>2. CASE ~visit[c].fits
      <4>1. /\ visit' = [visit EXCEPT ![c] = Away] /\ UNCHANGED <<hits, admitted>>
            /\ reachable' \in BOOLEAN /\ stray' \in [Limiters -> Nat]
        BY <3>2, <1>0, <1>3 DEF Answered, CountType
      <4>2. Away.step # "counted"
        BY DEF Away
      <4> QED
        BY <4>1, <4>2, VisitEndKeeps
    <3> QED
      BY <3>1, <3>2
  <2> QED
    BY <2>2, <2>3, <1>q
<1>4. ASSUME NEW c \in Visits, Deadline(c) \/ Rejected(c) PROVE RateInv'
  <2>1. /\ visit[c] \in [step : VisitSteps, server : Fleet, at : DOMAIN Route, again : BOOLEAN, fits : BOOLEAN, old : BOOLEAN]
        /\ LimiterOf(c) \in Limiters /\ visit[c].server \in Fleet
    BY <1>0, <1>4, UnderWay DEF Deadline, Rejected, VisitAt, VisitSteps
  <2>2. SightType' /\ SightIsSound'
    BY <2>1, <1>0, <1>4, UnavailableKeeps DEF Deadline, Rejected, Fails
  <2> DEFINE v == IF visit[c].again THEN Away ELSE Fresh(visit[c].server, visit[c].at, "loading")
  <2>3. /\ v.step # "counted"
        /\ v \in {Away} \cup [step : VisitSteps, server : Fleet, at : DOMAIN Route, again : BOOLEAN, fits : BOOLEAN, old : BOOLEAN]
    BY <2>1 DEF VisitSteps, Away, Fresh
  <2>4. stray' \in [Limiters -> Nat]
    BY <1>0, <1>4, <2>1 DEF Deadline, Rejected, LeavesCommand, CountType
  <2>5. visit' = [visit EXCEPT ![c] = v] /\ UNCHANGED <<hits, admitted>> /\ reachable' \in BOOLEAN
    BY <1>4, <1>0 DEF Deadline, Rejected, Fails, CountType
  <2> HIDE DEF v
  <2>6. VisitType' /\ CountType' /\ RoomIsHeld'
    BY <2>3, <2>4, <2>5, VisitEndKeeps
  <2> QED
    BY <2>2, <2>6, <1>q
<1>5. ASSUME NEW c \in Visits, Reloaded(c) \/ ReloadFails(c) PROVE RateInv'
  <2>1. /\ visit[c] \in [step : VisitSteps, server : Fleet, at : DOMAIN Route, again : BOOLEAN, fits : BOOLEAN, old : BOOLEAN]
        /\ visit[c].server \in Fleet
    BY <1>0, <1>5, UnderWay DEF Reloaded, ReloadFails, VisitAt, VisitSteps
  <2>2. SightType' /\ SightIsSound'
    BY <2>1, <1>0, <1>5, AvailableKeeps, UnavailableKeeps DEF Reloaded, ReloadFails
  <2>3. PICK v \in {Away, [visit[c] EXCEPT !.step = "waiting", !.again = TRUE]} : visit' = [visit EXCEPT ![c] = v]
    <3>1. CASE Reloaded(c)
      <4>1. visit' = [visit EXCEPT ![c] = [visit[c] EXCEPT !.step = "waiting", !.again = TRUE]]
        BY <3>1 DEF Reloaded
      <4> QED
        BY <4>1
    <3>2. CASE ReloadFails(c)
      BY <3>2 DEF ReloadFails
    <3> QED
      BY <1>5, <3>1, <3>2
  <2>4. /\ v.step # "counted"
        /\ v \in {Away} \cup [step : VisitSteps, server : Fleet, at : DOMAIN Route, again : BOOLEAN, fits : BOOLEAN, old : BOOLEAN]
    <3> DEFINE again == [visit[c] EXCEPT !.step = "waiting", !.again = TRUE]
    <3>1. /\ again.step = "waiting"
          /\ again \in [step : VisitSteps, server : Fleet, at : DOMAIN Route, again : BOOLEAN, fits : BOOLEAN, old : BOOLEAN]
      BY <2>1 DEF VisitSteps
    <3>2. Away.step = "idle"
      BY DEF Away
    <3>3. v \in {Away, again}
      BY <2>3
    <3> HIDE DEF again
    <3> QED
      BY <3>1, <3>2, <3>3
  <2>5. UNCHANGED <<hits, admitted>> /\ reachable' \in BOOLEAN /\ stray' \in [Limiters -> Nat]
    BY <1>0, <1>5 DEF Reloaded, ReloadFails, CountType
  <2>6. VisitType' /\ CountType' /\ RoomIsHeld'
    BY <2>3, <2>4, <2>5, VisitEndKeeps
  <2> QED
    BY <2>2, <2>6, <1>q
<1>6. ASSUME NEW i \in Fleet, Connect(i) PROVE RateInv'
  <2>1. VisitType' /\ CountType' /\ RoomIsHeld'
    BY <1>0, <1>6, RateStutters DEF Connect, CountType
  <2> QED
    BY <2>1, <1>0, <1>6, <1>q, AvailableKeeps DEF Connect
<1>7. ASSUME NEW i \in Fleet, ClientError(i) PROVE RateInv'
  <2>1. VisitType' /\ CountType' /\ RoomIsHeld'
    BY <1>0, <1>7, RateStutters DEF ClientError, CountType
  <2> QED
    BY <2>1, <1>0, <1>7, <1>q, UnavailableKeeps DEF ClientError
<1>8. ASSUME NEW b \in Limiters, NewWindow(b) \/ CountLate(b) PROVE RateInv'
  BY <1>8, <1>q, <1>s, NewWindowKeeps, CountLateKeeps DEF NewWindow, CountLate
<1>9. ASSUME StoreToggles PROVE RateInv'
  <2>1. reachable' \in BOOLEAN
    BY <1>0, <1>9 DEF StoreToggles, CountType
  <2>2. VisitType' /\ CountType' /\ RoomIsHeld'
    BY <2>1, <1>9, RateStutters DEF StoreToggles
  <2> QED
    BY <2>2, <1>9, <1>q, <1>s DEF StoreToggles
<1>10. ASSUME UNCHANGED rateVars PROVE RateInv'
  <2>1. VisitType' /\ CountType' /\ RoomIsHeld'
    BY <1>0, <1>10, RateStutters DEF rateVars, CountType
  <2> QED
    BY <2>1, <1>10, <1>q, <1>s DEF rateVars, serverSight
<1> QED
  BY <1>1, <1>2, <1>3, <1>4, <1>5, <1>6, <1>7, <1>8, <1>9, <1>10 DEF RateStep

(* No window admits more than its limit, whichever server counts and       *)
(* whatever the store leaves unanswered, and outages are logged once.      *)
THEOREM LimitsAreKept == RateSpec => []RateLimitsHold
<1>1. RateInv => RateLimitsHold
  <2> SUFFICES ASSUME RateInv PROVE RateLimitsHold
    OBVIOUS
  <2>1. RateTypeOK /\ OutagesAreLogged
    BY DEF RateInv, SightIsSound, OutagesAreLogged
  <2>2. ASSUME NEW b \in Limiters PROVE admitted[b] <= MaxHits[b]
    <3>1. admitted[b] \in Nat /\ MaxHits[b] \in Nat /\ Cardinality(Holders(b)) \in Nat
      BY HoldersAreFinite, RateLimitsAssumption DEF RateInv, RateTypeOK
    <3> QED
      BY <3>1 DEF RateInv, RoomIsHeld
  <2> QED
    BY <2>1, <2>2 DEF RateLimitsHold, LimitsAreShared
<1> QED
  BY <1>1, RateInitInv, RateStepInv, PTL DEF RateSpec

----------------------------------------------------------------------------
(* The contact form.                                                       *)

EnquiryRow == [text : Texts, origin : Origins, signals : Signals, day : Nat, spam : BOOLEAN, looked : BOOLEAN,
        seen : Nat, when : Nat]
Enquired ==
    {NoEnquiry} \cup [step : {"scored"}, text : Texts, origin : Origins, signals : Signals]
    \cup [step : {"judged"}, row : EnquiryRow] \cup [step : {"stored", "mailed"}, at : Nat]

IntakeTypes == contactRows \in Seq(EnquiryRow) /\ enquiry \in [Enquiries -> Enquired] /\ today \in Nat

(* What a verdict rests on is still there to be seen: rows are never       *)
(* changed or removed.                                                     *)
Founded(r) ==
    /\ r.seen <= Len(contactRows)
    /\ r.looked /\ ~r.spam =>
        \A j \in 1 .. r.seen :
            contactRows[j].day = r.when /\ j + NewestRows > r.seen => contactRows[j].text # r.text
    /\ r.spam =>
        \/ Score(r.signals) >= SpamScore
        \/ \E j \in 1 .. r.seen : contactRows[j].text = r.text \/ contactRows[j].origin = r.origin

VerdictsAreFounded ==
    /\ \A k \in DOMAIN contactRows : contactRows[k].seen < k /\ Founded(contactRows[k])
    /\ \A q \in Enquiries : AsksAt(q, "judged") => Founded(enquiry[q].row)

StaffHearAccepted ==
    /\ \A q \in Enquiries : enquiry[q].step \in {"stored", "mailed"} =>
        enquiry[q].at \in DOMAIN contactRows /\ Accepted(enquiry[q].at)
    /\ \A k \in told : k \in DOMAIN contactRows /\ Accepted(k)

IntakeInv == IntakeTypes /\ VerdictsAreFounded /\ StaffHearAccepted

----
(* The rules of the score are finitely many.                               *)
LEMMA ThreeAreFinite == ASSUME NEW a, NEW b, NEW c PROVE IsFiniteSet({a, b, c})
<1>1. IsFiniteSet({a}) /\ IsFiniteSet({b}) /\ IsFiniteSet({c})
  BY FS_Singleton
<1>2. IsFiniteSet({a} \cup {b})
  BY <1>1, FS_Union
<1>3. IsFiniteSet(({a} \cup {b}) \cup {c})
  BY <1>1, <1>2, FS_Union
<1>4. ({a} \cup {b}) \cup {c} = {a, b, c}
  OBVIOUS
<1> QED
  BY <1>3, <1>4

LEMMA RulesAreFinite == IsFiniteSet(DOMAIN WeightOf)
<1> DEFINE A == {"honeypot", "keyword", "markup"}
           B == {"quick", "links", "repeated"}
           C == {"spaced", "capitals", "wordy"}
           D == {"shortLink", "noAgent", "noAgent"}
<1>1. IsFiniteSet(A) /\ IsFiniteSet(B) /\ IsFiniteSet(C) /\ IsFiniteSet(D)
  BY ThreeAreFinite
<1>2. DOMAIN WeightOf = (A \cup B) \cup (C \cup D)
  BY DEF WeightOf
<1> HIDE DEF A, B, C, D
<1>3. IsFiniteSet(A \cup B) /\ IsFiniteSet(C \cup D)
  BY <1>1, FS_Union
<1> QED
  BY <1>2, <1>3, FS_Union

(* One weak signal at most does not reach the score.                       *)
LEMMA OneIsNotEnough ==
    ASSUME NEW signals \in Signals, Cardinality(signals) <= 1, signals \cap HardSignals = {}
    PROVE  Score(signals) < SpamScore
<1>1. IsFiniteSet(signals) /\ signals \subseteq DOMAIN WeightOf
  BY RulesAreFinite, FS_Subset, IntakeAssumption
<1>2. CASE signals = {}
  BY <1>2, SumEmpty, IntakeAssumption DEF Score
<1>3. CASE signals # {}
  <2>1. PICK s \in signals : TRUE
    BY <1>3
  <2>2. IsFiniteSet(signals \ {s}) /\ Cardinality(signals \ {s}) = Cardinality(signals) - 1
    BY <1>1, FS_RemoveElement
  <2>3. Cardinality(signals \ {s}) \in Nat /\ Cardinality(signals) \in Nat
    BY <1>1, <2>2, FS_CardinalityType
  <2>4. signals \ {s} = {}
    BY <2>2, <2>3, FS_EmptySet
  <2>5. \A x \in signals : WeightOf[x] \in Int
    BY <1>1 DEF WeightOf
  <2>6. SumFunctionOnSet(WeightOf, signals) = WeightOf[s] + SumFunctionOnSet(WeightOf, signals \ {s})
    BY <1>1, <2>5, SumStep
  <2>7. Score(signals) = WeightOf[s]
    BY <2>4, <2>5, <2>6, SumEmpty DEF Score
  <2>8. s \in DOMAIN WeightOf \ HardSignals
    BY <1>1
  <2> QED
    BY <2>7, <2>8, IntakeAssumption
<1> QED
  BY <1>2, <1>3

----
LEMMA IntakeInitInv == IntakeInit => IntakeInv
  BY EmptySeq DEF IntakeInit, IntakeInv, IntakeTypes, Enquired, VerdictsAreFounded, StaffHearAccepted, NoEnquiry, AsksAt

(* An enquiry moves on, or a day begins; no row is added.                  *)
LEMMA NoRowKeeps ==
    ASSUME IntakeInv, UNCHANGED contactRows, IntakeTypes',
           \A q \in Enquiries : AsksAt(q, "judged")' =>
                \/ AsksAt(q, "judged") /\ enquiry'[q].row = enquiry[q].row
                \/ Founded(enquiry'[q].row),
           \A q \in Enquiries : enquiry'[q].step \in {"stored", "mailed"} =>
                enquiry[q].step \in {"stored", "mailed"} /\ enquiry'[q].at = enquiry[q].at,
           \A k \in told' : k \in told
                \/ \E q \in Enquiries : enquiry[q].step \in {"stored", "mailed"} /\ k = enquiry[q].at
    PROVE  IntakeInv'
<1>1. \A r : Founded(r)' <=> Founded(r)
  BY DEF Founded
<1>2. VerdictsAreFounded'
  BY DEF VerdictsAreFounded, Founded, AsksAt, IntakeInv
<1>3. StaffHearAccepted'
  BY DEF StaffHearAccepted, Accepted, IntakeInv
<1> QED
  BY <1>2, <1>3 DEF IntakeInv

LEMMA SubmitKeepsIntake ==
    ASSUME IntakeInv, NEW q \in Enquiries, NEW t \in Texts, NEW a \in Origins, NEW signals \in Signals,
           SubmitEnquiry(q, t, a, signals)
    PROVE  IntakeInv'
<1> DEFINE new == [step |-> "scored", text |-> t, origin |-> a, signals |-> signals]
<1>1. new \in Enquired /\ new.step = "scored"
  BY DEF Enquired
<1>2. enquiry' = [enquiry EXCEPT ![q] = new] /\ UNCHANGED <<contactRows, today, told>>
  BY DEF SubmitEnquiry
<1> HIDE DEF new
<1>3. /\ IntakeTypes' /\ enquiry'[q] = new /\ \A p \in Enquiries \ {q} : enquiry'[p] = enquiry[p]
  BY <1>1, <1>2 DEF IntakeInv, IntakeTypes
<1> QED
  BY <1>1, <1>2, <1>3, NoRowKeeps DEF AsksAt

(* What an enquiry of each step carries.                                   *)
LEMMA EnquiryFact ==
    ASSUME IntakeTypes, NEW q \in Enquiries
    PROVE  /\ AsksAt(q, "scored") =>
                enquiry[q].text \in Texts /\ enquiry[q].origin \in Origins /\ enquiry[q].signals \in Signals
           /\ AsksAt(q, "judged") => enquiry[q].row \in EnquiryRow
           /\ enquiry[q].step \in {"stored", "mailed"} => enquiry[q] \in [step : {"stored", "mailed"}, at : Nat]
  BY DEF IntakeTypes, Enquired, NoEnquiry, AsksAt

(* The verdict a handler reaches is founded.                               *)
LEMMA EvaluateFounds ==
    ASSUME IntakeInv, NEW q \in Enquiries, Evaluate(q)
    PROVE  \E r \in EnquiryRow : Founded(r) /\ enquiry' = [enquiry EXCEPT ![q] = [step |-> "judged", row |-> r]]
<1>0. /\ enquiry[q].text \in Texts /\ enquiry[q].origin \in Origins /\ enquiry[q].signals \in Signals
      /\ contactRows \in Seq(EnquiryRow) /\ today \in Nat /\ Len(contactRows) \in Nat
  BY EnquiryFact DEF Evaluate, IntakeInv, IntakeTypes
<1> DEFINE Verdict(looked, spam) ==
        [text |-> enquiry[q].text, origin |-> enquiry[q].origin, signals |-> enquiry[q].signals, day |-> today,
         spam |-> spam, looked |-> looked, seen |-> Len(contactRows), when |-> today]
           heavy == Score(enquiry[q].signals) >= SpamScore
           doubt == SameText(q) \/ FromOneAddress(q)
<1>1. \A looked \in BOOLEAN, spam \in BOOLEAN : Verdict(looked, spam) \in EnquiryRow
  BY <1>0 DEF EnquiryRow
<1>2. heavy \in BOOLEAN /\ (heavy \/ doubt) \in BOOLEAN
  OBVIOUS
<1>3. \/ Judged(q, FALSE, heavy) \/ Judged(q, TRUE, heavy \/ doubt)
  BY DEF Evaluate
<1>4. DOMAIN contactRows = 1 .. Len(contactRows)
  BY <1>0
<1>5. Founded(Verdict(FALSE, heavy))
  <2> DEFINE v == Verdict(FALSE, heavy)
  <2>1. v.signals = enquiry[q].signals /\ v.seen = Len(contactRows) /\ v.looked = FALSE /\ (v.spam <=> heavy)
    OBVIOUS
  <2> HIDE DEF v
  <2>2. Founded(v)
    BY <1>0, <2>1 DEF Founded
  <2> QED
    BY <2>2 DEF v
<1>6. doubt => \E j \in 1 .. Len(contactRows) :
                    contactRows[j].text = enquiry[q].text \/ contactRows[j].origin = enquiry[q].origin
  <2>1. ASSUME FromOneAddress(q)
        PROVE  \E j \in DOMAIN contactRows : contactRows[j].origin = enquiry[q].origin
    <3>1. {k \in Recent : contactRows[k].origin = enquiry[q].origin} # {}
      <4> SUFFICES ASSUME {k \in Recent : contactRows[k].origin = enquiry[q].origin} = {} PROVE FALSE
        OBVIOUS
      <4>1. 0 >= BurstSize
        BY <2>1, FS_EmptySet DEF FromOneAddress
      <4> QED
        BY <4>1, IntakeAssumption
    <3> QED
      BY <3>1 DEF Recent
  <2> QED
    BY <2>1, <1>4 DEF SameText, Recent
<1>7. ~doubt => \A j \in 1 .. Len(contactRows) :
                    contactRows[j].day = today /\ j + NewestRows > Len(contactRows)
                        => contactRows[j].text # enquiry[q].text
  BY <1>4 DEF SameText, Recent
<1> HIDE DEF heavy, doubt
<1>8. Founded(Verdict(TRUE, heavy \/ doubt))
  <2> DEFINE v == Verdict(TRUE, heavy \/ doubt)
  <2>1. /\ v.text = enquiry[q].text /\ v.origin = enquiry[q].origin /\ v.signals = enquiry[q].signals
        /\ v.seen = Len(contactRows) /\ v.when = today /\ (v.spam <=> heavy \/ doubt)
    OBVIOUS
  <2>2. v.seen <= Len(contactRows)
    BY <2>1, <1>0
  <2> HIDE DEF v
  <2>3. ~v.spam => \A j \in 1 .. v.seen :
            contactRows[j].day = v.when /\ j + NewestRows > v.seen => contactRows[j].text # v.text
    BY <2>1, <1>7
  <2>4. v.spam => \/ Score(v.signals) >= SpamScore
                  \/ \E j \in 1 .. v.seen : contactRows[j].text = v.text \/ contactRows[j].origin = v.origin
    BY <2>1, <1>6 DEF heavy
  <2>5. Founded(v)
    BY <2>2, <2>3, <2>4 DEF Founded
  <2> QED
    BY <2>5 DEF v
<1> QED
  BY <1>1, <1>2, <1>3, <1>5, <1>8 DEF Judged

LEMMA EvaluateKeeps ==
    ASSUME IntakeInv, NEW q \in Enquiries, Evaluate(q)
    PROVE  IntakeInv'
<1>1. PICK r \in EnquiryRow : Founded(r) /\ enquiry' = [enquiry EXCEPT ![q] = [step |-> "judged", row |-> r]]
  BY EvaluateFounds
<1> DEFINE new == [step |-> "judged", row |-> r]
<1>2. new \in Enquired /\ new.step = "judged" /\ new.row = r
  BY DEF Enquired
<1>3. enquiry' = [enquiry EXCEPT ![q] = new] /\ UNCHANGED <<contactRows, today, told>>
  BY <1>1 DEF Evaluate
<1> HIDE DEF new
<1>4. /\ IntakeTypes' /\ enquiry'[q] = new /\ \A p \in Enquiries \ {q} : enquiry'[p] = enquiry[p]
  BY <1>2, <1>3 DEF IntakeInv, IntakeTypes
<1> QED
  BY <1>1, <1>2, <1>3, <1>4, NoRowKeeps DEF AsksAt

(* The row is stored with its verdict.                                     *)
LEMMA StoreKeeps ==
    ASSUME IntakeInv, NEW q \in Enquiries, Store(q)
    PROVE  IntakeInv'
<1> DEFINE old == enquiry[q].row
           r == [old EXCEPT !.day = today]
           n == Len(contactRows)
<1>0. /\ old \in EnquiryRow /\ Founded(old) /\ contactRows \in Seq(EnquiryRow) /\ today \in Nat /\ n \in Nat
      /\ enquiry \in [Enquiries -> Enquired]
  BY EnquiryFact DEF Store, IntakeInv, IntakeTypes, VerdictsAreFounded
<1>1. /\ r \in EnquiryRow /\ r.seen = old.seen /\ r.looked = old.looked /\ r.spam = old.spam /\ r.text = old.text
      /\ r.when = old.when /\ r.signals = old.signals /\ r.origin = old.origin
  BY <1>0 DEF EnquiryRow
<1>2. contactRows' = Append(contactRows, r) /\ UNCHANGED <<today, told>>
  BY DEF Store
<1>3. Founded(r) /\ r.seen < n + 1
  BY <1>0, <1>1 DEF Founded, EnquiryRow
<1>4. /\ contactRows' \in Seq(EnquiryRow) /\ Len(contactRows') = n + 1 /\ contactRows'[n + 1] = r
      /\ \A k \in 1 .. n : contactRows'[k] = contactRows[k]
      /\ DOMAIN contactRows = 1 .. n /\ DOMAIN contactRows' = 1 .. n + 1
  BY <1>0, <1>1, <1>2
<1>5. \/ old.spam /\ enquiry' = [enquiry EXCEPT ![q] = NoEnquiry]
      \/ ~old.spam /\ enquiry' = [enquiry EXCEPT ![q] = [step |-> "stored", at |-> n + 1]]
  BY <1>4 DEF Store, EnquiryEnds
<1>6. /\ enquiry' \in [Enquiries -> Enquired]
      /\ \A p \in Enquiries \ {q} : enquiry'[p] = enquiry[p]
      /\ ~AsksAt(q, "judged")'
      /\ enquiry'[q].step \in {"stored", "mailed"} => ~r.spam /\ enquiry'[q].at = n + 1
  <2>1. NoEnquiry \in Enquired /\ [step |-> "stored", at |-> n + 1] \in Enquired /\ NoEnquiry.step = "idle"
    BY <1>0 DEF Enquired, NoEnquiry
  <2> QED
    BY <2>1, <1>0, <1>1, <1>5 DEF AsksAt
<1> HIDE DEF r, n, old
<1>7. ASSUME NEW v \in EnquiryRow, Founded(v)
      PROVE  Founded(v)'
  <2>1. v.seen \in Nat /\ v.seen <= n
    BY <1>7 DEF Founded, EnquiryRow, n
  <2>2. \A j \in 1 .. v.seen : contactRows'[j] = contactRows[j]
    BY <1>0, <1>4, <2>1
  <2>3. v.seen <= Len(contactRows')
    BY <1>0, <1>4, <2>1
  <2> QED
    BY <1>7, <2>2, <2>3 DEF Founded
<1>8. VerdictsAreFounded'
  <2>1. ASSUME NEW k \in DOMAIN contactRows' PROVE contactRows'[k].seen < k /\ Founded(contactRows[k])'
    <3>1. CASE k = n + 1
      <4>1. PICK v \in EnquiryRow : v = r
        BY <1>1
      <4>2. Founded(v)'
        BY <1>3, <1>7, <4>1
      <4>3. contactRows'[k] = v /\ v.seen < k
        BY <1>3, <1>4, <3>1, <4>1
      <4> QED
        BY <4>2, <4>3 DEF Founded
    <3>2. CASE k \in 1 .. n
      <4>1. contactRows[k] \in EnquiryRow /\ contactRows[k].seen < k /\ Founded(contactRows[k])
        BY <1>0, <1>4, <3>2 DEF IntakeInv, VerdictsAreFounded
      <4>2. PICK v \in EnquiryRow : v = contactRows[k]
        BY <4>1
      <4>3. Founded(v)'
        BY <1>7, <4>1, <4>2
      <4> QED
        BY <1>4, <3>2, <4>1, <4>2, <4>3 DEF Founded
    <3> QED
      BY <1>0, <1>4, <3>1, <3>2
  <2>2. ASSUME NEW p \in Enquiries, AsksAt(p, "judged")' PROVE Founded(enquiry[p].row)'
    <3>1. p # q /\ enquiry'[p] = enquiry[p] /\ AsksAt(p, "judged")
      BY <1>6, <2>2 DEF AsksAt
    <3>2. enquiry[p].row \in EnquiryRow /\ Founded(enquiry[p].row)
      BY <3>1, EnquiryFact DEF IntakeInv, VerdictsAreFounded
    <3>3. PICK v \in EnquiryRow : v = enquiry[p].row
      BY <3>2
    <3>4. Founded(v)'
      BY <1>7, <3>2, <3>3
    <3> QED
      BY <3>1, <3>3, <3>4 DEF Founded
  <2> QED
    BY <2>1, <2>2 DEF VerdictsAreFounded
<1>9. StaffHearAccepted'
  <2>1. \A k \in DOMAIN contactRows : Accepted(k) => k \in DOMAIN contactRows' /\ Accepted(k)'
    BY <1>0, <1>4 DEF Accepted
  <2>2. ASSUME NEW p \in Enquiries, enquiry'[p].step \in {"stored", "mailed"}
        PROVE  enquiry'[p].at \in DOMAIN contactRows' /\ Accepted(enquiry[p].at)'
    <3>1. CASE p = q
      BY <1>0, <1>4, <1>6, <2>2, <3>1 DEF Accepted
    <3>2. CASE p # q
      BY <1>6, <2>1, <2>2, <3>2 DEF IntakeInv, StaffHearAccepted, Accepted
    <3> QED
      BY <3>1, <3>2
  <2>3. \A k \in told' : k \in DOMAIN contactRows' /\ Accepted(k)'
    BY <1>2, <2>1 DEF IntakeInv, StaffHearAccepted
  <2> QED
    BY <2>2, <2>3 DEF StaffHearAccepted
<1> QED
  BY <1>2, <1>4, <1>6, <1>8, <1>9, <1>0 DEF IntakeInv, IntakeTypes

(* The steps after the row is stored, and the end of a call.               *)
LEMMA AfterStoreKeeps ==
    ASSUME IntakeInv, NEW q \in Enquiries, MailStaff(q) \/ ShowStaff(q) \/ Dies(q)
    PROVE  IntakeInv'
<1>0. enquiry \in [Enquiries -> Enquired] /\ NoEnquiry \in Enquired /\ NoEnquiry.step = "idle"
  BY DEF IntakeInv, IntakeTypes, Enquired, NoEnquiry
<1>1. UNCHANGED <<contactRows, today>>
  BY DEF MailStaff, ShowStaff, Dies
<1>2. \/ enquiry' = [enquiry EXCEPT ![q] = NoEnquiry]
      \/ /\ enquiry' = [enquiry EXCEPT ![q].step = "mailed"] /\ AsksAt(q, "stored")
  BY DEF MailStaff, ShowStaff, Dies, EnquiryEnds
<1>3. /\ enquiry' \in [Enquiries -> Enquired] /\ \A p \in Enquiries \ {q} : enquiry'[p] = enquiry[p]
      /\ ~AsksAt(q, "judged")'
      /\ enquiry'[q].step \in {"stored", "mailed"} =>
            enquiry[q].step \in {"stored", "mailed"} /\ enquiry'[q].at = enquiry[q].at
  <2>1. CASE enquiry' = [enquiry EXCEPT ![q] = NoEnquiry]
    BY <1>0, <2>1 DEF AsksAt
  <2>2. CASE enquiry' = [enquiry EXCEPT ![q].step = "mailed"] /\ AsksAt(q, "stored")
    <3>1. enquiry[q] \in [step : {"stored", "mailed"}, at : Nat]
      BY <2>2, EnquiryFact DEF AsksAt, IntakeInv
    <3>2. [enquiry[q] EXCEPT !.step = "mailed"] \in [step : {"stored", "mailed"}, at : Nat]
      BY <3>1
    <3> DEFINE new == [enquiry[q] EXCEPT !.step = "mailed"]
    <3>3. new \in Enquired /\ new.step = "mailed" /\ new.at = enquiry[q].at
      BY <3>1, <3>2 DEF Enquired
    <3>4. enquiry' = [enquiry EXCEPT ![q] = new]
      BY <2>2
    <3> HIDE DEF new
    <3> QED
      BY <1>0, <2>2, <3>3, <3>4 DEF AsksAt
  <2> QED
    BY <1>2, <2>1, <2>2
<1>4. \A k \in told' : k \in told
        \/ \E p \in Enquiries : enquiry[p].step \in {"stored", "mailed"} /\ k = enquiry[p].at
  BY DEF MailStaff, ShowStaff, Dies, AsksAt
<1> QED
  BY <1>1, <1>3, <1>4, NoRowKeeps DEF AsksAt, IntakeInv, IntakeTypes

LEMMA IntakeStepInv == IntakeInv /\ [IntakeStep]_intakeVars => IntakeInv'
<1> SUFFICES ASSUME IntakeInv, [IntakeStep]_intakeVars PROVE IntakeInv'
  OBVIOUS
<1>1. ASSUME NextDay \/ UNCHANGED intakeVars PROVE IntakeInv'
  <2>1. UNCHANGED <<contactRows, enquiry, told>> /\ today' \in Nat
    BY <1>1 DEF NextDay, intakeVars, IntakeInv, IntakeTypes
  <2> QED
    BY <2>1, NoRowKeeps DEF AsksAt, IntakeInv, IntakeTypes
<1> QED
  BY <1>1, SubmitKeepsIntake, EvaluateKeeps, StoreKeeps, AfterStoreKeeps DEF IntakeStep

(* Why the invariant is enough.                                            *)
LEMMA FoundedIsHeld == IntakeInv => IntakeHolds
<1> SUFFICES ASSUME IntakeInv PROVE IntakeHolds
  OBVIOUS
<1>0. /\ contactRows \in Seq(EnquiryRow) /\ DOMAIN contactRows = 1 .. Len(contactRows) /\ Len(contactRows) \in Nat
      /\ \A k \in DOMAIN contactRows : contactRows[k] \in EnquiryRow
  BY DEF IntakeInv, IntakeTypes
<1>1. TextsComeOnce
  <2> SUFFICES ASSUME NEW j \in DOMAIN contactRows, NEW k \in DOMAIN contactRows, j < k, Accepted(j), Accepted(k),
                      contactRows[j].text = contactRows[k].text,
                      contactRows[k].when = contactRows[j].day, contactRows[k].looked,
                      ~(contactRows[k].seen < j), ~(contactRows[k].seen >= j + NewestRows)
               PROVE  FALSE
    BY DEF TextsComeOnce
  <2>1. Founded(contactRows[k]) /\ contactRows[k].seen \in Nat /\ j \in Nat /\ NewestRows \in Nat
    BY <1>0, IntakeAssumption DEF IntakeInv, VerdictsAreFounded, EnquiryRow
  <2>2. j \in 1 .. contactRows[k].seen /\ j + NewestRows > contactRows[k].seen
    BY <1>0, <2>1
  <2> QED
    BY <2>1, <2>2 DEF Founded, Accepted
<1>2. CustomersComeThrough
  <2> SUFFICES ASSUME NEW k \in DOMAIN contactRows,
                      Cardinality(contactRows[k].signals) <= 1, contactRows[k].signals \cap HardSignals = {},
                      \A j \in 1 .. k - 1 : contactRows[j].text # contactRows[k].text
                                            /\ contactRows[j].origin # contactRows[k].origin,
                      ~Accepted(k)
               PROVE  FALSE
    BY DEF CustomersComeThrough
  <2>1. Founded(contactRows[k]) /\ contactRows[k].seen \in Nat /\ contactRows[k].seen < k /\ k \in Nat
    BY <1>0 DEF IntakeInv, VerdictsAreFounded, EnquiryRow
  <2>2. contactRows[k].signals \in Signals
    BY <1>0 DEF EnquiryRow
  <2>3. Score(contactRows[k].signals) < SpamScore
    BY <2>2, OneIsNotEnough
  <2>4. Score(contactRows[k].signals) \in Int /\ SpamScore \in Int
    <3>1. IsFiniteSet(contactRows[k].signals) /\ contactRows[k].signals \subseteq DOMAIN WeightOf
      BY <2>2, RulesAreFinite, FS_Subset, IntakeAssumption
    <3>2. \A x \in contactRows[k].signals : WeightOf[x] \in Int
      BY <3>1 DEF WeightOf
    <3> QED
      BY <3>1, <3>2, SumIsInt, IntakeAssumption DEF Score
  <2>5. PICK j \in 1 .. contactRows[k].seen :
            contactRows[j].text = contactRows[k].text \/ contactRows[j].origin = contactRows[k].origin
    BY <2>1, <2>3, <2>4 DEF Founded, Accepted
  <2>6. j \in 1 .. k - 1
    BY <2>1
  <2> QED
    BY <2>5, <2>6
<1> QED
  BY <1>1, <1>2 DEF IntakeHolds, QuarantineIsSilent, IntakeInv, StaffHearAccepted

(* A text is accepted once a day, a customer with a single weak signal is  *)
(* not turned away, and the staff hear of accepted enquiries only, however *)
(* calls of the form overlap and die.                                      *)
THEOREM EnquiriesAreJudged == IntakeSpec => []IntakeHolds
  BY IntakeInitInv, IntakeStepInv, FoundedIsHeld, PTL DEF IntakeSpec

----------------------------------------------------------------------------
(* The tickets and the messages they come from.                            *)

TicketRow == [status : TicketStatuses, resolved : BOOLEAN, closed : BOOLEAN, responded : BOOLEAN, reopened : Nat]

(* What a handler loaded was a row it may work on, and the ticket is still *)
(* there.                                                                  *)
LoadIsRight(r) ==
    /\ r.kind \in {"idle", "reply", "close", "reopen", "status", "check", "escalate", "link"}
    /\ r.kind \in {"reply", "close", "reopen", "status"} =>
          r.ticket \in TicketIds /\ Filed(r.ticket) /\ r.seen \in TicketRow
    /\ r.kind = "reply" => r.staff \in BOOLEAN /\ (r.seen.status = "CLOSED" => r.staff)
    /\ r.kind = "reopen" => r.seen.status = "CLOSED"
    /\ r.kind = "status" => r.to \in TicketTransitions[r.seen.status]
    /\ r.kind \in {"check", "escalate", "link"} => r.contact \in Contacts
    /\ r.kind = "escalate" => r.seen = NoTicket

(* A message that became a ticket has one, and unless it was overtaken     *)
(* only one came of it.                                                    *)
OriginsAreLinked ==
    \A t \in TicketIds : origin[t] # NoMessage =>
        /\ origin[t] \in Contacts /\ contact[origin[t]].ticket # NoTicket
        /\ origin[t] \in overtaken \/ \A u \in TicketIds : origin[u] = origin[t] => u = t

ContactRow == [status : {"NEW", "TRIAGED", "ARCHIVED"}, spam : BOOLEAN, account : BOOLEAN, ticket : TicketIds \cup {NoTicket}]

TicketsInv ==
    /\ ticket \in [TicketIds -> TicketRow \cup {Absent}]
    /\ contact \in [Contacts -> ContactRow]
    /\ origin \in [TicketIds -> Contacts \cup {NoMessage}]
    /\ ticketReq = [q \in TicketRequests |-> ticketReq[q]]
    /\ ClosureIsShown /\ OriginsAreLinked
    /\ \A q \in TicketRequests : LoadIsRight(ticketReq[q])

MovesRight(t) ==
    /\ \/ ticket'[t].status = ticket[t].status
       \/ ticket'[t].status \in TicketTransitions[ticket[t].status]
    /\ ticket'[t].reopened - ticket[t].reopened =
        IF ticket[t].status = "CLOSED" /\ ticket'[t].status # "CLOSED" THEN 1 ELSE 0

MovesByTable == \A t \in TicketIds : Filed(t) => WrittenLate(t) \/ MovesRight(t)

TicketsKept == TicketsInv' /\ MovesByTable

LEMMA RowIsFiled ==
    ASSUME TicketsInv, NEW t \in TicketIds, Filed(t) PROVE ticket[t] \in TicketRow
  BY DEF TicketsInv, Filed

LEMMA AbsentIsNoRow == \A r \in TicketRow : r # Absent
<1>1. \A r \in TicketRow : r.status # "ABSENT"
  BY DEF TicketRow, TicketStatuses
<1>2. Absent.status = "ABSENT"
  BY DEF Absent
<1> QED BY <1>1, <1>2

(* Rows that stay move by the table.                                       *)
LEMMA Resting ==
    ASSUME TicketsInv, NEW t \in TicketIds, Filed(t), ticket'[t] = ticket[t] PROVE MovesRight(t)
<1>1. ticket[t].reopened \in Nat
  BY RowIsFiled DEF TicketRow
<1> QED BY <1>1 DEF MovesRight

(* One request begins, goes on or ends; tickets are never withdrawn.       *)
LEMMA RequestGoesOn ==
    ASSUME TicketsInv, NEW q \in TicketRequests, NEW r, LoadIsRight(r)', ticketReq' = [ticketReq EXCEPT ![q] = r],
           \A t \in TicketIds : Filed(t) => Filed(t)'
    PROVE  /\ ticketReq' = [p \in TicketRequests |-> ticketReq'[p]]
           /\ \A p \in TicketRequests : LoadIsRight(ticketReq[p])'
<1>1. /\ ticketReq' = [p \in TicketRequests |-> ticketReq'[p]] /\ ticketReq'[q] = r
      /\ \A p \in TicketRequests \ {q} : ticketReq'[p] = ticketReq[p]
  BY DEF TicketsInv
<1>2. LoadIsRight(ticketReq[q])'
  BY <1>1 DEF LoadIsRight, Filed
<1>3. ASSUME NEW p \in TicketRequests, p # q PROVE LoadIsRight(ticketReq[p])'
  <2>1. LoadIsRight(ticketReq[p])
    BY DEF TicketsInv
  <2> QED BY <1>1, <1>3, <2>1 DEF LoadIsRight
<1> QED BY <1>1, <1>2, <1>3

LEMMA RequestEnds ==
    ASSUME TicketsInv, NEW q \in TicketRequests, ticketReq' = [ticketReq EXCEPT ![q] = NoHandler],
           \A t \in TicketIds : Filed(t) => Filed(t)'
    PROVE  /\ ticketReq' = [p \in TicketRequests |-> ticketReq'[p]] /\ ticketReq'[q] = NoHandler
           /\ \A p \in TicketRequests : LoadIsRight(ticketReq[p])'
<1>1. LoadIsRight(NoHandler)'
  BY DEF LoadIsRight, NoHandler
<1>2. ticketReq'[q] = NoHandler
  BY DEF TicketsInv
<1> QED BY <1>1, <1>2, RequestGoesOn

(* A request begins or goes on, and the rows stay.                         *)
LEMMA RequestKeeps ==
    ASSUME TicketsInv, NEW q \in TicketRequests, NEW r, LoadIsRight(r),
           ticketReq' = [ticketReq EXCEPT ![q] = r], UNCHANGED <<ticket, contact, origin, overtaken>>
    PROVE  TicketsKept
<1>1. /\ ticketReq' = [p \in TicketRequests |-> ticketReq'[p]]
      /\ \A p \in TicketRequests : LoadIsRight(ticketReq[p])'
  <2>1. LoadIsRight(r)' /\ \A t \in TicketIds : Filed(t) => Filed(t)'
    BY DEF LoadIsRight, Filed
  <2> QED BY <2>1, RequestGoesOn
<1>2. ClosureIsShown' /\ OriginsAreLinked'
  BY DEF TicketsInv, ClosureIsShown, OriginsAreLinked, Filed
<1>3. TicketsInv'
  BY <1>1, <1>2 DEF TicketsInv
<1>4. MovesByTable
  BY Resting DEF MovesByTable
<1> QED BY <1>3, <1>4 DEF TicketsKept

(* A handler writes a row that shows its closure, and moves by the table   *)
(* or is late.                                                             *)
LEMMA PatchKeeps ==
    ASSUME TicketsInv, NEW q \in TicketRequests, NEW t \in TicketIds, Filed(t),
           ticketReq[q].ticket = t, NEW row \in TicketRow, PatchesTicket(q, row),
           \A x : x # t /\ x \in overtaken => x \in overtaken',
           row.status = "CLOSED" => row.closed,
           row.closed => row.status = "CLOSED" \/ t \in overtaken',
           \/ WrittenLate(t)
           \/ /\ row.status = ticket[t].status \/ row.status \in TicketTransitions[ticket[t].status]
              /\ row.reopened = ticket[t].reopened + IF ticket[t].status = "CLOSED" /\ row.status # "CLOSED" THEN 1 ELSE 0
    PROVE  TicketsKept
<1>1. /\ ticket' = [ticket EXCEPT ![t] = row]
      /\ ticketReq' = [ticketReq EXCEPT ![q] = NoHandler] /\ UNCHANGED <<contact, origin>>
  BY DEF PatchesTicket
<1>2. ticket'[t] = row /\ \A u \in TicketIds \ {t} : ticket'[u] = ticket[u]
  BY <1>1 DEF TicketsInv
<1>3. ticket' \in [TicketIds -> TicketRow \cup {Absent}] /\ \A u \in TicketIds : Filed(u) => Filed(u)'
  BY <1>1, <1>2, AbsentIsNoRow DEF TicketsInv, Filed
<1>4. ClosureIsShown'
  <2> SUFFICES ASSUME NEW u \in TicketIds, Filed(u)'
      PROVE  /\ ticket'[u].status = "CLOSED" => ticket'[u].closed
             /\ ticket'[u].closed => ticket'[u].status = "CLOSED" \/ u \in overtaken'
    BY DEF ClosureIsShown
  <2>1. CASE u = t
    BY <1>2, <2>1
  <2>2. CASE u # t
    <3>1. ticket'[u] = ticket[u] /\ Filed(u) /\ (u \in overtaken => u \in overtaken')
      BY <1>2, <2>2 DEF Filed
    <3> QED BY <3>1 DEF TicketsInv, ClosureIsShown
  <2> QED BY <2>1, <2>2
<1>5. OriginsAreLinked'
  <2>1. \A c \in Contacts : c \in overtaken => c \in overtaken'
    BY TicketsAssumption
  <2> QED BY <1>1, <2>1 DEF TicketsInv, OriginsAreLinked
<1>6. TicketsInv'
  BY <1>1, <1>3, <1>4, <1>5, RequestEnds DEF TicketsInv
<1>7. ticket[t].reopened \in Nat
  BY RowIsFiled DEF TicketRow
<1>8. MovesByTable
  <2> SUFFICES ASSUME NEW u \in TicketIds, Filed(u), ~WrittenLate(u) PROVE MovesRight(u)
    BY DEF MovesByTable
  <2>1. CASE u = t
    BY <1>2, <1>7, <2>1 DEF MovesRight
  <2>2. CASE u # t
    BY <1>2, <2>2, Resting
  <2> QED BY <2>1, <2>2
<1> QED BY <1>6, <1>8 DEF TicketsKept

(* What the handler that writes works on; it is late unless the row is the *)
(* one it loaded.                                                          *)
LEMMA HandlerKnows ==
    ASSUME TicketsInv, NEW q \in TicketRequests, ticketReq[q].kind \in {"reply", "close", "reopen", "status"}
    PROVE  \E t \in TicketIds :
              /\ ticketReq[q].ticket = t /\ Filed(t) /\ ticketReq[q].seen \in TicketRow
              /\ ticket[t] \in TicketRow
              /\ ticket[t].status = "CLOSED" => ticket[t].closed
              /\ ticket[t].closed => ticket[t].status = "CLOSED" \/ t \in overtaken
  BY RowIsFiled DEF TicketsInv, LoadIsRight, ClosureIsShown

LEMMA LateUnlessSeen ==
    ASSUME TicketsInv, NEW q \in TicketRequests, ticketReq[q].kind \in {"reply", "reopen", "status"},
           NEW row, PatchesTicket(q, row), NEW t, ticketReq[q].ticket = t, ticketReq[q].seen # ticket[t]
    PROVE  WrittenLate(t)
<1>1. ticketReq'[q] = NoHandler
  BY DEF PatchesTicket, TicketsInv
<1> QED BY <1>1 DEF WrittenLate

LEMMA CloseKeeps ==
    ASSUME TicketsInv, NEW q \in TicketRequests, CloseWrite(q) PROVE TicketsKept
<1>1. PICK t \in TicketIds : ticketReq[q].ticket = t /\ Filed(t) /\ ticket[t] \in TicketRow
  BY HandlerKnows DEF CloseWrite
<1>2. PICK row : row = [ticket[t] EXCEPT !.status = "CLOSED", !.closed = TRUE, !.resolved = TRUE]
  OBVIOUS
<1>3. row \in TicketRow /\ row.status = "CLOSED" /\ row.closed /\ row.reopened = ticket[t].reopened
  BY <1>1, <1>2 DEF TicketRow, TicketStatuses
<1>4. row.status = ticket[t].status \/ row.status \in TicketTransitions[ticket[t].status]
  BY <1>1, <1>3 DEF TicketTransitions, TicketRow, TicketStatuses
<1>5. PatchesTicket(q, row) /\ overtaken' = overtaken \ {t}
  BY <1>1, <1>2 DEF CloseWrite, Settles
<1>6. ticket[t].reopened \in Nat
  BY <1>1 DEF TicketRow
<1> QED BY <1>1, <1>3, <1>4, <1>5, <1>6, PatchKeeps

LEMMA ReopenKeeps ==
    ASSUME TicketsInv, NEW q \in TicketRequests, ReopenWrite(q) PROVE TicketsKept
<1>1. PICK t \in TicketIds : ticketReq[q].ticket = t /\ Filed(t) /\ ticket[t] \in TicketRow
  BY HandlerKnows DEF ReopenWrite
<1>2. ticketReq[q].seen.status = "CLOSED"
  BY DEF ReopenWrite, TicketsInv, LoadIsRight
<1>3. PICK row : row = [ticket[t] EXCEPT !.status = "OPEN", !.closed = FALSE, !.reopened = @ + 1]
  OBVIOUS
<1>4. PICK n \in Nat : n = ticket[t].reopened + 1
  BY <1>1 DEF TicketRow
<1>5. row = [status |-> "OPEN", resolved |-> ticket[t].resolved, closed |-> FALSE, responded |-> ticket[t].responded, reopened |-> n]
  BY <1>1, <1>3, <1>4 DEF TicketRow
<1>6. row \in TicketRow /\ row.status = "OPEN" /\ ~row.closed /\ row.reopened = ticket[t].reopened + 1
  BY <1>1, <1>4, <1>5 DEF TicketRow, TicketStatuses
<1>7. PatchesTicket(q, row) /\ overtaken' = overtaken \ {t}
  BY <1>1, <1>3 DEF ReopenWrite, Settles
<1>8. \/ WrittenLate(t)
      \/ /\ row.status \in TicketTransitions[ticket[t].status]
         /\ row.reopened = ticket[t].reopened + IF ticket[t].status = "CLOSED" /\ row.status # "CLOSED" THEN 1 ELSE 0
  <2>1. CASE ticketReq[q].seen = ticket[t]
    BY <1>2, <1>6, <2>1 DEF TicketTransitions
  <2>2. CASE ticketReq[q].seen # ticket[t]
    BY <1>1, <1>7, <2>2, LateUnlessSeen DEF ReopenWrite
  <2> QED BY <2>1, <2>2
<1> QED BY <1>1, <1>6, <1>7, <1>8, PatchKeeps

LEMMA ReplyKeeps ==
    ASSUME TicketsInv, NEW q \in TicketRequests, ReplyWrite(q) PROVE TicketsKept
<1>1. PICK t \in TicketIds : /\ ticketReq[q].ticket = t /\ Filed(t) /\ ticketReq[q].seen \in TicketRow
                             /\ ticket[t] \in TicketRow
                             /\ ticket[t].status = "CLOSED" => ticket[t].closed
                             /\ ticket[t].closed => ticket[t].status = "CLOSED" \/ t \in overtaken
  BY HandlerKnows DEF ReplyWrite
<1>2. PICK staff, seen : staff = ticketReq[q].staff /\ seen = ticketReq[q].seen
  OBVIOUS
<1>3. seen \in TicketRow /\ staff \in BOOLEAN /\ (seen.status = "CLOSED" => staff)
  BY <1>1, <1>2 DEF ReplyWrite, TicketsInv, LoadIsRight
<1>4. PICK row : row = ReplyPatch(seen, staff, ticket[t])
  OBVIOUS
<1>5. /\ PatchesTicket(q, row)
      /\ overtaken' = IF ticket[t].status = "CLOSED" /\ seen.status # "CLOSED" THEN overtaken \cup {t} ELSE overtaken
  BY <1>1, <1>2, <1>4 DEF ReplyWrite
<1>6. row.closed = ticket[t].closed /\ row.reopened = ticket[t].reopened
  BY <1>1, <1>4 DEF ReplyPatch, TicketRow
<1>7. /\ row.status = "IN_PROGRESS" /\ seen.status \in {"OPEN", "WAITING_FOR_CUSTOMER", "RESOLVED"}
      \/ row.status = ticket[t].status
  BY <1>1, <1>3, <1>4 DEF ReplyPatch, TicketRow
<1>8. row \in TicketRow
  BY <1>1, <1>3, <1>4 DEF ReplyPatch, TicketRow, TicketStatuses
<1>9. row.status = "CLOSED" => row.closed
  BY <1>1, <1>6, <1>7
<1>10. row.closed => row.status = "CLOSED" \/ t \in overtaken'
  BY <1>1, <1>5, <1>6, <1>7
<1>11. \/ WrittenLate(t)
       \/ /\ row.status = ticket[t].status \/ row.status \in TicketTransitions[ticket[t].status]
          /\ row.reopened = ticket[t].reopened + IF ticket[t].status = "CLOSED" /\ row.status # "CLOSED" THEN 1 ELSE 0
  <2>1. CASE seen = ticket[t]
    <3>1. row.status = ticket[t].status \/ row.status \in TicketTransitions[ticket[t].status]
      BY <1>7, <2>1 DEF TicketTransitions
    <3>2. ~(ticket[t].status = "CLOSED" /\ row.status # "CLOSED") /\ ticket[t].reopened \in Nat
      BY <1>1, <1>7, <2>1 DEF TicketRow
    <3> QED BY <1>6, <3>1, <3>2
  <2>2. CASE seen # ticket[t]
    BY <1>1, <1>2, <1>5, <2>2, LateUnlessSeen DEF ReplyWrite
  <2> QED BY <2>1, <2>2
<1>12. \A x : x # t /\ x \in overtaken => x \in overtaken'
  BY <1>5
<1> QED BY <1>1, <1>5, <1>8, <1>9, <1>10, <1>11, <1>12, PatchKeeps

LEMMA StatusKeeps ==
    ASSUME TicketsInv, NEW q \in TicketRequests, StatusWrite(q) PROVE TicketsKept
<1>1. PICK t \in TicketIds : /\ ticketReq[q].ticket = t /\ Filed(t) /\ ticketReq[q].seen \in TicketRow
                             /\ ticket[t] \in TicketRow
  BY HandlerKnows DEF StatusWrite
<1>2. PICK to, seen : to = ticketReq[q].to /\ seen = ticketReq[q].seen
  OBVIOUS
<1>3. to \in TicketTransitions[seen.status] /\ seen \in TicketRow
  BY <1>1, <1>2 DEF StatusWrite, TicketsInv, LoadIsRight
<1>4. to \in TicketStatuses /\ (seen.status = "CLOSED" => to # "CLOSED")
  BY <1>3 DEF TicketTransitions, TicketRow, TicketStatuses
<1>5. PICK row : row = StatusPatch(seen, to, ticket[t])
  OBVIOUS
<1>6. PatchesTicket(q, row) /\ overtaken' = overtaken \ {t}
  BY <1>1, <1>2, <1>5 DEF StatusWrite, Settles
<1>7. /\ row.status = to
      /\ row.closed = (to = "CLOSED")
      /\ row.reopened = ticket[t].reopened + (IF seen.status = "CLOSED" THEN 1 ELSE 0)
  BY <1>5 DEF StatusPatch
<1>8. row \in TicketRow
  <2>1. ResolvedAfter(seen, to, ticket[t].resolved) \in BOOLEAN
    BY <1>1 DEF ResolvedAfter, TicketRow
  <2>2. (ticket[t].responded \/ (to = "IN_PROGRESS" /\ ~seen.responded)) \in BOOLEAN /\ (to = "CLOSED") \in BOOLEAN
    OBVIOUS
  <2>3. ticket[t].reopened + (IF seen.status = "CLOSED" THEN 1 ELSE 0) \in Nat
    BY <1>1 DEF TicketRow
  <2> QED BY <1>4, <1>5, <2>1, <2>2, <2>3 DEF StatusPatch, TicketRow
<1>9. \/ WrittenLate(t)
      \/ /\ row.status \in TicketTransitions[ticket[t].status]
         /\ row.reopened = ticket[t].reopened + IF ticket[t].status = "CLOSED" /\ row.status # "CLOSED" THEN 1 ELSE 0
  <2>1. CASE seen = ticket[t]
    BY <1>3, <1>4, <1>7, <2>1
  <2>2. CASE seen # ticket[t]
    BY <1>1, <1>2, <1>6, <2>2, LateUnlessSeen DEF StatusWrite
  <2> QED BY <2>1, <2>2
<1> QED BY <1>1, <1>6, <1>7, <1>8, <1>9, PatchKeeps

(* A new ticket, filed by a customer or from a message.                    *)
LEMMA NewIsRow == NewTicket \in TicketRow /\ ~NewTicket.closed /\ NewTicket.status # "CLOSED"
  BY DEF NewTicket, TicketRow, TicketStatuses

LEMMA FilingMoves ==
    ASSUME TicketsInv, NEW t \in TicketIds, ~Filed(t), ticket' = [ticket EXCEPT ![t] = NewTicket],
           overtaken \subseteq overtaken'
    PROVE  /\ ticket' \in [TicketIds -> TicketRow \cup {Absent}] /\ ClosureIsShown' /\ MovesByTable
           /\ \A u \in TicketIds : Filed(u) => Filed(u)' /\ ticket'[u] = ticket[u]
<1>1. ticket'[t] = NewTicket /\ \A u \in TicketIds \ {t} : ticket'[u] = ticket[u]
  BY DEF TicketsInv
<1>2. ticket' \in [TicketIds -> TicketRow \cup {Absent}]
  BY NewIsRow DEF TicketsInv
<1>3. ClosureIsShown'
  BY <1>1, NewIsRow DEF TicketsInv, ClosureIsShown, Filed
<1>4. \A u \in TicketIds : Filed(u) => Filed(u)' /\ ticket'[u] = ticket[u]
  BY <1>1 DEF Filed
<1>5. MovesByTable
  BY <1>4, Resting DEF MovesByTable
<1> QED BY <1>2, <1>3, <1>4, <1>5

LEMMA CreateTicketKeeps ==
    ASSUME TicketsInv, NEW t \in TicketIds, CreateTicket(t) PROVE TicketsKept
<1>1. ~Filed(t) /\ ticket' = [ticket EXCEPT ![t] = NewTicket] /\ UNCHANGED <<contact, origin, ticketReq, overtaken>>
  BY DEF CreateTicket
<1>2. /\ ticket' \in [TicketIds -> TicketRow \cup {Absent}] /\ ClosureIsShown' /\ MovesByTable
      /\ \A u \in TicketIds : Filed(u) => Filed(u)' /\ ticket'[u] = ticket[u]
  BY <1>1, FilingMoves
<1>3. ASSUME NEW q \in TicketRequests PROVE LoadIsRight(ticketReq[q])'
  <2>1. LoadIsRight(ticketReq[q])
    BY DEF TicketsInv
  <2> QED BY <1>1, <1>2, <2>1 DEF LoadIsRight
<1>4. OriginsAreLinked'
  BY <1>1 DEF TicketsInv, OriginsAreLinked
<1> QED BY <1>1, <1>2, <1>3, <1>4 DEF TicketsInv, TicketsKept

LEMMA EscalateKeeps ==
    ASSUME TicketsInv, NEW q \in TicketRequests, NEW t \in TicketIds, Escalate(q, t) PROVE TicketsKept
<1>1. PICK c : c = ticketReq[q].contact
  OBVIOUS
<1>2. c \in Contacts /\ ticketReq[q].seen = NoTicket
  BY <1>1 DEF Escalate, TicketsInv, LoadIsRight
<1>3. /\ ~Filed(t) /\ ticket' = [ticket EXCEPT ![t] = NewTicket]
      /\ contact' = [contact EXCEPT ![c].ticket = t] /\ origin' = [origin EXCEPT ![t] = c]
      /\ ticketReq' = [ticketReq EXCEPT ![q] = NoHandler]
      /\ overtaken' = IF contact[c].ticket # NoTicket THEN overtaken \cup {c} ELSE overtaken
  BY <1>1, <1>2 DEF Escalate
<1>4. /\ ticket' \in [TicketIds -> TicketRow \cup {Absent}] /\ ClosureIsShown' /\ MovesByTable
      /\ \A u \in TicketIds : Filed(u) => Filed(u)'
  <2>1. overtaken \subseteq overtaken'
    BY <1>3
  <2> QED BY <1>3, <2>1, FilingMoves
<1>5. contact' \in [Contacts -> ContactRow] /\ contact'[c].ticket = t /\ \A d \in Contacts \ {c} : contact'[d] = contact[d]
  BY <1>2, <1>3 DEF TicketsInv, ContactRow
<1>6. /\ origin' \in [TicketIds -> Contacts \cup {NoMessage}] /\ origin'[t] = c
      /\ \A u \in TicketIds \ {t} : origin'[u] = origin[u]
  BY <1>2, <1>3 DEF TicketsInv
<1>7. c \in overtaken' \/ \A u \in TicketIds : origin[u] # c
  BY <1>2, <1>3, TicketsAssumption DEF TicketsInv, OriginsAreLinked
<1>8. OriginsAreLinked'
  <2> SUFFICES ASSUME NEW u \in TicketIds, origin'[u] # NoMessage
      PROVE  /\ origin'[u] \in Contacts /\ contact'[origin'[u]].ticket # NoTicket
             /\ origin'[u] \in overtaken' \/ \A v \in TicketIds : origin'[v] = origin'[u] => v = u
    BY DEF OriginsAreLinked
  <2>1. CASE u = t
    BY <1>2, <1>5, <1>6, <1>7, <2>1, TicketsAssumption
  <2>2. CASE u # t
    <3>1. /\ origin'[u] = origin[u] /\ origin[u] \in Contacts /\ contact[origin[u]].ticket # NoTicket
          /\ origin[u] \in overtaken \/ \A v \in TicketIds : origin[v] = origin[u] => v = u
      BY <1>6, <2>2 DEF TicketsInv, OriginsAreLinked
    <3>2. contact'[origin[u]].ticket # NoTicket
      BY <1>5, <3>1, TicketsAssumption
    <3>3. origin[u] \in overtaken' \/ \A v \in TicketIds : origin'[v] = origin[u] => v = u
      <4>1. CASE origin[u] = c
        BY <1>7, <4>1
      <4>2. CASE origin[u] # c
        BY <1>3, <1>6, <3>1, <4>2
      <4> QED BY <4>1, <4>2
    <3> QED BY <3>1, <3>2, <3>3
  <2> QED BY <2>1, <2>2
<1> QED BY <1>3, <1>4, <1>5, <1>6, <1>8, RequestEnds DEF TicketsInv, TicketsKept

(* A message gets a status, or a ticket.                                   *)
LEMMA ContactKeeps ==
    ASSUME TicketsInv, UNCHANGED <<ticket, origin, overtaken>>, contact' \in [Contacts -> ContactRow],
           \A d \in Contacts : contact[d].ticket # NoTicket => contact'[d].ticket # NoTicket,
           ticketReq' = [p \in TicketRequests |-> ticketReq'[p]],
           \A p \in TicketRequests : LoadIsRight(ticketReq[p])'
    PROVE  TicketsKept
<1>1. ClosureIsShown'
  BY DEF TicketsInv, ClosureIsShown, Filed
<1>2. OriginsAreLinked'
  BY DEF TicketsInv, OriginsAreLinked
<1>3. MovesByTable
  BY Resting DEF MovesByTable
<1> QED BY <1>1, <1>2, <1>3 DEF TicketsInv, TicketsKept

LEMMA LinkKeeps ==
    ASSUME TicketsInv, NEW q \in TicketRequests, NEW t \in TicketIds, LinkTicket(q, t) PROVE TicketsKept
<1>1. PICK c : c = ticketReq[q].contact
  OBVIOUS
<1>2. c \in Contacts
  BY <1>1 DEF LinkTicket, TicketsInv, LoadIsRight
<1>3. /\ contact' = [contact EXCEPT ![c].ticket = t] /\ UNCHANGED <<ticket, origin, overtaken>>
      /\ ticketReq' = [ticketReq EXCEPT ![q] = NoHandler]
  BY <1>1 DEF LinkTicket
<1>4. contact' \in [Contacts -> ContactRow]
  BY <1>2, <1>3 DEF TicketsInv, ContactRow
<1>5. \A d \in Contacts : contact[d].ticket # NoTicket => contact'[d].ticket # NoTicket
  BY <1>2, <1>3, TicketsAssumption DEF TicketsInv, ContactRow
<1>6. \A u \in TicketIds : Filed(u) => Filed(u)'
  BY <1>3 DEF Filed
<1> QED BY <1>3, <1>4, <1>5, <1>6, RequestEnds, ContactKeeps

LEMMA TriageKeeps ==
    ASSUME TicketsInv, NEW q \in TicketRequests, NEW c \in Contacts, NEW s \in {"TRIAGED", "ARCHIVED"},
           NEW link \in {"none", "escalate", "ticket"}, Triage(q, c, s, link)
    PROVE  TicketsKept
<1> DEFINE r == IF link = "none" THEN NoHandler
                ELSE [kind |-> IF link = "escalate" THEN "check" ELSE "link", contact |-> c]
<1>1. /\ contact' = [contact EXCEPT ![c].status = s] /\ UNCHANGED <<ticket, origin, overtaken>>
      /\ ticketReq' = [ticketReq EXCEPT ![q] = r]
  BY DEF Triage
<1>2. contact' \in [Contacts -> ContactRow] /\ \A d \in Contacts : contact'[d].ticket = contact[d].ticket
  BY <1>1 DEF TicketsInv, ContactRow
<1>3. r.kind \in {"idle", "check", "link"} /\ (r.kind \in {"check", "link"} => r.contact = c)
  BY DEF NoHandler
<1> HIDE DEF r
<1>4. LoadIsRight(r)' /\ \A u \in TicketIds : Filed(u) => Filed(u)'
  BY <1>1, <1>3 DEF LoadIsRight, Filed
<1>5. /\ ticketReq' = [p \in TicketRequests |-> ticketReq'[p]]
      /\ \A p \in TicketRequests : LoadIsRight(ticketReq[p])'
  BY <1>1, <1>4, RequestGoesOn
<1> QED BY <1>1, <1>2, <1>5, ContactKeeps

LEMMA EscalateCheckKeeps ==
    ASSUME TicketsInv, NEW q \in TicketRequests, EscalateCheck(q) PROVE TicketsKept
<1>1. PICK c : c = ticketReq[q].contact
  OBVIOUS
<1>2. c \in Contacts
  BY <1>1 DEF EscalateCheck, TicketsInv, LoadIsRight
<1>3. PICK r : r = IF MayEscalate(c)
                     THEN [kind |-> "escalate", contact |-> c, seen |-> contact[c].ticket] ELSE NoHandler
  OBVIOUS
<1>4. ticketReq' = [ticketReq EXCEPT ![q] = r] /\ UNCHANGED <<ticket, contact, origin, overtaken>>
  BY <1>1, <1>3 DEF EscalateCheck, TicketsInv
<1>5. LoadIsRight(r)
  <2>1. CASE MayEscalate(c)
    <3>1. r.kind = "escalate" /\ r.contact = c /\ r.seen = contact[c].ticket
      BY <1>1, <1>3, <2>1 
    <3> QED BY <1>2, <2>1, <3>1 DEF LoadIsRight, MayEscalate
  <2>2. CASE ~MayEscalate(c)
    BY <1>3, <2>2 DEF LoadIsRight, NoHandler
  <2> QED BY <2>1, <2>2
<1> QED BY <1>4, <1>5, RequestKeeps

(* A handler loads a filed ticket.                                         *)
LEMMA LoadKeeps ==
    ASSUME TicketsInv, NEW q \in TicketRequests, NEW t \in TicketIds, NEW r, LoadIsRight(r),
           LoadsTicket(q, t, r)
    PROVE  TicketsKept
  BY RequestKeeps DEF LoadsTicket

LEMMA AnswerKeeps == ASSUME TicketsInv, Answering PROVE TicketsKept
<1>1. ASSUME NEW q \in TicketRequests, TicketDrop(q) PROVE TicketsKept
  <2>1. LoadIsRight(NoHandler)
    BY DEF LoadIsRight, NoHandler
  <2> QED BY <1>1, <2>1, RequestKeeps DEF TicketDrop
<1>2. ASSUME NEW q \in TicketRequests, NEW t \in TicketIds, Filed(t), CloseLoad(q, t) PROVE TicketsKept
  <2>1. PICK r : r = [kind |-> "close", ticket |-> t, seen |-> ticket[t]]
    OBVIOUS
  <2>2. LoadIsRight(r) /\ LoadsTicket(q, t, r)
    BY <1>2, <2>1, RowIsFiled DEF LoadIsRight, CloseLoad
  <2> QED BY <2>2, LoadKeeps
<1>3. ASSUME NEW q \in TicketRequests, NEW t \in TicketIds, Filed(t), ReopenLoad(q, t) PROVE TicketsKept
  <2>1. PICK r : r = [kind |-> "reopen", ticket |-> t, seen |-> ticket[t]]
    OBVIOUS
  <2>2. LoadIsRight(r) /\ LoadsTicket(q, t, r)
    BY <1>3, <2>1, RowIsFiled DEF LoadIsRight, ReopenLoad
  <2> QED BY <2>2, LoadKeeps
<1>4. ASSUME NEW q \in TicketRequests, NEW t \in TicketIds, Filed(t), NEW staff \in BOOLEAN, ReplyLoad(q, t, staff)
      PROVE  TicketsKept
  <2>1. PICK r : r = [kind |-> "reply", ticket |-> t, seen |-> ticket[t], staff |-> staff]
    OBVIOUS
  <2>2. r.kind = "reply" /\ r.ticket = t /\ r.seen = ticket[t] /\ r.staff = staff
    BY <2>1
  <2>3. LoadIsRight(r) /\ LoadsTicket(q, t, r)
    BY <1>4, <2>1, <2>2, RowIsFiled DEF LoadIsRight, ReplyLoad
  <2> QED BY <2>3, LoadKeeps
<1>5. ASSUME NEW q \in TicketRequests, NEW t \in TicketIds, Filed(t), NEW s \in TicketStatuses, StatusLoad(q, t, s)
      PROVE  TicketsKept
  <2>1. PICK r : r = [kind |-> "status", ticket |-> t, seen |-> ticket[t], to |-> s]
    OBVIOUS
  <2>2. LoadIsRight(r) /\ LoadsTicket(q, t, r)
    BY <1>5, <2>1, RowIsFiled DEF LoadIsRight, StatusLoad
  <2> QED BY <2>2, LoadKeeps
<1> QED BY <1>1, <1>2, <1>3, <1>4, <1>5, CreateTicketKeeps, ReplyKeeps, CloseKeeps, ReopenKeeps, StatusKeeps DEF Answering

LEMMA TriagingKeeps == ASSUME TicketsInv, Triaging PROVE TicketsKept
<1>1. ASSUME NEW q \in TicketRequests, TicketDrop(q) PROVE TicketsKept
  <2>1. LoadIsRight(NoHandler)
    BY DEF LoadIsRight, NoHandler
  <2> QED BY <1>1, <2>1, RequestKeeps DEF TicketDrop
<1> QED BY <1>1, EscalateCheckKeeps, CreateTicketKeeps, EscalateKeeps, LinkKeeps, TriageKeeps DEF Triaging

LEMMA TicketsBegin == ASSUME TicketsInit PROVE TicketsInv
<1>1. ticket \in [TicketIds -> TicketRow \cup {Absent}] /\ origin \in [TicketIds -> Contacts \cup {NoMessage}]
  BY DEF TicketsInit
<1>2. contact \in [Contacts -> ContactRow]
  BY DEF TicketsInit, NewContact, ContactRow
<1>3. ClosureIsShown /\ OriginsAreLinked
  BY DEF TicketsInit, ClosureIsShown, OriginsAreLinked, Filed
<1>4. \A q \in TicketRequests : LoadIsRight(ticketReq[q])
  BY DEF TicketsInit, LoadIsRight, NoHandler
<1>5. ticketReq = [q \in TicketRequests |-> ticketReq[q]]
  BY DEF TicketsInit
<1> QED BY <1>1, <1>2, <1>3, <1>4, <1>5 DEF TicketsInv

LEMMA TicketsStep ==
    ASSUME TicketsInv, [Answering \/ Triaging]_ticketVars
    PROVE  TicketsInv' /\ [MovesByTable]_ticketVars
<1>1. CASE UNCHANGED ticketVars
  <2>1. ClosureIsShown' /\ OriginsAreLinked'
    BY <1>1 DEF TicketsInv, ClosureIsShown, OriginsAreLinked, Filed, ticketVars
  <2>2. \A q \in TicketRequests : LoadIsRight(ticketReq[q])'
    BY <1>1 DEF TicketsInv, LoadIsRight, Filed, ticketVars
  <2> QED BY <1>1, <2>1, <2>2 DEF TicketsInv, ticketVars
<1> QED BY <1>1, AnswerKeeps, TriagingKeeps DEF TicketsKept

LEMMA InvSaysTickets == ASSUME TicketsInv PROVE TicketsHold
<1>1. ASSUME NEW c \in Contacts \ overtaken PROVE Cardinality({t \in TicketIds : origin[t] = c}) <= 1
  <2>1. PICK S : S = {t \in TicketIds : origin[t] = c}
    OBVIOUS
  <2>2. \A t, u \in S : t = u
    BY <2>1, TicketsAssumption DEF TicketsInv, OriginsAreLinked
  <2>3. CASE S = {}
    BY <2>1, <2>3, FS_EmptySet
  <2>4. CASE S # {}
    <3>0. PICK t : t \in S
      BY <2>4
    <3>1. S = {t}
      BY <2>2, <3>0
    <3>2. Cardinality(S) = 1
      BY <3>1, FS_Singleton
    <3> QED BY <2>1, <3>2
  <2> QED BY <2>3, <2>4
<1> QED BY <1>1 DEF TicketsInv, TicketsHold, OneTicketPerContact

(* For any tickets and messages and any number of overlapping requests:    *)
(* closed tickets say who closed them, others do not unless an answer that *)
(* was on its way took them up, and a message becomes one ticket at most   *)
(* unless its escalations overlap.                                         *)
THEOREM TicketsAreKept == TicketsSpec => []TicketsHold
<1>1. TicketsInit => TicketsInv
  BY TicketsBegin
<1>2. TicketsInv /\ [Answering \/ Triaging]_ticketVars => TicketsInv'
  BY TicketsStep
<1>3. TicketsInv => TicketsHold
  BY InvSaysTickets
<1> QED BY <1>1, <1>2, <1>3, PTL DEF TicketsSpec

(* For the same: a handler leaves the transition table, or the count of    *)
(* reopenings, only when the row it loaded has changed; and a closure      *)
(* never does.                                                             *)
THEOREM TableIsFollowed == TicketsSpec => HandlersFollowTable
<1>1. TicketsInit => TicketsInv
  BY TicketsBegin
<1>2. TicketsInv /\ [Answering \/ Triaging]_ticketVars => TicketsInv'
  BY TicketsStep
<1>3. TicketsInv /\ [Answering \/ Triaging]_ticketVars =>
        [\A t \in TicketIds : Filed(t) =>
            \/ WrittenLate(t)
            \/ /\ ticket'[t].status = ticket[t].status
                  \/ ticket'[t].status \in TicketTransitions[ticket[t].status]
               /\ ticket'[t].reopened - ticket[t].reopened =
                   IF ticket[t].status = "CLOSED" /\ ticket'[t].status # "CLOSED" THEN 1 ELSE 0]_ticketVars
  BY TicketsStep DEF MovesByTable, MovesRight
<1> QED BY <1>1, <1>2, <1>3, PTL DEF TicketsSpec, HandlersFollowTable
=============================================================================
