-------------------------------- MODULE Outbox --------------------------------
(***************************************************************************)
(* The durable email outbox of services/email-outbox.service.ts.  Requests *)
(* enqueue rows; on every server instance a timer runs passes that return  *)
(* abandoned rows to the queue, claim a batch, and deliver and mark its    *)
(* rows one after the other.  An instance runs one pass at a time; passes  *)
(* of different instances interleave.                                      *)
(*                                                                         *)
(* The provider is external: it accepts, rejects for good, or fails for    *)
(* now, and its acceptance may be lost on the way back.  Clock readings    *)
(* are choices: a pending row may or may not be due yet, and the lock of a *)
(* row in process may have become old (LOCK_STALE_MS), because the pass    *)
(* that claimed it died or because it is slow: nothing renews a lock.      *)
(***************************************************************************)
EXTENDS Naturals, FiniteSets

CONSTANTS
    Messages,       \* rows requests may enqueue
    KeyOf,          \* the dedupe key of each message
    NoKey,          \* a message without one, and a released key
    Workers,        \* server instances
    MaxAttempts,    \* email_outbox.max_attempts (3 by default)
    BatchSize,      \* EMAIL_OUTBOX_BATCH_SIZE
    MaxFaults       \* bound of the model: crashes, lost answers, lost marks,
                    \* locks outlived

ASSUME OutboxAssumption ==
    /\ MaxAttempts \in Nat \ {0}
    /\ BatchSize \in Nat \ {0}
    /\ MaxFaults \in Nat
    /\ IsFiniteSet(Workers)

VARIABLES
    status,     \* email_outbox.status, "NONE" before the row exists
    attempts,   \* email_outbox.attempts
    dedupeKey,  \* email_outbox.dedupe_key
    stale,      \* locked_at is older than LOCK_STALE_MS
    step,       \* how far the pass of each instance is
    tries,      \* attempt numbers of the claimed rows not marked yet, 0: not claimed
    verdict,    \* the row just handled, the mark it is to get, and whether
                \* an error of that mark is caught in the loop
    copies,     \* history: how often the provider accepted the message
    outlived,   \* history: rows whose lock the pass that set it outlived
    faults      \* history: faults so far

table == <<status, attempts, dedupeKey, stale>>
pass == <<step, tries, verdict>>
outboxVars == <<table, pass, copies, outlived, faults>>

Statuses == {"NONE", "PENDING", "PROCESSING", "SENT", "FAILED"}
Ended == {"SENT", "FAILED"}
Marks == {"SENT", "FAILED", "PENDING"}
Keys == {KeyOf[m] : m \in Messages} \cup {NoKey}

NoVerdict == [row |-> "none", to |-> "none", caught |-> FALSE]
Verdicts == {NoVerdict} \cup [row: Messages, to: Marks, caught: BOOLEAN]

OutboxTypeOK ==
    /\ status \in [Messages -> Statuses]
    /\ attempts \in [Messages -> Nat]
    /\ dedupeKey \in [Messages -> Keys]
    /\ stale \in [Messages -> BOOLEAN]
    /\ step \in [Workers -> {"idle", "ready", "batch", "mark"}]
    /\ tries \in [Workers -> [Messages -> Nat]]
    /\ verdict \in [Workers -> Verdicts]
    /\ copies \in [Messages -> Nat]
    /\ outlived \subseteq Messages
    /\ faults \in Nat

NothingClaimed == [m \in Messages |-> 0]

OutboxInit ==
    /\ status = [m \in Messages |-> "NONE"]
    /\ attempts = [m \in Messages |-> 0]
    /\ dedupeKey = [m \in Messages |-> NoKey]
    /\ stale = [m \in Messages |-> FALSE]
    /\ step = [w \in Workers |-> "idle"]
    /\ tries = [w \in Workers |-> NothingClaimed]
    /\ verdict = [w \in Workers |-> NoVerdict]
    /\ copies = [m \in Messages |-> 0]
    /\ outlived = {}
    /\ faults = 0

(* Worker w has m in hand: claimed in this pass and not marked yet.        *)
Holds(w, m) == tries[w][m] > 0

(* The lock of m is that of the pass of w: nobody has claimed m since.     *)
Locks(w, m) == Holds(w, m) /\ tries[w][m] = attempts[m]

----------------------------------------------------------------------------

(* enqueue: the unique key of a row that has not failed refuses the row.   *)
Enqueue(m) ==
    /\ status[m] = "NONE"
    /\ KeyOf[m] = NoKey \/ \A n \in Messages : dedupeKey[n] # KeyOf[m]
    /\ status' = [status EXCEPT ![m] = "PENDING"]
    /\ dedupeKey' = [dedupeKey EXCEPT ![m] = KeyOf[m]]
    /\ UNCHANGED <<attempts, stale, pass, copies, outlived, faults>>

(* Five minutes pass for a row that a pass has left.                       *)
Expire(m) ==
    /\ status[m] = "PROCESSING" /\ ~stale[m]
    /\ \A w \in Workers : ~Locks(w, m)
    /\ stale' = [stale EXCEPT ![m] = TRUE]
    /\ UNCHANGED <<status, attempts, dedupeKey, pass, copies, outlived, faults>>

(* Five minutes pass while the pass that claimed the row is still at work: *)
(* the provider is slow, or the batch long.                                *)
Overrun(m) ==
    /\ status[m] = "PROCESSING" /\ ~stale[m]
    /\ \E w \in Workers : Locks(w, m)
    /\ faults < MaxFaults
    /\ stale' = [stale EXCEPT ![m] = TRUE]
    /\ outlived' = outlived \cup {m}
    /\ faults' = faults + 1
    /\ UNCHANGED <<status, attempts, dedupeKey, pass, copies>>

(* Slips of reclaimStaleLocks: no row, or every row in process, is taken   *)
(* for abandoned.                                                          *)
NoneAbandoned == {}
AllAbandoned == {m \in Messages : status[m] = "PROCESSING"}

Abandoned == {m \in Messages : status[m] = "PROCESSING" /\ stale[m]}

(* A pass starts with reclaimStaleLocks.                                   *)
Reclaim(w) ==
    /\ step[w] = "idle"
    /\ status' = [m \in Messages |-> IF m \in Abandoned THEN "PENDING" ELSE status[m]]
    /\ stale' = [m \in Messages |-> stale[m] /\ m \notin Abandoned]
    /\ step' = [step EXCEPT ![w] = "ready"]
    /\ UNCHANGED <<attempts, dedupeKey, tries, verdict, copies, outlived, faults>>

(* A slip of claimBatch: every claim is taken for the first attempt.       *)
ClaimCountsFromZero(w, batch) ==
    /\ step[w] = "ready"
    /\ \A m \in batch : status[m] = "PENDING"
    /\ Cardinality(batch) <= BatchSize
    /\ status' = [m \in Messages |-> IF m \in batch THEN "PROCESSING" ELSE status[m]]
    /\ stale' = [m \in Messages |-> stale[m] /\ m \notin batch]
    /\ attempts' = [m \in Messages |-> IF m \in batch THEN attempts[m] + 1 ELSE attempts[m]]
    /\ tries' = [tries EXCEPT ![w] = [m \in Messages |-> IF m \in batch THEN 1 ELSE 0]]
    /\ step' = [step EXCEPT ![w] = IF batch = {} THEN "idle" ELSE "batch"]
    /\ UNCHANGED <<dedupeKey, verdict, copies, outlived, faults>>

(* claimBatch: due rows are taken out of the queue and the attempt counted, *)
(* in one transaction that skips rows another claim has locked.            *)
Claim(w, batch) ==
    /\ step[w] = "ready"
    /\ \A m \in batch : status[m] = "PENDING"
    /\ Cardinality(batch) <= BatchSize
    /\ status' = [m \in Messages |-> IF m \in batch THEN "PROCESSING" ELSE status[m]]
    /\ stale' = [m \in Messages |-> stale[m] /\ m \notin batch]
    /\ attempts' = [m \in Messages |-> IF m \in batch THEN attempts[m] + 1 ELSE attempts[m]]
    /\ tries' = [tries EXCEPT ![w] = [m \in Messages |->
                                        IF m \in batch THEN attempts[m] + 1 ELSE 0]]
    /\ step' = [step EXCEPT ![w] = IF batch = {} THEN "idle" ELSE "batch"]
    /\ UNCHANGED <<dedupeKey, verdict, copies, outlived, faults>>

----------------------------------------------------------------------------
(* One row of the batch: the delivery, then the mark.                      *)

(* The catch block: an error that may pass is retried until the attempts   *)
(* are used up.                                                            *)
AfterError(w, m) == IF tries[w][m] >= MaxAttempts THEN "FAILED" ELSE "PENDING"

Decide(w, m, to, caught) ==
    /\ step' = [step EXCEPT ![w] = "mark"]
    /\ verdict' = [verdict EXCEPT ![w] = [row |-> m, to |-> to, caught |-> caught]]
    /\ UNCHANGED <<table, tries, outlived>>

(* The provider took the message.                                          *)
Accepted(w, m) ==
    /\ Decide(w, m, "SENT", TRUE)
    /\ copies' = [copies EXCEPT ![m] = @ + 1]
    /\ UNCHANGED faults

(* The recipient is suppressed, or the provider rejects the message.  The  *)
(* first is marked in the try block, the second in its catch block.        *)
Rejected(w, m) ==
    /\ \E suppressed \in BOOLEAN : Decide(w, m, "FAILED", suppressed)
    /\ UNCHANGED <<copies, faults>>

(* The provider failed for now.                                            *)
Postponed(w, m) ==
    /\ Decide(w, m, AfterError(w, m), FALSE)
    /\ UNCHANGED <<copies, faults>>

(* The provider took the message, and its answer was lost.                 *)
AnswerLost(w, m) ==
    /\ faults < MaxFaults
    /\ Decide(w, m, AfterError(w, m), FALSE)
    /\ copies' = [copies EXCEPT ![m] = @ + 1]
    /\ faults' = faults + 1

Deliver(w) ==
    /\ step[w] = "batch"
    /\ \E m \in Messages :
        /\ Holds(w, m)
        /\ Accepted(w, m) \/ Rejected(w, m) \/ Postponed(w, m) \/ AnswerLost(w, m)

(* A mark in the try block fails: the catch block takes the error for a    *)
(* failed delivery.                                                        *)
MarkFails(w) ==
    /\ step[w] = "mark" /\ verdict[w].caught
    /\ faults < MaxFaults
    /\ verdict' = [verdict EXCEPT ![w].to = AfterError(w, verdict[w].row),
                                 ![w].caught = FALSE]
    /\ faults' = faults + 1
    /\ UNCHANGED <<table, step, tries, copies, outlived>>

(* A slip of the marks: markRetry releases the dedupe key as well.         *)
MarkReleasesKey(w) ==
    /\ step[w] = "mark"
    /\ LET m == verdict[w].row
           to == verdict[w].to
           left == [tries[w] EXCEPT ![m] = 0]
       IN  /\ status' = [status EXCEPT ![m] = to]
           /\ stale' = [stale EXCEPT ![m] = FALSE]
           /\ dedupeKey' = [dedupeKey EXCEPT ![m] = IF to # "SENT" THEN NoKey ELSE @]
           /\ tries' = [tries EXCEPT ![w] = left]
           /\ step' = [step EXCEPT ![w] = IF left = NothingClaimed THEN "idle" ELSE "batch"]
    /\ verdict' = [verdict EXCEPT ![w] = NoVerdict]
    /\ UNCHANGED <<attempts, copies, outlived, faults>>

(* markSent, markFailed, markRetry: by the row's id, whatever its status.  *)
(* Only a failure releases the dedupe key.  After its last row the pass is *)
(* over.                                                                   *)
Mark(w) ==
    /\ step[w] = "mark"
    /\ LET m == verdict[w].row
           to == verdict[w].to
           left == [tries[w] EXCEPT ![m] = 0]
       IN  /\ status' = [status EXCEPT ![m] = to]
           /\ stale' = [stale EXCEPT ![m] = FALSE]
           /\ dedupeKey' = [dedupeKey EXCEPT ![m] = IF to = "FAILED" THEN NoKey ELSE @]
           /\ tries' = [tries EXCEPT ![w] = left]
           /\ step' = [step EXCEPT ![w] = IF left = NothingClaimed THEN "idle" ELSE "batch"]
    /\ verdict' = [verdict EXCEPT ![w] = NoVerdict]
    /\ UNCHANGED <<attempts, copies, outlived, faults>>

(* The instance stops, or a mark in the catch block throws and ends the    *)
(* pass: what is left of the batch stays PROCESSING.                       *)
Crash(w) ==
    /\ step[w] # "idle"
    /\ faults < MaxFaults
    /\ faults' = faults + 1
    /\ step' = [step EXCEPT ![w] = "idle"]
    /\ tries' = [tries EXCEPT ![w] = NothingClaimed]
    /\ verdict' = [verdict EXCEPT ![w] = NoVerdict]
    /\ UNCHANGED <<table, copies, outlived>>

----------------------------------------------------------------------------

PassStep(w) ==
    \/ Reclaim(w)
    \/ \E batch \in SUBSET Messages : Claim(w, batch)
    \/ Deliver(w)
    \/ Mark(w)

OutboxNext ==
    \/ \E m \in Messages : Enqueue(m) \/ Expire(m) \/ Overrun(m)
    \/ \E w \in Workers : PassStep(w) \/ MarkFails(w) \/ Crash(w)

OutboxSpec == OutboxInit /\ [][OutboxNext]_outboxVars

(* A row that keeps coming due is claimed by some instance: rows are taken *)
(* in the order they came due.                                             *)
ClaimRow(m) == \E w \in Workers, batch \in SUBSET Messages : m \in batch /\ Claim(w, batch)

(* The timers fire, calls to the provider and the database return, and     *)
(* clocks advance.                                                         *)
Timers ==
    /\ \A w \in Workers : WF_outboxVars(PassStep(w))
    /\ \A m \in Messages : WF_outboxVars(Expire(m)) /\ SF_outboxVars(ClaimRow(m))

FairSpec == OutboxSpec /\ Timers

----------------------------------------------------------------------------
(* Properties.                                                             *)

(* Concurrent workers never have the same row in hand, unless a pass       *)
(* outlived its lock on it: what the claim query's SKIP LOCKED and the age *)
(* of a reclaimed lock are for.                                            *)
OneWorkerPerRow ==
    \A m \in Messages \ outlived, v, w \in Workers : Holds(v, m) /\ Holds(w, m) => v = w

(* A message is sent again only because of a fault: every copy after the   *)
(* first is paid for by a crash, a lost answer, a mark that failed or a    *)
(* lock that was outlived, although the late pass delivers its rows too.   *)
CopiesNeedFaults == \A m \in Messages : copies[m] <= 1 + faults

(* A message is tried MaxAttempts times, and once more per fault, as a     *)
(* claim does not look at the count.                                       *)
AttemptsAreLimited == \A m \in Messages : attempts[m] <= MaxAttempts + faults

(* Neither a copy nor an attempt too many without a fault that explains it. *)
RepeatsNeedFaults == CopiesNeedFaults /\ AttemptsAreLimited

(* One event, one row: of the messages with a key only one is queued or    *)
(* sent at any time, however many failed before it; a pass that outlived   *)
(* its lock may queue or send one that has failed meanwhile.               *)
OneRowPerEvent ==
    \A m, n \in Messages \ outlived :
        /\ m # n /\ KeyOf[m] = KeyOf[n] /\ KeyOf[m] # NoKey
        /\ status[m] \in {"PENDING", "PROCESSING", "SENT"}
        => status[n] \in {"NONE", "FAILED"}

(* A row is in one worker's hands, and an event in one row.                *)
OneHandOneRow == OneWorkerPerRow /\ OneRowPerEvent

(* The marks write by id, whatever the status, so a late pass does take a  *)
(* sent or failed row back.  Nothing else does: a row that has ended moves *)
(* again only if a pass outlived its lock on that row.                     *)
EndedStaysEnded ==
    [][\A m \in Messages :
        status[m] \in Ended /\ status'[m] # status[m] => m \in outlived]_outboxVars

(* A queued message is sent or given up, although workers die and pass     *)
(* their rows on too late.                                                 *)
EveryMessageEnds == \A m \in Messages : status[m] = "PENDING" ~> status[m] \in Ended
=============================================================================
