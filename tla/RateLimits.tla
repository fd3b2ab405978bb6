------------------------------ MODULE RateLimits ------------------------------
(***************************************************************************)
(* The rate limiters.  Every limiter of every server counts in one shared  *)
(* store, a request passes the limiters on its route one after the other,  *)
(* and each command to the store has a deadline.  When the command that    *)
(* counts fails, the library loads its script anew and sends it once more, *)
(* each with its own deadline; a request that misses those is refused,     *)
(* even if the store counts its commands later.                            *)
(***************************************************************************)
EXTENDS Naturals, FiniteSets, Sequences

CONSTANTS
    Fleet,          \* servers
    Visits,         \* requests of one address that may be under way at once
    Route,          \* the limiters a request passes, in their order
    MaxHits         \* per limiter: requests of one window

Limiters == {Route[k] : k \in DOMAIN Route}

ASSUME RateLimitsAssumption ==
    MaxHits \in [Limiters -> Nat] /\ Route \in Seq(Limiters) /\ Route # <<>> /\ IsFiniteSet(Visits)

VARIABLES
    hits,           \* per limiter: what the store has counted in this window
    visit,          \* per request: server, limiter, and how far its commands are
    stray,          \* per limiter: commands nobody waits for that may still be counted
    storeHealth,    \* per server: what it last saw of the store
    outageLogged,   \* per server: between a logged outage and its recovery
    reachable,      \* the store answers
    admitted,       \* history: per limiter, requests let through in this window
    entries,        \* history: per server, the last entry of its log
    joined          \* history: servers that have been connected once

rateVars == <<hits, visit, stray, storeHealth, outageLogged, reachable, admitted, entries, joined>>
serverSight == <<storeHealth, outageLogged, entries, joined>>

Away == [step |-> "idle"]
VisitSteps == {"waiting", "counted", "loading"}
Fresh(i, k, step) ==
    [step |-> step, server |-> i, at |-> k, again |-> FALSE, fits |-> FALSE, old |-> FALSE]

(* buildStore reports the store as down until it has connected.            *)
RateInit ==
    /\ hits = [b \in Limiters |-> 0]
    /\ visit = [c \in Visits |-> Away]
    /\ stray = [b \in Limiters |-> 0]
    /\ storeHealth = [i \in Fleet |-> "disconnected"]
    /\ outageLogged = [i \in Fleet |-> FALSE]
    /\ reachable \in BOOLEAN
    /\ admitted = [b \in Limiters |-> 0]
    /\ entries = [i \in Fleet |-> "none"]
    /\ joined = {}

VisitAt(c, step) == visit[c].step = step
LimiterOf(c) == Route[visit[c].at]

(* A slip: every failure is logged as an outage of its own.                *)
LogsEveryFailure(i) ==
    /\ storeHealth' = [storeHealth EXCEPT ![i] = "disconnected"]
    /\ outageLogged' = outageLogged
    /\ entries' = [entries EXCEPT ![i] = "outage"]
    /\ UNCHANGED joined

MarkStoreUnavailable(i) ==
    /\ IF storeHealth[i] = "disconnected"
       THEN UNCHANGED <<storeHealth, outageLogged, entries>>
       ELSE /\ storeHealth' = [storeHealth EXCEPT ![i] = "disconnected"]
            /\ outageLogged' = [outageLogged EXCEPT ![i] = TRUE]
            /\ entries' = [entries EXCEPT ![i] = "outage"]
    /\ UNCHANGED joined

MarkStoreAvailable(i) ==
    /\ storeHealth' = [storeHealth EXCEPT ![i] = "connected"]
    /\ joined' = joined \cup {i}
    /\ IF storeHealth[i] = "disconnected" /\ outageLogged[i]
       THEN /\ outageLogged' = [outageLogged EXCEPT ![i] = FALSE]
            /\ entries' = [entries EXCEPT ![i] = "recovery"]
       ELSE UNCHANGED <<outageLogged, entries>>

Connect(i) ==
    /\ storeHealth[i] = "disconnected" /\ reachable
    /\ MarkStoreAvailable(i)
    /\ UNCHANGED <<hits, visit, stray, reachable, admitted>>

(* The client reports an error on every attempt to reconnect.              *)
ClientError(i) ==
    /\ ~reachable
    /\ MarkStoreUnavailable(i)
    /\ UNCHANGED <<hits, visit, stray, reachable, admitted>>

(* A load of the script that failed before counts as a failed command.     *)
SendCommand(c, i) ==
    /\ visit[c] = Away
    /\ \E step \in {"waiting", "loading"} : visit' = [visit EXCEPT ![c] = Fresh(i, 1, step)]
    /\ UNCHANGED <<hits, stray, reachable, admitted>> /\ UNCHANGED serverSight

Increment(c) ==
    /\ VisitAt(c, "waiting") /\ reachable
    /\ hits' = [hits EXCEPT ![LimiterOf(c)] = @ + 1]
    /\ visit' = [visit EXCEPT ![c].step = "counted", ![c].fits = hits[LimiterOf(c)] < MaxHits[LimiterOf(c)]]
    /\ UNCHANGED <<stray, reachable, admitted>> /\ UNCHANGED serverSight

(* The client had kept the command until it was connected again.           *)
CountLate(b) ==
    /\ stray[b] > 0 /\ reachable
    /\ stray' = [stray EXCEPT ![b] = @ - 1]
    /\ hits' = [hits EXCEPT ![b] = @ + 1]
    /\ UNCHANGED <<visit, reachable, admitted>> /\ UNCHANGED serverSight

(* Let through to the next limiter of the route, or to the handler.        *)
Passes(c) ==
    /\ IF visit[c].at = Len(Route) THEN visit' = [visit EXCEPT ![c] = Away]
       ELSE \E step \in {"waiting", "loading"} :
                visit' = [visit EXCEPT ![c] = Fresh(visit[c].server, visit[c].at + 1, step)]
    /\ admitted' = IF visit[c].old THEN admitted ELSE [admitted EXCEPT ![LimiterOf(c)] = @ + 1]

(* The count arrives in time: below the limit, or 429.                     *)
Answered(c) ==
    /\ VisitAt(c, "counted")
    /\ MarkStoreAvailable(visit[c].server)
    /\ IF visit[c].fits THEN Passes(c) ELSE visit' = [visit EXCEPT ![c] = Away] /\ UNCHANGED admitted
    /\ UNCHANGED <<hits, stray, reachable>>

(* The first failure has the script loaded anew, the second one is a 503.  *)
Fails(c) ==
    /\ MarkStoreUnavailable(visit[c].server)
    /\ visit' = [visit EXCEPT ![c] = IF visit[c].again THEN Away
                                     ELSE Fresh(visit[c].server, visit[c].at, "loading")]
    /\ UNCHANGED <<hits, reachable, admitted>>

LeavesCommand(c) == stray' = IF VisitAt(c, "waiting") THEN [stray EXCEPT ![LimiterOf(c)] = @ + 1] ELSE stray

(* A slip: a limiter that hears nothing lets the request through.          *)
DeadlineFailsOpen(c) ==
    /\ visit[c].step \in {"waiting", "counted"}
    /\ MarkStoreUnavailable(visit[c].server)
    /\ Passes(c) /\ LeavesCommand(c)
    /\ UNCHANGED <<hits, reachable>>

(* The deadline passes, before the store has counted or before its answer  *)
(* is here.  The command is still in the client's queue.                   *)
Deadline(c) == visit[c].step \in {"waiting", "counted"} /\ Fails(c) /\ LeavesCommand(c)

(* The client is closed and rejects: the command is not counted at all.    *)
Rejected(c) == VisitAt(c, "waiting") /\ ~reachable /\ Fails(c) /\ UNCHANGED stray

(* The script is there, and the command is sent a second time.             *)
Reloaded(c) ==
    /\ VisitAt(c, "loading") /\ reachable
    /\ MarkStoreAvailable(visit[c].server)
    /\ visit' = [visit EXCEPT ![c].step = "waiting", ![c].again = TRUE]
    /\ UNCHANGED <<hits, stray, reachable, admitted>>

ReloadFails(c) ==
    /\ VisitAt(c, "loading")
    /\ MarkStoreUnavailable(visit[c].server)
    /\ visit' = [visit EXCEPT ![c] = Away]
    /\ UNCHANGED <<hits, stray, reachable, admitted>>

(* The window ends: the store drops the key.                               *)
NewWindow(b) ==
    /\ hits[b] > 0
    /\ hits' = [hits EXCEPT ![b] = 0]
    /\ admitted' = [admitted EXCEPT ![b] = 0]
    /\ visit' = [c \in Visits |-> IF VisitAt(c, "counted") /\ LimiterOf(c) = b
                                  THEN [visit[c] EXCEPT !.old = TRUE] ELSE visit[c]]
    /\ UNCHANGED <<stray, reachable>> /\ UNCHANGED serverSight

StoreToggles == reachable' = ~reachable /\ UNCHANGED <<hits, visit, stray, admitted>> /\ UNCHANGED serverSight

RateStep ==
    \/ \E c \in Visits :
        \/ \E i \in Fleet : SendCommand(c, i)
        \/ Increment(c) \/ Answered(c) \/ Deadline(c) \/ Rejected(c) \/ Reloaded(c) \/ ReloadFails(c)
    \/ \E i \in Fleet : Connect(i) \/ ClientError(i)
    \/ \E b \in Limiters : CountLate(b) \/ NewWindow(b)
    \/ StoreToggles

RateSpec == RateInit /\ [][RateStep]_rateVars

----------------------------------------------------------------------------
RateTypeOK ==
    /\ hits \in [Limiters -> Nat] /\ stray \in [Limiters -> Nat] /\ admitted \in [Limiters -> Nat]
    /\ visit \in [Visits -> {Away} \cup [step : VisitSteps, server : Fleet, at : DOMAIN Route,
                                         again : BOOLEAN, fits : BOOLEAN, old : BOOLEAN]]
    /\ storeHealth \in [Fleet -> {"connected", "disconnected"}]
    /\ outageLogged \in [Fleet -> BOOLEAN] /\ reachable \in BOOLEAN
    /\ entries \in [Fleet -> {"none", "outage", "recovery"}] /\ joined \subseteq Fleet

(* No window lets through more than its limit, however the requests are    *)
(* spread over the servers, and whatever the store fails to answer.        *)
LimitsAreShared == \A b \in Limiters : admitted[b] <= MaxHits[b]

(* One entry per outage and one per recovery: a server that sees no store  *)
(* has said so last, unless it never had one, and one that sees it has no  *)
(* outage left open.                                                       *)
OutagesAreLogged ==
    \A i \in Fleet :
        /\ outageLogged[i] <=> entries[i] = "outage"
        /\ i \in joined => (outageLogged[i] <=> storeHealth[i] = "disconnected")

RateLimitsHold == RateTypeOK /\ LimitsAreShared /\ OutagesAreLogged
=============================================================================
