------------------------------ MODULE OrderMail ------------------------------
(***************************************************************************)
(* What a customer is told of an order.  Handlers call a hook after their  *)
(* commit; it sends a mail, at once and without a queue, and mirrors it in *)
(* the customer's inbox.  The keys that keep an event from being mailed    *)
(* twice are held in the memory of each instance of the server.            *)
(***************************************************************************)
EXTENDS Naturals, FiniteSets

CONSTANTS
    Happenings,     \* events of orders, one per dedupe key
    Hosts,          \* instances of the server
    Hooks,          \* calls of a hook that may be under way at once
    MaxSends        \* attempts of one call

ASSUME OrderMailAssumption == MaxSends \in Nat \ {0} /\ IsFiniteSet(Hosts)

VARIABLES
    recentlySent,   \* per instance: the keys it has claimed
    hook,           \* per call: how far it is, where, for which event, attempts left
    mailed,         \* per event: copies the provider has accepted
    inbox,          \* events the customer's inbox has a row of
    bounced,        \* the address is on the suppression list
    callers,        \* history: per event, the instances that have claimed it
    excused,        \* history: per event, answers lost and keys forgotten
    unmailed        \* history: events let through to the inbox before a mail had left

orderMailVars == <<recentlySent, hook, mailed, inbox, bounced, callers, excused, unmailed>>
mailHistory == <<callers, excused, unmailed>>

HookSteps == {"called", "claimed", "sending", "mirror", "gone"}
NotCalled == [step |-> "idle"]

OrderMailInit ==
    /\ recentlySent = [i \in Hosts |-> {}]
    /\ hook = [h \in Hooks |-> NotCalled]
    /\ mailed = [e \in Happenings |-> 0]
    /\ inbox = {} /\ bounced \in BOOLEAN
    /\ callers = [e \in Happenings |-> {}]
    /\ excused = [e \in Happenings |-> 0]
    /\ unmailed = {}

HookAt(h, step) == hook[h].step = step
HookGoes(h, step) == hook' = [hook EXCEPT ![h].step = step]
Told(h) == hook[h].of
Trying(i, e) == \E h \in Hooks :
    hook[h].step \in {"claimed", "sending"} /\ hook[h].host = i /\ Told(h) = e
LetsThrough(h) == unmailed' = unmailed \cup {e \in {Told(h)} : mailed[e] = 0}
Excuse(e) == excused' = [excused EXCEPT ![e] = @ + 1]

(* A handler has committed and calls the hook; a second handler, or the    *)
(* same one again, may do so for the same event.                           *)
CallHook(h, i, e) ==
    /\ hook[h] = NotCalled
    /\ hook' = [hook EXCEPT ![h] = [step |-> "called", host |-> i, of |-> e, left |-> MaxSends]]
    /\ UNCHANGED <<recentlySent, mailed, inbox, bounced>> /\ UNCHANGED mailHistory

(* A slip: a key that was claimed does not stop the second call.           *)
ClaimAnyway(h) ==
    /\ HookAt(h, "called")
    /\ HookGoes(h, "claimed")
    /\ recentlySent' = [recentlySent EXCEPT ![hook[h].host] = @ \cup {Told(h)}]
    /\ callers' = [callers EXCEPT ![Told(h)] = @ \cup {hook[h].host}]
    /\ UNCHANGED <<mailed, inbox, bounced, excused, unmailed>>

(* claimDedupe.  A duplicate is no error: the inbox is still written.      *)
ClaimDedupe(h) ==
    /\ HookAt(h, "called")
    /\ IF Told(h) \in recentlySent[hook[h].host]
       THEN /\ HookGoes(h, "mirror")
            /\ LetsThrough(h)
            /\ UNCHANGED <<recentlySent, callers>>
       ELSE /\ HookGoes(h, "claimed")
            /\ recentlySent' = [recentlySent EXCEPT ![hook[h].host] = @ \cup {Told(h)}]
            /\ callers' = [callers EXCEPT ![Told(h)] = @ \cup {hook[h].host}]
            /\ UNCHANGED unmailed
    /\ UNCHANGED <<mailed, inbox, bounced, excused>>

Releases(h) == recentlySent' = [recentlySent EXCEPT ![hook[h].host] = @ \ {Told(h)}]

(* A suppressed address gets no mail, gives the key back, and a notice.    *)
(* The transport is a real one: it is simulated in tests only, and in      *)
(* development when no provider is configured.                             *)
LookUpAddress(h) ==
    /\ HookAt(h, "claimed")
    /\ IF bounced THEN Releases(h) /\ HookGoes(h, "mirror") /\ LetsThrough(h)
                  ELSE HookGoes(h, "sending") /\ UNCHANGED <<recentlySent, unmailed>>
    /\ UNCHANGED <<mailed, inbox, bounced, callers, excused>>

SendAccepted(h) ==
    /\ HookAt(h, "sending")
    /\ mailed' = [mailed EXCEPT ![Told(h)] = @ + 1]
    /\ HookGoes(h, "mirror")
    /\ UNCHANGED <<recentlySent, inbox, bounced>> /\ UNCHANGED mailHistory

(* A slip: a call that gives up keeps its key.                             *)
GiveUpHolding(h) == HookGoes(h, "gone") /\ UNCHANGED recentlySent

(* The error reaches the hook's guard, which skips the inbox as well.      *)
GiveUp(h) == HookGoes(h, "gone") /\ Releases(h)

(* The provider refuses, for good or for now, or does not answer; it may   *)
(* have accepted the mail even so.                                         *)
SendFails(h) ==
    /\ HookAt(h, "sending")
    /\ \E accepted \in BOOLEAN, permanent \in BOOLEAN :
        /\ accepted => ~permanent
        /\ IF accepted THEN mailed' = [mailed EXCEPT ![Told(h)] = @ + 1] /\ Excuse(Told(h))
                       ELSE UNCHANGED <<mailed, excused>>
        /\ IF permanent \/ hook[h].left = 1
           THEN GiveUp(h)
           ELSE hook' = [hook EXCEPT ![h].left = @ - 1] /\ UNCHANGED recentlySent
    /\ UNCHANGED <<inbox, bounced, callers, unmailed>>

(* emit: the row is unique per customer and event; a failure is swallowed. *)
Mirror(h) ==
    /\ HookAt(h, "mirror")
    /\ inbox' \in {inbox, inbox \cup {Told(h)}}
    /\ HookGoes(h, "gone")
    /\ UNCHANGED <<recentlySent, mailed, bounced>> /\ UNCHANGED mailHistory

(* A day later the key is dropped.  No call takes as long.                 *)
ForgetKey(i, e) ==
    /\ e \in recentlySent[i] /\ ~Trying(i, e)
    /\ recentlySent' = [recentlySent EXCEPT ![i] = @ \ {e}]
    /\ Excuse(e)
    /\ UNCHANGED <<hook, mailed, inbox, bounced, callers, unmailed>>

(* The instance is replaced: its keys and the calls under way are lost.    *)
Replace(i) ==
    /\ \E h \in Hooks : hook[h].step \in HookSteps /\ hook[h].host = i
    /\ recentlySent' = [recentlySent EXCEPT ![i] = {}]
    /\ hook' = [h \in Hooks |->
                    IF hook[h] # NotCalled /\ hook[h].host = i THEN [hook[h] EXCEPT !.step = "gone"]
                                                              ELSE hook[h]]
    /\ excused' = [e \in Happenings |-> excused[e] + (IF e \in recentlySent[i] THEN 1 ELSE 0)]
    /\ UNCHANGED <<mailed, inbox, bounced, callers, unmailed>>

(* A callback of the provider reports the address, or an operator clears it. *)
Report == bounced' = ~bounced /\ UNCHANGED <<recentlySent, hook, mailed, inbox>> /\ UNCHANGED mailHistory

OrderMailStep ==
    \/ \E h \in Hooks : \/ \E i \in Hosts, e \in Happenings : CallHook(h, i, e)
                        \/ ClaimDedupe(h) \/ LookUpAddress(h)
                        \/ SendAccepted(h) \/ SendFails(h) \/ Mirror(h)
    \/ \E i \in Hosts : Replace(i) \/ \E e \in Happenings : ForgetKey(i, e)
    \/ Report

OrderMailSpec == OrderMailInit /\ [][OrderMailStep]_orderMailVars

----------------------------------------------------------------------------
OrderMailTypeOK ==
    /\ recentlySent \in [Hosts -> SUBSET Happenings]
    /\ hook \in [Hooks -> {NotCalled} \cup [step : HookSteps, host : Hosts, of : Happenings, left : 1..MaxSends]]
    /\ mailed \in [Happenings -> Nat] /\ inbox \subseteq Happenings /\ bounced \in BOOLEAN
    /\ callers \in [Happenings -> SUBSET Hosts] /\ excused \in [Happenings -> Nat]
    /\ unmailed \subseteq Happenings

(* An event is mailed once by each instance that was called for it, and    *)
(* once more for each lost answer, restart and day: no retry, repeated     *)
(* event or second handler adds a copy.                                    *)
CopiesAreExplained == \A e \in Happenings : mailed[e] <= Cardinality(callers[e]) + excused[e]

(* A key is held only for a mail that has left or is being tried: an event *)
(* whose mail was given up, or held back, can be dispatched again.         *)
KeysAreHonest ==
    \A i \in Hosts : \A e \in recentlySent[i] : mailed[e] > 0 \/ Trying(i, e)

(* A notice in the inbox goes with a mail: a call that gives up leaves     *)
(* none, and the only ones without a mail are of a suppressed address, or  *)
(* of a second call that did not wait for the first.                       *)
NoticesFollowMail == \A e \in inbox : mailed[e] > 0 \/ e \in unmailed

OrderMailHolds == OrderMailTypeOK /\ CopiesAreExplained /\ KeysAreHonest /\ NoticesFollowMail
=============================================================================
