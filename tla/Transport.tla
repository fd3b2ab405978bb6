------------------------------ MODULE Transport ------------------------------
(***************************************************************************)
(* How the console calls the server.  A call refreshes a lapsed token      *)
(* before it is sent, and once more when it is refused; identical readings *)
(* that are under way at once share one request; a call that is not        *)
(* answered in time fails, though the server may still carry it out.       *)
(***************************************************************************)
EXTENDS Integers

CONSTANTS
    Operators,      \* who may sign in
    ConsoleCalls,   \* calls of the console, in one tab
    MaxToken,       \* access tokens issued
    Nobody, NoReading

ASSUME TransportAssumption == MaxToken \in Nat /\ Nobody \notin Operators /\ NoReading \notin ConsoleCalls

VARIABLES
    writings,       \* the resource, as the server has it: writings carried out
    bearer,         \* the token in memory: its number, whose it is, lapsed or not
    issued,         \* the last token's number
    request,        \* per call: how far it is
    inflightGets,   \* per token: the reading under way that others may share
    newest,         \* the newest state an answer has brought
    era,            \* history: times the operator has changed
    carriedOut      \* history: per call, times it was carried out

transportVars == <<writings, bearer, issued, request, inflightGets, newest, era, carriedOut>>

NoToken == [number |-> 0, owner |-> Nobody, lapsed |-> FALSE]
Unmade == [step |-> "idle"]

TransportInit ==
    /\ writings = 0 /\ newest = 0 /\ issued = 0 /\ era = 0
    /\ bearer = NoToken
    /\ request = [c \in ConsoleCalls |-> Unmade]
    /\ inflightGets = [k \in 0 .. MaxToken |-> NoReading]
    /\ carriedOut = [c \in ConsoleCalls |-> 0]

CallAt(c, step) == request[c].step = step
Moves(c, step) == request' = [request EXCEPT ![c].step = step]
Ended(c) == request[c].step \in {"late", "answered", "failed"}

(* A call ends, and the ones that share it with it.                        *)
Concludes(c, step, lost) ==
    LET ended == [request[c] EXCEPT !.step = step, !.lost = lost]
        Shared(d) == [request[d] EXCEPT !.step = IF step = "late" THEN "failed" ELSE step, !.lost = lost,
                                        !.of = ended.of, !.as = ended.as, !.sent = ended.sent]
    IN  request' = [d \in ConsoleCalls |->
            IF d = c THEN ended
            ELSE IF CallAt(d, "joined") /\ request[d].leader = c THEN Shared(d) ELSE request[d]]

(* A slip: the entry of a reading that has ended is kept.                  *)
KeepsEntry(c) == UNCHANGED inflightGets

Without(S) == [k \in 0 .. MaxToken |-> IF inflightGets[k] \in S THEN NoReading ELSE inflightGets[k]]
LeavesMap(c) == inflightGets' = Without({c})

(* A slip: readings are told apart by their address alone.                 *)
AnyToken == 0

(* A reading is shared by calls that would be sent with the same token.    *)
SharedKey == bearer.number

(* apiFetchRaw: a plain reading may be shared, a writing never.  A call    *)
(* that finds its token lapsed waits for a rotation, any other is sent.    *)
ConsoleCall(c, get, plain) ==
    LET leader == IF plain THEN inflightGets[SharedKey] ELSE NoReading
        alone == [step |-> IF bearer.lapsed THEN "refreshing" ELSE "sent", get |-> get,
                  leader |-> NoReading, early |-> FALSE, retried |-> FALSE,
                  by |-> bearer.owner, as |-> IF bearer.lapsed THEN Nobody ELSE bearer.owner,
                  made |-> era, sent |-> era,
                  at |-> newest, of |-> -1, lost |-> FALSE]
    IN  /\ CallAt(c, "idle") /\ (plain => get)
        /\ IF leader = NoReading
           THEN /\ request' = [request EXCEPT ![c] = alone]
                /\ inflightGets' = IF plain THEN [inflightGets EXCEPT ![SharedKey] = c] ELSE inflightGets
           ELSE LET r == request[leader]
                IN  /\ request' = [request EXCEPT ![c] = [alone EXCEPT
                            !.leader = leader, !.early = ~Ended(leader),
                            !.step = IF Ended(leader) THEN r.step ELSE "joined",
                            !.of = r.of, !.as = r.as, !.sent = r.sent, !.lost = r.lost]]
                    /\ UNCHANGED inflightGets
        /\ UNCHANGED <<writings, bearer, issued, newest, era, carriedOut>>

(* One rotation for all that wait for it.  It brings a token, or fails for *)
(* now, or ends the session.  A call not yet sent goes ahead whatever came *)
(* of it; a refused one is repeated only with a fresh token.               *)
RotationEnds ==
    /\ \E c \in ConsoleCalls : CallAt(c, "refreshing")
    /\ \E ends \in {"rotated", "failed", "rejected"} :
        LET waits == {c \in ConsoleCalls : CallAt(c, "refreshing")}
            stop == {c \in waits : request[c].as # Nobody /\ ends # "rotated"}
        IN  /\ IF ends = "rotated" /\ bearer.owner # Nobody
               THEN /\ issued < MaxToken /\ issued' = issued + 1 /\ UNCHANGED era
                    /\ bearer' = [bearer EXCEPT !.number = issued + 1, !.lapsed = FALSE]
               ELSE /\ ends # "rotated" /\ UNCHANGED issued
                    /\ IF ends = "rejected" /\ bearer.owner # Nobody
                       THEN bearer' = NoToken /\ era' = era + 1
                       ELSE UNCHANGED <<bearer, era>>
            /\ request' = [c \in ConsoleCalls |->
                    IF c \in stop \/ (CallAt(c, "joined") /\ request[c].leader \in stop)
                    THEN [request[c] EXCEPT !.step = "failed"]
                    ELSE IF c \in waits
                    THEN [request[c] EXCEPT !.step = "sent", !.retried = request[c].as # Nobody,
                                            !.as = bearer'.owner, !.sent = era']
                    ELSE request[c]]
            /\ inflightGets' = Without(stop)
    /\ UNCHANGED <<writings, newest, carriedOut>>

(* The server refuses a call before it does anything, or carries it out,   *)
(* also one that nobody waits for any more.                                *)
ServerHandles(c) ==
    /\ request[c].step \in {"sent", "late"}
    /\ \/ /\ request' = [request EXCEPT ![c].step = IF CallAt(c, "late") THEN "failed" ELSE "refused"]
          /\ UNCHANGED <<writings, carriedOut>>
       \/ /\ request[c].as # Nobody
          /\ writings' = writings + (IF request[c].get THEN 0 ELSE 1)
          /\ carriedOut' = [carriedOut EXCEPT ![c] = @ + (IF request[c].get THEN 0 ELSE 1)]
          /\ request' = [request EXCEPT ![c].step = IF CallAt(c, "late") THEN "failed" ELSE "served",
                                        ![c].of = writings']
    /\ UNCHANGED <<bearer, issued, inflightGets, newest, era>>

Arrives(c) ==
    /\ CallAt(c, "served")
    /\ Concludes(c, "answered", FALSE) /\ LeavesMap(c)
    /\ newest' = IF request[c].of > newest THEN request[c].of ELSE newest
    /\ UNCHANGED <<writings, bearer, issued, era, carriedOut>>

(* A slip: any failure is taken for a refusal, and the call is repeated.   *)
RefusalOrLoss(c) == request[c].step \in {"refused", "served"}

Refusal(c) == CallAt(c, "refused")

(* 401: once, and only while there is a session, after a rotation.         *)
RefusalArrives(c) ==
    /\ Refusal(c)
    /\ IF ~request[c].retried /\ bearer.owner # Nobody
       THEN Moves(c, "refreshing") /\ UNCHANGED inflightGets
       ELSE Concludes(c, "failed", FALSE) /\ LeavesMap(c)
    /\ UNCHANGED <<writings, bearer, issued, newest, era, carriedOut>>

(* The deadline, or the network: the call fails for its caller.            *)
TimesOut(c) ==
    /\ request[c].step \in {"sent", "served", "refused"}
    /\ Concludes(c, IF CallAt(c, "sent") THEN "late" ELSE "failed", TRUE)
    /\ LeavesMap(c)
    /\ UNCHANGED <<writings, bearer, issued, newest, era, carriedOut>>

SignIn(o) ==
    /\ bearer.owner # o /\ issued < MaxToken
    /\ issued' = issued + 1 /\ era' = era + 1
    /\ bearer' = [number |-> issued + 1, owner |-> o, lapsed |-> FALSE]
    /\ UNCHANGED <<writings, request, inflightGets, newest, carriedOut>>

SignOut ==
    /\ bearer.owner # Nobody
    /\ bearer' = NoToken /\ era' = era + 1
    /\ UNCHANGED <<writings, issued, request, inflightGets, newest, carriedOut>>

Lapse ==
    /\ bearer.owner # Nobody /\ ~bearer.lapsed
    /\ bearer' = [bearer EXCEPT !.lapsed = TRUE]
    /\ UNCHANGED <<writings, issued, request, inflightGets, newest, era, carriedOut>>

TransportStep ==
    \/ \E c \in ConsoleCalls :
        \/ \E get, plain \in BOOLEAN : ConsoleCall(c, get, plain)
        \/ ServerHandles(c) \/ Arrives(c) \/ RefusalArrives(c) \/ TimesOut(c)
    \/ RotationEnds \/ Lapse \/ SignOut
    \/ \E o \in Operators : SignIn(o)

TransportSpec == TransportInit /\ [][TransportStep]_transportVars

----------------------------------------------------------------------------
(* A writing is carried out once at most, however often it is refused and  *)
(* repeated, and one that failed has changed nothing unless its answer was *)
(* lost or late.                                                           *)
WritingsAreOnce ==
    \A c \in ConsoleCalls :
        carriedOut[c] <= 1 /\ (CallAt(c, "failed") /\ carriedOut[c] > 0 => request[c].lost)

(* A reading shows at least what the console knew when it was called,      *)
(* unless it joined one that was still under way.                          *)
ReadingsAreFresh ==
    \A c \in ConsoleCalls : CallAt(c, "answered") => request[c].of >= request[c].at \/ request[c].early

(* An answer is for the operator who asked, unless another one signed in   *)
(* while the call waited for a token.  Excepted are calls made signed out: *)
(* they all share one key.                                                 *)
AnswersAreOwn ==
    \A c \in ConsoleCalls : CallAt(c, "answered") /\ request[c].by # Nobody =>
        request[c].as = request[c].by \/ request[c].sent > request[c].made

TransportHolds == WritingsAreOnce /\ ReadingsAreFresh /\ AnswersAreOwn
=============================================================================
