------------------------------ MODULE Sessions ------------------------------
(***************************************************************************)
(* The sessions of one account: refresh tokens on the server, each good    *)
(* for one rotation, and the browsers that hold the newest one in a        *)
(* cookie.  Tabs of a browser share the cookie and the stored identity;    *)
(* each has its own access token, and one call under way at most.          *)
(* Tokens are numbered in the order they are issued.                       *)
(***************************************************************************)
EXTENDS Naturals, FiniteSets

CONSTANTS
    Tabs, Browsers,
    BrowserOf,      \* the browser of a tab
    Consoles,       \* the browsers that run the admin console, not the storefront
    MaxTokens       \* bound on the tokens issued

ASSUME SessionsAssumption ==
    /\ BrowserOf \in [Tabs -> Browsers] /\ Consoles \subseteq Browsers
    /\ MaxTokens \in Nat /\ "none" \notin Tabs

VARIABLES
    token,          \* its state; "rotated" is revoked with replacedByTokenHash set
    login,          \* the first token of the session a token belongs to
    issued,         \* how many tokens there are
    ended,          \* the sessions that were ended on purpose or by an alarm
    cookie,         \* per browser; 0 is no cookie
    stored,         \* per browser: a signed-in identity is in localStorage
    holder,         \* per browser: the tab that holds the refresh lock, or none
    access,         \* per tab: the access token in memory
    call,           \* per tab: the authentication call under way
    lost            \* browsers to which an answer of the server got lost

serverVars == <<token, login, issued, ended>>
clientVars == <<cookie, stored, holder, access, call, lost>>
sessionVars == <<serverVars, clientVars>>

NoTab == "none"
Tokens == 1..MaxTokens
Idle == [kind |-> "none", step |-> "idle", token |-> 0]
Usable(i) == token[i] \in {"live", "expired"}

SessionsInit ==
    /\ token = [i \in Tokens |-> "none"]
    /\ login = [i \in Tokens |-> 0]
    /\ issued = 0
    /\ ended = {}
    /\ cookie = [b \in Browsers |-> 0]
    /\ stored = [b \in Browsers |-> FALSE]
    /\ holder = [b \in Browsers |-> NoTab]
    /\ access = [t \in Tabs |-> "none"]
    /\ call = [t \in Tabs |-> Idle]
    /\ lost = {}

Home(t) == BrowserOf[t]
Console(t) == Home(t) \in Consoles
At(t, step) == call[t].step = step
Goes(t, step) == call' = [call EXCEPT ![t].step = step]
Starts(t, kind, step) ==
    /\ At(t, "idle")
    /\ call' = [call EXCEPT ![t] = [kind |-> kind, step |-> step, token |-> cookie[Home(t)]]]

----------------------------------------------------------------------------
(* The server.                                                             *)

Ends(S) == ended' = ended \cup {login[i] : i \in {j \in S : Usable(j)}}
RevokeAll ==
    /\ token' = [i \in Tokens |-> IF Usable(i) THEN "revoked" ELSE token[i]]
    /\ Ends(Tokens)
    /\ UNCHANGED <<login, issued>>

(* A token that is no longer good is taken for a stolen one.               *)
RejectReuse(t) == RevokeAll /\ Goes(t, "reject")

Login(t) ==
    /\ At(t, "idle") /\ ~stored[Home(t)]
    /\ issued < MaxTokens
    /\ issued' = issued + 1
    /\ token' = [token EXCEPT ![issued'] = "live"]
    /\ login' = [login EXCEPT ![issued'] = issued']
    /\ call' = [call EXCEPT ![t] = [kind |-> "login", step |-> "answer", token |-> issued']]
    /\ UNCHANGED <<ended, cookie, stored, holder, access, lost>>

RefreshRead(t) ==
    LET i == call[t].token IN
    /\ At(t, "sent")
    /\ IF i = 0 THEN Goes(t, "reject") /\ UNCHANGED serverVars
       ELSE \/ token[i] = "live" /\ Goes(t, "rotate") /\ UNCHANGED serverVars
            \/ /\ token[i] = "expired"
               /\ token' = [token EXCEPT ![i] = "revoked"] /\ Ends({i})
               /\ Goes(t, "reject") /\ UNCHANGED <<login, issued>>
            \/ ~Usable(i) /\ RejectReuse(t)
    /\ UNCHANGED <<cookie, stored, holder, access, lost>>

(* A slip: the claim does not look at isRevoked again.                     *)
RotateAgain(i) ==
    /\ issued < MaxTokens
    /\ issued' = issued + 1
    /\ token' = [token EXCEPT ![i] = "rotated", ![issued'] = "live"]
    /\ login' = [login EXCEPT ![issued'] = login[i]]
    /\ UNCHANGED ended

(* The claim and the replacement are one transaction.                      *)
Rotate(i) ==
    /\ Usable(i)
    /\ issued < MaxTokens
    /\ issued' = issued + 1
    /\ token' = [token EXCEPT ![i] = "rotated", ![issued'] = "live"]
    /\ login' = [login EXCEPT ![issued'] = login[i]]
    /\ UNCHANGED ended

RefreshRotate(t) ==
    LET i == call[t].token IN
    /\ At(t, "rotate")
    /\ \/ /\ Rotate(i)
          /\ call' = [call EXCEPT ![t].step = "answer", ![t].token = issued']
       \/ ~Usable(i) /\ RejectReuse(t)
    /\ UNCHANGED <<cookie, stored, holder, access, lost>>

LogoutRead(t) ==
    LET i == call[t].token IN
    /\ At(t, "leave")
    /\ Goes(t, IF i # 0 /\ Usable(i) THEN "revoke" ELSE "left")
    /\ UNCHANGED <<serverVars, cookie, stored, holder, access, lost>>

LogoutRevoke(t) ==
    LET i == call[t].token IN
    /\ At(t, "revoke")
    /\ token' = [token EXCEPT ![i] = IF Usable(i) THEN "revoked" ELSE @]
    /\ Ends({i})
    /\ Goes(t, "left")
    /\ UNCHANGED <<login, issued, cookie, stored, holder, access, lost>>

(* A reset link used elsewhere, a password changed, an employee removed.   *)
EndAllSessions == RevokeAll /\ ended' # ended /\ UNCHANGED clientVars

Expire(i) ==
    /\ token[i] = "live"
    /\ token' = [token EXCEPT ![i] = "expired"]
    /\ UNCHANGED <<login, issued, ended, clientVars>>

----------------------------------------------------------------------------
(* The browser.                                                            *)

AccessExpires(t) ==
    /\ access[t] = "valid"
    /\ access' = [access EXCEPT ![t] = "expired"]
    /\ UNCHANGED <<serverVars, cookie, stored, holder, call, lost>>

(* A 401, or a token about to lapse: wait for the lock of the browser.     *)
Refresh(t) ==
    /\ access[t] = "expired"
    /\ Console(t) => stored[Home(t)]
    /\ Starts(t, "refresh", "wait")
    /\ UNCHANGED <<serverVars, cookie, stored, holder, access, lost>>

(* A slip: refreshes of two tabs are not serialised.                       *)
AcquireAnyway(t) ==
    LET b == Home(t) IN
    /\ At(t, "wait")
    /\ call' = [call EXCEPT ![t].step = "sent", ![t].token = cookie[b]]
    /\ holder' = [holder EXCEPT ![b] = t]
    /\ UNCHANGED <<serverVars, cookie, stored, access, lost>>

Acquire(t) ==
    LET b == Home(t) IN
    /\ At(t, "wait") /\ holder[b] = NoTab
    /\ IF Console(t) /\ ~stored[b]
       THEN call' = [call EXCEPT ![t] = Idle] /\ UNCHANGED holder
       ELSE /\ call' = [call EXCEPT ![t].step = "sent", ![t].token = cookie[b]]
            /\ holder' = [holder EXCEPT ![b] = t]
    /\ UNCHANGED <<serverVars, cookie, stored, access, lost>>

(* A page load.  The console restores under the lock, the storefront not.  *)
Reload(t) ==
    /\ stored[Home(t)]
    /\ access' = [access EXCEPT ![t] = "none"]
    /\ Starts(t, "restore", IF Console(t) THEN "wait" ELSE "sent")
    /\ UNCHANGED <<serverVars, cookie, stored, holder, lost>>

SignOut(t) ==
    LET b == Home(t) IN
    /\ stored[b]
    /\ Starts(t, "logout", "leave")
    /\ IF Console(t)
       THEN stored' = [stored EXCEPT ![b] = FALSE] /\ access' = [access EXCEPT ![t] = "none"]
       ELSE UNCHANGED <<stored, access>>
    /\ UNCHANGED <<serverVars, cookie, holder, lost>>

Ended(t) ==
    /\ call' = [call EXCEPT ![t] = Idle]
    /\ holder' = [holder EXCEPT ![Home(t)] = IF @ = t THEN NoTab ELSE @]

SetCookie(t, i) == cookie' = [cookie EXCEPT ![Home(t)] = i]

SaveSession(t) ==
    /\ access' = [access EXCEPT ![t] = "valid"]
    /\ stored' = [stored EXCEPT ![Home(t)] = @ \/ call[t].kind \in {"login", "restore"}]

ClearSession(t) ==
    /\ stored' = [stored EXCEPT ![Home(t)] = FALSE]
    /\ access' = [access EXCEPT ![t] = "none"]

TakeAnswer(t) ==
    /\ At(t, "answer")
    /\ SetCookie(t, call[t].token)
    /\ SaveSession(t) /\ Ended(t)
    /\ UNCHANGED <<serverVars, lost>>

(* The identity is dropped; the cookie that was refused stays.             *)
TakeReject(t) ==
    /\ At(t, "reject")
    /\ ClearSession(t) /\ Ended(t)
    /\ UNCHANGED <<serverVars, cookie, lost>>

TakeLogout(t) ==
    /\ At(t, "left")
    /\ SetCookie(t, 0)
    /\ ClearSession(t) /\ Ended(t)
    /\ UNCHANGED <<serverVars, lost>>

(* No answer, or a 5xx.  Only a storefront's restore takes it for an end;  *)
(* its sign-out ends the session in the browser in any case.               *)
LoseAnswer(t) ==
    /\ call[t].step \notin {"idle", "wait"}
    /\ lost' = lost \cup {Home(t)}
    /\ Ended(t)
    /\ IF call[t].kind \in {"restore", "logout"} /\ ~Console(t)
       THEN ClearSession(t) ELSE UNCHANGED <<stored, access>>
    /\ UNCHANGED <<serverVars, cookie>>

TabStep(t) ==
    \/ Login(t) \/ RefreshRead(t) \/ RefreshRotate(t) \/ LogoutRead(t) \/ LogoutRevoke(t)
    \/ AccessExpires(t) \/ Refresh(t) \/ Acquire(t) \/ Reload(t) \/ SignOut(t)
    \/ TakeAnswer(t) \/ TakeReject(t) \/ TakeLogout(t) \/ LoseAnswer(t)

SessionsStep == (\E t \in Tabs : TabStep(t)) \/ (\E i \in Tokens : Expire(i)) \/ EndAllSessions
SessionsSpec == SessionsInit /\ [][SessionsStep]_sessionVars

----------------------------------------------------------------------------
(* A session has exactly one token that can still be used, from its login  *)
(* until it is ended: racing rotations neither fork it nor lose it.        *)
OneTokenPerSession ==
    \A s \in {login[i] : i \in 1..issued} :
        Cardinality({i \in 1..issued : login[i] = s /\ Usable(i)}) = IF s \in ended THEN 0 ELSE 1

(* A console that refreshes under the lock never holds on to a token it    *)
(* has already exchanged, which the server would take for a stolen one,    *)
(* unless an answer got lost on the way.                                   *)
ConsoleIsCurrent ==
    \A b \in Consoles \ lost :
        holder[b] = NoTab /\ cookie[b] # 0 => token[cookie[b]] # "rotated"

(* A token that was just exchanged, and whose replacement has not reached  *)
(* its browser, may be presented again without ending the sessions.        *)
JustRotated(i) ==
    /\ token[i] = "rotated"
    /\ \A j \in 1..issued : login[j] = login[i] /\ Usable(j) => \A b \in Browsers : cookie[b] # j

RaceIsBenign ==
    [][\A t \in Tabs :
        /\ call[t].kind \in {"refresh", "restore"} /\ call'[t].step = "reject"
        /\ call[t].token # 0 /\ call[t].step \in {"sent", "rotate"}
        /\ JustRotated(call[t].token)
        => ended' = ended]_sessionVars
=============================================================================
