------------------------------ MODULE Passwords ------------------------------
(***************************************************************************)
(* The password of one active account: signing in, reset links, changing   *)
(* it, and an administrator's reset.  Every operation reads, hashes for a  *)
(* while, and then writes without looking again.                           *)
(***************************************************************************)
EXTENDS Naturals, FiniteSets

CONSTANTS
    Phrases,        \* passwords
    Links,          \* reset links that may be mailed
    AuthRequests    \* requests that may be under way at once

VARIABLES
    isStaff,    \* the role: staff do not change their password themselves
    password,   \* the hash: what it was made of, and whether it is a legacy one
    sessions,   \* kinds of session alive: the password shown, and whether it was replaced meanwhile
    link,       \* per link: its row, and how many passwords it has set
    auth,       \* per request: its next step and what it has read
    lastSet,    \* history: the password set last
    crossed     \* history: requests that overlapped in a way nothing guards against

passwordVars == <<isStaff, password, sessions, link, auth, lastSet, crossed>>

AtRest == [step |-> "idle", phrase |-> "none", legacy |-> FALSE, link |-> "none",
           stale |-> FALSE, overlaps |-> FALSE]

PasswordsInit ==
    /\ isStaff \in BOOLEAN
    /\ \E p \in Phrases, legacy \in BOOLEAN : password = [phrase |-> p, legacy |-> legacy]
    /\ sessions = {}
    /\ link = [l \in Links |-> [row |-> "none", uses |-> 0]]
    /\ auth = [q \in AuthRequests |-> AtRest]
    /\ lastSet = password.phrase
    /\ crossed = {}

Stage(q, step) == auth[q].step = step

(* A request begins; those of Same are doing the same thing.               *)
Opens(q, r, Same) ==
    /\ Stage(q, "idle")
    /\ auth' = [o \in AuthRequests |->
                  CASE o = q -> [r EXCEPT !.overlaps = Same # {}]
                    [] o \in Same -> [auth[o] EXCEPT !.overlaps = TRUE]
                    [] OTHER -> auth[o]]

Crosses(q, what) == crossed' = IF auth[q].overlaps THEN crossed \cup {what} ELSE crossed

(* The row is written; everyone who has read it is out of date.            *)
Sets(q, p, next) ==
    /\ password' = [phrase |-> p, legacy |-> FALSE]
    /\ lastSet' = p
    /\ auth' = [o \in AuthRequests |-> IF o = q THEN next ELSE [auth[o] EXCEPT !.stale = ~Stage(o, "idle")]]

-----------------------------------------------------------------------------
(* login: the row is read and the password compared; a wrong one leaves    *)
(* nothing but a failed attempt.                                           *)
LoginRead(q) ==
    /\ Opens(q, [AtRest EXCEPT !.step = "login", !.phrase = password.phrase,
                                !.legacy = password.legacy], {})
    /\ UNCHANGED <<isStaff, password, sessions, link, lastSet, crossed>>

(* A legacy hash is replaced by a new one of the password shown.           *)
LoginUpgrade(q) ==
    /\ Stage(q, "login") /\ auth[q].legacy
    /\ password' = [phrase |-> auth[q].phrase, legacy |-> FALSE]
    /\ auth' = [auth EXCEPT ![q].legacy = FALSE]
    /\ crossed' = IF auth[q].stale THEN crossed \cup {"upgrade"} ELSE crossed
    /\ UNCHANGED <<isStaff, sessions, link, lastSet>>

LoginMint(q) ==
    /\ Stage(q, "login") /\ ~auth[q].legacy
    /\ sessions' = sessions \cup {[under |-> auth[q].phrase, late |-> auth[q].stale]}
    /\ auth' = [auth EXCEPT ![q] = AtRest]
    /\ UNCHANGED <<isStaff, password, link, lastSet, crossed>>

(* A session expires or signs out; others of its kind may go on.           *)
SessionEnds(s) ==
    /\ s \in sessions
    /\ sessions' = sessions \ {s}
    /\ UNCHANGED <<isStaff, password, link, auth, lastSet, crossed>>

(* requestPasswordReset takes the unused links back ...                    *)
LinkInvalidate(q) ==
    /\ Opens(q, [AtRest EXCEPT !.step = "issue"], {o \in AuthRequests : Stage(o, "issue")})
    /\ link' = [l \in Links |-> [link[l] EXCEPT !.row = IF @ = "usable" THEN "used" ELSE @]]
    /\ UNCHANGED <<isStaff, password, sessions, lastSet, crossed>>

(* ... and issues one.                                                     *)
LinkIssue(q, l) ==
    /\ Stage(q, "issue") /\ link[l].row = "none"
    /\ link' = [link EXCEPT ![l].row = "usable"]
    /\ Crosses(q, "issue")
    /\ auth' = [auth EXCEPT ![q] = AtRest]
    /\ UNCHANGED <<isStaff, password, sessions, lastSet>>

LinkExpires(l) ==
    /\ link[l].row = "usable"
    /\ link' = [link EXCEPT ![l].row = "used"]
    /\ UNCHANGED <<isStaff, password, sessions, auth, lastSet, crossed>>

(* resetPassword looks at the link ...                                     *)
ResetRead(q, l) ==
    /\ link[l].row = "usable"
    /\ Opens(q, [AtRest EXCEPT !.step = "reset", !.link = l],
              {o \in AuthRequests : Stage(o, "reset") /\ auth[o].link = l})
    /\ UNCHANGED <<isStaff, password, sessions, link, lastSet, crossed>>

(* A slip of resetPassword: the sessions go on.                            *)
ResetKeepsSessions(q, p) ==
    /\ Stage(q, "reset")
    /\ Sets(q, p, AtRest)
    /\ link' = [link EXCEPT ![auth[q].link] = [row |-> "used", uses |-> @.uses + 1]]
    /\ Crosses(q, "reset")
    /\ UNCHANGED <<isStaff, sessions>>

(* ... and, in one transaction, sets the password, marks the link used and *)
(* ends all sessions.                                                      *)
ResetWrite(q, p) ==
    /\ Stage(q, "reset")
    /\ Sets(q, p, AtRest)
    /\ link' = [link EXCEPT ![auth[q].link] = [row |-> "used", uses |-> @.uses + 1]]
    /\ sessions' = {}
    /\ Crosses(q, "reset")
    /\ UNCHANGED isStaff

(* changePassword compares the current password ...                        *)
ChangeLook(q) ==
    /\ ~isStaff
    /\ Opens(q, [AtRest EXCEPT !.step = "change", !.phrase = password.phrase], {})
    /\ UNCHANGED <<isStaff, password, sessions, link, lastSet, crossed>>

ChangePassword(q, p) ==
    /\ Stage(q, "change") /\ p # auth[q].phrase
    /\ Sets(q, p, AtRest)
    /\ sessions' = {}
    /\ UNCHANGED <<isStaff, link, crossed>>

(* resetStaffPassword sets the password, and ends the sessions in a second *)
(* write.                                                                  *)
StaffSet(q, p) ==
    /\ isStaff /\ Stage(q, "idle")
    /\ Sets(q, p, [AtRest EXCEPT !.step = "revoke"])
    /\ UNCHANGED <<isStaff, sessions, link, crossed>>

StaffRevoke(q) ==
    /\ Stage(q, "revoke")
    /\ sessions' = {}
    /\ auth' = [auth EXCEPT ![q] = AtRest]
    /\ UNCHANGED <<isStaff, password, link, lastSet, crossed>>

(* A request fails or its process stops.                                   *)
RequestDies(q) ==
    /\ ~Stage(q, "idle")
    /\ auth' = [auth EXCEPT ![q] = AtRest]
    /\ crossed' = IF Stage(q, "revoke") THEN crossed \cup {"revoke"} ELSE crossed
    /\ UNCHANGED <<isStaff, password, sessions, link, lastSet>>

PasswordsStep ==
    \/ \E s \in sessions : SessionEnds(s)
    \/ \E l \in Links : LinkExpires(l)
    \/ \E q \in AuthRequests :
        \/ LoginRead(q) \/ LoginUpgrade(q) \/ LoginMint(q) \/ LinkInvalidate(q)
        \/ ChangeLook(q) \/ StaffRevoke(q) \/ RequestDies(q)
        \/ \E l \in Links : LinkIssue(q, l) \/ ResetRead(q, l)
        \/ \E p \in Phrases : ResetWrite(q, p) \/ ChangePassword(q, p) \/ StaffSet(q, p)

PasswordsSpec == PasswordsInit /\ [][PasswordsStep]_passwordVars

-----------------------------------------------------------------------------
SessionsKnowThePassword ==
    \/ {"upgrade", "revoke"} \cap crossed # {}
    \/ \E q \in AuthRequests : Stage(q, "revoke")
    \/ \A s \in sessions : s.late \/ s.under = password.phrase

LastOneCounts == "upgrade" \in crossed \/ password.phrase = lastSet

OneLink ==
    /\ "issue" \in crossed \/ Cardinality({l \in Links : link[l].row = "usable"}) <= 1
    /\ "reset" \in crossed \/ \A l \in Links : link[l].uses <= 1

(* A session belongs to someone who showed the present password, the       *)
(* password is the one set last, one reset link works and sets one         *)
(* password - except for a login that overlaps the change, the upgrade of  *)
(* a legacy hash across it, requests or uses of links that overlap, and a  *)
(* staff reset cut off before its second write.                            *)
PasswordsHold == SessionsKnowThePassword /\ LastOneCounts /\ OneLink
=============================================================================
