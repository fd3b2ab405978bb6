-------------------------------- MODULE Staff --------------------------------
(***************************************************************************)
(* The accounts of the people who run the shop: their roles, whether they  *)
(* may sign in, and the per-user permissions that replace their role's.    *)
(* A handler reads the actor and the account, checks ranks, and writes     *)
(* later in a transaction that checks nothing again.                       *)
(***************************************************************************)
EXTENDS Naturals, FiniteSets

CONSTANTS
    People, Owners,     \* everybody who may get an account, and who has one at first
    Slugs, RoleSlugs,   \* permissions, and those the STAFF role brings
    Manage,             \* the permission the staff desk asks of a STAFF account
    StaffRequests

ASSUME StaffAssumption ==
    /\ IsFiniteSet(People) /\ Owners \subseteq People /\ Owners # {}
    /\ RoleSlugs \subseteq Slugs /\ Manage \in Slugs

VARIABLES
    role,       \* per person
    standing,   \* per person: whether the account exists and may sign in
    grant,      \* rows of user_permissions
    asked,      \* the permission set last written for a person, if any
    staffReq    \* requests between their reads and their transaction

staffVars == <<role, standing, grant, asked, staffReq>>

ConsoleRoles == {"OWNER", "ADMIN", "STAFF"}
Roles == ConsoleRoles \cup {"CUSTOMER"}
EveryPermission == {"OWNER", "ADMIN"}
Rank(r) == CASE r = "OWNER" -> 3 [] r = "ADMIN" -> 2 [] r = "STAFF" -> 1 [] OTHER -> 0
Unset == {"unset"}
Free == [kind |-> "free"]

StaffInit ==
    /\ role = [u \in People |-> IF u \in Owners THEN "OWNER" ELSE "NONE"]
    /\ standing = [u \in People |-> IF u \in Owners THEN "active" ELSE "absent"]
    /\ grant = [u \in People |-> [s \in Slugs |-> "none"]]
    /\ asked = [u \in People |-> Unset]
    /\ staffReq = [d \in StaffRequests |-> Free]

Granted(u) == {s \in Slugs : grant[u][s] = "granted"}
Overridden(u) == \E s \in Slugs : grant[u][s] # "none"

(* What the CUSTOMER role brings opens nothing here: the console asks for  *)
(* a role before it asks for a permission.                                 *)
Permissions(u) ==
    IF role[u] \in EveryPermission THEN Slugs
    ELSE IF Overridden(u) THEN Granted(u) ELSE RoleSlugs

Exists(u) == standing[u] \in {"active", "inactive"}
Desk == {a \in People : standing[a] = "active" /\ role[a] \in ConsoleRoles /\ Manage \in Permissions(a)}
CanReach(a, u) == a = u \/ Rank(role[u]) < Rank(role[a])
CanAssign(a, r) == Rank(r) < Rank(role[a]) \/ (role[a] = "OWNER" /\ r = "OWNER")
ActiveOwners == {u \in People : role[u] = "OWNER" /\ standing[u] = "active"}

(* Somebody else's account and a free set of permissions.                  *)
CanGrant(a, u, set) == a # u /\ (Rank(role[a]) >= 2 \/ set \subseteq Permissions(a))

Begins(d, r) == staffReq' = [staffReq EXCEPT ![d] = r]
Finishes(d) == staffReq' = [staffReq EXCEPT ![d] = Free]

(* Of any role below the actor's own, and suspended from the start if asked. *)
CreateStaff(a, u, r, s, set) ==
    /\ standing[u] = "absent" /\ CanAssign(a, r)
    /\ set # {} => r \notin EveryPermission /\ CanGrant(a, u, set)
    /\ role' = [role EXCEPT ![u] = r]
    /\ standing' = [standing EXCEPT ![u] = s]
    /\ grant' = [grant EXCEPT ![u] = [g \in Slugs |-> IF g \in set THEN "granted" ELSE "none"]]
    /\ asked' = [asked EXCEPT ![u] = IF set = {} THEN Unset ELSE set]
    /\ UNCHANGED staffReq

(* A slip: the count includes owners who are disabled.                     *)
KeepsSomeOwner(u) == role[u] # "OWNER" \/ Cardinality({v \in People : role[v] = "OWNER"}) > 1

(* Prevent disabling the only active OWNER.                                *)
KeepsAnOwner(u) == role[u] # "OWNER" \/ Cardinality(ActiveOwners) > 1

UpdateStaffRead(d, a, u, r, s) ==
    /\ Exists(u) /\ CanReach(a, u)
    /\ r # "keep" => CanAssign(a, r) /\ (a = u => r = role[u])
    /\ s = "inactive" => KeepsAnOwner(u)
    /\ Begins(d, [kind |-> "update", user |-> u, role |-> r, standing |-> s])
    /\ UNCHANGED <<role, standing, grant, asked>>

UpdateStaffWrite(d) ==
    /\ staffReq[d].kind = "update"
    /\ role' = [role EXCEPT ![staffReq[d].user] =
                    IF staffReq[d].role = "keep" THEN @ ELSE staffReq[d].role]
    /\ standing' = [standing EXCEPT ![staffReq[d].user] =
                        IF @ = "deleted" \/ staffReq[d].standing = "keep" THEN @
                        ELSE staffReq[d].standing]
    /\ Finishes(d)
    /\ UNCHANGED <<grant, asked>>

DeleteStaffRead(d, a, u) ==
    /\ Exists(u) /\ a # u /\ CanReach(a, u) /\ KeepsAnOwner(u)
    /\ Begins(d, [kind |-> "delete", user |-> u])
    /\ UNCHANGED <<role, standing, grant, asked>>

DeleteStaffWrite(d) ==
    /\ staffReq[d].kind = "delete"
    /\ standing' = [standing EXCEPT ![staffReq[d].user] = "deleted"]
    /\ Finishes(d)
    /\ UNCHANGED <<role, grant, asked>>

(* An empty set is refused where nothing is stored yet.                    *)
GrantRead(d, a, u, set) ==
    /\ Exists(u) /\ a # u /\ CanReach(a, u)
    /\ role[u] \notin EveryPermission
    /\ IF set = {} THEN Overridden(u) ELSE CanGrant(a, u, set)
    /\ Begins(d, [kind |-> "grant", user |-> u, set |-> set, seen |-> grant[u]])
    /\ UNCHANGED <<role, standing, grant, asked>>

(* What becomes of a row that was read as seen.  Revoked rows stay.        *)
Regrant(seen, s, set, now) ==
    IF s \in set THEN IF seen = "granted" THEN now ELSE "granted"
    ELSE IF seen = "granted" THEN "revoked" ELSE now

(* A slip: a row counts as held although it was revoked.                   *)
RegrantMissing(seen, s, set, now) ==
    IF s \in set THEN IF seen = "none" THEN "granted" ELSE now
    ELSE IF seen = "granted" THEN "revoked" ELSE now

(* A slip: only missing rows are added.                                    *)
RewriteMissing(rows, q) == [s \in Slugs |-> RegrantMissing(q.seen[s], s, q.set, rows[s])]

RewriteGrants(rows, q) == [s \in Slugs |-> Regrant(q.seen[s], s, q.set, rows[s])]

GrantWrite(d) ==
    LET q == staffReq[d] IN
    /\ q.kind = "grant"
    /\ \A s \in q.set : q.seen[s] = "none" => grant[q.user][s] = "none"
    /\ grant' = [grant EXCEPT ![q.user] = RewriteGrants(@, q)]
    /\ asked' = [asked EXCEPT ![q.user] = q.set]
    /\ Finishes(d)
    /\ UNCHANGED <<role, standing>>

StaffStep ==
    \/ \E a \in Desk, u \in People, r \in Roles, s \in {"active", "inactive"}, set \in SUBSET Slugs :
            CreateStaff(a, u, r, s, set)
    \/ \E d \in StaffRequests :
        \/ UpdateStaffWrite(d) \/ DeleteStaffWrite(d) \/ GrantWrite(d)
        \/ staffReq[d] = Free /\ \E a \in Desk, u \in People :
            \/ \E r \in Roles \cup {"keep"}, s \in {"active", "inactive", "keep"} : UpdateStaffRead(d, a, u, r, s)
            \/ DeleteStaffRead(d, a, u)
            \/ \E set \in SUBSET Slugs : GrantRead(d, a, u, set)

StaffSpec == StaffInit /\ [][StaffStep]_staffVars

----------------------------------------------------------------------------
(* Somebody can always run the platform: whatever is created, promoted,    *)
(* disabled and deleted, one at a time, an active owner remains.           *)
OwnerRemains == ActiveOwners # {}

(* What an account may do is what it was last given: rows that come, go    *)
(* and come again, promotions and returns to a role leave nothing behind.  *)
GrantsAreAsAsked ==
    \A u \in People :
        asked[u] # Unset /\ role[u] \notin EveryPermission => Permissions(u) = asked[u]

(* The accounts: somebody is in charge, and everybody may do what was      *)
(* asked for.                                                              *)
StaffHolds == OwnerRemains /\ GrantsAreAsAsked
=============================================================================
