------------------------------ MODULE Addresses ------------------------------
(***************************************************************************)
(* One customer's address book (services/address.service.ts): creating,    *)
(* editing, soft-deleting addresses and choosing the default, each a look  *)
(* at the book and a transaction that rewrites the default flags.  A later *)
(* address has a larger number.                                            *)
(***************************************************************************)
EXTENDS Naturals, FiniteSets, FiniteSetsExt

CONSTANTS
    MaxAddresses,       \* bound of the model: addresses ever created
    AddressRequests     \* requests the server handles at a time

ASSUME AddressesAssumption == MaxAddresses \in Nat

VARIABLES
    created,        \* how many addresses there have been
    live,           \* addresses whose isDeleted is false
    default,        \* addresses whose isDefault is true
    addrReq         \* requests between their look and their transaction

addressVars == <<created, live, default, addrReq>>

IdleAddrReq == [kind |-> "idle", address |-> 0, flag |-> FALSE]

AddressTypeOK ==
    /\ created \in 0..MaxAddresses
    /\ live \subseteq 1..created
    /\ default \subseteq 1..created
    /\ \A r \in AddressRequests :
        /\ addrReq[r].kind \in {"idle", "create", "update", "delete", "setDefault"}
        /\ addrReq[r].address \in 0..created
        /\ addrReq[r].flag \in BOOLEAN

AddressInit ==
    /\ created = 0 /\ live = {} /\ default = {}
    /\ addrReq = [r \in AddressRequests |-> IdleAddrReq]

AddrServing(r, kind) == addrReq[r].kind = kind

AddrDone(r) == addrReq' = [addrReq EXCEPT ![r] = IdleAddrReq]

Look(r, kind, a, flag) ==
    /\ addrReq[r].kind = "idle"
    /\ addrReq' = [addrReq EXCEPT ![r] = [kind |-> kind, address |-> a, flag |-> flag]]
    /\ UNCHANGED <<created, live, default>>

----------------------------------------------------------------------------

(* createAddress: the first address of the book is the default, another    *)
(* one if the customer says so.                                            *)
CreateLook(r, wanted) == Look(r, "create", 0, wanted \/ live = {})

(* A new default demotes every other live address.                         *)
CreateWrite(r) ==
    /\ AddrServing(r, "create") /\ created < MaxAddresses
    /\ created' = created + 1
    /\ live' = live \cup {created + 1}
    /\ default' = IF addrReq[r].flag THEN (default \ live) \cup {created + 1} ELSE default
    /\ AddrDone(r)

UpdateLook(r, a, flag) == a \in live /\ Look(r, "update", a, flag)

(* updateAddress: isDefault demotes the others when true, and may be taken *)
(* from the default address.                                               *)
UpdateWrite(r) ==
    /\ AddrServing(r, "update")
    /\ LET a == addrReq[r].address IN
        default' = IF addrReq[r].flag THEN (default \ live) \cup {a} ELSE default \ {a}
    /\ AddrDone(r)
    /\ UNCHANGED <<created, live>>

(* deleteAddress remembers whether the address was the default.            *)
DeleteLook(r, a) == a \in live /\ Look(r, "delete", a, a \in default)

(* A slip of deleteAddress: nobody is promoted.                            *)
DeleteWithoutHeir(r) ==
    /\ AddrServing(r, "delete")
    /\ live' = live \ {addrReq[r].address}
    /\ default' = default \ {addrReq[r].address}
    /\ AddrDone(r)
    /\ UNCHANGED created

(* The address goes, and the newest of the others takes over its flag.     *)
DeleteWrite(r) ==
    /\ AddrServing(r, "delete")
    /\ LET others == live \ {addrReq[r].address}
           heir == IF addrReq[r].flag /\ others # {} THEN {Max(others)} ELSE {}
       IN  /\ live' = others
           /\ default' = (default \ {addrReq[r].address}) \cup heir
    /\ AddrDone(r)
    /\ UNCHANGED created

SetDefaultLook(r, a) == a \in live /\ Look(r, "setDefault", a, TRUE)

(* setDefaultAddress demotes every live address and promotes this one.     *)
SetDefaultWrite(r) ==
    /\ AddrServing(r, "setDefault")
    /\ default' = (default \ live) \cup {addrReq[r].address}
    /\ AddrDone(r)
    /\ UNCHANGED <<created, live>>

AddressStep ==
    \E r \in AddressRequests :
        \/ \E flag \in BOOLEAN : \/ CreateLook(r, flag)
                                 \/ \E a \in live : UpdateLook(r, a, flag)
        \/ \E a \in live : DeleteLook(r, a) \/ SetDefaultLook(r, a)
        \/ CreateWrite(r) \/ UpdateWrite(r) \/ DeleteWrite(r) \/ SetDefaultWrite(r)

AddressSpec == AddressInit /\ [][AddressStep]_addressVars

----------------------------------------------------------------------------

(* As long as the customer's requests come one after the other, every one  *)
(* of them leaves one default address at most, and one that is in the      *)
(* book; deleting the default hands the flag on while others are left.     *)
OneDefault ==
    [][/\ Cardinality(default') <= 1 /\ default' \subseteq live'
       /\ (live' # live /\ live' \subseteq live /\ live' # {}
           => (default \cap live # {} => default' \cap live' # {}))]_addressVars
=============================================================================
