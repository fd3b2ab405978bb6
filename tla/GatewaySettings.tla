--------------------------- MODULE GatewaySettings ---------------------------
(***************************************************************************)
(* The payment switches: one row with the gateway's key pair and the       *)
(* switches, a mirror of the cash switch in the general settings, and a    *)
(* copy of the credentials in each server.  A save merges what the form    *)
(* showed with what the row holds, then writes row, mirror and copy in     *)
(* three steps.                                                            *)
(***************************************************************************)
EXTENDS Naturals, FiniteSets

CONSTANTS
    Pairs,      \* key pairs issued by the gateway; a key and its secret share the name
    Servers,    \* processes, each with its copy
    Forms       \* open payment forms of the console

NoPair == "none"

VARIABLES
    gateway,    \* the row; its secret is the name of the pair it belongs to
    codSetting, \* shipping_cod_enabled: "unset", "on" or "off"
    session,    \* per server: the cached credentials
    reading,    \* per server: a row read and not cached yet
    form,       \* per form: what it showed, and the save under way
    behind,     \* history: servers whose copy is older than the row for a reason that is accepted
    mixed,      \* history: saves overlapped, one stopped half-way, or the mirror was edited alone
    halved      \* history: the last save to name a key or a secret did not name a pair

gatewayVars == <<gateway, codSetting, session, reading, form, behind, mixed, halved>>

Unsaved == [there |-> FALSE, online |-> FALSE, key |-> NoPair, secret |-> NoPair, cod |-> TRUE]
NoSession == [held |-> FALSE, row |-> Unsaved]
Closed == [step |-> "closed", at |-> "none", row |-> Unsaved, names |-> "nothing", stale |-> FALSE]

GatewayInit ==
    /\ gateway = Unsaved
    /\ codSetting = "unset"
    /\ session = [i \in Servers |-> NoSession]
    /\ reading = [i \in Servers |-> NoSession]
    /\ form = [f \in Forms |-> Closed]
    /\ behind = {}
    /\ mixed = FALSE
    /\ halved = FALSE

AsSetting(cod) == IF cod THEN "on" ELSE "off"

OpenForm(f) ==
    /\ form[f].step = "closed"
    /\ form' = [form EXCEPT ![f] = [Closed EXCEPT !.step = "open", !.row = gateway]]
    /\ UNCHANGED <<gateway, codSetting, session, reading, behind, mixed, halved>>

(* A slip of updateSettings: the mask is stored as if it were a secret,    *)
(* and belongs to no pair.                                                 *)
StoresMask(key, secret, online, cod) ==
    [there |-> TRUE, online |-> online, cod |-> cod, key |-> key, secret |-> secret]

(* The form sends the key it shows, changed, cleared or not; a masked      *)
(* secret keeps the stored one.                                            *)
Merged(key, secret, online, cod) ==
    [there |-> TRUE, online |-> online, cod |-> cod, key |-> key,
     secret |-> IF secret = NoPair THEN gateway.secret ELSE secret]

(* What a save names: a pair, or a key or secret without its other half.   *)
Names(f, key, secret) ==
    IF secret = NoPair THEN (IF key = form[f].row.key THEN "nothing" ELSE "half")
    ELSE IF key = secret THEN "pair" ELSE "half"

Submit(f, i, key, secret, online, cod) ==
    LET row == Merged(key, secret, online, cod) IN
    /\ form[f].step = "open"
    /\ online => row.key # NoPair /\ row.secret # NoPair
    /\ form' = [form EXCEPT ![f].step = "row", ![f].at = i, ![f].row = row, ![f].names = Names(f, key, secret)]
    /\ UNCHANGED <<gateway, codSetting, session, reading, behind, mixed, halved>>

SaveRow(f) ==
    /\ form[f].step = "row"
    /\ gateway' = form[f].row
    /\ form' = [g \in Forms |-> IF g = f THEN [form[f] EXCEPT !.step = "mirror"]
                                ELSE [form[g] EXCEPT !.stale = form[g].step # "closed"]]
    /\ mixed' = (mixed \/ form[f].stale)
    /\ halved' = IF form[f].names = "nothing" THEN halved ELSE form[f].names = "half"
    /\ behind' = behind \cup {j \in Servers \ {form[f].at} : session[j].held}
    /\ UNCHANGED <<codSetting, session, reading>>

MirrorOnlyCash(f) ==
    /\ form[f].step = "mirror"
    /\ codSetting' = IF form[f].row.cod THEN "on" ELSE codSetting
    /\ form' = [form EXCEPT ![f].step = "clear"]
    /\ UNCHANGED <<gateway, session, reading, behind, mixed, halved>>

(* Another save may have come between.                                     *)
MirrorCod(f) ==
    /\ form[f].step = "mirror"
    /\ codSetting' = AsSetting(form[f].row.cod)
    /\ form' = [form EXCEPT ![f].step = "clear"]
    /\ mixed' = (mixed \/ form[f].stale)
    /\ UNCHANGED <<gateway, session, reading, behind, halved>>

ClearCredentialCache(f) ==
    /\ form[f].step = "clear"
    /\ session' = [session EXCEPT ![form[f].at] = NoSession]
    /\ behind' = behind \ {form[f].at}
    /\ form' = [form EXCEPT ![f] = Closed]
    /\ UNCHANGED <<gateway, codSetting, reading, mixed, halved>>

(* The form is left, a save is refused or fails, or the server stops.      *)
SaveEnds(f) ==
    /\ form[f].step # "closed"
    /\ mixed' = (mixed \/ form[f].step \in {"mirror", "clear"})
    /\ form' = [form EXCEPT ![f] = Closed]
    /\ UNCHANGED <<gateway, codSetting, session, reading, behind, halved>>

(* The settings page writes the same key, without the row.                 *)
UpsertSetting(cod) ==
    /\ codSetting # AsSetting(cod)
    /\ codSetting' = AsSetting(cod)
    /\ mixed' = TRUE
    /\ UNCHANGED <<gateway, session, reading, form, behind, halved>>

(* A row that cannot be read or decrypted falls back to the environment,   *)
(* taken here to hold no credentials.                                      *)
ResolveRead(i, row) ==
    /\ ~session[i].held /\ ~reading[i].held
    /\ row \in {gateway, Unsaved}
    /\ reading' = [reading EXCEPT ![i] = [held |-> TRUE, row |-> row]]
    /\ UNCHANGED <<gateway, codSetting, session, form, behind, mixed, halved>>

ResolveCache(i) ==
    /\ reading[i].held
    /\ session' = [session EXCEPT ![i] = reading[i]]
    /\ reading' = [reading EXCEPT ![i] = NoSession]
    /\ behind' = IF reading[i].row = gateway THEN behind \ {i} ELSE behind \cup {i}
    /\ UNCHANGED <<gateway, codSetting, form, mixed, halved>>

SessionExpires(i) ==
    /\ session[i].held
    /\ session' = [session EXCEPT ![i] = NoSession]
    /\ behind' = behind \ {i}
    /\ UNCHANGED <<gateway, codSetting, reading, form, mixed, halved>>

(* What the storefront is told, and what the checkout enforces: they       *)
(* differ before the first save.                                           *)
CodOffered == IF codSetting = "unset" THEN gateway.cod ELSE codSetting = "on"
CodAccepted == IF codSetting = "unset" THEN gateway.there /\ gateway.cod ELSE codSetting = "on"

OnlineAllowed(i) ==
    /\ session[i].held
    /\ session[i].row.online /\ session[i].row.key # NoPair /\ session[i].row.secret # NoPair

GatewayStep ==
    \/ \E f \in Forms :
        \/ OpenForm(f) \/ SaveRow(f) \/ MirrorCod(f) \/ ClearCredentialCache(f) \/ SaveEnds(f)
        \/ \E i \in Servers, key, secret \in Pairs \cup {NoPair}, online, cod \in BOOLEAN : Submit(f, i, key, secret, online, cod)
    \/ \E cod \in BOOLEAN : UpsertSetting(cod)
    \/ \E i \in Servers : ResolveCache(i) \/ SessionExpires(i) \/ \E row \in {gateway, Unsaved} : ResolveRead(i, row)

GatewaySpec == GatewayInit /\ [][GatewayStep]_gatewayVars

-----------------------------------------------------------------------------
Saving == \E f \in Forms : form[f].step \in {"mirror", "clear"}

(* When no save is under way and none overlapped or stopped half-way, cash *)
(* is accepted as the saved payment settings say, and not before the first *)
(* save; and a server allows online payment as the row says, unless        *)
(* another server saved the row or it was read before the save and cached  *)
(* after.  The row then holds a key and its own secret, provided the last  *)
(* save that named either named both: a save may change or clear the key   *)
(* and keep the masked secret, or the reverse, and online payment stays    *)
(* enabled with halves of two pairs until the other half is saved.         *)
SwitchesAreHonoured ==
    mixed \/ Saving \/
        /\ CodAccepted = (gateway.there /\ gateway.cod)
        /\ gateway.there => CodOffered = CodAccepted
        /\ halved \/ gateway.key = gateway.secret
        /\ \A i \in Servers : session[i].held /\ i \notin behind => OnlineAllowed(i) = gateway.online
=============================================================================
