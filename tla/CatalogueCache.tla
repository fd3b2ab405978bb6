--------------------------- MODULE CatalogueCache ---------------------------
(***************************************************************************)
(* The read-through cache in front of the catalogue.  A miss reads the     *)
(* database and writes the answer with a time to live; an edit commits     *)
(* first and clears every prefix afterwards.  Any command to the cache may *)
(* fail, or run late: the client queues commands while it reconnects, and  *)
(* the caller gives up after REDIS_COMMAND_TIMEOUT_MS.                     *)
(***************************************************************************)
EXTENDS Naturals

CONSTANTS
    Views,          \* cached reads, one for each prefix
    Ttl,            \* CACHE_TTL_SECONDS in ticks, for each view
    Visitors, Desks,\* readers that may miss at once; edits that may clear at once
    MaxChanges      \* bound on the changes of the catalogue

ASSUME CatalogueCacheAssumption == Ttl \in [Views -> Nat \ {0}]

VARIABLES
    version,    \* the catalogue in the database: how often it has changed
    entry,      \* the cache; late: what it holds was superseded before it was written
    fill,       \* visitors between a miss and the write of what they read
    clearing,   \* edits between commit and the last prefix
    cleared     \* history: the newest version for which a view's prefix was cleared

cacheVars == <<version, entry, fill, clearing, cleared>>

NoEntry == [there |-> FALSE, version |-> 0, left |-> 0, stale |-> 0, late |-> FALSE]
NoFill == [view |-> "none", version |-> 0]
NotClearing == [version |-> 0, views |-> {}]

CacheInit ==
    /\ version = 1
    /\ entry = [k \in Views |-> NoEntry]
    /\ fill = [v \in Visitors |-> NoFill]
    /\ clearing = [d \in Desks |-> NotClearing]
    /\ cleared = [k \in Views |-> 0]

(* A miss, or a command that failed, ends in a read of the database; a hit *)
(* changes nothing.                                                        *)
Miss(v, k) ==
    /\ fill[v] = NoFill
    /\ fill' = [fill EXCEPT ![v] = [view |-> k, version |-> version]]
    /\ UNCHANGED <<version, entry, clearing, cleared>>

PutWithoutEnd(k, n) == [there |-> TRUE, version |-> n, left |-> 2 * Ttl[k], stale |-> 0, late |-> n < version]

Put(k, n) == [there |-> TRUE, version |-> n, left |-> Ttl[k], stale |-> 0, late |-> n < version]

CacheSet(v) ==
    LET k == fill[v].view IN
    /\ fill[v] # NoFill
    /\ entry' = [entry EXCEPT ![k] = Put(k, fill[v].version)]
    /\ fill' = [fill EXCEPT ![v] = NoFill]
    /\ UNCHANGED <<version, clearing, cleared>>

FillIsLost(v) ==
    /\ fill[v] # NoFill
    /\ fill' = [fill EXCEPT ![v] = NoFill]
    /\ UNCHANGED <<version, entry, clearing, cleared>>

(* An administrator's edit of products, categories, images or stock.       *)
CommitEdit(d) ==
    /\ clearing[d] = NotClearing /\ version < MaxChanges
    /\ version' = version + 1
    /\ clearing' = [clearing EXCEPT ![d] = [version |-> version + 1, views |-> Views]]
    /\ UNCHANGED <<entry, fill, cleared>>

(* A checkout moves Product.stock, which the payloads show, and clears     *)
(* nothing.                                                                *)
CheckoutTakesStock ==
    /\ version < MaxChanges
    /\ version' = version + 1
    /\ UNCHANGED <<entry, fill, clearing, cleared>>

WithoutPrefix(d, k) ==
    LET left == clearing[d].views \ {k}
    IN  [clearing EXCEPT ![d] = IF left = {} THEN NotClearing ELSE [version |-> @.version, views |-> left]]

Cleared(k) == [entry EXCEPT ![k] = NoEntry]

CacheDeleteByPrefix(d, k) ==
    /\ k \in clearing[d].views
    /\ entry' = Cleared(k)
    /\ cleared' = [cleared EXCEPT ![k] = IF @ > clearing[d].version THEN @ ELSE clearing[d].version]
    /\ clearing' = WithoutPrefix(d, k)
    /\ UNCHANGED <<version, fill>>

(* The scan or the deletion failed, or was cut off with the process.       *)
PrefixSurvives(d, k) ==
    /\ k \in clearing[d].views
    /\ clearing' = WithoutPrefix(d, k)
    /\ UNCHANGED <<version, entry, fill, cleared>>

Aged(k) ==
    CASE entry[k].left <= 1 -> NoEntry
      [] OTHER -> [entry[k] EXCEPT !.left = @ - 1, !.stale = IF entry[k].version < version THEN @ + 1 ELSE @]

Tick ==
    /\ \E k \in Views : entry[k].there
    /\ entry' = [k \in Views |-> Aged(k)]
    /\ UNCHANGED <<version, fill, clearing, cleared>>

CacheStep ==
    \/ \E v \in Visitors : CacheSet(v) \/ FillIsLost(v) \/ \E k \in Views : Miss(v, k)
    \/ \E d \in Desks : CommitEdit(d) \/ \E k \in Views : CacheDeleteByPrefix(d, k) \/ PrefixSurvives(d, k)
    \/ CheckoutTakesStock
    \/ Tick

CacheSpec == CacheInit /\ [][CacheStep]_cacheVars

-----------------------------------------------------------------------------
(* A view outlives what it shows by less than its time to live, and once   *)
(* an edit has cleared it, it shows that edit - unless it was read before  *)
(* a change and written after it, which no clearing can prevent.           *)
StaleIsBounded ==
    \A k \in Views : entry[k].there =>
        /\ entry[k].stale < Ttl[k]
        /\ entry[k].late \/ entry[k].version >= cleared[k]
=============================================================================
