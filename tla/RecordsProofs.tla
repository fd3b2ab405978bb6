---------------------------- MODULE RecordsProofs ----------------------------
(***************************************************************************)
(* Proofs about records that are kept in several places: the cached views  *)
(* of the catalogue, the servers' copies of the suppression list, the      *)
(* invoices with their numbers and links, the reviews with the pair on     *)
(* the card, the payments and the gateway's, and what the reports say of   *)
(* the orders; for any views, instances, callbacks, orders, reviews,       *)
(* payments, windows and number of concurrent calls.                       *)
(***************************************************************************)
EXTENDS CatalogueCache, Suppression, Invoices, Reviews, Reconciliation, Reports, SumLemmas

----------------------------------------------------------------------------
(* The cache.                                                              *)

EntryRecords ==
    [there : BOOLEAN, version : Nat, left : Nat, stale : Nat, late : BOOLEAN]

(* Nothing knows a version that is not there yet, and the age of a stale   *)
(* view and the time it has left add up to its time to live at most.       *)
CacheInv ==
    /\ version \in Nat
    /\ entry \in [Views -> EntryRecords]
    /\ cleared \in [Views -> Nat]
    /\ \A v \in Visitors : fill[v].version \in Nat /\ (fill[v] # NoFill => fill[v].view \in Views)
    /\ \A d \in Desks : clearing[d].version \in Nat /\ clearing[d].version <= version
    /\ fill \in [Visitors -> [view : Views \cup {"none"}, version : Nat]]
    /\ clearing \in [Desks -> [version : Nat, views : SUBSET Views]]
    /\ \A k \in Views :
        /\ cleared[k] <= version
        /\ entry[k].there =>
            /\ entry[k].left >= 1 /\ entry[k].stale + entry[k].left <= Ttl[k]
            /\ entry[k].late \/ entry[k].version >= cleared[k]

LEMMA CacheInitInv == CacheInit => CacheInv
  BY DEF CacheInit, CacheInv, EntryRecords, NoEntry, NoFill, NotClearing

LEMMA WithoutPrefixFact ==
    ASSUME CacheInv, NEW d \in Desks, NEW k \in Views
    PROVE  /\ WithoutPrefix(d, k) \in [Desks -> [version : Nat, views : SUBSET Views]]
           /\ \A e \in Desks : WithoutPrefix(d, k)[e].version <= version
  <1>1. clearing[d] \in [version : Nat, views : SUBSET Views] /\ clearing[d].version <= version
    BY DEF CacheInv
  <1> QED BY <1>1 DEF CacheInv, WithoutPrefix, NotClearing

LEMMA CacheStepInv == CacheInv /\ [CacheStep]_cacheVars => CacheInv'
  <1> SUFFICES ASSUME CacheInv, [CacheStep]_cacheVars PROVE CacheInv'
    OBVIOUS
  <1> USE CatalogueCacheAssumption
  <1>1. CASE UNCHANGED cacheVars
    BY <1>1 DEF CacheInv, cacheVars
  <1>2. ASSUME NEW v \in Visitors, NEW k \in Views, Miss(v, k) PROVE CacheInv'
    BY <1>2 DEF CacheInv, Miss
  <1>3. ASSUME NEW v \in Visitors, CacheSet(v) PROVE CacheInv'
    <2> DEFINE k == fill[v].view
    <2>1. k \in Views /\ fill[v].version \in Nat /\ Ttl[k] \in Nat \ {0}
      BY <1>3 DEF CacheInv, CacheSet
    <2>2. Put(k, fill[v].version) \in EntryRecords
      BY <2>1 DEF CacheInv, Put, EntryRecords
    <2>3. entry' \in [Views -> EntryRecords] /\ entry'[k] = Put(k, fill[v].version)
          /\ \A j \in Views \ {k} : entry'[j] = entry[j]
      BY <1>3, <2>1, <2>2 DEF CacheInv, CacheSet
    <2>4. Put(k, fill[v].version).late \/ Put(k, fill[v].version).version >= cleared[k]
      <3>1. CASE fill[v].version < version
        BY <3>1 DEF Put
      <3>2. CASE ~(fill[v].version < version)
        BY <2>1, <3>2 DEF CacheInv, Put
      <3> QED BY <3>1, <3>2
    <2>5. Put(k, fill[v].version).left = Ttl[k] /\ Put(k, fill[v].version).stale = 0
      BY DEF Put
    <2>6. fill' = [fill EXCEPT ![v] = NoFill] /\ UNCHANGED <<version, clearing, cleared>>
      BY <1>3 DEF CacheSet
    <2> HIDE DEF k
    <2>7. \A j \in Views : entry'[j].there =>
            /\ entry'[j].left >= 1 /\ entry'[j].stale + entry'[j].left <= Ttl[j]
            /\ entry'[j].late \/ entry'[j].version >= cleared[j]
      BY <2>1, <2>3, <2>4, <2>5 DEF CacheInv
    <2> QED BY <2>3, <2>6, <2>7 DEF CacheInv, NoFill
  <1>4. ASSUME NEW v \in Visitors, FillIsLost(v) PROVE CacheInv'
    BY <1>4 DEF CacheInv, FillIsLost, NoFill
  <1>5. ASSUME NEW d \in Desks, CommitEdit(d) PROVE CacheInv'
    BY <1>5 DEF CacheInv, CommitEdit
  <1>6. ASSUME NEW d \in Desks, NEW k \in Views, CacheDeleteByPrefix(d, k) PROVE CacheInv'
    <2>1. /\ entry' \in [Views -> EntryRecords] /\ entry'[k].there = FALSE
          /\ \A j \in Views \ {k} : entry'[j] = entry[j]
      BY <1>6 DEF CacheInv, CacheDeleteByPrefix, Cleared, NoEntry, EntryRecords
    <2>2. /\ cleared' \in [Views -> Nat] /\ cleared'[k] <= version
          /\ \A j \in Views \ {k} : cleared'[j] = cleared[j]
      BY <1>6 DEF CacheInv, CacheDeleteByPrefix
    <2>3. clearing' = WithoutPrefix(d, k) /\ UNCHANGED <<version, fill>>
      BY <1>6 DEF CacheDeleteByPrefix
    <2>4. /\ clearing' \in [Desks -> [version : Nat, views : SUBSET Views]]
          /\ \A e \in Desks : clearing'[e].version <= version
      BY <2>3, WithoutPrefixFact
    <2>5. /\ clearing' \in [Desks -> [version : Nat, views : SUBSET Views]]
          /\ \A e \in Desks : clearing'[e].version \in Nat /\ clearing'[e].version <= version'
      BY <2>3, <2>4
    <2>6. ASSUME NEW j \in Views
          PROVE  /\ cleared'[j] <= version
                 /\ entry'[j].there =>
                     /\ entry'[j].left >= 1 /\ entry'[j].stale + entry'[j].left <= Ttl[j]
                     /\ entry'[j].late \/ entry'[j].version >= cleared'[j]
      <3>1. CASE j = k
        BY <2>1, <2>2, <3>1
      <3>2. CASE j # k
        BY <2>1, <2>2, <3>2 DEF CacheInv
      <3> QED BY <3>1, <3>2
    <2>7. /\ version' \in Nat /\ fill' \in [Visitors -> [view : Views \cup {"none"}, version : Nat]]
          /\ \A v \in Visitors : fill'[v].version \in Nat /\ (fill'[v] # NoFill => fill'[v].view \in Views)
      BY <2>3 DEF CacheInv
    <2> QED BY <2>1, <2>2, <2>3, <2>5, <2>6, <2>7 DEF CacheInv, NoFill
  <1>7. ASSUME NEW d \in Desks, NEW k \in Views, PrefixSurvives(d, k) PROVE CacheInv'
    BY <1>7, WithoutPrefixFact DEF CacheInv, PrefixSurvives
  <1>8. CASE CheckoutTakesStock
    BY <1>8 DEF CacheInv, CheckoutTakesStock
  <1>9. CASE Tick
    <2>1. ASSUME NEW k \in Views
          PROVE  /\ Aged(k) \in EntryRecords
                 /\ Aged(k).there =>
                     /\ entry[k].there /\ Aged(k).left >= 1
                     /\ Aged(k).stale + Aged(k).left <= entry[k].stale + entry[k].left
                     /\ Aged(k).version = entry[k].version /\ Aged(k).late = entry[k].late
      <3>1. entry[k] \in EntryRecords /\ (entry[k].there => entry[k].left >= 1)
        BY DEF CacheInv
      <3>2. CASE entry[k].left <= 1
        BY <3>2 DEF Aged, EntryRecords, NoEntry
      <3>3. CASE ~(entry[k].left <= 1)
        <4>1. entry[k].left - 1 \in Nat /\ entry[k].left - 1 >= 1
          BY <3>1, <3>3 DEF EntryRecords
        <4>2. Aged(k) = [entry[k] EXCEPT !.left = entry[k].left - 1,
                                         !.stale = IF entry[k].version < version
                                                   THEN entry[k].stale + 1 ELSE entry[k].stale]
          BY <3>3 DEF Aged
        <4> DEFINE s == IF entry[k].version < version THEN entry[k].stale + 1 ELSE entry[k].stale
        <4>3. s \in Nat /\ s <= entry[k].stale + 1
          BY <3>1 DEF EntryRecords
        <4> HIDE DEF s
        <4>4. Aged(k) \in EntryRecords /\ Aged(k).left = entry[k].left - 1 /\ Aged(k).stale = s
              /\ Aged(k).there = entry[k].there
              /\ Aged(k).version = entry[k].version /\ Aged(k).late = entry[k].late
          BY <3>1, <4>1, <4>2, <4>3 DEF EntryRecords, s
        <4> QED BY <3>1, <4>1, <4>3, <4>4 DEF EntryRecords
      <3> QED BY <3>2, <3>3
    <2> QED BY <1>9, <2>1 DEF CacheInv, Tick, EntryRecords
  <1> QED BY <1>1, <1>2, <1>3, <1>4, <1>5, <1>6, <1>7, <1>8, <1>9 DEF CacheStep

(* No view outlives what it shows by its time to live, and a view that was *)
(* read after the last change before it was written shows every edit that  *)
(* has cleared it, whatever commands of the cache fail or run late.        *)
THEOREM ViewsAreFresh == CacheSpec => []StaleIsBounded
  <1>1. CacheInv => StaleIsBounded
    BY CatalogueCacheAssumption DEF CacheInv, StaleIsBounded, EntryRecords
  <1> QED BY CacheInitInv, CacheStepInv, <1>1, PTL DEF CacheSpec

----------------------------------------------------------------------------
(* The suppression list.                                                   *)

Changes ==
    {NoChange} \cup [step : {"loading", "based", "written"}, at : Instances, of : Operations,
                     list : SUBSET Mailboxes, sound : BOOLEAN]

(* A copy that nobody has overwritten is the stored list, and so is the    *)
(* list of a sound call.                                                   *)
ListInv ==
    /\ listed \in SUBSET Mailboxes
    /\ copy \in [Instances -> [held : BOOLEAN, list : SUBSET Mailboxes]]
    /\ change \in [Callbacks -> Changes]
    /\ clobbered \in BOOLEAN
    /\ clobbered = FALSE =>
        /\ reported \subseteq listed
        /\ \A i \in Instances : copy[i].held /\ i \notin outdated => copy[i].list = listed
        /\ \A c \in Callbacks : change[c] # NoChange /\ change[c].sound => change[c].list = listed

LEMMA ListInitInv == SuppressionInit => ListInv
  <1> SUFFICES ASSUME SuppressionInit PROVE ListInv
    OBVIOUS
  <1>1. copy \in [Instances -> [held : BOOLEAN, list : SUBSET Mailboxes]]
        /\ \A i \in Instances : copy[i].held = FALSE
    BY DEF SuppressionInit, NoCopy
  <1>2. change \in [Callbacks -> Changes] /\ \A c \in Callbacks : change[c] = NoChange
    BY DEF SuppressionInit, Changes
  <1> QED BY <1>1, <1>2 DEF SuppressionInit, ListInv

(* A call that works on the stored list, or does not claim to.             *)
LEMMA BeginKeeps ==
    ASSUME ListInv, NEW c \in Callbacks, NEW i \in Instances, NEW of \in Operations, NEW step \in {"loading", "based"},
           NEW r, Consults(c, i, of, step, r), r.list \in SUBSET Mailboxes, r.sound \in BOOLEAN,
           clobbered = FALSE /\ r.sound => r.list = listed
    PROVE  ListInv'
  <1> DEFINE q == [step |-> step, at |-> i, of |-> of, list |-> r.list, sound |-> r.sound]
  <1>1. change' = [change EXCEPT ![c] = q] /\ UNCHANGED <<listed, copy, reported, outdated, clobbered>>
    BY DEF Consults
  <1>2. q \in Changes /\ q.list = r.list /\ q.sound = r.sound
    BY DEF Changes
  <1> HIDE DEF q
  <1>3. change' \in [Callbacks -> Changes] /\ \A d \in Callbacks : change'[d] \in {q, change[d]}
    BY <1>1, <1>2 DEF ListInv
  <1> QED BY <1>1, <1>2, <1>3 DEF ListInv

(* A call that ends, or carries on with the list it has.                   *)
LEMMA HoldKeeps == ASSUME ListInv, NEW c \in Callbacks, Hold(c) PROVE ListInv'
  <1>1. PICK q : q = change[c]
    OBVIOUS
  <1>2. q \in Changes \ {NoChange}
    BY <1>1 DEF Hold, ListInv, NoChange
  <1>3. q.at \in Instances /\ q.list \in SUBSET Mailboxes /\ q.sound \in BOOLEAN
    BY <1>2 DEF Changes
  <1>4. /\ copy' = [copy EXCEPT ![q.at] = [held |-> TRUE, list |-> q.list]]
        /\ outdated' = IF q.sound THEN outdated \ {q.at} ELSE outdated \cup {q.at}
        /\ UNCHANGED <<listed, reported, clobbered>>
    BY <1>1 DEF Hold, Keeps
  <1>5. copy' \in [Instances -> [held : BOOLEAN, list : SUBSET Mailboxes]]
    BY <1>3, <1>4 DEF ListInv
  <1>6. ASSUME clobbered = FALSE, NEW i \in Instances, copy'[i].held, i \notin outdated'
        PROVE  copy'[i].list = listed
    <2>1. CASE i = q.at
      BY <1>1, <1>2, <1>3, <1>4, <1>6, <2>1 DEF ListInv
    <2>2. CASE i # q.at
      BY <1>3, <1>4, <1>6, <2>2 DEF ListInv
    <2> QED BY <2>1, <2>2
  <1>7. PICK p \in {NoChange, [q EXCEPT !.step = "based"]} : change' = [change EXCEPT ![c] = p]
    BY <1>1 DEF Hold
  <1>8. p \in Changes /\ (p # NoChange => p.list = q.list /\ p.sound = q.sound)
    BY <1>2, <1>7 DEF Changes
  <1>9. change' \in [Callbacks -> Changes]
        /\ \A d \in Callbacks : change'[d] = (IF d = c THEN p ELSE change[d])
    BY <1>7, <1>8 DEF ListInv
  <1>10. ASSUME clobbered = FALSE, NEW d \in Callbacks, change'[d] # NoChange, change'[d].sound
         PROVE  change'[d].list = listed
    BY <1>1, <1>2, <1>8, <1>9, <1>10 DEF ListInv
  <1> QED BY <1>4, <1>5, <1>6, <1>9, <1>10 DEF ListInv

(* A list is written that rests on the one before it.                      *)
LEMMA OverwritesKeeps ==
    ASSUME ListInv, NEW c \in Callbacks, NEW list \in SUBSET Mailboxes, change[c] # NoChange,
           Overwrites(c, list), clobbered = FALSE /\ change[c].sound => reported' \subseteq list
    PROVE  ListInv'
  <1>1. change[c] \in Changes \ {NoChange} /\ change[c].sound \in BOOLEAN
    BY DEF ListInv, Changes
  <1>2. /\ change' = [d \in Callbacks |->
              CASE d = c -> [change[c] EXCEPT !.step = "written", !.list = list, !.sound = TRUE]
                [] d # c /\ change[d] = NoChange -> NoChange
                [] OTHER -> [change[d] EXCEPT !.sound = FALSE]]
        /\ listed' = list /\ outdated' = {i \in Instances : copy[i].held} /\ UNCHANGED copy
    BY DEF Overwrites
  <1>3. ASSUME NEW d \in Callbacks
        PROVE  change'[d] \in Changes /\ (change'[d] # NoChange /\ change'[d].sound => change'[d].list = list)
    <2>1. CASE d = c
      <3>1. change'[d] = [change[c] EXCEPT !.step = "written", !.list = list, !.sound = TRUE]
        BY <1>2, <2>1
      <3> QED BY <1>1, <3>1 DEF Changes
    <2>2. CASE d # c /\ change[d] = NoChange
      BY <1>2, <2>2 DEF Changes
    <2>3. CASE d # c /\ change[d] # NoChange
      <3>1. change'[d] = [change[d] EXCEPT !.sound = FALSE]
        BY <1>2, <2>3
      <3>2. change[d] \in Changes \ {NoChange}
        BY <2>3 DEF ListInv
      <3> QED BY <3>1, <3>2 DEF Changes
    <2> QED BY <2>1, <2>2, <2>3
  <1>4. change' \in [Callbacks -> Changes]
    <2>1. change' = [d \in Callbacks |-> change'[d]]
      BY <1>2
    <2> QED BY <1>3, <2>1
  <1>5. clobbered' \in BOOLEAN /\ (clobbered' = FALSE => clobbered = FALSE /\ change[c].sound = TRUE)
    BY <1>1 DEF ListInv, Overwrites
  <1> QED BY <1>2, <1>3, <1>4, <1>5 DEF ListInv

LEMMA SuppressKeeps == ASSUME ListInv, NEW c \in Callbacks, Suppress(c) PROVE ListInv'
  <1>1. PICK q : q = change[c]
    OBVIOUS
  <1>2. q \in Changes \ {NoChange} /\ q.of.kind = "suppress"
    BY <1>1 DEF Suppress, ChangeAt, ListInv, NoChange
  <1>3. q.list \in SUBSET Mailboxes /\ q.of.mailbox \in Mailboxes /\ q.sound \in BOOLEAN
    <2>1. q.of \in Operations /\ q.list \in SUBSET Mailboxes /\ q.sound \in BOOLEAN
      BY <1>2 DEF Changes
    <2>2. ASSUME NEW of \in Operations, of.kind = "suppress" PROVE of.mailbox \in Mailboxes
      <3>1. of # [kind |-> "consult"]
        BY <2>2
      <3> QED BY <3>1 DEF Operations
    <2> QED BY <1>2, <2>1, <2>2
  <1>4. clobbered = FALSE /\ q.sound => reported \subseteq q.list
    BY <1>1, <1>2 DEF ListInv
  <1>5. CASE q.of.mailbox \notin q.list
    <2>1. Overwrites(c, q.list \cup {q.of.mailbox}) /\ reported' = reported \cup {q.of.mailbox}
      BY <1>1, <1>5 DEF Suppress
    <2> QED BY <1>1, <1>2, <1>3, <1>4, <2>1, OverwritesKeeps
  <1>6. CASE q.of.mailbox \in q.list
    <2>1. /\ change' = [change EXCEPT ![c] = NoChange]
          /\ clobbered' = (clobbered \/ ~q.sound)
          /\ UNCHANGED <<listed, copy, outdated>>
          /\ reported' = reported \cup {q.of.mailbox}
      BY <1>1, <1>6 DEF Suppress
    <2>2. clobbered' \in BOOLEAN /\ (clobbered' = FALSE => clobbered = FALSE /\ q.sound = TRUE)
      BY <1>3, <2>1 DEF ListInv
    <2>3. change' \in [Callbacks -> Changes] /\ \A d \in Callbacks : change'[d] \in {NoChange, change[d]}
      BY <2>1 DEF ListInv, Changes
    <2> QED BY <1>1, <1>2, <1>4, <1>6, <2>1, <2>2, <2>3 DEF ListInv
  <1> QED BY <1>5, <1>6

LEMMA RemoveKeeps == ASSUME ListInv, NEW c \in Callbacks, Remove(c) PROVE ListInv'
  <1>1. PICK q : q = change[c]
    OBVIOUS
  <1>2. q \in Changes \ {NoChange} /\ Overwrites(c, q.list \ {q.of.mailbox}) /\ reported' = reported \ {q.of.mailbox}
    BY <1>1 DEF Remove, ChangeAt, ListInv, NoChange
  <1>3. q.list \ {q.of.mailbox} \in SUBSET Mailboxes
    BY <1>2 DEF Changes
  <1>4. clobbered = FALSE /\ q.sound => reported' \subseteq q.list \ {q.of.mailbox}
    BY <1>1, <1>2 DEF ListInv
  <1> QED BY <1>1, <1>2, <1>3, <1>4, OverwritesKeeps

LEMMA ListStepInv == ListInv /\ [SuppressionStep]_suppressionVars => ListInv'
  <1> SUFFICES ASSUME ListInv, [SuppressionStep]_suppressionVars PROVE ListInv'
    OBVIOUS
  <1>1. CASE UNCHANGED suppressionVars
    BY <1>1 DEF ListInv, suppressionVars
  <1>2. ASSUME NEW c \in Callbacks, NEW i \in Instances, NEW of \in Operations, UseCopy(c, i, of)
        PROVE  ListInv'
    <2> DEFINE r == [list |-> copy[i].list, sound |-> i \notin outdated]
    <2>1. Consults(c, i, of, "based", r) /\ copy[i].held
      BY <1>2 DEF UseCopy
    <2>2. /\ r.list \in SUBSET Mailboxes /\ r.sound \in BOOLEAN
          /\ clobbered = FALSE /\ r.sound => r.list = listed
      BY <2>1 DEF ListInv
    <2> HIDE DEF r
    <2> QED BY <2>1, <2>2, BeginKeeps
  <1>3. ASSUME NEW c \in Callbacks, NEW i \in Instances, NEW of \in Operations, ReadList(c, i, of)
        PROVE  ListInv'
    <2>1. PICK r \in Load : Consults(c, i, of, "loading", r)
      BY <1>3 DEF ReadList
    <2>2. CASE r = [list |-> listed, sound |-> TRUE]
      <3>1. r.list = listed /\ r.sound = TRUE
        BY <2>2
      <3> QED BY <2>1, <3>1, BeginKeeps DEF ListInv
    <2>3. CASE r = [list |-> {}, sound |-> listed = {}]
      <3>1. r.list = {} /\ r.sound = (listed = {})
        BY <2>3
      <3> QED BY <2>1, <3>1, BeginKeeps
    <2> QED BY <2>1, <2>2, <2>3 DEF Load
  <1>4. ASSUME NEW i \in Instances, CopyExpires(i) PROVE ListInv'
    BY <1>4 DEF CopyExpires, ListInv, NoCopy
  <1>5. ASSUME NEW c \in Callbacks, ChangeEnds(c) PROVE ListInv'
    <2>1. change' = [change EXCEPT ![c] = NoChange] /\ UNCHANGED <<listed, copy, reported, outdated, clobbered>>
      BY <1>5 DEF ChangeEnds
    <2>2. change' \in [Callbacks -> Changes] /\ \A d \in Callbacks : change'[d] \in {NoChange, change[d]}
      BY <2>1 DEF ListInv, Changes
    <2> QED BY <2>1, <2>2 DEF ListInv
  <1>6. ASSUME NEW i \in Instances, InstanceStops(i) PROVE ListInv'
    <2>1. /\ change' = [c \in Callbacks |-> IF change[c] # NoChange /\ change[c].at = i THEN NoChange ELSE change[c]]
          /\ copy' = [copy EXCEPT ![i] = NoCopy] /\ outdated' = outdated \ {i}
          /\ UNCHANGED <<listed, reported, clobbered>>
      BY <1>6 DEF InstanceStops
    <2>2. change' \in [Callbacks -> Changes] /\ \A d \in Callbacks : change'[d] \in {NoChange, change[d]}
      BY <2>1 DEF ListInv, Changes
    <2>3. /\ copy' \in [Instances -> [held : BOOLEAN, list : SUBSET Mailboxes]]
          /\ \A j \in Instances : copy'[j].held => j # i /\ copy'[j] = copy[j]
      BY <2>1 DEF ListInv, NoCopy
    <2> QED BY <2>1, <2>2, <2>3 DEF ListInv
  <1> QED BY <1>1, <1>2, <1>3, <1>4, <1>5, <1>6, HoldKeeps, SuppressKeeps, RemoveKeeps DEF SuppressionStep

(* A report that was recorded stays on the list until it is taken off,     *)
(* unless a write rested on a list that was stale or had not been read.    *)
THEOREM ReportsStayListed == SuppressionSpec => []ReportsAreKept
  <1>1. ListInv => ReportsAreKept
    BY DEF ListInv, ReportsAreKept
  <1> QED BY ListInitInv, ListStepInv, <1>1, PTL DEF SuppressionSpec

----------------------------------------------------------------------------
(* The invoices.                                                           *)

InvoiceRows == [order : Sales, number : Nat, cancelled : BOOLEAN, archived : BOOLEAN]
IssuerCalls ==
    {NoCall} \cup [step : {"number", "create", "store", "link"}, order : Sales,
                  seen : {"CONFIRMED", "PENDING_PAYMENT", "CANCELLED"}, attempt : Nat, number : Nat]
SaleRows ==
    [status : {"CONFIRMED", "PENDING_PAYMENT", "CANCELLED"}, paid : BOOLEAN, cash : BOOLEAN, invoice : Nat]

InvoicesTypes ==
    /\ invoices \subseteq InvoiceRows /\ IsFiniteSet(invoices)
    /\ sale \in [Sales -> SaleRows]
    /\ issuer \in [Issuers -> IssuerCalls]
    /\ unfinished \subseteq Sales

InvoiceNumbers(rows) == {r.number : r \in rows}
InvoicedOrders(rows) == {r.order : r \in rows}

(* Numbers and orders tell the rows apart.                                 *)
RowsAreDistinct(rows) ==
    \A r, s \in rows : r.order = s.order \/ r.number = s.number => r = s

Numbered(rows) ==
    /\ RowsAreDistinct(rows)
    /\ InvoiceNumbers(rows) = 1..Cardinality(rows)
    /\ Cardinality(InvoicedOrders(rows)) = Cardinality(rows)

(* A number that was read is in use by now, or the next; a call that has   *)
(* inserted its row finds it under its order and its number.               *)
IssuersKnow ==
    \A i \in Issuers :
        /\ Calls(i, "create") => issuer[i].number \in 1..(Cardinality(invoices) + 1)
        /\ issuer[i].step \in {"store", "link"} =>
            \E r \in invoices : r.order = issuer[i].order /\ r.number = issuer[i].number

Linked(r) ==
    \/ sale[r.order].invoice = r.number
    \/ sale[r.order].invoice = NoNumber
       /\ (r.order \in unfinished
           \/ \E i \in Issuers : issuer[i].step \in {"store", "link"} /\ issuer[i].number = r.number)

(* An order without an invoice is linked to none.                          *)
LinksAreReal ==
    /\ \A r \in invoices : Linked(r)
    /\ \A o \in Sales : InvoiceOf(o) = {} => sale[o].invoice = NoNumber

BooksInv == InvoicesTypes /\ Numbered(invoices) /\ IssuersKnow /\ LinksAreReal

(* As many orders as rows, and no more.                                    *)
LEMMA OrdersAreFinite ==
    ASSUME NEW rows, IsFiniteSet(rows)
    PROVE  IsFiniteSet(InvoicedOrders(rows))
  <1> DEFINE f == [r \in rows |-> r.order]
  <1>1. f \in Surjection(rows, InvoicedOrders(rows))
    BY DEF InvoicedOrders, Surjection
  <1> QED BY <1>1, FS_Surjection

(* The next number is one more than there are invoices.                    *)
LEMMA NextNumberFact ==
    ASSUME InvoicesTypes, Numbered(invoices)
    PROVE  NextNumber = Cardinality(invoices) + 1
  <1> DEFINE n == Cardinality(invoices)
             S == {r.number : r \in invoices} \cup {NoNumber}
  <1>1. n \in Nat
    BY FS_CardinalityType DEF InvoicesTypes
  <1>2. S = 0..n
    BY <1>1 DEF Numbered, InvoiceNumbers, NoNumber
  <1>3. Max(0..n) = n
    <2>1. n \in 0..n /\ \A y \in 0..n : n >= y
      BY <1>1
    <2>2. \A x \in 0..n : (\A y \in 0..n : x >= y) => x = n
      BY <1>1, <2>1
    <2> HIDE DEF n
    <2> QED BY <2>1, <2>2 DEF Max
  <1> QED BY <1>2, <1>3 DEF NextNumber

(* A row under a free order and number takes the next place in the books.  *)
LEMMA NewRowIsNext ==
    ASSUME InvoicesTypes, Numbered(invoices), NEW x \in InvoiceRows,
           x.number \in 1..(Cardinality(invoices) + 1), IsFree(x.order, x.number)
    PROVE  LET rows == invoices \cup {x} IN
           /\ rows \subseteq InvoiceRows /\ IsFiniteSet(rows) /\ Numbered(rows)
           /\ Cardinality(rows) = Cardinality(invoices) + 1
  <1> DEFINE n == Cardinality(invoices)
             rows == invoices \cup {x}
  <1>1. n \in Nat /\ IsFiniteSet(invoices)
    BY FS_CardinalityType DEF InvoicesTypes
  <1>2. \A r \in invoices : r.order # x.order /\ r.number # x.number
    BY DEF IsFree, InvoiceOf
  <1>3. x \notin invoices
    BY <1>2
  <1>4. IsFiniteSet(rows) /\ Cardinality(rows) = n + 1
    BY <1>1, <1>3, FS_AddElement
  <1>5. x.number = n + 1
    <2>1. x.number \notin 1..n
      BY <1>2 DEF Numbered, InvoiceNumbers
    <2> QED BY <1>1, <2>1
  <1>6. RowsAreDistinct(rows)
    BY <1>2 DEF Numbered, RowsAreDistinct
  <1>7. InvoiceNumbers(rows) = 1..(n + 1)
    <2>1. InvoiceNumbers(rows) = InvoiceNumbers(invoices) \cup {x.number}
      BY DEF InvoiceNumbers
    <2>2. 1..n \cup {n + 1} = 1..(n + 1)
      BY <1>1
    <2> QED BY <1>5, <2>1, <2>2 DEF Numbered
  <1>8. Cardinality(InvoicedOrders(rows)) = n + 1
    <2>1. InvoicedOrders(rows) = InvoicedOrders(invoices) \cup {x.order}
          /\ x.order \notin InvoicedOrders(invoices)
      BY <1>2 DEF InvoicedOrders
    <2>2. IsFiniteSet(InvoicedOrders(invoices))
      BY OrdersAreFinite DEF InvoicesTypes
    <2>3. Cardinality(InvoicedOrders(invoices) \cup {x.order}) = Cardinality(InvoicedOrders(invoices)) + 1
      BY <2>1, <2>2, FS_AddElement
    <2> QED BY <2>1, <2>3 DEF Numbered
  <1> QED BY <1>4, <1>6, <1>7, <1>8 DEF InvoicesTypes, Numbered

(* Rewriting a row under its order and number leaves the books in order.   *)
LEMMA SameRowStaysInPlace ==
    ASSUME InvoicesTypes, Numbered(invoices), NEW r \in invoices, NEW x \in InvoiceRows,
           x.order = r.order, x.number = r.number
    PROVE  LET rows == (invoices \ {r}) \cup {x} IN
           /\ rows \subseteq InvoiceRows /\ IsFiniteSet(rows) /\ Numbered(rows)
           /\ Cardinality(rows) = Cardinality(invoices)
  <1> DEFINE rest == invoices \ {r}
             rows == rest \cup {x}
  <1>1. Cardinality(invoices) \in Nat /\ IsFiniteSet(invoices)
    BY FS_CardinalityType DEF InvoicesTypes
  <1>2. IsFiniteSet(rest) /\ Cardinality(rest) = Cardinality(invoices) - 1
    BY <1>1, FS_RemoveElement
  <1>3. x \notin rest
    BY DEF Numbered, RowsAreDistinct
  <1>4. IsFiniteSet(rows) /\ Cardinality(rows) = Cardinality(rest) + 1
    BY <1>2, <1>3, FS_AddElement
  <1>5. Cardinality(rows) = Cardinality(invoices)
    BY <1>1, <1>2, <1>4
  <1>6. RowsAreDistinct(rows)
    BY DEF Numbered, RowsAreDistinct
  <1>7. InvoiceNumbers(rows) = InvoiceNumbers(invoices) /\ InvoicedOrders(rows) = InvoicedOrders(invoices)
    BY DEF InvoiceNumbers, InvoicedOrders
  <1> QED BY <1>4, <1>5, <1>6, <1>7 DEF InvoicesTypes, Numbered

LEMMA BooksInitInv == InvoicesInit => BooksInv
  <1> SUFFICES ASSUME InvoicesInit PROVE BooksInv
    OBVIOUS
  <1>1. invoices = {} /\ IsFiniteSet({}) /\ Cardinality({}) = 0
    BY FS_EmptySet DEF InvoicesInit
  <1>2. InvoicesTypes
    <2>1. [status |-> "CONFIRMED", paid |-> FALSE, cash |-> TRUE, invoice |-> NoNumber] \in SaleRows
          /\ [status |-> "PENDING_PAYMENT", paid |-> FALSE, cash |-> FALSE, invoice |-> NoNumber] \in SaleRows
      BY DEF SaleRows, NoNumber
    <2>2. sale \in [Sales -> SaleRows]
      BY <2>1 DEF InvoicesInit
    <2> QED BY <1>1, <2>2 DEF InvoicesInit, InvoicesTypes, IssuerCalls
  <1>3. Numbered(invoices)
    BY <1>1 DEF Numbered, RowsAreDistinct, InvoiceNumbers, InvoicedOrders
  <1>4. IssuersKnow
    BY DEF InvoicesInit, IssuersKnow, Calls, NoCall
  <1>5. LinksAreReal
    BY <1>1 DEF InvoicesInit, LinksAreReal, NoNumber
  <1> QED BY <1>2, <1>3, <1>4, <1>5 DEF BooksInv

(* A call that is not at rest has an order, and a number.                  *)
LEMMA CallIsTyped ==
    ASSUME InvoicesTypes, NEW i \in Issuers, issuer[i].step # "none"
    PROVE  /\ issuer[i] \in IssuerCalls \ {NoCall}
           /\ issuer[i].order \in Sales /\ issuer[i].number \in Nat /\ issuer[i].attempt \in Nat
           /\ issuer[i].seen \in {"CONFIRMED", "PENDING_PAYMENT", "CANCELLED"}
  BY DEF InvoicesTypes, IssuerCalls, NoCall

(* What a step leaves of the calls when it changes only one of them.       *)
OneCallMoves(i) ==
    /\ issuer' \in [Issuers -> IssuerCalls]
    /\ \A j \in Issuers \ {i} : issuer'[j] = issuer[j]

(* Steps that leave the rows alone, and of the calls move one at most, not *)
(* out of the steps between the row and the link.                          *)
LEMMA QuietBooksStep ==
    ASSUME BooksInv, NEW i \in Issuers, OneCallMoves(i), UNCHANGED <<invoices, sale, unfinished>>,
           issuer[i].step \notin {"store", "link"}, issuer'[i].step \notin {"store", "link"},
           issuer'[i].step = "create" => issuer'[i].number = Cardinality(invoices) + 1
    PROVE  BooksInv'
  <1>1. InvoicesTypes'
    BY DEF BooksInv, InvoicesTypes, OneCallMoves
  <1>2. Numbered(invoices)'
    BY DEF BooksInv, Numbered, RowsAreDistinct, InvoiceNumbers, InvoicedOrders
  <1>3. Cardinality(invoices) \in Nat
    BY FS_CardinalityType DEF BooksInv, InvoicesTypes
  <1>4. IssuersKnow'
    <2> SUFFICES ASSUME NEW j \in Issuers
                 PROVE  /\ Calls(j, "create")' => issuer'[j].number \in 1..(Cardinality(invoices) + 1)
                        /\ issuer'[j].step \in {"store", "link"} =>
                            \E r \in invoices : r.order = issuer'[j].order /\ r.number = issuer'[j].number
      BY DEF IssuersKnow
    <2>1. CASE j = i
      BY <1>3, <2>1 DEF Calls
    <2>2. CASE j # i
      BY <2>2 DEF BooksInv, IssuersKnow, OneCallMoves, Calls
    <2> QED BY <2>1, <2>2
  <1>5. LinksAreReal'
    <2>1. ASSUME NEW r \in invoices PROVE Linked(r)'
      BY DEF BooksInv, LinksAreReal, Linked, OneCallMoves
    <2> QED BY <2>1 DEF BooksInv, LinksAreReal, InvoiceOf
  <1> QED BY <1>1, <1>2, <1>4, <1>5 DEF BooksInv

(* Steps that put a row in the place of itself, and move the call that     *)
(* does it from the row towards the link.                                  *)
LEMMA SameRowStep ==
    ASSUME BooksInv, UNCHANGED <<sale, unfinished>>,
           issuer' \in [Issuers -> IssuerCalls],
           \A j \in Issuers :
               \/ issuer'[j] = issuer[j]
               \/ /\ issuer[j].step \in {"store", "link"} /\ issuer'[j].step \in {"store", "link"}
                  /\ issuer'[j].order = issuer[j].order /\ issuer'[j].number = issuer[j].number,
           NEW r \in invoices, NEW x \in InvoiceRows, x.order = r.order, x.number = r.number,
           invoices' = (invoices \ {r}) \cup {x}
    PROVE  BooksInv'
  <1>1. /\ invoices' \subseteq InvoiceRows /\ IsFiniteSet(invoices') /\ Numbered(invoices')
        /\ Cardinality(invoices') = Cardinality(invoices)
    BY SameRowStaysInPlace DEF BooksInv
  <1>2. InvoicesTypes'
    BY <1>1 DEF BooksInv, InvoicesTypes
  <1>3. \A s \in invoices : \E t \in invoices' : t.order = s.order /\ t.number = s.number
    OBVIOUS
  <1>4. \A t \in invoices' : \E s \in invoices : t.order = s.order /\ t.number = s.number
    OBVIOUS
  <1>5. IssuersKnow'
    <2> SUFFICES ASSUME NEW j \in Issuers
                 PROVE  /\ Calls(j, "create")' => issuer'[j].number \in 1..(Cardinality(invoices') + 1)
                        /\ issuer'[j].step \in {"store", "link"} =>
                            \E s \in invoices' : s.order = issuer'[j].order /\ s.number = issuer'[j].number
      BY DEF IssuersKnow
    <2>1. Calls(j, "create")' => issuer'[j].number \in 1..(Cardinality(invoices') + 1)
      BY <1>1 DEF BooksInv, IssuersKnow, Calls
    <2>2. issuer'[j].step \in {"store", "link"} =>
            \E s \in invoices : s.order = issuer'[j].order /\ s.number = issuer'[j].number
      BY DEF BooksInv, IssuersKnow
    <2> QED BY <1>3, <2>1, <2>2
  <1>6. LinksAreReal'
    <2>1. ASSUME NEW t \in invoices' PROVE Linked(t)'
      <3>1. PICK s \in invoices : t.order = s.order /\ t.number = s.number
        BY <1>4
      <3> QED BY <3>1 DEF BooksInv, LinksAreReal, Linked
    <2>2. ASSUME NEW o \in Sales, InvoiceOf(o)' = {} PROVE sale'[o].invoice = NoNumber
      <3>1. InvoiceOf(o) = {}
        BY <1>3, <2>2 DEF InvoiceOf
      <3> QED BY <3>1 DEF BooksInv, LinksAreReal
    <2> QED BY <2>1, <2>2 DEF LinksAreReal
  <1> QED BY <1>1, <1>2, <1>5, <1>6 DEF BooksInv

(* Steps of an order that leave its link alone.                            *)
LEMMA OrderStep ==
    ASSUME BooksInv, NEW o \in Sales, UNCHANGED <<invoices, issuer, unfinished>>,
           sale' \in [Sales -> SaleRows], \A p \in Sales : sale'[p].invoice = sale[p].invoice
    PROVE  BooksInv'
  <1>1. InvoicesTypes' /\ Numbered(invoices)' /\ IssuersKnow'
    BY DEF BooksInv, InvoicesTypes, Numbered, RowsAreDistinct, InvoiceNumbers, InvoicedOrders, IssuersKnow, Calls
  <1>2. \A r \in invoices : r.order \in Sales
    BY DEF BooksInv, InvoicesTypes, InvoiceRows
  <1>3. LinksAreReal'
    BY <1>2 DEF BooksInv, LinksAreReal, Linked, InvoiceOf
  <1> QED BY <1>1, <1>3 DEF BooksInv

(* The row of an order is the only one.                                    *)
LEMMA OnlyRow ==
    ASSUME BooksInv, NEW i \in Issuers, issuer[i].step \in {"store", "link"}
    PROVE  \E r \in invoices : /\ InvoiceOf(issuer[i].order) = {r}
                               /\ r.order = issuer[i].order /\ r.number = issuer[i].number
  <1>1. PICK r \in invoices : r.order = issuer[i].order /\ r.number = issuer[i].number
    BY DEF BooksInv, IssuersKnow
  <1>2. InvoiceOf(issuer[i].order) = {r}
    BY <1>1 DEF BooksInv, Numbered, RowsAreDistinct, InvoiceOf
  <1> QED BY <1>1, <1>2

LEMMA CreateRowInv == ASSUME BooksInv, NEW i \in Issuers, CreateRow(i) PROVE BooksInv'
  <1> DEFINE c == issuer[i]
             x == [order |-> c.order, number |-> c.number, cancelled |-> FALSE, archived |-> FALSE]
  <1>1. Calls(i, "create") /\ UNCHANGED <<sale, unfinished>>
    BY DEF CreateRow
  <1>2. /\ c \in IssuerCalls \ {NoCall} /\ c.order \in Sales
        /\ c.number \in 1..(Cardinality(invoices) + 1) /\ c.attempt \in Nat
    BY <1>1, CallIsTyped DEF BooksInv, IssuersKnow, Calls
  <1>3. CASE ~IsFree(c.order, c.number)
    <2>1. UNCHANGED invoices
      BY <1>3 DEF CreateRow
    <2>2. CASE EndsCall(i)
      <3>1. OneCallMoves(i) /\ issuer'[i].step = "none"
        BY <2>2 DEF EndsCall, OneCallMoves, BooksInv, InvoicesTypes, IssuerCalls, NoCall
      <3> QED BY <1>1, <2>1, <3>1, QuietBooksStep DEF Calls
    <2>3. CASE issuer' = [issuer EXCEPT ![i].step = "number", ![i].attempt = @ + 1]
      <3>1. [c EXCEPT !.step = "number", !.attempt = c.attempt + 1] \in IssuerCalls
        <4>1. c.attempt + 1 \in Nat
          BY <1>2
        <4> HIDE DEF c
        <4> QED BY <1>2, <4>1 DEF IssuerCalls
      <3>2. OneCallMoves(i) /\ issuer'[i].step = "number"
        BY <1>2, <2>3, <3>1 DEF OneCallMoves, BooksInv, InvoicesTypes, IssuerCalls
      <3> QED BY <1>1, <2>1, <3>2, QuietBooksStep DEF Calls
    <2> QED BY <1>3, <2>2, <2>3 DEF CreateRow
  <1>4. CASE IsFree(c.order, c.number)
    <2>1. x \in InvoiceRows /\ invoices' = invoices \cup {x} /\ Turns(i, "store")
          /\ x.order = c.order /\ x.number = c.number
      BY <1>2, <1>4 DEF CreateRow, InvoiceRows
    <2> HIDE DEF x
    <2>2. /\ invoices' \subseteq InvoiceRows /\ IsFiniteSet(invoices') /\ Numbered(invoices')
          /\ Cardinality(invoices') = Cardinality(invoices) + 1
      BY <1>2, <1>4, <2>1, NewRowIsNext DEF BooksInv
    <2>3. /\ OneCallMoves(i) /\ issuer'[i].step = "store"
          /\ issuer'[i].order = c.order /\ issuer'[i].number = c.number
      BY <1>2, <2>1 DEF Turns, OneCallMoves, BooksInv, InvoicesTypes, IssuerCalls
    <2>4. Cardinality(invoices) \in Nat
      BY FS_CardinalityType DEF BooksInv, InvoicesTypes
    <2>5. IssuersKnow'
      <3> SUFFICES ASSUME NEW j \in Issuers
                   PROVE  /\ Calls(j, "create")' => issuer'[j].number \in 1..(Cardinality(invoices') + 1)
                          /\ issuer'[j].step \in {"store", "link"} =>
                              \E r \in invoices' : r.order = issuer'[j].order /\ r.number = issuer'[j].number
        BY DEF IssuersKnow
      <3>1. CASE j = i
        BY <2>1, <2>3, <3>1 DEF Calls
      <3>2. CASE j # i
        <4>1. issuer'[j] = issuer[j]
          BY <2>3, <3>2 DEF OneCallMoves
        <4>2. Calls(j, "create") => issuer[j].number \in 1..(Cardinality(invoices) + 1)
          BY DEF BooksInv, IssuersKnow
        <4>3. Calls(j, "create")' => issuer'[j].number \in 1..(Cardinality(invoices') + 1)
          BY <2>2, <2>4, <4>1, <4>2 DEF Calls
        <4> QED BY <2>1, <4>1, <4>3 DEF BooksInv, IssuersKnow
      <3> QED BY <3>1, <3>2
    <2>6. LinksAreReal'
      <3>1. sale[c.order].invoice = NoNumber
        BY <1>2, <1>4 DEF BooksInv, LinksAreReal, IsFree
      <3>2. ASSUME NEW r \in invoices' PROVE Linked(r)'
        <4>1. CASE r = x
          BY <1>1, <2>1, <2>3, <3>1, <4>1 DEF Linked
        <4>2. CASE r \in invoices
          BY <1>1, <2>3, <4>2 DEF BooksInv, LinksAreReal, Linked, OneCallMoves, Calls
        <4> QED BY <2>1, <4>1, <4>2
      <3>3. ASSUME NEW o \in Sales, InvoiceOf(o)' = {} PROVE sale'[o].invoice = NoNumber
        BY <1>1, <2>1, <3>3 DEF BooksInv, LinksAreReal, InvoiceOf
      <3> QED BY <3>2, <3>3 DEF LinksAreReal
    <2>7. InvoicesTypes'
      BY <1>1, <2>2, <2>3 DEF BooksInv, InvoicesTypes, OneCallMoves
    <2> QED BY <2>2, <2>5, <2>6, <2>7 DEF BooksInv
  <1> QED BY <1>3, <1>4

(* A call ends at its order, linked or cut off.                            *)
LEMMA CallEndsInv ==
    ASSUME BooksInv, NEW i \in Issuers, issuer[i].step \in {"store", "link"}, EndsCall(i), UNCHANGED invoices,
           sale' \in [Sales -> SaleRows], \A o \in Sales \ {issuer[i].order} : sale'[o].invoice = sale[o].invoice,
           \/ /\ sale'[issuer[i].order].invoice = issuer[i].number /\ UNCHANGED unfinished
           \/ /\ UNCHANGED sale /\ unfinished' = unfinished \cup {issuer[i].order}
    PROVE  BooksInv'
  <1>1. issuer[i].order \in Sales
    BY CallIsTyped DEF BooksInv
  <1>2. OneCallMoves(i) /\ issuer'[i].step = "none"
    BY DEF EndsCall, OneCallMoves, BooksInv, InvoicesTypes, IssuerCalls, NoCall
  <1>3. PICK r \in invoices : /\ InvoiceOf(issuer[i].order) = {r}
                             /\ r.order = issuer[i].order /\ r.number = issuer[i].number
    BY OnlyRow
  <1>4. InvoicesTypes'
    BY <1>1, <1>2 DEF BooksInv, InvoicesTypes, OneCallMoves
  <1>5. Numbered(invoices)'
    BY DEF BooksInv, Numbered, RowsAreDistinct, InvoiceNumbers, InvoicedOrders
  <1>6. IssuersKnow'
    BY <1>2 DEF BooksInv, IssuersKnow, OneCallMoves, Calls
  <1>7. LinksAreReal'
    <2>1. ASSUME NEW s \in invoices PROVE Linked(s)'
      <3>0. s.order \in Sales
        BY DEF BooksInv, InvoicesTypes, InvoiceRows
      <3>1. CASE s = r
        BY <1>3, <3>1 DEF BooksInv, LinksAreReal, Linked
      <3>2. CASE s # r
        <4>1. s.number # r.number /\ s.order # r.order
          BY <3>2 DEF BooksInv, Numbered, RowsAreDistinct
        <4> QED BY <1>2, <1>3, <3>0, <4>1 DEF BooksInv, LinksAreReal, Linked, OneCallMoves
      <3> QED BY <3>1, <3>2
    <2>2. ASSUME NEW o \in Sales, InvoiceOf(o)' = {} PROVE sale'[o].invoice = NoNumber
      <3>1. InvoiceOf(o) = {} /\ o # issuer[i].order
        BY <1>3, <2>2 DEF InvoiceOf
      <3> QED BY <3>1 DEF BooksInv, LinksAreReal
    <2> QED BY <2>1, <2>2 DEF LinksAreReal
  <1> QED BY <1>4, <1>5, <1>6, <1>7 DEF BooksInv

LEMMA IssuerStepInv ==
    ASSUME BooksInv, NEW i \in Issuers,
           \/ \E o \in Sales : AskForInvoice(i, o)
           \/ GenerateInvoiceNumber(i) \/ CreateRow(i) \/ ArchivePdf(i) \/ LinkOrder(i) \/ IssuerStops(i)
    PROVE  BooksInv'
  <1>1. ASSUME NEW o \in Sales, AskForInvoice(i, o) PROVE BooksInv'
    <2>1. sale[o].status \in {"CONFIRMED", "PENDING_PAYMENT", "CANCELLED"}
      BY DEF BooksInv, InvoicesTypes, SaleRows
    <2>2. OneCallMoves(i) /\ issuer'[i].step = "number"
      BY <1>1, <2>1 DEF AskForInvoice, OneCallMoves, BooksInv, InvoicesTypes, IssuerCalls, NoNumber
    <2> QED BY <1>1, <2>2, QuietBooksStep DEF AskForInvoice, Calls
  <1>2. CASE GenerateInvoiceNumber(i)
    <2>1. NextNumber = Cardinality(invoices) + 1 /\ Cardinality(invoices) \in Nat
      BY NextNumberFact, FS_CardinalityType DEF BooksInv, InvoicesTypes
    <2>2. issuer[i] \in IssuerCalls \ {NoCall}
      BY <1>2, CallIsTyped DEF BooksInv, GenerateInvoiceNumber, Calls
    <2>3. OneCallMoves(i) /\ issuer'[i].step = "create" /\ issuer'[i].number = NextNumber
      <3> DEFINE n == NextNumber
                 new == [issuer[i] EXCEPT !.step = "create", !.number = n]
      <3>1. issuer' = [issuer EXCEPT ![i].step = "create", ![i].number = n]
        BY <1>2 DEF GenerateInvoiceNumber
      <3>2. n \in Nat
        BY <2>1
      <3> HIDE DEF n
      <3>3. new \in IssuerCalls /\ new.step = "create" /\ new.number = n
        BY <2>2, <3>2 DEF IssuerCalls
      <3>4. /\ issuer' \in [Issuers -> IssuerCalls] /\ issuer'[i] = new
            /\ \A j \in Issuers \ {i} : issuer'[j] = issuer[j]
        BY <3>1, <3>3 DEF BooksInv, InvoicesTypes
      <3> QED BY <3>3, <3>4 DEF OneCallMoves, n
    <2> QED BY <1>2, <2>1, <2>3, QuietBooksStep DEF GenerateInvoiceNumber, Calls
  <1>3. CASE ArchivePdf(i)
    <2>1. issuer[i].step = "store" /\ UNCHANGED <<sale, unfinished>>
      BY <1>3 DEF ArchivePdf, Calls
    <2>2. /\ issuer' \in [Issuers -> IssuerCalls] /\ issuer'[i].step = "link"
          /\ issuer'[i].order = issuer[i].order /\ issuer'[i].number = issuer[i].number
          /\ \A j \in Issuers \ {i} : issuer'[j] = issuer[j]
      BY <1>3, <2>1, CallIsTyped DEF ArchivePdf, Turns, BooksInv, InvoicesTypes, IssuerCalls
    <2>3. PICK r \in invoices : InvoiceOf(issuer[i].order) = {r} /\ r.order = issuer[i].order
      BY <2>1, OnlyRow
    <2>4. r \in InvoiceRows
      BY DEF BooksInv, InvoicesTypes
    <2>5. PICK x \in {r, Archived(r)} : invoices' = (invoices \ {r}) \cup {x}
      BY <1>3, <2>3 DEF ArchivePdf, Rewrite
    <2>6. x \in InvoiceRows /\ x.order = r.order /\ x.number = r.number
      BY <2>4 DEF Archived, InvoiceRows
    <2> QED BY <2>1, <2>2, <2>5, <2>6, SameRowStep
  <1>4. CASE LinkOrder(i)
    <2> DEFINE c == issuer[i]
    <2>1. c.step = "link" /\ EndsCall(i) /\ UNCHANGED <<invoices, unfinished>>
      BY <1>4 DEF LinkOrder, Calls
    <2>2. c.order \in Sales /\ c.number \in Nat
      BY <2>1, CallIsTyped DEF BooksInv
    <2>3. sale' = [sale EXCEPT ![c.order].invoice = c.number,
                               ![c.order].status = IF c.seen = "PENDING_PAYMENT" THEN "CONFIRMED" ELSE @]
      BY <1>4 DEF LinkOrder
    <2> HIDE DEF c
    <2>4. /\ sale' \in [Sales -> SaleRows] /\ sale'[c.order].invoice = c.number
          /\ \A o \in Sales \ {c.order} : sale'[o].invoice = sale[o].invoice
      BY <2>2, <2>3 DEF BooksInv, InvoicesTypes, SaleRows
    <2> QED BY <2>1, <2>4, CallEndsInv DEF c
  <1>5. CASE IssuerStops(i)
    <2>1. CASE issuer[i].step \in {"store", "link"}
      BY <1>5, <2>1, CallEndsInv DEF IssuerStops, BooksInv, InvoicesTypes
    <2>2. CASE issuer[i].step \notin {"store", "link"}
      <3>1. OneCallMoves(i) /\ issuer'[i].step = "none"
        BY <1>5 DEF IssuerStops, EndsCall, OneCallMoves, BooksInv, InvoicesTypes, IssuerCalls, NoCall
      <3> QED BY <1>5, <2>2, <3>1, QuietBooksStep DEF IssuerStops
    <2> QED BY <2>1, <2>2
  <1> QED BY <1>1, <1>2, <1>3, <1>4, <1>5, CreateRowInv

LEMMA BooksStepInv == BooksInv /\ [InvoiceStep]_invoiceVars => BooksInv'
  <1> SUFFICES ASSUME BooksInv, [InvoiceStep]_invoiceVars PROVE BooksInv'
    OBVIOUS
  <1>1. CASE UNCHANGED invoiceVars
    BY <1>1 DEF invoiceVars, BooksInv, InvoicesTypes, Numbered, RowsAreDistinct, InvoiceNumbers,
                InvoicedOrders, IssuersKnow, Calls, LinksAreReal, Linked, InvoiceOf
  <1>2. ASSUME NEW r \in invoices, RegenerateInvoicePdf(r) \/ CancelInvoice(r) PROVE BooksInv'
    <2>1. r \in InvoiceRows
      BY DEF BooksInv, InvoicesTypes
    <2>2. PICK x \in {Archived(r), Cancelled(r)} : invoices' = (invoices \ {r}) \cup {x}
      BY <1>2 DEF RegenerateInvoicePdf, CancelInvoice, Rewrite
    <2>3. x \in InvoiceRows /\ x.order = r.order /\ x.number = r.number
      BY <2>1 DEF Archived, Cancelled, InvoiceRows
    <2>4. UNCHANGED <<sale, issuer, unfinished>>
      BY <1>2 DEF RegenerateInvoicePdf, CancelInvoice
    <2> QED BY <2>2, <2>3, <2>4, SameRowStep DEF BooksInv, InvoicesTypes
  <1>3. ASSUME NEW o \in Sales, SettleSale(o) \/ CancelSale(o) PROVE BooksInv'
    <2>1. sale' \in [Sales -> SaleRows] /\ \A p \in Sales : sale'[p].invoice = sale[p].invoice
      <3>1. CASE SettleSale(o)
        BY <3>1 DEF SettleSale, BooksInv, InvoicesTypes, SaleRows
      <3>2. CASE CancelSale(o)
        BY <3>2 DEF CancelSale, BooksInv, InvoicesTypes, SaleRows
      <3> QED BY <1>3, <3>1, <3>2
    <2> QED BY <1>3, <2>1, OrderStep DEF SettleSale, CancelSale
  <1> QED BY <1>1, <1>2, <1>3, IssuerStepInv DEF InvoiceStep

(* The numbers of the invoices run without a gap, every order has one at   *)
(* most, and what is not linked is being linked or was cut off, for any    *)
(* number of overlapping calls and however often a number is tried.        *)
THEOREM InvoicesAreInOrder == InvoicesSpec => []BooksAreInOrder
  <1>1. BooksInv => BooksAreInOrder
    BY DEF BooksInv, BooksAreInOrder, Numbered, InvoiceNumbers, InvoicedOrders, LinksAreReal, Linked
  <1> QED BY BooksInitInv, BooksStepInv, <1>1, PTL DEF InvoicesSpec

----------------------------------------------------------------------------
(* The reviews.                                                            *)

Cards == [counted : SUBSET ReviewIds, rated : SUBSET ReviewIds]
Derivations ==
    [kind : {"refresh"}, todo : SUBSET Queries, counted : SUBSET ReviewIds,
     rated : SUBSET ReviewIds, alone : BOOLEAN]
ReviewHandlers ==
    [kind : {"none"}] \cup [kind : {"submit"}, author : Authors]
    \cup [kind : {"form"}, loaded : Cards] \cup Derivations

Submitting(q, a) == reviewReq[q].kind = "submit" /\ reviewReq[q].author = a

(* A derivation that nothing disturbed has read the approved set as it is; *)
(* where nothing went astray the card shows it or is about to; and who is  *)
(* about to submit has no review, or was hasty.                            *)
ReviewsInv ==
    /\ review \in [ReviewIds -> [state : ReviewStates, author : Authors]]
    /\ card \in Cards
    /\ reviewReq \in [ReviewRequests -> ReviewHandlers]
    /\ astray \in BOOLEAN
    /\ \A q \in ReviewRequests : Refreshing(q) /\ reviewReq[q].alone =>
        /\ "count" \notin reviewReq[q].todo => reviewReq[q].counted = Approved
        /\ "average" \notin reviewReq[q].todo => reviewReq[q].rated = Approved
    /\ ~astray =>
        \/ card = [counted |-> Approved, rated |-> Approved]
        \/ \E q \in ReviewRequests : Refreshing(q)
    /\ \A q1, q2 \in ReviewRequests, a \in Authors :
        Submitting(q1, a) /\ Submitting(q2, a) /\ a \notin hasty => q1 = q2
    /\ \A q \in ReviewRequests, a \in Authors : Submitting(q, a) /\ a \notin hasty => By(a) = {}
    /\ OneReviewPerAuthor

LEMMA ReviewsInitInv == ReviewsInit => ReviewsInv
  <1> SUFFICES ASSUME ReviewsInit PROVE ReviewsInv
    OBVIOUS
  <1>1. Approved = {} /\ Stored = {} /\ \A q \in ReviewRequests : reviewReq[q] = NoReview
    BY DEF ReviewsInit, Approved, Stored
  <1> QED
    BY <1>1 DEF ReviewsInit, ReviewsInv, ReviewStates, Cards, ReviewHandlers, NoReview, Refreshing,
                Submitting, By, OneReviewPerAuthor

(* The parts that a step of one request can put wrong, for the request of  *)
(* that step and for the others.                                           *)
Settled(q) ==
    Refreshing(q) /\ reviewReq[q].alone =>
        /\ "count" \notin reviewReq[q].todo => reviewReq[q].counted = Approved
        /\ "average" \notin reviewReq[q].todo => reviewReq[q].rated = Approved

(* A step of the desk's that leaves the reviews, and who submits, alone.   *)
LEMMA DeskTurn ==
    ASSUME ReviewsInv, NEW q \in ReviewRequests, NEW to \in ReviewHandlers, Becomes(q, to),
           to.kind # "submit", UNCHANGED <<review, hasty>>,
           card' \in Cards, astray' \in BOOLEAN,
           to.kind = "refresh" /\ to.alone =>
               /\ "count" \notin to.todo => to.counted = Approved
               /\ "average" \notin to.todo => to.rated = Approved,
           ~astray' => card' = [counted |-> Approved, rated |-> Approved] \/ \E o \in ReviewRequests : Refreshing(o)'
    PROVE  ReviewsInv'
  <1>1. /\ reviewReq' \in [ReviewRequests -> ReviewHandlers] /\ reviewReq'[q] = to
        /\ \A o \in ReviewRequests \ {q} : reviewReq'[o] = reviewReq[o]
    BY DEF Becomes, ReviewsInv
  <1>2. Approved' = Approved /\ Stored' = Stored /\ \A a : By(a)' = By(a)
    BY DEF Approved, Stored, By
  <1>3. \A o \in ReviewRequests, a \in Authors : Submitting(o, a)' => o # q /\ Submitting(o, a)
    BY <1>1 DEF Submitting
  <1>4. ASSUME NEW o \in ReviewRequests PROVE Settled(o)'
    BY <1>1, <1>2 DEF Settled, Refreshing, ReviewsInv
  <1>5. OneReviewPerAuthor'
    BY <1>2 DEF ReviewsInv, OneReviewPerAuthor
  <1> QED
    BY <1>1, <1>2, <1>3, <1>4, <1>5 DEF ReviewsInv, Settled, Cards, Refreshing

(* A step of a request that derives, or that the desk's form or a closed   *)
(* request takes, leaves the reviews alone.                                *)
LEMMA DerivationStepInv ==
    ASSUME ReviewsInv, NEW q \in ReviewRequests,
           CountApproved(q) \/ AverageApproved(q) \/ StoreCard(q) \/ OpenForm(q) \/ SaveForm(q) \/ ReviewDrop(q)
    PROVE  ReviewsInv'
  <1> DEFINE req == reviewReq[q]
  <1>1. req \in ReviewHandlers /\ (Refreshing(q) => req \in Derivations)
    BY DEF ReviewsInv, ReviewHandlers, Refreshing
  <1>2. Approved \in SUBSET ReviewIds /\ card \in Cards /\ astray \in BOOLEAN
    BY DEF Approved, ReviewsInv
  <1>3. CASE CountApproved(q)
    <2> DEFINE to == [req EXCEPT !.todo = @ \ {"count"}, !.counted = Approved]
    <2>1. to \in Derivations /\ Becomes(q, to) /\ Refreshing(q)
      BY <1>1, <1>2, <1>3 DEF CountApproved, Derivations
    <2>2. req.alone /\ "average" \notin req.todo => req.rated = Approved
      BY <2>1 DEF ReviewsInv
    <2>3. /\ to.kind = "refresh" /\ to.alone = req.alone /\ to.counted = Approved
          /\ to.rated = req.rated /\ to.todo = req.todo \ {"count"}
      BY <1>1, <2>1 DEF Derivations
    <2>4. Refreshing(q)'
      BY <2>1, <2>3 DEF Becomes, Refreshing, ReviewsInv
    <2> HIDE DEF to, req
    <2> QED
      BY <1>2, <1>3, <2>1, <2>2, <2>3, <2>4, DeskTurn DEF CountApproved, ReviewHandlers
  <1>4. CASE AverageApproved(q)
    <2> DEFINE to == [req EXCEPT !.todo = @ \ {"average"}, !.rated = Approved]
    <2>1. to \in Derivations /\ Becomes(q, to) /\ Refreshing(q)
      BY <1>1, <1>2, <1>4 DEF AverageApproved, Derivations
    <2>2. req.alone /\ "count" \notin req.todo => req.counted = Approved
      BY <2>1 DEF ReviewsInv
    <2>3. /\ to.kind = "refresh" /\ to.alone = req.alone /\ to.rated = Approved
          /\ to.counted = req.counted /\ to.todo = req.todo \ {"average"}
      BY <1>1, <2>1 DEF Derivations
    <2>4. Refreshing(q)'
      BY <2>1, <2>3 DEF Becomes, Refreshing, ReviewsInv
    <2> HIDE DEF to, req
    <2> QED
      BY <1>2, <1>4, <2>1, <2>2, <2>3, <2>4, DeskTurn DEF AverageApproved, ReviewHandlers
  <1>5. NoReview \in ReviewHandlers /\ NoReview.kind = "none"
    BY DEF NoReview, ReviewHandlers
  <1>6. CASE StoreCard(q)
    <2>1. /\ Becomes(q, NoReview) /\ req \in Derivations /\ req.todo = {}
          /\ card' = [counted |-> req.counted, rated |-> req.rated] /\ astray' = ~req.alone
      BY <1>1, <1>6 DEF StoreCard
    <2>2. card' \in Cards /\ astray' \in BOOLEAN
      BY <2>1 DEF Cards, Derivations
    <2>3. ~astray' => req.counted = Approved /\ req.rated = Approved
      BY <1>6, <2>1 DEF StoreCard, ReviewsInv
    <2> QED
      BY <1>5, <1>6, <2>1, <2>2, <2>3, DeskTurn DEF StoreCard
  <1>7. ASSUME OpenForm(q) \/ SaveForm(q) \/ ReviewDrop(q), ~astray', ~Refreshing(q)
        PROVE  ~astray /\ (card' = card => card' = [counted |-> Approved, rated |-> Approved]
                                             \/ \E o \in ReviewRequests \ {q} : Refreshing(o))
    BY <1>7 DEF OpenForm, SaveForm, ReviewDrop, ReviewsInv
  <1>8. \A to : Becomes(q, to) => \A o \in ReviewRequests \ {q} : Refreshing(o)' = Refreshing(o)
    BY DEF Becomes, Refreshing, ReviewsInv
  <1>9. CASE OpenForm(q)
    <2>1. Becomes(q, [kind |-> "form", loaded |-> card]) /\ ~Refreshing(q)
      BY <1>9 DEF OpenForm, Refreshing, NoReview
    <2>2. [kind |-> "form", loaded |-> card] \in ReviewHandlers
      BY <1>2 DEF ReviewHandlers
    <2> QED
      BY <1>2, <1>7, <1>8, <1>9, <2>1, <2>2, DeskTurn DEF OpenForm
  <1>10. CASE SaveForm(q)
    <2>1. Becomes(q, NoReview) /\ ~Refreshing(q) /\ req.loaded \in Cards
      BY <1>1, <1>10 DEF SaveForm, Refreshing, ReviewHandlers, Derivations
    <2>2. card' \in Cards /\ astray' \in BOOLEAN /\ (~astray' => card' = card)
      BY <1>2, <1>10, <2>1 DEF SaveForm
    <2> QED
      BY <1>5, <1>7, <1>8, <1>10, <2>1, <2>2, DeskTurn DEF SaveForm
  <1>11. CASE ReviewDrop(q)
    <2>1. Becomes(q, NoReview) /\ UNCHANGED card /\ astray' \in BOOLEAN /\ (~astray' => ~Refreshing(q))
      BY <1>2, <1>11 DEF ReviewDrop, Refreshing
    <2> QED
      BY <1>2, <1>5, <1>7, <1>8, <1>11, <2>1, DeskTurn DEF ReviewDrop
  <1> QED
    BY <1>3, <1>4, <1>6, <1>9, <1>10, <1>11

(* The next state of the reviews, part by part.                            *)
LEMMA ReviewsInvParts ==
    ASSUME review' \in [ReviewIds -> [state : ReviewStates, author : Authors]], card' \in Cards, astray' \in BOOLEAN,
           reviewReq' \in [ReviewRequests -> ReviewHandlers], OneReviewPerAuthor',
           \A o \in ReviewRequests : Settled(o)',
           ~astray' => \/ card' = [counted |-> Approved', rated |-> Approved']
                       \/ \E o \in ReviewRequests : Refreshing(o)',
           \A q1, q2 \in ReviewRequests, b \in Authors :
                Submitting(q1, b)' /\ Submitting(q2, b)' /\ b \notin hasty' => q1 = q2,
           \A o \in ReviewRequests, b \in Authors : Submitting(o, b)' /\ b \notin hasty' => By(b)' = {}
    PROVE  ReviewsInv'
  BY DEF ReviewsInv, Settled

LEMMA SubmitStepInv ==
    ASSUME ReviewsInv, NEW q \in ReviewRequests,
           \/ \E a \in Authors : SubmitCheck(q, a)
           \/ \E r \in ReviewIds : SubmitCreate(q, r)
    PROVE  ReviewsInv'
  <1>1. ASSUME NEW a \in Authors, SubmitCheck(q, a) PROVE ReviewsInv'
    <2> DEFINE to == [kind |-> "submit", author |-> a]
    <2>1. /\ reviewReq' \in [ReviewRequests -> ReviewHandlers] /\ reviewReq'[q] = to
          /\ \A o \in ReviewRequests \ {q} : reviewReq'[o] = reviewReq[o]
      BY <1>1 DEF SubmitCheck, Becomes, ReviewsInv, ReviewHandlers
    <2>2. UNCHANGED <<review, card, astray>> /\ By(a) = {} /\ ~Refreshing(q) /\ hasty \subseteq hasty'
      BY <1>1 DEF SubmitCheck, NoReview, Refreshing
    <2>3. Approved' = Approved /\ Stored' = Stored /\ \A b : By(b)' = By(b)
      BY <2>2 DEF Approved, Stored, By
    <2>4. /\ \A o \in ReviewRequests \ {q}, b \in Authors : Submitting(o, b)' <=> Submitting(o, b)
          /\ \A b \in Authors : Submitting(q, b)' => b = a
          /\ \A o \in ReviewRequests : Refreshing(o)' <=> Refreshing(o)
      BY <2>1, <2>2 DEF Submitting, Refreshing
    <2>5. ASSUME NEW o \in ReviewRequests, o # q, Submitting(o, a) PROVE a \in hasty'
      <3>1. reviewReq[o] \in [kind : {"submit"}, author : Authors] /\ reviewReq[o].author = a
        BY <2>5 DEF Submitting, ReviewsInv, ReviewHandlers, Derivations
      <3>2. reviewReq[o] = [kind |-> "submit", author |-> a]
        BY <3>1
      <3> QED BY <1>1, <3>2 DEF SubmitCheck
    <2>6. ASSUME NEW o \in ReviewRequests PROVE Settled(o)'
      BY <2>1, <2>2, <2>3, <2>4 DEF Settled, Refreshing, ReviewsInv
    <2>7. OneReviewPerAuthor'
      BY <2>2, <2>3 DEF ReviewsInv, OneReviewPerAuthor
    <2>8. \A q1, q2 \in ReviewRequests, b \in Authors :
            Submitting(q1, b)' /\ Submitting(q2, b)' /\ b \notin hasty' => q1 = q2
      BY <2>2, <2>4, <2>5 DEF ReviewsInv
    <2>9. \A o \in ReviewRequests, b \in Authors : Submitting(o, b)' /\ b \notin hasty' => By(b)' = {}
      BY <2>2, <2>3, <2>4 DEF ReviewsInv
    <2>10. review' \in [ReviewIds -> [state : ReviewStates, author : Authors]]
      BY <2>2 DEF ReviewsInv
    <2>11. card' \in Cards /\ astray' \in BOOLEAN
      BY <2>2 DEF ReviewsInv, Cards
    <2>12. ~astray' => \/ card' = [counted |-> Approved', rated |-> Approved']
                       \/ \E o \in ReviewRequests : Refreshing(o)'
      BY <2>2, <2>3, <2>4 DEF ReviewsInv
    <2> QED
      BY <2>1, <2>6, <2>7, <2>8, <2>9, <2>10, <2>11, <2>12, ReviewsInvParts
  <1>2. ASSUME NEW r \in ReviewIds, SubmitCreate(q, r) PROVE ReviewsInv'
    <2> DEFINE a == review[r].author
    <2>1. /\ reviewReq' \in [ReviewRequests -> ReviewHandlers] /\ reviewReq'[q] = NoReview
          /\ \A o \in ReviewRequests \ {q} : reviewReq'[o] = reviewReq[o]
      BY <1>2 DEF SubmitCreate, Becomes, ReviewsInv, ReviewHandlers, NoReview
    <2>2. /\ UNCHANGED <<card, astray, hasty>> /\ a \in Authors /\ Submitting(q, a)
          /\ review[r].state = "none" /\ ~Refreshing(q)
      BY <1>2 DEF SubmitCreate, Submitting, Refreshing, ReviewsInv
    <2>3. /\ review' \in [ReviewIds -> [state : ReviewStates, author : Authors]]
          /\ review'[r].state = "pending" /\ review'[r].author = a
          /\ \A s \in ReviewIds \ {r} : review'[s] = review[s]
      BY <1>2 DEF SubmitCreate, ReviewsInv, ReviewStates
    <2>4. Approved' = Approved /\ Stored' = Stored \cup {r} /\ \A b \in Authors \ {a} : By(b)' = By(b)
      BY <2>2, <2>3 DEF Approved, Stored, By
    <2>5. /\ \A o \in ReviewRequests \ {q}, b \in Authors : Submitting(o, b)' <=> Submitting(o, b)
          /\ \A b \in Authors : ~Submitting(q, b)'
          /\ \A o \in ReviewRequests : Refreshing(o)' <=> Refreshing(o)
      BY <2>1, <2>2 DEF Submitting, Refreshing, NoReview
    <2>6. ASSUME NEW o \in ReviewRequests PROVE Settled(o)'
      BY <2>1, <2>2, <2>4, <2>5 DEF Settled, Refreshing, ReviewsInv
    <2>7. OneReviewPerAuthor'
      <3> SUFFICES ASSUME NEW r1 \in Stored', NEW r2 \in Stored', review'[r1].author = review'[r2].author,
                          review'[r1].author \notin hasty, r1 # r2
                   PROVE  FALSE
        BY <2>2 DEF OneReviewPerAuthor
      <3>1. CASE r1 # r /\ r2 # r
        BY <2>3, <2>4, <3>1 DEF ReviewsInv, OneReviewPerAuthor, Stored
      <3>2. CASE r1 = r \/ r2 = r
        <4>1. a \notin hasty /\ By(a) # {}
          BY <2>3, <2>4, <3>2 DEF By, Stored
        <4> QED BY <2>2, <4>1 DEF ReviewsInv
      <3> QED BY <3>1, <3>2
    <2>8. \A o \in ReviewRequests, b \in Authors : Submitting(o, b)' /\ b \notin hasty => By(b)' = {}
      BY <2>2, <2>4, <2>5 DEF ReviewsInv
    <2>9. \A q1, q2 \in ReviewRequests, b \in Authors :
            Submitting(q1, b)' /\ Submitting(q2, b)' /\ b \notin hasty' => q1 = q2
      BY <2>2, <2>5 DEF ReviewsInv
    <2>10. card' \in Cards /\ astray' \in BOOLEAN
      BY <2>2 DEF ReviewsInv, Cards
    <2>11. ~astray' => \/ card' = [counted |-> Approved', rated |-> Approved']
                       \/ \E o \in ReviewRequests : Refreshing(o)'
      BY <2>2, <2>4, <2>5 DEF ReviewsInv
    <2> QED
      BY <2>1, <2>2, <2>3, <2>6, <2>7, <2>8, <2>9, <2>10, <2>11, ReviewsInvParts
  <1> QED BY <1>1, <1>2

(* A verdict on a stored review, or its deletion: no review appears, and   *)
(* where the approved set changes every derivation under way knows it.     *)
LEMMA VerdictInv ==
    ASSUME ReviewsInv, NEW r \in Stored, NEW state \in ReviewStates \ {"none"},
           review' = [review EXCEPT ![r].state = state], UNCHANGED <<card, hasty>>,
           astray' \in BOOLEAN, reviewReq' \in [ReviewRequests -> ReviewHandlers],
           \A q \in ReviewRequests, a \in Authors : Submitting(q, a)' => Submitting(q, a),
           Approved' = Approved => \A q \in ReviewRequests : Settled(q)',
           Approved' # Approved => \A q \in ReviewRequests, d \in Derivations :
               reviewReq'[q] = d /\ d.alone => d.todo = Queries,
           ~astray' => \/ card = [counted |-> Approved, rated |-> Approved] /\ Approved' = Approved
                       \/ \E q \in ReviewRequests : Refreshing(q)'
    PROVE  ReviewsInv'
  <1>1. /\ review' \in [ReviewIds -> [state : ReviewStates, author : Authors]]
        /\ \A s \in ReviewIds : review'[s].author = review[s].author
        /\ \A s \in ReviewIds : review'[s].state = IF s = r THEN state ELSE review[s].state
    BY DEF ReviewsInv, Stored
  <1>2. Stored' \subseteq Stored /\ \A a : By(a)' \subseteq By(a)
    BY <1>1 DEF Stored, By
  <1>3. ASSUME NEW q \in ReviewRequests PROVE Settled(q)'
    <2>1. Refreshing(q)' => reviewReq'[q] \in Derivations
      BY DEF Refreshing, ReviewHandlers
    <2> QED BY <2>1 DEF Settled, Derivations, Queries
  <1>4. OneReviewPerAuthor'
    BY <1>1, <1>2 DEF ReviewsInv, OneReviewPerAuthor, Stored
  <1>5. \A q \in ReviewRequests, a \in Authors : Submitting(q, a)' /\ a \notin hasty => By(a)' = {}
    BY <1>2 DEF ReviewsInv
  <1>6. \A q1, q2 \in ReviewRequests, a \in Authors :
          Submitting(q1, a)' /\ Submitting(q2, a)' /\ a \notin hasty => q1 = q2
    BY DEF ReviewsInv
  <1>7. card' \in Cards
    BY DEF ReviewsInv
  <1>8. ~astray' => card' = [counted |-> Approved', rated |-> Approved'] \/ \E q \in ReviewRequests : Refreshing(q)'
    OBVIOUS
  <1> QED
    BY <1>1, <1>3, <1>4, <1>5, <1>6, <1>7, <1>8 DEF ReviewsInv, Settled

LEMMA DisturbedFact ==
    ASSUME ReviewsInv
    PROVE  /\ Disturbed \in [ReviewRequests -> ReviewHandlers]
           /\ \A q \in ReviewRequests : Disturbed[q].kind = reviewReq[q].kind
           /\ \A q \in ReviewRequests : ~Refreshing(q) => Disturbed[q] = reviewReq[q]
           /\ \A q \in ReviewRequests : Refreshing(q) => ~Disturbed[q].alone
  <1> SUFFICES ASSUME NEW q \in ReviewRequests
               PROVE  /\ Disturbed[q] \in ReviewHandlers /\ Disturbed[q].kind = reviewReq[q].kind
                      /\ ~Refreshing(q) => Disturbed[q] = reviewReq[q]
                      /\ Refreshing(q) => ~Disturbed[q].alone
    BY DEF Disturbed
  <1>1. reviewReq[q] \in ReviewHandlers
    BY DEF ReviewsInv
  <1>2. CASE Refreshing(q)
    <2>1. reviewReq[q] \in Derivations /\ Disturbed[q] = [reviewReq[q] EXCEPT !.alone = FALSE]
      BY <1>1, <1>2 DEF Refreshing, ReviewHandlers, Disturbed
    <2>2. Disturbed[q] \in Derivations /\ ~Disturbed[q].alone
      BY <2>1 DEF Derivations
    <2> QED BY <1>2, <2>1, <2>2 DEF ReviewHandlers, Derivations, Refreshing
  <1>3. CASE ~Refreshing(q)
    BY <1>1, <1>3 DEF Disturbed
  <1> QED BY <1>2, <1>3

LEMMA ModerateInv ==
    ASSUME ReviewsInv, NEW q \in ReviewRequests, NEW r \in ReviewIds, NEW verdict \in Verdicts,
           Moderate(q, r, verdict)
    PROVE  ReviewsInv'
  <1> DEFINE new == [kind |-> "refresh", todo |-> Queries, counted |-> {}, rated |-> {}, alone |-> TRUE]
  <1>1. /\ reviewReq' = [Disturbed EXCEPT ![q] = new] /\ r \in Stored /\ UNCHANGED <<card, astray, hasty>>
        /\ review' = [review EXCEPT ![r].state = verdict]
    BY DEF Moderate, Recomputes
  <1>2. new \in Derivations /\ new \in ReviewHandlers /\ new.kind = "refresh" /\ new.todo = Queries
    BY DEF Derivations, ReviewHandlers
  <1> HIDE DEF new
  <1>3. /\ reviewReq' \in [ReviewRequests -> ReviewHandlers] /\ reviewReq'[q] = new
        /\ \A o \in ReviewRequests \ {q} : reviewReq'[o] = Disturbed[o]
    BY <1>1, <1>2, DisturbedFact
  <1>4. \A o \in ReviewRequests, a \in Authors : Submitting(o, a)' => Submitting(o, a)
    BY <1>2, <1>3, DisturbedFact DEF Submitting, Refreshing
  <1>5. \A o \in ReviewRequests : Refreshing(o)' /\ reviewReq'[o].alone => reviewReq'[o].todo = Queries
    BY <1>2, <1>3, DisturbedFact DEF Refreshing
  <1>6. \A o \in ReviewRequests : Settled(o)'
    BY <1>5 DEF Settled, Queries
  <1>7. Refreshing(q)'
    BY <1>2, <1>3 DEF Refreshing
  <1>8. \A o \in ReviewRequests, d \in Derivations : reviewReq'[o] = d /\ d.alone => d.todo = Queries
    BY <1>5 DEF Derivations, Refreshing
  <1>9. verdict \in ReviewStates \ {"none"} /\ astray' \in BOOLEAN
    BY <1>1 DEF Verdicts, ReviewStates, ReviewsInv
  <1> QED
    BY <1>1, <1>3, <1>4, <1>6, <1>7, <1>8, <1>9, VerdictInv

LEMMA DeletionInv ==
    ASSUME ReviewsInv, NEW r \in ReviewIds, DeleteReview(r)
    PROVE  ReviewsInv'
  <1>1. /\ r \in Stored /\ UNCHANGED <<card, hasty>> /\ review' = [review EXCEPT ![r].state = "deleted"]
        /\ r \in Approved => reviewReq' = Disturbed /\ astray'
        /\ r \notin Approved => reviewReq' = reviewReq /\ astray' = astray
    BY DEF DeleteReview
  <1>2. "deleted" \in ReviewStates \ {"none"}
    BY DEF ReviewStates
  <1>3. CASE r \in Approved
    <2>1. Approved' # Approved
      BY <1>1, <1>3 DEF Approved, ReviewsInv
    <2>2. \A o \in ReviewRequests, d \in Derivations : reviewReq'[o] = d => ~d.alone
      <3> SUFFICES ASSUME NEW o \in ReviewRequests, NEW d \in Derivations, reviewReq'[o] = d PROVE ~d.alone
        OBVIOUS
      <3>1. d.kind = "refresh" /\ Disturbed[o] = d
        BY <1>1, <1>3 DEF Derivations
      <3> QED BY <3>1, DisturbedFact DEF Refreshing
    <2>3. \A o \in ReviewRequests, a \in Authors : Submitting(o, a)' => Submitting(o, a)
      BY <1>1, <1>3, DisturbedFact DEF Submitting, Refreshing
    <2>4. reviewReq' \in [ReviewRequests -> ReviewHandlers] /\ astray' \in BOOLEAN
      BY <1>1, <1>3, DisturbedFact DEF DeleteReview
    <2> QED
      BY <1>1, <1>2, <1>3, <2>1, <2>2, <2>3, <2>4, VerdictInv
  <1>4. CASE r \notin Approved
    <2>1. Approved' = Approved
      BY <1>1, <1>4 DEF Approved, ReviewsInv
    <2>2. \A o \in ReviewRequests : Settled(o)' /\ (Refreshing(o)' <=> Refreshing(o))
      BY <1>1, <1>4, <2>1 DEF Settled, Refreshing, ReviewsInv
    <2>3. \A o \in ReviewRequests, a \in Authors : Submitting(o, a)' => Submitting(o, a)
      BY <1>1, <1>4 DEF Submitting
    <2>4. /\ reviewReq' \in [ReviewRequests -> ReviewHandlers] /\ astray' \in BOOLEAN
          /\ ~astray' => card = [counted |-> Approved, rated |-> Approved] \/ \E o \in ReviewRequests : Refreshing(o)
      BY <1>1, <1>4 DEF ReviewsInv
    <2> QED
      BY <1>1, <1>2, <2>1, <2>2, <2>3, <2>4, VerdictInv
  <1> QED BY <1>3, <1>4

LEMMA ReviewsStepInv == ReviewsInv /\ [ReviewStep]_reviewVars => ReviewsInv'
  <1> SUFFICES ASSUME ReviewsInv, [ReviewStep]_reviewVars PROVE ReviewsInv'
    OBVIOUS
  <1>1. CASE UNCHANGED reviewVars
    BY <1>1 DEF reviewVars, ReviewsInv, Refreshing, Submitting, By, Stored, Approved, OneReviewPerAuthor
  <1> QED
    BY <1>1, DerivationStepInv, SubmitStepInv, ModerateInv, DeletionInv DEF ReviewStep

(* The card follows the verdicts, and nobody has two reviews, except where *)
(* a named mishap says so: for any reviews, authors and number of requests.*)
THEOREM ReviewsAreCounted == ReviewsSpec => []ReviewsHold
  <1>1. ReviewsInv => ReviewsHold
    BY DEF ReviewsInv, ReviewsHold, CardIsCurrent, OneReviewPerAuthor
  <1> QED BY ReviewsInitInv, ReviewsStepInv, <1>1, PTL DEF ReviewsSpec

----------------------------------------------------------------------------
(* The two books of payments.                                              *)

TryRecords ==
    [of : Payments \cup {Stranger}, status : {"created", "authorized", "captured", "failed", "refunded"},
     soon : BOOLEAN, exact : BOOLEAN]

BooksAreTyped ==
    /\ book \in [Payments -> RowStatuses]
    /\ \E n \in Nat : try \in [1..n -> TryRecords]
    /\ drifted \subseteq Payments \cup {Stranger}

(* A report knows a row and the payments of it as they were when it read   *)
(* them, and that is how they are, unless the row has drifted; a report on *)
(* all rows has read every payment of the row or is still to read it.      *)
ReportIsInformed(r) ==
    /\ r = [phase |-> "reading", kind |-> r.kind, cut |-> r.cut, rows |-> r.rows, left |-> r.left, seen |-> r.seen]
    /\ r.kind \in {"all", "single"}
    /\ DOMAIN r.rows \subseteq Payments
    /\ r.kind = "all" /\ DOMAIN r.rows # Payments => r.cut
    /\ r.left \subseteq Tries /\ DOMAIN r.seen \subseteq Tries
    /\ \A p \in DOMAIN r.rows \ drifted :
        /\ r.rows[p] = book[p]
        /\ \A a \in Of(p) \cap DOMAIN r.seen : r.seen[a] = try[a].status
        /\ r.kind = "all" => Of(p) \subseteq r.left \cup DOMAIN r.seen

ReconInv == BooksAreTyped /\ (Running => ReportIsInformed(report))

(* The newest of some payments.                                            *)
LEMMA NewestExists ==
    ASSUME BooksAreTyped, NEW S \in SUBSET Tries, S # {}
    PROVE  \E a \in S : \A b \in S : b <= a
<1>1. PICK n \in Nat : Tries = 1..n
  BY DEF BooksAreTyped, Tries
<1> DEFINE From(a) == {b \in S : a <= b}
           C == {From(a) : a \in S}
<1>2. IsFiniteSet(S) /\ S \subseteq Nat
  <2>1. IsFiniteSet(1..n)
    BY <1>1, FS_Interval
  <2>2. S \subseteq 1..n
    BY <1>1
  <2>3. S \subseteq Nat
    BY <2>2
  <2> QED BY <2>1, <2>2, <2>3, FS_Subset
<1>3. C \in SUBSET (SUBSET S) /\ C # {}
  OBVIOUS
<1>4. PICK t \in C : \A u \in C : u \subseteq t => u = t
  <2>1. IsFiniteSet(S)
    BY <1>2
  <2> HIDE DEF C
  <2> QED BY <1>3, <2>1, MinimalSubset
<1>5. PICK a \in S : t = From(a)
  BY <1>4
<1>6. ASSUME NEW b \in S, ~(b <= a) PROVE FALSE
  <2>1. From(b) \subseteq From(a) /\ a \in From(a) /\ a \notin From(b)
    <3>1. a \in Nat /\ b \in Nat /\ a < b
      BY <1>2, <1>6
    <3>2. \A c \in S : b <= c => a <= c
      BY <1>2, <3>1
    <3>3. a <= a /\ ~(b <= a)
      BY <3>1
    <3>4. From(b) \subseteq From(a)
      BY <3>2
    <3> QED BY <3>3, <3>4
  <2>2. From(b) \in C
    OBVIOUS
  <2> HIDE DEF From, C
  <2> QED BY <1>4, <1>5, <2>1, <2>2
<1> QED BY <1>6

LEMMA ReconInitInv == ReconInit => ReconInv
<1> SUFFICES ASSUME ReconInit PROVE ReconInv
  OBVIOUS
<1>1. try \in [1..0 -> TryRecords]
  BY DEF ReconInit
<1>2. ~Running
  BY DEF ReconInit, Running, NoReport
<1> QED BY <1>1, <1>2 DEF ReconInit, ReconInv, BooksAreTyped, RowStatuses

(* A book that changes on a row makes the row drift.                       *)
LEMMA DriftFact ==
    ASSUME ReconInv, BooksAreTyped', NEW p, Drifts(p), UNCHANGED report, Tries \subseteq Tries',
           \A q \in Payments \ {p} : book'[q] = book[q] /\ Of(q)' = Of(q),
           \A a \in Tries : try[a].of # p => try'[a] = try[a]
    PROVE  ReconInv'
<1>1. CASE Running
  <2>1. ReportIsInformed(report)
    BY <1>1 DEF ReconInv
  <2>2. drifted' = drifted \cup {p} /\ report' = report
    BY <1>1 DEF Drifts
  <2> DEFINE r == report
  <2>3. \A q \in DOMAIN r.rows \ drifted' :
            q \in DOMAIN r.rows \ drifted /\ q # p /\ q \in Payments
    BY <2>1, <2>2 DEF ReportIsInformed
  <2>4. ASSUME NEW q \in DOMAIN r.rows \ drifted'
        PROVE  /\ r.rows[q] = book'[q]
               /\ \A a \in Of(q)' \cap DOMAIN r.seen : r.seen[a] = try'[a].status
               /\ r.kind = "all" => Of(q)' \subseteq r.left \cup DOMAIN r.seen
    <3>1. q \in DOMAIN r.rows \ drifted /\ q # p /\ book'[q] = book[q] /\ Of(q)' = Of(q)
      BY <2>3
    <3>2. \A a \in Of(q) : a \in Tries /\ try[a].of = q
      BY DEF Of
    <3>3. \A a \in Of(q) : try'[a] = try[a]
      BY <3>1, <3>2
    <3> QED BY <2>1, <3>1, <3>3 DEF ReportIsInformed
  <2>5. r.left \subseteq Tries' /\ DOMAIN r.seen \subseteq Tries'
    BY <2>1 DEF ReportIsInformed
  <2>6. ReportIsInformed(report)'
    BY <2>1, <2>2, <2>4, <2>5 DEF ReportIsInformed
  <2> QED BY <2>6 DEF ReconInv
<1>2. CASE ~Running
  BY <1>2 DEF ReconInv, Running
<1> QED BY <1>1, <1>2

LEMMA TryInv ==
    ASSUME ReconInv, NEW p \in Payments \cup {Stranger}, NEW soon \in BOOLEAN, NEW exact \in BOOLEAN, Try(p, soon, exact)
    PROVE  ReconInv'
<1>1. PICK n \in Nat : try \in [1..n -> TryRecords]
  BY DEF ReconInv, BooksAreTyped
<1>2. Tries = 1..n /\ Cardinality(Tries) = n
  BY <1>1, FS_Interval DEF Tries
<1> DEFINE new == [of |-> p, status |-> "created", soon |-> soon, exact |-> exact]
<1>3. try' = [a \in 1..(n + 1) |-> IF a \in 1..n THEN try[a] ELSE new]
  BY <1>2 DEF Try
<1>4. new \in TryRecords /\ new.of = p
  BY DEF TryRecords
<1> HIDE DEF new
<1>5. /\ try' \in [1..(n + 1) -> TryRecords] /\ Tries \subseteq Tries' /\ Tries' = 1..(n + 1)
      /\ \A a \in Tries : try'[a] = try[a]
      /\ \A a \in Tries' : a \notin Tries => try'[a] = new
  BY <1>1, <1>2, <1>3, <1>4 DEF Tries
<1>6. \A q \in Payments \ {p} : book'[q] = book[q] /\ Of(q)' = Of(q)
  BY <1>4, <1>5 DEF Try, Of
<1>7. BooksAreTyped' /\ Drifts(p) /\ UNCHANGED report
  <2>1. drifted' \subseteq Payments \cup {Stranger}
    BY DEF ReconInv, BooksAreTyped, Try, Drifts
  <2>2. book' = book /\ n + 1 \in Nat
    BY DEF Try
  <2> QED BY <1>5, <2>1, <2>2 DEF ReconInv, BooksAreTyped, Try
<1> QED BY <1>5, <1>6, <1>7, DriftFact

LEMMA GatewayMoveInv == ASSUME ReconInv, NEW a \in Tries, NEW s, GatewayMove(a, s) PROVE ReconInv'
<1>1. PICK n \in Nat : try \in [1..n -> TryRecords]
  BY DEF ReconInv, BooksAreTyped
<1>2. Tries = 1..n /\ try[a] \in TryRecords
  BY <1>1 DEF Tries
<1>3. s \in {"authorized", "captured", "failed", "refunded"}
  BY <1>2 DEF GatewayMove, GatewayMoves, TryRecords
<1> DEFINE new == [try[a] EXCEPT !.status = s]
<1>4. new \in TryRecords /\ new.of = try[a].of
  BY <1>2, <1>3 DEF TryRecords
<1>5. try' = [try EXCEPT ![a] = new]
  BY DEF GatewayMove
<1> HIDE DEF new
<1>6. /\ try' \in [1..n -> TryRecords] /\ Tries' = Tries
      /\ \A b \in Tries : (b # a => try'[b] = try[b]) /\ try'[b].of = try[b].of
  BY <1>1, <1>2, <1>4, <1>5 DEF Tries
<1>7. \A q \in Payments \ {try[a].of} : book'[q] = book[q] /\ Of(q)' = Of(q)
  BY <1>6 DEF GatewayMove, Of
<1>8. BooksAreTyped'
  <2>1. drifted' \subseteq Payments \cup {Stranger}
    BY <1>2 DEF ReconInv, BooksAreTyped, GatewayMove, Drifts, TryRecords
  <2> QED BY <1>6, <2>1 DEF ReconInv, BooksAreTyped, GatewayMove
<1>9. \A b \in Tries : try[b].of # try[a].of => try'[b] = try[b]
  BY <1>6
<1>10. Drifts(try[a].of) /\ UNCHANGED report /\ Tries \subseteq Tries'
  BY <1>6 DEF GatewayMove
<1> QED BY <1>7, <1>8, <1>9, <1>10, DriftFact

LEMMA RecordInv == ASSUME ReconInv, NEW a \in Tries, Record(a) PROVE ReconInv'
<1> DEFINE p == try[a].of
<1>1. p \in Payments /\ book' = [book EXCEPT ![p] = try[a].status] /\ try[a].status \in RowStatuses
  BY DEF Record
<1>2. try' = try /\ report' = report /\ Drifts(p)
  BY DEF Record
<1>3. BooksAreTyped' /\ \A q \in Payments \ {p} : book'[q] = book[q]
  <2>1. drifted' \subseteq Payments \cup {Stranger}
    BY <1>1, <1>2 DEF ReconInv, BooksAreTyped, Drifts
  <2> HIDE DEF p
  <2> QED BY <1>1, <1>2, <2>1 DEF ReconInv, BooksAreTyped
<1>4. Tries' = Tries /\ \A q \in Payments : Of(q)' = Of(q)
  BY <1>2 DEF Tries, Of
<1> HIDE DEF p
<1> QED BY <1>2, <1>3, <1>4, DriftFact

(* A report that begins has read the rows and nothing else.                *)
LEMMA BeginFact ==
    ASSUME ReconInv, UNCHANGED <<book, try>>, drifted' = {}, NEW r, report' = r,
           r = [phase |-> "reading", kind |-> r.kind, cut |-> r.cut, rows |-> r.rows, left |-> r.left, seen |-> <<>>],
           r.kind \in {"all", "single"}, DOMAIN r.rows \subseteq Payments,
           r.kind = "all" /\ DOMAIN r.rows # Payments => r.cut,
           \A p \in DOMAIN r.rows : r.rows[p] = book[p],
           r.left \subseteq Tries, r.kind = "all" => r.left = Tries
    PROVE  ReconInv'
<1>1. DOMAIN r.seen = {} /\ r.seen = <<>>
  OBVIOUS
<1>2. ReportIsInformed(r)'
  BY <1>1 DEF ReportIsInformed, Tries, Of
<1> QED BY <1>2 DEF ReconInv, BooksAreTyped

LEMMA BeginReportInv ==
    ASSUME ReconInv, NEW filter, NEW rows \in SUBSET Payments, BeginReport(filter, rows) PROVE ReconInv'
<1> DEFINE r == [phase |-> "reading", kind |-> "all", cut |-> rows # Payments,
                 rows |-> Restrict(book, rows), left |-> Tries, seen |-> <<>>]
<1>1. report' = r /\ drifted' = {} /\ UNCHANGED <<book, try>>
  BY DEF BeginReport
<1>2. DOMAIN r.rows = rows /\ \A p \in rows : r.rows[p] = book[p]
  BY DEF Restrict
<1>3. /\ r = [phase |-> "reading", kind |-> r.kind, cut |-> r.cut, rows |-> r.rows, left |-> r.left, seen |-> <<>>]
      /\ r.kind = "all" /\ r.left = Tries /\ (rows # Payments => r.cut)
  OBVIOUS
<1> HIDE DEF r
<1> QED BY <1>1, <1>2, <1>3, BeginFact

LEMMA BeginSingleInv == ASSUME ReconInv, NEW p \in Payments, BeginSingle(p) PROVE ReconInv'
<1> DEFINE r == [phase |-> "reading", kind |-> "single", cut |-> TRUE,
                 rows |-> Restrict(book, {p}), left |-> {a \in Tries : try[a].soon}, seen |-> <<>>]
<1>1. report' = r /\ drifted' = {} /\ UNCHANGED <<book, try>>
  BY DEF BeginSingle
<1>2. DOMAIN r.rows = {p} /\ \A q \in {p} : r.rows[q] = book[q]
  BY DEF Restrict
<1>3. /\ r = [phase |-> "reading", kind |-> r.kind, cut |-> r.cut, rows |-> r.rows, left |-> r.left, seen |-> <<>>]
      /\ r.kind = "single" /\ r.left \subseteq Tries
  OBVIOUS
<1> HIDE DEF r
<1> QED BY <1>1, <1>2, <1>3, BeginFact

(* A page tells what the gateway's payment is now.                         *)
LEMMA FetchPageInv == ASSUME ReconInv, FetchPage PROVE ReconInv'
<1>1. ReportIsInformed(report)
  BY DEF ReconInv, FetchPage
<1> DEFINE a == CHOOSE a \in report.left : \A b \in report.left : b <= a
<1>2. a \in report.left
  <2>1. \E x \in report.left : \A b \in report.left : b <= x
    <3>1. report.left \in SUBSET Tries /\ report.left # {} /\ BooksAreTyped
      BY <1>1 DEF ReportIsInformed, FetchPage, ReconInv
    <3> QED BY <3>1, NewestExists
  <2> QED BY <2>1
<1> DEFINE seen == [b \in DOMAIN report.seen \cup {a} |-> IF b = a THEN try[a].status ELSE report.seen[b]]
<1>3. report' = [report EXCEPT !.left = report.left \ {a}, !.seen = seen]
  BY DEF FetchPage
<1> HIDE DEF a
<1>4. UNCHANGED <<book, try, drifted>>
  BY DEF FetchPage
<1>5. /\ DOMAIN seen = DOMAIN report.seen \cup {a}
      /\ \A b \in DOMAIN seen : seen[b] = IF b = a THEN try[b].status ELSE report.seen[b]
  OBVIOUS
<1> DEFINE r == [phase |-> "reading", kind |-> report.kind, cut |-> report.cut, rows |-> report.rows,
                 left |-> report.left \ {a}, seen |-> seen]
<1> HIDE DEF seen
<1>6. report' = r
  <2> DEFINE F == {"phase", "kind", "cut", "rows", "left", "seen"}
             left == report.left \ {a}
  <2>1. DOMAIN report = F /\ report.phase = "reading"
    BY <1>1 DEF ReportIsInformed
  <2>2. DOMAIN r = F /\ r = [f \in F |-> r[f]]
    OBVIOUS
  <2>3. report' = [f \in F |-> IF f = "seen" THEN seen ELSE IF f = "left" THEN left ELSE report[f]]
    BY <1>3, <2>1
  <2>4. \A f \in F : (IF f = "seen" THEN seen ELSE IF f = "left" THEN left ELSE report[f]) = r[f]
    BY <2>1
  <2> HIDE DEF F, r
  <2> QED BY <2>2, <2>3, <2>4
<1>7. /\ r = [phase |-> "reading", kind |-> r.kind, cut |-> r.cut, rows |-> r.rows, left |-> r.left, seen |-> r.seen]
      /\ r.kind = report.kind /\ r.cut = report.cut /\ r.rows = report.rows
      /\ r.left = report.left \ {a} /\ r.seen = seen
  OBVIOUS
<1> HIDE DEF r
<1>8. ReportIsInformed(r)
  BY <1>1, <1>2, <1>5, <1>7 DEF ReportIsInformed
<1>9. ReportIsInformed(report)'
  BY <1>4, <1>6, <1>8 DEF ReportIsInformed, Tries, Of
<1> QED BY <1>4, <1>9 DEF ReconInv, BooksAreTyped

LEMMA ReconStepInv == ReconInv /\ [ReconStep]_reconVars => ReconInv'
<1> SUFFICES ASSUME ReconInv, [ReconStep]_reconVars PROVE ReconInv'
  OBVIOUS
<1>1. CASE Try(Stranger, TRUE, TRUE)
  BY <1>1, TryInv
<1>2. CASE \E p \in Payments, soon, exact \in BOOLEAN : Try(p, soon, exact)
  BY <1>2, TryInv
<1>3. CASE \E a \in Tries : Record(a) \/ \E s \in RowStatuses \cup {"authorized"} : GatewayMove(a, s)
  BY <1>3, RecordInv, GatewayMoveInv
<1>4. CASE \E filter \in RowStatuses \cup {"all"}, rows \in SUBSET Payments : BeginReport(filter, rows)
  BY <1>4, BeginReportInv
<1>5. CASE \E p \in Payments : BeginSingle(p)
  BY <1>5, BeginSingleInv
<1>6. CASE Finish \/ FetchFails
  <2>1. BooksAreTyped' /\ ~Running'
    BY <1>6 DEF Finish, FetchFails, ReconInv, BooksAreTyped, Running, NoReport
  <2> QED BY <2>1 DEF ReconInv
<1>7. CASE UNCHANGED reconVars
  BY <1>7 DEF reconVars, ReconInv, BooksAreTyped, Running, ReportIsInformed, Tries, Of
<1> QED BY <1>1, <1>2, <1>3, <1>4, <1>5, <1>6, <1>7, FetchPageInv DEF ReconStep

----------------------------------------------------------------------------
(* What the comparison finds.                                              *)
LEMMA HonestFact == ReconInv => ReportIsHonest
<1> SUFFICES ASSUME ReconInv, Comparing, report.kind = "all"
             PROVE  /\ \A p \in Rows \ drifted :
                        /\ ~AgreeOn(p) => p \in Flagged \/ Fetched = {}
                        /\ AgreeOn(p) /\ p \in Flagged => Cardinality(Of(p)) > 1
                    /\ \A a \in MissingLocal : try[a].of = Stranger \/ report.cut
  BY DEF ReportIsHonest
<1>1. ReportIsInformed(report) /\ report.left = {}
  BY DEF ReconInv, Comparing
<1>2. PICK n \in Nat : try \in [1..n -> TryRecords]
  BY DEF ReconInv, BooksAreTyped
<1>3. ASSUME NEW a \in MissingLocal, ~report.cut PROVE try[a].of = Stranger
  <2>1. a \in Tries /\ try[a].of \notin Rows
    BY <1>1, <1>3 DEF MissingLocal, Matched, Fetched, ReportIsInformed
  <2>2. Rows = Payments
    BY <1>1, <1>3 DEF ReportIsInformed, Rows
  <2>3. try[a] \in TryRecords
    BY <1>2, <2>1 DEF Tries
  <2> QED BY <2>1, <2>2, <2>3 DEF TryRecords
<1>4. ASSUME NEW p \in Rows \ drifted
      PROVE  /\ Of(p) \subseteq Fetched /\ report.rows[p] = book[p]
             /\ \A a \in Of(p) : report.seen[a] = try[a].status /\ a \in Matched /\ try[a].of = p
  BY <1>1, <1>4 DEF ReportIsInformed, Rows, Fetched, Of, Matched
<1>5. ASSUME NEW p \in Rows \ drifted, ~AgreeOn(p), p \notin Flagged, Fetched # {} PROVE FALSE
  <2>1. p \notin MissingRemote
    BY <1>5 DEF Flagged
  <2>2. PICK a \in Of(p) \cap Fetched : TRUE
    BY <1>5, <2>1 DEF MissingRemote
  <2>3. ~try[a].exact \/ Normalized(try[a].status) # book[p]
    BY <1>5, <2>2 DEF AgreeOn
  <2>4. a \in WrongAmount \cup WrongStatus /\ try[a].of = p
    BY <1>4, <1>5, <2>2, <2>3 DEF WrongAmount, WrongStatus
  <2> QED BY <1>5, <2>4 DEF Flagged
<1>6. ASSUME NEW p \in Rows \ drifted, AgreeOn(p), p \in Flagged PROVE Cardinality(Of(p)) > 1
  <2>1. PICK a \in Of(p) : try[a].exact /\ Normalized(try[a].status) = book[p]
    BY <1>6 DEF AgreeOn
  <2>2. a \notin WrongAmount \cup WrongStatus /\ a \in Of(p) \cap Fetched
    BY <1>4, <1>6, <2>1 DEF WrongAmount, WrongStatus
  <2>3. PICK b \in WrongAmount \cup WrongStatus : try[b].of = p
    BY <1>6, <2>2 DEF Flagged, MissingRemote
  <2>4. b \in Of(p) /\ b # a
    BY <1>1, <2>2, <2>3 DEF WrongAmount, WrongStatus, Matched, Of, Fetched, ReportIsInformed
  <2>5. {a, b} \subseteq Of(p) /\ IsFiniteSet(Of(p))
    <3>1. Of(p) \subseteq 1..n
      BY <1>2 DEF Of, Tries
    <3> QED BY <2>4, <3>1, FS_Interval, FS_Subset
  <2>6. Cardinality({a, b}) = 2
    <3>1. {a, b} = {a} \cup {b} /\ IsFiniteSet({a}) /\ Cardinality({a}) = 1 /\ b \notin {a}
      BY <2>4, FS_Singleton
    <3>2. Cardinality({a} \cup {b}) = 2
      BY <3>1, FS_AddElement
    <3> QED BY <3>1, <3>2
  <2>7. 2 <= Cardinality(Of(p)) /\ Cardinality(Of(p)) \in Nat
    BY <2>5, <2>6, FS_Subset, FS_CardinalityType
  <2> QED BY <2>7
<1> QED BY <1>3, <1>5, <1>6

LEMMA SumsFact == ReconInv => ReportAddsUp
<1> SUFFICES ASSUME ReconInv, Comparing
             PROVE  /\ report.kind = "all" =>
                        Reconciled = IF MissingLocal = {} THEN Cardinality(Rows \ Flagged)
                                     ELSE Monus(Cardinality(Rows \ Flagged), 1)
                    /\ report.kind = "single" => \A p \in Rows \ drifted : SingleReconciled(p) => AgreeOn(p)
  BY DEF ReportAddsUp
<1>1. ReportIsInformed(report) /\ BooksAreTyped
  BY DEF ReconInv, Comparing
<1>2. Reconciled = IF MissingLocal = {} THEN Cardinality(Rows \ Flagged) ELSE Monus(Cardinality(Rows \ Flagged), 1)
  <2>1. Flagged \subseteq Rows
    BY DEF Flagged, WrongAmount, WrongStatus, Matched, MissingRemote
  <2>2. IsFiniteSet(Rows)
    BY <1>1, ReconciliationAssumption, FS_Subset DEF ReportIsInformed, Rows
  <2>3. IsFiniteSet(Flagged) /\ IsFiniteSet(Rows \ Flagged) /\ Rows = Flagged \cup (Rows \ Flagged)
        /\ Flagged \cap (Rows \ Flagged) = {}
    BY <2>1, <2>2, FS_Subset
  <2> HIDE DEF Flagged, Rows
  <2>4. Cardinality(Rows) = Cardinality(Flagged) + Cardinality(Rows \ Flagged) - Cardinality({})
    BY <2>3, FS_Union
  <2>5. Cardinality(Flagged) \in Nat /\ Cardinality(Rows \ Flagged) \in Nat /\ Cardinality({}) = 0
    BY <2>3, FS_CardinalityType, FS_EmptySet
  <2> DEFINE all == Cardinality(Rows)
             flagged == Cardinality(Flagged)
             clean == Cardinality(Rows \ Flagged)
  <2>6. all = flagged + clean /\ flagged \in Nat /\ clean \in Nat
    BY <2>4, <2>5
  <2>7. Reconciled = Monus(all, flagged + (IF MissingLocal = {} THEN 0 ELSE 1))
    BY DEF Reconciled
  <2> HIDE DEF all, flagged, clean
  <2>8. Reconciled = IF MissingLocal = {} THEN clean ELSE Monus(clean, 1)
    BY <2>6, <2>7 DEF Monus
  <2> QED BY <2>8 DEF clean
<1>3. ASSUME NEW p \in Rows \ drifted, SingleReconciled(p) PROVE AgreeOn(p)
  <2> DEFINE found == Of(p) \cap Fetched
             first == CHOOSE a \in found : \A b \in found : b <= a
  <2>1. found # {} /\ first \notin WrongAmount \cup WrongStatus
    BY <1>3 DEF SingleReconciled
  <2>2. found \in SUBSET Tries
    BY DEF Of
  <2>3. \E a \in found : \A b \in found : b <= a
    <3> HIDE DEF found
    <3> QED BY <1>1, <2>1, <2>2, NewestExists
  <2>4. first \in found
    BY <2>3
  <2> HIDE DEF first
  <2>5. first \in Matched /\ report.seen[first] = try[first].status /\ report.rows[p] = book[p] /\ try[first].of = p
    BY <1>1, <1>3, <2>4 DEF ReportIsInformed, Rows, Fetched, Of, Matched
  <2> QED BY <2>1, <2>4, <2>5 DEF WrongAmount, WrongStatus, AgreeOn
<1> QED BY <1>2, <1>3

(* Whatever the customers, the gateway and the webhooks do while a report  *)
(* reads the two books, it is honest about them and its sums add up.       *)
THEOREM ReportsAreHonest == ReconSpec => []ReconciliationHolds
<1>1. ReconInv => ReconciliationHolds
  BY HonestFact, SumsFact DEF ReconciliationHolds
<1> QED BY ReconInitInv, ReconStepInv, <1>1, PTL DEF ReconSpec

----------------------------------------------------------------------------
(* The reports.                                                            *)

PurchaseRecords ==
    [at : Instants, buyer : Shoppers, payment : {"PENDING", "PAID", "PARTIALLY_REFUNDED"},
     status : {"PENDING_PAYMENT", "CONFIRMED", "CANCELLED"}]

(* What a report has read is what its statement finds now, unless an order *)
(* has changed since its first statement; ...                              *)
TotalIsRight(r) ==
    r.total = IF r.kind = "customers" THEN Cardinality({BuyerOf(o) : o \in Counted(r)})
                                      ELSE Cardinality(Counted(r))

PartsAreRight(r) ==
    IF r.kind = "customers"
    THEN Cardinality(DOMAIN r.parts) <= Cardinality({BuyerOf(o) : o \in Counted(r)})
    ELSE r.parts = Grouped(Counted(r), DayOf)

StatusesAreRight(r) == r.statuses = Grouped(Counted(r), StatusOf)

(* ... and nothing has been read of a report on orders before the statuses.*)
SheetIsRight(r) ==
    /\ r = [step |-> "reading", kind |-> r.kind, window |-> r.window, read |-> r.read,
            total |-> r.total, parts |-> r.parts, statuses |-> r.statuses]
    /\ r.kind \in SheetKinds /\ r.window \in ResolvedWindows
    /\ r.kind = "orders" /\ r.read # {} => "statuses" \in r.read
    /\ ~moved =>
        /\ "total" \in r.read => TotalIsRight(r)
        /\ "parts" \in r.read => PartsAreRight(r)
        /\ "statuses" \in r.read => StatusesAreRight(r)

ReportInv ==
    /\ purchase \in [Purchases -> PurchaseRecords \cup {Unplaced}]
    /\ zone \in Zones /\ moved \in BOOLEAN
    /\ sheet # Blank => SheetIsRight(sheet)

----------------------------------------------------------------------------
(* What a statement counts depends on the orders and on what was asked.    *)
LEMMA CountedFact ==
    ASSUME NEW r, NEW s, s.window = r.window, s.kind = r.kind
    PROVE  Counted(s) = Counted(r)
  BY DEF Counted

LEMMA ReportInitInv == ReportsInit => ReportInv
  BY ReportsAssumption DEF ReportsInit, ReportInv, Blank

(* Orders that change while a report is being made are remembered.         *)
LEMMA MovesFact ==
    ASSUME ReportInv, NEW o \in Purchases, NEW new \in PurchaseRecords, Moves(o, new), UNCHANGED <<zone, sheet>>
    PROVE  ReportInv'
<1>1. purchase' \in [Purchases -> PurchaseRecords \cup {Unplaced}] /\ zone' \in Zones /\ moved' \in BOOLEAN
  BY DEF ReportInv, Moves, HalfRead
<1>2. ASSUME sheet # Blank PROVE SheetIsRight(sheet)'
  <2>1. SheetIsRight(sheet) /\ sheet' = sheet
    BY <1>2 DEF ReportInv
  <2>2. CASE sheet.read = {}
    BY <2>1, <2>2 DEF SheetIsRight, ResolvedWindows, LocalDays
  <2>3. CASE sheet.read # {}
    <3>1. moved' = TRUE
      <4>1. sheet.step = "reading" /\ sheet.read # {}
        BY <2>1, <2>3 DEF SheetIsRight
      <4>2. moved' = (moved \/ HalfRead)
        BY DEF Moves
      <4> QED BY <4>1, <4>2 DEF HalfRead
    <3> QED BY <2>1, <3>1 DEF SheetIsRight
  <2> QED BY <2>2, <2>3
<1> QED BY <1>1, <1>2 DEF ReportInv

LEMMA PlaceInv == ASSUME ReportInv, NEW o \in Purchases, Place(o) PROVE ReportInv'
<1>1. PICK at \in Instants, u \in Shoppers, cash \in BOOLEAN :
        Moves(o, [at |-> at, buyer |-> u, payment |-> "PENDING",
                    status |-> IF cash THEN "CONFIRMED" ELSE "PENDING_PAYMENT"])
  BY DEF Place
<1> DEFINE new == [at |-> at, buyer |-> u, payment |-> "PENDING",
                    status |-> IF cash THEN "CONFIRMED" ELSE "PENDING_PAYMENT"]
<1>2. new \in PurchaseRecords /\ Moves(o, new)
  BY <1>1 DEF PurchaseRecords
<1> HIDE DEF new
<1> QED BY <1>2, MovesFact DEF Place

LEMMA DevelopInv == ASSUME ReportInv, NEW o \in Purchases, Develop(o) PROVE ReportInv'
<1>1. purchase[o] \in PurchaseRecords
  BY DEF ReportInv, Develop
<1>2. \E new \in PurchaseRecords : Moves(o, new)
  <2>1. CASE Moves(o, [purchase[o] EXCEPT !.payment = "PAID", !.status = "CONFIRMED"])
    <3> DEFINE new == [purchase[o] EXCEPT !.payment = "PAID", !.status = "CONFIRMED"]
    <3>1. new \in PurchaseRecords
      BY <1>1 DEF PurchaseRecords
    <3> QED BY <2>1, <3>1
  <2>2. CASE Moves(o, [purchase[o] EXCEPT !.status = "CANCELLED"])
    <3> DEFINE new == [purchase[o] EXCEPT !.status = "CANCELLED"]
    <3>1. new \in PurchaseRecords
      BY <1>1 DEF PurchaseRecords
    <3> QED BY <2>2, <3>1
  <2>3. CASE Moves(o, [purchase[o] EXCEPT !.payment = "PARTIALLY_REFUNDED"])
    <3> DEFINE new == [purchase[o] EXCEPT !.payment = "PARTIALLY_REFUNDED"]
    <3>1. new \in PurchaseRecords
      BY <1>1 DEF PurchaseRecords
    <3> QED BY <2>3, <3>1
  <2> QED BY <2>1, <2>2, <2>3 DEF Develop
<1> QED BY <1>2, MovesFact DEF Develop

(* A report that nothing has been read of is right.                        *)
LEMMA AskInv ==
    ASSUME ReportInv, NEW kind \in SheetKinds, NEW w \in ResolvedWindows, Ask(kind, w) PROVE ReportInv'
<1> DEFINE r == [step |-> "reading", kind |-> kind, window |-> w,
                  read |-> {}, total |-> 0, parts |-> <<>>, statuses |-> <<>>]
<1>1. sheet' = r /\ UNCHANGED <<purchase, zone>> /\ moved' \in BOOLEAN
  BY DEF Ask
<1>2. /\ r = [step |-> "reading", kind |-> r.kind, window |-> r.window, read |-> r.read,
              total |-> r.total, parts |-> r.parts, statuses |-> r.statuses]
      /\ r.kind \in SheetKinds /\ r.window \in ResolvedWindows /\ r.read = {}
  OBVIOUS
<1> HIDE DEF r
<1>3. SheetIsRight(sheet)'
  BY <1>1, <1>2 DEF SheetIsRight, ResolvedWindows, LocalDays
<1> QED BY <1>1, <1>3 DEF ReportInv

(* One statement more has been read.                                       *)
LEMMA ReadFact ==
    ASSUME ReportInv, sheet # Blank, NEW what \in {"total", "parts", "statuses"}, NEW r,
           sheet' = r, UNCHANGED <<purchase, zone, moved>>,
           r = [step |-> "reading", kind |-> sheet.kind, window |-> sheet.window, read |-> sheet.read \cup {what},
                total |-> r.total, parts |-> r.parts, statuses |-> r.statuses],
           sheet.kind = "orders" => "statuses" \in r.read,
           IF what = "total" THEN TotalIsRight(r) ELSE r.total = sheet.total,
           IF what = "parts" THEN PartsAreRight(r) ELSE r.parts = sheet.parts,
           IF what = "statuses" THEN StatusesAreRight(r) ELSE r.statuses = sheet.statuses
    PROVE  ReportInv'
<1>1. SheetIsRight(sheet)
  BY DEF ReportInv
<1>2. /\ r.kind = sheet.kind /\ r.window = sheet.window /\ r.read = sheet.read \cup {what}
      /\ r = [step |-> "reading", kind |-> r.kind, window |-> r.window, read |-> r.read,
              total |-> r.total, parts |-> r.parts, statuses |-> r.statuses]
  OBVIOUS
<1>3. Counted(r) = Counted(sheet)
  BY <1>2, CountedFact
<1>4. ~moved /\ "total" \in r.read => TotalIsRight(r)
  BY <1>1, <1>2, <1>3 DEF SheetIsRight, TotalIsRight
<1>5. ~moved /\ "parts" \in r.read => PartsAreRight(r)
  BY <1>1, <1>2, <1>3 DEF SheetIsRight, PartsAreRight
<1>6. ~moved /\ "statuses" \in r.read => StatusesAreRight(r)
  BY <1>1, <1>2, <1>3 DEF SheetIsRight, StatusesAreRight
<1>7. SheetIsRight(r)
  BY <1>1, <1>2, <1>4, <1>5, <1>6 DEF SheetIsRight
<1>8. SheetIsRight(sheet)'
  BY <1>7 DEF SheetIsRight, TotalIsRight, PartsAreRight, StatusesAreRight, Counted, Placed, InWindow, Paid, LocalDay,
               BuyerOf, Grouped, Tally, DayOf, StatusOf, ResolvedWindows, LocalDays
<1> QED BY <1>8 DEF ReportInv

(* What a statement of a report fills in.                                  *)
LEMMA StatusesFact ==
    ASSUME SheetIsRight(sheet), NEW x, NEW y
    PROVE  [sheet EXCEPT !.read = y, !.statuses = x] =
           [step |-> "reading", kind |-> sheet.kind, window |-> sheet.window, read |-> y,
            total |-> sheet.total, parts |-> sheet.parts, statuses |-> x]
<1> DEFINE filled == [step |-> "reading", kind |-> sheet.kind, window |-> sheet.window, read |-> y,
                      total |-> sheet.total, parts |-> sheet.parts, statuses |-> x]
           F == {"step", "kind", "window", "read", "total", "parts", "statuses"}
<1>0. DOMAIN sheet = F /\ sheet.step = "reading"
  BY DEF SheetIsRight
<1>1. DOMAIN filled = F /\ filled = [f \in F |-> filled[f]]
  OBVIOUS
<1>2. [sheet EXCEPT !.read = y, !.statuses = x] = [f \in F |-> IF f = "statuses" THEN x ELSE IF f = "read" THEN y ELSE sheet[f]]
  BY <1>0
<1>3. \A f \in F : (IF f = "statuses" THEN x ELSE IF f = "read" THEN y ELSE sheet[f]) = filled[f]
  BY <1>0
<1> HIDE DEF filled, F
<1>4. [sheet EXCEPT !.read = y, !.statuses = x] = filled
  BY <1>1, <1>2, <1>3
<1> QED BY <1>4 DEF filled

LEMMA TotalFact ==
    ASSUME SheetIsRight(sheet), NEW x, NEW y
    PROVE  [sheet EXCEPT !.read = y, !.total = x] =
           [step |-> "reading", kind |-> sheet.kind, window |-> sheet.window, read |-> y,
            total |-> x, parts |-> sheet.parts, statuses |-> sheet.statuses]
<1> DEFINE filled == [step |-> "reading", kind |-> sheet.kind, window |-> sheet.window, read |-> y,
                      total |-> x, parts |-> sheet.parts, statuses |-> sheet.statuses]
           F == {"step", "kind", "window", "read", "total", "parts", "statuses"}
<1>0. DOMAIN sheet = F /\ sheet.step = "reading"
  BY DEF SheetIsRight
<1>1. DOMAIN filled = F /\ filled = [f \in F |-> filled[f]]
  OBVIOUS
<1>2. [sheet EXCEPT !.read = y, !.total = x] = [f \in F |-> IF f = "total" THEN x ELSE IF f = "read" THEN y ELSE sheet[f]]
  BY <1>0
<1>3. \A f \in F : (IF f = "total" THEN x ELSE IF f = "read" THEN y ELSE sheet[f]) = filled[f]
  BY <1>0
<1> HIDE DEF filled, F
<1>4. [sheet EXCEPT !.read = y, !.total = x] = filled
  BY <1>1, <1>2, <1>3
<1> QED BY <1>4 DEF filled

LEMMA PartsFact ==
    ASSUME SheetIsRight(sheet), NEW x, NEW y
    PROVE  [sheet EXCEPT !.read = y, !.parts = x] =
           [step |-> "reading", kind |-> sheet.kind, window |-> sheet.window, read |-> y,
            total |-> sheet.total, parts |-> x, statuses |-> sheet.statuses]
<1> DEFINE filled == [step |-> "reading", kind |-> sheet.kind, window |-> sheet.window, read |-> y,
                      total |-> sheet.total, parts |-> x, statuses |-> sheet.statuses]
           F == {"step", "kind", "window", "read", "total", "parts", "statuses"}
<1>0. DOMAIN sheet = F /\ sheet.step = "reading"
  BY DEF SheetIsRight
<1>1. DOMAIN filled = F /\ filled = [f \in F |-> filled[f]]
  OBVIOUS
<1>2. [sheet EXCEPT !.read = y, !.parts = x] = [f \in F |-> IF f = "parts" THEN x ELSE IF f = "read" THEN y ELSE sheet[f]]
  BY <1>0
<1>3. \A f \in F : (IF f = "parts" THEN x ELSE IF f = "read" THEN y ELSE sheet[f]) = filled[f]
  BY <1>0
<1> HIDE DEF filled, F
<1>4. [sheet EXCEPT !.read = y, !.parts = x] = filled
  BY <1>1, <1>2, <1>3
<1> QED BY <1>4 DEF filled

(* The values of a function on a finite set are finitely many.             *)
LEMMA ImageIsFinite == ASSUME NEW S, IsFiniteSet(S), NEW f PROVE IsFiniteSet({f[x] : x \in S})
<1> DEFINE T == {f[x] : x \in S}
           h == [x \in S |-> f[x]]
<1>1. h \in Surjection(S, T)
  BY DEF Surjection
<1> QED BY <1>1, FS_Surjection

LEMMA ReadStatusesInv == ASSUME ReportInv, ReadStatuses PROVE ReportInv'
<1> DEFINE r == [sheet EXCEPT !.read = {"statuses"}, !.statuses = Grouped(Counted(sheet), StatusOf)]
<1>1. sheet # Blank
  BY DEF ReadStatuses, Blank
<1>2. SheetIsRight(sheet) /\ sheet.read = {}
  BY <1>1 DEF ReportInv, ReadStatuses
<1>3. r = [step |-> "reading", kind |-> sheet.kind, window |-> sheet.window, read |-> sheet.read \cup {"statuses"},
           total |-> sheet.total, parts |-> sheet.parts, statuses |-> Grouped(Counted(sheet), StatusOf)]
  BY <1>2, StatusesFact
<1>4. sheet' = r /\ UNCHANGED <<purchase, zone, moved>>
  BY DEF ReadStatuses
<1> HIDE DEF r
<1>5. Counted(r) = Counted(sheet)
  BY <1>3, CountedFact
<1>6. StatusesAreRight(r)
  BY <1>3, <1>5 DEF StatusesAreRight
<1>7. r.total = sheet.total /\ r.parts = sheet.parts /\ "statuses" \in r.read /\ r.statuses = Grouped(Counted(sheet), StatusOf)
  BY <1>3
<1> QED BY <1>1, <1>3, <1>4, <1>6, <1>7, ReadFact

LEMMA ReadTotalInv == ASSUME ReportInv, ReadTotal PROVE ReportInv'
<1> DEFINE count == IF sheet.kind = "customers" THEN Cardinality({BuyerOf(o) : o \in Counted(sheet)})
                                                ELSE Cardinality(Counted(sheet))
           r == [sheet EXCEPT !.read = @ \cup {"total"}, !.total = count]
<1>1. sheet # Blank
  BY DEF ReadTotal, Reads, Blank
<1>2. SheetIsRight(sheet) /\ (sheet.kind = "orders" => "statuses" \in sheet.read)
  BY <1>1 DEF ReportInv, ReadTotal, Reads
<1>3. r = [step |-> "reading", kind |-> sheet.kind, window |-> sheet.window, read |-> sheet.read \cup {"total"},
           total |-> count, parts |-> sheet.parts, statuses |-> sheet.statuses]
  <2> HIDE DEF count
  <2> QED BY <1>2, TotalFact
<1>4. sheet' = r /\ UNCHANGED <<purchase, zone, moved>>
  BY DEF ReadTotal
<1> HIDE DEF r
<1>5. Counted(r) = Counted(sheet)
  BY <1>3, CountedFact
<1>6. TotalIsRight(r)
  BY <1>3, <1>5 DEF TotalIsRight
<1> HIDE DEF count
<1>7. r.total = count /\ r.parts = sheet.parts /\ r.statuses = sheet.statuses /\ r.read = sheet.read \cup {"total"}
  BY <1>3
<1> QED BY <1>1, <1>2, <1>3, <1>4, <1>6, <1>7, ReadFact

(* No more customers are listed than have paid.                            *)
LEMMA TopFact ==
    ASSUME ReportInv, NEW K, IsFiniteSet(K), NEW rows, DOMAIN rows = K, NEW S \in Top(rows)
    PROVE  Cardinality(S) <= Cardinality(K)
<1>1. S \in SUBSET K
  BY DEF Top
<1> QED BY <1>1, FS_Subset

LEMMA CountedIsFinite == \A r : IsFiniteSet(Counted(r))
  BY ReportsAssumption, FS_Subset DEF Counted, Placed

LEMMA ReadPartsInv == ASSUME ReportInv, ReadParts PROVE ReportInv'
<1>1. sheet # Blank
  <2>1. sheet.step = "reading"
    BY DEF ReadParts, Reads
  <2> QED BY <2>1 DEF Blank
<1>2. SheetIsRight(sheet) /\ (sheet.kind = "orders" => "statuses" \in sheet.read)
  BY <1>1 DEF ReportInv, ReadParts, Reads
<1>3. PICK parts : sheet' = [sheet EXCEPT !.read = @ \cup {"parts"}, !.parts = parts]
                   /\ IF sheet.kind = "customers"
                      THEN Cardinality(DOMAIN parts) <= Cardinality({BuyerOf(o) : o \in Counted(sheet)})
                      ELSE parts = Grouped(Counted(sheet), DayOf)
  <2>1. CASE sheet.kind # "customers"
    BY <2>1 DEF ReadParts, BrokenDown
  <2>2. CASE sheet.kind = "customers"
    <3> DEFINE rows == Grouped(Counted(sheet), BuyerOf)
               K == {BuyerOf(o) : o \in Counted(sheet)}
    <3>1. DOMAIN rows = K
      BY DEF Grouped, Tally
    <3>2. IsFiniteSet(K)
      <4> DEFINE f == [o \in Counted(sheet) |-> BuyerOf(o)]
      <4>1. K = {f[o] : o \in Counted(sheet)}
        OBVIOUS
      <4> HIDE DEF f, K
      <4> QED BY <4>1, CountedIsFinite, ImageIsFinite
    <3>3. PICK S \in Top(rows) : sheet' = [sheet EXCEPT !.read = @ \cup {"parts"}, !.parts = [k \in S |-> rows[k]]]
      BY <2>2 DEF ReadParts, BrokenDown
    <3> DEFINE parts == [k \in S |-> rows[k]]
    <3>4. DOMAIN parts = S /\ sheet' = [sheet EXCEPT !.read = @ \cup {"parts"}, !.parts = parts]
      BY <3>3
    <3> HIDE DEF rows, K, parts
    <3>5. Cardinality(DOMAIN parts) <= Cardinality(K)
      BY <3>1, <3>2, <3>4, TopFact
    <3> QED BY <2>2, <3>4, <3>5 DEF K
  <2> QED BY <2>1, <2>2
<1> DEFINE r == [sheet EXCEPT !.read = @ \cup {"parts"}, !.parts = parts]
<1>4. r = [step |-> "reading", kind |-> sheet.kind, window |-> sheet.window, read |-> sheet.read \cup {"parts"},
           total |-> sheet.total, parts |-> parts, statuses |-> sheet.statuses]
  BY <1>2, PartsFact
<1>5. sheet' = r /\ UNCHANGED <<purchase, zone, moved>>
  BY <1>3 DEF ReadParts
<1> HIDE DEF r
<1>6. Counted(r) = Counted(sheet)
  BY <1>4, CountedFact
<1>7. PartsAreRight(r)
  BY <1>3, <1>4, <1>6 DEF PartsAreRight
<1>8. r.parts = parts /\ r.total = sheet.total /\ r.statuses = sheet.statuses /\ r.read = sheet.read \cup {"parts"}
  BY <1>4
<1> QED BY <1>1, <1>2, <1>4, <1>5, <1>7, <1>8, ReadFact

LEMMA ReportStepInv == ReportInv /\ [ReportsStep]_reportVars => ReportInv'
<1> SUFFICES ASSUME ReportInv, [ReportsStep]_reportVars PROVE ReportInv'
  OBVIOUS
<1>1. CASE \E o \in Purchases : Place(o) \/ Develop(o)
  BY <1>1, PlaceInv, DevelopInv
<1>2. CASE \E kind \in SheetKinds, w \in Windows \cap ResolvedWindows : Ask(kind, w)
  BY <1>2, AskInv
<1>3. CASE Answer
  BY <1>3 DEF Answer, ReportInv
<1>4. CASE UNCHANGED reportVars
  <2>0. purchase' = purchase /\ zone' = zone /\ sheet' = sheet /\ moved' = moved
    BY <1>4 DEF reportVars
  <2>1. Counted(sheet)' = Counted(sheet)
    BY <2>0 DEF Counted, Placed, InWindow, Paid, LocalDay
  <2>2. TotalIsRight(sheet)' <=> TotalIsRight(sheet)
    BY <2>0, <2>1 DEF TotalIsRight, BuyerOf
  <2>3. PartsAreRight(sheet)' <=> PartsAreRight(sheet)
    BY <2>0, <2>1 DEF PartsAreRight, BuyerOf, Grouped, Tally, DayOf
  <2>4. StatusesAreRight(sheet)' <=> StatusesAreRight(sheet)
    BY <2>0, <2>1 DEF StatusesAreRight, Grouped, Tally, StatusOf
  <2>5. SheetIsRight(sheet)' <=> SheetIsRight(sheet)
    BY <2>0, <2>2, <2>3, <2>4 DEF SheetIsRight, ResolvedWindows, LocalDays
  <2> QED BY <2>0, <2>5 DEF ReportInv
<1> QED BY <1>1, <1>2, <1>3, <1>4, ReadStatusesInv, ReadTotalInv, ReadPartsInv DEF ReportsStep

----------------------------------------------------------------------------
(* A breakdown by any key adds up.                                         *)
LEMMA StatusesAddUp ==
    ASSUME NEW r PROVE SumFunction(Grouped(Counted(r), StatusOf)) = Cardinality(Counted(r))
<1> DEFINE S == Counted(r)
           f == [o \in S |-> StatusOf(o)]
           K == {StatusOf(o) : o \in S}
           g == Grouped(S, StatusOf)
<1>1. IsFiniteSet(S) /\ IsFiniteSet(K)
  <2>1. K = {f[o] : o \in S}
    OBVIOUS
  <2>2. IsFiniteSet(S)
    BY CountedIsFinite
  <2> HIDE DEF f, K, S
  <2> QED BY <2>1, <2>2, ImageIsFinite
<1>2. (\A o \in S : f[o] \in K) /\ DOMAIN g = K
  BY DEF Grouped, Tally
<1>3. \A k \in K : g[k] = Cardinality({o \in S : f[o] = k})
  <2> SUFFICES ASSUME NEW k \in K PROVE g[k] = Cardinality({o \in S : f[o] = k})
    OBVIOUS
  <2>1. {o \in S : f[o] = k} = {o \in S : StatusOf(o) = k}
    OBVIOUS
  <2> HIDE DEF f, S
  <2> QED BY <2>1 DEF Grouped, Tally
<1> HIDE DEF S, f, K, g
<1>4. SumFunctionOnSet(g, K) = Cardinality(S)
  BY <1>1, <1>2, <1>3, TallyAddsUp
<1> QED BY <1>2, <1>4 DEF SumFunction, S, g

(* So does one by days, over any days that all counted orders fall on.     *)
LEMMA DaysAddUp ==
    ASSUME NEW r, NEW K, IsFiniteSet(K), \A o \in Counted(r) : DayOf(o) \in K,
           NEW g, DOMAIN g = K, \A k \in K : g[k] = Cardinality({o \in Counted(r) : DayOf(o) = k})
    PROVE  SumFunction(g) = Cardinality(Counted(r))
<1> DEFINE S == Counted(r)
           f == [o \in S |-> DayOf(o)]
<1>1. IsFiniteSet(S)
  BY CountedIsFinite
<1>2. \A o \in S : f[o] \in K
  OBVIOUS
<1>3. \A k \in K : g[k] = Cardinality({o \in S : f[o] = k})
  <2> SUFFICES ASSUME NEW k \in K PROVE g[k] = Cardinality({o \in S : f[o] = k})
    OBVIOUS
  <2>1. {o \in S : f[o] = k} = {o \in S : DayOf(o) = k}
    OBVIOUS
  <2> QED BY <2>1
<1> HIDE DEF S, f
<1>4. SumFunctionOnSet(g, K) = Cardinality(S)
  BY <1>1, <1>2, <1>3, TallyAddsUp DEF S
<1> QED BY <1>4 DEF SumFunction, S

(* Where the server's days are the database's, an order of the window      *)
(* falls on a day of the window.                                           *)
LEMMA DayFact ==
    ASSUME ReportInv, zone = 0, NEW r, NEW o \in Counted(r)
    PROVE  /\ DayOf(o) \in 0..Horizon
           /\ r.window.from # NoEnd => r.window.from <= DayOf(o)
           /\ r.window.to # NoEnd => DayOf(o) <= r.window.to
<1>1. o \in Placed /\ InWindow(r.window, purchase[o].at)
  BY DEF Counted
<1>2. purchase[o] \in PurchaseRecords
  BY <1>1 DEF ReportInv, Placed
<1>3. purchase[o].at \in 0 .. 2 * Horizon + 1
  BY <1>2 DEF PurchaseRecords, Instants
<1> DEFINE at == purchase[o].at
<1> HIDE DEF at
<1>4. at \in Int /\ LocalDay(at) = at \div 2 /\ DayOf(o) = at \div 2 /\ at \div 2 \in 0..Horizon
  <2>1. at \in 0 .. 2 * Horizon + 1 /\ Horizon \in Nat
    BY <1>3, ReportsAssumption DEF at
  <2>2. at \in Int /\ at + zone = at /\ at \div 2 \in 0..Horizon
    BY <2>1
  <2> QED BY <2>2 DEF LocalDay, DayOf, Day, at
<1> QED BY <1>1, <1>4 DEF InWindow, at

LEMMA DaysAreFinite == IsFiniteSet(LocalDays) /\ 0..Horizon \subseteq LocalDays /\ LocalDays \subseteq Int
<1>1. Horizon \in Nat
  BY ReportsAssumption
<1>2. IsFiniteSet(0 .. Horizon + 1)
  BY <1>1, FS_Interval
<1> QED BY <1>1, <1>2 DEF LocalDays

(* The rows of the days, whatever days they are.                           *)
LEMMA RowsAddUp ==
    ASSUME ReportInv, zone = 0, NEW r, r.window \in ResolvedWindows, Fits(r.window), PartsAreRight(r), r.kind # "customers",
           r.kind = "sales" \/ DailyBuckets(r.window) # {}
    PROVE  SumFunction(DailyRows(r)) = Cardinality(Counted(r))
<1> DEFINE S == Counted(r)
           w == r.window
           days == DailyBuckets(w)
           found == {DayOf(o) : o \in S}
<1>1. r.parts = Grouped(S, DayOf) /\ DOMAIN r.parts = found
  BY DEF PartsAreRight, Grouped, Tally
<1>2. \A d \in found : r.parts[d] = Cardinality({o \in S : DayOf(o) = d})
  <2> SUFFICES ASSUME NEW d \in found PROVE r.parts[d] = Cardinality({o \in S : DayOf(o) = d})
    OBVIOUS
  <2> HIDE DEF S
  <2> QED BY <1>1 DEF Grouped, Tally
<1>3. found \subseteq LocalDays /\ IsFiniteSet(found)
  <2>1. found \subseteq LocalDays
    BY DayFact, DaysAreFinite
  <2> QED BY <2>1, DaysAreFinite, FS_Subset
<1>4. CASE days = {}
  <2>1. DailyRows(r) = r.parts
    BY <1>4 DEF DailyRows
  <2> HIDE DEF found
  <2>2. \A o \in Counted(r) : DayOf(o) \in found
    BY DEF found
  <2>3. SumFunction(r.parts) = Cardinality(Counted(r))
    <3>1. \A k \in found : r.parts[k] = Cardinality({o \in Counted(r) : DayOf(o) = k})
      BY <1>2
    <3> DEFINE g == r.parts
    <3>2. DOMAIN g = found /\ \A k \in found : g[k] = Cardinality({o \in Counted(r) : DayOf(o) = k})
      BY <1>1, <3>1
    <3> HIDE DEF g, S
    <3>3. SumFunction(g) = Cardinality(Counted(r))
      BY <1>3, <2>2, <3>2, DaysAddUp
    <3> QED BY <3>3 DEF g
  <2> QED BY <2>1, <2>3
<1>5. CASE days # {}
  <2> DEFINE g == DailyRows(r)
  <2>1. IsFiniteSet(days) /\ days \subseteq LocalDays
    <3>1. days \subseteq LocalDays
      BY DEF DailyBuckets
    <3> QED BY <3>1, DaysAreFinite, FS_Subset
  <2>2. w.from # NoEnd /\ w.to # NoEnd
    BY <1>5 DEF DailyBuckets
  <2>3. \A o \in S : DayOf(o) \in days
    <3> SUFFICES ASSUME NEW o \in S PROVE DayOf(o) \in days
      OBVIOUS
    <3>1. DayOf(o) \in LocalDays /\ w.from <= DayOf(o) /\ DayOf(o) <= w.to
      BY <2>2, DayFact, DaysAreFinite
    <3>2. w.from \in Int /\ w.to \in Int /\ DayOf(o) \in Int
      <4>1. w.from \in LocalDays /\ w.to \in LocalDays
        BY <2>2 DEF ResolvedWindows
      <4> QED BY <3>1, <4>1, DaysAreFinite
    <3>3. w.to - w.from < MaxBuckets /\ MaxBuckets \in Nat
      BY <2>2, ReportsAssumption DEF Fits
    <3>4. DayOf(o) - w.from < MaxBuckets
      <4> DEFINE day == DayOf(o)
                 from == w.from
                 to == w.to
      <4> HIDE DEF day, from, to
      <4>1. day - from < MaxBuckets
        BY <3>1, <3>2, <3>3 DEF day, from, to
      <4> QED BY <4>1 DEF day, from
    <3> QED BY <2>2, <3>1, <3>4 DEF DailyBuckets
  <2>4. g = [d \in days |-> IF d \in found THEN r.parts[d] ELSE 0]
    <3>1. g = [d \in days |-> [e \in LocalDays |-> IF e \in DOMAIN r.parts THEN r.parts[e] ELSE 0][d]]
      BY <1>5 DEF DailyRows
    <3> HIDE DEF g, days, found
    <3> QED BY <1>1, <2>1, <3>1
  <2>5. \A d \in days : g[d] = Cardinality({o \in S : DayOf(o) = d})
    <3> SUFFICES ASSUME NEW d \in days PROVE g[d] = Cardinality({o \in S : DayOf(o) = d})
      OBVIOUS
    <3>1. CASE d \in found
      <4> HIDE DEF g, found, days
      <4> QED BY <1>2, <2>4, <3>1
    <3>2. CASE d \notin found
      <4>1. {o \in S : DayOf(o) = d} = {}
        BY <3>2
      <4>2. g[d] = 0
        <5> HIDE DEF g, found, days
        <5> QED BY <2>4, <3>2
      <4> QED BY <4>1, <4>2, FS_EmptySet
    <3> QED BY <3>1, <3>2
  <2> HIDE DEF g, days
  <2>6. DOMAIN g = days
    BY <2>4
  <2>7. SumFunction(g) = Cardinality(Counted(r))
    BY <2>1, <2>3, <2>5, <2>6, DaysAddUp
  <2> QED BY <2>7 DEF g
<1> QED BY <1>4, <1>5

(* However orders are placed, paid, cancelled and refunded meanwhile, a    *)
(* report none of them interfered with adds up.                            *)
THEOREM ReportsAreConsistent == ReportsSpec => []ReportsAddUp
<1>1. ReportInv => ReportsAddUp
  <2> SUFFICES ASSUME ReportInv, AllRead, ~moved
               PROVE  /\ sheet.kind = "customers" => Cardinality(DOMAIN sheet.parts) <= sheet.total
                      /\ sheet.kind = "orders" => SumFunction(sheet.statuses) = sheet.total
                      /\ sheet.kind = "sales" /\ zone = 0 /\ Fits(sheet.window) =>
                            SumFunction(DailyRows(sheet)) = sheet.total
                      /\ sheet.kind = "orders" /\ zone = 0 /\ DailyBuckets(sheet.window) # {} /\ Fits(sheet.window) =>
                            SumFunction(DailyRows(sheet)) = sheet.total
    BY DEF ReportsAddUp, SumOfRows
  <2>1. sheet # Blank
    <3>1. sheet.step = "reading"
      BY DEF AllRead
    <3> QED BY <3>1 DEF Blank
  <2>2. SheetIsRight(sheet)
    BY <2>1 DEF ReportInv
  <2>3. TotalIsRight(sheet) /\ PartsAreRight(sheet) /\ sheet.window \in ResolvedWindows
        /\ (sheet.kind = "orders" => StatusesAreRight(sheet))
    BY <2>2 DEF SheetIsRight, AllRead
  <2>4. sheet.kind = "customers" => Cardinality(DOMAIN sheet.parts) <= sheet.total
    BY <2>3 DEF TotalIsRight, PartsAreRight
  <2>5. sheet.kind = "orders" => SumFunction(sheet.statuses) = sheet.total
    BY <2>3, StatusesAddUp DEF TotalIsRight, StatusesAreRight
  <2>6. ASSUME zone = 0, Fits(sheet.window),
               sheet.kind = "sales" \/ (sheet.kind = "orders" /\ DailyBuckets(sheet.window) # {})
        PROVE  SumFunction(DailyRows(sheet)) = sheet.total
    <3>1. SumFunction(DailyRows(sheet)) = Cardinality(Counted(sheet))
      BY <2>3, <2>6, RowsAddUp
    <3>2. sheet.total = Cardinality(Counted(sheet))
      BY <2>3, <2>6 DEF TotalIsRight
    <3> QED BY <3>1, <3>2
  <2> DEFINE sum == SumFunction(DailyRows(sheet))
             some == DailyBuckets(sheet.window) # {}
             fits == Fits(sheet.window)
  <2>7. (zone = 0 /\ fits /\ (sheet.kind = "sales" \/ (sheet.kind = "orders" /\ some))) => sum = sheet.total
    BY <2>6
  <2> HIDE DEF sum, some, fits
  <2>8. /\ sheet.kind = "sales" /\ zone = 0 /\ fits => sum = sheet.total
        /\ sheet.kind = "orders" /\ zone = 0 /\ some /\ fits => sum = sheet.total
    BY <2>7
  <2> QED BY <2>4, <2>5, <2>8 DEF sum, some, fits
<1> QED BY ReportInitInv, ReportStepInv, <1>1, PTL DEF ReportsSpec
=============================================================================
