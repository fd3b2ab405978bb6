------------------------------- MODULE Realtime -------------------------------
(***************************************************************************)
(* From a change of an order to the console's table: the server that makes *)
(* the change tells its own streams at once and the other servers through  *)
(* Redis; a console hears it on its one stream, waits out a window, and    *)
(* reads the table again, sharing a read that is under way already.  The   *)
(* changes are of recent orders: the table's first page holds them.        *)
(***************************************************************************)
EXTENDS Naturals, Sequences, SequencesExt

CONSTANTS
    Processes,      \* servers with a hub each
    Consoles,       \* tabs of the console that show the orders
    Changes         \* changes of orders

VARIABLES
    change,     \* per change: how it is told, where it is made, how far it is
    link,       \* per server: its pair of Redis connections
    chain,      \* per server: events waiting for their turn to be published
    wire,       \* per server: messages on the way to its subscriber
    stream,     \* per console: its connection, with the frames on the way
    window,     \* per console: "idle", "quiet" after a read, "armed" for one more
    fetch,      \* per console: the read under way, and one with an older token
    listed,      \* per console: the changes its table shows
    published,  \* history: the events, in the order they were published
    known,      \* history: per console, the changes it has heard of
    cut,        \* history: per console, the events that could not reach it
    missed      \* history: per console, the changes it heard of and read past

hubVars == <<change, link, chain, wire, published>>
pageVars == <<window, fetch, listed, missed>>
streamVars == <<stream, known, cut>>
realtimeVars == <<hubVars, streamVars, pageVars>>

Ways == {"created", "updated", "silent"}
Down == [up |-> FALSE, at |-> "none", staff |-> FALSE, fresh |-> TRUE,
         frames |-> <<>>, heard |-> <<>>]
NoRead == [step |-> "none", rows |-> {}]
NoFetch == [now |-> NoRead, old |-> NoRead]

(* A page reads its table when it opens.                                   *)
RealtimeInit ==
    /\ \E way \in [Changes -> Ways], at \in [Changes -> Processes] :
          change = [x \in Changes |-> [way |-> way[x], at |-> at[x], step |-> "todo"]]
    /\ link = [i \in Processes |-> "none"]
    /\ chain = [i \in Processes |-> <<>>]
    /\ wire = [i \in Processes |-> <<>>]
    /\ stream = [c \in Consoles |-> Down]
    /\ window = [c \in Consoles |-> "idle"]
    /\ fetch = [c \in Consoles |-> NoFetch]
    /\ listed = [c \in Consoles |-> {}]
    /\ published = <<>>
    /\ known = [c \in Consoles |-> {}]
    /\ cut = [c \in Consoles |-> {}]
    /\ missed = [c \in Consoles |-> {}]

(* What a read of the orders can see: an order that is being placed is     *)
(* told before its transaction commits.                                    *)
Visible ==
    {x \in Changes : \/ change[x].step = "done"
                     \/ change[x].way = "updated" /\ change[x].step # "todo"}

Listens(c, i) == stream[c].up /\ stream[c].staff /\ stream[c].at = i

----------------------------------------------------------------------------
(* The hub.                                                                *)

Wanted(i) == [link EXCEPT ![i] = IF @ = "none" THEN "wanted" ELSE @]

DeliverLocal(i, x) ==
    stream' = [c \in Consoles |->
        IF Listens(c, i) THEN [stream[c] EXCEPT !.frames = Append(@, x)] ELSE stream[c]]

Cuts(x, out) == cut' = [c \in Consoles |-> IF c \in out THEN cut[c] \cup {x} ELSE cut[c]]

(* The consoles no message of server i can reach.                          *)
Severed(i) == {c \in Consoles : stream[c].at # i /\ (stream[c].up => link[stream[c].at] # "up")}

Fanned(i, x) ==
    wire' = [j \in Processes |->
        IF link[j] = "up" THEN Append(wire[j], [origin |-> i, change |-> x]) ELSE wire[j]]

(* Local delivery at once, the fan-out in its turn.                        *)
Publish(i, x) ==
    /\ published' = Append(published, x)
    /\ DeliverLocal(i, x)
    /\ chain' = [chain EXCEPT ![i] = Append(@, x)]
    /\ link' = Wanted(i)
    /\ Cuts(x, {c \in Consoles : ~stream[c].up \/ ~stream[c].staff})
    /\ UNCHANGED <<wire, known, pageVars>>

Advance(x, step) == change' = [change EXCEPT ![x].step = step]

(* Checkout publishes inside its transaction.                              *)
TellCreated(x) ==
    /\ change[x].way = "created" /\ change[x].step = "todo"
    /\ Advance(x, "told")
    /\ Publish(change[x].at, x)

CommitCreated(x) ==
    /\ change[x].way = "created" /\ change[x].step = "told"
    /\ \E end \in {"done", "failed"} : Advance(x, end)
    /\ UNCHANGED <<link, chain, wire, published, streamVars, pageVars>>

(* The order desk publishes after it; a payment, a customer's              *)
(* cancellation, the sweep and a delivery do not.                          *)
StoreUpdated(x) ==
    /\ change[x].way # "created" /\ change[x].step = "todo"
    /\ Advance(x, IF change[x].way = "silent" THEN "done" ELSE "stored")
    /\ UNCHANGED <<link, chain, wire, published, streamVars, pageVars>>

TellUpdated(x) ==
    /\ change[x].way = "updated" /\ change[x].step = "stored"
    /\ Advance(x, "told")
    /\ Publish(change[x].at, x)

(* A first attempt that fails is the last.                                 *)
ConnectRedis(i) ==
    /\ link[i] = "wanted"
    /\ \E result \in {"up", "failed"} : link' = [link EXCEPT ![i] = result]
    /\ UNCHANGED <<change, chain, wire, published, streamVars, pageVars>>

(* A slip: the publishes are not chained.                                  *)
PublishUnchained(i) ==
    /\ link[i] = "up" /\ chain[i] # <<>>
    /\ \E k \in DOMAIN chain[i] :
        /\ chain' = [chain EXCEPT ![i] = RemoveAt(@, k)]
        /\ Fanned(i, chain[i][k]) /\ Cuts(chain[i][k], Severed(i))
    /\ UNCHANGED <<change, link, published, stream, known, pageVars>>

(* Redis hands a message to every server that has subscribed by now.       *)
RedisPublish(i) ==
    /\ link[i] = "up" /\ chain[i] # <<>>
    /\ chain' = [chain EXCEPT ![i] = Tail(@)]
    /\ Fanned(i, Head(chain[i])) /\ Cuts(Head(chain[i]), Severed(i))
    /\ UNCHANGED <<change, link, published, stream, known, pageVars>>

(* No connection, or a publish that fails.                                 *)
PublishFails(i) ==
    /\ link[i] \in {"up", "failed"} /\ chain[i] # <<>>
    /\ chain' = [chain EXCEPT ![i] = Tail(@)]
    /\ Cuts(Head(chain[i]), {c \in Consoles : stream[c].at # i})
    /\ UNCHANGED <<change, link, wire, published, stream, known, pageVars>>

(* A slip: the echo of a server's own publish is delivered again.          *)
HandleEcho(j) ==
    /\ wire[j] # <<>>
    /\ wire' = [wire EXCEPT ![j] = Tail(@)]
    /\ DeliverLocal(j, Head(wire[j]).change)
    /\ UNCHANGED <<change, link, chain, published, known, cut, pageVars>>

(* What a server published itself comes back to it, and is dropped.        *)
HandleRedisMessage(j) ==
    /\ wire[j] # <<>>
    /\ wire' = [wire EXCEPT ![j] = Tail(@)]
    /\ IF Head(wire[j]).origin = j THEN UNCHANGED stream ELSE DeliverLocal(j, Head(wire[j]).change)
    /\ UNCHANGED <<change, link, chain, published, known, cut, pageVars>>

SubscriberLoses(j) ==
    /\ wire[j] # <<>>
    /\ wire' = [wire EXCEPT ![j] = Tail(@)]
    /\ Cuts(Head(wire[j]).change, {c \in Consoles : stream[c].at = j})
    /\ UNCHANGED <<change, link, chain, published, stream, known, pageVars>>

----------------------------------------------------------------------------
(* The stream.                                                             *)

(* What was published and not heard may be lost for this console.          *)
CutsOff(c) == cut' = [cut EXCEPT ![c] = @ \cup (ToSet(published) \ known[c])]

(* A token that has lapsed opens an anonymous stream, which carries no     *)
(* orders; nothing is read to make up for the time without a stream.       *)
Connect(c, i) ==
    /\ ~stream[c].up
    /\ stream' = [stream EXCEPT ![c].up = TRUE, ![c].at = i, ![c].staff = stream[c].fresh]
    /\ link' = Wanted(i)
    /\ CutsOff(c)
    /\ UNCHANGED <<change, chain, wire, published, known, pageVars>>

Disconnect(c) ==
    /\ stream[c].up
    /\ stream' = [stream EXCEPT ![c] = [Down EXCEPT !.fresh = stream[c].fresh]]
    /\ CutsOff(c)
    /\ UNCHANGED <<hubVars, known, pageVars>>

TokenLapses(c) ==
    /\ stream[c].fresh
    /\ stream' = [stream EXCEPT ![c].fresh = FALSE]
    /\ UNCHANGED <<hubVars, known, cut, pageVars>>

(* A new token renews the stream, and reads under the old one are shared   *)
(* no longer.                                                              *)
TokenRotates(c) ==
    /\ ~stream[c].fresh /\ fetch[c].old = NoRead
    /\ stream' = [stream EXCEPT ![c] = Down]
    /\ fetch' = [fetch EXCEPT ![c] = [now |-> NoRead, old |-> fetch[c].now]]
    /\ CutsOff(c)
    /\ UNCHANGED <<hubVars, known, window, listed, missed>>

----------------------------------------------------------------------------
(* The page.                                                               *)

(* A read that is under way is shared, although it may have seen the       *)
(* database before the change.                                             *)
Run(c, heard) ==
    LET now == fetch[c].now IN
    /\ fetch' = IF now = NoRead THEN [fetch EXCEPT ![c].now.step = "sent"] ELSE fetch
    /\ missed' = [missed EXCEPT ![c] = IF now.step = "read" THEN @ \cup (heard \ now.rows) ELSE @]

(* A slip: what comes within the window is dropped.                        *)
WithoutTrailing(w) == IF w = "idle" THEN "quiet" ELSE w

(* After an event: the first of a burst is acted on at once, and one more  *)
(* time is enough for the rest.                                            *)
Throttled(w) == IF w = "idle" THEN "quiet" ELSE "armed"

Hear(c) ==
    LET x == Head(stream[c].frames) IN
    /\ stream[c].frames # <<>>
    /\ stream' = [stream EXCEPT ![c].frames = Tail(@), ![c].heard = Append(@, x)]
    /\ known' = [known EXCEPT ![c] = @ \cup {x}]
    /\ window' = [window EXCEPT ![c] = Throttled(@)]
    /\ IF window[c] = "idle" THEN Run(c, known[c] \cup {x}) ELSE UNCHANGED <<fetch, missed>>
    /\ UNCHANGED <<hubVars, cut, listed>>

WindowEnds(c) ==
    /\ window[c] = "quiet"
    /\ window' = [window EXCEPT ![c] = "idle"]
    /\ UNCHANGED <<hubVars, streamVars, fetch, listed, missed>>

Flush(c) ==
    /\ window[c] = "armed"
    /\ window' = [window EXCEPT ![c] = "quiet"]
    /\ Run(c, known[c])
    /\ UNCHANGED <<hubVars, streamVars, listed>>

(* The operator's own change has been answered.                            *)
RefreshAfterUpdate(c, x) ==
    /\ change[x].way = "updated" /\ change[x].step = "told"
    /\ Advance(x, "done")
    /\ known' = [known EXCEPT ![c] = @ \cup {x}]
    /\ Run(c, known[c] \cup {x})
    /\ UNCHANGED <<link, chain, wire, published, stream, cut, window, listed>>

(* The database answers with what is stored, which may be less than was    *)
(* told.                                                                   *)
FetchRead(c, slot) ==
    /\ fetch[c][slot].step = "sent"
    /\ fetch' = [fetch EXCEPT ![c][slot] = [step |-> "read", rows |-> Visible]]
    /\ missed' = [missed EXCEPT ![c] = @ \cup (known[c] \ Visible)]
    /\ UNCHANGED <<hubVars, streamVars, window, listed>>

(* The table becomes the answer, also when a later one was there first.    *)
FetchAnswer(c, slot) ==
    /\ fetch[c][slot].step = "read"
    /\ listed' = [listed EXCEPT ![c] = fetch[c][slot].rows]
    /\ fetch' = [fetch EXCEPT ![c][slot] = NoRead]
    /\ missed' = [missed EXCEPT ![c] = @ \cup (listed[c] \ fetch[c][slot].rows)]
    /\ UNCHANGED <<hubVars, streamVars, window>>

FetchFails(c, slot) ==
    /\ fetch[c][slot] # NoRead
    /\ fetch' = [fetch EXCEPT ![c][slot] = NoRead]
    /\ missed' = [missed EXCEPT ![c] = @ \cup (known[c] \ listed[c])]
    /\ UNCHANGED <<hubVars, streamVars, window, listed>>

HubStep ==
    \/ \E x \in Changes :
        TellCreated(x) \/ CommitCreated(x) \/ StoreUpdated(x) \/ TellUpdated(x)
    \/ \E i \in Processes :
        \/ ConnectRedis(i) \/ RedisPublish(i) \/ PublishFails(i)
        \/ HandleRedisMessage(i) \/ SubscriberLoses(i)

StreamStep ==
    \E c \in Consoles :
        \/ \E i \in Processes : Connect(c, i)
        \/ Disconnect(c) \/ TokenLapses(c) \/ TokenRotates(c)

PageStep ==
    \E c \in Consoles :
        \/ WindowEnds(c) \/ Flush(c)
        \/ \E x \in Changes : RefreshAfterUpdate(c, x)
        \/ \E slot \in {"now", "old"} :
            FetchRead(c, slot) \/ FetchAnswer(c, slot) \/ FetchFails(c, slot)

RealtimeStep == HubStep \/ StreamStep \/ (\E c \in Consoles : Hear(c)) \/ PageStep

RealtimeSpec == RealtimeInit /\ [][RealtimeStep]_realtimeVars

-----------------------------------------------------------------------------
At(s, x) == CHOOSE k \in DOMAIN s : s[k] = x

(* A connection hears an event at most once, and the events of one server  *)
(* in the order it published them.                                         *)
HeardInOrder ==
    \A c \in Consoles :
        LET h == stream[c].heard IN
        /\ IsInjective(h)
        /\ \A j, k \in DOMAIN h : j < k /\ change[h[j]].at = change[h[k]].at =>
              At(published, h[j]) < At(published, h[k])

(* When no event is under way, a console has heard of every one that was   *)
(* not cut off by a stream or a connection that was down.  When no read is *)
(* either, its table shows every change it has heard of - except those it  *)
(* read past: told before they were stored, or answered by a read that was *)
(* shared, failed or overtaken.                                            *)
TableCatchesUp ==
    \A c \in Consoles :
        /\ (\A i \in Processes : chain[i] = <<>> /\ wire[i] = <<>>) /\ stream[c].frames = <<>>
           => ToSet(published) \subseteq known[c] \cup cut[c]
        /\ window[c] # "armed" /\ fetch[c] = NoFetch
           => known[c] \subseteq listed[c] \cup missed[c]

(* What the console hears it hears in order, and what it hears it shows.   *)
ConsoleCatchesUp == HeardInOrder /\ TableCatchesUp

(* "A staff console with an open /events stream sees the new order appear  *)
(* without polling": once nothing is under way, an order that was placed   *)
(* and that the console has heard of is in its table.                      *)
NewOrderAppears ==
    \A c \in Consoles : \A x \in known[c] :
        /\ change[x].way = "created" /\ change[x].step = "done"
        /\ window[c] # "armed" /\ fetch[c] = NoFetch
        => x \in listed[c]

(* The stay of a console's stream while orders are placed and no read      *)
(* fails.                                                                  *)
PlacingInit == RealtimeInit /\ \A x \in Changes : change[x].way = "created"

PlacingNext ==
    \/ HubStep
    \/ \E c \in Consoles :
        \/ \E i \in Processes : Connect(c, i)
        \/ Hear(c) \/ WindowEnds(c) \/ Flush(c)
        \/ FetchRead(c, "now") \/ FetchAnswer(c, "now")

PlacingSpec == PlacingInit /\ [][PlacingNext]_realtimeVars
=============================================================================
