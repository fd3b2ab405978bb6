----------------------------- MODULE Suppression -----------------------------
(***************************************************************************)
(* The addresses no mail goes to, one JSON value in the settings table.    *)
(* Each instance works on a copy that it keeps for CACHE_TTL_MS, changes   *)
(* the copy and writes all of it back; a copy that could not be read is    *)
(* empty, and is kept as well.  What was read or written becomes the copy  *)
(* when the answer of the database is here, whatever happened meanwhile.   *)
(***************************************************************************)
EXTENDS Naturals, FiniteSets

CONSTANTS
    Mailboxes,      \* addresses that may bounce or complain
    Instances,      \* server processes, each with its copy
    Callbacks       \* reports, removals and look-ups that may be under way at once

VARIABLES
    listed,     \* the stored list
    copy,       \* per instance: the list it holds, until it expires
    change,     \* per call: where it runs, how far it is, and the list it works on
    reported,   \* history: addresses reported and written, and not taken off since
    outdated,   \* history: instances whose copy is not the stored list any more
    clobbered   \* history: some write rested on such a list, or on one that was not read

suppressionVars == <<listed, copy, change, reported, outdated, clobbered>>

NoCopy == [held |-> FALSE, list |-> {}]
NoChange == [step |-> "none"]
Operations == [kind : {"suppress", "remove"}, mailbox : Mailboxes] \cup {[kind |-> "consult"]}

SuppressionInit ==
    /\ listed = {}
    /\ copy = [i \in Instances |-> NoCopy]
    /\ change = [c \in Callbacks |-> NoChange]
    /\ reported = {}
    /\ outdated = {}
    /\ clobbered = FALSE

ChangeAt(c, step) == change[c].step = step

(* A report always has something to do with the list, a removal only if    *)
(* the address is on it, and a look-up never.                              *)
GoesOn(of, list) == of.kind = "suppress" \/ (of.kind = "remove" /\ of.mailbox \in list)

(* What load reads where no copy is held: the stored list, or nothing when *)
(* the read failed.                                                        *)
Load == {[list |-> listed, sound |-> TRUE], [list |-> {}, sound |-> listed = {}]}

Consults(c, i, of, step, r) ==
    /\ change[c] = NoChange
    /\ change' = [change EXCEPT ![c] = [step |-> step, at |-> i, of |-> of, list |-> r.list, sound |-> r.sound]]
    /\ UNCHANGED <<listed, copy, reported, outdated, clobbered>>

UseCopy(c, i, of) ==
    /\ copy[i].held /\ GoesOn(of, copy[i].list)
    /\ Consults(c, i, of, "based", [list |-> copy[i].list, sound |-> i \notin outdated])

ReadList(c, i, of) == ~copy[i].held /\ \E r \in Load : Consults(c, i, of, "loading", r)

(* A slip: after a write the copy is left to expire.                       *)
KeepsOldCopy(q) ==
    IF q.step = "written" THEN UNCHANGED copy
    ELSE copy' = [copy EXCEPT ![q.at] = [held |-> TRUE, list |-> q.list]]

Keeps(q) == copy' = [copy EXCEPT ![q.at] = [held |-> TRUE, list |-> q.list]]

(* The database has answered, and its answer is the copy.                  *)
Hold(c) ==
    LET q == change[c] IN
    /\ q.step \in {"loading", "written"}
    /\ Keeps(q)
    /\ outdated' = IF q.sound THEN outdated \ {q.at} ELSE outdated \cup {q.at}
    /\ change' = [change EXCEPT ![c] = IF q.step = "loading" /\ GoesOn(q.of, q.list)
                                       THEN [q EXCEPT !.step = "based"] ELSE NoChange]
    /\ UNCHANGED <<listed, reported, clobbered>>

(* Every list that is held, read or worked on is out of date now.          *)
Overwrites(c, list) ==
    /\ listed' = list
    /\ outdated' = {i \in Instances : copy[i].held}
    /\ change' = [d \in Callbacks |->
            CASE d = c -> [change[c] EXCEPT !.step = "written", !.list = list, !.sound = TRUE]
              [] d # c /\ change[d] = NoChange -> NoChange
              [] OTHER -> [change[d] EXCEPT !.sound = FALSE]]
    /\ clobbered' = (clobbered \/ ~change[c].sound)
    /\ UNCHANGED copy

(* An address that is listed already is not written again.                 *)
Suppress(c) ==
    LET a == change[c].of.mailbox IN
    /\ ChangeAt(c, "based") /\ change[c].of.kind = "suppress"
    /\ reported' = reported \cup {a}
    /\ IF a \notin change[c].list
       THEN Overwrites(c, change[c].list \cup {a})
       ELSE /\ change' = [change EXCEPT ![c] = NoChange]
            /\ clobbered' = (clobbered \/ ~change[c].sound)
            /\ UNCHANGED <<listed, copy, outdated>>

Remove(c) ==
    LET a == change[c].of.mailbox IN
    /\ ChangeAt(c, "based") /\ change[c].of.kind = "remove"
    /\ reported' = reported \ {a}
    /\ Overwrites(c, change[c].list \ {a})

(* The write failed: the topic delivers a report again that was answered   *)
(* with an error.                                                          *)
ChangeEnds(c) ==
    /\ ChangeAt(c, "based")
    /\ change' = [change EXCEPT ![c] = NoChange]
    /\ UNCHANGED <<listed, copy, reported, outdated, clobbered>>

CopyExpires(i) ==
    /\ copy[i].held
    /\ copy' = [copy EXCEPT ![i] = NoCopy]
    /\ outdated' = outdated \ {i}
    /\ UNCHANGED <<listed, change, reported, clobbered>>

(* The process stops, with its copy and its calls.                         *)
InstanceStops(i) ==
    /\ copy' = [copy EXCEPT ![i] = NoCopy]
    /\ outdated' = outdated \ {i}
    /\ change' = [c \in Callbacks |-> IF change[c] # NoChange /\ change[c].at = i THEN NoChange ELSE change[c]]
    /\ UNCHANGED <<listed, reported, clobbered>>

SuppressionStep ==
    \/ \E c \in Callbacks :
        \/ \E i \in Instances, of \in Operations : UseCopy(c, i, of) \/ ReadList(c, i, of)
        \/ Hold(c) \/ Suppress(c) \/ Remove(c) \/ ChangeEnds(c)
    \/ \E i \in Instances : CopyExpires(i) \/ InstanceStops(i)

SuppressionSpec == SuppressionInit /\ [][SuppressionStep]_suppressionVars

-----------------------------------------------------------------------------
(* Every address whose bounce or complaint was recorded stays on the list  *)
(* until it is taken off - unless a change was written on a list that was  *)
(* not read, or that another instance or call had overwritten since it was *)
(* read.                                                                   *)
ReportsAreKept == clobbered \/ reported \subseteq listed
=============================================================================
