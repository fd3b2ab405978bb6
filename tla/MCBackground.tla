----------------------------- MODULE MCBackground -----------------------------
(***************************************************************************)
(* What works behind the requests, for TLC: the ledger under its desks,    *)
(* the mail workers, and the nightly backup.  They share no state, and are *)
(* explored one at a time: the initial state picks the part.               *)
(***************************************************************************)
EXTENDS Inventory, Outbox, Backups

CONSTANTS p1, o1, o2, m1, m2, m3, k1, none, Parts

VARIABLE part

allVars == <<part, vars, outboxVars, backupVars>>

(* One product wanted by two orders, one of them for two units of it.      *)
MCItems == [o \in Orders |-> [p \in Products |-> IF o = o1 THEN 1 ELSE 2]]
MCInitialStock == [p \in Products |-> 2]

(* Two messages about one event, and a third.                              *)
MCKeyOf == [m \in Messages |-> IF m = m3 THEN none ELSE k1]

RunsInTurn == \A r \in Nightly \ {1} : backup[r] # NotRun => backup[r - 1] # NotRun

(* The instance is used up.                                                *)
OutOfNights ==
    /\ night = LastNight /\ \A r \in Nightly : RunAt(r, "ended")
    /\ UNCHANGED backupVars

MCInit ==
    /\ part \in Parts
    /\ Init /\ OutboxInit /\ BackupsInit

MCNext ==
    /\ UNCHANGED part
    /\ IF part = "ledger" THEN Next ELSE UNCHANGED vars
    /\ IF part = "mail" THEN OutboxNext ELSE UNCHANGED outboxVars
    /\ IF part = "backups" THEN (BackupsStep /\ RunsInTurn') \/ OutOfNights ELSE UNCHANGED backupVars

(* The fairness of Outbox, for the part that runs it.                      *)
MCTimers ==
    /\ \A w \in Workers : WF_outboxVars(part = "mail" /\ PassStep(w))
    /\ \A m \in Messages :
        WF_outboxVars(part = "mail" /\ Expire(m)) /\ SF_outboxVars(part = "mail" /\ ClaimRow(m))

MCSpec == MCInit /\ [][MCNext]_allVars /\ MCTimers
=============================================================================
