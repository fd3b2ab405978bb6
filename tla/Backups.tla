------------------------------- MODULE Backups -------------------------------
(***************************************************************************)
(* The nightly backup.  A run dumps the database, validates the archive,   *)
(* uploads it, compares the sizes, and only then deletes what is older     *)
(* than the retention it was given.  It may die between any two commands.  *)
(***************************************************************************)
EXTENDS Naturals, FiniteSets

CONSTANTS
    Nightly,        \* runs
    Retentions,     \* days of retention a run may be given; 0 keeps everything
    LastNight       \* nights looked at

ASSUME BackupsAssumption == Retentions \subseteq Nat /\ LastNight \in Nat

VARIABLES
    night,
    bucket,         \* per run: the object it has left, with its date, or none
    backup,         \* per run: how far it is
    verified,       \* history: runs whose object was compared and found whole
    overslept       \* history: a run that took longer than its own retention

backupVars == <<night, bucket, backup, verified, overslept>>

NoObject == [state |-> "none"]
NotRun == [step |-> "idle"]

BackupsInit ==
    /\ night = 0 /\ verified = {} /\ overslept = FALSE
    /\ bucket = [r \in Nightly |-> NoObject]
    /\ backup = [r \in Nightly |-> NotRun]

RunAt(r, step) == backup[r].step = step
Stored == {r \in Nightly : bucket[r] # NoObject}

(* createDump and validateDump.  An archive that pg_restore cannot list is *)
(* given up, and so is any other for a dry run; a plain dump is not listed. *)
Dump(r, days, custom, dry) ==
    /\ backup[r] = NotRun
    /\ \E listed \in BOOLEAN :
        backup' = [backup EXCEPT ![r] = [days |-> days, readable |-> custom => listed,
                                         step |-> IF (custom /\ ~listed) \/ dry THEN "ended" ELSE "validated"]]
    /\ UNCHANGED <<night, bucket, verified, overslept>>

(* The object is there from here on, complete or not.                      *)
Upload(r) ==
    /\ RunAt(r, "validated")
    /\ \E complete \in BOOLEAN :
        bucket' = [bucket EXCEPT ![r] = [state |-> IF complete THEN "complete" ELSE "partial", date |-> night]]
    /\ backup' = [backup EXCEPT ![r].step = "uploaded"]
    /\ UNCHANGED <<night, verified, overslept>>

(* A slip: what was uploaded is not compared with what was dumped.         *)
SkipComparing(r) ==
    /\ RunAt(r, "uploaded")
    /\ backup' = [backup EXCEPT ![r].step = "compared"]
    /\ verified' = verified \cup {r}
    /\ UNCHANGED <<night, bucket, overslept>>

CompareSizes(r) ==
    /\ RunAt(r, "uploaded")
    /\ IF bucket[r] # NoObject /\ bucket[r].state = "complete"
       THEN backup' = [backup EXCEPT ![r].step = "compared"] /\ verified' = verified \cup {r}
       ELSE backup' = [backup EXCEPT ![r].step = "ended"] /\ UNCHANGED verified
    /\ UNCHANGED <<night, bucket, overslept>>

(* By the date of the object, whoever has left it and in whatever state.   *)
Expired(days) == {o \in Stored : bucket[o].date + days < night}

ApplyRetention(r) ==
    /\ RunAt(r, "compared")
    /\ backup' = [backup EXCEPT ![r].step = "ended"]
    /\ IF backup[r].days = 0 THEN UNCHANGED <<bucket, overslept>>
       ELSE /\ bucket' = [o \in Nightly |-> IF o \in Expired(backup[r].days) THEN NoObject ELSE bucket[o]]
            /\ overslept' = (overslept \/ r \notin Stored \ Expired(backup[r].days))
    /\ UNCHANGED <<night, verified>>

Interrupted(r) ==
    /\ backup[r].step \in {"validated", "uploaded", "compared"}
    /\ backup' = [backup EXCEPT ![r].step = "ended"]
    /\ UNCHANGED <<night, bucket, verified, overslept>>

NightPasses == night < LastNight /\ night' = night + 1 /\ UNCHANGED <<bucket, backup, verified, overslept>>

BackupsStep ==
    \/ \E r \in Nightly :
        \/ \E days \in Retentions, custom, dry \in BOOLEAN : Dump(r, days, custom, dry)
        \/ Upload(r) \/ CompareSizes(r) \/ ApplyRetention(r) \/ Interrupted(r)
    \/ NightPasses

BackupsSpec == BackupsInit /\ [][BackupsStep]_backupVars

----------------------------------------------------------------------------
Complete(r) == bucket[r] # NoObject /\ bucket[r].state = "complete"

(* Once a backup has been verified there is one to restore from: however   *)
(* many runs fail or are interrupted, and whatever retention the next one  *)
(* is given, a verified object remains, readable as far as it was listed.  *)
(* Excepted is a run so slow that its own object had gone or expired when  *)
(* it came to delete.                                                      *)
BackupRemains ==
    verified # {} /\ ~overslept => \E r \in verified : Complete(r) /\ backup[r].readable
=============================================================================
