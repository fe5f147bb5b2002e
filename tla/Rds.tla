--------------------------------- MODULE Rds --------------------------------
(***************************************************************************)
(* One record of the reliable data store (mid/rds/rds.c over               *)
(* mid/file/file.c): a master file written beside and renamed into place,  *)
(* a backup file overwritten in place, both with a length and an MD5 by    *)
(* which a reader tells a whole file from any other.                       *)
(*                                                                         *)
(* Every call holds rds_mutex from beginning to end; pc says how far the   *)
(* call in progress has come.  Between any two of its steps the process    *)
(* may die or the power fail; a write, a rename or a deletion may fail,    *)
(* leaving a file as it is.  The contents of both files are synced before  *)
(* they count; that a rename or deletion which returned is still there     *)
(* after a power cut is taken from the file system.                        *)
(***************************************************************************)
EXTENDS Naturals

CONSTANTS Vals,      \* the contents of the record
          NoVal      \* no value: rds_get failed, or not called yet

ASSUME RdsAssumption == NoVal \notin Vals

VARIABLES
    master,   \* the master file: a value, Absent, or Torn when its MD5 is wrong
    backup,   \* the backup file
    pc,       \* the step the call that holds rds_mutex is at
    arg,      \* the data rds_update_once is called with, until it is written
    got,      \* what rds_get returned, until the next call of the store
    past,     \* history: the values that have been in place
    wiped,    \* history: set to default after the last value was put in place
    spoilt    \* history: a rename failed that should have replaced a torn master

rdsVars == <<master, backup, pc, arg, got, past, wiped, spoilt>>

Absent == [file |-> "absent"]
Torn   == [file |-> "torn"]

Content == [file : {"whole"}, val : Vals]
File    == Content \cup {Absent, Torn}
Whole(v) == [file |-> "whole", val |-> v]

\* rds_read: length and MD5 fit
Readable(f) == f.file = "whole"

\* a new device, or one whose store is in use
RdsInit ==
    /\ \/ master = Absent /\ past = {}
       \/ \E v \in Vals : master = Whole(v) /\ past = {v}
    /\ backup = master
    /\ pc = "idle" /\ arg = NoVal /\ got = NoVal
    /\ wiped = FALSE /\ spoilt = FALSE

At(p) == pc = p
Goto(p) == pc' = p

-----------------------------------------------------------------------------
\* rds_update_once: the lock is taken, the data is written to master.new
rds_update_once(v) ==
    /\ At("idle")
    /\ arg' = v /\ got' = NoVal
    /\ Goto("write")
    /\ UNCHANGED <<master, backup, past, wiped, spoilt>>

\* mutant: the new contents are written over the old ones
RenamedOver_inPlace == Torn

\* file_update_atomic: what rename puts in the master's place
RenamedOver == Whole(arg)

Renamed ==
    /\ At("write")
    /\ master' = RenamedOver
    /\ past' = past \cup {arg}
    /\ wiped' = FALSE /\ spoilt' = FALSE
    /\ arg' = NoVal
    /\ Goto("backup")
    /\ UNCHANGED <<backup, got>>

\* file_rename says nothing when it fails, and rds_update_once goes on to copy the
\* master that is still there
RenameFails ==
    /\ At("write")
    /\ spoilt' = (spoilt \/ master = Torn)
    /\ arg' = NoVal
    /\ Goto("backup")
    /\ UNCHANGED <<master, backup, got, past, wiped>>

\* dev_write fails on master.new: the call ends
WriteFails ==
    /\ At("write")
    /\ arg' = NoVal
    /\ Goto("idle")
    /\ UNCHANGED <<master, backup, got, past, wiped, spoilt>>

\* file_copy(master, backup), if there is a master, creates the backup anew, which
\* empties it
BackupOpened ==
    /\ At("backup") /\ master # Absent
    /\ backup' = Torn
    /\ Goto("copy")
    /\ UNCHANGED <<master, arg, got, past, wiped, spoilt>>

BackupDone ==
    /\ At("copy")
    /\ backup' = master
    /\ Goto("idle")
    /\ UNCHANGED <<master, arg, got, past, wiped, spoilt>>

\* the source or the destination cannot be opened, or sendfile fails: the
\* backup stays as it is, old or empty
BackupFails ==
    /\ pc \in {"backup", "copy"}
    /\ Goto("idle")
    /\ UNCHANGED <<master, backup, arg, got, past, wiped, spoilt>>

-----------------------------------------------------------------------------
rds_get ==
    /\ At("idle")
    /\ got' = IF Readable(master) THEN master.val
              ELSE IF Readable(backup) THEN backup.val ELSE NoVal
    /\ Goto(IF ~Readable(master) /\ Readable(backup) THEN "recover" ELSE "idle")
    /\ UNCHANGED <<master, backup, arg, past, wiped, spoilt>>

\* mutant: the paths given to file_copy are swapped
RecoverOpened_swapped ==
    /\ At("recover")
    /\ backup' = Torn
    /\ Goto("recopy")
    /\ UNCHANGED <<master, arg, got, past, wiped, spoilt>>

\* rds_get recovers the master with file_copy(backup, master)
RecoverOpened ==
    /\ At("recover")
    /\ master' = Torn
    /\ Goto("recopy")
    /\ UNCHANGED <<backup, arg, got, past, wiped, spoilt>>

RecoverDone ==
    /\ At("recopy")
    /\ master' = backup
    /\ spoilt' = FALSE
    /\ Goto("idle")
    /\ UNCHANGED <<backup, arg, got, past, wiped>>

RecoverFails ==
    /\ pc \in {"recover", "recopy"}
    /\ Goto("idle")
    /\ UNCHANGED <<master, backup, arg, got, past, wiped, spoilt>>

\* file_delete says nothing when it fails
file_delete(f) == {Absent, f}

\* rds_set_default deletes the master, then the backup
rds_set_default ==
    /\ At("idle")
    /\ master' \in file_delete(master)
    /\ wiped' = TRUE
    /\ got' = NoVal
    /\ Goto("delete")
    /\ UNCHANGED <<backup, arg, past, spoilt>>

DeleteBackup ==
    /\ At("delete")
    /\ backup' \in file_delete(backup)
    /\ Goto("idle")
    /\ UNCHANGED <<master, arg, got, past, wiped, spoilt>>

-----------------------------------------------------------------------------
\* the process dies or the power fails: memory is lost, files stay as they are
Crash ==
    /\ Goto("idle")
    /\ arg' = NoVal /\ got' = NoVal
    /\ UNCHANGED <<master, backup, past, wiped, spoilt>>

\* the flash damages one of two readable copies: the case the backup is for
DamageMaster ==
    /\ Readable(master) /\ Readable(backup)
    /\ pc \notin {"backup", "copy"}
    /\ master' = Torn
    /\ UNCHANGED <<backup, pc, arg, got, past, wiped, spoilt>>

DamageBackup ==
    /\ Readable(master) /\ Readable(backup)
    /\ pc \notin {"recover", "recopy"}
    /\ backup' = Torn
    /\ UNCHANGED <<master, pc, arg, got, past, wiped, spoilt>>

RdsCall ==
    \/ Renamed \/ RenameFails \/ WriteFails
    \/ BackupOpened \/ BackupDone \/ BackupFails
    \/ RecoverOpened \/ RecoverDone \/ RecoverFails
    \/ DeleteBackup

RdsNext ==
    \/ \E v \in Vals : rds_update_once(v)
    \/ rds_get \/ rds_set_default
    \/ RdsCall
    \/ Crash \/ DamageMaster \/ DamageBackup

RdsSpec == RdsInit /\ [][RdsNext]_rdsVars

-----------------------------------------------------------------------------
RdsTypeOK ==
    /\ master \in File /\ backup \in File
    /\ pc \in {"idle", "write", "backup", "copy", "recover", "recopy", "delete"}
    /\ arg \in Vals \cup {NoVal}
    /\ got \in Vals \cup {NoVal}
    /\ past \subseteq Vals
    /\ wiped \in BOOLEAN /\ spoilt \in BOOLEAN

\* Once a value is in place one of the two files can always be read, at every step
\* of every call and so wherever a crash, a failed write, a failed rename or a damaged
\* file falls, until the store is wiped.  One case is left open, and it is real: when
\* the master is torn and the rename that should replace it fails, rds_update_once
\* copies the torn master over the last good copy.
OneReadable == past # {} /\ ~wiped /\ ~spoilt => Readable(master) \/ Readable(backup)

\* the value the next rds_get returns
Recoverable == IF Readable(master) THEN master.val
               ELSE IF Readable(backup) THEN backup.val ELSE NoVal

DV == INSTANCE DurableValue WITH stored <- Recoverable, released <- wiped \/ spoilt

\* The two files are one durable value: what can be read changes only by a
\* write in place, by falling back to an older written value, by a wipe, or after a
\* rename failed on a torn master.
IsDurable == DV!DVSpec
=============================================================================
