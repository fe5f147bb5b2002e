------------------------------- MODULE CfgPara ------------------------------
(***************************************************************************)
(* The parameters of the device (app/base/cfg/cfg_para.c) on top of the    *)
(* reliable data store: one record holds all parameters and the version of *)
(* the program that wrote it.  The application boots, restores, serves     *)
(* cfg_set_para and the shell's setdefault, and may be cut off anywhere.   *)
(*                                                                         *)
(* Two parameters stand for all: "old" has a default in                    *)
(* cfg_set_default_para, "new" gets its first value from                   *)
(* cfg_upgrade_new_para.  cfg_set_mutex and cfg_para_mutex make the        *)
(* setting of a parameter one call at a time; the shell's setdefault takes *)
(* neither, and the application runs on until setdefault kills it.         *)
(***************************************************************************)
EXTENDS Rds

CONSTANTS UserVals      \* for each parameter, the values its users set

VARIABLES
    phase,     \* how far the application has come
    ram,       \* cfg_para_buf
    request,   \* the parameter and value of the cfg_set_para in progress
    reset,     \* how far setdefault has come: "none", "clean" while what it deleted
               \* stays deleted, or "dirty"
    allowed    \* history: the values a restored parameter may have

cfgVars == <<phase, ram, request, reset, allowed>>

Items == {"old", "new"}
MAIN_VER == "this version"
Image(p) == [ver |-> MAIN_VER, para |-> p]
OldImage == [ver |-> "version before", para |-> [old |-> "def", new |-> "zero"]]

\* the values a parameter can have
ParaVals == {"def", "key", "zero"} \cup UNION {UserVals[i] : i \in Items}

\* the contents of the record
Images == {Image(p) : p \in [Items -> ParaVals]} \cup {OldImage}

\* the store keeps this record
ASSUME CfgAssumption == Vals = Images

Defaults(i) == IF i = "old" THEN {"def"} ELSE {"key", "zero"}

\* a new device, or one that ran the version before
CfgInit ==
    /\ RdsInit
    /\ past \in {{}, {OldImage}}
    /\ phase = "down"
    /\ ram = [i \in Items |-> "zero"]
    /\ request = <<>> /\ reset = "none"
    /\ allowed = [i \in Items |-> Defaults(i)]

-----------------------------------------------------------------------------
\* INIT_PHASE_INSIDE
cfg_init_para ==
    /\ phase = "down"
    /\ ram' = [i \in Items |-> "zero"]
    /\ phase' = "inside"
    /\ UNCHANGED <<request, reset, allowed, rdsVars>>

\* INIT_PHASE_RESTORE: cfg_restore_para asks the store
cfg_restore_para ==
    /\ phase = "inside"
    /\ rds_get
    /\ phase' = "restore"
    /\ UNCHANGED <<ram, request, reset, allowed>>

cfg_upgrade_new_para(p) == [p EXCEPT !.new = "key"]
cfg_set_default_para(p) == [p EXCEPT !.old = "def"]

\* mutant: the restored bytes are dropped
Restored_blank(image) == [i \in Items |-> "zero"]

\* the parameters of a record, with those added since it was written
Restored(image) ==
    IF image.ver = MAIN_VER THEN image.para ELSE cfg_upgrade_new_para(image.para)

\* the store had a record
RestoreOld ==
    /\ phase = "restore" /\ At("idle")
    /\ got # NoVal
    /\ ram' = Restored(got)
    /\ phase' = "run"
    /\ UNCHANGED <<request, reset, allowed, rdsVars>>

\* it had none: the defaults are set silently and saved
RestoreDefault ==
    /\ phase = "restore" /\ At("idle")
    /\ got = NoVal
    /\ ram' = cfg_set_default_para(ram)
    /\ rds_update_once(Image(ram'))
    /\ phase' = "default"
    /\ UNCHANGED <<request, reset, allowed>>

\* the version that was not read is compared all the same; new parameters are
\* then set in memory only
RestoreEnd ==
    /\ phase = "default" /\ At("idle")
    /\ ram' \in {ram, cfg_upgrade_new_para(ram)}
    /\ phase' = "run"
    /\ UNCHANGED <<request, reset, allowed, rdsVars>>

-----------------------------------------------------------------------------
\* what parameter i becomes when only the backup is left
FromBackup(i) == IF Readable(backup) THEN {Restored(backup.val)[i]} ELSE {}

cfg_set_para(i, v) ==
    /\ phase = "run" /\ At("idle")
    /\ ram' = [ram EXCEPT ![i] = v]
    /\ rds_update_once(Image(ram'))
    /\ request' = <<i, v>>
    /\ allowed' = [allowed EXCEPT ![i] = @ \cup {v}]
    /\ phase' = "setting"
    /\ reset' = IF reset = "none" THEN "none" ELSE "dirty"

\* cfg_notify_changed, then cfg_set_para returns 0, whatever cfg_save_para said
SetReturns ==
    /\ phase = "setting" /\ At("idle")
    /\ allowed' = IF master = Whole(Image(ram))
                  THEN [allowed EXCEPT ![request[1]] = {request[2]}] ELSE allowed
    /\ request' = <<>>
    /\ phase' = "run"
    /\ UNCHANGED <<ram, reset, rdsVars>>

\* The shell's setdefault, once the lock of the store is free: it deletes the files,
\* releases the lock, sleeps two seconds ...
cfg_set_default ==
    /\ phase \in {"run", "setting"} /\ reset = "none"
    /\ rds_set_default
    /\ reset' = IF master' = Absent THEN "clean" ELSE "dirty"
    /\ allowed' = [i \in Items |-> allowed[i] \cup Defaults(i) \cup FromBackup(i)]
    /\ UNCHANGED <<phase, ram, request>>

\* ... and kills the application, whatever that is doing
ResetKill ==
    /\ reset # "none" /\ ~At("delete")
    /\ Crash
    /\ allowed' = IF reset = "clean" THEN [i \in Items |-> Defaults(i)] ELSE allowed
    /\ ram' = [i \in Items |-> "zero"]
    /\ request' = <<>> /\ reset' = "none"
    /\ phase' = "down"

CfgCrash ==
    /\ phase # "down"
    /\ Crash
    /\ ram' = [i \in Items |-> "zero"]
    /\ request' = <<>> /\ reset' = "none"
    /\ phase' = "down"
    /\ UNCHANGED allowed

\* The store works on.  A rename that fails on a torn master costs the last copy, and
\* a backup that cannot be deleted stays.
StoreStep ==
    /\ phase # "down"
    /\ RdsCall
    /\ allowed' = IF spoilt' THEN [i \in Items |-> allowed[i] \cup Defaults(i)] ELSE allowed
    /\ reset' = IF At("delete") /\ backup' # Absent THEN "dirty" ELSE reset
    /\ UNCHANGED <<phase, ram, request>>

\* a damaged file: with the master, what the backup says is what is left
CfgDamage ==
    /\ DamageMaster \/ DamageBackup
    /\ allowed' = IF Readable(master') THEN allowed
                  ELSE [i \in Items |-> allowed[i] \cup FromBackup(i)]
    /\ UNCHANGED <<phase, ram, request, reset>>

CfgNext ==
    \/ cfg_init_para \/ cfg_restore_para
    \/ RestoreOld \/ RestoreDefault \/ RestoreEnd
    \/ \E i \in Items : \E v \in UserVals[i] : cfg_set_para(i, v)
    \/ SetReturns \/ cfg_set_default \/ ResetKill
    \/ CfgCrash \/ StoreStep \/ CfgDamage

CfgSpec == CfgInit /\ [][CfgNext]_<<cfgVars, rdsVars>>

-----------------------------------------------------------------------------
\* A parameter whose setting was saved has that value whenever the application
\* runs, however often and wherever it was cut off since; a setting cut off
\* half-way, or whose save failed, took effect or did not, and never touches
\* another parameter.  After a setdefault that deleted both files and was not overtaken
\* by a setting before it killed the application, every parameter has its default.
\* Older values come back in four cases: a damaged master (the backup's), a setdefault
\* cut off between the two files or that could not delete one, a setting that saves
\* all parameters between the deletion and the kill, and, with the defaults instead,
\* a rename that fails on a torn master.
SavedStays == phase = "run" => \A i \in Items : ram[i] \in allowed[i]

\* A parameter added by this version has, once the record is restored, the value
\* cfg_upgrade_new_para gives it or one that was set since.
NewParaHasValue == phase = "run" /\ got # NoVal => ram["new"] # "zero"
=============================================================================
