---------------------------- MODULE Stores_proofs ---------------------------
(***************************************************************************)
(* What the terminal keeps on its flash and on its card, proved for every  *)
(* value of the constants.                                                 *)
(*                                                                         *)
(* Part 1, CfgPara and Rds: the reliable data store keeps a readable copy  *)
(* through every crash and failed call, until a rename fails that should   *)
(* replace a torn file, and implements a durable value; the parameters of  *)
(* the device, kept in it, are what was saved.                             *)
(*                                                                         *)
(* Part 2, FtCache: the report cache of the Foton client does not enter    *)
(* its endless loops; until the card falls behind, its indexes there       *)
(* follow those in memory, no acknowledged report is sent again, and each  *)
(* report is in one place.                                                 *)
(*                                                                         *)
(* Part 3, Launcher: the launcher survives every single kind of fault.     *)
(***************************************************************************)
EXTENDS CfgPara, FtCache, Launcher, SequenceTheorems, FiniteSetTheorems, TLAPS

-----------------------------------------------------------------------------
(* Part 1: the reliable data store and the parameters.                     *)

\* A file that can be read holds a value that was put in place.
Written(f) == Readable(f) => f.val \in past

\* Where a call in progress stands: the file it copies from can be read, unless a
\* rename failed, and a deletion has begun only on a store that is being wiped.
Progress ==
    /\ pc = "write" => arg \in Vals
    /\ pc = "backup" => master # Torn \/ spoilt
    /\ pc = "copy" => Readable(master) \/ spoilt
    /\ pc \in {"recover", "recopy"} => Readable(backup)
    /\ pc = "delete" => wiped

\* OneReadable is kept only together with what the call in progress relies on.
RdsInv == RdsTypeOK /\ OneReadable /\ Progress /\ Written(master) /\ Written(backup)

LEMMA FileFacts ==
    /\ \A v : Readable(Whole(v)) /\ Whole(v).val = v
    /\ ~Readable(Torn) /\ ~Readable(Absent)
    /\ Torn \in File /\ Absent \in File
    /\ \A v \in Vals : Whole(v) \in File
    /\ \A f \in File : Readable(f) \/ f = Torn \/ f = Absent
    /\ Absent # Torn
BY DEF Readable, Whole, Torn, Absent, File, Content

LEMMA InitInv == RdsInit => RdsInv
<1> SUFFICES ASSUME RdsInit PROVE RdsInv
  OBVIOUS
<1>1. RdsTypeOK
  <2>1. wiped \in BOOLEAN /\ spoilt \in BOOLEAN
    BY Zenon DEF RdsInit
  <2> QED
    BY <2>1, FileFacts DEF RdsInit, RdsTypeOK
<1>2. OneReadable /\ Progress
  BY FileFacts DEF RdsInit, OneReadable, Progress
<1>3. Written(master) /\ Written(backup)
  BY FileFacts DEF RdsInit, Written
<1> QED
  BY <1>1, <1>2, <1>3 DEF RdsInv

LEMMA StepInv == RdsInv /\ [RdsNext]_rdsVars => RdsInv'
<1> SUFFICES ASSUME RdsInv, [RdsNext]_rdsVars PROVE RdsInv'
  OBVIOUS
<1> USE FileFacts, RdsAssumption DEF RdsInv, At, Goto
<1>1. ASSUME NEW v \in Vals, rds_update_once(v) PROVE RdsInv'
  BY <1>1 DEF rds_update_once, RdsTypeOK, OneReadable, Progress, Written
<1>2. CASE Renamed
  <2>1. wiped' \in BOOLEAN /\ ~wiped' /\ spoilt' \in BOOLEAN
    BY <1>2, Zenon DEF Renamed
  <2>2. master' = Whole(arg) /\ arg \in Vals /\ past' = past \cup {arg}
    BY <1>2 DEF Renamed, RenamedOver, Progress
  <2> QED
    BY <1>2, <2>1, <2>2 DEF Renamed, RdsTypeOK, OneReadable, Progress, Written
<1>3. CASE WriteFails \/ BackupFails \/ RecoverFails
  BY <1>3 DEF WriteFails, BackupFails, RecoverFails, RdsTypeOK, OneReadable, Progress, Written
<1>12. CASE RenameFails
  <2>1. /\ spoilt' \in BOOLEAN /\ (spoilt => spoilt') /\ (master = Torn => spoilt')
        /\ (spoilt' => spoilt \/ master = Torn)
    BY <1>12, Zenon DEF RenameFails, RdsTypeOK
  <2> QED
    BY <1>12, <2>1 DEF RenameFails, RdsTypeOK, OneReadable, Progress, Written
<1>4. CASE BackupOpened \/ BackupDone
  BY <1>4 DEF BackupOpened, BackupDone, RdsTypeOK, OneReadable, Progress, Written
<1>5. CASE rds_get
  <2>1. got' \in Vals \cup {NoVal}
    BY <1>5 DEF rds_get, RdsTypeOK, File, Content, Readable, Absent, Torn
  <2> QED
    BY <1>5, <2>1 DEF rds_get, RdsTypeOK, OneReadable, Progress, Written
<1>6. CASE RecoverOpened
  BY <1>6 DEF RecoverOpened, RdsTypeOK, OneReadable, Progress, Written
<1>13. CASE RecoverDone
  <2>1. spoilt' \in BOOLEAN
    BY <1>13, Zenon DEF RecoverDone
  <2> QED
    BY <1>13, <2>1 DEF RecoverDone, RdsTypeOK, OneReadable, Progress, Written
<1>7. CASE rds_set_default
  <2>1. wiped' \in BOOLEAN /\ wiped'
    BY <1>7, Zenon DEF rds_set_default
  <2> QED
    BY <1>7, <2>1 DEF rds_set_default, file_delete, RdsTypeOK, OneReadable, Progress, Written
<1>8. CASE DeleteBackup
  BY <1>8 DEF DeleteBackup, file_delete, RdsTypeOK, OneReadable, Progress, Written
<1>9. CASE Crash
  BY <1>9 DEF Crash, RdsTypeOK, OneReadable, Progress, Written
<1>10. CASE DamageMaster \/ DamageBackup
  BY <1>10 DEF DamageMaster, DamageBackup, RdsTypeOK, OneReadable, Progress, Written
<1>11. CASE UNCHANGED rdsVars
  BY <1>11 DEF rdsVars, RdsTypeOK, OneReadable, Progress, Written, Readable
<1> QED
  BY <1>1, <1>2, <1>3, <1>4, <1>5, <1>6, <1>7, <1>8, <1>9, <1>10, <1>11, <1>12, <1>13
  DEF RdsNext, RdsCall

\* The variables hold what they are meant to through every call and crash.
THEOREM RdsTyped == RdsSpec => []RdsTypeOK
<1>1. RdsInv => RdsTypeOK
  BY DEF RdsInv
<1> QED
  BY <1>1, InitInv, StepInv, PTL DEF RdsSpec

\* Wherever rds_update_once, rds_get or a deletion is cut off or fails, and if a file is
\* damaged between them, one of master and backup can be read, as long as no rename
\* fails that should have replaced a torn master.
THEOREM OneReadableAlways == RdsSpec => []OneReadable
<1>1. RdsInv => OneReadable
  BY DEF RdsInv
<1> QED
  BY <1>1, InitInv, StepInv, PTL DEF RdsSpec

LEMMA InitDurable == RdsInit => DV!DVInit
BY FileFacts DEF RdsInit, DV!DVInit, Recoverable

LEMMA StepDurable == RdsInv /\ [RdsNext]_rdsVars => [DV!DVNext]_(DV!dvVars)
<1> SUFFICES ASSUME RdsInv, [RdsNext]_rdsVars
             PROVE  DV!DVNext \/ UNCHANGED DV!dvVars
  OBVIOUS
<1> USE FileFacts DEF RdsInv, At, Goto
<1>0. Recoverable \in past \cup {NoVal}
  BY DEF Recoverable, Written
<1>1. CASE \/ \E v \in Vals : rds_update_once(v)
           \/ WriteFails \/ BackupFails \/ RecoverFails \/ rds_get \/ Crash
           \/ UNCHANGED rdsVars
  <2>1. UNCHANGED <<master, backup, past, wiped, spoilt>>
    BY <1>1 DEF rds_update_once, WriteFails, BackupFails, RecoverFails, rds_get, Crash, rdsVars
  <2> QED
    BY <2>1 DEF DV!dvVars, Recoverable, Readable
<1>2. CASE Renamed
  <2>1. Recoverable' = arg /\ arg \in Vals
    BY <1>2 DEF Renamed, RenamedOver, Recoverable, Progress
  <2>2. (wiped \/ spoilt)' = FALSE
    BY <1>2, Zenon DEF Renamed
  <2>3. DV!Write
    BY <1>2, <2>1, <2>2 DEF Renamed, DV!Write
  <2> QED
    BY <2>3 DEF DV!DVNext
<1>3. CASE RenameFails
  <2>1. UNCHANGED <<Recoverable, past>>
    BY <1>3 DEF RenameFails, Recoverable, Readable
  <2>2. wiped' = wiped /\ (spoilt' = spoilt \/ spoilt' = TRUE)
    BY <1>3, Zenon DEF RenameFails, RdsTypeOK
  <2>3. CASE spoilt' = spoilt
    BY <2>1, <2>2, <2>3, Zenon DEF DV!dvVars
  <2>4. CASE spoilt' = TRUE
    <3>1. (wiped \/ spoilt)' = TRUE
      BY <2>4, Zenon
    <3>2. DV!Release
      BY <1>0, <2>1, <3>1, Zenon DEF DV!Release
    <3> QED BY <3>2 DEF DV!DVNext
  <2> QED BY <2>2, <2>3, <2>4
<1>4. CASE BackupOpened \/ BackupDone
  <2>1. UNCHANGED <<past, wiped, spoilt>> /\ (Readable(master) \/ spoilt) /\ UNCHANGED master
    BY <1>4 DEF BackupOpened, BackupDone, Progress, RdsTypeOK
  <2>2. CASE Readable(master)
    BY <2>1, <2>2 DEF Recoverable, DV!dvVars
  <2>3. CASE spoilt
    <3>1. Recoverable' \in past \cup {NoVal}
      BY <1>4, <2>1 DEF BackupOpened, BackupDone, Recoverable, Written
    <3>2. DV!Lapse
      BY <2>1, <2>3, <3>1, Zenon DEF DV!Lapse
    <3> QED BY <3>2 DEF DV!DVNext
  <2> QED BY <2>1, <2>2, <2>3
<1>5. CASE DamageBackup
  BY <1>5 DEF DamageBackup, Recoverable, Readable, DV!dvVars
<1>6. CASE RecoverOpened \/ DamageMaster
  <2>1. Recoverable' = backup.val /\ backup.val \in past
    BY <1>6 DEF RecoverOpened, DamageMaster, Recoverable, Progress, Written, Readable, Torn
  <2>2. DV!FallBack
    BY <1>6, <2>1 DEF RecoverOpened, DamageMaster, DV!FallBack
  <2> QED
    BY <2>2 DEF DV!DVNext
<1>7. CASE RecoverDone
  <2>1. /\ Recoverable' = backup.val /\ backup.val \in past /\ backup.val \in Vals
        /\ UNCHANGED <<past, wiped>>
    BY <1>7 DEF RecoverDone, Recoverable, Progress, Written, Readable, RdsTypeOK
  <2>2. wiped \in BOOLEAN /\ spoilt' = FALSE
    BY <1>7, Zenon DEF RecoverDone, RdsTypeOK
  <2>3. CASE wiped
    <3>1. (wiped \/ spoilt)' = (wiped \/ spoilt)
      BY <2>1, <2>3, Zenon
    <3>2. DV!FallBack
      BY <2>1, <3>1, Zenon DEF DV!FallBack
    <3> QED BY <3>2 DEF DV!DVNext
  <2>4. CASE ~wiped
    <3>1. (wiped \/ spoilt)' = FALSE
      BY <2>1, <2>2, <2>4, Zenon
    <3>2. past' = past \cup {Recoverable'}
      BY <2>1
    <3>3. DV!Write
      BY <2>1, <3>1, <3>2, Zenon DEF DV!Write
    <3> QED BY <3>3 DEF DV!DVNext
  <2> QED BY <2>3, <2>4
<1>8. CASE rds_set_default
  <2>1. Recoverable' \in past \cup {NoVal}
    BY <1>8 DEF rds_set_default, file_delete, Recoverable, Written, Readable, Absent
  <2>2. (wiped \/ spoilt)' = TRUE /\ past' = past
    BY <1>8, Zenon DEF rds_set_default
  <2>3. DV!Release
    BY <2>1, <2>2, Zenon DEF DV!Release
  <2> QED
    BY <2>3 DEF DV!DVNext
<1>9. CASE DeleteBackup
  <2>1. Recoverable' \in past \cup {NoVal}
    BY <1>9 DEF DeleteBackup, file_delete, Recoverable, Written, Readable, Absent
  <2>2. wiped /\ UNCHANGED <<past, wiped, spoilt>>
    BY <1>9 DEF DeleteBackup, Progress
  <2>3. DV!Lapse
    BY <2>1, <2>2, Zenon DEF DV!Lapse
  <2> QED
    BY <2>3 DEF DV!DVNext
<1> QED
  BY <1>1, <1>2, <1>3, <1>4, <1>5, <1>6, <1>7, <1>8, <1>9 DEF RdsNext, RdsCall

\* Master and backup together implement DurableValue: what can be read changes
\* only by a write in place, by falling back to an older copy, by a wipe, or after a
\* rename failed that should have replaced a torn master.
THEOREM RdsImplementsDurable == RdsSpec => IsDurable
BY InitInv, StepInv, InitDurable, StepDurable, PTL DEF RdsSpec, IsDurable, DV!DVSpec

-----------------------------------------------------------------------------
(* The parameters kept in the store.                                       *)

\* What a record says of the parameters, and a record of any parameters.
LEMMA ImageFacts ==
    /\ \A v \in Vals : Restored(v) \in [Items -> ParaVals]
    /\ \A p \in [Items -> ParaVals] : Image(p) \in Vals /\ Restored(Image(p)) = p
    /\ \A p \in [Items -> ParaVals] :
          /\ cfg_set_default_para(p) = [p EXCEPT !["old"] = "def"]
          /\ cfg_upgrade_new_para(p) = [p EXCEPT !["new"] = "key"]
    /\ \A i \in Items : UserVals[i] \subseteq ParaVals /\ Defaults(i) \subseteq ParaVals
    /\ {"def", "key", "zero"} \subseteq ParaVals
    /\ \A p \in [Items -> ParaVals] :
          [p EXCEPT !["old"] = "def"] \in [Items -> ParaVals] /\ [p EXCEPT !["new"] = "key"] \in [Items -> ParaVals]
<1>1. {"def", "key", "zero"} \subseteq ParaVals
  BY DEF ParaVals
<1>2. \A i \in Items : UserVals[i] \subseteq ParaVals /\ Defaults(i) \subseteq ParaVals
  BY DEF ParaVals, Defaults
<1>3. \A p \in [Items -> ParaVals] : Image(p) \in Vals
  BY CfgAssumption DEF Images
<1>4. \A p \in [Items -> ParaVals] : Restored(Image(p)) = p
  BY DEF Restored, Image
<1>5. OldImage.para \in [Items -> ParaVals]
  BY <1>1 DEF OldImage, Items
<1>6. Restored(OldImage) = [OldImage.para EXCEPT !["new"] = "key"]
  BY DEF Restored, OldImage, MAIN_VER, cfg_upgrade_new_para
<1>7. \A p \in [Items -> ParaVals] :
          [p EXCEPT !["old"] = "def"] \in [Items -> ParaVals] /\ [p EXCEPT !["new"] = "key"] \in [Items -> ParaVals]
  BY <1>1
<1>8. \A v \in Vals : Restored(v) \in [Items -> ParaVals]
  BY <1>4, <1>5, <1>6, <1>7, CfgAssumption DEF Images
<1>9. \A p \in [Items -> ParaVals] :
          /\ cfg_set_default_para(p) = [p EXCEPT !["old"] = "def"]
          /\ cfg_upgrade_new_para(p) = [p EXCEPT !["new"] = "key"]
  BY DEF cfg_set_default_para, cfg_upgrade_new_para
<1> QED
  BY <1>1, <1>2, <1>3, <1>4, <1>7, <1>8, <1>9

\* What the next rds_get returns restores every parameter to an allowed value, the
\* defaults if it returns nothing.
Restores(m, b, a) ==
    \A i \in Items :
        IF Readable(m) THEN Restored(m.val)[i] \in a[i]
        ELSE IF Readable(b) THEN Restored(b.val)[i] \in a[i]
        ELSE Defaults(i) \subseteq a[i]

\* The types of the application's variables.
CfgTypes ==
    /\ phase \in {"down", "inside", "restore", "default", "run", "setting"}
    /\ reset \in {"none", "clean", "dirty"}
    /\ ram \in [Items -> ParaVals]
    /\ allowed \in [Items -> SUBSET ParaVals]

\* What the call of the store in progress is about to put in place is allowed as well.
StoreSafe ==
    /\ Restores(master, backup, allowed)
    /\ pc = "write" => \A i \in Items : Restored(arg)[i] \in allowed[i]
    /\ pc \in {"recover", "recopy"} => ~Readable(master)
    /\ pc = "delete" => \A i \in Items : Defaults(i) \subseteq allowed[i]

\* What the application restored, or is about to, is allowed.
RamSafe ==
    /\ phase \in {"inside", "restore"} => ram = [i \in Items |-> "zero"]
    /\ phase = "restore" =>
          \A i \in Items : IF got = NoVal THEN Defaults(i) \subseteq allowed[i]
                           ELSE Restored(got)[i] \in allowed[i]
    /\ phase = "default" =>
          \A i \in Items : Defaults(i) \subseteq allowed[i] /\ ram[i] \in Defaults(i)
    /\ phase \in {"run", "setting"} => \A i \in Items : ram[i] \in allowed[i]
    /\ phase = "setting" => \E i \in Items : request = <<i, ram[i]>>

\* Where setdefault stands: what it has deleted stays deleted until a setting is saved.
ResetSafe ==
    /\ reset # "none" => phase \in {"run", "setting"}
    /\ pc = "delete" => reset # "none"
    /\ reset = "clean" =>
          ~Readable(master) /\ (pc = "delete" \/ (pc = "idle" /\ ~Readable(backup)))

\* SavedStays is kept together with what a reader of the files would find.
CfgInv == RdsInv /\ CfgTypes /\ StoreSafe /\ RamSafe /\ ResetSafe

LEMMA InitCfg == CfgInit => CfgInv
<1> SUFFICES ASSUME CfgInit PROVE CfgInv
  OBVIOUS
<1>1. RdsInv /\ RdsInit
  BY InitInv DEF CfgInit
<1>2. CfgTypes
  BY ImageFacts DEF CfgInit, CfgTypes
<1>3. StoreSafe
  <2>1. pc = "idle" /\ backup = master /\ allowed = [i \in Items |-> Defaults(i)]
    BY DEF CfgInit, RdsInit
  <2>2. CASE past = {}
    <3>1. ~Readable(master) /\ ~Readable(backup)
      BY <2>1, <2>2, FileFacts DEF CfgInit, RdsInit
    <3> QED BY <2>1, <3>1 DEF StoreSafe, Restores
  <2>3. CASE past = {OldImage}
    <3>1. master = Whole(OldImage)
      BY <2>3 DEF CfgInit, RdsInit
    <3>2. Readable(master) /\ master.val = OldImage
      BY <3>1, FileFacts
    <3>3. Restored(OldImage) = [old |-> "def", new |-> "key"]
      BY DEF Restored, OldImage, MAIN_VER, cfg_upgrade_new_para
    <3>4. \A i \in Items : Restored(OldImage)[i] \in Defaults(i)
      BY <3>3 DEF Items, Defaults
    <3> QED BY <2>1, <3>2, <3>4 DEF StoreSafe, Restores
  <2> QED BY <2>2, <2>3 DEF CfgInit
<1>4. RamSafe /\ ResetSafe
  BY DEF CfgInit, RdsInit, RamSafe, ResetSafe
<1> QED
  BY <1>1, <1>2, <1>3, <1>4 DEF CfgInv

\* Every step of the application is a step of the store, or does not touch it.
LEMMA StepUsesStore == CfgInv /\ [CfgNext]_<<cfgVars, rdsVars>> => [RdsNext]_rdsVars
<1> SUFFICES ASSUME CfgInv, [CfgNext]_<<cfgVars, rdsVars>> PROVE [RdsNext]_rdsVars
  OBVIOUS
<1>1. CASE RestoreDefault
  <2>1. ram' \in [Items -> ParaVals]
    BY <1>1, ImageFacts DEF RestoreDefault, CfgInv, CfgTypes
  <2> QED
    BY <1>1, <2>1, ImageFacts DEF RestoreDefault, RdsNext
<1>2. ASSUME NEW i \in Items, NEW v \in UserVals[i], cfg_set_para(i, v) PROVE RdsNext
  <2>1. ram' \in [Items -> ParaVals]
    BY <1>2, ImageFacts DEF cfg_set_para, CfgInv, CfgTypes
  <2> QED
    BY <1>2, <2>1, ImageFacts DEF cfg_set_para, RdsNext
<1>3. CASE cfg_init_para \/ RestoreOld \/ RestoreEnd \/ SetReturns
  BY <1>3 DEF cfg_init_para, RestoreOld, RestoreEnd, SetReturns
<1>4. CASE cfg_restore_para \/ cfg_set_default \/ ResetKill \/ CfgCrash \/ StoreStep \/ CfgDamage
  BY <1>4 DEF cfg_restore_para, cfg_set_default, ResetKill, CfgCrash, StoreStep, CfgDamage, RdsNext
<1>5. CASE UNCHANGED <<cfgVars, rdsVars>>
  BY <1>5
<1> QED
  BY <1>1, <1>2, <1>3, <1>4, <1>5 DEF CfgNext

LEMMA StepTypes == CfgInv /\ CfgNext => CfgTypes'
<1> SUFFICES ASSUME CfgInv, CfgNext PROVE CfgTypes'
  OBVIOUS
<1> USE DEF CfgInv, CfgTypes, cfgVars
<1>0. got \in Vals \cup {NoVal}
  BY DEF RdsInv, RdsTypeOK
<1>1. CASE cfg_init_para \/ cfg_restore_para
  BY <1>1, ImageFacts DEF cfg_init_para, cfg_restore_para
<1>2. CASE RestoreOld
  BY <1>0, <1>2, ImageFacts DEF RestoreOld
<1>3. CASE RestoreDefault \/ RestoreEnd
  BY <1>3, ImageFacts DEF RestoreDefault, RestoreEnd
<1>4. ASSUME NEW i \in Items, NEW v \in UserVals[i], cfg_set_para(i, v) PROVE CfgTypes'
  BY <1>4, ImageFacts DEF cfg_set_para
<1>5. CASE SetReturns
  <2>1. phase' = "run" /\ ram' = ram
    BY <1>5 DEF SetReturns
  <2>2. PICK i \in Items : request = <<i, ram[i]>>
    BY <1>5 DEF SetReturns, RamSafe
  <2>3. allowed' \in {allowed, [allowed EXCEPT ![i] = {ram[i]}]} /\ reset' = reset
    BY <1>5, <2>2 DEF SetReturns
  <2> QED BY <2>1, <2>2, <2>3
<1>6. ASSUME NEW i \in Items PROVE FromBackup(i) \subseteq ParaVals
  <2>1. Readable(backup) => backup.val \in Vals
    BY DEF RdsInv, RdsTypeOK, File, Content, Readable, Absent, Torn
  <2> QED BY <2>1, ImageFacts DEF FromBackup
<1>7. CASE cfg_set_default
  <2>1. allowed' \in [Items -> SUBSET ParaVals]
    BY <1>6, <1>7, ImageFacts DEF cfg_set_default
  <2> QED BY <1>7, <2>1 DEF cfg_set_default
<1>8. CASE ResetKill \/ CfgCrash \/ StoreStep
  BY <1>8, ImageFacts DEF ResetKill, CfgCrash, StoreStep
<1>9. CASE CfgDamage
  <2>1. allowed' \in [Items -> SUBSET ParaVals]
    BY <1>6, <1>9 DEF CfgDamage
  <2> QED BY <1>9, <2>1 DEF CfgDamage
<1> QED
  BY <1>1, <1>2, <1>3, <1>4, <1>5, <1>7, <1>8, <1>9 DEF CfgNext

\* A step of the store in which only its call goes on.
LEMMA StoreStepSafe ==
  ASSUME CfgInv, StoreStep
  PROVE  StoreSafe' /\ RamSafe' /\ ResetSafe'
<1> USE FileFacts DEF CfgInv, At, Goto
<1>0. /\ RdsCall /\ UNCHANGED <<phase, ram, request>>
      /\ \A i \in Items : allowed[i] \subseteq allowed'[i]
      /\ spoilt' => \A i \in Items : Defaults(i) \subseteq allowed'[i]
      /\ reset' = IF pc = "delete" /\ backup' # Absent THEN "dirty" ELSE reset
  BY DEF StoreStep, CfgTypes
<1>1. ASSUME UNCHANGED got PROVE RamSafe'
  BY <1>0, <1>1 DEF RamSafe
<1>2. CASE Renamed
  <2>1. /\ master' = Whole(arg) /\ pc = "write" /\ pc' = "backup" /\ got' = got
        /\ \A i \in Items : Restored(arg)[i] \in allowed[i]
    BY <1>2 DEF Renamed, RenamedOver, StoreSafe
  <2>2. Readable(master') /\ master'.val = arg
    BY <2>1
  <2>3. StoreSafe'
    BY <1>0, <2>1, <2>2 DEF StoreSafe, Restores
  <2> QED BY <1>0, <1>1, <2>1, <2>3 DEF ResetSafe
<1>3. CASE WriteFails \/ RenameFails \/ BackupFails \/ RecoverFails
  <2>1. UNCHANGED <<master, backup, got>> /\ pc' \in {"idle", "backup"} /\ pc \notin {"idle", "delete"}
    BY <1>3 DEF WriteFails, RenameFails, BackupFails, RecoverFails
  <2>2. StoreSafe'
    BY <1>0, <2>1 DEF StoreSafe, Restores
  <2> QED BY <1>0, <1>1, <2>1, <2>2 DEF ResetSafe
<1>4. CASE BackupOpened \/ BackupDone
  <2>1. /\ UNCHANGED <<master, got, spoilt>> /\ pc' \in {"copy", "idle"} /\ pc \in {"backup", "copy"}
        /\ Readable(master) \/ spoilt
        /\ Readable(master) \/ ~Readable(backup')
    BY <1>4 DEF BackupOpened, BackupDone, RdsInv, RdsTypeOK, Progress
  <2>2. Restores(master', backup', allowed')
    BY <1>0, <2>1 DEF StoreSafe, Restores
  <2>3. StoreSafe'
    BY <2>1, <2>2 DEF StoreSafe
  <2> QED BY <1>0, <1>1, <2>1, <2>3 DEF ResetSafe
<1>5. CASE RecoverOpened
  <2>1. ~Readable(master) /\ ~Readable(master') /\ UNCHANGED <<backup, got>> /\ pc = "recover" /\ pc' = "recopy"
    BY <1>5 DEF RecoverOpened, StoreSafe
  <2>2. StoreSafe'
    BY <1>0, <2>1 DEF StoreSafe, Restores
  <2> QED BY <1>0, <1>1, <2>1, <2>2 DEF ResetSafe
<1>6. CASE RecoverDone
  <2>1. /\ ~Readable(master) /\ Readable(backup) /\ master' = backup /\ UNCHANGED <<backup, got>>
        /\ pc = "recopy" /\ pc' = "idle"
    BY <1>6 DEF RecoverDone, RdsInv, Progress, StoreSafe
  <2>2. StoreSafe'
    BY <1>0, <2>1 DEF StoreSafe, Restores
  <2> QED BY <1>0, <1>1, <2>1, <2>2 DEF ResetSafe
<1>7. CASE DeleteBackup
  <2>1. /\ UNCHANGED <<master, got>> /\ pc = "delete" /\ pc' = "idle"
        /\ \A i \in Items : Defaults(i) \subseteq allowed[i]
        /\ backup' = Absent \/ backup' = backup
    BY <1>7 DEF DeleteBackup, file_delete, StoreSafe
  <2>2. StoreSafe'
    BY <1>0, <2>1 DEF StoreSafe, Restores
  <2>3. ResetSafe'
    BY <1>0, <2>1 DEF ResetSafe
  <2> QED BY <1>1, <2>1, <2>2, <2>3
<1> QED BY <1>0, <1>2, <1>3, <1>4, <1>5, <1>6, <1>7 DEF RdsCall

\* The application restores its parameters.
LEMMA RestoreSafe ==
  ASSUME CfgInv, cfg_init_para \/ cfg_restore_para \/ RestoreOld \/ RestoreDefault \/ RestoreEnd
  PROVE  StoreSafe' /\ RamSafe' /\ ResetSafe'
<1> USE DEF CfgInv, At, Goto
<1>0. ResetSafe'
  <2>1. reset = "none" /\ reset' = reset /\ pc' # "delete"
    BY DEF ResetSafe, cfg_init_para, cfg_restore_para, RestoreOld, RestoreDefault, RestoreEnd, rds_get,
       rds_update_once, rdsVars
  <2> QED BY <2>1 DEF ResetSafe
<1>1. CASE cfg_init_para
  BY <1>0, <1>1 DEF cfg_init_para, rdsVars, StoreSafe, Restores, RamSafe
<1>2. CASE cfg_restore_para
  <2>1. /\ UNCHANGED <<master, backup, arg, allowed, ram>> /\ pc = "idle" /\ phase = "inside" /\ phase' = "restore"
        /\ got' = IF Readable(master) THEN master.val
                  ELSE IF Readable(backup) THEN backup.val ELSE NoVal
        /\ pc' = IF ~Readable(master) /\ Readable(backup) THEN "recover" ELSE "idle"
    BY <1>2 DEF cfg_restore_para, rds_get
  <2>2. /\ Readable(master) => master.val # NoVal
        /\ Readable(backup) => backup.val # NoVal
    BY RdsAssumption DEF RdsInv, RdsTypeOK, File, Content, Readable, Absent, Torn
  <2>3. StoreSafe'
    BY <2>1 DEF StoreSafe, Restores
  <2>4. \A i \in Items : IF got' = NoVal THEN Defaults(i) \subseteq allowed[i] ELSE Restored(got')[i] \in allowed[i]
    BY <2>1, <2>2 DEF StoreSafe, Restores
  <2> QED BY <1>0, <2>1, <2>3, <2>4 DEF RamSafe
<1>3. CASE RestoreOld
  <2>1. StoreSafe'
    BY <1>3 DEF RestoreOld, rdsVars, StoreSafe, Restores
  <2>2. phase' = "run" /\ UNCHANGED allowed /\ \A i \in Items : ram'[i] \in allowed[i]
    BY <1>3 DEF RestoreOld, RamSafe
  <2> QED BY <1>0, <2>1, <2>2 DEF RamSafe
<1>4. CASE RestoreDefault
  <2>1. /\ phase = "restore" /\ got = NoVal /\ pc = "idle" /\ phase' = "default" /\ pc' = "write"
        /\ UNCHANGED <<master, backup, allowed>> /\ arg' = Image(ram') /\ ram' = cfg_set_default_para(ram)
    BY <1>4 DEF RestoreDefault, rds_update_once
  <2>2. \A i \in Items : Defaults(i) \subseteq allowed[i]
    BY <2>1 DEF RamSafe
  <2>3. ram \in [Items -> ParaVals] /\ \A i \in Items : ram[i] = "zero"
    BY <2>1 DEF RamSafe, CfgTypes
  <2>4. ram' \in [Items -> ParaVals] /\ \A i \in Items : ram'[i] \in Defaults(i)
    BY <2>1, <2>3, ImageFacts DEF Items, Defaults
  <2>5. Restored(arg') = ram'
    BY <2>1, <2>4, ImageFacts
  <2>6. \A i \in Items : ram'[i] \in allowed[i]
    BY <2>2, <2>4
  <2> QED BY <1>0, <2>1, <2>2, <2>4, <2>5, <2>6 DEF StoreSafe, Restores, RamSafe
<1>5. CASE RestoreEnd
  <2>1. /\ phase = "default" /\ phase' = "run" /\ UNCHANGED allowed
        /\ ram' \in {ram, cfg_upgrade_new_para(ram)}
    BY <1>5 DEF RestoreEnd
  <2>2. StoreSafe'
    BY <1>5 DEF RestoreEnd, rdsVars, StoreSafe, Restores
  <2>3. \A i \in Items : Defaults(i) \subseteq allowed[i] /\ ram[i] \in Defaults(i)
    BY <2>1 DEF RamSafe
  <2>4. \A i \in Items : cfg_upgrade_new_para(ram)[i] \in Defaults(i)
    BY <2>3, ImageFacts DEF CfgTypes, Items, Defaults
  <2>5. \A i \in Items : ram'[i] \in allowed[i]
    BY <2>1, <2>3, <2>4
  <2> QED BY <1>0, <2>1, <2>2, <2>5 DEF RamSafe
<1> QED BY <1>0, <1>1, <1>2, <1>3, <1>4, <1>5

\* A parameter is set, and its setting returns.
LEMMA SetSafe ==
  ASSUME CfgInv, NEW i \in Items, NEW v \in UserVals[i], cfg_set_para(i, v)
  PROVE  StoreSafe' /\ RamSafe' /\ ResetSafe'
<1> USE DEF CfgInv, At, Goto
<1>1. /\ phase = "run" /\ pc = "idle" /\ phase' = "setting" /\ pc' = "write"
      /\ ram' = [ram EXCEPT ![i] = v] /\ allowed' = [allowed EXCEPT ![i] = @ \cup {v}]
      /\ request' = <<i, v>> /\ arg' = Image(ram') /\ UNCHANGED <<master, backup>>
  BY DEF cfg_set_para, rds_update_once
<1>2. /\ ram \in [Items -> ParaVals] /\ allowed \in [Items -> SUBSET ParaVals] /\ v \in ParaVals
      /\ \A j \in Items : ram[j] \in allowed[j]
  BY <1>1, ImageFacts DEF CfgTypes, RamSafe
<1>3. ram' \in [Items -> ParaVals] /\ \A j \in Items : ram'[j] = IF j = i THEN v ELSE ram[j]
  BY <1>1, <1>2
<1>4. \A j \in Items : allowed[j] \subseteq allowed'[j] /\ ram'[j] \in allowed'[j]
  BY <1>1, <1>2, <1>3
<1>5. Restored(arg') = ram'
  BY <1>1, <1>3, ImageFacts
<1>6. Restores(master', backup', allowed')
  BY <1>1, <1>4 DEF StoreSafe, Restores
<1>7. request' = <<i, ram'[i]>>
  BY <1>1, <1>3
<1>8. ResetSafe'
  BY <1>1 DEF cfg_set_para, ResetSafe
<1> QED BY <1>1, <1>4, <1>5, <1>6, <1>7, <1>8 DEF StoreSafe, RamSafe

LEMMA ReturnSafe ==
  ASSUME CfgInv, SetReturns
  PROVE  StoreSafe' /\ RamSafe' /\ ResetSafe'
<1> USE DEF CfgInv, At, Goto
<1>1. /\ phase = "setting" /\ pc = "idle" /\ phase' = "run" /\ UNCHANGED <<ram, rdsVars>>
  BY DEF SetReturns
<1>2. PICK i \in Items : request = <<i, ram[i]>>
  BY <1>1 DEF RamSafe
<1>3. \A j \in Items : ram[j] \in allowed[j]
  BY <1>1 DEF RamSafe
<1>4. CASE master = Whole(Image(ram))
  <2>1. allowed' = [allowed EXCEPT ![i] = {ram[i]}]
    BY <1>2, <1>4 DEF SetReturns
  <2>2. \A j \in Items : ram[j] \in allowed'[j]
    BY <1>3, <2>1 DEF CfgTypes
  <2>3. Readable(master) /\ Restored(master.val) = ram
    BY <1>4, FileFacts, ImageFacts DEF CfgTypes
  <2> QED BY <1>1, <2>2, <2>3 DEF rdsVars, StoreSafe, Restores, RamSafe, ResetSafe, SetReturns
<1>5. CASE master # Whole(Image(ram))
  BY <1>1, <1>3, <1>5 DEF SetReturns, rdsVars, StoreSafe, Restores, RamSafe, ResetSafe
<1>6. ResetSafe'
  BY DEF SetReturns, rdsVars, ResetSafe
<1> QED BY <1>4, <1>5, <1>6

\* The store is wiped, and the application is killed.
LEMMA WipeSafe ==
  ASSUME CfgInv, cfg_set_default \/ ResetKill
  PROVE  StoreSafe' /\ RamSafe' /\ ResetSafe'
<1> USE DEF CfgInv, At, Goto
<1>1. CASE cfg_set_default
  <2>1. /\ UNCHANGED <<phase, ram, request, backup>> /\ phase \in {"run", "setting"} /\ pc' = "delete"
        /\ master' = Absent \/ (master' = master /\ master' # Absent)
        /\ allowed' = [i \in Items |-> allowed[i] \cup Defaults(i) \cup FromBackup(i)]
        /\ reset' = IF master' = Absent THEN "clean" ELSE "dirty"
    BY <1>1 DEF cfg_set_default, rds_set_default, file_delete
  <2>2. \A i \in Items : allowed[i] \cup Defaults(i) \cup FromBackup(i) \subseteq allowed'[i]
    BY <2>1
  <2>3. Restores(master', backup', allowed')
    BY <2>1, <2>2, FileFacts DEF StoreSafe, Restores, FromBackup
  <2>4. StoreSafe'
    BY <2>1, <2>2, <2>3 DEF StoreSafe
  <2>5. RamSafe'
    BY <2>1, <2>2 DEF RamSafe
  <2>6. ResetSafe'
    BY <2>1, FileFacts DEF ResetSafe
  <2> QED BY <2>4, <2>5, <2>6
<1>2. CASE ResetKill
  <2>1. /\ phase' = "down" /\ pc # "delete" /\ pc' = "idle" /\ UNCHANGED <<master, backup>>
        /\ allowed' = IF reset = "clean" THEN [i \in Items |-> Defaults(i)] ELSE allowed
        /\ reset' = "none"
    BY <1>2 DEF ResetKill, Crash
  <2>2. reset = "clean" => ~Readable(master) /\ ~Readable(backup)
    BY <2>1 DEF ResetSafe
  <2> QED BY <2>1, <2>2 DEF StoreSafe, Restores, RamSafe, ResetSafe
<1> QED BY <1>1, <1>2

\* The application is cut off, or a file is damaged.
LEMMA FaultSafe ==
  ASSUME CfgInv, CfgCrash \/ CfgDamage
  PROVE  StoreSafe' /\ RamSafe' /\ ResetSafe'
<1> USE DEF CfgInv, At, Goto
<1>1. CASE CfgCrash
  BY <1>1 DEF CfgCrash, Crash, StoreSafe, Restores, RamSafe, ResetSafe
<1>2. CASE CfgDamage
  <2>1. /\ Readable(master) /\ Readable(backup) /\ UNCHANGED <<pc, arg, got, phase, ram, request, reset>>
        /\ \/ ~Readable(master') /\ UNCHANGED backup
           \/ UNCHANGED master
    BY <1>2, FileFacts DEF CfgDamage, DamageMaster, DamageBackup
  <2>2. \A i \in Items : allowed[i] \subseteq allowed'[i]
    BY <1>2 DEF CfgDamage, CfgTypes
  <2>3. ~Readable(master') => \A i \in Items : FromBackup(i) \subseteq allowed'[i]
    BY <1>2 DEF CfgDamage
  <2>4. Restores(master', backup', allowed')
    BY <2>1, <2>2, <2>3 DEF StoreSafe, Restores, FromBackup
  <2>5. StoreSafe'
    BY <2>1, <2>2, <2>4 DEF StoreSafe
  <2>6. RamSafe'
    BY <2>1, <2>2 DEF StoreSafe, RamSafe
  <2>7. ResetSafe'
    BY <2>1 DEF ResetSafe
  <2> QED BY <2>5, <2>6, <2>7
<1> QED BY <1>1, <1>2

LEMMA StepCfg == CfgInv /\ [CfgNext]_<<cfgVars, rdsVars>> => CfgInv'
<1>1. ASSUME CfgInv, CfgNext PROVE CfgInv'
  <2>1. RdsInv'
    BY <1>1, StepUsesStore, StepInv DEF CfgInv
  <2>2. CfgTypes'
    BY <1>1, StepTypes
  <2>3. StoreSafe' /\ RamSafe' /\ ResetSafe'
    BY <1>1, StoreStepSafe, RestoreSafe, SetSafe, ReturnSafe, WipeSafe, FaultSafe
    DEF CfgNext
  <2> QED BY <2>1, <2>2, <2>3 DEF CfgInv
<1>2. ASSUME CfgInv, UNCHANGED <<cfgVars, rdsVars>> PROVE CfgInv'
  <2>1. RdsInv'
    BY <1>2, StepInv DEF CfgInv
  <2> QED BY <1>2, <2>1 DEF CfgInv, CfgTypes, StoreSafe, Restores, RamSafe, ResetSafe, At, cfgVars, rdsVars
<1> QED
  BY <1>1, <1>2

\* Whatever the application and its users do, and wherever they are cut off, a parameter
\* has a value that may be restored: the last one whose saving succeeded, one whose
\* saving was cut off or failed, after a damage the backup's, the default after a
\* setdefault or when a rename failed on a torn master, and after a setdefault during
\* which a parameter was set, what that setting saved of the others.
THEOREM SavedAlwaysStays == CfgSpec => []SavedStays
<1>1. CfgInv => SavedStays
  BY DEF CfgInv, RamSafe, SavedStays
<1> QED
  BY <1>1, InitCfg, StepCfg, PTL DEF CfgSpec

\* The application uses the store as its specification allows, so what is proved of
\* the store holds in it: a readable copy, and a durable record of all parameters.
THEOREM CfgUsesStore == CfgSpec => RdsSpec /\ []OneReadable /\ IsDurable
<1>1. CfgSpec => RdsSpec
  <2>1. CfgInit => RdsInit
    BY DEF CfgInit
  <2> QED
    BY <2>1, InitCfg, StepCfg, StepUsesStore, PTL DEF CfgSpec, RdsSpec
<1> QED
  BY <1>1, OneReadableAlways, RdsImplementsDurable, PTL

-----------------------------------------------------------------------------
(* Part 2: the report cache of the Foton client.                           *)

-----------------------------------------------------------------------------
(* Lists: what is in them, and whether twice.                              *)

LEMMA AppendRange ==
    ASSUME NEW S, NEW s \in Seq(S), NEW x \in S
    PROVE  /\ Append(s, x) \in Seq(S) /\ Len(Append(s, x)) = Len(s) + 1
           /\ Range(Append(s, x)) = Range(s) \cup {x}
           /\ IsInjective(s) /\ x \notin Range(s) => IsInjective(Append(s, x))
BY AppendProperties DEF Range, IsInjective

LEMMA ConcatRange ==
    ASSUME NEW S, NEW s \in Seq(S), NEW t \in Seq(S)
    PROVE  /\ s \o t \in Seq(S) /\ Len(s \o t) = Len(s) + Len(t)
           /\ Range(s \o t) = Range(s) \cup Range(t)
           /\ IsInjective(s) /\ IsInjective(t) /\ Range(s) \cap Range(t) = {} => IsInjective(s \o t)
<1>1. /\ s \o t \in Seq(S) /\ Len(s \o t) = Len(s) + Len(t)
      /\ Range(s \o t) = Range(s) \cup Range(t)
  BY ConcatProperties, RangeConcatenation
<1>2. ASSUME IsInjective(s), IsInjective(t), Range(s) \cap Range(t) = {} PROVE IsInjective(s \o t)
  <2>1. \A i \in 1 .. Len(s) : (s \o t)[i] = s[i] /\ s[i] \in Range(s) BY DEF Range
  <2>2. \A i \in 1 .. Len(t) : (s \o t)[Len(s) + i] = t[i] /\ t[i] \in Range(t) BY DEF Range
  <2> SUFFICES ASSUME NEW i \in 1 .. Len(s) + Len(t), NEW j \in 1 .. Len(s) + Len(t),
                      (s \o t)[i] = (s \o t)[j]
               PROVE  i = j
    BY <1>1 DEF IsInjective
  <2>3. \A k \in 1 .. Len(s) + Len(t) :
            \/ k \in 1 .. Len(s)
            \/ k - Len(s) \in 1 .. Len(t) /\ k = Len(s) + (k - Len(s))
    OBVIOUS
  <2>4. CASE i \in 1 .. Len(s) /\ j \in 1 .. Len(s) BY <1>2, <2>1, <2>4 DEF IsInjective
  <2>5. CASE i \in 1 .. Len(s) /\ j \notin 1 .. Len(s) BY <1>2, <2>1, <2>2, <2>3, <2>5
  <2>6. CASE i \notin 1 .. Len(s) /\ j \in 1 .. Len(s) BY <1>2, <2>1, <2>2, <2>3, <2>6
  <2>7. CASE i \notin 1 .. Len(s) /\ j \notin 1 .. Len(s)
    <3>1. t[i - Len(s)] = t[j - Len(s)] BY <2>2, <2>3, <2>7
    <3>2. i - Len(s) = j - Len(s) BY <1>2, <2>3, <2>7, <3>1 DEF IsInjective
    <3> QED BY <3>2
  <2> QED BY <2>4, <2>5, <2>6, <2>7
<1> QED BY <1>1, <1>2

LEMMA TailRange ==
    ASSUME NEW S, NEW s \in Seq(S), s # <<>>
    PROVE  /\ Head(s) \in S /\ Tail(s) \in Seq(S) /\ Len(Tail(s)) = Len(s) - 1
           /\ Head(s) \in Range(s)
           /\ Range(s) = Range(Tail(s)) \cup {Head(s)}
           /\ IsInjective(s) => IsInjective(Tail(s)) /\ Head(s) \notin Range(Tail(s))
<1>1. /\ Head(s) = s[1] /\ Head(s) \in S /\ Tail(s) \in Seq(S) /\ Len(Tail(s)) = Len(s) - 1
      /\ \A i \in 1 .. Len(s) - 1 : Tail(s)[i] = s[i + 1]
  BY HeadTailProperties
<1>2. Len(s) \in Nat \ {0} /\ DOMAIN s = 1 .. Len(s) /\ DOMAIN Tail(s) = 1 .. Len(s) - 1 BY <1>1
<1>3. Range(Tail(s)) \subseteq Range(s) BY <1>1, <1>2 DEF Range
<1>4. \A x \in Range(s) : x = s[1] \/ x \in Range(Tail(s))
  <2> SUFFICES ASSUME NEW i \in 1 .. Len(s), i # 1 PROVE s[i] \in Range(Tail(s))
    BY <1>2 DEF Range
  <2>1. i - 1 \in 1 .. Len(s) - 1 /\ Tail(s)[i - 1] = s[i] BY <1>1, <1>2
  <2> QED BY <1>2, <2>1 DEF Range
<1>5. Head(s) \in Range(s) BY <1>1, <1>2 DEF Range
<1>6. IsInjective(s) => IsInjective(Tail(s)) BY <1>1, <1>2 DEF IsInjective
<1>7. IsInjective(s) => Head(s) \notin Range(Tail(s)) BY <1>1, <1>2 DEF IsInjective, Range
<1> QED BY <1>1, <1>3, <1>4, <1>5, <1>6, <1>7

LEMMA FrontRange ==
    ASSUME NEW S, NEW s \in Seq(S), s # <<>>
    PROVE  /\ Last(s) \in S /\ Front(s) \in Seq(S) /\ Len(Front(s)) = Len(s) - 1
           /\ Last(s) \in Range(s)
           /\ Range(s) = Range(Front(s)) \cup {Last(s)}
           /\ IsInjective(s) => IsInjective(Front(s)) /\ Last(s) \notin Range(Front(s))
<1>1. Len(s) \in Nat \ {0} /\ DOMAIN s = 1 .. Len(s) BY EmptySeq, LenProperties
<1>2. /\ Last(s) = s[Len(s)] /\ Front(s) \in Seq(S) /\ Len(Front(s)) = Len(s) - 1
      /\ \A i \in 1 .. Len(s) - 1 : Front(s)[i] = s[i]
  BY <1>1, SubSeqProperties DEF Front, Last
<1>3. DOMAIN Front(s) = 1 .. Len(s) - 1 BY <1>1, <1>2
<1>4. Last(s) \in S /\ Last(s) \in Range(s) BY <1>1, <1>2 DEF Range
<1>5. Range(Front(s)) \subseteq Range(s) BY <1>1, <1>2, <1>3 DEF Range
<1>6. \A x \in Range(s) : x = Last(s) \/ x \in Range(Front(s))
  <2> SUFFICES ASSUME NEW i \in 1 .. Len(s), i # Len(s) PROVE s[i] \in Range(Front(s))
    BY <1>1, <1>2 DEF Range
  <2>1. \A n \in Nat : \A k \in 1 .. n : k # n => k \in 1 .. n - 1 OBVIOUS
  <2>2. i \in 1 .. Len(s) - 1 BY <1>1, <2>1
  <2>3. Front(s)[i] = s[i] BY <1>2, <2>2
  <2> QED BY <1>3, <2>2, <2>3 DEF Range
<1>7. IsInjective(s) => IsInjective(Front(s)) BY <1>1, <1>2, <1>3 DEF IsInjective
<1>8. IsInjective(s) => Last(s) \notin Range(Front(s))
  <2> SUFFICES ASSUME IsInjective(s), NEW i \in 1 .. Len(s) - 1, s[Len(s)] = s[i] PROVE FALSE
    BY <1>1, <1>2, <1>3 DEF Range
  <2>1. \A n \in Nat \ {0} : n \in 1 .. n /\ \A k \in 1 .. n - 1 : k \in 1 .. n /\ k # n OBVIOUS
  <2>2. i \in 1 .. Len(s) /\ Len(s) \in 1 .. Len(s) /\ i # Len(s) BY <1>1, <2>1
  <2>3. i \in DOMAIN s /\ Len(s) \in DOMAIN s BY <1>1, <2>2
  <2> QED BY <2>2, <2>3 DEF IsInjective
<1> QED BY <1>2, <1>4, <1>5, <1>6, <1>7, <1>8

LEMMA EmptyRange == <<>> \in Seq(Rep) /\ Len(<<>>) = 0 /\ Range(<<>>) = {} /\ IsInjective(<<>>)
BY DEF Range, IsInjective

LEMMA SingleRange ==
    ASSUME NEW S, NEW x \in S
    PROVE  <<x>> \in Seq(S) /\ Len(<<x>>) = 1 /\ Range(<<x>>) = {x} /\ IsInjective(<<x>>)
BY DEF Range, IsInjective

-----------------------------------------------------------------------------
(* The ring of cache_data: the slots between two indexes.                  *)

Indexes == [r : Ring, w : Ring]

\* the slot s is between the indexes
Within(i, s)   == IF i.r <= i.w THEN i.r <= s /\ s < i.w ELSE i.r <= s \/ s < i.w
Between(i)     == {s \in Ring : Within(i, s)}
DiskContent(d, i) == {d[s] : s \in Between(i)}
Distinct(d, i) == \A s, t \in Between(i) : d[s] = d[t] => s = t

LEMMA Sizes == NBuf \in Nat \ {0} /\ RingSize \in Nat \ {0} /\ Grade \in Nat \ {0} /\ InFlight \in Nat \ {0}
               /\ NErr \in Nat \ {0} /\ MaxRep \in Nat /\ MaxNoRoom \in Nat /\ MaxRare \in Nat
               /\ NBuf >= Grade + InFlight + NErr + MaxNoRoom
BY CacheAssumption DEF CacheAssumption

LEMMA RingMod ==
    ASSUME NEW a \in Int, -RingSize <= a, a < 2 * RingSize
    PROVE  /\ a < 0 => a % RingSize = a + RingSize
           /\ 0 <= a /\ a < RingSize => a % RingSize = a
           /\ RingSize <= a => a % RingSize = a - RingSize
           /\ a % RingSize \in Ring
<1>0. RingSize \in Nat \ {0} BY Sizes
<1>1. a < 0 => a % RingSize = a + RingSize BY <1>0
<1>2. 0 <= a /\ a < RingSize => a % RingSize = a BY <1>0
<1>3. RingSize <= a => a % RingSize = a - RingSize BY <1>0
<1>4. a % RingSize \in Ring BY <1>0 DEF Ring
<1> QED BY <1>1, <1>2, <1>3, <1>4

LEMMA StepIs ==
    ASSUME NEW i \in Ring
    PROVE  Step(i) \in Ring /\ Step(i) = IF i = RingSize - 1 THEN 0 ELSE i + 1
<1>0. RingSize \in Nat \ {0} BY Sizes
<1>1. i + 1 \in Int /\ -RingSize <= i + 1 /\ i + 1 < 2 * RingSize BY <1>0 DEF Ring
<1>2. Step(i) \in Ring BY <1>1, RingMod DEF Step
<1>3. CASE i = RingSize - 1
  <2>1. i + 1 = RingSize BY <1>0, <1>3
  <2>2. RingSize <= i + 1 BY <1>0, <2>1
  <2>3. (i + 1) % RingSize = (i + 1) - RingSize BY <1>1, <2>2, RingMod
  <2>4. Step(i) = 0 BY <1>0, <2>1, <2>3 DEF Step
  <2> QED BY <1>2, <1>3, <2>4
<1>4. CASE i # RingSize - 1
  <2>1. 0 <= i + 1 /\ i + 1 < RingSize BY <1>0, <1>4 DEF Ring
  <2> QED BY <1>1, <1>2, <1>4, <2>1, RingMod DEF Step
<1> QED BY <1>3, <1>4

LEMMA AheadIs ==
    ASSUME NEW i \in Indexes
    PROVE  /\ Ahead(i) \in Nat /\ Ahead(i) <= RingSize - 1
           /\ Ahead(i) = IF i.r <= i.w THEN i.w - i.r ELSE i.w - i.r + RingSize
<1>0. RingSize \in Nat \ {0} BY Sizes
<1>1. i.r \in Ring /\ i.w \in Ring BY DEF Indexes
<1>2. i.w - i.r \in Int /\ -RingSize <= i.w - i.r /\ i.w - i.r < RingSize /\ i.w - i.r < 2 * RingSize
  BY <1>0, <1>1 DEF Ring
<1>3. Ahead(i) \in Ring BY <1>2, RingMod DEF Ahead
<1>4. CASE i.r <= i.w
  <2>1. 0 <= i.w - i.r BY <1>0, <1>1, <1>4 DEF Ring
  <2>2. Ahead(i) = i.w - i.r BY <1>2, <2>1, RingMod DEF Ahead
  <2> QED BY <1>0, <1>3, <1>4, <2>2 DEF Ring
<1>5. CASE ~(i.r <= i.w)
  <2>1. i.w - i.r < 0 BY <1>0, <1>1, <1>5 DEF Ring
  <2>2. Ahead(i) = (i.w - i.r) + RingSize BY <1>2, <2>1, RingMod DEF Ahead
  <2>3. (i.w - i.r) + RingSize = i.w - i.r + RingSize BY <1>0, <1>1 DEF Ring
  <2> QED BY <1>0, <1>3, <1>5, <2>2, <2>3 DEF Ring
<1> QED BY <1>4, <1>5

\* the slot of the k-th report between the indexes
LEMMA SlotIs ==
    ASSUME NEW i \in Indexes, NEW k \in 1 .. Ahead(i)
    PROVE  /\ (i.r + k - 1) % RingSize \in Between(i)
           /\ (i.r + k - 1) % RingSize = IF i.r + k - 1 < RingSize THEN i.r + k - 1 ELSE i.r + k - 1 - RingSize
<1>0. RingSize \in Nat \ {0} BY Sizes
<1>1. i.r \in Ring /\ i.w \in Ring BY DEF Indexes
<1> DEFINE n == Ahead(i)
           a == i.r + k - 1
<1>2. n \in Nat /\ n <= RingSize - 1 /\ n = IF i.r <= i.w THEN i.w - i.r ELSE i.w - i.r + RingSize
  BY AheadIs
<1>3. k \in 1 .. n OBVIOUS
<1> HIDE DEF n
<1>4. a \in Int /\ -RingSize <= a /\ 0 <= a /\ a < 2 * RingSize BY <1>0, <1>1, <1>2, <1>3 DEF Ring
<1> DEFINE m == a % RingSize
<1>5. m \in Ring /\ (a < RingSize => m = a) /\ (RingSize <= a => m = a - RingSize) BY <1>4, RingMod
<1> HIDE DEF m
<1>6. Within(i, m) BY <1>0, <1>1, <1>2, <1>3, <1>4, <1>5 DEF Ring, Within
<1>7. m \in Between(i) BY <1>5, <1>6 DEF Between
<1>8. m = IF i.r + k - 1 < RingSize THEN i.r + k - 1 ELSE i.r + k - 1 - RingSize
  BY <1>0, <1>1, <1>2, <1>3, <1>4, <1>5 DEF Ring
<1> QED BY <1>7, <1>8 DEF m

LEMMA EverySlot ==
    ASSUME NEW i \in Indexes, NEW s \in Between(i)
    PROVE  \E k \in 1 .. Ahead(i) : (i.r + k - 1) % RingSize = s
<1>0. RingSize \in Nat \ {0} BY Sizes
<1>1. i.r \in Ring /\ i.w \in Ring /\ s \in Ring /\ Within(i, s) BY DEF Indexes, Between
<1> DEFINE n == Ahead(i)
           k == IF i.r <= s THEN s - i.r + 1 ELSE s - i.r + 1 + RingSize
<1>2. n \in Nat /\ n <= RingSize - 1 /\ n = IF i.r <= i.w THEN i.w - i.r ELSE i.w - i.r + RingSize
  BY AheadIs
<1> HIDE DEF n
<1>3. k \in 1 .. n BY <1>0, <1>1, <1>2 DEF Within, Ring
<1>4. i.r + k - 1 = IF i.r <= s THEN s ELSE s + RingSize BY <1>0, <1>1 DEF Ring
<1> DEFINE a == i.r + k - 1
<1>5. a \in Int /\ 0 <= a /\ -RingSize <= a /\ a < 2 * RingSize /\ (a = s \/ a = s + RingSize)
  BY <1>0, <1>1, <1>4 DEF Ring
<1> DEFINE m == a % RingSize
<1> HIDE DEF k, a
<1>6. (a < RingSize => m = a) /\ (RingSize <= a => m = a - RingSize) BY <1>5, RingMod
<1> HIDE DEF m
<1>7. m = s BY <1>0, <1>1, <1>5, <1>6 DEF Ring
<1> QED BY <1>3, <1>7 DEF n, m, a

LEMMA CachedIs ==
    ASSUME NEW i \in Indexes, NEW S, disk \in [Ring -> S]
    PROVE  /\ Cached(i) \in Seq(S)
           /\ Range(Cached(i)) = DiskContent(disk, i)
           /\ Distinct(disk, i) => IsInjective(Cached(i))
<1> DEFINE n == Ahead(i)
           at(k) == (i.r + k - 1) % RingSize
<1>0. n \in Nat BY AheadIs
<1>1. \A k \in 1 .. n : at(k) \in Between(i) /\ at(k) \in Ring BY SlotIs DEF Between
<1>2. \A j, k \in 1 .. n : at(j) = at(k) => j = k
  <2> SUFFICES ASSUME NEW j \in 1 .. n, NEW k \in 1 .. n, at(j) = at(k) PROVE j = k OBVIOUS
  <2>0. RingSize \in Nat \ {0} /\ i.r \in Ring /\ n <= RingSize - 1 BY Sizes, AheadIs DEF Indexes
  <2> DEFINE r == i.r
             x == at(j)
             y == at(k)
  <2>1. x = IF r + j - 1 < RingSize THEN r + j - 1 ELSE r + j - 1 - RingSize BY SlotIs
  <2>2. y = IF r + k - 1 < RingSize THEN r + k - 1 ELSE r + k - 1 - RingSize BY SlotIs
  <2>3. x = y OBVIOUS
  <2>4. r \in 0 .. RingSize - 1 BY <2>0 DEF Ring
  <2> HIDE DEF x, y, n, r
  <2>5. r \in Int /\ j \in Int /\ k \in Int /\ j - k < RingSize /\ k - j < RingSize BY <1>0, <2>0, <2>4
  <2> QED BY <2>0, <2>1, <2>2, <2>3, <2>5
<1>3. Cached(i) = [k \in 1 .. n |-> disk[at(k)]] BY DEF Cached
<1>4. \A s \in Between(i) : \E k \in 1 .. n : at(k) = s BY EverySlot
<1> HIDE DEF n, at
<1>5. Cached(i) \in Seq(S) BY <1>0, <1>1, <1>3
<1>6. Range(Cached(i)) = DiskContent(disk, i) BY <1>1, <1>3, <1>4 DEF Range, DiskContent
<1>7. Distinct(disk, i) => IsInjective(Cached(i)) BY <1>1, <1>2, <1>3 DEF Distinct, IsInjective
<1> QED BY <1>5, <1>6, <1>7

\* the indexes when a report has been written
Past(i) == [r |-> IF i.r = Step(i.w) THEN Step(i.r) ELSE i.r, w |-> Step(i.w)]

\* the card then
Put(d, i, p) == [d EXCEPT ![i.w] = p]

\* a report is written: its slot joins those between the indexes, and when the ring is
\* full the oldest leaves them
LEMMA WriteMoves ==
    ASSUME NEW i \in Indexes, NEW j,
           j = [r |-> IF i.r = Step(i.w) THEN Step(i.r) ELSE i.r, w |-> Step(i.w)]
    PROVE  /\ j \in Indexes /\ i.w \notin Between(i)
           /\ Between(j) \subseteq Between(i) \cup {i.w}
           /\ i.r # Step(i.w) => Between(j) = Between(i) \cup {i.w}
           /\ Ahead(j) <= Ahead(i) + 1
<1>0. RingSize \in Nat \ {0} BY Sizes
<1>1. i.r \in Ring /\ i.w \in Ring BY DEF Indexes
<1> DEFINE sw == Step(i.w)
           sr == Step(i.r)
<1>2. /\ sw \in Ring /\ sw = IF i.w = RingSize - 1 THEN 0 ELSE i.w + 1
      /\ sr \in Ring /\ sr = IF i.r = RingSize - 1 THEN 0 ELSE i.r + 1
  BY <1>1, StepIs
<1> HIDE DEF sw, sr
<1>3. j = [r |-> IF i.r = sw THEN sr ELSE i.r, w |-> sw] BY DEF sw, sr
<1>4. j \in Indexes BY <1>1, <1>2, <1>3 DEF Indexes
<1>5. j.w = sw /\ j.r = IF i.r = sw THEN sr ELSE i.r BY <1>3
<1>6. i.w \notin Between(i) BY <1>0, <1>1 DEF Between, Within, Ring
<1>7. ASSUME NEW s \in Ring, Within(j, s) PROVE Within(i, s) \/ s = i.w
  BY <1>0, <1>1, <1>2, <1>5, <1>7 DEF Within, Ring
<1>8. ASSUME i.r # sw, NEW s \in Ring, Within(i, s) \/ s = i.w PROVE Within(j, s)
  BY <1>0, <1>1, <1>2, <1>5, <1>8 DEF Within, Ring
<1>9. Between(j) \subseteq Between(i) \cup {i.w} BY <1>7 DEF Between
<1>10. i.r # sw => Between(j) = Between(i) \cup {i.w} BY <1>1, <1>8, <1>9 DEF Between
<1>11. Ahead(j) <= Ahead(i) + 1
  <2>1. Ahead(i) = IF i.r <= i.w THEN i.w - i.r ELSE i.w - i.r + RingSize BY AheadIs
  <2>2. Ahead(j) = IF j.r <= j.w THEN j.w - j.r ELSE j.w - j.r + RingSize BY <1>4, AheadIs
  <2> QED BY <1>0, <1>1, <1>2, <1>5, <2>1, <2>2 DEF Ring
<1> QED BY <1>4, <1>6, <1>9, <1>10, <1>11 DEF sw, sr

\* a report is read: its slot is no longer between the indexes
LEMMA ReadMoves ==
    ASSUME NEW i \in Indexes, NEW j, i.r # i.w, j = [i EXCEPT !.r = Step(@)]
    PROVE  /\ j \in Indexes /\ i.r \in Between(i)
           /\ Between(j) = Between(i) \ {i.r}
           /\ Ahead(j) + 1 = Ahead(i)
<1>0. RingSize \in Nat \ {0} BY Sizes
<1>1. i.r \in Ring /\ i.w \in Ring BY DEF Indexes
<1> DEFINE sr == Step(i.r)
<1>2. sr \in Ring /\ sr = IF i.r = RingSize - 1 THEN 0 ELSE i.r + 1 BY <1>1, StepIs
<1> HIDE DEF sr
<1>3. j = [i EXCEPT !.r = sr] BY DEF sr
<1>4. j \in Indexes /\ j.r = sr /\ j.w = i.w BY <1>1, <1>2, <1>3 DEF Indexes
<1>5. i.r \in Between(i) BY <1>0, <1>1 DEF Between, Within, Ring
<1>6. ASSUME NEW s \in Ring PROVE Within(j, s) <=> Within(i, s) /\ s # i.r
  BY <1>0, <1>1, <1>2, <1>4 DEF Within, Ring
<1>7. Between(j) = Between(i) \ {i.r} BY <1>6 DEF Between
<1>8. Ahead(j) + 1 = Ahead(i)
  <2>1. Ahead(i) = IF i.r <= i.w THEN i.w - i.r ELSE i.w - i.r + RingSize BY AheadIs
  <2>2. Ahead(j) = IF j.r <= j.w THEN j.w - j.r ELSE j.w - j.r + RingSize BY <1>4, AheadIs
  <2> QED BY <1>0, <1>1, <1>2, <1>4, <2>1, <2>2 DEF Ring
<1> QED BY <1>4, <1>5, <1>7, <1>8

\* the indexes are reset
LEMMA NothingBetween ==
    ASSUME NEW i \in Indexes, i.r = i.w
    PROVE  Between(i) = {} /\ Ahead(i) = 0
<1>0. RingSize \in Nat \ {0} /\ i.r \in Ring /\ i.w \in Ring BY Sizes DEF Indexes
<1>1. Between(i) = {} BY <1>0 DEF Between, Within, Ring
<1>2. Ahead(i) = 0 BY <1>0, AheadIs DEF Ring
<1> QED BY <1>1, <1>2

LEMMA ZeroIs == Zero \in Indexes /\ Between(Zero) = {} /\ Ahead(Zero) = 0
<1>1. Zero \in Indexes /\ Zero.r = Zero.w BY Sizes DEF Zero, Indexes, Ring
<1> QED BY <1>1, NothingBetween

-----------------------------------------------------------------------------
(* The reports in memory: the four lists x and the report h that           *)
(* ft_do_report holds.                                                     *)

Lists    == {"realtm", "delay", "trans", "tmp"}
Memories == [Lists -> Seq(Rep)]
Held(h)  == IF h = 0 THEN {} ELSE {h}

Mem(x, h)  == (UNION {Range(x[l]) : l \in Lists}) \cup Held(h)
Size(x, l) == Len(x[l])
Listed(x)  == Size(x, "realtm") + Size(x, "delay")
Count(h)   == IF h = 0 THEN 0 ELSE 1
Used(x, h) == Listed(x) + Size(x, "trans") + Size(x, "tmp") + Count(h)

\* no report is in memory twice
Apart(x, h) ==
    /\ \A l \in Lists : IsInjective(x[l]) /\ h \notin Range(x[l])
    /\ \A l, m \in Lists : l # m => Range(x[l]) \cap Range(x[m]) = {}

\* from x and h to y and g: a report comes, a report leaves, or they are the same
Adds(x, h, y, g, n) ==
    /\ y \in Memories /\ g \in 0 .. MaxRep
    /\ Mem(y, g) = Mem(x, h) \cup {n}
    /\ Apart(x, h) /\ n \notin Mem(x, h) => Apart(y, g)
    /\ Used(y, g) = Used(x, h) + 1

Drops(x, h, y, g, n) ==
    /\ y \in Memories /\ g \in 0 .. MaxRep /\ n \in Rep
    /\ Mem(x, h) = Mem(y, g) \cup {n}
    /\ Apart(x, h) => Apart(y, g) /\ n \notin Mem(y, g)
    /\ Used(y, g) + 1 = Used(x, h)

Same(x, h, y, g) ==
    /\ y \in Memories /\ g \in 0 .. MaxRep
    /\ Mem(y, g) = Mem(x, h)
    /\ Apart(x, h) => Apart(y, g)
    /\ Used(y, g) = Used(x, h)

LEMMA CountIs == Count(0) = 0 /\ \A h \in 0 .. MaxRep : Count(h) \in Nat /\ (h # 0 => Count(h) = 1)
BY DEF Count

LEMMA InMem ==
    ASSUME NEW x, NEW h, NEW v
    PROVE  /\ v \in Mem(x, h) <=> (\E l \in Lists : v \in Range(x[l])) \/ v \in Held(h)
           /\ v \in Held(h) <=> h # 0 /\ v = h
<1>1. v \in Mem(x, h) <=> (\E l \in Lists : v \in Range(x[l])) \/ v \in Held(h)
  <2>1. ASSUME v \in UNION {Range(x[l]) : l \in Lists} PROVE \E l \in Lists : v \in Range(x[l])
    BY <2>1
  <2>2. ASSUME NEW l \in Lists, v \in Range(x[l]) PROVE v \in UNION {Range(x[m]) : m \in Lists}
    BY <2>2
  <2>3. v \in Mem(x, h) <=> v \in UNION {Range(x[l]) : l \in Lists} \/ v \in Held(h) BY Zenon DEF Mem
  <2> QED BY <2>1, <2>2, <2>3
<1>2. v \in Held(h) <=> h # 0 /\ v = h BY DEF Held
<1> QED BY <1>1, <1>2

LEMMA UsedNat ==
    ASSUME NEW x \in Memories, NEW h \in 0 .. MaxRep
    PROVE  /\ Listed(x) \in Nat /\ Used(x, h) \in Nat
           /\ \A l \in Lists : x[l] \in Seq(Rep) /\ Size(x, l) \in Nat /\ Range(x[l]) \subseteq Rep
           /\ x["realtm"] \in Seq(Rep) /\ x["delay"] \in Seq(Rep)
           /\ x["trans"] \in Seq(Rep) /\ x["tmp"] \in Seq(Rep)
           /\ Mem(x, h) \subseteq Rep
<1>1. \A l \in Lists : x[l] \in Seq(Rep) BY DEF Memories
<1>2. \A l \in Lists : Size(x, l) \in Nat BY <1>1 DEF Size
<1>3. \A l \in Lists : Range(x[l]) \subseteq Rep BY <1>1, RangeOfSeq
<1>4. "realtm" \in Lists /\ "delay" \in Lists /\ "trans" \in Lists /\ "tmp" \in Lists BY DEF Lists
<1>5. /\ Size(x, "realtm") \in Nat /\ Size(x, "delay") \in Nat
      /\ Size(x, "trans") \in Nat /\ Size(x, "tmp") \in Nat
  BY <1>2, <1>4
<1>6. Listed(x) \in Nat /\ Used(x, h) \in Nat BY <1>5, CountIs DEF Used, Listed
<1>7. Held(h) \subseteq Rep BY DEF Held, Rep
<1>8. Mem(x, h) \subseteq Rep BY <1>3, <1>7, InMem
<1> QED BY <1>1, <1>2, <1>3, <1>4, <1>6, <1>8

LEMMA NothingHeld ==
    ASSUME NEW x \in Memories
    PROVE  \A l \in Lists : 0 \notin Range(x[l])
<1>1. 0 \in 0 .. MaxRep BY Sizes
<1> QED BY <1>1, UsedNat DEF Rep

\* one list changes
LEMMA OneList ==
    ASSUME NEW x \in Memories, NEW y \in Memories, NEW h \in 0 .. MaxRep, NEW l \in Lists,
           \A m \in Lists : m # l => Size(y, m) = Size(x, m)
    PROVE  /\ Size(y, l) = Size(x, l) + 1 => Used(y, h) = Used(x, h) + 1
           /\ Size(y, l) + 1 = Size(x, l) => Used(y, h) + 1 = Used(x, h)
<1> DEFINE a == Size(x, "realtm")
           b == Size(x, "delay")
           c == Size(x, "trans")
           d == Size(x, "tmp")
           o == Count(h)
           e == Size(y, "realtm")
           f == Size(y, "delay")
           g == Size(y, "trans")
           i == Size(y, "tmp")
           p == Size(x, l)
           r == Size(y, l)
<1>1. /\ a \in Nat /\ b \in Nat /\ c \in Nat /\ d \in Nat /\ o \in Nat
      /\ e \in Nat /\ f \in Nat /\ g \in Nat /\ i \in Nat
  BY UsedNat, CountIs DEF Lists
<1>2. \/ p = a /\ r = e /\ f = b /\ g = c /\ i = d
      \/ p = b /\ r = f /\ e = a /\ g = c /\ i = d
      \/ p = c /\ r = g /\ e = a /\ f = b /\ i = d
      \/ p = d /\ r = i /\ e = a /\ f = b /\ g = c
  BY DEF Lists
<1>3. Used(x, h) = a + b + c + d + o /\ Used(y, h) = e + f + g + i + o BY DEF Used, Listed
<1>4. (r = p + 1 => Used(y, h) = Used(x, h) + 1) /\ (r + 1 = p => Used(y, h) + 1 = Used(x, h))
  <2> HIDE DEF a, b, c, d, e, f, g, i, o, p, r
  <2> QED BY <1>1, <1>2, <1>3
<1> QED BY <1>4

\* a list gets a report
LEMMA ListGains ==
    ASSUME NEW x \in Memories, NEW h \in 0 .. MaxRep, NEW l \in Lists, NEW n \in Rep,
           NEW t \in Seq(Rep), NEW y, y = [x EXCEPT ![l] = t],
           Len(t) = Len(x[l]) + 1, Range(t) = Range(x[l]) \cup {n},
           IsInjective(x[l]) /\ n \notin Range(x[l]) => IsInjective(t)
    PROVE  Adds(x, h, y, h, n)
<1>1. y \in Memories /\ y[l] = t /\ \A m \in Lists : m # l => y[m] = x[m] BY DEF Memories
<1>2. Mem(y, h) = Mem(x, h) \cup {n} BY <1>1 DEF Mem
<1>3. ASSUME Apart(x, h), n \notin Mem(x, h) PROVE Apart(y, h)
  <2>1. /\ \A m \in Lists : IsInjective(x[m]) /\ h \notin Range(x[m])
        /\ \A k, m \in Lists : k # m => Range(x[k]) \cap Range(x[m]) = {}
    BY <1>3 DEF Apart
  <2>2. n # h /\ \A m \in Lists : n \notin Range(x[m]) BY <1>3, InMem, n # 0 DEF Rep
  <2>3. \A m \in Lists : IsInjective(y[m]) BY <1>1, <2>1, <2>2
  <2>4. \A m \in Lists : h \notin Range(y[m]) BY <1>1, <2>1, <2>2
  <2>5. \A k, m \in Lists : k # m => Range(y[k]) \cap Range(y[m]) = {}
    <3> SUFFICES ASSUME NEW k \in Lists, NEW m \in Lists, k # m PROVE Range(y[k]) \cap Range(y[m]) = {}
      OBVIOUS
    <3>1. CASE k = l
      <4>1. y[m] = x[m] /\ Range(y[k]) = Range(x[l]) \cup {n} BY <1>1, <3>1
      <4> QED BY <2>1, <2>2, <3>1, <4>1
    <3>2. CASE m = l
      <4>1. y[k] = x[k] /\ Range(y[m]) = Range(x[l]) \cup {n} BY <1>1, <3>2
      <4> QED BY <2>1, <2>2, <3>2, <4>1
    <3>3. CASE k # l /\ m # l BY <1>1, <2>1, <3>3
    <3> QED BY <3>1, <3>2, <3>3
  <2> QED BY <2>3, <2>4, <2>5 DEF Apart
<1>4. Used(y, h) = Used(x, h) + 1
  <2>1. \A m \in Lists : Size(x, m) \in Nat /\ Size(y, m) \in Nat BY <1>1, UsedNat
  <2>2. Size(y, l) = Size(x, l) + 1 BY <1>1 DEF Size
  <2>3. \A m \in Lists : m # l => Size(y, m) = Size(x, m) BY <1>1 DEF Size
  <2> QED BY <1>1, <2>2, <2>3, OneList
<1> QED BY <1>1, <1>2, <1>3, <1>4 DEF Adds

\* a list loses a report
LEMMA ListLoses ==
    ASSUME NEW x \in Memories, NEW h \in 0 .. MaxRep, NEW l \in Lists, NEW n \in Rep,
           NEW t \in Seq(Rep), NEW y, y = [x EXCEPT ![l] = t],
           Len(t) + 1 = Len(x[l]), Range(x[l]) = Range(t) \cup {n},
           IsInjective(x[l]) => IsInjective(t) /\ n \notin Range(t)
    PROVE  Drops(x, h, y, h, n)
<1>1. y \in Memories /\ y[l] = t /\ \A m \in Lists : m # l => y[m] = x[m] BY DEF Memories
<1>2. Mem(x, h) = Mem(y, h) \cup {n} BY <1>1 DEF Mem
<1>3. ASSUME Apart(x, h) PROVE Apart(y, h) /\ n \notin Mem(y, h)
  <2>1. /\ \A m \in Lists : IsInjective(x[m]) /\ h \notin Range(x[m])
        /\ \A k, m \in Lists : k # m => Range(x[k]) \cap Range(x[m]) = {}
    BY <1>3 DEF Apart
  <2>2. \A m \in Lists : Range(y[m]) \subseteq Range(x[m]) BY <1>1
  <2>3. \A m \in Lists : IsInjective(y[m]) BY <1>1, <2>1
  <2>4. \A m \in Lists : h \notin Range(y[m]) BY <2>1, <2>2
  <2>5. \A k, m \in Lists : k # m => Range(y[k]) \cap Range(y[m]) = {} BY <2>1, <2>2
  <2>6. n \in Range(x[l]) /\ n \notin Range(t) /\ n # h BY <2>1
  <2>7. \A m \in Lists : n \notin Range(y[m])
    <3> SUFFICES ASSUME NEW m \in Lists PROVE n \notin Range(y[m]) OBVIOUS
    <3>1. CASE m = l BY <1>1, <2>6, <3>1
    <3>2. CASE m # l BY <1>1, <2>1, <2>6, <3>2
    <3> QED BY <3>1, <3>2
  <2>8. n \notin Mem(y, h) BY <2>6, <2>7, InMem
  <2> QED BY <2>3, <2>4, <2>5, <2>8 DEF Apart
<1>4. Used(y, h) + 1 = Used(x, h)
  <2>1. \A m \in Lists : Size(x, m) \in Nat /\ Size(y, m) \in Nat BY <1>1, UsedNat
  <2>2. Size(y, l) + 1 = Size(x, l) BY <1>1 DEF Size
  <2>3. \A m \in Lists : m # l => Size(y, m) = Size(x, m) BY <1>1 DEF Size
  <2> QED BY <1>1, <2>2, <2>3, OneList
<1> QED BY <1>1, <1>2, <1>3, <1>4 DEF Drops

LEMMA AppendAdds ==
    ASSUME NEW x \in Memories, NEW h \in 0 .. MaxRep, NEW l \in Lists, NEW n \in Rep
    PROVE  Adds(x, h, [x EXCEPT ![l] = Append(@, n)], h, n)
<1>1. x[l] \in Seq(Rep) BY UsedNat
<1> DEFINE t == Append(x[l], n)
<1>2. /\ t \in Seq(Rep) /\ Len(t) = Len(x[l]) + 1 /\ Range(t) = Range(x[l]) \cup {n}
      /\ IsInjective(x[l]) /\ n \notin Range(x[l]) => IsInjective(t)
  BY <1>1, AppendRange
<1> HIDE DEF t
<1>3. Adds(x, h, [x EXCEPT ![l] = t], h, n) BY <1>2, ListGains
<1> QED BY <1>3 DEF t

LEMMA PrependAdds ==
    ASSUME NEW x \in Memories, NEW h \in 0 .. MaxRep, NEW l \in Lists, NEW n \in Rep
    PROVE  Adds(x, h, [x EXCEPT ![l] = <<n>> \o @], h, n)
<1>1. x[l] \in Seq(Rep) BY UsedNat
<1> DEFINE u == <<n>>
           v == x[l]
           t == u \o v
<1>2. u \in Seq(Rep) /\ Len(u) = 1 /\ Range(u) = {n} /\ IsInjective(u) BY SingleRange
<1>0. v \in Seq(Rep) BY <1>1
<1> HIDE DEF u, v
<1>3. /\ t \in Seq(Rep) /\ Len(t) = Len(u) + Len(v) /\ Range(t) = Range(u) \cup Range(v)
      /\ IsInjective(u) /\ IsInjective(v) /\ Range(u) \cap Range(v) = {} => IsInjective(t)
  <2>1. u \in Seq(Rep) BY <1>2
  <2>2. u \o v \in Seq(Rep) /\ Len(u \o v) = Len(u) + Len(v) BY <1>0, <2>1, ConcatRange
  <2>3. Range(u \o v) = Range(u) \cup Range(v) BY <1>0, <2>1, ConcatRange
  <2>4. IsInjective(u) /\ IsInjective(v) /\ Range(u) \cap Range(v) = {} => IsInjective(u \o v)
    BY <1>0, <2>1, ConcatRange
  <2> QED BY <2>2, <2>3, <2>4
<1> HIDE DEF t
<1>4. /\ Len(t) = Len(x[l]) + 1 /\ Range(t) = Range(x[l]) \cup {n}
      /\ IsInjective(x[l]) /\ n \notin Range(x[l]) => IsInjective(t)
  BY <1>1, <1>2, <1>3 DEF v
<1>5. Adds(x, h, [x EXCEPT ![l] = t], h, n) BY <1>3, <1>4, ListGains
<1> QED BY <1>5 DEF t, u, v

LEMMA HeadDrops ==
    ASSUME NEW x \in Memories, NEW h \in 0 .. MaxRep, NEW l \in Lists, x[l] # <<>>
    PROVE  Drops(x, h, [x EXCEPT ![l] = Tail(@)], h, Head(x[l])) /\ Head(x[l]) \in Range(x[l])
<1>1. x[l] \in Seq(Rep) BY UsedNat
<1> DEFINE t == Tail(x[l])
           n == Head(x[l])
<1>2. /\ n \in Rep /\ t \in Seq(Rep) /\ Len(t) = Len(x[l]) - 1 /\ n \in Range(x[l])
      /\ Range(x[l]) = Range(t) \cup {n}
      /\ IsInjective(x[l]) => IsInjective(t) /\ n \notin Range(t)
  BY <1>1, TailRange
<1>3. Len(t) + 1 = Len(x[l]) BY <1>1, <1>2
<1> HIDE DEF t, n
<1>4. Drops(x, h, [x EXCEPT ![l] = t], h, n) BY <1>2, <1>3, ListLoses
<1> QED BY <1>2, <1>4 DEF t, n

LEMMA LastDrops ==
    ASSUME NEW x \in Memories, NEW h \in 0 .. MaxRep, NEW l \in Lists, x[l] # <<>>
    PROVE  Drops(x, h, [x EXCEPT ![l] = Front(@)], h, Last(x[l]))
<1>1. x[l] \in Seq(Rep) BY UsedNat
<1> DEFINE t == Front(x[l])
           n == Last(x[l])
<1>2. /\ n \in Rep /\ t \in Seq(Rep) /\ Len(t) = Len(x[l]) - 1
      /\ Range(x[l]) = Range(t) \cup {n}
      /\ IsInjective(x[l]) => IsInjective(t) /\ n \notin Range(t)
  BY <1>1, FrontRange
<1>3. Len(t) + 1 = Len(x[l]) BY <1>1, <1>2
<1> HIDE DEF t, n
<1>4. Drops(x, h, [x EXCEPT ![l] = t], h, n) BY <1>2, <1>3, ListLoses
<1> QED BY <1>4 DEF t, n

LEMMA HoldAdds ==
    ASSUME NEW x \in Memories, NEW n \in Rep
    PROVE  Adds(x, 0, x, n, n)
<1>1. n \in 0 .. MaxRep /\ n # 0 BY DEF Rep
<1>2. Mem(x, n) = Mem(x, 0) \cup {n} BY <1>1, InMem
<1>3. n \notin Mem(x, 0) => \A l \in Lists : n \notin Range(x[l]) BY DEF Mem
<1>4. Apart(x, 0) /\ n \notin Mem(x, 0) => Apart(x, n) BY <1>3 DEF Apart
<1>5. Used(x, n) = Used(x, 0) + 1
  <2>1. \A m \in Lists : Size(x, m) \in Nat BY <1>1, UsedNat
  <2> QED BY <1>1, <2>1, CountIs DEF Used, Listed, Lists
<1> QED BY <1>1, <1>2, <1>4, <1>5 DEF Adds

LEMMA HoldDrops ==
    ASSUME NEW x \in Memories, NEW n \in Rep
    PROVE  Drops(x, n, x, 0, n)
<1>1. n \in 0 .. MaxRep /\ n # 0 /\ 0 \in 0 .. MaxRep BY Sizes DEF Rep
<1>2. Mem(x, n) = Mem(x, 0) \cup {n} BY <1>1, InMem
<1>3. Apart(x, n) => Apart(x, 0) BY NothingHeld DEF Apart
<1>4. Apart(x, n) => n \notin Mem(x, 0) BY DEF Apart, Mem, Held
<1>5. Used(x, 0) + 1 = Used(x, n)
  <2>1. \A m \in Lists : Size(x, m) \in Nat BY <1>1, UsedNat
  <2> QED BY <1>1, <2>1, CountIs DEF Used, Listed, Lists
<1> QED BY <1>1, <1>2, <1>3, <1>4, <1>5 DEF Drops

\* a report that leaves and comes back
LEMMA DropAdd ==
    ASSUME NEW x \in Memories, NEW h \in 0 .. MaxRep, NEW y, NEW g, NEW z, NEW f, NEW n,
           Drops(x, h, y, g, n), Adds(y, g, z, f, n)
    PROVE  Same(x, h, z, f)
<1>1. Used(y, g) \in Nat BY UsedNat DEF Drops
<1>2. Used(z, f) = Used(x, h) BY <1>1 DEF Drops, Adds
<1>3. Mem(z, f) = Mem(x, h) BY DEF Drops, Adds
<1>4. Apart(x, h) => Apart(z, f) BY DEF Drops, Adds
<1> QED BY <1>2, <1>3, <1>4 DEF Same, Adds

\* the four lists by their names
LEMMA ByName ==
    ASSUME NEW x, NEW h
    PROVE  /\ Mem(x, h) = Range(x["realtm"]) \cup Range(x["delay"]) \cup Range(x["trans"])
                              \cup Range(x["tmp"]) \cup Held(h)
           /\ Apart(x, h) <=>
                 /\ IsInjective(x["realtm"]) /\ IsInjective(x["delay"])
                 /\ IsInjective(x["trans"]) /\ IsInjective(x["tmp"])
                 /\ h \notin Range(x["realtm"]) /\ h \notin Range(x["delay"])
                 /\ h \notin Range(x["trans"]) /\ h \notin Range(x["tmp"])
                 /\ Range(x["realtm"]) \cap Range(x["delay"]) = {}
                 /\ Range(x["realtm"]) \cap Range(x["trans"]) = {}
                 /\ Range(x["delay"]) \cap Range(x["trans"]) = {}
                 /\ Range(x["realtm"]) \cap Range(x["tmp"]) = {}
                 /\ Range(x["delay"]) \cap Range(x["tmp"]) = {}
                 /\ Range(x["trans"]) \cap Range(x["tmp"]) = {}
<1>1. Mem(x, h) = Range(x["realtm"]) \cup Range(x["delay"]) \cup Range(x["trans"])
                      \cup Range(x["tmp"]) \cup Held(h)
  BY InMem DEF Lists
<1> DEFINE F(l) == IsInjective(x[l]) /\ h \notin Range(x[l])
           G(l, m) == Range(x[l]) \cap Range(x[m]) = {}
<1>2. (\A l \in Lists : F(l)) <=> F("realtm") /\ F("delay") /\ F("trans") /\ F("tmp") BY DEF Lists
<1>3. \A l, m \in Lists : G(l, m) <=> G(m, l) OBVIOUS
<1> HIDE DEF G
<1>4. (\A l, m \in Lists : l # m => G(l, m)) <=>
          /\ G("realtm", "delay") /\ G("realtm", "trans") /\ G("delay", "trans")
          /\ G("realtm", "tmp") /\ G("delay", "tmp") /\ G("trans", "tmp")
  BY <1>3 DEF Lists
<1>5. Apart(x, h) <=> (\A l \in Lists : F(l)) /\ (\A l, m \in Lists : l # m => G(l, m))
  BY DEF Apart, G
<1>6. Apart(x, h) <=> /\ F("realtm") /\ F("delay") /\ F("trans") /\ F("tmp")
                      /\ G("realtm", "delay") /\ G("realtm", "trans") /\ G("delay", "trans")
                      /\ G("realtm", "tmp") /\ G("delay", "tmp") /\ G("trans", "tmp")
  BY <1>2, <1>4, <1>5
<1> QED BY <1>1, <1>6 DEF G

\* a list is appended to the delayed reports: ft_data_flush_realtm, and the end of
\* ft_data_flush_error
LEMMA PourSame ==
    ASSUME NEW x \in Memories, NEW h \in 0 .. MaxRep, NEW y \in Memories, NEW l \in {"realtm", "tmp"},
           y[l] = <<>>, y["delay"] = x["delay"] \o x[l],
           \A m \in Lists : m # l /\ m # "delay" => y[m] = x[m]
    PROVE  Same(x, h, y, h)
<1> DEFINE a == x[l]
           b == x["delay"]
           d == b \o a
<1>0. l \in Lists /\ "delay" \in Lists /\ l # "delay" BY DEF Lists
<1>1. a \in Seq(Rep) /\ b \in Seq(Rep) BY <1>0, UsedNat
<1>2. Range(<<>>) = {} /\ IsInjective(<<>>) /\ Len(<<>>) = 0 BY EmptyRange
<1>3. y["delay"] = d OBVIOUS
<1> HIDE DEF a, b
<1>4. /\ Len(d) = Len(b) + Len(a) /\ Range(d) = Range(b) \cup Range(a)
      /\ IsInjective(b) /\ IsInjective(a) /\ Range(b) \cap Range(a) = {} => IsInjective(d)
  BY <1>1, ConcatRange
<1> HIDE DEF d
<1>5. /\ Range(y[l]) = {} /\ Range(y["delay"]) = Range(x["delay"]) \cup Range(x[l])
      /\ \A m \in Lists : m # l /\ m # "delay" => Range(y[m]) = Range(x[m])
  BY <1>2, <1>3, <1>4 DEF a, b
<1>6. Mem(y, h) = Mem(x, h)
  <2>1. \A v : (\E m \in Lists : v \in Range(y[m])) <=> \E m \in Lists : v \in Range(x[m])
    <3> SUFFICES ASSUME NEW v
                 PROVE  /\ \A m \in Lists : v \in Range(y[m]) => \E k \in Lists : v \in Range(x[k])
                        /\ \A m \in Lists : v \in Range(x[m]) => \E k \in Lists : v \in Range(y[k])
      OBVIOUS
    <3>1. ASSUME NEW m \in Lists, v \in Range(y[m]) PROVE \E k \in Lists : v \in Range(x[k])
      BY <1>0, <1>5, <3>1
    <3>2. ASSUME NEW m \in Lists, v \in Range(x[m]) PROVE \E k \in Lists : v \in Range(y[k])
      BY <1>0, <1>5, <3>2
    <3> QED BY <3>1, <3>2
  <2>2. \A v : v \in Mem(y, h) <=> v \in Mem(x, h)
    <3> SUFFICES ASSUME NEW v PROVE v \in Mem(y, h) <=> v \in Mem(x, h) OBVIOUS
    <3>1. v \in Mem(y, h) <=> (\E m \in Lists : v \in Range(y[m])) \/ v \in Held(h) BY InMem
    <3>2. v \in Mem(x, h) <=> (\E m \in Lists : v \in Range(x[m])) \/ v \in Held(h) BY InMem
    <3> QED BY <2>1, <3>1, <3>2
  <2> QED BY <2>2
<1>7. ASSUME Apart(x, h) PROVE Apart(y, h)
  <2>1. /\ \A m \in Lists : IsInjective(x[m]) /\ h \notin Range(x[m])
        /\ \A k, m \in Lists : k # m => Range(x[k]) \cap Range(x[m]) = {}
    BY <1>7 DEF Apart
  <2>2. IsInjective(y["delay"]) BY <1>0, <1>3, <1>4, <2>1 DEF a, b
  <2>3. \A m \in Lists : IsInjective(y[m]) BY <1>2, <2>1, <2>2
  <2>4. \A m \in Lists : h \notin Range(y[m]) BY <1>0, <1>5, <2>1
  <2>5. \A k, m \in Lists : k # m => Range(y[k]) \cap Range(y[m]) = {}
    <3> SUFFICES ASSUME NEW k \in Lists, NEW m \in Lists, k # m PROVE Range(y[k]) \cap Range(y[m]) = {}
      OBVIOUS
    <3>1. CASE k = l \/ m = l BY <1>5, <3>1
    <3>2. CASE k # l /\ m # l /\ k = "delay"
      <4>1. Range(y[m]) = Range(x[m]) BY <1>5, <3>2
      <4>2. Range(x["delay"]) \cap Range(x[m]) = {} /\ Range(x[l]) \cap Range(x[m]) = {} BY <1>0, <2>1, <3>2
      <4> QED BY <1>5, <3>2, <4>1, <4>2
    <3>3. CASE k # l /\ m # l /\ m = "delay"
      <4>1. Range(y[k]) = Range(x[k]) BY <1>5, <3>3
      <4>2. Range(x["delay"]) \cap Range(x[k]) = {} /\ Range(x[l]) \cap Range(x[k]) = {} BY <1>0, <2>1, <3>3
      <4> QED BY <1>5, <3>3, <4>1, <4>2
    <3>4. CASE k # l /\ m # l /\ k # "delay" /\ m # "delay" BY <1>5, <2>1, <3>4
    <3> QED BY <3>1, <3>2, <3>3, <3>4
  <2> QED BY <2>3, <2>4, <2>5 DEF Apart
<1>8. Used(y, h) = Used(x, h)
  <2>1. \A m \in Lists : Size(x, m) \in Nat /\ Size(y, m) \in Nat BY UsedNat
  <2>2. Size(y, l) = 0 /\ Size(y, "delay") = Size(x, "delay") + Size(x, l)
    BY <1>2, <1>3, <1>4 DEF Size, a, b
  <2>3. \A m \in Lists : m # l /\ m # "delay" => Size(y, m) = Size(x, m) BY DEF Size
  <2> DEFINE e == Size(x, "realtm")
             f == Size(x, "delay")
             g == Size(x, "trans")
             i == Size(x, "tmp")
             o == Count(h)
  <2>4. e \in Nat /\ f \in Nat /\ g \in Nat /\ i \in Nat /\ o \in Nat BY <2>1, CountIs DEF Lists
  <2>5. Used(x, h) = e + f + g + i + o BY DEF Used, Listed
  <2>6. \/ Used(y, h) = 0 + (f + e) + g + i + o
        \/ Used(y, h) = e + (f + i) + g + 0 + o
    BY <2>2, <2>3 DEF Used, Listed, Lists
  <2> HIDE DEF e, f, g, i, o
  <2> QED BY <2>4, <2>5, <2>6
<1> QED BY <1>6, <1>7, <1>8 DEF Same

\* the places of the reports of one origin, in their order
InOrder(a, at) == /\ a \in Seq(at) /\ Range(a) = at
                  /\ \A i, j \in DOMAIN a : i < j => a[i] < a[j]

\* the reports in these places
LEMMA ChosenAre ==
    ASSUME NEW c \in Seq(Rep), NEW at \in SUBSET (1 .. Len(c)), NEW a, InOrder(a, at)
    PROVE  LET e == [k \in DOMAIN a |-> c[a[k]]]
           IN  /\ e \in Seq(Rep) /\ Len(e) = Cardinality(at) /\ Range(e) = {c[i] : i \in at}
               /\ IsInjective(c) => IsInjective(e)
<1> DEFINE n == Len(a)
           e == [k \in DOMAIN a |-> c[a[k]]]
<1>1. n \in Nat /\ DOMAIN a = 1 .. n /\ a \in [1 .. n -> at] BY DEF InOrder
<1>0. \A k \in 1 .. n : a[k] \in Nat /\ a[k] \in DOMAIN c /\ c[a[k]] \in Rep
  <2> SUFFICES ASSUME NEW k \in 1 .. n PROVE a[k] \in Nat /\ a[k] \in DOMAIN c /\ c[a[k]] \in Rep
    OBVIOUS
  <2>1. a[k] \in at BY <1>1
  <2>2. a[k] \in 1 .. Len(c) BY <2>1
  <2>3. DOMAIN c = 1 .. Len(c) /\ Len(c) \in Nat /\ \A i \in 1 .. Len(c) : c[i] \in Rep
    BY LenProperties, ElementOfSeq
  <2> QED BY <2>2, <2>3
<1> HIDE DEF n
<1>2. \A i, j \in 1 .. n : a[i] = a[j] => i = j
  <2> SUFFICES ASSUME NEW i \in 1 .. n, NEW j \in 1 .. n, a[i] = a[j], i # j PROVE FALSE OBVIOUS
  <2>1. a[i] \in Nat /\ a[j] \in Nat BY <1>0
  <2>2. CASE i < j BY <1>1, <2>1, <2>2 DEF InOrder
  <2>3. CASE j < i BY <1>1, <2>1, <2>3 DEF InOrder
  <2> QED BY <1>1, <2>2, <2>3
<1>3. at = {a[k] : k \in 1 .. n} BY <1>1 DEF InOrder, Range
<1>4. Cardinality(at) = n
  <2>2. \A x \in at : \E k \in 1 .. n : a[k] = x BY <1>3
  <2>3. a \in Bijection(1 .. n, at) BY <1>1, <1>2, <2>2 DEF Bijection, Injection, Surjection, IsInjective
  <2>4. ExistsBijection(1 .. n, at) BY <2>3 DEF ExistsBijection
  <2> QED BY <1>1, <2>4, FS_CountingElements
<1>5. e \in Seq(Rep) /\ Len(e) = n
  <2>1. e \in [1 .. n -> Rep] BY <1>0, <1>1
  <2> QED BY <1>1, <2>1
<1>6. Range(e) = {c[i] : i \in at} BY <1>1, <1>3 DEF Range
<1>7. IsInjective(c) => IsInjective(e)
  <2> SUFFICES ASSUME IsInjective(c), NEW i \in 1 .. n, NEW j \in 1 .. n, c[a[i]] = c[a[j]] PROVE i = j
    BY <1>1 DEF IsInjective
  <2>1. a[i] \in DOMAIN c /\ a[j] \in DOMAIN c BY <1>0
  <2>2. a[i] = a[j] BY <2>1 DEF IsInjective
  <2> QED BY <1>2, <2>2
<1> QED BY <1>4, <1>5, <1>6, <1>7

\* ft_data_flush_sending
LEMMA BackSame ==
    ASSUME NEW x \in Memories, NEW h \in 0 .. MaxRep, NEW y \in Memories,
           NEW home \in [Rep -> {"realtm", "delay"}], NEW a, NEW b,
           InOrder(a, {i \in DOMAIN x["trans"] : home[x["trans"][i]] = "realtm"}),
           InOrder(b, {i \in DOMAIN x["trans"] : home[x["trans"][i]] = "delay"}),
           y["realtm"] = [k \in DOMAIN a |-> x["trans"][a[k]]] \o x["realtm"],
           y["delay"] = [k \in DOMAIN b |-> x["trans"][b[k]]] \o x["delay"],
           y["trans"] = <<>>, y["tmp"] = x["tmp"]
    PROVE  Same(x, h, y, h)
<1> DEFINE c  == x["trans"]
           d  == x["realtm"]
           f  == x["delay"]
           z  == x["tmp"]
           s  == {i \in DOMAIN c : home[c[i]] = "realtm"}
           t  == {i \in DOMAIN c : home[c[i]] = "delay"}
           ca == [k \in DOMAIN a |-> c[a[k]]]
           cb == [k \in DOMAIN b |-> c[b[k]]]
<1>1. c \in Seq(Rep) /\ d \in Seq(Rep) /\ f \in Seq(Rep) /\ z \in Seq(Rep) BY UsedNat
<1>2. y["realtm"] = ca \o d /\ y["delay"] = cb \o f /\ y["trans"] = <<>> /\ y["tmp"] = z OBVIOUS
<1>3. x["realtm"] = d /\ x["delay"] = f /\ x["trans"] = c /\ x["tmp"] = z OBVIOUS
<1>4. InOrder(a, s) /\ InOrder(b, t) OBVIOUS
<1> HIDE DEF c, d, f, z
<1>5. DOMAIN c = 1 .. Len(c) /\ Len(c) \in Nat /\ \A i \in 1 .. Len(c) : c[i] \in Rep
  BY <1>1, LenProperties, ElementOfSeq
<1>6. s \in SUBSET (1 .. Len(c)) /\ t \in SUBSET (1 .. Len(c)) BY <1>5
<1>7. s \cup t = 1 .. Len(c) /\ s \cap t = {}
  <2>1. \A i \in 1 .. Len(c) : home[c[i]] \in {"realtm", "delay"} BY <1>5
  <2> QED BY <1>5, <2>1
<1>8. Cardinality(s) \in Nat /\ Cardinality(t) \in Nat /\ Cardinality(s) + Cardinality(t) = Len(c)
  <2>1. IsFiniteSet(1 .. Len(c)) /\ Cardinality(1 .. Len(c)) = Len(c)
    <3>1. 1 \in Int /\ Len(c) \in Int BY <1>5
    <3>2. IsFiniteSet(1 .. Len(c)) /\ Cardinality(1 .. Len(c)) = IF 1 > Len(c) THEN 0 ELSE Len(c) - 1 + 1
      BY <3>1, FS_Interval
    <3> QED BY <1>5, <3>2
  <2>2. IsFiniteSet(s) /\ IsFiniteSet(t) BY <1>6, <2>1, FS_Subset
  <2>3. Cardinality(s \cup t) = Cardinality(s) + Cardinality(t) - Cardinality(s \cap t)
    BY <2>2, FS_Union
  <2>4. Cardinality(s) \in Nat /\ Cardinality(t) \in Nat BY <2>2, FS_CardinalityType
  <2>5. Cardinality(s \cap t) = 0 BY <1>7, FS_EmptySet
  <2>6. Cardinality(s \cup t) = Len(c) BY <1>7, <2>1
  <2> DEFINE m == Cardinality(s)
             n == Cardinality(t)
  <2>7. m \in Nat /\ n \in Nat /\ Len(c) = m + n - 0 BY <2>3, <2>4, <2>5, <2>6
  <2> HIDE DEF m, n
  <2>8. m + n = Len(c) BY <2>7
  <2> QED BY <2>7, <2>8 DEF m, n
<1> HIDE DEF s, t
<1>9. /\ ca \in Seq(Rep) /\ Len(ca) = Cardinality(s) /\ Range(ca) = {c[i] : i \in s}
      /\ IsInjective(c) => IsInjective(ca)
  BY <1>1, <1>4, <1>6, ChosenAre
<1>10. /\ cb \in Seq(Rep) /\ Len(cb) = Cardinality(t) /\ Range(cb) = {c[i] : i \in t}
       /\ IsInjective(c) => IsInjective(cb)
  BY <1>1, <1>4, <1>6, ChosenAre
<1> HIDE DEF ca, cb
<1>11. Range(ca) \cup Range(cb) = Range(c) BY <1>5, <1>7, <1>9, <1>10 DEF Range
<1>12. IsInjective(c) => Range(ca) \cap Range(cb) = {}
  BY <1>5, <1>6, <1>7, <1>9, <1>10 DEF IsInjective
<1> DEFINE u == ca \o d
           v == cb \o f
<1>13. /\ Len(u) = Len(ca) + Len(d) /\ Range(u) = Range(ca) \cup Range(d)
       /\ IsInjective(ca) /\ IsInjective(d) /\ Range(ca) \cap Range(d) = {} => IsInjective(u)
  <2>1. ca \in Seq(Rep) BY <1>9
  <2> QED BY <1>1, <2>1, ConcatRange
<1>14. /\ Len(v) = Len(cb) + Len(f) /\ Range(v) = Range(cb) \cup Range(f)
       /\ IsInjective(cb) /\ IsInjective(f) /\ Range(cb) \cap Range(f) = {} => IsInjective(v)
  <2>1. cb \in Seq(Rep) BY <1>10
  <2> QED BY <1>1, <2>1, ConcatRange
<1>15. y["realtm"] = u /\ y["delay"] = v /\ y["trans"] = <<>> /\ y["tmp"] = z BY <1>2
<1> HIDE DEF u, v
<1>16. Range(<<>>) = {} /\ IsInjective(<<>>) /\ Len(<<>>) = 0 BY EmptyRange
<1>17. Mem(y, h) = Mem(x, h)
  <2>1. Mem(x, h) = Range(d) \cup Range(f) \cup Range(c) \cup Range(z) \cup Held(h) BY <1>3, ByName
  <2>2. Mem(y, h) = Range(u) \cup Range(v) \cup Range(<<>>) \cup Range(z) \cup Held(h) BY <1>15, ByName
  <2> QED BY <1>11, <1>13, <1>14, <1>16, <2>1, <2>2
<1>18. ASSUME Apart(x, h) PROVE Apart(y, h)
  <2>1. /\ IsInjective(d) /\ IsInjective(f) /\ IsInjective(c) /\ IsInjective(z)
        /\ h \notin Range(d) /\ h \notin Range(f) /\ h \notin Range(c) /\ h \notin Range(z)
        /\ Range(d) \cap Range(z) = {} /\ Range(f) \cap Range(z) = {} /\ Range(c) \cap Range(z) = {}
        /\ Range(d) \cap Range(f) = {} /\ Range(d) \cap Range(c) = {} /\ Range(f) \cap Range(c) = {}
    BY <1>3, <1>18, ByName
  <2>2. /\ Range(ca) \subseteq Range(c) /\ Range(cb) \subseteq Range(c)
        /\ Range(ca) \cap Range(cb) = {} /\ IsInjective(ca) /\ IsInjective(cb)
    BY <1>9, <1>10, <1>11, <1>12, <2>1
  <2>3. IsInjective(u) /\ IsInjective(v) BY <1>13, <1>14, <2>1, <2>2
  <2>4. /\ h \notin Range(u) /\ h \notin Range(v) /\ Range(u) \cap Range(v) = {}
        /\ Range(u) \cap Range(z) = {} /\ Range(v) \cap Range(z) = {}
    BY <1>13, <1>14, <2>1, <2>2
  <2>5. /\ IsInjective(y["realtm"]) /\ IsInjective(y["delay"])
        /\ IsInjective(y["trans"]) /\ IsInjective(y["tmp"])
        /\ h \notin Range(y["realtm"]) /\ h \notin Range(y["delay"])
        /\ h \notin Range(y["trans"]) /\ h \notin Range(y["tmp"])
        /\ Range(y["realtm"]) \cap Range(y["delay"]) = {}
        /\ Range(y["realtm"]) \cap Range(y["trans"]) = {}
        /\ Range(y["delay"]) \cap Range(y["trans"]) = {}
        /\ Range(y["realtm"]) \cap Range(y["tmp"]) = {}
        /\ Range(y["delay"]) \cap Range(y["tmp"]) = {}
        /\ Range(y["trans"]) \cap Range(y["tmp"]) = {}
    BY <1>15, <1>16, <2>1, <2>3, <2>4
  <2> QED BY <2>5, ByName
<1>19. Used(y, h) = Used(x, h)
  <2>1. /\ Size(y, "realtm") = Len(u) /\ Size(y, "delay") = Len(v) /\ Size(y, "trans") = 0
        /\ Size(x, "realtm") = Len(d) /\ Size(x, "delay") = Len(f) /\ Size(x, "trans") = Len(c)
        /\ Size(y, "tmp") = Len(z) /\ Size(x, "tmp") = Len(z)
    BY <1>3, <1>15, <1>16 DEF Size
  <2>2. Len(d) \in Nat /\ Len(f) \in Nat /\ Len(c) \in Nat /\ Len(z) \in Nat BY <1>1
  <2>3. Len(u) = Cardinality(s) + Len(d) /\ Len(v) = Cardinality(t) + Len(f) BY <1>9, <1>10, <1>13, <1>14
  <2> DEFINE m == Cardinality(s)
             n == Cardinality(t)
             o == Count(h)
             ld == Len(d)
             lf == Len(f)
             lc == Len(c)
             lz == Len(z)
  <2>4. /\ m \in Nat /\ n \in Nat /\ o \in Nat /\ m + n = lc
        /\ ld \in Nat /\ lf \in Nat /\ lc \in Nat /\ lz \in Nat
    BY <1>8, <2>2, CountIs
  <2>5. Used(y, h) = (m + ld) + (n + lf) + 0 + lz + o BY <2>1, <2>3 DEF Used, Listed
  <2>6. Used(x, h) = ld + lf + lc + lz + o BY <2>1 DEF Used, Listed
  <2> HIDE DEF m, n, o, ld, lf, lc, lz
  <2> QED BY <2>4, <2>5, <2>6
<1> QED BY <1>17, <1>18, <1>19 DEF Same

-----------------------------------------------------------------------------
(* Where the reports are: in memory (x and h), on the card d between the   *)
(* indexes i or c (those of cache_info), or acknowledged (ac); n reports   *)
(* have been recorded.  The rest of the argument is about these sets.      *)

Loading == {"loading", "loadinfo"}

\* the reports in flight and those of a warning: they do not come from the card
Away(x) == Range(x["trans"]) \cup Range(x["tmp"])

\* A report is in one place.  While reports are loaded they are in memory and, as
\* cache_info has it, on the card; then none of them is sent.
InOne(x, h, d, i, c, o, ac) ==
    /\ Apart(x, h) /\ Distinct(d, i) /\ Distinct(d, c)
    /\ Mem(x, h) \cap DiskContent(d, i) = {}
    /\ ac \cap Mem(x, h) = {} /\ ac \cap DiskContent(d, i) = {} /\ ac \cap DiskContent(d, c) = {}
    /\ Away(x) \cap DiskContent(d, c) = {}
    /\ o \notin Loading => Mem(x, h) \cap DiskContent(d, c) = {}

\* f: the card may be behind; g: a report may have been lost
Sound(x, h, d, i, c, o, ac, n, f, g) ==
    /\ Mem(x, h) \subseteq 1 .. n /\ ac \subseteq 1 .. n
    /\ \A s \in Ring : d[s] \in 0 .. n
    /\ ~f => InOne(x, h, d, i, c, o, ac)
    /\ ~g => 1 .. n = ac \cup Mem(x, h) \cup DiskContent(d, i)

LEMMA InContent ==
    ASSUME NEW d, NEW i
    PROVE  /\ \A v : v \in DiskContent(d, i) <=> \E s \in Between(i) : v = d[s]
           /\ Between(i) = {} => DiskContent(d, i) = {} /\ Distinct(d, i)
BY DEF DiskContent, Distinct

LEMMA AwayInMem ==
    ASSUME NEW x, NEW h
    PROVE  Away(x) \subseteq Mem(x, h)
BY InMem DEF Lists, Away

LEMMA Itself ==
    ASSUME NEW x \in Memories, NEW h \in 0 .. MaxRep
    PROVE  Same(x, h, x, h)
BY DEF Same

\* the reports in memory are rearranged, and perhaps the indexes reset
LEMMA SoundSame ==
    ASSUME NEW x, NEW h, NEW y, NEW k, NEW d, NEW i, NEW j, NEW c, NEW o, NEW u, NEW ac, NEW n,
           NEW f, NEW g, NEW b,
           Sound(x, h, d, i, c, o, ac, n, f, g), Same(x, h, y, k),
           (j = i /\ (~b => ~g)) \/ (Between(j) = {} /\ b),
           o \notin Loading \/ Mem(x, h) \subseteq Away(x) \/ (u \in Loading /\ x = y)
    PROVE  Sound(y, k, d, j, c, u, ac, n, f, b)
<1>1. Mem(y, k) = Mem(x, h) /\ (Apart(x, h) => Apart(y, k)) BY DEF Same
<1>2. Between(j) \subseteq Between(i) /\ DiskContent(d, j) \subseteq DiskContent(d, i) BY InContent
<1>3. Mem(y, k) \subseteq 1 .. n /\ ac \subseteq 1 .. n /\ \A s \in Ring : d[s] \in 0 .. n
  BY <1>1 DEF Sound
<1>5. ASSUME ~f PROVE InOne(y, k, d, j, c, u, ac)
  <2>1. InOne(x, h, d, i, c, o, ac) BY <1>5 DEF Sound
  <2>2. Apart(y, k) /\ Distinct(d, c) BY <1>1, <2>1 DEF InOne
  <2>3. Distinct(d, j) BY <1>2, <2>1 DEF InOne, Distinct
  <2>4. Mem(y, k) \cap DiskContent(d, j) = {} BY <1>1, <1>2, <2>1 DEF InOne
  <2>5. ac \cap Mem(y, k) = {} /\ ac \cap DiskContent(d, j) = {} /\ ac \cap DiskContent(d, c) = {}
    BY <1>1, <1>2, <2>1 DEF InOne
  <2>6. o \notin Loading \/ Mem(x, h) \subseteq Away(x) => Mem(y, k) \cap DiskContent(d, c) = {}
    BY <1>1, <2>1 DEF InOne
  <2>7. Away(y) \cap DiskContent(d, c) = {} BY <1>1, <2>1, <2>6, AwayInMem DEF InOne
  <2>8. u \notin Loading => Mem(y, k) \cap DiskContent(d, c) = {} BY <2>6
  <2> QED BY <2>2, <2>3, <2>4, <2>5, <2>7, <2>8 DEF InOne
<1>6. ASSUME ~b PROVE 1 .. n = ac \cup Mem(y, k) \cup DiskContent(d, j)
  BY <1>1, <1>6 DEF Sound
<1> QED BY <1>3, <1>5, <1>6 DEF Sound

\* a new report, the (n + 1)-th
LEMMA SoundNew ==
    ASSUME NEW x, NEW h, NEW y, NEW d, NEW i, NEW c, NEW o, NEW u, NEW ac, NEW n \in Nat,
           NEW f, NEW g, NEW b,
           Sound(x, h, d, i, c, o, ac, n, f, g), Adds(x, h, y, h, n + 1),
           ~b => ~g, o \notin Loading, Between(i) \subseteq Ring, Between(c) \subseteq Ring
    PROVE  Sound(y, h, d, i, c, u, ac, n + 1, f, b)
<1>1. /\ Mem(y, h) = Mem(x, h) \cup {n + 1}
      /\ Apart(x, h) /\ n + 1 \notin Mem(x, h) => Apart(y, h)
  BY DEF Adds
<1>2. 1 .. n \subseteq 1 .. n + 1 /\ 0 .. n \subseteq 0 .. n + 1 /\ n + 1 \in 1 .. n + 1
      /\ n + 1 \notin 0 .. n /\ n + 1 \notin 1 .. n /\ 1 .. n + 1 = (1 .. n) \cup {n + 1}
  OBVIOUS
<1>3. Mem(x, h) \subseteq 1 .. n /\ ac \subseteq 1 .. n /\ \A s \in Ring : d[s] \in 0 .. n
  BY DEF Sound
<1>4. n + 1 \notin Mem(x, h) /\ n + 1 \notin ac BY <1>2, <1>3
<1>5. n + 1 \notin DiskContent(d, i) /\ n + 1 \notin DiskContent(d, c) BY <1>2, <1>3, InContent
<1>6. Mem(y, h) \subseteq 1 .. n + 1 /\ ac \subseteq 1 .. n + 1 /\ \A s \in Ring : d[s] \in 0 .. n + 1
  BY <1>1, <1>2, <1>3
<1>7. ASSUME ~f PROVE InOne(y, h, d, i, c, u, ac)
  <2>1. InOne(x, h, d, i, c, o, ac) BY <1>7 DEF Sound
  <2>2. Apart(y, h) /\ Distinct(d, i) /\ Distinct(d, c) BY <1>1, <1>4, <2>1 DEF InOne
  <2>3. Mem(y, h) \cap DiskContent(d, i) = {} BY <1>1, <1>5, <2>1 DEF InOne
  <2>4. ac \cap Mem(y, h) = {} /\ ac \cap DiskContent(d, i) = {} /\ ac \cap DiskContent(d, c) = {}
    BY <1>1, <1>4, <2>1 DEF InOne
  <2>5. Mem(y, h) \cap DiskContent(d, c) = {} BY <1>1, <1>5, <2>1 DEF InOne
  <2>6. Away(y) \cap DiskContent(d, c) = {} BY <2>5, AwayInMem
  <2> QED BY <2>2, <2>3, <2>4, <2>5, <2>6 DEF InOne
<1>8. ASSUME ~b PROVE 1 .. n + 1 = ac \cup Mem(y, h) \cup DiskContent(d, i)
  <2>1. 1 .. n = ac \cup Mem(x, h) \cup DiskContent(d, i) BY <1>8 DEF Sound
  <2> QED BY <1>1, <1>2, <2>1
<1> QED BY <1>6, <1>7, <1>8 DEF Sound

\* a report leaves the memory: it is acknowledged (q = {p}), or lost (q = {} and b)
LEMMA SoundLess ==
    ASSUME NEW x, NEW h, NEW y, NEW k, NEW d, NEW i, NEW c, NEW o, NEW u, NEW ac, NEW n,
           NEW f, NEW g, NEW b, NEW p, NEW e,
           Sound(x, h, d, i, c, o, ac, n, f, g), Drops(x, h, y, k, p), o \notin Loading,
           (e = {p} /\ (~b => ~g)) \/ (e = {} /\ b)
    PROVE  Sound(y, k, d, i, c, u, ac \cup e, n, f, b)
<1>1. Mem(x, h) = Mem(y, k) \cup {p} /\ (Apart(x, h) => Apart(y, k) /\ p \notin Mem(y, k)) BY DEF Drops
<1>2. Mem(y, k) \subseteq 1 .. n /\ ac \cup e \subseteq 1 .. n /\ \A s \in Ring : d[s] \in 0 .. n
  BY <1>1 DEF Sound
<1>4. ASSUME ~f PROVE InOne(y, k, d, i, c, u, ac \cup e)
  <2>1. InOne(x, h, d, i, c, o, ac) BY <1>4 DEF Sound
  <2>2. Apart(y, k) /\ p \notin Mem(y, k) /\ Distinct(d, i) /\ Distinct(d, c) BY <1>1, <2>1 DEF InOne
  <2>3. Mem(y, k) \cap DiskContent(d, i) = {} BY <1>1, <2>1 DEF InOne
  <2>4. /\ (ac \cup e) \cap Mem(y, k) = {} /\ (ac \cup e) \cap DiskContent(d, i) = {}
        /\ (ac \cup e) \cap DiskContent(d, c) = {}
    BY <1>1, <2>1, <2>2 DEF InOne
  <2>5. Mem(y, k) \cap DiskContent(d, c) = {} BY <1>1, <2>1 DEF InOne
  <2>6. Away(y) \cap DiskContent(d, c) = {} BY <2>5, AwayInMem
  <2> QED BY <2>2, <2>3, <2>4, <2>5, <2>6 DEF InOne
<1>5. ASSUME ~b PROVE 1 .. n = (ac \cup e) \cup Mem(y, k) \cup DiskContent(d, i)
  <2>1. 1 .. n = ac \cup Mem(x, h) \cup DiskContent(d, i) BY <1>5 DEF Sound
  <2> QED BY <1>1, <1>5, <2>1
<1> QED BY <1>2, <1>4, <1>5 DEF Sound

\* a report is written to the card
LEMMA SoundWrite ==
    ASSUME NEW x, NEW h, NEW y, NEW d \in [Ring -> 0 .. MaxRep], NEW i \in Indexes, NEW c \in Indexes,
           NEW o, NEW u, NEW ac, NEW n \in Nat, NEW f, NEW g, NEW b, NEW p,
           Sound(x, h, d, i, c, o, ac, n, f, g), Drops(x, h, y, h, p), o \notin Loading,
           ~b => ~g /\ i.r # Step(i.w)
    PROVE  Sound(y, h, Put(d, i, p), Past(i), c, u, ac, n, f, b)
<1> DEFINE w == i.w
           j == Past(i)
           e == Put(d, i, p)
<1>1. Mem(x, h) = Mem(y, h) \cup {p} /\ (Apart(x, h) => Apart(y, h) /\ p \notin Mem(y, h)) BY DEF Drops
<1>2. /\ j \in Indexes /\ w \notin Between(i)
      /\ Between(j) \subseteq Between(i) \cup {w}
      /\ i.r # Step(i.w) => Between(j) = Between(i) \cup {w}
  BY WriteMoves DEF Past
<1>3. w \in Ring /\ e = [d EXCEPT ![w] = p] BY DEF Indexes, Put
<1> HIDE DEF w, j, e
<1>4. e[w] = p /\ \A s \in Ring : s # w => e[s] = d[s] BY <1>3
<1>5. Between(i) \subseteq Ring /\ Between(j) \subseteq Ring /\ Between(c) \subseteq Ring BY DEF Between
<1>6. DiskContent(e, j) \subseteq DiskContent(d, i) \cup {p}
  <2> SUFFICES ASSUME NEW v \in DiskContent(e, j), v # p PROVE v \in DiskContent(d, i) OBVIOUS
  <2>1. PICK s \in Between(j) : v = e[s] BY InContent
  <2>2. s # w /\ s \in Ring BY <1>4, <1>5, <2>1
  <2>3. s \in Between(i) /\ v = d[s] BY <1>2, <1>4, <2>1, <2>2
  <2> QED BY <2>3, InContent
<1>7. DiskContent(e, c) \subseteq DiskContent(d, c) \cup {p}
  <2> SUFFICES ASSUME NEW v \in DiskContent(e, c), v # p PROVE v \in DiskContent(d, c) OBVIOUS
  <2>1. PICK s \in Between(c) : v = e[s] BY InContent
  <2>2. s # w /\ s \in Ring BY <1>4, <1>5, <2>1
  <2>3. v = d[s] BY <1>4, <2>1, <2>2
  <2> QED BY <2>1, <2>3, InContent
<1>8. p \in 1 .. n BY <1>1 DEF Sound
<1>9. Mem(y, h) \subseteq 1 .. n /\ ac \subseteq 1 .. n BY <1>1 DEF Sound
<1>10. \A s \in Ring : e[s] \in 0 .. n
  <2>1. p \in 0 .. n BY <1>8
  <2>2. \A s \in Ring : d[s] \in 0 .. n BY DEF Sound
  <2> QED BY <1>4, <2>1, <2>2
<1>12. ASSUME ~f PROVE InOne(y, h, e, j, c, u, ac)
  <2>1. InOne(x, h, d, i, c, o, ac) BY <1>12 DEF Sound
  <2>2. Apart(y, h) /\ p \notin Mem(y, h) BY <1>1, <2>1 DEF InOne
  <2>3. p \in Mem(x, h) BY <1>1
  <2>4. p \notin DiskContent(d, i) /\ p \notin DiskContent(d, c) /\ p \notin ac BY <2>1, <2>3 DEF InOne
  <2>5. Distinct(e, j)
    <3>1. Distinct(d, i) BY <2>1 DEF InOne
    <3>2. \A s \in Between(j) : s = w \/ (s \in Between(i) /\ e[s] = d[s] /\ e[s] # p)
      BY <1>2, <1>4, <1>5, <2>4, InContent
    <3> QED BY <1>4, <3>1, <3>2 DEF Distinct
  <2>6. Distinct(e, c)
    <3>1. Distinct(d, c) BY <2>1 DEF InOne
    <3>2. \A s \in Between(c) : s = w \/ (e[s] = d[s] /\ e[s] # p)
      BY <1>4, <1>5, <2>4, InContent
    <3> QED BY <1>4, <3>1, <3>2 DEF Distinct
  <2>7. Mem(y, h) \cap DiskContent(e, j) = {} BY <1>1, <1>6, <2>1, <2>2 DEF InOne
  <2>8. Mem(y, h) \cap DiskContent(e, c) = {} BY <1>1, <1>7, <2>1, <2>2 DEF InOne
  <2>9. ac \cap Mem(y, h) = {} /\ ac \cap DiskContent(e, j) = {} /\ ac \cap DiskContent(e, c) = {}
    BY <1>1, <1>6, <1>7, <2>1, <2>4 DEF InOne
  <2>10. Away(y) \cap DiskContent(e, c) = {} BY <2>8, AwayInMem
  <2> QED BY <2>2, <2>5, <2>6, <2>7, <2>8, <2>9, <2>10 DEF InOne
<1>13. ASSUME ~b PROVE 1 .. n = ac \cup Mem(y, h) \cup DiskContent(e, j)
  <2>1. 1 .. n = ac \cup Mem(x, h) \cup DiskContent(d, i) BY <1>13 DEF Sound
  <2>2. Between(j) = Between(i) \cup {w} BY <1>2, <1>13
  <2>3. DiskContent(e, j) = DiskContent(d, i) \cup {p}
    <3>1. \A s \in Between(i) : e[s] = d[s] BY <1>2, <1>4, <1>5
    <3>2. DiskContent(d, i) \subseteq DiskContent(e, j)
      <4> SUFFICES ASSUME NEW v \in DiskContent(d, i) PROVE v \in DiskContent(e, j) OBVIOUS
      <4>1. PICK s \in Between(i) : v = d[s] BY InContent
      <4>2. s \in Between(j) /\ v = e[s] BY <2>2, <3>1, <4>1
      <4> QED BY <4>2, InContent
    <3>3. p \in DiskContent(e, j) BY <1>4, <2>2, InContent
    <3> QED BY <1>6, <3>2, <3>3
  <2> QED BY <1>1, <2>1, <2>3
<1>14. Sound(y, h, e, j, c, u, ac, n, f, b) BY <1>9, <1>10, <1>12, <1>13 DEF Sound
<1> QED BY <1>14 DEF e, j

\* a report is loaded from the card
LEMMA SoundRead ==
    ASSUME NEW x, NEW h, NEW y, NEW d, NEW i \in Indexes, NEW j, NEW c,
           NEW o, NEW u, NEW ac, NEW n, NEW f, NEW g,
           Sound(x, h, d, i, c, o, ac, n, f, g), Adds(x, h, y, h, d[i.r]),
           u \in Loading, Away(y) = Away(x), i.r # i.w, d[i.r] # 0, j = [i EXCEPT !.r = Step(@)]
    PROVE  Sound(y, h, d, j, c, u, ac, n, f, g)
<1> DEFINE p == d[i.r]
<1>1. Mem(y, h) = Mem(x, h) \cup {p} /\ (Apart(x, h) /\ p \notin Mem(x, h) => Apart(y, h)) BY DEF Adds
<1>2. i.r \in Between(i) /\ Between(j) = Between(i) \ {i.r} BY ReadMoves
<1>3. p \in DiskContent(d, i) /\ DiskContent(d, i) = DiskContent(d, j) \cup {p} BY <1>2, InContent
<1>4. p \in 1 .. n
  <2>1. i.r \in Ring BY DEF Indexes
  <2>2. p \in 0 .. n /\ p # 0 BY <2>1 DEF Sound
  <2> QED BY <2>2
<1>5. Distinct(d, i) => p \notin DiskContent(d, j) BY <1>2, InContent DEF Distinct
<1> HIDE DEF p
<1>6. Mem(y, h) \subseteq 1 .. n /\ ac \subseteq 1 .. n /\ \A s \in Ring : d[s] \in 0 .. n
  BY <1>1, <1>2, <1>4 DEF Sound
<1>7. ASSUME ~f PROVE InOne(y, h, d, j, c, u, ac)
  <2>1. InOne(x, h, d, i, c, o, ac) BY <1>7 DEF Sound
  <2>2. p \notin Mem(x, h) /\ p \notin ac BY <1>3, <2>1 DEF InOne
  <2>3. Apart(y, h) /\ Distinct(d, c) BY <1>1, <2>1, <2>2 DEF InOne
  <2>4. Distinct(d, j) BY <1>2, <2>1 DEF InOne, Distinct
  <2>5. p \notin DiskContent(d, j) BY <1>5, <2>1 DEF InOne
  <2>6. Mem(y, h) \cap DiskContent(d, j) = {} BY <1>1, <1>3, <2>1, <2>5 DEF InOne
  <2>7. ac \cap Mem(y, h) = {} /\ ac \cap DiskContent(d, j) = {} /\ ac \cap DiskContent(d, c) = {}
    BY <1>1, <1>3, <2>1, <2>2 DEF InOne
  <2>8. Away(y) \cap DiskContent(d, c) = {} BY <2>1 DEF InOne
  <2> QED BY <2>3, <2>4, <2>6, <2>7, <2>8 DEF InOne
<1>8. ASSUME ~g PROVE 1 .. n = ac \cup Mem(y, h) \cup DiskContent(d, j)
  BY <1>1, <1>3, <1>8 DEF Sound
<1> QED BY <1>6, <1>7, <1>8 DEF Sound

\* cache_info is written
LEMMA SoundSaved ==
    ASSUME NEW x, NEW h, NEW d, NEW i, NEW c, NEW o, NEW u, NEW ac, NEW n, NEW f, NEW g,
           Sound(x, h, d, i, c, o, ac, n, f, g)
    PROVE  Sound(x, h, d, i, i, u, ac, n, f, g)
<1>1. ASSUME ~f PROVE InOne(x, h, d, i, i, u, ac)
  <2>1. InOne(x, h, d, i, c, o, ac) BY <1>1 DEF Sound
  <2>2. Away(x) \cap DiskContent(d, i) = {} BY <2>1, AwayInMem DEF InOne
  <2> QED BY <2>1, <2>2 DEF InOne
<1> QED BY <1>1 DEF Sound

\* cache_info is not written, or damaged
LEMMA SoundDamaged ==
    ASSUME NEW x, NEW h, NEW d, NEW i, NEW c, NEW o, NEW u, NEW ac, NEW n, NEW f, NEW g, NEW j,
           Sound(x, h, d, i, c, o, ac, n, f, g)
    PROVE  Sound(x, h, d, i, j, u, ac, n, TRUE, g)
BY DEF Sound

\* the program starts again: what cache_info says is on the card is all there is
LEMMA SoundCut ==
    ASSUME NEW x, NEW h, NEW y, NEW d, NEW i, NEW c, NEW j, NEW o, NEW u, NEW ac, NEW n, NEW f, NEW g,
           Sound(x, h, d, i, c, o, ac, n, f, g), Between(j) \subseteq Between(c),
           \A l \in Lists : y[l] = <<>>
    PROVE  Sound(y, 0, d, j, j, u, ac, n, f, TRUE)
<1>1. Range(<<>>) = {} /\ IsInjective(<<>>) BY EmptyRange
<1>2. \A l \in Lists : Range(y[l]) = {} /\ IsInjective(y[l]) BY <1>1
<1>3. Mem(y, 0) = {} BY <1>2, InMem
<1>4. DiskContent(d, j) \subseteq DiskContent(d, c) BY InContent
<1>5. ASSUME ~f PROVE InOne(y, 0, d, j, j, u, ac)
  <2>1. InOne(x, h, d, i, c, o, ac) BY <1>5 DEF Sound
  <2>2. Apart(y, 0) BY <1>2 DEF Apart
  <2>3. Distinct(d, j) BY <2>1 DEF InOne, Distinct
  <2>4. Away(y) = {} BY <1>2 DEF Lists, Away
  <2> QED BY <1>3, <1>4, <2>1, <2>2, <2>3, <2>4 DEF InOne
<1>6. Mem(y, 0) \subseteq 1 .. n /\ ac \subseteq 1 .. n /\ \A s \in Ring : d[s] \in 0 .. n
  BY <1>3 DEF Sound
<1> QED BY <1>5, <1>6 DEF Sound

\* it starts again and the card has fallen behind
LEMMA SoundBehind ==
    ASSUME NEW x, NEW h, NEW y, NEW d, NEW i, NEW c, NEW j, NEW o, NEW u, NEW ac, NEW n, NEW f, NEW g,
           Sound(x, h, d, i, c, o, ac, n, f, g), \A l \in Lists : y[l] = <<>>
    PROVE  Sound(y, 0, d, j, j, u, ac, n, TRUE, TRUE)
<1>1. Range(<<>>) = {} BY EmptyRange
<1>2. \A l \in Lists : Range(y[l]) = {} BY <1>1
<1>3. Mem(y, 0) = {} BY <1>2, InMem
<1> QED BY <1>3 DEF Sound

-----------------------------------------------------------------------------
(* The inductive invariant of the cache.                                   *)

Ops == {"none", "save", "saving", "savingall", "saveinfo", "record", "load", "loading", "loadinfo", "pick"}

Typed(x, hm, h, v, d, i, c, o, a, e, n, ac) ==
    /\ x \in Memories /\ hm \in [Rep -> {"realtm", "delay"}]
    /\ h \in 0 .. MaxRep /\ v \in 0 .. MaxNoRoom
    /\ d \in [Ring -> 0 .. MaxRep] /\ i \in Indexes /\ c \in Indexes
    /\ o \in Ops /\ a \in {"none", "open", "info"} /\ e \in Nat
    /\ n \in 0 .. MaxRep /\ ac \in SUBSET Rep

\* The buffers: no more in flight than the socket takes, no more in use than there are.
\* What is in memory and on the card has been recorded since power was last cut, or was
\* on the card then: so much can be written or loaded (e) at one time.
Counted(x, h, v, i, n, e, o) ==
    /\ Size(x, "trans") <= InFlight
    /\ Used(x, h) + v <= NBuf
    /\ Used(x, h) + Ahead(i) < RingSize + n
    /\ e <= RingSize + n
    /\ o \in {"save", "saving", "savingall"} => e + Listed(x) <= RingSize + n
    /\ o = "save" => e = 0 /\ Used(x, h) + v = NBuf
    /\ o = "saving" => e < Grade /\ Grade <= e + Listed(x)
    /\ o = "load" => e = 0
    /\ o = "loading" => e < Grade
    /\ o \in {"save", "saving", "saveinfo", "record"} => n < MaxRep

\* The phases of ft_cache_load: only then and only by the protocol thread.
Phased(x, h, i, e, o, a) ==
    /\ o \in {"load", "loading", "loadinfo", "pick"} => a = "none" /\ h = 0 /\ x["realtm"] = <<>>
    /\ o \in {"load", "loading"} => i.r # i.w /\ Size(x, "delay") = e

\* The indexes have been moved and are still to be saved.
Pending(o, a, e) ==
    \/ a = "info" \/ o \in {"saveinfo", "loadinfo"}
    \/ o \in {"saving", "savingall", "loading"} /\ e > 0

Marked(i, c, o, a, e, un, f) == ~un /\ ~f /\ ~Pending(o, a, e) => c = i

\* A warning: r entries of the history are still to be taken, and those taken are in
\* tmplst.  The CAN thread is not in ft_data_save_realtm then.
Warned(x, r, n, o) ==
    /\ r \in Nat /\ r + Size(x, "tmp") <= NErr /\ n + r <= MaxRep
    /\ o \in {"save", "saving", "saveinfo", "record"} => r = 0 /\ Size(x, "tmp") = 0

CTyped   == Typed(q, ftHome, ftHold, noRoom, disk, index, info, op, offAt, done, reports, acked)
CCounted == Counted(q, ftHold, noRoom, index, reports, done, op)
CPhased  == Phased(q, ftHold, index, done, op, offAt)
CMarked  == Marked(index, info, op, offAt, done, unsaved, behind)
CSound   == Sound(q, ftHold, disk, index, info, op, acked, reports, behind, gone)

CWarned  == Warned(q, errs, reports, op)

CacheInv == CTyped /\ CCounted /\ CPhased /\ CMarked /\ CSound

LEMMA CacheInvNext ==
    /\ CTyped' <=> Typed(q', ftHome', ftHold', noRoom', disk', index', info', op', offAt', done', reports', acked')
    /\ CCounted' <=> Counted(q', ftHold', noRoom', index', reports', done', op')
    /\ CPhased' <=> Phased(q', ftHold', index', done', op', offAt')
    /\ CMarked' <=> Marked(index', info', op', offAt', done', unsaved', behind')
    /\ CSound' <=> Sound(q', ftHold', disk', index', info', op', acked', reports', behind', gone')
<1>1. CTyped' <=> Typed(q', ftHome', ftHold', noRoom', disk', index', info', op', offAt', done', reports', acked')
  BY Zenon DEF CTyped, Typed, Memories, Lists, Indexes, Ops, Rep, Ring
<1>2. CCounted' <=> Counted(q', ftHold', noRoom', index', reports', done', op')
  BY Zenon DEF CCounted, Counted, Used, Listed, Size, Count, Ahead
<1>3. CPhased' <=> Phased(q', ftHold', index', done', op', offAt')
  BY Zenon DEF CPhased, Phased, Size
<1>4. CMarked' <=> Marked(index', info', op', offAt', done', unsaved', behind')
  BY Zenon DEF CMarked, Marked, Pending
<1>5. CSound' <=> Sound(q', ftHold', disk', index', info', op', acked', reports', behind', gone')
  BY Zenon DEF CSound, Sound, InOne, Mem, Held, Lists, Range, DiskContent, Distinct, Between, Within, Ring,
               Apart, IsInjective, Loading, Away
<1> QED BY <1>1, <1>2, <1>3, <1>4, <1>5

LEMMA WarnedNext == CWarned' <=> Warned(q', errs', reports', op')
BY Zenon DEF CWarned, Warned, Size

\* the free buffers
LEMMA FreeIs ==
    ASSUME CTyped
    PROVE  /\ NFreeBuf = NBuf - (Used(q, ftHold) + noRoom)
           /\ NFreeBuf \in Int
<1>1. q \in Memories /\ ftHold \in 0 .. MaxRep /\ noRoom \in 0 .. MaxNoRoom BY DEF CTyped, Typed
<1> DEFINE a == Size(q, "realtm")
           b == Size(q, "delay")
           c == Size(q, "trans")
           d == Size(q, "tmp")
           h == Count(ftHold)
<1>2. a \in Nat /\ b \in Nat /\ c \in Nat /\ d \in Nat /\ h \in Nat BY <1>1, UsedNat, CountIs DEF Lists
<1>3. NFreeBuf = NBuf - a - b - c - d - noRoom - h BY DEF NFreeBuf, Size, Count
<1>4. Used(q, ftHold) = a + b + c + d + h BY DEF Used, Listed
<1>5. NBuf \in Nat /\ noRoom \in Nat BY <1>1, Sizes
<1> HIDE DEF a, b, c, d, h
<1> QED BY <1>2, <1>3, <1>4, <1>5

LEMMA CacheInitInv == CacheInit => CacheInv /\ CWarned
<1> SUFFICES ASSUME CacheInit PROVE CacheInv /\ CWarned OBVIOUS
<1> USE DEF CacheInit
<1>1. q \in Memories /\ \A l \in Lists : q[l] = <<>>
  <2>1. q["realtm"] = <<>> /\ q["delay"] = <<>> /\ q["trans"] = <<>> /\ q["tmp"] = <<>> OBVIOUS
  <2>2. \A l \in Lists : q[l] = <<>> BY <2>1 DEF Lists
  <2>3. q \in [realtm : Seq(Rep), delay : Seq(Rep), trans : Seq(Rep), tmp : Seq(Rep)] BY EmptyRange
  <2>4. q = [l \in Lists |-> q[l]] BY <2>3 DEF Lists
  <2> QED BY <2>2, <2>4, EmptyRange DEF Memories
<1>2. CTyped
  <2>1. ftHome \in [Rep -> {"realtm", "delay"}] OBVIOUS
  <2>2. ftHold \in 0 .. MaxRep /\ noRoom \in 0 .. MaxNoRoom /\ reports \in 0 .. MaxRep BY Sizes
  <2>3. disk \in [Ring -> 0 .. MaxRep] BY Sizes
  <2>4. index \in Indexes /\ info \in Indexes BY ZeroIs
  <2> QED BY <1>1, <2>1, <2>2, <2>3, <2>4 DEF CTyped, Typed, Ops
<1>3. Size(q, "realtm") = 0 /\ Size(q, "delay") = 0 /\ Size(q, "trans") = 0 /\ Size(q, "tmp") = 0
  BY <1>1 DEF Size, Lists
<1>4. CCounted
  <2>1. Used(q, ftHold) = 0 BY <1>3, CountIs DEF Used, Listed
  <2>2. Ahead(index) = 0 BY ZeroIs
  <2> QED BY <1>3, <2>1, <2>2, Sizes DEF CCounted, Counted
<1>5. CPhased /\ CMarked BY DEF CPhased, Phased, CMarked, Marked
<1>6. CSound
  <2>1. Range(<<>>) = {} /\ IsInjective(<<>>) BY EmptyRange
  <2>2. \A l \in Lists : Range(q[l]) = {} /\ IsInjective(q[l]) BY <1>1, <2>1
  <2>3. Mem(q, 0) = {} BY <2>2, InMem
  <2>4. Between(Zero) = {} /\ DiskContent(disk, Zero) = {} /\ Distinct(disk, Zero) BY ZeroIs, InContent
  <2>5. Apart(q, 0) BY <2>2 DEF Apart
  <2>6. Away(q) = {} BY <2>2 DEF Lists, Away
  <2>7. InOne(q, 0, disk, Zero, Zero, "none", {}) BY <2>3, <2>4, <2>5, <2>6 DEF InOne
  <2> QED BY <2>3, <2>4, <2>7 DEF CSound, Sound
<1>7. CWarned BY <1>3, Sizes DEF CWarned, Warned
<1> QED BY <1>2, <1>4, <1>5, <1>6, <1>7 DEF CacheInv

-----------------------------------------------------------------------------
(* Every step keeps the invariant.                                         *)

Plain == {"none", "saveinfo", "record", "loadinfo", "pick"}

\* the reports in memory are rearranged
LEMMA CountedSame ==
    ASSUME NEW x, NEW h, NEW v, NEW i, NEW n, NEW e, NEW o, NEW y, NEW k, NEW u,
           Counted(x, h, v, i, n, e, o), Same(x, h, y, k), Size(y, "trans") <= InFlight,
           u \in Plain, u \in {"saveinfo", "record"} => n < MaxRep
    PROVE  Counted(y, k, v, i, n, e, u)
<1>1. Used(y, k) = Used(x, h) BY DEF Same
<1>2. Used(y, k) + v <= NBuf /\ Used(y, k) + Ahead(i) < RingSize + n /\ e <= RingSize + n
  BY <1>1 DEF Counted
<1> QED BY <1>2 DEF Counted, Plain

\* a new report takes a buffer: one of ft_data_save_realtm or of ft_data_flush_error
LEMMA TakeStep ==
    ASSUME CacheInv, NEW hm \in {"realtm", "delay"}, NewReport(hm), NEW l \in {"realtm", "tmp"},
           \/ q' = [BufferTaken EXCEPT ![l] = Append(@, reports + 1)]
           \/ q' = [BufferTaken EXCEPT ![l] = <<reports + 1>> \o @],
           op \in {"none", "record"}, op' = "none", reports < MaxRep, ~NoBuffer,
           UNCHANGED <<ftHold, noRoom, done, offAt, disk, index, info, acked, unsaved, behind>>
    PROVE  CacheInv'
<1>1. /\ q \in Memories /\ ftHome \in [Rep -> {"realtm", "delay"}] /\ ftHold \in 0 .. MaxRep
      /\ noRoom \in 0 .. MaxNoRoom /\ disk \in [Ring -> 0 .. MaxRep] /\ index \in Indexes /\ info \in Indexes
      /\ offAt \in {"none", "open", "info"} /\ done \in Nat /\ reports \in 0 .. MaxRep /\ acked \in SUBSET Rep
  BY DEF CacheInv, CTyped, Typed
<1>2. Sound(q, ftHold, disk, index, info, op, acked, reports, behind, gone) BY DEF CacheInv, CSound
<1>3. NFreeBuf = NBuf - (Used(q, ftHold) + noRoom) /\ NFreeBuf \in Int /\ Used(q, ftHold) \in Nat
  BY <1>1, FreeIs, UsedNat DEF CacheInv
<1>4. op \notin Loading /\ Between(index) \subseteq Ring /\ Between(info) \subseteq Ring BY DEF Loading, Between
<1> DEFINE r == reports + 1
           kept == BufferTaken
<1>5. reports \in Nat /\ r \in Rep /\ r \in 0 .. MaxRep BY <1>1, Sizes DEF Rep
<1>6. /\ kept \in Memories /\ Size(kept, "trans") = Size(q, "trans")
      /\ Used(kept, ftHold) + 1 + noRoom <= NBuf /\ Used(kept, ftHold) <= Used(q, ftHold)
      /\ Sound(kept, ftHold, disk, index, info, op, acked, reports, behind, gone')
  <2>1. CASE NFreeBuf > 0
    <3>1. kept = q BY <2>1 DEF BufferTaken
    <3>2. NFreeBuf # 0 BY <1>3, <2>1
    <3>3. ~gone' => ~gone BY DEF NewReport
    <3>4. Sound(q, ftHold, disk, index, info, op, acked, reports, behind, gone')
      BY <1>1, <1>2, <1>4, <3>3, Itself, SoundSame
    <3>5. Used(q, ftHold) + 1 + noRoom <= NBuf BY <1>1, <1>3, <2>1, Sizes
    <3>6. Used(q, ftHold) <= Used(q, ftHold) BY <1>3
    <3> HIDE DEF kept
    <3> QED BY <1>1, <3>1, <3>4, <3>5, <3>6
  <2>2. CASE ~(NFreeBuf > 0)
    <3>1. NFreeBuf = 0
      <4>1. Used(q, ftHold) + noRoom <= NBuf BY DEF CacheInv, CCounted, Counted
      <4> QED BY <1>1, <1>3, <2>2, <4>1, Sizes
    <3>2. OldestIn \in {"realtm", "delay"} /\ OldestIn \in Lists /\ q[OldestIn] # <<>>
      BY <3>1 DEF OldestIn, NoOldest, NoBuffer, Lists
    <3>0. kept = [q EXCEPT ![OldestIn] = Tail(@)] BY <2>2 DEF BufferTaken
    <3>3. Drops(q, ftHold, kept, ftHold, Head(q[OldestIn])) BY <1>1, <3>0, <3>2, HeadDrops
    <3>4. kept \in Memories /\ Used(kept, ftHold) + 1 = Used(q, ftHold) BY <3>3 DEF Drops
    <3>5. kept["trans"] = q["trans"] BY <1>1, <3>0, <3>2 DEF Memories, Lists
    <3>6. gone' BY <3>1 DEF NewReport
    <3>7. Sound(kept, ftHold, disk, index, info, op, acked \cup {}, reports, behind, gone')
      BY <1>2, <1>4, <3>3, <3>6, SoundLess
    <3>8. acked \cup {} = acked OBVIOUS
    <3>9. Used(kept, ftHold) \in Nat BY <1>1, <3>4, UsedNat
    <3>10. Used(kept, ftHold) + 1 + noRoom <= NBuf /\ Used(kept, ftHold) <= Used(q, ftHold)
      BY <1>1, <1>3, <3>1, <3>4, <3>9, Sizes
    <3> QED BY <3>4, <3>5, <3>7, <3>8, <3>10 DEF Size
  <2> QED BY <2>1, <2>2
<1>7. /\ q' = [kept EXCEPT ![l] = Append(@, r)] \/ q' = [kept EXCEPT ![l] = <<r>> \o @]
      /\ reports' = r
  BY DEF NewReport
<1> HIDE DEF kept
<1>8. Adds(kept, ftHold, q', ftHold, r)
  <2>1. l \in Lists BY DEF Lists
  <2> HIDE DEF r
  <2>2. CASE q' = [kept EXCEPT ![l] = Append(@, r)] BY <1>1, <1>5, <1>6, <2>1, <2>2, AppendAdds
  <2>3. CASE q' = [kept EXCEPT ![l] = <<r>> \o @] BY <1>1, <1>5, <1>6, <2>1, <2>3, PrependAdds
  <2> QED BY <1>7, <2>2, <2>3
<1>9. q' \in Memories /\ Used(q', ftHold) = Used(kept, ftHold) + 1 BY <1>8 DEF Adds
<1>10. Size(q', "trans") = Size(q, "trans")
  <2>1. q'["trans"] = kept["trans"] BY <1>6, <1>7 DEF Memories, Lists
  <2> QED BY <1>6, <2>1 DEF Size
<1>11. CTyped'
  <2>1. ftHome' \in [Rep -> {"realtm", "delay"}] BY <1>1 DEF NewReport
  <2>2. Typed(q', ftHome', ftHold', noRoom', disk', index', info', op', offAt', done', reports', acked')
    BY <1>1, <1>5, <1>7, <1>9, <2>1 DEF Typed, Ops
  <2> QED BY <2>2, CacheInvNext
<1>12. CCounted'
  <2>1. Ahead(index) \in Nat /\ Used(kept, ftHold) \in Nat /\ noRoom \in Nat BY <1>1, <1>6, AheadIs, UsedNat
  <2>2. /\ Size(q, "trans") <= InFlight /\ Used(q, ftHold) + Ahead(index) < RingSize + reports
        /\ done <= RingSize + reports
    BY DEF CacheInv, CCounted, Counted
  <2>3. Used(q', ftHold) + noRoom <= NBuf BY <1>6, <1>9, <2>1, Sizes
  <2>4. Used(q', ftHold) + Ahead(index) < RingSize + r
    <3> DEFINE u == Used(q, ftHold)
               v == Used(kept, ftHold)
               a == Ahead(index)
    <3>1. u \in Nat /\ v \in Nat /\ a \in Nat /\ v <= u BY <1>3, <1>6, <2>1
    <3>2. u + a < RingSize + reports BY <2>2
    <3>3. reports \in Nat /\ RingSize \in Nat BY <1>1, Sizes
    <3> HIDE DEF u, v, a
    <3>4. (v + 1) + a < RingSize + (reports + 1) BY <3>1, <3>2, <3>3
    <3> QED BY <1>9, <3>4 DEF v, a
  <2>5. done <= RingSize + r BY <1>1, <1>5, <2>2, Sizes
  <2>6. Counted(q', ftHold', noRoom', index', reports', done', op')
    BY <1>7, <1>10, <2>2, <2>3, <2>4, <2>5 DEF Counted
  <2> QED BY <2>6, CacheInvNext
<1>13. CPhased'
  <2>1. Phased(q', ftHold', index', done', op', offAt') BY DEF Phased
  <2> QED BY <2>1, CacheInvNext
<1>14. CMarked'
  <2>1. Marked(index, info, op, offAt, done, unsaved, behind) BY DEF CacheInv, CMarked
  <2>2. Marked(index', info', op', offAt', done', unsaved', behind') BY <2>1 DEF Marked, Pending
  <2> QED BY <2>2, CacheInvNext
<1>15. CSound'
  <2>1. Sound(q', ftHold, disk, index, info, op', acked, reports + 1, behind, gone')
    BY <1>4, <1>5, <1>6, <1>8, SoundNew
  <2>2. Sound(q', ftHold', disk', index', info', op', acked', reports', behind', gone')
    BY <1>7, <2>1
  <2> QED BY <2>2, CacheInvNext
<1> QED BY <1>11, <1>12, <1>13, <1>14, <1>15 DEF CacheInv

\* a step that leaves the disk, the indexes and the counters alone, and only rearranges
\* the reports in memory
LEMMA QuietStep ==
    ASSUME CacheInv, Same(q, ftHold, q', ftHold'), Size(q', "trans") <= InFlight,
           ftHome' \in [Rep -> {"realtm", "delay"}], op \in {"none", "pick"}, op' = "none",
           offAt' \in {offAt, "open"}, offAt' # offAt => offAt = "none",
           UNCHANGED <<noRoom, done, disk, index, info, reports, acked, unsaved, behind, gone>>
    PROVE  CacheInv'
<1>1. Typed(q, ftHome, ftHold, noRoom, disk, index, info, op, offAt, done, reports, acked)
  BY DEF CacheInv, CTyped
<1>2. CTyped'
  <2>1. Typed(q', ftHome', ftHold', noRoom', disk', index', info', op', offAt', done', reports', acked')
    BY <1>1 DEF Typed, Ops, Same
  <2> QED BY <2>1, CacheInvNext
<1>3. CCounted'
  <2>1. Counted(q, ftHold, noRoom, index, reports, done, op) BY DEF CacheInv, CCounted
  <2>2. Counted(q', ftHold', noRoom, index, reports, done, op') BY <2>1, CountedSame DEF Plain
  <2>3. Counted(q', ftHold', noRoom', index', reports', done', op') BY <2>2
  <2> QED BY <2>3, CacheInvNext
<1>4. CPhased'
  <2>1. Phased(q', ftHold', index', done', op', offAt') BY DEF Phased
  <2> QED BY <2>1, CacheInvNext
<1>5. CMarked'
  <2>1. Marked(index, info, op, offAt, done, unsaved, behind) BY DEF CacheInv, CMarked
  <2>2. Marked(index', info', op', offAt', done', unsaved', behind') BY <2>1 DEF Marked, Pending
  <2> QED BY <2>2, CacheInvNext
<1>6. CSound'
  <2>1. Sound(q, ftHold, disk, index, info, op, acked, reports, behind, gone) BY DEF CacheInv, CSound
  <2>2. op \notin Loading BY DEF Loading
  <2>3. Sound(q', ftHold', disk, index, info, op', acked, reports, behind, gone)
    BY <2>1, <2>2, SoundSame
  <2>4. Sound(q', ftHold', disk', index', info', op', acked', reports', behind', gone') BY <2>3
  <2> QED BY <2>4, CacheInvNext
<1> QED BY <1>2, <1>3, <1>4, <1>5, <1>6 DEF CacheInv

\* the memory is what it was
LEMMA MemoryKept ==
    ASSUME CacheInv, UNCHANGED <<q, ftHold>>
    PROVE  Same(q, ftHold, q', ftHold') /\ Size(q', "trans") <= InFlight
<1>1. q \in Memories /\ ftHold \in 0 .. MaxRep BY DEF CacheInv, CTyped, Typed
<1>2. Same(q, ftHold, q, ftHold) BY <1>1, Itself
<1>3. Size(q, "trans") <= InFlight BY DEF CacheInv, CCounted, Counted
<1> QED BY <1>2, <1>3

LEMMA FlushRealtmStep == CacheInv /\ ft_data_flush_realtm => CacheInv'
<1> SUFFICES ASSUME CacheInv, ft_data_flush_realtm PROVE CacheInv' OBVIOUS
<1>1. q \in Memories /\ ftHold \in 0 .. MaxRep /\ ftHome \in [Rep -> {"realtm", "delay"}]
  BY DEF CacheInv, CTyped, Typed
<1>2. /\ op = "none" /\ q' = [q EXCEPT !.delay = @ \o q.realtm, !.realtm = <<>>]
      /\ ftHome' = [n \in Rep |-> IF n \in Range(q.realtm) THEN "delay" ELSE ftHome[n]]
      /\ UNCHANGED <<ftHold, noRoom, op, done, offAt, disk, index, info, reports, acked, unsaved, behind, gone>>
  BY DEF ft_data_flush_realtm, histVars
<1>3. q["realtm"] \in Seq(Rep) /\ q["delay"] \in Seq(Rep) BY <1>1, UsedNat
<1>4. q["delay"] \o q["realtm"] \in Seq(Rep) BY <1>3
<1>5. q' \in Memories BY <1>1, <1>2, <1>4, EmptyRange DEF Memories, Lists
<1>6. /\ q'["realtm"] = <<>> /\ q'["delay"] = q["delay"] \o q["realtm"] /\ q'["trans"] = q["trans"]
      /\ \A m \in Lists : m # "realtm" /\ m # "delay" => q'[m] = q[m]
  BY <1>1, <1>2 DEF Memories, Lists
<1>7. Same(q, ftHold, q', ftHold') BY <1>1, <1>2, <1>5, <1>6, PourSame
<1>8. Size(q', "trans") <= InFlight BY <1>6 DEF CacheInv, CCounted, Counted, Size
<1>9. ftHome' \in [Rep -> {"realtm", "delay"}] BY <1>1, <1>2
<1> QED BY <1>2, <1>7, <1>8, <1>9, QuietStep

LEMMA FlushEndsStep == CacheInv /\ FlushEnds => CacheInv'
<1> SUFFICES ASSUME CacheInv, FlushEnds PROVE CacheInv' OBVIOUS
<1>1. q \in Memories /\ ftHold \in 0 .. MaxRep /\ ftHome \in [Rep -> {"realtm", "delay"}]
  BY DEF CacheInv, CTyped, Typed
<1>2. /\ op = "none" /\ q' = [q EXCEPT !.delay = @ \o q.tmp, !.tmp = <<>>]
      /\ UNCHANGED <<ftHome, ftHold, noRoom, op, done, offAt, disk, index, info, reports, acked, unsaved, behind, gone>>
  BY DEF FlushEnds, histVars
<1>3. q["tmp"] \in Seq(Rep) /\ q["delay"] \in Seq(Rep) BY <1>1, UsedNat
<1>4. q["delay"] \o q["tmp"] \in Seq(Rep) BY <1>3
<1>5. q' \in Memories BY <1>1, <1>2, <1>4, EmptyRange DEF Memories, Lists
<1>6. /\ q'["tmp"] = <<>> /\ q'["delay"] = q["delay"] \o q["tmp"] /\ q'["trans"] = q["trans"]
      /\ \A m \in Lists : m # "tmp" /\ m # "delay" => q'[m] = q[m]
  BY <1>1, <1>2 DEF Memories, Lists
<1>7. Same(q, ftHold, q', ftHold') BY <1>1, <1>2, <1>5, <1>6, PourSame
<1>8. Size(q', "trans") <= InFlight BY <1>6 DEF CacheInv, CCounted, Counted, Size
<1>9. ftHome' \in [Rep -> {"realtm", "delay"}] BY <1>1, <1>2
<1> QED BY <1>2, <1>7, <1>8, <1>9, QuietStep

LEMMA FlushErrorStep == CacheInv /\ ft_data_flush_error => CacheInv'
<1> SUFFICES ASSUME CacheInv, ft_data_flush_error PROVE CacheInv' OBVIOUS
<1>1. /\ op = "none"
      /\ UNCHANGED <<q, ftHome, ftHold, noRoom, op, done, offAt, disk, index, info, reports, acked,
                     unsaved, behind, gone>>
  BY DEF ft_data_flush_error
<1>2. ftHome' \in [Rep -> {"realtm", "delay"}] BY <1>1 DEF CacheInv, CTyped, Typed
<1> QED BY <1>1, <1>2, MemoryKept, QuietStep

LEMMA FlushEntryStep == CacheInv /\ CWarned /\ FlushEntry => CacheInv'
<1> SUFFICES ASSUME CacheInv, CWarned, FlushEntry PROVE CacheInv' OBVIOUS
<1>1. /\ op = "none" /\ op' = "none" /\ errs > 0 /\ ~NoBuffer /\ NewReport("delay")
      /\ q' = [BufferTaken EXCEPT !["tmp"] = <<reports + 1>> \o @]
      /\ UNCHANGED <<ftHold, noRoom, done, offAt, disk, index, info, acked, unsaved, behind>>
  BY DEF FlushEntry
<1>2. reports < MaxRep
  <2>1. errs \in Nat /\ reports + errs <= MaxRep BY DEF CWarned, Warned
  <2>2. reports \in Nat BY DEF CacheInv, CTyped, Typed
  <2> QED BY <1>1, <2>1, <2>2, Sizes
<1> QED BY <1>1, <1>2, TakeStep

LEMMA FlushSendingStep == CacheInv /\ ft_data_flush_sending => CacheInv'
<1> SUFFICES ASSUME CacheInv, ft_data_flush_sending PROVE CacheInv' OBVIOUS
<1>1. q \in Memories /\ ftHold \in 0 .. MaxRep /\ ftHome \in [Rep -> {"realtm", "delay"}]
  BY DEF CacheInv, CTyped, Typed
<1> DEFINE c == q["trans"]
           at(l) == {i \in DOMAIN c : ftHome[c[i]] = l}
<1>2. PICK a \in PlacesFrom("realtm"), b \in PlacesFrom("delay") :
          q' = [realtm |-> [k \in DOMAIN a |-> q.trans[a[k]]] \o q.realtm,
                delay  |-> [k \in DOMAIN b |-> q.trans[b[k]]] \o q.delay,
                trans  |-> <<>>, tmp |-> q.tmp]
  BY DEF ft_data_flush_sending
<1>3. /\ op = "none"
      /\ UNCHANGED <<ftHome, ftHold, noRoom, op, done, offAt, disk, index, info, reports, acked, unsaved, behind, gone>>
  BY DEF ft_data_flush_sending
<1>4. c \in Seq(Rep) /\ q["realtm"] \in Seq(Rep) /\ q["delay"] \in Seq(Rep) /\ q["tmp"] \in Seq(Rep)
  BY <1>1, UsedNat
<1>5. ASSUME NEW l, NEW e \in PlacesFrom(l) PROVE InOrder(e, at(l))
  <2>1. /\ e \in SeqOf(at(l), Len(c)) /\ Range(e) = at(l)
        /\ \A i, j \in DOMAIN e : i < j => e[i] < e[j]
    BY <1>5 DEF PlacesFrom
  <2>2. PICK m \in 0 .. Len(c) : e \in [1 .. m -> at(l)] BY <2>1 DEF SeqOf
  <2>3. m \in Nat BY <1>4
  <2>4. e \in Seq(at(l)) BY <2>2, <2>3
  <2> QED BY <2>1, <2>4 DEF InOrder
<1>6. InOrder(a, at("realtm")) /\ InOrder(b, at("delay")) BY <1>5
<1> DEFINE ca == [k \in DOMAIN a |-> c[a[k]]]
           cb == [k \in DOMAIN b |-> c[b[k]]]
<1>7. ca \in Seq(Rep) /\ cb \in Seq(Rep)
  <2>1. at("realtm") \in SUBSET (1 .. Len(c)) /\ at("delay") \in SUBSET (1 .. Len(c))
    BY <1>4, LenProperties
  <2> HIDE DEF at, c
  <2> QED BY <1>4, <1>6, <2>1, ChosenAre
<1>8. /\ q'["realtm"] = ca \o q["realtm"] /\ q'["delay"] = cb \o q["delay"]
      /\ q'["trans"] = <<>> /\ q'["tmp"] = q["tmp"]
  BY <1>2
<1>9. q' \in Memories
  <2>1. ca \o q["realtm"] \in Seq(Rep) /\ cb \o q["delay"] \in Seq(Rep) BY <1>4, <1>7, ConcatProperties
  <2>2. q' \in [realtm : Seq(Rep), delay : Seq(Rep), trans : Seq(Rep), tmp : Seq(Rep)]
    BY <1>2, <1>4, <2>1, EmptyRange
  <2>3. q' = [l \in Lists |-> q'[l]] BY <2>2 DEF Lists
  <2>4. \A l \in Lists : q'[l] \in Seq(Rep) BY <1>4, <1>8, <2>1, EmptyRange DEF Lists
  <2> QED BY <2>3, <2>4 DEF Memories
<1>10. Same(q, ftHold, q', ftHold')
  BY <1>1, <1>3, <1>6, <1>8, <1>9, BackSame
<1>11. Size(q', "trans") <= InFlight BY <1>8, EmptyRange, Sizes DEF Size
<1> HIDE DEF c, at, ca, cb
<1> QED BY <1>1, <1>3, <1>10, <1>11, QuietStep

\* a delayed report is taken to be sent
LEMMA PickIs ==
    ASSUME CacheInv, ftHold = 0, PickDelayed
    PROVE  Same(q, ftHold, q', ftHold') /\ Size(q', "trans") <= InFlight
<1>1. q \in Memories /\ ftHold \in 0 .. MaxRep /\ "delay" \in Lists BY DEF CacheInv, CTyped, Typed, Lists
<1>2. Size(q, "trans") <= InFlight BY DEF CacheInv, CCounted, Counted
<1>3. CASE q.delay = <<>>
  <2>1. UNCHANGED <<ftHold, q>> BY <1>3 DEF PickDelayed
  <2> QED BY <1>1, <1>2, <2>1, Itself
<1>4. CASE q["delay"] # <<>> /\ ftEmerg
  <2> DEFINE n == Last(q["delay"])
             y == [q EXCEPT !["delay"] = Front(@)]
  <2>1. ftHold' = n /\ q' = y BY <1>4 DEF PickDelayed
  <2>2. Drops(q, ftHold, y, ftHold, n) BY <1>1, <1>4, LastDrops
  <2>3. y["trans"] = q["trans"] BY <1>1 DEF Memories, Lists
  <2> HIDE DEF n, y
  <2>4. y \in Memories /\ n \in Rep BY <2>2 DEF Drops
  <2>5. Adds(y, 0, y, n, n) BY <2>4, HoldAdds
  <2>6. Same(q, ftHold, y, n) BY <1>1, <2>2, <2>5, DropAdd
  <2> QED BY <1>2, <2>1, <2>3, <2>6 DEF Size
<1>5. CASE q["delay"] # <<>> /\ ~ftEmerg
  <2> DEFINE n == Head(q["delay"])
             y == [q EXCEPT !["delay"] = Tail(@)]
  <2>1. ftHold' = n /\ q' = y BY <1>5 DEF PickDelayed
  <2>2. Drops(q, ftHold, y, ftHold, n) BY <1>1, <1>5, HeadDrops
  <2>3. y["trans"] = q["trans"] BY <1>1 DEF Memories, Lists
  <2> HIDE DEF n, y
  <2>4. y \in Memories /\ n \in Rep BY <2>2 DEF Drops
  <2>5. Adds(y, 0, y, n, n) BY <2>4, HoldAdds
  <2>6. Same(q, ftHold, y, n) BY <1>1, <2>2, <2>5, DropAdd
  <2> QED BY <1>2, <2>1, <2>3, <2>6 DEF Size
<1> QED BY <1>3, <1>4, <1>5

LEMMA PickStep == CacheInv /\ Pick => CacheInv'
<1> SUFFICES ASSUME CacheInv, Pick PROVE CacheInv' OBVIOUS
<1>1. /\ op = "pick" /\ op' = "none" /\ PickDelayed
      /\ UNCHANGED <<ftHome, noRoom, done, offAt, disk, index, info, reports, acked, unsaved, behind, gone>>
  BY DEF Pick, histVars
<1>2. ftHold = 0 BY <1>1 DEF CacheInv, CPhased, Phased
<1>3. Same(q, ftHold, q', ftHold') /\ Size(q', "trans") <= InFlight BY <1>1, <1>2, PickIs
<1>4. ftHome' \in [Rep -> {"realtm", "delay"}] BY <1>1 DEF CacheInv, CTyped, Typed
<1> QED BY <1>1, <1>3, <1>4, QuietStep

\* ft_cache_load is called, or ft_cache_save: only op and done change
LEMMA BeginStep ==
    ASSUME CacheInv, op = "none", done' = 0,
           \/ op' = "load" /\ offAt = "none" /\ ftHold = 0 /\ NoOldest /\ index.r # index.w
           \/ op' = "save" /\ NFreeBuf = 0 /\ reports < MaxRep,
           UNCHANGED <<q, ftHome, ftHold, noRoom, offAt, disk, index, info, reports, acked,
                       unsaved, behind, gone>>
    PROVE  CacheInv'
<1>1. Typed(q, ftHome, ftHold, noRoom, disk, index, info, op, offAt, done, reports, acked)
  BY DEF CacheInv, CTyped
<1>2. q \in Memories /\ ftHold \in 0 .. MaxRep /\ noRoom \in Nat /\ reports \in Nat /\ index \in Indexes
  BY <1>1 DEF Typed
<1>3. /\ Size(q, "realtm") \in Nat /\ Size(q, "delay") \in Nat /\ Size(q, "trans") \in Nat
      /\ Size(q, "tmp") \in Nat /\ Used(q, ftHold) \in Nat /\ Listed(q) \in Nat /\ Ahead(index) \in Nat /\ Count(ftHold) \in Nat
  BY <1>2, UsedNat, AheadIs, CountIs DEF Lists
<1>4. CTyped'
  <2>1. Typed(q', ftHome', ftHold', noRoom', disk', index', info', op', offAt', done', reports', acked')
    BY <1>1 DEF Typed, Ops
  <2> QED BY <2>1, CacheInvNext
<1>5. CCounted'
  <2>1. Counted(q, ftHold, noRoom, index, reports, done, op) BY DEF CacheInv, CCounted
  <2>2. Listed(q) <= Used(q, ftHold) BY <1>3 DEF Used
  <2>3. done' <= RingSize + reports /\ done' + Listed(q) <= RingSize + reports
    BY <1>2, <1>3, <2>1, <2>2, Sizes DEF Counted
  <2>4. op' = "save" => Used(q, ftHold) + noRoom = NBuf
    <3>1. op' = "save" => NFreeBuf = 0 OBVIOUS
    <3>2. NFreeBuf = NBuf - (Used(q, ftHold) + noRoom) BY FreeIs DEF CacheInv
    <3> QED BY <1>2, <1>3, <3>1, <3>2, Sizes
  <2>5. op' = "save" => reports < MaxRep OBVIOUS
  <2>6. Counted(q', ftHold', noRoom', index', reports', done', op')
    BY <2>1, <2>3, <2>4, <2>5 DEF Counted
  <2> QED BY <2>6, CacheInvNext
<1>6. CPhased'
  <2>1. op' = "load" => q["realtm"] = <<>> /\ q["delay"] = <<>> BY DEF NoOldest
  <2>2. op' = "load" => Size(q, "delay") = 0 BY <2>1 DEF Size
  <2>3. Phased(q', ftHold', index', done', op', offAt') BY <2>1, <2>2 DEF Phased
  <2> QED BY <2>3, CacheInvNext
<1>7. CMarked'
  <2>1. Marked(index, info, op, offAt, done, unsaved, behind) BY DEF CacheInv, CMarked
  <2>2. Marked(index', info', op', offAt', done', unsaved', behind') BY <2>1 DEF Marked, Pending
  <2> QED BY <2>2, CacheInvNext
<1>8. CSound'
  <2>1. Sound(q, ftHold, disk, index, info, op, acked, reports, behind, gone) BY DEF CacheInv, CSound
  <2>2. op \notin Loading BY DEF Loading
  <2>3. Sound(q, ftHold, disk, index, info, op', acked, reports, behind, gone)
    BY <1>2, <2>1, <2>2, Itself, SoundSame
  <2>4. Sound(q', ftHold', disk', index', info', op', acked', reports', behind', gone') BY <2>3
  <2> QED BY <2>4, CacheInvNext
<1> QED BY <1>4, <1>5, <1>6, <1>7, <1>8 DEF CacheInv

LEMMA GetStep == CacheInv /\ ft_data_get_pack => CacheInv'
<1> SUFFICES ASSUME CacheInv, ft_data_get_pack PROVE CacheInv' OBVIOUS
<1>1. /\ op = "none" /\ offAt = "none" /\ ftHold = 0
      /\ UNCHANGED <<ftHome, noRoom, offAt, disk, index, info, reports, acked, unsaved, behind, gone>>
  BY DEF ft_data_get_pack, histVars
<1>2. q \in Memories /\ ftHold \in 0 .. MaxRep /\ ftHome' \in [Rep -> {"realtm", "delay"}] /\ "realtm" \in Lists
  BY <1>1 DEF CacheInv, CTyped, Typed, Lists
<1>3. CASE /\ q["realtm"] # <<>>
           /\ ftHold' = Head(q["realtm"]) /\ q' = [q EXCEPT !["realtm"] = Tail(@)]
           /\ UNCHANGED <<op, done>>
  <2> DEFINE n == Head(q["realtm"])
             y == [q EXCEPT !["realtm"] = Tail(@)]
  <2>1. ftHold' = n /\ q' = y BY <1>3
  <2>2. Drops(q, ftHold, y, ftHold, n) BY <1>2, <1>3, HeadDrops
  <2>3. y["trans"] = q["trans"] BY <1>2 DEF Memories, Lists
  <2> HIDE DEF n, y
  <2>4. y \in Memories /\ n \in Rep BY <2>2 DEF Drops
  <2>5. Adds(y, 0, y, n, n) BY <2>4, HoldAdds
  <2>6. Same(q, ftHold, y, n) BY <1>1, <1>2, <2>2, <2>5, DropAdd
  <2>7. Size(y, "trans") <= InFlight BY <2>3 DEF CacheInv, CCounted, Counted, Size
  <2> QED BY <1>1, <1>2, <1>3, <2>1, <2>6, <2>7, QuietStep
<1>4. CASE PickDelayed /\ UNCHANGED <<op, done>>
  <2>1. Same(q, ftHold, q', ftHold') /\ Size(q', "trans") <= InFlight BY <1>1, <1>4, PickIs
  <2> QED BY <1>1, <1>2, <1>4, <2>1, QuietStep
<1>5. CASE /\ NoOldest /\ index.r # index.w
           /\ op' = "load" /\ done' = 0 /\ UNCHANGED <<ftHold, q>>
  BY <1>1, <1>5, BeginStep
<1> QED BY <1>3, <1>4, <1>5 DEF ft_data_get_pack

LEMMA ReportStep == CacheInv /\ ft_do_report => CacheInv'
<1> SUFFICES ASSUME CacheInv, ft_do_report PROVE CacheInv' OBVIOUS
<1>1. /\ op = "none" /\ op' = "none" /\ ftHold # 0 /\ ftHold' = 0
      /\ UNCHANGED <<ftHome, done, offAt, disk, index, info, reports, acked, unsaved, behind>>
  BY DEF ft_do_report
<1>2. /\ q \in Memories /\ ftHold \in 0 .. MaxRep /\ ftHome \in [Rep -> {"realtm", "delay"}]
      /\ noRoom \in Nat /\ index \in Indexes
  BY DEF CacheInv, CTyped, Typed
<1>3. ftHold \in Rep BY <1>1, <1>2 DEF Rep
<1>4. Drops(q, ftHold, q, 0, ftHold) BY <1>2, <1>3, HoldDrops
<1>5. 0 \in 0 .. MaxRep BY Sizes
<1>6. Size(q, "trans") <= InFlight /\ Size(q, "trans") \in Nat
  BY <1>2, UsedNat DEF CacheInv, CCounted, Counted, Lists
<1>7. CASE /\ Len(q["trans"]) < InFlight
           /\ q' = [q EXCEPT !["trans"] = Append(@, ftHold)] /\ UNCHANGED <<noRoom, gone>>
  <2>1. Adds(q, 0, q', 0, ftHold) BY <1>2, <1>3, <1>5, <1>7, AppendAdds DEF Lists
  <2>2. Same(q, ftHold, q', ftHold') BY <1>1, <1>2, <1>4, <2>1, DropAdd
  <2>3. Size(q', "trans") <= InFlight
    <3>1. q["trans"] \in Seq(Rep) BY <1>2, UsedNat
    <3>2. q'["trans"] = Append(q["trans"], ftHold) BY <1>2, <1>7 DEF Memories, Lists
    <3>3. Size(q', "trans") = Size(q, "trans") + 1 BY <1>3, <3>1, <3>2, AppendRange DEF Size
    <3>4. Size(q, "trans") < InFlight BY <1>7 DEF Size
    <3> QED BY <1>6, <3>3, <3>4, Sizes
  <2> QED BY <1>1, <1>2, <1>7, <2>2, <2>3, QuietStep
<1>8. CASE q' = [q EXCEPT ![ftHome[ftHold]] = <<ftHold>> \o @] /\ UNCHANGED <<noRoom, gone>>
  <2> DEFINE l == ftHome[ftHold]
  <2>1. l \in {"realtm", "delay"} BY <1>2, <1>3
  <2>2. q' = [q EXCEPT ![l] = <<ftHold>> \o @] BY <1>8
  <2> HIDE DEF l
  <2>3. l \in Lists BY <2>1 DEF Lists
  <2>4. Adds(q, 0, q', 0, ftHold) BY <1>2, <1>3, <1>5, <2>2, <2>3, PrependAdds
  <2>5. Same(q, ftHold, q', ftHold') BY <1>1, <1>2, <1>4, <2>4, DropAdd
  <2>6. q'["trans"] = q["trans"] BY <1>2, <2>1, <2>2 DEF Memories, Lists
  <2>7. Size(q', "trans") <= InFlight BY <1>6, <2>6 DEF Size
  <2> QED BY <1>1, <1>2, <1>8, <2>5, <2>7, QuietStep
<1>9. CASE /\ noRoom < MaxNoRoom /\ noRoom' = noRoom + 1 /\ gone' = TRUE /\ UNCHANGED q
  <2>1. CTyped'
    <3>1. noRoom' \in 0 .. MaxNoRoom BY <1>2, <1>9, Sizes
    <3>2. Typed(q, ftHome, ftHold, noRoom, disk, index, info, op, offAt, done, reports, acked)
      BY DEF CacheInv, CTyped
    <3>3. Typed(q', ftHome', ftHold', noRoom', disk', index', info', op', offAt', done', reports', acked')
      BY <1>1, <1>5, <1>9, <3>1, <3>2 DEF Typed
    <3> QED BY <3>3, CacheInvNext
  <2>2. CCounted'
    <3>1. Counted(q, ftHold, noRoom, index, reports, done, op) BY DEF CacheInv, CCounted
    <3>2. Used(q, 0) + 1 = Used(q, ftHold) /\ Used(q, 0) \in Nat /\ Ahead(index) \in Nat
      BY <1>2, <1>4, <1>5, UsedNat, AheadIs DEF Drops
    <3>3. Used(q, 0) + (noRoom + 1) <= NBuf BY <1>2, <3>1, <3>2, Sizes DEF Counted
    <3>4. reports \in Nat BY DEF CacheInv, CTyped, Typed
    <3>5. Used(q, 0) + Ahead(index) < RingSize + reports BY <3>1, <3>2, <3>4, Sizes DEF Counted
    <3>6. Counted(q', ftHold', noRoom', index', reports', done', op')
      BY <1>1, <1>9, <3>1, <3>3, <3>5 DEF Counted
    <3> QED BY <3>6, CacheInvNext
  <2>3. CPhased'
    <3>1. Phased(q', ftHold', index', done', op', offAt') BY <1>1 DEF Phased
    <3> QED BY <3>1, CacheInvNext
  <2>4. CMarked'
    <3>1. Marked(index, info, op, offAt, done, unsaved, behind) BY DEF CacheInv, CMarked
    <3>2. Marked(index', info', op', offAt', done', unsaved', behind') BY <1>1, <3>1 DEF Marked, Pending
    <3> QED BY <3>2, CacheInvNext
  <2>5. CSound'
    <3>1. Sound(q, ftHold, disk, index, info, op, acked, reports, behind, gone) BY DEF CacheInv, CSound
    <3>2. op \notin Loading BY <1>1 DEF Loading
    <3>3. Sound(q, 0, disk, index, info, op', acked \cup {}, reports, behind, TRUE)
      BY <1>4, <3>1, <3>2, SoundLess
    <3>4. acked \cup {} = acked OBVIOUS
    <3>5. Sound(q', ftHold', disk', index', info', op', acked', reports', behind', gone')
      BY <1>1, <1>9, <3>3, <3>4
    <3> QED BY <3>5, CacheInvNext
  <2> QED BY <2>1, <2>2, <2>3, <2>4, <2>5 DEF CacheInv
<1> QED BY <1>7, <1>8, <1>9 DEF ft_do_report

LEMMA SaveRealtmStep == CacheInv /\ ft_data_save_realtm => CacheInv'
<1> SUFFICES ASSUME CacheInv, ft_data_save_realtm PROVE CacheInv' OBVIOUS
<1>1. /\ op = "none" /\ reports < MaxRep
      /\ UNCHANGED <<ftHold, noRoom, offAt, disk, index, info, acked, unsaved, behind>>
  BY DEF ft_data_save_realtm
<1>2. CASE NFreeBuf > 0 /\ Take /\ UNCHANGED <<op, done>>
  <2>1. NFreeBuf # 0 BY <1>2, FreeIs DEF CacheInv
  <2>2. ~NoBuffer BY <2>1 DEF NoBuffer
  <2>3. NewReport("realtm") /\ q' = [BufferTaken EXCEPT !["realtm"] = Append(@, reports + 1)]
    BY <1>2 DEF Take
  <2>4. op \in {"none", "record"} /\ op' = "none" /\ UNCHANGED done BY <1>1, <1>2
  <2> QED BY <1>1, <2>2, <2>3, <2>4, TakeStep
<1>3. CASE NFreeBuf = 0 /\ op' = "save" /\ done' = 0 /\ UNCHANGED <<q, ftHome, reports, gone>>
  BY <1>1, <1>3, BeginStep
<1> QED BY <1>2, <1>3 DEF ft_data_save_realtm

LEMMA RecordStep == CacheInv /\ Record => CacheInv'
<1> SUFFICES ASSUME CacheInv, Record PROVE CacheInv' OBVIOUS
<1>1. /\ op = "record" /\ op' = "none" /\ ~NoBuffer
      /\ NewReport("realtm") /\ q' = [BufferTaken EXCEPT !["realtm"] = Append(@, reports + 1)]
      /\ UNCHANGED <<ftHold, noRoom, done, offAt, disk, index, info, acked, unsaved, behind>>
  BY DEF Record, Take
<1>2. reports < MaxRep BY <1>1 DEF CacheInv, CCounted, Counted
<1> QED BY <1>1, <1>2, TakeStep

LEMMA EmergenceStep == CacheInv /\ ft_data_emergence => CacheInv'
<1> SUFFICES ASSUME CacheInv, ft_data_emergence PROVE CacheInv' OBVIOUS
<1>1. /\ op = "none"
      /\ UNCHANGED <<q, ftHome, ftHold, noRoom, op, done, offAt, disk, index, info, reports, acked,
                     unsaved, behind, gone>>
  BY DEF ft_data_emergence
<1>2. ftHome' \in [Rep -> {"realtm", "delay"}] BY <1>1 DEF CacheInv, CTyped, Typed
<1> QED BY <1>1, <1>2, MemoryKept, QuietStep

LEMMA SaveAllStep == CacheInv /\ ft_cache_save_all => CacheInv'
<1> SUFFICES ASSUME CacheInv, ft_cache_save_all PROVE CacheInv' OBVIOUS
<1>1. /\ op = "none" /\ offAt = "none" /\ offAt' = "open"
      /\ UNCHANGED <<q, ftHome, ftHold, noRoom, op, done, disk, index, info, reports, acked,
                     unsaved, behind, gone>>
  BY DEF ft_cache_save_all
<1>2. ftHome' \in [Rep -> {"realtm", "delay"}] BY <1>1 DEF CacheInv, CTyped, Typed
<1> QED BY <1>1, <1>2, MemoryKept, QuietStep

\* the first report in flight is acknowledged
LEMMA AckStep == CacheInv /\ ft_data_ack_pack => CacheInv'
<1> SUFFICES ASSUME CacheInv, ft_data_ack_pack PROVE CacheInv' OBVIOUS
<1> DEFINE p == Head(q["trans"])
<1>1. /\ op = "none" /\ op' = "none" /\ q["trans"] # <<>> /\ acked' = acked \cup {p}
      /\ q' = [q EXCEPT !["trans"] = Tail(@)] /\ ftHome' = [ftHome EXCEPT ![p] = "delay"]
      /\ UNCHANGED <<ftHold, noRoom, done, offAt, disk, index, info, reports, unsaved, behind, gone>>
  BY DEF ft_data_ack_pack
<1>2. Typed(q, ftHome, ftHold, noRoom, disk, index, info, op, offAt, done, reports, acked)
  BY DEF CacheInv, CTyped
<1>3. q \in Memories /\ ftHold \in 0 .. MaxRep /\ ftHome \in [Rep -> {"realtm", "delay"}] /\ "trans" \in Lists
      /\ acked \in SUBSET Rep /\ index \in Indexes /\ noRoom \in Nat /\ reports \in Nat
  BY <1>2 DEF Typed, Lists
<1>4. Drops(q, ftHold, q', ftHold, p) BY <1>1, <1>3, HeadDrops
<1>5. q["trans"] \in Seq(Rep) /\ q'["trans"] = Tail(q["trans"]) BY <1>1, <1>3, UsedNat DEF Memories
<1>6. Size(q', "trans") <= Size(q, "trans")
  <2>1. Len(q'["trans"]) = Len(q["trans"]) - 1 BY <1>1, <1>5, TailRange
  <2>2. Len(q["trans"]) \in Nat BY <1>5
  <2> QED BY <2>1, <2>2 DEF Size
<1> HIDE DEF p
<1>7. CTyped'
  <2>1. q' \in Memories /\ p \in Rep BY <1>4 DEF Drops
  <2>2. ftHome' \in [Rep -> {"realtm", "delay"}] /\ acked' \in SUBSET Rep BY <1>1, <1>3, <2>1
  <2>3. Typed(q', ftHome', ftHold', noRoom', disk', index', info', op', offAt', done', reports', acked')
    BY <1>1, <1>2, <2>1, <2>2 DEF Typed
  <2> QED BY <2>3, CacheInvNext
<1>8. CCounted'
  <2>1. Counted(q, ftHold, noRoom, index, reports, done, op) BY DEF CacheInv, CCounted
  <2>2. Used(q', ftHold) + 1 = Used(q, ftHold) /\ Used(q', ftHold) \in Nat BY <1>3, <1>4, UsedNat DEF Drops
  <2>3. Ahead(index) \in Nat /\ Size(q', "trans") \in Nat /\ Size(q, "trans") \in Nat
    BY <1>3, <1>4, AheadIs, UsedNat DEF Drops
  <2>4. Size(q', "trans") <= InFlight BY <1>6, <2>1, <2>3, Sizes DEF Counted
  <2>5. Used(q', ftHold) + noRoom <= NBuf /\ Used(q', ftHold) + Ahead(index) < RingSize + reports
    BY <1>3, <2>1, <2>2, <2>3, Sizes DEF Counted
  <2>6. Counted(q', ftHold', noRoom', index', reports', done', op')
    BY <1>1, <2>1, <2>4, <2>5 DEF Counted
  <2> QED BY <2>6, CacheInvNext
<1>9. CPhased'
  <2>1. Phased(q', ftHold', index', done', op', offAt') BY <1>1 DEF Phased
  <2> QED BY <2>1, CacheInvNext
<1>10. CMarked'
  <2>1. Marked(index, info, op, offAt, done, unsaved, behind) BY DEF CacheInv, CMarked
  <2>2. Marked(index', info', op', offAt', done', unsaved', behind') BY <1>1, <2>1 DEF Marked, Pending
  <2> QED BY <2>2, CacheInvNext
<1>11. CSound'
  <2>1. Sound(q, ftHold, disk, index, info, op, acked, reports, behind, gone) BY DEF CacheInv, CSound
  <2>2. op \notin Loading BY <1>1 DEF Loading
  <2>3. Sound(q', ftHold, disk, index, info, op', acked \cup {p}, reports, behind, gone)
    BY <1>4, <2>1, <2>2, SoundLess
  <2>4. Sound(q', ftHold', disk', index', info', op', acked', reports', behind', gone')
    BY <1>1, <2>3
  <2> QED BY <2>4, CacheInvNext
<1> QED BY <1>7, <1>8, <1>9, <1>10, <1>11 DEF CacheInv

\* cache_data is opened, or cannot be and the indexes are perhaps reset: what is in
\* memory and on the card stays
LEMMA OpenStep ==
    ASSUME CacheInv, UNCHANGED <<q, ftHome, ftHold, noRoom, disk, info, reports, acked, behind>>,
           op' \in Ops, offAt' \in {"none", "open", "info"}, done' \in Nat,
           \/ UNCHANGED <<index, unsaved, gone>>
           \/ index' \in Indexes /\ index'.r = index'.w /\ unsaved' = TRUE /\ gone' = TRUE,
           op \notin Loading \/ Mem(q, ftHold) \subseteq Away(q) \/ op' \in Loading
    PROVE  /\ CTyped' /\ CSound' /\ Ahead(index') \in Nat /\ Ahead(index') <= Ahead(index)
           /\ unsaved' = TRUE => CMarked'
<1>1. Typed(q, ftHome, ftHold, noRoom, disk, index, info, op, offAt, done, reports, acked)
  BY DEF CacheInv, CTyped
<1>2. q \in Memories /\ ftHold \in 0 .. MaxRep /\ index \in Indexes BY <1>1 DEF Typed
<1>3. CTyped'
  <2>1. index' \in Indexes BY <1>2
  <2>2. Typed(q', ftHome', ftHold', noRoom', disk', index', info', op', offAt', done', reports', acked')
    BY <1>1, <2>1 DEF Typed
  <2> QED BY <2>2, CacheInvNext
<1>4. CSound'
  <2>1. Sound(q, ftHold, disk, index, info, op, acked, reports, behind, gone) BY DEF CacheInv, CSound
  <2>2. Same(q, ftHold, q, ftHold) BY <1>2, Itself
  <2>3. (index' = index /\ (~gone' => ~gone)) \/ (Between(index') = {} /\ gone') BY NothingBetween
  <2>4. Sound(q, ftHold, disk, index', info, op', acked, reports, behind, gone')
    BY <2>1, <2>2, <2>3, SoundSame
  <2>5. Sound(q', ftHold', disk', index', info', op', acked', reports', behind', gone') BY <2>4
  <2> QED BY <2>5, CacheInvNext
<1>5. Ahead(index') \in Nat /\ Ahead(index') <= Ahead(index)
  <2>1. Ahead(index) \in Nat BY <1>2, AheadIs
  <2>2. Ahead(index') = Ahead(index) \/ Ahead(index') = 0 BY NothingBetween
  <2> QED BY <2>1, <2>2
<1>6. ASSUME unsaved' = TRUE PROVE CMarked'
  <2>1. Marked(index', info', op', offAt', done', unsaved', behind') BY <1>6 DEF Marked
  <2> QED BY <2>1, CacheInvNext
<1> QED BY <1>3, <1>4, <1>5, <1>6

\* the numbers the steps on the card are about
LEMMA Numbers ==
    ASSUME CacheInv
    PROVE  /\ q \in Memories /\ ftHold \in 0 .. MaxRep /\ noRoom \in Nat /\ reports \in Nat /\ done \in Nat
           /\ index \in Indexes /\ info \in Indexes /\ Ahead(index) \in Nat
           /\ Size(q, "realtm") \in Nat /\ Size(q, "delay") \in Nat /\ Size(q, "trans") \in Nat
           /\ Size(q, "tmp") \in Nat
           /\ Used(q, ftHold) \in Nat /\ Listed(q) \in Nat /\ Count(ftHold) \in 0 .. 1
           /\ Listed(q) = Size(q, "realtm") + Size(q, "delay")
           /\ Used(q, ftHold) = Listed(q) + Size(q, "trans") + Size(q, "tmp") + Count(ftHold)
           /\ NFreeBuf = NBuf - (Used(q, ftHold) + noRoom)
<1>1. /\ q \in Memories /\ ftHold \in 0 .. MaxRep /\ noRoom \in Nat /\ reports \in Nat /\ done \in Nat
      /\ index \in Indexes /\ info \in Indexes
  BY DEF CacheInv, CTyped, Typed
<1>2. /\ Size(q, "realtm") \in Nat /\ Size(q, "delay") \in Nat /\ Size(q, "trans") \in Nat
      /\ Size(q, "tmp") \in Nat
      /\ Used(q, ftHold) \in Nat /\ Listed(q) \in Nat /\ Ahead(index) \in Nat
  BY <1>1, UsedNat, AheadIs DEF Lists
<1>3. Count(ftHold) \in 0 .. 1 BY DEF Count
<1>4. NFreeBuf = NBuf - (Used(q, ftHold) + noRoom) BY FreeIs DEF CacheInv
<1> QED BY <1>1, <1>2, <1>3, <1>4 DEF Listed, Used

LEMMA SaveOpensStep == CacheInv /\ CWarned /\ SaveOpens => CacheInv'
<1> SUFFICES ASSUME CacheInv, CWarned, SaveOpens PROVE CacheInv' OBVIOUS
<1>1. /\ op = "save" /\ op' \in {"saving", "record"}
      /\ \/ UNCHANGED <<index, unsaved, gone>>
         \/ op' = "record" /\ index' = Zero /\ unsaved' = TRUE /\ gone' = TRUE
      /\ UNCHANGED <<q, ftHome, ftHold, noRoom, done, offAt, disk, info, reports, acked, behind>>
  BY DEF SaveOpens, CannotSave
<1>2. Zero \in Indexes /\ Zero.r = Zero.w BY ZeroIs DEF Zero
<1>3. offAt' \in {"none", "open", "info"} /\ done' \in Nat /\ op' \in Ops /\ op \notin Loading
  BY <1>1 DEF CacheInv, CTyped, Typed, Ops, Loading
<1>4. /\ CTyped' /\ CSound' /\ Ahead(index') \in Nat /\ Ahead(index') <= Ahead(index)
      /\ unsaved' = TRUE => CMarked'
  BY <1>1, <1>2, <1>3, OpenStep
<1>5. Counted(q, ftHold, noRoom, index, reports, done, op) BY DEF CacheInv, CCounted
<1>6. done = 0 /\ reports < MaxRep BY <1>1, <1>5 DEF Counted
<1>7. CCounted'
  <2>1. Grade <= Listed(q)
    <3>1. Used(q, ftHold) + noRoom = NBuf /\ Size(q, "trans") <= InFlight BY <1>1, <1>5 DEF Counted
    <3>2. noRoom <= MaxNoRoom BY DEF CacheInv, CTyped, Typed
    <3>3. Size(q, "tmp") = 0 BY <1>1 DEF CWarned, Warned
    <3> QED BY <3>1, <3>2, <3>3, Numbers, Sizes
  <2>2. Used(q, ftHold) + Ahead(index') < RingSize + reports
    <3>1. Used(q, ftHold) + Ahead(index) < RingSize + reports BY <1>5 DEF Counted
    <3> QED BY <1>4, <3>1, Numbers, Sizes
  <2>3. 0 < Grade /\ Grade <= 0 + Listed(q) BY <2>1, Numbers, Sizes
  <2>4. Counted(q', ftHold', noRoom', index', reports', done', op')
    BY <1>1, <1>5, <1>6, <2>2, <2>3 DEF Counted
  <2> QED BY <2>4, CacheInvNext
<1>8. CPhased'
  <2>1. Phased(q', ftHold', index', done', op', offAt') BY <1>1 DEF Phased
  <2> QED BY <2>1, CacheInvNext
<1>9. CMarked'
  <2>1. Marked(index, info, op, offAt, done, unsaved, behind) BY DEF CacheInv, CMarked
  <2>2. CASE UNCHANGED <<index, unsaved, gone>>
    <3>1. Marked(index', info', op', offAt', done', unsaved', behind')
      BY <1>1, <1>6, <2>1, <2>2 DEF Marked, Pending
    <3> QED BY <3>1, CacheInvNext
  <2> QED BY <1>1, <1>4, <2>2
<1> QED BY <1>4, <1>7, <1>8, <1>9 DEF CacheInv

LEMMA SaveAllOpensStep == CacheInv /\ SaveAllOpens => CacheInv'
<1> SUFFICES ASSUME CacheInv, SaveAllOpens PROVE CacheInv' OBVIOUS
<1>1. /\ offAt = "open" /\ offAt' = "none"
      /\ UNCHANGED <<q, ftHome, ftHold, noRoom, disk, info, reports, acked, behind>>
      /\ \/ op = "none" /\ op' \in {"none", "savingall"} /\ done' = 0 /\ UNCHANGED <<index, unsaved, gone>>
         \/ UNCHANGED <<op, done, index, unsaved, gone>>
         \/ index' = Zero /\ unsaved' = TRUE /\ gone' = TRUE /\ UNCHANGED <<op, done>>
  BY DEF SaveAllOpens, CannotSave
<1>2. Zero \in Indexes /\ Zero.r = Zero.w BY ZeroIs DEF Zero
<1>3. op \notin {"load", "loading", "loadinfo", "pick"} BY <1>1 DEF CacheInv, CPhased, Phased
<1>4. done' \in Nat /\ op' \in Ops /\ op \notin Loading
  BY <1>1, <1>3 DEF CacheInv, CTyped, Typed, Ops, Loading
<1>5. /\ CTyped' /\ CSound' /\ Ahead(index') \in Nat /\ Ahead(index') <= Ahead(index)
      /\ unsaved' = TRUE => CMarked'
  BY <1>1, <1>2, <1>4, OpenStep
<1>6. Counted(q, ftHold, noRoom, index, reports, done, op) BY DEF CacheInv, CCounted
<1>7. CCounted'
  <2>1. Used(q, ftHold) + Ahead(index) < RingSize + reports BY <1>6 DEF Counted
  <2>2. Used(q, ftHold) + Ahead(index') < RingSize + reports BY <1>5, <2>1, Numbers, Sizes
  <2>3. 0 + Listed(q) <= RingSize + reports /\ 0 <= RingSize + reports BY <2>1, Numbers, Sizes
  <2>4. Counted(q', ftHold', noRoom', index', reports', done', op')
    BY <1>1, <1>3, <1>6, <2>2, <2>3 DEF Counted
  <2> QED BY <2>4, CacheInvNext
<1>8. CPhased'
  <2>1. Phased(q', ftHold', index', done', op', offAt') BY <1>1, <1>3 DEF Phased
  <2> QED BY <2>1, CacheInvNext
<1>9. CMarked'
  <2>1. Marked(index, info, op, offAt, done, unsaved, behind) BY DEF CacheInv, CMarked
  <2>2. CASE UNCHANGED <<index, unsaved, gone>>
    <3>1. Marked(index', info', op', offAt', done', unsaved', behind')
      BY <1>1, <2>1, <2>2 DEF Marked, Pending
    <3> QED BY <3>1, CacheInvNext
  <2> QED BY <1>1, <1>5, <2>2
<1> QED BY <1>5, <1>7, <1>8, <1>9 DEF CacheInv

LEMMA LoadOpensStep == CacheInv /\ LoadOpens => CacheInv'
<1> SUFFICES ASSUME CacheInv, LoadOpens PROVE CacheInv' OBVIOUS
<1>1. /\ op = "load"
      /\ UNCHANGED <<q, ftHome, ftHold, noRoom, done, offAt, disk, info, reports, acked, behind>>
      /\ \/ op' \in {"loading", "none"} /\ UNCHANGED <<index, unsaved, gone>>
         \/ op' = "none" /\ index' = [index EXCEPT !.r = index.w] /\ unsaved' = TRUE /\ gone' = TRUE
  BY DEF LoadOpens
<1>2. index \in Indexes BY DEF CacheInv, CTyped, Typed
<1>3. index' = index \/ (index' \in Indexes /\ index'.r = index'.w) BY <1>1, <1>2 DEF Indexes
<1>4. done' \in Nat /\ op' \in Ops /\ op \notin Loading /\ offAt' \in {"none", "open", "info"}
  BY <1>1 DEF CacheInv, CTyped, Typed, Ops, Loading
<1>5. \/ UNCHANGED <<index, unsaved, gone>>
      \/ index' \in Indexes /\ index'.r = index'.w /\ unsaved' = TRUE /\ gone' = TRUE
  BY <1>1, <1>2 DEF Indexes
<1>6. /\ CTyped' /\ CSound' /\ Ahead(index') \in Nat /\ Ahead(index') <= Ahead(index)
      /\ unsaved' = TRUE => CMarked'
  BY <1>1, <1>4, <1>5, OpenStep
<1>7. Counted(q, ftHold, noRoom, index, reports, done, op) BY DEF CacheInv, CCounted
<1>8. CCounted'
  <2>1. Used(q, ftHold) + Ahead(index) < RingSize + reports BY <1>7 DEF Counted
  <2>2. Used(q, ftHold) + Ahead(index') < RingSize + reports BY <1>6, <2>1, Numbers, Sizes
  <2>3. done = 0 /\ 0 < Grade BY <1>1, <1>7, Sizes DEF Counted
  <2>4. Counted(q', ftHold', noRoom', index', reports', done', op')
    BY <1>1, <1>7, <2>2, <2>3 DEF Counted
  <2> QED BY <2>4, CacheInvNext
<1>9. CPhased'
  <2>1. Phased(q, ftHold, index, done, op, offAt) BY DEF CacheInv, CPhased
  <2>2. Phased(q', ftHold', index', done', op', offAt') BY <1>1, <2>1 DEF Phased
  <2> QED BY <2>2, CacheInvNext
<1>10. CMarked'
  <2>1. Marked(index, info, op, offAt, done, unsaved, behind) BY DEF CacheInv, CMarked
  <2>2. CASE UNCHANGED <<index, unsaved, gone>>
    <3>0. done = 0 BY <1>1, <1>7 DEF Counted
    <3>1. Marked(index', info', op', offAt', done', unsaved', behind')
      BY <1>1, <2>1, <2>2, <3>0 DEF Marked, Pending
    <3> QED BY <3>1, CacheInvNext
  <2> QED BY <1>1, <1>6, <2>2
<1> QED BY <1>6, <1>8, <1>9, <1>10 DEF CacheInv

\* cache_info is written, not written, or damaged
LEMMA InfoStep ==
    ASSUME CacheInv, ft_cache_save_info, op' \in Ops, offAt' \in {offAt, "none"},
           UNCHANGED <<q, ftHome, ftHold, noRoom, done, disk, index, reports, acked, gone>>
    PROVE  CTyped' /\ CMarked' /\ CSound'
<1>1. Typed(q, ftHome, ftHold, noRoom, disk, index, info, op, offAt, done, reports, acked)
  BY DEF CacheInv, CTyped
<1>2. Sound(q, ftHold, disk, index, info, op, acked, reports, behind, gone) BY DEF CacheInv, CSound
<1>3. \/ info' = index /\ behind' = behind
      \/ info' \in {info, Zero} /\ behind' = TRUE
  BY DEF ft_cache_save_info
<1>4. CTyped'
  <2>1. info' \in Indexes BY <1>1, <1>3, ZeroIs DEF Typed
  <2>2. Typed(q', ftHome', ftHold', noRoom', disk', index', info', op', offAt', done', reports', acked')
    BY <1>1, <2>1 DEF Typed
  <2> QED BY <2>2, CacheInvNext
<1>5. CMarked'
  <2>1. Marked(index', info', op', offAt', done', unsaved', behind') BY <1>3 DEF Marked
  <2> QED BY <2>1, CacheInvNext
<1>6. CSound'
  <2>1. CASE info' = index /\ behind' = behind
    <3>1. Sound(q, ftHold, disk, index, index, op', acked, reports, behind, gone) BY <1>2, SoundSaved
    <3>2. Sound(q', ftHold', disk', index', info', op', acked', reports', behind', gone') BY <2>1, <3>1
    <3> QED BY <3>2, CacheInvNext
  <2>2. CASE info' \in {info, Zero} /\ behind' = TRUE
    <3>2. Sound(q, ftHold, disk, index, info', op', acked, reports, TRUE, gone)
      BY <1>2, SoundDamaged
    <3>3. Sound(q', ftHold', disk', index', info', op', acked', reports', behind', gone') BY <2>2, <3>2
    <3> QED BY <3>3, CacheInvNext
  <2> QED BY <1>3, <2>1, <2>2
<1> QED BY <1>4, <1>5, <1>6

LEMMA SaveInfoStep == CacheInv /\ SaveInfo => CacheInv'
<1> SUFFICES ASSUME CacheInv, SaveInfo PROVE CacheInv' OBVIOUS
<1>1. /\ op \in {"saveinfo", "loadinfo"} /\ op' = IF op = "saveinfo" THEN "record" ELSE "pick"
      /\ ft_cache_save_info
      /\ UNCHANGED <<q, ftHome, ftHold, noRoom, done, offAt, disk, index, reports, acked, gone>>
  BY DEF SaveInfo, SaveInfoOps
<1>2. op' \in Ops BY <1>1 DEF Ops
<1>3. CTyped' /\ CMarked' /\ CSound' BY <1>1, <1>2, InfoStep
<1>4. CCounted'
  <2>1. Counted(q, ftHold, noRoom, index, reports, done, op) BY DEF CacheInv, CCounted
  <2>2. Counted(q', ftHold', noRoom', index', reports', done', op') BY <1>1, <2>1 DEF Counted
  <2> QED BY <2>2, CacheInvNext
<1>5. CPhased'
  <2>1. Phased(q, ftHold, index, done, op, offAt) BY DEF CacheInv, CPhased
  <2>2. Phased(q', ftHold', index', done', op', offAt') BY <1>1, <2>1 DEF Phased
  <2> QED BY <2>2, CacheInvNext
<1> QED BY <1>3, <1>4, <1>5 DEF CacheInv

LEMMA SaveAllInfoStep == CacheInv /\ SaveAllInfo => CacheInv'
<1> SUFFICES ASSUME CacheInv, SaveAllInfo PROVE CacheInv' OBVIOUS
<1>1. /\ offAt = "info" /\ offAt' = "none" /\ ft_cache_save_info
      /\ UNCHANGED <<q, ftHome, ftHold, noRoom, op, done, disk, index, reports, acked, gone>>
  BY DEF SaveAllInfo
<1>2. op' \in Ops BY <1>1 DEF CacheInv, CTyped, Typed
<1>3. CTyped' /\ CMarked' /\ CSound' BY <1>1, <1>2, InfoStep
<1>4. CCounted'
  <2>1. Counted(q, ftHold, noRoom, index, reports, done, op) BY DEF CacheInv, CCounted
  <2>2. Counted(q', ftHold', noRoom', index', reports', done', op') BY <1>1, <2>1
  <2> QED BY <2>2, CacheInvNext
<1>5. CPhased'
  <2>1. Phased(q, ftHold, index, done, op, offAt) BY DEF CacheInv, CPhased
  <2>2. Phased(q', ftHold', index', done', op', offAt') BY <1>1, <2>1 DEF Phased
  <2> QED BY <2>2, CacheInvNext
<1> QED BY <1>3, <1>4, <1>5 DEF CacheInv

\* power is cut and the program starts again
LEMMA PowerCutStep == CacheInv /\ PowerCut => CacheInv'
<1> SUFFICES ASSUME CacheInv, PowerCut PROVE CacheInv' OBVIOUS
<1>1. /\ \/ info' \in {info, Zero} /\ behind' = behind
         \/ info' \in Indexes /\ behind' = TRUE
      /\ index' = info'
      /\ q' = [l \in DOMAIN q |-> <<>>] /\ ftHome' = [n \in Rep |-> "delay"]
      /\ ftHold' = 0 /\ noRoom' = 0 /\ op' = "none" /\ done' = 0 /\ offAt' = "none"
      /\ unsaved' = FALSE /\ gone' = TRUE /\ UNCHANGED <<disk, reports, acked>>
  BY DEF PowerCut, Indexes
<1>2. Typed(q, ftHome, ftHold, noRoom, disk, index, info, op, offAt, done, reports, acked)
  BY DEF CacheInv, CTyped
<1>3. q' \in Memories /\ \A l \in Lists : q'[l] = <<>>
  <2>1. DOMAIN q = Lists BY <1>2 DEF Typed, Memories
  <2>2. q' = [l \in Lists |-> <<>>] BY <1>1, <2>1
  <2> QED BY <2>2, EmptyRange DEF Memories
<1>4. info' \in Indexes BY <1>1, <1>2, ZeroIs DEF Typed
<1>5. CTyped'
  <2>1. 0 \in 0 .. MaxRep /\ 0 \in 0 .. MaxNoRoom BY Sizes
  <2>2. Typed(q', ftHome', ftHold', noRoom', disk', index', info', op', offAt', done', reports', acked')
    BY <1>1, <1>2, <1>3, <1>4, <2>1 DEF Typed, Ops
  <2> QED BY <2>2, CacheInvNext
<1>6. CCounted'
  <2>1. /\ Size(q', "realtm") = 0 /\ Size(q', "delay") = 0
        /\ Size(q', "trans") = 0 /\ Size(q', "tmp") = 0
    BY <1>3 DEF Size, Lists
  <2>2. Used(q', 0) = 0 BY <2>1, CountIs DEF Used, Listed
  <2>3. Ahead(index') \in Nat /\ Ahead(index') <= RingSize - 1 BY <1>1, <1>4, AheadIs
  <2>4. reports \in Nat BY <1>2 DEF Typed
  <2>5. 0 + Ahead(index') < RingSize + reports /\ 0 <= RingSize + reports /\ 0 + 0 <= NBuf /\ 0 <= InFlight
    BY <2>3, <2>4, Sizes
  <2>6. Counted(q', ftHold', noRoom', index', reports', done', op')
    BY <1>1, <2>1, <2>2, <2>5 DEF Counted
  <2> QED BY <2>6, CacheInvNext
<1>7. CPhased'
  <2>1. Phased(q', ftHold', index', done', op', offAt') BY <1>1 DEF Phased
  <2> QED BY <2>1, CacheInvNext
<1>8. CMarked'
  <2>1. Marked(index', info', op', offAt', done', unsaved', behind') BY <1>1 DEF Marked
  <2> QED BY <2>1, CacheInvNext
<1>9. CSound'
  <2>1. Sound(q, ftHold, disk, index, info, op, acked, reports, behind, gone) BY DEF CacheInv, CSound
  <2>4. Sound(q', ftHold', disk', index', info', op', acked', reports', behind', gone')
    <3>1. CASE info' \in {info, Zero} /\ behind' = behind
      <4>1. Between(info') \subseteq Between(info) BY <3>1, ZeroIs
      <4>2. Sound(q', 0, disk, info', info', op', acked, reports, behind, TRUE)
        BY <1>3, <2>1, <4>1, SoundCut
      <4> QED BY <1>1, <3>1, <4>2
    <3>2. CASE behind' = TRUE
      <4>1. Sound(q', 0, disk, info', info', op', acked, reports, TRUE, TRUE)
        BY <1>3, <2>1, SoundBehind
      <4> QED BY <1>1, <3>2, <4>1
    <3> QED BY <1>1, <3>1, <3>2
  <2> QED BY <2>4, CacheInvNext
<1> QED BY <1>5, <1>6, <1>7, <1>8, <1>9 DEF CacheInv

\* the oldest report leaves its list
LEMMA OldestDrops ==
    ASSUME CacheInv, ~NoOldest
    PROVE  /\ Drops(q, ftHold, Saved, ftHold, Head(q[OldestIn]))
           /\ Size(Saved, "trans") = Size(q, "trans") /\ Listed(Saved) + 1 = Listed(q) /\ Listed(Saved) \in Nat
<1> DEFINE l == OldestIn
<1>1. q \in Memories /\ ftHold \in 0 .. MaxRep /\ ftHold \in Int BY DEF CacheInv, CTyped, Typed
<1>2. l \in {"realtm", "delay"} /\ l \in Lists /\ q[l] # <<>> BY DEF OldestIn, NoOldest, Lists
<1>3. Saved = [q EXCEPT ![l] = Tail(@)] BY DEF Saved
<1> HIDE DEF l
<1>4. Drops(q, ftHold, Saved, ftHold, Head(q[l])) BY <1>1, <1>2, <1>3, HeadDrops
<1>5. Saved["trans"] = q["trans"] BY <1>1, <1>2, <1>3 DEF Memories, Lists
<1>6. Saved \in Memories /\ Used(Saved, ftHold) + 1 = Used(q, ftHold) BY <1>4 DEF Drops
<1>7. Size(Saved, "trans") = Size(q, "trans") /\ Size(Saved, "tmp") = Size(q, "tmp")
  <2>1. Saved["tmp"] = q["tmp"] BY <1>1, <1>2, <1>3 DEF Memories, Lists
  <2> QED BY <1>5, <2>1 DEF Size
<1>8. /\ Listed(Saved) \in Nat /\ Listed(q) \in Nat /\ Size(q, "trans") \in Nat /\ Size(q, "tmp") \in Nat
      /\ Count(ftHold) \in Nat
  BY <1>1, <1>6, UsedNat, CountIs DEF Lists
<1>9. Listed(Saved) + 1 = Listed(q) BY <1>6, <1>7, <1>8 DEF Used
<1> QED BY <1>4, <1>7, <1>8, <1>9 DEF l

LEMMA SavePackStep == CacheInv /\ SavePack => CacheInv'
<1> SUFFICES ASSUME CacheInv, SavePack PROVE CacheInv' OBVIOUS
<1> DEFINE p == Head(q[OldestIn])
<1>1. /\ op \in {"saving", "savingall"} /\ ~NoOldest
      /\ UNCHANGED <<ftHold, noRoom, info, reports, acked, behind>>
  BY DEF SavePack
<1>2. Typed(q, ftHome, ftHold, noRoom, disk, index, info, op, offAt, done, reports, acked)
  BY DEF CacheInv, CTyped
<1>3. Counted(q, ftHold, noRoom, index, reports, done, op) BY DEF CacheInv, CCounted
<1>4. Sound(q, ftHold, disk, index, info, op, acked, reports, behind, gone) BY DEF CacheInv, CSound
<1>5. op \notin Loading BY <1>1 DEF Loading
<1>6. /\ Drops(q, ftHold, Saved, ftHold, p)
      /\ Size(Saved, "trans") = Size(q, "trans") /\ Listed(Saved) + 1 = Listed(q) /\ Listed(Saved) \in Nat
  BY <1>1, OldestDrops
<1>7. Saved \in Memories /\ p \in Rep /\ Used(Saved, ftHold) + 1 = Used(q, ftHold) BY <1>6 DEF Drops
<1>8. /\ q \in Memories /\ ftHold \in 0 .. MaxRep /\ noRoom \in Nat /\ reports \in Nat /\ done \in Nat
      /\ index \in Indexes /\ info \in Indexes /\ Ahead(index) \in Nat
      /\ Used(q, ftHold) \in Nat /\ Listed(q) \in Nat
  BY Numbers
<1>9. /\ Size(q, "trans") <= InFlight /\ Used(q, ftHold) + noRoom <= NBuf
      /\ Used(q, ftHold) + Ahead(index) < RingSize + reports
      /\ done + Listed(q) <= RingSize + reports
      /\ op = "saving" => done < Grade /\ Grade <= done + Listed(q) /\ reports < MaxRep
  BY <1>1, <1>3 DEF Counted
<1>10. Used(Saved, ftHold) \in Nat BY <1>7, <1>8, UsedNat
<1>11. CASE /\ disk' = [disk EXCEPT ![index.w] = p]
            /\ q' = Saved /\ ftHome' = [ftHome EXCEPT ![p] = "delay"]
            /\ index' = PastWrite /\ done' = done + 1
            /\ gone' = (gone \/ index.r = Step(index.w))
            /\ IF IF op = "saving" THEN done' = Grade ELSE q'.delay \o q'.realtm = <<>>
               THEN EndSaving(done') ELSE UNCHANGED <<op, offAt>>
            /\ UNCHANGED unsaved
  <2>0. done' = done + 1 BY <1>11
  <2>1. done' > 0 BY <1>8, <2>0
  <2>2. \/ op' = "none" /\ offAt' = "info"
        \/ op = "saving" /\ op' = "saveinfo" /\ offAt' = offAt
        \/ op' = op /\ offAt' = offAt /\ (op = "saving" => done' # Grade)
    BY <1>1, <1>11, <2>1 DEF EndSaving
  <2> DEFINE y == Saved
             j == Past(index)
  <2>3. index' = j BY <1>11 DEF PastWrite, Past
  <2>4. j \in Indexes /\ Ahead(j) <= Ahead(index) + 1 BY <1>8, WriteMoves DEF Past
  <2>5. Sound(y, ftHold, disk', j, info, op', acked, reports, behind, gone')
    <3>1. disk \in [Ring -> 0 .. MaxRep] BY <1>2 DEF Typed
    <3>2. ~gone' => ~gone /\ index.r # Step(index.w) BY <1>11
    <3>3. disk' = Put(disk, index, p) BY <1>11 DEF Put
    <3>5. Drops(q, ftHold, y, ftHold, p) /\ index \in Indexes /\ info \in Indexes /\ reports \in Nat
      BY <1>6, <1>8
    <3> HIDE DEF p, y
    <3>6. Sound(y, ftHold, Put(disk, index, p), Past(index), info, op', acked, reports, behind, gone')
      BY <1>4, <1>5, <3>1, <3>2, <3>5, SoundWrite
    <3> QED BY <3>3, <3>6
  <2>6. CSound'
    <3>1. Sound(q', ftHold', disk', index', info', op', acked', reports', behind', gone')
      BY <1>1, <1>11, <2>3, <2>5
    <3> QED BY <3>1, CacheInvNext
  <2> HIDE DEF p, j
  <2>7. CTyped'
    <3>1. ftHome' \in [Rep -> {"realtm", "delay"}] BY <1>2, <1>11 DEF Typed
    <3>2. p \in 0 .. MaxRep BY <1>7 DEF Rep
    <3>3. disk' \in [Ring -> 0 .. MaxRep] BY <1>2, <1>11, <3>2 DEF Typed
    <3>4. op' \in Ops /\ offAt' \in {"none", "open", "info"} BY <1>2, <2>2 DEF Typed, Ops
    <3>5. done' \in Nat BY <1>8, <1>11
    <3>6. Typed(q', ftHome', ftHold', noRoom', disk', index', info', op', offAt', done', reports', acked')
      BY <1>1, <1>2, <1>7, <1>11, <2>3, <2>4, <3>1, <3>3, <3>4, <3>5 DEF Typed
    <3> QED BY <3>6, CacheInvNext
  <2>8. CCounted'
    <3>1. Ahead(j) \in Nat BY <2>4, AheadIs
    <3>2. Used(y, ftHold) + noRoom <= NBuf BY <1>7, <1>8, <1>9, <1>10, Sizes
    <3>3. Used(y, ftHold) + Ahead(j) < RingSize + reports BY <1>7, <1>8, <1>9, <1>10, <2>4, <3>1, Sizes
    <3>4. done' <= RingSize + reports /\ done' + Listed(y) <= RingSize + reports
      BY <1>6, <1>8, <1>9, <2>0, Sizes
    <3>5. op' = "saving" => done' < Grade /\ Grade <= done' + Listed(y)
      <4>1. op' = "saving" => op = "saving" /\ done' # Grade BY <2>2
      <4> QED BY <1>6, <1>8, <1>9, <2>0, <4>1, Sizes
    <3>6. op' \in {"saving", "saveinfo"} => reports < MaxRep BY <1>1, <1>9, <2>2
    <3>7. op' \in {"none", "saving", "saveinfo", "savingall"} BY <1>1, <2>2
    <3> HIDE DEF y
    <3>8. Counted(y, ftHold, noRoom, j, reports, done', op')
      <4>1. Size(y, "trans") <= InFlight BY <1>6, <1>9 DEF y
      <4> QED BY <3>2, <3>3, <3>4, <3>5, <3>6, <3>7, <4>1 DEF Counted
    <3>9. Counted(q', ftHold', noRoom', index', reports', done', op') BY <1>1, <1>11, <2>3, <3>8 DEF y
    <3> QED BY <3>9, CacheInvNext
  <2>9. CPhased'
    <3>1. op' \in {"none", "saving", "saveinfo", "savingall"} BY <1>1, <2>2
    <3>2. Phased(q', ftHold', index', done', op', offAt') BY <3>1 DEF Phased
    <3> QED BY <3>2, CacheInvNext
  <2>10. CMarked'
    <3>1. Pending(op', offAt', done') BY <1>1, <2>1, <2>2 DEF Pending
    <3>2. Marked(index', info', op', offAt', done', unsaved', behind') BY <3>1 DEF Marked
    <3> QED BY <3>2, CacheInvNext
  <2> QED BY <2>6, <2>7, <2>8, <2>9, <2>10 DEF CacheInv
<1>12. CASE /\ q' = [Saved EXCEPT ![ftHome[p]] = Append(@, p)]
            /\ index' = Zero /\ unsaved' = TRUE /\ gone' = TRUE
            /\ EndSaving(done)
            /\ UNCHANGED <<ftHome, done, disk>>
  <2> DEFINE l == ftHome[p]
  <2>1. l \in {"realtm", "delay"} /\ l \in Lists BY <1>2, <1>7 DEF Typed, Lists
  <2>2. q' = [Saved EXCEPT ![l] = Append(@, p)] BY <1>12
  <2> HIDE DEF p, l
  <2>3. Adds(Saved, ftHold, q', ftHold, p) BY <1>7, <1>8, <2>1, <2>2, AppendAdds
  <2>4. Same(q, ftHold, q', ftHold) BY <1>6, <1>8, <2>3, DropAdd
  <2>5. q'["trans"] = Saved["trans"] BY <1>7, <2>1, <2>2 DEF Memories, Lists
  <2>6. Size(q', "trans") <= InFlight BY <1>6, <1>9, <2>5 DEF Size
  <2>7. \/ op' = "none" /\ offAt' \in {"info", offAt}
        \/ op = "saving" /\ op' \in {"saveinfo", "record"} /\ offAt' = offAt
    BY <1>1, <1>12 DEF EndSaving
  <2>8. Zero \in Indexes /\ Between(Zero) = {} /\ Ahead(Zero) = 0 BY ZeroIs
  <2>9. q' \in Memories /\ Used(q', ftHold) = Used(q, ftHold) BY <2>4 DEF Same
  <2>10. CTyped'
    <3>1. Typed(q', ftHome', ftHold', noRoom', disk', index', info', op', offAt', done', reports', acked')
      BY <1>1, <1>2, <1>12, <2>7, <2>8, <2>9 DEF Typed, Ops
    <3> QED BY <3>1, CacheInvNext
  <2>11. CCounted'
    <3>1. /\ Used(q', ftHold) + noRoom <= NBuf /\ Used(q', ftHold) + 0 < RingSize + reports
          /\ done <= RingSize + reports
      BY <1>8, <1>9, <2>9, Sizes
    <3>2. op' \in {"saveinfo", "record"} => reports < MaxRep BY <1>9, <2>7
    <3>3. op' \in {"none", "saveinfo", "record"} BY <2>7
    <3>4. Counted(q', ftHold, noRoom, Zero, reports, done, op')
      BY <2>6, <2>8, <3>1, <3>2, <3>3 DEF Counted
    <3>5. Counted(q', ftHold', noRoom', index', reports', done', op') BY <1>1, <1>12, <3>4
    <3> QED BY <3>5, CacheInvNext
  <2>12. CPhased'
    <3>1. Phased(q', ftHold', index', done', op', offAt') BY <2>7 DEF Phased
    <3> QED BY <3>1, CacheInvNext
  <2>13. CMarked'
    <3>1. Marked(index', info', op', offAt', done', unsaved', behind') BY <1>12 DEF Marked
    <3> QED BY <3>1, CacheInvNext
  <2>14. CSound'
    <3>1. Sound(q', ftHold, disk, Zero, info, op', acked, reports, behind, TRUE)
      BY <1>4, <1>5, <2>4, <2>8, SoundSame
    <3>2. Sound(q', ftHold', disk', index', info', op', acked', reports', behind', gone')
      BY <1>1, <1>12, <3>1
    <3> QED BY <3>2, CacheInvNext
  <2> QED BY <2>10, <2>11, <2>12, <2>13, <2>14 DEF CacheInv
<1> QED BY <1>11, <1>12 DEF SavePack

LEMMA LoadPackStep == CacheInv /\ LoadPack => CacheInv'
<1> SUFFICES ASSUME CacheInv, LoadPack PROVE CacheInv' OBVIOUS
<1>1. /\ op = "loading" /\ NFreeBuf > 0
      /\ UNCHANGED <<ftHome, ftHold, noRoom, offAt, disk, info, reports, acked, behind>>
  BY DEF LoadPack
<1>2. Typed(q, ftHome, ftHold, noRoom, disk, index, info, op, offAt, done, reports, acked)
  BY DEF CacheInv, CTyped
<1>3. Counted(q, ftHold, noRoom, index, reports, done, op) BY DEF CacheInv, CCounted
<1>4. Sound(q, ftHold, disk, index, info, op, acked, reports, behind, gone) BY DEF CacheInv, CSound
<1>5. /\ offAt = "none" /\ ftHold = 0 /\ q["realtm"] = <<>> /\ index.r # index.w /\ Size(q, "delay") = done
  BY <1>1 DEF CacheInv, CPhased, Phased
<1>6. /\ q \in Memories /\ ftHold \in 0 .. MaxRep /\ noRoom \in Nat /\ reports \in Nat /\ done \in Nat
      /\ index \in Indexes /\ Ahead(index) \in Nat /\ Used(q, ftHold) \in Nat
      /\ NFreeBuf = NBuf - (Used(q, ftHold) + noRoom)
  BY Numbers
<1>7. /\ Size(q, "trans") <= InFlight /\ Used(q, ftHold) + noRoom <= NBuf
      /\ Used(q, ftHold) + Ahead(index) < RingSize + reports
      /\ done <= RingSize + reports /\ done < Grade
  BY <1>1, <1>3 DEF Counted
<1>8. CASE /\ disk[index.r] # 0
           /\ q' = [q EXCEPT !["delay"] = Append(@, disk[index.r])]
           /\ index' = [index EXCEPT !.r = Step(@)] /\ done' = done + 1
           /\ IF done' = Grade \/ index'.r = index'.w THEN EndLoading(done') ELSE UNCHANGED op
           /\ UNCHANGED <<unsaved, gone>>
  <2> DEFINE p == disk[index.r]
  <2>1. done' = done + 1 /\ done' > 0 BY <1>6, <1>8
  <2>2. \/ op' = "loadinfo"
        \/ op' = "loading" /\ done' # Grade /\ index'.r # index'.w
    BY <1>1, <1>8, <2>1 DEF EndLoading
  <2>3. p \in Rep
    <3>1. index.r \in Ring BY <1>6 DEF Indexes
    <3>2. p \in 0 .. MaxRep BY <1>2, <3>1 DEF Typed
    <3> QED BY <1>8, <3>2 DEF Rep
  <2>4. q' = [q EXCEPT !["delay"] = Append(@, p)] BY <1>8
  <2>5. Adds(q, ftHold, q', ftHold, p) BY <1>6, <2>3, <2>4, AppendAdds DEF Lists
  <2>6. q' \in Memories /\ Used(q', ftHold) = Used(q, ftHold) + 1 BY <2>5 DEF Adds
  <2>7. /\ q'["trans"] = q["trans"] /\ q'["realtm"] = q["realtm"] /\ q'["delay"] = Append(q["delay"], p)
        /\ q'["tmp"] = q["tmp"]
    BY <1>6, <2>4 DEF Memories, Lists
  <2>8. index' \in Indexes /\ Ahead(index') + 1 = Ahead(index) BY <1>5, <1>6, <1>8, ReadMoves
  <2>9. Size(q', "delay") = done'
    <3>1. q["delay"] \in Seq(Rep) BY <1>6, UsedNat
    <3>2. Size(q', "delay") = Size(q, "delay") + 1 BY <2>3, <2>7, <3>1, AppendRange DEF Size
    <3> QED BY <1>5, <2>1, <3>2
  <2>10. CTyped'
    <3>1. op' \in Ops /\ done' \in Nat BY <1>6, <2>1, <2>2 DEF Ops
    <3>2. Typed(q', ftHome', ftHold', noRoom', disk', index', info', op', offAt', done', reports', acked')
      BY <1>1, <1>2, <2>6, <2>8, <3>1 DEF Typed
    <3> QED BY <3>2, CacheInvNext
  <2>11. CCounted'
    <3>1. Ahead(index') \in Nat BY <2>8, AheadIs
    <3>2. Used(q', ftHold) + noRoom <= NBuf BY <1>1, <1>6, <2>6, Sizes
    <3>3. Used(q', ftHold) + Ahead(index') < RingSize + reports BY <1>6, <1>7, <2>6, <2>8, <3>1, Sizes
    <3>4. done' <= RingSize + reports
      <4>1. /\ Size(q', "realtm") \in Nat /\ Size(q', "delay") \in Nat /\ Size(q', "trans") \in Nat
            /\ Size(q', "tmp") \in Nat /\ Count(ftHold) \in Nat
        BY <1>6, <2>6, UsedNat, CountIs DEF Lists
      <4>2. Size(q', "delay") <= Used(q', ftHold) BY <4>1 DEF Used, Listed
      <4>3. Used(q', ftHold) \in Nat /\ done' \in Nat BY <1>6, <2>1, <2>6
      <4> QED BY <1>6, <2>9, <3>1, <3>3, <4>2, <4>3, Sizes
    <3>5. op' = "loading" => done' < Grade BY <1>6, <1>7, <2>1, <2>2, Sizes
    <3>6. Size(q', "trans") <= InFlight BY <1>7, <2>7 DEF Size
    <3>7. Counted(q', ftHold, noRoom, index', reports, done', op')
      BY <2>2, <3>2, <3>3, <3>4, <3>5, <3>6 DEF Counted
    <3>8. Counted(q', ftHold', noRoom', index', reports', done', op') BY <1>1, <3>7
    <3> QED BY <3>8, CacheInvNext
  <2>12. CPhased'
    <3>1. Phased(q', ftHold', index', done', op', offAt') BY <1>1, <1>5, <2>2, <2>7, <2>9 DEF Phased
    <3> QED BY <3>1, CacheInvNext
  <2>13. CMarked'
    <3>1. Pending(op', offAt', done') BY <2>1, <2>2 DEF Pending
    <3>2. Marked(index', info', op', offAt', done', unsaved', behind') BY <3>1 DEF Marked
    <3> QED BY <3>2, CacheInvNext
  <2>14. CSound'
    <3>1. op' \in Loading BY <2>2 DEF Loading
    <3>2. Adds(q, ftHold, q', ftHold, disk[index.r]) BY <2>5
    <3>3. index' = [index EXCEPT !.r = Step(@)] /\ disk[index.r] # 0 BY <1>8
    <3>0. Away(q') = Away(q) BY <2>7 DEF Away
    <3>4. Sound(q', ftHold, disk, index', info, op', acked, reports, behind, gone)
      BY <1>4, <1>5, <1>6, <3>0, <3>1, <3>2, <3>3, SoundRead
    <3>5. Sound(q', ftHold', disk', index', info', op', acked', reports', behind', gone')
      BY <1>1, <1>8, <3>4
    <3> QED BY <3>5, CacheInvNext
  <2> QED BY <2>10, <2>11, <2>12, <2>13, <2>14 DEF CacheInv
<1>9. CASE /\ index' = Zero /\ unsaved' = TRUE /\ gone' = TRUE /\ EndLoading(done) /\ UNCHANGED <<q, done>>
  <2>1. (op' = "loadinfo" /\ done > 0) \/ (op' = "pick" /\ done = 0) BY <1>6, <1>9 DEF EndLoading
  <2>2. Zero \in Indexes /\ Zero.r = Zero.w BY ZeroIs DEF Zero
  <2>3. op' = "pick" => Mem(q, ftHold) \subseteq Away(q)
    <3>1. q["delay"] \in Seq(Rep) BY <1>6, UsedNat
    <3>2. op' = "pick" => q["delay"] = <<>> BY <1>5, <2>1, <3>1 DEF Size
    <3>3. Range(<<>>) = {} /\ Held(ftHold) = {} BY <1>5, EmptyRange DEF Held
    <3> QED BY <1>5, <3>2, <3>3, ByName DEF Away
  <2>4. op' \in Ops /\ done' \in Nat /\ offAt' \in {"none", "open", "info"}
    BY <1>1, <1>5, <1>6, <1>9, <2>1 DEF Ops
  <2>5. op' \in Loading \/ Mem(q, ftHold) \subseteq Away(q) BY <2>1, <2>3 DEF Loading
  <2>6. /\ CTyped' /\ CSound' /\ Ahead(index') \in Nat /\ Ahead(index') <= Ahead(index)
        /\ unsaved' = TRUE => CMarked'
    BY <1>1, <1>9, <2>2, <2>4, <2>5, OpenStep
  <2>7. CCounted'
    <3>1. Used(q, ftHold) + Ahead(index') < RingSize + reports BY <1>6, <1>7, <2>6, Sizes
    <3>2. Counted(q', ftHold', noRoom', index', reports', done', op')
      BY <1>1, <1>7, <1>9, <2>1, <3>1 DEF Counted
    <3> QED BY <3>2, CacheInvNext
  <2>8. CPhased'
    <3>1. Phased(q', ftHold', index', done', op', offAt') BY <1>1, <1>5, <1>9, <2>1 DEF Phased
    <3> QED BY <3>1, CacheInvNext
  <2> QED BY <1>9, <2>6, <2>7, <2>8 DEF CacheInv
<1> QED BY <1>8, <1>9 DEF LoadPack

-----------------------------------------------------------------------------
(* The steps and the warnings.                                             *)

CanOps == {"save", "saving", "saveinfo", "record"}

\* a step that is none of a warning's
LEMMA WarnedSame ==
    ASSUME CWarned, q'["tmp"] = q["tmp"], UNCHANGED <<errs, reports>>, op' \in CanOps => op \in CanOps
    PROVE  CWarned'
<1>1. Size(q', "tmp") = Size(q, "tmp") BY DEF Size
<1>2. Warned(q, errs, reports, op) BY DEF CWarned
<1>3. Warned(q', errs', reports', op') BY <1>1, <1>2 DEF Warned, CanOps
<1> QED BY <1>3, WarnedNext

\* the buffer that a new report takes is none of tmplst
LEMMA TakenTmp ==
    ASSUME CacheInv, ~NoBuffer
    PROVE  BufferTaken \in Memories /\ BufferTaken["tmp"] = q["tmp"]
<1>1. q \in Memories BY DEF CacheInv, CTyped, Typed
<1>2. CASE NFreeBuf > 0 BY <1>1, <1>2 DEF BufferTaken
<1>3. CASE ~(NFreeBuf > 0)
  <2>1. NFreeBuf = 0
    <3>1. Used(q, ftHold) + noRoom <= NBuf BY DEF CacheInv, CCounted, Counted
    <3> QED BY <1>3, <3>1, Numbers, Sizes
  <2> DEFINE l == OldestIn
  <2>2. l \in {"realtm", "delay"} /\ q[l] # <<>> BY <2>1 DEF OldestIn, NoOldest, NoBuffer
  <2>3. BufferTaken = [q EXCEPT ![l] = Tail(@)] BY <1>3 DEF BufferTaken
  <2> HIDE DEF l
  <2>4. q[l] \in Seq(Rep) BY <1>1, <2>2 DEF Memories, Lists
  <2>5. Tail(q[l]) \in Seq(Rep) BY <2>2, <2>4, TailRange
  <2> QED BY <1>1, <2>2, <2>3, <2>5 DEF Memories, Lists
<1> QED BY <1>2, <1>3

\* the steps that leave tmplst alone
LEMMA TmpKept ==
    ASSUME CacheInv,
           \/ ft_data_flush_realtm \/ SavePack \/ LoadPack \/ ft_data_get_pack \/ Pick
           \/ ft_do_report \/ ft_data_ack_pack \/ ft_data_flush_sending
    PROVE  /\ q'["tmp"] = q["tmp"] /\ UNCHANGED <<errs, reports>>
           /\ op' \in CanOps => op \in CanOps
<1>1. q \in Memories /\ ftHome \in [Rep -> {"realtm", "delay"}] /\ ftHold \in 0 .. MaxRep
  BY DEF CacheInv, CTyped, Typed
<1>2. PickDelayed => q'["tmp"] = q["tmp"] BY <1>1 DEF PickDelayed, Memories, Lists
<1>3. CASE ft_data_flush_realtm
  BY <1>1, <1>3 DEF ft_data_flush_realtm, Memories, Lists, histVars
<1>4. CASE SavePack
  <2> DEFINE p == Head(q[OldestIn])
  <2>1. op \in {"saving", "savingall"} /\ UNCHANGED <<errs, reports>> BY <1>4 DEF SavePack
  <2>2. op' \in CanOps => op \in CanOps BY <1>4 DEF SavePack, EndSaving, CanOps
  <2>3. ~NoOldest BY <1>4 DEF SavePack
  <2>4. Saved \in Memories /\ p \in Rep BY <2>3, OldestDrops DEF Drops
  <2>5. Saved["tmp"] = q["tmp"]
    <3>1. OldestIn \in {"realtm", "delay"} BY DEF OldestIn
    <3> QED BY <1>1, <3>1 DEF Saved, Memories, Lists
  <2>6. q' = Saved \/ q' = [Saved EXCEPT ![ftHome[p]] = Append(@, p)] BY <1>4, Zenon DEF SavePack
  <2> HIDE DEF p
  <2>7. ftHome[p] \in {"realtm", "delay"} BY <1>1, <2>4
  <2>8. q'["tmp"] = q["tmp"] BY <2>4, <2>5, <2>6, <2>7 DEF Memories, Lists
  <2> QED BY <2>1, <2>2, <2>8
<1>5. CASE LoadPack
  BY <1>1, <1>5 DEF LoadPack, EndLoading, CanOps, Memories, Lists
<1>6. CASE ft_data_get_pack
  <2>1. UNCHANGED <<errs, reports>> /\ op' \in {op, "load"} BY <1>6 DEF ft_data_get_pack, histVars
  <2>2. q'["tmp"] = q["tmp"] BY <1>1, <1>2, <1>6 DEF ft_data_get_pack, Memories, Lists
  <2> QED BY <2>1, <2>2 DEF CanOps
<1>7. CASE Pick
  BY <1>2, <1>7 DEF Pick, histVars, CanOps
<1>8. CASE ft_do_report
  <2>1. ftHold # 0 /\ UNCHANGED <<errs, reports, op>> BY <1>8 DEF ft_do_report
  <2>2. ftHome[ftHold] \in {"realtm", "delay"} BY <1>1, <2>1 DEF Rep
  <2>3. \/ q' = [q EXCEPT !.trans = Append(@, ftHold)]
        \/ q' = [q EXCEPT ![ftHome[ftHold]] = <<ftHold>> \o @]
        \/ q' = q
    BY <1>8 DEF ft_do_report
  <2>4. q'["tmp"] = q["tmp"] BY <1>1, <2>2, <2>3 DEF Memories, Lists
  <2> QED BY <2>1, <2>4
<1>9. CASE ft_data_ack_pack
  BY <1>1, <1>9 DEF ft_data_ack_pack, Memories, Lists
<1>10. CASE ft_data_flush_sending
  <2>1. UNCHANGED <<errs, reports, op>> BY <1>10 DEF ft_data_flush_sending
  <2>2. q'.tmp = q.tmp BY <1>10 DEF ft_data_flush_sending
  <2> QED BY <2>1, <2>2
<1> QED BY <1>3, <1>4, <1>5, <1>6, <1>7, <1>8, <1>9, <1>10

LEMMA WarnedStep == CacheInv /\ CWarned /\ [CacheNext]_cacheVars => CWarned'
<1> SUFFICES ASSUME CacheInv, CWarned, [CacheNext]_cacheVars PROVE CWarned' OBVIOUS
<1>1. Warned(q, errs, reports, op) BY DEF CWarned
<1>2. q \in Memories /\ reports \in Nat /\ errs \in Nat /\ Size(q, "tmp") \in Nat
  BY <1>1, Numbers DEF Warned
<1>3. CASE UNCHANGED cacheVars
  BY <1>3, WarnedSame DEF cacheVars, ramVars, histVars
<1>4. CASE SaveOpens \/ SaveAllOpens \/ SaveInfo \/ SaveAllInfo \/ LoadOpens \/ ft_data_emergence \/ ft_cache_save_all
  <2>1. UNCHANGED <<q, errs, reports>>
    BY <1>4 DEF SaveOpens, SaveAllOpens, SaveInfo, SaveAllInfo, LoadOpens, ft_data_emergence, ft_cache_save_all
  <2>2. op' \in CanOps => op \in CanOps
    BY <1>4 DEF SaveOpens, SaveAllOpens, SaveInfo, SaveAllInfo, LoadOpens, ft_data_emergence, ft_cache_save_all,
                CanOps
  <2> QED BY <2>1, <2>2, WarnedSame
<1>5. CASE \/ ft_data_flush_realtm \/ SavePack \/ LoadPack \/ ft_data_get_pack \/ Pick
           \/ ft_do_report \/ ft_data_ack_pack \/ ft_data_flush_sending
  <2>1. /\ q'["tmp"] = q["tmp"] /\ UNCHANGED <<errs, reports>>
        /\ op' \in CanOps => op \in CanOps
    BY <1>5, TmpKept
  <2> QED BY <2>1, WarnedSame
<1>6. CASE ft_data_save_realtm
  <2>1. /\ op = "none" /\ ~Flushing /\ reports < MaxRep /\ UNCHANGED errs BY <1>6 DEF ft_data_save_realtm
  <2>2. errs = 0 /\ Size(q, "tmp") = 0 BY <1>2, <2>1, EmptyRange DEF Flushing, Size
  <2>3. CASE NFreeBuf > 0 /\ Take
    <3>1. ~NoBuffer BY <2>3, Numbers DEF NoBuffer
    <3>2. reports' = reports + 1 /\ q' = [BufferTaken EXCEPT !["realtm"] = Append(@, reports + 1)]
      BY <2>3 DEF Take, NewReport
    <3>3. q'["tmp"] = q["tmp"] BY <3>1, <3>2, TakenTmp DEF Memories, Lists
    <3>4. Size(q', "tmp") = 0 BY <2>2, <3>3 DEF Size
    <3>5. 0 + 0 <= NErr /\ (reports + 1) + 0 <= MaxRep /\ 0 \in Nat BY <1>2, <2>1, Sizes
    <3>6. Warned(q', errs', reports', op') BY <2>1, <2>2, <3>2, <3>4, <3>5 DEF Warned
    <3> QED BY <3>6, WarnedNext
  <2>4. CASE UNCHANGED <<q, reports>>
    <3>1. Warned(q', errs', reports', op') BY <1>1, <2>1, <2>2, <2>4 DEF Warned
    <3> QED BY <3>1, WarnedNext
  <2> QED BY <1>6, <2>3, <2>4 DEF ft_data_save_realtm
<1>7. CASE Record
  <2>1. op = "record" /\ op' = "none" /\ ~NoBuffer /\ UNCHANGED errs BY <1>7 DEF Record
  <2>2. errs = 0 /\ Size(q, "tmp") = 0 BY <1>1, <2>1 DEF Warned
  <2>3. reports' = reports + 1 /\ q' = [BufferTaken EXCEPT !["realtm"] = Append(@, reports + 1)]
    BY <1>7 DEF Record, Take, NewReport
  <2>4. q'["tmp"] = q["tmp"] BY <2>1, <2>3, TakenTmp DEF Memories, Lists
  <2>5. Size(q', "tmp") = 0 BY <2>2, <2>4 DEF Size
  <2>6. reports < MaxRep BY <2>1 DEF CacheInv, CCounted, Counted
  <2>7. 0 + 0 <= NErr /\ (reports + 1) + 0 <= MaxRep /\ 0 \in Nat BY <1>2, <2>6, Sizes
  <2>8. Warned(q', errs', reports', op') BY <2>1, <2>2, <2>3, <2>5, <2>7 DEF Warned
  <2> QED BY <2>8, WarnedNext
<1>8. CASE ft_data_flush_error
  <2>1. /\ op = "none" /\ ~Flushing /\ UNCHANGED <<q, op, reports>>
        /\ errs' \in 1 .. NErr /\ reports + errs' <= MaxRep
    BY <1>8 DEF ft_data_flush_error
  <2>2. Size(q, "tmp") = 0 BY <1>2, <2>1, EmptyRange DEF Flushing, Size
  <2>3. errs' \in Nat /\ errs' + 0 <= NErr
    <3>1. \A n \in 1 .. NErr : n \in Nat /\ n + 0 <= NErr BY Sizes
    <3> QED BY <2>1, <3>1, Zenon
  <2>4. Warned(q', errs', reports', op') BY <2>1, <2>2, <2>3 DEF Warned
  <2> QED BY <2>4, WarnedNext
<1>9. CASE FlushEntry
  <2>1. /\ op = "none" /\ UNCHANGED op /\ errs > 0 /\ ~NoBuffer
        /\ errs' = errs - 1 /\ reports' = reports + 1
        /\ q' = [BufferTaken EXCEPT !["tmp"] = <<reports + 1>> \o @]
    BY <1>9 DEF FlushEntry, NewReport
  <2>2. BufferTaken \in Memories /\ BufferTaken["tmp"] = q["tmp"] BY <2>1, TakenTmp
  <2>3. q'["tmp"] = <<reports + 1>> \o q["tmp"] BY <2>1, <2>2 DEF Memories, Lists
  <2>4. q["tmp"] \in Seq(Rep) BY <1>2 DEF Memories, Lists
  <2>5. errs + Size(q, "tmp") <= NErr /\ reports + errs <= MaxRep BY <1>1 DEF Warned
  <2>6. reports + 1 \in Rep BY <1>2, <2>1, <2>5, Sizes DEF Rep
  <2>7. Size(q', "tmp") = Size(q, "tmp") + 1
    <3> DEFINE u == <<reports + 1>>
               v == q["tmp"]
    <3>1. u \in Seq(Rep) /\ Len(u) = 1 BY <2>6, SingleRange
    <3>2. v \in Seq(Rep) BY <2>4
    <3> HIDE DEF u, v
    <3>3. Len(u \o v) = Len(u) + Len(v) BY <3>1, <3>2, ConcatRange
    <3>4. Len(v) \in Nat BY <3>2
    <3> QED BY <2>3, <3>1, <3>3, <3>4 DEF Size, u, v
  <2>8. /\ errs' \in Nat /\ errs' + Size(q', "tmp") <= NErr /\ reports' + errs' <= MaxRep
    BY <1>2, <2>1, <2>5, <2>7, Sizes
  <2>9. Warned(q', errs', reports', op') BY <2>1, <2>8 DEF Warned
  <2> QED BY <2>9, WarnedNext
<1>10. CASE FlushEnds
  <2>1. /\ op = "none" /\ errs = 0 /\ UNCHANGED <<op, errs, reports>>
        /\ q' = [q EXCEPT !.delay = @ \o q.tmp, !.tmp = <<>>]
    BY <1>10 DEF FlushEnds, histVars
  <2>2. Size(q', "tmp") = 0 BY <1>2, <2>1, EmptyRange DEF Memories, Lists, Size
  <2>3. reports + 0 <= MaxRep BY <1>1, <2>1 DEF Warned
  <2>4. Warned(q', errs', reports', op') BY <2>1, <2>2, <2>3, Sizes DEF Warned
  <2> QED BY <2>4, WarnedNext
<1>11. CASE PowerCut
  <2>1. op' = "none" /\ errs' = 0 /\ reports' = reports /\ q' = [l \in DOMAIN q |-> <<>>]
    BY <1>11 DEF PowerCut
  <2>2. Size(q', "tmp") = 0 BY <1>2, <2>1, EmptyRange DEF Memories, Lists, Size
  <2>3. reports + 0 <= MaxRep BY <1>1, <1>2, Sizes DEF Warned
  <2>4. Warned(q', errs', reports', op') BY <2>1, <2>2, <2>3, Sizes DEF Warned
  <2> QED BY <2>4, WarnedNext
<1> QED
  BY <1>3, <1>4, <1>5, <1>6, <1>7, <1>8, <1>9, <1>10, <1>11 DEF CacheNext

LEMMA CacheStepInv == CacheInv /\ CWarned /\ [CacheNext]_cacheVars => CacheInv'
<1> SUFFICES ASSUME CacheInv, CWarned, [CacheNext]_cacheVars PROVE CacheInv' OBVIOUS
<1>1. CASE UNCHANGED cacheVars
  <2>1. UNCHANGED <<q, ftHome, ftHold, noRoom, disk, index, info, op, offAt, done, reports, acked,
                    unsaved, behind, gone>>
    BY <1>1 DEF cacheVars, ramVars, histVars
  <2>2. CTyped /\ CCounted /\ CPhased /\ CMarked /\ CSound BY DEF CacheInv
  <2>3. CTyped' BY <2>1, <2>2, CacheInvNext DEF CTyped
  <2>4. CCounted' BY <2>1, <2>2, CacheInvNext DEF CCounted
  <2>5. CPhased' BY <2>1, <2>2, CacheInvNext DEF CPhased
  <2>6. CMarked' BY <2>1, <2>2, CacheInvNext DEF CMarked
  <2>7. CSound' BY <2>1, <2>2, CacheInvNext DEF CSound
  <2> QED BY <2>3, <2>4, <2>5, <2>6, <2>7 DEF CacheInv
<1>2. CASE CacheNext
  BY <1>2, SaveRealtmStep, RecordStep, FlushRealtmStep, FlushErrorStep, FlushEntryStep, FlushEndsStep, SaveOpensStep, SaveAllOpensStep, SavePackStep,
     SaveInfoStep, SaveAllInfoStep, LoadOpensStep, LoadPackStep, GetStep, PickStep, ReportStep, AckStep,
     FlushSendingStep, EmergenceStep, SaveAllStep, PowerCutStep DEF CacheNext
<1> QED BY <1>1, <1>2

\* the reports in memory as one list
LEMMA InMemoryIs ==
    ASSUME CTyped
    PROVE  /\ InMemory \in Seq(Rep) /\ Range(InMemory) = Mem(q, ftHold)
           /\ Apart(q, ftHold) => IsInjective(InMemory)
<1> DEFINE a == q["realtm"]
           b == q["delay"]
           c == q["trans"]
           e == q["tmp"]
           d == IF ftHold = 0 THEN <<>> ELSE <<ftHold>>
           ab == a \o b
           abc == ab \o c
           abce == abc \o e
           abced == abce \o d
<1>1. a \in Seq(Rep) /\ b \in Seq(Rep) /\ c \in Seq(Rep) /\ e \in Seq(Rep) /\ ftHold \in 0 .. MaxRep
  BY UsedNat DEF CTyped, Typed
<1>2. d \in Seq(Rep) /\ Range(d) = Held(ftHold) /\ IsInjective(d)
  <2>1. CASE ftHold = 0 BY <2>1, EmptyRange DEF Held
  <2>2. CASE ftHold # 0
    <3>1. ftHold \in Rep BY <1>1, <2>2 DEF Rep
    <3> QED BY <2>2, <3>1, SingleRange DEF Held
  <2> QED BY <2>1, <2>2
<1>3. InMemory = abced
  BY DEF InMemory
<1>4. Range(d) \subseteq {ftHold} BY <1>2 DEF Held
<1>5. /\ Mem(q, ftHold) = Range(a) \cup Range(b) \cup Range(c) \cup Range(e) \cup Range(d)
      /\ Apart(q, ftHold) =>
            /\ IsInjective(a) /\ IsInjective(b) /\ IsInjective(c) /\ IsInjective(e)
            /\ ftHold \notin Range(a) /\ ftHold \notin Range(b) /\ ftHold \notin Range(c) /\ ftHold \notin Range(e)
            /\ Range(a) \cap Range(b) = {} /\ Range(a) \cap Range(c) = {} /\ Range(b) \cap Range(c) = {}
            /\ Range(a) \cap Range(e) = {} /\ Range(b) \cap Range(e) = {} /\ Range(c) \cap Range(e) = {}
  BY <1>2, ByName
<1> HIDE DEF a, b, c, d, e
<1>6. /\ ab \in Seq(Rep) /\ Range(ab) = Range(a) \cup Range(b)
      /\ IsInjective(a) /\ IsInjective(b) /\ Range(a) \cap Range(b) = {} => IsInjective(ab)
  BY <1>1, ConcatRange
<1> HIDE DEF ab
<1>7. /\ abc \in Seq(Rep) /\ Range(abc) = Range(ab) \cup Range(c)
      /\ IsInjective(ab) /\ IsInjective(c) /\ Range(ab) \cap Range(c) = {} => IsInjective(abc)
  BY <1>1, <1>6, ConcatRange
<1> HIDE DEF abc
<1>8. /\ abce \in Seq(Rep) /\ Range(abce) = Range(abc) \cup Range(e)
      /\ IsInjective(abc) /\ IsInjective(e) /\ Range(abc) \cap Range(e) = {} => IsInjective(abce)
  BY <1>1, <1>7, ConcatRange
<1> HIDE DEF abce
<1>9. /\ abced \in Seq(Rep) /\ Range(abced) = Range(abce) \cup Range(d)
      /\ IsInjective(abce) /\ IsInjective(d) /\ Range(abce) \cap Range(d) = {} => IsInjective(abced)
  BY <1>2, <1>8, ConcatRange
<1> HIDE DEF abced
<1>10. Range(abced) = Mem(q, ftHold) BY <1>5, <1>6, <1>7, <1>8, <1>9
<1>11. Apart(q, ftHold) => IsInjective(abced)
  <2>1. Apart(q, ftHold) => IsInjective(abc) BY <1>5, <1>6, <1>7
  <2>2. Apart(q, ftHold) => IsInjective(abce) BY <1>5, <1>6, <1>7, <1>8, <2>1
  <2>3. Apart(q, ftHold) => Range(abce) \cap Range(d) = {} BY <1>4, <1>5, <1>6, <1>7, <1>8
  <2> QED BY <1>2, <1>9, <2>2, <2>3
<1> QED BY <1>3, <1>9, <1>10, <1>11

LEMMA CacheInvHolds == CacheSpec => [](CacheInv /\ CWarned)
BY CacheInitInv, CacheStepInv, WarnedStep, PTL DEF CacheSpec

\* ft_cache_save has as much to write as it wants to, ft_cache_load a buffer for each
\* report it reads, and ft_data_save_realtm and ft_data_flush_error a buffer: what is in
\* flight, held, taken by a warning or lost by ft_do_report leaves at least Grade of the
\* NBuf buffers.
THEOREM CacheNeverHangs == CacheSpec => []NoHang
<1>1. CacheInv /\ CWarned => NoHang
  <2> SUFFICES ASSUME CacheInv, CWarned PROVE NoHang OBVIOUS
  <2>1. Counted(q, ftHold, noRoom, index, reports, done, op) BY DEF CacheInv, CCounted
  <2>2. noRoom <= MaxNoRoom BY DEF CacheInv, CTyped, Typed
  <2>3. NoOldest => Listed(q) = 0
    <3>1. NoOldest => Size(q, "realtm") = 0 /\ Size(q, "delay") = 0 BY DEF NoOldest, Size
    <3> QED BY <3>1 DEF Listed
  <2>4. op = "saving" => ~NoOldest
    <3>1. op = "saving" => done < Grade /\ Grade <= done + Listed(q) BY <2>1 DEF Counted
    <3> QED BY <2>3, <3>1, Numbers, Sizes
  <2>0. errs \in Nat /\ errs + Size(q, "tmp") <= NErr /\ (op = "record" => Size(q, "tmp") = 0)
    BY DEF CWarned, Warned
  <2>5. op = "loading" => NFreeBuf > 0
    <3> SUFFICES ASSUME op = "loading" PROVE NFreeBuf > 0 OBVIOUS
    <3>1. ftHold = 0 /\ q["realtm"] = <<>> /\ Size(q, "delay") = done BY DEF CacheInv, CPhased, Phased
    <3>2. Size(q, "realtm") = 0 BY <3>1 DEF Size
    <3>3. done < Grade /\ Size(q, "trans") <= InFlight BY <2>1 DEF Counted
    <3>4. Listed(q) = done BY <3>1, <3>2, Numbers
    <3>5. Count(ftHold) = 0 BY <3>1, CountIs
    <3> QED BY <2>0, <2>2, <3>3, <3>4, <3>5, Numbers, Sizes
  <2>6. op = "record" \/ (op = "none" /\ errs > 0) => NFreeBuf # 0 \/ ~NoOldest
    <3> SUFFICES ASSUME op = "record" \/ errs > 0, NoOldest PROVE NFreeBuf # 0 OBVIOUS
    <3>1. Size(q, "trans") <= InFlight BY <2>1 DEF Counted
    <3>2. Size(q, "tmp") < NErr BY <2>0, Numbers, Sizes
    <3>3. Listed(q) = 0 BY <2>3
    <3> QED BY <2>2, <3>1, <3>2, <3>3, Numbers, Sizes
  <2> QED BY <2>4, <2>5, <2>6 DEF NoHang, NoBuffer
<1> QED BY <1>1, CacheInvHolds, PTL

\* Wherever the process dies, an acknowledged report is not sent again, and between two
\* operations cache_info holds ft_index_r and ft_index_w, as long as the card has not
\* fallen behind: cache_info could always be written, and no power cut took writes that
\* were not synced.
THEOREM CacheCardIsSound == CacheSpec => []CardIsSound
<1>1. CacheInv => CardIsSound
  <2> SUFFICES ASSUME CacheInv PROVE CardIsSound OBVIOUS
  <2>1. CTyped /\ disk \in [Ring -> 0 .. MaxRep] /\ index \in Indexes /\ info \in Indexes
    BY DEF CacheInv, CTyped, Typed
  <2>2. NotSentTwice
    <3> SUFFICES ASSUME ~behind
                 PROVE  acked \cap (Range(InMemory) \cup Range(Cached(info)) \cup Range(Cached(index))) = {}
      BY DEF NotSentTwice
    <3>1. Range(InMemory) = Mem(q, ftHold) BY <2>1, InMemoryIs
    <3>2. Range(Cached(info)) = DiskContent(disk, info) /\ Range(Cached(index)) = DiskContent(disk, index)
      BY <2>1, CachedIs
    <3>3. InOne(q, ftHold, disk, index, info, op, acked) BY DEF CacheInv, CSound, Sound
    <3>4. /\ acked \cap Mem(q, ftHold) = {} /\ acked \cap DiskContent(disk, index) = {}
          /\ acked \cap DiskContent(disk, info) = {}
      BY <3>3 DEF InOne
    <3> QED BY <3>1, <3>2, <3>4
  <2>3. IndexesOnCard BY DEF IndexesOnCard, CacheInv, CMarked, Marked, Pending
  <2> QED BY <2>2, <2>3 DEF CardIsSound
<1> QED BY <1>1, CacheInvHolds, PTL

\* Each report of ft_data_save_realtm is in one list, in ft_do_report's hands or in one
\* slot between the indexes, also after restarts and errors of the card, until the card
\* falls behind; none is lost before a restart, an error or formatting of the card, a
\* full ring, a full socket, or a warning that takes the buffers of the oldest; and both
\* indexes stay within the ring.
THEOREM CacheReportsKept == CacheSpec => []ReportsKept
<1>1. CacheInv /\ CWarned => ReportsKept
  <2> SUFFICES ASSUME CacheInv, CWarned PROVE ReportsKept OBVIOUS
  <2>1. Typed(q, ftHome, ftHold, noRoom, disk, index, info, op, offAt, done, reports, acked)
    BY DEF CacheInv, CTyped
  <2>2. Counted(q, ftHold, noRoom, index, reports, done, op) BY DEF CacheInv, CCounted
  <2>3. Sound(q, ftHold, disk, index, info, op, acked, reports, behind, gone) BY DEF CacheInv, CSound
  <2>4. CTyped /\ disk \in [Ring -> 0 .. MaxRep] /\ index \in Indexes /\ info \in Indexes
    BY <2>1 DEF CacheInv, Typed
  <2>5. CacheTypeOK
    <3>1. \A l \in DOMAIN q : q[l] \in Seq(Rep) BY <2>1 DEF Typed, Memories
    <3>2. NFreeBuf \in 0 .. NBuf
      <4>1. Used(q, ftHold) + noRoom <= NBuf BY <2>2 DEF Counted
      <4> QED BY <4>1, Numbers, Sizes
    <3>3. done \in 0 .. Len(q.delay) + RingSize + MaxRep
      <4>1. done <= RingSize + reports BY <2>2 DEF Counted
      <4>2. reports <= MaxRep BY <2>1 DEF Typed
      <4>3. done \in 0 .. Size(q, "delay") + RingSize + MaxRep BY <4>1, <4>2, Numbers, Sizes
      <4> QED BY <4>3 DEF Size
    <3>4. /\ ftHold \in 0 .. MaxRep /\ noRoom \in 0 .. MaxNoRoom /\ acked \subseteq Rep
          /\ {index, info} \subseteq [r : Ring, w : Ring]
      BY <2>1 DEF Typed, Indexes
    <3>5. errs \in Nat /\ errs + Len(q.tmp) <= NErr BY DEF CWarned, Warned, Size
    <3> QED BY <2>4, <3>1, <3>2, <3>3, <3>4, <3>5 DEF CacheTypeOK
  <2>6. KeptInOnePlace
    <3> DEFINE m == InMemory
               k == Cached(index)
               places == m \o k
    <3>0. m \in Seq(Rep) BY <2>4, InMemoryIs
    <3>1. /\ m \in Seq(0 .. MaxRep) /\ Range(m) = Mem(q, ftHold) /\ (Apart(q, ftHold) => IsInjective(m))
      <4>1. Range(m) = Mem(q, ftHold) /\ (Apart(q, ftHold) => IsInjective(m)) BY <2>4, InMemoryIs
      <4>2. m \in Seq(0 .. MaxRep)
        <5> HIDE DEF m
        <5>1. Rep \subseteq 0 .. MaxRep BY Sizes DEF Rep
        <5> QED BY <3>0, <5>1, SeqMonotonic
      <4> QED BY <4>1, <4>2
    <3>2. /\ k \in Seq(0 .. MaxRep) /\ Range(k) = DiskContent(disk, index)
          /\ (Distinct(disk, index) => IsInjective(k))
      BY <2>4, CachedIs
    <3> HIDE DEF m, k
    <3>3. /\ Range(places) = Range(m) \cup Range(k)
          /\ IsInjective(m) /\ IsInjective(k) /\ Range(m) \cap Range(k) = {} => IsInjective(places)
      <4>1. m \in Seq(0 .. MaxRep) /\ k \in Seq(0 .. MaxRep) BY <3>1, <3>2
      <4> QED BY <4>1, ConcatRange
    <3>4. ASSUME ~behind PROVE IsInjective(places)
      <4>1. InOne(q, ftHold, disk, index, info, op, acked) BY <2>3, <3>4 DEF Sound
      <4> QED BY <3>1, <3>2, <3>3, <4>1 DEF InOne
    <3>5. ASSUME ~gone PROVE 1 .. reports = acked \cup Range(places)
      <4>1. 1 .. reports = acked \cup Mem(q, ftHold) \cup DiskContent(disk, index) BY <2>3, <3>5 DEF Sound
      <4> QED BY <3>1, <3>2, <3>3, <4>1
    <3> QED BY <3>4, <3>5 DEF KeptInOnePlace, m, k
  <2> QED BY <2>5, <2>6 DEF ReportsKept
<1> QED BY <1>1, CacheInvHolds, PTL

-----------------------------------------------------------------------------
(* Part 3: the launcher.                                                   *)

-----------------------------------------------------------------------------
(* Images and directories.                                                 *)

Places    == {"CUR", "PRE", "DATA", "UPG"}
AllImages == [Files -> Vers]
Dir       == [mark : {"gone", "bad", "good"}, img : AllImages, cfgMark : BOOLEAN]

\* every file is there, and whole
Complete(i) == i \in AllImages /\ \A f \in Files : i[f] \notin {"no", "part"}

LEMMA VersionsAre ==
    /\ "no" \in Vers /\ "part" \in Vers
    /\ \A p \in Packages \cup {Factory} : \A f \in DOMAIN p : p[f] \in Vers /\ p[f] \notin {"no", "part"}
    /\ APP \in Files
BY LauncherAssumption DEF LauncherAssumption, Vers, APP, Files

LEMMA ImagesAre ==
    /\ Factory \in AllImages /\ Complete(Factory) /\ Nothing \in AllImages
    /\ Gone \in Dir /\ \A i \in AllImages : Good(i) \in Dir
    /\ \A p \in Packages : Package(p) \in AllImages /\ \A f \in Files : Package(p)[f] # "part"
<1>1. Factory = [f \in Files |-> Factory[f]] BY LauncherAssumption DEF LauncherAssumption, Files
<1>2. \A f \in Files : Factory[f] \in Vers /\ Factory[f] \notin {"no", "part"} BY VersionsAre DEF Files
<1>3. Factory \in AllImages /\ Complete(Factory) BY <1>1, <1>2 DEF AllImages, Complete
<1>4. Nothing \in AllImages BY VersionsAre DEF Nothing, AllImages
<1>5. Gone \in Dir /\ \A i \in AllImages : Good(i) \in Dir BY <1>4 DEF Gone, Good, Dir
<1>6. ASSUME NEW p \in Packages PROVE Package(p) \in AllImages /\ \A f \in Files : Package(p)[f] # "part"
  <2>1. \A f \in DOMAIN p : p[f] \in Vers /\ p[f] # "part" BY VersionsAre
  <2> QED BY <2>1, VersionsAre DEF Package, AllImages
<1> QED BY <1>3, <1>4, <1>5, <1>6

\* Over is a matter of each file by itself
LEMMA OverIs ==
    ASSUME NEW s \in AllImages, NEW i \in AllImages
    PROVE  /\ Over(s, i) \in AllImages
           /\ \A f \in Files : Over(s, i)[f] = IF s[f] = "no" THEN i[f] ELSE s[f]
           /\ Over(s, Over(s, i)) = Over(s, i)
           /\ Complete(i) /\ (\A f \in Files : s[f] # "part") => Complete(Over(s, i))
<1>1. /\ Over(s, i) \in AllImages
      /\ \A f \in Files : Over(s, i)[f] = IF s[f] = "no" THEN i[f] ELSE s[f]
  BY DEF Over, AllImages
<1>2. Over(s, Over(s, i)) = Over(s, i) BY DEF Over, AllImages
<1>3. Complete(i) /\ (\A f \in Files : s[f] # "part") => Complete(Over(s, i)) BY <1>1 DEF Complete
<1> QED BY <1>1, <1>2, <1>3

LEMMA HalfRemovedIs ==
    ASSUME NEW d \in AllImages, NEW i \in HalfRemoved(d)
    PROVE  i \in AllImages /\ \A f \in Files : i[f] \in {"no", d[f]}
BY VersionsAre DEF HalfRemoved, AllImages

LEMMA HalfCopiedIs ==
    ASSUME NEW s \in AllImages, NEW i \in HalfCopied(s)
    PROVE  i \in AllImages
BY VersionsAre DEF HalfCopied, AllImages

LEMMA HalfGoneIs ==
    ASSUME NEW d \in Dir, NEW x \in HalfGone(d)
    PROVE  /\ x \in Dir /\ x.mark \in {d.mark, "bad", "gone"}
           /\ \A f \in Files : x.img[f] \in {"no", d.img[f]}
<1>1. d.img \in AllImages /\ d.cfgMark \in BOOLEAN /\ d.mark \in {"gone", "bad", "good"} BY DEF Dir
<1>2. x \in [mark : {d.mark, "bad", "gone"}, img : HalfRemoved(d.img), cfgMark : {d.cfgMark, FALSE}]
  BY DEF HalfGone
<1>3. x.img \in HalfRemoved(d.img) BY <1>2
<1>4. x.img \in AllImages /\ \A f \in Files : x.img[f] \in {"no", d.img[f]} BY <1>1, <1>3, HalfRemovedIs
<1>5. x.mark \in {d.mark, "bad", "gone"} BY <1>2
<1>6. x.cfgMark \in BOOLEAN BY <1>1, <1>2
<1>7. x = [mark |-> x.mark, img |-> x.img, cfgMark |-> x.cfgMark] BY <1>2
<1>8. x.mark \in {"gone", "bad", "good"} BY <1>1, <1>5
<1>9. x \in Dir BY <1>4, <1>6, <1>7, <1>8 DEF Dir
<1> QED BY <1>4, <1>5, <1>9

LEMMA ApplCopyIs ==
    ASSUME NEW s \in Dir, NEW d \in Dir
    PROVE  /\ appl_copy(s, d) \in Dir /\ appl_copy(s, d).mark = d.mark
           /\ s.img # Nothing => appl_copy(s, d).img = s.img
           /\ \A x \in HalfApplCopy(s, d) : x \in Dir /\ x.mark = d.mark
<1>1. s.img \in AllImages /\ d.img \in AllImages /\ s.cfgMark \in BOOLEAN /\ d.cfgMark \in BOOLEAN BY DEF Dir
<1> DEFINE j == IF s.img = Nothing THEN d.img ELSE s.img
<1>3. appl_copy(s, d) = [d EXCEPT !.img = j, !.cfgMark = s.cfgMark] BY DEF appl_copy
<1>4. j \in AllImages /\ (s.img # Nothing => j = s.img) BY <1>1
<1> HIDE DEF j
<1>5. appl_copy(s, d) \in Dir /\ appl_copy(s, d).mark = d.mark BY <1>1, <1>3, <1>4 DEF Dir
<1>6. s.img # Nothing => appl_copy(s, d).img = s.img BY <1>1, <1>3, <1>4 DEF Dir
<1>7. ASSUME NEW x \in HalfApplCopy(s, d) PROVE x \in Dir /\ x.mark = d.mark
  <2>1. CASE \E i \in IF s.img = Nothing THEN {d.img} ELSE HalfRemoved(d.img) \cup HalfCopied(s.img) :
                x = [d EXCEPT !.img = i]
    <3>1. PICK i \in IF s.img = Nothing THEN {d.img} ELSE HalfRemoved(d.img) \cup HalfCopied(s.img) :
             x = [d EXCEPT !.img = i]
      BY <2>1
    <3>2. i \in AllImages BY <1>1, <3>1, HalfRemovedIs, HalfCopiedIs
    <3> QED BY <3>1, <3>2 DEF Dir
  <2>2. CASE \E c \in {d.cfgMark, FALSE, s.cfgMark} : x = [appl_copy(s, d) EXCEPT !.cfgMark = c]
    <3>1. PICK c \in {d.cfgMark, FALSE, s.cfgMark} : x = [appl_copy(s, d) EXCEPT !.cfgMark = c] BY <2>2
    <3>2. c \in BOOLEAN BY <1>1
    <3> QED BY <1>5, <3>1, <3>2 DEF Dir
  <2> QED BY <2>1, <2>2 DEF HalfApplCopy
<1> QED BY <1>5, <1>6, <1>7

LEMMA OverlapIs ==
    ASSUME NEW s \in Dir, NEW d \in Dir
    PROVE  /\ appl_overlap(s, d) \in Dir /\ appl_overlap(s, d).mark = d.mark
           /\ appl_overlap(s, d).img = Over(s.img, d.img)
           /\ \A x \in HalfOverlap(s, d) :
                 x \in Dir /\ x.mark = d.mark /\ Over(s.img, x.img) = Over(s.img, d.img)
<1>1. s.img \in AllImages /\ d.img \in AllImages BY DEF Dir
<1>2. \A i \in AllImages :
         [d EXCEPT !.img = i] \in Dir /\ [d EXCEPT !.img = i].mark = d.mark /\ [d EXCEPT !.img = i].img = i
  BY DEF Dir
<1>3. Over(s.img, d.img) \in AllImages BY <1>1, OverIs
<1>4. ASSUME NEW x \in HalfOverlap(s, d)
      PROVE  x \in Dir /\ x.mark = d.mark /\ Over(s.img, x.img) = Over(s.img, d.img)
  <2>1. PICK i \in [Files -> {"part"} \cup {s.img[f] : f \in Files} \cup {d.img[f] : f \in Files}] :
           /\ x = [d EXCEPT !.img = i]
           /\ \A f \in Files : i[f] \in {d.img[f]} \cup IF s.img[f] = "no" THEN {} ELSE {"part", s.img[f]}
    BY DEF HalfOverlap
  <2>2. \A f \in Files : s.img[f] \in Vers /\ d.img[f] \in Vers BY <1>1 DEF AllImages
  <2>3. i \in AllImages BY <2>1, <2>2, VersionsAre DEF AllImages
  <2>4. x \in Dir /\ x.mark = d.mark /\ x.img = i BY <1>2, <2>1, <2>3
  <2>5. \A f \in Files : s.img[f] = "no" => i[f] = d.img[f] BY <2>1
  <2>6. Over(s.img, i) = Over(s.img, d.img) BY <2>5 DEF Over
  <2> QED BY <2>4, <2>6
<1> QED BY <1>2, <1>3, <1>4 DEF appl_overlap

LEMMA DirCopyIs ==
    ASSUME NEW s \in Dir, NEW d \in Dir
    PROVE  /\ dir_copy(s, d) \in Dir
           /\ s.mark = "gone" => dir_copy(s, d) = d
           /\ s.mark # "gone" => dir_copy(s, d).mark = "good" /\ dir_copy(s, d).img = s.img
           /\ \A x \in HalfDirCopy(s, d) : x \in Dir
<1>1. s.img \in AllImages /\ s.cfgMark \in BOOLEAN BY DEF Dir
<1>2. /\ dir_copy(s, d) \in Dir /\ (s.mark = "gone" => dir_copy(s, d) = d)
      /\ s.mark # "gone" => dir_copy(s, d).mark = "good" /\ dir_copy(s, d).img = s.img
  BY DEF dir_copy, Dir
<1>3. ASSUME NEW x \in HalfDirCopy(s, d) PROVE x \in Dir
  <2>1. CASE x = d BY <2>1
  <2>2. CASE x \in HalfGone(d) BY <2>2, HalfGoneIs
  <2>3. CASE x \in [mark : {"bad"}, img : HalfCopied(s.img), cfgMark : {FALSE, s.cfgMark}]
    BY <1>1, <2>3, HalfCopiedIs DEF Dir
  <2> QED BY <2>1, <2>2, <2>3 DEF HalfDirCopy
<1> QED BY <1>2, <1>3

-----------------------------------------------------------------------------
(* The invariant, of the directories c (CUR), p (PRE), u (UPG) and d       *)
(* (DATA), the launcher's stage st, the images m meant and r that came up  *)
(* and the kinds of fault fs.                                              *)

IsGood(x) == x.mark = "good"

\* what the upgrade makes of the current image is meant; it has been put in place
Will(u, c, m) == Over(u.img, c.img) \in m
Fits(u, c)    == Over(u.img, c.img) = c.img
IsPackage(u)  == \E k \in Packages : u.img = Package(k)

One(fs)       == \A a, b \in fs : a = b
MayGoBack(fs) == fs \subseteq {"hang"} \/ fs \subseteq {"commitCur"}

Upgrading == {"lockPre", "backup", "commitPre", "lockCur", "overlap"}
Starting  == {"rmUpg", "start_app", "refresh", "check", "choose"}
GoingBack == {"roll_back", "lockBack", "back", "commitBack", "copyBack"}
Stages    == Upgrading \cup Starting \cup GoingBack
                \cup {"boot", "commitCur", "copyData", "restore", "start", "run", "exit", "ended"}

\* /usrapp was erased, and DATA has not been copied to CUR yet
Erased(c, p, u, d, st, fs) ==
    /\ fs = {"erased"} /\ st \in {"boot", "rmUpg", "start_app", "refresh", "check", "restore"}
    /\ c = Gone /\ p = Gone /\ u = Gone /\ IsGood(d) /\ d.img = Factory

\* The current image is one that is meant, or the upgrade, which is kept until it is in
\* place, makes it one again.  Only a mark that could not be written leaves the image
\* marked bad.
Placed(c, u, st, m, r, fs) ==
    /\ st \in {"boot", "ended"} => (IsGood(c) /\ c.img \in m) \/ (IsGood(u) /\ Will(u, c, m))
    /\ st \in Upgrading => IsGood(u) /\ Will(u, c, m)
    /\ st \in {"commitCur", "copyData"} \cup Starting => c.img \in m
    /\ st \in {"copyData"} \cup Starting => IsGood(c) \/ fs = {"commitCur"}
    /\ st \in {"commitCur", "copyData"} => IsGood(u)
    /\ st \in {"commitCur", "copyData", "rmUpg"} /\ IsGood(u) => Fits(u, c)
    /\ st \in {"start", "run"} => IsGood(c) /\ c.img \in m
    /\ st = "run" => c.img \in r
    /\ st \in {"commitBack", "copyBack"} => c.img \in m
    /\ st = "copyBack" => IsGood(c)
    /\ st \in GoingBack => fs = {"hang"} \/ fs = {"commitCur"}
    /\ st = "ended" => ~MayGoBack(fs)
    /\ st \notin {"exit", "restore"}
    /\ IsGood(u) => Will(u, c, m) \/ st \in GoingBack \/ (IsPackage(u) /\ c.img \in m)

\* The image to go back to, in the two cases where the launcher may have to.
Behind(c, p, u, st, r, fs) ==
    MayGoBack(fs) =>
    /\ IsGood(p) => p.img \in r
    /\ st \in {"boot", "lockPre", "backup", "commitPre", "lockCur"} => IsGood(c) /\ c.img \in r
    /\ st = "commitPre" => p.img \in r
    /\ st \in {"lockCur", "overlap", "commitCur"} \cup GoingBack => IsGood(p)
    /\ (~IsGood(c) \/ c.img[APP] \in Hangs) /\ st \notin {"backup", "commitPre"} => IsGood(p)
    /\ IsGood(u) => IsPackage(u)

Kept(c, p, u, d, st, m, r, fs) ==
    /\ r \subseteq m
    /\ Erased(c, p, u, d, st, fs) \/ Placed(c, u, st, m, r, fs)
    /\ Behind(c, p, u, st, r, fs)

Sane(m) == Factory \in m /\ \A i \in m : Complete(i)

LTyped(ds, st, n) ==
    /\ ds \in [Places -> Dir] /\ st \in Stages
    /\ n \in 0 .. 3 /\ (st \notin {"start", "run"} => n <= 2)

LKept(ds, st, m, r, fs) == One(fs) => Kept(ds["CUR"], ds["PRE"], ds["UPG"], ds["DATA"], st, m, r, fs)

LauncherInv ==
    /\ LTyped(dirs, stage, starts) /\ Sane(meant) /\ IsFiniteSet(faults)
    /\ LKept(dirs, stage, meant, ran, faults)

LEMMA LauncherInvNext ==
    ASSUME LTyped(dirs', stage', starts'), Sane(meant'), IsFiniteSet(faults'),
           LKept(dirs', stage', meant', ran', faults')
    PROVE  LauncherInv'
<1>1. LTyped(dirs, stage, starts)' <=> LTyped(dirs', stage', starts')
  BY Zenon DEF LTyped, Places, Dir, AllImages, Files, Vers, Stages, Upgrading, Starting, GoingBack
<1>2. Sane(meant)' <=> Sane(meant') BY Zenon DEF Sane, Complete, AllImages, Files, Vers
<1>3. IsFiniteSet(faults)' <=> IsFiniteSet(faults') BY Zenon DEF IsFiniteSet
<1>4. LKept(dirs, stage, meant, ran, faults)' <=> LKept(dirs', stage', meant', ran', faults')
  BY Zenon DEF LKept, One, Kept, Erased, Placed, Behind, IsGood, Will, Fits, IsPackage, MayGoBack, Upgrading,
               Starting, GoingBack, Gone, Nothing, Files, Over, Package, APP
<1> QED BY <1>1, <1>2, <1>3, <1>4 DEF LauncherInv

\* the calls of main
LEMMA CallsAre ==
    /\ DOMAIN Calls = {"lockPre", "backup", "commitPre", "lockCur", "overlap", "commitCur", "copyData", "rmUpg",
                       "refresh", "restore", "lockBack", "back", "commitBack", "copyBack"}
    /\ Calls["lockPre"] = Call("bad", "none", "PRE", "backup", "backup")
    /\ Calls["backup"] = Call("copy", "CUR", "PRE", "commitPre", "ended")
    /\ Calls["commitPre"] = Call("good", "none", "PRE", "lockCur", "lockCur")
    /\ Calls["lockCur"] = Call("bad", "none", "CUR", "overlap", "overlap")
    /\ Calls["overlap"] = Call("overlap", "UPG", "CUR", "commitCur", "ended")
    /\ Calls["commitCur"] = Call("good", "none", "CUR", "copyData", "copyData")
    /\ Calls["copyData"] = Call("dircopy", "CUR", "DATA", "rmUpg", "rmUpg")
    /\ Calls["rmUpg"] = Call("remove", "none", "UPG", "start_app", "start_app")
    /\ Calls["refresh"] = Call("dircopy", "CUR", "DATA", "check", "check")
    /\ Calls["restore"] = Call("dircopy", "DATA", "CUR", "choose", "choose")
    /\ Calls["lockBack"] = Call("bad", "none", "CUR", "back", "back")
    /\ Calls["back"] = Call("copy", "PRE", "CUR", "commitBack", "ended")
    /\ Calls["commitBack"] = Call("good", "none", "CUR", "copyBack", "copyBack")
    /\ Calls["copyBack"] = Call("dircopy", "CUR", "DATA", "start_app", "ended")
BY DEF Calls

LEMMA CallIs ==
    ASSUME NEW o, NEW s, NEW d, NEW t, NEW f
    PROVE  LET k == Call(o, s, d, t, f)
           IN  k.op = o /\ k.src = s /\ k.dst = d /\ k.then = t /\ k.fails = f
BY DEF Call

\* what a call leaves, when it succeeds and when it does not
LEMMA ResultIs ==
    ASSUME NEW k
    PROVE  /\ k.op = "bad" => Result(k) = [dirs[k.dst] EXCEPT !.mark = "bad"] /\ Broken(k) = {dirs[k.dst]}
           /\ k.op = "good" => Result(k) = [dirs[k.dst] EXCEPT !.mark = "good"] /\ Broken(k) = {dirs[k.dst]}
           /\ k.op = "copy" => /\ Result(k) = appl_copy(dirs[k.src], dirs[k.dst])
                               /\ Broken(k) = HalfApplCopy(dirs[k.src], dirs[k.dst])
           /\ k.op = "overlap" => /\ Result(k) = appl_overlap(dirs[k.src], dirs[k.dst])
                                  /\ Broken(k) = HalfOverlap(dirs[k.src], dirs[k.dst])
           /\ k.op = "dircopy" => /\ Result(k) = dir_copy(dirs[k.src], dirs[k.dst])
                                  /\ Broken(k) = HalfDirCopy(dirs[k.src], dirs[k.dst])
           /\ k.op = "remove" => Result(k) = Gone /\ Broken(k) = HalfGone(dirs[k.dst])
<1>1. k.op = "bad" => Result(k) = [dirs[k.dst] EXCEPT !.mark = "bad"] /\ Broken(k) = {dirs[k.dst]}
  BY DEF Result, Broken
<1>2. k.op = "good" => Result(k) = [dirs[k.dst] EXCEPT !.mark = "good"] /\ Broken(k) = {dirs[k.dst]}
  BY DEF Result, Broken
<1>3. k.op = "copy" => /\ Result(k) = appl_copy(dirs[k.src], dirs[k.dst])
                       /\ Broken(k) = HalfApplCopy(dirs[k.src], dirs[k.dst])
  BY DEF Result, Broken
<1>4. k.op = "overlap" => /\ Result(k) = appl_overlap(dirs[k.src], dirs[k.dst])
                          /\ Broken(k) = HalfOverlap(dirs[k.src], dirs[k.dst])
  BY DEF Result, Broken
<1>5. k.op = "dircopy" => /\ Result(k) = dir_copy(dirs[k.src], dirs[k.dst])
                          /\ Broken(k) = HalfDirCopy(dirs[k.src], dirs[k.dst])
  BY DEF Result, Broken
<1>6. k.op = "remove" => Result(k) = Gone /\ Broken(k) = HalfGone(dirs[k.dst]) BY DEF Result, Broken
<1> QED BY <1>1, <1>2, <1>3, <1>4, <1>5, <1>6

\* the calls, and what each leaves
Does(st, d, t, f, res, broken) ==
    /\ Calls[st].dst = d /\ Calls[st].then = t /\ Calls[st].fails = f
    /\ Result(Calls[st]) = res /\ Broken(Calls[st]) = broken

LEMMA CallsDo ==
    /\ Does("lockPre", "PRE", "backup", "backup",
            [dirs["PRE"] EXCEPT !.mark = "bad"], {dirs["PRE"]})
    /\ Does("backup", "PRE", "commitPre", "ended",
            appl_copy(dirs["CUR"], dirs["PRE"]), HalfApplCopy(dirs["CUR"], dirs["PRE"]))
    /\ Does("commitPre", "PRE", "lockCur", "lockCur",
            [dirs["PRE"] EXCEPT !.mark = "good"], {dirs["PRE"]})
    /\ Does("lockCur", "CUR", "overlap", "overlap",
            [dirs["CUR"] EXCEPT !.mark = "bad"], {dirs["CUR"]})
    /\ Does("overlap", "CUR", "commitCur", "ended",
            appl_overlap(dirs["UPG"], dirs["CUR"]), HalfOverlap(dirs["UPG"], dirs["CUR"]))
    /\ Does("commitCur", "CUR", "copyData", "copyData",
            [dirs["CUR"] EXCEPT !.mark = "good"], {dirs["CUR"]})
    /\ Does("copyData", "DATA", "rmUpg", "rmUpg",
            dir_copy(dirs["CUR"], dirs["DATA"]), HalfDirCopy(dirs["CUR"], dirs["DATA"]))
    /\ Does("rmUpg", "UPG", "start_app", "start_app",
            Gone, HalfGone(dirs["UPG"]))
    /\ Does("refresh", "DATA", "check", "check",
            dir_copy(dirs["CUR"], dirs["DATA"]), HalfDirCopy(dirs["CUR"], dirs["DATA"]))
    /\ Does("restore", "CUR", "choose", "choose",
            dir_copy(dirs["DATA"], dirs["CUR"]), HalfDirCopy(dirs["DATA"], dirs["CUR"]))
    /\ Does("lockBack", "CUR", "back", "back",
            [dirs["CUR"] EXCEPT !.mark = "bad"], {dirs["CUR"]})
    /\ Does("back", "CUR", "commitBack", "ended",
            appl_copy(dirs["PRE"], dirs["CUR"]), HalfApplCopy(dirs["PRE"], dirs["CUR"]))
    /\ Does("commitBack", "CUR", "copyBack", "copyBack",
            [dirs["CUR"] EXCEPT !.mark = "good"], {dirs["CUR"]})
    /\ Does("copyBack", "DATA", "start_app", "ended",
            dir_copy(dirs["CUR"], dirs["DATA"]), HalfDirCopy(dirs["CUR"], dirs["DATA"]))
<1>1. Does("lockPre", "PRE", "backup", "backup",
           [dirs["PRE"] EXCEPT !.mark = "bad"], {dirs["PRE"]})
  <2>1. Calls["lockPre"] = Call("bad", "none", "PRE", "backup", "backup") BY CallsAre
  <2>2. /\ Calls["lockPre"].op = "bad" /\ Calls["lockPre"].src = "none" /\ Calls["lockPre"].dst = "PRE"
        /\ Calls["lockPre"].then = "backup" /\ Calls["lockPre"].fails = "backup"
    BY <2>1, CallIs
  <2> QED BY <2>2, ResultIs DEF Does
<1>2. Does("backup", "PRE", "commitPre", "ended",
           appl_copy(dirs["CUR"], dirs["PRE"]), HalfApplCopy(dirs["CUR"], dirs["PRE"]))
  <2>1. Calls["backup"] = Call("copy", "CUR", "PRE", "commitPre", "ended") BY CallsAre
  <2>2. /\ Calls["backup"].op = "copy" /\ Calls["backup"].src = "CUR" /\ Calls["backup"].dst = "PRE"
        /\ Calls["backup"].then = "commitPre" /\ Calls["backup"].fails = "ended"
    BY <2>1, CallIs
  <2> QED BY <2>2, ResultIs DEF Does
<1>3. Does("commitPre", "PRE", "lockCur", "lockCur",
           [dirs["PRE"] EXCEPT !.mark = "good"], {dirs["PRE"]})
  <2>1. Calls["commitPre"] = Call("good", "none", "PRE", "lockCur", "lockCur") BY CallsAre
  <2>2. /\ Calls["commitPre"].op = "good" /\ Calls["commitPre"].src = "none" /\ Calls["commitPre"].dst = "PRE"
        /\ Calls["commitPre"].then = "lockCur" /\ Calls["commitPre"].fails = "lockCur"
    BY <2>1, CallIs
  <2> QED BY <2>2, ResultIs DEF Does
<1>4. Does("lockCur", "CUR", "overlap", "overlap",
           [dirs["CUR"] EXCEPT !.mark = "bad"], {dirs["CUR"]})
  <2>1. Calls["lockCur"] = Call("bad", "none", "CUR", "overlap", "overlap") BY CallsAre
  <2>2. /\ Calls["lockCur"].op = "bad" /\ Calls["lockCur"].src = "none" /\ Calls["lockCur"].dst = "CUR"
        /\ Calls["lockCur"].then = "overlap" /\ Calls["lockCur"].fails = "overlap"
    BY <2>1, CallIs
  <2> QED BY <2>2, ResultIs DEF Does
<1>5. Does("overlap", "CUR", "commitCur", "ended",
           appl_overlap(dirs["UPG"], dirs["CUR"]), HalfOverlap(dirs["UPG"], dirs["CUR"]))
  <2>1. Calls["overlap"] = Call("overlap", "UPG", "CUR", "commitCur", "ended") BY CallsAre
  <2>2. /\ Calls["overlap"].op = "overlap" /\ Calls["overlap"].src = "UPG" /\ Calls["overlap"].dst = "CUR"
        /\ Calls["overlap"].then = "commitCur" /\ Calls["overlap"].fails = "ended"
    BY <2>1, CallIs
  <2> QED BY <2>2, ResultIs DEF Does
<1>6. Does("commitCur", "CUR", "copyData", "copyData",
           [dirs["CUR"] EXCEPT !.mark = "good"], {dirs["CUR"]})
  <2>1. Calls["commitCur"] = Call("good", "none", "CUR", "copyData", "copyData") BY CallsAre
  <2>2. /\ Calls["commitCur"].op = "good" /\ Calls["commitCur"].src = "none" /\ Calls["commitCur"].dst = "CUR"
        /\ Calls["commitCur"].then = "copyData" /\ Calls["commitCur"].fails = "copyData"
    BY <2>1, CallIs
  <2> QED BY <2>2, ResultIs DEF Does
<1>7. Does("copyData", "DATA", "rmUpg", "rmUpg",
           dir_copy(dirs["CUR"], dirs["DATA"]), HalfDirCopy(dirs["CUR"], dirs["DATA"]))
  <2>1. Calls["copyData"] = Call("dircopy", "CUR", "DATA", "rmUpg", "rmUpg") BY CallsAre
  <2>2. /\ Calls["copyData"].op = "dircopy" /\ Calls["copyData"].src = "CUR" /\ Calls["copyData"].dst = "DATA"
        /\ Calls["copyData"].then = "rmUpg" /\ Calls["copyData"].fails = "rmUpg"
    BY <2>1, CallIs
  <2> QED BY <2>2, ResultIs DEF Does
<1>8. Does("rmUpg", "UPG", "start_app", "start_app",
           Gone, HalfGone(dirs["UPG"]))
  <2>1. Calls["rmUpg"] = Call("remove", "none", "UPG", "start_app", "start_app") BY CallsAre
  <2>2. /\ Calls["rmUpg"].op = "remove" /\ Calls["rmUpg"].src = "none" /\ Calls["rmUpg"].dst = "UPG"
        /\ Calls["rmUpg"].then = "start_app" /\ Calls["rmUpg"].fails = "start_app"
    BY <2>1, CallIs
  <2> QED BY <2>2, ResultIs DEF Does
<1>9. Does("refresh", "DATA", "check", "check",
           dir_copy(dirs["CUR"], dirs["DATA"]), HalfDirCopy(dirs["CUR"], dirs["DATA"]))
  <2>1. Calls["refresh"] = Call("dircopy", "CUR", "DATA", "check", "check") BY CallsAre
  <2>2. /\ Calls["refresh"].op = "dircopy" /\ Calls["refresh"].src = "CUR" /\ Calls["refresh"].dst = "DATA"
        /\ Calls["refresh"].then = "check" /\ Calls["refresh"].fails = "check"
    BY <2>1, CallIs
  <2> QED BY <2>2, ResultIs DEF Does
<1>10. Does("restore", "CUR", "choose", "choose",
           dir_copy(dirs["DATA"], dirs["CUR"]), HalfDirCopy(dirs["DATA"], dirs["CUR"]))
  <2>1. Calls["restore"] = Call("dircopy", "DATA", "CUR", "choose", "choose") BY CallsAre
  <2>2. /\ Calls["restore"].op = "dircopy" /\ Calls["restore"].src = "DATA" /\ Calls["restore"].dst = "CUR"
        /\ Calls["restore"].then = "choose" /\ Calls["restore"].fails = "choose"
    BY <2>1, CallIs
  <2> QED BY <2>2, ResultIs DEF Does
<1>11. Does("lockBack", "CUR", "back", "back",
           [dirs["CUR"] EXCEPT !.mark = "bad"], {dirs["CUR"]})
  <2>1. Calls["lockBack"] = Call("bad", "none", "CUR", "back", "back") BY CallsAre
  <2>2. /\ Calls["lockBack"].op = "bad" /\ Calls["lockBack"].src = "none" /\ Calls["lockBack"].dst = "CUR"
        /\ Calls["lockBack"].then = "back" /\ Calls["lockBack"].fails = "back"
    BY <2>1, CallIs
  <2> QED BY <2>2, ResultIs DEF Does
<1>12. Does("back", "CUR", "commitBack", "ended",
           appl_copy(dirs["PRE"], dirs["CUR"]), HalfApplCopy(dirs["PRE"], dirs["CUR"]))
  <2>1. Calls["back"] = Call("copy", "PRE", "CUR", "commitBack", "ended") BY CallsAre
  <2>2. /\ Calls["back"].op = "copy" /\ Calls["back"].src = "PRE" /\ Calls["back"].dst = "CUR"
        /\ Calls["back"].then = "commitBack" /\ Calls["back"].fails = "ended"
    BY <2>1, CallIs
  <2> QED BY <2>2, ResultIs DEF Does
<1>13. Does("commitBack", "CUR", "copyBack", "copyBack",
           [dirs["CUR"] EXCEPT !.mark = "good"], {dirs["CUR"]})
  <2>1. Calls["commitBack"] = Call("good", "none", "CUR", "copyBack", "copyBack") BY CallsAre
  <2>2. /\ Calls["commitBack"].op = "good" /\ Calls["commitBack"].src = "none" /\ Calls["commitBack"].dst = "CUR"
        /\ Calls["commitBack"].then = "copyBack" /\ Calls["commitBack"].fails = "copyBack"
    BY <2>1, CallIs
  <2> QED BY <2>2, ResultIs DEF Does
<1>14. Does("copyBack", "DATA", "start_app", "ended",
           dir_copy(dirs["CUR"], dirs["DATA"]), HalfDirCopy(dirs["CUR"], dirs["DATA"]))
  <2>1. Calls["copyBack"] = Call("dircopy", "CUR", "DATA", "start_app", "ended") BY CallsAre
  <2>2. /\ Calls["copyBack"].op = "dircopy" /\ Calls["copyBack"].src = "CUR" /\ Calls["copyBack"].dst = "DATA"
        /\ Calls["copyBack"].then = "start_app" /\ Calls["copyBack"].fails = "ended"
    BY <2>1, CallIs
  <2> QED BY <2>2, ResultIs DEF Does
<1> QED BY <1>1, <1>2, <1>3, <1>4, <1>5, <1>6, <1>7, <1>8, <1>9, <1>10, <1>11, <1>12, <1>13, <1>14

-----------------------------------------------------------------------------
(* What a call does to the invariant.                                      *)

\* an image that is meant is whole
LEMMA KeptSane ==
    ASSUME NEW m, Sane(m), NEW i \in m
    PROVE  Complete(i) /\ i \in AllImages /\ i # Nothing /\ i[APP] \notin {"no", "part"}
<1>1. Complete(i) /\ APP \in Files BY VersionsAre DEF Sane
<1>2. i \in AllImages /\ i[APP] \notin {"no", "part"} BY <1>1 DEF Complete
<1>3. Nothing[APP] = "no" BY <1>1 DEF Nothing
<1> QED BY <1>1, <1>2, <1>3

LEMMA UpgradeKept ==
    ASSUME NEW c \in Dir, NEW p \in Dir, NEW u \in Dir, NEW d \in Dir, NEW m, NEW r, NEW fs, Sane(m)
    PROVE  /\ Kept(c, p, u, d, "lockPre", m, r, fs) => Kept(c, [p EXCEPT !.mark = "bad"], u, d, "backup", m, r, fs)
           /\ Kept(c, p, u, d, "backup", m, r, fs) => Kept(c, appl_copy(c, p), u, d, "commitPre", m, r, fs)
           /\ Kept(c, p, u, d, "commitPre", m, r, fs) => Kept(c, [p EXCEPT !.mark = "good"], u, d, "lockCur", m, r, fs)
           /\ Kept(c, p, u, d, "lockCur", m, r, fs) => Kept([c EXCEPT !.mark = "bad"], p, u, d, "overlap", m, r, fs)
           /\ Kept(c, p, u, d, "overlap", m, r, fs) => Kept(appl_overlap(u, c), p, u, d, "commitCur", m, r, fs)
           /\ Kept(c, p, u, d, "commitCur", m, r, fs) => Kept([c EXCEPT !.mark = "good"], p, u, d, "copyData", m, r, fs)
           /\ \A e : Kept(c, p, u, d, "copyData", m, r, fs) => Kept(c, p, u, e, "rmUpg", m, r, fs)
<1> USE DEF Upgrading, Starting, GoingBack
<1>1. ASSUME Kept(c, p, u, d, "lockPre", m, r, fs)
      PROVE  Kept(c, [p EXCEPT !.mark = "bad"], u, d, "backup", m, r, fs)
  <2> DEFINE x == [p EXCEPT !.mark = "bad"]
  <2>1. ~IsGood(x) BY DEF Dir, IsGood
  <2> HIDE DEF x
  <2>2. Placed(c, u, "backup", m, r, fs) BY <1>1 DEF Kept, Erased, Placed
  <2>3. Behind(c, x, u, "backup", r, fs) BY <1>1, <2>1 DEF Kept, Behind
  <2> QED BY <1>1, <2>2, <2>3 DEF Kept, x
<1>2. ASSUME Kept(c, p, u, d, "backup", m, r, fs)
      PROVE  Kept(c, appl_copy(c, p), u, d, "commitPre", m, r, fs)
  <2> DEFINE x == appl_copy(c, p)
  <2>1. c.img # Nothing => x.img = c.img BY ApplCopyIs
  <2>2. c.img \in r => c.img # Nothing BY <1>2, KeptSane DEF Kept
  <2> HIDE DEF x
  <2>3. Placed(c, u, "commitPre", m, r, fs) BY <1>2 DEF Kept, Erased, Placed
  <2>4. Behind(c, x, u, "commitPre", r, fs) BY <1>2, <2>1, <2>2 DEF Kept, Behind
  <2> QED BY <1>2, <2>3, <2>4 DEF Kept, x
<1>3. ASSUME Kept(c, p, u, d, "commitPre", m, r, fs)
      PROVE  Kept(c, [p EXCEPT !.mark = "good"], u, d, "lockCur", m, r, fs)
  <2> DEFINE x == [p EXCEPT !.mark = "good"]
  <2>1. IsGood(x) /\ x.img = p.img BY DEF Dir, IsGood
  <2> HIDE DEF x
  <2>2. Placed(c, u, "lockCur", m, r, fs) BY <1>3 DEF Kept, Erased, Placed
  <2>3. Behind(c, x, u, "lockCur", r, fs) BY <1>3, <2>1 DEF Kept, Behind
  <2> QED BY <1>3, <2>2, <2>3 DEF Kept, x
<1>4. ASSUME Kept(c, p, u, d, "lockCur", m, r, fs)
      PROVE  Kept([c EXCEPT !.mark = "bad"], p, u, d, "overlap", m, r, fs)
  <2> DEFINE x == [c EXCEPT !.mark = "bad"]
  <2>1. x.img = c.img BY DEF Dir
  <2> HIDE DEF x
  <2>2. Placed(x, u, "overlap", m, r, fs) BY <1>4, <2>1 DEF Kept, Erased, Placed, Will
  <2>3. Behind(x, p, u, "overlap", r, fs) BY <1>4, <2>1 DEF Kept, Behind
  <2> QED BY <1>4, <2>2, <2>3 DEF Kept, x
<1>5. ASSUME Kept(c, p, u, d, "overlap", m, r, fs)
      PROVE  Kept(appl_overlap(u, c), p, u, d, "commitCur", m, r, fs)
  <2> DEFINE x == appl_overlap(u, c)
  <2>1. x.img = Over(u.img, c.img) /\ u.img \in AllImages /\ c.img \in AllImages BY OverlapIs DEF Dir
  <2>2. Over(u.img, x.img) = x.img BY <2>1, OverIs
  <2> HIDE DEF x
  <2>3. Placed(x, u, "commitCur", m, r, fs) BY <1>5, <2>1, <2>2 DEF Kept, Erased, Placed, Will, Fits
  <2>4. Behind(x, p, u, "commitCur", r, fs) BY <1>5 DEF Kept, Behind
  <2> QED BY <1>5, <2>3, <2>4 DEF Kept, x
<1>6. ASSUME Kept(c, p, u, d, "commitCur", m, r, fs)
      PROVE  Kept([c EXCEPT !.mark = "good"], p, u, d, "copyData", m, r, fs)
  <2> DEFINE x == [c EXCEPT !.mark = "good"]
  <2>1. x.img = c.img /\ IsGood(x) BY DEF Dir, IsGood
  <2> HIDE DEF x
  <2>2. Placed(x, u, "copyData", m, r, fs) BY <1>6, <2>1 DEF Kept, Erased, Placed, Will, Fits
  <2>3. Behind(x, p, u, "copyData", r, fs) BY <1>6, <2>1 DEF Kept, Behind
  <2> QED BY <1>6, <2>2, <2>3 DEF Kept, x
<1>7. ASSUME NEW e, Kept(c, p, u, d, "copyData", m, r, fs)
      PROVE  Kept(c, p, u, e, "rmUpg", m, r, fs)
  <2>1. Placed(c, u, "rmUpg", m, r, fs) BY <1>7 DEF Kept, Erased, Placed
  <2>2. Behind(c, p, u, "rmUpg", r, fs) BY <1>7 DEF Kept, Behind
  <2> QED BY <1>7, <2>1, <2>2 DEF Kept
<1> QED BY <1>1, <1>2, <1>3, <1>4, <1>5, <1>6, <1>7

LEMMA StartKept ==
    ASSUME NEW c \in Dir, NEW p \in Dir, NEW u \in Dir, NEW d \in Dir, NEW m, NEW r, NEW fs, Sane(m)
    PROVE  /\ Kept(c, p, u, d, "rmUpg", m, r, fs) => Kept(c, p, Gone, d, "start_app", m, r, fs)
           /\ Kept(c, p, u, d, "refresh", m, r, fs) => Kept(c, p, u, dir_copy(c, d), "check", m, r, fs)
           /\ Kept(c, p, u, d, "restore", m, r, fs) => Kept(dir_copy(d, c), p, u, d, "choose", m, r, fs)
<1> USE DEF Upgrading, Starting, GoingBack
<1>0. ~IsGood(Gone) BY DEF Gone, IsGood
<1>1. ASSUME Kept(c, p, u, d, "rmUpg", m, r, fs)
      PROVE  Kept(c, p, Gone, d, "start_app", m, r, fs)
  <2>1. Erased(c, p, u, d, "rmUpg", fs) => Erased(c, p, Gone, d, "start_app", fs) BY DEF Erased
  <2>2. Placed(c, u, "rmUpg", m, r, fs) => Placed(c, Gone, "start_app", m, r, fs) BY <1>0 DEF Placed
  <2>3. Behind(c, p, Gone, "start_app", r, fs) BY <1>0, <1>1 DEF Kept, Behind
  <2> QED BY <1>1, <2>1, <2>2, <2>3 DEF Kept
<1>2. ASSUME Kept(c, p, u, d, "refresh", m, r, fs)
      PROVE  Kept(c, p, u, dir_copy(c, d), "check", m, r, fs)
  <2>1. Erased(c, p, u, d, "refresh", fs) => Erased(c, p, u, dir_copy(c, d), "check", fs)
    <3>1. c = Gone => dir_copy(c, d) = d BY DirCopyIs DEF Gone
    <3> QED BY <3>1 DEF Erased
  <2>2. Placed(c, u, "refresh", m, r, fs) => Placed(c, u, "check", m, r, fs) BY DEF Placed
  <2>3. Behind(c, p, u, "check", r, fs) BY <1>2 DEF Kept, Behind
  <2> QED BY <1>2, <2>1, <2>2, <2>3 DEF Kept
<1>3. ASSUME Kept(c, p, u, d, "restore", m, r, fs)
      PROVE  Kept(dir_copy(d, c), p, u, d, "choose", m, r, fs)
  <2> DEFINE x == dir_copy(d, c)
  <2>1. /\ fs = {"erased"} /\ u = Gone /\ IsGood(d) /\ d.img = Factory BY <1>3 DEF Kept, Erased, Placed
  <2>2. IsGood(x) /\ x.img = Factory BY <2>1, DirCopyIs DEF IsGood
  <2>3. Factory \in m BY DEF Sane
  <2>4. ~MayGoBack(fs) BY <2>1 DEF MayGoBack
  <2> HIDE DEF x
  <2>5. Placed(x, u, "choose", m, r, fs) BY <1>0, <2>1, <2>2, <2>3 DEF Placed
  <2>6. Behind(x, p, u, "choose", r, fs) BY <2>4 DEF Behind
  <2> QED BY <1>3, <2>5, <2>6 DEF Kept, x
<1> QED BY <1>1, <1>2, <1>3

LEMMA BackKept ==
    ASSUME NEW c \in Dir, NEW p \in Dir, NEW u \in Dir, NEW d \in Dir, NEW m, NEW r, NEW fs, Sane(m)
    PROVE  /\ Kept(c, p, u, d, "lockBack", m, r, fs) => Kept([c EXCEPT !.mark = "bad"], p, u, d, "back", m, r, fs)
           /\ Kept(c, p, u, d, "back", m, r, fs) => Kept(appl_copy(p, c), p, u, d, "commitBack", m, r, fs)
           /\ Kept(c, p, u, d, "commitBack", m, r, fs) => Kept([c EXCEPT !.mark = "good"], p, u, d, "copyBack", m, r, fs)
           /\ \A e : Kept(c, p, u, d, "copyBack", m, r, fs) => Kept(c, p, u, e, "start_app", m, r, fs)
<1> USE DEF Upgrading, Starting, GoingBack
<1>1. ASSUME Kept(c, p, u, d, "lockBack", m, r, fs)
      PROVE  Kept([c EXCEPT !.mark = "bad"], p, u, d, "back", m, r, fs)
  <2> DEFINE x == [c EXCEPT !.mark = "bad"]
  <2>2. Placed(x, u, "back", m, r, fs) BY <1>1 DEF Kept, Erased, Placed
  <2>3. Behind(x, p, u, "back", r, fs) BY <1>1 DEF Kept, Behind
  <2> QED BY <1>1, <2>2, <2>3 DEF Kept
<1>2. ASSUME Kept(c, p, u, d, "back", m, r, fs)
      PROVE  Kept(appl_copy(p, c), p, u, d, "commitBack", m, r, fs)
  <2> DEFINE x == appl_copy(p, c)
  <2>1. Placed(c, u, "back", m, r, fs) BY <1>2 DEF Kept, Erased
  <2>2. MayGoBack(fs) BY <2>1 DEF Placed, MayGoBack
  <2>3. IsGood(p) /\ p.img \in r /\ r \subseteq m BY <1>2, <2>2 DEF Kept, Behind
  <2>4. p.img # Nothing BY <2>3, KeptSane
  <2>5. x.img = p.img BY <2>4, ApplCopyIs
  <2> HIDE DEF x
  <2>6. Placed(x, u, "commitBack", m, r, fs) BY <2>1, <2>3, <2>5 DEF Placed
  <2>7. Behind(x, p, u, "commitBack", r, fs) BY <1>2, <2>3 DEF Kept, Behind
  <2> QED BY <1>2, <2>6, <2>7 DEF Kept, x
<1>3. ASSUME Kept(c, p, u, d, "commitBack", m, r, fs)
      PROVE  Kept([c EXCEPT !.mark = "good"], p, u, d, "copyBack", m, r, fs)
  <2> DEFINE x == [c EXCEPT !.mark = "good"]
  <2>1. x.img = c.img /\ IsGood(x) BY DEF Dir, IsGood
  <2> HIDE DEF x
  <2>2. Placed(x, u, "copyBack", m, r, fs) BY <1>3, <2>1 DEF Kept, Erased, Placed
  <2>3. Behind(x, p, u, "copyBack", r, fs) BY <1>3, <2>1 DEF Kept, Behind
  <2> QED BY <1>3, <2>2, <2>3 DEF Kept, x
<1>4. ASSUME NEW e, Kept(c, p, u, d, "copyBack", m, r, fs)
      PROVE  Kept(c, p, u, e, "start_app", m, r, fs)
  <2>1. Placed(c, u, "copyBack", m, r, fs) BY <1>4 DEF Kept, Erased
  <2>2. MayGoBack(fs) BY <2>1 DEF Placed, MayGoBack
  <2>3. IsGood(u) => IsPackage(u) BY <1>4, <2>2 DEF Kept, Behind
  <2>4. Placed(c, u, "start_app", m, r, fs) BY <2>1, <2>3 DEF Placed
  <2>5. Behind(c, p, u, "start_app", r, fs) BY <1>4 DEF Kept, Behind
  <2> QED BY <1>4, <2>4, <2>5 DEF Kept
<1> QED BY <1>1, <1>2, <1>3, <1>4

\* an upgrade that is in place still is when some of its files have been removed
LEMMA RemovedFits ==
    ASSUME NEW u \in Dir, NEW c \in Dir, Fits(u, c), NEW x \in HalfGone(u)
    PROVE  Fits(x, c)
<1>1. u.img \in AllImages /\ c.img \in AllImages /\ x.img \in AllImages BY HalfGoneIs DEF Dir
<1>2. \A f \in Files : x.img[f] \in {"no", u.img[f]} BY HalfGoneIs
<1>3. \A f \in Files : Over(u.img, c.img)[f] = IF u.img[f] = "no" THEN c.img[f] ELSE u.img[f] BY <1>1, OverIs
<1>4. \A f \in Files : u.img[f] = "no" \/ u.img[f] = c.img[f] BY <1>3 DEF Fits
<1>5. \A f \in Files : Over(x.img, c.img)[f] = c.img[f] BY <1>1, <1>2, <1>4, OverIs
<1>6. Over(x.img, c.img) \in AllImages BY <1>1, OverIs
<1> QED BY <1>1, <1>5, <1>6 DEF Fits, AllImages

\* the call at stage st fails
FailureEnds(c, p, u, d, st, m, r) ==
    /\ st = "lockPre" => Kept(c, p, u, d, "backup", m, r, {st})
    /\ \A x : st = "backup" => Kept(c, x, u, d, "ended", m, r, {st})
    /\ st = "commitPre" => Kept(c, p, u, d, "lockCur", m, r, {st})
    /\ st = "lockCur" => Kept(c, p, u, d, "overlap", m, r, {st})
    /\ \A x \in HalfOverlap(u, c) : st = "overlap" => Kept(x, p, u, d, "ended", m, r, {st})
    /\ st = "commitCur" => Kept(c, p, u, d, "copyData", m, r, {st})
    /\ \A x : st = "copyData" => Kept(c, p, u, x, "rmUpg", m, r, {st})
    /\ \A x \in HalfGone(u) : st = "rmUpg" => Kept(c, p, x, d, "start_app", m, r, {st})
    /\ \A x : st = "refresh" => Kept(c, p, u, x, "check", m, r, {st})
    /\ st \notin {"restore", "lockBack", "back", "commitBack", "copyBack"}

\* no harm is done when that is the only kind of fault
LEMMA FailureKept ==
    ASSUME NEW c \in Dir, NEW p \in Dir, NEW u \in Dir, NEW d \in Dir, NEW m, NEW r, NEW fs, NEW st,
           fs \subseteq {st}, Kept(c, p, u, d, st, m, r, fs)
    PROVE  FailureEnds(c, p, u, d, st, m, r)
<1> USE DEF Upgrading, Starting, GoingBack
<1>0. fs # {"erased"} \/ st = "erased" OBVIOUS
<1>1. st \in {"boot", "rmUpg", "start_app", "refresh", "check", "restore"} => fs # {"erased"} BY <1>0
<1>2. Placed(c, u, st, m, r, fs) /\ Behind(c, p, u, st, r, fs) /\ r \subseteq m BY <1>1 DEF Kept, Erased
<1>3. st # "commitCur" => fs # {"commitCur"} OBVIOUS
<1>4. st \notin {"hang", "commitCur"} => ~MayGoBack({st}) BY DEF MayGoBack
<1>5. st = "lockPre" => Kept(c, p, u, d, "backup", m, r, {st}) BY <1>2, <1>4 DEF Kept, Placed, Behind
<1>6. \A x : st = "backup" => Kept(c, x, u, d, "ended", m, r, {st}) BY <1>2, <1>4 DEF Kept, Placed, Behind
<1>7. st = "commitPre" => Kept(c, p, u, d, "lockCur", m, r, {st}) BY <1>2, <1>4 DEF Kept, Placed, Behind
<1>8. st = "lockCur" => Kept(c, p, u, d, "overlap", m, r, {st}) BY <1>2, <1>4 DEF Kept, Placed, Behind
<1>9. ASSUME NEW x \in HalfOverlap(u, c), st = "overlap" PROVE Kept(x, p, u, d, "ended", m, r, {st})
  <2>1. Will(u, x, m) <=> Will(u, c, m) BY OverlapIs DEF Will
  <2>2. Placed(x, u, "ended", m, r, {st}) BY <1>2, <1>4, <1>9, <2>1 DEF Placed
  <2> QED BY <1>2, <1>4, <1>9, <2>2 DEF Kept, Behind
<1>10. ASSUME st = "commitCur" PROVE Kept(c, p, u, d, "copyData", m, r, {st})
  <2>1. MayGoBack(fs) BY <1>10 DEF MayGoBack
  <2>2. Placed(c, u, "copyData", m, r, {st}) BY <1>2, <1>10 DEF Placed
  <2>3. Behind(c, p, u, "copyData", r, {st}) BY <1>2, <1>10, <2>1 DEF Behind
  <2> QED BY <1>2, <2>2, <2>3 DEF Kept
<1>11. \A x : st = "copyData" => Kept(c, p, u, x, "rmUpg", m, r, {st})
  BY <1>2, <1>3, <1>4 DEF Kept, Placed, Behind
<1>12. ASSUME NEW x \in HalfGone(u), st = "rmUpg" PROVE Kept(c, p, x, d, "start_app", m, r, {st})
  <2>1. IsGood(x) => IsGood(u) BY HalfGoneIs DEF IsGood
  <2>2. IsGood(x) => Will(x, c, m) BY <1>2, <1>12, <2>1, RemovedFits DEF Placed, Will, Fits
  <2>3. Placed(c, x, "start_app", m, r, {st}) BY <1>2, <1>3, <1>12, <2>2 DEF Placed
  <2> QED BY <1>2, <1>4, <1>12, <2>3 DEF Kept, Behind
<1>13. \A x : st = "refresh" => Kept(c, p, u, x, "check", m, r, {st})
  BY <1>2, <1>3, <1>4 DEF Kept, Placed, Behind
<1>14. st \notin {"restore", "lockBack", "back", "commitBack", "copyBack"} BY <1>2 DEF Placed
<1> QED BY <1>5, <1>6, <1>7, <1>8, <1>9, <1>10, <1>11, <1>12, <1>13, <1>14 DEF FailureEnds

\* the power is cut, and that is the only kind of fault
Restartable(c, u, m) ==
    /\ (IsGood(c) /\ c.img \in m) \/ (IsGood(u) /\ Will(u, c, m))
    /\ IsGood(u) => Will(u, c, m) \/ (IsPackage(u) /\ c.img \in m)

LEMMA CutKept ==
    ASSUME NEW c \in Dir, NEW p \in Dir, NEW u \in Dir, NEW d \in Dir, NEW m, NEW r, NEW fs, NEW st \in Stages,
           fs \subseteq {"cut"}, Kept(c, p, u, d, st, m, r, fs), Sane(m)
    PROVE  /\ Restartable(c, u, m) /\ r \subseteq m
           /\ \A x \in HalfOverlap(u, c) : st = "overlap" => Restartable(x, u, m)
           /\ \A x \in HalfGone(u) : st = "rmUpg" => Restartable(c, x, m)
           /\ st \notin GoingBack \cup {"restore"}
<1> USE DEF Upgrading, Starting, GoingBack
<1>1. fs # {"erased"} /\ fs # {"hang"} /\ fs # {"commitCur"} OBVIOUS
<1>2. Placed(c, u, st, m, r, fs) /\ Behind(c, p, u, st, r, fs) /\ r \subseteq m BY <1>1 DEF Kept, Erased
<1>3. st \notin GoingBack \cup {"restore", "exit"} BY <1>1, <1>2 DEF Placed
<1>4. (IsGood(c) /\ c.img \in m) \/ (IsGood(u) /\ Will(u, c, m))
  <2>1. CASE st \in {"boot", "ended"} BY <1>2, <2>1 DEF Placed
  <2>2. CASE st \in Upgrading BY <1>2, <2>2 DEF Placed
  <2>3. CASE st = "commitCur" BY <1>2, <2>3 DEF Placed, Will, Fits
  <2>4. CASE st \in {"copyData"} \cup Starting BY <1>1, <1>2, <2>4 DEF Placed
  <2>5. CASE st \in {"start", "run"} BY <1>2, <2>5 DEF Placed
  <2> QED BY <1>3, <2>1, <2>2, <2>3, <2>4, <2>5 DEF Stages
<1>5. IsGood(u) => Will(u, c, m) \/ (IsPackage(u) /\ c.img \in m) BY <1>2, <1>3 DEF Placed
<1>6. ASSUME NEW x \in HalfOverlap(u, c), st = "overlap" PROVE Restartable(x, u, m)
  <2>1. Will(u, x, m) <=> Will(u, c, m) BY OverlapIs DEF Will
  <2> QED BY <1>2, <1>6, <2>1 DEF Placed, Restartable
<1>7. ASSUME NEW x \in HalfGone(u), st = "rmUpg" PROVE Restartable(c, x, m)
  <2>1. IsGood(x) => IsGood(u) BY HalfGoneIs DEF IsGood
  <2>2. IsGood(x) => Will(x, c, m) BY <1>2, <1>7, <2>1, RemovedFits DEF Placed, Will, Fits
  <2>3. IsGood(c) /\ c.img \in m BY <1>1, <1>2, <1>7 DEF Placed
  <2> QED BY <2>2, <2>3 DEF Restartable
<1> QED BY <1>2, <1>3, <1>4, <1>5, <1>6, <1>7 DEF Restartable

LEMMA RestartKept ==
    ASSUME NEW c, NEW p, NEW u, NEW d, NEW m, NEW r, Restartable(c, u, m), r \subseteq m
    PROVE  Kept(c, p, u, d, "boot", m, r, {"cut"})
<1>1. ~MayGoBack({"cut"}) BY DEF MayGoBack
<1>2. Placed(c, u, "boot", m, r, {"cut"}) BY DEF Placed, Restartable, Upgrading, Starting, GoingBack
<1> QED BY <1>1, <1>2 DEF Kept, Behind

-----------------------------------------------------------------------------
(* Every step keeps the invariant.                                         *)

LEMMA MarkIs ==
    ASSUME NEW x \in Dir
    PROVE  [x EXCEPT !.mark = "bad"] \in Dir /\ [x EXCEPT !.mark = "good"] \in Dir
BY DEF Dir

LEMMA PlacesAre ==
    ASSUME NEW ds \in [Places -> Dir]
    PROVE  ds["CUR"] \in Dir /\ ds["PRE"] \in Dir /\ ds["UPG"] \in Dir /\ ds["DATA"] \in Dir
BY DEF Places

\* one directory changes
LEMMA OneDirectory ==
    ASSUME LauncherInv, NEW n \in Places, NEW x \in Dir, dirs' = [dirs EXCEPT ![n] = x],
           stage' \in Stages, starts' \in 0 .. 3, stage' \notin {"start", "run"} => starts' <= 2,
           Sane(meant'), IsFiniteSet(faults'),
           One(faults') => Kept(IF n = "CUR" THEN x ELSE dirs["CUR"], IF n = "PRE" THEN x ELSE dirs["PRE"],
                                IF n = "UPG" THEN x ELSE dirs["UPG"], IF n = "DATA" THEN x ELSE dirs["DATA"],
                                stage', meant', ran', faults')
    PROVE  LauncherInv'
<1>1. dirs \in [Places -> Dir] BY DEF LauncherInv, LTyped
<1>2. dirs' \in [Places -> Dir] BY <1>1
<1>3. /\ dirs'["CUR"] = IF n = "CUR" THEN x ELSE dirs["CUR"]
      /\ dirs'["PRE"] = IF n = "PRE" THEN x ELSE dirs["PRE"]
      /\ dirs'["UPG"] = IF n = "UPG" THEN x ELSE dirs["UPG"]
      /\ dirs'["DATA"] = IF n = "DATA" THEN x ELSE dirs["DATA"]
  BY <1>1 DEF Places
<1>4. LTyped(dirs', stage', starts') BY <1>2 DEF LTyped
<1>5. LKept(dirs', stage', meant', ran', faults') BY <1>3 DEF LKept
<1> QED BY <1>4, <1>5, LauncherInvNext

\* the four cases of it
LEMMA CurWritten ==
    ASSUME LauncherInv, NEW x \in Dir, dirs' = [dirs EXCEPT !["CUR"] = x],
           stage' \in Stages, starts' \in 0 .. 3, starts' <= 2, Sane(meant'), IsFiniteSet(faults'),
           One(faults') => Kept(x, dirs["PRE"], dirs["UPG"], dirs["DATA"], stage', meant', ran', faults')
    PROVE  LauncherInv'
BY OneDirectory DEF Places

LEMMA PreWritten ==
    ASSUME LauncherInv, NEW x \in Dir, dirs' = [dirs EXCEPT !["PRE"] = x],
           stage' \in Stages, starts' \in 0 .. 3, starts' <= 2, Sane(meant'), IsFiniteSet(faults'),
           One(faults') => Kept(dirs["CUR"], x, dirs["UPG"], dirs["DATA"], stage', meant', ran', faults')
    PROVE  LauncherInv'
BY OneDirectory DEF Places

LEMMA UpgWritten ==
    ASSUME LauncherInv, NEW x \in Dir, dirs' = [dirs EXCEPT !["UPG"] = x],
           stage' \in Stages, starts' \in 0 .. 3, starts' <= 2, Sane(meant'), IsFiniteSet(faults'),
           One(faults') => Kept(dirs["CUR"], dirs["PRE"], x, dirs["DATA"], stage', meant', ran', faults')
    PROVE  LauncherInv'
BY OneDirectory DEF Places

LEMMA DataWritten ==
    ASSUME LauncherInv, NEW x \in Dir, dirs' = [dirs EXCEPT !["DATA"] = x],
           stage' \in Stages, starts' \in 0 .. 3, starts' <= 2, Sane(meant'), IsFiniteSet(faults'),
           One(faults') => Kept(dirs["CUR"], dirs["PRE"], dirs["UPG"], x, stage', meant', ran', faults')
    PROVE  LauncherInv'
BY OneDirectory DEF Places

\* no directory changes
LEMMA NoDirectory ==
    ASSUME LauncherInv, dirs' = dirs,
           stage' \in Stages, starts' \in 0 .. 3, stage' \notin {"start", "run"} => starts' <= 2,
           Sane(meant'), IsFiniteSet(faults'),
           One(faults') => Kept(dirs["CUR"], dirs["PRE"], dirs["UPG"], dirs["DATA"], stage', meant', ran', faults')
    PROVE  LauncherInv'
<1>1. LTyped(dirs', stage', starts') BY DEF LauncherInv, LTyped
<1>2. LKept(dirs', stage', meant', ran', faults') BY DEF LKept
<1> QED BY <1>1, <1>2, LauncherInvNext

LEMMA SucceedsStep == LauncherInv /\ Succeeds => LauncherInv'
<1> SUFFICES ASSUME LauncherInv, Succeeds PROVE LauncherInv' OBVIOUS
<1> DEFINE c == dirs["CUR"]
           p == dirs["PRE"]
           u == dirs["UPG"]
           d == dirs["DATA"]
           K(a, b, e, f, st) == Kept(a, b, e, f, st, meant, ran, faults)
<1>1. /\ stage \in DOMAIN Calls /\ dirs' = [dirs EXCEPT ![Calls[stage].dst] = Result(Calls[stage])]
      /\ stage' = Calls[stage].then /\ UNCHANGED <<starts, meant, ran, faults>>
  BY DEF Succeeds, Writing
<1>2. /\ dirs \in [Places -> Dir] /\ starts \in 0 .. 3 /\ (stage \notin {"start", "run"} => starts <= 2)
      /\ Sane(meant') /\ IsFiniteSet(faults') /\ Sane(meant)
  BY <1>1 DEF LauncherInv, LTyped
<1>3. c \in Dir /\ p \in Dir /\ u \in Dir /\ d \in Dir BY <1>2, PlacesAre
<1>4. One(faults) => K(c, p, u, d, stage) BY DEF LauncherInv, LKept
<1>5. CASE stage = "lockPre"
  <2> DEFINE x == [p EXCEPT !.mark = "bad"]
  <2>1. Calls[stage].dst = "PRE" /\ Calls[stage].then = "backup" /\ Result(Calls[stage]) = x BY <1>5, CallsDo DEF Does
  <2>2. dirs' = [dirs EXCEPT !["PRE"] = x] /\ stage' = "backup" BY <1>1, <2>1
  <2>3. x \in Dir BY <1>3, MarkIs
  <2>4. One(faults) => K(c, x, u, d, "backup") BY <1>2, <1>3, <1>4, <1>5, UpgradeKept
  <2> HIDE DEF x
  <2>5. stage' \in Stages /\ starts' \in 0 .. 3 /\ starts' <= 2
    BY <1>1, <1>2, <1>5, <2>2 DEF Stages, Upgrading, Starting, GoingBack
  <2>6. One(faults') => Kept(c, x, u, d, stage', meant', ran', faults') BY <1>1, <2>2, <2>4
  <2> QED BY <1>2, <2>2, <2>3, <2>5, <2>6, PreWritten
<1>6. CASE stage = "backup"
  <2> DEFINE x == appl_copy(c, p)
  <2>1. Calls[stage].dst = "PRE" /\ Calls[stage].then = "commitPre" /\ Result(Calls[stage]) = x BY <1>6, CallsDo DEF Does
  <2>2. dirs' = [dirs EXCEPT !["PRE"] = x] /\ stage' = "commitPre" BY <1>1, <2>1
  <2>3. x \in Dir BY <1>3, ApplCopyIs
  <2>4. One(faults) => K(c, x, u, d, "commitPre") BY <1>2, <1>3, <1>4, <1>6, UpgradeKept
  <2> HIDE DEF x
  <2>5. stage' \in Stages /\ starts' \in 0 .. 3 /\ starts' <= 2
    BY <1>1, <1>2, <1>6, <2>2 DEF Stages, Upgrading, Starting, GoingBack
  <2>6. One(faults') => Kept(c, x, u, d, stage', meant', ran', faults') BY <1>1, <2>2, <2>4
  <2> QED BY <1>2, <2>2, <2>3, <2>5, <2>6, PreWritten
<1>7. CASE stage = "commitPre"
  <2> DEFINE x == [p EXCEPT !.mark = "good"]
  <2>1. Calls[stage].dst = "PRE" /\ Calls[stage].then = "lockCur" /\ Result(Calls[stage]) = x BY <1>7, CallsDo DEF Does
  <2>2. dirs' = [dirs EXCEPT !["PRE"] = x] /\ stage' = "lockCur" BY <1>1, <2>1
  <2>3. x \in Dir BY <1>3, MarkIs
  <2>4. One(faults) => K(c, x, u, d, "lockCur") BY <1>2, <1>3, <1>4, <1>7, UpgradeKept
  <2> HIDE DEF x
  <2>5. stage' \in Stages /\ starts' \in 0 .. 3 /\ starts' <= 2
    BY <1>1, <1>2, <1>7, <2>2 DEF Stages, Upgrading, Starting, GoingBack
  <2>6. One(faults') => Kept(c, x, u, d, stage', meant', ran', faults') BY <1>1, <2>2, <2>4
  <2> QED BY <1>2, <2>2, <2>3, <2>5, <2>6, PreWritten
<1>8. CASE stage = "lockCur"
  <2> DEFINE x == [c EXCEPT !.mark = "bad"]
  <2>1. Calls[stage].dst = "CUR" /\ Calls[stage].then = "overlap" /\ Result(Calls[stage]) = x BY <1>8, CallsDo DEF Does
  <2>2. dirs' = [dirs EXCEPT !["CUR"] = x] /\ stage' = "overlap" BY <1>1, <2>1
  <2>3. x \in Dir BY <1>3, MarkIs
  <2>4. One(faults) => K(x, p, u, d, "overlap") BY <1>2, <1>3, <1>4, <1>8, UpgradeKept
  <2> HIDE DEF x
  <2>5. stage' \in Stages /\ starts' \in 0 .. 3 /\ starts' <= 2
    BY <1>1, <1>2, <1>8, <2>2 DEF Stages, Upgrading, Starting, GoingBack
  <2>6. One(faults') => Kept(x, p, u, d, stage', meant', ran', faults') BY <1>1, <2>2, <2>4
  <2> QED BY <1>2, <2>2, <2>3, <2>5, <2>6, CurWritten
<1>9. CASE stage = "overlap"
  <2> DEFINE x == appl_overlap(u, c)
  <2>1. Calls[stage].dst = "CUR" /\ Calls[stage].then = "commitCur" /\ Result(Calls[stage]) = x BY <1>9, CallsDo DEF Does
  <2>2. dirs' = [dirs EXCEPT !["CUR"] = x] /\ stage' = "commitCur" BY <1>1, <2>1
  <2>3. x \in Dir BY <1>3, OverlapIs
  <2>4. One(faults) => K(x, p, u, d, "commitCur") BY <1>2, <1>3, <1>4, <1>9, UpgradeKept
  <2> HIDE DEF x
  <2>5. stage' \in Stages /\ starts' \in 0 .. 3 /\ starts' <= 2
    BY <1>1, <1>2, <1>9, <2>2 DEF Stages, Upgrading, Starting, GoingBack
  <2>6. One(faults') => Kept(x, p, u, d, stage', meant', ran', faults') BY <1>1, <2>2, <2>4
  <2> QED BY <1>2, <2>2, <2>3, <2>5, <2>6, CurWritten
<1>10. CASE stage = "commitCur"
  <2> DEFINE x == [c EXCEPT !.mark = "good"]
  <2>1. Calls[stage].dst = "CUR" /\ Calls[stage].then = "copyData" /\ Result(Calls[stage]) = x BY <1>10, CallsDo DEF Does
  <2>2. dirs' = [dirs EXCEPT !["CUR"] = x] /\ stage' = "copyData" BY <1>1, <2>1
  <2>3. x \in Dir BY <1>3, MarkIs
  <2>4. One(faults) => K(x, p, u, d, "copyData") BY <1>2, <1>3, <1>4, <1>10, UpgradeKept
  <2> HIDE DEF x
  <2>5. stage' \in Stages /\ starts' \in 0 .. 3 /\ starts' <= 2
    BY <1>1, <1>2, <1>10, <2>2 DEF Stages, Upgrading, Starting, GoingBack
  <2>6. One(faults') => Kept(x, p, u, d, stage', meant', ran', faults') BY <1>1, <2>2, <2>4
  <2> QED BY <1>2, <2>2, <2>3, <2>5, <2>6, CurWritten
<1>11. CASE stage = "copyData"
  <2> DEFINE x == dir_copy(c, d)
  <2>1. Calls[stage].dst = "DATA" /\ Calls[stage].then = "rmUpg" /\ Result(Calls[stage]) = x BY <1>11, CallsDo DEF Does
  <2>2. dirs' = [dirs EXCEPT !["DATA"] = x] /\ stage' = "rmUpg" BY <1>1, <2>1
  <2>3. x \in Dir BY <1>3, DirCopyIs
  <2>4. One(faults) => K(c, p, u, x, "rmUpg") BY <1>2, <1>3, <1>4, <1>11, UpgradeKept
  <2> HIDE DEF x
  <2>5. stage' \in Stages /\ starts' \in 0 .. 3 /\ starts' <= 2
    BY <1>1, <1>2, <1>11, <2>2 DEF Stages, Upgrading, Starting, GoingBack
  <2>6. One(faults') => Kept(c, p, u, x, stage', meant', ran', faults') BY <1>1, <2>2, <2>4
  <2> QED BY <1>2, <2>2, <2>3, <2>5, <2>6, DataWritten
<1>12. CASE stage = "rmUpg"
  <2> DEFINE x == Gone
  <2>1. Calls[stage].dst = "UPG" /\ Calls[stage].then = "start_app" /\ Result(Calls[stage]) = x BY <1>12, CallsDo DEF Does
  <2>2. dirs' = [dirs EXCEPT !["UPG"] = x] /\ stage' = "start_app" BY <1>1, <2>1
  <2>3. x \in Dir BY <1>3, ImagesAre
  <2>4. One(faults) => K(c, p, x, d, "start_app") BY <1>2, <1>3, <1>4, <1>12, StartKept
  <2> HIDE DEF x
  <2>5. stage' \in Stages /\ starts' \in 0 .. 3 /\ starts' <= 2
    BY <1>1, <1>2, <1>12, <2>2 DEF Stages, Upgrading, Starting, GoingBack
  <2>6. One(faults') => Kept(c, p, x, d, stage', meant', ran', faults') BY <1>1, <2>2, <2>4
  <2> QED BY <1>2, <2>2, <2>3, <2>5, <2>6, UpgWritten
<1>13. CASE stage = "refresh"
  <2> DEFINE x == dir_copy(c, d)
  <2>1. Calls[stage].dst = "DATA" /\ Calls[stage].then = "check" /\ Result(Calls[stage]) = x BY <1>13, CallsDo DEF Does
  <2>2. dirs' = [dirs EXCEPT !["DATA"] = x] /\ stage' = "check" BY <1>1, <2>1
  <2>3. x \in Dir BY <1>3, DirCopyIs
  <2>4. One(faults) => K(c, p, u, x, "check") BY <1>2, <1>3, <1>4, <1>13, StartKept
  <2> HIDE DEF x
  <2>5. stage' \in Stages /\ starts' \in 0 .. 3 /\ starts' <= 2
    BY <1>1, <1>2, <1>13, <2>2 DEF Stages, Upgrading, Starting, GoingBack
  <2>6. One(faults') => Kept(c, p, u, x, stage', meant', ran', faults') BY <1>1, <2>2, <2>4
  <2> QED BY <1>2, <2>2, <2>3, <2>5, <2>6, DataWritten
<1>14. CASE stage = "restore"
  <2> DEFINE x == dir_copy(d, c)
  <2>1. Calls[stage].dst = "CUR" /\ Calls[stage].then = "choose" /\ Result(Calls[stage]) = x BY <1>14, CallsDo DEF Does
  <2>2. dirs' = [dirs EXCEPT !["CUR"] = x] /\ stage' = "choose" BY <1>1, <2>1
  <2>3. x \in Dir BY <1>3, DirCopyIs
  <2>4. One(faults) => K(x, p, u, d, "choose") BY <1>2, <1>3, <1>4, <1>14, StartKept
  <2> HIDE DEF x
  <2>5. stage' \in Stages /\ starts' \in 0 .. 3 /\ starts' <= 2
    BY <1>1, <1>2, <1>14, <2>2 DEF Stages, Upgrading, Starting, GoingBack
  <2>6. One(faults') => Kept(x, p, u, d, stage', meant', ran', faults') BY <1>1, <2>2, <2>4
  <2> QED BY <1>2, <2>2, <2>3, <2>5, <2>6, CurWritten
<1>15. CASE stage = "lockBack"
  <2> DEFINE x == [c EXCEPT !.mark = "bad"]
  <2>1. Calls[stage].dst = "CUR" /\ Calls[stage].then = "back" /\ Result(Calls[stage]) = x BY <1>15, CallsDo DEF Does
  <2>2. dirs' = [dirs EXCEPT !["CUR"] = x] /\ stage' = "back" BY <1>1, <2>1
  <2>3. x \in Dir BY <1>3, MarkIs
  <2>4. One(faults) => K(x, p, u, d, "back") BY <1>2, <1>3, <1>4, <1>15, BackKept
  <2> HIDE DEF x
  <2>5. stage' \in Stages /\ starts' \in 0 .. 3 /\ starts' <= 2
    BY <1>1, <1>2, <1>15, <2>2 DEF Stages, Upgrading, Starting, GoingBack
  <2>6. One(faults') => Kept(x, p, u, d, stage', meant', ran', faults') BY <1>1, <2>2, <2>4
  <2> QED BY <1>2, <2>2, <2>3, <2>5, <2>6, CurWritten
<1>16. CASE stage = "back"
  <2> DEFINE x == appl_copy(p, c)
  <2>1. Calls[stage].dst = "CUR" /\ Calls[stage].then = "commitBack" /\ Result(Calls[stage]) = x BY <1>16, CallsDo DEF Does
  <2>2. dirs' = [dirs EXCEPT !["CUR"] = x] /\ stage' = "commitBack" BY <1>1, <2>1
  <2>3. x \in Dir BY <1>3, ApplCopyIs
  <2>4. One(faults) => K(x, p, u, d, "commitBack") BY <1>2, <1>3, <1>4, <1>16, BackKept
  <2> HIDE DEF x
  <2>5. stage' \in Stages /\ starts' \in 0 .. 3 /\ starts' <= 2
    BY <1>1, <1>2, <1>16, <2>2 DEF Stages, Upgrading, Starting, GoingBack
  <2>6. One(faults') => Kept(x, p, u, d, stage', meant', ran', faults') BY <1>1, <2>2, <2>4
  <2> QED BY <1>2, <2>2, <2>3, <2>5, <2>6, CurWritten
<1>17. CASE stage = "commitBack"
  <2> DEFINE x == [c EXCEPT !.mark = "good"]
  <2>1. Calls[stage].dst = "CUR" /\ Calls[stage].then = "copyBack" /\ Result(Calls[stage]) = x BY <1>17, CallsDo DEF Does
  <2>2. dirs' = [dirs EXCEPT !["CUR"] = x] /\ stage' = "copyBack" BY <1>1, <2>1
  <2>3. x \in Dir BY <1>3, MarkIs
  <2>4. One(faults) => K(x, p, u, d, "copyBack") BY <1>2, <1>3, <1>4, <1>17, BackKept
  <2> HIDE DEF x
  <2>5. stage' \in Stages /\ starts' \in 0 .. 3 /\ starts' <= 2
    BY <1>1, <1>2, <1>17, <2>2 DEF Stages, Upgrading, Starting, GoingBack
  <2>6. One(faults') => Kept(x, p, u, d, stage', meant', ran', faults') BY <1>1, <2>2, <2>4
  <2> QED BY <1>2, <2>2, <2>3, <2>5, <2>6, CurWritten
<1>18. CASE stage = "copyBack"
  <2> DEFINE x == dir_copy(c, d)
  <2>1. Calls[stage].dst = "DATA" /\ Calls[stage].then = "start_app" /\ Result(Calls[stage]) = x BY <1>18, CallsDo DEF Does
  <2>2. dirs' = [dirs EXCEPT !["DATA"] = x] /\ stage' = "start_app" BY <1>1, <2>1
  <2>3. x \in Dir BY <1>3, DirCopyIs
  <2>4. One(faults) => K(c, p, u, x, "start_app") BY <1>2, <1>3, <1>4, <1>18, BackKept
  <2> HIDE DEF x
  <2>5. stage' \in Stages /\ starts' \in 0 .. 3 /\ starts' <= 2
    BY <1>1, <1>2, <1>18, <2>2 DEF Stages, Upgrading, Starting, GoingBack
  <2>6. One(faults') => Kept(c, p, u, x, stage', meant', ran', faults') BY <1>1, <2>2, <2>4
  <2> QED BY <1>2, <2>2, <2>3, <2>5, <2>6, DataWritten
<1> QED BY <1>1, <1>5, <1>6, <1>7, <1>8, <1>9, <1>10, <1>11, <1>12, <1>13, <1>14, <1>15, <1>16, <1>17, <1>18, CallsAre

LEMMA FailsStep == LauncherInv /\ Fails => LauncherInv'
<1> SUFFICES ASSUME LauncherInv, Fails PROVE LauncherInv' OBVIOUS
<1> DEFINE c == dirs["CUR"]
           p == dirs["PRE"]
           u == dirs["UPG"]
           d == dirs["DATA"]
           K(a, b, e, f, st) == Kept(a, b, e, f, st, meant, ran, {stage})
<1>1. PICK x \in Broken(Calls[stage]) :
         /\ stage \in DOMAIN Calls /\ dirs' = [dirs EXCEPT ![Calls[stage].dst] = x]
         /\ stage' = Calls[stage].fails /\ UNCHANGED <<starts, meant, ran>> /\ faults' = faults \cup {stage}
  BY DEF Fails, Writing, Faulty
<1>2. /\ dirs \in [Places -> Dir] /\ starts \in 0 .. 3 /\ (stage \notin {"start", "run"} => starts <= 2)
      /\ Sane(meant') /\ IsFiniteSet(faults')
  <2>1. IsFiniteSet(faults \cup {stage}) BY FS_AddElement DEF LauncherInv
  <2> QED BY <1>1, <2>1 DEF LauncherInv, LTyped
<1>3. c \in Dir /\ p \in Dir /\ u \in Dir /\ d \in Dir BY <1>2, PlacesAre
<1>4. One(faults') => faults \subseteq {stage} /\ faults' = {stage} /\ One(faults) BY <1>1 DEF One
<1>5. One(faults') => Kept(c, p, u, d, stage, meant, ran, faults) BY <1>4 DEF LauncherInv, LKept
<1>6. One(faults') => FailureEnds(c, p, u, d, stage, meant, ran) BY <1>3, <1>4, <1>5, FailureKept
<1>7. CASE stage = "lockPre"
  <2>1. Calls[stage].dst = "PRE" /\ Calls[stage].fails = "backup" /\ Broken(Calls[stage]) = {p} BY <1>7, CallsDo DEF Does
  <2>2. x \in {p} /\ x \in Dir BY <1>1, <1>3, <2>1
  <2>3. dirs' = [dirs EXCEPT !["PRE"] = x] /\ stage' = "backup" BY <1>1, <2>1
  <2>4. One(faults') => K(c, x, u, d, "backup") BY <1>6, <1>7, <2>2 DEF FailureEnds
  <2>5. stage' \in Stages /\ starts' \in 0 .. 3 /\ starts' <= 2
    BY <1>1, <1>2, <1>7, <2>3 DEF Stages, Upgrading, Starting, GoingBack
  <2>6. One(faults') => Kept(c, x, u, d, stage', meant', ran', faults') BY <1>1, <1>4, <2>3, <2>4
  <2> QED BY <1>2, <2>2, <2>3, <2>5, <2>6, PreWritten
<1>8. CASE stage = "backup"
  <2>1. Calls[stage].dst = "PRE" /\ Calls[stage].fails = "ended" /\ Broken(Calls[stage]) = HalfApplCopy(c, p) BY <1>8, CallsDo DEF Does
  <2>2. x \in HalfApplCopy(c, p) /\ x \in Dir BY <1>1, <1>3, <2>1, ApplCopyIs
  <2>3. dirs' = [dirs EXCEPT !["PRE"] = x] /\ stage' = "ended" BY <1>1, <2>1
  <2>4. One(faults') => K(c, x, u, d, "ended") BY <1>6, <1>8, <2>2 DEF FailureEnds
  <2>5. stage' \in Stages /\ starts' \in 0 .. 3 /\ starts' <= 2
    BY <1>1, <1>2, <1>8, <2>3 DEF Stages, Upgrading, Starting, GoingBack
  <2>6. One(faults') => Kept(c, x, u, d, stage', meant', ran', faults') BY <1>1, <1>4, <2>3, <2>4
  <2> QED BY <1>2, <2>2, <2>3, <2>5, <2>6, PreWritten
<1>9. CASE stage = "commitPre"
  <2>1. Calls[stage].dst = "PRE" /\ Calls[stage].fails = "lockCur" /\ Broken(Calls[stage]) = {p} BY <1>9, CallsDo DEF Does
  <2>2. x \in {p} /\ x \in Dir BY <1>1, <1>3, <2>1
  <2>3. dirs' = [dirs EXCEPT !["PRE"] = x] /\ stage' = "lockCur" BY <1>1, <2>1
  <2>4. One(faults') => K(c, x, u, d, "lockCur") BY <1>6, <1>9, <2>2 DEF FailureEnds
  <2>5. stage' \in Stages /\ starts' \in 0 .. 3 /\ starts' <= 2
    BY <1>1, <1>2, <1>9, <2>3 DEF Stages, Upgrading, Starting, GoingBack
  <2>6. One(faults') => Kept(c, x, u, d, stage', meant', ran', faults') BY <1>1, <1>4, <2>3, <2>4
  <2> QED BY <1>2, <2>2, <2>3, <2>5, <2>6, PreWritten
<1>10. CASE stage = "lockCur"
  <2>1. Calls[stage].dst = "CUR" /\ Calls[stage].fails = "overlap" /\ Broken(Calls[stage]) = {c} BY <1>10, CallsDo DEF Does
  <2>2. x \in {c} /\ x \in Dir BY <1>1, <1>3, <2>1
  <2>3. dirs' = [dirs EXCEPT !["CUR"] = x] /\ stage' = "overlap" BY <1>1, <2>1
  <2>4. One(faults') => K(x, p, u, d, "overlap") BY <1>6, <1>10, <2>2 DEF FailureEnds
  <2>5. stage' \in Stages /\ starts' \in 0 .. 3 /\ starts' <= 2
    BY <1>1, <1>2, <1>10, <2>3 DEF Stages, Upgrading, Starting, GoingBack
  <2>6. One(faults') => Kept(x, p, u, d, stage', meant', ran', faults') BY <1>1, <1>4, <2>3, <2>4
  <2> QED BY <1>2, <2>2, <2>3, <2>5, <2>6, CurWritten
<1>11. CASE stage = "overlap"
  <2>1. Calls[stage].dst = "CUR" /\ Calls[stage].fails = "ended" /\ Broken(Calls[stage]) = HalfOverlap(u, c) BY <1>11, CallsDo DEF Does
  <2>2. x \in HalfOverlap(u, c) /\ x \in Dir BY <1>1, <1>3, <2>1, OverlapIs
  <2>3. dirs' = [dirs EXCEPT !["CUR"] = x] /\ stage' = "ended" BY <1>1, <2>1
  <2>4. One(faults') => K(x, p, u, d, "ended") BY <1>6, <1>11, <2>2 DEF FailureEnds
  <2>5. stage' \in Stages /\ starts' \in 0 .. 3 /\ starts' <= 2
    BY <1>1, <1>2, <1>11, <2>3 DEF Stages, Upgrading, Starting, GoingBack
  <2>6. One(faults') => Kept(x, p, u, d, stage', meant', ran', faults') BY <1>1, <1>4, <2>3, <2>4
  <2> QED BY <1>2, <2>2, <2>3, <2>5, <2>6, CurWritten
<1>12. CASE stage = "commitCur"
  <2>1. Calls[stage].dst = "CUR" /\ Calls[stage].fails = "copyData" /\ Broken(Calls[stage]) = {c} BY <1>12, CallsDo DEF Does
  <2>2. x \in {c} /\ x \in Dir BY <1>1, <1>3, <2>1
  <2>3. dirs' = [dirs EXCEPT !["CUR"] = x] /\ stage' = "copyData" BY <1>1, <2>1
  <2>4. One(faults') => K(x, p, u, d, "copyData") BY <1>6, <1>12, <2>2 DEF FailureEnds
  <2>5. stage' \in Stages /\ starts' \in 0 .. 3 /\ starts' <= 2
    BY <1>1, <1>2, <1>12, <2>3 DEF Stages, Upgrading, Starting, GoingBack
  <2>6. One(faults') => Kept(x, p, u, d, stage', meant', ran', faults') BY <1>1, <1>4, <2>3, <2>4
  <2> QED BY <1>2, <2>2, <2>3, <2>5, <2>6, CurWritten
<1>13. CASE stage = "copyData"
  <2>1. Calls[stage].dst = "DATA" /\ Calls[stage].fails = "rmUpg" /\ Broken(Calls[stage]) = HalfDirCopy(c, d) BY <1>13, CallsDo DEF Does
  <2>2. x \in HalfDirCopy(c, d) /\ x \in Dir BY <1>1, <1>3, <2>1, DirCopyIs
  <2>3. dirs' = [dirs EXCEPT !["DATA"] = x] /\ stage' = "rmUpg" BY <1>1, <2>1
  <2>4. One(faults') => K(c, p, u, x, "rmUpg") BY <1>6, <1>13, <2>2 DEF FailureEnds
  <2>5. stage' \in Stages /\ starts' \in 0 .. 3 /\ starts' <= 2
    BY <1>1, <1>2, <1>13, <2>3 DEF Stages, Upgrading, Starting, GoingBack
  <2>6. One(faults') => Kept(c, p, u, x, stage', meant', ran', faults') BY <1>1, <1>4, <2>3, <2>4
  <2> QED BY <1>2, <2>2, <2>3, <2>5, <2>6, DataWritten
<1>14. CASE stage = "rmUpg"
  <2>1. Calls[stage].dst = "UPG" /\ Calls[stage].fails = "start_app" /\ Broken(Calls[stage]) = HalfGone(u) BY <1>14, CallsDo DEF Does
  <2>2. x \in HalfGone(u) /\ x \in Dir BY <1>1, <1>3, <2>1, HalfGoneIs
  <2>3. dirs' = [dirs EXCEPT !["UPG"] = x] /\ stage' = "start_app" BY <1>1, <2>1
  <2>4. One(faults') => K(c, p, x, d, "start_app") BY <1>6, <1>14, <2>2 DEF FailureEnds
  <2>5. stage' \in Stages /\ starts' \in 0 .. 3 /\ starts' <= 2
    BY <1>1, <1>2, <1>14, <2>3 DEF Stages, Upgrading, Starting, GoingBack
  <2>6. One(faults') => Kept(c, p, x, d, stage', meant', ran', faults') BY <1>1, <1>4, <2>3, <2>4
  <2> QED BY <1>2, <2>2, <2>3, <2>5, <2>6, UpgWritten
<1>15. CASE stage = "refresh"
  <2>1. Calls[stage].dst = "DATA" /\ Calls[stage].fails = "check" /\ Broken(Calls[stage]) = HalfDirCopy(c, d) BY <1>15, CallsDo DEF Does
  <2>2. x \in HalfDirCopy(c, d) /\ x \in Dir BY <1>1, <1>3, <2>1, DirCopyIs
  <2>3. dirs' = [dirs EXCEPT !["DATA"] = x] /\ stage' = "check" BY <1>1, <2>1
  <2>4. One(faults') => K(c, p, u, x, "check") BY <1>6, <1>15, <2>2 DEF FailureEnds
  <2>5. stage' \in Stages /\ starts' \in 0 .. 3 /\ starts' <= 2
    BY <1>1, <1>2, <1>15, <2>3 DEF Stages, Upgrading, Starting, GoingBack
  <2>6. One(faults') => Kept(c, p, u, x, stage', meant', ran', faults') BY <1>1, <1>4, <2>3, <2>4
  <2> QED BY <1>2, <2>2, <2>3, <2>5, <2>6, DataWritten
<1>16. CASE stage = "restore"
  <2>1. Calls[stage].dst = "CUR" /\ Calls[stage].fails = "choose" /\ Broken(Calls[stage]) = HalfDirCopy(d, c) BY <1>16, CallsDo DEF Does
  <2>2. x \in HalfDirCopy(d, c) /\ x \in Dir BY <1>1, <1>3, <2>1, DirCopyIs
  <2>3. dirs' = [dirs EXCEPT !["CUR"] = x] /\ stage' = "choose" BY <1>1, <2>1
  <2>4. One(faults') => K(x, p, u, d, "choose") BY <1>6, <1>16, <2>2 DEF FailureEnds
  <2>5. stage' \in Stages /\ starts' \in 0 .. 3 /\ starts' <= 2
    BY <1>1, <1>2, <1>16, <2>3 DEF Stages, Upgrading, Starting, GoingBack
  <2>6. One(faults') => Kept(x, p, u, d, stage', meant', ran', faults') BY <1>1, <1>4, <2>3, <2>4
  <2> QED BY <1>2, <2>2, <2>3, <2>5, <2>6, CurWritten
<1>17. CASE stage = "lockBack"
  <2>1. Calls[stage].dst = "CUR" /\ Calls[stage].fails = "back" /\ Broken(Calls[stage]) = {c} BY <1>17, CallsDo DEF Does
  <2>2. x \in {c} /\ x \in Dir BY <1>1, <1>3, <2>1
  <2>3. dirs' = [dirs EXCEPT !["CUR"] = x] /\ stage' = "back" BY <1>1, <2>1
  <2>4. One(faults') => K(x, p, u, d, "back") BY <1>6, <1>17, <2>2 DEF FailureEnds
  <2>5. stage' \in Stages /\ starts' \in 0 .. 3 /\ starts' <= 2
    BY <1>1, <1>2, <1>17, <2>3 DEF Stages, Upgrading, Starting, GoingBack
  <2>6. One(faults') => Kept(x, p, u, d, stage', meant', ran', faults') BY <1>1, <1>4, <2>3, <2>4
  <2> QED BY <1>2, <2>2, <2>3, <2>5, <2>6, CurWritten
<1>18. CASE stage = "back"
  <2>1. Calls[stage].dst = "CUR" /\ Calls[stage].fails = "ended" /\ Broken(Calls[stage]) = HalfApplCopy(p, c) BY <1>18, CallsDo DEF Does
  <2>2. x \in HalfApplCopy(p, c) /\ x \in Dir BY <1>1, <1>3, <2>1, ApplCopyIs
  <2>3. dirs' = [dirs EXCEPT !["CUR"] = x] /\ stage' = "ended" BY <1>1, <2>1
  <2>4. One(faults') => K(x, p, u, d, "ended") BY <1>6, <1>18, <2>2 DEF FailureEnds
  <2>5. stage' \in Stages /\ starts' \in 0 .. 3 /\ starts' <= 2
    BY <1>1, <1>2, <1>18, <2>3 DEF Stages, Upgrading, Starting, GoingBack
  <2>6. One(faults') => Kept(x, p, u, d, stage', meant', ran', faults') BY <1>1, <1>4, <2>3, <2>4
  <2> QED BY <1>2, <2>2, <2>3, <2>5, <2>6, CurWritten
<1>19. CASE stage = "commitBack"
  <2>1. Calls[stage].dst = "CUR" /\ Calls[stage].fails = "copyBack" /\ Broken(Calls[stage]) = {c} BY <1>19, CallsDo DEF Does
  <2>2. x \in {c} /\ x \in Dir BY <1>1, <1>3, <2>1
  <2>3. dirs' = [dirs EXCEPT !["CUR"] = x] /\ stage' = "copyBack" BY <1>1, <2>1
  <2>4. One(faults') => K(x, p, u, d, "copyBack") BY <1>6, <1>19, <2>2 DEF FailureEnds
  <2>5. stage' \in Stages /\ starts' \in 0 .. 3 /\ starts' <= 2
    BY <1>1, <1>2, <1>19, <2>3 DEF Stages, Upgrading, Starting, GoingBack
  <2>6. One(faults') => Kept(x, p, u, d, stage', meant', ran', faults') BY <1>1, <1>4, <2>3, <2>4
  <2> QED BY <1>2, <2>2, <2>3, <2>5, <2>6, CurWritten
<1>20. CASE stage = "copyBack"
  <2>1. Calls[stage].dst = "DATA" /\ Calls[stage].fails = "ended" /\ Broken(Calls[stage]) = HalfDirCopy(c, d) BY <1>20, CallsDo DEF Does
  <2>2. x \in HalfDirCopy(c, d) /\ x \in Dir BY <1>1, <1>3, <2>1, DirCopyIs
  <2>3. dirs' = [dirs EXCEPT !["DATA"] = x] /\ stage' = "ended" BY <1>1, <2>1
  <2>4. One(faults') => K(c, p, u, x, "ended") BY <1>6, <1>20, <2>2 DEF FailureEnds
  <2>5. stage' \in Stages /\ starts' \in 0 .. 3 /\ starts' <= 2
    BY <1>1, <1>2, <1>20, <2>3 DEF Stages, Upgrading, Starting, GoingBack
  <2>6. One(faults') => Kept(c, p, u, x, stage', meant', ran', faults') BY <1>1, <1>4, <2>3, <2>4
  <2> QED BY <1>2, <2>2, <2>3, <2>5, <2>6, DataWritten
<1> QED BY <1>1, <1>7, <1>8, <1>9, <1>10, <1>11, <1>12, <1>13, <1>14, <1>15, <1>16, <1>17, <1>18, <1>19, <1>20, CallsAre

\* the call that is under way when the power is cut
LEMMA BrokenAre ==
    ASSUME dirs \in [Places -> Dir], stage \in DOMAIN Calls, NEW x \in Broken(Calls[stage])
    PROVE  /\ Calls[stage].dst \in Places /\ x \in Dir
           /\ Calls[stage].dst = "CUR" => \/ stage \in GoingBack \cup {"restore"} \/ x = dirs["CUR"]
                                          \/ stage = "overlap" /\ x \in HalfOverlap(dirs["UPG"], dirs["CUR"])
           /\ Calls[stage].dst = "UPG" => stage = "rmUpg" /\ x \in HalfGone(dirs["UPG"])
<1>1. dirs["CUR"] \in Dir /\ dirs["PRE"] \in Dir /\ dirs["UPG"] \in Dir /\ dirs["DATA"] \in Dir BY PlacesAre
<1>2. CASE stage = "lockPre"
  <2>1. Calls[stage].dst = "PRE" /\ x \in {dirs["PRE"]} BY <1>2, CallsDo DEF Does
  <2>2. x \in Dir BY <1>1, <2>1
  <2> QED BY <1>2, <2>1, <2>2 DEF Places, GoingBack
<1>3. CASE stage = "backup"
  <2>1. Calls[stage].dst = "PRE" /\ x \in HalfApplCopy(dirs["CUR"], dirs["PRE"]) BY <1>3, CallsDo DEF Does
  <2>2. x \in Dir BY <1>1, <2>1, ApplCopyIs
  <2> QED BY <1>3, <2>1, <2>2 DEF Places, GoingBack
<1>4. CASE stage = "commitPre"
  <2>1. Calls[stage].dst = "PRE" /\ x \in {dirs["PRE"]} BY <1>4, CallsDo DEF Does
  <2>2. x \in Dir BY <1>1, <2>1
  <2> QED BY <1>4, <2>1, <2>2 DEF Places, GoingBack
<1>5. CASE stage = "lockCur"
  <2>1. Calls[stage].dst = "CUR" /\ x \in {dirs["CUR"]} BY <1>5, CallsDo DEF Does
  <2>2. x \in Dir BY <1>1, <2>1
  <2> QED BY <1>5, <2>1, <2>2 DEF Places, GoingBack
<1>6. CASE stage = "overlap"
  <2>1. Calls[stage].dst = "CUR" /\ x \in HalfOverlap(dirs["UPG"], dirs["CUR"]) BY <1>6, CallsDo DEF Does
  <2>2. x \in Dir BY <1>1, <2>1, OverlapIs
  <2> QED BY <1>6, <2>1, <2>2 DEF Places, GoingBack
<1>7. CASE stage = "commitCur"
  <2>1. Calls[stage].dst = "CUR" /\ x \in {dirs["CUR"]} BY <1>7, CallsDo DEF Does
  <2>2. x \in Dir BY <1>1, <2>1
  <2> QED BY <1>7, <2>1, <2>2 DEF Places, GoingBack
<1>8. CASE stage = "copyData"
  <2>1. Calls[stage].dst = "DATA" /\ x \in HalfDirCopy(dirs["CUR"], dirs["DATA"]) BY <1>8, CallsDo DEF Does
  <2>2. x \in Dir BY <1>1, <2>1, DirCopyIs
  <2> QED BY <1>8, <2>1, <2>2 DEF Places, GoingBack
<1>9. CASE stage = "rmUpg"
  <2>1. Calls[stage].dst = "UPG" /\ x \in HalfGone(dirs["UPG"]) BY <1>9, CallsDo DEF Does
  <2>2. x \in Dir BY <1>1, <2>1, HalfGoneIs
  <2> QED BY <1>9, <2>1, <2>2 DEF Places, GoingBack
<1>10. CASE stage = "refresh"
  <2>1. Calls[stage].dst = "DATA" /\ x \in HalfDirCopy(dirs["CUR"], dirs["DATA"]) BY <1>10, CallsDo DEF Does
  <2>2. x \in Dir BY <1>1, <2>1, DirCopyIs
  <2> QED BY <1>10, <2>1, <2>2 DEF Places, GoingBack
<1>11. CASE stage = "restore"
  <2>1. Calls[stage].dst = "CUR" /\ x \in HalfDirCopy(dirs["DATA"], dirs["CUR"]) BY <1>11, CallsDo DEF Does
  <2>2. x \in Dir BY <1>1, <2>1, DirCopyIs
  <2> QED BY <1>11, <2>1, <2>2 DEF Places, GoingBack
<1>12. CASE stage = "lockBack"
  <2>1. Calls[stage].dst = "CUR" /\ x \in {dirs["CUR"]} BY <1>12, CallsDo DEF Does
  <2>2. x \in Dir BY <1>1, <2>1
  <2> QED BY <1>12, <2>1, <2>2 DEF Places, GoingBack
<1>13. CASE stage = "back"
  <2>1. Calls[stage].dst = "CUR" /\ x \in HalfApplCopy(dirs["PRE"], dirs["CUR"]) BY <1>13, CallsDo DEF Does
  <2>2. x \in Dir BY <1>1, <2>1, ApplCopyIs
  <2> QED BY <1>13, <2>1, <2>2 DEF Places, GoingBack
<1>14. CASE stage = "commitBack"
  <2>1. Calls[stage].dst = "CUR" /\ x \in {dirs["CUR"]} BY <1>14, CallsDo DEF Does
  <2>2. x \in Dir BY <1>1, <2>1
  <2> QED BY <1>14, <2>1, <2>2 DEF Places, GoingBack
<1>15. CASE stage = "copyBack"
  <2>1. Calls[stage].dst = "DATA" /\ x \in HalfDirCopy(dirs["CUR"], dirs["DATA"]) BY <1>15, CallsDo DEF Does
  <2>2. x \in Dir BY <1>1, <2>1, DirCopyIs
  <2> QED BY <1>15, <2>1, <2>2 DEF Places, GoingBack
<1> QED BY <1>2, <1>3, <1>4, <1>5, <1>6, <1>7, <1>8, <1>9, <1>10, <1>11, <1>12, <1>13, <1>14, <1>15, CallsAre

LEMMA LauncherCutStep == LauncherInv /\ LauncherCut => LauncherInv'
<1> SUFFICES ASSUME LauncherInv, LauncherCut PROVE LauncherInv' OBVIOUS
<1> DEFINE c == dirs["CUR"]
           p == dirs["PRE"]
           u == dirs["UPG"]
           d == dirs["DATA"]
<1>1. /\ stage' = "boot" /\ starts' = 0 /\ meant' = meant /\ ran' = ran /\ faults' = faults \cup {"cut"}
      /\ \/ stage \in DOMAIN Calls /\ \E x \in Broken(Calls[stage]) : dirs' = [dirs EXCEPT ![Calls[stage].dst] = x]
         \/ dirs' = dirs
  BY DEF LauncherCut, Restarts, Faulty, Writing
<1>2. /\ dirs \in [Places -> Dir] /\ stage \in Stages /\ Sane(meant) /\ Sane(meant') /\ IsFiniteSet(faults')
  <2>1. IsFiniteSet(faults \cup {"cut"}) BY FS_AddElement DEF LauncherInv
  <2> QED BY <1>1, <2>1 DEF LauncherInv, LTyped
<1>3. c \in Dir /\ p \in Dir /\ u \in Dir /\ d \in Dir BY <1>2, PlacesAre
<1>4. One(faults') => faults \subseteq {"cut"} /\ faults' = {"cut"} /\ One(faults) BY <1>1 DEF One
<1>5. One(faults') => Kept(c, p, u, d, stage, meant, ran, faults) BY <1>4 DEF LauncherInv, LKept
<1>6. One(faults') =>
         /\ Restartable(c, u, meant) /\ ran \subseteq meant
         /\ \A x \in HalfOverlap(u, c) : stage = "overlap" => Restartable(x, u, meant)
         /\ \A x \in HalfGone(u) : stage = "rmUpg" => Restartable(c, x, meant)
         /\ stage \notin GoingBack \cup {"restore"}
  BY <1>2, <1>3, <1>4, <1>5, CutKept
<1>7. "boot" \in Stages BY DEF Stages
<1>8. CASE dirs' = dirs
  <2>1. One(faults') => Kept(c, p, u, d, "boot", meant, ran, {"cut"}) BY <1>6, RestartKept
  <2> QED BY <1>1, <1>2, <1>4, <1>7, <1>8, <2>1, NoDirectory
<1>9. CASE stage \in DOMAIN Calls /\ \E x \in Broken(Calls[stage]) : dirs' = [dirs EXCEPT ![Calls[stage].dst] = x]
  <2>1. PICK x \in Broken(Calls[stage]) : dirs' = [dirs EXCEPT ![Calls[stage].dst] = x] BY <1>9
  <2> DEFINE n == Calls[stage].dst
             cc == IF n = "CUR" THEN x ELSE c
             uu == IF n = "UPG" THEN x ELSE u
             pp == IF n = "PRE" THEN x ELSE p
             dd == IF n = "DATA" THEN x ELSE d
  <2>2. /\ n \in Places /\ x \in Dir
        /\ n = "CUR" => \/ stage \in GoingBack \cup {"restore"} \/ x = c
                        \/ stage = "overlap" /\ x \in HalfOverlap(u, c)
        /\ n = "UPG" => stage = "rmUpg" /\ x \in HalfGone(u)
    BY <1>2, <1>9, BrokenAre
  <2> HIDE DEF n, c, u, p, d
  <2>3. One(faults') => Restartable(cc, uu, meant) /\ ran \subseteq meant BY <1>6, <2>2
  <2> HIDE DEF cc, uu, pp, dd
  <2>4. One(faults') => Kept(cc, pp, uu, dd, "boot", meant, ran, {"cut"}) BY <2>3, RestartKept
  <2>5. One(faults') => Kept(cc, pp, uu, dd, stage', meant', ran', faults') BY <1>1, <1>4, <2>4
  <2>6. stage' \in Stages /\ starts' \in 0 .. 3 /\ starts' <= 2 BY <1>1, <1>7
  <2>7. dirs' = [dirs EXCEPT ![n] = x] BY <2>1 DEF n
  <2> QED BY <1>2, <2>2, <2>5, <2>6, <2>7, OneDirectory DEF cc, uu, pp, dd, c, u, p, d
<1> QED BY <1>1, <1>8, <1>9

\* The tests of main, which change no directory.
LEMMA TestsKept ==
    ASSUME NEW c \in Dir, NEW p \in Dir, NEW u \in Dir, NEW d \in Dir, NEW m, NEW r, NEW fs, Sane(m)
    PROVE  /\ \A e : Kept(c, p, u, d, "start_app", m, r, fs) /\ e \in {"check", "refresh"}
                        => Kept(c, p, u, d, e, m, r, fs)
           /\ Kept(c, p, u, d, "check", m, r, fs)
                 => Kept(c, p, u, d, IF IsGood(c) \/ IsGood(p) THEN "choose" ELSE "restore", m, r, fs)
           /\ Kept(c, p, u, d, "choose", m, r, fs)
                 => Kept(c, p, u, d, IF IsGood(c) THEN "start" ELSE "roll_back", m, r, fs)
           /\ Kept(c, p, u, d, "roll_back", m, r, fs)
                 => IsGood(p) /\ Kept(c, p, u, d, "lockBack", m, r, fs)
           /\ Kept(c, p, u, d, "start", m, r, fs) => Kept(c, p, u, d, "run", m, r \cup {c.img}, fs)
           /\ Kept(c, p, u, d, "run", m, r, fs) => Kept(c, p, u, d, "start", m, r, fs)
           /\ \A e : e \in {"run", "exit", "ended"} /\ Kept(c, p, u, d, e, m, r, fs)
                        => Kept(c, p, u, d, "boot", m, r, fs)
<1> USE DEF Upgrading, Starting, GoingBack
<1>0. ~IsGood(Gone) BY DEF Gone, IsGood
<1>1. ASSUME NEW e \in {"check", "refresh"}, Kept(c, p, u, d, "start_app", m, r, fs)
      PROVE  Kept(c, p, u, d, e, m, r, fs)
  <2>1. Erased(c, p, u, d, "start_app", fs) => Erased(c, p, u, d, e, fs) BY DEF Erased
  <2>2. Placed(c, u, "start_app", m, r, fs) => Placed(c, u, e, m, r, fs) BY DEF Placed
  <2>3. Behind(c, p, u, e, r, fs) BY <1>1 DEF Kept, Behind
  <2> QED BY <1>1, <2>1, <2>2, <2>3 DEF Kept
<1>2. ASSUME Kept(c, p, u, d, "check", m, r, fs)
      PROVE  Kept(c, p, u, d, IF IsGood(c) \/ IsGood(p) THEN "choose" ELSE "restore", m, r, fs)
  <2>1. CASE Erased(c, p, u, d, "check", fs)
    <3>1. ~IsGood(c) /\ ~IsGood(p) BY <1>0, <2>1 DEF Erased
    <3>2. Erased(c, p, u, d, "restore", fs) BY <2>1 DEF Erased
    <3>3. Behind(c, p, u, "restore", r, fs) BY <1>2 DEF Kept, Behind
    <3> QED BY <1>2, <3>1, <3>2, <3>3 DEF Kept
  <2>2. CASE Placed(c, u, "check", m, r, fs)
    <3>1. IsGood(c) \/ IsGood(p) BY <1>2, <2>2 DEF Kept, Placed, Behind, MayGoBack
    <3>2. Placed(c, u, "choose", m, r, fs) BY <2>2 DEF Placed
    <3>3. Behind(c, p, u, "choose", r, fs) BY <1>2 DEF Kept, Behind
    <3> QED BY <1>2, <3>1, <3>2, <3>3 DEF Kept
  <2> QED BY <1>2, <2>1, <2>2 DEF Kept
<1>3. ASSUME Kept(c, p, u, d, "choose", m, r, fs)
      PROVE  Kept(c, p, u, d, IF IsGood(c) THEN "start" ELSE "roll_back", m, r, fs)
  <2>1. Placed(c, u, "choose", m, r, fs) BY <1>3 DEF Kept, Erased
  <2>2. CASE IsGood(c)
    <3>1. Placed(c, u, "start", m, r, fs) BY <2>1, <2>2 DEF Placed
    <3>2. Behind(c, p, u, "start", r, fs) BY <1>3 DEF Kept, Behind
    <3> QED BY <1>3, <2>2, <3>1, <3>2 DEF Kept
  <2>3. CASE ~IsGood(c)
    <3>1. Placed(c, u, "roll_back", m, r, fs) BY <2>1, <2>3 DEF Placed
    <3>2. Behind(c, p, u, "roll_back", r, fs) BY <1>3, <2>3 DEF Kept, Behind
    <3> QED BY <1>3, <2>3, <3>1, <3>2 DEF Kept
  <2> QED BY <2>2, <2>3
<1>4. ASSUME Kept(c, p, u, d, "roll_back", m, r, fs)
      PROVE  IsGood(p) /\ Kept(c, p, u, d, "lockBack", m, r, fs)
  <2>1. Placed(c, u, "roll_back", m, r, fs) BY <1>4 DEF Kept, Erased
  <2>2. MayGoBack(fs) BY <2>1 DEF Placed, MayGoBack
  <2>3. IsGood(p) BY <1>4, <2>2 DEF Kept, Behind
  <2>4. Placed(c, u, "lockBack", m, r, fs) BY <2>1 DEF Placed
  <2>5. Behind(c, p, u, "lockBack", r, fs) BY <1>4 DEF Kept, Behind
  <2> QED BY <1>4, <2>3, <2>4, <2>5 DEF Kept
<1>5. ASSUME Kept(c, p, u, d, "start", m, r, fs) PROVE Kept(c, p, u, d, "run", m, r \cup {c.img}, fs)
  <2>1. Placed(c, u, "start", m, r, fs) BY <1>5 DEF Kept, Erased
  <2>2. Placed(c, u, "run", m, r \cup {c.img}, fs) BY <2>1 DEF Placed
  <2>3. Behind(c, p, u, "run", r \cup {c.img}, fs) BY <1>5 DEF Kept, Behind
  <2>4. r \cup {c.img} \subseteq m BY <1>5, <2>1 DEF Kept, Placed
  <2> QED BY <2>2, <2>3, <2>4 DEF Kept
<1>6. ASSUME Kept(c, p, u, d, "run", m, r, fs) PROVE Kept(c, p, u, d, "start", m, r, fs)
  <2>1. Placed(c, u, "run", m, r, fs) BY <1>6 DEF Kept, Erased
  <2>2. Placed(c, u, "start", m, r, fs) BY <2>1 DEF Placed
  <2>3. Behind(c, p, u, "start", r, fs) BY <1>6 DEF Kept, Behind
  <2> QED BY <1>6, <2>2, <2>3 DEF Kept
<1>7. ASSUME NEW e \in {"run", "exit", "ended"}, Kept(c, p, u, d, e, m, r, fs)
      PROVE  Kept(c, p, u, d, "boot", m, r, fs)
  <2>1. Placed(c, u, e, m, r, fs) BY <1>7 DEF Kept, Erased
  <2>2. Placed(c, u, "boot", m, r, fs) BY <2>1 DEF Placed
  <2>3. Behind(c, p, u, "boot", r, fs) BY <1>7, <2>1 DEF Kept, Behind, Placed
  <2> QED BY <1>7, <2>2, <2>3 DEF Kept
<1> QED BY <1>1, <1>2, <1>3, <1>4, <1>5, <1>6, <1>7

\* What begins with the start of main: an upgrade that is there makes of an image that is
\* meant another one.
LEMMA BeginsKept ==
    ASSUME NEW c \in Dir, NEW p \in Dir, NEW u \in Dir, NEW d \in Dir, NEW m, NEW n, NEW r, NEW fs,
           m \subseteq n, c.img \in m /\ IsPackage(u) => Will(u, c, n), Kept(c, p, u, d, "boot", m, r, fs)
    PROVE  Kept(c, p, u, d, IF IsGood(u) THEN "lockPre" ELSE "rmUpg", n, r, fs)
<1> USE DEF Upgrading, Starting, GoingBack
<1>0. ~IsGood(Gone) BY DEF Gone, IsGood
<1>1. Will(u, c, m) => Will(u, c, n) BY DEF Will
<1>2. CASE IsGood(u)
  <2>1. Placed(c, u, "boot", m, r, fs) BY <1>0, <1>2 DEF Kept, Erased
  <2>2. Will(u, c, n) BY <1>1, <1>2, <2>1 DEF Placed
  <2>3. Placed(c, u, "lockPre", n, r, fs) BY <1>2, <2>1, <2>2 DEF Placed
  <2>4. Behind(c, p, u, "lockPre", r, fs) BY DEF Kept, Behind
  <2> QED BY <1>2, <2>3, <2>4 DEF Kept
<1>3. CASE ~IsGood(u)
  <2>1. Erased(c, p, u, d, "boot", fs) => Erased(c, p, u, d, "rmUpg", fs) BY DEF Erased
  <2>2. Placed(c, u, "boot", m, r, fs) => Placed(c, u, "rmUpg", n, r, fs) BY <1>3 DEF Placed
  <2>3. Behind(c, p, u, "rmUpg", r, fs) BY DEF Kept, Behind
  <2> QED BY <1>3, <2>1, <2>2, <2>3 DEF Kept
<1> QED BY <1>2, <1>3

\* An application that does not come up, and that is the only kind of fault: the image
\* behind it is there.
LEMMA HangKept ==
    ASSUME NEW c \in Dir, NEW p \in Dir, NEW u \in Dir, NEW d \in Dir, NEW m, NEW r, NEW fs,
           fs \subseteq {"hang"}, c.img[APP] \in Hangs, Kept(c, p, u, d, "start", m, r, fs)
    PROVE  \A e \in {"start_app", "roll_back"} : Kept(c, p, u, d, e, m, r, {"hang"})
<1> USE DEF Upgrading, Starting, GoingBack
<1>1. Placed(c, u, "start", m, r, fs) BY DEF Kept, Erased
<1>2. MayGoBack(fs) BY DEF MayGoBack
<1>3. Behind(c, p, u, "start", r, fs) /\ IsGood(p) BY <1>2 DEF Kept, Behind
<1>4. ASSUME NEW e \in {"start_app", "roll_back"} PROVE Kept(c, p, u, d, e, m, r, {"hang"})
  <2>1. Placed(c, u, e, m, r, {"hang"}) BY <1>1 DEF Placed
  <2>2. Behind(c, p, u, e, r, {"hang"}) BY <1>2, <1>3 DEF Behind
  <2> QED BY <2>1, <2>2 DEF Kept
<1> QED BY <1>4

\* The application writes a new upgrade, or its parameters.
LEMMA RunKept ==
    ASSUME NEW c \in Dir, NEW p \in Dir, NEW u \in Dir, NEW d, NEW m, NEW r, NEW fs,
           Kept(c, p, u, d, "run", m, r, fs)
    PROVE  /\ IsGood(c) /\ c.img \in m /\ r \subseteq m
           /\ \A x : Kept(c, p, u, x, "run", m, r, fs)
           /\ \A x, gs : (IsGood(x) => IsPackage(x)) /\ gs \in {fs, {"again"}} => Kept(c, p, x, d, "run", m, r, gs)
<1> USE DEF Upgrading, Starting, GoingBack
<1>1. Placed(c, u, "run", m, r, fs) /\ Behind(c, p, u, "run", r, fs) /\ r \subseteq m BY DEF Kept, Erased
<1>2. IsGood(c) /\ c.img \in m BY <1>1 DEF Placed
<1>3. ASSUME NEW x, NEW gs \in {fs, {"again"}}, IsGood(x) => IsPackage(x)
      PROVE  Kept(c, p, x, d, "run", m, r, gs)
  <2>1. Placed(c, x, "run", m, r, gs) BY <1>1, <1>2, <1>3 DEF Placed
  <2>2. ~MayGoBack({"again"}) BY DEF MayGoBack
  <2>3. Behind(c, p, x, "run", r, gs) BY <1>1, <1>3, <2>2 DEF Behind
  <2> QED BY <1>1, <2>1, <2>3 DEF Kept
<1>4. \A x : Kept(c, p, u, x, "run", m, r, fs) BY <1>1 DEF Kept
<1> QED BY <1>1, <1>2, <1>3, <1>4

\* what the steps below use of the invariant
LEMMA LauncherFacts ==
    ASSUME LauncherInv
    PROVE  /\ dirs \in [Places -> Dir] /\ stage \in Stages
           /\ starts \in 0 .. 3 /\ (stage \notin {"start", "run"} => starts <= 2)
           /\ Sane(meant) /\ IsFiniteSet(faults)
           /\ dirs["CUR"] \in Dir /\ dirs["PRE"] \in Dir /\ dirs["UPG"] \in Dir /\ dirs["DATA"] \in Dir
           /\ One(faults) => Kept(dirs["CUR"], dirs["PRE"], dirs["UPG"], dirs["DATA"], stage, meant, ran, faults)
BY PlacesAre DEF LauncherInv, LTyped, LKept

LEMMA StagesAre ==
    {"boot", "lockPre", "rmUpg", "start_app", "check", "refresh", "choose", "restore", "start", "roll_back",
     "lockBack", "exit", "run", "ended"} \subseteq Stages
BY DEF Stages, Upgrading, Starting, GoingBack

LEMMA BeginsStep == LauncherInv /\ Begins => LauncherInv'
<1> SUFFICES ASSUME LauncherInv, Begins PROVE LauncherInv' OBVIOUS
<1> DEFINE c == dirs["CUR"]
           u == dirs["UPG"]
           new == {Over(u.img, i) : i \in {j \in meant : j = c.img /\ \E p \in Packages : u.img = Package(p)}}
<1>1. /\ stage = "boot" /\ stage' = (IF IsGood(u) THEN "lockPre" ELSE "rmUpg")
      /\ dirs' = dirs /\ ran' = ran /\ faults' = faults /\ starts' = starts /\ meant' = meant \cup new
  BY DEF Begins, Goes, dir_get_status, IsGood
<1>2. \A i \in new : Complete(i)
  <2>1. SUFFICES ASSUME NEW i \in meant, NEW p \in Packages, u.img = Package(p) PROVE Complete(Over(u.img, i))
    OBVIOUS
  <2>2. Complete(i) /\ i \in AllImages BY LauncherFacts, KeptSane
  <2>3. u.img \in AllImages /\ \A f \in Files : u.img[f] # "part" BY <2>1, ImagesAre
  <2> QED BY <2>2, <2>3, OverIs
<1>3. Sane(meant') BY <1>1, <1>2, LauncherFacts DEF Sane
<1>4. c.img \in meant /\ IsPackage(u) => Will(u, c, meant') BY <1>1 DEF IsPackage, Will
<1>5. meant \subseteq meant' BY <1>1
<1> HIDE DEF new
<1>6. One(faults) => Kept(c, dirs["PRE"], u, dirs["DATA"], IF IsGood(u) THEN "lockPre" ELSE "rmUpg", meant', ran, faults)
  BY <1>1, <1>4, <1>5, LauncherFacts, BeginsKept
<1>7. starts <= 2 BY <1>1, LauncherFacts
<1> QED BY <1>1, <1>3, <1>6, <1>7, LauncherFacts, StagesAre, NoDirectory

LEMMA TestStep == LauncherInv /\ (StartApp \/ Checks \/ Chooses \/ RollBack) => LauncherInv'
<1> SUFFICES ASSUME LauncherInv, StartApp \/ Checks \/ Chooses \/ RollBack PROVE LauncherInv' OBVIOUS
<1> DEFINE c == dirs["CUR"]
           p == dirs["PRE"]
           u == dirs["UPG"]
           d == dirs["DATA"]
<1>0. starts \in 0 .. 3 /\ c \in Dir /\ p \in Dir /\ u \in Dir /\ d \in Dir /\ Sane(meant) /\ IsFiniteSet(faults)
  BY LauncherFacts
<1>1. CASE StartApp
  <2>1. /\ stage = "start_app" /\ stage' \in {"check", "refresh"}
        /\ dirs' = dirs /\ ran' = ran /\ faults' = faults /\ starts' = starts /\ meant' = meant
    BY <1>1 DEF StartApp, Goes
  <2>2. One(faults) => Kept(c, p, u, d, stage', meant, ran, faults) BY <1>0, <2>1, LauncherFacts, TestsKept
  <2> QED BY <1>0, <2>1, <2>2, LauncherFacts, StagesAre, NoDirectory
<1>2. CASE Checks
  <2>1. /\ stage = "check" /\ stage' = (IF IsGood(c) \/ IsGood(p) THEN "choose" ELSE "restore")
        /\ dirs' = dirs /\ ran' = ran /\ faults' = faults /\ starts' = starts /\ meant' = meant
    BY <1>2 DEF Checks, Goes, dir_get_status, IsGood
  <2>2. One(faults) => Kept(c, p, u, d, stage', meant, ran, faults) BY <1>0, <2>1, LauncherFacts, TestsKept
  <2> QED BY <1>0, <2>1, <2>2, LauncherFacts, StagesAre, NoDirectory
<1>3. CASE Chooses
  <2>1. /\ stage = "choose" /\ stage' = (IF IsGood(c) THEN "start" ELSE "roll_back")
        /\ dirs' = dirs /\ ran' = ran /\ faults' = faults /\ meant' = meant
        /\ starts' = IF IsGood(c) THEN starts + 1 ELSE starts
    BY <1>3 DEF Chooses, Goes, dir_get_status, IsGood
  <2>2. One(faults) => Kept(c, p, u, d, stage', meant, ran, faults) BY <1>0, <2>1, LauncherFacts, TestsKept
  <2>3. starts <= 2 BY <2>1, LauncherFacts
  <2>4. starts' \in 0 .. 3 /\ (stage' \notin {"start", "run"} => starts' <= 2) BY <1>0, <2>1, <2>3
  <2> QED BY <1>0, <2>1, <2>2, <2>4, LauncherFacts, StagesAre, NoDirectory
<1>4. CASE RollBack
  <2>1. /\ stage = "roll_back" /\ stage' = (IF IsGood(p) THEN "lockBack" ELSE "exit")
        /\ dirs' = dirs /\ ran' = ran /\ faults' = faults /\ starts' = starts /\ meant' = meant
    BY <1>4 DEF RollBack, Goes, dir_get_status, IsGood
  <2>2. One(faults) => Kept(c, p, u, d, stage', meant, ran, faults) BY <1>0, <2>1, LauncherFacts, TestsKept
  <2> QED BY <1>0, <2>1, <2>2, LauncherFacts, StagesAre, NoDirectory
<1> QED BY <1>1, <1>2, <1>3, <1>4

LEMMA StartFailsStep == LauncherInv /\ StartFails => LauncherInv'
<1> SUFFICES ASSUME LauncherInv, StartFails PROVE LauncherInv' OBVIOUS
<1> DEFINE c == dirs["CUR"]
<1>1. /\ stage = "start" /\ c.img[APP] \in Hangs \cup {"no"}
      /\ \/ starts <= 2 /\ stage' = "start_app" /\ starts' = starts
         \/ stage' = "roll_back" /\ starts' = 0
      /\ faults' = faults \cup IF c.img[APP] = "no" THEN {} ELSE {"hang"}
      /\ dirs' = dirs /\ meant' = meant /\ ran' = ran
  BY DEF StartFails, Faulty
<1>2. IsFiniteSet(faults')
  <2>1. IsFiniteSet(faults \cup {"hang"}) /\ IsFiniteSet(faults) BY LauncherFacts, FS_AddElement
  <2>2. faults' = faults \cup {"hang"} \/ faults' = faults BY <1>1
  <2> QED BY <2>1, <2>2
<1>3. stage' \in {"start_app", "roll_back"} /\ starts' \in 0 .. 3 /\ starts' <= 2 BY <1>1, LauncherFacts
<1>4. ASSUME One(faults') PROVE Kept(c, dirs["PRE"], dirs["UPG"], dirs["DATA"], stage', meant, ran, faults')
  <2>1. One(faults) BY <1>1, <1>4 DEF One
  <2>2. Kept(c, dirs["PRE"], dirs["UPG"], dirs["DATA"], "start", meant, ran, faults) BY <1>1, <2>1, LauncherFacts
  <2>3. c.img \in meant BY <2>2 DEF Kept, Erased, Placed
  <2>4. c.img[APP] # "no" BY <2>3, LauncherFacts, KeptSane
  <2>5. c.img[APP] \in Hangs /\ faults' = faults \cup {"hang"} BY <1>1, <2>4
  <2>6. faults \subseteq {"hang"} /\ faults' = {"hang"} BY <1>4, <2>5 DEF One
  <2>7. c \in Dir /\ dirs["PRE"] \in Dir /\ dirs["UPG"] \in Dir /\ dirs["DATA"] \in Dir BY LauncherFacts
  <2>8. \A e \in {"start_app", "roll_back"} :
           Kept(c, dirs["PRE"], dirs["UPG"], dirs["DATA"], e, meant, ran, {"hang"})
    BY <2>2, <2>5, <2>6, <2>7, HangKept
  <2> QED BY <1>3, <2>6, <2>8
<1> QED BY <1>1, <1>2, <1>3, <1>4, LauncherFacts, StagesAre, NoDirectory

LEMMA RunStep == LauncherInv /\ (ComesUp \/ Exits \/ Reboot) => LauncherInv'
<1> SUFFICES ASSUME LauncherInv, ComesUp \/ Exits \/ Reboot PROVE LauncherInv' OBVIOUS
<1> DEFINE c == dirs["CUR"]
           p == dirs["PRE"]
           u == dirs["UPG"]
           d == dirs["DATA"]
<1>0. starts \in 0 .. 3 /\ c \in Dir /\ p \in Dir /\ u \in Dir /\ d \in Dir /\ Sane(meant) /\ IsFiniteSet(faults)
  BY LauncherFacts
<1>1. CASE ComesUp
  <2>1. /\ stage = "start" /\ stage' = "run" /\ dirs' = dirs /\ ran' = ran \cup {c.img}
        /\ faults' = faults /\ starts' = starts /\ meant' = meant
    BY <1>1 DEF ComesUp
  <2>2. One(faults) => Kept(c, p, u, d, "run", meant, ran', faults) BY <1>0, <2>1, LauncherFacts, TestsKept
  <2> QED BY <1>0, <2>1, <2>2, StagesAre, NoDirectory
<1>2. CASE Exits
  <2>1. /\ stage = "run" /\ stage' = "start" /\ dirs' = dirs /\ ran' = ran
        /\ faults' = faults /\ starts' = starts /\ meant' = meant
    BY <1>2 DEF Exits
  <2>2. One(faults) => Kept(c, p, u, d, "start", meant, ran, faults) BY <1>0, <2>1, LauncherFacts, TestsKept
  <2> QED BY <1>0, <2>1, <2>2, StagesAre, NoDirectory
<1>3. CASE Reboot
  <2>1. /\ stage \in {"run", "exit", "ended"} /\ stage' = "boot" /\ dirs' = dirs /\ ran' = ran
        /\ faults' = faults /\ starts' = 0 /\ meant' = meant
    BY <1>3 DEF Reboot, Restarts
  <2>2. One(faults) => Kept(c, p, u, d, "boot", meant, ran, faults) BY <1>0, <2>1, LauncherFacts, TestsKept
  <2> QED BY <1>0, <2>1, <2>2, StagesAre, NoDirectory
<1> QED BY <1>1, <1>2, <1>3

\* DATA changes while the application runs, in its cfg directory
LEMMA SavesStep == LauncherInv /\ (SavesPara \/ SavesParaInPart) => LauncherInv'
<1> SUFFICES ASSUME LauncherInv, SavesPara \/ SavesParaInPart PROVE LauncherInv' OBVIOUS
<1> DEFINE c == dirs["CUR"]
           p == dirs["PRE"]
           u == dirs["UPG"]
           d == dirs["DATA"]
           X(w) == [d EXCEPT !.cfgMark = w, !.mark = IF @ = "gone" THEN "bad" ELSE @]
<1>0. /\ starts \in 0 .. 3 /\ c \in Dir /\ p \in Dir /\ u \in Dir /\ d \in Dir /\ Sane(meant) /\ IsFiniteSet(faults)
      /\ dirs \in [Places -> Dir] /\ "run" \in Stages /\ "boot" \in Stages /\ "DATA" \in Places
  BY LauncherFacts, StagesAre DEF Places
<1>1. \A w \in BOOLEAN : CfgCopied(w) = [dirs EXCEPT !["DATA"] = X(w)] /\ X(w) \in Dir
  BY <1>0 DEF CfgCopied, Dir, Places
<1> HIDE DEF X
<1>2. CASE SavesPara
  <2>1. /\ stage = "run" /\ stage' = "run" /\ dirs' = [dirs EXCEPT !["DATA"] = X(TRUE)] /\ X(TRUE) \in Dir
        /\ ran' = ran /\ faults' = faults /\ starts' = starts /\ meant' = meant
    BY <1>1, <1>2 DEF SavesPara
  <2>2. One(faults) => Kept(c, p, u, X(TRUE), "run", meant, ran, faults) BY <1>0, <2>1, LauncherFacts, RunKept
  <2> QED BY <1>0, <2>1, <2>2, OneDirectory
<1>3. CASE SavesParaInPart
  <2>1. /\ stage = "run" /\ stage' = "boot" /\ dirs' = [dirs EXCEPT !["DATA"] = X(FALSE)] /\ X(FALSE) \in Dir
        /\ ran' = ran /\ faults' = faults \cup {"cut"} /\ starts' = 0 /\ meant' = meant
    BY <1>1, <1>3 DEF SavesParaInPart, Restarts, Faulty
  <2>2. IsFiniteSet(faults \cup {"cut"}) BY <1>0, FS_AddElement
  <2>3. One(faults') => faults \subseteq {"cut"} /\ faults' = {"cut"} /\ One(faults) BY <2>1 DEF One
  <2>4. One(faults') => Restartable(c, u, meant) /\ ran \subseteq meant
    BY <1>0, <2>1, <2>3, LauncherFacts, CutKept
  <2>5. One(faults') => Kept(c, p, u, X(FALSE), "boot", meant, ran, {"cut"}) BY <2>4, RestartKept
  <2>6. One(faults') => Kept(c, p, u, X(FALSE), stage', meant', ran', faults') BY <2>1, <2>3, <2>5
  <2>7. stage' \in Stages /\ starts' \in 0 .. 3 /\ starts' <= 2 /\ Sane(meant') /\ IsFiniteSet(faults')
    BY <1>0, <2>1, <2>2
  <2> QED BY <1>0, <2>1, <2>6, <2>7, OneDirectory
<1> QED BY <1>2, <1>3

LEMMA SavedFilesAre ==
    ASSUME NEW k \in Packages
    PROVE  /\ Good(Package(k)) \in Dir /\ IsPackage(Good(Package(k)))
           /\ \A x \in SavedFiles(k) : x \in Dir /\ ~IsGood(x)
<1>1. Good(Package(k)) \in Dir /\ Package(k) \in AllImages BY ImagesAre
<1>2. IsPackage(Good(Package(k))) BY DEF IsPackage, Good
<1>3. ASSUME NEW x \in SavedFiles(k) PROVE x \in Dir /\ ~IsGood(x)
  <2>1. x \in [mark : {"bad"}, img : HalfRemoved(Package(k)), cfgMark : {FALSE}] BY DEF SavedFiles
  <2>2. x.img \in HalfRemoved(Package(k)) BY <2>1
  <2>3. x.img \in AllImages BY <1>1, <2>2, HalfRemovedIs
  <2>4. x = [mark |-> x.mark, img |-> x.img, cfgMark |-> x.cfgMark] /\ x.mark = "bad" /\ x.cfgMark = FALSE BY <2>1
  <2> QED BY <2>3, <2>4 DEF Dir, IsGood
<1> QED BY <1>1, <1>2, <1>3

\* UPG is written while the application runs
LEMMA UpgradeStep ==
    ASSUME LauncherInv, NEW k \in Packages, upg_ctl_proc(k) \/ UpgradeFails(k) \/ UpgradeCut(k)
    PROVE  LauncherInv'
<1> DEFINE c == dirs["CUR"]
           p == dirs["PRE"]
           u == dirs["UPG"]
           d == dirs["DATA"]
<1>0. /\ starts \in 0 .. 3 /\ c \in Dir /\ p \in Dir /\ u \in Dir /\ d \in Dir /\ Sane(meant) /\ IsFiniteSet(faults)
      /\ "run" \in Stages /\ "boot" \in Stages /\ "UPG" \in Places
  BY LauncherFacts, StagesAre DEF Places
<1>1. stage = "run" BY DEF upg_ctl_proc, UpgradeFails, UpgradeCut
<1>2. One(faults) => Kept(c, p, u, d, "run", meant, ran, faults) BY <1>1, LauncherFacts
<1>3. IsFiniteSet(faults \cup {"again"}) /\ IsFiniteSet(faults \cup {"cut"}) BY <1>0, FS_AddElement
<1>4. IsFiniteSet((faults \cup {"again"}) \cup {"cut"}) BY <1>3, FS_AddElement
<1>5. CASE upg_ctl_proc(k) \/ UpgradeFails(k)
  <2>1. PICK x \in Dir : /\ dirs' = [dirs EXCEPT !["UPG"] = x] /\ (IsGood(x) => IsPackage(x))
                         /\ faults' = faults \cup Again
                         /\ stage' = "run" /\ starts' = starts /\ meant' = meant /\ ran' = ran
    <3>1. CASE upg_ctl_proc(k) BY <1>1, <3>1, SavedFilesAre DEF upg_ctl_proc, Faulty
    <3>2. CASE UpgradeFails(k) BY <1>1, <3>2, SavedFilesAre DEF UpgradeFails, Faulty
    <3> QED BY <1>5, <3>1, <3>2
  <2>2. faults' = faults \/ faults' = faults \cup {"again"} BY <2>1 DEF Again
  <2>3. IsFiniteSet(faults') BY <1>0, <1>3, <2>2
  <2>4. One(faults') => One(faults) /\ faults' \in {faults, {"again"}} BY <2>2 DEF One
  <2>5. ASSUME One(faults') PROVE Kept(c, p, x, d, "run", meant, ran, faults')
    <3>1. Kept(c, p, u, d, "run", meant, ran, faults) BY <1>2, <2>4, <2>5
    <3>2. \A y, gs : (IsGood(y) => IsPackage(y)) /\ gs \in {faults, {"again"}}
                        => Kept(c, p, y, d, "run", meant, ran, gs)
      BY <1>0, <3>1, RunKept
    <3> QED BY <2>1, <2>4, <2>5, <3>2
  <2> QED BY <1>0, <2>1, <2>3, <2>5, OneDirectory
<1>6. CASE UpgradeCut(k)
  <2>1. PICK x \in HalfGone(u) \cup SavedFiles(k) :
           /\ dirs' = [dirs EXCEPT !["UPG"] = x]
           /\ faults' = faults \cup (Again \cup {"cut"})
           /\ stage' = "boot" /\ starts' = 0 /\ meant' = meant /\ ran' = ran
    BY <1>6 DEF UpgradeCut, Restarts, Faulty
  <2>2. x \in Dir /\ (IsGood(x) => IsGood(u)) BY <1>0, HalfGoneIs, SavedFilesAre DEF IsGood
  <2>3. faults' = faults \cup {"cut"} \/ faults' = (faults \cup {"again"}) \cup {"cut"} BY <2>1 DEF Again
  <2>4. IsFiniteSet(faults') BY <1>3, <1>4, <2>3
  <2>5. One(faults') => One(faults) /\ faults' = {"cut"} /\ ~IsGood(u)
    BY <2>1 DEF One, Again, dir_get_status, IsGood
  <2>6. One(faults') => Restartable(c, x, meant) /\ ran \subseteq meant
    BY <1>0, <1>2, <2>2, <2>5, RunKept DEF Restartable
  <2>7. One(faults') => Kept(c, p, x, d, "boot", meant, ran, {"cut"}) BY <2>6, RestartKept
  <2>8. One(faults') => Kept(c, p, x, d, stage', meant', ran', faults') BY <2>1, <2>5, <2>7
  <2>9. stage' \in Stages /\ starts' \in 0 .. 3 /\ starts' <= 2 /\ Sane(meant') BY <1>0, <2>1
  <2> HIDE DEF c, p, u, d
  <2> QED BY <1>0, <2>1, <2>2, <2>4, <2>8, <2>9, OneDirectory DEF c, p, d
<1> QED BY <1>5, <1>6

LEMMA LauncherInitInv == LauncherInit => LauncherInv
<1> SUFFICES ASSUME LauncherInit PROVE LauncherInv OBVIOUS
<1> USE DEF Upgrading, Starting, GoingBack
<1>1. stage = "boot" /\ starts = 0 /\ meant = {Factory} /\ ran = {Factory} BY DEF LauncherInit
<1>2. Sane(meant) BY <1>1, ImagesAre DEF Sane
<1>3. Factory[APP] \notin Hangs BY LauncherAssumption DEF LauncherAssumption, APP
<1>4. /\ Gone \in Dir /\ ~IsGood(Gone) /\ Good(Factory) \in Dir
      /\ IsGood(Good(Factory)) /\ Good(Factory).img = Factory
  BY ImagesAre DEF IsGood, Gone, Good
<1>5. CASE dirs = [CUR |-> Good(Factory), PRE |-> Gone, DATA |-> Gone, UPG |-> Gone] /\ faults = {}
  <2>1. /\ dirs["CUR"] = Good(Factory) /\ dirs["PRE"] = Gone /\ dirs["UPG"] = Gone /\ dirs["DATA"] = Gone
        /\ dirs \in [Places -> Dir]
    BY <1>4, <1>5 DEF Places
  <2>2. LTyped(dirs, stage, starts) BY <1>1, <2>1, StagesAre DEF LTyped
  <2>3. IsFiniteSet(faults) BY <1>5, FS_EmptySet
  <2>4. Placed(Good(Factory), Gone, "boot", meant, ran, faults) BY <1>1, <1>4 DEF Placed
  <2>5. Behind(Good(Factory), Gone, Gone, "boot", ran, faults) BY <1>1, <1>3, <1>4 DEF Behind
  <2>6. Kept(Good(Factory), Gone, Gone, Gone, "boot", meant, ran, faults) BY <1>1, <2>4, <2>5 DEF Kept
  <2>7. LKept(dirs, stage, meant, ran, faults) BY <1>1, <2>1, <2>6 DEF LKept
  <2> QED BY <1>2, <2>2, <2>3, <2>7 DEF LauncherInv
<1>6. CASE \E b \in BOOLEAN : /\ dirs = [CUR |-> Gone, PRE |-> Gone, UPG |-> Gone,
                                         DATA |-> [Good(Factory) EXCEPT !.cfgMark = b]]
                              /\ faults = {"erased"}
  <2>1. PICK b \in BOOLEAN : /\ dirs = [CUR |-> Gone, PRE |-> Gone, UPG |-> Gone,
                                        DATA |-> [Good(Factory) EXCEPT !.cfgMark = b]]
                             /\ faults = {"erased"}
    BY <1>6
  <2> DEFINE x == [Good(Factory) EXCEPT !.cfgMark = b]
  <2>2. x \in Dir /\ IsGood(x) /\ x.img = Factory BY <1>4 DEF Dir, IsGood, Good
  <2> HIDE DEF x
  <2>3. /\ dirs["CUR"] = Gone /\ dirs["PRE"] = Gone /\ dirs["UPG"] = Gone /\ dirs["DATA"] = x
        /\ dirs \in [Places -> Dir]
    BY <1>4, <2>1, <2>2 DEF Places, x
  <2>4. LTyped(dirs, stage, starts) BY <1>1, <2>3, StagesAre DEF LTyped
  <2>5. IsFiniteSet(faults) BY <2>1, FS_Singleton
  <2>6. Erased(Gone, Gone, Gone, x, "boot", faults) BY <2>1, <2>2 DEF Erased
  <2>7. Behind(Gone, Gone, Gone, "boot", ran, faults) BY <2>1 DEF Behind, MayGoBack
  <2>8. LKept(dirs, stage, meant, ran, faults) BY <1>1, <2>3, <2>6, <2>7 DEF LKept, Kept
  <2> QED BY <1>2, <2>4, <2>5, <2>8 DEF LauncherInv
<1> QED BY <1>5, <1>6 DEF LauncherInit

LEMMA LauncherStepInv == LauncherInv /\ [LauncherNext]_lVars => LauncherInv'
<1> SUFFICES ASSUME LauncherInv, [LauncherNext]_lVars PROVE LauncherInv' OBVIOUS
<1>1. CASE Succeeds BY <1>1, SucceedsStep
<1>2. CASE Fails BY <1>2, FailsStep
<1>3. CASE LauncherCut BY <1>3, LauncherCutStep
<1>4. CASE Begins BY <1>4, BeginsStep
<1>5. CASE StartApp \/ Checks \/ Chooses \/ RollBack BY <1>5, TestStep
<1>6. CASE StartFails BY <1>6, StartFailsStep
<1>7. CASE ComesUp \/ Exits \/ Reboot BY <1>7, RunStep
<1>8. CASE SavesPara \/ SavesParaInPart BY <1>8, SavesStep
<1>9. CASE \E k \in Packages : upg_ctl_proc(k) \/ UpgradeFails(k) \/ UpgradeCut(k) BY <1>9, UpgradeStep
<1>10. CASE UNCHANGED lVars
  <2>1. dirs' = dirs /\ stage' = stage /\ starts' = starts /\ meant' = meant /\ ran' = ran /\ faults' = faults
    BY <1>10 DEF lVars
  <2> QED BY <2>1, LauncherInvNext DEF LauncherInv
<1> QED BY <1>1, <1>2, <1>3, <1>4, <1>5, <1>6, <1>7, <1>8, <1>9, <1>10 DEF LauncherNext

\* at most one kind of fault
LEMMA OneIs ==
    ASSUME NEW fs, IsFiniteSet(fs), Cardinality(fs) <= 1
    PROVE  One(fs)
<1>1. Cardinality(fs) \in Nat BY FS_CardinalityType
<1>2. Cardinality(fs) = 0 \/ Cardinality(fs) = 1 BY <1>1
<1>3. CASE Cardinality(fs) = 0
  <2>1. fs = {} BY <1>3, FS_EmptySet
  <2> QED BY <2>1 DEF One
<1>4. CASE Cardinality(fs) = 1
  <2>1. \E x : fs = {x} BY <1>4, FS_Singleton
  <2> QED BY <2>1 DEF One
<1> QED BY <1>2, <1>3, <1>4

LEMMA LauncherInvSays == LauncherInv => OneFaultSurvived
<1> SUFFICES ASSUME LauncherInv PROVE OneFaultSurvived OBVIOUS
<1> USE DEF Upgrading, Starting, GoingBack
<1>1. dirs \in [{"CUR", "PRE", "DATA", "UPG"} ->
                   [mark : {"gone", "bad", "good"}, img : [Files -> Vers], cfgMark : BOOLEAN]]
  BY LauncherFacts DEF Places, Dir, AllImages
<1>2. stage \in DOMAIN Calls \cup {"boot", "start_app", "check", "choose", "start", "run",
                                   "roll_back", "exit", "ended"}
  BY LauncherFacts, CallsAre DEF Stages
<1>3. starts \in 0 .. 3 BY LauncherFacts
<1>4. ASSUME Cardinality(faults) <= 1
      PROVE  /\ stage = "start" => dirs["CUR"].img \in meant
             /\ stage # "exit"
             /\ stage = "back" => dirs["PRE"].img \in ran
  <2>1. One(faults) BY <1>4, LauncherFacts, OneIs
  <2>2. Kept(dirs["CUR"], dirs["PRE"], dirs["UPG"], dirs["DATA"], stage, meant, ran, faults) BY <2>1, LauncherFacts
  <2>3. stage = "start" => dirs["CUR"].img \in meant BY <2>2 DEF Kept, Erased, Placed
  <2>4. stage # "exit" BY <2>2 DEF Kept, Erased, Placed
  <2>5. stage = "back" => MayGoBack(faults) BY <2>2 DEF Kept, Erased, Placed, MayGoBack
  <2>6. stage = "back" => dirs["PRE"].img \in ran BY <2>2, <2>5 DEF Kept, Behind
  <2> QED BY <2>3, <2>4, <2>6
<1> QED BY <1>1, <1>2, <1>3, <1>4 DEF OneFaultSurvived, LauncherTypeOK

\* The launcher (main of appl/main.c) survives every single kind of fault, for any
\* delivered image and any upgrades and however often the fault strikes: power cuts at
\* every call that writes and between them, the failure of any one call, an upgrade that
\* does not come up, /usrapp erased, an upgrade replaced before it is in place.  It starts
\* only images that the factory or an upgrade meant, it never ends with nothing to start
\* and it goes back only to an image that has come up before.
THEOREM LauncherSurvivesOneFault == LauncherSpec => []OneFaultSurvived
<1>1. LauncherSpec => []LauncherInv BY LauncherInitInv, LauncherStepInv, PTL DEF LauncherSpec
<1> QED BY <1>1, LauncherInvSays, PTL
=============================================================================
