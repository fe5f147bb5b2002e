------------------------------ MODULE MCStores ------------------------------
(***************************************************************************)
(* The components that keep data over a power cut, checked in one run:     *)
(* part says which of them moves.  CfgPara: a user sets each parameter to  *)
(* a value that is not its default.  FtCache: five buffers, six reports, a *)
(* ring of four slots.  Launcher: two upgrades, faults of one kind in a    *)
(* behaviour.                                                              *)
(***************************************************************************)
EXTENDS MCCfgPara, FtCache, MCLauncher

VARIABLE part

CfgRests ==
    /\ master = Absent /\ backup = Absent /\ past = {} /\ wiped = FALSE /\ spoilt = FALSE
    /\ pc = "idle" /\ arg = NoVal /\ got = NoVal
    /\ phase = "down" /\ ram = [i \in Items |-> "zero"]
    /\ request = <<>> /\ reset = "none" /\ allowed = [i \in Items |-> Defaults(i)]

LauncherRests == LauncherInit /\ faults = {}

StoresInit ==
    /\ part \in {"cfg", "cache", "launcher"}
    /\ CacheInit
    /\ IF part = "cfg" THEN CfgInit ELSE CfgRests
    /\ IF part = "launcher" THEN LauncherInit ELSE LauncherRests

StoresNext ==
    \/ part = "cfg" /\ CfgNext /\ UNCHANGED <<cacheVars, lVars, part>>
    \/ part = "cache" /\ CacheNext /\ UNCHANGED <<cfgVars, rdsVars, lVars, part>>
    \/ part = "launcher" /\ LauncherNext /\ UNCHANGED <<cfgVars, rdsVars, cacheVars, part>>

StoresSpec == StoresInit /\ [][StoresNext]_<<cfgVars, rdsVars, cacheVars, lVars, part>>
=============================================================================
