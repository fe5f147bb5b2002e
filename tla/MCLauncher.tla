----------------------------- MODULE MCLauncher -----------------------------
(* One package with the images of both processors and one with the         *)
(* application alone; the application of either may not come up.           *)
EXTENDS Launcher, TLC

MCFactory  == APP :> "v1" @@ "mcu" :> "v1"
MCPackages == {APP :> "v2" @@ "mcu" :> "v2", APP :> "v3"}
MCHangs    == {"v2", "v3"}
=============================================================================
