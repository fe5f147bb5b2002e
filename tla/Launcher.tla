------------------------------ MODULE Launcher ------------------------------
(***************************************************************************)
(* The launcher (appl/main.c) over the directory functions of mid/dir:     *)
(* it puts an upgrade in place, starts the application, goes back to the   *)
(* previous image when the new one does not come up, and restores the      *)
(* image from its copy on the data partition.  The application writes the  *)
(* upgrade (upg_ctl_proc) and its parameters, which marks the copy's cfg   *)
(* directory (rds_update_once).                                            *)
(*                                                                         *)
(* A directory has a mark (status.conf), an image and the mark of its cfg  *)
(* subdirectory; what the parameters are is the matter of module Rds.  The *)
(* launcher is one thread: stage is its next call that writes.  At every   *)
(* stage the power may be cut, and a call may fail; both leave some of the *)
(* files copied, one of them perhaps in part.  file_copy and               *)
(* file_write_atomic end with fsync, so that a call that returned is on    *)
(* the flash.                                                              *)
(***************************************************************************)
EXTENDS Naturals, FiniteSets

CONSTANTS
    Factory,    \* the image a terminal is delivered with: version by file
    Packages,   \* upgrades: version by file, for some of the files
    Hangs,      \* the versions of the application that may not come up
    MaxPkg, MaxCut, MaxIo,  \* bounds: packages, power cuts, failed calls
    MaxKinds    \* bound: the kinds of fault in one behaviour

\* The delivered image has an application, which comes up: there is nothing to go back
\* to.  A version is not one of the two words the model has for a file that is missing
\* and for one that is copied in part.
ASSUME LauncherAssumption ==
    /\ Factory = [f \in DOMAIN Factory |-> Factory[f]]
    /\ "tbox_app.bin" \in DOMAIN Factory /\ Factory["tbox_app.bin"] \notin Hangs
    /\ \A p \in Packages \cup {Factory} : \A f \in DOMAIN p : p[f] \notin {"no", "part"}

VARIABLES
    dirs,       \* CUR, PRE (/usrapp), DATA and UPG (/usrdata)
    stage,      \* the launcher's next call
    starts,     \* startup_cnt
    meant,      \* history: the images whole upgrades of whole images result in
    ran,        \* history: the images that came up
    faults,     \* history: the kinds of fault there have been
    left        \* what is left of the bounds

lVars == <<dirs, stage, starts, meant, ran, faults, left>>

Files == DOMAIN Factory
APP   == "tbox_app.bin"

Nothing   == [f \in Files |-> "no"]
Gone      == [mark |-> "gone", img |-> Nothing, cfgMark |-> FALSE]
Good(img) == [mark |-> "good", img |-> img, cfgMark |-> FALSE]

\* dir_get_status: a directory that has a good mark is not empty
dir_get_status(d) == dirs[d].mark = "good"

LauncherInit ==
    /\ \/ dirs = [CUR |-> Good(Factory), PRE |-> Gone, DATA |-> Gone, UPG |-> Gone] /\ faults = {}
       \/ \* /usrapp was erased, the case line 446 is for
          \E c \in BOOLEAN :
             /\ dirs = [CUR |-> Gone, PRE |-> Gone, UPG |-> Gone,
                        DATA |-> [Good(Factory) EXCEPT !.cfgMark = c]]
             /\ faults = {"erased"}
    /\ stage = "boot" /\ starts = 0
    /\ meant = {Factory} /\ ran = {Factory}
    /\ left = [pkg |-> MaxPkg, cut |-> MaxCut, io |-> MaxIo]

Faulty(kinds) ==
    /\ faults' = faults \cup kinds
    /\ Cardinality(faults') <= MaxKinds

-----------------------------------------------------------------------------
\* The images a removal that breaks off may leave, in the order of the file system,
\* and those a copy that breaks off may leave.
HalfRemoved(d) == {i \in [Files -> {"no"} \cup {d[f] : f \in Files}] : \A f \in Files : i[f] \in {"no", d[f]}}
HalfCopied(s)  ==
    {i \in [Files -> {"no", "part"} \cup {s[f] : f \in Files}] :
        \A f \in Files : i[f] \in IF s[f] = "no" THEN {"no"} ELSE {"no", "part", s[f]}}

\* dir_remove_path, broken off: the mark may be the last file to go
HalfGone(d) ==
    {x \in [mark : {d.mark, "bad", "gone"}, img : HalfRemoved(d.img), cfgMark : {d.cfgMark, FALSE}] :
        x.mark = "gone" => x.img = Nothing /\ ~x.cfgMark}

\* appl_copy of the image and of the cfg directory: a source that is empty is no error
appl_copy(s, d) ==
    [d EXCEPT !.img = IF s.img = Nothing THEN @ ELSE s.img, !.cfgMark = s.cfgMark]

HalfApplCopy(s, d) ==
    {[d EXCEPT !.img = i] : i \in IF s.img = Nothing THEN {d.img}
                                  ELSE HalfRemoved(d.img) \cup HalfCopied(s.img)}
    \cup {[appl_copy(s, d) EXCEPT !.cfgMark = c] : c \in {d.cfgMark, FALSE, s.cfgMark}}

\* appl_overlap: the files of the source replace those of the destination in place
Over(s, i) == [f \in Files |-> IF s[f] = "no" THEN i[f] ELSE s[f]]

appl_overlap(s, d) == [d EXCEPT !.img = Over(s.img, d.img)]

HalfOverlap(s, d) ==
    {[d EXCEPT !.img = i] :
        i \in {x \in [Files -> {"part"} \cup {s.img[f] : f \in Files} \cup {d.img[f] : f \in Files}] :
                  \A f \in Files : x[f] \in {d.img[f]} \cup
                                            IF s.img[f] = "no" THEN {} ELSE {"part", s.img[f]}}}

\* dir_copy: everything but the source's own mark
dir_copy(s, d) == IF s.mark = "gone" THEN d ELSE [s EXCEPT !.mark = "good"]

HalfDirCopy(s, d) ==
    IF s.mark = "gone" THEN {d}
    ELSE HalfGone(d) \cup [mark : {"bad"}, img : HalfCopied(s.img), cfgMark : {FALSE, s.cfgMark}]

-----------------------------------------------------------------------------
\* mutant: the upgrade is backed up in the place of the current image
Call_fromUpg(op, src, dst, then, fails) ==
    [op |-> op, src |-> IF dst = "PRE" /\ src # "none" THEN "UPG" ELSE src, dst |-> dst,
     then |-> then, fails |-> fails]

Call(op, src, dst, then, fails) == [op |-> op, src |-> src, dst |-> dst, then |-> then, fails |-> fails]

\* The calls of main that write, in their order: what follows each of them, and what
\* follows when it fails ("ended": main returns).  The result of a write of a mark is
\* not looked at.
Calls ==
    [ lockPre    |-> Call("bad", "none", "PRE", "backup", "backup"),
      backup     |-> Call("copy", "CUR", "PRE", "commitPre", "ended"),
      commitPre  |-> Call("good", "none", "PRE", "lockCur", "lockCur"),
      lockCur    |-> Call("bad", "none", "CUR", "overlap", "overlap"),
      overlap    |-> Call("overlap", "UPG", "CUR", "commitCur", "ended"),
      commitCur  |-> Call("good", "none", "CUR", "copyData", "copyData"),
      copyData   |-> Call("dircopy", "CUR", "DATA", "rmUpg", "rmUpg"),
      rmUpg      |-> Call("remove", "none", "UPG", "start_app", "start_app"),
      refresh    |-> Call("dircopy", "CUR", "DATA", "check", "check"),
      restore    |-> Call("dircopy", "DATA", "CUR", "choose", "choose"),
      lockBack   |-> Call("bad", "none", "CUR", "back", "back"),
      back       |-> Call("copy", "PRE", "CUR", "commitBack", "ended"),
      commitBack |-> Call("good", "none", "CUR", "copyBack", "copyBack"),
      copyBack   |-> Call("dircopy", "CUR", "DATA", "start_app", "ended") ]

Result(c) ==
    LET d == dirs[c.dst] IN
    CASE c.op \in {"bad", "good"} -> [d EXCEPT !.mark = c.op]
      [] c.op = "copy"    -> appl_copy(dirs[c.src], d)
      [] c.op = "overlap" -> appl_overlap(dirs[c.src], d)
      [] c.op = "dircopy" -> dir_copy(dirs[c.src], d)
      [] c.op = "remove"  -> Gone

Broken(c) ==
    LET d == dirs[c.dst] IN
    CASE c.op \in {"bad", "good"} -> {d}
      [] c.op = "copy"    -> HalfApplCopy(dirs[c.src], d)
      [] c.op = "overlap" -> HalfOverlap(dirs[c.src], d)
      [] c.op = "dircopy" -> HalfDirCopy(dirs[c.src], d)
      [] c.op = "remove"  -> HalfGone(d)

Writing == stage \in DOMAIN Calls

Succeeds ==
    /\ Writing
    /\ dirs' = [dirs EXCEPT ![Calls[stage].dst] = Result(Calls[stage])]
    /\ stage' = Calls[stage].then
    /\ UNCHANGED <<starts, meant, ran, faults, left>>

Fails ==
    /\ Writing /\ left.io > 0
    /\ \E x \in Broken(Calls[stage]) : dirs' = [dirs EXCEPT ![Calls[stage].dst] = x]
    /\ stage' = Calls[stage].fails
    /\ Faulty({stage})
    /\ left' = [left EXCEPT !.io = @ - 1]
    /\ UNCHANGED <<starts, meant, ran>>

Restarts == stage' = "boot" /\ starts' = 0

\* the power is cut while the launcher writes, or waits for the application
LauncherCut ==
    /\ left.cut > 0
    /\ dirs' \in IF Writing THEN {[dirs EXCEPT ![Calls[stage].dst] = x] : x \in Broken(Calls[stage])}
                 ELSE {dirs}
    /\ Restarts
    /\ Faulty({"cut"})
    /\ left' = [left EXCEPT !.cut = @ - 1]
    /\ UNCHANGED <<meant, ran>>

-----------------------------------------------------------------------------
\* The tests of main between its calls.
Goes(from, to) ==
    /\ stage = from /\ stage' = to
    /\ UNCHANGED <<dirs, ran, faults, left>>

Package(p) == [f \in Files |-> IF f \in DOMAIN p THEN p[f] ELSE "no"]

Begins ==
    /\ Goes("boot", IF dir_get_status("UPG") THEN "lockPre" ELSE "rmUpg")
    /\ meant' = meant \cup
          {Over(dirs["UPG"].img, i) :
              i \in {j \in meant : j = dirs["CUR"].img /\ \E p \in Packages : dirs["UPG"].img = Package(p)}}
    /\ starts' = starts

StartApp ==
    /\ Goes("start_app", IF dir_get_status("DATA") /\ dirs["DATA"].cfgMark THEN "check" ELSE "refresh")
    /\ UNCHANGED <<starts, meant>>

\* mutant: the copy on the data partition is never used
Checks_noRestore == Goes("check", "choose") /\ UNCHANGED <<starts, meant>>

Checks ==
    /\ Goes("check", IF dir_get_status("CUR") \/ dir_get_status("PRE") THEN "choose" ELSE "restore")
    /\ UNCHANGED <<starts, meant>>

Chooses ==
    /\ \/ dir_get_status("CUR") /\ Goes("choose", "start") /\ starts' = starts + 1
       \/ ~dir_get_status("CUR") /\ Goes("choose", "roll_back") /\ starts' = starts
    /\ meant' = meant

RollBack ==
    /\ Goes("roll_back", IF dir_get_status("PRE") THEN "lockBack" ELSE "exit")
    /\ UNCHANGED <<starts, meant>>

\* appl_start_app returns an error: no such file, or no "OK" for 60 seconds.  The
\* application is killed.
StartFails ==
    /\ stage = "start"
    /\ dirs["CUR"].img[APP] \in Hangs \cup {"no"}
    /\ IF starts <= 2 THEN stage' = "start_app" /\ starts' = starts
                      ELSE stage' = "roll_back" /\ starts' = 0
    /\ Faulty(IF dirs["CUR"].img[APP] = "no" THEN {} ELSE {"hang"})
    /\ UNCHANGED <<dirs, meant, ran, left>>

\* "OK": the application runs.  One that exits is forked again for ever.
ComesUp ==
    /\ stage = "start" /\ dirs["CUR"].img[APP] \notin {"no", "part"}
    /\ stage' = "run"
    /\ ran' = ran \cup {dirs["CUR"].img}
    /\ UNCHANGED <<dirs, starts, meant, faults, left>>

Exits ==
    /\ stage = "run" /\ stage' = "start"
    /\ UNCHANGED <<dirs, starts, meant, ran, faults, left>>

-----------------------------------------------------------------------------
\* The application: rds_update_once copies the cfg directory to DATA's.
CfgCopied(whole) ==
    [dirs EXCEPT !["DATA"].cfgMark = whole, !["DATA"].mark = IF @ = "gone" THEN "bad" ELSE @]

SavesPara ==
    /\ stage = "run"
    /\ dirs' = CfgCopied(TRUE)
    /\ UNCHANGED <<stage, starts, meant, ran, faults, left>>

SavesParaInPart ==
    /\ stage = "run" /\ left.cut > 0
    /\ dirs' = CfgCopied(FALSE)
    /\ Restarts
    /\ Faulty({"cut"})
    /\ left' = [left EXCEPT !.cut = @ - 1]
    /\ UNCHANGED <<meant, ran>>

\* upg_ctl_chk_mpu_app_ver
NewVersion(p) == APP \in DOMAIN p => p[APP] # dirs["CUR"].img[APP]

\* an upgrade that is marked good and not in place yet is replaced
Again == IF dir_get_status("UPG") THEN {"again"} ELSE {}

\* upg_ctl_proc: UPG is removed, marked bad, filled and marked good
upg_ctl_proc(p) ==
    /\ stage = "run" /\ left.pkg > 0
    /\ NewVersion(p)
    /\ dirs' = [dirs EXCEPT !["UPG"] = Good(Package(p))]
    /\ Faulty(Again)
    /\ left' = [left EXCEPT !.pkg = @ - 1]
    /\ UNCHANGED <<stage, starts, meant, ran>>

\* mutant: the mark is written before the files
SavedFiles_marked(p) == [mark : {"good"}, img : HalfRemoved(Package(p)), cfgMark : {FALSE}]

\* some files of the package are saved, each of them whole
SavedFiles(p) == [mark : {"bad"}, img : HalfRemoved(Package(p)), cfgMark : {FALSE}]

\* a file is refused or cannot be written
UpgradeFails(p) ==
    /\ stage = "run" /\ left.pkg > 0
    /\ \E x \in SavedFiles(p) : dirs' = [dirs EXCEPT !["UPG"] = x]
    /\ Faulty(Again)
    /\ left' = [left EXCEPT !.pkg = @ - 1]
    /\ UNCHANGED <<stage, starts, meant, ran>>

UpgradeCut(p) ==
    /\ stage = "run" /\ left.pkg > 0 /\ left.cut > 0
    /\ \E x \in HalfGone(dirs["UPG"]) \cup SavedFiles(p) : dirs' = [dirs EXCEPT !["UPG"] = x]
    /\ Restarts
    /\ Faulty(Again \cup {"cut"})
    /\ left' = [left EXCEPT !.pkg = @ - 1, !.cut = @ - 1]
    /\ UNCHANGED <<meant, ran>>

\* the terminal restarts: PM_EVT_RESTART_4G_REQ, or the driver
Reboot ==
    /\ stage \in {"run", "exit", "ended"}
    /\ Restarts
    /\ UNCHANGED <<dirs, meant, ran, faults, left>>

LauncherNext ==
    \/ Succeeds \/ Fails \/ LauncherCut
    \/ Begins \/ StartApp \/ Checks \/ Chooses \/ RollBack
    \/ StartFails \/ ComesUp \/ Exits
    \/ SavesPara \/ SavesParaInPart \/ Reboot
    \/ \E p \in Packages : upg_ctl_proc(p) \/ UpgradeFails(p) \/ UpgradeCut(p)

LauncherSpec == LauncherInit /\ [][LauncherNext]_lVars

-----------------------------------------------------------------------------
\* the versions of a file: of an upgrade, of the factory, missing or copied in part
Vers == {"no", "part"} \cup UNION {{p[f] : f \in DOMAIN p} : p \in Packages \cup {Factory}}

\* The types of the launcher's state; it counts no more than three failed starts.
LauncherTypeOK ==
    /\ dirs \in [{"CUR", "PRE", "DATA", "UPG"} ->
                    [mark : {"gone", "bad", "good"}, img : [Files -> Vers], cfgMark : BOOLEAN]]
    /\ stage \in DOMAIN Calls \cup {"boot", "start_app", "check", "choose", "start", "run",
                                    "roll_back", "exit", "ended"}
    /\ starts \in 0 .. 3

\* Whatever goes wrong in one way only - any number of power cuts, one call that fails,
\* an upgrade that does not come up, /usrapp erased, an upgrade replaced before it is in
\* place - the launcher starts only images that an upgrade or the factory meant, always
\* finds one to start, and goes back only to an image that has come up before.
OneFaultSurvived ==
    /\ LauncherTypeOK
    /\ Cardinality(faults) <= 1 =>
          /\ stage = "start" => dirs["CUR"].img \in meant
          /\ stage # "exit"
          /\ stage = "back" => dirs["PRE"].img \in ran
=============================================================================
