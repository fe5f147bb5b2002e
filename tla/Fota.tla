-------------------------------- MODULE Fota --------------------------------
(***************************************************************************)
(* The upgrade of the vehicle's ECUs: a request of the server              *)
(* (autopilot/ap_data.c), the state of the request (fota_ctrl.c), the      *)
(* head unit that confirms and watches it (geelyhu/hu_fota.c), the         *)
(* download (httpclient/http.c) and the programming with its rollback      *)
(* (fota_main.c, fota_core.c).  Four threads share fota_req under          *)
(* fota_mtx and hu_fota_state under no lock.                               *)
(*                                                                         *)
(* A critical section is one step, except those that start another thread  *)
(* or send it a message: the other thread may run before they end, and     *)
(* lock says who is inside.  Percentages, URLs, the test modes of the      *)
(* shell and the content of the file are left out: a file that is          *)
(* incomplete or not yet closed fails to load, as any file may.            *)
(***************************************************************************)
EXTENDS Naturals, Sequences, FiniteSets

CONSTANTS Packages,  \* the ECUs of an upgrade, in the order of its file
          TBOX       \* the name of the terminal itself

ASSUME FotaAssumption == Packages \subseteq Seq(UNION {{p[i] : i \in 1 .. Len(p)} : p \in Packages})

VARIABLES
    req,     \* fota_req
    lock,    \* who is inside a critical section that starts something
    http,    \* the download: req.busy, and its thread
    hu,      \* hu_fota_state, the command whose answer hu_main awaits, its next call
    apAsks,  \* ap_data is between fota_silent and fota_new_request
    selfRep, \* the report of the terminal's own upgrade
    job,     \* the thread of fota_main
    flash    \* what the ECUs hold, relative to the package

fotaVars == <<req, lock, http, hu, apAsks, selfRep, job, flash>>

EcusOf(p) == {p[i] : i \in 1 .. Len(p)} \ {TBOX}
Ecus      == UNION {EcusOf(p) : p \in Packages}

ReqType ==
    [state  : {"NOREQ", "NEWREQ", "PENDING", "DOWNLOAD", "NEWFILE", "OLDFILE",
               "UPGRADE", "FINISH"},
     cancel : BOOLEAN,
     silent : BOOLEAN]

HuType ==
    [st   : {"IDLE", "DLD_REQUEST", "DLD_CONFIRM", "DLD_PROCESS", "DLD_FINISH",
             "UPD_PROCESS", "UPD_FINISH", "UPD_ROLLUPD"},
     wait : {"none", "DLD_REQUEST", "DLD_FINISH", "UPD_FINISH", "UPD_ROLLUPD"},
     goes : {"loop", "fota_dld_start"}]

HttpType ==
    [busy : BOOLEAN,
     pc   : {"none", "recv", "close", "done"},
     gone : BOOLEAN]      \* pthread_create has failed once

\* the thread of fota_main; i, err and rerr are locals of fota_excute and
\* fota_rollback, was is what the ECUs held before them
JobType ==
    [inbox : 0 .. 1,      \* messages FOTA_MSG_TESTZIP
     pc    : {"wait", "load", "excute", "rollback", "report"},
     sleep : BOOLEAN,     \* fota_sleep
     pkg   : Packages \cup {<<>>},
     i     : 1 .. 1 + Cardinality(Ecus \cup {TBOX}),
     err   : BOOLEAN,
     rerr  : BOOLEAN,
     rback : SUBSET Ecus,
     tbox  : BOOLEAN,     \* the terminal's package is installed
     self  : BOOLEAN,     \* tbox_selfupgrade_flag
     was   : [Ecus -> {"src", "tar", "mixed"}]]

\* mutant: http_download_request is called without the lock
Free_unlocked == lock \in {"free", "ap", "dld"}

\* FOTA_LOCK succeeds
Free == lock = "free"

Idle(j) == [j EXCEPT !.pc = "wait", !.pkg = <<>>, !.i = 1, !.err = FALSE, !.rerr = FALSE,
                     !.rback = {}, !.tbox = FALSE, !.was = [e \in Ecus |-> "src"]]

\* an upgrade cut off by a power failure may have left ECUs without a program
FotaInit ==
    /\ req = [state |-> "NOREQ", cancel |-> FALSE, silent |-> FALSE]
    /\ lock = "free"
    /\ http = [busy |-> FALSE, pc |-> "none", gone |-> FALSE]
    /\ hu = [st |-> "IDLE", wait |-> "none", goes |-> "loop"]
    /\ apAsks = FALSE
    /\ selfRep \in {"due", "over"}     \* was the terminal upgraded before it started?
    /\ job = [inbox |-> 0, pc |-> "wait", sleep |-> FALSE, pkg |-> <<>>, i |-> 1,
              err |-> FALSE, rerr |-> FALSE, rback |-> {}, tbox |-> FALSE, self |-> FALSE,
              was |-> [e \in Ecus |-> "src"]]
    /\ flash \in [Ecus -> {"src", "mixed"}]

-----------------------------------------------------------------------------
(* The request.  ap_data_handle calls fota_silent and then                 *)
(* fota_new_request, two critical sections: the mode of a refused request  *)
(* stays.                                                                  *)

fota_silent(mode) ==
    /\ Free /\ ~apAsks
    /\ req' = [req EXCEPT !.silent = mode] /\ apAsks' = TRUE
    /\ UNCHANGED <<lock, http, hu, selfRep, job, flash>>

\* mutant: a package that is being programmed is not in the way
Takes_busy(state, late) ==
    \/ state \in {"NOREQ", "PENDING", "OLDFILE", "FINISH", "UPGRADE"}
    \/ state \in {"NEWREQ", "NEWFILE"} /\ late

\* the states in which a request is taken, late saying that ten seconds have passed
Takes(state, late) ==
    \/ state \in {"NOREQ", "PENDING", "OLDFILE", "FINISH"}
    \/ state \in {"NEWREQ", "NEWFILE"} /\ late

\* http_download_request up to pthread_create, whose failure goes unnoticed
SpawnDownload ==
    /\ ~http.busy
    /\ \/ http' = [http EXCEPT !.pc = "recv"]
       \/ http' = [http EXCEPT !.gone = TRUE]

fota_new_request ==
    /\ Free /\ apAsks /\ apAsks' = FALSE
    /\ \/ ~Takes(req.state, FALSE) /\ UNCHANGED <<req, lock, http>>
       \/ /\ Takes(req.state, TRUE)
          /\ \/ ~req.silent /\ req' = [req EXCEPT !.state = "NEWREQ"] /\ UNCHANGED <<lock, http>>
             \/ req.silent /\ http.busy
                  /\ req' = [req EXCEPT !.state = "PENDING"] /\ UNCHANGED <<lock, http>>
             \/ req.silent /\ SpawnDownload /\ lock' = "ap" /\ UNCHANGED req
    /\ UNCHANGED <<hu, selfRep, job, flash>>

\* the rest of http_download_request and of its caller
DownloadStarted ==
    /\ lock \in {"ap", "dld"} /\ lock' = "free"
    /\ http' = [http EXCEPT !.busy = TRUE]
    /\ req' = [req EXCEPT !.state = "DOWNLOAD"]
    /\ hu' = IF lock = "dld" THEN [hu EXCEPT !.st = "DLD_PROCESS", !.goes = "loop"] ELSE hu
    /\ UNCHANGED <<apAsks, selfRep, job, flash>>

fota_dld_cancel(r) ==
    CASE r.state = "NEWREQ"   -> [r EXCEPT !.state = "PENDING"]
      [] r.state = "DOWNLOAD" -> [r EXCEPT !.cancel = TRUE]
      [] OTHER                -> r

-----------------------------------------------------------------------------
(* The download.  recv_cb reports FINISH with the last byte, before the    *)
(* file is closed and its MD5 is compared; the last event is an error in   *)
(* any case, and is ignored unless the state is still DOWNLOAD.            *)

\* fota_dld_cb without its FINISH event
DldCb(r, event) ==
    CASE r.state # "DOWNLOAD" -> r
      [] r.state = "DOWNLOAD" /\ r.cancel -> [r EXCEPT !.cancel = FALSE, !.state = "NOREQ"]
      [] r.state = "DOWNLOAD" /\ ~r.cancel ->
            IF event = "ERROR" THEN [r EXCEPT !.state = "PENDING"] ELSE r

\* fota_dld_cb with FINISH; a silent request goes on to the upgrade
DldFinished(next) ==
    IF req.state = "DOWNLOAD" /\ ~req.cancel
    THEN \/ /\ ~req.silent
            /\ req' = [req EXCEPT !.state = "NEWFILE"]
            /\ http' = next /\ UNCHANGED <<lock, job>>
         \/ /\ req.silent                                  \* fota_request fails
            /\ req' = [req EXCEPT !.state = "OLDFILE"]
            /\ http' = next /\ UNCHANGED <<lock, job>>
         \/ /\ req.silent
            /\ job' = [job EXCEPT !.inbox = @ + 1]
            /\ lock' = "cb" /\ http' = next /\ UNCHANGED req
    ELSE req' = DldCb(req, "FINISH") /\ http' = next /\ UNCHANGED <<lock, job>>

\* the end of the critical section of fota_dld_cb that sent the message
SilentUpgrade ==
    /\ lock = "cb" /\ lock' = "free"
    /\ req' = [req EXCEPT !.state = "UPGRADE"]
    /\ UNCHANGED <<http, hu, apAsks, selfRep, job, flash>>

\* a callback that returns an error ends the download
HttpProcess ==
    /\ Free /\ http.pc = "recv"
    /\ req.state # "DOWNLOAD" \/ req.cancel
    /\ req' = DldCb(req, "PROCESS") /\ http' = [http EXCEPT !.pc = "done"]
    /\ UNCHANGED <<lock, hu, apAsks, selfRep, job, flash>>

\* the last byte
HttpFinish ==
    /\ Free /\ http.pc = "recv"
    /\ DldFinished([http EXCEPT !.pc = "close"])
    /\ UNCHANGED <<hu, apAsks, selfRep, flash>>

\* fclose, MD5; or the connection fails ten times
HttpEnds ==
    /\ http.pc \in {"recv", "close"}
    /\ http' = [http EXCEPT !.pc = "done"]
    /\ UNCHANGED <<req, lock, hu, apAsks, selfRep, job, flash>>

\* mutant: a download that was completed or has failed makes no last callback
HttpDone_silent ==
    LET over == [http EXCEPT !.pc = "none", !.busy = FALSE]
    IN /\ Free
       /\ \/ http.pc = "done" /\ http' = over /\ UNCHANGED <<req, lock, job>>
          \/ http.pc = "recv" /\ DldFinished(over)
       /\ UNCHANGED <<hu, apAsks, selfRep, flash>>

\* the last callback; without memory for the client it says FINISH
HttpDone ==
    LET over == [http EXCEPT !.pc = "none", !.busy = FALSE]
    IN /\ Free
       /\ \/ /\ http.pc = "done"
             /\ req' = DldCb(req, "ERROR") /\ http' = over /\ UNCHANGED <<lock, job>>
          \/ http.pc = "recv" /\ DldFinished(over)
       /\ UNCHANGED <<hu, apAsks, selfRep, flash>>

-----------------------------------------------------------------------------
(* The head unit.  hu_main sends a command that needs an answer only when  *)
(* it waits for none, and calls its done_proc on answer, time-out or reset *)
(* of the connection.                                                      *)

HuThread == hu.goes = "loop" /\ UNCHANGED <<lock, http, apAsks, selfRep, job, flash>>

\* hu_fota_dld_request_send; a pack that cannot be sent is not awaited
hu_fota_dld_request_send ==
    /\ HuThread /\ Free
    /\ hu.st = "IDLE" /\ hu.wait = "none" /\ req.state = "NEWREQ"
    /\ \E sent \in BOOLEAN :
          hu' = [hu EXCEPT !.st = "DLD_REQUEST", !.wait = IF sent THEN "DLD_REQUEST" ELSE @]
    /\ UNCHANGED req

\* no answer for 65 seconds, or the answer no
hu_fota_dld_refused ==
    /\ HuThread /\ Free
    /\ hu.st = "DLD_CONFIRM"
    /\ hu' = [hu EXCEPT !.st = "IDLE"] /\ req' = fota_dld_cancel(req)

hu_fota_dld_confirm_recv ==
    /\ HuThread
    /\ hu.st = "DLD_CONFIRM"
    /\ hu' = [hu EXCEPT !.goes = "fota_dld_start"] /\ UNCHANGED req

hu_fota_dld_restart_recv ==
    /\ HuThread /\ Free
    /\ hu.st = "IDLE" /\ req.state = "PENDING"
    /\ hu' = [hu EXCEPT !.goes = "fota_dld_start"] /\ UNCHANGED req

fota_dld_start ==
    /\ Free /\ hu.goes = "fota_dld_start"
    /\ \/ /\ \/ req.state \notin {"NEWREQ", "PENDING"} /\ UNCHANGED req
             \/ /\ req.state \in {"NEWREQ", "PENDING"} /\ http.busy
                /\ req' = [req EXCEPT !.state = "PENDING"]
          /\ hu' = [hu EXCEPT !.st = "DLD_FINISH", !.goes = "loop"]
          /\ UNCHANGED <<lock, http>>
       \/ /\ req.state \in {"NEWREQ", "PENDING"}
          /\ SpawnDownload /\ lock' = "dld" /\ UNCHANGED <<req, hu>>
    /\ UNCHANGED <<apAsks, selfRep, job, flash>>

\* hu_check_send of the finish commands, whose send_proc changes nothing
HuFinishSend ==
    /\ HuThread
    /\ hu.wait = "none" /\ hu.st \in {"DLD_FINISH", "UPD_FINISH", "UPD_ROLLUPD"}
    /\ hu' = [hu EXCEPT !.wait = hu.st] /\ UNCHANGED req

\* the done_proc of the awaited command, whatever hu_fota_state has become since
HuDone ==
    /\ HuThread /\ Free
    /\ hu.wait # "none"
    /\ \/ /\ hu.wait = "DLD_REQUEST"
          /\ \/ hu' = [hu EXCEPT !.st = "DLD_CONFIRM", !.wait = "none"] /\ UNCHANGED req
             \/ hu' = [hu EXCEPT !.st = "IDLE", !.wait = "none"] /\ req' = fota_dld_cancel(req)
       \/ /\ hu.wait # "DLD_REQUEST"
          /\ hu' = [hu EXCEPT !.st = "IDLE", !.wait = "none"] /\ UNCHANGED req

\* mutant: the end of the upgrade is not looked for while a command is awaited
HuProcessSend_waits ==
    /\ HuThread /\ Free /\ hu.wait # "none"
    /\ \/ /\ hu.st = "DLD_PROCESS" /\ req.state # "DOWNLOAD"
          /\ hu' = [hu EXCEPT !.st = "DLD_FINISH"]
       \/ /\ hu.st = "UPD_PROCESS" /\ req.state # "UPGRADE"
          /\ hu' = [hu EXCEPT !.st = "UPD_FINISH"]
    /\ UNCHANGED req

\* hu_fota_dld_process_send and hu_cmd_fota_upd_process_send: no percentage any more
HuProcessSend ==
    /\ HuThread /\ Free
    /\ \/ /\ hu.st = "DLD_PROCESS" /\ req.state # "DOWNLOAD"
          /\ hu' = [hu EXCEPT !.st = "DLD_FINISH"]
       \/ /\ hu.st = "UPD_PROCESS" /\ req.state # "UPGRADE"
          /\ hu' = [hu EXCEPT !.st = "UPD_FINISH"]
    /\ UNCHANGED req

\* mutant: an upgrade may be started twice
fota_upd_start_again ==
    /\ Free /\ hu.goes = "loop" /\ hu.st = "IDLE"
    /\ req.state \in {"NEWFILE", "OLDFILE", "UPGRADE"}
    /\ job' = [job EXCEPT !.inbox = @ + 1]
    /\ lock' = "upd"
    /\ UNCHANGED <<req, hu, http, apAsks, selfRep, flash>>

\* hu_cmd_fota_upd_request_recv with fota_upd_start
fota_upd_start ==
    /\ Free /\ hu.goes = "loop" /\ hu.st = "IDLE"
    /\ \/ /\ req.state \notin {"NEWFILE", "OLDFILE"}
          /\ hu' = [hu EXCEPT !.st = "UPD_FINISH"] /\ UNCHANGED <<req, lock, job>>
       \/ /\ req.state \in {"NEWFILE", "OLDFILE"}          \* fota_request fails
          /\ req' = [req EXCEPT !.state = "OLDFILE"]
          /\ hu' = [hu EXCEPT !.st = "UPD_FINISH"] /\ UNCHANGED <<lock, job>>
       \/ /\ req.state \in {"NEWFILE", "OLDFILE"}
          /\ job' = [job EXCEPT !.inbox = @ + 1]
          /\ lock' = "upd" /\ UNCHANGED <<req, hu>>
    /\ UNCHANGED <<http, apAsks, selfRep, flash>>

\* the end of fota_upd_start and of its caller
UpgradeStarted ==
    /\ lock = "upd" /\ lock' = "free"
    /\ req' = [req EXCEPT !.state = "UPGRADE"]
    /\ hu' = [hu EXCEPT !.st = "UPD_PROCESS"]
    /\ UNCHANGED <<http, apAsks, selfRep, job, flash>>

-----------------------------------------------------------------------------
(* The programming.                                                        *)

\* fota_upd_cb: a cancelled or superseded upgrade is told to stop
UpdCbStops == req.cancel \/ req.state # "UPGRADE"

UpdCb(event) ==
    IF UpdCbStops THEN [req EXCEPT !.cancel = FALSE]
    ELSE [req EXCEPT !.state = CASE event = "ERROR"  -> "OLDFILE"
                                 [] event = "FINISH" -> "FINISH"
                                 [] OTHER            -> @]

JobThread == UNCHANGED <<lock, http, apAsks, selfRep>>

\* PM_MSG_SLEEP, PM_MSG_EMERGENCY, PM_MSG_OFF; PM_MSG_RUNNING
FotaSleeps(asleep) ==
    /\ JobThread /\ job.pc = "wait" /\ job.sleep # asleep
    /\ job' = [job EXCEPT !.sleep = asleep] /\ UNCHANGED <<req, hu, flash>>

\* FOTA_MSG_TESTZIP in fota_main
fota_main ==
    /\ JobThread /\ job.pc = "wait" /\ job.inbox > 0
    /\ \/ /\ job.sleep /\ Free
          /\ req' = UpdCb("ERROR") /\ job' = [job EXCEPT !.inbox = @ - 1]
       \/ /\ ~job.sleep
          /\ job' = [job EXCEPT !.inbox = @ - 1, !.pc = "load"] /\ UNCHANGED req
    /\ UNCHANGED <<hu, flash>>

\* fota_do_request up to the loop of fota_excute, with fota_calc_workload.  An ECU
\* that holds a program is at the package's source version; one at another version
\* is one whose match fails.
LoadPackage ==
    /\ JobThread /\ job.pc = "load"
    /\ \/ job' = [job EXCEPT !.pc = "report", !.err = TRUE, !.was = flash]
       \/ \E p \in Packages, self \in BOOLEAN :            \* fota_calc_workload fails
             /\ self => \E i \in 1 .. Len(p) : p[i] = TBOX
             /\ job' = [job EXCEPT !.pc = "report", !.err = TRUE, !.was = flash,
                                   !.self = @ \/ self]
       \/ \E p \in Packages :
             job' = [job EXCEPT !.pc = "excute", !.pkg = p, !.was = flash,
                                !.self = @ \/ \E i \in 1 .. Len(p) : p[i] = TBOX]
    /\ UNCHANGED <<req, hu, flash>>

\* an ECU that is not known, not reached, not at the source version, or that refuses
\* the session, the key or the flash driver
EcuRefuses == UNCHANGED flash /\ job' = [job EXCEPT !.err = TRUE]

\* mutant: the ECU is marked for the rollback when its flash has been erased
ProgramFails_late(e) ==
    /\ flash[e] = "src"
    /\ flash' = [flash EXCEPT ![e] = "mixed"]
    /\ \E erased \in BOOLEAN :
          job' = [job EXCEPT !.err = TRUE, !.rback = IF erased THEN @ \cup {e} ELSE @]

\* fota_ecu_program fails with the flash partly erased or programmed, to the new version
\* or to one on the way to it, or what follows the programming fails
ProgramFails(e) ==
    /\ flash[e] = "src"
    /\ \E f \in {"mixed", "tar"} : flash' = [flash EXCEPT ![e] = f]
    /\ job' = [job EXCEPT !.err = TRUE, !.rback = @ \cup {e}]

\* the callback of fota_ecu_program lets it go on to the end, or breaks it off
fota_ecu_program(e) ==
    /\ Free /\ flash[e] = "src"
    /\ req' = UpdCb("PROCESS")
    /\ IF UpdCbStops
       THEN /\ job' = [job EXCEPT !.err = TRUE, !.rback = @ \cup {e}]
            /\ flash' = [flash EXCEPT ![e] = "mixed"]
       ELSE /\ job' = [job EXCEPT !.i = @ + 1, !.rback = @ \cup {e}]
            /\ flash' = [flash EXCEPT ![e] = "tar"]

\* one round of the loop of fota_excute, which an error ends
fota_excute ==
    /\ JobThread /\ job.pc = "excute" /\ ~job.err /\ job.i <= Len(job.pkg)
    /\ LET e == job.pkg[job.i] IN
       \/ e = TBOX /\ job' = [job EXCEPT !.i = @ + 1] /\ UNCHANGED <<req, flash>>
       \/ e # TBOX /\ (EcuRefuses \/ ProgramFails(e)) /\ UNCHANGED req
       \/ e # TBOX /\ fota_ecu_program(e)
    /\ UNCHANGED hu

\* what follows the loop
fota_tbox_upgrade ==
    LET tbox == \E i \in 1 .. Len(job.pkg) : job.pkg[i] = TBOX
        ends == job.i > Len(job.pkg)
    IN /\ JobThread /\ job.pc = "excute"
       /\ \/ /\ job.err \/ (ends /\ tbox)
             /\ job' = [job EXCEPT !.pc = "rollback", !.err = TRUE, !.i = 1]
          \/ /\ ~job.err /\ ends
             /\ job' = [job EXCEPT !.pc = "report", !.tbox = tbox]
       /\ UNCHANGED <<req, hu, flash>>

\* one ECU of fota_rollback, whose errors are counted and do not end it
RollbackEcu ==
    /\ JobThread /\ job.pc = "rollback" /\ job.i <= Len(job.pkg)
    /\ LET e == job.pkg[job.i]
           next == [job EXCEPT !.i = @ + 1]
       IN \/ e \notin job.rback /\ job' = next /\ UNCHANGED flash
          \/ e \in job.rback /\ job' = next /\ flash' = [flash EXCEPT ![e] = "src"]
          \/ /\ e \in job.rback /\ job' = [next EXCEPT !.rerr = TRUE]
             /\ \E f \in {flash[e], "mixed"} : flash' = [flash EXCEPT ![e] = f]
    /\ UNCHANGED <<req, hu>>

\* the end of fota_rollback: the head unit is told, without a lock
hu_fota_upd_rollupd_reslut_state ==
    /\ JobThread /\ job.pc = "rollback" /\ job.i > Len(job.pkg)
    /\ hu' = [hu EXCEPT !.st = "UPD_ROLLUPD"]
    /\ job' = [job EXCEPT !.pc = "report"]
    /\ UNCHANGED <<req, flash>>

\* the end of fota_do_request.  The versions are named anew for the next package.
fota_do_request ==
    /\ JobThread /\ job.pc = "report"
    /\ \/ job.self /\ UNCHANGED req
       \/ ~job.self /\ Free /\ req' = UpdCb(IF job.err THEN "ERROR" ELSE "FINISH")
    /\ job' = Idle(job)
    /\ flash' = [e \in Ecus |-> IF flash[e] = "mixed" THEN "mixed" ELSE "src"]
    /\ UNCHANGED hu

-----------------------------------------------------------------------------
\* hu_cmd_fota_selupgrade_finish, called when the MCU or the terminal reports the end
\* of the terminal's own upgrade: it writes the state without the lock, then calls
\* fota_upd_cb.  The report comes after the terminal has started, or ends an upgrade
\* with a package for the terminal.  Left out is a report at the very moment at which a
\* silent request starts its download: it would declare that upgrade finished.
SelfUpgraded ==
    /\ selfRep = "due" /\ Free
    /\ req.state = "NOREQ" \/ (req.state = "UPGRADE" /\ job.self /\ job.pc = "wait")
    /\ selfRep' = "cb"
    /\ hu' = [hu EXCEPT !.st = "UPD_FINISH"]
    /\ req' = [req EXCEPT !.state = "UPGRADE"]
    /\ UNCHANGED <<lock, http, apAsks, job, flash>>

SelfUpgradeCb ==
    /\ Free /\ selfRep = "cb" /\ selfRep' = "over"
    /\ req' = UpdCb("FINISH")
    /\ UNCHANGED <<lock, http, hu, apAsks, job, flash>>

HttpThread  == HttpProcess \/ HttpFinish \/ HttpEnds \/ HttpDone
Unlocks     == DownloadStarted \/ SilentUpgrade \/ UpgradeStarted
HuReports   == HuFinishSend \/ HuProcessSend \/ fota_dld_start \/ hu_fota_dld_refused
FotaJob     == fota_main \/ LoadPackage \/ fota_excute \/ fota_tbox_upgrade
                  \/ RollbackEcu \/ hu_fota_upd_rollupd_reslut_state \/ fota_do_request

FotaNext ==
    \/ \E mode \in BOOLEAN : fota_silent(mode) \/ FotaSleeps(mode)
    \/ fota_new_request
    \/ hu_fota_dld_request_send \/ hu_fota_dld_confirm_recv \/ hu_fota_dld_restart_recv
    \/ fota_upd_start \/ HuDone \/ HuReports
    \/ HttpThread \/ Unlocks \/ FotaJob
    \/ SelfUpgraded \/ SelfUpgradeCb

\* The threads run, a download ends (the client tries ten times, on a socket with
\* time-outs), and the head unit answers or its connection is reset.
FotaFairness ==
    /\ WF_fotaVars(Unlocks)
    /\ SF_fotaVars(HttpThread \/ FotaJob \/ SelfUpgradeCb)
    /\ SF_fotaVars(HuReports \/ HuDone)

FotaSpec == FotaInit /\ [][FotaNext]_fotaVars /\ FotaFairness

-----------------------------------------------------------------------------
(* Properties.                                                             *)

\* Every variable has its type; at most one package waits for the thread of fota_main.
FotaTypeOK ==
    /\ req \in ReqType /\ hu \in HuType /\ http \in HttpType
    /\ lock \in {"free", "ap", "dld", "cb", "upd"}
    /\ apAsks \in BOOLEAN /\ selfRep \in {"due", "cb", "over"}
    /\ DOMAIN job = DOMAIN [inbox |-> 0, pc |-> 0, sleep |-> 0, pkg |-> 0, i |-> 0, err |-> 0,
                            rerr |-> 0, rback |-> 0, tbox |-> 0, self |-> 0, was |-> 0]
    /\ job.inbox \in 0 .. 1
    /\ job.pc \in {"wait", "load", "excute", "rollback", "report"}
    /\ job.pkg \in Packages \cup {<<>>} /\ job.i \in 1 .. 1 + Len(job.pkg)
    /\ {job.sleep, job.err, job.rerr, job.tbox, job.self} \subseteq BOOLEAN
    /\ job.rback \subseteq Ecus
    /\ {flash, job.was} \subseteq [Ecus -> {"src", "tar", "mixed"}]

\* While a package is handed over or programmed, the request is in the state UPGRADE
\* and not cancelled, so that no answer of the callback breaks off a running upgrade and
\* no request or download touches the package.
UpgradeIsAlone ==
    (job.inbox > 0 \/ job.pc # "wait") /\ Free =>
        req.state = "UPGRADE" /\ ~req.cancel /\ http.pc # "recv"

\* When fota_excute has ended without an error every ECU holds the new version and the
\* terminal's own package is installed; when it has ended with one and the rollback
\* reports none, every ECU holds what it held before and the terminal was left alone.
AllOrNothing ==
    job.pc = "report" =>
        IF job.err
        THEN ~job.tbox /\ (~job.rerr => flash = job.was)
        ELSE /\ \A e \in EcusOf(job.pkg) : flash[e] = "tar"
             /\ (\E i \in 1 .. Len(job.pkg) : job.pkg[i] = TBOX) => job.tbox

\* The client is busy as long as the download's thread lives, and no longer, unless the
\* thread could not be created.
BusyWhileDownloading == Free /\ ~http.gone => (http.busy <=> http.pc # "none")

\* One request at a time uses the download, the package and the bus: an upgrade is alone
\* with its package, and the HTTP client refuses a second download while one runs.
OneUpgrade == FotaTypeOK /\ UpgradeIsAlone /\ BusyWhileDownloading

\* A download and the upgrade that follows it come to an end, so that the next request
\* is taken, unless the download's thread could not be created or the package has a
\* part for the terminal, whose restart ends the upgrade.
RequestEnds ==
    req.state \in {"DOWNLOAD", "UPGRADE"} ~>
        (req.state \notin {"DOWNLOAD", "UPGRADE"} \/ http.gone \/ job.self)

\* The dialogue with the head unit comes back to its idle state, so that the next
\* request is shown, unless the request's pack was never sent (nothing awaits it then)
\* or the request it follows does not end.
HuIdleAgain ==
    hu.st # "IDLE" ~>
        \/ hu.st = "IDLE" \/ http.gone \/ job.self
        \/ hu.st = "DLD_REQUEST" /\ hu.wait = "none"
=============================================================================
