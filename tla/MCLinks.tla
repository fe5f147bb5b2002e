------------------------------ MODULE MCLinks ------------------------------
(***************************************************************************)
(* Four components that share no state, checked in one run: part says     *)
(* which of them moves.  The others rest in a state that is quiet: the     *)
(* link to the MCU up in a running terminal, the Foton client asleep, no   *)
(* network configured, no upgrade asked for.  The upgrade's threads are    *)
(* checked with one ECU here, with several in MCParts.                     *)
(***************************************************************************)
EXTENDS Scom, Foton, NmDial, Fota

VARIABLE part

ScomRests ==
    /\ spiFd = TRUE /\ devFd = TRUE /\ heart = 0 /\ scomReady = FALSE
    /\ timers = {} /\ inq = <<>> /\ quietMode = FALSE
    /\ tl = "IDLE" /\ conAsked = FALSE /\ lastTold = "RUNNING" /\ quietSince = FALSE

FtRests ==
    /\ ftPc = "msg" /\ ftLink = "CLOSED" /\ ftWait = "none" /\ ftRetry = 0
    /\ ftOnline = FALSE /\ ftNet = FALSE /\ ftCan = FALSE /\ kl15 = FALSE
    /\ ftSuspend = FALSE
    /\ ftAllowSleep = TRUE /\ ftMayLogin = FALSE /\ wakeTimer = FALSE
    /\ ftData = FALSE /\ ftTrans = FALSE
    /\ ftFrame = "none" /\ ftAsked = "none" /\ downloading = FALSE

NmRests == NmInit /\ \A t \in Net : ~nm.apn[t]

MCPackages == {<<"e1">>}
FotaStarts == FotaInit /\ selfRep = "over" /\ \A e \in Ecus : flash[e] = "src"

LinksInit ==
    /\ part \in {"scom", "foton", "nm", "fota"}
    /\ FotaStarts
    /\ IF part = "scom"  THEN ScomInit ELSE ScomRests
    /\ IF part = "foton" THEN FtInit   ELSE FtRests
    /\ IF part = "nm"    THEN NmInit   ELSE NmRests

ScomMoves(A) == part = "scom" /\ A /\ UNCHANGED <<ftVars, nmVars, fotaVars, part>>
FtMoves(A)   == part = "foton" /\ A /\ UNCHANGED <<scomVars, nmVars, fotaVars, part>>
NmMoves(A)   == part = "nm" /\ A /\ UNCHANGED <<scomVars, ftVars, fotaVars, part>>
FotaMoves(A) == part = "fota" /\ A /\ UNCHANGED <<scomVars, ftVars, nmVars, part>>

\* a terminal without an APN, whose configuration does not change any more
NmAtRest == nmQueue = <<>> /\ nm.faults = MaxFaults /\ UNCHANGED nmVars

LinksNext ==
    \/ ScomMoves(ScomNext) \/ FtMoves(FtNext) \/ FotaMoves(FotaNext)
    \/ NmMoves(NmNext) \/ NmMoves(NmAtRest)

linksVars == <<scomVars, ftVars, nmVars, fotaVars, part>>

\* One of the four moves, so a condition on the one can be stated together with a
\* condition on another: what is fair to the disjunction is fair to the part of it
\* that can happen at all.
LinksFairness ==
    /\ WF_linksVars(ScomMoves(scom_main) \/ FtMoves(FtThread) \/ NmMoves(nm_dial_msg_proc)
                      \/ FotaMoves(Unlocks))
    /\ WF_linksVars(ScomMoves(Heartbeat) \/ NmMoves(RecallTimer))
    /\ SF_linksVars(ScomMoves(Fires("CLOSE")) \/ FtMoves(FtWakes))
    /\ SF_linksVars(ScomMoves(Fires("OPEN")) \/ FtMoves(FtDue))
    /\ SF_linksVars(ScomMoves(Fires("RESEND")) \/ NmMoves(Inited))
    /\ SF_linksVars(ScomMoves(Opens) \/ FtMoves(FtConnect(TRUE)) \/ NmMoves(AnswersPublic)
                      \/ FotaMoves(HuReports \/ HuDone))
    /\ SF_linksVars(ScomMoves(scom_tl_proc_con_res) \/ FtMoves(FtAnswered)
                      \/ FotaMoves(HttpThread \/ FotaJob))

LinksSpec == LinksInit /\ [][LinksNext]_linksVars /\ LinksFairness
============================================================================
