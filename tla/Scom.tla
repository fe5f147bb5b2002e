-------------------------------- MODULE Scom --------------------------------
(***************************************************************************)
(* The serial link to the MCU (app/base/scom): the thread of scom_main.c   *)
(* that owns the SPI device, and the connection and upgrade states of      *)
(* scom_tl.c.                                                              *)
(*                                                                         *)
(* The thread handles one message or one piece of SPI data at a time.  A   *)
(* timer that fires posts a message; stopping the timer later does not     *)
(* take that message back.  The power manager and the mode the MCU asks    *)
(* for are the environment: any message of Pm in any order, and the mode   *)
(* changes independently of it.                                            *)
(***************************************************************************)
EXTENDS Integers, Sequences

CONSTANTS HeartLimit,  \* heartbeats without an answer before the device is reopened
          MsgCap,      \* bound: messages waiting for the thread
          PmTold       \* messages of the power manager

ASSUME ScomAssumption ==
    /\ HeartLimit \in Nat \ {0} /\ MsgCap \in Nat \ {0}
    /\ PmTold \subseteq {"SLEEP", "OFF", "EMERGENCY", "RUNNING"}

VARIABLES
    spiFd,     \* scom_spifd >= 0
    devFd,     \* scom_dev_fd >= 0
    heart,     \* scom_heart_count
    scomReady, \* scom_is_ready_sleep
    timers,    \* the timers that run: "CLOSE", "OPEN", "RESEND"
    inq,       \* messages for the thread
    quietMode, \* ST_ITEM_PM_MODE is LISTEN, SLEEP, DEEP_SLEEP or OFF
    tl,        \* scom_tl_status
    conAsked,  \* a connect request is on its way to the MCU
    lastTold,  \* history: the power manager's last message
    quietSince \* history: that message was to sleep, and the mode quiet ever since

scomVars == <<spiFd, devFd, heart, scomReady, timers, inq, quietMode, tl, conAsked,
              lastTold, quietSince>>

Asleep == {"SLEEP", "OFF"}
Awake  == {"EMERGENCY", "RUNNING"}
OneShot == {"CLOSE", "OPEN", "RESEND"}

\* scom_tl_init sends its first request before there is a function to send with;
\* scom_init opens the device
ScomInit ==
    /\ spiFd \in BOOLEAN /\ devFd = spiFd
    /\ heart = 0 /\ scomReady = FALSE
    /\ timers = {"RESEND"} \cup (IF spiFd THEN {} ELSE {"OPEN"})
    /\ inq = <<>> /\ quietMode = FALSE
    /\ tl = "CONNECTING" /\ conAsked = FALSE
    /\ lastTold = "RUNNING" /\ quietSince = FALSE

-----------------------------------------------------------------------------
\* scom_dev_open; a failure leaves the caller's descriptor alone and starts the timer
Open(ok) ==
    /\ devFd' = ok
    /\ spiFd' = (spiFd \/ ok)
    /\ timers' = IF ok THEN timers ELSE timers \cup {"OPEN"}

\* the head of the loop
RestartSpi(ok) ==
    /\ heart >= HeartLimit
    /\ heart' = 0
    /\ spiFd' = ok /\ devFd' = ok
    /\ timers' = IF ok THEN timers ELSE timers \cup {"OPEN"}
    /\ UNCHANGED <<scomReady, inq, quietMode, tl, conAsked, lastTold, quietSince>>

\* mutant: the heartbeats are looked at only when no message waits
Take_first(m) == inq # <<>> /\ Head(inq) = m /\ inq' = Tail(inq)

Take(m) == heart < HeartLimit /\ inq # <<>> /\ Head(inq) = m /\ inq' = Tail(inq)

ToSleep ==
    /\ \E m \in Asleep : Take(m)
    /\ timers' = timers \cup {"CLOSE"}
    /\ UNCHANGED <<spiFd, devFd, heart, scomReady, quietMode, tl, conAsked, lastTold, quietSince>>

ToRun(ok) ==
    /\ \E m \in Awake : Take(m)
    /\ scomReady' = FALSE
    /\ IF spiFd
       THEN /\ ok
            /\ timers' = timers \ {"CLOSE"}
            /\ UNCHANGED <<spiFd, devFd>>
       ELSE /\ spiFd' = ok /\ devFd' = ok
            /\ timers' = (timers \ {"CLOSE"}) \cup (IF ok THEN {} ELSE {"OPEN"})
    /\ UNCHANGED <<heart, quietMode, tl, conAsked, lastTold, quietSince>>

\* mutant: no heartbeats are counted once the link is ready to sleep
HeartTimer_whenBusy ==
    /\ Take("HEART")
    /\ heart' = IF scomReady THEN heart ELSE heart + 1
    /\ UNCHANGED <<spiFd, devFd, scomReady, timers, quietMode, tl, conAsked, lastTold, quietSince>>

HeartTimer ==
    /\ Take("HEART")
    /\ heart' = heart + 1
    /\ UNCHANGED <<spiFd, devFd, scomReady, timers, quietMode, tl, conAsked, lastTold, quietSince>>

\* mutant: one attempt only
OpenTimer_once(ok) ==
    /\ Take("OPEN")
    /\ devFd' = (ok /\ ~scomReady)
    /\ spiFd' = (spiFd \/ (ok /\ ~scomReady))
    /\ UNCHANGED <<heart, scomReady, timers, quietMode, tl, conAsked, lastTold, quietSince>>

\* a device that is already open is opened again
OpenTimer(ok) ==
    /\ Take("OPEN")
    /\ IF scomReady THEN ok /\ UNCHANGED <<spiFd, devFd, timers>> ELSE Open(ok)
    /\ UNCHANGED <<heart, scomReady, quietMode, tl, conAsked, lastTold, quietSince>>

\* mutant: ready without looking at the device
scom_timeout_proc_late ==
    /\ Take("CLOSE")
    /\ scomReady' = (scomReady \/ (quietMode /\ ~spiFd))
    /\ spiFd' = (spiFd /\ ~quietMode) /\ devFd' = (devFd /\ ~quietMode)
    /\ UNCHANGED <<heart, timers, quietMode, tl, conAsked, lastTold, quietSince>>

scom_timeout_proc ==
    /\ Take("CLOSE")
    /\ scomReady' = (scomReady \/ quietMode)
    /\ spiFd' = (spiFd /\ ~quietMode) /\ devFd' = (devFd /\ ~quietMode)
    /\ UNCHANGED <<heart, timers, quietMode, tl, conAsked, lastTold, quietSince>>

\* mutant: the request is sent and its timer forgotten
scom_tl_send_con_req_once ==
    /\ conAsked' = (conAsked \/ devFd)
    /\ tl' = "CONNECTING"
    /\ UNCHANGED timers

\* a closed device loses the request
scom_tl_send_con_req ==
    /\ conAsked' = (conAsked \/ devFd)
    /\ tl' = "CONNECTING"
    /\ timers' = timers \cup {"RESEND"}

scom_tl_timeout_proc ==
    /\ Take("RESEND")
    /\ IF tl = "CONNECTING" THEN scom_tl_send_con_req
       ELSE UNCHANGED <<tl, conAsked, timers>>
    /\ UNCHANGED <<spiFd, devFd, heart, scomReady, quietMode, lastTold, quietSince>>

-----------------------------------------------------------------------------
\* A frame of the MCU has been read: the heartbeats count anew.
Received == heart < HeartLimit /\ spiFd /\ devFd /\ heart' = 0

scom_tl_proc_con_req ==
    /\ Received
    /\ tl' = IF tl = "CONNECTING" THEN "IDLE" ELSE tl
    /\ UNCHANGED <<spiFd, devFd, scomReady, timers, inq, quietMode, conAsked, lastTold, quietSince>>

scom_tl_proc_con_res ==
    /\ Received
    /\ conAsked /\ conAsked' = FALSE
    /\ IF tl # "SERVER_STARTED" THEN tl' = "IDLE" /\ timers' = timers \ {"RESEND"}
       ELSE UNCHANGED <<tl, timers>>
    /\ UNCHANGED <<spiFd, devFd, scomReady, inq, quietMode, lastTold, quietSince>>

\* SCOM_TL_CMD_UPG_MCU_REQ: the server starts anew with the MCU's application,
\* unless it cannot be read; SCOM_TL_CMD_UPG_MCU_FIN
upg_ctl_scom_msg_proc(m, ok) ==
    /\ Received
    /\ tl' = IF m = "UPG_REQ" /\ ok THEN "SERVER_STARTED" ELSE "IDLE"
    /\ UNCHANGED <<spiFd, devFd, scomReady, timers, inq, quietMode, conAsked, lastTold, quietSince>>

\* any other frame; an answer to a data request, which would stop the resend timer, is
\* not among them, because nothing starts the client that sends such requests
OtherFrame ==
    /\ Received
    /\ UNCHANGED <<spiFd, devFd, scomReady, timers, inq, quietMode, tl, conAsked, lastTold, quietSince>>

-----------------------------------------------------------------------------
Waiting(m) == \E i \in DOMAIN inq : inq[i] = m

Post(m) == Len(inq) < MsgCap /\ inq' = Append(inq, m)

Fires(t) ==
    /\ t \in timers /\ timers' = timers \ {t}
    /\ Post(t)
    /\ UNCHANGED <<spiFd, devFd, heart, scomReady, quietMode, tl, conAsked, lastTold, quietSince>>

\* the period timer; one heartbeat waits at a time
Heartbeat ==
    /\ ~Waiting("HEART") /\ Post("HEART")
    /\ UNCHANGED <<spiFd, devFd, heart, scomReady, timers, quietMode, tl, conAsked, lastTold, quietSince>>

\* every message is for a new state (ToldIsState of Pm)
Tells(m) ==
    /\ m # lastTold /\ Post(m)
    /\ lastTold' = m
    /\ quietSince' = (m \in Asleep /\ quietMode)
    /\ UNCHANGED <<spiFd, devFd, heart, scomReady, timers, quietMode, tl, conAsked>>

ModeChanges ==
    /\ quietMode' = ~quietMode
    /\ quietSince' = FALSE
    /\ UNCHANGED <<spiFd, devFd, heart, scomReady, timers, inq, tl, conAsked, lastTold>>

scom_main ==
    \/ \E ok \in BOOLEAN : RestartSpi(ok) \/ ToRun(ok) \/ OpenTimer(ok)
    \/ ToSleep \/ HeartTimer \/ scom_timeout_proc \/ scom_tl_timeout_proc

scom_tl_msg_proc ==
    \/ scom_tl_proc_con_req \/ scom_tl_proc_con_res \/ OtherFrame
    \/ \E m \in {"UPG_REQ", "UPG_FIN"}, ok \in BOOLEAN : upg_ctl_scom_msg_proc(m, ok)

ScomNext ==
    \/ scom_main \/ scom_tl_msg_proc
    \/ \E t \in OneShot : Fires(t)
    \/ Heartbeat \/ ModeChanges
    \/ \E m \in PmTold : Tells(m)

\* an attempt to open the device that succeeds
Opens == RestartSpi(TRUE) \/ (ToRun(TRUE) /\ ~spiFd) \/ (OpenTimer(TRUE) /\ ~scomReady)

\* the thread runs, the timers fire, an open that is tried again and again
\* succeeds, an MCU that is asked again and again answers
ScomFairness ==
    /\ WF_scomVars(scom_main) /\ WF_scomVars(Heartbeat)
    /\ \A t \in OneShot : SF_scomVars(Fires(t))
    /\ SF_scomVars(Opens) /\ SF_scomVars(scom_tl_proc_con_res)

ScomSpec == ScomInit /\ [][ScomNext]_scomVars /\ ScomFairness

-----------------------------------------------------------------------------
ScomTypeOK ==
    /\ spiFd \in BOOLEAN /\ devFd \in BOOLEAN /\ scomReady \in BOOLEAN
    /\ quietMode \in BOOLEAN /\ conAsked \in BOOLEAN /\ quietSince \in BOOLEAN
    /\ heart \in 0 .. HeartLimit
    /\ timers \subseteq OneShot
    /\ inq \in Seq(OneShot \cup Asleep \cup Awake \cup {"HEART"}) /\ Len(inq) <= MsgCap
    /\ tl \in {"CONNECTING", "IDLE", "SERVER_STARTED"}
    /\ lastTold \in Asleep \cup Awake

\* A device that is closed and should not be is tried again: the timer runs or
\* its message waits, however openings, restarts and the wish to sleep interleave.
ClosedIsRetried == devFd \/ scomReady \/ "OPEN" \in timers \/ Waiting("OPEN")

\* Until the MCU has answered, the next connect request is on its way.
ResendArmed == tl = "CONNECTING" => "RESEND" \in timers \/ Waiting("RESEND")

\* In a terminal that was told to run the device is opened again, also when the
\* message of a close timer that had been stopped closed it.
SpiComesBack == <>[](lastTold \in Awake) => []<>devFd

\* Told to sleep with the MCU quiet, the link lets the terminal sleep.
ReadyInTheEnd == <>[]quietSince => <>[]scomReady

\* Over an open device the link to the MCU is set up in the end, although the
\* first request is sent before there is anything to send it with.
LinkComesUp == <>[]devFd => <>(tl # "CONNECTING")

\* Whatever is not done yet has its timer: a closed device is opened again, an unanswered
\* request sent again, however timers, their queued messages and tm_stop interleave.
ScomArmed == ScomTypeOK /\ ClosedIsRetried /\ ResendArmed

\* The link to the MCU recovers, comes up and lets the terminal sleep.
ScomProgress == SpiComesBack /\ ReadyInTheEnd /\ LinkComesUp
=============================================================================
