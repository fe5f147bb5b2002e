--------------------------------- MODULE Pm ---------------------------------
(***************************************************************************)
(* Power management (app/base/pm): the state table of pm_state.c driven by *)
(* the PM thread of pm_main.c, and the checks of pm_ctl.c.                 *)
(*                                                                         *)
(* Events wait in the thread's message queue; the state the MCU asks for   *)
(* is stored at once by another thread.  The check timer may fire between  *)
(* any two events, so its message is handled between any two events.  What *)
(* a registered handler answers to pm_is_sleep_ready is the modules' own   *)
(* business: each tick sees all of them ready, or not.                     *)
(***************************************************************************)
EXTENDS Integers, Sequences

CONSTANTS CheckLimit,    \* quiet ticks before the terminal sleeps by itself
          RestartLimit,  \* ticks a restart waits for the modules
          FotaLimit,     \* ticks an upgrade waits for the modules
          ErrorLimit,    \* failed upgrades before it gives up
          EvtCap         \* events the message queue holds

ASSUME PmAssumption ==
    /\ CheckLimit \in Nat \ {0} /\ RestartLimit \in Nat /\ FotaLimit \in Nat
    /\ ErrorLimit \in Nat /\ EvtCap \in Nat

VARIABLES
    pmState,   \* pm_state
    pmMode,    \* pm_mode and ST_ITEM_PM_MODE
    evq,       \* messages to the PM thread
    usb, mcu,  \* what pm_usb_wakeup_check and pm_mcu_wakeup_check return
    ringing,   \* pm_ring_status: the pin that wakes the MCU is high
    locked,    \* the wake lock is held
    told,      \* the last message to all modules
    appSleep,  \* ST_ITEM_APP_SLEEP
    cnt,       \* the static counters of s0e3, s5e3, s6e3 and s7e3
    down,      \* what became of the process: "no", "killed" or "off"
    beat       \* changes with every tick, so that a tick is a step

pmVars == <<pmState, pmMode, evq, usb, mcu, ringing, locked, told, appSleep, cnt, down, beat>>

States == {"NORMAL", "MCK_SLEEP", "MCK_POWER_OFF", "MCK_EMERGENCY", "SLEEP",
           "MCK_RESTART_APP", "MCK_RESTART_4G", "MCK_FOTA_UPDATE"}
Modes  == {"RUNNING", "EMERGENCY", "LISTEN", "SLEEP", "DEEP_SLEEP", "OFF"}
PmEvents == {"RING", "RTC", "RUNNING", "EMERGENCY", "POWER_OFF", "SLEEP_REQ",
             "RESTART_APP_REQ", "RESTART_4G_REQ", "FOTA_UPDATE_REQ"}
PmMsgs == PmEvents \cup {"AT_RING", "RTC_TIMER"}
Levels == {-1, 0, 1}        \* -1: the file could not be read
Counters == {"check", "app", "modem", "fota", "error"}

PmInit ==
    /\ pmState = "NORMAL" /\ pmMode = "RUNNING"
    /\ evq = <<>>
    /\ usb = 0 /\ mcu = 0
    /\ ringing = FALSE /\ locked = TRUE
    /\ told = "none" /\ appSleep = 0
    /\ cnt = [c \in Counters |-> 0]
    /\ down = "no" /\ beat = 0

-----------------------------------------------------------------------------
\* The flags as the code combines them, (usb | mcu << 1) >= 1: one failed read
\* makes the whole word negative.
StayAwake(u, m) == u >= 0 /\ m >= 0 /\ u + 2 * m >= 1

Enter(s) == pmState' = s
Notify(m) == told' = m
Bump(c) == cnt' = [cnt EXCEPT ![c] = @ + 1]

\* pm_send_evt: a full queue costs the message
Queued(q, e) == IF Len(q) < EvtCap THEN Append(q, e) ELSE q

Ignore == UNCHANGED <<pmState, ringing, locked, told, appSleep, cnt, down>>

\* enter a checking state and tell the modules
Check(s, m) ==
    /\ Enter(s) /\ Notify(m)
    /\ UNCHANGED <<ringing, locked, appSleep, cnt, down>>

\* mutant: the modules are not told
pm_mcu_wakeup_silent ==
    /\ Enter("NORMAL")
    /\ locked' = TRUE /\ appSleep' = 0
    /\ UNCHANGED <<told, cnt, down>>

pm_mcu_wakeup ==
    /\ Enter("NORMAL") /\ Notify("RUNNING")
    /\ locked' = TRUE /\ appSleep' = 0
    /\ UNCHANGED <<cnt, down>>

pm_ring_wakeup ==
    IF pmState # "NORMAL"
    THEN /\ Enter("NORMAL") /\ Notify("RUNNING")
         /\ locked' = TRUE /\ ringing' = TRUE
         /\ UNCHANGED <<appSleep, cnt, down>>
    ELSE /\ ringing' = (ringing \/ mcu = 0)
         /\ UNCHANGED <<pmState, locked, told, appSleep, cnt, down>>

pm_rtc_wakeup == Notify("RTC_WAKEUP") /\ locked' = TRUE

-----------------------------------------------------------------------------
\* state_tbl without its TIMER column: where an event is not ignored
HandledIn(e) ==
    {s \in States :
        \/ e = "RING" /\ s \in {"NORMAL", "MCK_SLEEP", "MCK_POWER_OFF", "SLEEP"}
        \/ e = "RTC" /\ s \in {"MCK_SLEEP", "SLEEP"}
        \/ e = "RUNNING" /\ s \in {"MCK_SLEEP", "MCK_POWER_OFF", "MCK_EMERGENCY"}
        \/ e = "EMERGENCY" /\ s \in {"NORMAL", "MCK_SLEEP"}
        \/ e = "POWER_OFF" /\ s \in {"NORMAL", "MCK_EMERGENCY"}
        \/ e \in {"SLEEP_REQ", "RESTART_APP_REQ", "RESTART_4G_REQ", "FOTA_UPDATE_REQ"}
              /\ s = "NORMAL"}

\* and by what
Handle(e) ==
    \/ e = "RING" /\ pm_ring_wakeup
    \/ /\ e = "RTC" /\ pm_rtc_wakeup /\ Enter("MCK_SLEEP")
       /\ UNCHANGED <<ringing, appSleep, cnt, down>>
    \/ e = "RUNNING" /\ pm_mcu_wakeup /\ UNCHANGED ringing
    \/ e = "EMERGENCY" /\ Check("MCK_EMERGENCY", "EMERGENCY")
    \/ e = "POWER_OFF" /\ Check("MCK_POWER_OFF", "OFF")
    \/ e = "SLEEP_REQ" /\ Check("MCK_SLEEP", "SLEEP")
    \/ e = "RESTART_APP_REQ" /\ Check("MCK_RESTART_APP", "OFF")
    \/ e = "RESTART_4G_REQ" /\ Check("MCK_RESTART_4G", "OFF")
    \/ e = "FOTA_UPDATE_REQ" /\ Check("MCK_FOTA_UPDATE", "OFF")

pm_evt_proc(e) ==
    \/ pmState \in HandledIn(e) /\ Handle(e)
    \/ pmState \notin HandledIn(e) /\ Ignore

\* the timeout in NORMAL
pm_st_s0e3 ==
    IF StayAwake(usb, mcu)
    THEN /\ cnt' = [cnt EXCEPT !["check"] = 0]
         /\ ringing' = FALSE
         /\ UNCHANGED <<pmState, locked, told, appSleep, down>>
    ELSE IF cnt["check"] + 1 < CheckLimit
    THEN /\ Bump("check")
         /\ UNCHANGED <<pmState, ringing, locked, told, appSleep, down>>
    ELSE /\ IF pmMode \in {"SLEEP", "DEEP_SLEEP", "OFF"}
            THEN Enter("MCK_POWER_OFF") /\ Notify("OFF")
            ELSE Enter("MCK_SLEEP") /\ Notify("SLEEP")
         /\ cnt' = [cnt EXCEPT !["check"] = 0]
         /\ UNCHANGED <<ringing, locked, appSleep, down>>

\* mutant: the modules are asked and the ring is not
pm_st_s1e3_noring(ready) ==
    IF StayAwake(usb, mcu)
    THEN pm_mcu_wakeup /\ ringing' = FALSE
    ELSE IF ready
    THEN /\ Enter("SLEEP") /\ locked' = FALSE
         /\ UNCHANGED <<ringing, told, appSleep, cnt, down>>
    ELSE Ignore

\* in MCK_SLEEP; the timer that wakes by the RTC may post its message from now on
pm_st_s1e3(ready) ==
    IF StayAwake(usb, mcu)
    THEN pm_mcu_wakeup /\ ringing' = FALSE
    ELSE IF ready /\ ~ringing
    THEN /\ Enter("SLEEP") /\ locked' = FALSE
         /\ UNCHANGED <<ringing, told, appSleep, cnt, down>>
    ELSE Ignore

\* in MCK_POWER_OFF
pm_st_s2e3(ready) ==
    LET seen == IF pmMode \in {"OFF", "DEEP_SLEEP"} THEN 0 ELSE usb IN
    IF StayAwake(seen, mcu)
    THEN pm_mcu_wakeup /\ ringing' = FALSE
    ELSE IF ready /\ ~ringing
    THEN /\ down' = "off"
         /\ UNCHANGED <<pmState, ringing, locked, told, appSleep, cnt>>
    ELSE Ignore

\* in MCK_EMERGENCY
pm_st_s3e3(ready) ==
    /\ ringing' = FALSE
    /\ appSleep' = IF ready THEN 1 ELSE appSleep
    /\ UNCHANGED <<pmState, locked, told, cnt, down>>

\* mutant: the terminal looks at its sockets only
pm_st_s4e3_deaf(data) == IF data THEN pm_ring_wakeup ELSE Ignore

\* in SLEEP; data says that sock_recv_check found a readable socket
pm_st_s4e3(data) ==
    IF StayAwake(usb, mcu) THEN pm_mcu_wakeup /\ ringing' = FALSE
    ELSE IF data THEN pm_ring_wakeup
    ELSE Ignore

\* mutant: the ticks without an answer are not counted
Restart_uncounted(c, how, ready) ==
    /\ IF ready \/ cnt[c] > RestartLimit THEN down' = how /\ UNCHANGED cnt
       ELSE UNCHANGED <<cnt, down>>
    /\ UNCHANGED <<pmState, ringing, locked, told, appSleep>>

\* in MCK_RESTART_APP (pkill) and MCK_RESTART_4G (Ql_Powerdown)
Restart(c, how, ready) ==
    /\ IF ready \/ cnt[c] > RestartLimit THEN down' = how /\ UNCHANGED cnt
       ELSE Bump(c) /\ UNCHANGED down
    /\ UNCHANGED <<pmState, ringing, locked, told, appSleep>>

\* in MCK_FOTA_UPDATE: an upgrade that failed too often ends; otherwise, once the
\* modules are ready or had their time, the modem is asked again to upgrade.  The
\* counter is not used beyond its limit.
pm_st_s7e3(ready, status) ==
    LET waited == IF ready \/ cnt["fota"] > FotaLimit THEN cnt["fota"] ELSE cnt["fota"] + 1
        failed == IF status = "ERROR" THEN cnt["error"] + 1 ELSE cnt["error"]
        over   == failed > ErrorLimit
    IN  /\ cnt' = [cnt EXCEPT !["fota"] = waited, !["error"] = IF over THEN 0 ELSE failed]
        /\ IF over THEN Enter("NORMAL") /\ Notify("RUNNING")
           ELSE UNCHANGED <<pmState, told>>
        /\ UNCHANGED <<ringing, locked, appSleep, down>>

-----------------------------------------------------------------------------
\* PM_MSG_ID_CHECK_TIMER
Tick ==
    /\ down = "no"
    /\ \E ready, data \in BOOLEAN : \E status \in {"IDLE", "ING", "OK", "ERROR"} :
         \/ pmState = "NORMAL" /\ pm_st_s0e3
         \/ pmState = "MCK_SLEEP" /\ pm_st_s1e3(ready)
         \/ pmState = "MCK_POWER_OFF" /\ pm_st_s2e3(ready)
         \/ pmState = "MCK_EMERGENCY" /\ pm_st_s3e3(ready)
         \/ pmState = "SLEEP" /\ pm_st_s4e3(data)
         \/ pmState = "MCK_RESTART_APP" /\ Restart("app", "killed", ready)
         \/ pmState = "MCK_RESTART_4G" /\ Restart("modem", "off", ready)
         \/ pmState = "MCK_FOTA_UPDATE" /\ pm_st_s7e3(ready, status)
    /\ beat' = 1 - beat
    /\ UNCHANGED <<pmMode, evq, usb, mcu>>

\* pm_main: the messages of the modem and of the RTC come back as events
PmThread ==
    /\ down = "no"
    /\ evq # <<>>
    /\ IF Head(evq) \in PmEvents
       THEN pm_evt_proc(Head(evq)) /\ evq' = Tail(evq)
       ELSE /\ evq' = Queued(Tail(evq), IF Head(evq) = "AT_RING" THEN "RING" ELSE "RTC")
            /\ Ignore
    /\ UNCHANGED <<pmMode, usb, mcu, beat>>

EventOf(m) ==
    CASE m = "RUNNING" -> "RUNNING"
      [] m = "EMERGENCY" -> "EMERGENCY"
      [] m = "LISTEN" -> "SLEEP_REQ"
      [] OTHER -> "POWER_OFF"

\* st_set of ST_ITEM_PM_MODE, by the thread that hears the MCU
pm_mode_proc(m) ==
    /\ down = "no"
    /\ pmMode' = m
    /\ evq' = Queued(evq, EventOf(m))
    /\ UNCHANGED <<usb, mcu, beat>> /\ Ignore

\* the other senders: the modem, the RTC, diagnosis, upgrade, shell, SIGTERM
pm_send_evt(e) ==
    /\ down = "no"
    /\ evq' = Queued(evq, e)
    /\ UNCHANGED <<pmMode, usb, mcu, beat>> /\ Ignore

\* the file of USB or that of the MCU changes, or cannot be read
InputsChange(u, m) ==
    /\ (usb = u) # (mcu = m)
    /\ usb' = u /\ mcu' = m
    /\ UNCHANGED <<pmMode, evq, beat>> /\ Ignore

\* the launcher or the MCU starts the application again
Boot ==
    /\ down # "no"
    /\ pmState' = "NORMAL" /\ pmMode' = "RUNNING" /\ evq' = <<>>
    /\ ringing' = FALSE /\ locked' = TRUE /\ told' = "none" /\ appSleep' = 0
    /\ cnt' = [c \in Counters |-> 0]
    /\ down' = "no"
    /\ UNCHANGED <<usb, mcu, beat>>

PmNext ==
    \/ Tick \/ PmThread \/ Boot
    \/ \E m \in Modes : pm_mode_proc(m)
    \/ \E e \in {"RING", "RESTART_APP_REQ", "RESTART_4G_REQ", "FOTA_UPDATE_REQ",
                 "SLEEP_REQ", "AT_RING", "RTC_TIMER"} : pm_send_evt(e)
    \/ \E u, m \in Levels : InputsChange(u, m)

\* the period timer fires every second, whatever else is queued
PmFairness == WF_pmVars(Tick)

PmSpec == PmInit /\ [][PmNext]_pmVars /\ PmFairness

-----------------------------------------------------------------------------
PmTypeOK ==
    /\ pmState \in States /\ pmMode \in Modes
    /\ evq \in Seq(PmMsgs) /\ Len(evq) <= EvtCap
    /\ usb \in Levels /\ mcu \in Levels
    /\ ringing \in BOOLEAN /\ locked \in BOOLEAN
    /\ told \in {"none", "OFF", "SLEEP", "EMERGENCY", "RUNNING", "RTC_WAKEUP"}
    /\ appSleep \in {0, 1}
    /\ cnt \in [Counters -> Nat]
    /\ cnt["check"] < CheckLimit
    /\ cnt["app"] <= RestartLimit + 1 /\ cnt["modem"] <= RestartLimit + 1
    /\ cnt["fota"] <= FotaLimit + 1 /\ cnt["error"] <= ErrorLimit
    /\ down \in {"no", "killed", "off"} /\ beat \in {0, 1}

\* The modem may suspend exactly in SLEEP: whichever way a terminal falls asleep
\* or is woken, by the MCU, a ring, a socket or the RTC, the wake lock follows.
LockFollowsState == locked <=> pmState # "SLEEP"

\* A ring that has raised the MCU's pin is not slept over: until the MCU or USB
\* has been seen awake the terminal neither sleeps nor, on the MCU's request,
\* powers off, even when the quiet time counted before the ring runs out.
RingKeepsAwake ==
    ringing => pmState # "SLEEP" /\ ~(pmState = "MCK_POWER_OFF" /\ down = "off")

\* The modules prepare for the state they were told last, and that is the state
\* the terminal is in: nobody is asked whether he is ready to sleep who was told
\* that the terminal runs, and nobody stays prepared in a running terminal.
ToldIsState ==
    /\ pmState = "NORMAL" => told \in {"none", "RUNNING"}
    /\ pmState \in {"MCK_SLEEP", "SLEEP"} => told \in {"SLEEP", "RTC_WAKEUP"}
    /\ pmState = "MCK_EMERGENCY" => told = "EMERGENCY"
    /\ pmState \in {"MCK_POWER_OFF", "MCK_RESTART_APP", "MCK_RESTART_4G",
                    "MCK_FOTA_UPDATE"} => told = "OFF"

\* A restart that was begun comes about, ready modules or not.
RestartHappens ==
    pmState \in {"MCK_RESTART_APP", "MCK_RESTART_4G"} ~> down # "no"

\* When the MCU or USB stays awake the terminal stops sleeping for good.
AwakeInTheEnd ==
    <>[]StayAwake(usb, mcu) => <>[](pmState # "SLEEP")

\* Nothing the modules fail to do stops the power manager: a restart comes about, and a
\* terminal that something keeps awake does not sleep for good.
PmProgress == RestartHappens /\ AwakeInTheEnd
=============================================================================
