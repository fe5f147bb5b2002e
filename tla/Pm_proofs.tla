------------------------------ MODULE Pm_proofs -----------------------------
(***************************************************************************)
(* The safety invariants of Pm for every limit and every length of the     *)
(* event queue.  Together they are inductive: RingKeepsAwake needs to know *)
(* that a sleeping terminal is not ringing, LockFollowsState and           *)
(* ToldIsState that the handlers meet the states the table gives them.     *)
(***************************************************************************)
EXTENDS Pm, TLAPS

PmInv == PmTypeOK /\ LockFollowsState /\ RingKeepsAwake /\ ToldIsState

\* what the handlers change, and what of the invariant is about it
HandlerTypes ==
    /\ pmState \in States
    /\ ringing \in BOOLEAN /\ locked \in BOOLEAN
    /\ told \in {"none", "OFF", "SLEEP", "EMERGENCY", "RUNNING", "RTC_WAKEUP"}
    /\ appSleep \in {0, 1}
    /\ down \in {"no", "killed", "off"}

CounterTypes ==
    /\ cnt \in [Counters -> Nat]
    /\ cnt["check"] < CheckLimit
    /\ cnt["app"] <= RestartLimit + 1 /\ cnt["modem"] <= RestartLimit + 1
    /\ cnt["fota"] <= FotaLimit + 1 /\ cnt["error"] <= ErrorLimit

OtherTypes ==
    /\ pmMode \in Modes
    /\ evq \in Seq(PmMsgs) /\ Len(evq) <= EvtCap
    /\ usb \in Levels /\ mcu \in Levels
    /\ beat \in {0, 1}

Handler == HandlerTypes /\ LockFollowsState /\ RingKeepsAwake /\ ToldIsState

LEMMA Parts == PmInv <=> Handler /\ CounterTypes /\ OtherTypes
BY DEF PmInv, PmTypeOK, Handler, HandlerTypes, CounterTypes, OtherTypes

LEMMA PmInitInv == PmInit => PmInv
<1> SUFFICES ASSUME PmInit PROVE PmInv
  OBVIOUS
<1>1. ringing = FALSE /\ locked = TRUE /\ ringing \in BOOLEAN /\ locked \in BOOLEAN
  BY Zenon DEF PmInit
<1>2. Handler
  BY <1>1 DEF PmInit, Handler, HandlerTypes, States, LockFollowsState, RingKeepsAwake, ToldIsState
<1>3. CounterTypes
  BY PmAssumption DEF PmInit, CounterTypes, Counters
<1>4. OtherTypes
  BY PmAssumption DEF PmInit, OtherTypes, Modes, Levels
<1> QED
  BY <1>2, <1>3, <1>4, Parts

-----------------------------------------------------------------------------
(* The handlers, for an invariant without the counters.                     *)

LEMMA IgnoreInv == Handler /\ Ignore => Handler'
BY DEF Ignore, Handler, HandlerTypes, LockFollowsState, RingKeepsAwake, ToldIsState

LEMMA CheckInv ==
    ASSUME Handler, down = "no", pmState # "SLEEP",
           NEW s \in States, NEW m, Check(s, m),
           \/ s = "MCK_SLEEP" /\ m = "SLEEP"
           \/ s = "MCK_EMERGENCY" /\ m = "EMERGENCY"
           \/ s \in {"MCK_POWER_OFF", "MCK_RESTART_APP", "MCK_RESTART_4G",
                     "MCK_FOTA_UPDATE"} /\ m = "OFF"
    PROVE  Handler'
BY DEF Check, Enter, Notify, Handler, HandlerTypes, LockFollowsState, RingKeepsAwake, ToldIsState

LEMMA McuWakeInv ==
    ASSUME Handler, down = "no", pm_mcu_wakeup, ringing' \in BOOLEAN
    PROVE  Handler'
<1>1. locked' \in BOOLEAN /\ locked'
  BY Zenon DEF pm_mcu_wakeup
<1> QED
  BY <1>1 DEF pm_mcu_wakeup, Enter, Notify, Handler, HandlerTypes, States,
     LockFollowsState, RingKeepsAwake, ToldIsState

LEMMA RingInv ==
    ASSUME Handler, down = "no", pm_ring_wakeup
    PROVE  Handler'
<1>1. CASE pmState # "NORMAL"
  <2>1. locked' \in BOOLEAN /\ locked' /\ ringing' \in BOOLEAN
    BY <1>1, Zenon DEF pm_ring_wakeup
  <2> QED
    BY <1>1, <2>1 DEF pm_ring_wakeup, Enter, Notify, Handler, HandlerTypes, States,
       LockFollowsState, RingKeepsAwake, ToldIsState
<1>2. CASE pmState = "NORMAL"
  <2>1. ringing' \in BOOLEAN
    BY <1>2, Zenon DEF pm_ring_wakeup
  <2> QED
    BY <1>2, <2>1 DEF pm_ring_wakeup, Handler, HandlerTypes, States,
       LockFollowsState, RingKeepsAwake, ToldIsState
<1> QED
  BY <1>1, <1>2

\* an event
LEMMA EventInv ==
    ASSUME Handler, down = "no", NEW e, pm_evt_proc(e)
    PROVE  Handler'
<1>1. CASE Ignore
  BY <1>1, IgnoreInv
<1>2. CASE e = "RING" /\ pm_ring_wakeup
  BY <1>2, RingInv
<1>3. CASE e = "RTC" /\ pmState \in HandledIn(e) /\ Handle(e)
  <2>1. pm_rtc_wakeup /\ Enter("MCK_SLEEP") /\ UNCHANGED <<ringing, appSleep, cnt, down>>
    BY <1>3 DEF Handle
  <2>2. locked' \in BOOLEAN /\ locked'
    BY <2>1, Zenon DEF pm_rtc_wakeup
  <2> QED
    BY <2>1, <2>2 DEF pm_rtc_wakeup, Enter, Notify, Handler, HandlerTypes, States,
       LockFollowsState, RingKeepsAwake, ToldIsState
<1>4. CASE e = "RUNNING" /\ pm_mcu_wakeup /\ ringing' = ringing
  BY <1>4, McuWakeInv DEF Handler, HandlerTypes
<1>5. CASE /\ e \notin {"RING", "RTC", "RUNNING"}
           /\ pmState \in HandledIn(e) /\ Handle(e)
  <2>1. pmState # "SLEEP"
    BY <1>5 DEF HandledIn
  <2>2. \/ Check("MCK_EMERGENCY", "EMERGENCY") \/ Check("MCK_POWER_OFF", "OFF")
        \/ Check("MCK_SLEEP", "SLEEP") \/ Check("MCK_RESTART_APP", "OFF")
        \/ Check("MCK_RESTART_4G", "OFF") \/ Check("MCK_FOTA_UPDATE", "OFF")
    BY <1>5 DEF Handle
  <2>3. {"MCK_EMERGENCY", "MCK_POWER_OFF", "MCK_SLEEP", "MCK_RESTART_APP",
         "MCK_RESTART_4G", "MCK_FOTA_UPDATE"} \subseteq States
    BY DEF States
  <2> QED
    BY <2>1, <2>2, <2>3, CheckInv
<1> QED
  BY <1>1, <1>2, <1>3, <1>4, <1>5 DEF pm_evt_proc, Handle

-----------------------------------------------------------------------------
(* The ticks.                                                               *)

\* one of the states' handlers of the timer
LEMMA TickInv ==
    ASSUME Handler, Tick
    PROVE  Handler'
<1> USE DEF Handler, HandlerTypes, States, LockFollowsState, RingKeepsAwake, ToldIsState,
        Enter, Notify
<1>0. down = "no"
  BY DEF Tick
<1>1. PICK ready \in BOOLEAN, data \in BOOLEAN, status \in {"IDLE", "ING", "OK", "ERROR"} :
         \/ pmState = "NORMAL" /\ pm_st_s0e3
         \/ pmState = "MCK_SLEEP" /\ pm_st_s1e3(ready)
         \/ pmState = "MCK_POWER_OFF" /\ pm_st_s2e3(ready)
         \/ pmState = "MCK_EMERGENCY" /\ pm_st_s3e3(ready)
         \/ pmState = "SLEEP" /\ pm_st_s4e3(data)
         \/ pmState = "MCK_RESTART_APP" /\ Restart("app", "killed", ready)
         \/ pmState = "MCK_RESTART_4G" /\ Restart("modem", "off", ready)
         \/ pmState = "MCK_FOTA_UPDATE" /\ pm_st_s7e3(ready, status)
  BY DEF Tick
<1>2. CASE pm_mcu_wakeup /\ ringing' = FALSE
  <2>1. ringing' \in BOOLEAN
    BY <1>2, Zenon
  <2> QED
    BY <1>0, <1>2, <2>1, McuWakeInv
<1>3. CASE Ignore
  BY <1>3, IgnoreInv
<1>4. CASE pmState = "NORMAL" /\ pm_st_s0e3
  <2>1. ringing' \in BOOLEAN /\ locked' = locked
    BY <1>4, Zenon DEF pm_st_s0e3
  <2> QED
    BY <1>0, <1>4, <2>1 DEF pm_st_s0e3
<1>5. CASE pmState = "MCK_SLEEP" /\ pm_st_s1e3(ready)
  <2>1. CASE ~StayAwake(usb, mcu) /\ ready /\ ~ringing
    <3>1. locked' = FALSE /\ ~locked' /\ locked' \in BOOLEAN /\ ringing' = ringing
      BY <1>5, <2>1, Zenon DEF pm_st_s1e3
    <3> QED
      BY <1>0, <1>5, <2>1, <3>1 DEF pm_st_s1e3
  <2> QED
    BY <1>2, <1>3, <1>5, <2>1 DEF pm_st_s1e3
<1>6. CASE pmState = "MCK_POWER_OFF" /\ pm_st_s2e3(ready)
  <2>1. \/ pm_mcu_wakeup /\ ringing' = FALSE
        \/ Ignore
        \/ /\ ~ringing /\ down' = "off"
           /\ UNCHANGED <<pmState, ringing, locked, told, appSleep, cnt>>
    BY <1>6, Zenon DEF pm_st_s2e3
  <2>2. CASE /\ ~ringing /\ down' = "off"
             /\ UNCHANGED <<pmState, ringing, locked, told, appSleep, cnt>>
    BY <1>6, <2>2
  <2> QED
    BY <1>2, <1>3, <2>1, <2>2, Zenon
<1>7. CASE pmState = "MCK_EMERGENCY" /\ pm_st_s3e3(ready)
  <2>1. ringing' \in BOOLEAN /\ ~ringing' /\ locked' = locked
    BY <1>7, Zenon DEF pm_st_s3e3
  <2> QED
    BY <1>0, <1>7, <2>1 DEF pm_st_s3e3
<1>8. CASE pmState = "SLEEP" /\ pm_st_s4e3(data)
  BY <1>0, <1>2, <1>3, <1>8, RingInv DEF pm_st_s4e3
<1>9. CASE \/ pmState = "MCK_RESTART_APP" /\ Restart("app", "killed", ready)
           \/ pmState = "MCK_RESTART_4G" /\ Restart("modem", "off", ready)
  BY <1>0, <1>9 DEF Restart
<1>10. CASE pmState = "MCK_FOTA_UPDATE" /\ pm_st_s7e3(ready, status)
  <2>1. /\ UNCHANGED <<ringing, locked, appSleep, down>>
        /\ \/ pmState' = "NORMAL" /\ told' = "RUNNING"
           \/ UNCHANGED <<pmState, told>>
    BY <1>10 DEF pm_st_s7e3
  <2> QED
    BY <1>0, <1>10, <2>1
<1> QED
  BY <1>1, <1>4, <1>5, <1>6, <1>7, <1>8, <1>9, <1>10

-----------------------------------------------------------------------------
(* The counters.                                                            *)

LEMMA TickCounters ==
    ASSUME CounterTypes, Tick
    PROVE  CounterTypes'
<1> USE PmAssumption DEF CounterTypes, Counters
<1>1. PICK ready \in BOOLEAN, data \in BOOLEAN, status \in {"IDLE", "ING", "OK", "ERROR"} :
         \/ pmState = "NORMAL" /\ pm_st_s0e3
         \/ pmState = "MCK_SLEEP" /\ pm_st_s1e3(ready)
         \/ pmState = "MCK_POWER_OFF" /\ pm_st_s2e3(ready)
         \/ pmState = "MCK_EMERGENCY" /\ pm_st_s3e3(ready)
         \/ pmState = "SLEEP" /\ pm_st_s4e3(data)
         \/ pmState = "MCK_RESTART_APP" /\ Restart("app", "killed", ready)
         \/ pmState = "MCK_RESTART_4G" /\ Restart("modem", "off", ready)
         \/ pmState = "MCK_FOTA_UPDATE" /\ pm_st_s7e3(ready, status)
  BY DEF Tick
<1>2. CASE pm_st_s0e3
  BY <1>2 DEF pm_st_s0e3, Bump
<1>3. CASE \/ pm_st_s1e3(ready) \/ pm_st_s2e3(ready) \/ pm_st_s3e3(ready) \/ pm_st_s4e3(data)
  <2>1. cnt' = cnt
    BY <1>3 DEF pm_st_s1e3, pm_st_s2e3, pm_st_s3e3, pm_st_s4e3, pm_mcu_wakeup,
       pm_ring_wakeup, Ignore
  <2> QED
    BY <2>1
<1>4. CASE Restart("app", "killed", ready) \/ Restart("modem", "off", ready)
  BY <1>4 DEF Restart, Bump
<1>5. CASE pm_st_s7e3(ready, status)
  BY <1>5 DEF pm_st_s7e3
<1> QED
  BY <1>1, <1>2, <1>3, <1>4, <1>5

LEMMA EventCounters ==
    ASSUME NEW e, pm_evt_proc(e)
    PROVE  cnt' = cnt
BY DEF pm_evt_proc, Handle, Ignore, Check, pm_mcu_wakeup, pm_ring_wakeup

-----------------------------------------------------------------------------
LEMMA QueuedTypes ==
    ASSUME NEW q \in Seq(PmMsgs), Len(q) <= EvtCap, NEW e \in PmMsgs
    PROVE  Queued(q, e) \in Seq(PmMsgs) /\ Len(Queued(q, e)) <= EvtCap
BY PmAssumption DEF Queued

LEMMA PmStepInv == PmInv /\ [PmNext]_pmVars => PmInv'
<1> SUFFICES ASSUME PmInv, [PmNext]_pmVars PROVE PmInv'
  OBVIOUS
<1>0. Handler /\ CounterTypes /\ OtherTypes
  BY Parts
<1>a. (Handler' /\ CounterTypes' /\ OtherTypes') => PmInv'
  BY DEF PmInv, PmTypeOK, Handler, HandlerTypes, CounterTypes, OtherTypes
<1>b. Ignore => CounterTypes'
  BY <1>0 DEF Ignore, CounterTypes
<1>1. CASE Tick
  <2>1. OtherTypes'
    BY <1>0, <1>1 DEF Tick, OtherTypes
  <2> QED
    BY <1>0, <1>1, <1>a, <2>1, TickInv, TickCounters
<1>2. CASE PmThread
  <2>1. Handler' /\ CounterTypes'
    <3>1. CASE Ignore
      BY <1>0, <1>b, <3>1, IgnoreInv
    <3>2. CASE pm_evt_proc(Head(evq))
      <4>1. down = "no"
        BY <1>2 DEF PmThread
      <4>2. cnt' = cnt
        BY <3>2, EventCounters
      <4>3. CounterTypes'
        BY <1>0, <4>2 DEF CounterTypes
      <4> QED
        BY <1>0, <3>2, <4>1, <4>3, EventInv
    <3> QED
      BY <1>2, <3>1, <3>2 DEF PmThread
  <2>2. OtherTypes'
    <3>1. Tail(evq) \in Seq(PmMsgs) /\ Len(Tail(evq)) <= EvtCap
      BY <1>0, <1>2, PmAssumption DEF OtherTypes, PmThread
    <3>2. {"RING", "RTC"} \subseteq PmMsgs
      BY DEF PmMsgs, PmEvents
    <3>3. \/ evq' = Tail(evq)
          \/ \E e \in PmMsgs : evq' = Queued(Tail(evq), e)
      BY <1>2, <3>2 DEF PmThread
    <3>4. evq' \in Seq(PmMsgs) /\ Len(evq') <= EvtCap
      BY <3>1, <3>3, QueuedTypes
    <3> QED
      BY <1>0, <1>2, <3>4 DEF PmThread, OtherTypes
  <2> QED
    BY <1>a, <2>1, <2>2
<1>3. CASE Boot
  <2>1. ringing' \in BOOLEAN /\ ~ringing' /\ locked' \in BOOLEAN /\ locked'
    BY <1>3, Zenon DEF Boot
  <2>2. Handler'
    BY <1>3, <2>1 DEF Boot, Handler, HandlerTypes, States, LockFollowsState,
       RingKeepsAwake, ToldIsState
  <2>3. CounterTypes'
    BY <1>3, PmAssumption DEF Boot, CounterTypes, Counters
  <2>4. OtherTypes'
    BY <1>0, <1>3, PmAssumption DEF Boot, OtherTypes, Modes
  <2> QED
    BY <1>a, <2>2, <2>3, <2>4
<1>4. ASSUME NEW m \in Modes, pm_mode_proc(m) PROVE PmInv'
  <2>1. EventOf(m) \in PmMsgs
    BY DEF EventOf, PmMsgs, PmEvents
  <2>2. OtherTypes'
    BY <1>0, <1>4, <2>1, QueuedTypes DEF pm_mode_proc, OtherTypes
  <2>3. Ignore
    BY <1>4 DEF pm_mode_proc
  <2> QED
    BY <1>0, <1>a, <1>b, <2>2, <2>3, IgnoreInv
<1>5. ASSUME NEW e \in PmMsgs, pm_send_evt(e) PROVE PmInv'
  <2>1. OtherTypes'
    BY <1>0, <1>5, QueuedTypes DEF pm_send_evt, OtherTypes
  <2>2. Ignore
    BY <1>5 DEF pm_send_evt
  <2> QED
    BY <1>0, <1>a, <1>b, <2>1, <2>2, IgnoreInv
<1>6. ASSUME NEW u \in Levels, NEW m \in Levels, InputsChange(u, m) PROVE PmInv'
  <2>1. OtherTypes' /\ Ignore
    BY <1>0, <1>6 DEF InputsChange, OtherTypes
  <2> QED
    BY <1>0, <1>a, <1>b, <2>1, IgnoreInv
<1>7. CASE UNCHANGED pmVars
  <2>1. Ignore /\ OtherTypes'
    BY <1>0, <1>7 DEF pmVars, Ignore, OtherTypes
  <2> QED
    BY <1>0, <1>a, <1>b, <2>1, IgnoreInv
<1> QED
  BY <1>1, <1>2, <1>3, <1>4, <1>5, <1>6, <1>7 DEF PmNext, PmMsgs, PmEvents

\* The invariants of power management hold together, in every reachable state.
LEMMA PmSafe == PmSpec => []PmInv
BY PmInitInv, PmStepInv, PTL DEF PmSpec

\* States, counters and queue keep their types: no counter passes its limit.
THEOREM PmTyped == PmSpec => []PmTypeOK
<1>1. PmInv => PmTypeOK
  BY DEF PmInv
<1> QED
  BY <1>1, PmSafe, PTL

\* The wake lock follows the state, however the terminal is put to sleep or woken.
THEOREM LockAlwaysFollows == PmSpec => []LockFollowsState
<1>1. PmInv => LockFollowsState
  BY DEF PmInv
<1> QED
  BY <1>1, PmSafe, PTL

\* A ring that raised the MCU's pin is never slept over.
THEOREM RingAlwaysKeepsAwake == PmSpec => []RingKeepsAwake
<1>1. PmInv => RingKeepsAwake
  BY DEF PmInv
<1> QED
  BY <1>1, PmSafe, PTL

\* What the modules were told last is the state the terminal is in.
THEOREM ToldIsAlwaysState == PmSpec => []ToldIsState
<1>1. PmInv => ToldIsState
  BY DEF PmInv
<1> QED
  BY <1>1, PmSafe, PTL
=============================================================================
