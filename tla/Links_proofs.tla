---------------------------- MODULE Links_proofs ----------------------------
(***************************************************************************)
(* Proofs about three components that share no state with each other: the  *)
(* serial link to the MCU (Scom), the Foton client (Foton) and the upgrade *)
(* of the ECUs (Fota).                                                     *)
(***************************************************************************)
EXTENDS Scom, Foton, Fota, TLAPS

-----------------------------------------------------------------------------
(* The serial link.  What has to be armed is armed by a timer or by the    *)
(* message of a timer that has fired, so each step is one of three kinds   *)
(* for the queue: it takes the head, it appends, it leaves the queue alone.*)

ScomMsgs == OneShot \cup Asleep \cup Awake \cup {"HEART"}

\* the timer runs, or its message waits
Armed(m, ts, s) == m \in ts \/ \E i \in DOMAIN s : s[i] = m

\* ClosedIsRetried is not inductive: ToRun takes the permission to sleep back and opens
\* nothing when there is a descriptor, which must then be that of an open device.
ScomInv ==
    /\ ScomTypeOK
    /\ devFd \/ scomReady \/ Armed("OPEN", timers, inq)
    /\ scomReady => spiFd = devFd
    /\ tl = "CONNECTING" => Armed("RESEND", timers, inq)

LEMMA ScomInvArmed == ScomInv => ScomArmed
BY DEF ScomInv, ScomArmed, ClosedIsRetried, ResendArmed, Armed, Waiting

\* Taking a message disarms that message only.
LEMMA ArmedTail ==
    ASSUME NEW s \in Seq(ScomMsgs), s # <<>>, NEW m, m # Head(s), NEW ts, Armed(m, ts, s)
    PROVE  Armed(m, ts, Tail(s))
<1>1. CASE m \in ts BY <1>1 DEF Armed
<1>2. CASE m \notin ts
  <2>1. PICK i \in DOMAIN s : s[i] = m BY <1>2 DEF Armed
  <2>2. i \in 1 .. Len(s) /\ i # 1 BY <2>1
  <2>3. i - 1 \in 1 .. Len(Tail(s)) /\ Tail(s)[i - 1] = m BY <2>1, <2>2
  <2> QED BY <2>3 DEF Armed
<1> QED BY <1>1, <1>2

LEMMA ArmedAppend ==
    ASSUME NEW s \in Seq(ScomMsgs), NEW x \in ScomMsgs, NEW m, NEW ts, Armed(m, ts, s)
    PROVE  Armed(m, ts, Append(s, x))
<1>1. CASE m \in ts BY <1>1 DEF Armed
<1>2. CASE m \notin ts
  <2>1. PICK i \in DOMAIN s : s[i] = m BY <1>2 DEF Armed
  <2>2. i \in 1 .. Len(Append(s, x)) /\ Append(s, x)[i] = m BY <2>1
  <2> QED BY <2>2 DEF Armed
<1> QED BY <1>1, <1>2

\* A timer that fires stays armed by its message, and disarms no other.
LEMMA ArmedFires ==
    ASSUME NEW s \in Seq(ScomMsgs), NEW x \in ScomMsgs, NEW m, NEW ts, Armed(m, ts, s)
    PROVE  Armed(m, ts \ {x}, Append(s, x))
<1>1. CASE m = x
  <2>1. Len(s) + 1 \in DOMAIN Append(s, x) /\ Append(s, x)[Len(s) + 1] = x OBVIOUS
  <2> QED BY <1>1, <2>1 DEF Armed
<1>2. CASE m # x BY <1>2, ArmedAppend DEF Armed
<1> QED BY <1>1, <1>2

LEMMA ArmedMore ==
    ASSUME NEW s, NEW m, NEW ts, NEW us, ts \subseteq us, Armed(m, ts, s)
    PROVE  Armed(m, us, s)
BY DEF Armed

LEMMA ScomInitInv == ASSUME ScomInit PROVE ScomInv
<1>1. spiFd \in BOOLEAN /\ devFd \in BOOLEAN BY DEF ScomInit
<1>2. scomReady = FALSE /\ quietMode = FALSE /\ conAsked = FALSE /\ quietSince = FALSE
  BY DEF ScomInit
<1>3. heart \in 0 .. HeartLimit BY ScomAssumption DEF ScomInit
<1>4. timers \subseteq OneShot BY DEF ScomInit, OneShot
<1>5. inq \in Seq(OneShot \cup Asleep \cup Awake \cup {"HEART"}) /\ Len(inq) <= MsgCap
  BY ScomAssumption DEF ScomInit
<1>6. tl = "CONNECTING" /\ lastTold \in Asleep \cup Awake BY DEF ScomInit, Awake
<1>7. Armed("RESEND", timers, inq) BY DEF ScomInit, Armed
<1>8. devFd \/ Armed("OPEN", timers, inq) BY DEF ScomInit, Armed
<1> QED BY <1>1, <1>2, <1>3, <1>4, <1>5, <1>6, <1>7, <1>8 DEF ScomInv, ScomTypeOK

\* ScomInv is inductive.
LEMMA ScomStep == ASSUME ScomInv, [ScomNext]_scomVars PROVE ScomInv'
<1> USE ScomAssumption
<1>t. ScomTypeOK /\ inq \in Seq(ScomMsgs) /\ HeartLimit \in Nat /\ MsgCap \in Nat
  BY DEF ScomInv, ScomTypeOK, ScomMsgs
\* the three kinds of step
<1>take. ASSUME NEW m, Take(m)
         PROVE  /\ inq' \in Seq(ScomMsgs) /\ Len(inq') <= MsgCap
                /\ heart \in 0 .. HeartLimit - 1 /\ m \in ScomMsgs
                /\ \A x, ts : x # m /\ Armed(x, ts, inq) => Armed(x, ts, inq')
  <2>1. inq # <<>> /\ Head(inq) = m /\ inq' = Tail(inq) /\ heart < HeartLimit
    BY <1>take DEF Take
  <2>2. inq' \in Seq(ScomMsgs) /\ Len(inq') <= MsgCap /\ m \in ScomMsgs
    BY <1>t, <2>1 DEF ScomTypeOK
  <2>3. heart \in 0 .. HeartLimit - 1 BY <1>t, <2>1 DEF ScomTypeOK
  <2>4. \A x, ts : x # m /\ Armed(x, ts, inq) => Armed(x, ts, inq')
    BY <1>t, <2>1, ArmedTail
  <2> QED BY <2>2, <2>3, <2>4
<1>post. ASSUME NEW m \in ScomMsgs, Post(m)
         PROVE  /\ inq' \in Seq(ScomMsgs) /\ Len(inq') <= MsgCap
                /\ \A x, ts : Armed(x, ts, inq) => Armed(x, ts, inq')
                /\ \A x, ts : Armed(x, ts, inq) => Armed(x, ts \ {m}, inq')
  <2>1. Len(inq) < MsgCap /\ inq' = Append(inq, m) BY <1>post DEF Post
  <2>2. inq' \in Seq(ScomMsgs) /\ Len(inq') <= MsgCap BY <1>t, <2>1
  <2> QED BY <1>t, <2>1, <2>2, ArmedAppend, ArmedFires
<1>1. ASSUME NEW ok \in BOOLEAN, RestartSpi(ok) PROVE ScomInv'
  <2>1. ScomTypeOK' BY <1>1, <1>t DEF RestartSpi, ScomTypeOK, OneShot
  <2>2. (devFd \/ scomReady \/ Armed("OPEN", timers, inq))' BY <1>1 DEF RestartSpi, Armed
  <2>3. (scomReady => spiFd = devFd)' BY <1>1 DEF RestartSpi
  <2>4. (tl = "CONNECTING" => Armed("RESEND", timers, inq))'
    BY <1>1, ArmedMore DEF ScomInv, RestartSpi, Armed
  <2> QED BY <2>1, <2>2, <2>3, <2>4 DEF ScomInv
<1>2. CASE ToSleep
  <2>0. PICK m \in Asleep : Take(m) BY <1>2 DEF ToSleep
  <2>1. m \notin {"OPEN", "RESEND"} BY DEF Asleep
  <2>2. ScomTypeOK' BY <1>2, <1>t, <1>take, <2>0 DEF ToSleep, ScomTypeOK, OneShot, ScomMsgs
  <2>3. \A x \in {"OPEN", "RESEND"} : Armed(x, timers, inq) => Armed(x, timers', inq')
    BY <1>2, <1>take, <2>0, <2>1, ArmedMore DEF ToSleep
  <2> QED BY <1>2, <2>2, <2>3 DEF ScomInv, ToSleep
<1>3. ASSUME NEW ok \in BOOLEAN, ToRun(ok) PROVE ScomInv'
  <2>0. PICK m \in Awake : Take(m) BY <1>3 DEF ToRun
  <2>1. m \notin {"OPEN", "RESEND"} BY DEF Awake
  <2>2. ScomTypeOK' BY <1>3, <1>t, <1>take, <2>0 DEF ToRun, ScomTypeOK, OneShot, ScomMsgs
  <2>3. \A x \in {"OPEN", "RESEND"} : Armed(x, timers, inq) => Armed(x, timers', inq')
    <3>1. \A x \in {"OPEN", "RESEND"} : x \in timers => x \in timers' BY <1>3 DEF ToRun
    <3>2. \A x \in {"OPEN", "RESEND"} : Armed(x, timers, inq) => Armed(x, timers, inq')
      BY <1>take, <2>0, <2>1
    <3> QED BY <3>1, <3>2 DEF Armed
  <2>4. (devFd \/ scomReady \/ Armed("OPEN", timers, inq))'
    <3>1. CASE spiFd
      <4>1. devFd \/ Armed("OPEN", timers, inq) BY <3>1 DEF ScomInv
      <4> QED BY <1>3, <3>1, <4>1, <2>3 DEF ToRun
    <3>2. CASE ~spiFd BY <1>3, <3>2 DEF ToRun, Armed
    <3> QED BY <3>1, <3>2
  <2>5. (scomReady => spiFd = devFd)' BY <1>3 DEF ToRun
  <2>6. (tl = "CONNECTING" => Armed("RESEND", timers, inq))' BY <1>3, <2>3 DEF ScomInv, ToRun
  <2> QED BY <2>2, <2>4, <2>5, <2>6 DEF ScomInv
<1>4. CASE HeartTimer
  <2>0. Take("HEART") BY <1>4 DEF HeartTimer
  <2>1. ScomTypeOK' BY <1>4, <1>t, <1>take, <2>0 DEF HeartTimer, ScomTypeOK, ScomMsgs
  <2>2. \A x \in {"OPEN", "RESEND"} : Armed(x, timers, inq) => Armed(x, timers', inq')
    BY <1>4, <1>take, <2>0 DEF HeartTimer
  <2> QED BY <1>4, <2>1, <2>2 DEF ScomInv, HeartTimer
<1>5. ASSUME NEW ok \in BOOLEAN, OpenTimer(ok) PROVE ScomInv'
  <2>0. Take("OPEN") BY <1>5 DEF OpenTimer
  <2>1. ScomTypeOK' BY <1>5, <1>t, <1>take, <2>0 DEF OpenTimer, Open, ScomTypeOK, ScomMsgs, OneShot
  <2>2. Armed("RESEND", timers, inq) => Armed("RESEND", timers', inq')
    <3>1. Armed("RESEND", timers, inq) => Armed("RESEND", timers, inq') BY <1>take, <2>0
    <3> QED BY <1>5, <3>1, ArmedMore DEF OpenTimer, Open
  <2>3. (tl = "CONNECTING" => Armed("RESEND", timers, inq))' BY <1>5, <2>2 DEF ScomInv, OpenTimer
  <2>4. (devFd \/ scomReady \/ Armed("OPEN", timers, inq))' BY <1>5 DEF OpenTimer, Open, Armed
  <2>5. (scomReady => spiFd = devFd)' BY <1>5 DEF ScomInv, OpenTimer, Open
  <2> QED BY <2>1, <2>3, <2>4, <2>5 DEF ScomInv
<1>6. CASE scom_timeout_proc
  <2>0. Take("CLOSE") BY <1>6 DEF scom_timeout_proc
  <2>1. ScomTypeOK'
    BY <1>6, <1>t, <1>take, <2>0 DEF scom_timeout_proc, ScomTypeOK, ScomMsgs
  <2>2. \A x \in {"OPEN", "RESEND"} : Armed(x, timers, inq) => Armed(x, timers', inq')
    BY <1>6, <1>take, <2>0 DEF scom_timeout_proc
  <2>3. (devFd \/ scomReady \/ Armed("OPEN", timers, inq))'
    BY <1>6, <2>2 DEF ScomInv, scom_timeout_proc
  <2>4. (scomReady => spiFd = devFd)' BY <1>6, <1>t DEF ScomInv, ScomTypeOK, scom_timeout_proc
  <2> QED BY <1>6, <2>1, <2>2, <2>3, <2>4 DEF ScomInv, scom_timeout_proc
<1>7. CASE scom_tl_timeout_proc
  <2>0. Take("RESEND") BY <1>7 DEF scom_tl_timeout_proc
  <2>1. ScomTypeOK'
    BY <1>7, <1>t, <1>take, <2>0
    DEF scom_tl_timeout_proc, scom_tl_send_con_req, ScomTypeOK, ScomMsgs, OneShot
  <2>2. Armed("OPEN", timers, inq) => Armed("OPEN", timers', inq')
    <3>1. Armed("OPEN", timers, inq) => Armed("OPEN", timers, inq') BY <1>take, <2>0
    <3> QED BY <1>7, <3>1, ArmedMore DEF scom_tl_timeout_proc, scom_tl_send_con_req
  <2>3. (tl = "CONNECTING" => Armed("RESEND", timers, inq))'
    BY <1>7 DEF scom_tl_timeout_proc, scom_tl_send_con_req, Armed
  <2> QED BY <1>7, <2>1, <2>2, <2>3 DEF ScomInv, scom_tl_timeout_proc
\* A frame of the MCU: only an answer stops a timer, and then the link is up.
<1>8. ASSUME Received, UNCHANGED <<spiFd, devFd, scomReady, inq, quietMode, lastTold, quietSince>>,
             conAsked' \in BOOLEAN, tl' \in {"CONNECTING", "IDLE", "SERVER_STARTED"},
             \/ timers' = timers /\ (tl' = "CONNECTING" => tl = "CONNECTING")
             \/ timers' = timers \ {"RESEND"} /\ tl' = "IDLE"
      PROVE  ScomInv'
  <2>1. ScomTypeOK' BY <1>8, <1>t DEF Received, ScomTypeOK
  <2>2. Armed("OPEN", timers, inq) => Armed("OPEN", timers', inq')
    BY <1>8 DEF Armed
  <2>3. (tl = "CONNECTING" => Armed("RESEND", timers, inq))' BY <1>8 DEF ScomInv
  <2> QED BY <1>8, <2>1, <2>2, <2>3 DEF ScomInv
<1>9. CASE scom_tl_msg_proc
  <2>1. CASE scom_tl_proc_con_req BY <1>8, <1>t, <2>1 DEF scom_tl_proc_con_req, ScomTypeOK
  <2>2. CASE scom_tl_proc_con_res BY <1>8, <1>t, <2>2 DEF scom_tl_proc_con_res, ScomTypeOK
  <2>3. CASE OtherFrame BY <1>8, <1>t, <2>3 DEF OtherFrame, ScomTypeOK
  <2>4. ASSUME NEW m \in {"UPG_REQ", "UPG_FIN"}, NEW ok \in BOOLEAN, upg_ctl_scom_msg_proc(m, ok)
        PROVE  ScomInv'
    BY <1>8, <1>t, <2>4 DEF upg_ctl_scom_msg_proc, ScomTypeOK
  <2> QED BY <1>9, <2>1, <2>2, <2>3, <2>4 DEF scom_tl_msg_proc
<1>10. ASSUME NEW t \in OneShot, Fires(t) PROVE ScomInv'
  <2>0. t \in ScomMsgs /\ Post(t) BY <1>10 DEF Fires, ScomMsgs
  <2>1. ScomTypeOK' BY <1>10, <1>t, <1>post, <2>0 DEF Fires, ScomTypeOK, ScomMsgs
  <2>2. \A x \in {"OPEN", "RESEND"} : Armed(x, timers, inq) => Armed(x, timers', inq')
    BY <1>10, <1>post, <2>0 DEF Fires
  <2> QED BY <1>10, <2>1, <2>2 DEF ScomInv, Fires
<1>11. CASE Heartbeat
  <2>0. "HEART" \in ScomMsgs /\ Post("HEART") BY <1>11 DEF Heartbeat, ScomMsgs
  <2>1. ScomTypeOK' BY <1>11, <1>t, <1>post, <2>0 DEF Heartbeat, ScomTypeOK, ScomMsgs
  <2>2. \A x \in {"OPEN", "RESEND"} : Armed(x, timers, inq) => Armed(x, timers', inq')
    BY <1>11, <1>post, <2>0 DEF Heartbeat
  <2> QED BY <1>11, <2>1, <2>2 DEF ScomInv, Heartbeat
<1>12. ASSUME NEW m \in PmTold, Tells(m) PROVE ScomInv'
  <2>a. m \in Asleep \cup Awake BY DEF Asleep, Awake
  <2>0. m \in ScomMsgs /\ Post(m) BY <1>12, <2>a DEF Tells, ScomMsgs
  <2>b. quietSince' \in BOOLEAN BY <1>12 DEF Tells
  <2>1. ScomTypeOK' BY <1>12, <1>t, <1>post, <2>0, <2>a, <2>b DEF Tells, ScomTypeOK, ScomMsgs
  <2>2. \A x \in {"OPEN", "RESEND"} : Armed(x, timers, inq) => Armed(x, timers', inq')
    BY <1>12, <1>post, <2>0 DEF Tells
  <2> QED BY <1>12, <2>1, <2>2 DEF ScomInv, Tells
<1>13. CASE ModeChanges
  BY <1>13, <1>t DEF ModeChanges, ScomInv, ScomTypeOK
<1>14. CASE UNCHANGED scomVars
  BY <1>14 DEF scomVars, ScomInv, ScomTypeOK
<1> QED
  BY <1>1, <1>2, <1>3, <1>4, <1>5, <1>6, <1>7, <1>9, <1>10, <1>11, <1>12, <1>13, <1>14
  DEF ScomNext, scom_main

\* However timers, messages of timers that were stopped, openings that fail and the power
\* manager interleave in scom_main, a device that is closed and should not be has its
\* next attempt armed, and an unanswered connect request its repetition.
THEOREM ScomAlwaysArmed == ScomSpec => []ScomArmed
<1>1. ScomInit => ScomInv BY ScomInitInv
<1>2. ScomInv /\ [ScomNext]_scomVars => ScomInv' BY ScomStep
<1>3. ScomInv => ScomArmed BY ScomInvArmed
<1> QED BY <1>1, <1>2, <1>3, PTL DEF ScomSpec

-----------------------------------------------------------------------------
(* The Foton client.  Where the thread is in its round says what it has    *)
(* found out: behind checksock the link is up, behind the report there is  *)
(* a session.  No other thread takes either away in between.               *)

FtRound ==
    /\ ftPc \in {"recv", "rest", "tail"} => ftLink \in {"OPENED", "BROKEN"}
    /\ ftPc = "tail" => ftOnline

\* the Booleans of FtTypeOK, one by one
FtBools ==
    /\ ftOnline \in BOOLEAN /\ ftNet \in BOOLEAN /\ ftCan \in BOOLEAN /\ kl15 \in BOOLEAN
    /\ ftSuspend \in BOOLEAN /\ ftAllowSleep \in BOOLEAN /\ ftMayLogin \in BOOLEAN
    /\ wakeTimer \in BOOLEAN /\ ftData \in BOOLEAN /\ ftTrans \in BOOLEAN
    /\ downloading \in BOOLEAN

\* what the session is made of
FtSession ==
    /\ ftPc \in {"msg", "sock", "recv", "rest", "tail"}
    /\ ftLink \in {"CLOSED", "OPENING", "OPENED", "BROKEN"}
    /\ ftWait \in {"none", "LOGIN", "LOGOUT"} /\ ftAsked \in {"none", "LOGIN", "LOGOUT"}
    /\ ftRetry \in 0 .. FtMaxRetry
    /\ ftFrame \in {"none", "LOGIN_OK", "LOGIN_NO", "LOGOUT_OK", "LOGOUT_NO", "UPGRADE"}
    /\ FtSessionOnLink /\ FtSleepOffline /\ FtRound

FtInv == FtBools /\ FtSession

LEMMA FtInvSound == FtInv => FtSessionSound
<1> SUFFICES ASSUME FtInv PROVE FtSessionSound OBVIOUS
<1>1. {ftOnline, ftNet, ftCan, kl15, ftSuspend, ftAllowSleep, ftMayLogin, wakeTimer,
       ftData, ftTrans, downloading} \subseteq BOOLEAN
  BY DEF FtInv, FtBools
<1> QED BY <1>1 DEF FtInv, FtSession, FtSessionSound, FtTypeOK

LEMMA FtInitInv == ASSUME FtInit PROVE FtInv
<1>1. FtBools BY Zenon DEF FtInit, FtBools
<1>2. ftRetry \in 0 .. FtMaxRetry BY FtAssumption DEF FtInit
<1>3. FtSession BY <1>2, Zenon DEF FtInit, FtSession, FtSessionOnLink, FtSleepOffline, FtRound
<1> QED BY <1>1, <1>3 DEF FtInv

LEMMA FtBoolsStep == ASSUME FtInv, FtNext PROVE FtBools'
<1> USE DEF FtInv, FtBools, ftOutside, session, sleeping, reports
<1>1. CASE FtMessage
  <2>1. CASE CanOn BY <2>1, Zenon DEF CanOn, reload_wakeup_tm
  <2>2. CASE CanOff BY <2>2, Zenon DEF CanOff
  <2>3. CASE Network BY <2>3, Zenon DEF Network, ft_reset
  <2>4. CASE Suspend BY <2>4, Zenon DEF Suspend
  <2>5. CASE FtpFinish BY <2>5, Zenon DEF FtpFinish
  <2>6. CASE ft_do_config BY <2>6, Zenon DEF ft_do_config, ft_reset
  <2>7. CASE WakeupTimeout
    <3>1. UNCHANGED <<session, ftOutside, reports, downloading>> BY <2>7, Zenon DEF WakeupTimeout
    <3>2. ftAllowSleep' \in BOOLEAN /\ ftMayLogin' \in BOOLEAN /\ wakeTimer' \in BOOLEAN
      BY <2>7, Zenon DEF WakeupTimeout, reload_wakeup_tm
    <3> QED BY <3>1, <3>2, Zenon
  <2>8. CASE NoMessage BY <2>8, Zenon DEF NoMessage
  <2>9. ASSUME NEW e \in BOOLEAN, Reload(e) PROVE FtBools'
    BY <2>9, Zenon DEF Reload, reload_wakeup_tm
  <2> HIDE DEF FtBools
  <2> QED BY <1>1, <2>1, <2>2, <2>3, <2>4, <2>5, <2>6, <2>7, <2>8, <2>9, Zenon DEF FtMessage
<1>2. CASE ft_do_checksock
  <2>1. UNCHANGED <<ftOutside, sleeping, downloading>> BY <1>2, Zenon DEF ft_do_checksock
  <2>2. ftOnline' \in BOOLEAN /\ ftData' \in BOOLEAN /\ ftTrans' \in BOOLEAN
    BY <1>2 DEF ft_do_checksock, ft_reset
  <2> QED BY <2>1, <2>2, Zenon
<1>3. CASE ft_do_receive
  <2>1. ftOnline' \in BOOLEAN
    BY <1>3 DEF ft_do_receive, LoginAck, LogoutAck, ft_handle_control, ft_reset
  <2>2. ftAllowSleep' \in BOOLEAN /\ ftMayLogin' \in BOOLEAN /\ wakeTimer' \in BOOLEAN
    BY <1>3 DEF ft_do_receive, LoginAck, LogoutAck, ft_handle_control, reload_wakeup_tm
  <2>3. ftData' \in BOOLEAN /\ ftTrans' \in BOOLEAN
    BY <1>3, Zenon DEF ft_do_receive, LoginAck, ft_handle_control
  <2>4. downloading' \in BOOLEAN
    BY <1>3, Zenon DEF ft_do_receive, ft_handle_control
  <2> QED BY <1>3, <2>1, <2>2, <2>3, <2>4, Zenon DEF ft_do_receive
<1>4. CASE ft_do_suspend BY <1>4, Zenon DEF ft_do_suspend, ft_reset
<1>5. CASE ft_do_hbeat BY <1>5, Zenon DEF ft_do_hbeat, ft_reset
<1>6. ASSUME NEW res, ft_do_report(res) PROVE FtBools'
  <2>1. UNCHANGED <<ftOutside, sleeping, downloading>> BY <1>6, Zenon DEF ft_do_report
  <2>2. ftOnline' \in BOOLEAN /\ ftData' \in BOOLEAN /\ ftTrans' \in BOOLEAN
    BY <1>6 DEF ft_do_report, ft_reset
  <2> QED BY <2>1, <2>2, Zenon
<1>7. ASSUME NEW r, NEW res, SendRequest(r, res) PROVE ftOnline' \in BOOLEAN
  BY <1>7 DEF SendRequest, SendResults, ft_reset
<1>8. ASSUME NEW res, ft_do_logout(res) PROVE FtBools'
  BY <1>7, <1>8, Zenon DEF ft_do_logout
<1>9. ASSUME NEW res, NEW due, ft_do_wait(due, res) PROVE FtBools'
  <2>1. UNCHANGED <<ftOutside, reports, downloading>> BY <1>9, Zenon DEF ft_do_wait
  <2>2. ftOnline' \in BOOLEAN BY <1>9 DEF ft_do_wait, Resend, GiveUp, ft_reset
  <2>3. ftAllowSleep' \in BOOLEAN /\ ftMayLogin' \in BOOLEAN /\ wakeTimer' \in BOOLEAN
    BY <1>9, Zenon DEF ft_do_wait, Resend, GiveUp
  <2> QED BY <2>1, <2>2, <2>3, Zenon
<1>10. ASSUME NEW res, NEW due, ft_do_login(due, res) PROVE FtBools'
  BY <1>7, <1>10, Zenon DEF ft_do_login
<1>11. CASE FtBreak BY <1>11, Zenon DEF FtBreak
<1>12. CASE ServerCommands BY <1>12, Zenon DEF ServerCommands
<1>13. CASE ft_data_can_cb BY <1>13, Zenon DEF ft_data_can_cb
<1>14. CASE Ignition BY <1>14, Zenon DEF Ignition
<1>15. ASSUME NEW ok, FtConnect(ok) PROVE FtBools' BY <1>15, Zenon DEF FtConnect
<1>16. ASSUME NEW ok, ServerAnswers(ok) PROVE FtBools' BY <1>16, Zenon DEF ServerAnswers
<1> HIDE DEF FtInv, FtBools
<1> QED
  BY <1>1, <1>2, <1>3, <1>4, <1>5, <1>6, <1>8, <1>9, <1>10, <1>11, <1>12, <1>13, <1>14,
     <1>15, <1>16, Zenon
  DEF FtNext, FtThread

LEMMA FtSessionStep == ASSUME FtInv, FtNext PROVE FtSession'
<1> USE FtAssumption
    DEF FtInv, FtBools, FtSession, FtSessionOnLink, FtSleepOffline, FtRound,
        ftOutside, session, sleeping, reports, Ends
\* ft_reset ends the session, whatever else the step does
<1>r. ASSUME ft_reset, Ends \/ ftPc' = "sock" PROVE FtSession'
  BY <1>r DEF ft_reset, AfterClose
<1>1. CASE FtMessage
  <2>1. CASE Network \/ ft_do_config BY <1>1, <1>r, <2>1 DEF FtMessage, Network, ft_do_config
  <2>2. CASE CanOn \/ CanOff \/ Suspend \/ FtpFinish \/ NoMessage \/ WakeupTimeout
    BY <1>1, <2>2 DEF FtMessage, CanOn, CanOff, Suspend, FtpFinish, NoMessage, WakeupTimeout,
                      reload_wakeup_tm
  <2>3. ASSUME NEW e \in BOOLEAN, Reload(e) PROVE FtSession'
    BY <1>1, <2>3 DEF FtMessage, Reload, reload_wakeup_tm
  <2> QED BY <1>1, <2>1, <2>2, <2>3 DEF FtMessage
<1>2. CASE ft_do_checksock
  <2>1. CASE ft_reset /\ Ends BY <1>r, <2>1
  <2>2. CASE ~(ft_reset /\ Ends)
    <3>1. \/ UNCHANGED session
          \/ /\ ftLink = "CLOSED" /\ ftLink' \in {"OPENING", "CLOSED"} /\ ftPc' = "msg"
             /\ UNCHANGED <<ftWait, ftRetry, ftOnline, ftFrame, ftAsked>>
      BY <1>2, <2>2, Zenon DEF ft_do_checksock
    <3>2. \/ ftPc' = "msg"
          \/ ftPc' = "recv" /\ ftLink' = ftLink /\ ftLink \in {"BROKEN", "OPENED"}
      BY <1>2, <2>2, Zenon DEF ft_do_checksock
    <3>3. UNCHANGED sleeping BY <1>2, Zenon DEF ft_do_checksock
    <3> QED BY <3>1, <3>2, <3>3
  <2> QED BY <2>1, <2>2
<1>3. CASE ft_do_receive
  <2>1. CASE ft_reset /\ Ends BY <1>r, <2>1
  <2>2. CASE ~(ft_reset /\ Ends)
    <3>1. CASE ftFrame \in {"LOGIN_OK", "LOGIN_NO"}
      BY <1>3, <2>2, <3>1 DEF ft_do_receive, LoginAck, reload_wakeup_tm
    <3>2. CASE ftFrame \in {"LOGOUT_OK", "LOGOUT_NO"}
      BY <1>3, <2>2, <3>2 DEF ft_do_receive, LogoutAck
    <3>3. CASE ftFrame = "UPGRADE"
      BY <1>3, <2>2, <3>3 DEF ft_do_receive, ft_handle_control, reload_wakeup_tm
    <3>4. CASE ftFrame = "none" BY <1>3, <2>2, <3>4 DEF ft_do_receive
    <3> QED BY <3>1, <3>2, <3>3, <3>4
  <2> QED BY <2>1, <2>2
<1>4. CASE ft_do_suspend BY <1>4, <1>r DEF ft_do_suspend
<1>5. CASE ft_do_hbeat BY <1>5, <1>r DEF ft_do_hbeat
<1>6. ASSUME NEW res \in {"sent", "full", "failed", "noroom"}, ft_do_report(res) PROVE FtSession'
  <2>1. CASE ft_reset /\ Ends BY <1>r, <2>1
  <2>2. CASE ~(ft_reset /\ Ends) BY <1>6, <2>2 DEF ft_do_report
  <2> QED BY <2>1, <2>2
<1>7. ASSUME NEW res, ft_do_logout(res) PROVE FtSession'
  <2>1. CASE ft_reset BY <1>r, <1>7, <2>1 DEF ft_do_logout
  <2>2. CASE ~ft_reset BY <1>7, <2>2 DEF ft_do_logout, SendRequest, SendResults
  <2> QED BY <2>1, <2>2
<1>8. ASSUME NEW res, NEW late \in BOOLEAN, ft_do_wait(late, res) PROVE FtSession'
  <2>1. CASE ft_reset BY <1>r, <1>8, <2>1 DEF ft_do_wait
  <2>2. CASE ~ft_reset BY <1>8, <2>2 DEF ft_do_wait, Resend, GiveUp, LastTry
  <2> QED BY <2>1, <2>2
<1>9. ASSUME NEW res, NEW due \in BOOLEAN, ft_do_login(due, res) PROVE FtSession'
  <2>1. CASE ft_reset BY <1>r, <1>9, <2>1 DEF ft_do_login
  <2>2. CASE ~ft_reset BY <1>9, <2>2 DEF ft_do_login, SendRequest, SendResults
  <2> QED BY <2>1, <2>2
<1>10. CASE FtBreak \/ ServerCommands \/ ft_data_can_cb \/ Ignition
  BY <1>10 DEF FtBreak, ServerCommands, ft_data_can_cb, Ignition
<1>11. ASSUME NEW ok \in BOOLEAN, FtConnect(ok) PROVE FtSession'
  BY <1>11 DEF FtConnect
<1>12. ASSUME NEW ok \in BOOLEAN, ServerAnswers(ok) PROVE FtSession'
  BY <1>12 DEF ServerAnswers
<1> HIDE DEF FtInv, FtSession
<1> QED
  BY <1>1, <1>2, <1>3, <1>4, <1>5, <1>6, <1>7, <1>8, <1>9, <1>10, <1>11, <1>12
  DEF FtNext, FtThread

LEMMA FtStutter == ASSUME FtInv, UNCHANGED ftVars PROVE FtInv'
BY DEF ftVars, FtInv, FtBools, FtSession, FtSessionOnLink, FtSleepOffline, FtRound

\* The Foton client never carries a session, or a request it waits for, over to a link
\* that is not there, and never allows the terminal to sleep in a session, for any
\* number of repeated log-outs and any order of messages, acknowledgements, breaks and
\* callbacks of the CAN thread.
THEOREM FtSessionAlwaysSound == FtSpec => []FtSessionSound
<1>1. FtInit => FtInv BY FtInitInv
<1>2. FtInv /\ [FtNext]_ftVars => FtInv'
  BY FtBoolsStep, FtSessionStep, FtStutter DEF FtInv
<1>3. FtInv => FtSessionSound BY FtInvSound
<1> QED BY <1>1, <1>2, <1>3, PTL DEF FtSpec

-----------------------------------------------------------------------------
(* The upgrade: who may do what while the lock is held by whom.            *)

FlashStates == {"src", "tar", "mixed"}
Packs       == Packages \cup {<<>>}

JobRec ==
    [inbox : 0 .. 1, pc : {"wait", "load", "excute", "rollback", "report"},
     sleep : BOOLEAN, pkg : Packs, i : Nat, err : BOOLEAN, rerr : BOOLEAN,
     rback : SUBSET Ecus, tbox : BOOLEAN, self : BOOLEAN, was : [Ecus -> FlashStates]]

FotaTypes ==
    /\ req \in ReqType /\ hu \in HuType /\ http \in HttpType
    /\ lock \in {"free", "ap", "dld", "cb", "upd"}
    /\ apAsks \in BOOLEAN /\ selfRep \in {"due", "cb", "over"}
    /\ job \in JobRec /\ job.i \in 1 .. 1 + Len(job.pkg)
    /\ flash \in [Ecus -> FlashStates]

\* A package has been handed over or is being programmed.
Active == job.inbox > 0 \/ job.pc # "wait"

\* http_download_request has created its thread and holds the lock.
Spawning == lock \in {"ap", "dld"}

\* A request is cancelled in its download only.  A thread that has received all is
\* behind its download; the client is busy exactly while a thread lives, but for the
\* moment of its creation and for a thread that could not be created.
DownloadInv ==
    /\ req.cancel => req.state = "DOWNLOAD"
    /\ Spawning => /\ ~Active /\ ~http.busy /\ (~http.gone => http.pc \in {"recv", "done"})
                   /\ req.state \notin {"DOWNLOAD", "UPGRADE"}
    /\ lock \in {"cb", "upd"} => ~req.cancel /\ http.pc # "recv"
    /\ http.pc = "recv" => Spawning \/ req.state = "DOWNLOAD"
    /\ ~Spawning => /\ http.pc # "none" \/ http.gone => http.busy
                    /\ http.busy /\ ~http.gone => http.pc # "none"
    /\ http.gone => http.pc = "none"

\* The terminal's own upgrade leaves the request in UPGRADE; its report comes when no
\* package is in work.
UpgradeInv ==
    /\ job.pc # "wait" => job.inbox = 0
    /\ selfRep = "due" /\ job.self =>
          job.inbox = 0 /\ (req.state = "UPGRADE" \/ lock \in {"cb", "upd"})
    /\ selfRep = "cb" => ~Active /\ req.state = "UPGRADE" /\ Free /\ ~req.cancel
    /\ UpgradeIsAlone

\* what the control of the upgrade depends on
FotaCtl == DownloadInv /\ UpgradeInv

AnyEcu == UNION {{p[i] : i \in 1 .. Len(p)} : p \in Packages}

LEMMA PackIsSeq == ASSUME NEW p \in Packs PROVE p \in Seq(AnyEcu)
<1>1. Packages \subseteq Seq(AnyEcu) BY FotaAssumption DEF AnyEcu
<1>2. <<>> \in Seq(AnyEcu) OBVIOUS
<1> QED BY <1>1, <1>2 DEF Packs

\* The ECUs of a package are ECUs.
LEMMA PackEcu ==
    ASSUME NEW p \in Packs, NEW k \in 1 .. Len(p), p[k] # TBOX
    PROVE  p[k] \in Ecus /\ p[k] \in EcusOf(p)
<1>1. p[k] \in EcusOf(p) BY DEF EcusOf
<1>2. p \in Packages BY PackIsSeq DEF Packs
<1> QED BY <1>1, <1>2 DEF Ecus

\* fota_dld_cb: it ends the download or leaves it alone, and forgets a cancelled one.
LEMMA DldCbReq ==
    ASSUME NEW r \in ReqType, r.cancel => r.state = "DOWNLOAD", NEW event
    PROVE  /\ DldCb(r, event) \in ReqType
           /\ DldCb(r, event).cancel => DldCb(r, event).state = "DOWNLOAD"
           /\ r.state # "DOWNLOAD" => DldCb(r, event) = r
           /\ r.state = "DOWNLOAD" => DldCb(r, event).state \in {"DOWNLOAD", "NOREQ", "PENDING"}
BY DEF DldCb, ReqType

LEMMA DldCancelReq ==
    ASSUME NEW r \in ReqType, r.cancel => r.state = "DOWNLOAD"
    PROVE  /\ fota_dld_cancel(r) \in ReqType
           /\ fota_dld_cancel(r).cancel => fota_dld_cancel(r).state = "DOWNLOAD"
           /\ r.state \notin {"NEWREQ", "DOWNLOAD"} => fota_dld_cancel(r) = r
           /\ r.state = "DOWNLOAD" => fota_dld_cancel(r).state = "DOWNLOAD"
           /\ r.state = "NEWREQ" => fota_dld_cancel(r).state = "PENDING"
BY DEF fota_dld_cancel, ReqType

LEMMA UpdCbReq ==
    ASSUME req \in ReqType, req.cancel => req.state = "DOWNLOAD", NEW event
    PROVE  /\ UpdCb(event) \in ReqType
           /\ req.state = "UPGRADE" =>
                 /\ ~UpdCb(event).cancel
                 /\ event = "PROCESS" => UpdCb(event).state = "UPGRADE"
                 /\ UpdCb(event).state \in {"UPGRADE", "OLDFILE", "FINISH"}
           /\ req.state # "UPGRADE" => UpdCb(event) = [req EXCEPT !.cancel = FALSE]
BY DEF UpdCb, UpdCbStops, ReqType

LEMMA FotaInitInv == ASSUME FotaInit PROVE FotaTypes /\ FotaCtl
<1>1. FotaTypes
  <2>1. req \in ReqType /\ hu \in HuType /\ http \in HttpType
    BY DEF FotaInit, ReqType, HuType, HttpType
  <2>2. flash \in [Ecus -> FlashStates] /\ [e \in Ecus |-> "src"] \in [Ecus -> FlashStates]
    BY DEF FotaInit, FlashStates
  <2>3. job \in JobRec BY <2>2 DEF FotaInit, JobRec, Packs
  <2>4. job.i \in 1 .. 1 + Len(job.pkg) BY DEF FotaInit
  <2> QED BY <2>1, <2>2, <2>3, <2>4 DEF FotaInit, FotaTypes
<1>2. FotaCtl
  BY DEF FotaInit, FotaCtl, DownloadInv, UpgradeInv, UpgradeIsAlone, Active, Spawning, Free
<1> QED BY <1>1, <1>2

\* The control does not depend on the rest of the head unit's and the job's state.
LEMMA CtlFrame ==
    ASSUME FotaCtl, UNCHANGED <<req, lock, http, selfRep>>,
           job'.inbox = job.inbox, job'.pc = job.pc, job'.self = job.self
    PROVE  FotaCtl'
BY DEF FotaCtl, DownloadInv, UpgradeInv, UpgradeIsAlone, Active, Spawning, Free

\* A request is refused, taken, or starts its download.
LEMMA RequestCtl ==
    ASSUME FotaTypes, FotaCtl,
           \/ \E mode \in BOOLEAN : fota_silent(mode)
           \/ fota_new_request \/ fota_dld_start \/ DownloadStarted
    PROVE  FotaCtl'
<1> USE DEF FotaTypes, ReqType, HttpType, FotaCtl, DownloadInv, UpgradeInv, UpgradeIsAlone, Active,
            Spawning, Free
<1>1. ASSUME NEW mode \in BOOLEAN, fota_silent(mode) PROVE FotaCtl' BY <1>1 DEF fota_silent
\* the state changes where no package is in work and no download runs
<1>2. ASSUME Free, req.state \notin {"DOWNLOAD", "UPGRADE"}, UNCHANGED <<lock, http, selfRep, job>>,
             req'.state \notin {"DOWNLOAD", "UPGRADE"}, req'.cancel = req.cancel
      PROVE  FotaCtl'
  BY <1>2
<1>3. ASSUME Free, req.state \notin {"DOWNLOAD", "UPGRADE"}, SpawnDownload, lock' \in {"ap", "dld"},
             UNCHANGED <<req, selfRep, job>>
      PROVE  FotaCtl'
  BY <1>3 DEF SpawnDownload
<1>4. CASE fota_new_request
  <2>1. CASE UNCHANGED <<req, lock, http>> BY <1>4, <2>1, CtlFrame DEF fota_new_request
  <2>2. CASE ~UNCHANGED <<req, lock, http>>
    <3>1. Free /\ req.state \notin {"DOWNLOAD", "UPGRADE"} /\ UNCHANGED <<selfRep, job>>
      BY <1>4, <2>2 DEF fota_new_request, Takes
    <3>2. \/ req' = [req EXCEPT !.state = "NEWREQ"] /\ UNCHANGED <<lock, http>>
          \/ req' = [req EXCEPT !.state = "PENDING"] /\ UNCHANGED <<lock, http>>
          \/ SpawnDownload /\ lock' = "ap" /\ UNCHANGED req
      BY <1>4, <2>2 DEF fota_new_request
    <3> QED BY <1>2, <1>3, <3>1, <3>2
  <2> QED BY <2>1, <2>2
<1>5. CASE fota_dld_start
  <2>1. CASE UNCHANGED <<req, lock, http>> BY <1>5, <2>1, CtlFrame DEF fota_dld_start
  <2>2. CASE ~UNCHANGED <<req, lock, http>>
    <3>1. Free /\ req.state \notin {"DOWNLOAD", "UPGRADE"} /\ UNCHANGED <<selfRep, job>>
      BY <1>5, <2>2 DEF fota_dld_start
    <3>2. \/ req' = [req EXCEPT !.state = "PENDING"] /\ UNCHANGED <<lock, http>>
          \/ SpawnDownload /\ lock' = "dld" /\ UNCHANGED req
      BY <1>5, <2>2 DEF fota_dld_start
    <3> QED BY <1>2, <1>3, <3>1, <3>2
  <2> QED BY <2>1, <2>2
<1>6. CASE DownloadStarted BY <1>6 DEF DownloadStarted
<1> QED BY <1>1, <1>4, <1>5, <1>6

\* The end of a download, seen by fota_dld_cb; with the last byte of a silent request
\* the package is handed over.
LEMMA FinishedCtl ==
    ASSUME FotaTypes, FotaCtl, Free, http.pc = "recv", NEW next \in HttpType,
           \/ next.pc = "close" /\ next.busy
           \/ next.pc = "none" /\ ~next.busy,
           ~next.gone, DldFinished(next), UNCHANGED selfRep
    PROVE  FotaCtl'
<1> USE DEF FotaTypes, ReqType, HttpType, FotaCtl, DownloadInv, UpgradeInv, UpgradeIsAlone, Active,
            Spawning, Free
<1>0. req.state = "DOWNLOAD" /\ ~Active /\ ~http.gone OBVIOUS
<1>1. CASE req.cancel
  <2>1. req' = DldCb(req, "FINISH") /\ http' = next /\ UNCHANGED <<lock, job>>
    BY <1>1 DEF DldFinished
  <2>2. req'.cancel => req'.state = "DOWNLOAD" BY <2>1, DldCbReq
  <2>3. req'.state # "UPGRADE" BY <2>1, <1>0, DldCbReq
  <2>4. selfRep = "due" => ~job.self BY <1>0
  <2> QED BY <1>0, <2>1, <2>2, <2>3, <2>4
<1>2. CASE ~req.cancel
  <2>1. CASE UNCHANGED <<lock, job>>
    BY <1>0, <1>2, <2>1 DEF DldFinished
  <2>2. CASE ~UNCHANGED <<lock, job>>
    <3>1. job' = [job EXCEPT !.inbox = @ + 1] /\ lock' = "cb" /\ http' = next /\ UNCHANGED req
      BY <1>0, <1>2, <2>2 DEF DldFinished
    <3>2. job'.pc = job.pc /\ job'.self = job.self BY <3>1 DEF JobRec
    <3> QED BY <1>0, <1>2, <3>1, <3>2
  <2> QED BY <2>1, <2>2
<1> QED BY <1>1, <1>2

LEMMA DownloadCtl == ASSUME FotaTypes, FotaCtl, HttpThread PROVE FotaCtl'
<1> USE DEF FotaTypes, ReqType, HttpType
<1>1. CASE HttpFinish
  <2>1. [http EXCEPT !.pc = "close"] \in HttpType OBVIOUS
  <2>2. http.busy /\ ~http.gone
    BY <1>1 DEF HttpFinish, FotaCtl, DownloadInv, Spawning, Free
  <2>3. LET next == [http EXCEPT !.pc = "close"]
        IN  next.pc = "close" /\ next.busy /\ ~next.gone
    BY <2>2
  <2>4. Free /\ http.pc = "recv" /\ DldFinished([http EXCEPT !.pc = "close"]) /\ UNCHANGED selfRep
    BY <1>1 DEF HttpFinish
  <2> QED BY <2>1, <2>3, <2>4, FinishedCtl
\* the thread's last callback
<1>2. ASSUME Free, http.pc = "done", req' = DldCb(req, "ERROR"),
             http' = [http EXCEPT !.pc = "none", !.busy = FALSE], UNCHANGED <<lock, selfRep, job>>
      PROVE  FotaCtl'
  <2>1. req'.cancel => req'.state = "DOWNLOAD"
    BY <1>2, DldCbReq DEF FotaCtl, DownloadInv
  <2>2. req.state # "DOWNLOAD" => req' = req BY <1>2, DldCbReq DEF FotaCtl, DownloadInv
  <2>3. req.state = "DOWNLOAD" => req'.state # "UPGRADE"
    BY <1>2, DldCbReq DEF FotaCtl, DownloadInv
  <2> QED BY <1>2, <2>1, <2>2, <2>3
          DEF FotaCtl, DownloadInv, UpgradeInv, UpgradeIsAlone, Active, Spawning, Free
<1>3. CASE HttpDone
  <2>1. CASE http.pc = "done" BY <1>2, <1>3, <2>1 DEF HttpDone
  <2>2. CASE http.pc = "recv"
    <3>1. [http EXCEPT !.pc = "none", !.busy = FALSE] \in HttpType OBVIOUS
    <3>2. ~http.gone BY <2>2 DEF FotaCtl, DownloadInv
    <3> QED BY <1>3, <2>2, <3>1, <3>2, FinishedCtl DEF HttpDone
  <2> QED BY <1>3, <2>1, <2>2 DEF HttpDone
<1>4. CASE HttpProcess
  <2>1. req.state = "DOWNLOAD"
    BY <1>4 DEF HttpProcess, FotaCtl, DownloadInv, Spawning, Free
  <2>2. /\ req'.cancel => req'.state = "DOWNLOAD"
        /\ req'.state # "UPGRADE"
    BY <1>4, <2>1, DldCbReq DEF HttpProcess, FotaCtl, DownloadInv
  <2> QED BY <1>4, <2>1, <2>2
          DEF HttpProcess, FotaCtl, DownloadInv, UpgradeInv, UpgradeIsAlone, Active, Spawning, Free
<1>5. CASE HttpEnds
  BY <1>5 DEF HttpEnds, FotaCtl, DownloadInv, UpgradeInv, UpgradeIsAlone, Active, Spawning, Free
<1> QED BY <1>1, <1>3, <1>4, <1>5 DEF HttpThread

\* The head unit confirms, refuses, watches and starts the upgrade.
LEMMA HeadUnitCtl ==
    ASSUME FotaTypes, FotaCtl,
           \/ hu_fota_dld_request_send \/ hu_fota_dld_confirm_recv \/ hu_fota_dld_restart_recv
           \/ HuFinishSend \/ HuProcessSend \/ HuDone \/ hu_fota_dld_refused
           \/ fota_upd_start \/ UpgradeStarted \/ SilentUpgrade
    PROVE  FotaCtl'
<1> USE DEF FotaTypes, ReqType, HttpType
<1>1. CASE \/ hu_fota_dld_request_send \/ hu_fota_dld_confirm_recv \/ hu_fota_dld_restart_recv
           \/ HuFinishSend \/ HuProcessSend
  BY <1>1, CtlFrame
  DEF hu_fota_dld_request_send, hu_fota_dld_confirm_recv, hu_fota_dld_restart_recv,
      HuFinishSend, HuProcessSend, HuThread
<1>2. ASSUME Free, req' = fota_dld_cancel(req), UNCHANGED <<lock, http, selfRep, job>>
      PROVE  FotaCtl'
  <2>1. /\ req'.cancel => req'.state = "DOWNLOAD"
        /\ req.state \notin {"NEWREQ", "DOWNLOAD"} => req' = req
        /\ req.state = "DOWNLOAD" => req'.state = "DOWNLOAD"
        /\ req.state = "NEWREQ" => req'.state = "PENDING"
    BY <1>2, DldCancelReq DEF FotaCtl, DownloadInv
  <2> QED BY <1>2, <2>1
          DEF FotaCtl, DownloadInv, UpgradeInv, UpgradeIsAlone, Active, Spawning, Free
<1>3. CASE HuDone
  <2>1. CASE UNCHANGED req BY <1>3, <2>1, CtlFrame DEF HuDone, HuThread
  <2>2. CASE ~UNCHANGED req BY <1>2, <1>3, <2>2 DEF HuDone, HuThread
  <2> QED BY <2>1, <2>2
<1>4. CASE hu_fota_dld_refused BY <1>2, <1>4 DEF hu_fota_dld_refused, HuThread
<1>5. CASE fota_upd_start
  <2>1. CASE UNCHANGED <<req, lock, job>> BY <1>5, <2>1, CtlFrame DEF fota_upd_start
  <2>2. CASE ~UNCHANGED <<req, lock, job>>
    <3>1. Free /\ req.state \in {"NEWFILE", "OLDFILE"} /\ UNCHANGED <<http, selfRep>>
      BY <1>5, <2>2 DEF fota_upd_start
    <3>2. CASE req' = [req EXCEPT !.state = "OLDFILE"] /\ UNCHANGED <<lock, job>>
      BY <3>1, <3>2
      DEF FotaCtl, DownloadInv, UpgradeInv, UpgradeIsAlone, Active, Spawning, Free
    <3>3. CASE job' = [job EXCEPT !.inbox = @ + 1] /\ lock' = "upd" /\ UNCHANGED req
      <4>1. job'.pc = job.pc /\ job'.self = job.self BY <3>3 DEF JobRec
      <4> QED BY <3>1, <3>3, <4>1
              DEF FotaCtl, DownloadInv, UpgradeInv, UpgradeIsAlone, Active, Spawning, Free
    <3> QED BY <1>5, <2>2, <3>2, <3>3 DEF fota_upd_start
  <2> QED BY <2>1, <2>2
<1>6. CASE UpgradeStarted \/ SilentUpgrade
  BY <1>6 DEF UpgradeStarted, SilentUpgrade, FotaCtl, DownloadInv, UpgradeInv, UpgradeIsAlone,
              Active, Spawning, Free
<1> QED BY <1>1, <1>3, <1>4, <1>5, <1>6

\* The thread of fota_main, and the report of the terminal's own upgrade.
LEMMA ProgrammingCtl ==
    ASSUME FotaTypes, FotaCtl,
           FotaJob \/ SelfUpgraded \/ SelfUpgradeCb \/ \E mode \in BOOLEAN : FotaSleeps(mode)
    PROVE  FotaCtl'
<1> USE DEF FotaTypes, ReqType, HttpType, JobThread
<1>1. ASSUME NEW mode \in BOOLEAN, FotaSleeps(mode) PROVE FotaCtl'
  BY <1>1, CtlFrame DEF FotaSleeps, JobRec
\* the package in work goes on
<1>2. ASSUME UNCHANGED <<req, lock, http, selfRep>>, job.pc # "wait",
             job'.pc # "wait", job'.inbox = job.inbox, job'.self = job.self
      PROVE  FotaCtl'
  BY <1>2 DEF FotaCtl, DownloadInv, UpgradeInv, UpgradeIsAlone, Active, Spawning, Free
<1>3. CASE fota_main
  <2>1. CASE job.sleep
    <3>1. /\ Free /\ req.state = "UPGRADE" /\ req' = UpdCb("ERROR") /\ job.pc = "wait"
          /\ job' = [job EXCEPT !.inbox = @ - 1] /\ UNCHANGED <<lock, http, selfRep>>
          /\ job.inbox = 1
      BY <1>3, <2>1 DEF fota_main, JobRec, FotaCtl, UpgradeInv, UpgradeIsAlone
    <3>2. ~req'.cancel BY <3>1, UpdCbReq DEF FotaCtl, DownloadInv
    <3>3. job'.inbox = 0 /\ job'.pc = "wait" /\ job'.self = job.self BY <3>1 DEF JobRec
    <3> QED BY <3>1, <3>2, <3>3
            DEF FotaCtl, DownloadInv, UpgradeInv, UpgradeIsAlone, Active, Spawning, Free
  <2>2. CASE ~job.sleep
    <3>0. job.inbox = 1 BY <1>3 DEF fota_main, JobRec
    <3>1. job' = [job EXCEPT !.inbox = @ - 1, !.pc = "load"] /\ UNCHANGED <<req, lock, http, selfRep>>
      BY <1>3, <2>2 DEF fota_main
    <3>2. job'.inbox = 0 /\ job'.pc = "load" /\ job'.self = job.self
      BY <3>0, <3>1 DEF JobRec
    <3> QED BY <3>0, <3>1, <3>2
            DEF FotaCtl, DownloadInv, UpgradeInv, UpgradeIsAlone, Active, Spawning, Free
  <2> QED BY <2>1, <2>2
<1>4. CASE LoadPackage
  <2>1. /\ job.pc = "load" /\ job'.pc \in {"report", "excute"} /\ job'.inbox = job.inbox
        /\ UNCHANGED <<req, lock, http, selfRep>>
    BY <1>4 DEF LoadPackage, JobRec
  <2> QED BY <2>1
          DEF FotaCtl, DownloadInv, UpgradeInv, UpgradeIsAlone, Active, Spawning, Free
<1>5. CASE fota_excute
  <2>1. CASE UNCHANGED req
    <3>1. job.pc = "excute" /\ job'.pc = "excute" /\ job'.inbox = job.inbox /\ job'.self = job.self
      BY <1>5 DEF fota_excute, EcuRefuses, ProgramFails, fota_ecu_program, JobRec
    <3> QED BY <1>2, <1>5, <2>1, <3>1 DEF fota_excute
  <2>2. CASE ~UNCHANGED req
    <3>1. Free /\ req' = UpdCb("PROCESS")
      BY <1>5, <2>2 DEF fota_excute, fota_ecu_program
    <3>2. req.state = "UPGRADE" /\ ~req.cancel
      BY <1>5, <3>1 DEF fota_excute, FotaCtl, UpgradeInv, UpgradeIsAlone
    <3>3. req' = req BY <3>1, <3>2 DEF UpdCb, UpdCbStops
    <3> QED BY <2>2, <3>3
  <2> QED BY <2>1, <2>2
<1>6. CASE fota_tbox_upgrade
  BY <1>2, <1>6 DEF fota_tbox_upgrade, JobRec
<1>7. CASE RollbackEcu
  BY <1>2, <1>7 DEF RollbackEcu, JobRec
<1>8. CASE hu_fota_upd_rollupd_reslut_state
  BY <1>2, <1>8 DEF hu_fota_upd_rollupd_reslut_state, JobRec
<1>9. CASE fota_do_request
  <2>1. job'.inbox = 0 /\ job'.pc = "wait" /\ job'.self = job.self /\ job.pc = "report"
    BY <1>9 DEF fota_do_request, Idle, JobRec, FotaCtl, UpgradeInv
  <2>2. CASE job.self
    BY <1>9, <2>1, <2>2
    DEF fota_do_request, FotaCtl, DownloadInv, UpgradeInv, UpgradeIsAlone, Active, Spawning, Free
  <2>3. CASE ~job.self
    <3>1. Free /\ req.state = "UPGRADE" /\ ~req.cancel
      BY <1>9, <2>1, <2>3 DEF fota_do_request, FotaCtl, UpgradeInv, UpgradeIsAlone
    <3>2. ~req'.cancel BY <1>9, <2>3, <3>1, UpdCbReq DEF fota_do_request
    <3> QED BY <1>9, <2>1, <2>3, <3>1, <3>2
            DEF fota_do_request, FotaCtl, DownloadInv, UpgradeInv, UpgradeIsAlone, Active,
                Spawning, Free
  <2> QED BY <2>2, <2>3
<1>10. CASE SelfUpgraded
  BY <1>10 DEF SelfUpgraded, FotaCtl, DownloadInv, UpgradeInv, UpgradeIsAlone, Active, Spawning, Free
<1>11. CASE SelfUpgradeCb
  <2>1. Free /\ ~Active /\ req.state = "UPGRADE" /\ ~req.cancel
    BY <1>11 DEF SelfUpgradeCb, FotaCtl, UpgradeInv
  <2>2. ~req'.cancel BY <1>11, <2>1, UpdCbReq DEF SelfUpgradeCb
  <2> QED BY <1>11, <2>1, <2>2
          DEF SelfUpgradeCb, FotaCtl, DownloadInv, UpgradeInv, UpgradeIsAlone, Active, Spawning, Free
<1> QED BY <1>1, <1>3, <1>4, <1>5, <1>6, <1>7, <1>8, <1>9, <1>10, <1>11 DEF FotaJob

LEMMA FotaCtlStep == ASSUME FotaTypes, FotaCtl, FotaNext PROVE FotaCtl'
BY RequestCtl, DownloadCtl, HeadUnitCtl, ProgrammingCtl DEF FotaNext, HuReports, Unlocks

-----------------------------------------------------------------------------
(* The upgrade: what the ECUs hold, relative to what they held before.     *)

\* fota_excute and fota_rollback: every ECU outside rback holds what it held; those in it
\* held a program of the source version.  In fota_excute the ECUs behind the
\* loop's index hold the new version, in a rollback without errors those that were
\* programmed hold the old one again.
FlashInv ==
    /\ job.pc \in {"wait", "load"} =>
          job.i = 1 /\ ~job.err /\ ~job.rerr /\ job.rback = {} /\ job.pkg = <<>>
    /\ job.pc # "report" => ~job.tbox
    /\ job.pc \in {"excute", "rollback"} =>
          /\ \A e \in Ecus \ job.rback : flash[e] = job.was[e]
          /\ \A e \in job.rback : job.was[e] = "src"
          /\ job.rback \subseteq EcusOf(job.pkg)
    /\ job.pc = "excute" =>
          /\ ~job.rerr
          /\ \A e \in job.rback : flash[e] # "src"
          /\ ~job.err => \A k \in 1 .. job.i - 1 :
                            job.pkg[k] # TBOX => flash[job.pkg[k]] = "tar"
    /\ job.pc = "rollback" =>
          /\ job.err
          /\ ~job.rerr => \A k \in 1 .. job.i - 1 :
                             job.pkg[k] \in job.rback => flash[job.pkg[k]] = "src"
    /\ AllOrNothing

FotaInv == FotaTypes /\ FotaCtl /\ FlashInv

\* Whoever only hands over a package changes neither.
LEMMA FlashFrame ==
    ASSUME FotaTypes, FlashInv, UNCHANGED flash,
           \/ UNCHANGED job
           \/ \E n \in 0 .. 1 : job' = [job EXCEPT !.inbox = n]
           \/ \E b \in BOOLEAN : job' = [job EXCEPT !.sleep = b]
    PROVE  FlashInv' /\ flash' \in [Ecus -> FlashStates] /\ job' \in JobRec
           /\ job'.i \in 1 .. 1 + Len(job'.pkg)
<1>1. /\ job'.pc = job.pc /\ job'.i = job.i /\ job'.err = job.err /\ job'.rerr = job.rerr
      /\ job'.rback = job.rback /\ job'.pkg = job.pkg /\ job'.tbox = job.tbox
      /\ job'.was = job.was
  BY DEF FotaTypes, JobRec
<1>2. job' \in JobRec BY DEF FotaTypes, JobRec
<1>3. FlashInv' BY <1>1 DEF FlashInv, AllOrNothing
<1> QED BY <1>1, <1>2, <1>3 DEF FotaTypes

\* The variables but those of the job keep their types.
LEMMA ReqTypes ==
    ASSUME FotaTypes, FotaCtl, FotaNext
    PROVE  /\ req' \in ReqType /\ hu' \in HuType /\ http' \in HttpType
           /\ lock' \in {"free", "ap", "dld", "cb", "upd"}
           /\ apAsks' \in BOOLEAN /\ selfRep' \in {"due", "cb", "over"}
<1> DEFINE Types == /\ req \in ReqType /\ hu \in HuType /\ http \in HttpType
                    /\ lock \in {"free", "ap", "dld", "cb", "upd"}
                    /\ apAsks \in BOOLEAN /\ selfRep \in {"due", "cb", "over"}
<1>c. req.cancel => req.state = "DOWNLOAD" BY DEF FotaCtl, DownloadInv
<1>t. Types BY DEF FotaTypes
<1>cb. \A event : DldCb(req, event) \in ReqType /\ UpdCb(event) \in ReqType
  BY <1>c, <1>t, DldCbReq, UpdCbReq
<1>ca. fota_dld_cancel(req) \in ReqType BY <1>c, <1>t, DldCancelReq
<1>s. \A st \in {"NOREQ", "NEWREQ", "PENDING", "DOWNLOAD", "NEWFILE", "OLDFILE", "UPGRADE",
                  "FINISH"} : [req EXCEPT !.state = st] \in ReqType
  BY <1>t DEF ReqType
<1>h. /\ [http EXCEPT !.pc = "close"] \in HttpType /\ [http EXCEPT !.pc = "done"] \in HttpType
      /\ [http EXCEPT !.pc = "recv"] \in HttpType /\ [http EXCEPT !.gone = TRUE] \in HttpType
      /\ [http EXCEPT !.busy = TRUE] \in HttpType
      /\ [http EXCEPT !.pc = "none", !.busy = FALSE] \in HttpType
  BY <1>t DEF HttpType
<1>1. ASSUME NEW mode \in BOOLEAN, fota_silent(mode) PROVE Types'
  BY <1>1, <1>t DEF fota_silent, ReqType
<1>2. ASSUME NEW mode \in BOOLEAN, FotaSleeps(mode) PROVE Types'
  BY <1>2, <1>t DEF FotaSleeps, JobThread
<1>3. CASE fota_new_request BY <1>3, <1>t, <1>s, <1>h DEF fota_new_request, SpawnDownload
<1>4. CASE fota_dld_start
  <2>1. hu' \in HuType BY <1>4, <1>t DEF fota_dld_start, HuType
  <2> QED BY <1>4, <1>t, <1>s, <1>h, <2>1 DEF fota_dld_start, SpawnDownload
<1>5. CASE \/ hu_fota_dld_request_send \/ hu_fota_dld_confirm_recv \/ hu_fota_dld_restart_recv
           \/ HuFinishSend \/ HuProcessSend
  <2>1. hu' \in HuType
    BY <1>5, <1>t DEF hu_fota_dld_request_send, hu_fota_dld_confirm_recv,
                      hu_fota_dld_restart_recv, HuFinishSend, HuProcessSend, HuType
  <2> QED BY <1>5, <1>t, <2>1
          DEF hu_fota_dld_request_send, hu_fota_dld_confirm_recv, hu_fota_dld_restart_recv,
              HuFinishSend, HuProcessSend, HuThread
<1>6. CASE HuDone \/ hu_fota_dld_refused
  <2>1. hu' \in HuType BY <1>6, <1>t DEF HuDone, hu_fota_dld_refused, HuType
  <2> QED BY <1>6, <1>t, <1>ca, <2>1 DEF HuDone, hu_fota_dld_refused, HuThread
<1>7. CASE fota_upd_start \/ UpgradeStarted \/ SilentUpgrade \/ DownloadStarted
  <2>1. hu' \in HuType
    BY <1>7, <1>t DEF fota_upd_start, UpgradeStarted, SilentUpgrade, DownloadStarted, HuType
  <2> QED BY <1>7, <1>t, <1>s, <1>h, <2>1
          DEF fota_upd_start, UpgradeStarted, SilentUpgrade, DownloadStarted
<1>8. ASSUME NEW next \in HttpType, DldFinished(next), UNCHANGED <<hu, apAsks, selfRep>> PROVE Types'
  BY <1>8, <1>t, <1>s, <1>cb DEF DldFinished
<1>9. CASE HttpThread
  BY <1>8, <1>9, <1>t, <1>h, <1>cb DEF HttpThread, HttpProcess, HttpFinish, HttpEnds, HttpDone
<1>10. CASE fota_main \/ LoadPackage \/ fota_tbox_upgrade \/ RollbackEcu \/ fota_do_request
  BY <1>10, <1>t, <1>cb
  DEF fota_main, LoadPackage, fota_tbox_upgrade, RollbackEcu, fota_do_request, JobThread
<1>11. CASE fota_excute
  <2>1. req' \in ReqType BY <1>11, <1>t, <1>cb DEF fota_excute, fota_ecu_program
  <2> QED BY <1>11, <1>t, <2>1 DEF fota_excute, JobThread
<1>12. CASE hu_fota_upd_rollupd_reslut_state
  BY <1>12, <1>t DEF hu_fota_upd_rollupd_reslut_state, JobThread, HuType
<1>13. CASE SelfUpgraded \/ SelfUpgradeCb
  <2>1. hu' \in HuType BY <1>13, <1>t DEF SelfUpgraded, SelfUpgradeCb, HuType
  <2> QED BY <1>13, <1>t, <1>s, <1>cb, <2>1 DEF SelfUpgraded, SelfUpgradeCb
<1>q. Types'
  BY <1>1, <1>2, <1>3, <1>4, <1>5, <1>6, <1>7, <1>9, <1>10, <1>11, <1>12, <1>13, Zenon
  DEF FotaNext, HuReports, Unlocks, FotaJob
<1> QED BY <1>q

\* The ECUs of a package for the thread of fota_main.
LEMMA JobFacts ==
    ASSUME FotaTypes
    PROVE  /\ job.pkg \in Packs /\ job.pkg \in Seq(AnyEcu) /\ Len(job.pkg) \in Nat
           /\ job.i \in 1 .. 1 + Len(job.pkg) /\ job.i \in Nat
           /\ flash \in [Ecus -> FlashStates] /\ job.was \in [Ecus -> FlashStates]
           /\ job.rback \in SUBSET Ecus
<1>1. job.pkg \in Packs /\ job.was \in [Ecus -> FlashStates] /\ job.rback \in SUBSET Ecus
  BY DEF FotaTypes, JobRec
<1>2. job.pkg \in Seq(AnyEcu) BY <1>1, PackIsSeq
<1> QED BY <1>1, <1>2 DEF FotaTypes

\* what has to be shown of a step of the thread of fota_main
FlashStep ==
    /\ FlashInv' /\ flash' \in [Ecus -> FlashStates]
    /\ job' \in JobRec /\ job'.i \in 1 .. 1 + Len(job'.pkg)

LEMMA FlashLoad == ASSUME FotaTypes, FlashInv, LoadPackage PROVE FlashStep
<1>0. job.pc = "load" /\ UNCHANGED flash /\ job.i = 1 BY DEF LoadPackage, FlashInv
<1>1. ASSUME NEW b \in BOOLEAN,
             job' = [job EXCEPT !.pc = "report", !.err = TRUE, !.was = flash, !.self = b]
      PROVE  FlashStep
  <2>1. job' \in JobRec /\ job'.pkg = job.pkg /\ job'.i = job.i
    BY <1>1 DEF FotaTypes, JobRec
  <2>2. job'.pc = "report" /\ job'.err = TRUE /\ job'.was = flash /\ ~job'.tbox
    BY <1>0, <1>1 DEF FotaTypes, JobRec, FlashInv
  <2>3. FlashInv' BY <1>0, <2>2 DEF FlashInv, AllOrNothing
  <2> QED BY <1>0, <2>1, <2>3 DEF FotaTypes, FlashStep
<1>2. ASSUME NEW b \in BOOLEAN, NEW p \in Packages,
             job' = [job EXCEPT !.pc = "excute", !.pkg = p, !.was = flash, !.self = b]
      PROVE  FlashStep
  <2>1. job' \in JobRec BY <1>2 DEF FotaTypes, JobRec, Packs
  <2>2. /\ job'.pc = "excute" /\ job'.pkg = p /\ job'.was = flash /\ job'.i = 1
        /\ ~job'.err /\ ~job'.rerr /\ ~job'.tbox /\ job'.rback = {}
    BY <1>0, <1>2 DEF FotaTypes, JobRec, FlashInv
  <2>3. Len(p) \in Nat BY PackIsSeq DEF Packs
  <2>4. FlashInv' BY <1>0, <2>2 DEF FlashInv, AllOrNothing
  <2> QED BY <1>0, <2>1, <2>2, <2>3, <2>4 DEF FotaTypes, FlashStep
<1>3. CASE job' = [job EXCEPT !.pc = "report", !.err = TRUE, !.was = flash]
  <2>1. job' = [job EXCEPT !.pc = "report", !.err = TRUE, !.was = flash, !.self = job.self]
    BY <1>3 DEF FotaTypes, JobRec
  <2> QED BY <1>1, <2>1 DEF FotaTypes, JobRec
<1>4. ASSUME NEW self \in BOOLEAN,
             job' = [job EXCEPT !.pc = "report", !.err = TRUE, !.was = flash, !.self = @ \/ self]
      PROVE  FlashStep
  <2>1. (job.self \/ self) \in BOOLEAN BY Zenon
  <2> QED BY <1>1, <1>4, <2>1
<1>5. ASSUME NEW p \in Packages,
             job' = [job EXCEPT !.pc = "excute", !.pkg = p, !.was = flash,
                                !.self = @ \/ \E i \in 1 .. Len(p) : p[i] = TBOX]
      PROVE  FlashStep
  <2>1. (job.self \/ \E i \in 1 .. Len(p) : p[i] = TBOX) \in BOOLEAN BY Zenon
  <2> QED BY <1>2, <1>5, <2>1
<1> QED BY <1>3, <1>4, <1>5 DEF LoadPackage

\* One round of fota_excute.
LEMMA FlashExcute == ASSUME FotaTypes, FlashInv, fota_excute PROVE FlashStep
<1> DEFINE e == job.pkg[job.i]
<1>f. /\ job.pkg \in Packs /\ job.pkg \in Seq(AnyEcu) /\ Len(job.pkg) \in Nat
      /\ job.i \in 1 .. Len(job.pkg) /\ job.pc = "excute" /\ ~job.err
      /\ flash \in [Ecus -> FlashStates] /\ job.rback \in SUBSET Ecus
  BY JobFacts DEF fota_excute
<1>e. e # TBOX => e \in Ecus /\ e \in EcusOf(job.pkg) BY <1>f, PackEcu
<1>i. job.i + 1 \in Nat /\ job.i + 1 \in 1 .. 1 + Len(job.pkg) BY <1>f
<1>o. /\ \A x \in Ecus \ job.rback : flash[x] = job.was[x]
      /\ \A x \in job.rback : job.was[x] = "src"
      /\ job.rback \subseteq EcusOf(job.pkg)
      /\ \A x \in job.rback : flash[x] # "src"
      /\ ~job.rerr /\ ~job.tbox
      /\ \A k \in 1 .. job.i - 1 : job.pkg[k] # TBOX => flash[job.pkg[k]] = "tar"
  BY <1>f DEF FlashInv
<1> HIDE DEF e
<1>1. CASE UNCHANGED flash /\ job' = [job EXCEPT !.i = @ + 1] /\ e = TBOX
  <2>1. /\ job' \in JobRec /\ job'.i = job.i + 1 /\ job'.pkg = job.pkg /\ job'.was = job.was
        /\ job'.pc = "excute" /\ job'.rback = job.rback /\ job'.err = job.err
        /\ job'.rerr = job.rerr /\ job'.tbox = job.tbox
    BY <1>1, <1>i, <1>f DEF FotaTypes, JobRec
  <2>2. \A k \in 1 .. job'.i - 1 : k \in 1 .. job.i - 1 \/ k = job.i BY <2>1, <1>f
  <2>3. FlashInv' BY <1>1, <1>o, <1>f, <2>1, <2>2 DEF FlashInv, AllOrNothing, e
  <2> QED BY <1>1, <1>i, <1>f, <2>1, <2>3 DEF FlashStep
<1>2. CASE UNCHANGED flash /\ job' = [job EXCEPT !.err = TRUE]
  <2>1. /\ job' \in JobRec /\ job'.i = job.i /\ job'.pkg = job.pkg /\ job'.was = job.was
        /\ job'.pc = "excute" /\ job'.rback = job.rback /\ job'.err = TRUE
        /\ job'.rerr = job.rerr /\ job'.tbox = job.tbox
    BY <1>2, <1>f DEF FotaTypes, JobRec
  <2>2. FlashInv' BY <1>2, <1>o, <2>1 DEF FlashInv, AllOrNothing
  <2> QED BY <1>2, <1>f, <2>1, <2>2 DEF FlashStep
\* an ECU is marked before its flash changes
<1>3. ASSUME e # TBOX, flash[e] = "src", NEW f \in {"mixed", "tar"},
             flash' = [flash EXCEPT ![e] = f]
      PROVE  /\ flash' \in [Ecus -> FlashStates] /\ e \notin job.rback /\ job.was[e] = "src"
             /\ \A x \in Ecus \ (job.rback \cup {e}) : flash'[x] = job.was[x]
             /\ \A x \in job.rback \cup {e} : job.was[x] = "src" /\ flash'[x] # "src"
             /\ job.rback \cup {e} \subseteq EcusOf(job.pkg)
             /\ flash'[e] = f
  <2>1. e \in Ecus /\ e \notin job.rback /\ job.was[e] = "src" BY <1>3, <1>e, <1>o
  <2>2. flash' \in [Ecus -> FlashStates] /\ flash'[e] = f
    BY <1>3, <1>f, <2>1 DEF FlashStates
  <2>3. \A x \in Ecus : x # e => flash'[x] = flash[x] BY <1>3, <1>f
  <2> QED BY <1>3, <1>e, <1>o, <1>f, <2>1, <2>2, <2>3
<1>4. ASSUME e # TBOX, flash[e] = "src", NEW f \in {"mixed", "tar"},
             flash' = [flash EXCEPT ![e] = f],
             job' = [job EXCEPT !.err = TRUE, !.rback = @ \cup {e}]
      PROVE  FlashStep
  <2>1. /\ job' \in JobRec /\ job'.i = job.i /\ job'.pkg = job.pkg /\ job'.was = job.was
        /\ job'.pc = "excute" /\ job'.rback = job.rback \cup {e} /\ job'.err = TRUE
        /\ job'.rerr = job.rerr /\ job'.tbox = job.tbox
    BY <1>4, <1>f, <1>e DEF FotaTypes, JobRec
  <2>2. /\ flash' \in [Ecus -> FlashStates]
        /\ \A x \in Ecus \ job'.rback : flash'[x] = job'.was[x]
        /\ \A x \in job'.rback : job'.was[x] = "src" /\ flash'[x] # "src"
        /\ job'.rback \subseteq EcusOf(job'.pkg)
    <3>1. /\ flash' \in [Ecus -> FlashStates]
          /\ \A x \in Ecus \ (job.rback \cup {e}) : flash'[x] = job.was[x]
          /\ \A x \in job.rback \cup {e} : job.was[x] = "src" /\ flash'[x] # "src"
          /\ job.rback \cup {e} \subseteq EcusOf(job.pkg)
      BY <1>3, <1>4, Zenon
    <3> QED BY <2>1, <3>1
  <2>3. FlashInv' BY <1>o, <2>1, <2>2 DEF FlashInv, AllOrNothing
  <2> QED BY <1>f, <2>1, <2>2, <2>3 DEF FlashStep
<1>5. ASSUME e # TBOX, flash[e] = "src", flash' = [flash EXCEPT ![e] = "tar"],
             job' = [job EXCEPT !.i = @ + 1, !.rback = @ \cup {e}]
      PROVE  FlashStep
  <2>1. /\ job' \in JobRec /\ job'.i = job.i + 1 /\ job'.pkg = job.pkg /\ job'.was = job.was
        /\ job'.pc = "excute" /\ job'.rback = job.rback \cup {e} /\ job'.err = job.err
        /\ job'.rerr = job.rerr /\ job'.tbox = job.tbox
    BY <1>5, <1>f, <1>e, <1>i DEF FotaTypes, JobRec
  <2>2. \A k \in 1 .. job'.i - 1 : k \in 1 .. job.i - 1 \/ k = job.i BY <2>1, <1>f
  <2>3. \A k \in 1 .. job'.i - 1 : job.pkg[k] # TBOX => flash'[job.pkg[k]] = "tar"
    <3> SUFFICES ASSUME NEW k \in 1 .. job'.i - 1, job.pkg[k] # TBOX
                 PROVE  flash'[job.pkg[k]] = "tar"
      OBVIOUS
    <3>1. CASE k = job.i BY <1>3, <1>5, <3>1 DEF e
    <3>2. CASE k \in 1 .. job.i - 1
      <4>1. job.pkg[k] \in Ecus BY <3>2, <1>f, PackEcu
      <4>2. flash[job.pkg[k]] = "tar" BY <3>2, <1>o
      <4> QED BY <4>1, <4>2, <1>5, <1>f
    <3> QED BY <2>2, <3>1, <3>2
  <2>4. /\ \A x \in Ecus \ job'.rback : flash'[x] = job'.was[x]
        /\ \A x \in job'.rback : job'.was[x] = "src" /\ flash'[x] # "src"
        /\ job'.rback \subseteq EcusOf(job'.pkg)
    BY <1>3, <1>5, <2>1
  <2>5. FlashInv' BY <1>o, <2>1, <2>3, <2>4 DEF FlashInv, AllOrNothing
  <2> QED BY <1>3, <1>5, <1>f, <1>i, <2>1, <2>5 DEF FlashStep
<1>6. ASSUME e # TBOX, EcuRefuses PROVE FlashStep BY <1>2, <1>6 DEF EcuRefuses
<1>7. ASSUME e # TBOX, ProgramFails(e) PROVE FlashStep BY <1>4, <1>7 DEF ProgramFails
<1>8. ASSUME e # TBOX, fota_ecu_program(e) PROVE FlashStep
  BY <1>4, <1>5, <1>8 DEF fota_ecu_program
<1> QED BY <1>1, <1>6, <1>7, <1>8 DEF fota_excute, e

\* What follows the loop: the rollback, or the report of an upgrade without errors.
LEMMA FlashTbox == ASSUME FotaTypes, FlashInv, fota_tbox_upgrade PROVE FlashStep
<1> DEFINE tbox == \E i \in 1 .. Len(job.pkg) : job.pkg[i] = TBOX
<1>b. tbox \in BOOLEAN BY Zenon
<1>f. /\ job.pkg \in Packs /\ job.pkg \in Seq(AnyEcu) /\ Len(job.pkg) \in Nat
      /\ job.i \in Nat /\ job.pc = "excute"
      /\ flash \in [Ecus -> FlashStates] /\ UNCHANGED flash
  BY JobFacts DEF fota_tbox_upgrade
<1> HIDE DEF tbox
<1>1. CASE job' = [job EXCEPT !.pc = "rollback", !.err = TRUE, !.i = 1]
  <2>1. /\ job' \in JobRec /\ job'.i = 1 /\ job'.pkg = job.pkg /\ job'.was = job.was
        /\ job'.pc = "rollback" /\ job'.rback = job.rback /\ job'.err = TRUE
        /\ job'.rerr = job.rerr /\ job'.tbox = job.tbox
    BY <1>1, <1>f DEF FotaTypes, JobRec
  <2>2. FlashInv' BY <1>f, <2>1 DEF FlashInv, AllOrNothing
  <2> QED BY <1>f, <2>1, <2>2 DEF FlashStep
<1>2. CASE ~job.err /\ job.i > Len(job.pkg) /\ job' = [job EXCEPT !.pc = "report", !.tbox = tbox]
  <2>1. /\ job' \in JobRec /\ job'.i = job.i /\ job'.pkg = job.pkg /\ job'.was = job.was
        /\ job'.pc = "report" /\ job'.err = job.err /\ job'.tbox = tbox
    BY <1>2, <1>b DEF FotaTypes, JobRec
  <2>2. \A e \in EcusOf(job.pkg) : flash[e] = "tar"
    <3> SUFFICES ASSUME NEW e \in EcusOf(job.pkg) PROVE flash[e] = "tar" OBVIOUS
    <3>1. PICK k \in 1 .. Len(job.pkg) : e = job.pkg[k] BY DEF EcusOf
    <3>2. e # TBOX /\ k \in 1 .. job.i - 1 BY <1>2, <1>f DEF EcusOf
    <3> QED BY <1>2, <1>f, <3>1, <3>2 DEF FlashInv
  <2>3. AllOrNothing' BY <1>2, <1>f, <2>1, <2>2 DEF AllOrNothing, tbox
  <2>4. FlashInv' BY <1>f, <2>1, <2>3 DEF FlashInv
  <2> QED BY <1>f, <2>1, <2>4 DEF FlashStep, FotaTypes
<1> QED BY <1>1, <1>2 DEF fota_tbox_upgrade, tbox

\* One ECU of the rollback.
LEMMA FlashRollback == ASSUME FotaTypes, FlashInv, RollbackEcu PROVE FlashStep
<1> DEFINE e == job.pkg[job.i]
<1>f. /\ job.pkg \in Packs /\ job.pkg \in Seq(AnyEcu) /\ Len(job.pkg) \in Nat
      /\ job.i \in 1 .. Len(job.pkg) /\ job.pc = "rollback"
      /\ flash \in [Ecus -> FlashStates] /\ job.rback \in SUBSET Ecus
  BY JobFacts DEF RollbackEcu
<1>i. job.i + 1 \in Nat /\ job.i + 1 \in 1 .. 1 + Len(job.pkg) BY <1>f
<1>o. /\ \A x \in Ecus \ job.rback : flash[x] = job.was[x]
      /\ \A x \in job.rback : job.was[x] = "src"
      /\ job.rback \subseteq EcusOf(job.pkg) /\ job.err /\ ~job.tbox
      /\ ~job.rerr => \A k \in 1 .. job.i - 1 :
                         job.pkg[k] \in job.rback => flash[job.pkg[k]] = "src"
  BY <1>f DEF FlashInv
<1> HIDE DEF e
<1>1. ASSUME NEW r \in BOOLEAN, job' = [job EXCEPT !.i = @ + 1, !.rerr = r], job.rerr => r,
             flash' \in [Ecus -> FlashStates], \A x \in Ecus \ {e} : flash'[x] = flash[x],
             e \notin job.rback => UNCHANGED flash,
             e \in job.rback => r \/ flash'[e] = "src"
      PROVE  FlashStep
  <2>1. /\ job' \in JobRec /\ job'.i = job.i + 1 /\ job'.pkg = job.pkg /\ job'.was = job.was
        /\ job'.pc = "rollback" /\ job'.rback = job.rback /\ job'.err = job.err
        /\ job'.rerr = r /\ job'.tbox = job.tbox
    BY <1>1, <1>i, <1>f DEF FotaTypes, JobRec
  <2>2. ~r => \A k \in 1 .. job'.i - 1 : job.pkg[k] \in job.rback => flash'[job.pkg[k]] = "src"
    <3> SUFFICES ASSUME ~r, NEW k \in 1 .. job'.i - 1, job.pkg[k] \in job.rback
                 PROVE  flash'[job.pkg[k]] = "src"
      OBVIOUS
    <3>1. CASE job.pkg[k] = e BY <1>1, <3>1
    <3>2. CASE job.pkg[k] # e
      <4>1. k \in 1 .. job.i - 1 BY <2>1, <1>f, <3>2 DEF e
      <4>2. flash[job.pkg[k]] = "src" BY <1>1, <1>o, <4>1
      <4> QED BY <1>1, <1>f, <3>2, <4>2
    <3> QED BY <3>1, <3>2
  <2>3. \A x \in Ecus \ job.rback : flash'[x] = job.was[x] BY <1>1, <1>o
  <2>4. FlashInv' BY <1>o, <2>1, <2>2, <2>3 DEF FlashInv, AllOrNothing
  <2> QED BY <1>1, <1>i, <2>1, <2>4 DEF FlashStep
<1>2. job.rerr \in BOOLEAN /\ [job EXCEPT !.i = @ + 1] = [job EXCEPT !.i = @ + 1, !.rerr = job.rerr]
  BY DEF FotaTypes, JobRec
<1>3. CASE e \notin job.rback /\ job' = [job EXCEPT !.i = @ + 1] /\ UNCHANGED flash
  BY <1>1, <1>2, <1>3, <1>f
<1>4. ASSUME NEW f \in FlashStates, flash' = [flash EXCEPT ![e] = f]
      PROVE  flash' \in [Ecus -> FlashStates] /\ \A x \in Ecus \ {e} : flash'[x] = flash[x]
  BY <1>4, <1>f
<1>5. CASE e \in job.rback /\ job' = [job EXCEPT !.i = @ + 1] /\ flash' = [flash EXCEPT ![e] = "src"]
  <2>1. flash'[e] = "src" BY <1>5, <1>f
  <2>2. "src" \in FlashStates BY DEF FlashStates
  <2> QED BY <1>1, <1>2, <1>4, <1>5, <2>1, <2>2
<1>6. ASSUME e \in job.rback, job' = [[job EXCEPT !.i = @ + 1] EXCEPT !.rerr = TRUE],
             NEW f \in {flash[e], "mixed"}, flash' = [flash EXCEPT ![e] = f]
      PROVE  FlashStep
  <2>1. f \in FlashStates BY <1>6, <1>f DEF FlashStates
  <2>2. job' = [job EXCEPT !.i = @ + 1, !.rerr = TRUE] BY <1>6 DEF FotaTypes, JobRec
  <2> QED BY <1>1, <1>4, <1>6, <2>1, <2>2
<1> QED BY <1>3, <1>5, <1>6 DEF RollbackEcu, e

\* The end of the rollback: what was marked and has been restored holds what it held.
LEMMA FlashRolledBack ==
    ASSUME FotaTypes, FlashInv, hu_fota_upd_rollupd_reslut_state PROVE FlashStep
<1>f. /\ job.pkg \in Packs /\ job.pkg \in Seq(AnyEcu) /\ Len(job.pkg) \in Nat
      /\ job.i \in Nat /\ job.i > Len(job.pkg) /\ job.pc = "rollback" /\ UNCHANGED flash
      /\ flash \in [Ecus -> FlashStates] /\ job.was \in [Ecus -> FlashStates]
  BY JobFacts DEF hu_fota_upd_rollupd_reslut_state
<1>1. /\ job' \in JobRec /\ job'.i = job.i /\ job'.pkg = job.pkg /\ job'.was = job.was
      /\ job'.pc = "report" /\ job'.err = job.err /\ job'.rerr = job.rerr /\ job'.tbox = job.tbox
  BY <1>f DEF hu_fota_upd_rollupd_reslut_state, FotaTypes, JobRec
<1>2. ~job.rerr => \A e \in Ecus : flash[e] = job.was[e]
  <2> SUFFICES ASSUME ~job.rerr, NEW e \in job.rback PROVE flash[e] = job.was[e]
    BY <1>f DEF FlashInv
  <2>1. PICK k \in 1 .. Len(job.pkg) : e = job.pkg[k] BY <1>f DEF FlashInv, EcusOf
  <2>2. k \in 1 .. job.i - 1 BY <1>f
  <2> QED BY <1>f, <2>1, <2>2 DEF FlashInv
<1>3. ~job.rerr => flash = job.was BY <1>2, <1>f
<1>4. job.err /\ ~job.tbox BY <1>f DEF FlashInv
<1>5. FlashInv' BY <1>f, <1>1, <1>3, <1>4 DEF FlashInv, AllOrNothing
<1> QED BY <1>f, <1>1, <1>5 DEF FlashStep, FotaTypes

\* The end of fota_do_request: the thread waits for the next package.
LEMMA FlashReported == ASSUME FotaTypes, FlashInv, fota_do_request PROVE FlashStep
<1>1. [e \in Ecus |-> "src"] \in [Ecus -> FlashStates] BY DEF FlashStates
<1>2. flash' \in [Ecus -> FlashStates] BY DEF fota_do_request, FlashStates
<1>3. job' = Idle(job) BY DEF fota_do_request
<1>4. job' \in JobRec BY <1>1, <1>3 DEF Idle, FotaTypes, JobRec, Packs
<1>5. /\ job'.pc = "wait" /\ job'.pkg = <<>> /\ job'.i = 1 /\ ~job'.err /\ ~job'.rerr
      /\ job'.rback = {} /\ ~job'.tbox
  BY <1>3 DEF Idle, FotaTypes, JobRec
<1>6. FlashInv' BY <1>5 DEF FlashInv, AllOrNothing
<1>7. job'.i \in 1 .. 1 + Len(job'.pkg) BY <1>5
<1> QED BY <1>2, <1>4, <1>6, <1>7 DEF FlashStep

LEMMA FlashHandedOver == ASSUME FotaTypes, FlashInv, fota_main PROVE FlashStep
<1>0. UNCHANGED flash /\ job.inbox = 1 /\ job.pc = "wait" BY DEF fota_main, FotaTypes, JobRec
<1>1. CASE job' = [job EXCEPT !.inbox = @ - 1]
  <2>1. job' = [job EXCEPT !.inbox = 0] BY <1>0, <1>1
  <2> QED BY <1>0, <2>1, FlashFrame DEF FlashStep
<1>2. CASE job' = [job EXCEPT !.inbox = @ - 1, !.pc = "load"]
  <2>0. job' = [job EXCEPT !.inbox = 0, !.pc = "load"] BY <1>0, <1>2
  <2>1. job' \in JobRec
    <3>1. [job EXCEPT !.inbox = 0] \in JobRec BY 0 \in 0 .. 1 DEF FotaTypes, JobRec
    <3>2. [[job EXCEPT !.inbox = 0] EXCEPT !.pc = "load"] \in JobRec BY <3>1 DEF JobRec
    <3>3. job' = [[job EXCEPT !.inbox = 0] EXCEPT !.pc = "load"] BY <2>0 DEF FotaTypes, JobRec
    <3> QED BY <3>2, <3>3
  <2>2. /\ job'.pc = "load" /\ job'.pkg = job.pkg /\ job'.i = job.i /\ job'.err = job.err
        /\ job'.rerr = job.rerr /\ job'.rback = job.rback /\ job'.tbox = job.tbox
    BY <1>2 DEF FotaTypes, JobRec
  <2>3. FlashInv' BY <1>0, <2>2 DEF FlashInv, AllOrNothing
  <2> QED BY <1>0, <2>1, <2>2, <2>3 DEF FlashStep, FotaTypes
<1> QED BY <1>1, <1>2 DEF fota_main

LEMMA FlashAlways == ASSUME FotaInv, FotaNext PROVE FlashStep
<1> USE DEF FotaInv
<1>f. ASSUME UNCHANGED flash,
             \/ UNCHANGED job
             \/ \E n \in 0 .. 1 : job' = [job EXCEPT !.inbox = n]
             \/ \E b \in BOOLEAN : job' = [job EXCEPT !.sleep = b]
      PROVE  FlashStep
  BY <1>f, FlashFrame DEF FlashStep
\* a package is handed over when none is in work
<1>n. ASSUME Free, req.state # "UPGRADE", UNCHANGED flash, job' = [job EXCEPT !.inbox = @ + 1]
      PROVE  FlashStep
  <2>1. job.inbox = 0
    BY <1>n DEF FotaCtl, UpgradeInv, UpgradeIsAlone, FotaTypes, JobRec
  <2>2. job' = [job EXCEPT !.inbox = 1] BY <1>n, <2>1
  <2> QED BY <1>n, <1>f, <2>2
<1>1. ASSUME NEW next, DldFinished(next), Free, UNCHANGED flash PROVE FlashStep
  <2>1. CASE UNCHANGED job BY <1>1, <1>f, <2>1
  <2>2. CASE ~UNCHANGED job
    <3>1. req.state = "DOWNLOAD" /\ job' = [job EXCEPT !.inbox = @ + 1]
      BY <1>1, <2>2 DEF DldFinished
    <3> QED BY <1>1, <1>n, <3>1
  <2> QED BY <2>1, <2>2
<1>2. CASE HttpThread
  BY <1>1, <1>2, <1>f DEF HttpThread, HttpProcess, HttpFinish, HttpEnds, HttpDone
<1>3. CASE fota_upd_start
  <2>1. CASE UNCHANGED job BY <1>3, <1>f, <2>1 DEF fota_upd_start
  <2>2. CASE ~UNCHANGED job BY <1>3, <1>n, <2>2 DEF fota_upd_start
  <2> QED BY <2>1, <2>2
<1>4. ASSUME NEW mode \in BOOLEAN, fota_silent(mode) \/ FotaSleeps(mode) PROVE FlashStep
  BY <1>4, <1>f DEF fota_silent, FotaSleeps
<1>5. CASE \/ fota_new_request \/ hu_fota_dld_request_send \/ hu_fota_dld_confirm_recv
           \/ hu_fota_dld_restart_recv \/ HuDone \/ HuReports \/ Unlocks
           \/ SelfUpgraded \/ SelfUpgradeCb
  <2>1. UNCHANGED <<flash, job>>
    BY <1>5, Zenon DEF fota_new_request, hu_fota_dld_request_send, hu_fota_dld_confirm_recv,
        hu_fota_dld_restart_recv, HuDone, HuReports, Unlocks, SelfUpgraded, SelfUpgradeCb, HuThread,
        HuFinishSend, HuProcessSend, fota_dld_start, hu_fota_dld_refused, DownloadStarted,
        SilentUpgrade, UpgradeStarted
  <2> QED BY <1>f, <2>1
<1>6. CASE FotaJob
  BY <1>6, FlashHandedOver, FlashLoad, FlashExcute, FlashTbox, FlashRollback, FlashRolledBack,
     FlashReported
  DEF FotaJob
<1> QED BY <1>2, <1>3, <1>4, <1>5, <1>6 DEF FotaNext

LEMMA FotaInvInit == ASSUME FotaInit PROVE FotaInv
<1>1. FotaTypes /\ FotaCtl BY FotaInitInv
<1>2. FlashInv BY DEF FotaInit, FlashInv, AllOrNothing
<1> QED BY <1>1, <1>2 DEF FotaInv

\* FotaInv is inductive.
LEMMA FotaStep == ASSUME FotaInv, [FotaNext]_fotaVars PROVE FotaInv'
<1>1. CASE FotaNext
  <2>1. FotaCtl' BY <1>1, FotaCtlStep DEF FotaInv
  <2>2. FlashStep BY <1>1, FlashAlways
  <2>3. FotaTypes' BY <1>1, <2>2, ReqTypes DEF FotaInv, FotaTypes, FlashStep
  <2> QED BY <2>1, <2>2, <2>3 DEF FotaInv, FlashStep
<1>2. CASE UNCHANGED fotaVars
  <2>1. UNCHANGED <<req, lock, http, hu, apAsks, selfRep, job, flash>> BY <1>2 DEF fotaVars
  <2>2. FotaTypes' BY <2>1 DEF FotaInv, FotaTypes
  <2>3. FotaCtl' BY <2>1, CtlFrame DEF FotaInv
  <2>4. FlashInv' BY <2>1 DEF FotaInv, FlashInv, AllOrNothing
  <2> QED BY <2>2, <2>3, <2>4 DEF FotaInv
<1> QED BY <1>1, <1>2

LEMMA FotaInvHolds == FotaSpec => []FotaInv
<1>1. FotaInit => FotaInv BY FotaInvInit
<1>2. FotaInv /\ [FotaNext]_fotaVars => FotaInv' BY FotaStep
<1> QED BY <1>1, <1>2, PTL DEF FotaSpec

\* For any packages: while one is handed over or programmed the request stays in the
\* state UPGRADE, nothing cancels it, no download writes its file, and the HTTP client is
\* busy exactly while a download's thread lives, whatever the four threads interleave.
THEOREM AlwaysOneUpgrade == FotaSpec => []OneUpgrade
<1>1. FotaInv => OneUpgrade
  <2> SUFFICES ASSUME FotaInv PROVE OneUpgrade OBVIOUS
  <2>1. BusyWhileDownloading
    BY DEF FotaInv, FotaTypes, HttpType, FotaCtl, DownloadInv, Spawning, Free, BusyWhileDownloading
  <2>2. UpgradeIsAlone BY DEF FotaInv, FotaCtl, UpgradeInv
  <2>3. DOMAIN job = {"inbox", "pc", "sleep", "pkg", "i", "err", "rerr", "rback", "tbox", "self", "was"}
    BY DEF FotaInv, FotaTypes, JobRec
  <2>4. DOMAIN job = DOMAIN [inbox |-> 0, pc |-> 0, sleep |-> 0, pkg |-> 0, i |-> 0, err |-> 0,
                             rerr |-> 0, rback |-> 0, tbox |-> 0, self |-> 0, was |-> 0]
    BY <2>3
  <2>5. /\ job.inbox \in 0 .. 1 /\ job.pc \in {"wait", "load", "excute", "rollback", "report"}
        /\ job.pkg \in Packages \cup {<<>>} /\ job.rback \subseteq Ecus
        /\ job.sleep \in BOOLEAN /\ job.err \in BOOLEAN /\ job.rerr \in BOOLEAN
        /\ job.tbox \in BOOLEAN /\ job.self \in BOOLEAN
        /\ job.was \in [Ecus -> {"src", "tar", "mixed"}]
        /\ flash \in [Ecus -> {"src", "tar", "mixed"}]
    BY DEF FotaInv, FotaTypes, JobRec, Packs, FlashStates
  <2>6. {job.sleep, job.err, job.rerr, job.tbox, job.self} \subseteq BOOLEAN BY <2>5
  <2>7. {flash, job.was} \subseteq [Ecus -> {"src", "tar", "mixed"}] BY <2>5
  <2>8. FotaTypeOK BY <2>4, <2>5, <2>6, <2>7 DEF FotaInv, FotaTypes, FotaTypeOK
  <2> QED BY <2>1, <2>2, <2>8 DEF OneUpgrade
<1> QED BY <1>1, FotaInvHolds, PTL

\* For any packages, also with an ECU named twice: an upgrade that reports no error has
\* put the new version on every ECU, one that reports an error and no error of the
\* rollback has left every ECU with what it held, whichever step failed or was refused.
THEOREM AlwaysAllOrNothing == FotaSpec => []AllOrNothing
<1>1. FotaInv => AllOrNothing BY DEF FotaInv, FlashInv
<1> QED BY <1>1, FotaInvHolds, PTL
=============================================================================
