------------------------------- MODULE Foton -------------------------------
(***************************************************************************)
(* The Foton client (app/interface/foton/foton_prot.c): session with the   *)
(* server, wake-up timer and the permission to sleep.                      *)
(*                                                                         *)
(* The thread handles a message, if there is one, and then runs down the   *)
(* chain checksock, receive, wait, login, suspend, report, hbeat, logout   *)
(* until one of them ends the round (ftPc).  CAN thread, socket thread and *)
(* server act between these steps.  Time is left open: whatever waits for  *)
(* a timeout may find it over or not.  The chain of gb32960_prot.c is      *)
(* another one: there the bus, here a three-minute timer ends a session.   *)
(***************************************************************************)
EXTENDS Integers

CONSTANTS FtMaxRetry,  \* log-outs sent again (3 in ft_do_wait)
          FtMayChange  \* bound: which of "net", "suspend", "can", "kl15", "break",
                       \* "upgrade" may change

ASSUME FtAssumption == FtMaxRetry \in Nat

VARIABLES
    ftPc,        \* where the thread is: "msg", "sock", "recv", "rest", "tail"
    ftLink,      \* sock_status, and whether an open link is broken
    ftWait,      \* state.wait
    ftRetry,     \* state.retry
    ftOnline,    \* state.online
    ftNet,       \* state.network
    ftCan,       \* state.can
    kl15,        \* ST_ITEM_KL15_SIG
    ftSuspend,   \* state.suspend
    ftAllowSleep,\* ft_allow_sleep
    ftMayLogin,  \* ft_is_allow_login: FALSE asks for the log-out
    wakeTimer,   \* ft_wakeup_timer runs
    ftData,      \* a report waits to be sent
    ftTrans,     \* ft_trans_lst is not empty
    ftFrame,     \* received and not yet handled
    ftAsked,     \* what the server has not yet answered
    downloading  \* an FTP transfer of an update is under way

ftVars == <<ftPc, ftLink, ftWait, ftRetry, ftOnline, ftNet, ftCan, kl15, ftSuspend,
            ftAllowSleep, ftMayLogin, wakeTimer, ftData, ftTrans, ftFrame, ftAsked,
            downloading>>

\* what the chain leaves alone
ftOutside == <<ftNet, ftCan, kl15, ftSuspend>>
session   == <<ftLink, ftWait, ftRetry, ftOnline, ftFrame, ftAsked>>
sleeping  == <<ftAllowSleep, ftMayLogin, wakeTimer>>
reports   == <<ftData, ftTrans>>

\* ft_main has loaded the wake-up timer
FtInit ==
    /\ ftPc = "msg" /\ ftLink = "CLOSED" /\ ftWait = "none" /\ ftRetry = 0
    /\ ftOnline = FALSE /\ ftNet = FALSE /\ ftCan = FALSE /\ kl15 = FALSE
    /\ ftSuspend = FALSE
    /\ ftAllowSleep = FALSE /\ ftMayLogin = FALSE /\ wakeTimer = TRUE
    /\ ftData = FALSE /\ ftTrans = FALSE
    /\ ftFrame = "none" /\ ftAsked = "none" /\ downloading = FALSE

-----------------------------------------------------------------------------
\* sock_close leaves a connection in progress alone, and takes with an open link what
\* the socket had received
AfterClose == IF ftLink = "OPENING" THEN "OPENING" ELSE "CLOSED"

ft_reset ==
    /\ ftLink' = AfterClose /\ ftWait' = "none" /\ ftRetry' = 0 /\ ftOnline' = FALSE
    /\ ftFrame' = "none" /\ ftAsked' = "none"

reload_wakeup_tm == ftAllowSleep' = FALSE /\ wakeTimer' = TRUE

\* results of sock_send: a broken link may not have been noticed yet, and a list
\* of frames without acknowledgement may be full
SendResults == (IF ftLink = "BROKEN" THEN {"failed"} ELSE {}) \cup {"sent"}
                   \cup (IF ftTrans THEN {"full"} ELSE {})

\* The request r is sent; the session waits for its answer.
SendRequest(r, res) ==
    /\ res \in SendResults
    /\ CASE res = "failed" -> ft_reset
         [] res = "full" -> UNCHANGED session
         [] res = "sent" -> /\ ftWait' = r /\ ftAsked' = r
                            /\ UNCHANGED <<ftLink, ftRetry, ftOnline, ftFrame>>

Ends == ftPc' = "msg"

-----------------------------------------------------------------------------
\* mutant: an online terminal sleeps at once
WakeupTimeout_online ==
    /\ wakeTimer
    /\ IF kl15 \/ ftCan THEN reload_wakeup_tm /\ UNCHANGED ftMayLogin
       ELSE /\ wakeTimer' = FALSE
            /\ ftAllowSleep' = TRUE /\ UNCHANGED ftMayLogin
    /\ UNCHANGED <<session, ftOutside, reports, downloading>>

\* mutant: the timer is not loaded again while the bus is active
WakeupTimeout_once ==
    /\ wakeTimer
    /\ wakeTimer' = FALSE
    /\ ftMayLogin' = (ftMayLogin /\ (kl15 \/ ftCan \/ ~ftOnline))
    /\ ftAllowSleep' = (ftAllowSleep \/ ~(kl15 \/ ftCan \/ ftOnline))
    /\ UNCHANGED <<session, ftOutside, reports, downloading>>

\* FT_MSG_WAKEUP_TIMEOUT.  ft_ftp_evt is set to 0, FTP_FINISH, in every round and
\* changed only by an FTP message, which is another round's: it is always finished.
WakeupTimeout ==
    /\ wakeTimer
    /\ IF kl15 \/ ftCan THEN reload_wakeup_tm /\ UNCHANGED ftMayLogin
       ELSE /\ wakeTimer' = FALSE
            /\ IF ftOnline THEN ftMayLogin' = FALSE /\ UNCHANGED ftAllowSleep
               ELSE ftAllowSleep' = TRUE /\ UNCHANGED ftMayLogin
    /\ UNCHANGED <<session, ftOutside, reports, downloading>>

CanOn ==
    /\ "can" \in FtMayChange
    /\ ftCan' = TRUE /\ ftMayLogin' = TRUE
    /\ reload_wakeup_tm
    /\ UNCHANGED <<session, ftNet, kl15, ftSuspend, reports, downloading>>

CanOff ==
    /\ "can" \in FtMayChange
    /\ ftCan' = FALSE
    /\ UNCHANGED <<session, ftNet, kl15, ftSuspend, sleeping, reports, downloading>>

\* mutant: the session is kept over a change of the network
Network_keeps ==
    /\ "net" \in FtMayChange \/ ~ftNet
    /\ ftNet' = ~ftNet
    /\ ftLink' = AfterClose /\ ftFrame' = "none" /\ ftAsked' = "none"
    /\ UNCHANGED <<ftWait, ftRetry, ftOnline, ftCan, kl15, ftSuspend, sleeping, reports, downloading>>

\* FT_MSG_NETWORK with another value than state.network
Network ==
    /\ "net" \in FtMayChange \/ ~ftNet
    /\ ftNet' = ~ftNet /\ ft_reset
    /\ UNCHANGED <<ftCan, kl15, ftSuspend, sleeping, reports, downloading>>

Suspend ==
    /\ "suspend" \in FtMayChange
    /\ ftSuspend' = ~ftSuspend
    /\ UNCHANGED <<session, ftNet, ftCan, kl15, sleeping, reports, downloading>>

\* PM_MSG_RUNNING, AT_MSG_ID_RING, FTP_ERROR; the last ends the transfer
Reload(ftpError) ==
    /\ reload_wakeup_tm
    /\ ftpError => downloading
    /\ downloading' = (downloading /\ ~ftpError)
    /\ UNCHANGED <<ftMayLogin, session, ftOutside, reports>>

FtpFinish ==
    /\ downloading /\ downloading' = FALSE
    /\ UNCHANGED <<session, ftOutside, sleeping, reports>>

\* a new server address or VIN
ft_do_config == ft_reset /\ UNCHANGED <<ftOutside, sleeping, reports, downloading>>

\* no message, or one that changes nothing here
NoMessage == UNCHANGED <<session, ftOutside, sleeping, reports, downloading>>

FtMessage ==
    /\ ftPc = "msg" /\ ftPc' = "sock"
    /\ \/ CanOn \/ CanOff \/ Network \/ Suspend \/ FtpFinish \/ ft_do_config
       \/ WakeupTimeout \/ NoMessage
       \/ \E e \in BOOLEAN : Reload(e)

-----------------------------------------------------------------------------
\* sock_sync runs the callbacks of what the server has acknowledged
ft_do_checksock ==
    /\ ftPc = "sock"
    /\ \/ /\ ~ftNet \/ ftAllowSleep \/ ftLink = "OPENING"
          /\ Ends /\ UNCHANGED <<session, reports>>
       \/ /\ ftNet /\ ~ftAllowSleep /\ ftLink = "CLOSED"
          /\ \/ ~ftSuspend /\ ftLink' = "OPENING" \* later, when the last attempt is recent
             \/ UNCHANGED ftLink
          /\ Ends
          /\ UNCHANGED <<ftWait, ftRetry, ftOnline, ftFrame, ftAsked, reports>>
       \/ /\ ftNet /\ ~ftAllowSleep /\ ftLink = "BROKEN"
          /\ \/ ft_reset /\ Ends
             \/ UNCHANGED session /\ ftPc' = "recv"  \* not yet noticed
          /\ UNCHANGED reports
       \/ /\ ftNet /\ ~ftAllowSleep /\ ftLink = "OPENED"
          /\ ftPc' = "recv"
          /\ ftTrans' \in {FALSE, ftTrans}
          /\ UNCHANGED <<session, ftData>>
    /\ UNCHANGED <<ftOutside, sleeping, downloading>>

\* mutant: the new session does not load the timer
LoginAck_notimer(ok) ==
    IF ftWait # "LOGIN" THEN UNCHANGED <<ftWait, ftOnline, sleeping, reports>>
    ELSE /\ ftWait' = "none"
         /\ IF ok
            THEN /\ ftOnline' = TRUE
                 /\ ftData' = (ftData \/ ftTrans) /\ ftTrans' = FALSE
                 /\ ftMayLogin' = TRUE /\ UNCHANGED <<ftAllowSleep, wakeTimer>>
            ELSE UNCHANGED <<ftOnline, sleeping, reports>>

LoginAck(ok) ==
    IF ftWait # "LOGIN" THEN UNCHANGED <<ftWait, ftOnline, sleeping, reports>>
    ELSE /\ ftWait' = "none"
         /\ IF ok
            THEN /\ ftOnline' = TRUE
                 /\ ftData' = (ftData \/ ftTrans) /\ ftTrans' = FALSE
                 /\ reload_wakeup_tm /\ ftMayLogin' = TRUE
            ELSE UNCHANGED <<ftOnline, sleeping, reports>>

\* the upgrade command, accepted or refused
ft_handle_control(accepted, res) ==
    /\ res \in SendResults
    /\ downloading' = (downloading \/ accepted)
    /\ reload_wakeup_tm
    /\ IF res = "failed" THEN ft_reset /\ Ends
       ELSE ftFrame' = "none" /\ ftPc' = "rest" /\ UNCHANGED <<ftLink, ftWait, ftRetry, ftOnline, ftAsked>>
    /\ UNCHANGED <<ftMayLogin, reports>>

LogoutAck(ok) ==
    IF ftWait = "LOGOUT" /\ ok
    THEN /\ ft_reset /\ Ends /\ ftAllowSleep' = TRUE
         /\ UNCHANGED <<ftMayLogin, wakeTimer>>
    ELSE /\ ftFrame' = "none" /\ ftPc' = "rest"
         /\ UNCHANGED <<ftLink, ftWait, ftRetry, ftOnline, ftAsked, sleeping>>

\* one frame in a round: what follows it in the same chunk finds the same session as
\* in the next round, but for the round's own requests; a query or set-up is a control that starts nothing
ft_do_receive ==
    /\ ftPc = "recv"
    /\ \/ /\ ftFrame \in {"LOGIN_OK", "LOGIN_NO"}
          /\ LoginAck(ftFrame = "LOGIN_OK") /\ ftFrame' = "none" /\ ftPc' = "rest"
          /\ UNCHANGED <<ftLink, ftRetry, ftAsked, downloading>>
       \/ /\ ftFrame \in {"LOGOUT_OK", "LOGOUT_NO"}
          /\ LogoutAck(ftFrame = "LOGOUT_OK")
          /\ UNCHANGED <<reports, downloading>>
       \/ /\ ftFrame = "UPGRADE"
          /\ \E a \in BOOLEAN, res \in {"sent", "full", "failed"} : ft_handle_control(a, res)
       \/ /\ ftFrame = "none" /\ ftPc' = "rest"
          /\ UNCHANGED <<session, sleeping, reports, downloading>>
       \/ /\ ftLink = "BROKEN" /\ ft_reset /\ Ends
          /\ UNCHANGED <<sleeping, reports, downloading>>
    /\ UNCHANGED ftOutside

-----------------------------------------------------------------------------
\* mutant: one too many
LastTry_late == ftRetry > FtMaxRetry

LastTry == ftRetry >= FtMaxRetry

\* the last log-out has not been answered
GiveUp ==
    /\ ft_reset /\ ftAllowSleep' = TRUE
    /\ UNCHANGED <<ftMayLogin, wakeTimer>>

\* a log-out that is sent again is still waited for, also when the list is full
Resend(res) ==
    /\ res \in SendResults
    /\ IF res = "failed" THEN ft_reset
       ELSE /\ ftRetry' = ftRetry + 1
            /\ ftAsked' = IF res = "sent" THEN "LOGOUT" ELSE ftAsked
            /\ UNCHANGED <<ftLink, ftWait, ftOnline, ftFrame>>
    /\ UNCHANGED sleeping

ft_do_wait(late, res) ==
    /\ ftPc = "rest" /\ ftWait # "none"
    /\ \/ ~late /\ res = "sent" /\ UNCHANGED <<session, sleeping>>
       \/ late /\ ftWait = "LOGIN" /\ res = "sent" /\ ft_reset /\ UNCHANGED sleeping
       \/ late /\ ftWait = "LOGOUT" /\ LastTry /\ res = "sent" /\ GiveUp
       \/ late /\ ftWait = "LOGOUT" /\ ~LastTry /\ Resend(res)
    /\ Ends
    /\ UNCHANGED <<ftOutside, reports, downloading>>

ft_do_login(due, res) ==
    /\ ftPc = "rest" /\ ftWait = "none" /\ ~ftOnline
    /\ IF due THEN SendRequest("LOGIN", res) ELSE res = "sent" /\ UNCHANGED session
    /\ Ends
    /\ UNCHANGED <<ftOutside, sleeping, reports, downloading>>

ft_do_suspend ==
    /\ ftPc = "rest" /\ ftWait = "none" /\ ftOnline
    /\ ftSuspend /\ ~ftTrans
    /\ ft_reset /\ Ends
    /\ UNCHANGED <<ftOutside, sleeping, reports, downloading>>

\* a report for which the socket has no room left is taken from its list and lost
ft_do_report(res) ==
    /\ ftPc = "rest" /\ ftWait = "none" /\ ftOnline
    /\ ~(ftSuspend /\ ~ftTrans)
    /\ CASE ~ftData -> res = "sent" /\ ftPc' = "tail" /\ UNCHANGED <<session, reports>>
         [] ftData /\ res = "noroom" -> /\ ftPc' = "tail" /\ ftData' = FALSE
                                        /\ UNCHANGED <<session, ftTrans>>
         [] ftData /\ res = "failed" -> /\ res \in SendResults /\ ft_reset /\ Ends
                                        /\ UNCHANGED reports
         [] ftData /\ res = "full" -> /\ res \in SendResults /\ ftPc' = "tail"
                                      /\ UNCHANGED <<session, reports>>
         [] OTHER -> /\ ftPc' = "tail" /\ ftData' = FALSE /\ ftTrans' = TRUE
                     /\ UNCHANGED session
    /\ UNCHANGED <<ftOutside, sleeping, downloading>>

\* A heartbeat that cannot be sent resets, and then so does the log-out.
ft_do_hbeat ==
    /\ ftPc = "tail" /\ Ends
    /\ \/ ftLink = "BROKEN" /\ ft_reset
       \/ UNCHANGED session
    /\ UNCHANGED <<ftOutside, sleeping, reports, downloading>>

\* due: five seconds since the bus went quiet
ft_do_logout(res) ==
    /\ ftPc = "tail" /\ ~ftMayLogin /\ ~ftTrans
    /\ SendRequest("LOGOUT", res) /\ Ends
    /\ UNCHANGED <<ftOutside, sleeping, reports, downloading>>

FtThread ==
    \/ FtMessage \/ ft_do_checksock \/ ft_do_receive \/ ft_do_suspend \/ ft_do_hbeat
    \/ \E res \in {"sent", "full", "failed", "noroom"} :
         \/ ft_do_report(res) \/ ft_do_logout(res)
         \/ \E due \in BOOLEAN : ft_do_wait(due, res) \/ ft_do_login(due, res)

-----------------------------------------------------------------------------
\* the socket's connect thread
FtConnect(ok) ==
    /\ ftLink = "OPENING"
    /\ ftLink' = IF ok THEN "OPENED" ELSE "CLOSED"
    /\ UNCHANGED <<ftPc, ftWait, ftRetry, ftOnline, ftFrame, ftAsked, ftOutside, sleeping,
                   reports, downloading>>

FtBreak ==
    /\ "break" \in FtMayChange
    /\ ftLink = "OPENED" /\ ftLink' = "BROKEN"
    /\ UNCHANGED <<ftPc, ftWait, ftRetry, ftOnline, ftFrame, ftAsked, ftOutside, sleeping,
                   reports, downloading>>

\* a request repeated before its answer is answered once
ServerAnswers(ok) ==
    /\ ftLink = "OPENED" /\ ftAsked # "none" /\ ftFrame = "none"
    /\ ftFrame' = IF ftAsked = "LOGIN" THEN IF ok THEN "LOGIN_OK" ELSE "LOGIN_NO"
                  ELSE IF ok THEN "LOGOUT_OK" ELSE "LOGOUT_NO"
    /\ ftAsked' = "none"
    /\ UNCHANGED <<ftPc, ftLink, ftWait, ftRetry, ftOnline, ftOutside, sleeping, reports,
                   downloading>>

ServerCommands ==
    /\ "upgrade" \in FtMayChange
    /\ ftLink = "OPENED" /\ ftOnline /\ ftFrame = "none"
    /\ ftFrame' = "UPGRADE"
    /\ UNCHANGED <<ftPc, ftLink, ftWait, ftRetry, ftOnline, ftAsked, ftOutside, sleeping,
                   reports, downloading>>

\* CAN_EVENT_DATAIN: every hundredth message, with KL15 on or while charging
ft_data_can_cb ==
    /\ ftCan
    /\ ftAllowSleep' = FALSE /\ ftData' = TRUE
    /\ UNCHANGED <<ftPc, session, ftOutside, ftMayLogin, wakeTimer, ftTrans, downloading>>

Ignition ==
    /\ "kl15" \in FtMayChange
    /\ kl15' = ~kl15
    /\ UNCHANGED <<ftPc, session, ftNet, ftCan, ftSuspend, sleeping, reports, downloading>>

FtNext ==
    \/ FtThread \/ FtBreak \/ ServerCommands \/ ft_data_can_cb \/ Ignition
    \/ \E ok \in BOOLEAN : FtConnect(ok) \/ ServerAnswers(ok)

\* Time passes: a timeout of the server, the next attempt to connect or to log in,
\* the five seconds before a log-out, the acknowledgement of a report all come,
\* and a full list does not keep a request from being sent for ever.
FtDue ==
    \/ \E res \in {"sent", "failed"} :
         ft_do_wait(TRUE, res) \/ ft_do_login(TRUE, res) \/ ft_do_logout(res)
    \/ ft_do_checksock /\ ftLink = "CLOSED" /\ ftLink' = "OPENING"
    \/ ft_do_checksock /\ ftTrans /\ ~ftTrans'

\* three minutes without a reload
FtWakes == FtMessage /\ WakeupTimeout

\* the server consents, and in time
FtAnswered == ServerAnswers(TRUE) /\ ftPc # "rest"

FtFairness ==
    /\ WF_ftVars(FtThread)
    /\ SF_ftVars(FtDue) /\ SF_ftVars(FtWakes)
    /\ SF_ftVars(FtConnect(TRUE)) /\ SF_ftVars(FtAnswered)

FtSpec == FtInit /\ [][FtNext]_ftVars /\ FtFairness

-----------------------------------------------------------------------------
FtTypeOK ==
    /\ ftPc \in {"msg", "sock", "recv", "rest", "tail"}
    /\ ftLink \in {"CLOSED", "OPENING", "OPENED", "BROKEN"}
    /\ ftWait \in {"none", "LOGIN", "LOGOUT"} /\ ftAsked \in {"none", "LOGIN", "LOGOUT"}
    /\ ftRetry \in 0 .. FtMaxRetry
    /\ ftFrame \in {"none", "LOGIN_OK", "LOGIN_NO", "LOGOUT_OK", "LOGOUT_NO", "UPGRADE"}
    /\ {ftOnline, ftNet, ftCan, kl15, ftSuspend, ftAllowSleep, ftMayLogin, wakeTimer,
        ftData, ftTrans, downloading} \subseteq BOOLEAN

\* A session, and the request it waits for, live on a link that is there: whoever
\* closes the link, the other steps of the round do not carry its session on.
FtSessionOnLink ==
    /\ ftOnline \/ ftWait # "none" => ftLink \in {"OPENED", "BROKEN"}
    /\ ftWait = "LOGIN" => ~ftOnline
    /\ ftWait = "LOGOUT" => ftOnline

\* Nobody sleeps in a session: the server sees a log-out, or an end of the link.
FtSleepOffline == ftAllowSleep => ~ftOnline

\* With bus and ignition off and a server that can be reached, not reconfigured
\* for ever, the terminal logs out and may sleep, again after every time it was woken,
\* although every new session starts the three minutes anew.
FtSleepsInTheEnd ==
    /\ <>[](~ftCan /\ ~kl15 /\ ftNet /\ ~ftSuspend /\ ftLink # "BROKEN")
    /\ <>[][ftPc = "msg" /\ ftLink # "CLOSED" => ftLink' # "CLOSED"]_ftVars
    => []<>ftAllowSleep

\* On an active bus the terminal stays awake in the end: a log-out that was under
\* way may still allow it to sleep, but the timer takes that back.
FtAwakeOnBus == <>[]ftCan => <>[]~ftAllowSleep

\* A session is one of this link, with its outstanding request, and ends before the
\* terminal may sleep.
FtSessionSound == FtTypeOK /\ FtSessionOnLink /\ FtSleepOffline

\* The terminal sleeps in the end when vehicle and server let it, and stays awake in the
\* end while the bus is active.
FtProgress == FtSleepsInTheEnd /\ FtAwakeOnBus

\* Log-out and sleep wait for the end of an update.
UpdateKeepsOnline ==
    [][ftMayLogin /\ ~ftMayLogin' => ~downloading]_ftVars
=============================================================================
