------------------------------- MODULE GbProt -------------------------------
(***************************************************************************)
(* The GB32960 client of app/interface/gb32960/gb32960_prot.c over the     *)
(* report pool of GbData and the socket of Sock: the state machine that    *)
(* connects, logs in, sends reports one per tick, logs out when the CAN    *)
(* bus goes quiet and then allows the terminal to sleep.                   *)
(*                                                                         *)
(* gb_main handles one message and then tries its handlers in order until  *)
(* one returns non-zero; gbpc is the handler it is about to try.  Four     *)
(* processes interleave with it: the CAN thread (GbData), the connect      *)
(* thread (Sock), the peer's TCP and the server.  A frame is its length in *)
(* abstract bytes, an answer of the server its kind.                       *)
(***************************************************************************)
EXTENDS Sock, GbData

CONSTANTS CtlLen,      \* length of a log-in or log-out frame
          RepLen,      \* length of a report
          RepRoom,     \* room gb_do_report asks for: sizeof(buf) + GB_SOCKET_RSVD
          MaxSeq,      \* the largest registration number: 65531
          FirstSeq,    \* the number restored at start, 0 if none was saved
          MaxInbox,    \* bound: messages waiting
          Quotas       \* bound: how often each event from outside may happen

\* messages of other threads, and what happens without a message
Messages == {"NETON", "NETOFF", "SUSPEND", "RESUME", "EMERGENCY", "RUNNING", "VIN"} \cup Addrs
Events   == Messages \cup {"CANON", "CANOFF", "RELOAD", "WARN", "NEWDAY", "BREAK"}

ASSUME ProtAssumption ==
    /\ CtlLen \in Lens /\ RepLen \in Lens
    /\ RepRoom \in Nat
    /\ MaxSeq \in Nat \ {0} /\ FirstSeq \in 0 .. MaxSeq
    /\ MaxInbox \in Nat
    /\ Quotas \subseteq [Events -> Nat]

VARIABLES
    gbpc,         \* the handler gb_main is about to try
    wait,         \* state.wait
    waited,       \* state.waittime # 0
    late,         \* the interval since state.waittime is over
    retry,        \* state.retry
    online,       \* state.online
    login,        \* state.login
    suspend, can, network,   \* state.suspend, state.can, state.network
    addr,         \* gb_addr, NoAddr when it is not configured
    allow_sleep,  \* gb_allow_sleep
    regseq,       \* gb_regseq
    today,        \* gb_regdate is today's date
    inbox,        \* messages for this module
    asked,        \* frames the server has not answered, by kind
    rx,           \* the answer in the socket's receive buffer
    quota,        \* events from outside that may still happen
    loginSeq,     \* history: the number in the last log-in frame
    sentp,        \* history: packs of the sync entries with a callback
    cleared,      \* history: a DBC reload emptied the trans list under sentp
    woke,         \* history: the bus woke while a log-out was unanswered
    moved         \* history: the address changed while connecting to the old one

linkVars == <<wait, waited, late, retry, online, asked, rx>>
confVars == <<suspend, can, network, addr>>
sessVars == <<login, allow_sleep>>
seqVars  == <<regseq, today, loginSeq>>
envVars  == <<inbox, quota>>
histVars == <<sentp, cleared, woke, moved>>
protVars == <<gbpc, linkVars, confVars, sessVars, seqVars, envVars, histVars>>
vars     == <<sockVars, dataVars, protVars>>

Answers == {"LOGIN_OK", "LOGIN_NO", "LOGOUT_OK", "LOGOUT_NO"}
NoAnswer == "none"
NothingAsked == [k \in {"LOGIN", "LOGOUT"} |-> 0]

ProtInit ==
    /\ gbpc = "msg"
    /\ wait = "none" /\ waited = FALSE /\ late = FALSE /\ retry = 0 /\ online = FALSE
    /\ login = FALSE /\ suspend = FALSE /\ can = FALSE /\ network = FALSE
    /\ addr \in Addrs \cup {NoAddr}
    /\ allow_sleep = TRUE
    /\ regseq = FirstSeq /\ today = (FirstSeq # 0)
    /\ inbox = <<>> /\ asked = NothingAsked /\ rx = NoAnswer
    /\ quota \in Quotas
    /\ loginSeq = 0 /\ sentp = <<>> /\ cleared = FALSE
    /\ woke = FALSE /\ moved = FALSE

Init == SockInit /\ DataInit /\ ProtInit

-----------------------------------------------------------------------------
(* gb_reset, and the two control frames.                                   *)

\* mutant: the session survives the connection
ResetKeepsOnline ==
    /\ sock_close
    /\ wait' = "none" /\ waited' = FALSE /\ late' = FALSE
    /\ retry' = 0
    /\ asked' = NothingAsked /\ rx' = NoAnswer
    /\ UNCHANGED online

\* mutant: the socket is marked closed under its connect thread
ResetForcesClosed ==
    /\ stat' = CLOSED
    /\ down' = FALSE /\ outq' = 0 /\ frag' = 0 /\ lag' = 0
    /\ wait' = "none" /\ waited' = FALSE /\ late' = FALSE
    /\ retry' = 0 /\ online' = FALSE
    /\ asked' = NothingAsked /\ rx' = NoAnswer
    /\ UNCHANGED <<peer, free, back, used, sendsz, conn>>

\* gb_reset closes the socket only if it is open; login and the rest are kept
gb_reset ==
    /\ sock_close
    /\ wait' = "none" /\ waited' = FALSE /\ late' = FALSE
    /\ retry' = 0 /\ online' = FALSE
    /\ asked' = NothingAsked /\ rx' = NoAnswer

\* gb_pack_login: the number restarts with the first log-in of a day
gb_pack_login ==
    /\ today' = TRUE
    /\ regseq' = IF today THEN regseq ELSE 1
    /\ loginSeq' = regseq'

\* mutant: the wrap is forgotten
LogoutSeqUnwrapped == regseq - 1

\* gb_pack_logout: the number the session's log-in carried
LogoutSeq == IF regseq = 1 THEN MaxSeq ELSE regseq - 1

\* a log-in was accepted
NextSeq == IF regseq + 1 > MaxSeq THEN 1 ELSE regseq + 1

\* the outcome of sending a control frame: an error resets the protocol, a
\* full sync list cancels the sending, otherwise the answer is awaited
SendControl(kind, n) ==
    \E res \in {-1, 0, CtlLen} :
        \/ /\ res = -1
           /\ gb_reset
        \/ /\ res = 0
           /\ sock_send(CtlLen, FALSE, res)
           /\ retry' = n
           /\ UNCHANGED <<wait, waited, late, online, asked, rx>>
        \/ /\ res = CtlLen
           /\ sock_send(CtlLen, FALSE, res)
           /\ wait' = kind /\ waited' = TRUE /\ late' = FALSE
           /\ retry' = n
           /\ asked' = [asked EXCEPT ![kind] = @ + 1]
           /\ UNCHANGED <<online, rx>>

-----------------------------------------------------------------------------
(* gb_main: the message, then the handlers.                                *)

\* GB_MSG_NETWORK
MsgNetwork(up) ==
    /\ IF network # up THEN gb_reset ELSE UNCHANGED <<sockVars, linkVars>>
    /\ network' = up
    /\ UNCHANGED <<dataVars, suspend, can, addr, sessVars, histVars>>

\* mutant: the bus wakes and sleeping stays allowed
CanOnMaySleep ==
    /\ can' = TRUE
    /\ woke' = (wait = "LOGOUT")
    /\ UNCHANGED <<sockVars, dataVars, linkVars, suspend, network, addr, sessVars,
                   sentp, cleared, moved>>

\* GB_MSG_CANON
MsgCanOn ==
    /\ can' = TRUE
    /\ allow_sleep' = FALSE
    /\ woke' = (wait = "LOGOUT")
    /\ UNCHANGED <<sockVars, dataVars, linkVars, suspend, network, addr, login, sentp, cleared, moved>>

\* GB_MSG_CANOFF
MsgCanOff ==
    /\ can' = FALSE
    /\ allow_sleep' = ~online
    /\ woke' = FALSE
    /\ UNCHANGED <<sockVars, dataVars, linkVars, suspend, network, addr, login, sentp, cleared, moved>>

\* GB_MSG_SUSPEND, GB_MSG_RESUME
MsgSuspend(on) ==
    /\ suspend' = on
    /\ gb_data_set_pendflag(on)
    /\ UNCHANGED <<sockVars, linkVars, can, network, addr, sessVars, histVars>>

\* PM_MSG_EMERGENCY; PM_MSG_RUNNING, PM_MSG_OFF
MsgEmergency(on) ==
    /\ gb_data_emergence(on)
    /\ UNCHANGED <<sockVars, linkVars, confVars, sessVars, histVars>>

\* GB_MSG_CONFIG: gb_do_config for a VIN, and for an address
MsgVin ==
    /\ gb_reset
    /\ UNCHANGED <<dataVars, confVars, sessVars, histVars>>

\* mutant: a new address does not end the session
MsgAddrNoReset(a) ==
    /\ addr' = a
    /\ moved' = (moved \/ stat = INPROG)
    /\ UNCHANGED <<sockVars, dataVars, linkVars, suspend, can, network, sessVars,
                   sentp, cleared, woke>>

MsgAddr(a) ==
    /\ addr' = a
    /\ gb_reset
    /\ moved' = (moved \/ stat = INPROG)
    /\ UNCHANGED <<dataVars, suspend, can, network, sessVars, sentp, cleared, woke>>

\* gb_do_config could not save the new value
MsgConfigFailed == UNCHANGED <<sockVars, dataVars, linkVars, confVars, sessVars, histVars>>

HandleMsg ==
    LET m == Head(inbox)
    IN  /\ gbpc = "msg" /\ inbox # <<>>
        /\ inbox' = Tail(inbox)
        /\ gbpc' = "check"
        /\ \/ m \in {"NETON", "NETOFF"} /\ MsgNetwork(m = "NETON")
           \/ m = "CANON" /\ MsgCanOn
           \/ m = "CANOFF" /\ MsgCanOff
           \/ m \in {"SUSPEND", "RESUME"} /\ MsgSuspend(m = "SUSPEND")
           \/ m \in {"EMERGENCY", "RUNNING"} /\ MsgEmergency(m = "EMERGENCY")
           \/ m = "VIN" /\ MsgVin
           \/ m \in Addrs /\ MsgAddr(m)
           \/ m \in {"VIN"} \cup Addrs /\ MsgConfigFailed
        /\ UNCHANGED <<seqVars, quota>>

\* the message has been handled, or 200 ms have brought none
AtCheck == gbpc = "check" \/ (gbpc = "msg" /\ inbox = <<>>)

\* gb_do_checksock without a usable link: no network, no address, asleep,
\* the socket closed or its connection in progress
CheckIdle ==
    /\ AtCheck
    /\ ~network \/ addr = NoAddr \/ allow_sleep \/ stat # OPENED
    /\ gbpc' = "msg"
    /\ UNCHANGED <<sockVars, dataVars, linkVars, confVars, sessVars, seqVars, envVars, histVars>>

CheckOpen ==
    /\ AtCheck /\ datlk # "can"
    /\ network /\ addr # NoAddr /\ ~allow_sleep
    /\ ~suspend /\ ~gb_data_noreport
    /\ sock_open(addr)
    /\ sentp' = <<>> /\ cleared' = FALSE /\ moved' = FALSE
    /\ gbpc' = "msg"
    /\ UNCHANGED <<dataVars, linkVars, confVars, sessVars, seqVars, envVars, woke>>

\* the socket is open: sock_error, then sock_sync with its callback
CheckLink ==
    /\ AtCheck
    /\ network /\ addr # NoAddr /\ ~allow_sleep
    /\ stat = OPENED
    /\ IF down
       THEN /\ gb_reset
            /\ gbpc' = "msg"
            /\ UNCHANGED <<dataVars, sentp>>
       ELSE /\ sock_sync
            /\ IF HeadAcked /\ Head(used).cb
               THEN gb_data_ack_pack /\ sentp' = Tail(sentp)
               ELSE UNCHANGED <<dataVars, sentp>>
            /\ gbpc' = "recv"
            /\ UNCHANGED linkVars
    /\ UNCHANGED <<confVars, sessVars, seqVars, envVars, cleared, woke, moved>>

\* gb_do_receive: the connection is broken
RecvError ==
    /\ gbpc = "recv" /\ down
    /\ gb_reset
    /\ gbpc' = "msg"
    /\ UNCHANGED <<dataVars, confVars, sessVars, seqVars, envVars, histVars>>

\* nothing to read: gb_do_wait passes when nothing is awaited, gb_do_login when
\* the session is open
RecvNothing ==
    /\ gbpc = "recv" /\ ~down /\ rx = NoAnswer
    /\ gbpc' = IF wait # "none" THEN "wait" ELSE IF online THEN "suspend" ELSE "login"
    /\ UNCHANGED <<sockVars, dataVars, linkVars, confVars, sessVars, seqVars, envVars, histVars>>

\* PROT_LOGIN: only while it is awaited.  The pool operations of an accepted
\* log-in are steps of their own.
RecvLogin ==
    /\ gbpc = "recv" /\ ~down /\ rx # NoAnswer
    /\ rx \in {"LOGIN_OK", "LOGIN_NO"}
    /\ rx' = NoAnswer
    /\ wait' = IF wait = "LOGIN" THEN "none" ELSE wait
    /\ late' = IF wait = "LOGIN" THEN FALSE ELSE late
    /\ IF wait = "LOGIN" /\ rx = "LOGIN_OK"
       THEN online' = TRUE /\ gbpc' = IF login THEN "resume" ELSE "fresh"
       ELSE UNCHANGED <<online, gbpc>>
    /\ UNCHANGED <<sockVars, dataVars, waited, retry, asked, confVars, sessVars, seqVars,
                   envVars, histVars>>

\* the terminal was logged in before: what was being sent is sent again
LoginResumeOne ==
    /\ gbpc = "resume"
    /\ FlushSendingOne
    /\ UNCHANGED <<sockVars, protVars>>

\* mutant: what was being sent stays on the trans list
LoginResumeKeepsTrans ==
    /\ gbpc = "resume"
    /\ gb_data_flush_realtm
    /\ regseq' = NextSeq
    /\ gbpc' = "recv"
    /\ UNCHANGED <<sockVars, linkVars, confVars, sessVars, today, loginSeq, envVars, histVars>>

LoginResume ==
    /\ gbpc = "resume" /\ lst["trans"] = <<>>
    /\ gb_data_flush_realtm
    /\ regseq' = NextSeq
    /\ gbpc' = "recv"
    /\ UNCHANGED <<sockVars, linkVars, confVars, sessVars, today, loginSeq, envVars, histVars>>

\* mutant: the pool is not cleared
LoginFreshKeepsPool ==
    /\ gbpc = "fresh"
    /\ gbpc' = "fresherr"
    /\ UNCHANGED <<sockVars, dataVars, linkVars, confVars, sessVars, seqVars, envVars, histVars>>

\* the first log-in since a log-out: the pool and the history start afresh
LoginFreshReport ==
    /\ gbpc = "fresh"
    /\ gb_data_clear_report
    /\ gbpc' = "fresherr"
    /\ UNCHANGED <<sockVars, linkVars, confVars, sessVars, seqVars, envVars, histVars>>

\* mutant: the history is cleared without its lock
LoginFreshUnlocked ==
    /\ gbpc = "fresherr"
    /\ err' = <<>>
    /\ login' = TRUE
    /\ regseq' = NextSeq
    /\ gbpc' = "recv"
    /\ UNCHANGED <<sockVars, lst, home, stamp, inited, datlk, hold, torn, canVars, flagVars,
                   linkVars, confVars, allow_sleep, today, loginSeq, envVars, histVars>>

LoginFreshError ==
    /\ gbpc = "fresherr"
    /\ gb_data_clear_error
    /\ login' = TRUE
    /\ regseq' = NextSeq
    /\ gbpc' = "recv"
    /\ UNCHANGED <<sockVars, linkVars, confVars, allow_sleep, today, loginSeq, envVars, histVars>>

\* PROT_LOGOUT: an accepted log-out ends the session and allows sleeping
RecvLogout ==
    /\ gbpc = "recv" /\ ~down /\ rx # NoAnswer
    /\ rx \in {"LOGOUT_OK", "LOGOUT_NO"}
    /\ IF wait = "LOGOUT" /\ rx = "LOGOUT_OK"
       THEN /\ gb_reset
            /\ login' = FALSE /\ allow_sleep' = TRUE
            /\ gbpc' = "msg"
       ELSE /\ rx' = NoAnswer
            /\ UNCHANGED <<sockVars, wait, waited, late, retry, online, asked, sessVars, gbpc>>
    /\ UNCHANGED <<dataVars, confVars, seqVars, envVars, histVars>>

\* gb_do_wait: the answer is not late yet
WaitOn ==
    /\ gbpc = "wait" /\ ~late
    /\ gbpc' = "msg"
    /\ UNCHANGED <<sockVars, dataVars, linkVars, confVars, sessVars, seqVars, envVars, histVars>>

WaitLogin ==
    /\ gbpc = "wait" /\ wait = "LOGIN" /\ late
    /\ gb_reset
    /\ gbpc' = "msg"
    /\ UNCHANGED <<dataVars, confVars, sessVars, seqVars, envVars, histVars>>

\* mutant: the log-out is sent again without end
WaitLogoutForever ==
    /\ gbpc = "wait" /\ wait = "LOGOUT" /\ late
    /\ SendControl("LOGOUT", retry) /\ UNCHANGED sessVars
    /\ gbpc' = "msg"
    /\ UNCHANGED <<dataVars, confVars, seqVars, envVars, histVars>>

\* mutant: one retry too many
WaitLogoutFour ==
    /\ gbpc = "wait" /\ wait = "LOGOUT" /\ late
    /\ IF retry + 1 > 4
       THEN gb_reset /\ login' = FALSE /\ allow_sleep' = TRUE
       ELSE SendControl("LOGOUT", retry + 1) /\ UNCHANGED sessVars
    /\ gbpc' = "msg"
    /\ UNCHANGED <<dataVars, confVars, seqVars, envVars, histVars>>

\* a log-out is sent again three times; then it counts as done
WaitLogout ==
    /\ gbpc = "wait" /\ wait = "LOGOUT" /\ late
    /\ IF retry + 1 > 3
       THEN gb_reset /\ login' = FALSE /\ allow_sleep' = TRUE
       ELSE SendControl("LOGOUT", retry + 1) /\ UNCHANGED sessVars
    /\ gbpc' = "msg"
    /\ UNCHANGED <<dataVars, confVars, seqVars, envVars, histVars>>

\* gb_do_login
gb_do_login ==
    /\ gbpc = "login"
    /\ IF ~waited \/ late
       THEN gb_pack_login /\ SendControl("LOGIN", retry)
       ELSE UNCHANGED <<sockVars, linkVars, seqVars>>
    /\ gbpc' = "msg"
    /\ UNCHANGED <<dataVars, confVars, sessVars, envVars, histVars>>

\* gb_do_suspend
gb_do_suspend ==
    /\ gbpc = "suspend" /\ datlk # "can"
    /\ IF suspend /\ gb_data_nosending
       THEN gb_reset /\ gbpc' = "msg"
       ELSE gbpc' = "report" /\ UNCHANGED <<sockVars, linkVars>>
    /\ UNCHANGED <<dataVars, confVars, sessVars, seqVars, envVars, histVars>>

\* gb_do_report takes a pack, then looks whether the socket has room for it
ReportTake ==
    /\ gbpc = "report"
    /\ gb_data_get_pack
    /\ gbpc' = "send"
    /\ UNCHANGED <<sockVars, linkVars, confVars, sessVars, seqVars, envVars, histVars>>

ReportNone ==
    /\ gbpc = "report" /\ datlk # "can"
    /\ gb_data_noreport
    /\ gbpc' = "logout"
    /\ UNCHANGED <<sockVars, dataVars, linkVars, confVars, sessVars, seqVars, envVars, histVars>>

\* no room: the pack is on no list any more
ReportNoRoom ==
    /\ gbpc = "send"
    /\ RepRoom > sock_bufsz
    /\ ForgetPack
    /\ gbpc' = "logout"
    /\ UNCHANGED <<sockVars, linkVars, confVars, sessVars, seqVars, envVars, histVars>>

ReportSend ==
    /\ gbpc = "send"
    /\ RepRoom <= sock_bufsz
    /\ \E res \in {-1, 0, RepLen} :
          \/ /\ res = -1
             /\ gb_data_put_back
             /\ gb_reset
             /\ gbpc' = "msg"
             /\ UNCHANGED sentp
          \/ /\ res = 0
             /\ sock_send(RepLen, TRUE, res)
             /\ gb_data_put_back
             /\ gbpc' = "logout"
             /\ UNCHANGED <<linkVars, sentp>>
          \/ /\ res = RepLen
             /\ sock_send(RepLen, TRUE, res)
             /\ gb_data_put_send
             /\ sentp' = Append(sentp, hold)
             /\ gbpc' = "logout"
             /\ UNCHANGED linkVars
    /\ UNCHANGED <<confVars, sessVars, seqVars, envVars, cleared, woke, moved>>

\* mutant: the log-out waits for the bus
LogoutWhileActive ==
    /\ gbpc = "logout" /\ datlk # "can"
    /\ IF can /\ gb_data_nosending
       THEN SendControl("LOGOUT", retry)
       ELSE UNCHANGED <<sockVars, linkVars>>
    /\ gbpc' = "msg"
    /\ UNCHANGED <<dataVars, confVars, sessVars, seqVars, envVars, histVars>>

\* gb_do_logout: the bus is quiet and every report sent has been acknowledged
gb_do_logout ==
    /\ gbpc = "logout" /\ datlk # "can"
    /\ IF ~can /\ gb_data_nosending
       THEN SendControl("LOGOUT", retry)
       ELSE UNCHANGED <<sockVars, linkVars>>
    /\ gbpc' = "msg"
    /\ UNCHANGED <<dataVars, confVars, sessVars, seqVars, envVars, histVars>>

GbThread ==
    \/ HandleMsg
    \/ CheckIdle \/ CheckOpen \/ CheckLink
    \/ RecvError \/ RecvNothing \/ RecvLogin \/ RecvLogout
    \/ LoginResumeOne \/ LoginResume \/ LoginFreshReport \/ LoginFreshError
    \/ WaitOn \/ WaitLogin \/ WaitLogout
    \/ gb_do_login \/ gb_do_suspend
    \/ ReportTake \/ ReportNone \/ ReportNoRoom \/ ReportSend
    \/ gb_do_logout

-----------------------------------------------------------------------------
(* The other processes.                                                    *)

\* one of the boundedly many events from outside
Event(e) == quota[e] > 0 /\ quota' = [quota EXCEPT ![e] = @ - 1]

Post(m) ==
    /\ Event(m)
    /\ Len(inbox) < MaxInbox
    /\ inbox' = Append(inbox, m)

\* gb_nm_callback, gb_shell_suspend, gb_set_addr and the like
PostMsg ==
    /\ \E m \in Messages : Post(m)
    /\ UNCHANGED <<sockVars, dataVars, gbpc, linkVars, confVars, sessVars, seqVars, histVars>>

\* gb_can_callback follows gb_data_can_cb on the CAN thread
CanOn ==
    /\ CanActive
    /\ Post("CANON")
    /\ UNCHANGED <<sockVars, gbpc, linkVars, confVars, sessVars, seqVars, histVars>>

CanOff ==
    /\ CanSleep
    /\ Post("CANOFF")
    /\ UNCHANGED <<sockVars, gbpc, linkVars, confVars, sessVars, seqVars, histVars>>

Reload ==
    /\ DbcFinished
    /\ Event("RELOAD")
    /\ cleared' = (cleared \/ sentp # <<>>)
    /\ UNCHANGED <<sockVars, gbpc, linkVars, confVars, sessVars, seqVars, inbox,
                   sentp, woke, moved>>

CanWork ==
    /\ PeriodicWarn \/ Periodic \/ SaveRealtm \/ FlushErrorCopy \/ FlushErrorSplice
    /\ UNCHANGED <<sockVars, protVars>>

CanStuck ==
    /\ BigError
    /\ UNCHANGED <<sockVars, protVars>>

Warn ==
    /\ Warning
    /\ Event("WARN")
    /\ UNCHANGED <<sockVars, gbpc, linkVars, confVars, sessVars, seqVars, inbox, histVars>>

Connect ==
    /\ sock_open_proc \/ sock_finish
    /\ UNCHANGED <<dataVars, protVars>>

\* the peer's TCP acknowledges
Ack ==
    /\ \E k \in 1 .. SndBuf : TcpAck(k)
    /\ UNCHANGED <<dataVars, protVars>>

Break ==
    /\ Event("BREAK")
    /\ TcpBreak
    /\ UNCHANGED <<dataVars, gbpc, linkVars, confVars, sessVars, seqVars, inbox, histVars>>

\* the server answers a frame it was sent, or refuses it; a second answer in
\* the receive buffer is one that arrives while gb_do_receive is at work
Answer ==
    /\ stat = OPENED /\ ~down /\ rx = NoAnswer
    /\ \E k \in {"LOGIN", "LOGOUT"} :
          /\ asked[k] > 0
          /\ asked' = [asked EXCEPT ![k] = @ - 1]
          /\ \E a \in (IF k = "LOGIN" THEN {"LOGIN_OK", "LOGIN_NO"}
                                     ELSE {"LOGOUT_OK", "LOGOUT_NO"}) : rx' = a
    /\ UNCHANGED <<sockVars, dataVars, gbpc, wait, waited, late, retry, online, confVars,
                   sessVars, seqVars, envVars, histVars>>

TimePasses ==
    /\ waited /\ ~late
    /\ late' = TRUE
    /\ UNCHANGED <<sockVars, dataVars, gbpc, wait, waited, retry, online, asked, rx, confVars,
                   sessVars, seqVars, envVars, histVars>>

NewDay ==
    /\ Event("NEWDAY")
    /\ today /\ today' = FALSE
    /\ UNCHANGED <<sockVars, dataVars, gbpc, linkVars, confVars, sessVars, regseq, loginSeq,
                   inbox, histVars>>

Env ==
    \/ PostMsg \/ CanOn \/ CanOff \/ Reload \/ CanWork \/ CanStuck \/ Warn
    \/ Connect \/ Ack \/ Break \/ Answer \/ TimePasses \/ NewDay

Next == ~torn /\ (GbThread \/ Env)

Spec == Init /\ [][Next]_vars

\* gb_main runs for ever, the CAN thread finishes the callback it is in, the
\* clock advances, and TCP either delivers or reports the connection broken.
Fairness ==
    /\ WF_vars(GbThread)
    /\ WF_vars(CanWork)
    /\ WF_vars(Connect)
    /\ WF_vars(Ack \/ Break)
    /\ WF_vars(TimePasses)

FairSpec == Spec /\ Fairness

-----------------------------------------------------------------------------
(* Properties.                                                             *)

\* The types of the protocol's state.
ProtTypeOK ==
    /\ gbpc \in {"msg", "check", "recv", "resume", "fresh", "fresherr", "wait", "login",
                 "suspend", "report", "send", "logout"}
    /\ wait \in {"none", "LOGIN", "LOGOUT"}
    /\ retry \in 0 .. 3
    /\ {waited, late, online, login, suspend, can, network, allow_sleep, today} \subseteq BOOLEAN
    /\ addr \in Addrs \cup {NoAddr}
    /\ regseq \in 0 .. MaxSeq /\ loginSeq \in 0 .. MaxSeq
    /\ asked \in [{"LOGIN", "LOGOUT"} -> 0 .. 4]
    /\ rx \in Answers \cup {NoAnswer}

\* A session stands on an open connection and on a log-in the server accepted
\* on that connection; no log-in is awaited while it lasts and only a session
\* can be waiting for a log-out.
SessionOnLink ==
    /\ online => stat = OPENED /\ wait # "LOGIN"
    /\ online => login \/ gbpc \in {"fresh", "fresherr"}
    /\ wait # "none" => stat = OPENED
    /\ wait = "LOGOUT" => online

\* The callback of a report's sync entry frees the pack that was sent with it:
\* the trans list and the callbacks still to come name the same packs in the
\* same order, across resets, reconnections and refused sends, unless a DBC
\* reload emptied the trans list under them.
ReportAcksMatch ==
    stat = OPENED /\ sentp # <<>> /\ ~cleared /\ ~torn => lst["trans"] = sentp

\* The terminal may sleep only when no session is open.
SleepEndsSession == allow_sleep => ~online

\* While the CAN bus is active the protocol keeps the terminal awake, except
\* after a log-out that was already under way when the bus woke.
AwakeWhileBusActive == allow_sleep /\ can => woke

\* A session is with the configured server: changing the address ends every
\* session with the old one, except when the change finds the connection to
\* the old server still in progress, which gb_reset does not cancel.
SessionWithServer == online => peer = addr \/ moved

\* The log-out frame carries the number of the log-in that opened the session,
\* also across the wrap of the number and the change of the day.
LogoutSeqMatches ==
    online /\ gbpc \notin {"resume", "fresh", "fresherr"} => LogoutSeq = loginSeq

\* The protocol thread works on the lists only after gb_data_clear_report has
\* initialised them, even if it logs in before any DBC file is loaded.
ListsReady ==
    gbpc \in {"resume", "fresherr", "suspend", "report", "send", "logout"} => inited

\* The protocol uses the pool as GbData lets its user: a pack it takes is sent,
\* put back or dropped before the next call, the lists are initialised before
\* it works on them, and no other call comes while a loop of gb_data_flush_sending
\* has the lock.  What holds of GbData therefore holds of the pool in use.
UsesPool == DataSpec

\* The protocol uses the socket as Sock lets its user: in particular a reset
\* while the connection is in progress leaves it in progress.
UsesSock == SockSpec

\* "it should not be happened": recording a report always finds a buffer.
NoBigError == canpc # "stuck"

\* A log-out comes to an end: the server answers it, the retries run out or the
\* link is reset.
LogoutEnds == wait = "LOGOUT" ~> wait = "none"

\* When the bus is quiet, a session ends; then the terminal may sleep or has
\* lost the link.
QuietSessionEnds == online /\ ~can ~> ~online \/ can

\* A session is one of this link, with this server and with the report lists set up:
\* no reconnection, change of address or late answer leaves it behind.
SessionSound == ProtTypeOK /\ SessionOnLink /\ SessionWithServer /\ ListsReady

\* The terminal is allowed to sleep neither in a session nor on an active bus.
SleepIsSafe == SleepEndsSession /\ AwakeWhileBusActive

\* A log-out comes to an end, and when the bus is quiet a session does: neither lost
\* answers nor resets of the link keep the terminal awake for ever.
QuietEnds == LogoutEnds /\ QuietSessionEnds
=============================================================================
