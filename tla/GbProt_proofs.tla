---------------------------- MODULE GbProt_proofs ----------------------------
(* Proofs about GbProt: the protocol uses the socket and the report pool as  *)
(* Sock and GbData allow, so what is proved of them holds of the whole; a    *)
(* session is sound; sleeping is safe; a log-out carries the number of its   *)
(* log-in; the callbacks of the socket free the packs that were sent.        *)
EXTENDS GbProt, Sock_proofs, GbData_proofs

\* gb_main between the answer to a log-in and the end of its handling, and in the
\* handlers it tries only while logged in.
AfterLogin == {"resume", "fresh", "fresherr"}
InSession  == {"suspend", "report", "send", "logout"}

\* What gb_main knows of the session at the handler it is about to try.
Session ==
    /\ online => stat = OPENED
    /\ wait # "none" => stat = OPENED
    /\ wait = "LOGIN" => ~online
    /\ wait = "LOGOUT" => online
    /\ online => login \/ gbpc \in {"fresh", "fresherr"}
    /\ login => inited
    /\ gbpc = "fresherr" => inited
    /\ gbpc \in AfterLogin \cup InSession => online /\ wait = "none"
    /\ gbpc = "resume" => login
    /\ gbpc = "login" => ~online /\ wait = "none"

\* gb_do_report alone holds a pack, gb_data_flush_sending alone the mutex.
PoolUse ==
    /\ gbpc = "send" <=> hold # NoPack
    /\ datlk = "gb" => gbpc = "resume"

\* The entries of the list u with a callback.
CbPlaces(u) == {i \in 1 .. Len(u) : u[i].cb}

\* A callback is to come for every pack sent on this connection, and the trans list
\* holds these packs from the end of the log-in on.
Callbacks ==
    /\ sentp \in Seq(Packs)
    /\ sentp # <<>> => inited
    /\ stat # CLOSED => Len(sentp) = Cardinality(CbPlaces(used))
    /\ stat # CLOSED /\ ~online => sentp = <<>>
    /\ gbpc \in {"resume", "fresh"} => sentp = <<>>

TransIsSent ==
    stat = OPENED /\ ~cleared /\ ~torn
        /\ (sentp # <<>> \/ (online /\ gbpc \notin {"resume", "fresh"}))
    => lst["trans"] = sentp

\* The part of the invariant on which the other parts rest.
CoreInv ==
    /\ SockInv /\ frag = 0
    /\ OrderInv
    /\ addr \in Addrs \cup {NoAddr}
    /\ Session /\ PoolUse /\ Callbacks /\ TransIsSent

-----------------------------------------------------------------------------
(* Every step is a step of the socket and its user, or none of theirs.      *)

\* gb_reset is a call of sock_close.
LEMMA ResetIsClose == gb_reset => SockUser
  BY DEF gb_reset, SockUser

\* A frame is abandoned half-way only by an error, on which the connection is closed: none
\* stays in the stream.
LEMMA SendIsUser ==
    ASSUME frag = 0, NEW len \in Lens, NEW cb \in BOOLEAN, NEW res \in {0, len},
           sock_send(len, cb, res)
    PROVE  SockUser /\ frag' = 0
  <1>1. len \in Nat \ {0} /\ MaxFrag \in Nat
    BY SockAssumption
  <1>2. frag' = 0
    BY <1>1 DEF sock_send, sockVars, SendWhole
  <1>3. frag' <= MaxFrag /\ res \in {-1, 0, len}
    BY <1>1, <1>2
  <1>4. \E r \in {-1, 0, len} : sock_send(len, cb, r) /\ frag' <= MaxFrag
    BY <1>3
  <1> QED BY <1>2, <1>4 DEF SockUser

LEMMA ControlIsUser ==
    ASSUME frag = 0, NEW kind, NEW n, SendControl(kind, n)
    PROVE  SockUser /\ frag' = 0
  <1>1. CASE gb_reset
    BY <1>1, ResetIsClose DEF gb_reset, sock_close, kernel
  <1>2. CASE \E res \in {0, CtlLen} : sock_send(CtlLen, FALSE, res)
    BY <1>2, SendIsUser, ProtAssumption
  <1> QED BY <1>1, <1>2 DEF SendControl

\* Whatever the protocol thread does with its socket, a user of the socket may do.
LEMMA GbSock ==
    ASSUME CoreInv, GbThread
    PROVE  (SockUser \/ UNCHANGED sockVars) /\ frag' = 0
  <1> USE DEF CoreInv
  <1>0. UNCHANGED sockVars => frag' = 0
    BY DEF sockVars
  <1>1. gb_reset => SockUser /\ frag' = 0
    BY ResetIsClose DEF gb_reset, sock_close, kernel
  <1>2. CASE HandleMsg
    <2>1. gb_reset \/ UNCHANGED sockVars
      BY <1>2 DEF HandleMsg, MsgNetwork, MsgCanOn, MsgCanOff, MsgSuspend, MsgEmergency, MsgVin,
                  MsgAddr, MsgConfigFailed
    <2> QED BY <1>0, <1>1, <2>1
  <1>3. CASE CheckOpen
    <2>1. addr \in Addrs /\ sock_open(addr)
      BY <1>3 DEF CheckOpen
    <2>2. frag' = 0
      BY <2>1 DEF sock_open, kernel
    <2> QED BY <2>1, <2>2 DEF SockUser
  <1>4. CASE CheckLink
    <2>1. gb_reset \/ sock_sync
      BY <1>4 DEF CheckLink
    <2>2. sock_sync => SockUser /\ frag' = 0
      BY DEF SockUser, sock_sync
    <2> QED BY <1>1, <2>1, <2>2
  <1>5. CASE CheckIdle \/ RecvNothing \/ RecvLogin \/ LoginResumeOne \/ LoginResume
             \/ LoginFreshReport \/ LoginFreshError \/ WaitOn \/ ReportTake \/ ReportNone
             \/ ReportNoRoom
    <2>1. UNCHANGED sockVars
      BY <1>5 DEF CheckIdle, RecvNothing, RecvLogin, LoginResumeOne, LoginResume,
             LoginFreshReport, LoginFreshError, WaitOn, ReportTake, ReportNone, ReportNoRoom
    <2> QED BY <1>0, <2>1
  <1>6. CASE RecvError \/ RecvLogout \/ WaitLogin \/ gb_do_suspend
    <2>1. gb_reset \/ UNCHANGED sockVars
      BY <1>6 DEF RecvError, RecvLogout, WaitLogin, gb_do_suspend
    <2> QED BY <1>0, <1>1, <2>1
  <1>7. CASE WaitLogout \/ gb_do_login \/ gb_do_logout
    <2>1. gb_reset \/ UNCHANGED sockVars \/ \E kind, n : SendControl(kind, n)
      BY <1>7 DEF WaitLogout, gb_do_login, gb_do_logout
    <2> QED BY <1>0, <1>1, <2>1, ControlIsUser
  <1>8. CASE ReportSend
    <2>1. gb_reset \/ \E res \in {0, RepLen} : sock_send(RepLen, TRUE, res)
      BY <1>8 DEF ReportSend
    <2> QED BY <1>1, <2>1, SendIsUser, ProtAssumption
  <1> QED BY <1>2, <1>3, <1>4, <1>5, <1>6, <1>7, <1>8 DEF GbThread

\* The other processes.
LEMMA EnvSock ==
    ASSUME frag = 0, Env
    PROVE  (SockEnv \/ UNCHANGED sockVars) /\ frag' = 0
  <1>1. CASE PostMsg \/ CanOn \/ CanOff \/ Reload \/ CanWork \/ CanStuck \/ Warn \/ Answer
             \/ TimePasses \/ NewDay
    <2>1. UNCHANGED sockVars
      BY <1>1 DEF PostMsg, CanOn, CanOff, Reload, CanWork, CanStuck, Warn, Answer, TimePasses,
                  NewDay
    <2> QED BY <2>1 DEF sockVars
  <1>2. CASE Connect
    BY <1>2 DEF Connect, SockEnv, sock_open_proc, sock_finish, kernel
  <1>3. CASE Ack
    BY <1>3 DEF Ack, SockEnv, TcpAck
  <1>4. CASE Break
    BY <1>4 DEF Break, SockEnv, TcpBreak
  <1> QED BY <1>1, <1>2, <1>3, <1>4 DEF Env

\* A step of the composed system is a step of the socket.
LEMMA SockStep ==
    ASSUME CoreInv, [Next]_vars
    PROVE  [SockNext]_sockVars /\ SockInv' /\ frag' = 0
  <1>1. [SockNext]_sockVars /\ frag' = 0
    <2>1. CASE UNCHANGED vars
      BY <2>1 DEF vars, sockVars, CoreInv
    <2>2. CASE GbThread
      BY <2>2, GbSock DEF SockNext
    <2>3. CASE Env
      BY <2>3, EnvSock DEF SockNext, CoreInv
    <2> QED BY <2>1, <2>2, <2>3 DEF Next
  <1> QED BY <1>1, SockInvInductive DEF CoreInv

-----------------------------------------------------------------------------
(* Every step is a step of the pool and its user, or none of theirs.        *)

\* The acknowledged frame of a report is the frame of a pack that was sent.
LEMMA AckedWasSent ==
    ASSUME CoreInv, stat = OPENED, HeadAcked, Head(used).cb
    PROVE  sentp # <<>>
  <1>1. used \in Seq(SyncEntry) /\ used # <<>>
    BY DEF CoreInv, SockInv, SockTypeOK, HeadAcked
  <1>2. 1 \in CbPlaces(used)
    BY <1>1 DEF CbPlaces
  <1>3. IsFiniteSet(CbPlaces(used))
    <2>1. IsFiniteSet(1 .. Len(used)) /\ CbPlaces(used) \subseteq 1 .. Len(used)
      BY <1>1, FS_Interval DEF CbPlaces
    <2> QED BY <2>1, FS_Subset
  <1>4. Cardinality(CbPlaces(used)) # 0
    BY <1>2, <1>3, FS_EmptySet
  <1>5. Len(sentp) = Cardinality(CbPlaces(used))
    BY DEF CoreInv, Callbacks, OPENED, CLOSED
  <1> QED BY <1>4, <1>5

\* What is taken to be sent is a pack.
LEMMA TakesPack ==
    ASSUME PoolInv, gb_data_get_pack
    PROVE  hold' \in Packs
  <1>1. lst["realtm"] \in Seq(Packs) /\ lst["delay"] \in Seq(Packs)
    BY DEF PoolInv, PoolType, Lists
  <1>2. \A s \in Seq(Packs) : s # <<>> => Head(s) \in Packs /\ Last(s) \in Packs
    BY DEF Last
  <1> QED BY <1>1, <1>2 DEF gb_data_get_pack

\* Whatever the protocol thread does with the pool, a user of the pool may do.
LEMMA GbPool ==
    ASSUME CoreInv, GbThread
    PROVE  GbUser \/ UNCHANGED dataVars
  <1> USE DEF CoreInv, Session, PoolUse, InSession, AfterLogin
  <1>1. CASE HandleMsg
    <2>1. datlk # "gb" /\ hold = NoPack
      BY <1>1 DEF HandleMsg
    <2>2. \/ UNCHANGED dataVars
          \/ \E b \in BOOLEAN : gb_data_emergence(b) \/ gb_data_set_pendflag(b)
      <3>1. CASE MsgSuspend(Head(inbox) = "SUSPEND")
        <4>1. gb_data_set_pendflag(Head(inbox) = "SUSPEND")
          BY <3>1 DEF MsgSuspend
        <4> QED BY <4>1
      <3>2. CASE MsgEmergency(Head(inbox) = "EMERGENCY")
        <4>1. gb_data_emergence(Head(inbox) = "EMERGENCY")
          BY <3>2 DEF MsgEmergency
        <4> QED BY <4>1
      <3>3. CASE UNCHANGED dataVars
        BY <3>3
      <3> QED BY <1>1, <3>1, <3>2, <3>3 DEF HandleMsg, MsgNetwork, MsgCanOn, MsgCanOff, MsgVin,
                  MsgAddr, MsgConfigFailed
    <2> QED BY <2>1, <2>2 DEF GbUser
  <1>2. CASE CheckLink
    <2>1. CASE UNCHANGED dataVars
      BY <2>1
    <2>2. CASE HeadAcked /\ Head(used).cb /\ gb_data_ack_pack
      <3>1. stat = OPENED /\ gbpc \in {"msg", "check"}
        BY <1>2 DEF CheckLink, AtCheck
      <3>2. inited
        BY <2>2, <3>1, AckedWasSent DEF Callbacks
      <3> QED BY <2>2, <3>1, <3>2 DEF GbUser
    <2> QED BY <1>2, <2>1, <2>2 DEF CheckLink
  <1>3. CASE LoginResumeOne \/ LoginResume \/ LoginFreshReport \/ LoginFreshError
    <2>1. hold = NoPack
      BY <1>3 DEF LoginResumeOne, LoginResume, LoginFreshReport, LoginFreshError
    <2>2. CASE LoginResumeOne
      BY <2>1, <2>2 DEF LoginResumeOne, GbUser
    <2>3. CASE LoginResume
      <3>1. inited /\ gb_data_flush_realtm /\ datlk # "gb"
        BY <2>3 DEF LoginResume, gb_data_flush_realtm, FlushRealtm
      <3> QED BY <2>1, <3>1 DEF GbUser
    <2>4. CASE LoginFreshReport \/ LoginFreshError
      BY <2>1, <2>4 DEF LoginFreshReport, LoginFreshError, GbUser
    <2> QED BY <1>3, <2>2, <2>3, <2>4
  <1>4. CASE ReportTake
    <2>1. hold = NoPack /\ datlk # "gb" /\ inited /\ gb_data_get_pack
      BY <1>4 DEF ReportTake
    <2> QED BY <2>1 DEF GbUser
  <1>5. CASE ReportNoRoom \/ ReportSend
    <2>1. hold # NoPack /\ datlk # "gb" /\ (gb_data_put_back \/ gb_data_put_send \/ ForgetPack)
      BY <1>5 DEF ReportNoRoom, ReportSend
    <2> QED BY <2>1 DEF GbUser
  <1>6. CASE CheckIdle \/ CheckOpen \/ RecvError \/ RecvNothing \/ RecvLogin \/ RecvLogout
             \/ WaitOn \/ WaitLogin \/ WaitLogout \/ gb_do_login \/ gb_do_suspend
             \/ ReportNone \/ gb_do_logout
    BY <1>6 DEF CheckIdle, CheckOpen, RecvError, RecvNothing, RecvLogin, RecvLogout, WaitOn,
         WaitLogin, WaitLogout, gb_do_login, gb_do_suspend, ReportNone, gb_do_logout
  <1> QED BY <1>1, <1>2, <1>3, <1>4, <1>5, <1>6 DEF GbThread

\* The other processes.
LEMMA EnvPool ==
    ASSUME Env
    PROVE  CanThread \/ UNCHANGED dataVars
  BY DEF Env, PostMsg, CanOn, CanOff, Reload, CanWork, CanStuck, Warn, Connect, Ack, Break,
         Answer, TimePasses, NewDay, CanThread

\* A step of the composed system is a step of the pool.
LEMMA DataStep ==
    ASSUME CoreInv, [Next]_vars
    PROVE  [DataNext]_dataVars /\ OrderInv'
  <1>1. [DataNext]_dataVars
    <2>1. CASE UNCHANGED vars
      BY <2>1 DEF vars
    <2>2. CASE ~torn /\ GbThread
      BY <2>2, GbPool DEF DataNext
    <2>3. CASE ~torn /\ Env
      BY <2>3, EnvPool DEF DataNext
    <2> QED BY <2>1, <2>2, <2>3 DEF Next
  <1> QED BY <1>1, OrderInvInductive DEF CoreInv

-----------------------------------------------------------------------------
(* The session and the handlers of gb_main.                                *)

\* What gb_reset leaves behind.
LEMMA ResetEndsSession ==
    ASSUME gb_reset
    PROVE  /\ ~online' /\ wait' = "none" /\ stat' # OPENED /\ retry' = 0
           /\ asked' = NothingAsked /\ rx' = NoAnswer
           /\ stat' # CLOSED => stat = stat' 
           /\ UNCHANGED <<peer, used, conn>>
  BY DEF gb_reset, sock_close, CLOSED, OPENED

\* A frame is sent whole, over an open connection, or not at all.
LEMMA SendOutcome ==
    ASSUME NEW len \in Nat \ {0}, NEW cb \in BOOLEAN
    PROVE  /\ sock_send(len, cb, 0) => UNCHANGED sockVars
           /\ sock_send(len, cb, len) => stat = OPENED /\ SendWhole(len, cb)
  BY DEF sock_send

\* A control frame is sent over an open connection, or the session is over.
LEMMA ControlOutcome ==
    ASSUME NEW kind, NEW n, SendControl(kind, n)
    PROVE  \/ gb_reset
           \/ /\ UNCHANGED <<stat, peer, conn, online, rx>>
              /\ UNCHANGED used \/ SendWhole(CtlLen, FALSE)
              /\ retry' = n
              /\ \/ UNCHANGED <<wait, waited, late, asked>>
                 \/ /\ stat = OPENED
                    /\ wait' = kind /\ waited' = TRUE /\ late' = FALSE
                    /\ asked' = [asked EXCEPT ![kind] = @ + 1]
  <1>1. CASE gb_reset
    BY <1>1
  <1>2. CtlLen \in Nat \ {0}
    BY ProtAssumption, SockAssumption
  <1>3. sock_send(CtlLen, FALSE, 0) => UNCHANGED sockVars
    BY <1>2, SendOutcome
  <1>4. sock_send(CtlLen, FALSE, CtlLen) => stat = OPENED /\ SendWhole(CtlLen, FALSE)
    BY <1>2, SendOutcome
  <1>5. SendWhole(CtlLen, FALSE) => UNCHANGED <<stat, peer, conn>>
    BY DEF SendWhole
  <1> QED BY <1>1, <1>3, <1>4, <1>5 DEF SendControl, sockVars

\* The pool leaves the protocol's variables alone.
LEMMA InitedStays ==
    ASSUME [DataNext]_dataVars
    PROVE  inited => inited'
  <1> USE DEF dataVars, canVars, flagVars
  <1>1. CASE UNCHANGED dataVars
    BY <1>1
  <1>2. CASE CanThread
    BY <1>2 DEF CanThread, CanActive, CanSleep, DbcFinished, ClearReport, Warning, PeriodicWarn,
           Periodic, SaveRealtm, BigError, FlushErrorCopy, FlushErrorSplice
  <1>3. CASE GbUser
    BY <1>3 DEF GbUser, gb_data_get_pack, gb_data_ack_pack, gb_data_flush_realtm,
           FlushSendingOne, gb_data_put_back, gb_data_put_send, ForgetPack,
           gb_data_clear_report, ClearReport, gb_data_clear_error, gb_data_emergence,
           gb_data_set_pendflag
  <1> QED BY <1>1, <1>2, <1>3 DEF DataNext

\* The steps of the other processes and the session.
LEMMA EnvSession ==
    ASSUME CoreInv, Env, inited => inited'
    PROVE  Session'
  <1> USE DEF protVars, linkVars, confVars, sessVars, seqVars, envVars, histVars
  <1>1. UNCHANGED <<gbpc, wait, online, login>>
    BY DEF Env, PostMsg, CanOn, CanOff, Reload, CanWork, CanStuck, Warn, Connect, Ack, Break,
           Answer, TimePasses, NewDay
  <1>2. stat = OPENED => stat' = OPENED
    <2>1. CASE Connect
      BY <2>1 DEF Connect, sock_open_proc, sock_finish, CoreInv, SockInv, Connecting,
                  OPENED, INPROG
    <2>2. CASE UNCHANGED stat
      BY <2>2
    <2> QED BY <2>1, <2>2 DEF Env, PostMsg, CanOn, CanOff, Reload, CanWork, CanStuck, Warn,
            Ack, TcpAck, Break, TcpBreak, Answer, TimePasses, NewDay, sockVars
  <1> QED BY <1>1, <1>2 DEF CoreInv, Session

\* The steps of the protocol thread and the session.
LEMMA GbSession ==
    ASSUME CoreInv, GbThread, inited => inited'
    PROVE  Session'
  <1> USE DEF protVars, linkVars, confVars, sessVars, seqVars, envVars, histVars, sockVars,
              AfterLogin, InSession, CLOSED, INPROG, OPENED
  <1>0. Session
    BY DEF CoreInv
  <1>1. ASSUME gb_reset, gbpc' \in {"msg", "check"}, login' => login
        PROVE  Session'
    BY <1>0, <1>1, ResetEndsSession DEF Session
  <1>2. ASSUME UNCHANGED <<stat, wait, online, login>>, gbpc' \in {"msg", "check"},
               gbpc \notin {"fresh", "fresherr"}
        PROVE  Session'
    BY <1>0, <1>2 DEF Session
  <1>3. CASE HandleMsg
    <2>1. gbpc' = "check" /\ gbpc = "msg"
      BY <1>3 DEF HandleMsg
    <2>2. UNCHANGED login /\ (gb_reset \/ UNCHANGED <<stat, wait, online>>)
      BY <1>3 DEF HandleMsg, MsgNetwork, MsgCanOn, MsgCanOff, MsgSuspend, MsgEmergency, MsgVin,
                  MsgAddr, MsgConfigFailed
    <2> QED BY <1>1, <1>2, <2>1, <2>2
  <1>4. CASE CheckIdle \/ WaitOn
    BY <1>2, <1>4 DEF CheckIdle, WaitOn, AtCheck
  <1>5. CASE CheckOpen
    <2>1. stat # OPENED /\ gbpc' = "msg" /\ UNCHANGED <<wait, online, login>>
      BY <1>5 DEF CheckOpen, sock_open
    <2> QED BY <1>0, <2>1 DEF Session
  <1>6. CASE CheckLink
    <2>1. CASE gb_reset /\ gbpc' = "msg"
      BY <1>1, <1>6, <2>1 DEF CheckLink
    <2>2. CASE sock_sync /\ gbpc' = "recv" /\ UNCHANGED linkVars
      <3>1. UNCHANGED <<stat, wait, online, login>> /\ gbpc \in {"msg", "check"}
        BY <1>6, <2>2 DEF CheckLink, AtCheck, sock_sync
      <3> QED BY <1>0, <2>2, <3>1 DEF Session
    <2> QED BY <1>6, <2>1, <2>2 DEF CheckLink
  <1>7. CASE RecvError \/ WaitLogin
    BY <1>1, <1>7 DEF RecvError, WaitLogin
  <1>8. CASE RecvNothing
    BY <1>0, <1>8 DEF RecvNothing, Session
  <1>9. CASE RecvLogin
    BY <1>0, <1>9 DEF RecvLogin, Session
  <1>10. CASE RecvLogout
    BY <1>0, <1>1, <1>10 DEF RecvLogout, Session
  <1>11. CASE LoginResumeOne
    BY <1>0, <1>11 DEF LoginResumeOne, Session
  <1>12. CASE LoginResume \/ LoginFreshReport \/ LoginFreshError
    BY <1>0, <1>12 DEF LoginResume, LoginFreshReport, gb_data_clear_report, ClearReport,
                       LoginFreshError, Session
  <1>13. ASSUME NEW n, SendControl("LOGIN", n), gbpc = "login", gbpc' = "msg", UNCHANGED login
         PROVE  Session'
    BY <1>0, <1>1, <1>13, ControlOutcome DEF Session
  <1>14. ASSUME NEW n, SendControl("LOGOUT", n), gbpc \in {"wait", "logout"},
                online, gbpc' = "msg", UNCHANGED login
         PROVE  Session'
    <2>1. CASE gb_reset
      BY <1>1, <1>14, <2>1
    <2>2. CASE UNCHANGED <<stat, online>> /\ wait' \in {wait, "LOGOUT"}
      BY <1>0, <1>14, <2>2 DEF Session
    <2> QED BY <1>14, <2>1, <2>2, ControlOutcome
  <1>15. CASE WaitLogout
    BY <1>0, <1>1, <1>14, <1>15 DEF WaitLogout, Session
  <1>16. CASE gb_do_login
    BY <1>0, <1>2, <1>13, <1>16 DEF gb_do_login, Session
  <1>17. CASE gb_do_logout
    BY <1>0, <1>2, <1>14, <1>17 DEF gb_do_logout, Session
  <1>18. CASE gb_do_suspend \/ ReportTake \/ ReportNone \/ ReportNoRoom
    BY <1>0, <1>1, <1>18 DEF gb_do_suspend, ReportTake, ReportNone, ReportNoRoom, Session
  <1>19. CASE ReportSend
    <2>1. RepLen \in Nat \ {0}
      BY ProtAssumption, SockAssumption
    <2>2. \/ gb_reset /\ gbpc' = "msg"
          \/ UNCHANGED <<stat, wait, online>> /\ gbpc' = "logout"
      BY <1>19, <2>1, SendOutcome DEF ReportSend, SendWhole
    <2>3. UNCHANGED login /\ gbpc = "send"
      BY <1>19 DEF ReportSend
    <2> QED BY <1>0, <1>1, <2>2, <2>3 DEF Session
  <1> QED BY <1>3, <1>4, <1>5, <1>6, <1>7, <1>8, <1>9, <1>10, <1>11, <1>12, <1>15, <1>16,
             <1>17, <1>18, <1>19 DEF GbThread

-----------------------------------------------------------------------------
(* Who holds a pack, and who the mutex.                                    *)

LEMMA EnvPoolUse ==
    ASSUME CoreInv, Env
    PROVE  PoolUse'
  <1> USE DEF protVars, dataVars
  <1>1. UNCHANGED <<gbpc, hold>>
    BY DEF Env, PostMsg, CanOn, CanActive, CanOff, CanSleep, Reload, DbcFinished, CanWork,
           PeriodicWarn, Periodic, SaveRealtm, FlushErrorCopy, FlushErrorSplice, CanStuck,
           BigError, Warn, Warning, Connect, Ack, Break, Answer, TimePasses, NewDay
  <1>2. datlk' \in {datlk, "can", "none"}
    BY DEF Env, PostMsg, CanOn, CanActive, CanOff, CanSleep, Reload, DbcFinished, CanWork,
           PeriodicWarn, Periodic, SaveRealtm, FlushErrorCopy, FlushErrorSplice, CanStuck,
           BigError, Warn, Warning, Connect, Ack, Break, Answer, TimePasses, NewDay
  <1> QED BY <1>1, <1>2 DEF CoreInv, PoolUse

LEMMA GbPoolUse ==
    ASSUME CoreInv, GbThread
    PROVE  PoolUse'
  <1> USE DEF protVars, dataVars
  <1>0. PoolUse
    BY DEF CoreInv
  <1>1. CASE HandleMsg
    BY <1>0, <1>1 DEF HandleMsg, MsgNetwork, MsgCanOn, MsgCanOff, MsgSuspend,
           gb_data_set_pendflag, MsgEmergency, gb_data_emergence, MsgVin, MsgAddr,
           MsgConfigFailed, PoolUse
  <1>2. CASE CheckLink
    BY <1>0, <1>2 DEF CheckLink, AtCheck, gb_data_ack_pack, PoolUse
  <1>3. CASE CheckIdle \/ CheckOpen
    BY <1>0, <1>3 DEF CheckIdle, CheckOpen, AtCheck, PoolUse
  <1>4. CASE RecvError \/ RecvNothing \/ RecvLogin \/ RecvLogout
    BY <1>0, <1>4 DEF RecvError, RecvNothing, RecvLogin, RecvLogout, PoolUse
  <1>5. CASE LoginResumeOne
    BY <1>0, <1>5 DEF LoginResumeOne, FlushSendingOne, PoolUse
  <1>6. CASE LoginResume \/ LoginFreshReport \/ LoginFreshError
    BY <1>0, <1>6 DEF LoginResume, gb_data_flush_realtm, FlushRealtm, LoginFreshReport,
           gb_data_clear_report, ClearReport, LoginFreshError, gb_data_clear_error, PoolUse
  <1>7. CASE WaitOn \/ WaitLogin \/ WaitLogout \/ gb_do_login \/ gb_do_suspend \/ ReportNone
             \/ gb_do_logout
    BY <1>0, <1>7 DEF WaitOn, WaitLogin, WaitLogout, gb_do_login, gb_do_suspend, ReportNone,
           gb_do_logout, PoolUse
  <1>8. CASE ReportTake
    <2>1. hold' # NoPack
      BY <1>8, TakesPack, NoPackIsNone DEF ReportTake, CoreInv, OrderInv
    <2> QED BY <1>0, <1>8, <2>1 DEF ReportTake, gb_data_get_pack, PoolUse
  <1>9. CASE ReportNoRoom \/ ReportSend
    BY <1>0, <1>9 DEF ReportNoRoom, ForgetPack, ReportSend, gb_data_put_back,
           gb_data_put_send, PoolUse
  <1> QED BY <1>1, <1>2, <1>3, <1>4, <1>5, <1>6, <1>7, <1>8, <1>9 DEF GbThread

-----------------------------------------------------------------------------
(* The callbacks to come are those of the packs sent.                      *)

LEMMA CbPlacesFinite ==
    ASSUME NEW u \in Seq(SyncEntry)
    PROVE  /\ IsFiniteSet(CbPlaces(u))
           /\ Cardinality(CbPlaces(u)) \in Nat
  <1>1. IsFiniteSet(1 .. Len(u)) /\ CbPlaces(u) \in SUBSET (1 .. Len(u))
    BY FS_Interval DEF CbPlaces
  <1> QED BY <1>1, FS_Subset, FS_CardinalityType

\* A frame that is sent has a callback more to come, or none.
LEMMA CbSent ==
    ASSUME NEW u \in Seq(SyncEntry), NEW e \in SyncEntry
    PROVE  Cardinality(CbPlaces(Append(u, e))) =
               Cardinality(CbPlaces(u)) + IF e.cb THEN 1 ELSE 0
  <1> DEFINE n == Len(u) + 1
             v == Append(u, e)
  <1>1. /\ n \in Nat /\ Len(v) = n /\ v[n] = e /\ n \notin 1 .. Len(u)
        /\ 1 .. n = 1 .. Len(u) \cup {n}
        /\ \A i \in 1 .. Len(u) : v[i] = u[i]
    OBVIOUS
  <1> HIDE DEF n, v
  <1>2. CbPlaces(v) = IF e.cb THEN CbPlaces(u) \cup {n} ELSE CbPlaces(u)
    BY <1>1 DEF CbPlaces
  <1>3. n \notin CbPlaces(u)
    BY <1>1 DEF CbPlaces
  <1>4. IsFiniteSet(CbPlaces(u)) /\ Cardinality(CbPlaces(u)) \in Nat
    BY CbPlacesFinite
  <1>5. CASE e.cb
    BY <1>2, <1>3, <1>4, <1>5, FS_AddElement DEF v
  <1>6. CASE ~e.cb
    BY <1>2, <1>4, <1>6 DEF v
  <1> QED BY <1>5, <1>6

\* The oldest frame is released: its callback has come, the others move up by one.
LEMMA CbReleased ==
    ASSUME NEW u \in Seq(SyncEntry), u # <<>>
    PROVE  Cardinality(CbPlaces(u)) =
               Cardinality(CbPlaces(Tail(u))) + IF Head(u).cb THEN 1 ELSE 0
  <1> DEFINE A == CbPlaces(Tail(u))
             B == CbPlaces(u) \ {1}
             f == [i \in A |-> i + 1]
  <1>1. /\ Len(u) \in Nat \ {0} /\ Len(Tail(u)) = Len(u) - 1 /\ Head(u) = u[1]
        /\ \A i \in 1 .. Len(u) - 1 : Tail(u)[i] = u[i + 1]
        /\ Tail(u) \in Seq(SyncEntry)
    OBVIOUS
  <1>2. A \subseteq Nat /\ \A i \in A : i + 1 \in B
    BY <1>1 DEF CbPlaces
  <1>3. \A j \in B : j - 1 \in A /\ (j - 1) + 1 = j
    BY <1>1 DEF CbPlaces
  <1> HIDE DEF A, B
  <1>4. f \in Bijection(A, B)
    <2>1. f \in [A -> B] /\ \A a, b \in A : f[a] = f[b] => a = b
      BY <1>2
    <2>2. \A j \in B : \E i \in A : f[i] = j
      BY <1>3
    <2> HIDE DEF f
    <2> QED BY <2>1, <2>2, Fun_IsBij
  <1>5. Cardinality(A) = Cardinality(B)
    BY <1>1, <1>4, CbPlacesFinite, FS_Bijection DEF ExistsBijection, A
  <1>6. 1 \in CbPlaces(u) <=> Head(u).cb
    BY <1>1 DEF CbPlaces
  <1>7. /\ IsFiniteSet(CbPlaces(u)) /\ Cardinality(CbPlaces(u)) \in Nat
        /\ Cardinality(A) \in Nat
    BY <1>1, CbPlacesFinite DEF A
  <1>8. CASE Head(u).cb
    <2>1. Cardinality(B) = Cardinality(CbPlaces(u)) - 1
      BY <1>6, <1>7, <1>8, FS_RemoveElement DEF B
    <2> QED BY <1>5, <1>7, <1>8, <2>1 DEF A
  <1>9. CASE ~Head(u).cb
    <2>1. B = CbPlaces(u)
      BY <1>6, <1>9 DEF B
    <2> QED BY <1>5, <1>7, <1>9, <2>1 DEF A
  <1> QED BY <1>8, <1>9

\* The entry of a frame that is sent.
LEMMA SentEntry ==
    ASSUME NEW len \in Nat \ {0}, NEW cb \in BOOLEAN, SendWhole(len, cb)
    PROVE  \E e \in SyncEntry : used' = Append(used, e) /\ e.cb = cb
  <1> DEFINE owner == IF ~cb /\ back > 0 THEN "back" ELSE "free"
             e == [len |-> len, cb |-> cb, owner |-> owner]
  <1>1. e \in SyncEntry /\ e.cb = cb
    BY DEF SyncEntry
  <1>2. used' = Append(used, e)
    BY DEF SendWhole
  <1> QED BY <1>1, <1>2

\* The socket's entries after a control frame: none more with a callback.
LEMMA ControlCbs ==
    ASSUME CoreInv, UNCHANGED used \/ SendWhole(CtlLen, FALSE)
    PROVE  Cardinality(CbPlaces(used')) = Cardinality(CbPlaces(used))
  <1>1. used \in Seq(SyncEntry) /\ CtlLen \in Nat \ {0}
    BY ProtAssumption, SockAssumption DEF CoreInv, SockInv, SockTypeOK
  <1>2. CASE SendWhole(CtlLen, FALSE)
    <2>1. PICK e \in SyncEntry : used' = Append(used, e) /\ e.cb = FALSE
      BY <1>1, <1>2, SentEntry
    <2>2. Cardinality(CbPlaces(used)) \in Nat
      BY <1>1, CbPlacesFinite
    <2> QED BY <1>1, <2>1, <2>2, CbSent
  <1> QED BY <1>2

\* gb_reset and the callbacks: those of a closed connection never come.
LEMMA ResetCallbacks ==
    ASSUME CoreInv, gb_reset, UNCHANGED sentp, inited => inited', gbpc' \in {"msg", "check"}
    PROVE  Callbacks'
  BY ResetEndsSession DEF CoreInv, Session, Callbacks

\* sock_sync calls back at most once, for the oldest frame that has a callback.
LEMMA SyncCallbacks ==
    ASSUME CoreInv, sock_sync, inited => inited', gbpc' = "recv", UNCHANGED <<online>>,
           sentp' = IF HeadAcked /\ Head(used).cb THEN Tail(sentp) ELSE sentp
    PROVE  Callbacks'
  <1>0. Callbacks /\ stat = OPENED /\ stat' = OPENED /\ stat # CLOSED
    BY DEF CoreInv, sock_sync, OPENED, CLOSED
  <1>1. used \in Seq(SyncEntry) /\ sentp \in Seq(Packs)
    BY DEF CoreInv, SockInv, SockTypeOK, Callbacks
  <1>2. CASE ~HeadAcked
    BY <1>0, <1>2 DEF Callbacks, sock_sync
  <1>3. CASE HeadAcked
    <2>1. used # <<>> /\ used' = Tail(used)
      BY <1>3 DEF HeadAcked, sock_sync
    <2>2. Cardinality(CbPlaces(used)) =
              Cardinality(CbPlaces(used')) + IF Head(used).cb THEN 1 ELSE 0
      BY <1>1, <2>1, CbReleased
    <2>3. Cardinality(CbPlaces(used')) \in Nat
      BY <1>1, <2>1, CbPlacesFinite, UsedSeq
    <2>4. CASE ~Head(used).cb
      BY <1>0, <2>2, <2>3, <2>4 DEF Callbacks
    <2>5. CASE Head(used).cb
      <3>1. sentp # <<>> /\ sentp' = Tail(sentp)
        BY <1>0, <1>3, <2>5, AckedWasSent
      <3>2. sentp' \in Seq(Packs) /\ Len(sentp') = Len(sentp) - 1
        BY <1>1, <3>1
      <3>3. Len(sentp') = Cardinality(CbPlaces(used'))
        BY <1>0, <2>2, <2>3, <2>5, <3>2 DEF Callbacks
      <3>4. inited' /\ online'
        BY <1>0, <3>1 DEF Callbacks
      <3> QED BY <3>2, <3>3, <3>4 DEF Callbacks
    <2> QED BY <2>4, <2>5
  <1> QED BY <1>2, <1>3

\* A report is sent: its pack waits for its callback.
LEMMA ReportCallbacks ==
    ASSUME CoreInv, gbpc = "send", stat = OPENED, SendWhole(RepLen, TRUE),
           sentp' = Append(sentp, hold), inited', gbpc' = "logout", UNCHANGED online
    PROVE  Callbacks'
  <1>1. used \in Seq(SyncEntry) /\ sentp \in Seq(Packs) /\ RepLen \in Nat \ {0}
    BY ProtAssumption, SockAssumption DEF CoreInv, SockInv, SockTypeOK, Callbacks
  <1>2. hold \in Packs
    BY DEF CoreInv, PoolUse, OrderInv, PoolInv, PoolType
  <1>3. PICK e \in SyncEntry : used' = Append(used, e) /\ e.cb = TRUE
    BY <1>1, SentEntry
  <1>4. Cardinality(CbPlaces(used')) = Cardinality(CbPlaces(used)) + 1
    BY <1>1, <1>3, CbSent
  <1>5. sentp' \in Seq(Packs) /\ Len(sentp') = Len(sentp) + 1
    BY <1>1, <1>2
  <1>6. Len(sentp) = Cardinality(CbPlaces(used))
    BY DEF CoreInv, Callbacks, OPENED, CLOSED
  <1>7. online'
    BY DEF CoreInv, Session, InSession
  <1> QED BY <1>4, <1>5, <1>6, <1>7 DEF Callbacks

LEMMA EnvCallbacks ==
    ASSUME CoreInv, Env, inited => inited'
    PROVE  Callbacks'
  <1> USE DEF protVars, linkVars, confVars, sessVars, seqVars, envVars, histVars, sockVars
  <1>1. UNCHANGED <<gbpc, sentp, used, online>>
    BY DEF Env, PostMsg, CanOn, CanOff, Reload, CanWork, CanStuck, Warn, Connect, sock_open_proc,
           sock_finish, Ack, TcpAck, Break, TcpBreak, Answer, TimePasses, NewDay
  <1>2. stat' # CLOSED => stat # CLOSED
    <2>1. CASE Connect
      BY <2>1 DEF Connect, sock_open_proc, sock_finish, CoreInv, SockInv, Connecting,
                  INPROG, CLOSED
    <2>2. CASE UNCHANGED stat
      BY <2>2
    <2> QED BY <2>1, <2>2 DEF Env, PostMsg, CanOn, CanOff, Reload, CanWork, CanStuck, Warn,
            Ack, TcpAck, Break, TcpBreak, Answer, TimePasses, NewDay
  <1> QED BY <1>1, <1>2 DEF CoreInv, Callbacks

LEMMA GbCallbacks ==
    ASSUME CoreInv, GbThread, inited => inited'
    PROVE  Callbacks'
  <1> USE DEF protVars, linkVars, confVars, sessVars, seqVars, envVars, histVars
  <1>0. Callbacks /\ Session
    BY DEF CoreInv
  <1>1. ASSUME UNCHANGED <<stat, used, sentp, online>>,
               gbpc' \in {"resume", "fresh"} => sentp = <<>>
        PROVE  Callbacks'
    BY <1>0, <1>1 DEF Callbacks
  <1>2. CASE HandleMsg
    <2>1. gbpc' = "check" /\ UNCHANGED sentp
      BY <1>2 DEF HandleMsg, MsgNetwork, MsgCanOn, MsgCanOff, MsgSuspend, MsgEmergency, MsgVin,
                  MsgAddr, MsgConfigFailed
    <2>2. gb_reset \/ UNCHANGED <<stat, used, online>>
      BY <1>2 DEF HandleMsg, MsgNetwork, MsgCanOn, MsgCanOff, MsgSuspend, MsgEmergency, MsgVin,
                  MsgAddr, MsgConfigFailed, sockVars
    <2> QED BY <1>1, <2>1, <2>2, ResetCallbacks
  <1>3. CASE CheckIdle \/ RecvNothing \/ WaitOn \/ ReportTake \/ ReportNone \/ ReportNoRoom
    BY <1>1, <1>3 DEF CheckIdle, RecvNothing, WaitOn, ReportTake, ReportNone, ReportNoRoom,
                      sockVars
  <1>4. CASE CheckOpen
    <2>1. used' = <<>> /\ sentp' = <<>> /\ gbpc' = "msg"
      BY <1>4 DEF CheckOpen, sock_open, sock_cleanup
    <2>2. CbPlaces(used') = {} /\ Len(sentp') = 0 /\ sentp' \in Seq(Packs)
      BY <2>1 DEF CbPlaces
    <2>3. Cardinality(CbPlaces(used')) = 0
      BY <2>2, FS_EmptySet
    <2> QED BY <2>1, <2>2, <2>3 DEF Callbacks
  <1>5. CASE CheckLink
    <2>1. CASE down
      BY <1>5, <2>1, ResetCallbacks DEF CheckLink
    <2>2. CASE ~down
      <3>1. /\ sock_sync /\ gbpc' = "recv" /\ UNCHANGED online
            /\ sentp' = IF HeadAcked /\ Head(used).cb THEN Tail(sentp) ELSE sentp
        BY <1>5, <2>2 DEF CheckLink
      <3> QED BY <3>1, SyncCallbacks
    <2> QED BY <2>1, <2>2
  <1>6. CASE RecvError \/ WaitLogin
    BY <1>6, ResetCallbacks DEF RecvError, WaitLogin
  <1>7. CASE RecvLogin
    <2>1. /\ UNCHANGED <<stat, used, sentp, inited>>
          /\ online' # online \/ gbpc' # gbpc => wait = "LOGIN" /\ online'
      BY <1>7 DEF RecvLogin, sockVars, dataVars
    <2>2. wait = "LOGIN" => sentp = <<>>
      BY <1>0 DEF Session, Callbacks, OPENED, CLOSED
    <2>3. CASE wait = "LOGIN"
      BY <1>0, <2>1, <2>2, <2>3 DEF Callbacks
    <2>4. CASE wait # "LOGIN"
      BY <1>0, <2>1, <2>4 DEF Callbacks
    <2> QED BY <2>3, <2>4
  <1>8. CASE RecvLogout
    BY <1>1, <1>8, ResetCallbacks DEF RecvLogout, sockVars
  <1>9. CASE LoginResumeOne \/ LoginResume \/ LoginFreshReport \/ LoginFreshError
    <2>1. UNCHANGED <<stat, used, sentp, online>>
      BY <1>9 DEF LoginResumeOne, LoginResume, LoginFreshReport, LoginFreshError, sockVars
    <2>2. gbpc' \in {"resume", "fresh"} => gbpc' = gbpc
      BY <1>9 DEF LoginResumeOne, LoginResume, LoginFreshReport, LoginFreshError
    <2> QED BY <1>0, <1>1, <2>1, <2>2 DEF Callbacks
  <1>10. ASSUME NEW kind, NEW n, SendControl(kind, n), gbpc' = "msg", UNCHANGED sentp
         PROVE  Callbacks'
    <2>1. CASE gb_reset
      BY <1>10, <2>1, ResetCallbacks
    <2>2. CASE UNCHANGED <<stat, online>> /\ (UNCHANGED used \/ SendWhole(CtlLen, FALSE))
      BY <1>0, <1>10, <2>2, ControlCbs DEF Callbacks
    <2> QED BY <1>10, <2>1, <2>2, ControlOutcome
  <1>11. CASE WaitLogout \/ gb_do_login \/ gb_do_logout
    <2>1. /\ gbpc' = "msg" /\ UNCHANGED sentp
          /\ gb_reset \/ UNCHANGED <<sockVars, linkVars>> \/ \E kind, n : SendControl(kind, n)
      BY <1>11 DEF WaitLogout, gb_do_login, gb_do_logout
    <2> QED BY <1>1, <1>10, <2>1, ResetCallbacks DEF sockVars
  <1>12. CASE gb_do_suspend
    BY <1>1, <1>12, ResetCallbacks DEF gb_do_suspend, sockVars
  <1>13. CASE ReportSend
    <2>0. RepLen \in Nat \ {0}
      BY ProtAssumption, SockAssumption
    <2>1. CASE gb_reset /\ gbpc' = "msg" /\ UNCHANGED sentp
      BY <2>1, ResetCallbacks
    <2>2. CASE sock_send(RepLen, TRUE, 0) /\ gbpc' = "logout" /\ UNCHANGED <<linkVars, sentp>>
      BY <1>1, <2>0, <2>2, SendOutcome DEF sockVars
    <2>3. CASE /\ sock_send(RepLen, TRUE, RepLen) /\ gb_data_put_send
               /\ sentp' = Append(sentp, hold) /\ gbpc' = "logout" /\ UNCHANGED linkVars
      <3>1. stat = OPENED /\ SendWhole(RepLen, TRUE)
        BY <2>0, <2>3, SendOutcome
      <3>2. gbpc = "send" /\ inited'
        BY <1>0, <1>13 DEF ReportSend, Session, InSession
      <3> QED BY <2>3, <3>1, <3>2, ReportCallbacks
    <2> QED BY <1>13, <2>1, <2>2, <2>3 DEF ReportSend
  <1> QED BY <1>2, <1>3, <1>4, <1>5, <1>6, <1>7, <1>8, <1>9, <1>11, <1>12, <1>13 DEF GbThread

-----------------------------------------------------------------------------
(* The trans list holds the packs whose callbacks are to come.             *)

\* The CAN thread takes its buffers from the other lists.
LEMMA CanKeepsTrans ==
    ASSUME PoolInv,
           \/ CanActive \/ CanSleep \/ Warning \/ Periodic \/ BigError
           \/ PeriodicWarn \/ SaveRealtm \/ FlushErrorCopy \/ FlushErrorSplice
    PROVE  lst'["trans"] = lst["trans"] /\ UNCHANGED torn
  <1>0. lst \in [Lists -> Seq(Packs)] /\ "trans" \in Lists
    BY DEF PoolInv, PoolType, Lists
  <1>1. CASE CanActive \/ CanSleep \/ Warning \/ Periodic \/ BigError
    BY <1>1 DEF CanActive, CanSleep, Warning, Periodic, BigError
  <1>2. CASE PeriodicWarn
    BY <1>0, <1>2 DEF PeriodicWarn, FlushRealtm, Lists
  <1>3. BufferFrom \in {"free", "delay", "realtm", "none"}
    BY DEF BufferFrom
  <1>4. CASE SaveRealtm
    BY <1>0, <1>3, <1>4 DEF SaveRealtm, Lists
  <1>5. CASE FlushErrorCopy
    BY <1>0, <1>3, <1>5 DEF FlushErrorCopy, Lists
  <1>6. CASE FlushErrorSplice
    BY <1>0, <1>6 DEF FlushErrorSplice, Lists
  <1> QED BY <1>1, <1>2, <1>4, <1>5, <1>6

LEMMA EnvTrans ==
    ASSUME CoreInv, ~torn, Env
    PROVE  TransIsSent'
  <1> USE DEF protVars, linkVars, confVars, sessVars, seqVars, envVars, histVars
  <1>0. TransIsSent /\ Callbacks /\ Session
    BY DEF CoreInv
  <1>1. CASE Reload
    <2>1. /\ UNCHANGED <<stat, sentp, online, gbpc>> /\ cleared' = (cleared \/ sentp # <<>>)
          /\ lst'["trans"] = <<>>
      BY <1>1 DEF Reload, DbcFinished, ClearReport, Lists, sockVars
    <2> QED BY <2>1 DEF TransIsSent
  <1>2. CASE Env /\ ~Reload
    <2>1. lst'["trans"] = lst["trans"] /\ (torn' = torn)
      <3>1. CASE UNCHANGED dataVars
        BY <3>1 DEF dataVars
      <3>2. CASE CanOn \/ CanOff \/ CanWork \/ CanStuck \/ Warn
        BY <3>2, CanKeepsTrans DEF CanOn, CanOff, CanWork, CanStuck, Warn, CoreInv, OrderInv
      <3> QED BY <1>2, <3>1, <3>2 DEF Env, PostMsg, Connect, Ack, Break, Answer, TimePasses, NewDay
    <2>2. UNCHANGED <<gbpc, sentp, online, cleared>>
      BY <1>2 DEF Env, PostMsg, CanOn, CanOff, CanWork, CanStuck, Warn, Connect, Ack, Break,
             Answer, TimePasses, NewDay
    <2>3. stat' = stat \/ (stat = INPROG /\ ~online)
      <3>1. CASE Connect
        BY <1>0, <3>1 DEF Connect, sock_open_proc, sock_finish, CoreInv, SockInv, Connecting, Session,
                    INPROG, OPENED
      <3> QED BY <1>2, <3>1 DEF Env, PostMsg, CanOn, CanOff, CanWork, CanStuck, Warn,
              Ack, TcpAck, Break, TcpBreak, Answer, TimePasses, NewDay, sockVars
    <2>4. CASE stat' = stat
      BY <1>0, <2>1, <2>2, <2>4 DEF TransIsSent
    <2>5. CASE stat = INPROG /\ ~online
      <3>1. sentp = <<>>
        BY <1>0, <2>5 DEF Callbacks, INPROG, CLOSED
      <3> QED BY <2>2, <2>5, <3>1 DEF TransIsSent
    <2> QED BY <2>3, <2>4, <2>5
  <1> QED BY <1>1, <1>2

\* Steps of the protocol thread that leave the list, the packs and the session alone, and
\* do not enter the handling of a log-in's answer.
LEMMA SameTrans ==
    ASSUME CoreInv, UNCHANGED <<stat, sentp, cleared, online, torn>>,
           lst'["trans"] = lst["trans"],
           gbpc \in {"resume", "fresh"} => gbpc' = gbpc
    PROVE  TransIsSent'
  BY DEF CoreInv, TransIsSent

\* A callback of the socket and the trans list.
LEMMA SyncTrans ==
    ASSUME CoreInv, ~torn, CheckLink, ~down
    PROVE  TransIsSent'
  <1> USE DEF linkVars, OPENED
  <1>1. /\ stat = OPENED /\ UNCHANGED <<stat, online, cleared>>
        /\ gbpc \in {"msg", "check"} /\ gbpc' = "recv"
    BY DEF CheckLink, AtCheck, sock_sync
  <1>2. CASE UNCHANGED <<dataVars, sentp>>
    BY <1>1, <1>2, SameTrans DEF dataVars
  <1>3. CASE HeadAcked /\ Head(used).cb /\ gb_data_ack_pack /\ sentp' = Tail(sentp)
    <2>1. sentp # <<>>
      BY <1>1, <1>3, AckedWasSent
    <2>2. lst \in [Lists -> Seq(Packs)] /\ "trans" \in Lists /\ "free" \in Lists
      BY DEF CoreInv, OrderInv, PoolInv, PoolType, Lists
    <2>3. lst["trans"] # <<>> => lst'["trans"] = Tail(lst["trans"])
      BY <1>3, <2>2 DEF gb_data_ack_pack
    <2>4. ~cleared => lst["trans"] = sentp
      BY <1>1, <2>1 DEF CoreInv, TransIsSent
    <2> QED BY <1>1, <1>3, <2>1, <2>3, <2>4 DEF TransIsSent
  <1> QED BY <1>2, <1>3 DEF CheckLink

\* The frame of a report is sent, or the report put back.
LEMMA ReportTrans ==
    ASSUME CoreInv, ~torn, ReportSend
    PROVE  TransIsSent'
  <1> USE DEF linkVars, OPENED
  <1>0. RepLen \in Nat \ {0} /\ gbpc = "send" /\ online /\ UNCHANGED cleared
    BY ProtAssumption, SockAssumption DEF ReportSend, CoreInv, Session, InSession
  <1>1. CASE gb_reset
    BY <1>1, ResetEndsSession DEF TransIsSent
  <1>2. lst \in [Lists -> Seq(Packs)] /\ "trans" \in Lists /\ home[hold] \in {"realtm", "delay"}
    BY <1>0 DEF CoreInv, PoolUse, OrderInv, PoolInv, PoolType, Lists
  <1>3. CASE /\ sock_send(RepLen, TRUE, 0) /\ gb_data_put_back /\ UNCHANGED <<linkVars, sentp>>
             /\ gbpc' = "logout"
    <2>1. lst'["trans"] = lst["trans"] /\ UNCHANGED torn
      BY <1>2, <1>3 DEF gb_data_put_back, Lists
    <2>2. UNCHANGED stat
      BY <1>0, <1>3, SendOutcome DEF sockVars
    <2> QED BY <1>0, <1>3, <2>1, <2>2, SameTrans
  <1>4. CASE /\ sock_send(RepLen, TRUE, RepLen) /\ gb_data_put_send
             /\ sentp' = Append(sentp, hold) /\ UNCHANGED linkVars
    <2>1. lst'["trans"] = Append(lst["trans"], hold)
      BY <1>2, <1>4 DEF gb_data_put_send
    <2>2. stat = OPENED
      BY <1>0, <1>4, SendOutcome
    <2>3. ~cleared => lst["trans"] = sentp
      BY <1>0, <2>2 DEF CoreInv, TransIsSent
    <2> QED BY <1>0, <1>4, <2>1, <2>3 DEF TransIsSent
  <1> QED BY <1>1, <1>3, <1>4 DEF ReportSend

LEMMA GbTrans ==
    ASSUME CoreInv, ~torn, GbThread
    PROVE  TransIsSent'
  <1> USE DEF protVars, linkVars, confVars, sessVars, seqVars, envVars, histVars, OPENED
  <1>0. Callbacks /\ Session
    BY DEF CoreInv
  <1>a. lst \in [Lists -> Seq(Packs)] /\ "trans" \in Lists
    BY DEF CoreInv, OrderInv, PoolInv, PoolType, Lists
  <1>1. gb_reset => TransIsSent'
    BY ResetEndsSession DEF TransIsSent
  <1>2. CASE HandleMsg
    <2>1. gbpc = "msg" /\ gbpc' = "check" /\ UNCHANGED <<sentp, cleared, lst, torn>>
      BY <1>2 DEF HandleMsg, MsgNetwork, MsgCanOn, MsgCanOff, MsgSuspend, gb_data_set_pendflag,
                  MsgEmergency, gb_data_emergence, MsgVin, MsgAddr, MsgConfigFailed, dataVars
    <2>2. gb_reset \/ UNCHANGED <<stat, online>>
      BY <1>2 DEF HandleMsg, MsgNetwork, MsgCanOn, MsgCanOff, MsgSuspend, MsgEmergency, MsgVin,
                  MsgAddr, MsgConfigFailed, sockVars
    <2> QED BY <1>1, <2>1, <2>2, SameTrans
  <1>3. CASE CheckIdle \/ RecvNothing \/ WaitOn \/ ReportNone
    BY <1>3, SameTrans DEF CheckIdle, AtCheck, RecvNothing, WaitOn, ReportNone, sockVars, dataVars
  <1>4. CASE CheckOpen
    BY <1>4 DEF CheckOpen, sock_open, INPROG, TransIsSent
  <1>5. CASE CheckLink
    BY <1>1, <1>5, SyncTrans DEF CheckLink
  <1>6. CASE RecvError \/ WaitLogin
    BY <1>1, <1>6 DEF RecvError, WaitLogin
  <1>7. CASE RecvLogin
    <2>1. UNCHANGED <<stat, sentp, cleared, lst, torn>> /\ gbpc = "recv"
      BY <1>7 DEF RecvLogin, sockVars, dataVars
    <2>2. CASE UNCHANGED <<online, gbpc>>
      BY <2>1, <2>2, SameTrans
    <2>3. CASE wait = "LOGIN" /\ gbpc' \in {"resume", "fresh"}
      <3>1. sentp = <<>>
        BY <1>0, <2>3 DEF Session, Callbacks, CLOSED
      <3> QED BY <2>1, <2>3, <3>1 DEF TransIsSent
    <2> QED BY <1>7, <2>2, <2>3 DEF RecvLogin
  <1>8. CASE RecvLogout
    <2>1. gb_reset \/ (UNCHANGED <<stat, online, gbpc>>)
      BY <1>8 DEF RecvLogout, sockVars
    <2>2. UNCHANGED <<sentp, cleared, lst, torn>>
      BY <1>8 DEF RecvLogout, dataVars
    <2> QED BY <1>1, <2>1, <2>2, SameTrans
  <1>9. CASE LoginResumeOne
    <2>1. UNCHANGED <<gbpc, sentp>> /\ gbpc = "resume"
      BY <1>9 DEF LoginResumeOne
    <2> QED BY <1>0, <2>1 DEF Callbacks, TransIsSent
  <1>10. CASE LoginResume
    <2>1. gbpc = "resume" /\ lst["trans"] = <<>> /\ UNCHANGED sentp
      BY <1>10 DEF LoginResume
    <2>2. lst'["trans"] = lst["trans"]
      BY <1>a, <1>10 DEF LoginResume, gb_data_flush_realtm, FlushRealtm, Lists
    <2> QED BY <1>0, <2>1, <2>2 DEF Callbacks, TransIsSent
  <1>11. CASE LoginFreshReport
    <2>1. gbpc = "fresh" /\ lst'["trans"] = <<>> /\ UNCHANGED sentp
      BY <1>11 DEF LoginFreshReport, gb_data_clear_report, ClearReport, Lists
    <2> QED BY <1>0, <2>1 DEF Callbacks, TransIsSent
  <1>12. CASE LoginFreshError
    BY <1>12, SameTrans DEF LoginFreshError, gb_data_clear_error, sockVars
  <1>13. CASE WaitLogout \/ gb_do_login \/ gb_do_logout
    <2>1. /\ gbpc \in {"wait", "login", "logout"} /\ UNCHANGED <<sentp, cleared, lst, torn>>
          /\ gb_reset \/ UNCHANGED <<sockVars, linkVars>> \/ \E kind, n : SendControl(kind, n)
      BY <1>13 DEF WaitLogout, gb_do_login, gb_do_logout, dataVars
    <2>2. gb_reset \/ UNCHANGED <<stat, online>>
      BY <2>1, ControlOutcome DEF sockVars
    <2> QED BY <1>1, <2>1, <2>2, SameTrans
  <1>14. CASE gb_do_suspend
    BY <1>1, <1>14, SameTrans DEF gb_do_suspend, sockVars, dataVars
  <1>15. CASE ReportTake
    <2>1. lst'["trans"] = lst["trans"]
      BY <1>a, <1>15 DEF ReportTake, gb_data_get_pack, Lists
    <2> QED BY <1>15, <2>1, SameTrans DEF ReportTake, gb_data_get_pack, sockVars
  <1>16. CASE ReportNoRoom
    BY <1>16, SameTrans DEF ReportNoRoom, ForgetPack, sockVars
  <1>17. CASE ReportSend
    BY <1>17, ReportTrans
  <1> QED BY <1>2, <1>3, <1>4, <1>5, <1>6, <1>7, <1>8, <1>9, <1>10, <1>11, <1>12, <1>13, <1>14,
             <1>15, <1>16, <1>17 DEF GbThread

-----------------------------------------------------------------------------
(* The core of the invariant, and what follows from it.                    *)

\* The configured address is one that was set, or none.
LEMMA AddrKept ==
    ASSUME CoreInv, Next
    PROVE  addr' \in Addrs \cup {NoAddr}
  <1> USE DEF protVars, confVars, CoreInv
  <1>1. CASE HandleMsg
    BY <1>1 DEF HandleMsg, MsgNetwork, MsgCanOn, MsgCanOff, MsgSuspend, MsgEmergency, MsgVin,
                MsgAddr, MsgConfigFailed
  <1>2. CASE GbThread /\ ~HandleMsg
    BY <1>2 DEF GbThread, CheckIdle, CheckOpen, CheckLink, RecvError, RecvNothing, RecvLogin,
           RecvLogout, LoginResumeOne, LoginResume, LoginFreshReport, LoginFreshError, WaitOn,
           WaitLogin, WaitLogout, gb_do_login, gb_do_suspend, ReportTake, ReportNone,
           ReportNoRoom, ReportSend, gb_do_logout
  <1>3. CASE Env
    BY <1>3 DEF Env, PostMsg, CanOn, CanOff, Reload, CanWork, CanStuck, Warn, Connect, Ack,
           Break, Answer, TimePasses, NewDay
  <1> QED BY <1>1, <1>2, <1>3 DEF Next

\* CoreInv is inductive: it holds at the start, and every step of the protocol thread, of
\* the CAN thread, the connect thread, the peer and the server keeps it.
THEOREM CoreInvInductive ==
    /\ Init => CoreInv
    /\ CoreInv /\ [Next]_vars => CoreInv'
  <1>1. ASSUME Init PROVE CoreInv
    <2>1. SockInv /\ OrderInv
      BY <1>1, InitSockInv, OrderInvInductive DEF Init
    <2>2. /\ stat = CLOSED /\ frag = 0 /\ datlk = "none" /\ hold = NoPack
          /\ gbpc = "msg" /\ ~online /\ wait = "none" /\ ~login /\ sentp = <<>>
          /\ addr \in Addrs \cup {NoAddr}
      BY <1>1 DEF Init, SockInit, DataInit, ProtInit
    <2>3. Session /\ PoolUse
      BY <2>2 DEF Session, PoolUse, AfterLogin, InSession
    <2>4. Callbacks /\ TransIsSent
      BY <2>2 DEF Callbacks, TransIsSent, CLOSED, OPENED
    <2> QED BY <2>1, <2>2, <2>3, <2>4 DEF CoreInv
  <1>2. ASSUME CoreInv, Next PROVE CoreInv'
    <2>1. SockInv' /\ frag' = 0 /\ OrderInv' /\ (inited => inited')
      BY <1>2, SockStep, DataStep, InitedStays
    <2>2. Session' /\ PoolUse' /\ Callbacks'
      BY <1>2, <2>1, GbSession, EnvSession, GbPoolUse, EnvPoolUse, GbCallbacks, EnvCallbacks
         DEF Next
    <2>3. TransIsSent'
      BY <1>2, GbTrans, EnvTrans DEF Next
    <2> QED BY <1>2, <2>1, <2>2, <2>3, AddrKept DEF CoreInv
  <1>3. ASSUME CoreInv, UNCHANGED vars PROVE CoreInv'
    <2>1. SockInv' /\ frag' = 0 /\ OrderInv'
      BY <1>3, SockStep, DataStep
    <2>2. UNCHANGED <<stat, used, gbpc, wait, online, login, inited, hold, datlk, sentp, cleared,
                      torn, lst, addr>>
      BY <1>3 DEF vars, sockVars, dataVars, protVars, linkVars, confVars, sessVars, histVars
    <2>3. Session' /\ PoolUse' /\ Callbacks' /\ TransIsSent'
      BY <1>3, <2>2 DEF CoreInv, Session, PoolUse, Callbacks, TransIsSent
    <2> QED BY <1>3, <2>1, <2>2, <2>3 DEF CoreInv
  <1> QED BY <1>1, <1>2, <1>3

\* The core of the invariant holds of every behaviour of the composed system.
THEOREM CoreInvHolds == Spec => []CoreInv
  BY CoreInvInductive, PTL DEF Spec

\* The client uses its socket as Sock lets a user: the composed specification implements
\* SockSpec, for every size of the sync lists, the pool and the inbox.
THEOREM ProtUsesSock == Spec => UsesSock
  <1>1. Init => SockInit
    BY DEF Init
  <1>2. CoreInv /\ [Next]_vars => [SockNext]_sockVars
    BY SockStep
  <1> QED BY <1>1, <1>2, CoreInvHolds, PTL DEF Spec, UsesSock, SockSpec

\* The client uses the report pool as GbData lets a user: a pack it takes is disposed of
\* before the next call, and it works on lists that have been initialised.
THEOREM ProtUsesPool == Spec => UsesPool
  <1>1. Init => DataInit
    BY DEF Init
  <1>2. CoreInv /\ [Next]_vars => [DataNext]_dataVars
    BY DataStep
  <1> QED BY <1>1, <1>2, CoreInvHolds, PTL DEF Spec, UsesPool, DataSpec

\* What is proved of the socket and of the pool on their own holds in the client: no frame
\* counts as delivered before all of it is acknowledged, no sync entry is lost, no report is
\* in two places, of the wrong type or out of order.
THEOREM PartsSoundInUse ==
    Spec => [](SyncEntriesSound /\ ReleasedWereAcked /\ OnePlace /\ ListMatchesType
               /\ ReportsInOrder)
  BY ProtUsesSock, ProtUsesPool, SyncEntriesAlwaysSound, NeverReleasedEarly, PacksInOnePlace,
     ListAlwaysMatchesType, ReportsAlwaysInOrder, PTL DEF UsesSock, UsesPool

\* The callback of a report's sync entry frees the pack that was sent with it, across
\* resets, reconnections, refused sends and repeated log-ins.
THEOREM AcksAlwaysMatch == Spec => []ReportAcksMatch
  <1>1. CoreInv => ReportAcksMatch
    BY DEF CoreInv, TransIsSent, ReportAcksMatch
  <1> QED BY <1>1, CoreInvHolds, PTL

-----------------------------------------------------------------------------
(* The server a session is with, and the permission to sleep.              *)

\* A connection is to the configured server, or the address has changed while it was
\* being made.
Server == stat # CLOSED => peer = addr \/ moved

\* Only at the top of its loop is gb_main allowed to sleep; a log-out that is awaited began
\* on a quiet bus.
Sleep ==
    /\ gbpc \notin {"msg", "check"} => ~allow_sleep
    /\ allow_sleep => ~online
    /\ wait = "LOGOUT" /\ can => woke
    /\ allow_sleep /\ can => woke

LEMMA ServerKept ==
    ASSUME CoreInv, Server, Next
    PROVE  Server'
  <1> USE DEF protVars, linkVars, confVars, sessVars, seqVars, envVars, histVars, sockVars
  <1>1. ASSUME UNCHANGED <<peer, addr, moved>>, stat' # CLOSED => stat # CLOSED PROVE Server'
    BY <1>1 DEF Server
  <1>2. gb_reset => UNCHANGED peer /\ (stat' # CLOSED => stat # CLOSED)
    BY ResetEndsSession
  <1>3. CASE HandleMsg
    <2>1. CASE \E a \in Addrs : MsgAddr(a)
      <3>1. gb_reset /\ moved' = (moved \/ stat = INPROG)
        BY <2>1 DEF MsgAddr
      <3>2. stat' # CLOSED => stat = INPROG
        <4>1. stat \in {CLOSED, INPROG, OPENED}
          BY DEF CoreInv, SockInv, SockTypeOK
        <4> QED BY <3>1, <4>1, ResetEndsSession
      <3> QED BY <3>1, <3>2 DEF Server
    <2>2. CASE UNCHANGED <<addr, moved>> /\ (gb_reset \/ UNCHANGED sockVars)
      BY <1>1, <1>2, <2>2
    <2> QED BY <1>3, <2>1, <2>2 DEF HandleMsg, MsgNetwork, MsgCanOn, MsgCanOff, MsgSuspend,
            MsgEmergency, MsgVin, MsgConfigFailed
  <1>4. CASE CheckOpen
    BY <1>4 DEF CheckOpen, sock_open, sock_cleanup, Server
  <1>5. CASE CheckLink
    <2>1. UNCHANGED <<addr, moved>> /\ (gb_reset \/ sock_sync)
      BY <1>5 DEF CheckLink
    <2> QED BY <1>1, <1>2, <2>1 DEF sock_sync
  <1>6. CASE CheckIdle \/ RecvError \/ RecvNothing \/ RecvLogin \/ RecvLogout
             \/ LoginResumeOne \/ LoginResume \/ LoginFreshReport \/ LoginFreshError \/ WaitOn
             \/ WaitLogin \/ gb_do_suspend \/ ReportTake \/ ReportNone \/ ReportNoRoom
    <2>1. UNCHANGED <<addr, moved>> /\ (gb_reset \/ UNCHANGED sockVars)
      BY <1>6 DEF CheckIdle, RecvError, RecvNothing, RecvLogin, RecvLogout, LoginResumeOne,
             LoginResume, LoginFreshReport, LoginFreshError, WaitOn, WaitLogin, gb_do_suspend,
             ReportTake, ReportNone, ReportNoRoom
    <2> QED BY <1>1, <1>2, <2>1
  <1>7. CASE WaitLogout \/ gb_do_login \/ gb_do_logout
    <2>1. /\ UNCHANGED <<addr, moved>>
          /\ gb_reset \/ UNCHANGED sockVars \/ \E kind, n : SendControl(kind, n)
      BY <1>7 DEF WaitLogout, gb_do_login, gb_do_logout
    <2> QED BY <1>1, <1>2, <2>1, ControlOutcome
  <1>8. CASE ReportSend
    <2>1. RepLen \in Nat \ {0}
      BY ProtAssumption, SockAssumption
    <2>2. UNCHANGED <<addr, moved>> /\ (gb_reset \/ UNCHANGED <<stat, peer>>)
      BY <1>8, <2>1, SendOutcome DEF ReportSend, SendWhole
    <2> QED BY <1>1, <1>2, <2>2
  <1>9. CASE Env
    <2>1. UNCHANGED <<addr, moved, peer>>
      BY <1>9 DEF Env, PostMsg, CanOn, CanOff, Reload, CanWork, CanStuck, Warn, Connect,
             sock_open_proc, sock_finish, Ack, TcpAck, Break, TcpBreak, Answer, TimePasses, NewDay
    <2>2. CASE Connect
      BY <1>1, <2>1, <2>2 DEF Connect, sock_open_proc, sock_finish, CoreInv, SockInv, Connecting,
                  INPROG, CLOSED
    <2>3. CASE UNCHANGED stat
      BY <1>1, <2>1, <2>3
    <2> QED BY <1>9, <2>2, <2>3 DEF Env, PostMsg, CanOn, CanOff, Reload, CanWork, CanStuck, Warn,
            Ack, TcpAck, Break, TcpBreak, Answer, TimePasses, NewDay
  <1> QED BY <1>3, <1>4, <1>5, <1>6, <1>7, <1>8, <1>9 DEF Next, GbThread

LEMMA SleepKept ==
    ASSUME CoreInv, Sleep, Next
    PROVE  Sleep'
  <1> USE DEF protVars, linkVars, confVars, sessVars, seqVars, envVars, histVars
  <1>0. Session
    BY DEF CoreInv
  <1>1. ASSUME UNCHANGED <<allow_sleep, can, woke>>,
               gbpc' \in {"msg", "check"} \/ ~allow_sleep,
               online' => online \/ ~allow_sleep,
               wait' = "LOGOUT" => wait = "LOGOUT" \/ ~can
        PROVE  Sleep'
    BY <1>1 DEF Sleep
  <1>2. gb_reset => ~online' /\ wait' = "none"
    BY ResetEndsSession
  <1>3. CASE HandleMsg
    <2>1. gbpc' = "check"
      BY <1>3 DEF HandleMsg
    <2>2. CASE MsgCanOn
      BY <1>0, <2>1, <2>2 DEF MsgCanOn, Sleep, Session
    <2>3. CASE MsgCanOff
      BY <1>0, <2>1, <2>3 DEF MsgCanOff, Sleep, Session
    <2>4. CASE UNCHANGED <<allow_sleep, can, woke>> /\ (gb_reset \/ UNCHANGED linkVars)
      BY <1>1, <1>2, <2>1, <2>4
    <2> QED BY <1>3, <2>2, <2>3, <2>4 DEF HandleMsg, MsgNetwork, MsgSuspend, MsgEmergency, MsgVin,
            MsgAddr, MsgConfigFailed
  <1>4. CASE CheckIdle \/ CheckOpen
    BY <1>1, <1>4 DEF CheckIdle, CheckOpen
  <1>5. CASE CheckLink
    BY <1>1, <1>2, <1>5 DEF CheckLink
  <1>6. CASE RecvError \/ WaitOn \/ WaitLogin
    BY <1>1, <1>2, <1>6 DEF RecvError, WaitOn, WaitLogin
  <1>7. CASE RecvNothing \/ RecvLogin
    <2>1. ~allow_sleep /\ UNCHANGED <<allow_sleep, can, woke>>
      BY <1>7 DEF RecvNothing, RecvLogin, Sleep
    <2>2. wait' = "LOGOUT" => wait = "LOGOUT"
      BY <1>7 DEF RecvNothing, RecvLogin
    <2> QED BY <1>1, <2>1, <2>2
  <1>8. CASE RecvLogout
    <2>1. CASE gb_reset /\ gbpc' = "msg" /\ wait = "LOGOUT" /\ UNCHANGED <<can, woke>>
      BY <1>2, <2>1 DEF Sleep
    <2>2. CASE UNCHANGED <<gbpc, online, wait, allow_sleep, can, woke>>
      BY <2>2 DEF Sleep
    <2> QED BY <1>8, <2>1, <2>2 DEF RecvLogout
  <1>9. CASE LoginResumeOne \/ LoginResume \/ LoginFreshReport \/ LoginFreshError
    <2>1. ~allow_sleep /\ UNCHANGED <<allow_sleep, can, woke, online, wait>>
      BY <1>9 DEF LoginResumeOne, LoginResume, LoginFreshReport, LoginFreshError, Sleep
    <2> QED BY <1>1, <2>1
  <1>10. ASSUME NEW kind, NEW n, SendControl(kind, n), gbpc' = "msg",
                UNCHANGED <<allow_sleep, can, woke>>,
                kind = "LOGOUT" => wait = "LOGOUT" \/ ~can
         PROVE  Sleep'
    BY <1>1, <1>2, <1>10, ControlOutcome
  <1>11. CASE WaitLogout
    <2>1. CASE gb_reset /\ gbpc' = "msg" /\ wait = "LOGOUT" /\ UNCHANGED <<can, woke>>
      BY <1>2, <2>1 DEF Sleep
    <2>2. CASE SendControl("LOGOUT", retry + 1) /\ UNCHANGED sessVars
      BY <1>10, <1>11, <2>2 DEF WaitLogout
    <2> QED BY <1>11, <2>1, <2>2 DEF WaitLogout
  <1>12. CASE gb_do_login
    BY <1>1, <1>10, <1>12 DEF gb_do_login
  <1>13. CASE gb_do_logout
    BY <1>1, <1>10, <1>13 DEF gb_do_logout
  <1>14. CASE gb_do_suspend \/ ReportTake \/ ReportNone \/ ReportNoRoom \/ ReportSend
    <2>1. ~allow_sleep /\ UNCHANGED <<allow_sleep, can, woke>>
      BY <1>14 DEF gb_do_suspend, ReportTake, ReportNone, ReportNoRoom, ReportSend, Sleep
    <2>2. gb_reset \/ UNCHANGED <<wait, online>>
      BY <1>14 DEF gb_do_suspend, ReportTake, ReportNone, ReportNoRoom, ReportSend
    <2> QED BY <1>1, <1>2, <2>1, <2>2
  <1>15. CASE Env
    <2>1. UNCHANGED <<gbpc, wait, online, allow_sleep, can, woke>>
      BY <1>15 DEF Env, PostMsg, CanOn, CanOff, Reload, CanWork, CanStuck, Warn, Connect, Ack,
             Break, Answer, TimePasses, NewDay
    <2> QED BY <2>1 DEF Sleep
  <1> QED BY <1>3, <1>4, <1>5, <1>6, <1>7, <1>8, <1>9, <1>11, <1>12, <1>13, <1>14, <1>15
          DEF Next, GbThread

-----------------------------------------------------------------------------
(* The registration number of a log-in and of its log-out.                 *)

\* The number of the log-in that is awaited, or whose answer is being handled, is the
\* current one; from then on it is the one before.
Numbers ==
    /\ regseq \in 0 .. MaxSeq /\ loginSeq \in 0 .. MaxSeq
    /\ today => regseq >= 1
    /\ wait = "LOGIN" \/ gbpc \in AfterLogin => regseq = loginSeq /\ regseq >= 1
    /\ online /\ gbpc \notin AfterLogin => LogoutSeq = loginSeq

\* The number a log-out carries after the number was advanced, also across the wrap.
LEMMA NextThenLogout ==
    ASSUME regseq \in 1 .. MaxSeq, regseq' = NextSeq
    PROVE  regseq' \in 1 .. MaxSeq /\ LogoutSeq' = regseq
  BY ProtAssumption DEF NextSeq, LogoutSeq

LEMMA NumbersKept ==
    ASSUME CoreInv, Numbers, Next
    PROVE  Numbers'
  <1> USE DEF protVars, linkVars, confVars, sessVars, seqVars, envVars, histVars
  <1>0. Session
    BY DEF CoreInv
  <1>1. ASSUME UNCHANGED <<regseq, loginSeq>>, today' => today,
               wait' = "LOGIN" => wait = "LOGIN",
               gbpc' \in AfterLogin => gbpc \in AfterLogin \/ wait = "LOGIN",
               online' /\ gbpc' \notin AfterLogin => online /\ gbpc \notin AfterLogin
        PROVE  Numbers'
    BY <1>1 DEF Numbers, LogoutSeq
  <1>2. gb_reset => ~online' /\ wait' = "none"
    BY ResetEndsSession
  <1>3. "msg" \notin AfterLogin /\ "check" \notin AfterLogin /\ "recv" \notin AfterLogin
        /\ "wait" \notin AfterLogin /\ "login" \notin AfterLogin
        /\ InSession \cap AfterLogin = {}
    BY DEF AfterLogin, InSession
  <1>4. CASE HandleMsg
    <2>1. gbpc = "msg" /\ gbpc' = "check" /\ UNCHANGED seqVars
      BY <1>4 DEF HandleMsg
    <2>2. gb_reset \/ UNCHANGED linkVars
      BY <1>4 DEF HandleMsg, MsgNetwork, MsgCanOn, MsgCanOff, MsgSuspend, MsgEmergency, MsgVin,
            MsgAddr, MsgConfigFailed
    <2> QED BY <1>1, <1>2, <1>3, <2>1, <2>2
  <1>5. CASE CheckIdle \/ CheckOpen \/ CheckLink
    <2>1. UNCHANGED seqVars /\ gbpc \in {"msg", "check"} /\ gbpc' \in {"msg", "recv"}
      BY <1>5 DEF CheckIdle, CheckOpen, CheckLink, AtCheck
    <2>2. gb_reset \/ UNCHANGED linkVars
      BY <1>5 DEF CheckIdle, CheckOpen, CheckLink
    <2> QED BY <1>1, <1>2, <1>3, <2>1, <2>2
  <1>6. CASE RecvError \/ WaitOn \/ WaitLogin \/ RecvLogout
    <2>1. UNCHANGED seqVars /\ gbpc \in {"recv", "wait"} /\ gbpc' \in {"msg", gbpc}
      BY <1>6 DEF RecvError, WaitOn, WaitLogin, RecvLogout
    <2>2. gb_reset \/ UNCHANGED <<wait, online>>
      BY <1>6 DEF RecvError, WaitOn, WaitLogin, RecvLogout
    <2> QED BY <1>1, <1>2, <1>3, <2>1, <2>2
  <1>7. CASE RecvNothing
    <2>1. UNCHANGED <<seqVars, wait, online>> /\ gbpc = "recv" /\ gbpc' \in {"wait", "suspend", "login"}
      BY <1>7 DEF RecvNothing
    <2> QED BY <1>1, <1>3, <2>1 DEF InSession
  <1>8. CASE RecvLogin
    <2>1. UNCHANGED seqVars /\ gbpc = "recv" /\ wait' \in {"none", wait}
      BY <1>8 DEF RecvLogin
    <2>2. \/ UNCHANGED <<online, gbpc>>
          \/ wait = "LOGIN" /\ gbpc' \in AfterLogin
      BY <1>8 DEF RecvLogin, AfterLogin
    <2> QED BY <1>1, <1>3, <2>1, <2>2
  <1>9. CASE LoginResumeOne \/ LoginFreshReport
    <2>1. UNCHANGED <<seqVars, wait, online>> /\ gbpc \in AfterLogin /\ gbpc' \in AfterLogin
      BY <1>9 DEF LoginResumeOne, LoginFreshReport, AfterLogin
    <2> QED BY <1>1, <2>1
  <1>10. CASE LoginResume \/ LoginFreshError
    <2>1. /\ regseq' = NextSeq /\ UNCHANGED <<today, loginSeq, wait, online>>
          /\ gbpc \in AfterLogin /\ gbpc' = "recv"
      BY <1>10 DEF LoginResume, LoginFreshError, AfterLogin
    <2>2. wait = "none"
      BY <1>0, <2>1 DEF Session
    <2>3. regseq \in 1 .. MaxSeq /\ regseq = loginSeq
      BY <2>1, ProtAssumption DEF Numbers
    <2>4. regseq' \in 1 .. MaxSeq /\ LogoutSeq' = loginSeq'
      BY <2>1, <2>3, NextThenLogout
    <2>5. regseq' \in 0 .. MaxSeq /\ regseq' >= 1 /\ loginSeq' \in 0 .. MaxSeq
      BY <2>1, <2>4, ProtAssumption DEF Numbers
    <2> QED BY <1>3, <2>1, <2>2, <2>4, <2>5 DEF Numbers
  <1>11. CASE WaitLogout \/ gb_do_logout
    <2>1. UNCHANGED seqVars /\ gbpc \in {"wait", "logout"} /\ gbpc' = "msg"
      BY <1>11 DEF WaitLogout, gb_do_logout
    <2>2. gb_reset \/ UNCHANGED linkVars \/ \E n : SendControl("LOGOUT", n)
      BY <1>11 DEF WaitLogout, gb_do_logout
    <2>3. gb_reset \/ (wait' \in {wait, "LOGOUT"} /\ UNCHANGED online)
      BY <2>2, ControlOutcome
    <2> QED BY <1>1, <1>2, <1>3, <2>1, <2>3 DEF InSession
  <1>12. CASE gb_do_login
    <2>1. gbpc' = "msg" /\ gbpc = "login" /\ ~online
      BY <1>0, <1>12 DEF gb_do_login, Session
    <2>2. CASE UNCHANGED <<seqVars, linkVars>>
      BY <1>1, <1>3, <2>1, <2>2
    <2>3. CASE gb_pack_login /\ SendControl("LOGIN", retry)
      <3>1. ~online'
        BY <1>2, <2>1, <2>3, ControlOutcome
      <3>2. /\ regseq' \in 0 .. MaxSeq /\ regseq' >= 1 /\ loginSeq' = regseq'
        BY <2>3, ProtAssumption DEF gb_pack_login, Numbers
      <3> QED BY <1>3, <2>1, <3>1, <3>2 DEF Numbers
    <2> QED BY <1>12, <2>2, <2>3 DEF gb_do_login
  <1>13. CASE gb_do_suspend \/ ReportTake \/ ReportNone \/ ReportNoRoom \/ ReportSend
    <2>1. UNCHANGED seqVars /\ gbpc \in InSession /\ gbpc' \in InSession \cup {"msg"}
      BY <1>13 DEF gb_do_suspend, ReportTake, ReportNone, ReportNoRoom, ReportSend, InSession
    <2>2. gb_reset \/ UNCHANGED <<wait, online>>
      BY <1>13 DEF gb_do_suspend, ReportTake, ReportNone, ReportNoRoom, ReportSend
    <2> QED BY <1>1, <1>2, <1>3, <2>1, <2>2
  <1>14. CASE Env
    <2>1. UNCHANGED <<gbpc, wait, online, regseq, loginSeq>> /\ (today' => today)
      BY <1>14 DEF Env, PostMsg, CanOn, CanOff, Reload, CanWork, CanStuck, Warn, Connect, Ack,
             Break, Answer, TimePasses, NewDay
    <2> QED BY <1>1, <2>1
  <1> QED BY <1>4, <1>5, <1>6, <1>7, <1>8, <1>9, <1>10, <1>11, <1>12, <1>13, <1>14
          DEF Next, GbThread

-----------------------------------------------------------------------------
(* The frames the server has not answered, and the types.                  *)

Kinds == {"LOGIN", "LOGOUT"}

\* At most one log-in is unanswered, and a log-out once for every time it was sent.
Unanswered ==
    /\ retry \in 0 .. 3
    /\ asked \in [Kinds -> 0 .. 4]
    /\ wait \in {"none", "LOGIN", "LOGOUT"}
    /\ rx \in Answers \cup {NoAnswer}
    /\ wait # "LOGIN" => asked["LOGIN"] = 0
    /\ wait = "LOGIN" => asked["LOGIN"] <= 1
    /\ rx \in {"LOGIN_OK", "LOGIN_NO"} => wait = "LOGIN" /\ asked["LOGIN"] = 0
    /\ wait # "LOGOUT" => retry = 0 /\ asked["LOGOUT"] = 0
    /\ wait = "LOGOUT" => asked["LOGOUT"] <= retry + 1

\* The types of the switches, and of the place in gb_main.
ProtSwitches ==
    /\ waited \in BOOLEAN /\ late \in BOOLEAN /\ online \in BOOLEAN /\ login \in BOOLEAN
    /\ suspend \in BOOLEAN /\ can \in BOOLEAN /\ network \in BOOLEAN
    /\ allow_sleep \in BOOLEAN /\ today \in BOOLEAN
ProtPlace ==
    gbpc \in {"msg", "check", "recv", "wait", "login"} \cup AfterLogin \cup InSession

\* gb_reset leaves nothing unanswered.
LEMMA ResetUnanswered == gb_reset => Unanswered'
  <1> SUFFICES ASSUME gb_reset PROVE Unanswered'
    OBVIOUS
  <1>1. wait' = "none" /\ retry' = 0 /\ rx' = NoAnswer /\ asked' = [k \in Kinds |-> 0]
    BY ResetEndsSession DEF NothingAsked, Kinds
  <1> QED BY <1>1 DEF Unanswered, NoAnswer, Kinds

\* A control frame is one frame more to be answered.
LEMMA ControlUnanswered ==
    ASSUME Unanswered, NEW kind \in Kinds, NEW n \in 0 .. 3, SendControl(kind, n),
           kind = "LOGIN" => wait = "none" /\ n = retry,
           kind = "LOGOUT" => \/ wait = "none" /\ n = retry
                              \/ wait = "LOGOUT" /\ n = retry + 1
    PROVE  Unanswered'
  <1> USE DEF Kinds
  <1>1. CASE gb_reset
    BY <1>1, ResetUnanswered
  <1>2. CASE retry' = n /\ UNCHANGED <<wait, asked, rx>>
    BY <1>2 DEF Unanswered
  <1>3. CASE /\ retry' = n /\ wait' = kind /\ UNCHANGED rx
             /\ asked' = [asked EXCEPT ![kind] = @ + 1]
    <2>1. CASE kind = "LOGIN"
      <3>1. asked["LOGIN"] = 0 /\ asked["LOGOUT"] = 0 /\ retry = 0
        BY <2>1 DEF Unanswered
      <3>2. asked'["LOGIN"] = 1 /\ asked'["LOGOUT"] = 0 /\ asked' \in [Kinds -> 0 .. 4]
        BY <1>3, <2>1, <3>1 DEF Unanswered
      <3> QED BY <1>3, <2>1, <3>1, <3>2 DEF Unanswered
    <2>2. CASE kind = "LOGOUT"
      <3>1. asked["LOGIN"] = 0 /\ asked["LOGOUT"] \in 0 .. n
        BY <2>2 DEF Unanswered
      <3>2. /\ asked'["LOGIN"] = 0 /\ asked'["LOGOUT"] = asked["LOGOUT"] + 1
            /\ asked' \in [Kinds -> 0 .. 4]
        BY <1>3, <2>2, <3>1 DEF Unanswered
      <3> QED BY <1>3, <2>2, <3>1, <3>2 DEF Unanswered
    <2> QED BY <2>1, <2>2
  <1> QED BY <1>1, <1>2, <1>3, ControlOutcome

\* The server answers one of the frames it was sent.
LEMMA AnswerUnanswered ==
    ASSUME Unanswered, Answer
    PROVE  Unanswered'
  <1> USE DEF Kinds, linkVars
  <1>1. PICK k \in Kinds : /\ asked[k] > 0 /\ asked' = [asked EXCEPT ![k] = @ - 1]
                           /\ rx' \in (IF k = "LOGIN" THEN {"LOGIN_OK", "LOGIN_NO"}
                                                      ELSE {"LOGOUT_OK", "LOGOUT_NO"})
    BY DEF Answer
  <1>2. UNCHANGED <<wait, retry>>
    BY DEF Answer
  <1>3. asked["LOGIN"] \in 0 .. 4 /\ asked["LOGOUT"] \in 0 .. 4
    BY DEF Unanswered
  <1>4. CASE k = "LOGIN"
    <2>1. /\ asked'["LOGIN"] = asked["LOGIN"] - 1 /\ asked'["LOGOUT"] = asked["LOGOUT"]
          /\ asked' \in [Kinds -> 0 .. 4]
      BY <1>1, <1>3, <1>4 DEF Unanswered
    <2>2. wait = "LOGIN" /\ asked["LOGIN"] = 1
      BY <1>1, <1>3, <1>4 DEF Unanswered
    <2> QED BY <1>1, <1>2, <1>4, <2>1, <2>2 DEF Unanswered, Answers
  <1>5. CASE k = "LOGOUT"
    <2>1. /\ asked'["LOGOUT"] = asked["LOGOUT"] - 1 /\ asked'["LOGIN"] = asked["LOGIN"]
          /\ asked' \in [Kinds -> 0 .. 4]
      BY <1>1, <1>3, <1>5 DEF Unanswered
    <2>2. wait = "LOGOUT"
      BY <1>1, <1>3, <1>5 DEF Unanswered
    <2> QED BY <1>1, <1>2, <1>3, <1>5, <2>1, <2>2 DEF Unanswered, Answers
  <1> QED BY <1>4, <1>5

LEMMA UnansweredKept ==
    ASSUME CoreInv, Unanswered, Next
    PROVE  Unanswered'
  <1> USE DEF protVars, linkVars, confVars, sessVars, seqVars, envVars, histVars
  <1>0. Session
    BY DEF CoreInv
  <1>1. ASSUME UNCHANGED <<retry, asked, wait, rx>> PROVE Unanswered'
    BY <1>1 DEF Unanswered
  <1>2. CASE HandleMsg \/ CheckIdle \/ CheckOpen \/ CheckLink \/ RecvError \/ RecvNothing
             \/ LoginResumeOne \/ LoginResume \/ LoginFreshReport \/ LoginFreshError
             \/ WaitOn \/ WaitLogin \/ gb_do_suspend \/ ReportTake \/ ReportNone
             \/ ReportNoRoom \/ ReportSend
    <2>1. gb_reset \/ UNCHANGED linkVars
      <3>1. CASE HandleMsg
        BY <3>1 DEF HandleMsg, MsgNetwork, MsgCanOn, MsgCanOff, MsgSuspend, MsgEmergency, MsgVin,
            MsgAddr, MsgConfigFailed
      <3> QED BY <1>2, <3>1 DEF CheckIdle, CheckOpen, CheckLink, RecvError, RecvNothing,
            LoginResumeOne, LoginResume, LoginFreshReport, LoginFreshError, WaitOn, WaitLogin,
            gb_do_suspend, ReportTake, ReportNone, ReportNoRoom, ReportSend
    <2> QED BY <1>1, <2>1, ResetUnanswered
  <1>3. CASE RecvLogin
    <2>1. UNCHANGED <<retry, asked>> /\ rx' = NoAnswer /\ rx \in {"LOGIN_OK", "LOGIN_NO"}
      BY <1>3 DEF RecvLogin
    <2>2. wait = "LOGIN" /\ asked["LOGIN"] = 0 /\ wait' = "none"
      BY <1>3, <2>1 DEF RecvLogin, Unanswered
    <2> QED BY <2>1, <2>2 DEF Unanswered, NoAnswer
  <1>4. CASE RecvLogout
    <2>1. gb_reset \/ (UNCHANGED <<retry, asked, wait>> /\ rx' = NoAnswer)
      BY <1>4 DEF RecvLogout
    <2>2. UNCHANGED <<retry, asked, wait>> /\ rx' = NoAnswer => Unanswered'
      BY DEF Unanswered, NoAnswer
    <2> QED BY <2>1, <2>2, ResetUnanswered
  <1>5. CASE WaitLogout
    <2>1. CASE gb_reset
      BY <2>1, ResetUnanswered
    <2>2. CASE retry + 1 <= 3 /\ SendControl("LOGOUT", retry + 1)
      <3>1. wait = "LOGOUT" /\ retry + 1 \in 0 .. 3
        BY <1>5, <2>2 DEF WaitLogout, Unanswered
      <3> QED BY <2>2, <3>1, ControlUnanswered DEF Kinds
    <2>3. retry \in 0 .. 3
      BY DEF Unanswered
    <2> QED BY <1>5, <2>1, <2>2, <2>3 DEF WaitLogout
  <1>6. CASE gb_do_login \/ gb_do_logout
    <2>1. wait = "none" /\ retry \in 0 .. 3
      BY <1>0, <1>6 DEF gb_do_login, gb_do_logout, Session, InSession, Unanswered
    <2>2. UNCHANGED linkVars \/ SendControl("LOGIN", retry) \/ SendControl("LOGOUT", retry)
      BY <1>6 DEF gb_do_login, gb_do_logout
    <2> QED BY <1>1, <2>1, <2>2, ControlUnanswered DEF Kinds
  <1>7. CASE Env
    <2>1. CASE Answer
      BY <2>1, AnswerUnanswered
    <2>2. CASE ~Answer
      <3>1. UNCHANGED <<retry, asked, wait, rx>>
        BY <1>7, <2>2 DEF Env, PostMsg, CanOn, CanOff, Reload, CanWork, CanStuck, Warn, Connect,
             Ack, Break, TimePasses, NewDay
      <3> QED BY <1>1, <3>1
    <2> QED BY <2>1, <2>2
  <1> QED BY <1>2, <1>3, <1>4, <1>5, <1>6, <1>7 DEF Next, GbThread

LEMMA PlaceKept ==
    ASSUME ProtPlace, Next
    PROVE  ProtPlace'
  <1> USE DEF ProtPlace, protVars, AfterLogin, InSession
  <1>1. CASE Env
    <2>1. UNCHANGED gbpc
      BY <1>1 DEF Env, PostMsg, CanOn, CanOff, Reload, CanWork, CanStuck, Warn, Connect, Ack,
             Break, Answer, TimePasses, NewDay
    <2> QED BY <2>1
  <1>2. CASE GbThread
    BY <1>2 DEF GbThread, HandleMsg, CheckIdle, CheckOpen, CheckLink, RecvError, RecvNothing,
           RecvLogin, RecvLogout, LoginResumeOne, LoginResume, LoginFreshReport,
           LoginFreshError, WaitOn, WaitLogin, WaitLogout, gb_do_login, gb_do_suspend,
           ReportTake, ReportNone, ReportNoRoom, ReportSend, gb_do_logout
  <1> QED BY <1>1, <1>2 DEF Next

LEMMA SwitchesKept ==
    ASSUME ProtSwitches, Next
    PROVE  ProtSwitches'
  <1> USE DEF protVars, linkVars, confVars, sessVars, seqVars, envVars, histVars
  <1>1. gb_reset => waited' \in BOOLEAN /\ late' \in BOOLEAN /\ online' \in BOOLEAN
    BY Zenon DEF gb_reset
  <1>2. ASSUME NEW kind, NEW n, SendControl(kind, n)
        PROVE  waited' \in BOOLEAN /\ late' \in BOOLEAN /\ online' \in BOOLEAN
    <2>1. CASE gb_reset
      BY <1>1, <2>1
    <2>2. CASE UNCHANGED online /\ UNCHANGED <<waited, late>>
      BY <2>2 DEF ProtSwitches
    <2>3. CASE UNCHANGED online /\ waited' = TRUE /\ late' = FALSE
      BY <2>3, Zenon DEF ProtSwitches
    <2> QED BY <1>2, <2>1, <2>2, <2>3, ControlOutcome
  <1>3. CASE HandleMsg
    <2>1. UNCHANGED today
      BY <1>3 DEF HandleMsg
    <2>2. gb_reset \/ UNCHANGED linkVars
      BY <1>3 DEF HandleMsg, MsgNetwork, MsgCanOn, MsgCanOff, MsgSuspend, MsgEmergency, MsgVin,
            MsgAddr, MsgConfigFailed
    <2>3. waited' \in BOOLEAN /\ late' \in BOOLEAN /\ online' \in BOOLEAN
      BY <1>1, <2>2 DEF ProtSwitches
    <2>4. CASE \E up \in BOOLEAN : MsgNetwork(up) \/ MsgSuspend(up)
      BY <2>1, <2>3, <2>4, Zenon DEF MsgNetwork, MsgSuspend, ProtSwitches
    <2>5. CASE MsgCanOn \/ MsgCanOff
      BY <2>1, <2>3, <2>5, Zenon DEF MsgCanOn, MsgCanOff, ProtSwitches
    <2>6. CASE UNCHANGED <<suspend, can, network, login, allow_sleep>>
      BY <2>1, <2>3, <2>6, Zenon DEF ProtSwitches
    <2>7. \A x, y : (x = y) \in BOOLEAN
      BY Zenon
    <2> QED BY <1>3, <2>4, <2>5, <2>6, <2>7, Zenon DEF HandleMsg, MsgEmergency, MsgVin, MsgAddr,
            MsgConfigFailed
  <1>4. CASE CheckIdle \/ CheckOpen \/ CheckLink \/ RecvError \/ RecvNothing \/ LoginResumeOne
             \/ LoginResume \/ LoginFreshReport \/ WaitOn \/ WaitLogin
             \/ gb_do_suspend \/ ReportTake \/ ReportNone \/ ReportNoRoom \/ ReportSend
    <2>1. gb_reset \/ UNCHANGED linkVars
      BY <1>4 DEF CheckIdle, CheckOpen, CheckLink, RecvError, RecvNothing, LoginResumeOne,
            LoginResume, LoginFreshReport, WaitOn, WaitLogin, gb_do_suspend, ReportTake,
            ReportNone, ReportNoRoom, ReportSend
    <2>2. UNCHANGED <<confVars, sessVars, today>>
      BY <1>4 DEF CheckIdle, CheckOpen, CheckLink, RecvError, RecvNothing, LoginResumeOne,
            LoginResume, LoginFreshReport, WaitOn, WaitLogin, gb_do_suspend, ReportTake,
            ReportNone, ReportNoRoom, ReportSend
    <2> QED BY <1>1, <2>1, <2>2 DEF ProtSwitches
  <1>5. CASE RecvLogin
    BY <1>5, Zenon DEF RecvLogin, ProtSwitches
  <1>6. CASE RecvLogout \/ WaitLogout
    <2>1. UNCHANGED <<confVars, today>>
      BY <1>6 DEF RecvLogout, WaitLogout
    <2>2. gb_reset \/ UNCHANGED <<waited, late, online>> \/ \E n : SendControl("LOGOUT", n)
      BY <1>6 DEF RecvLogout, WaitLogout
    <2>3. waited' \in BOOLEAN /\ late' \in BOOLEAN /\ online' \in BOOLEAN
      BY <1>1, <1>2, <2>2 DEF ProtSwitches
    <2>4. login' \in BOOLEAN /\ allow_sleep' \in BOOLEAN
      BY <1>6, Zenon DEF RecvLogout, WaitLogout, ProtSwitches
    <2> QED BY <2>1, <2>3, <2>4 DEF ProtSwitches
  <1>7. CASE LoginFreshError
    BY <1>7, Zenon DEF LoginFreshError, ProtSwitches
  <1>8. CASE gb_do_login \/ gb_do_logout
    <2>1. UNCHANGED <<confVars, sessVars>>
      BY <1>8 DEF gb_do_login, gb_do_logout
    <2>2. UNCHANGED linkVars \/ \E kind, n : SendControl(kind, n)
      BY <1>8 DEF gb_do_login, gb_do_logout
    <2>3. waited' \in BOOLEAN /\ late' \in BOOLEAN /\ online' \in BOOLEAN
      BY <1>2, <2>2 DEF ProtSwitches
    <2>4. today' \in BOOLEAN
      BY <1>8, Zenon DEF gb_do_login, gb_do_logout, gb_pack_login, ProtSwitches
    <2> QED BY <2>1, <2>3, <2>4 DEF ProtSwitches
  <1>9. CASE Env
    <2>1. UNCHANGED <<waited, online, confVars, sessVars>>
      BY <1>9 DEF Env, PostMsg, CanOn, CanOff, Reload, CanWork, CanStuck, Warn, Connect, Ack,
             Break, Answer, TimePasses, NewDay
    <2>2. UNCHANGED late \/ late' = TRUE
      BY <1>9 DEF Env, PostMsg, CanOn, CanOff, Reload, CanWork, CanStuck, Warn, Connect, Ack,
             Break, Answer, TimePasses, NewDay
    <2>3. UNCHANGED today \/ today' = FALSE
      BY <1>9 DEF Env, PostMsg, CanOn, CanOff, Reload, CanWork, CanStuck, Warn, Connect, Ack,
             Break, Answer, TimePasses, NewDay
    <2> QED BY <2>1, <2>2, <2>3, Zenon DEF ProtSwitches
  <1> QED BY <1>3, <1>4, <1>5, <1>6, <1>7, <1>8, <1>9 DEF Next, GbThread

-----------------------------------------------------------------------------
(* The invariant of the client, and its theorems.                          *)

ProtInv ==
    /\ CoreInv /\ Server /\ Sleep /\ Numbers
    /\ Unanswered /\ ProtSwitches /\ ProtPlace

\* ProtInv is inductive.
THEOREM ProtInvInductive ==
    /\ Init => ProtInv
    /\ ProtInv /\ [Next]_vars => ProtInv'
  <1>1. ASSUME Init PROVE ProtInv
    <2>1. CoreInv
      BY <1>1, CoreInvInductive
    <2>2. stat = CLOSED
      BY <1>1 DEF Init, SockInit
    <2>3. /\ gbpc = "msg" /\ wait = "none" /\ retry = 0 /\ rx = NoAnswer
          /\ ~online /\ ~can
          /\ asked = [k \in Kinds |-> 0] /\ loginSeq = 0 /\ regseq = FirstSeq
          /\ today => FirstSeq # 0
      BY <1>1 DEF Init, ProtInit, NothingAsked, Kinds
    <2>4. Server /\ Sleep
      BY <2>2, <2>3 DEF Server, Sleep
    <2>5. Numbers
      BY <2>3, ProtAssumption DEF Numbers, AfterLogin
    <2>6. Unanswered
      BY <2>3 DEF Unanswered, Kinds, NoAnswer
    <2>7. ProtSwitches
      BY <1>1, Zenon DEF Init, ProtInit, ProtSwitches
    <2>8. ProtPlace
      BY <2>3 DEF ProtPlace
    <2> QED BY <2>1, <2>4, <2>5, <2>6, <2>7, <2>8 DEF ProtInv
  <1>2. ASSUME ProtInv, Next PROVE ProtInv'
    <2>1. CoreInv'
      BY <1>2, CoreInvInductive DEF ProtInv
    <2>2. Server' /\ Sleep' /\ Numbers'
      BY <1>2, ServerKept, SleepKept, NumbersKept DEF ProtInv
    <2>3. Unanswered' /\ ProtSwitches' /\ ProtPlace'
      BY <1>2, UnansweredKept, SwitchesKept, PlaceKept DEF ProtInv
    <2> QED BY <2>1, <2>2, <2>3 DEF ProtInv
  <1>3. ASSUME ProtInv, UNCHANGED vars PROVE ProtInv'
    <2>1. CoreInv'
      BY <1>3, CoreInvInductive DEF ProtInv
    <2>2. UNCHANGED <<stat, peer, protVars>>
      BY <1>3 DEF vars, sockVars
    <2>3. Server' /\ Sleep' /\ Numbers' /\ Unanswered' /\ ProtSwitches' /\ ProtPlace'
      BY <1>3, <2>2 DEF protVars, linkVars, confVars, sessVars, seqVars, envVars, histVars,
         ProtInv, Server, Sleep, Numbers, LogoutSeq, Unanswered, ProtSwitches, ProtPlace
    <2> QED BY <2>1, <2>3 DEF ProtInv
  <1> QED BY <1>1, <1>2, <1>3

\* The invariant holds of every behaviour of the client.
THEOREM ProtInvHolds == Spec => []ProtInv
  BY ProtInvInductive, PTL DEF Spec

\* A session is one of this link, with the configured server and with the report lists set
\* up, and at most one log-in and four log-outs are unanswered, whatever order messages,
\* answers, time-outs and broken connections come in.
THEOREM SessionAlwaysSound == Spec => []SessionSound
  <1>1. ASSUME ProtInv PROVE SessionSound
    <2>1. ProtTypeOK
      <3>1. gbpc \in {"msg", "check", "recv", "resume", "fresh", "fresherr", "wait", "login",
                      "suspend", "report", "send", "logout"}
        BY <1>1 DEF ProtInv, ProtPlace, AfterLogin, InSession
      <3>2. {waited, late, online, login, suspend, can, network, allow_sleep, today}
                \subseteq BOOLEAN
        BY <1>1 DEF ProtInv, ProtSwitches
      <3> QED BY <1>1, <3>1, <3>2
              DEF ProtInv, CoreInv, Numbers, Unanswered, Kinds, ProtTypeOK
    <2>2. SessionOnLink
      BY <1>1 DEF ProtInv, CoreInv, Session, SessionOnLink
    <2>3. SessionWithServer
      BY <1>1 DEF ProtInv, CoreInv, Session, Server, SessionWithServer, OPENED, CLOSED
    <2>4. ListsReady
      BY <1>1 DEF ProtInv, CoreInv, Session, AfterLogin, InSession, ListsReady
    <2> QED BY <2>1, <2>2, <2>3, <2>4 DEF SessionSound
  <1> QED BY <1>1, ProtInvHolds, PTL

\* The terminal is allowed to sleep neither in a session nor on an active bus, except after
\* a log-out that was under way when the bus woke.
THEOREM SleepAlwaysSafe == Spec => []SleepIsSafe
  <1>1. ProtInv => SleepIsSafe
    BY DEF ProtInv, Sleep, SleepIsSafe, SleepEndsSession, AwakeWhileBusActive
  <1> QED BY <1>1, ProtInvHolds, PTL

\* The log-out carries the number of the log-in that opened the session, for every largest
\* number, across its wrap and the change of the day.
THEOREM LogoutSeqAlwaysMatches == Spec => []LogoutSeqMatches
  <1>1. ProtInv => LogoutSeqMatches
    BY DEF ProtInv, Numbers, AfterLogin, LogoutSeqMatches
  <1> QED BY <1>1, ProtInvHolds, PTL
=============================================================================
