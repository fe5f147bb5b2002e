------------------------------- MODULE NmDial -------------------------------
(***************************************************************************)
(* The dialling of the private and the public network (app/base/nm): the   *)
(* thread of nm_main handles messages of the modem's library, of the       *)
(* one-shot recall timer and of the configuration, and dials one network   *)
(* at a time.                                                              *)
(*                                                                         *)
(* A function of nm_dial.c is an operator from nm_net_info to the set of   *)
(* what it may become.  Routes and DNS are left out, as is the address     *)
(* family, which only decides whether nm_dial_connected goes on.           *)
(***************************************************************************)
EXTENDS Integers, Sequences

CONSTANTS MaxWait,   \* NM_MAX_DIAL_TIMES
          NmCap,     \* bound: messages in the queue of the thread
          MaxFaults  \* bound: calls of the library that fail, changes of an APN

ASSUME NmAssumption == {MaxWait, NmCap, MaxFaults} \subseteq Nat

VARIABLES
    nm,      \* nm_net_info, what the modules were told, and the modem's side
    nmQueue  \* messages to the thread

nmVars == <<nm, nmQueue>>

PRIVATE == 0
PUBLIC  == 1
Net     == {PRIVATE, PUBLIC}
NoNet   == 2   \* NM_NET_TYPE_NUM

NmType ==
    [init   : {"NOT_INITED", "INITING", "INITED"},
     apn    : [Net -> BOOLEAN],
     st     : [Net -> {"DISCONNECTED", "CONNECTING", "CONNECTED"}],
     handle : [Net -> BOOLEAN],
     wait   : [Net -> 0 .. MaxWait],
     cur    : 0 .. NoNet,
     timer  : BOOLEAN,                          \* recall_timer runs
     told   : [Net -> BOOLEAN],                 \* nm_notify_changed
     line   : [Net -> {"none", "dialling", "up"}], \* the call behind the handle
     first  : 0 .. NoNet,                       \* the library will call nm_dial_init_cb_fun
     faults : 0 .. MaxFaults]

NmMsg == [m : {"INITED", "IS_CONN", "NO_NET"}, t : Net]
             \cup [m : {"RECALL", "APN"}, t : {NoNet}]

\* n with one more fault, as long as the bound allows
Fault(n) == IF n.faults < MaxFaults THEN {[n EXCEPT !.faults = @ + 1]} ELSE {}

Armed(n) == [n EXCEPT !.timer = TRUE]

\* nm_dial_stop: the modules are told only if the network was connected
nm_dial_stop(n, t) ==
    [n EXCEPT !.handle[t] = FALSE, !.line[t] = "none", !.st[t] = "DISCONNECTED",
              !.told[t] = IF n.st[t] = "CONNECTED" THEN FALSE ELSE @]

\* mutant: the recall timer is started only with the call
nm_dial_call_late(n, t) ==
    LET a == [n EXCEPT !.wait[t] = 0]
        g == [a EXCEPT !.handle[t] = TRUE]
    IN  IF ~n.apn[t] \/ n.init # "INITED" THEN {a}
        ELSE IF n.handle[t] THEN {nm_dial_stop(a, t)}
        ELSE {Armed([g EXCEPT !.line[t] = "dialling", !.st[t] = "CONNECTING", !.cur = t])}
                 \cup Fault(a) \cup Fault(g)

\* nm_dial_call: a network that still has a handle is stopped, and dialled at the next
\* recall.  The handle may not be had, and the call may not start.
nm_dial_call(n, t) ==
    LET a == [Armed(n) EXCEPT !.wait[t] = 0]
        g == [a EXCEPT !.handle[t] = TRUE]
    IN  IF ~n.apn[t] \/ n.init # "INITED" THEN {a}
        ELSE IF n.handle[t] THEN {nm_dial_stop(a, t)}
        ELSE {[g EXCEPT !.line[t] = "dialling", !.st[t] = "CONNECTING", !.cur = t]}
                 \cup Fault(a) \cup Fault(g)

\* mutant: the network that was dialled last is tried first
nm_dial_get_next_dial_net_same(n, type) ==
    LET t == IF type = NoNet THEN PRIVATE ELSE type
        Need(x) == n.st[x] # "CONNECTED" /\ n.apn[x]
    IN  IF Need(t) THEN t ELSE IF Need(1 - t) THEN 1 - t ELSE NoNet

nm_dial_get_next_dial_net(n, type) ==
    LET t == IF type = NoNet THEN PRIVATE ELSE type
        Need(x) == n.st[x] # "CONNECTED" /\ n.apn[x]
    IN  IF Need(1 - t) THEN 1 - t ELSE IF Need(t) THEN t ELSE NoNet

DialNext(n, type) ==
    LET next == nm_dial_get_next_dial_net(n, type)
    IN  IF next # NoNet THEN nm_dial_call(n, next) ELSE {[n EXCEPT !.cur = NoNet]}

nm_dial_all_net(n) ==
    LET t == IF n.apn[PRIVATE] THEN PRIVATE ELSE PUBLIC
    IN  IF ~n.apn[t] THEN {n}
        ELSE IF n.init = "NOT_INITED"
             THEN {[n EXCEPT !.init = "INITING", !.first = t]} \cup {Armed(f) : f \in Fault(n)}
        ELSE IF n.init = "INITING" THEN {Armed(n)}
        ELSE nm_dial_call(n, t)

nm_dial_restart(n) == [nm_dial_stop(nm_dial_stop(Armed(n), PRIVATE), PUBLIC) EXCEPT !.cur = NoNet]

-----------------------------------------------------------------------------
(* The messages.                                                           *)

nm_dial_init_msg_proc(n, t) ==
    LET a == [n EXCEPT !.init = "INITED"]
    IN  IF a.apn[t] THEN nm_dial_call(a, t) ELSE DialNext(a, t)

\* mutant: the address is not asked for
nm_dial_connected_unasked(n, t) ==
    IF n.st[t] # "CONNECTING" THEN {n}
    ELSE DialNext([n EXCEPT !.st[t] = "CONNECTED", !.told[t] = TRUE], t)

\* nm_dial_connected, with nm_dial_get_conf: the library has no address for a call that is
\* not up (the message may be about an earlier one), and may not give that of one that
\* is, or an IPv6 one
nm_dial_connected(n, t) ==
    IF n.st[t] # "CONNECTING" THEN {n}
    ELSE IF n.line[t] # "up" THEN nm_dial_call(n, t)
    ELSE DialNext([n EXCEPT !.st[t] = "CONNECTED", !.told[t] = TRUE], t)
             \cup UNION {nm_dial_call(f, t) : f \in Fault(n)}

nm_dial_disconnected(n, t) ==
    IF n.init = "NOT_INITED" THEN nm_dial_all_net(n)
    ELSE {Armed([n EXCEPT !.st[t] = "DISCONNECTED",
                          !.told[t] = IF n.st[t] = "CONNECTED" THEN FALSE ELSE @])}

\* mutant: one more wait
nm_dial_timer_msg_proc_late(n) ==
    LET c == n.cur
        a == IF c = NoNet THEN n ELSE Armed(n)
        Dialling == c # NoNet /\ n.st[c] = "CONNECTING"
    IN  IF n.init = "NOT_INITED" THEN nm_dial_all_net(n)
        ELSE IF Dialling /\ n.wait[c] <= MaxWait THEN {[a EXCEPT !.wait[c] = @ + 1]}
        ELSE IF Dialling THEN {nm_dial_stop(a, c)}
        ELSE DialNext(a, c)

\* mutant: when the wait is over the network is dialled again at once
nm_dial_timer_msg_proc_again(n) ==
    LET c == n.cur
        a == IF c = NoNet THEN n ELSE Armed(n)
        Dialling == c # NoNet /\ n.st[c] = "CONNECTING"
    IN  IF n.init = "NOT_INITED" THEN nm_dial_all_net(n)
        ELSE IF Dialling /\ n.wait[c] < MaxWait THEN {[a EXCEPT !.wait[c] = @ + 1]}
        ELSE DialNext(a, c)

nm_dial_timer_msg_proc(n) ==
    LET c == n.cur
        a == IF c = NoNet THEN n ELSE Armed(n)
        Dialling == c # NoNet /\ n.st[c] = "CONNECTING"
    IN  IF n.init = "NOT_INITED" THEN nm_dial_all_net(n)
        ELSE IF Dialling /\ n.wait[c] < MaxWait THEN {[a EXCEPT !.wait[c] = @ + 1]}
        ELSE IF Dialling THEN {nm_dial_stop(a, c)}
        ELSE DialNext(a, c)

\* nm_dial_loc_net_proc and nm_dial_wan_net_proc: the APN of a network has changed
ApnChanged(n) ==
    UNION {{nm_dial_restart([n EXCEPT !.apn[t] = b]) : b \in BOOLEAN} : t \in Net}

nm_dial_msg_proc ==
    /\ nmQueue # <<>>
    /\ nmQueue' = Tail(nmQueue)
    /\ LET msg == Head(nmQueue)
       IN \/ msg.m = "INITED"  /\ nm' \in nm_dial_init_msg_proc(nm, msg.t)
          \/ msg.m = "IS_CONN" /\ nm' \in nm_dial_connected(nm, msg.t)
          \/ msg.m = "NO_NET"  /\ nm' \in nm_dial_disconnected(nm, msg.t)
          \/ msg.m = "RECALL"  /\ nm' \in nm_dial_timer_msg_proc(nm)
          \/ msg.m = "APN"     /\ nm' \in ApnChanged(nm)

-----------------------------------------------------------------------------
(* Who sends them.                                                         *)

InNmQueue(m, t) == \E i \in 1 .. Len(nmQueue) : nmQueue[i] = [m |-> m, t |-> t]

NmPost(m, t) ==
    /\ Len(nmQueue) < NmCap
    /\ nmQueue' = Append(nmQueue, [m |-> m, t |-> t])

\* nm_dial_init, and nm_main up to its loop
NmInit ==
    /\ nmQueue = <<>>
    /\ \E apn \in [Net -> BOOLEAN] :
         nm \in nm_dial_all_net([init |-> "NOT_INITED", apn |-> apn,
                                 st |-> [t \in Net |-> "DISCONNECTED"],
                                 handle |-> [t \in Net |-> FALSE], wait |-> [t \in Net |-> 0],
                                 cur |-> PRIVATE, timer |-> FALSE,
                                 told |-> [t \in Net |-> FALSE], line |-> [t \in Net |-> "none"],
                                 first |-> NoNet, faults |-> 0])

\* the library calls nm_dial_init_cb_fun
Inited ==
    /\ nm.first # NoNet
    /\ nm' = [nm EXCEPT !.first = NoNet]
    /\ NmPost("INITED", nm.first)

\* the library calls nm_dial_status_cb_fun: the call is up
Answers(t) ==
    /\ nm.line[t] = "dialling"
    /\ nm' = [nm EXCEPT !.line[t] = "up"]
    /\ NmPost("IS_CONN", t)

\* or it was refused or has ended: of a public call this counts as a fault, of a
\* private one it does not
CallEnds(t) ==
    /\ nm.line[t] # "none"
    /\ \E n \in IF t = PUBLIC THEN Fault(nm) ELSE {nm} : nm' = [n EXCEPT !.line[t] = "none"]
    /\ NmPost("NO_NET", t)

\* the timer's five seconds are over; the thread is not so far behind that the message
\* of the last time is still in the queue
RecallTimer ==
    /\ nm.timer /\ ~InNmQueue("RECALL", NoNet)
    /\ nm' = [nm EXCEPT !.timer = FALSE]
    /\ NmPost("RECALL", NoNet)

\* nm_loc_apn_changed, nm_wan_apn_changed and nm_loc_auth_changed
SetsApn ==
    /\ nm' \in Fault(nm)
    /\ NmPost("APN", NoNet)

NmNext ==
    \/ nm_dial_msg_proc
    \/ Inited \/ RecallTimer \/ SetsApn
    \/ \E t \in Net : Answers(t) \/ CallEnds(t)

\* the public network answers in time: before the wait is over, and with nothing in the
\* queue that ends the call
AnswersPublic ==
    /\ nm.st[PUBLIC] = "CONNECTING" /\ nm.wait[PUBLIC] < MaxWait
    /\ ~InNmQueue("APN", NoNet) /\ ~InNmQueue("NO_NET", PUBLIC)
    /\ Answers(PUBLIC)

NmFairness ==
    /\ WF_nmVars(nm_dial_msg_proc) /\ WF_nmVars(Inited) /\ WF_nmVars(RecallTimer)
    /\ SF_nmVars(AnswersPublic)

NmSpec == NmInit /\ [][NmNext]_nmVars /\ NmFairness

-----------------------------------------------------------------------------
\* The fields of nm_net_info keep their types, and a network is waited for no longer than
\* the limit.
NmTypeOK == nm \in NmType /\ nmQueue \in Seq(NmMsg) /\ Len(nmQueue) <= NmCap

\* One network is dialled at a time, and it is cur_type, the one whose answer the recall
\* timer waits for; a network that is dialled or connected has an APN and a handle to
\* give back.
OneCallAtATime ==
    \A t \in Net :
        /\ nm.st[t] = "CONNECTING" => nm.cur = t
        /\ nm.st[t] # "DISCONNECTED" => nm.handle[t] /\ nm.apn[t] /\ nm.init = "INITED"

\* What the modules were told is so, or they will be told: a network is connected for
\* them exactly when it is for nm, and then the call is up or the message that it has
\* ended is in the queue.  (Messages name the network and not the call: an answer to
\* an earlier call must not count.)
ToldNetIsUp ==
    \A t \in Net :
        /\ nm.told[t] = (nm.st[t] = "CONNECTED")
        /\ nm.told[t] => nm.line[t] = "up" \/ InNmQueue("NO_NET", t)

\* As long as a network with an APN is down the one-shot recall timer runs, or its message
\* or the library's is on the way.
RecallArmed ==
    (\E t \in Net : nm.apn[t] /\ nm.st[t] # "CONNECTED")
        => \/ nm.timer \/ InNmQueue("RECALL", NoNet)
           \/ nm.first # NoNet \/ \E t \in Net : InNmQueue("INITED", t)

\* The public network comes up again and again, whatever the private one does: if its APN
\* is set in the end and the modem answers calls that are made again and again.
PublicComesUp == <>[]nm.apn[PUBLIC] => []<>(nm.st[PUBLIC] = "CONNECTED")

\* What nm tells the modules is so, and a network that is down is dialled again, whatever
\* messages of earlier calls, APN changes and failing library calls come between.
DialSound == NmTypeOK /\ ToldNetIsUp /\ RecallArmed
=============================================================================
