---------------------------- MODULE NmDial_proofs ---------------------------
(***************************************************************************)
(* Theorems about NmDial: its types, and that one network is dialled at a  *)
(* time, for any bounds.                                                   *)
(*                                                                         *)
(* A step of the thread may start a call from six places.  Each is safe    *)
(* because no other network is being dialled there, for one of three       *)
(* reasons: the answer was that of cur_type, the recall has just found     *)
(* cur_type not to be dialled, or the library is not initialised yet and   *)
(* so nothing was dialled at all.  The last needs to know that the         *)
(* library's message INITED comes once; InitOnce says so.                  *)
(***************************************************************************)
EXTENDS NmDial, SequenceTheorems, TLAPS

OneCall(n) ==
    \A t \in Net :
        /\ n.st[t] = "CONNECTING" => n.cur = t
        /\ n.st[t] # "DISCONNECTED" => n.handle[t] /\ n.apn[t] /\ n.init = "INITED"

Calm(n) == \A t \in Net : n.st[t] # "CONNECTING"

\* what an operator of the thread leaves alone
SameInit(n, m) == m.init = n.init /\ m.first = n.first

Good(n) == n \in NmType /\ OneCall(n)

\* The library's message INITED is sent once, and until it is handled init is INITING.
InitOnce ==
    /\ nm.first # NoNet =>
         nm.init = "INITING" /\ \A i \in 1 .. Len(nmQueue) : nmQueue[i].m # "INITED"
    /\ \A i \in 1 .. Len(nmQueue) : nmQueue[i].m = "INITED" =>
         nm.init = "INITING" /\ \A j \in 1 .. Len(nmQueue) : nmQueue[j].m = "INITED" => i = j

NmInv == Good(nm) /\ nmQueue \in Seq(NmMsg) /\ Len(nmQueue) <= NmCap /\ InitOnce

-----------------------------------------------------------------------------
\* A fault and the start of the timer change nothing else.
LEMMA FaultGood ==
    ASSUME NEW n, Good(n), NEW m \in Fault(n)
    PROVE  Good(m) /\ SameInit(n, m) /\ m.st = n.st /\ m.apn = n.apn /\ m.handle = n.handle
             /\ m.cur = n.cur
  BY NmAssumption DEF Good, OneCall, Fault, NmType, SameInit

LEMMA ArmedGood ==
    ASSUME NEW n, Good(n)
    PROVE  Good(Armed(n)) /\ SameInit(n, Armed(n)) /\ Armed(n).st = n.st
             /\ Armed(n).cur = n.cur /\ Armed(n).apn = n.apn
  BY DEF Good, OneCall, Armed, NmType, SameInit

\* nm_dial_stop: the network is neither dialled nor connected afterwards.
LEMMA StopGood ==
    ASSUME NEW n, Good(n), NEW t \in Net
    PROVE  Good(nm_dial_stop(n, t)) /\ SameInit(n, nm_dial_stop(n, t))
             /\ nm_dial_stop(n, t).st = [n.st EXCEPT ![t] = "DISCONNECTED"]
             /\ nm_dial_stop(n, t).cur = n.cur
  BY DEF Good, OneCall, nm_dial_stop, NmType, SameInit

\* The steps of nm_dial_call, one by one.
LEMMA WaitGood ==
    ASSUME NEW n, Good(n), NEW t \in Net, NEW w \in 0 .. MaxWait
    PROVE  LET m == [n EXCEPT !.wait[t] = w]
           IN  Good(m) /\ SameInit(n, m) /\ m.st = n.st /\ m.apn = n.apn /\ m.cur = n.cur
  BY DEF Good, OneCall, NmType, SameInit

LEMMA HandleGood ==
    ASSUME NEW n, Good(n), NEW t \in Net
    PROVE  LET m == [n EXCEPT !.handle[t] = TRUE]
           IN  Good(m) /\ SameInit(n, m) /\ m.st = n.st /\ m.apn = n.apn /\ m.cur = n.cur
                 /\ m.handle[t]
  BY DEF Good, OneCall, NmType, SameInit

LEMMA DialledGood ==
    ASSUME NEW n, Good(n), NEW t \in Net, \A x \in Net \ {t} : n.st[x] # "CONNECTING",
           n.handle[t], n.apn[t], n.init = "INITED"
    PROVE  LET m == [n EXCEPT !.line[t] = "dialling", !.st[t] = "CONNECTING", !.cur = t]
           IN  Good(m) /\ SameInit(n, m)
  <1> DEFINE m == [n EXCEPT !.line[t] = "dialling", !.st[t] = "CONNECTING", !.cur = t]
  <1>0. t \in 0 .. NoNet
    BY DEF Net, PRIVATE, PUBLIC, NoNet
  <1>1. /\ m \in NmType /\ m.cur = t /\ m.init = n.init /\ m.first = n.first
        /\ m.apn = n.apn /\ m.handle = n.handle
        /\ \A x \in Net : m.st[x] = IF x = t THEN "CONNECTING" ELSE n.st[x]
    BY <1>0 DEF Good, NmType
  <1> HIDE DEF m
  <1>2. OneCall(m)
    BY <1>1 DEF Good, OneCall
  <1>3. Good(m) /\ SameInit(n, m)
    BY <1>1, <1>2 DEF Good, SameInit
  <1> QED BY <1>3 DEF m

\* nm_dial_call is safe when no other network is being dialled.
LEMMA CallGood ==
    ASSUME NEW n, Good(n), NEW t \in Net, \A x \in Net \ {t} : n.st[x] # "CONNECTING",
           NEW m \in nm_dial_call(n, t)
    PROVE  Good(m) /\ SameInit(n, m)
  <1> DEFINE r == Armed(n)
             a == [r EXCEPT !.wait[t] = 0]
             g == [a EXCEPT !.handle[t] = TRUE]
             d == [g EXCEPT !.line[t] = "dialling", !.st[t] = "CONNECTING", !.cur = t]
  <1>0. \/ m = a \/ m = nm_dial_stop(a, t) \/ m \in Fault(a) \cup Fault(g)
        \/ m = d /\ n.apn[t] /\ n.init = "INITED"
    BY DEF nm_dial_call
  <1>1. Good(r) /\ SameInit(n, r) /\ r.st = n.st /\ r.apn = n.apn
    BY ArmedGood
  <1> HIDE DEF r
  <1>2. 0 \in 0 .. MaxWait
    BY NmAssumption
  <1>3. Good(a) /\ SameInit(r, a) /\ a.st = r.st /\ a.apn = r.apn
    BY <1>1, <1>2, WaitGood
  <1> HIDE DEF a
  <1>4. Good(g) /\ SameInit(a, g) /\ g.st = a.st /\ g.apn = a.apn /\ g.handle[t]
    BY <1>3, HandleGood
  <1> HIDE DEF g
  <1>5. n.apn[t] /\ n.init = "INITED" => Good(d) /\ SameInit(g, d)
    <2>1. g.init = n.init /\ g.apn = n.apn /\ g.st = n.st
      BY <1>1, <1>3, <1>4 DEF SameInit
    <2> HAVE n.apn[t] /\ n.init = "INITED"
    <2>2. g.apn[t] /\ g.init = "INITED" /\ \A x \in Net \ {t} : g.st[x] # "CONNECTING"
      BY <2>1
    <2> QED BY <1>4, <2>2, DialledGood
  <1> HIDE DEF d
  <1>6. Good(nm_dial_stop(a, t)) /\ SameInit(a, nm_dial_stop(a, t))
    BY <1>3, StopGood
  <1>7. \A x \in Fault(a) : Good(x) /\ SameInit(a, x)
    BY <1>3, FaultGood
  <1>8. \A x \in Fault(g) : Good(x) /\ SameInit(g, x)
    BY <1>4, FaultGood
  <1> QED BY <1>0, <1>1, <1>3, <1>4, <1>5, <1>6, <1>7, <1>8 DEF SameInit

\* The next network to dial is one of the two, or none.
LEMMA NextNet ==
    ASSUME NEW n, NEW type \in 0 .. NoNet
    PROVE  nm_dial_get_next_dial_net(n, type) \in Net \cup {NoNet}
  BY DEF nm_dial_get_next_dial_net, Net, NoNet, PRIVATE, PUBLIC

LEMMA DialNextGood ==
    ASSUME NEW n, Good(n), Calm(n), NEW type \in 0 .. NoNet, NEW m \in DialNext(n, type)
    PROVE  Good(m) /\ SameInit(n, m)
  <1> DEFINE next == nm_dial_get_next_dial_net(n, type)
  <1>1. next \in Net \cup {NoNet}
    BY NextNet
  <1> HIDE DEF next
  <1>2. CASE next \in Net /\ m \in nm_dial_call(n, next)
    BY <1>2, CallGood DEF Calm
  <1>3. CASE m = [n EXCEPT !.cur = NoNet]
    BY <1>3 DEF Good, OneCall, Calm, NmType, NoNet, SameInit
  <1>4. \/ next \in Net /\ m \in nm_dial_call(n, next)
        \/ m = [n EXCEPT !.cur = NoNet]
    BY <1>1 DEF DialNext, next
  <1> QED BY <1>2, <1>3, <1>4

\* nm_dial_all_net before the library is initialised
LEMMA AllNetGood ==
    ASSUME NEW n, Good(n), n.init = "NOT_INITED", NEW m \in nm_dial_all_net(n)
    PROVE  Good(m) /\ \/ SameInit(n, m)
                      \/ m.init = "INITING"
  <1> DEFINE t == IF n.apn[PRIVATE] THEN PRIVATE ELSE PUBLIC
  <1>1. t \in Net /\ t \in 0 .. NoNet
    BY DEF Net, PRIVATE, PUBLIC, NoNet
  <1>2. CASE m = n
    BY <1>2 DEF SameInit
  <1>3. CASE m = [n EXCEPT !.init = "INITING", !.first = t]
    <2>1. \A x \in Net : n.st[x] = "DISCONNECTED"
      BY DEF Good, OneCall, NmType
    <2> HIDE DEF t
    <2>2. m \in NmType /\ m.init = "INITING" /\ m.st = n.st
      BY <1>1, <1>3 DEF Good, NmType
    <2> QED BY <2>1, <2>2 DEF Good, OneCall
  <1>4. CASE \E f \in Fault(n) : m = Armed(f)
    BY <1>4, FaultGood, ArmedGood DEF SameInit
  <1>5. m = n \/ m = [n EXCEPT !.init = "INITING", !.first = t] \/ \E f \in Fault(n) : m = Armed(f)
    BY DEF nm_dial_all_net
  <1> QED BY <1>2, <1>3, <1>4, <1>5

-----------------------------------------------------------------------------
\* The handlers.  nm_dial_init_msg_proc: before it nothing was dialled.
LEMMA InitMsgGood ==
    ASSUME NEW n, Good(n), n.init = "INITING", NEW t \in Net,
           NEW m \in nm_dial_init_msg_proc(n, t)
    PROVE  Good(m) /\ m.init = "INITED" /\ m.first = n.first
  <1> DEFINE a == [n EXCEPT !.init = "INITED"]
  <1>1. m \in nm_dial_call(a, t) \/ m \in DialNext(a, t)
    BY DEF nm_dial_init_msg_proc
  <1>2. \A x \in Net : n.st[x] = "DISCONNECTED"
    BY DEF Good, OneCall, NmType
  <1>3. a \in NmType /\ a.st = n.st /\ a.init = "INITED" /\ a.first = n.first
    BY DEF Good, NmType
  <1> HIDE DEF a
  <1>4. Good(a) /\ Calm(a)
    BY <1>2, <1>3 DEF Good, OneCall, Calm
  <1>5. t \in 0 .. NoNet
    BY DEF Net, PRIVATE, PUBLIC, NoNet
  <1>6. CASE m \in nm_dial_call(a, t)
    BY <1>3, <1>4, <1>6, CallGood DEF Calm, SameInit
  <1>7. CASE m \in DialNext(a, t)
    BY <1>3, <1>4, <1>5, <1>7, DialNextGood DEF SameInit
  <1> QED BY <1>1, <1>6, <1>7

\* nm_dial_connected: the network was being dialled, so no other was.
LEMMA ConnectedGood ==
    ASSUME NEW n, Good(n), NEW t \in Net, NEW m \in nm_dial_connected(n, t)
    PROVE  Good(m) /\ SameInit(n, m)
  <1> DEFINE a == [n EXCEPT !.st[t] = "CONNECTED", !.told[t] = TRUE]
  <1>0. \/ m = n
        \/ /\ n.st[t] = "CONNECTING"
           /\ \/ m \in nm_dial_call(n, t) \/ m \in DialNext(a, t)
              \/ \E f \in Fault(n) : m \in nm_dial_call(f, t)
    BY DEF nm_dial_connected
  <1>1. CASE m = n
    BY <1>1 DEF SameInit
  <1>2. ASSUME n.st[t] = "CONNECTING" PROVE \A x \in Net \ {t} : n.st[x] # "CONNECTING"
    BY <1>2 DEF Good, OneCall
  <1>3. CASE n.st[t] = "CONNECTING" /\ m \in nm_dial_call(n, t)
    BY <1>2, <1>3, CallGood
  <1>4. CASE n.st[t] = "CONNECTING" /\ \E f \in Fault(n) : m \in nm_dial_call(f, t)
    <2>1. PICK f \in Fault(n) : m \in nm_dial_call(f, t)
      BY <1>4
    <2>2. Good(f) /\ SameInit(n, f) /\ f.st = n.st
      BY FaultGood
    <2>3. Good(m) /\ SameInit(f, m)
      BY <1>2, <1>4, <2>1, <2>2, CallGood
    <2> QED BY <2>2, <2>3 DEF SameInit
  <1>5. CASE n.st[t] = "CONNECTING" /\ m \in DialNext(a, t)
    <2>1. /\ a \in NmType /\ SameInit(n, a) /\ a.apn = n.apn /\ a.handle = n.handle
          /\ \A x \in Net : a.st[x] = IF x = t THEN "CONNECTED" ELSE n.st[x]
      BY DEF Good, NmType, SameInit
    <2>2. t \in 0 .. NoNet
      BY DEF Net, PRIVATE, PUBLIC, NoNet
    <2>3. n.handle[t] /\ n.apn[t] /\ n.init = "INITED"
      BY <1>5 DEF Good, OneCall
    <2> HIDE DEF a
    <2>4. Calm(a)
      BY <1>2, <1>5, <2>1 DEF Calm
    <2>5. Good(a)
      BY <2>1, <2>3, <2>4 DEF Good, OneCall, Calm, SameInit
    <2>6. Good(m) /\ SameInit(a, m)
      BY <1>5, <2>2, <2>4, <2>5, DialNextGood
    <2> QED BY <2>1, <2>6 DEF SameInit
  <1> QED BY <1>0, <1>1, <1>3, <1>4, <1>5

LEMMA DisconnectedGood ==
    ASSUME NEW n, Good(n), n.init # "NOT_INITED", NEW t \in Net,
           NEW m \in nm_dial_disconnected(n, t)
    PROVE  Good(m) /\ SameInit(n, m)
  <1> DEFINE a == [n EXCEPT !.st[t] = "DISCONNECTED",
                            !.told[t] = IF n.st[t] = "CONNECTED" THEN FALSE ELSE @]
  <1>1. m = Armed(a)
    BY DEF nm_dial_disconnected
  <1>2. /\ a \in NmType /\ SameInit(n, a) /\ a.apn = n.apn /\ a.handle = n.handle
        /\ a.cur = n.cur
        /\ \A x \in Net : a.st[x] = IF x = t THEN "DISCONNECTED" ELSE n.st[x]
    BY DEF Good, NmType, SameInit
  <1> HIDE DEF a
  <1>3. Good(a)
    BY <1>2 DEF Good, OneCall, SameInit
  <1> QED BY <1>1, <1>2, <1>3, ArmedGood DEF SameInit

\* nm_dial_timer_msg_proc: another network is dialled only if cur_type is not, and then
\* none is.
LEMMA TimerGood ==
    ASSUME NEW n, Good(n), n.init # "NOT_INITED", NEW m \in nm_dial_timer_msg_proc(n)
    PROVE  Good(m) /\ SameInit(n, m)
  <1> DEFINE c == n.cur
             a == IF c = NoNet THEN n ELSE Armed(n)
             Dialling == c # NoNet /\ n.st[c] = "CONNECTING"
  <1>1. \/ Dialling /\ n.wait[c] < MaxWait /\ m = [a EXCEPT !.wait[c] = @ + 1]
        \/ Dialling /\ m = nm_dial_stop(a, c)
        \/ ~Dialling /\ m \in DialNext(a, c)
    BY DEF nm_dial_timer_msg_proc
  <1>2. c \in 0 .. NoNet /\ (c # NoNet => c \in Net)
    BY DEF Good, NmType, Net, NoNet, PRIVATE, PUBLIC
  <1>3. a = n \/ a = Armed(n)
    OBVIOUS
  <1>4. Armed(n).wait = n.wait
    BY DEF Armed, Good, NmType
  <1> HIDE DEF a
  <1>5. Good(a) /\ SameInit(n, a) /\ a.st = n.st /\ a.cur = n.cur /\ a.wait = n.wait
    BY <1>3, <1>4, ArmedGood DEF SameInit
  <1>6. CASE Dialling /\ n.wait[c] < MaxWait /\ m = [a EXCEPT !.wait[c] = @ + 1]
    <2>1. c \in Net
      BY <1>2, <1>6
    <2> DEFINE w == a.wait[c] + 1
    <2>2. w \in 0 .. MaxWait
      BY <1>5, <1>6, <2>1, NmAssumption DEF Good, NmType
    <2>3. m = [a EXCEPT !.wait[c] = w]
      BY <1>6
    <2> HIDE DEF c, w
    <2>4. Good(m) /\ SameInit(a, m)
      BY <1>5, <2>1, <2>2, <2>3, WaitGood
    <2> QED BY <1>5, <2>4 DEF SameInit
  <1>7. CASE Dialling /\ m = nm_dial_stop(a, c)
    BY <1>2, <1>5, <1>7, StopGood DEF SameInit
  <1>8. CASE ~Dialling /\ m \in DialNext(a, c)
    <2>1. Calm(a)
      BY <1>2, <1>5, <1>8 DEF Calm, Good, OneCall, Net, PRIVATE, PUBLIC, NoNet
    <2> HIDE DEF c
    <2>2. Good(m) /\ SameInit(a, m)
      BY <1>2, <1>5, <1>8, <2>1, DialNextGood
    <2> QED BY <1>5, <2>2 DEF SameInit
  <1> QED BY <1>1, <1>6, <1>7, <1>8

\* An APN change stops both networks.
LEMMA StopType ==
    ASSUME NEW n \in NmType, NEW t \in Net
    PROVE  LET m == nm_dial_stop(n, t)
           IN  /\ m \in NmType /\ SameInit(n, m)
               /\ \A x \in Net : m.st[x] = IF x = t THEN "DISCONNECTED" ELSE n.st[x]
  BY DEF nm_dial_stop, NmType, SameInit

LEMMA ApnGood ==
    ASSUME NEW n, Good(n), NEW m \in ApnChanged(n)
    PROVE  Good(m) /\ SameInit(n, m)
  <1>1. PICK t \in Net, b \in BOOLEAN : m = nm_dial_restart([n EXCEPT !.apn[t] = b])
    BY DEF ApnChanged
  <1> DEFINE a == [n EXCEPT !.apn[t] = b]
             r == Armed(a)
             p == nm_dial_stop(r, PRIVATE)
             q == nm_dial_stop(p, PUBLIC)
  <1>2. m = [q EXCEPT !.cur = NoNet]
    BY <1>1 DEF nm_dial_restart
  <1>3. a \in NmType /\ SameInit(n, a)
    BY DEF Good, NmType, SameInit
  <1> HIDE DEF a
  <1>4. r \in NmType /\ SameInit(a, r)
    BY <1>3 DEF Armed, NmType, SameInit
  <1> HIDE DEF r
  <1>5. PRIVATE \in Net /\ PUBLIC \in Net /\ Net = {PRIVATE, PUBLIC} /\ NoNet \in 0 .. NoNet
    BY DEF Net, NoNet
  <1>6. p \in NmType /\ SameInit(r, p) /\ p.st[PRIVATE] = "DISCONNECTED"
    BY <1>4, <1>5, StopType
  <1> HIDE DEF p
  <1>7. /\ q \in NmType /\ SameInit(p, q)
        /\ \A x \in Net : q.st[x] = IF x = PUBLIC THEN "DISCONNECTED" ELSE p.st[x]
    BY <1>5, <1>6, StopType
  <1> HIDE DEF q
  <1>8. \A x \in Net : q.st[x] = "DISCONNECTED"
    BY <1>5, <1>6, <1>7
  <1>9. m \in NmType /\ SameInit(q, m) /\ m.st = q.st
    BY <1>2, <1>5, <1>7 DEF NmType, SameInit
  <1> QED BY <1>3, <1>4, <1>6, <1>7, <1>8, <1>9 DEF Good, OneCall, SameInit

\* What the modem and the timer do touches nothing that OneCall speaks of.
LEMMA ModemGood ==
    ASSUME NEW n, Good(n), NEW t \in Net, NEW v \in {"none", "dialling", "up"}
    PROVE  LET m == [n EXCEPT !.line[t] = v]
           IN  Good(m) /\ SameInit(n, m)
  BY DEF Good, OneCall, NmType, SameInit

LEMMA TimerStopsGood ==
    ASSUME NEW n, Good(n)
    PROVE  LET m == [n EXCEPT !.timer = FALSE]
           IN  Good(m) /\ SameInit(n, m)
  BY DEF Good, OneCall, NmType, SameInit

LEMMA InitedGood ==
    ASSUME NEW n, Good(n)
    PROVE  LET m == [n EXCEPT !.first = NoNet]
           IN  Good(m) /\ m.init = n.init /\ m.first = NoNet
  <1>1. NoNet \in 0 .. NoNet
    BY DEF NoNet
  <1> QED BY <1>1 DEF Good, OneCall, NmType

-----------------------------------------------------------------------------
\* The queue.
LEMMA TailOnce ==
    ASSUME InitOnce, SameInit(nm, nm'), nmQueue \in Seq(NmMsg), nmQueue # <<>>,
           nmQueue' = Tail(nmQueue)
    PROVE  InitOnce'
  BY DEF InitOnce, SameInit

LEMMA PostOnce ==
    ASSUME InitOnce, SameInit(nm, nm'), nmQueue \in Seq(NmMsg), NEW msg \in NmMsg,
           msg.m # "INITED", nmQueue' = Append(nmQueue, msg)
    PROVE  InitOnce'
  BY DEF InitOnce, SameInit

LEMMA PostType ==
    ASSUME nmQueue \in Seq(NmMsg), Len(nmQueue) <= NmCap, NEW k, NEW t,
           [m |-> k, t |-> t] \in NmMsg, NmPost(k, t)
    PROVE  /\ nmQueue' \in Seq(NmMsg) /\ Len(nmQueue') <= NmCap
           /\ nmQueue' = Append(nmQueue, [m |-> k, t |-> t])
  BY NmAssumption DEF NmPost

-----------------------------------------------------------------------------
LEMMA NmInitInv == NmInit => NmInv
  <1> HAVE NmInit
  <1>1. PICK apn \in [Net -> BOOLEAN] :
          nm \in nm_dial_all_net([init |-> "NOT_INITED", apn |-> apn,
                                  st |-> [t \in Net |-> "DISCONNECTED"],
                                  handle |-> [t \in Net |-> FALSE], wait |-> [t \in Net |-> 0],
                                  cur |-> PRIVATE, timer |-> FALSE,
                                  told |-> [t \in Net |-> FALSE], line |-> [t \in Net |-> "none"],
                                  first |-> NoNet, faults |-> 0])
    BY DEF NmInit
  <1> DEFINE n == [init |-> "NOT_INITED", apn |-> apn,
                   st |-> [t \in Net |-> "DISCONNECTED"],
                   handle |-> [t \in Net |-> FALSE], wait |-> [t \in Net |-> 0],
                   cur |-> PRIVATE, timer |-> FALSE,
                   told |-> [t \in Net |-> FALSE], line |-> [t \in Net |-> "none"],
                   first |-> NoNet, faults |-> 0]
  <1>2. PRIVATE \in 0 .. NoNet /\ NoNet \in 0 .. NoNet /\ 0 \in 0 .. MaxWait /\ 0 \in 0 .. MaxFaults
    BY NmAssumption DEF PRIVATE, NoNet
  <1>3. n \in NmType
    BY <1>2 DEF NmType
  <1>4. n.init = "NOT_INITED" /\ n.first = NoNet /\ \A x \in Net : n.st[x] = "DISCONNECTED"
    OBVIOUS
  <1>5. nm \in nm_dial_all_net(n)
    BY <1>1
  <1> HIDE DEF n
  <1>6. Good(n)
    BY <1>3, <1>4 DEF Good, OneCall
  <1>7. Good(nm) /\ (nm.first = NoNet \/ nm.init = "INITING")
    BY <1>4, <1>5, <1>6, AllNetGood DEF SameInit
  <1>8. nmQueue = <<>>
    BY DEF NmInit
  <1> QED BY <1>7, <1>8, NmAssumption DEF NmInv, InitOnce

\* The library is asked to initialise itself when nothing of it can be in the queue.
LEMMA AllNetStep ==
    ASSUME NmInv, nm.init = "NOT_INITED", nmQueue # <<>>, nmQueue' = Tail(nmQueue),
           nm' \in nm_dial_all_net(nm)
    PROVE  Good(nm') /\ InitOnce'
  <1>1. Good(nm') /\ (SameInit(nm, nm') \/ nm'.init = "INITING")
    BY AllNetGood DEF NmInv
  <1>2. CASE SameInit(nm, nm')
    BY <1>1, <1>2, TailOnce DEF NmInv
  <1>3. CASE nm'.init = "INITING"
    <2>1. \A i \in 1 .. Len(nmQueue) : nmQueue[i].m # "INITED"
      BY DEF NmInv, InitOnce
    <2>2. \A i \in 1 .. Len(nmQueue') : nmQueue'[i].m # "INITED"
      BY <2>1 DEF NmInv
    <2> QED BY <1>1, <1>3, <2>2 DEF InitOnce
  <1> QED BY <1>1, <1>2, <1>3

LEMMA MsgStep == NmInv /\ nm_dial_msg_proc => NmInv'
  <1> SUFFICES ASSUME NmInv, nm_dial_msg_proc PROVE NmInv'
    OBVIOUS
  <1> DEFINE msg == Head(nmQueue)
  <1>1. nmQueue # <<>> /\ nmQueue' = Tail(nmQueue)
    BY DEF nm_dial_msg_proc
  <1>2. nmQueue' \in Seq(NmMsg) /\ Len(nmQueue') <= NmCap /\ msg \in NmMsg /\ msg = nmQueue[1]
    BY <1>1, NmAssumption DEF NmInv
  <1>3. Good(nm) /\ InitOnce /\ nmQueue \in Seq(NmMsg)
    BY DEF NmInv
  <1>4. msg.m \in {"INITED", "IS_CONN", "NO_NET"} => msg.t \in Net
    BY <1>2 DEF NmMsg
  <1>5. ASSUME Good(nm'), SameInit(nm, nm') PROVE NmInv'
    <2>1. InitOnce'
      BY <1>1, <1>3, <1>5, TailOnce
    <2> QED BY <1>2, <1>5, <2>1 DEF NmInv
  <1>6. ASSUME nm.init = "NOT_INITED", nm' \in nm_dial_all_net(nm) PROVE NmInv'
    BY <1>1, <1>2, <1>6, AllNetStep DEF NmInv
  <1>7. CASE msg.m = "INITED" /\ nm' \in nm_dial_init_msg_proc(nm, msg.t)
    <2>1. 1 \in 1 .. Len(nmQueue)
      BY <1>1, <1>3
    <2>2. nm.init = "INITING" /\ nm.first = NoNet
          /\ \A j \in 1 .. Len(nmQueue) : nmQueue[j].m = "INITED" => j = 1
      BY <1>2, <1>3, <1>7, <2>1 DEF InitOnce
    <2> HIDE DEF msg
    <2>3. Good(nm') /\ nm'.init = "INITED" /\ nm'.first = nm.first
      BY <1>3, <1>4, <1>7, <2>2, InitMsgGood
    <2>4. \A i \in 1 .. Len(nmQueue') : nmQueue'[i].m # "INITED"
      BY <1>1, <1>3, <2>2
    <2> QED BY <1>2, <2>2, <2>3, <2>4 DEF NmInv, InitOnce
  <1>8. CASE msg.m = "IS_CONN" /\ nm' \in nm_dial_connected(nm, msg.t)
    <2> HIDE DEF msg
    <2> QED BY <1>3, <1>4, <1>5, <1>8, ConnectedGood
  <1>9. CASE msg.m = "NO_NET" /\ nm' \in nm_dial_disconnected(nm, msg.t)
    <2> HIDE DEF msg
    <2>1. CASE nm.init = "NOT_INITED"
      BY <1>6, <1>9, <2>1 DEF nm_dial_disconnected
    <2>2. CASE nm.init # "NOT_INITED"
      BY <1>3, <1>4, <1>5, <1>9, <2>2, DisconnectedGood
    <2> QED BY <2>1, <2>2
  <1>10. CASE msg.m = "RECALL" /\ nm' \in nm_dial_timer_msg_proc(nm)
    <2> HIDE DEF msg
    <2>1. CASE nm.init = "NOT_INITED"
      BY <1>6, <1>10, <2>1 DEF nm_dial_timer_msg_proc
    <2>2. CASE nm.init # "NOT_INITED"
      BY <1>3, <1>5, <1>10, <2>2, TimerGood
    <2> QED BY <2>1, <2>2
  <1>11. CASE msg.m = "APN" /\ nm' \in ApnChanged(nm)
    BY <1>3, <1>5, <1>11, ApnGood
  <1> QED BY <1>7, <1>8, <1>9, <1>10, <1>11 DEF nm_dial_msg_proc

LEMMA ModemStep ==
    ASSUME NmInv, NEW t \in Net, Answers(t) \/ CallEnds(t)
    PROVE  NmInv'
  <1>0. /\ Good(nm) /\ InitOnce /\ nmQueue \in Seq(NmMsg) /\ Len(nmQueue) <= NmCap
        /\ [m |-> "IS_CONN", t |-> t] \in NmMsg /\ [m |-> "NO_NET", t |-> t] \in NmMsg
    BY DEF NmInv, NmMsg
  <1>1. CASE Answers(t)
    <2>1. Good(nm') /\ SameInit(nm, nm')
      BY <1>0, <1>1, ModemGood DEF Answers
    <2>2. nmQueue' \in Seq(NmMsg) /\ Len(nmQueue') <= NmCap
          /\ nmQueue' = Append(nmQueue, [m |-> "IS_CONN", t |-> t])
      BY <1>0, <1>1, PostType DEF Answers
    <2>3. InitOnce'
      BY <1>0, <2>1, <2>2, PostOnce
    <2> QED BY <2>1, <2>2, <2>3 DEF NmInv
  <1>2. CASE CallEnds(t)
    <2>1. PICK n \in {nm} \cup Fault(nm) : nm' = [n EXCEPT !.line[t] = "none"]
      BY <1>2 DEF CallEnds
    <2>2. Good(n) /\ SameInit(nm, n)
      BY <1>0, FaultGood DEF SameInit
    <2>3. Good(nm') /\ SameInit(n, nm')
      BY <2>1, <2>2, ModemGood
    <2>4. nmQueue' \in Seq(NmMsg) /\ Len(nmQueue') <= NmCap
          /\ nmQueue' = Append(nmQueue, [m |-> "NO_NET", t |-> t])
      BY <1>0, <1>2, PostType DEF CallEnds
    <2>5. SameInit(nm, nm')
      BY <2>2, <2>3 DEF SameInit
    <2>6. InitOnce'
      BY <1>0, <2>4, <2>5, PostOnce
    <2> QED BY <2>3, <2>4, <2>6 DEF NmInv
  <1> QED BY <1>1, <1>2

LEMMA OtherStep ==
    ASSUME NmInv, Inited \/ RecallTimer \/ SetsApn
    PROVE  NmInv'
  <1>0. /\ Good(nm) /\ InitOnce /\ nmQueue \in Seq(NmMsg) /\ Len(nmQueue) <= NmCap
        /\ [m |-> "RECALL", t |-> NoNet] \in NmMsg /\ [m |-> "APN", t |-> NoNet] \in NmMsg
    BY DEF NmInv, NmMsg
  <1>1. CASE Inited
    <2>1. nm.first \in Net
      BY <1>0, <1>1 DEF Inited, Good, NmType, Net, PRIVATE, PUBLIC, NoNet
    <2>2. [m |-> "INITED", t |-> nm.first] \in NmMsg
      BY <2>1 DEF NmMsg
    <2>3. nmQueue' \in Seq(NmMsg) /\ Len(nmQueue') <= NmCap
          /\ nmQueue' = Append(nmQueue, [m |-> "INITED", t |-> nm.first])
      BY <1>0, <1>1, <2>2, PostType DEF Inited
    <2>4. Good(nm') /\ nm'.init = nm.init /\ nm'.first = NoNet
      BY <1>0, <1>1, InitedGood DEF Inited
    <2>5. nm.init = "INITING" /\ \A i \in 1 .. Len(nmQueue) : nmQueue[i].m # "INITED"
      BY <1>0, <1>1 DEF Inited, InitOnce
    <2>6. InitOnce'
      BY <1>0, <2>3, <2>4, <2>5 DEF InitOnce
    <2> QED BY <2>3, <2>4, <2>6 DEF NmInv
  <1>2. CASE RecallTimer
    <2>1. Good(nm') /\ SameInit(nm, nm')
      BY <1>0, <1>2, TimerStopsGood DEF RecallTimer
    <2>2. nmQueue' \in Seq(NmMsg) /\ Len(nmQueue') <= NmCap
          /\ nmQueue' = Append(nmQueue, [m |-> "RECALL", t |-> NoNet])
      BY <1>0, <1>2, PostType DEF RecallTimer
    <2>3. InitOnce'
      BY <1>0, <2>1, <2>2, PostOnce
    <2> QED BY <2>1, <2>2, <2>3 DEF NmInv
  <1>3. CASE SetsApn
    <2>1. Good(nm') /\ SameInit(nm, nm')
      BY <1>0, <1>3, FaultGood DEF SetsApn
    <2>2. nmQueue' \in Seq(NmMsg) /\ Len(nmQueue') <= NmCap
          /\ nmQueue' = Append(nmQueue, [m |-> "APN", t |-> NoNet])
      BY <1>0, <1>3, PostType DEF SetsApn
    <2>3. InitOnce'
      BY <1>0, <2>1, <2>2, PostOnce
    <2> QED BY <2>1, <2>2, <2>3 DEF NmInv
  <1> QED BY <1>1, <1>2, <1>3

LEMMA NmInductive == NmSpec => []NmInv
  <1>1. NmInv /\ [NmNext]_nmVars => NmInv'
    <2> SUFFICES ASSUME NmInv, [NmNext]_nmVars PROVE NmInv'
      OBVIOUS
    <2>1. CASE UNCHANGED nmVars
      BY <2>1 DEF NmInv, Good, OneCall, InitOnce, nmVars
    <2>2. CASE NmNext
      BY <2>2, MsgStep, ModemStep, OtherStep DEF NmNext
    <2> QED BY <2>1, <2>2
  <1> QED BY <1>1, NmInitInv, PTL DEF NmSpec

\* The fields of nm_net_info keep their types: a network is waited for no longer than
\* NM_MAX_DIAL_TIMES times and cur_type is a network or none, for every bound.
THEOREM NmTyped == NmSpec => []NmTypeOK
  <1>1. NmInv => NmTypeOK
    BY DEF NmInv, Good, NmTypeOK
  <1> QED BY <1>1, NmInductive, PTL

\* nm_dial.c dials one network at a time, cur_type, and what is dialled or connected has
\* an APN and a handle, whatever messages of earlier calls, APN changes and failing
\* calls of the library come between.
THEOREM OneCallAlways == NmSpec => []OneCallAtATime
  <1>1. NmInv => OneCallAtATime
    BY DEF NmInv, Good, OneCall, OneCallAtATime
  <1> QED BY <1>1, NmInductive, PTL

-----------------------------------------------------------------------------
(* What the modules are told, and the recall.                              *)

\* What the modules were told is so; Q are the networks whose end is in the queue.
Told(n, Q) ==
    \A t \in Net :
        /\ n.told[t] = (n.st[t] = "CONNECTED")
        /\ n.told[t] => n.line[t] = "up" \/ t \in Q

\* A network with an APN is down.
Needed(n) == \E t \in Net : n.apn[t] /\ n.st[t] # "CONNECTED"

\* After its message, every handler has armed the timer, or asked the library to
\* initialise itself, unless there is nothing to dial.
Awake(n) == n.timer \/ n.first # NoNet \/ ~Needed(n)

\* n and m are the same to the modules.
SameView(n, m) == m.told = n.told /\ m.st = n.st /\ m.line = n.line

LEMMA SameTold ==
    ASSUME NEW n, NEW m, NEW Q, Told(n, Q), SameView(n, m)
    PROVE  Told(m, Q)
  BY DEF Told, SameView

LEMMA FaultView ==
    ASSUME NEW n, Good(n), NEW m \in Fault(n)
    PROVE  SameView(n, m) /\ m.timer = n.timer /\ m.first = n.first /\ m.apn = n.apn
             /\ m.handle = n.handle
  BY DEF Good, Fault, NmType, SameView

LEMMA ArmedView ==
    ASSUME NEW n, Good(n)
    PROVE  SameView(n, Armed(n)) /\ Armed(n).timer /\ Armed(n).handle = n.handle
  BY DEF Good, Armed, NmType, SameView

\* nm_dial_stop tells the modules that were told otherwise.
LEMMA StopTold ==
    ASSUME NEW n \in NmType, NEW t \in Net, NEW Q, Told(n, Q)
    PROVE  Told(nm_dial_stop(n, t), Q) /\ nm_dial_stop(n, t).timer = n.timer
  <1> DEFINE m == nm_dial_stop(n, t)
  <1>1. /\ \A x \in Net : m.st[x] = IF x = t THEN "DISCONNECTED" ELSE n.st[x]
        /\ \A x \in Net : m.line[x] = IF x = t THEN "none" ELSE n.line[x]
        /\ \A x \in Net : x # t => m.told[x] = n.told[x]
        /\ m.timer = n.timer
    BY DEF nm_dial_stop, NmType
  <1>2. m.told[t] = IF n.st[t] = "CONNECTED" THEN FALSE ELSE n.told[t]
    BY DEF nm_dial_stop, NmType
  <1>3. m.told[t] = FALSE
    <2>1. CASE n.st[t] = "CONNECTED"
      BY <1>2, <2>1
    <2>2. CASE n.st[t] # "CONNECTED"
      BY <1>2, <2>2 DEF Told
    <2> QED BY <2>1, <2>2
  <1> HIDE DEF m
  <1>4. Told(m, Q)
    <2> SUFFICES ASSUME NEW x \in Net
                 PROVE  /\ m.told[x] = (m.st[x] = "CONNECTED")
                        /\ m.told[x] => m.line[x] = "up" \/ x \in Q
      BY DEF Told
    <2>1. CASE x = t
      BY <1>1, <1>3, <2>1
    <2>2. CASE x # t
      BY <1>1, <2>2 DEF Told
    <2> QED BY <2>1, <2>2
  <1> QED BY <1>1, <1>4 DEF m

\* nm_dial_call starts the timer first; it dials only what is down.
LEMMA CallTold ==
    ASSUME NEW n, Good(n), NEW t \in Net, NEW Q, Told(n, Q), NEW m \in nm_dial_call(n, t)
    PROVE  Told(m, Q) /\ m.timer
  <1> DEFINE r == Armed(n)
             a == [r EXCEPT !.wait[t] = 0]
             g == [a EXCEPT !.handle[t] = TRUE]
             d == [g EXCEPT !.line[t] = "dialling", !.st[t] = "CONNECTING", !.cur = t]
  <1>0. \/ m = a \/ m = nm_dial_stop(a, t)
        \/ ~n.handle[t] /\ (m = d \/ m \in Fault(a) \cup Fault(g))
    BY DEF nm_dial_call
  <1>1. Good(r) /\ SameView(n, r) /\ r.timer
    BY ArmedGood, ArmedView
  <1> HIDE DEF r
  <1>2. 0 \in 0 .. MaxWait
    BY NmAssumption
  <1>3. Good(a)
    BY <1>1, <1>2, WaitGood
  <1>4. SameView(r, a) /\ a.timer
    BY <1>1 DEF Good, NmType, SameView
  <1>5. Told(a, Q)
    BY <1>1, <1>4, SameTold DEF SameView
  <1> HIDE DEF a
  <1>6. Good(g)
    BY <1>3, HandleGood
  <1>7. SameView(a, g) /\ g.timer
    BY <1>3, <1>4 DEF Good, NmType, SameView
  <1>8. Told(g, Q)
    BY <1>5, <1>7, SameTold
  <1> HIDE DEF g
  <1>9. ASSUME ~n.handle[t] PROVE Told(d, Q) /\ d.timer
    <2>1. n.st[t] = "DISCONNECTED"
      BY <1>9 DEF Good, OneCall, NmType
    <2>2. g.told[t] = FALSE /\ g.st = n.st
      BY <1>1, <1>4, <1>7, <1>8, <2>1 DEF Told, SameView
    <2>3. t \in 0 .. NoNet
      BY DEF Net, PRIVATE, PUBLIC, NoNet
    <2>4. /\ d.told = g.told /\ d.timer = g.timer
          /\ \A x \in Net : d.st[x] = IF x = t THEN "CONNECTING" ELSE g.st[x]
          /\ \A x \in Net : x # t => d.line[x] = g.line[x]
      BY <1>6, <2>3 DEF Good, NmType
    <2> HIDE DEF d
    <2>5. ASSUME NEW x \in Net
          PROVE  /\ d.told[x] = (d.st[x] = "CONNECTED")
                 /\ d.told[x] => d.line[x] = "up" \/ x \in Q
      <3>1. CASE x = t
        BY <2>2, <2>4, <3>1
      <3>2. CASE x # t
        BY <1>8, <2>4, <3>2 DEF Told
      <3> QED BY <3>1, <3>2
    <2> QED BY <1>7, <2>4, <2>5 DEF Told
  <1>10. CASE m = nm_dial_stop(a, t)
    BY <1>3, <1>4, <1>5, <1>10, StopTold DEF Good
  <1>11. CASE m \in Fault(a)
    BY <1>3, <1>4, <1>5, <1>11, FaultView, SameTold
  <1>12. CASE m \in Fault(g)
    BY <1>6, <1>7, <1>8, <1>12, FaultView, SameTold
  <1> QED BY <1>0, <1>4, <1>5, <1>9, <1>10, <1>11, <1>12

\* When there is no next network, none is needed.
LEMMA DialNextTold ==
    ASSUME NEW n, Good(n), NEW type \in 0 .. NoNet, NEW Q, Told(n, Q), NEW m \in DialNext(n, type)
    PROVE  Told(m, Q) /\ Awake(m)
  <1> DEFINE next == nm_dial_get_next_dial_net(n, type)
  <1>1. next \in Net \cup {NoNet}
    BY NextNet
  <1>2. next = NoNet => ~Needed(n)
    BY DEF nm_dial_get_next_dial_net, Needed, Net, NoNet, PRIVATE, PUBLIC
  <1> HIDE DEF next
  <1>3. CASE next \in Net /\ m \in nm_dial_call(n, next)
    BY <1>3, CallTold DEF Awake
  <1>4. CASE m = [n EXCEPT !.cur = NoNet] /\ next = NoNet
    <2>1. SameView(n, m) /\ m.apn = n.apn
      BY <1>4 DEF Good, NmType, SameView
    <2> QED BY <1>2, <1>4, <2>1, SameTold DEF Awake, Needed, SameView
  <1>5. \/ next \in Net /\ m \in nm_dial_call(n, next)
        \/ m = [n EXCEPT !.cur = NoNet] /\ next = NoNet
    BY <1>1 DEF DialNext, next
  <1> QED BY <1>3, <1>4, <1>5

LEMMA AllNetTold ==
    ASSUME NEW n, Good(n), n.init = "NOT_INITED", NEW Q, Told(n, Q), NEW m \in nm_dial_all_net(n)
    PROVE  Told(m, Q) /\ Awake(m)
  <1> DEFINE t == IF n.apn[PRIVATE] THEN PRIVATE ELSE PUBLIC
  <1>1. t \in Net /\ t \in 0 .. NoNet /\ t # NoNet
    BY DEF Net, PRIVATE, PUBLIC, NoNet
  <1>2. CASE m = n /\ ~n.apn[t]
    BY <1>2 DEF Awake, Needed, Net
  <1>3. CASE m = [n EXCEPT !.init = "INITING", !.first = t]
    <2> HIDE DEF t
    <2>1. SameView(n, m) /\ m.first = t
      BY <1>1, <1>3 DEF Good, NmType, SameView
    <2> QED BY <1>1, <2>1, SameTold DEF Awake
  <1>4. CASE \E f \in Fault(n) : m = Armed(f)
    <2>1. PICK f \in Fault(n) : m = Armed(f)
      BY <1>4
    <2>2. Good(f) /\ SameView(n, f)
      BY <2>1, FaultGood, FaultView
    <2>3. SameView(f, m) /\ m.timer
      BY <2>1, <2>2, ArmedView
    <2> QED BY <2>2, <2>3, SameTold DEF Awake
  <1>5. \/ m = n /\ ~n.apn[t]
        \/ m = [n EXCEPT !.init = "INITING", !.first = t]
        \/ \E f \in Fault(n) : m = Armed(f)
    BY DEF nm_dial_all_net
  <1> QED BY <1>2, <1>3, <1>4, <1>5

\* The handlers.
LEMMA InitMsgTold ==
    ASSUME NEW n, Good(n), n.init = "INITING", NEW t \in Net, NEW Q, Told(n, Q),
           NEW m \in nm_dial_init_msg_proc(n, t)
    PROVE  Told(m, Q) /\ Awake(m)
  <1> DEFINE a == [n EXCEPT !.init = "INITED"]
  <1>1. m \in nm_dial_call(a, t) \/ m \in DialNext(a, t)
    BY DEF nm_dial_init_msg_proc
  <1>2. \A x \in Net : n.st[x] = "DISCONNECTED"
    BY DEF Good, OneCall, NmType
  <1>3. a \in NmType /\ SameView(n, a)
    BY DEF Good, NmType, SameView
  <1> HIDE DEF a
  <1>4. Good(a)
    BY <1>2, <1>3 DEF Good, OneCall, SameView
  <1>5. Told(a, Q)
    BY <1>3, SameTold
  <1>6. t \in 0 .. NoNet
    BY DEF Net, PRIVATE, PUBLIC, NoNet
  <1> QED BY <1>1, <1>4, <1>5, <1>6, CallTold, DialNextTold DEF Awake

\* An answer counts only if the call it is about is up.
LEMMA ConnectedTold ==
    ASSUME NEW n, Good(n), NEW t \in Net, NEW Q, Told(n, Q), NEW m \in nm_dial_connected(n, t)
    PROVE  Told(m, Q) /\ (m = n \/ Awake(m))
  <1> DEFINE a == [n EXCEPT !.st[t] = "CONNECTED", !.told[t] = TRUE]
  <1>0. \/ m = n
        \/ /\ n.st[t] = "CONNECTING"
           /\ \/ m \in nm_dial_call(n, t)
              \/ n.line[t] = "up" /\ m \in DialNext(a, t)
              \/ \E f \in Fault(n) : m \in nm_dial_call(f, t)
    BY DEF nm_dial_connected
  <1>1. CASE m \in nm_dial_call(n, t)
    BY <1>1, CallTold DEF Awake
  <1>2. CASE \E f \in Fault(n) : m \in nm_dial_call(f, t)
    <2>1. PICK f \in Fault(n) : m \in nm_dial_call(f, t)
      BY <1>2
    <2>2. Good(f) /\ Told(f, Q)
      BY <2>1, FaultGood, FaultView, SameTold
    <2> QED BY <2>1, <2>2, CallTold DEF Awake
  <1>3. CASE n.st[t] = "CONNECTING" /\ n.line[t] = "up" /\ m \in DialNext(a, t)
    <2>1. /\ a \in NmType /\ SameInit(n, a) /\ a.apn = n.apn /\ a.handle = n.handle
          /\ a.line = n.line
          /\ \A x \in Net : a.st[x] = IF x = t THEN "CONNECTED" ELSE n.st[x]
          /\ \A x \in Net : x # t => a.told[x] = n.told[x]
          /\ a.told[t] = TRUE
          /\ a.cur = n.cur
      BY DEF Good, NmType, SameInit
    <2>2. t \in 0 .. NoNet
      BY DEF Net, PRIVATE, PUBLIC, NoNet
    <2>3. n.handle[t] /\ n.apn[t] /\ n.init = "INITED"
      BY <1>3 DEF Good, OneCall
    <2> HIDE DEF a
    <2>4. Good(a)
      BY <2>1, <2>3 DEF Good, OneCall, SameInit
    <2>5. ASSUME NEW x \in Net
          PROVE  /\ a.told[x] = (a.st[x] = "CONNECTED")
                 /\ a.told[x] => a.line[x] = "up" \/ x \in Q
      <3>1. CASE x = t
        BY <1>3, <2>1, <3>1
      <3>2. CASE x # t
        BY <2>1, <3>2 DEF Told
      <3> QED BY <3>1, <3>2
    <2>6. Told(a, Q)
      BY <2>5 DEF Told
    <2> QED BY <1>3, <2>2, <2>4, <2>6, DialNextTold
  <1> QED BY <1>0, <1>1, <1>2, <1>3

\* The message of its end counts for the network, whatever was in the queue besides.
LEMMA DisconnectedTold ==
    ASSUME NEW n, Good(n), n.init # "NOT_INITED", NEW t \in Net, NEW Q, Told(n, Q \cup {t}),
           NEW m \in nm_dial_disconnected(n, t)
    PROVE  Told(m, Q) /\ Awake(m)
  <1> DEFINE a == [n EXCEPT !.st[t] = "DISCONNECTED",
                            !.told[t] = IF n.st[t] = "CONNECTED" THEN FALSE ELSE @]
  <1>1. m = Armed(a)
    BY DEF nm_dial_disconnected
  <1>2. /\ a \in NmType /\ a.line = n.line
        /\ \A x \in Net : a.st[x] = IF x = t THEN "DISCONNECTED" ELSE n.st[x]
        /\ \A x \in Net : x # t => a.told[x] = n.told[x]
        /\ a.apn = n.apn /\ a.handle = n.handle /\ a.cur = n.cur /\ SameInit(n, a)
    BY DEF Good, NmType, SameInit
  <1>3. a.told[t] = IF n.st[t] = "CONNECTED" THEN FALSE ELSE n.told[t]
    BY DEF Good, NmType
  <1>4. a.told[t] = FALSE
    <2>1. CASE n.st[t] = "CONNECTED"
      BY <1>3, <2>1
    <2>2. CASE n.st[t] # "CONNECTED"
      BY <1>3, <2>2 DEF Told
    <2> QED BY <2>1, <2>2
  <1> HIDE DEF a
  <1>5. ASSUME NEW x \in Net
        PROVE  /\ a.told[x] = (a.st[x] = "CONNECTED")
               /\ a.told[x] => a.line[x] = "up" \/ x \in Q
    <2>1. CASE x = t
      BY <1>2, <1>4, <2>1
    <2>2. CASE x # t
      BY <1>2, <2>2 DEF Told
    <2> QED BY <2>1, <2>2
  <1>6. Told(a, Q)
    BY <1>5 DEF Told
  <1>7. Good(a)
    BY <1>2 DEF Good, OneCall, SameInit
  <1> QED BY <1>1, <1>6, <1>7, ArmedView, SameTold DEF Awake

\* The recall arms the timer again, as long as a network is dialled or to be dialled.
LEMMA TimerTold ==
    ASSUME NEW n, Good(n), n.init # "NOT_INITED", NEW Q, Told(n, Q),
           NEW m \in nm_dial_timer_msg_proc(n)
    PROVE  Told(m, Q) /\ Awake(m)
  <1> DEFINE c == n.cur
             a == IF c = NoNet THEN n ELSE Armed(n)
  <1>1. \/ c # NoNet /\ m = [a EXCEPT !.wait[c] = @ + 1]
        \/ c # NoNet /\ m = nm_dial_stop(a, c)
        \/ m \in DialNext(a, c)
    BY DEF nm_dial_timer_msg_proc
  <1>2. c \in 0 .. NoNet /\ (c # NoNet => c \in Net)
    BY DEF Good, NmType, Net, NoNet, PRIVATE, PUBLIC
  <1>3. Good(a) /\ Told(a, Q) /\ (c # NoNet => a.timer)
    <2>1. CASE c = NoNet
      BY <2>1
    <2>2. CASE c # NoNet
      BY <2>2, ArmedGood, ArmedView, SameTold
    <2> QED BY <2>1, <2>2
  <1> HIDE DEF a, c
  <1>4. CASE c # NoNet /\ m = [a EXCEPT !.wait[c] = @ + 1]
    <2>1. SameView(a, m) /\ m.timer = a.timer
      BY <1>2, <1>3, <1>4 DEF Good, NmType, SameView
    <2> QED BY <1>3, <1>4, <2>1, SameTold DEF Awake
  <1>5. CASE c # NoNet /\ m = nm_dial_stop(a, c)
    BY <1>2, <1>3, <1>5, StopTold DEF Awake, Good
  <1>6. CASE m \in DialNext(a, c)
    BY <1>2, <1>3, <1>6, DialNextTold
  <1> QED BY <1>1, <1>4, <1>5, <1>6

LEMMA ApnTold ==
    ASSUME NEW n, Good(n), NEW Q, Told(n, Q), NEW m \in ApnChanged(n)
    PROVE  Told(m, Q) /\ Awake(m)
  <1>1. PICK t \in Net, b \in BOOLEAN : m = nm_dial_restart([n EXCEPT !.apn[t] = b])
    BY DEF ApnChanged
  <1> DEFINE a == [n EXCEPT !.apn[t] = b]
             r == Armed(a)
             p == nm_dial_stop(r, PRIVATE)
             q == nm_dial_stop(p, PUBLIC)
  <1>2. m = [q EXCEPT !.cur = NoNet]
    BY <1>1 DEF nm_dial_restart
  <1>3. a \in NmType /\ SameView(n, a)
    BY DEF Good, NmType, SameView
  <1> HIDE DEF a
  <1>4. r \in NmType /\ SameView(a, r) /\ r.timer
    BY <1>3 DEF Armed, NmType, SameView
  <1>5. Told(r, Q)
    BY <1>3, <1>4, SameTold DEF SameView
  <1> HIDE DEF r
  <1>6. PRIVATE \in Net /\ PUBLIC \in Net
    BY DEF Net
  <1>7. p \in NmType /\ Told(p, Q) /\ p.timer = r.timer
    BY <1>4, <1>5, <1>6, StopType, StopTold
  <1> HIDE DEF p
  <1>8. q \in NmType /\ Told(q, Q) /\ q.timer = p.timer
    BY <1>6, <1>7, StopType, StopTold
  <1> HIDE DEF q
  <1>9. SameView(q, m) /\ m.timer = q.timer
    BY <1>2, <1>8 DEF NmType, SameView
  <1> QED BY <1>4, <1>7, <1>8, <1>9, SameTold DEF Awake

-----------------------------------------------------------------------------
\* The networks whose end is in the queue.
Ended == {t \in Net : InNmQueue("NO_NET", t)}

\* A message that is handled leaves the others in the queue, one that is posted all.
LEMMA TailKeeps ==
    ASSUME nmQueue \in Seq(NmMsg), nmQueue # <<>>, nmQueue' = Tail(nmQueue), NEW k, NEW t,
           InNmQueue(k, t), Head(nmQueue) # [m |-> k, t |-> t]
    PROVE  InNmQueue(k, t)'
  <1>1. PICK i \in 1 .. Len(nmQueue) : nmQueue[i] = [m |-> k, t |-> t]
    BY DEF InNmQueue
  <1> DEFINE x == [m |-> k, t |-> t]
  <1>2. nmQueue[i] = x /\ nmQueue[1] # x
    BY <1>1
  <1> HIDE DEF x
  <1>3. i - 1 \in 1 .. Len(Tail(nmQueue)) /\ Tail(nmQueue)[i - 1] = nmQueue[i]
    BY <1>2
  <1> QED BY <1>2, <1>3 DEF InNmQueue, x

LEMMA PostKeeps ==
    ASSUME nmQueue \in Seq(NmMsg), NEW k, NEW t, NmPost(k, t)
    PROVE  /\ InNmQueue(k, t)'
           /\ \A j, x : InNmQueue(j, x) => InNmQueue(j, x)'
  <1> DEFINE new == [m |-> k, t |-> t]
  <1>1. nmQueue' = Append(nmQueue, new)
    BY DEF NmPost
  <1> HIDE DEF new
  <1>2. /\ Len(nmQueue') = Len(nmQueue) + 1 /\ nmQueue'[Len(nmQueue) + 1] = new
        /\ \A i \in 1 .. Len(nmQueue) : nmQueue'[i] = nmQueue[i]
        /\ Len(nmQueue) \in Nat
    BY <1>1
  <1>3. InNmQueue(k, t)'
    BY <1>2 DEF InNmQueue, new
  <1>4. ASSUME NEW j, NEW x, InNmQueue(j, x) PROVE InNmQueue(j, x)'
    <2>1. PICK i \in 1 .. Len(nmQueue) : nmQueue[i] = [m |-> j, t |-> x]
      BY <1>4 DEF InNmQueue
    <2>2. i \in 1 .. Len(nmQueue') /\ nmQueue'[i] = nmQueue[i]
      BY <1>2
    <2> QED BY <2>1, <2>2 DEF InNmQueue
  <1> QED BY <1>3, <1>4

\* The inductive invariant of DialSound.
SoundInv == NmInv /\ Told(nm, Ended) /\ RecallArmed

\* A step of the thread.
LEMMA MsgSound ==
    ASSUME SoundInv, nm_dial_msg_proc
    PROVE  Told(nm', Ended') /\ RecallArmed'
  <1> DEFINE msg == Head(nmQueue)
  <1>1. nmQueue # <<>> /\ nmQueue' = Tail(nmQueue) /\ nmQueue \in Seq(NmMsg) /\ Good(nm) /\ InitOnce
    BY DEF nm_dial_msg_proc, SoundInv, NmInv
  <1>2. msg \in NmMsg /\ msg = nmQueue[1] /\ 1 \in 1 .. Len(nmQueue)
    BY <1>1
  <1>3. msg.m \in {"INITED", "IS_CONN", "NO_NET"} => msg.t \in Net
    BY <1>2 DEF NmMsg
  <1>4. ASSUME NEW k, NEW t, InNmQueue(k, t), msg.m # k \/ msg.t # t PROVE InNmQueue(k, t)'
    <2>1. msg # [m |-> k, t |-> t]
      BY <1>4
    <2> QED BY <1>1, <1>4, <2>1, TailKeeps
  <1>5. Ended \subseteq Ended' \cup (IF msg.m = "NO_NET" THEN {msg.t} ELSE {})
    BY <1>4 DEF Ended
  <1>6. Told(nm, Ended' \cup (IF msg.m = "NO_NET" THEN {msg.t} ELSE {}))
    BY <1>5 DEF SoundInv, Told
  <1>7. Awake(nm') => RecallArmed'
    BY DEF Awake, Needed, RecallArmed
  <1>8. ASSUME nm.init = "NOT_INITED", nm' \in nm_dial_all_net(nm) PROVE Told(nm', Ended') /\ RecallArmed'
    <2>1. \A t \in Net : nm.st[t] = "DISCONNECTED"
      BY <1>1, <1>8 DEF Good, OneCall, NmType
    <2>2. Told(nm, Ended')
      BY <2>1 DEF SoundInv, Told
    <2> QED BY <1>1, <1>7, <1>8, <2>2, AllNetTold
  <1>9. CASE msg.m = "INITED" /\ nm' \in nm_dial_init_msg_proc(nm, msg.t)
    <2>1. nm.init = "INITING"
      BY <1>1, <1>2, <1>9 DEF InitOnce
    <2>2. Told(nm, Ended')
      BY <1>6, <1>9
    <2> HIDE DEF msg
    <2> QED BY <1>1, <1>3, <1>7, <1>9, <2>1, <2>2, InitMsgTold
  <1>10. CASE msg.m = "IS_CONN" /\ nm' \in nm_dial_connected(nm, msg.t)
    <2>1. Told(nm, Ended')
      BY <1>6, <1>10
    <2>2. nm' = nm => RecallArmed'
      BY <1>4, <1>10 DEF SoundInv, RecallArmed
    <2> HIDE DEF msg
    <2> QED BY <1>1, <1>3, <1>7, <1>10, <2>1, <2>2, ConnectedTold
  <1>11. CASE msg.m = "NO_NET" /\ nm' \in nm_dial_disconnected(nm, msg.t)
    <2>1. Told(nm, Ended' \cup {msg.t})
      BY <1>6, <1>11
    <2> HIDE DEF msg
    <2>2. CASE nm.init = "NOT_INITED"
      BY <1>8, <1>11, <2>2 DEF nm_dial_disconnected
    <2>3. CASE nm.init # "NOT_INITED"
      BY <1>1, <1>3, <1>7, <1>11, <2>1, <2>3, DisconnectedTold
    <2> QED BY <2>2, <2>3
  <1>12. CASE msg.m = "RECALL" /\ nm' \in nm_dial_timer_msg_proc(nm)
    <2>1. Told(nm, Ended')
      BY <1>6, <1>12
    <2> HIDE DEF msg
    <2>2. CASE nm.init = "NOT_INITED"
      BY <1>8, <1>12, <2>2 DEF nm_dial_timer_msg_proc
    <2>3. CASE nm.init # "NOT_INITED"
      BY <1>1, <1>7, <1>12, <2>1, <2>3, TimerTold
    <2> QED BY <2>2, <2>3
  <1>13. CASE msg.m = "APN" /\ nm' \in ApnChanged(nm)
    <2>1. Told(nm, Ended')
      BY <1>6, <1>13
    <2> QED BY <1>1, <1>7, <1>13, <2>1, ApnTold
  <1> QED BY <1>9, <1>10, <1>11, <1>12, <1>13 DEF nm_dial_msg_proc

\* A step of the modem, the library, the timer or the configuration.
LEMMA PostSound ==
    ASSUME SoundInv,
           \/ Inited \/ RecallTimer \/ SetsApn
           \/ \E t \in Net : Answers(t) \/ CallEnds(t)
    PROVE  Told(nm', Ended') /\ RecallArmed'
  <1>1. nmQueue \in Seq(NmMsg) /\ nm \in NmType /\ Good(nm) /\ Told(nm, Ended) /\ RecallArmed
    BY DEF SoundInv, NmInv, Good
  <1>2. ASSUME \A j, x : InNmQueue(j, x) => InNmQueue(j, x)'
        PROVE  Ended \subseteq Ended' /\ Told(nm, Ended')
    BY <1>1, <1>2 DEF Ended, Told
  <1>3. CASE Inited
    <2>0. nm.first \in Net
      BY <1>1, <1>3 DEF Inited, NmType, Net, PRIVATE, PUBLIC, NoNet
    <2>1. PICK f \in Net : nm' = [nm EXCEPT !.first = NoNet] /\ NmPost("INITED", f)
      BY <1>3, <2>0 DEF Inited
    <2>2. SameView(nm, nm')
      BY <1>1, <2>1 DEF NmType, SameView
    <2>3. InNmQueue("INITED", f)' /\ \A j, x : InNmQueue(j, x) => InNmQueue(j, x)'
      BY <1>1, <2>1, PostKeeps
    <2>4. Told(nm', Ended')
      BY <1>2, <2>2, <2>3, SameTold
    <2>5. RecallArmed'
      BY <2>1, <2>3 DEF RecallArmed
    <2> QED BY <2>4, <2>5
  <1>4. CASE RecallTimer
    <2>1. /\ nm' = [nm EXCEPT !.timer = FALSE] /\ InNmQueue("RECALL", NoNet)'
          /\ \A j, x : InNmQueue(j, x) => InNmQueue(j, x)'
      BY <1>1, <1>4, PostKeeps DEF RecallTimer
    <2>2. SameView(nm, nm')
      BY <1>1, <2>1 DEF NmType, SameView
    <2> QED BY <1>2, <2>1, <2>2, SameTold DEF RecallArmed
  <1>5. CASE SetsApn
    <2>1. nm' \in Fault(nm) /\ \A j, x : InNmQueue(j, x) => InNmQueue(j, x)'
      BY <1>1, <1>5, PostKeeps DEF SetsApn
    <2>2. SameView(nm, nm') /\ nm'.timer = nm.timer /\ nm'.first = nm.first /\ nm'.apn = nm.apn
      BY <1>1, <2>1, FaultView
    <2>3. RecallArmed'
      BY <1>1, <2>1, <2>2 DEF RecallArmed, SameView
    <2> QED BY <1>2, <2>1, <2>2, <2>3, SameTold
  <1>6. ASSUME NEW t \in Net, Answers(t) PROVE Told(nm', Ended') /\ RecallArmed'
    <2>1. nm' = [nm EXCEPT !.line[t] = "up"] /\ \A j, x : InNmQueue(j, x) => InNmQueue(j, x)'
      BY <1>1, <1>6, PostKeeps DEF Answers
    <2>2. /\ nm'.told = nm.told /\ nm'.st = nm.st /\ nm'.timer = nm.timer /\ nm'.first = nm.first
          /\ nm'.apn = nm.apn
          /\ \A x \in Net : nm'.line[x] = IF x = t THEN "up" ELSE nm.line[x]
      BY <1>1, <2>1 DEF NmType
    <2>3. Told(nm', Ended')
      BY <1>2, <2>1, <2>2 DEF Told
    <2>4. RecallArmed'
      BY <1>1, <2>1, <2>2 DEF RecallArmed
    <2> QED BY <2>3, <2>4
  <1>7. ASSUME NEW t \in Net, CallEnds(t) PROVE Told(nm', Ended') /\ RecallArmed'
    <2>1. PICK n \in {nm} \cup Fault(nm) : nm' = [n EXCEPT !.line[t] = "none"]
      BY <1>7 DEF CallEnds
    <2>2. InNmQueue("NO_NET", t)' /\ \A j, x : InNmQueue(j, x) => InNmQueue(j, x)'
      BY <1>1, <1>7, PostKeeps DEF CallEnds
    <2>3. SameView(nm, n) /\ n.timer = nm.timer /\ n.first = nm.first /\ n.apn = nm.apn /\ Good(n)
      BY <1>1, FaultView, FaultGood DEF SameView
    <2>4. /\ nm'.told = nm.told /\ nm'.st = nm.st /\ nm'.timer = nm.timer /\ nm'.first = nm.first
          /\ nm'.apn = nm.apn
          /\ \A x \in Net : x # t => nm'.line[x] = nm.line[x]
      BY <2>1, <2>3 DEF Good, NmType, SameView
    <2>5. Told(nm, Ended') /\ t \in Ended'
      BY <1>2, <2>2 DEF Ended
    <2>6. Told(nm', Ended')
      BY <2>4, <2>5 DEF Told
    <2>7. RecallArmed'
      BY <1>1, <2>2, <2>4 DEF RecallArmed
    <2> QED BY <2>6, <2>7
  <1> QED BY <1>3, <1>4, <1>5, <1>6, <1>7

LEMMA SoundInit == NmInit => SoundInv
  <1> HAVE NmInit
  <1>1. NmInv /\ nmQueue = <<>>
    BY NmInitInv DEF NmInit
  <1>2. PICK apn \in [Net -> BOOLEAN] :
          nm \in nm_dial_all_net([init |-> "NOT_INITED", apn |-> apn,
                                  st |-> [t \in Net |-> "DISCONNECTED"],
                                  handle |-> [t \in Net |-> FALSE], wait |-> [t \in Net |-> 0],
                                  cur |-> PRIVATE, timer |-> FALSE,
                                  told |-> [t \in Net |-> FALSE], line |-> [t \in Net |-> "none"],
                                  first |-> NoNet, faults |-> 0])
    BY DEF NmInit
  <1> DEFINE n == [init |-> "NOT_INITED", apn |-> apn,
                   st |-> [t \in Net |-> "DISCONNECTED"],
                   handle |-> [t \in Net |-> FALSE], wait |-> [t \in Net |-> 0],
                   cur |-> PRIVATE, timer |-> FALSE,
                   told |-> [t \in Net |-> FALSE], line |-> [t \in Net |-> "none"],
                   first |-> NoNet, faults |-> 0]
  <1>3. PRIVATE \in 0 .. NoNet /\ NoNet \in 0 .. NoNet /\ 0 \in 0 .. MaxWait /\ 0 \in 0 .. MaxFaults
    BY NmAssumption DEF PRIVATE, NoNet
  <1>4. n \in NmType
    BY <1>3 DEF NmType
  <1>5. n.init = "NOT_INITED" /\ \A x \in Net : n.st[x] = "DISCONNECTED" /\ n.told[x] = FALSE
    OBVIOUS
  <1>6. nm \in nm_dial_all_net(n)
    BY <1>2
  <1> HIDE DEF n
  <1>7. Good(n) /\ Told(n, Ended)
    BY <1>4, <1>5 DEF Good, OneCall, Told
  <1>8. Told(nm, Ended) /\ Awake(nm)
    BY <1>5, <1>6, <1>7, AllNetTold
  <1> QED BY <1>1, <1>8 DEF SoundInv, Awake, Needed, RecallArmed

LEMMA SoundInductive == NmSpec => []SoundInv
  <1>1. SoundInv /\ [NmNext]_nmVars => SoundInv'
    <2> SUFFICES ASSUME SoundInv, [NmNext]_nmVars PROVE SoundInv'
      OBVIOUS
    <2>1. CASE UNCHANGED nmVars
      BY <2>1 DEF SoundInv, NmInv, Good, OneCall, InitOnce, Told, Ended, RecallArmed, InNmQueue, nmVars
    <2>2. CASE NmNext
      <3>1. NmInv'
        BY <2>2, MsgStep, ModemStep, OtherStep DEF NmNext, SoundInv
      <3>2. Told(nm', Ended') /\ RecallArmed'
        BY <2>2, MsgSound, PostSound DEF NmNext
      <3> QED BY <3>1, <3>2 DEF SoundInv
    <2> QED BY <2>1, <2>2
  <1> QED BY <1>1, SoundInit, PTL DEF NmSpec

\* What nm tells the modules is so, or the message that it no longer is waits in the queue;
\* and while a network with an APN is down the recall timer runs or its message, or the
\* library's, is on the way: whatever the bounds on waits, faults and the queue.
THEOREM DialAlwaysSound == NmSpec => []DialSound
  <1>1. SoundInv => DialSound
    BY DEF SoundInv, NmInv, Good, NmTypeOK, Told, Ended, ToldNetIsUp, DialSound
  <1> QED BY <1>1, SoundInductive, PTL
=============================================================================
