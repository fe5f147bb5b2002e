-------------------------------- MODULE Sock --------------------------------
(***************************************************************************)
(* One SYNCTCP client socket of app/base/sock/sock.c: the connect thread,  *)
(* the list of frames whose bytes the peer has not acknowledged, and the   *)
(* arithmetic on SIOCOUTQ by which sock_sync decides that the peer has     *)
(* acknowledged the oldest frame and calls its owner back.                 *)
(*                                                                         *)
(* A sync entry is anonymous, so sync_free and sync_back are counts; the   *)
(* entries of sync_used are a sequence.  Time is abstract: a test of the   *)
(* clock against a time-out may go either way.                             *)
(***************************************************************************)
EXTENDS Integers, Sequences, FiniteSets

CONSTANTS NFree,       \* entries of sync_free: SOCK_MAX_SYNC - NBack
          NBack,       \* entries of sync_back: SOCK_MAX_SYNC / 10
          SndBuf,      \* bytes the kernel's send buffer holds
          Addrs,       \* server addresses
          Lens,        \* lengths of the frames the socket's user sends
          MaxFrag,     \* bound: bytes of abandoned frames on one connection
          SpawnFails   \* may pthread_create fail

ASSUME SockAssumption ==
    /\ NFree \in Nat
    /\ NBack \in Nat
    /\ SndBuf \in Nat
    /\ Lens \subseteq Nat \ {0}
    /\ MaxFrag \in Nat
    /\ SpawnFails \in BOOLEAN

VARIABLES
    stat,     \* sock->stat
    peer,     \* sock->url and sock->port, "none" before the first sock_open
    free,     \* length of sock->sync_free
    back,     \* length of sock->sync_back
    used,     \* sock->sync_used
    sendsz,   \* sock->sendsz
    conn,     \* the connect thread: "none", "connecting", or its outcome
    down,     \* the kernel reports the connection broken
    outq,     \* SIOCOUTQ: bytes written and not acknowledged by the peer
    frag,     \* bytes of frames whose sending was given up half-way
    lag       \* history: bytes acknowledged whose frame is not released yet

sockVars == <<stat, peer, free, back, used, sendsz, conn, down, outq, frag, lag>>
kernel   == <<down, outq, frag, lag>>

CLOSED == "CLOSED"
INPROG == "INPROG"
OPENED == "OPENED"

NoAddr == "none"

\* sync_t: the frame's length, whether it has a callback, the list it returns to
SyncEntry == [len : Nat \ {0}, cb : BOOLEAN, owner : {"free", "back"}]

SockInit ==
    /\ stat = CLOSED
    /\ peer = NoAddr
    /\ free = 0 /\ back = 0 /\ used = <<>> /\ sendsz = 0
    /\ conn = "none"
    /\ down = FALSE
    /\ outq = 0 /\ frag = 0 /\ lag = 0

-----------------------------------------------------------------------------
(* Opening and closing.                                                    *)

\* mutant: the counter survives the connection
CleanupKeepsSendsz(addr) ==
    /\ peer' = addr
    /\ sendsz' = sendsz
    /\ back' = NBack
    /\ free' = NFree
    /\ used' = <<>>

\* sock_cleanup: the connection starts with every sync entry unused
sock_cleanup(addr) ==
    /\ peer' = addr
    /\ sendsz' = 0
    /\ back' = NBack
    /\ free' = NFree
    /\ used' = <<>>

\* sock_open of a closed socket.  pthread_create reports failure with a
\* positive number, which the test "< 0" takes for success.
sock_open(addr) ==
    /\ stat = CLOSED
    /\ sock_cleanup(addr)
    /\ stat' = INPROG
    /\ \/ conn' = "connecting"
       \/ SpawnFails /\ conn' = "none"
    /\ UNCHANGED kernel

\* sock_open_proc up to sock_finish: name resolution, connect, select
sock_open_proc ==
    /\ conn = "connecting"
    /\ conn' \in {"connected", "failed"}
    /\ UNCHANGED <<stat, peer, free, back, used, sendsz, kernel>>

\* sock_finish: the thread's last step, under the socket's lock
sock_finish ==
    /\ conn \in {"connected", "failed"}
    /\ stat' = IF conn = "connected" THEN OPENED ELSE CLOSED
    /\ conn' = "none"
    /\ down' = FALSE /\ outq' = 0 /\ frag' = 0 /\ lag' = 0
    /\ UNCHANGED <<peer, free, back, used, sendsz>>

\* sock_close: nothing unless the socket is open
sock_close ==
    /\ stat' = IF stat = OPENED THEN CLOSED ELSE stat
    /\ IF stat = OPENED
       THEN down' = FALSE /\ outq' = 0 /\ frag' = 0 /\ lag' = 0
       ELSE UNCHANGED kernel
    /\ UNCHANGED <<peer, free, back, used, sendsz, conn>>

-----------------------------------------------------------------------------
(* Sending, and releasing what the peer has acknowledged.                  *)

\* mutant: an entry of sync_free is taken although only sync_back has one
SyncFullFreeOnly(cb) == free = 0 /\ back = 0

\* sock_send has no entry left for this frame
SyncFull(cb) == free = 0 /\ (cb \/ back = 0)

\* mutant: reports take the reserve as well
SendWholeAnyEntry(len, cb) ==
    LET owner == IF back > 0 THEN "back" ELSE "free"
    IN  /\ outq + len <= SndBuf
        /\ outq' = outq + len
        /\ sendsz' = sendsz + len
        /\ used' = Append(used, [len |-> len, cb |-> cb, owner |-> owner])
        /\ back' = IF owner = "back" THEN back - 1 ELSE back
        /\ free' = IF owner = "free" THEN free - 1 ELSE free
        /\ UNCHANGED <<stat, peer, conn, down, frag, lag>>

\* the whole frame is in the kernel; its entry comes from sync_back only
\* when the frame has no callback
SendWhole(len, cb) ==
    LET owner == IF ~cb /\ back > 0 THEN "back" ELSE "free"
    IN  /\ outq + len <= SndBuf
        /\ outq' = outq + len
        /\ sendsz' = sendsz + len
        /\ used' = Append(used, [len |-> len, cb |-> cb, owner |-> owner])
        /\ back' = IF owner = "back" THEN back - 1 ELSE back
        /\ free' = IF owner = "free" THEN free - 1 ELSE free
        /\ UNCHANGED <<stat, peer, conn, down, frag, lag>>

\* an error, or three seconds without room: part of the frame is written
SendPart(len) ==
    /\ \E k \in 0 .. len - 1 :
          /\ outq + k <= SndBuf
          /\ outq' = outq + k
          /\ frag' = frag + k
    /\ UNCHANGED <<stat, peer, free, back, used, sendsz, conn, down, lag>>

\* sock_send; res is its result: -1, 0, or the frame's length
sock_send(len, cb, res) ==
    \/ /\ stat # OPENED
       /\ res = -1
       /\ UNCHANGED sockVars
    \/ /\ stat = OPENED /\ SyncFull(cb)
       /\ res \in {-1, 0}
       /\ UNCHANGED sockVars
    \/ /\ stat = OPENED /\ ~SyncFull(cb)
       /\ res = -1
       /\ SendPart(len)
    \/ /\ stat = OPENED /\ ~SyncFull(cb) /\ ~down
       /\ res = len
       /\ SendWhole(len, cb)

\* mutant: any progress counts as an acknowledgement of the frame
HeadAckedEarly ==
    /\ used # <<>>
    /\ outq < sendsz

\* mutant: one byte more is waited for
HeadAckedLate ==
    /\ used # <<>>
    /\ Head(used).len < sendsz - outq

\* sock_sync finds that the peer has acknowledged the oldest frame
HeadAcked ==
    /\ used # <<>>
    /\ Head(used).len <= sendsz - outq

\* mutant: every entry released goes to sync_free
SyncToFree ==
    /\ stat = OPENED
    /\ IF HeadAcked
       THEN /\ sendsz' = sendsz - Head(used).len
            /\ used' = Tail(used)
            /\ free' = free + 1
            /\ lag' = lag - Head(used).len
       ELSE UNCHANGED <<sendsz, used, free, lag>>
    /\ UNCHANGED <<stat, peer, back, conn, down, outq, frag>>

\* sock_sync of an open socket; the caller of a frame with a callback is
\* called back in the same step
sock_sync ==
    /\ stat = OPENED
    /\ IF HeadAcked
       THEN /\ sendsz' = sendsz - Head(used).len
            /\ used' = Tail(used)
            /\ back' = IF Head(used).owner = "back" THEN back + 1 ELSE back
            /\ free' = IF Head(used).owner = "free" THEN free + 1 ELSE free
            /\ lag' = lag - Head(used).len
       ELSE UNCHANGED <<sendsz, used, back, free, lag>>
    /\ UNCHANGED <<stat, peer, conn, down, outq, frag>>

\* sock_bufsz of an open socket
sock_bufsz == SndBuf - outq

-----------------------------------------------------------------------------
(* The peer and the network.                                               *)

\* the peer acknowledges the next k bytes
TcpAck(k) ==
    /\ stat = OPENED /\ ~down
    /\ outq >= k
    /\ outq' = outq - k
    /\ lag' = lag + k
    /\ UNCHANGED <<stat, peer, free, back, used, sendsz, conn, down, frag>>

\* the connection breaks: SO_ERROR is set, recv and send fail
TcpBreak ==
    /\ stat = OPENED /\ ~down
    /\ down' = TRUE
    /\ UNCHANGED <<stat, peer, free, back, used, sendsz, conn, outq, frag, lag>>

-----------------------------------------------------------------------------
(* The socket with a user that calls the operations in any order.          *)

SockUser ==
    \/ \E a \in Addrs : sock_open(a)
    \/ sock_close
    \/ \E len \in Lens, cb \in BOOLEAN :
          \E res \in {-1, 0, len} : sock_send(len, cb, res) /\ frag' <= MaxFrag
    \/ sock_sync

SockEnv ==
    \/ sock_open_proc
    \/ sock_finish
    \/ \E k \in 1 .. SndBuf : TcpAck(k)
    \/ TcpBreak

SockNext == SockUser \/ SockEnv

SockSpec == SockInit /\ [][SockNext]_sockVars

-----------------------------------------------------------------------------
(* Properties.                                                             *)

\* The types of the socket's fields and of the kernel's counters.
SockTypeOK ==
    /\ stat \in {CLOSED, INPROG, OPENED}
    /\ peer \in Addrs \cup {NoAddr}
    /\ free \in Nat /\ back \in Nat
    /\ used \in Seq(SyncEntry)
    /\ sendsz \in Nat
    /\ conn \in {"none", "connecting", "connected", "failed"}
    /\ down \in BOOLEAN
    /\ outq \in Nat /\ frag \in Nat
    /\ lag \in Int

\* sock_sync never releases a frame (and so never tells its owner that it
\* arrived) before the peer has acknowledged every byte of it, although all it
\* sees is the number of bytes still unacknowledged.
ReleasedWereAcked == stat = OPENED => lag >= 0

\* The subtraction in sock_sync is exact: what the socket believes outstanding
\* is what the kernel holds plus what the peer has and sock_sync has not seen,
\* less the halves of abandoned frames.
AccountExact == stat = OPENED => sendsz + frag = outq + lag

\* Once the peer has acknowledged everything, the oldest frame can be
\* released: no rounding or abandoned frame leaves an entry that is never
\* given back.
AckedFrameIsReleasable ==
    stat = OPENED /\ used # <<>> /\ outq = 0 => HeadAcked

EntriesOf(list) == {i \in DOMAIN used : used[i].owner = list}

\* Every sync entry is on exactly one of the three lists: neither a release
\* nor a failed send loses one or gives it to the wrong list.
EntriesConserved ==
    stat # CLOSED =>
        /\ free + Cardinality(EntriesOf("free")) = NFree
        /\ back + Cardinality(EntriesOf("back")) = NBack

\* The reserve is for frames without a callback: however many reports are
\* unacknowledged, they hold no entry of sync_back, so the log-in and log-out
\* frames of the protocols above can still be sent.
ReportsLeaveReserve ==
    stat = OPENED =>
        /\ \A i \in DOMAIN used : used[i].cb => used[i].owner = "free"
        /\ (\A i \in DOMAIN used : used[i].cb) => back = NBack

\* The lists of sync entries are sound, whatever send, sync, close and the connect thread
\* do to them: every entry is on one of them, and reports never take the reserve.
SyncEntriesSound == SockTypeOK /\ EntriesConserved /\ ReportsLeaveReserve

\* sock_open's error branch says that a connect thread that could not be
\* started leaves the socket closed: a socket in progress has its thread.
InprogHasThread == stat = INPROG => conn # "none"

=============================================================================
