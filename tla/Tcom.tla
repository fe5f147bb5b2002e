-------------------------------- MODULE Tcom --------------------------------
(***************************************************************************)
(* The messages between the threads of the application                     *)
(* (app/base/tcom/tcom_main.c).  A queue is a pair: the header of a        *)
(* message goes through a pipe, its body through a ring of bytes, and the  *)
(* two are put together again by the length in the header.  A sender       *)
(* always writes to the queue of the TCOM thread, which reads the message  *)
(* back and writes it to the queue of its receiver.                        *)
(*                                                                         *)
(* Each write and each read of one queue happens under that queue's mutex  *)
(* and is one step; between the two halves of tcom_proc_msg the message is *)
(* in tcom_msgbuf.  A byte of a body is <<message id, position>>.          *)
(***************************************************************************)
EXTENDS Integers, Sequences

CONSTANTS Modules,   \* the modules that receive messages
          TCOM,      \* MPU_MID_TCOM
          Headers,   \* the headers in use: [id, to, len]
          BufSize,   \* TCOM_QUEUE_BUF_SIZE
          PipeCap,   \* headers the kernel's pipe holds
          MaxLen     \* TCOM_MAX_MSG_LEN

ASSUME TcomAssumption ==
    /\ TCOM \notin Modules
    /\ BufSize \in Nat \ {0} /\ PipeCap \in Nat \ {0} /\ MaxLen \in Nat
    /\ \A h \in Headers : h.len \in Nat /\ h.to \in Modules \cup {TCOM}

VARIABLES
    ring,    \* tcom_queue
    pipe,    \* tcom_pipe: the headers written and not read
    hand,    \* the TCOM thread's msghdr and tcom_msgbuf, None between messages
    inbox    \* the message each module is handling

tcomVars == <<ring, pipe, hand, inbox>>

Queues == Modules \cup {TCOM}
None   == [hdr |-> [id |-> "none"], body |-> <<>>]
Body(h) == [i \in 1 .. h.len |-> <<h.id, i>>]

TcomInit ==
    /\ ring = [q \in Queues |-> [head |-> 0, tail |-> 0,
                                 buf |-> [p \in 0 .. BufSize - 1 |-> <<>>]]]
    /\ pipe = [q \in Queues |-> <<>>]
    /\ hand = None
    /\ inbox = [q \in Modules |-> None]

-----------------------------------------------------------------------------
Slot(from, i) == (from + i - 1) % BufSize

\* one memcpy, or two when the body runs over the end of the buffer
tcom_push_data(r, body) ==
    [p \in 0 .. BufSize - 1 |->
        LET i == ((p - r.tail) % BufSize) + 1
        IN  IF i <= Len(body) THEN body[i] ELSE r.buf[p]]

\* mutant: the second part of a body is read from the wrong end of the buffer
tcom_pull_data_flat(r, n) ==
    [i \in 1 .. n |-> IF r.head + i - 1 < BufSize THEN r.buf[r.head + i - 1]
                      ELSE r.buf[BufSize - 1]]

tcom_pull_data(r, n) == [i \in 1 .. n |-> r.buf[Slot(r.head, i)]]

IdleSize(r) == (r.head - r.tail + BufSize - 1) % BufSize
UsedSize(r) == (r.tail - r.head + BufSize) % BufSize

tcom_enqueue_msg(r, body) ==
    [r EXCEPT !.buf = tcom_push_data(r, body),
              !.tail = (r.tail + Len(body)) % BufSize]

\* mutant: the rollback after a failed dev_write is forgotten
Rollback_missing(r, n) == r

\* the pipe refused the header: take the body back
Rollback(r, n) == [r EXCEPT !.tail = (r.tail - n + BufSize) % BufSize]

\* the write end is non-blocking, and a header is written whole or not at all
dev_write(q) == Len(pipe[q]) < PipeCap

\* mutant: the body is pushed without a look at the room left in the ring
ForwardResult_unchecked(q, h) == IF ~dev_write(q) THEN 2 ELSE 0

\* tcom_forward: its result, 0 when the message is queued
ForwardResult(q, h) == IF IdleSize(ring[q]) < h.len THEN -1
                       ELSE IF ~dev_write(q) THEN 2 ELSE 0

tcom_forward(q, h, body) ==
    LET full == tcom_enqueue_msg(ring[q], body) IN
    CASE ForwardResult(q, h) = 0 ->
            /\ ring' = [ring EXCEPT ![q] = full]
            /\ pipe' = [pipe EXCEPT ![q] = Append(@, h)]
      [] ForwardResult(q, h) = 2 ->
            /\ ring' = [ring EXCEPT ![q] = Rollback(full, h.len)]
            /\ UNCHANGED pipe
      [] OTHER -> UNCHANGED <<ring, pipe>>

Refused(h) == h.len > MaxLen

tcom_send_msg(h) ==
    /\ IF Refused(h) THEN UNCHANGED <<ring, pipe>>
       ELSE tcom_forward(TCOM, h, Body(h))
    /\ UNCHANGED <<hand, inbox>>

\* the message tcom_recv_msg returns, None when the ring does not hold the body
Received(q) ==
    LET h == Head(pipe[q])
    IN  IF UsedSize(ring[q]) < h.len THEN None
        ELSE [hdr |-> h, body |-> tcom_pull_data(ring[q], h.len)]

\* what it leaves of the queue: a body that is missing resets the ring
tcom_recv_msg(q) ==
    LET h == Head(pipe[q])
        r == ring[q]
    IN  /\ pipe' = [pipe EXCEPT ![q] = Tail(@)]
        /\ ring' = [ring EXCEPT ![q] =
               IF UsedSize(r) < h.len THEN [r EXCEPT !.head = 0, !.tail = 0]
               ELSE [r EXCEPT !.head = (r.head + h.len) % BufSize]]

\* tcom_main, woken by select: the first half of tcom_proc_msg
ProcRecv ==
    /\ hand = None
    /\ pipe[TCOM] # <<>>
    /\ tcom_recv_msg(TCOM)
    /\ hand' = Received(TCOM)
    /\ UNCHANGED inbox

\* its second half; a message that cannot be forwarded is lost
ProcForward ==
    /\ hand # None
    /\ IF hand.hdr.to = TCOM THEN UNCHANGED <<ring, pipe>>
       ELSE tcom_forward(hand.hdr.to, hand.hdr, hand.body)
    /\ hand' = None
    /\ UNCHANGED inbox

\* a module's thread: select on tcom_get_read_fd, then tcom_recv_msg
ModuleRecv(q) ==
    /\ inbox[q] = None
    /\ pipe[q] # <<>>
    /\ tcom_recv_msg(q)
    /\ inbox' = [inbox EXCEPT ![q] = Received(q)]
    /\ UNCHANGED hand

ModuleDone(q) ==
    /\ inbox[q] # None
    /\ inbox' = [inbox EXCEPT ![q] = None]
    /\ UNCHANGED <<ring, pipe, hand>>

TcomNext ==
    \/ \E h \in Headers : tcom_send_msg(h)
    \/ ProcRecv
    \/ ProcForward
    \/ \E q \in Modules : ModuleRecv(q) \/ ModuleDone(q)

\* every thread's loop waits in select and serves its pipe when it can
TcomFairness ==
    /\ WF_tcomVars(ProcRecv) /\ WF_tcomVars(ProcForward)
    /\ \A q \in Modules : WF_tcomVars(ModuleRecv(q)) /\ WF_tcomVars(ModuleDone(q))

TcomSpec == TcomInit /\ [][TcomNext]_tcomVars /\ TcomFairness

-----------------------------------------------------------------------------
(* The ring is read back through the headers: the body of the i-th header   *)
(* starts where the bodies before it end.                                   *)

SumLen[hs \in Seq(Headers)] == IF hs = <<>> THEN 0 ELSE Head(hs).len + SumLen[Tail(hs)]

Queued(q) ==
    [i \in 1 .. Len(pipe[q]) |->
        LET at == ring[q].head + SumLen[SubSeq(pipe[q], 1, i - 1)]
        IN  [hdr |-> pipe[q][i],
             body |-> [j \in 1 .. pipe[q][i].len |-> ring[q].buf[Slot(at, j)]]]]

MQ == INSTANCE MsgQueue WITH
        Router <- TCOM,
        Msgs   <- {[hdr |-> h, body |-> Body(h)] : h \in Headers},
        chan   <- [q \in Queues |-> Queued(q)]

\* Two pieces put together by a length in a third are a queue of whole messages:
\* whatever the interleaving of senders, router and receivers, with the ring
\* full, wrapped or rolled back, every message leaves with its own body, in order.
IsMsgQueue == MQ!MQSpec

\* The ring holds exactly the bodies of the headers in the pipe: an overflow
\* or a refused header leaves nothing behind, and none is missing.
RingMatchesPipe ==
    \A q \in Queues : UsedSize(ring[q]) = SumLen[pipe[q]]

\* A queued message is not stuck: the TCOM thread gets to it, and once it is in
\* its receiver's queue the receiver gets it.
MessagesMove ==
    \A h \in Headers :
        /\ (\E i \in DOMAIN pipe[TCOM] : pipe[TCOM][i] = h) ~> (hand.hdr = h)
        /\ h.to \in Modules =>
              ((\E i \in DOMAIN pipe[h.to] : pipe[h.to][i] = h) ~> (inbox[h.to].hdr = h))

=============================================================================
