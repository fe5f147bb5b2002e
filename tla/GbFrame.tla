------------------------------- MODULE GbFrame ------------------------------
(***************************************************************************)
(* How gb_makeup_pack of gb32960_prot.c, and ft_makeup_pack of             *)
(* foton_prot.c, which is the same text, cut the bytes of the TCP stream   *)
(* into frames:  '##' head, two bytes of length, data, checksum.           *)
(*                                                                         *)
(* A frame restarts wherever '##' is seen, and the look-ahead does not     *)
(* stop at the end of what sock_recv returned: there it reads what an      *)
(* earlier call left on the stack, which is any byte.                      *)
(***************************************************************************)
EXTENDS Integers, Sequences

LOCAL INSTANCE SequencesExt
LOCAL INSTANCE Bitwise

CONSTANTS Hash,      \* '#'
          HeadLen,   \* 22: bytes before the length
          Datas,     \* bound: the data of the frames sent
          NFrames    \* bound: frames sent

ASSUME FrameAssumption ==
    /\ Hash \in Nat \ {0} /\ HeadLen \in Nat /\ HeadLen >= 3
    /\ NFrames \in Nat \ {0} /\ \A d \in Datas : d # <<>> /\ Len(d) # Hash

VARIABLES
    stream,   \* bytes not yet received
    rcv,      \* rcvstep, rcvlen, datalen and rcvbuf
    frames,   \* history: frames sent
    cutOff,   \* history: positions of a '#' that ended what sock_recv returned
    handled   \* frames with a good checksum, in order

frameVars == <<stream, rcv, frames, cutOff, handled>>

gb_checksum(s) == FoldLeft(LAMBDA cs, b : cs ^^ b, 0, s)

\* gb_reset
Reset == [step |-> -1, datalen |-> 0, buf |-> <<>>]

\* a frame as the server builds it: the head stands for type, answer, VIN and so on
Frame(data) ==
    LET body == [i \in 1 .. HeadLen - 2 |-> 1] \o <<0, Len(data)>> \o data
    IN  <<Hash, Hash>> \o body \o <<gb_checksum(body)>>

FrameInit ==
    /\ \E f \in [1 .. NFrames -> {Frame(d) : d \in Datas}] :
         frames = f /\ stream = FlattenSeq(f)
    /\ rcv = Reset /\ cutOff = {} /\ handled = <<>>

\* mutant: '##' does not restart a frame that has begun
Restarts_idle(a, b, next) == b = Hash /\ next = Hash /\ a.step = -1

Restarts(a, b, next) == b = Hash /\ next = Hash

\* case 3 of gb_makeup_pack has read the checksum
Complete(a) == a.step = 4

\* One pass of the loop of gb_makeup_pack over byte b, with next behind it.  A frame
\* without data never ends: the length is compared after a byte has been stored.
TakeByte(a, b, next) ==
    LET c == IF Restarts(a, b, next) THEN [Reset EXCEPT !.step = 0] ELSE a
        s == [c EXCEPT !.buf = Append(@, b)]
        n == Len(s.buf)
    IN  IF c.step = -1 THEN Reset
        ELSE IF c.step = 0 THEN [s EXCEPT !.step = IF n = HeadLen THEN 1 ELSE 0]
        ELSE IF c.step = 1 THEN [s EXCEPT !.datalen = @ * 256 + b,
                                          !.step = IF n = HeadLen + 2 THEN 2 ELSE 1]
        ELSE IF c.step = 2 THEN [s EXCEPT !.step = IF n = HeadLen + 2 + c.datalen THEN 3 ELSE 2]
        ELSE [s EXCEPT !.step = 4]

\* gb_do_receive handles a frame whose checksum is right and goes on with the rest
Handle(f) == IF gb_checksum(SubSeq(f, 3, Len(f) - 1)) = Last(f) THEN <<f>> ELSE <<>>

\* gb_do_receive, with n bytes from sock_recv and any byte behind them
gb_do_receive(n, stale) ==
    LET chunk == SubSeq(stream, 1, n) \o <<stale>>
        Pass(a, i) ==
            LET t == TakeByte(a.rcv, chunk[i], chunk[i + 1])
            IN  IF Complete(t)
                THEN [rcv |-> [t EXCEPT !.step = -1], out |-> a.out \o Handle(t.buf)]
                ELSE [a EXCEPT !.rcv = t]
        r == FoldLeft(Pass, [rcv |-> rcv, out |-> <<>>], [i \in 1 .. n |-> i])
    IN  /\ rcv' = r.rcv
        /\ handled' = handled \o r.out
        /\ stream' = SubSeq(stream, n + 1, Len(stream))
        /\ cutOff' = IF chunk[n] = Hash
                     THEN cutOff \cup {Len(FlattenSeq(frames)) - Len(stream) + n} ELSE cutOff
        /\ UNCHANGED frames

FrameNext == \E n \in 1 .. Len(stream), stale \in {0, Hash} : gb_do_receive(n, stale)

FrameSpec == FrameInit /\ [][FrameNext]_frameVars

-----------------------------------------------------------------------------
\* the bytes of frame i, by their positions in the stream
Span(i) ==
    LET before == Len(FlattenSeq(SubSeq(frames, 1, i - 1)))
    IN  before + 1 .. before + Len(frames[i])

\* frame i has no '##' but the one it starts with, that of its last byte and the frame
\* behind it included
Clean(i) ==
    LET s == FlattenSeq(frames)
    IN  \A p \in Span(i) : p - 1 \in Span(i) /\ p < Len(s) => ~(s[p] = Hash /\ s[p + 1] = Hash)

\* A frame that is free of '##' reaches gb_do_receive whole, in order and once, whatever
\* the pieces it came in and whatever became of the frames before it, unless one of its
\* '#' was the last byte of a piece.  When all are such, nothing else reaches it.
CleanFramesHandled ==
    stream = <<>> =>
        LET sure == {i \in 1 .. NFrames : Clean(i) /\ Span(i) \cap cutOff = {}}
            whole == SelectSeq([i \in 1 .. NFrames |-> i], LAMBDA i : i \in sure)
        IN  /\ \E h \in SUBSET (1 .. Len(handled)) :
                 LET at == SelectSeq([i \in 1 .. Len(handled) |-> i], LAMBDA i : i \in h)
                 IN  [k \in 1 .. Len(at) |-> handled[at[k]]] = [k \in 1 .. Len(whole) |-> frames[whole[k]]]
            /\ sure = 1 .. NFrames => handled = frames
=============================================================================
