------------------------------ MODULE MsgParse ------------------------------
(***************************************************************************)
(* Framing with escapes and a checksum (mid/msg/msg_parse.c), as the SPI   *)
(* link to the MCU (msg_decode, with its position in a static variable)    *)
(* and the TCP service of assist.c (msg_decodex) use it.                   *)
(*                                                                         *)
(* Noise and then two messages come over the wire in chunks of any size.   *)
(***************************************************************************)
EXTENDS Integers, Sequences

LOCAL INSTANCE SequencesExt
LOCAL INSTANCE Bitwise

CONSTANTS Marker, Esc,  \* DCCP_PKG_MARKER, DCCP_PKG_ESC
          RxSize,       \* size of the receive buffer
          TooLong,      \* size - 16 in msg_decodex
          Noises, Msgs1, Msgs2  \* bounds: what comes over the wire

ASSUME MsgAssumption ==
    /\ {1, 2, Marker, Esc} \subseteq Nat /\ {Marker, Esc} \cap {1, 2} = {} /\ Marker # Esc
    /\ TooLong \in 1 .. RxSize

VARIABLES
    mKind,   \* "spi" or "tcp"
    wire,    \* bytes not yet read
    mBuf,    \* bytes in the receive buffer up to w_pos
    mStart,  \* start_pos + 1 in mBuf, 0 when there is none
    got,     \* messages delivered
    sent,    \* history: noise and the two messages
    rcvd,    \* history: bytes read
    lostSync \* history: the buffer ran full or was given up

mVars == <<mKind, wire, mBuf, mStart, got, sent, rcvd, lostSync>>

msg_checksum(s) == FoldLeft(LAMBDA cs, b : cs ^^ b, 0, s)

msg_convert(s) ==
    FoldLeft(LAMBDA out, b : out \o (IF b = Marker THEN <<Esc, 2>>
                                     ELSE IF b = Esc THEN <<Esc, 1>> ELSE <<b>>),
             <<>>, s)

msg_encode(m) ==
    <<Marker>> \o msg_convert(m) \o msg_convert(<<msg_checksum(m)>>) \o <<Marker>>

\* mutant: the two codes are mixed up
Unescape_swapped(b) == IF b = 1 THEN Marker ELSE Esc

Unescape(b) == IF b = 1 THEN Esc ELSE Marker

\* an escape followed by another code, or by the end marker, is no message
msg_reverse(s) ==
    LET Step(a, b) ==
            IF a.esc THEN [ok |-> a.ok /\ b \in {1, 2}, esc |-> FALSE,
                           out |-> Append(a.out, Unescape(b))]
            ELSE IF b = Esc THEN [a EXCEPT !.esc = TRUE]
            ELSE [a EXCEPT !.out = Append(@, b)]
        r == FoldLeft(Step, [ok |-> TRUE, esc |-> FALSE, out |-> <<>>], s)
    IN  [r EXCEPT !.ok = @ /\ ~r.esc]

msg_check(s) ==
    LET r == msg_reverse(s)
    IN  r.ok /\ r.out # <<>> /\ msg_checksum(Front(r.out)) = Last(r.out)

\* mutant: a failed check forgets the marker that ended it
AfterFailure_forgets(p) == 0

\* the marker that ended a bad message may start the next
AfterFailure(p) == p

\* the positions after from in the buffer b, with a start at s or none
Scan(b, s, from) ==
    LET Step(a, p) ==
            LET body == SubSeq(b, a.start + 1, p - 1)
            IN  IF b[p] # Marker THEN a
                ELSE IF a.start = 0 THEN [a EXCEPT !.start = p]
                ELSE IF msg_check(body)
                     THEN [start |-> 0, out |-> Append(a.out, Front(msg_reverse(body).out))]
                ELSE [a EXCEPT !.start = AfterFailure(p)]
    IN  FoldLeft(Step, [start |-> s, out |-> <<>>], [i \in 1 .. Len(b) - from |-> from + i])

MsgInit ==
    /\ mKind \in {"spi", "tcp"}
    /\ \E n \in Noises, m1 \in Msgs1, m2 \in Msgs2 :
         /\ sent = <<n, m1, m2>>
         /\ wire = n \o msg_encode(m1) \o msg_encode(m2)
    /\ mBuf = <<>> /\ mStart = 0 /\ got = <<>> /\ rcvd = <<>> /\ lostSync = FALSE

\* mutant: the bytes from the start marker on are not kept
Kept_none(b, s) == <<>>

Kept(b, s) == IF s = 0 THEN <<>> ELSE SubSeq(b, s, Len(b))

\* msg_decode.  A full buffer is emptied before the next read, but start_pos stays:
\* the first byte that follows is taken for the start marker.  The test for a very
\* long message compares with sizeof(msg) - 16, which wraps, and never holds.
SpiRead(n) ==
    LET full == Len(mBuf) >= RxSize
        old  == IF full THEN <<>> ELSE mBuf
        b    == old \o SubSeq(wire, 1, n)
        r    == Scan(b, mStart, Len(old))
    IN  /\ mKind = "spi" /\ n \in 1 .. RxSize - Len(old)
        /\ mBuf' = Kept(b, r.start) /\ mStart' = IF r.start = 0 THEN 0 ELSE 1
        /\ got' = got \o r.out
        /\ lostSync' = (lostSync \/ full)

\* msg_decodex scans the whole buffer again and gives up what is too long
TcpRead(n) ==
    LET b == mBuf \o SubSeq(wire, 1, n)
        r == Scan(b, 0, 0)
        long == r.start # 0 /\ Len(b) - r.start + 1 >= TooLong
    IN  /\ mKind = "tcp" /\ n \in 1 .. RxSize - Len(mBuf)
        /\ mBuf' = IF long THEN <<>> ELSE Kept(b, r.start)
        /\ got' = got \o r.out
        /\ lostSync' = (lostSync \/ long)
        /\ UNCHANGED mStart

MsgRead ==
    /\ \E n \in 1 .. Len(wire) :
         /\ SpiRead(n) \/ TcpRead(n)
         /\ wire' = SubSeq(wire, n + 1, Len(wire))
         /\ rcvd' = rcvd \o SubSeq(wire, 1, n)
    /\ UNCHANGED <<mKind, sent>>

MsgNext == MsgRead

MsgSpec == MsgInit /\ [][MsgNext]_mVars

-----------------------------------------------------------------------------
\* The messages depend on the bytes and not on the chunks they come in: what was
\* delivered is what one pass over all the bytes read so far would deliver, unless
\* something was given up on the way.
ChunksDoNotMatter == ~lostSync => got = Scan(rcvd, 0, 0).out

\* Noise costs at most one message: the second always arrives, the first unless noise
\* that passed for a message took its start marker, also when the noise filled the
\* buffer; both, and nothing else, arrive when there is no noise.
FramesArrive ==
    wire = <<>> =>
        /\ Len(got) > 1 /\ Last(got) = sent[3]
        /\ sent[1] = <<>> => got = <<sent[2], sent[3]>>

\* However the bytes are cut into pieces, the same messages come out, and noise costs
\* at most one of them.
FramesSound == ChunksDoNotMatter /\ FramesArrive
=============================================================================
