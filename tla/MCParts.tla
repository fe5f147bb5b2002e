------------------------------- MODULE MCParts ------------------------------
(***************************************************************************)
(* Five components that share no state, checked in one run: part says      *)
(* which of them moves, the others rest where their invariants are cheap.  *)
(*                                                                         *)
(* Sock: three sync entries, one of them reserved, frames of one and two   *)
(* bytes, so that the peer can acknowledge half a frame.  GbData: three    *)
(* packs and a history of two recordings.  MsgParse: up to two bytes of    *)
(* noise, or noise that fills the buffer, before two messages.  GbFrame:   *)
(* two frames with '#' in data and checksum.  Fota: packages with two ECUs *)
(* and with the terminal between them.                                     *)
(***************************************************************************)
EXTENDS Sock, GbData, MsgParse, GbFrame, Fota

VARIABLE part

Bytes    == 0 .. 3
Up(S, n) == UNION {[1 .. k -> S] : k \in 0 .. n}
MCNoises == Up(Bytes, 2) \cup {<<3, 0, 1, 2, 0, 1, 2, 0, 1, 2, 0, 1, 2>>}
MCMsgs1  == Up(Bytes, 2)
MCMsgs2  == {<<2, 3, 1>>}
MCPackages == {<<"e1", "e2">>, <<"e1", "tbox", "e2">>}
MCDatas  == Up({0, 3}, 2) \ {<<>>}

MsgRests ==
    /\ mKind = "spi" /\ sent = <<<<>>, <<>>, <<>>>> /\ wire = <<Marker>>
    /\ mBuf = <<>> /\ mStart = 0 /\ got = <<>> /\ rcvd = <<>> /\ lostSync = TRUE

FrameRests == stream = <<Hash>> /\ rcv = Reset /\ frames = <<>> /\ cutOff = {} /\ handled = <<>>

FotaRests == FotaInit /\ \A e \in Ecus : flash[e] = "src"

PartsInit ==
    /\ part \in {"sock", "data", "msg", "frame", "fota"}
    /\ SockInit /\ DataInit
    /\ IF part = "msg"   THEN MsgInit   ELSE MsgRests
    /\ IF part = "frame" THEN FrameInit ELSE FrameRests
    /\ IF part = "fota"  THEN FotaInit  ELSE FotaRests

\* three of them stop at their bounds
AtBound ==
    /\ part \in {"data", "msg", "frame"}
    /\ UNCHANGED <<sockVars, dataVars, mVars, frameVars, fotaVars, part>>

PartsNext ==
    \/ part = "sock"  /\ SockNext  /\ UNCHANGED <<dataVars, mVars, frameVars, fotaVars, part>>
    \/ part = "data"  /\ DataNext  /\ UNCHANGED <<sockVars, mVars, frameVars, fotaVars, part>>
    \/ part = "msg"   /\ MsgNext   /\ UNCHANGED <<sockVars, dataVars, frameVars, fotaVars, part>>
    \/ part = "frame" /\ FrameNext /\ UNCHANGED <<sockVars, dataVars, mVars, fotaVars, part>>
    \/ part = "fota"  /\ FotaNext  /\ UNCHANGED <<sockVars, dataVars, mVars, frameVars, part>>
    \/ AtBound

PartsSpec ==
    PartsInit /\ [][PartsNext]_<<sockVars, dataVars, mVars, frameVars, fotaVars, part>>
=============================================================================
