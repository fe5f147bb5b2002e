------------------------------- MODULE MCSock -------------------------------
(* Sock with three sync entries, one of them reserved, and frames of one    *)
(* and two bytes, so that the peer can acknowledge half a frame.            *)
EXTENDS Sock
=============================================================================
