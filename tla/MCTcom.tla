------------------------------- MODULE MCTcom -------------------------------
(* A ring of three bytes and pipes of two headers, so that bodies of one and *)
(* two bytes overflow it and wrap in it, and headers without a body fill the *)
(* pipe first.  One message is longer than the limit.  Two receivers show    *)
(* that the full queue of one does not hold up the other's.                  *)
EXTENDS Tcom

MCHeaders ==
    { [id |-> "a", to |-> "m1", len |-> 2], [id |-> "c", to |-> "m2", len |-> 1],
      [id |-> "t", to |-> "TCOM", len |-> 0],
      [id |-> "x", to |-> "m1", len |-> 3] }
=============================================================================
