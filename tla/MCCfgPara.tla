------------------------------ MODULE MCCfgPara -----------------------------
(* A user sets each parameter to a value that is not its default.          *)
EXTENDS CfgPara

MCUserVals == [old |-> {"u1"}, new |-> {"u1"}]
=============================================================================
