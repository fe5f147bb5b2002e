------------------------------ MODULE MCGbProt ------------------------------
(* GbProt with small pools and sync lists; a run differs from another in    *)
(* which events happen, and how often.                                      *)
EXTENDS GbProt

Happen(f) == [e \in Events |-> IF e \in DOMAIN f THEN f[e] ELSE 0]

\* two journeys, a broken connection
SessionQuota == Happen([NETON |-> 1, CANON |-> 2, CANOFF |-> 1, RELOAD |-> 1,
                        BREAK |-> 1])

\* one journey, an emergency and a broken connection
ReportQuota == Happen([NETON |-> 1, CANON |-> 1, RELOAD |-> 1, BREAK |-> 1, EMERGENCY |-> 1])

\* one journey, a second DBC file and a broken connection
ReloadQuota == Happen([NETON |-> 1, CANON |-> 1, RELOAD |-> 2, BREAK |-> 1])

\* a warning while the link is suspended or not
WarnQuota == Happen([NETON |-> 1, CANON |-> 1, RELOAD |-> 1, WARN |-> 1, SUSPEND |-> 1])

\* the network comes and goes, the VIN and the address are changed
LinkQuota == Happen([NETON |-> 2, NETOFF |-> 1, CANON |-> 1, RELOAD |-> 1, VIN |-> 1, b |-> 1])

\* journeys without a DBC file, over midnight
SeqQuota == Happen([NETON |-> 1, CANON |-> 2, CANOFF |-> 1, BREAK |-> 1, NEWDAY |-> 1])

\* the end of a journey
QuietQuota == Happen([NETON |-> 1, CANON |-> 1, CANOFF |-> 1, RELOAD |-> 1])

\* one journey over a slow link
SlowQuota == Happen([NETON |-> 1, CANON |-> 1, RELOAD |-> 1])

SessionQuotas == {SessionQuota, LinkQuota, SeqQuota}
ReportQuotas  == {ReportQuota, ReloadQuota, WarnQuota}
QuietQuotas   == {QuietQuota}
SlowQuotas    == {SlowQuota}
=============================================================================
