------------------------------- MODULE GbData -------------------------------
(***************************************************************************)
(* The report pool of app/interface/gb32960/gb32960_data.c.                *)
(*                                                                         *)
(* A fixed set of packs moves between the lists gb_free_lst, gb_realtm_lst,*)
(* gb_delay_lst and gb_trans_lst under gb_datmtx.  The CAN thread fills    *)
(* packs (gb_data_periodic) and copies the history of a level 3 warning    *)
(* into the delay list (gb_data_flush_error), collecting the packs on a    *)
(* list of its own between two critical sections; a DBC reload, in the     *)
(* same thread, starts the pool afresh.  The protocol thread takes a pack, *)
(* holds it outside every list while it sends it, and puts it on the trans *)
(* list or back.                                                           *)
(*                                                                         *)
(* A pack's payload is the tick at which it was recorded.  Critical        *)
(* sections are single steps, except the two loops whose iterations are    *)
(* steps made with gb_datmtx held.                                         *)
(***************************************************************************)
EXTENDS Integers, Sequences

CONSTANTS NPack,       \* GB_MAX_REPORT
          Group,       \* GROUP_SIZE: packs of one recording
          ErrGroups,   \* recordings the warning history holds: 30
          Burst,       \* recordings at one per tick after a warning: 30
          DatIntv,     \* gb_datintv, in ticks
          MaxClock     \* bound: ticks

ASSUME DataAssumption ==
    /\ NPack \in Nat /\ Group \in Nat \ {0} /\ ErrGroups \in Nat \ {0}
    /\ Burst \in Nat /\ DatIntv \in Nat \ {0} /\ MaxClock \in Nat

VARIABLES
    lst,        \* the four lists of packs, and tmplst of gb_data_flush_error
    home,       \* pack->list, which always agrees with pack->type
    stamp,      \* pack->data: the tick of the recording
    err,        \* the ring at gb_errlst_head: recordings with len # 0, oldest first
    inited,     \* the list heads have been initialised
    loaded,     \* gb_inf # NULL
    datlk,      \* the thread inside a loop with gb_datmtx held
    canpc,      \* where the CAN thread is in gb_data_periodic
    cont,       \* where gb_data_flush_error returns to
    left,       \* iterations gb_data_save_realtm has left
    canact,     \* canact of gb_data_can_cb
    warntrig,   \* gb_inf->warntrig
    times, ticks, triger,   \* the static variables of gb_data_periodic
    pendflag,   \* gb_pendflag
    emerg,      \* gb_emerg
    hold,       \* the pack gb_do_report holds, or NoPack
    clock,      \* ticks so far
    torn        \* history: the pool was cleared while a pack was outside it

canVars  == <<canpc, cont, left, canact, warntrig, times, ticks, triger, clock>>
flagVars == <<loaded, pendflag, emerg>>
dataVars == <<lst, home, stamp, err, inited, datlk, hold, torn, canVars, flagVars>>

Packs   == 1 .. NPack
NoPack  == 0
Lists   == {"free", "realtm", "delay", "trans", "tmp"}
ErrSize == Group * ErrGroups

Front(s) == SubSeq(s, 1, Len(s) - 1)
Last(s)  == s[Len(s)]
Newest(s, n) == SubSeq(s, IF Len(s) > n THEN Len(s) - n + 1 ELSE 1, Len(s))
Elems(s) == {s[i] : i \in 1 .. Len(s)}

DataInit ==
    /\ lst = [l \in Lists |-> <<>>]
    /\ home = [p \in Packs |-> "delay"]
    /\ stamp = [p \in Packs |-> 0]
    /\ err = <<>>
    /\ inited = FALSE /\ loaded = FALSE
    /\ datlk = "none"
    /\ canpc = "idle" /\ cont = "idle" /\ left = 0
    /\ canact = FALSE /\ warntrig = FALSE
    /\ times = 0 /\ ticks = 0 /\ triger = FALSE
    /\ pendflag = FALSE /\ emerg = FALSE
    /\ hold = NoPack
    /\ clock = 0
    /\ torn = FALSE

-----------------------------------------------------------------------------
(* Operations both threads call.                                           *)

\* gb_data_clear_report
ClearReport ==
    /\ datlk = "none"
    /\ lst' = [l \in Lists |-> IF l = "free" THEN [i \in 1 .. NPack |-> i]
                               ELSE IF l = "tmp" THEN lst["tmp"] ELSE <<>>]
    /\ inited' = TRUE
    /\ torn' = (lst["tmp"] # <<>> \/ hold # NoPack)

\* mutant: the packs keep their type
FlushRealtmUntyped ==
    /\ datlk = "none"
    /\ lst' = [lst EXCEPT !["delay"] = @ \o lst["realtm"], !["realtm"] = <<>>]
    /\ home' = home

\* gb_data_flush_realtm: everything recorded becomes a delayed report
FlushRealtm ==
    /\ datlk = "none"
    /\ home' = [p \in Packs |-> IF p \in Elems(lst["realtm"]) THEN "delay" ELSE home[p]]
    /\ lst' = [lst EXCEPT !["delay"] = @ \o lst["realtm"], !["realtm"] = <<>>]

\* gb_data_clear_error waits for gb_errmtx, which gb_data_flush_error holds
ClearError == canpc # "flush" /\ err' = <<>>

-----------------------------------------------------------------------------
(* The CAN thread.                                                         *)

\* gb_data_can_cb: CAN_EVENT_ACTIVE, which can_do_datain raises when the bus
\* was inactive
CanActive ==
    /\ canpc = "idle" /\ ~canact
    /\ canact' = TRUE
    /\ UNCHANGED <<lst, home, stamp, err, inited, datlk, hold, torn, flagVars,
                   canpc, cont, left, warntrig, times, ticks, triger, clock>>

\* gb_data_can_cb: CAN_EVENT_SLEEP, CAN_EVENT_TIMEOUT
CanSleep ==
    /\ canpc = "idle"
    /\ canact' = FALSE
    /\ ClearError
    /\ UNCHANGED <<lst, home, stamp, inited, datlk, hold, torn, flagVars,
                   canpc, cont, left, warntrig, times, ticks, triger, clock>>

\* gb_data_dbc_cb: DBC_EVENT_FINISHED of a file that was loaded
DbcFinished ==
    /\ canpc = "idle"
    /\ ClearReport
    /\ err' = <<>>
    /\ loaded' = TRUE
    /\ warntrig' = FALSE
    /\ UNCHANGED <<home, stamp, datlk, hold, pendflag, emerg,
                   canpc, cont, left, canact, times, ticks, triger, clock>>

\* gb_data_dbc_cb: DBC_EVENT_UPDATE raises a level 3 warning
Warning ==
    /\ loaded
    /\ warntrig' = TRUE
    /\ UNCHANGED <<lst, home, stamp, err, inited, datlk, hold, torn, flagVars,
                   canpc, cont, left, canact, times, ticks, triger, clock>>

\* a hundredth time message reaches gb_data_periodic
TickDue == canpc = "idle" /\ canact /\ loaded /\ clock < MaxClock

\* gb_data_periodic: a warning starts a burst, and its history is asked for
PeriodicWarn ==
    /\ TickDue /\ warntrig
    /\ warntrig' = FALSE
    /\ times' = Burst + 1
    /\ IF pendflag
       THEN /\ FlushRealtm
            /\ canpc' = "flush" /\ cont' = "count"
            /\ UNCHANGED triger
       ELSE /\ canpc' = "count"
            /\ triger' = TRUE
            /\ UNCHANGED <<lst, home, cont>>
    /\ UNCHANGED <<stamp, err, inited, datlk, hold, torn, flagVars, left, canact, ticks, clock>>

\* mutant: the burst counter is not tested before it is decremented
PeriodicUnderflow ==
    LET period == IF times > 1 THEN 1 ELSE DatIntv
        due    == ticks + 1 >= period
    IN  /\ (TickDue /\ ~warntrig) \/ canpc = "count"
        /\ clock' = clock + 1
        /\ times' = times - 1
        /\ err' = IF times = 0 THEN Newest(err \o [i \in 1 .. Group |-> clock'], ErrSize)
                               ELSE err
        /\ ticks' = IF due THEN 0 ELSE ticks + 1
        /\ canpc' = IF due THEN "save" ELSE "idle"
        /\ left' = IF due THEN Group ELSE 0
        /\ UNCHANGED <<lst, home, stamp, inited, datlk, hold, torn, flagVars,
                       cont, canact, warntrig, triger>>

\* gb_data_periodic: the counters, and gb_data_save_error
Periodic ==
    LET period == IF times > 1 THEN 1 ELSE DatIntv
        due    == ticks + 1 >= period
    IN  /\ (TickDue /\ ~warntrig) \/ canpc = "count"
        /\ clock' = clock + 1
        /\ times' = IF times = 0 THEN 0 ELSE times - 1
        /\ err' = IF times = 0 THEN Newest(err \o [i \in 1 .. Group |-> clock'], ErrSize)
                               ELSE err
        /\ ticks' = IF due THEN 0 ELSE ticks + 1
        /\ canpc' = IF due THEN "save" ELSE "idle"
        /\ left' = IF due THEN Group ELSE 0
        /\ UNCHANGED <<lst, home, stamp, inited, datlk, hold, torn, flagVars,
                       cont, canact, warntrig, triger>>

\* the list a buffer is taken from: the oldest report gives way when none is free
BufferFrom ==
    IF lst["free"] # <<>> THEN "free"
    ELSE IF lst["delay"] # <<>> THEN "delay"
    ELSE IF lst["realtm"] # <<>> THEN "realtm" ELSE "none"

\* "BIG ERROR: no buffer to use." followed by while (1), with gb_datmtx held
BigError ==
    /\ canpc \in {"save", "flush"}
    /\ canpc = "flush" => err # <<>>
    /\ datlk # "gb"
    /\ BufferFrom = "none"
    /\ canpc' = "stuck"
    /\ datlk' = "can"
    /\ UNCHANGED <<lst, home, stamp, err, inited, hold, torn, flagVars,
                   cont, left, canact, warntrig, times, ticks, triger, clock>>

\* one iteration of gb_data_save_realtm; the last one releases gb_datmtx, and
\* gb_data_periodic goes on to the warning history if a warning asked for it
SaveRealtm ==
    LET p == Head(lst[BufferFrom])
    IN  /\ canpc = "save" /\ datlk # "gb"
        /\ BufferFrom # "none"
        /\ stamp' = [stamp EXCEPT ![p] = clock]
        /\ home' = [home EXCEPT ![p] = "realtm"]
        /\ lst' = [lst EXCEPT ![BufferFrom] = Tail(@), !["realtm"] = Append(@, p)]
        /\ left' = left - 1
        /\ IF left > 1
           THEN datlk' = "can" /\ UNCHANGED <<canpc, cont, triger>>
           ELSE /\ datlk' = "none"
                /\ canpc' = IF triger THEN "flush" ELSE "idle"
                /\ cont' = "idle"
                /\ triger' = FALSE
        /\ UNCHANGED <<err, inited, hold, torn, flagVars,
                       canact, warntrig, times, ticks, clock>>

\* mutant: tmplst is filled at its tail
FlushErrorCopyTail ==
    LET p == Head(lst[BufferFrom])
    IN  /\ canpc = "flush" /\ datlk = "none"
        /\ err # <<>> /\ BufferFrom # "none"
        /\ err' = Front(err)
        /\ stamp' = [stamp EXCEPT ![p] = Last(err)]
        /\ home' = [home EXCEPT ![p] = "delay"]
        /\ lst' = [lst EXCEPT ![BufferFrom] = Tail(@), !["tmp"] = Append(@, p)]
        /\ UNCHANGED <<inited, datlk, hold, torn, flagVars, canVars>>

\* one iteration of gb_data_flush_error: the newest recording of the history
\* is copied into a pack, which goes to the front of tmplst
FlushErrorCopy ==
    LET p == Head(lst[BufferFrom])
    IN  /\ canpc = "flush" /\ datlk = "none"
        /\ err # <<>> /\ BufferFrom # "none"
        /\ err' = Front(err)
        /\ stamp' = [stamp EXCEPT ![p] = Last(err)]
        /\ home' = [home EXCEPT ![p] = "delay"]
        /\ lst' = [lst EXCEPT ![BufferFrom] = Tail(@), !["tmp"] = <<p>> \o @]
        /\ UNCHANGED <<inited, datlk, hold, torn, flagVars, canVars>>

\* the end of gb_data_flush_error: tmplst is appended to the delay list
FlushErrorSplice ==
    /\ canpc = "flush" /\ datlk = "none"
    /\ err = <<>>
    /\ lst' = [lst EXCEPT !["delay"] = @ \o lst["tmp"], !["tmp"] = <<>>]
    /\ canpc' = cont
    /\ UNCHANGED <<home, stamp, err, inited, datlk, hold, torn, flagVars,
                   cont, left, canact, warntrig, times, ticks, triger, clock>>

CanThread ==
    \/ CanActive \/ CanSleep \/ DbcFinished \/ Warning
    \/ PeriodicWarn \/ Periodic \/ SaveRealtm \/ BigError
    \/ FlushErrorCopy \/ FlushErrorSplice

-----------------------------------------------------------------------------
(* The protocol thread's calls.                                            *)

\* gb_data_noreport and gb_data_nosending: an uninitialised head is not empty
gb_data_noreport  == inited /\ lst["realtm"] = <<>> /\ lst["delay"] = <<>>
gb_data_nosending == inited /\ lst["trans"] = <<>>

\* gb_data_get_pack; no pack when both lists are empty
gb_data_get_pack ==
    /\ datlk = "none"
    /\ \/ /\ lst["realtm"] # <<>>
          /\ hold' = Head(lst["realtm"])
          /\ lst' = [lst EXCEPT !["realtm"] = Tail(@)]
       \/ /\ lst["realtm"] = <<>> /\ lst["delay"] # <<>> /\ ~emerg
          /\ hold' = Head(lst["delay"])
          /\ lst' = [lst EXCEPT !["delay"] = Tail(@)]
       \/ /\ lst["realtm"] = <<>> /\ lst["delay"] # <<>> /\ emerg
          /\ hold' = Last(lst["delay"])
          /\ lst' = [lst EXCEPT !["delay"] = Front(@)]
    /\ UNCHANGED <<home, stamp, err, inited, datlk, torn, canVars, flagVars>>

\* gb_data_put_back
gb_data_put_back ==
    /\ datlk = "none"
    /\ lst' = [lst EXCEPT ![home[hold]] = <<hold>> \o @]
    /\ hold' = NoPack
    /\ UNCHANGED <<home, stamp, err, inited, datlk, torn, canVars, flagVars>>

\* gb_data_put_send
gb_data_put_send ==
    /\ datlk = "none"
    /\ lst' = [lst EXCEPT !["trans"] = Append(@, hold)]
    /\ hold' = NoPack
    /\ UNCHANGED <<home, stamp, err, inited, datlk, torn, canVars, flagVars>>

\* gb_do_report returns without putting the pack anywhere
ForgetPack ==
    /\ hold' = NoPack
    /\ UNCHANGED <<lst, home, stamp, err, inited, datlk, torn, canVars, flagVars>>

\* mutant: the pack is freed without being removed from the trans list
AckPackKeeps ==
    /\ datlk = "none"
    /\ lst' = IF lst["trans"] = <<>> THEN lst
              ELSE [lst EXCEPT !["free"] = Append(@, Head(lst["trans"]))]
    /\ UNCHANGED <<home, stamp, err, inited, datlk, hold, torn, canVars, flagVars>>

\* gb_data_ack_pack: the callback of a report's sync entry
gb_data_ack_pack ==
    /\ datlk = "none"
    /\ lst' = IF lst["trans"] = <<>> THEN lst
              ELSE [lst EXCEPT !["trans"] = Tail(@), !["free"] = Append(@, Head(lst["trans"]))]
    /\ UNCHANGED <<home, stamp, err, inited, datlk, hold, torn, canVars, flagVars>>

\* mutant: the packs are returned first sent first
FlushSendingFirst ==
    LET p == Head(lst["trans"])
    IN  /\ datlk # "can"
        /\ lst["trans"] # <<>>
        /\ lst' = [lst EXCEPT !["trans"] = Tail(@), ![home[p]] = <<p>> \o @]
        /\ datlk' = IF Len(lst["trans"]) > 1 THEN "gb" ELSE "none"
        /\ UNCHANGED <<home, stamp, err, inited, hold, torn, canVars, flagVars>>

\* one iteration of gb_data_flush_sending: the last pack sent goes back to the
\* front of its list
FlushSendingOne ==
    LET p == Last(lst["trans"])
    IN  /\ datlk # "can"
        /\ lst["trans"] # <<>>
        /\ lst' = [lst EXCEPT !["trans"] = Front(@), ![home[p]] = <<p>> \o @]
        /\ datlk' = IF Len(lst["trans"]) > 1 THEN "gb" ELSE "none"
        /\ UNCHANGED <<home, stamp, err, inited, hold, torn, canVars, flagVars>>

gb_data_flush_realtm ==
    /\ FlushRealtm
    /\ UNCHANGED <<stamp, err, inited, datlk, hold, torn, canVars, flagVars>>

gb_data_clear_report ==
    /\ ClearReport
    /\ UNCHANGED <<home, stamp, err, datlk, hold, canVars, flagVars>>

gb_data_clear_error ==
    /\ ClearError
    /\ UNCHANGED <<lst, home, stamp, inited, datlk, hold, torn, canVars, flagVars>>

gb_data_emergence(set) ==
    /\ datlk = "none"
    /\ emerg' = set
    /\ UNCHANGED <<lst, home, stamp, err, inited, datlk, hold, torn, canVars, loaded, pendflag>>

gb_data_set_pendflag(flag) ==
    /\ pendflag' = flag
    /\ UNCHANGED <<lst, home, stamp, err, inited, datlk, hold, torn, canVars, loaded, emerg>>

\* The protocol thread as a user of the pool: any order of calls in which a
\* pack taken is disposed of before the next call.
GbUser ==
    \/ /\ datlk # "gb" /\ hold = NoPack /\ inited
       /\ \/ gb_data_get_pack
          \/ gb_data_ack_pack
          \/ gb_data_flush_realtm
    \/ inited /\ hold = NoPack /\ FlushSendingOne
    \/ datlk # "gb" /\ hold # NoPack /\ (gb_data_put_back \/ gb_data_put_send \/ ForgetPack)
    \/ /\ datlk # "gb" /\ hold = NoPack
       /\ \/ gb_data_clear_report
          \/ gb_data_clear_error
          \/ \E b \in BOOLEAN : gb_data_emergence(b) \/ gb_data_set_pendflag(b)

\* Once the pool has been cleared under a pack that is outside it, the links
\* of the lists are undefined and the model stops.
DataNext == ~torn /\ (CanThread \/ GbUser)

DataSpec == DataInit /\ [][DataNext]_dataVars

-----------------------------------------------------------------------------
(* Properties.                                                             *)

\* The types of the pool and of the two threads' variables.
DataTypeOK ==
    /\ lst \in [Lists -> Seq(Packs)]
    /\ home \in [Packs -> {"realtm", "delay"}]
    /\ stamp \in [Packs -> Nat]
    /\ err \in Seq(Nat)
    /\ inited \in BOOLEAN /\ loaded \in BOOLEAN
    /\ datlk \in {"none", "can", "gb"}
    /\ canpc \in {"idle", "count", "save", "flush", "stuck"}
    /\ cont \in {"idle", "count"}
    /\ left \in Nat
    /\ canact \in BOOLEAN /\ warntrig \in BOOLEAN
    /\ times \in Nat /\ ticks \in Nat /\ triger \in BOOLEAN
    /\ pendflag \in BOOLEAN /\ emerg \in BOOLEAN
    /\ hold \in Packs \cup {NoPack}
    /\ clock \in Nat
    /\ torn \in BOOLEAN

Injective(s) == \A i, j \in 1 .. Len(s) : s[i] = s[j] => i = j

\* No pack is in two places: on two lists, twice on one, or on a list while
\* gb_do_report is sending it, whatever order the two threads run in, unless
\* the pool was cleared while a pack was outside it.
OnePlace ==
    ~torn =>
      /\ \A l \in Lists : Injective(lst[l])
      /\ \A l, m \in Lists : l # m => Elems(lst[l]) \cap Elems(lst[m]) = {}
      /\ \A l \in Lists : hold \notin Elems(lst[l])

\* The list a report waits on and its type agree, so that a report is never
\* transmitted as real-time from the delay list or the other way round.
ListMatchesType ==
    ~torn => \A l \in {"realtm", "delay"} : \A p \in Elems(lst[l]) : home[p] = l

InOrder(s) == \A i, j \in 1 .. Len(s) : i < j => s[i] <= s[j]

Stamps(l) == [i \in 1 .. Len(lst[l]) |-> stamp[lst[l][i]]]

\* Real-time reports wait in the order they were recorded, although unsent ones
\* are put back at the front and unacknowledged ones are returned from the
\* trans list.
RealtmInOrder == ~torn => InOrder(Stamps("realtm"))

\* The history of a warning enters the delay list oldest first: what is still
\* in the ring is older than what has been copied.
HistoryInOrder == ~torn => InOrder(err \o Stamps("tmp"))

\* Reports leave the terminal in the order they were recorded: what waits for real-time
\* transmission and what gb_data_err_report copies from the history are sorted by time.
ReportsInOrder == DataTypeOK /\ RealtmInOrder /\ HistoryInOrder
=============================================================================
