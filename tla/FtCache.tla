------------------------------ MODULE FtCache -------------------------------
(***************************************************************************)
(* The reports of app/interface/foton/foton_data.c and their cache on the  *)
(* SD card: when the buffers run out the oldest reports go to a ring of    *)
(* slots in cache_data, and its two indexes to cache_info; when there is   *)
(* nothing else to send they come back.                                    *)
(*                                                                         *)
(* A report is its number.  A buffer has no identity: what is in no list,  *)
(* not held and not lost is free.  Everything done under ft_datmtx is one  *)
(* step, except that every disk access is a step of its own, so that power *)
(* can be cut, or the access fail, at each of them.  A write that fails    *)
(* leaves the slot as it was; one that is cut leaves it old or new.  No    *)
(* write is synced: disk and info are what the program reads back, and a   *)
(* power cut may take the card behind them.  GROUP_SIZE is one.            *)
(*                                                                         *)
(* The history of the last half minute, which a warning turns into delayed *)
(* reports, is left out but for the number of its entries then.            *)
(***************************************************************************)
EXTENDS Integers, SequencesExt

CONSTANTS NBuf,      \* FT_MAX_REPORT
          RingSize,  \* FT_CACHE_SIZE
          Grade,     \* FT_CACHE_GRADE
          InFlight,  \* unacknowledged reports the socket takes
          NErr,      \* entries of ft_errmem
          MaxRep, MaxNoRoom, \* bounds: reports, buffers ft_do_report loses,
          MaxRare            \* and rare events: failures, power cuts, PM_MSG_OFF,
                             \* PM_MSG_EMERGENCY, no room, log-in, warnings;
                             \* PM_MSG_EMERGENCY and a power cut that loses
                             \* writes count for two

ASSUME CacheAssumption ==
    /\ {NBuf, RingSize, Grade, InFlight, NErr} \subseteq Nat \ {0}
    /\ {MaxRep, MaxNoRoom, MaxRare} \subseteq Nat
    /\ NBuf >= Grade + InFlight + NErr + MaxNoRoom

VARIABLES
    q,         \* ft_realtm_lst, ft_delay_lst, ft_trans_lst, and tmplst of
               \* ft_data_flush_error
    ftHome,    \* pack->list, "delay" for what is not in memory
    ftHold,    \* the report ft_do_report holds, or 0
    ftEmerg,   \* ft_emerg
    noRoom,    \* buffers lost by ft_do_report
    errs,      \* entries of the history ft_data_flush_error has still to take
    disk,      \* cache_data, 0 where nothing was written
    index,     \* ft_index_r and ft_index_w
    info,      \* cache_info; a damaged one reads as two zeros
    op,        \* what is being done with ft_datmtx held
    done,      \* cnt of ft_cache_save, ft_cache_load
    offAt,     \* where ft_cache_save_all is without the lock: "open", "info" or "none"
    reports,   \* reports recorded so far
    acked,     \* history: reports the server acknowledged
    rare,      \* history: rare events so far
    unsaved,   \* history: the indexes were reset and not saved
    behind,    \* history: the card may be behind what the program takes it to hold:
               \* cache_info could not be written, or a power cut lost writes
    gone       \* history: a report may have been lost

ramVars   == <<q, ftHome, ftHold, noRoom, errs, ftEmerg, op, done, offAt>>
histVars  == <<reports, acked, rare, unsaved, behind, gone>>
cacheVars == <<ramVars, disk, index, info, histVars>>

Rep   == 1 .. MaxRep
Ring  == 0 .. RingSize - 1
Step(i) == (i + 1) % RingSize
Zero  == [r |-> 0, w |-> 0]
Ahead(i) == (i.w - i.r) % RingSize

\* the reports in the slots between two indexes, oldest first
Cached(i) == [k \in 1 .. Ahead(i) |-> disk[(i.r + k - 1) % RingSize]]

NFreeBuf == NBuf - Len(q.realtm) - Len(q.delay) - Len(q.trans) - Len(q.tmp)
                 - noRoom - (IF ftHold = 0 THEN 0 ELSE 1)

CacheInit ==
    /\ q = [realtm |-> <<>>, delay |-> <<>>, trans |-> <<>>, tmp |-> <<>>]
    /\ ftHome = [n \in Rep |-> "delay"]
    /\ ftHold = 0 /\ noRoom = 0 /\ ftEmerg = FALSE
    /\ errs = 0
    /\ disk = [i \in Ring |-> 0] /\ index = Zero /\ info = Zero
    /\ op = "none" /\ done = 0 /\ offAt = "none"
    /\ reports = 0 /\ acked = {} /\ rare = 0
    /\ unsaved = FALSE /\ behind = FALSE /\ gone = FALSE

RareBy(n) == rare + n <= MaxRare /\ rare' = rare + n
Rare == RareBy(1)

\* the oldest report, which is the first to be cached or given up
OldestIn == IF q.delay # <<>> THEN "delay" ELSE "realtm"
NoOldest == q.delay = <<>> /\ q.realtm = <<>>

-----------------------------------------------------------------------------
(* The CAN thread.                                                         *)

\* A new report takes a free buffer or, when there is none, that of the oldest report,
\* which is lost.
BufferTaken == IF NFreeBuf > 0 THEN q ELSE [q EXCEPT ![OldestIn] = Tail(@)]
NoBuffer    == NFreeBuf = 0 /\ NoOldest

NewReport(home) ==
    /\ reports' = reports + 1
    /\ ftHome' = [ftHome EXCEPT ![reports + 1] = home]
    /\ gone' = (gone \/ NFreeBuf = 0)

Take ==
    /\ NewReport("realtm")
    /\ q' = [BufferTaken EXCEPT !.realtm = Append(@, reports + 1)]

\* the CAN thread is in ft_data_flush_error
Flushing == errs > 0 \/ q.tmp # <<>>

\* ft_data_save_realtm, with ft_cache_save when no buffer is free
ft_data_save_realtm ==
    /\ op = "none" /\ ~Flushing /\ reports < MaxRep
    /\ \/ NFreeBuf > 0 /\ Take /\ UNCHANGED <<op, done>>
       \/ NFreeBuf = 0 /\ op' = "save" /\ done' = 0 /\ UNCHANGED <<q, ftHome, reports, gone>>
    /\ UNCHANGED <<ftHold, noRoom, errs, ftEmerg, offAt, disk, index, info,
                   acked, rare, unsaved, behind>>

\* ft_data_save_realtm goes on when ft_cache_save has returned
Record ==
    /\ op = "record" /\ ~NoBuffer
    /\ op' = "none" /\ Take
    /\ UNCHANGED <<ftHold, noRoom, errs, ftEmerg, done, offAt, disk, index, info,
                   acked, rare, unsaved, behind>>

\* a warning: ft_data_flush_error finds entries in the history
ft_data_flush_error ==
    /\ op = "none" /\ ~Flushing
    /\ Rare
    /\ errs' \in 1 .. NErr /\ reports + errs' <= MaxRep
    /\ UNCHANGED <<q, ftHome, ftHold, noRoom, ftEmerg, op, done, offAt, disk, index, info,
                   reports, acked, unsaved, behind, gone>>

\* it makes a delayed report of the newest entry, taking ft_datmtx for the buffer only:
\* nothing is cached to get one
FlushEntry ==
    /\ op = "none" /\ errs > 0 /\ ~NoBuffer
    /\ NewReport("delay")
    /\ q' = [BufferTaken EXCEPT !.tmp = <<reports + 1>> \o @]
    /\ errs' = errs - 1
    /\ UNCHANGED <<ftHold, noRoom, ftEmerg, op, done, offAt, disk, index, info,
                   acked, rare, unsaved, behind>>

\* and appends them to the delayed reports
FlushEnds ==
    /\ op = "none" /\ errs = 0 /\ q.tmp # <<>>
    /\ q' = [q EXCEPT !.delay = @ \o q.tmp, !.tmp = <<>>]
    /\ UNCHANGED <<ftHome, ftHold, noRoom, errs, ftEmerg, op, done, offAt, disk, index, info, histVars>>

\* ft_data_flush_realtm, by the CAN thread on a warning, by the other at log-in
ft_data_flush_realtm ==
    /\ op = "none" /\ q.realtm # <<>>
    /\ ftHome' = [n \in Rep |-> IF n \in Range(q.realtm) THEN "delay" ELSE ftHome[n]]
    /\ q' = [q EXCEPT !.delay = @ \o q.realtm, !.realtm = <<>>]
    /\ UNCHANGED <<ftHold, noRoom, errs, ftEmerg, op, done, offAt, disk, index, info, histVars>>

-----------------------------------------------------------------------------
(* The cache.                                                              *)

\* The directory or cache_data cannot be opened, and the indexes are reset; or the card is
\* being formatted, and nothing is done.
CannotSave ==
    /\ Rare
    /\ \/ index' = Zero /\ unsaved' = TRUE /\ gone' = TRUE
       \/ UNCHANGED <<index, unsaved, gone>>

\* ft_cache_save opens cache_data
SaveOpens ==
    /\ op = "save"
    /\ \/ op' = "saving" /\ UNCHANGED <<index, rare, unsaved, gone>>
       \/ op' = "record" /\ CannotSave
    /\ UNCHANGED <<q, ftHome, ftHold, noRoom, errs, ftEmerg, done, offAt, disk, info,
                   reports, acked, behind>>

\* ft_cache_save_all opens cache_data, and then waits for the lock
SaveAllOpens ==
    /\ offAt = "open" /\ offAt' = "none"
    /\ \/ /\ op = "none"
          /\ op' = IF NoOldest THEN "none" ELSE "savingall"
          /\ done' = 0
          /\ UNCHANGED <<index, rare, unsaved, gone>>
       \/ CannotSave /\ UNCHANGED <<op, done>>
    /\ UNCHANGED <<q, ftHome, ftHold, noRoom, errs, ftEmerg, disk, info,
                   reports, acked, behind>>

\* mutant: the write index is not masked
PastWrite_unmasked == [index EXCEPT !.w = @ + 1]

\* the write index moves on; when the ring is full the oldest report is given up
PastWrite ==
    LET w == Step(index.w)
    IN  [r |-> IF index.r = w THEN Step(index.r) ELSE index.r, w |-> w]

\* mutant: the report stays in memory
Saved_kept == q

\* a report that has been written frees its buffer
Saved == [q EXCEPT ![OldestIn] = Tail(@)]

\* mutant: ft_cache_save_all does not save the indexes
EndSaving_forgets(n) ==
    /\ op' = IF op = "savingall" THEN "none" ELSE IF n > 0 THEN "saveinfo" ELSE "record"
    /\ UNCHANGED offAt

\* The loops end: the indexes are saved if n reports were written, by ft_cache_save_all
\* after it has released the lock.
EndSaving(n) ==
    /\ op' = IF op = "savingall" THEN "none" ELSE IF n > 0 THEN "saveinfo" ELSE "record"
    /\ offAt' = IF op = "savingall" /\ n > 0 THEN "info" ELSE offAt

SavePack ==
    /\ op \in {"saving", "savingall"} /\ ~NoOldest
    /\ LET p == Head(q[OldestIn])
       IN \/ /\ disk' = [disk EXCEPT ![index.w] = p]
             /\ q' = Saved /\ ftHome' = [ftHome EXCEPT ![p] = "delay"]
             /\ index' = PastWrite /\ done' = done + 1
             /\ gone' = (gone \/ index.r = Step(index.w))
             /\ IF IF op = "saving" THEN done' = Grade ELSE q'.delay \o q'.realtm = <<>>
                THEN EndSaving(done') ELSE UNCHANGED <<op, offAt>>
             /\ UNCHANGED <<rare, unsaved>>
          \/ /\ Rare
             /\ q' = [Saved EXCEPT ![ftHome[p]] = Append(@, p)]
             /\ index' = Zero /\ unsaved' = TRUE /\ gone' = TRUE
             /\ EndSaving(done)
             /\ UNCHANGED <<ftHome, done, disk>>
    /\ UNCHANGED <<ftHold, noRoom, errs, ftEmerg, info, reports, acked, behind>>

\* mutant: the indexes are saved only when reports were written
SaveInfoOps_nofetch == {"saveinfo"}

\* who saves the indexes with the lock held
SaveInfoOps == {"saveinfo", "loadinfo"}

\* ft_cache_save_info: written, not written, or damaged by a write that fails half way
ft_cache_save_info ==
    \/ info' = index /\ unsaved' = FALSE /\ UNCHANGED <<rare, behind>>
    \/ /\ Rare
       /\ info' \in {info, Zero} /\ behind' = TRUE
       /\ UNCHANGED unsaved

SaveInfo ==
    /\ op \in {"saveinfo", "loadinfo"}
    /\ op' = IF op = "saveinfo" THEN "record" ELSE "pick"
    /\ IF op \in SaveInfoOps THEN ft_cache_save_info ELSE UNCHANGED <<info, rare, unsaved, behind>>
    /\ UNCHANGED <<q, ftHome, ftHold, noRoom, errs, ftEmerg, done, offAt, disk, index,
                   reports, acked, gone>>

SaveAllInfo ==
    /\ offAt = "info" /\ offAt' = "none"
    /\ ft_cache_save_info
    /\ UNCHANGED <<q, ftHome, ftHold, noRoom, errs, ftEmerg, op, done, disk, index,
                   reports, acked, gone>>

\* ft_cache_load
LoadOpens ==
    /\ op = "load"
    /\ \/ op' = "loading" /\ UNCHANGED <<index, rare, unsaved, gone>>
       \/ /\ Rare
          /\ op' = "none"
          /\ \/ index' = [index EXCEPT !.r = index.w] /\ unsaved' = TRUE /\ gone' = TRUE
             \/ UNCHANGED <<index, unsaved, gone>>
    /\ UNCHANGED <<q, ftHome, ftHold, noRoom, errs, ftEmerg, done, offAt, disk, info,
                   reports, acked, behind>>

EndLoading(n) == op' = IF n > 0 THEN "loadinfo" ELSE "pick"

\* a report is read, or the read fails, as it does where nothing was written
LoadPack ==
    /\ op = "loading" /\ NFreeBuf > 0
    /\ \/ /\ disk[index.r] # 0
          /\ q' = [q EXCEPT !.delay = Append(@, disk[index.r])]
          /\ index' = [index EXCEPT !.r = Step(@)] /\ done' = done + 1
          /\ IF done' = Grade \/ index'.r = index'.w THEN EndLoading(done') ELSE UNCHANGED op
          /\ UNCHANGED <<rare, unsaved, gone>>
       \/ /\ IF disk[index.r] = 0 THEN UNCHANGED rare ELSE Rare
          /\ index' = Zero /\ unsaved' = TRUE /\ gone' = TRUE
          /\ EndLoading(done)
          /\ UNCHANGED <<q, done>>
    /\ UNCHANGED <<ftHome, ftHold, noRoom, errs, ftEmerg, offAt, disk, info, reports, acked, behind>>

-----------------------------------------------------------------------------
(* The protocol thread.                                                    *)

\* the last delayed report in an emergency, else the first
PickDelayed ==
    IF q.delay = <<>> THEN UNCHANGED <<ftHold, q>>
    ELSE IF ftEmerg THEN ftHold' = Last(q.delay) /\ q' = [q EXCEPT !.delay = Front(@)]
    ELSE ftHold' = Head(q.delay) /\ q' = [q EXCEPT !.delay = Tail(@)]

ft_data_get_pack ==
    /\ op = "none" /\ offAt = "none" /\ ftHold = 0
    /\ \/ /\ q.realtm # <<>>
          /\ ftHold' = Head(q.realtm) /\ q' = [q EXCEPT !.realtm = Tail(@)]
          /\ UNCHANGED <<op, done>>
       \/ /\ q.realtm = <<>> /\ q.delay # <<>>
          /\ PickDelayed /\ UNCHANGED <<op, done>>
       \/ /\ NoOldest /\ index.r # index.w
          /\ op' = "load" /\ done' = 0 /\ UNCHANGED <<ftHold, q>>
    /\ UNCHANGED <<ftHome, noRoom, errs, ftEmerg, offAt, disk, index, info, histVars>>

\* ft_data_get_pack goes on when ft_cache_load has returned
Pick ==
    /\ op = "pick" /\ op' = "none"
    /\ PickDelayed
    /\ UNCHANGED <<ftHome, noRoom, errs, ftEmerg, done, offAt, disk, index, info, histVars>>

\* ft_do_report, when it has a report: sent, put back, or forgotten when the socket has
\* no room
ft_do_report ==
    /\ op = "none" /\ ftHold # 0 /\ ftHold' = 0
    /\ \/ /\ Len(q.trans) < InFlight
          /\ q' = [q EXCEPT !.trans = Append(@, ftHold)] /\ UNCHANGED <<noRoom, rare, gone>>
       \/ /\ q' = [q EXCEPT ![ftHome[ftHold]] = <<ftHold>> \o @] /\ UNCHANGED <<noRoom, rare, gone>>
       \/ /\ noRoom < MaxNoRoom /\ Rare
          /\ noRoom' = noRoom + 1 /\ gone' = TRUE /\ UNCHANGED q
    /\ UNCHANGED <<ftHome, errs, ftEmerg, op, done, offAt, disk, index, info,
                   reports, acked, unsaved, behind>>

\* mutant: the buffer of an acknowledged report is not freed
ft_data_ack_pack_leaks ==
    /\ op = "none" /\ q.trans # <<>>
    /\ acked' = acked \cup {Head(q.trans)}
    /\ q' = [q EXCEPT !.trans = Tail(@)]
    /\ ftHome' = [ftHome EXCEPT ![Head(q.trans)] = "delay"]
    /\ noRoom' = noRoom + 1
    /\ UNCHANGED <<ftHold, errs, ftEmerg, op, done, offAt, disk, index, info,
                   reports, rare, unsaved, behind, gone>>

ft_data_ack_pack ==
    /\ op = "none" /\ q.trans # <<>>
    /\ acked' = acked \cup {Head(q.trans)}
    /\ q' = [q EXCEPT !.trans = Tail(@)]
    /\ ftHome' = [ftHome EXCEPT ![Head(q.trans)] = "delay"]
    /\ UNCHANGED <<ftHold, noRoom, errs, ftEmerg, op, done, offAt, disk, index, info,
                   reports, rare, unsaved, behind, gone>>

\* the places in ft_trans_lst of the reports that came from l, in their order: there is
\* one such sequence
PlacesFrom(l) ==
    LET at == {i \in DOMAIN q.trans : ftHome[q.trans[i]] = l}
    IN  {a \in SeqOf(at, Len(q.trans)) :
            Range(a) = at /\ \A i, j \in DOMAIN a : i < j => a[i] < a[j]}

\* at log-in the reports in flight go back to where they came from
ft_data_flush_sending ==
    /\ op = "none" /\ offAt = "none" /\ ftHold = 0 /\ q.trans # <<>>
    /\ Rare
    /\ \E a \in PlacesFrom("realtm"), b \in PlacesFrom("delay") :
          q' = [realtm |-> [k \in DOMAIN a |-> q.trans[a[k]]] \o q.realtm,
                delay  |-> [k \in DOMAIN b |-> q.trans[b[k]]] \o q.delay,
                trans  |-> <<>>, tmp |-> q.tmp]
    /\ UNCHANGED <<ftHome, ftHold, noRoom, errs, ftEmerg, op, done, offAt, disk, index, info,
                   reports, acked, unsaved, behind, gone>>

\* PM_MSG_EMERGENCY and PM_MSG_RUNNING
ft_data_emergence ==
    /\ op = "none" /\ offAt = "none" /\ ftHold = 0
    /\ ftEmerg' = ~ftEmerg
    /\ IF ftEmerg THEN UNCHANGED rare ELSE RareBy(2)
    /\ UNCHANGED <<q, ftHome, ftHold, noRoom, errs, op, done, offAt, disk, index, info,
                   reports, acked, unsaved, behind, gone>>

\* PM_MSG_OFF
ft_cache_save_all ==
    /\ op = "none" /\ offAt = "none" /\ ftHold = 0
    /\ Rare
    /\ ftEmerg' = FALSE /\ offAt' = "open"
    /\ UNCHANGED <<q, ftHome, ftHold, noRoom, errs, op, done, disk, index, info,
                   reports, acked, unsaved, behind, gone>>

-----------------------------------------------------------------------------
\* The process dies or power is cut, perhaps while cache_info is being written;
\* ft_data_init and ft_cache_load_info start again from what is on the card.  That is
\* what was written, when the process dies or the system had time to write it back.
\* After a power cut it may be behind: an index of any age, and slots whose reports no
\* property speaks of any more, so that they are left as they are.
PowerCut ==
    /\ \/ /\ Rare
          /\ info' \in {info} \cup IF offAt = "info" \/ op \in SaveInfoOps THEN {Zero} ELSE {}
          /\ UNCHANGED behind
       \/ RareBy(2) /\ info' \in [r : Ring, w : Ring] /\ behind' = TRUE
    /\ index' = info'
    /\ q' = [l \in DOMAIN q |-> <<>>] /\ ftHome' = [n \in Rep |-> "delay"]
    /\ ftHold' = 0 /\ noRoom' = 0 /\ errs' = 0 /\ ftEmerg' = FALSE /\ op' = "none" /\ done' = 0 /\ offAt' = "none"
    /\ unsaved' = FALSE /\ gone' = TRUE
    /\ UNCHANGED <<disk, reports, acked>>

CacheNext ==
    \/ ft_data_save_realtm \/ Record \/ ft_data_flush_realtm
    \/ ft_data_flush_error \/ FlushEntry \/ FlushEnds
    \/ SaveOpens \/ SaveAllOpens \/ SavePack \/ SaveInfo \/ SaveAllInfo
    \/ LoadOpens \/ LoadPack
    \/ ft_data_get_pack \/ Pick \/ ft_do_report \/ ft_data_ack_pack
    \/ ft_data_flush_sending \/ ft_data_emergence \/ ft_cache_save_all
    \/ PowerCut

CacheSpec == CacheInit /\ [][CacheNext]_cacheVars

-----------------------------------------------------------------------------
\* The lists, indexes and counters of the cache keep their ranges: the masks of both
\* indexes hold, and buffers are neither made nor taken twice.
CacheTypeOK ==
    /\ \A l \in DOMAIN q : q[l] \in Seq(Rep)
    /\ errs \in Nat /\ errs + Len(q.tmp) <= NErr
    /\ ftHold \in 0 .. MaxRep /\ noRoom \in 0 .. MaxNoRoom /\ NFreeBuf \in 0 .. NBuf
    /\ disk \in [Ring -> 0 .. MaxRep] /\ {index, info} \subseteq [r : Ring, w : Ring]
    /\ done \in 0 .. Len(q.delay) + RingSize + MaxRep /\ acked \subseteq Rep

InMemory == q.realtm \o q.delay \o q.trans \o q.tmp
                \o (IF ftHold = 0 THEN <<>> ELSE <<ftHold>>)

\* Wherever the process dies, a report the server has acknowledged is not sent again:
\* it is neither in memory nor between the indexes on the card (ft_cache_load saves the
\* indexes before a report it loaded can be sent).  A failed write of cache_info, or a
\* power cut that loses writes, which are not synced, can break this.
NotSentTwice ==
    ~behind => acked \cap (Range(InMemory) \cup Range(Cached(info)) \cup Range(Cached(index))) = {}

\* A report is in one place, in memory or in the cache, also when the process died or
\* the card gave errors (but not when the card fell behind); and none is lost but for a
\* cause: a restart, an error of the card, a full ring, no room in the socket, the card
\* being formatted, or a warning whose history takes the buffers of the oldest reports
\* without caching them.
KeptInOnePlace ==
    LET places == InMemory \o Cached(index)
    IN  /\ ~behind => IsInjective(places)
        /\ ~gone => 1 .. reports = acked \cup Range(places)

\* What has been cached survives the end of the process: between two operations the
\* indexes in cache_info are those in memory, unless they were reset after an error or
\* the card fell behind.
IndexesOnCard ==
    op = "none" /\ offAt = "none" /\ ~unsaved /\ ~behind => info = index

\* The endless loops that "should not be happened" are not entered, as long as
\* ft_do_report has lost no more buffers than there are to spare: ft_cache_save finds
\* reports to write, ft_cache_load buffers to fill, ft_data_save_realtm and
\* ft_data_flush_error a buffer.
NoHang ==
    /\ op = "saving" => ~NoOldest
    /\ op = "loading" => NFreeBuf > 0
    /\ op = "record" \/ (op = "none" /\ errs > 0) => ~NoBuffer

\* The card and the memory agree on what is cached: the indexes are written when an
\* operation has ended, so that after a restart no acknowledged report is sent again,
\* as long as the card is not behind.
CardIsSound == NotSentTwice /\ IndexesOnCard

\* Reports are kept: each is in one place, and none is lost without a cause.
ReportsKept == CacheTypeOK /\ KeptInOnePlace
=============================================================================
