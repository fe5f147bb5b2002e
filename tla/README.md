# A TLA+ model of the MPU application

The repository is the application of a vehicle telematics terminal (TBox). One
process, started by `app/main.c`, holds some twenty modules; `main.c` initialises
them in three phases and then starts the threads of its run table. The terminal
records signals from the CAN bus, keeps reports while there is no network, sends
them to a server under GB/T 32960 (or a sibling protocol), upgrades the vehicle's
ECUs, and goes to sleep when the vehicle does.

This directory models the parts of it in which several threads, a peer, a timer or
a power cut can come between two steps: the path of a report from the CAN bus to
the server, the messages between the threads, the stores that survive a power cut,
power management, the link to the MCU, dialling, the upgrade of ECUs, and the launcher
that puts the application's own upgrades in place. Sections:
the inventory, the plan, the modules, the runs, fairness, the proofs, observations,
and what is left out.

## 1. Inventory

### 1.1 Components

| component | source | state it keeps | operations | how it interacts | module |
|---|---|---|---|---|---|
| main | `app/main.c` | init and run tables | three init phases, start of threads | calls every module | |
| sock | `app/base/sock/sock.c` | a table of sockets: status, address, sync lists, `sendsz`, connect thread | create, delete, open, close, send, sync, bufsz, error, recv, listen | called by the protocols; one thread per connection attempt; calls back the sender of a report | `Sock` |
| gb32960 prot | `app/interface/gb32960/gb32960_prot.c` | session (`state`), registration number, address, VIN, `gb_allow_sleep` | one message and then a chain of handlers per turn of `gb_main` | messages from tcom, pool of gb32960 data, socket, sleep vote read by pm | `GbProt`, `GbFrame` |
| gb32960 data | `app/interface/gb32960/gb32960_data.c` | four lists of packs, ring of warning history, burst counters | record, save history, flush history, get, put back, put on trans list, acknowledge, clear | callbacks on the CAN thread; calls from the protocol thread; `gb_datmtx`, `gb_errmtx` | `GbData` |
| foton | `app/interface/foton/` | session, wake-up timer, retries; report lists and their cache on the SD card | as gb32960, with heartbeat, upgrade command and cache | as gb32960 | `Foton`, `FtCache` |
| hozon | `app/interface/hozon/` | a renamed copy of foton's client that nothing starts; private protocol and socket proxy are stubs | | | |
| tcom | `app/base/tcom/tcom_main.c` | per module: header pipe, body ring | push, pull, forward | every module's inbox | `Tcom` |
| scom | `app/base/scom/` | SPI device, three one-shot timers, heartbeat, connection state | open, close, restart, connect request, upgrade server | link to the MCU; messages of pm | `Scom` |
| pm | `app/base/pm/` | power state, ring flag, counters, wake lock | a table of eight states and ten events, tick | asks every module whether it may sleep, tells them the state | `Pm` |
| nm | `app/base/nm/` | `nm_net_info`: state, handle, wait per network, `cur_type`, recall timer | dial, stop, recall, restart | callbacks of the modem's library; tells the protocols the network state | `NmDial` |
| cfg | `app/base/cfg/` | parameter table, version | boot, restore, default, upgrade, set | over rds | `CfgPara` |
| rds | `mid/rds/rds.c` | master and backup file with checksums | update, get with recovery, delete | file helpers of `mid/file` | `Rds` |
| fota | `app/interface/fota/`, `geelyhu/hu_fota.c`, `autopilot/ap_data.c`, `httpclient/http.c` | request state, download, head-unit dialogue, images in the ECUs | request, confirm, download, program, roll back, cancel | four threads share `fota_req` under `fota_mtx` and `hu_fota_state` under no lock | `Fota` |
| msg | `mid/msg/msg_parse.c` | decode buffer and position | encode, two decoders | SPI data of scom, TCP service of assist | `MsgParse` |
| can | `app/base/can/` | bus activity, DBC signal tables | receive, periodic events, reload of a DBC file | calls gb32960 data on its thread | inputs of `GbData` |
| at | `app/base/at/` | command queue of the modem | | serial device | |
| dev | `app/base/dev/` | status, faults, upgrade controller | take a package | hardware; files for the launcher | `Launcher` (upgrade controller) |
| uds | `app/base/uds/` | diagnostic sessions | | CAN, services | |
| gps, dsu, fct, shell | `app/base/` | | | devices, factory test, console | |
| assist, autopilot, geelyhu, ftp | `app/interface/` | | | vehicle-specific services | |
| mid libraries | `mid/` | ring buffer, timers, files, digests | | | |
| appl | `appl/main.c`, `mid/dir/dir.c` | directories of the current and the previous image, the copy and the upgrade, each with a status mark; count of starts | put an upgrade in place, start, roll back, restore | parent of the application; directories written by dev and rds | `Launcher` |
| zlib, minizip, httpclient, mqtt-packet | vendored | | | | |

### 1.2 What is hard

* **Concurrency.** The CAN thread records while the protocol thread sends; both
  move the same packs. A connect thread sets the socket's status under the protocol
  thread's feet. An upgrade is requested on one thread, confirmed on another,
  downloaded on a third and programmed on a fourth.
* **Inference.** Nothing tells the terminal that a report arrived. `sock_sync`
  subtracts `SIOCOUTQ` from the bytes it believes outstanding, and the report's
  callback frees *the first* pack of the trans list, on the strength of two queues
  in two modules having the same order.
* **Messages that outlive their cause.** A timer's message is handled after the
  timer was stopped; the modem's answer to a call is handled after an APN change
  ended the call; messages name the network, not the call.
* **Crashes.** Power may be cut between any two writes of the parameter store, the
  report cache or the launcher's directories, and inside one.
* **Failure.** Partial sends, connections that break between two handlers, refused
  and late answers, retries, library calls and disk accesses that fail, ECUs that
  fail in the middle of a package.
* **Limits.** Sync list, report pool, history, rings of tcom, queue of pm, ring of
  slots on the card, registration number, counters of pm.

### 1.3 What makes each component correct

* *sock*: a frame is released exactly when its last byte has been acknowledged;
  sync entries are neither lost nor moved to the wrong list; reports never eat the
  reserve.
* *gb32960 data*: a pack is in one place; a report waits on the list of its type;
  real-time reports and the history of a warning keep their order.
* *gb32960 prot, foton*: a session stands on an open connection to the configured
  server; an acknowledgement frees the pack it is about; a log-out carries the
  log-in's number and comes to an end; the terminal sleeps only without a session
  and not while the bus is active; bytes become the same frames however TCP cuts
  them.
* *foton's cache*: a report is in one place, none is lost without a cause, none is
  sent again after its acknowledgement, wherever the process ends.
* *tcom*: header and body stay paired: a queue is a FIFO of whole messages.
* *rds, cfg*: one of the two files can be read, and a value that was saved stays
  until the next is, with the exceptions the code has (section 7.2).
* *pm*: no sleep over a ring, wake lock and modules follow the state, a restart
  comes about.
* *scom, nm*: what is closed or not connected is retried; one network is dialled at
  a time; modules are told the truth about it.
* *fota*: one package at a time; all its ECUs or none; every request ends.
* *appl*: whatever single kind of fault there is, it starts only whole images, always
  has one to start, and rolls back only to one that has run.

## 2. Plan and where it stands

Done: `Sock`, `GbData`, `GbProt` (first), then `Tcom` with `MsgQueue`, `Rds` with
`DurableValue` and `CfgPara` on top, `Pm`, `Scom` and `MsgParse`, `Foton` and
`FtCache`, `GbFrame`, `NmDial`, `Fota`, `Launcher`.

Next: creation and deletion of sockets against the connect thread (a hazard at
`sock.c:643` that no property covers), the command queue of `at`, the launcher with
two kinds of fault.

Every invariant the passing runs check is a theorem but those of the two decoders
(section 6.9). Worth proving next: what two kinds of fault may do to the launcher, once
it is modelled what they may.

## 3. Modules

| module | models | extends |
|---|---|---|
| `Sock` | one SYNCTCP client socket, its connect thread, the kernel's TCP (external) | |
| `GbData` | the report pool, the CAN thread, the protocol thread as any user of the pool | |
| `GbProt` | `gb_main` and its handlers, the messages, the server (external) | `Sock`, `GbData` |
| `GbFrame` | `gb_makeup_pack` over pieces of a stream | |
| `Tcom`, `MsgQueue` | the message queues; what they promise | |
| `Rds`, `DurableValue` | one record of the store; what it promises | |
| `CfgPara` | the parameters | `Rds` |
| `Pm` | power management | |
| `Scom` | the SPI thread and the connection to the MCU | |
| `MsgParse` | escapes and checksum of the SPI and TCP frames | |
| `Foton` | the Foton session | |
| `FtCache` | the Foton report lists and their cache on the card | |
| `NmDial` | the dialling thread | |
| `Fota` | the upgrade of ECUs | |
| `Launcher` | the launcher, its directories, and the application as their user | |
| `Sock_proofs`, `GbData_proofs`, `Pm_proofs`, `NmDial_proofs`, `Tcom_proofs` | theorems about the module they are named after | that module |
| `Stores_proofs` | theorems about what is kept on flash and card: the store, the parameters in it, the Foton cache, the launcher | `CfgPara`, `FtCache`, `Launcher` |
| `GbProt_proofs` | theorems about the composed client | `GbProt`, `Sock_proofs`, `GbData_proofs` |
| `Links_proofs` | theorems about `Scom`, `Foton`, `Fota` | these three |
| `MC*` | instances for TLC | |

A definition whose comment begins with "mutant:" is a deliberately wrong variant of
the definition it precedes, and no part of the specification: put in its place, it
makes TLC find one of the properties violated.

### 3.1 Sock

`stat`, `peer`, `used`, `sendsz` are the fields of `sock_t`; `free` and `back` are
the lengths of `sync_free` and `sync_back`, whose entries are interchangeable.
`conn` is the connect thread. `outq` is what `ioctl(SIOCOUTQ)` returns, `down` what
`SO_ERROR` and a failing `recv` or `send` report. `frag` counts bytes of frames
abandoned half-way (a `send` that wrote part and then failed or found no room for
three seconds), which the kernel holds and the socket does not count. `lag` is
history: bytes acknowledged and not yet credited to a released frame.

Actions: `sock_open` (with `sock_cleanup`), `sock_open_proc`, `sock_finish`,
`sock_close`, `sock_send` in its outcomes (not open, no sync entry, error or
partial, whole), `sock_sync`; `TcpAck` of any number of bytes, `TcpBreak`. A full
sync list makes `sock_send` return 0, or -1 once `SOCK_ACK_TIMEOUT` has passed since the last send: time
is abstract, so both results are possible. Linger times, `recv` and link statistics
are left out.

### 3.2 GbData

Packs are `1 .. NPack`; `lst` maps the four list heads and `tmplst` (a local
variable of `gb_data_flush_error`) to sequences of packs. `home` is `pack->list`,
which the code always sets together with `pack->type`; `stamp` stands for the
payload. `err` is the ring of the warning history without its empty entries, oldest
first. `datlk` says which thread is inside a loop with `gb_datmtx` held; a critical
section that is not a loop is one step. `canpc` is the CAN thread's place in
`gb_data_periodic`: counting, saving, flushing the history, or stuck in the
`while (1)` of "BIG ERROR". `hold` is the pack `gb_do_report` has taken off the
lists.

`gb_data_clear_report` rebuilds the lists from the array. If a pack is outside them
at that moment (held by `gb_do_report`, or on `tmplst`) the links are undefined
afterwards. `torn` records that this happened and the model stops there; see
section 7.

`GbUser` is the protocol thread as the pool's user: calls in any order, with what
was taken disposed of before the next call. `UsesPool` checks that the real
protocol is such a user.

### 3.3 GbProt

`gb_main` takes at most one message and then tries `gb_do_checksock`,
`gb_do_receive`, `gb_do_wait`, `gb_do_login`, `gb_do_suspend`, `gb_do_report`,
`gb_do_logout` until one returns non-zero. `gbpc` is the handler about to be tried.
Handlers that call the pool more than once are split at those calls (`resume`,
`fresh`, `fresherr`; `report`, `send`), because the CAN thread runs in between.
Every field of `state` has a variable; `late` abstracts the clock (the interval
since `waittime` is over), `today` says that `gb_regdate` is today's date.

Messages are posted to `inbox`, in which CANON and CANOFF follow the callbacks of
the CAN thread. `asked` and `rx` are the server: it answers frames it was sent, in
any order of kinds, positively or not, early or late. An answer to a connection
that was closed is gone with it.

History: `loginSeq`, `sentp` (the packs behind the sync entries with a callback),
and three flags for situations in which the code does something a reader might not
expect and a property excludes: `cleared` (a DBC reload emptied the trans list while
callbacks were due), `woke` (the bus woke while a log-out was unanswered), `moved`
(the address changed while the connection to the old server was in progress).

`MaxInbox` bounds the waiting messages and `Quota` how often each event from outside
happens; there is no other bound on behaviours apart from `MaxClock` and `MaxFrag`.

### 3.4 GbFrame and MsgParse

Two stream decoders, as actions that consume a piece of any size. `GbFrame` is
`gb_makeup_pack` (and `ft_makeup_pack`, the same text): `stream` is what is still to
come, `rcv` the static assembler, `frames` what was sent. Its look-ahead for a second
`'#'` reads one byte beyond what `sock_recv` returned; that byte is any byte
(`cutOff` remembers the frames for which this mattered). `MsgParse` is the escape
encoding with its checksum and the two decoders: `msg_decode` with its position in a
static variable (SPI) and `msg_decodex` (TCP service). The alphabets are small and
contain the marker, the escape and their codes.

### 3.5 Tcom and MsgQueue

A queue is a pipe of headers and a ring of bytes; a sender writes to the queue of the
TCOM thread, which pulls the message and writes it to the receiver's. A byte of a
body is `<<message id, position>>`, so that a body put together from two messages
would be seen. `MsgQueue` is the abstract specification: sequences of whole messages
and the buffer of each thread. The mapping reads the ring by the headers in the pipe.

### 3.6 Rds, DurableValue and CfgPara

`Rds` is one record: `master`, `backup`, the call in progress (`pc`, `arg`, `got`).
The master is written beside and renamed, the backup overwritten in place, the
recovery copies one over the other. A crash (`Crash`) is possible between any two
steps, and leaves a file that is being overwritten torn. `rename` is atomic, as the
file system's. It may fail (`RenameFails`), which `file_rename` only logs: the call goes
on and copies the master that is still there, torn or not, over the backup; with no
master there is nothing to copy. A deletion that fails (`file_delete`) is ignored too.
The contents of both files are synced by the code, the directory is not: that a rename
or deletion which returned is still there after a power cut is assumed. Besides, one file may be damaged by itself, not both, and not in the
step in which the other is the only source of a copy (`backup`, `copy`, `recover`,
`recopy`): no store of two copies survives that. `past`, `wiped` and `spoilt` are history: the values that
were put in place, whether the store was set to its default since, and whether a rename
failed that should have replaced a torn master. `DurableValue` promises that once a
value was written there is always one to read, that it is one that was written, and that
it goes only after it was released: the store was wiped or spoilt.

`CfgPara` restores, sets defaults, upgrades and sets two parameters that stand for all.
The shell's `setdefault` takes the store's lock for the deletion only, then sleeps two
seconds and kills the application, which runs on meanwhile: a setting in that window
(`reset` becomes "dirty") saves all parameters with their old values. `allowed` is
history, the values each parameter may have: one after a setting that was saved, its
default after a reset that stayed clean, and more where the code leaves it open.

### 3.7 Pm

`pmState`, `ringing`, `locked`, the counters and the event queue; one action per
entry of the table that does something (`pm_st_s0e3` and so on, with the source's
names), `Tick` for the check timer. What a module answers and what the USB and MCU
levels read is chosen at each tick. `beat` alternates with each tick so that a tick
that changes nothing is still a step, which fairness needs.

### 3.8 Scom

The thread takes a message or SPI data at a time. `Fires(t)` posts the message of
timer `t`, `HeartTimer` counts heartbeats and restarts the device. Power messages and
the MCU's mode are independent inputs. `tl` is the state of `scom_tl.c`; its client
half has no caller and is left out.

### 3.9 Foton and FtCache

`Foton` is the chain of `ft_main` (`ftPc`), with the three-minute wake-up timer, the
vehicle's ignition and bus, the log-out with its retries and the upgrade command.
Whatever waits for a time-out finds it over or not. `FtCache` has the report lists of
`foton_data.c` and the ring of slots on the card: a report is its number, every disk
access is a step at which it may fail or the process end. A reset of the session leaves
a connection in progress alone, as `sock_close` does (`AfterClose`). A warning
(`ft_data_flush_error`, `FlushEntry`, `FlushEnds`) turns up to `NErr` entries of the
history into delayed reports; it takes a buffer at a time, from the oldest report when
none is free, and nothing is written to the card for it. How the history is filled is
in `GbData`, whose code it shares.

No write to the card is synced. `PowerCut` has two cases: what was written is there (the
process died, or the system had written it back), or the card is `behind`: the indexes
in `cache_info` are of any age. What the slots then hold no property speaks of; `NoHang`
and the ranges of the indexes are still checked. `MaxRare` bounds failures, cuts and
warnings together, an emergency and a cut that loses writes counting for two; `MaxNoRoom` bounds how
often `ft_do_report` loses a pack for want of room (section 7).

### 3.10 NmDial

A function of `nm_dial.c` is an operator from `nm_net_info` to the set of what it may
become; messages wait in `nmQueue`. The modem (`line`) is external: it answers,
refuses or drops a call, and its message names the network only. It has no address
for a call that is not up. Refusals and drops of the public network, failing library
calls and APN changes are bounded together by `MaxFaults`; refusals of the private
network are not. The recall timer fires only when its last message was handled.

### 3.11 Fota

`req` is `fota_req`, `http` the download with its thread, `hu` the dialogue with the
head unit, `job` the package being programmed, `flash` what each ECU holds. A
critical section is one step except those that start a thread or send a message,
during which `lock` says who is inside. An ECU may refuse the match, fail in the
middle (its flash is then broken) or fail to be rolled back. A package may have a
part for the terminal itself (`TBOX`), which ends by its restart. The report of an
earlier self-upgrade may come at any time but the very moment a silent request
starts its download.

### 3.12 Launcher

`dirs` maps the four directories (CUR and PRE on `/usrapp`, DATA and UPG on
`/usrdata`) to their mark (`status.conf`), their image (a version per file) and the
mark of their cfg directory. `main` is one thread; its fourteen calls that write are
the table `Calls`: what each does, to which directory, what follows, and what follows
its failure. `Succeeds`, `Fails` and `LauncherCut` execute a call; the last two leave
any of the states `Broken` lists, with some files copied or removed and one in part.
`file_copy` and `file_write_atomic` end with `fsync`, so that a call that returned is
on the flash. The tests between the calls are actions of their own. The application
is its user: it marks DATA's cfg directory when it saves a parameter, takes packages
(`upg_ctl_proc`), hangs, exits. `meant` is history: the factory's image and what a
whole package makes of one of them; `ran` the images that came up; `faults` the kinds
of fault there were, of which `MaxKinds` bounds the number. The failure of each of the
fourteen calls is a kind of its own. A terminal starts with the
factory's image, or with `/usrapp` erased and the copy in place.

## 4. Runs

Twelve runs. Three of them hold several components that share no state: a variable
`part`, chosen at the start, says which of them moves, and the others rest.
The states of such a run are the sum, not the product, of the components' states.

| run | instance | shows |
|---|---|---|
| `parts` | `Sock`: 2 + 1 sync entries, 4 bytes of buffer, frames of 1 and 2 bytes, 2 bytes abandoned, 2 addresses; `GbData`: 3 packs, recordings of 2, history of 2 recordings, 3 ticks; `MsgParse`: noise of up to 2 bytes or a full buffer, then 2 messages; `GbFrame`: 2 frames with `'#'` in data and checksum; `Fota`: packages of 2 ECUs, with and without the terminal | `ReleasedWereAcked`, `AccountExact`, `AckedFrameIsReleasable`, `SyncEntriesSound`; `OnePlace`, `ListMatchesType`, `ReportsInOrder`; `FramesSound`; `CleanFramesHandled`; `OneUpgrade`, `AllOrNothing` |
| `sock_spawn` | as above, `Sock` alone | **violation** of `InprogHasThread` |
| `session` | two journeys with a broken connection; network twice up, VIN and address changed; journeys without a DBC file over midnight with a registration number of 1 .. 2 | `SessionSound`, `SleepIsSafe`, `LogoutSeqMatches`, `UsesSock` |
| `report` | two report entries in the socket; emergency and broken connection; second DBC file and broken connection; warning and suspension | `ReportAcksMatch`, `UsesPool` |
| `quiet` | end of a journey, with fairness | `QuietEnds` |
| `slow_link` | the socket may be short of room | **violation** of `NoBigError` |
| `tcom` | 2 receivers, ring of 3 bytes, pipes of 2 headers, bodies of 0 to 2 bytes and one too long | `RingMatchesPipe`, `IsMsgQueue`, `MessagesMove` |
| `stores` | `CfgPara` over `Rds` with crashes, failing writes, renames and deletions, a damaged file, settings before a reset's kill; `FtCache`: 5 buffers, 6 reports, ring of 4, a history of one entry, two rare events; `Launcher`: two packages, 3 power cuts, 2 failed calls, one kind of fault | `OneReadable`, `IsDurable`, `SavedStays`; `CardIsSound`, `ReportsKept`, `NoHang`; `OneFaultSurvived` |
| `cfg_newpara` | a new device | **violation** of `NewParaHasValue` |
| `pm` | limits of 0 to 2, one event waiting | `RingKeepsAwake`, `ToldIsState`, `PmProgress` |
| `links` | `Scom`: heartbeat limit 2, two messages; `Foton`: 2 retries; `NmDial`: 2 waits, 3 messages, 2 faults; `Fota`: one ECU; with fairness | `ScomArmed`, `ScomProgress`; `FtSessionSound`, `FtProgress`; `OneCallAtATime`, `DialSound`, `PublicComesUp`; `RequestEnds`, `HuIdleAgain` |
| `foton_sleep` | as `links`, `Foton` | **violation** of `UpdateKeepsOnline` |

Several properties are conjunctions of named parts (`SyncEntriesSound`,
`ReportsInOrder`, `OneUpgrade`, `SessionSound`, `SleepIsSafe`, `QuietEnds`,
`CardIsSound`, `ReportsKept`, `PmProgress`, `ScomArmed`, `ScomProgress`,
`FtSessionSound`, `FtProgress`, `DialSound`, `FramesSound`, `OneFaultSurvived`);
every part has its own mutant.

*Why the bounds are enough.* The interesting cases are boundary cases, and each
bound is chosen so that its boundary is met: the sync list fills with one or two
reports while the reserve is still there; the pool runs empty so that the recorder
takes the oldest delayed and then the oldest real-time report; a recording has two
packs so that the protocol thread can come between them; the history overflows; two
addresses and one change give a late connection to the old server; a maximum of 2
makes the registration number wrap in one journey; the tcom ring wraps and overflows
with two messages, and headers without a body fill the pipe first; the cache's ring
is full with three of the six reports and the fourth overwrites; two rare events give a
failure or a warning and then a cut, or a cut that loses writes; the queue of nm holds a stale answer, the message that ends
the call and the recall; two ECUs give a first that is rolled back and a second that
fails; three cuts meet the upgrade, the recovery from the first and that from the
second. Larger values only delay these cases.

*Deadlock* is checked in `parts`, `sock_spawn`, `tcom`, `pm` and `links`; where a
component there stops at its bounds this is an action of the MC module (`AtBound`,
`NmAtRest`). In `session`, `report`, `quiet` and `slow_link` the events are bounded
by `Quotas`, in `stores` by `MaxRep`, `MaxRare`, `MaxPkg`, `MaxCut` and `MaxIo`, and a state without a successor
is the end of the bounded story: `CHECK_DEADLOCK FALSE`.

*Refinements.* `IsMsgQueue` (`Tcom` implements `MsgQueue`) and `IsDurable` (`Rds`,
and with it `CfgPara`'s use of it, implements `DurableValue`) instantiate the
abstract module with a mapping. `UsesPool` and `UsesSock` say that `GbProt`, which
extends `Sock` and `GbData`, uses them as their specifications allow a user; the
mapping is the identity, and what is proved of `SockSpec` and `DataSpec` holds of
the composed system.

## 5. Fairness

* `quiet`: `WF` of `gb_main` (it loops with a time-out of 200 ms on its inbox), of
  the callback the CAN thread is in, of the connect thread (its `select` has a
  time-out), of TCP (it delivers or reports the connection broken), of the clock.
  Nothing is assumed of the server, of messages or of the bus.
* `tcom`: `WF` of the router's two halves and of every module's receive loop.
* `pm`: `WF` of `Tick`: the check timer is periodic.
* `links`, `Scom`: `WF` of the thread and of the heartbeat timer; `SF` of each
  one-shot timer (stopped and started again and again it fires in the end), of an
  opening that succeeds (the device does not fail for ever) and of the MCU's answer
  to requests that are sent again and again.
* `links`, `Foton`: `WF` of the thread; `SF` of time-outs and the wake-up timer, of
  a connection that succeeds, and of an answer to requests repeated for ever.
* `links`, `NmDial`: `WF` of the thread, the recall timer and the library's
  initialisation; `SF` of an answer of the public network in time. The private
  network may be refused for ever.
* `links`, `Fota`: `WF` of leaving a critical section; `SF` of the threads, and of a
  head unit that answers or is reset.

In `links` one of the four components moves, so one condition on a disjunction of
actions of several components says the same as one condition for each; this keeps
the temporal formula small. `FtSleepsInTheEnd` assumes a server that can be reached
in the end and `PublicComesUp` an APN that stays set; without these the code does
not promise it.

## 6. Proofs

All constants are arbitrary within the named assumptions of their modules (sizes are
natural numbers, frames have at least one byte, a recording and the history are not
empty, limits as the code's, the store's values are images of the parameters, the
delivered application comes up), which TLC evaluates in the runs. Every strengthening was first checked by TLC on the
instances of the runs. An invariant of a component that is composed with another is
proved once, of its own specification, and carried over by a step refinement.

### 6.1 `Sock_proofs`

`SockTypes`, `NeverReleasedEarly` and `AccountIsExact` state `SockTypeOK`,
`ReleasedWereAcked` and `AccountExact` for every number of sync entries, every
buffer size and all frame lengths.

The invariant is `SockInv == SockTypeOK /\ Connecting /\ AccountExact /\
ReleasedWereAcked`. `AccountExact` alone is not inductive, because it speaks of an
open socket and `sock_finish` opens one: `Connecting` says that a socket in
progress has the empty list and the zero counter `sock_cleanup` left, so that both
sides of the account are zero when it opens. Then `sock_send` adds the same length
to both sides (or to `frag` and `outq`, when it gives up), an acknowledgement moves
bytes from `outq` to `lag`, and `sock_sync` takes a length from `sendsz` and from
`lag`. `HeadWithinLag` is the step that matters: from the account and the test
`len <= sendsz - outq` it follows that `len <= lag - frag`, so what is released was
acknowledged, abandoned halves included. Types need the guards that entries are
taken only from non-empty lists.

`AckedIsAlwaysReleasable` (`AckedFrameIsReleasable`) needs one fact more, `SendszExact`:
`sendsz` is the number of bytes of the frames on `sync_used`. "The sum of a list" is
stated without recursion, as the existence of its function of partial sums
(`BytesOf`): a send extends that function by one point, a release shifts it.
`SyncEntriesAlwaysSound` (`SyncEntriesSound`) counts: `Conserved` says that the unused
entries of a list and the places in `sync_used` whose owner it is make up the list's
size. A send adds one place, a release removes the first and moves the others up by
one, which is a bijection. `ReportsFree` (an entry with a callback belongs to
`sync_free`) is the other half of the invariant.

### 6.2 `GbData_proofs`

`PacksInOnePlace` states `OnePlace` for every size of pool, recording and history.
The invariant is `PoolInv == PoolType /\ OnePlace`: `OnePlace` becomes inductive
with the types of `lst`, `home` and `hold`, of which `home` matters most (a pack
from the trans list goes back to `home[p]`, which must be one of the two report
lists and therefore not the trans list itself).

The argument has three layers: what `Append`, `Tail`, inserting at the front,
removing the last element and concatenation do to the elements of a list and to
its freedom from repetition; what moving one pack, taking one, putting one and
emptying a list into another do to disjoint lists (`MoveClean`, `TakeClean`,
`PutClean`, `PourClean`, `SameClean`); and one lemma per critical section, among
which `SaveKeepsPool` has the case in which the buffer comes from the very list it
is put on.

`ListAlwaysMatchesType` and `ReportsAlwaysInOrder` state `ListMatchesType` and
`ReportsInOrder`. That the real-time list is sorted is not inductive: packs leave it,
are held, sent, and come back to its front. `OrderInv` orders all of them at once.
`Chain(a, b)` says that `a` would be transmitted before `b`: both on one list, or `a`
sent or held and `b` behind it; `RealSorted` says that recordings along that chain do
not decrease. For the history, `HistSorted` orders the ring, what was copied from it
into `tmplst` and the two against each other. A new recording goes last because none is
later than the clock (`PastOnly`). The order holds until the pool is cleared with a pack
outside its lists (section 7.2), which `torn` records, as in the properties.

### 6.3 `Stores_proofs`

Three parts, about modules that share no state.

**The store and the parameters.** `OneReadableAlways` and `RdsImplementsDurable` state `OneReadable` and `IsDurable`
for every set of values; `RdsTyped` the types. The invariant `RdsInv` adds to them
what the call in progress relies on (`Progress`: while the backup is overwritten the
master can be read, unless a rename failed on a torn one; while the master is recovered
the backup can) and that a file
that can be read holds a value that was put in place (`Written`). Without `Progress`
a crash could tear the only copy; without `Written` a recovery could bring a value
nobody wrote. The refinement follows step by step: a rename is a `Write`, a damaged
master a `FallBack`, a deletion or a rename that fails on a torn master a `Release`, what
then happens to the files a `Lapse`, everything else a stutter.

`SavedAlwaysStays` states `SavedStays` of the parameters on top of the store. The
property speaks of a running application; its cause lies in the files. `CfgInv` adds
what a reader of the files would restore (`Restores`: master, else backup, else the
defaults) and, in `StoreSafe` and `RamSafe`, what the call in progress will put in
place and what the application has restored or is about to; `ResetSafe` says that a
reset that is still clean has left nothing to restore. `CfgUsesStore` shows that
every step of `CfgPara` is a step of `Rds` or none of the store's, so `OneReadable` and
the refinement of `DurableValue` hold in the application.

**The Foton cache.** `CacheReportsKept`, `CacheCardIsSound` and `CacheNeverHangs` state
`ReportsKept`, `CardIsSound` and `NoHang` for every number of buffers, size of ring,
grade and number in flight that leave the buffers the code relies on
(`CacheAssumption`: `NBuf >= Grade + InFlight + NErr + MaxNoRoom`; the code has 2000
buffers, a grade of 6, at most 40 entries for frames in flight and a history of half a
minute). They are three readings of one invariant, `CacheInv` with `CWarned`:

* `CCounted`: how many reports are where. An operation that began with enough to write
  or enough buffers to fill still has them, because what it has done and what it has
  left add up; this is what keeps it out of the endless loops.
* `CPhased`: what the lists are like within an operation, e.g. that a load finds no
  real-time report and has put as many delayed ones there as it has read.
* `CMarked`: when the indexes in `cache_info` are those in memory, and when one of them
  is still to be written.
* `CSound`: a report is in memory, between the indexes on the card, or acknowledged,
  and in one of them only; and the same with the indexes of `cache_info`, which are the
  ones in force after a power cut. While reports are loaded they are in memory and, by
  `cache_info`, still on the card: that is harmless only because none of them is sent
  before `cache_info` is written, which is a conjunct of its own. All of this is said
  while the card is not `behind`; a power cut that loses writes gives it up (`SoundCut`,
  `SoundBehind`).
* `CWarned`: what a warning has still to take and has taken are at most `NErr`, and no
  report is being recorded meanwhile. It is kept apart because one lemma
  (`WarnedSame`) covers every step that leaves the warning's list alone.

`NotSentTwice` is not inductive without the last: a power cut brings back the indexes of
`cache_info`, so it must hold of those all the time. The lists are treated as sets with a
length (`Mem`, `Used`): every operation adds a report to memory (`Adds`), takes one out
(`Drops`) or rearranges (`Same`), and lemmas such as `SoundSame` carry `CSound` over each of these
once. `Between(i)` is the set of slots the ring holds between two indexes; storing
behind the write index and moving past the oldest are lemmas about that set.

**The launcher.** `LauncherSurvivesOneFault` states `OneFaultSurvived` for every
delivered image, all upgrades and all bounds, `MaxKinds` included. It assumes
(`LauncherAssumption`) that the delivered image has an application and that this one
comes up, since there is nothing to go back to from it, and that no version is called
like one of the two words of the model for a missing file and one copied in part.

`LauncherInv` says nothing once there have been two kinds of fault (`One`). Before
that, `Kept` is a disjunction: either `/usrapp` was erased and DATA has not been copied
back yet (`Erased`), or `Placed` holds: the current image is meant, or the upgrade is
marked good, is still complete and makes it one that is meant. The latter is what makes a second attempt
sound: putting an upgrade in place twice, or over an image that has some of its files
already, gives the same image (`OverIs`, `OverlapIs`), and an upgrade that is in place
still is when some of its files are gone (`RemovedFits`), so that its removal may be
cut. `Behind` says when there is an image to go back to: it is needed after a hang or a
mark of the current image that could not be written, and only then (`MayGoBack`); in
every other case the argument is that the launcher does not get there. Each of the
fourteen calls of `Calls` is one case of `SucceedsStep` (what it does, by `UpgradeKept`,
`StartKept` and `BackKept`), of `FailsStep` (when its failure is the only kind of fault,
`FailureKept`) and of `LauncherCutStep` (every directory it may leave can be restarted
from, `CutKept` and `RestartKept`).

### 6.4 `Pm_proofs`

`RingAlwaysKeepsAwake`, `ToldIsAlwaysState`, `LockAlwaysFollows` and `PmTyped` state
`RingKeepsAwake`, `ToldIsState`, `LockFollowsState` and `PmTypeOK` for every limit
and every length of the event queue. Their conjunction `PmInv` is inductive, none of
them alone: that a ring ends sleep needs to know that a sleeping terminal is not
ringing; that the modules were told the state needs the states in which the table
calls a handler. There is one lemma per handler.

### 6.5 `NmDial_proofs`

`OneCallAlways` and `NmTyped` state `OneCallAtATime` and `NmTypeOK` for every bound
on waits, messages and faults. A call may be started from six places. It is safe
where no other network is being dialled, for one of three reasons: the answer was
that of `cur_type`; the recall found `cur_type` not being dialled; or the library is
not initialised and nothing was dialled at all. The last needs to know that INITED
comes once and finds `init` at INITING: `InitOnce`, the part of `NmInv` that speaks
of the queue. The lemmas go from the fields (`WaitGood`, `HandleGood`,
`DialledGood`, `StopGood`) over `CallGood` and `DialNextGood` to one lemma per
message and one per step of the environment.

`DialAlwaysSound` states `DialSound`. `SoundInv` adds to `NmInv` what the modules were
told, relative to the networks whose end is in the queue (`Told(nm, Ended)`), and that a
network that is down has its recall (`RecallArmed`). The helpers are followed once more
for these two (`SameTold`, `StopTold`, ...); a message that is taken must itself restore
what it stood for in the queue.

### 6.6 `GbProt_proofs`

The client is composed of `Sock`, `GbData` and the protocol thread. `CoreInv` consists
of the invariants of the two parts and of what links them: what `gb_main` knows of the
session at each handler (`Session`), that it holds a pack only between taking and
sending it (`PoolUse`), that on a connection there are as many sync entries with a
callback as reports sent (`Callbacks`), and that the trans list is the list of these
reports (`TransIsSent`). `CoreInvInductive` shows it inductive. From it every step is a
step of the socket's specification and of the pool's, or none of theirs: `ProtUsesSock`
and `ProtUsesPool` state `UsesSock` and `UsesPool`. `PartsSoundInUse` then carries the
theorems of 6.1 and 6.2 over to the composition, and `AcksAlwaysMatch`
(`ReportAcksMatch`) is `TransIsSent` read at the callback.

`ProtInv` adds the server of a connection (`Server`), the permission to sleep (`Sleep`:
it is given only at the top of the loop, and a log-out that is awaited began on a quiet
bus), the serial numbers (`Numbers`: between a log-in and the end of its handling the
number is still that of the log-in; afterwards the log-out's number is, also across the
wrap) and the types. It gives `SessionAlwaysSound`, `SleepAlwaysSafe` and
`LogoutSeqAlwaysMatches` for `SessionSound`, `SleepIsSafe` and `LogoutSeqMatches`, for
every inbox, sequence limit, pool and buffer.

### 6.7 `Links_proofs`

* `ScomAlwaysArmed` (`ScomArmed`). That a closed device is retried is not inductive: the
  wake-up takes the permission to sleep back and opens nothing if there is a
  descriptor. `ScomInv` adds that a descriptor of a ready connection is that of an open
  device. The queue is used through three lemmas: a message taken disarms only itself,
  one appended disarms none, a timer that fires becomes a message.
* `FtSessionAlwaysSound` (`FtSessionSound`). `FtRound` says what the thread has found out
  at its place in the round: behind `checksock` the link is up, at the tail there is a
  session.
* `AlwaysOneUpgrade` and `AlwaysAllOrNothing` (`OneUpgrade`, `AllOrNothing`), for any
  packages, also with an ECU named twice. `DownloadInv` and `UpgradeInv` say who may be
  where while each of the four threads holds the lock; the delicate moments are the
  creation of the download's thread (the client is not yet busy) and the report of the
  terminal's own upgrade, which finds the request still in UPGRADE. `FlashInv` follows
  the flash through `fota_excute` and `fota_rollback`: ECUs outside the rollback set
  hold what they held, those in it held the source version, and the ones behind the
  loop's index hold the new version, or the old one again in a rollback.

### 6.8 `Tcom_proofs`

`RingAlwaysMatches` and `TcomImplementsQueue` state `RingMatchesPipe` and `IsMsgQueue`
for every size of ring and pipe, all modules and all headers; `MessagesStayIntact` reads
off the abstract queue that every message in a queue, in the router's hand or at its
receiver is one that was sent, with its own body.

*The sum of the lengths.* The mapping finds a body by `SumLen`, a recursive function.
Induction is used as a statement about sets (`SetInduction`: a set of naturals with 0 and
the successors of its members is `Nat`, from the well-foundedness of `<`; `SeqInduction`:
the same for sequences and tails). A recursive definition means something only if a
function satisfies it: `SumsExist`, `SumsUnique` and `TotalRec` build it from the sums
of the suffixes, and `SumLenRec` is the recursion. `SumLenAppend`, `OffTail` and
`OffBound` say where a body starts and that it ends within the sum.

*The ring.* Positions are counted from the head. `Push`: the bytes before keep their
places and the body follows them, because a body no longer than the idle size does not
reach round to the head. `TakeBack`: the rollback restores the tail, and what it leaves
behind lies outside the used part. `Pull`: the head moves over the body. `ModCases`
reduces the arithmetic modulo `BufSize` to linear cases.

*The threads.* `TcomInv` says that every queue's ring has as many bytes as its headers
ask for, and that the message in the router's hand has the length its header says.
Hence `tcom_recv_msg` never finds too few bytes and never resets a ring (`PullQueue`), a
message pushed is appended (`PushQueue`), one taken back leaves no trace
(`TakeBackQueue`), and each step is a step of `MsgQueue` or a stutter (`TcomStep`).

### 6.9 What is only model-checked

All liveness properties and the fairness they need, which are out of the prover's
reach. The decoders (`FramesSound` of `MsgParse`, `CleanFramesHandled` of `GbFrame`):
their checksum is a fold of a bitwise operator, which the prover does not take, and what
they say is an induction over the bytes of the stream with the decoder's step as the
operator of the fold, which it cannot instantiate.

## 7. Observations

### 7.1 Disagreements that have a run

* `sock_open` compares `pthread_create` with `< 0` (`sock.c:795`), although errors
  are positive: the branch that closes the socket is dead, and a socket whose
  thread could not be started stays in progress for ever (`sock_spawn`).
* `gb_do_report` takes a pack before it asks for room and returns without putting
  it back (`gb32960_prot.c:744`). On a link whose buffer is full, packs leak until
  the recorder reaches the branch commented "it should not be happened", a
  `while (1)` with the lock held (`slow_link`). `ft_do_report` does the same.
* On a new device `cfg_restore_para` saves the defaults under this version before
  `cfg_upgrade_new_para` sets the new parameters in memory: after the next boot they
  are zero (`cfg_newpara`).
* The wake-up timeout of the Foton client tests a local variable that it has just
  set to zero, which is FTP_FINISH, so it does not wait for an update (`foton_sleep`).

### 7.2 Others, that limit what the properties say

*gb32960 and sock.* The pool is cleared by a first log-in (`gb32960_prot.c:900`) or a
DBC reload (`gb32960_data.c:1429`) without regard to packs on `tmplst`, held by
`gb_do_report`, or due to be acknowledged (`torn`, `cleared`). `gb_reset` does not
cancel a connection in progress (`sock.c:819`): after a change of address the socket
opens to the old server (`moved`). If the bus wakes while a log-out is unanswered,
the end of the log-out allows sleeping with the bus active (`woke`). After the bus
went quiet, a link lost with reports only on the trans list is not opened again
(`gb32960_prot.c:569`). Frames: one with empty data never completes in
`gb_makeup_pack`; a checksum `'#'` before the next `'##'` loses the frame; a `'#'` at
the end of a piece depends on stale bytes of the stack.

*tcom.* `TCOM_INVALID_PARAMETER` is 0, so a refused message returns success
(`tcom_api.h:27`). `tcom_proc_msg` drops a message when its receiver's queue is full.

*rds, cfg.* `file_rename` does not tell that it failed (`file.c:175`), and
`rds_update_once` goes on (`rds.c:301`): when the master is torn, by damage or by a
recovery cut off, the update then copies it over the backup, which was the last good copy
(`spoilt`). `cfg_set_default` does not hold the store's lock until it kills the
application (`cfg_para.c:727-751`): a parameter set in these two seconds saves all the
others again, and the reset is without effect. Failed deletions are ignored.
`cfg_set_by_id` ignores the result of `cfg_save_para`; `rds_read` fills
the caller's buffer before it compares the digest; `ver` is not initialised in
`cfg_restore_para`. A reset to default cut off between its two deletions brings back
the backup's value.

*pm.* Leaving MCK_EMERGENCY by POWER_OFF and then a ring leaves `APP_SLEEP` set in
NORMAL; the static counters of the ticks are not reset by other handlers;
`pm_notify_moudle` stops at the first module that cannot be told; an unreadable USB
level lets the terminal sleep although the MCU is awake (`pm_ctl.c:182`).

*scom.* The message of an open timer on a device that is open opens it again (a
descriptor leaks); a heartbeat restart opens SPI while the terminal is ready to
sleep; a stale close message closes SPI in a running terminal, until the heartbeat.
The first connect request is sent before there is a function to send it with. With
MCK_SLEEP entered by quiet ticks while the mode is RUNNING the link is never ready to
sleep. `msg_decode` compares with `sizeof(msg) - 16`, which is never exceeded, and
after a full buffer keeps its static position; the client slots of `assist.c` keep
the bytes of the previous client.

*foton.* `ft_reset` does not cancel a connection in progress either: the link opens after
the reset, and the client logs in on it. With the timer stopped and the link lost before the log-out, an unreachable
server keeps the terminal awake. A log-out answered after CANON allows sleep on an
active bus until the next timer. WAKEUP_TIMEOUT during an unanswered log-in sleeps
with an open socket. A second upgrade command ten seconds after the first starts a
second download to the same file. Cache: a failed write of `cache_info` can bring
acknowledged reports back after a restart, and since neither `cache_data` nor
`cache_info` is ever synced (`foton_data.c:288-424`) so can any power cut (both are
`behind`); `ft_data_flush_error` gives up the oldest reports for a warning's history
without writing them to the card, though that may have room (`foton_data.c:1453`; `gone`);
reports on the trans list
are not saved at PM_MSG_OFF; cached packs have no checksum; `ft_cache_save_all` saves
the indexes after unlocking; an open failure resets the indexes in memory only.

*nm.* `nm_notify_changed` stops at the first module whose callback fails
(`nm_dial.c:75`), as `pm_notify_moudle` does: the modules behind it in the table are not
told. `NmDial` takes every callback as successful. A lost message INITED leaves INITING with no timer. A network whose data call
can never be started keeps the other from being dialled when `cur_type` is the other.
A stale IS_CONN after an APN change is caught only by the query for the address; a
stale NO_NET makes a later IS_CONN ignored until the recall. `nm_set_dcom(1)` on a
device with a private network only deletes the default route.

*fota.* The bit rate is not restored when match or resolve fails
(`fota_core.c:632`). `recv_cb` reports FINISH at 100 % before the file is closed and
its digest compared, and the last event of `http_download` is ERROR and ignored, so
a wrong digest has no effect (`http.c:46-88`). Without memory FINISH is reported
without a file (`http.c:66`). `pthread_create(...) < 0` again (`http.c:175`): the
client stays busy and the request in DOWNLOAD (`http.gone`). `fota_silent` of a
refused request changes the mode of the download under way (`ap_data.c:711`). A
request pack that cannot be sent leaves the dialogue in DLD_REQUEST with nothing
awaited. `tbox_selfupgrade_flag` is never cleared, so a failed package with a part
for the terminal stays in UPGRADE until the restart (`fota_main.c:79`). After a
failed rollback a second try fails its match, rolls nothing back and reports success.
`fota_upd_cancel` has no caller.

*appl.* A cut in the overlay makes the next boot back up the half-overlaid CUR into
PRE and mark it good, so that a new image that then hangs is rolled back to half an
image: with `MaxKinds = 2` (a cut and a hang) TLC finds `OneFaultSurvived` without its
hypothesis violated. A cut after CUR is committed and before UPG is removed makes PRE
the new image. An image that exits at its start is forked for ever and never rolled
back; `startup_cnt` is not reset when the application comes up. A copy in DATA without
its cfg mark is overwritten from a bad CUR before it is used to restore one.
`dir_remove_path` may remove `status.conf` last. The results of writes of a mark are
ignored; a failed backup makes the launcher return, with no application until the
next restart.

### 7.3 Hazards without a property

* `sock.c:643`: `sock_delete` cancels the connect thread while it holds the lock the
  thread may be waiting for, and the thread may then open the deleted socket. A
  protocol deletes its socket only when its thread ends; the shell's socket test may
  meet this.
* `gb32960_prot.c:569`: the link that is not opened again, above; the code does not
  promise it.

## 8. Not modelled

* The content of reports (`gb_data_save_*`, `ft_data_save_*`), the parsing of DBC
  definitions and the layout of frames: text and bytes without a state of their own.
* Answers to queries, set-up and control commands of GB/T 32960 (empty handlers in
  this commit); parameters without effect on the session; the shell's commands.
* The socket table, listening sockets and servers.
* What happens after the pool is torn.
* tcom's timers (they are actions of the components that use them); a receive
  without a buffer (no caller).
* `rds_update_raw` (no caller); the content of the cfg directory's copy on the second
  area (its mark is in `Launcher`).
* In the launcher: shared memory that cannot be created, the dbc and usrdata
  directories, and pm's removal of UPG (`pm_state.c:585`).
* The ring and frames of the MCU upgrade server in `scom_tl.c`, and its client half
  (no caller).
* Routes, DNS, the default-route switch and the diagnosis of nm.
* In fota: the diagnostic requests within one programming, loading of package and
  images, test modes, percentages.
* hozon: the GB client is a renamed copy of foton's that nothing starts; what is
  modelled of foton would hold of it. The private protocol and the proxy are stubs.
* can, at, dev (its package checks, decompression, firmware, status and faults), uds,
  gps, dsu, fct, shell, assist's services, ftp: input parsing, hardware, tables of
  services and consoles. The command queue of `at` is the candidate with state of
  interest.
* zlib, minizip, httpclient's TLS and parser, mqtt-packet and the vendored
  tools: third-party code. Together with generated DBC tables and the copies of
  foton they are most of the repository's lines, so that the share of lines covered
  stays small although the application's own protocols and stores are.
