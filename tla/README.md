# io-edge-hub: TLA+ models, checks and proofs

The system is the firmware of an STM32F407 I/O gateway (`crates/firmware`) and
its host-testable protocol core (`crates/proto`). It serves a register map over
Modbus TCP, Modbus RTU, a web page, UDP commands, a serial shell and CAN; it
samples inputs into history files on a NOR flash, hands those out over HTTP and
FTP, keeps a configuration on the same flash, and accepts firmware images over
three channels.

Everything runs on the embassy executor: one core, cooperative tasks. A task is
interrupted by another one only where it awaits, and statics shared between
tasks are touched inside critical sections. In every module an action is
therefore what a task does between two awaits, and the interleaving is that of
the actions. Resets and losses of power may come between any two actions, and
inside a flash operation where the model splits it.

Contents: [inventory](#inventory), [modules](#modules-and-code),
[runs](#runs), [proofs](#proofs), [disagreements](#where-code-and-documentation-disagree),
[not modelled](#not-modelled), [open work](#open-work).

## Inventory

| part | state | operations | talks to | module |
|---|---|---|---|---|
| configuration store (`storage.rs`, `config_store.rs`) | two flash slots, `CFG` in RAM, the configuration registers | boot load, save, factory erase | control lane, register map | ConfigStore |
| control lane (`CTRL_QUEUE`) | queue of 4 | send (dropped when full), drain before `QUEUE` | every task that saves | ConfigStore, StorageRpc |
| storage task and RPC (`storage.rs`) | `QUEUE` of 8, `RPC_SEQ`, `FILE_DL`, `FTP_RES`, `FTP_XFER` | one command per queue entry; mounted and degraded loops | HTTP, FTP, sampling | StorageRpc |
| history files (`storage.rs`) | files, `OPEN_FILE`, retained name, `FS_BAD`, littlefs `mlist` | write, rotate, reopen, create, retire, remove, sync, close | sampling, FTP, download, reboot | HistoryFiles |
| firmware session (`fw.rs`) | `FW`, page buffer, staging slot and its trailer | start, write, finish, abort, set pending | UDP, WebSocket, CAN | FwUpgrade |
| upload channels (`fw_upg.rs`, `net.rs`, `httpd.rs`, `fw_can.rs`) | rest of a DATA_V2, `fw_crc`, key chunks | START, DATA, DATA_V2, END; fw_start, frames, fw_end; CAN key, start, data, confirm | firmware session | FwUpgrade |
| register map (`regmap.rs`) | holding registers, DO pins, epoch | write register, write DO bit, raw store, hooks | all writers | RegMap |
| Modbus PDU server (`mb_server.rs`) | diagnostic counters | FC 01-06, 08, 15, 16 | TCP, RTU | RegMap |
| Modbus TCP (`mbtcp.rs`, `mbtcp_adu.rs`) | per connection: read chunk, partial frame, deadline | accept, read, parse, reply, time out | PDU server | Modbus |
| Modbus RTU (`rtu.rs`, `rtu_frame.rs`) | frame being received | burst, t3.5 | PDU server | Modbus |
| web, shell and UDP writers (`httpd.rs`, `shell.rs`, `udp_cfg.rs`) | - | register, form, DO bit, SET_MODBUS, SET_IP, SET_TIME | register map | Modbus |
| reboot and heartbeat (`main.rs`, `appstate.rs`, `reboot.rs`) | `DEADLINE_MS`, `REBOOT_AT`, tick counter, epoch | beat, request, poll, reset | UDP, HTTP, CAN, register map | Reboot |
| HTTP server (`httpd.rs`) | per task: connection, 640-byte buffer, response | accept, read, parse, dispatch, reply, close | all writers, storage task | WebServer |
| WebSocket session (`httpd.rs`, `ws.rs`) | `WS_ACTIVE`, parser, reply buffer | upgrade, feed a byte, queue a frame, end | HTTP server, firmware session | WsParser, WebServer |
| FTP pool and rejector (`ftpd.rs`) | `FTP_BUSY`, three slots, the rejector's socket and timers | take, leave, listen again, turn away | FTP session | TcpPool |
| FTP session (`ftpd.rs`) | `Session`, data socket, upload in progress | each command, open data, chunk, close | storage task | FtpServer, StorageRpc |
| shell and console (`shell.rs`, `uart_raw.rs`, `log.rs`) | DMA ring, line, history ring, escape state, the terminal's row | each key, completion, log line | register map | Shell, LineEditor, Modbus |
| calendar (`time_math.rs`, `systime.rs`) | epoch, RTC | conversions, boot | register map | TimeMath |
| two-step factory reset (`udp_cfg.rs`, `net.rs`) | `factory_pending_ms`, pending flags | FACTORY_RESET, REBOOT, reply then reset | reboot, configuration store | Reboot |

What is hard about this code, and where a model checker helps: one generation
counter wakes all RPC callers; result registers are shared by callers; queues
drop silently; three channels write into one upload session that none of them
owns; a save is four flash operations, each of which can fail with or without
having taken effect; littlefs keeps intrusive lists through cells that the
callers reuse; clocks are cut to 32 bits; a TCP stream is cut into reads
anywhere, between two pipelined requests, inside a masked frame, between the
`\r` and the `\n` of an upload; slots of small pools must come back on every way
out; what one FTP command leaves is used by a later one; what a terminal shows
is kept by echoes and not by the line. `PROJECT.json` lists these hazards line
by line.

## Modules and code

Every definition that models code is listed with its lines in the `map` of
`PROJECT.json`. Definitions whose comment calls them a mutant are deliberately
wrong variants of the definition after them, used to confirm that a property
depends on it; no specification uses them.

### ConfigStore, ConfigRegister

A slot is a record with three parts (header with generation, body, CRC), each
either written or `Junk`. `BootSlot`, `BootGen` and `BootCfg` are
`boot_config_load`: the loadable record with the higher generation, slot A on a
tie, the defaults when there is none. `StartSave` takes a `CfgSave` from the
control lane and reads the registers *then*; `SaveErase`, `SaveHdr`,
`SaveBody`, `SaveCrc` are the flash operations of the save, and only the last
one updates `CFG`. `SaveFails` lets any of them fail, having taken effect or
not. `WipeA`, `WipeB`, `WipeFails` are the factory erase; `Reboot` may come at
any point. A CRC is the data it was computed over, so it detects every tear;
this is the usual idealisation of a checksum.

`ConfigRegister` is what the store promises: a register with one durable value
that a save replaces in one step. The refinement maps `durable` to
`BootCfg(flash)`: what a reset at this instant would load. Two honest
complications are visible in the abstract specification because the code has
them: a save whose CRC write reports an error may still have landed
(`UnreportedSave`, `UndoUnreported`), and a factory erase is two erases
(`PartialErase`).

History variables: `committed` (last successful save), `unsure` (saves that
failed or are under way since), `saved`, `wiping`, and `want` (what a client was
last told is saved).

### StorageRpc

Callers send a command, remember `RPC_SEQ`, and poll until it has moved on or
2.5 s are over. A caller only ever compares the counter with its own snapshot,
so the counter is the set `fresh` of callers that are behind it. The storage
task never awaits between two commands while a queue holds one; `running` says
it is in the middle of such a drain, and no caller acts then. HTTP callers do
FileOpen / FileChunk; FTP sessions do RETR (with REST), STOR, APPE and the path
commands. Errors of open, read, write and close, timeouts, broken connections,
the other tasks' traffic (`Noise`) and the degraded loop (no file system) are
actions. The registers have no owner in the code and none here: `dl` is one for
all HTTP tasks, `ftpRes` one for all FTP sessions. The history variable
`spoiled` has the callers that another one disturbed: it used `FILE_DL` during
their download, or overwrote `FTP_RES` before they read the answer to an open or
a close; and those whose command a full queue dropped. `Casts` bounds a run: it
says which callers are at work in one behaviour and what they may do.

### HistoryFiles

`WriteFast` and `WriteSlow` are `hist_write` with its whole body: the fast path
appends, the slow path closes, reopens or creates (`Reopen`, `Create`,
`NotCreated`), appends and removes the oldest files. Each record is followed by
`fate`: queued, buffered, kept, retired, lost and so on. A name is the time
modulo a year because `make_hist_name` writes no year. `linked` is the set of
allocation cells whose node is in littlefs' `mlist`; opening through a linked
cell puts it into `cyclic`, after which the storage task hangs. `Faults` selects
the kinds of errors considered, and `MaxFaults` how many; an error of the listing
or of a removal in `cleanup_old_files`, which the code ignores, and a loss of
power between the steps of a rotation are among them. `RequestReboot` is a
request that queues a Sync (the Modbus register, UDP, CAN, the shell's reboot,
the end of an upload). The web's POST /api/reboot and REBOOT register and the
factory resets of the web and the shell queue none, and are no more than the
`Reset` that follows.

A failed close unlinks the node. That is what the vendored `lfs_file_close_`
does (it calls `lfs_mlist_remove` whatever the sync returned), although the
comment at `FS_BAD` (`storage.rs:180`) and `docs/code-walkthrough.md:474` say
that the node stays. The fence itself is in the model as in the code.

### FwUpgrade

The session `FW` is a record; the slot maps cells to contents, where
programming a cell that is not erased yields `Garbled`. An image is a sequence
of cells tagged with the channel it comes from, so mixing channels shows in the
data. The channels' handlers are actions: the UDP task with its yields inside
DATA_V2 (`v2` holds what is still to be written), the WebSocket session with
its own CRC over what it forwarded, and the CAN task with its key chunks.
Datagrams may be lost, repeated and reordered: DATA and DATA_V2 choose their
offsets freely. A reset or a lost connection can come between any two actions.

### RegMap, Modbus

`RegMap` holds operators only: the state of the device is a record and each
write path is a function on it, with the real addresses and limits. Function
codes are processed with the checks in the order of the code, so that partial
effects before an exception are there. Loops over registers and coils are
folds over the indices that they reach (`Reach`). `Modbus` adds the tasks: the framing loop of
`serve` over a stream whose bytes are cells `<<k, i>>` (cell i of the client's
k-th request), the RTU task, and the other writers. `ReadSome` returns any
prefix of what has arrived.

### Reboot

Time is counted in units, and an expired timer is served up to `Late` units
late. `DEADLINE_MS` holds a millisecond count in a 32-bit word while `now_ms`
wraps earlier (the microsecond count is cut to 32 bits and *then* divided), so
`Wrap` and `Word` are two constants. `RebootInTime` and `FactoryTwoStep` say what
holds at every uptime, wraps included; `RebootAlwaysInTime` and
`FactoryAlwaysTwoStep` are what one would expect, and fail. The heartbeat action does everything a beat
does: second tick, granted deadline, due check.

### WsParser, WebServer

`WsParser` holds operators only: `Feed` is the parser of `ws.rs` for one byte,
on real bytes with real masks and lengths (of a 64-bit length the low 32 bits,
as `v as usize` keeps them), and `QueueFrame` the reply buffer
that drops what does not fit piece by piece. `WebServer` has the tasks. A
request is a few units (line, header fields, blank line, body), and `Read`
takes any number of them that the buffer allows. `Found` is the parse loop up
to its first await: more bytes, a reply, a refused or an accepted upgrade. The
flag `WS_ACTIVE` is claimed in that step, and the states in `Holding` are those
up to its release. In a session, `FeedStep` is the callback, `Session` a chunk
with the replies collected behind it. A client may close (`fin`) or vanish
(`lost`) at any moment. What a handler does to registers, files and the reboot
is an action of Modbus, StorageRpc, HistoryFiles and Reboot; here it is a
response. History variables: `sent`, `fsent`, `answered`, `exact`, `overrun`,
`handed`, `want`.

### TcpPool, FtpServer

`TcpPool` is the pool of serving tasks with the rejector, whose timers count
ticks. `FtpServer` extends it by what a session does. `Handle` takes one line:
commands without storage change the session at once (`After`, `DataAfter`);
those with storage go through `Answer`, where the answer is a free choice
because StorageRpc models how it comes about; transfers continue with
`OpenData` and `Sent`, or with `Chunk`, `StreamEnds` and `CloseFile`. A session
ends behind QUIT or when its client has closed and all lines are handled. An upload
is a sequence over `x`, `\r`, `\n` that is cut into reads of at most `BUF`.
`Stripped` is the loop that leaves out the `\r` of each `\r\n`, and `AsciiIn` the
conversion of one read with the byte that is held; an ASCII upload means
`Stripped` of the whole. EPSV and EPRT stand for PASV and PORT, MKD and RMD
for DELE. History variables: `sinceFull`, `told`, `offered` and the fields
`latest` and `uses` of a data connection.

### LineEditor, Shell

`LineEditor` says what the console promises: text before and behind a cursor, a
list of past lines, completion, and keys handled in the order of typing. `Shell`
has what the code has: a byte ring written by the DMA, NUL-terminated arrays of
`LINE_MAX`, a ring of past lines, the automaton for escape sequences, and the
row of the terminal that the echoes, redraws and log lines of other tasks
produce. The refinement mapping reads the arrays back as text. A key's bytes
arrive together and are consumed one by one, with other steps in between.

### TimeMath

The conversions of `time_math.rs` as operators, and `BootEpoch`, what
`systime::init` makes of the RTC. A day-by-day Gregorian calendar (`DayAfter`)
is the reference. Timestamps exceed TLC's integers, so that this module has
proofs (in ClockProofs) and no run.

## Runs

All runs use the module's own definitions; a configuration only gives
constants their values. `pass` runs finish with the whole bounded state space
explored; the `violation` runs show a disagreement (next section but one).

| run | question | bounds, and why they are enough |
|---|---|---|
| `config_store` | what does a reset load, are acknowledged saves stored, is the store a register? | three configurations (defaults and two others are needed for a stale body to be told from a fresh one), lane of 2 so that it overflows, 4 requests: both slots are used twice, so a target is an old record, and a third save follows a failed one |
| `storage_rpc` | is a wake-up real, are 226 and 200 honest, is every RPC answered, does every download end? | two HTTP tasks and two FTP sessions, of which one of three casts is at work: two downloads beside other tasks; a download beside RETR and STOR; RETR and STOR beside whatever writes `FTP_RES` in another session. A file of two chunks (first, last), REST at the start and past the end, one error, one foreign command; both loops; under `FairSpec`. `QUEUE` has its 8 places and does not fill |
| `history_files` | are synced records kept, does retention keep the greatest names, does a handled Sync make the reset harmless, is a cell relinked? | two records per file and three records, so a rotation happens; one file kept, so retention happens; a year of three, so names wrap; any two errors or losses of power |
| `fw_upgrade` | is flash programmed only when erased, is a confirmed image what was verified, are channels kept apart? | images of 2 and 3 cells over pages of 2 (a partial last page), UDP together with CAN or with the WebSocket, one flash error |
| `modbus` | do outputs follow the register, is the stream served exactly, do writes touch what they address? | one connection cut anywhere, 2 pipelined requests, 3 operations in all; the requests cover each function code at its limits. Connections share only `dev`, whose every step is atomic, so that a second one adds nothing the RTU and web writers do not |
| `web_server` | are requests and frames handled whole, once and in order however the stream is cut, is there one session, do task and slot come back? | two tasks, a buffer of 9 units (two requests fit and a third overruns it), 3 requests and frames in all, 2 connections, masked frames with the short and the 16-bit length and an empty close; `MCWebLong.cfg` adds the 64-bit length for one task and is not among the listed runs; deadlock is not checked because the bounds end the behaviours |
| `ftp_server` | are slots counted and given back, does the rejector keep its window, are data connections, REST and RNFR used once, is an upload stored as sent? | two slots: the client of one uses login, TYPE, PASV, PORT, REST, RETR, STOR, RNFR and RNTO, the other only comes and goes, which is all that the pool sees of it; reads of up to 2 bytes, timers of one tick. LIST, APPE, SIZE, DELE and refused arguments are in the module and in the proofs of `DataOnce` and `OneShot`, but not in this instance |
| `shell` | do ring, arrays and automaton implement the editor, does the terminal show the line? | a line of 6, a history of 3, a ring of 5 that wraps, 5 groups of keys, a tree with two candidates and a subcommand |
| `ascii_upload`, `shell_full_line`, `history_new_year` | see [disagreements](#where-code-and-documentation-disagree) | as `ftp_server` and `shell`; for the last one a clock that only goes forward across New Year, and no errors |
| `reboot` | does a promised reboot come, not early, and does the clock keep pace? | every delay at its ratio to the beat, up to three requests on all channels, an uptime of two periods of `now_ms` and a bit, so that each promise is made before, across and behind a wrap; deadlock is not checked because the uptime bound ends the behaviours |

What the properties say, by run (the comments in the modules say it in full):

* `config_store`: `DurableConfig` - a reset at any instant loads a committed or
  in-flight configuration; `DrainedMeansSaved` - although a full lane drops
  saves silently, none is lost, because the queued ones read the registers late;
  `AckedSaveCommitted` - and they are served; `RegisterSpec` - refinement.
* `storage_rpc`: `NoFalseWake` - with one counter for all callers, a released
  caller's own command was handled (or dropped by a full queue); `RetrHonest`,
  `UploadHonest` and `DownloadExact` - a 226 or a completed 200 means that the
  whole file went through, with errors, timeouts, left-over commands and other
  callers at work, unless the caller is `spoiled`; `RpcAnswered`; `DownloadEnds`.
* `history_files`: `NoRelink` - no transfer is opened through a linked cell,
  and the history file only behind an error; `SyncedKept`; `RetentionNewest` -
  retention leaves `HIST_MAX_FILES` files and one more per error, and removes
  none unless that many greater names stay; `FlushSurvivesReset` - once the Sync
  of a request was handled, the reset loses no record sampled before the request.
* `fw_upgrade`: `ProgramsErasedOnly`, `PendingIntact`, `AcceptedExact`,
  `V2InOrder`.
* `modbus`: `OutputsFollow`, `ServedInOrder`, `DeadlineForHalf`, `WritesExact`,
  `CommandsHeard`.
* `reboot`: `RebootInTime` - within its bound behind the latest promise, unless
  `now_ms` wraps in that time; `NoEarlyReset`; `FactoryTwoStep` - an erase comes
  within the window behind a first command or power-up, or a whole number of
  wraps later; `EpochKeepsPace`.
* `web_server`: `OneSession`; `ServedInOrder` - each request once, with its own
  body, and nothing left behind; `FramesExact` - the frames meant, across the
  end of the upgrade request; `RepliesOnce`; `TaskComesBack`.
* `ftp_server`: `BusyExact`, `RejectWindow`, `DataOnce`, `OneShot`,
  `UploadExact`, `SlotFreed`.
* `shell`: `EditorSpec` - refinement of `LineEditor`; `ScreenExact`.

### Fairness

`ConfigStore!FairSpec` assumes weak fairness of the storage task: it is woken by
its queue and the cooperative executor runs every woken task. It does not assume
that flash operations succeed. `StorageRpc!FairSpec` adds strong fairness of
each caller's steps: a caller polls with a timer, so it is enabled again and
again, and disabled only while the storage task drains the queues. The 2.5 s
timeout is no part of the fairness assumption: `RpcAnswered` shows that the
answer comes without relying on it. Clients (which files they ask for, when
their connections break) are not fair.

`WebServer!FairSpec` assumes that a task that has data or a finished write goes
on (`HasWork`; weak fairness of `Works`, written out), and weak fairness of
`Ends`. `Ends` contains what the code's time limits and socket timeouts bring
about: 5 s and 60 s in a read, and in a session the pushes of every second that
a lost client does not acknowledge for 75 s. It never forces a client to leave
or to send. `FtpServer!FairSpec` assumes weak fairness of each session and of
the timers. A client that closes is noticed by the read of the control
connection; the silent loss of an idle client is not modelled (see
below). All other runs check safety only.

## Proofs

TLAPS proves the following for every value of the constants that satisfies the
module's named assumption.

* **ConfigStoreProofs** (`ConfigAssumption`). `TypeCorrect`, `Durable`,
  `NothingTorn`, `RamAgrees`, `NoTie`, `NoSaveLost` and `Implements` (the
  refinement of `ConfigRegister`). Durability is not inductive: that boot picks
  the right record depends on what the *other* slot holds. `IInv` adds that
  every loadable record was saved (`RecordsSaved`), that the active slot holds
  the committed record (`ActiveRecord`), that a loadable peer has a lower
  generation or is one of the unsure saves (`PeerRecord`), and how far a save,
  an erase and an acknowledged request have come (`SaveProgress`,
  `WipeProgress`, `WantProgress`). The refinement rests on four lemmas on boot
  selection: rewriting an unloadable slot changes nothing, with the target blank
  the committed record boots, a complete new record outranks the old one, and
  blanking a slot leaves a saved configuration.
* **StorageRpcProofs** (`RpcAssumption`). `WakeIsReal`, for any callers,
  capacity and traffic. `NoFalseWake` speaks of the moments when the storage
  task is idle; `WakeInv` adds what holds while it drains: a pending caller's
  command is still in the queue, and a caller is released too early only while
  the drain goes on, which ends with the queue empty. `RetrIsHonest`,
  `DownloadIsExact` and `UploadIsHonest` are the properties of the run, without
  further hypotheses, for any number of HTTP tasks and FTP sessions and any queue
  capacity. They follow one transfer through its steps: `BaseInv` says which
  commands a caller can have in the queue and that a released one has none, and
  `RetrInv`, `GetInv` and `StorInv` say for each program counter of a caller that
  is not spoiled which command is under way and what the handle and the register
  of the storage task hold. The point of the argument is that while a caller's
  own command is queued nobody can spoil what it waits for: its handler rewrites
  the register. A RETR whose data connection broke or whose RPC timed out is
  excused by the property itself, as the code answers 226 then too (see below);
  that the excuses are needed is shown by `MCWebShared.cfg` and
  `MCFtpShared.cfg`.
* **FwUpgradeProofs** (`FwAssumption` and `ClearOfTrailer`).
  `ErasedBeforeProgrammed` and `ConfirmedStaysIntact`. The invariant says that a
  usable session has everything from `written` on erased, trailer included, and
  that an open session has no pending magic. `AcceptedIsImage` and
  `V2LeavesNoGap` add `DataInv`: the slot up to `written` and the page buffer
  together are the sequence of cells received; if one channel sent them all, they
  are in order, none is repeated and none is beyond that channel's position, and
  while only DATA_V2 writes they are a prefix of the image. `ClearOfTrailer` is a real hypothesis: the code
  accepts images that reach into the trailer (see below).
* **HistoryRecordsProofs** (`HistoryAssumption`). `SyncedRecordsKept` and
  `FlushedRecordsSurvive`, with all kinds of faults. `HistInv` follows every
  record: where its fate says it is (`Sound`), that the files, the cache of the
  open file and the queue hold records in the order of sampling (`Ordered`), how
  the open file and the one of its name on flash belong together (`FileInv`),
  that a Sync is queued behind every write it promises, and that none of those is
  left once it was handled (`SyncInv`).
* **HistoryFilesProofs** (`HistoryAssumption`; extends the module above).
  `NeverRelinked` with all kinds of faults: `LinkInv` ties each linked cell to
  the handle that owns it, so that whatever the code closes before it opens is
  enough for the transfers. `NewestStay` is `RetentionNewest`, however the clock
  is set. Its hypothesis in `HistoryAssumption` is that the list of names that
  `cleanup_old_files` collects has room for more than `HIST_MAX_FILES`. The count is
  `CountInv`, one file more per error: a rotation without an error removes at
  least the excess it makes. That as many names are low
  as the cleanup loop removes is an induction over their number, done with the
  least counterexample (`LeastNat`).
* **WebServerProofs** (`WebAssumption`). `SingleSession`: `OneSession` for any
  tasks, requests, frames and buffer sizes. With the types it is inductive; the
  argument is the lemma that the parse loop claims the flag only when it is
  clear, and that every way out of a holding state passes through the release.
  `ServesInOrder`: `ServedInOrder` for any way in which the stream is cut into
  reads, under `NoGetBody` (no GET has a body: the code leaves it in the buffer,
  see below). `ServedInOrder` says nothing of half a request; `OrderInv` says of every task
  that the units it has not consumed, in its buffer and then on the wire, are
  whole requests in the order sent, beginning with the one that is due, with
  frames only behind the last one (`Goes`). A read moves units from one part to
  the other, the parse loop takes exactly the request at the front
  (`FoundUses`), and clients append behind a complete end.
* **FtpServerProofs** (`PoolAssumption`, `FtpAssumption`). `BusyCounts` and
  `RejectsInWindow` for any number of slots and lengths of the timers: the
  invariant adds that the ticks since the pool was full and the ticks that the
  rejector still listens never exceed the window together. `DataUsedOnce` and
  `OffersUsedOnce` for all command lines: what is armed or pending in a session
  is what its client offered last (`OfferInv`), for the session, its data socket
  and its phase together. `UploadStored` for all contents, buffer sizes and ways
  to cut an upload into reads: an upload that is answered with 226 is in the file
  as it was meant, unless a read of an ASCII upload ended with `\r` (see below).
  `UpInv` says of an upload on its way that the client's bytes are those read and
  those to come, and that what is stored is what those read mean (`SoFar`).
  `StrippedCut` carries it: a stream cut behind any other byte than `\r` is
  converted part by part. Its proof goes by the least index at which two
  functions differ (`LeastNat`).
* **ClockProofs**. Of TimeMath, without assumptions: `DaysRoundTrip` and
  `UnixRoundTrip`, the way from a number to a date and back gives the number
  again, for every day since 1970 and every 32-bit timestamp (not the way from a
  date). `FollowsCalendar`: `civil_from_days` starts at 1970-01-01 and goes from
  each date to the day after it. `SetTimeSurvivesReset`: a time that is set is
  the one boot restores, for every accepted timestamp but `TS_MAX`. Of Reboot
  (`TimingAssumption`), for every length of the delays and any number of
  requests, at every uptime: `EpochInPace` (the epoch, the tick counter and the
  next beat determine each other, `BeatsCounted`), `RestartsInTime`, `NeverEarly`
  and `ErasesInTwoSteps`. `RInv` says that a promise always has a carrier
  (`UnderWay`: the deadline, `REBOOT_AT`, or a task that waits), that each other
  carrier than the deadline is due within its share of the bound (`Timely`), and
  how a pending confirmation and the last command belong together
  (`Confirmation`). Of the deadline `DInv` says when it was set (`SetAt`): it is
  the reading of `now_ms` at some moment s with the delay added, where s is not
  before the first promise and early enough for the latest; from which it follows
  that it is not due early whatever `now_ms` did since, and due in time when
  `now_ms` did not wrap meanwhile. The assumption demands that Word is more than twice Wrap, as 2^32 is
  to 2^32 / 1000, that the window of the factory reset is shorter than Wrap, and
  that the CAN path waits at least as long as a cold reboot.

`NoTornConfig`, `CfgMatchesFlash`, `NoGenerationTie` and the types of
ConfigStore are proved and not among the properties of the runs.

Only model-checked:

* the liveness properties `AckedSaveCommitted`, `RpcAnswered`, `DownloadEnds`,
  `TaskComesBack` and `SlotFreed`: fairness is out of the prover's reach;
* `FramesExact` and `RepliesOnce` of WebServer and `OutputsFollow`,
  `WritesExact`, `CommandsHeard` of Modbus: they compare with a fold over bytes,
  registers or coils, whose theorems take an operator as a parameter, which the
  installed provers cannot instantiate;
* `ServedInOrder` of Modbus, which filters a sequence (`SelectSeq`, the same
  obstacle), and `DeadlineForHalf`, which is left (see open work);
* `EditorSpec` and `ScreenExact`, whose mapping reads arrays back as text.

## Where code and documentation disagree

Three runs end in a counterexample; `PROJECT.json` quotes both sides.

* `ascii_upload`: when a read of an ASCII upload ends with the `\r` of a line
  end, that byte is held and the `\n` that follows is skipped, and the held byte
  is never written: the line end is lost. `UploadExact` excludes such cuts.
* `shell_full_line`: the blank behind a completed word is written without a
  bound. A Tab on a line of `LINE_MAX - 2` characters brings it to
  `LINE_MAX - 1`, and the next Tab with a single candidate (`io do` has one)
  indexes `line[LINE_MAX]` and panics. The run `shell`
  reaches this too: the panic stops the shell, and its properties, which are
  safety properties, speak of what happens up to it.
* `history_new_year`: names carry no year, so behind New Year the file just
  created has the smallest name and retention removes it, against "name order =
  time order" (`storage.rs:668`). `RetentionNewest` is what retention does keep.

Seven more instances are kept beside the runs as configurations; each ends in a
counterexample too.

| configuration, module | property | what happens |
|---|---|---|
| `MCWebShared.cfg`, MCStorageRpc | `DownloadAlwaysExact` | the two HTTP tasks share one download handle: the second FileOpen replaces it, and the first response continues with chunks of the other file |
| `MCWebLoop.cfg`, MCStorageRpc | `DownloadAlwaysEnds` | when the second FileOpen finds no file, the chunks that the first task asks for are answered by nothing, and it asks for ever |
| `MCFtpShared.cfg`, MCStorageRpc | `UploadAlwaysHonest` | `FTP_RES` is one register for all sessions, against "transfers are serialized: one FTP op in flight at a time" (`storage.rs:108`): when another session's command overwrites the result of a failed open before its session looks, STOR goes on without a handle, its parts are dropped, and it answers 226 |
| `MCRetrError.cfg`, MCStorageRpc | `ReadErrorReported` | a read error after the first chunk leaves the old length in place, and RETR sends the old chunk for ever instead of answering 426 |
| `MCHistRelink.cfg`, MCHistoryFiles | `NeverCyclic` | when the first write to a reopened history file fails, the file stays open while the next one is opened through the same cell |
| `MCFactoryWrap.cfg`, MCReboot | `FactoryAlwaysTwoStep` | the millisecond clock of `factory_reset` wraps every 71.6 minutes, and right after the wrap one FACTORY_RESET is enough |
| `MCRebootWrap.cfg`, MCReboot | `RebootAlwaysInTime` | a deadline that lies beyond the wrap is not due until much later, against "wraps safely via wrapping_sub" (`reboot.rs:9`) |

Noted while reading, without a run:

* `storage.rs:6` says of the control lane that commands are never dropped; a
  full `CTRL_QUEUE` drops them. `DrainedMeansSaved` shows that for saves this is
  harmless.
* `storage.rs:729` says of the loop that runs when littlefs cannot be mounted
  that "config ops still work"; that loop reads `QUEUE` only, while saves and
  erases are sent to `CTRL_QUEUE`. RPC callers rely on their timeout there.
  ConfigStore models the mounted loop; StorageRpc has both.
* `fw.rs:85` admits images up to the slot size, while `fw.rs:293` writes the
  trailer into its last bytes; hence `ClearOfTrailer`.
* `storage.rs:180` and `docs/code-walkthrough.md:474` say that a failed close
  leaves the file in littlefs' list; the vendored `lfs.c` removes it (see
  HistoryFiles). What does leave a node there is the first write to a reopened
  file that fails (`MCHistRelink.cfg`).
* A reboot over the web, and the factory resets of the web and the shell, queue
  no Sync: the records in the cache of the open file are lost.
* The half-frame deadline of Modbus TCP (`mbtcp.rs:96`) is looked at only when
  more bytes arrive, so a silent peer keeps its connection until the socket's
  own timeout.
* `/api/cfg` applies the fields before an invalid one, and accepts baud rates
  above 65535 that `web_cmd_reg` then ignores while the reply says ok. The
  shell's `io rs485 baud` stores the low word of such a rate.
* Of a WebSocket frame's 64-bit length the parser keeps the low 32 bits, so that a
  length of 2^32 or more is taken for a short one. No instance has such a length.
* A WebSocket frame without payload is never completed (`ws.rs:311`), so that an
  empty close or ping is not answered as `httpd.rs:787` has it. Frames behind a
  close in the same read are still handled.
* The reply buffer of a session takes header and payload one by one
  (`httpd.rs:725`); when it is full, a header can go without its payload.
* A read into the last byte of the request buffer loses that byte
  (`httpd.rs:80`), and a request whose header and body exceed the buffer is never
  served. The body of a GET is not consumed.
* A download answers `Connection: close` (`httpd.rs:454`) and keeps the
  connection.
* An upload that ends with no data or a wrong size leaves `fw_crc` as it was
  (`httpd.rs:993-1001`).
* The FTP rejector leaves the client that got the 421 connected until the pool
  is full again, against "connect -> 421 -> close" (`ftpd.rs:63`).
* STOR takes a reset data connection for the end of the file and answers 226
  (`ftpd.rs:768`); RETR answers 226 after a timeout of the storage task or a
  failed write (`ftpd.rs:673`, `701`).
* A failed RNFR leaves an earlier rename pending, USER leaves the login in place
  until PASS, and lines behind QUIT in the same read are still handled.
* Up on an empty history enters it, so that a later Down replaces the text typed
  since by the saved one (`shell.rs:1115`); Enter on an empty line does not
  leave the history. `LineEditor` states both.
* `prev_cr` outlives an escape sequence (`shell.rs:1154`): behind CR and an arrow
  key, an Enter that arrives as a lone LF is swallowed. The keys of the run have
  no lone LF there.
* `TS_MAX` is accepted and is in a year that boot does not restore
  (`systime.rs:21`).
* GET_VERSION checks for room for 13 bytes (`udp_cfg.rs:200`) and writes 14.
* `docs/embassy.md` section 12 says that the shell polls every 10 ms; it is 2 ms
  (`shell.rs:35`).

## Not modelled

* Pure I/O: ADC and pin reading, SPI, the network drivers and `embassy-net`,
  LEDs, the watchdog feed, the stack probe.
* littlefs' on-flash format and MCUboot's swap: external code; only what the
  firmware relies on is in the models.
* Formatting and the parsing of text (JSON, page contents, shell arguments, FTP
  paths and listings, the WebSocket key): the handlers behind them are actions
  of the module whose state they change. The FTP working directory only shapes
  names and is left out with them.
* LIST's register `FTP_LS`, the number of a passive port, FTP lines longer than
  the buffer, and an accept that fails.
* Clients that vanish silently on an FTP or Modbus TCP connection: the code waits
  in `read`, and when that returns is up to the network library: a timeout is set
  (`ftpd.rs:46`, `mbtcp.rs:30`), a keep-alive is not.
* The Modbus TCP reject task and its busy count. It differs from FTP's: the client
  is aborted as soon as it is accepted, so TcpPool does not describe it.
* Modbus TCP requests whose length field contradicts their contents.

## Open work

* ConfigStore has the mounted loop only: acknowledged saves when littlefs cannot
  be mounted, and read errors of the slots at boot, are left.
* Modbus TCP's pool: a variant of TcpPool without the 421 and the wait behind it.
* A composition of Reboot and HistoryFiles: does every channel's delay leave
  the flush enough time?
* Proofs: `DeadlineForHalf` and the framing of `ServedInOrder` for Modbus, and the
  refinement of `LineEditor`.
* An abstract byte stream that the framing loops of Modbus and WebServer
  implement.
