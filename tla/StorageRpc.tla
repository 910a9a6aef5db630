------------------------------ MODULE StorageRpc ------------------------------
(***************************************************************************)
(* The RPCs by which the HTTP and FTP servers reach the files: a bounded   *)
(* command queue (QUEUE), one generation counter for all callers (RPC_SEQ) *)
(* and shared result registers (FILE_DL, FTP_RES, FTP_XFER) that the       *)
(* storage task fills and the callers read.                                *)
(*                                                                         *)
(* Files are sequences of chunks, a chunk of file f is <<f, i>>.  A caller *)
(* compares RPC_SEQ only with the snapshot it took when it sent, so the    *)
(* counter is represented by the set `fresh` of callers whose snapshot is  *)
(* behind it.  The storage task does not await between two commands while  *)
(* a queue holds one, so no caller runs until it has drained both queues:  *)
(* that is `running`.                                                      *)
(***************************************************************************)
EXTENDS Integers, Sequences

CONSTANTS
  Web,        \* HTTP server tasks (two in the code)
  Ftp,        \* FTP sessions, each owning one FTP_XFER slot (three)
  File,       \* file names
  Size,       \* file name -> its length in chunks
  Rests,      \* REST offsets a client may ask for
  QueueCap,   \* capacity of QUEUE (8)
  CtrlCap,    \* capacity of CTRL_QUEUE (4)
  Modes,      \* outcomes of mounting the file system that are considered
  MaxParts,   \* bound: data reads in one upload
  MaxNoise,   \* bound: commands of other tasks in a behaviour
  MaxFaults,  \* bound: file system errors and timeouts in a behaviour
  Casts       \* bound: who may do what in one behaviour (caller -> kinds of jobs)

Client == Web \union Ftp
NoFile == "no file"
Nobody == "nobody"

ASSUME RpcAssumption ==
  /\ Web \intersect Ftp = {} /\ Nobody \notin Client /\ NoFile \notin File
  /\ Size \in [File -> Nat] /\ Rests \subseteq Nat
  /\ QueueCap \in Nat \ {0} /\ CtrlCap \in Nat \ {0}
  /\ Modes \subseteq {"mounted", "degraded"}

VARIABLES
  mode,     \* the loop storage_task ended up in after mounting
  queue,    \* QUEUE
  ctrl,     \* number of commands in CTRL_QUEUE
  running,  \* the storage task has handled a command and has more to handle
  fresh,    \* callers c with RPC_SEQ > c's snapshot
  late,     \* callers that timed out since the storage task last ran
  served,   \* callers whose last command has been handled (history variable)
  dropped,  \* callers whose last command a full QUEUE dropped (history variable)
  spoiled,  \* callers whose job others have disturbed (history variable)
  dl,       \* FILE_DL with the handle of DOWNLOAD_FILE
  xfer,     \* FTP_XFER, with the handles of each slot
  ftpRes,   \* the first field of FTP_RES
  job,      \* what each caller is doing
  noise, faults   \* bounded counters

vars == <<mode, queue, ctrl, running, fresh, late, served, dropped, spoiled, dl, xfer, ftpRes, job,
          noise, faults>>

\* No handle, nothing read.  `base` is the REST offset and `written` counts the
\* parts in the file that was uploaded (both used by FTP slots only).
Closed == [h |-> NoFile, base |-> 0, open |-> FALSE, size |-> 0, sent |-> 0,
           chunk |-> <<>>, eof |-> FALSE, err |-> FALSE,
           wr |-> NoFile, werr |-> FALSE, written |-> 0]

\* n counts the chunks delivered (or parts received) in order and `good` says
\* that no other chunk was delivered; `bad` is the local xfer_err.
NoJob == [kind |-> "none", pc |-> "idle", file |-> NoFile, from |-> 0, size |-> 0,
          n |-> 0, good |-> TRUE, bad |-> FALSE, ans |-> "none"]

\* A job that failed, was given up, or promises nothing by its reply.
Over == [NoJob EXCEPT !.ans = "over"]

Waiting == {"open", "chunk", "ropen", "rchunk", "wopen", "wchunk", "close", "abort", "path"}
Op == {"Sync", "Write", "FileOpen", "FileChunk", "FtpOpenRead", "FtpReadChunk",
       "FtpOpenWrite", "FtpWriteChunk", "FtpCloseWrite", "FtpPathOp"}
Command == [op : Op, who : Client \union {Nobody}, file : File \union {NoFile}, arg : Nat]
Cmd(op, c, f, k) == [op |-> op, who |-> c, file |-> f, arg |-> k]

-----------------------------------------------------------------------------
(* The storage side: handle_cmd and the functions it calls.                *)

\* A file system operation may fail, MaxFaults times in a behaviour.
Outcome(ok) ==
  /\ ok \/ faults < MaxFaults
  /\ faults' = IF ok THEN faults ELSE faults + 1

\* file_open, ftp_open_read: the state after the old handle is closed and the
\* new one opened at offset k, or not: the file may be missing, or the file
\* system fenced.
Opened(f, k, ok) ==
  IF ok
  THEN [Closed EXCEPT !.h = f, !.open = TRUE, !.base = k,
                      !.size = IF k <= Size[f] THEN Size[f] - k ELSE 0]
  ELSE Closed

\* Mutant of NextChunk: a chunk that could not be read counts as read.
NextChunkSkips(r, ok) ==
  CASE ~r.open -> r
    [] r.open /\ r.sent >= r.size -> [r EXCEPT !.h = NoFile, !.eof = TRUE]
    [] OTHER -> [r EXCEPT !.chunk = IF ok THEN <<r.h, r.base + r.sent + 1>> ELSE @,
                          !.sent = @ + 1, !.eof = r.sent + 1 >= r.size]

\* file_chunk, ftp_read_chunk: a failed read ends the transfer with err and
\* leaves the previous chunk and its length in place.
NextChunk(r, ok) ==
  CASE ~r.open -> r
    [] r.open /\ r.sent >= r.size -> [r EXCEPT !.h = NoFile, !.eof = TRUE]
    [] r.open /\ r.sent < r.size /\ (r.h = NoFile \/ ~ok) ->
         [r EXCEPT !.h = NoFile, !.eof = TRUE, !.err = TRUE]
    [] OTHER -> [r EXCEPT !.chunk = <<r.h, r.base + r.sent + 1>>,
                          !.sent = @ + 1, !.eof = r.sent + 1 >= r.size]

\* RPC_SEQ.fetch_add(1): every caller that waits is now ahead of its snapshot.
Bump == fresh' = {c \in Client : job[c].pc \in Waiting}

\* The callers that count on a register which handling command m of another
\* caller overwrites: on FILE_DL once the download has been opened, and on FTP_RES
\* for the answer to the open or the close of an upload.
Answered(c) == \A i \in 1..Len(queue) : queue[i].who # c
Overwritten(m) ==
  LET counts(c) ==
        \/ m.op \in {"FileOpen", "FileChunk"}
           /\ (job[c].pc \in {"next", "chunk"} \/ (job[c].pc = "open" /\ Answered(c)))
        \/ m.op \in {"FtpOpenRead", "FtpOpenWrite", "FtpCloseWrite", "FtpPathOp"}
           /\ job[c].pc \in {"wopen", "close"} /\ Answered(c)
  IN  {c \in Client \ {m.who} : counts(c)}

\* Mutant of Receive: the storage task yields after every command.
ReceiveYields(op) ==
  /\ mode = "mounted" /\ ctrl = 0
  /\ queue # <<>> /\ Head(queue).op = op
  /\ queue' = Tail(queue) /\ running' = FALSE
  /\ served' = served \union {c \in Client : c = Head(queue).who /\ job[c].pc \in Waiting} /\ late' = {}
  /\ spoiled' = spoiled \union Overwritten(Head(queue))
  /\ UNCHANGED <<mode, ctrl, dropped, job, noise>>

\* The next command is one of QUEUE: the control lane is served first.
Receive(op) ==
  /\ mode = "mounted" /\ ctrl = 0
  /\ queue # <<>> /\ Head(queue).op = op
  /\ queue' = Tail(queue)
  /\ running' = (Tail(queue) # <<>>)
  /\ served' = served \union {c \in Client : c = Head(queue).who /\ job[c].pc \in Waiting} /\ late' = {}
  /\ spoiled' = spoiled \union Overwritten(Head(queue))
  /\ UNCHANGED <<mode, ctrl, dropped, job, noise>>

\* Sync and SnapReq count as answers, Write, CloseKeepName and Del do not.
DoOther ==
  /\ \/ Receive("Sync") /\ Bump
     \/ Receive("Write") /\ UNCHANGED fresh
  /\ UNCHANGED <<dl, xfer, ftpRes, faults>>

DoFileOpen ==
  /\ Receive("FileOpen") /\ Bump
  /\ \E ok \in BOOLEAN : dl' = Opened(Head(queue).file, 0, ok)
  /\ UNCHANGED <<xfer, ftpRes, faults>>

\* The handle is closed as soon as the last chunk is in FILE_DL.
DoFileChunk ==
  /\ Receive("FileChunk") /\ Bump
  /\ \E ok \in BOOLEAN :
       /\ Outcome(ok)
       /\ LET r == NextChunk(dl, ok)
          IN  dl' = IF r.eof THEN [r EXCEPT !.h = NoFile] ELSE r
  /\ UNCHANGED <<xfer, ftpRes>>

\* What an FTP command of caller c leaves in its slot and in FTP_RES.
Answer(c, slot, ok) ==
  /\ xfer' = [xfer EXCEPT ![c] = slot]
  /\ ftpRes' = ok
  /\ UNCHANGED dl

DoOpenRead ==
  /\ Receive("FtpOpenRead") /\ Bump
  /\ LET m == Head(queue)
     IN  \E ok \in BOOLEAN : Answer(m.who, Opened(m.file, m.arg, ok), ok)
  /\ UNCHANGED faults

\* Mutant of DoReadChunk: RPC_SEQ is not advanced once the file is read.
DoReadChunkQuiet ==
  /\ Receive("FtpReadChunk") /\ UNCHANGED fresh
  /\ LET c == Head(queue).who IN
     \E ok \in BOOLEAN : Outcome(ok) /\ xfer' = [xfer EXCEPT ![c] = NextChunk(xfer[c], ok)]
  /\ UNCHANGED <<dl, ftpRes>>

DoReadChunk ==
  /\ Receive("FtpReadChunk") /\ Bump
  /\ LET c == Head(queue).who IN
     \E ok \in BOOLEAN : Outcome(ok) /\ xfer' = [xfer EXCEPT ![c] = NextChunk(xfer[c], ok)]
  /\ UNCHANGED <<dl, ftpRes>>

\* STOR, APPE and REST+STOR differ only in where the handle is positioned.
DoOpenWrite ==
  /\ Receive("FtpOpenWrite") /\ Bump
  /\ LET m == Head(queue)
     IN  \E ok \in BOOLEAN :
           Answer(m.who, [Closed EXCEPT !.wr = IF ok THEN m.file ELSE NoFile], ok)
  /\ UNCHANGED faults

\* Mutant of DoWriteChunk: a failed write is not recorded in werr.
DoWriteChunkSilent ==
  /\ Receive("FtpWriteChunk") /\ Bump
  /\ LET c == Head(queue).who IN
     \E ok \in BOOLEAN :
       /\ Outcome(ok)
       /\ xfer' = [xfer EXCEPT ![c].written = IF ok /\ xfer[c].wr # NoFile THEN @ + 1 ELSE @]
  /\ UNCHANGED <<dl, ftpRes>>

\* Without a write handle the part is dropped and no error recorded.
DoWriteChunk ==
  /\ Receive("FtpWriteChunk") /\ Bump
  /\ LET c == Head(queue).who
         w == xfer[c]
     IN  \E ok \in BOOLEAN :
           /\ Outcome(ok) /\ (w.wr = NoFile => ok)
           /\ xfer' = [xfer EXCEPT ![c].written = IF ok /\ w.wr # NoFile THEN @ + 1 ELSE @,
                                   ![c].werr = @ \/ ~ok]
  /\ UNCHANGED <<dl, ftpRes>>

\* Only the write handle: a read handle stays open until the slot is reused.  A
\* close that fails has not stored the file.
DoCloseWrite ==
  /\ Receive("FtpCloseWrite") /\ Bump
  /\ LET c == Head(queue).who
         w == xfer[c]
     IN  \E ok \in BOOLEAN :
           /\ Outcome(ok) /\ (w.wr = NoFile => ok)
           /\ Answer(c, [w EXCEPT !.wr = NoFile, !.written = IF ok THEN @ ELSE 0], ok /\ ~w.werr)

\* FtpStat, FtpRemove, FtpMkdir, FtpRename.
DoPathOp ==
  /\ Receive("FtpPathOp") /\ Bump
  /\ ftpRes' \in BOOLEAN
  /\ UNCHANGED <<dl, xfer, faults>>

\* CfgSave and CfgEraseAll (see ConfigStore).
DoCtrl ==
  /\ mode = "mounted" /\ ctrl > 0
  /\ ctrl' = ctrl - 1
  /\ running' = (ctrl > 1 \/ queue # <<>>)
  /\ late' = {}
  /\ UNCHANGED <<mode, queue, fresh, served, dropped, spoiled, dl, xfer, ftpRes, job, noise, faults>>

\* The loop storage_task falls into when the file system cannot be mounted: it
\* receives from QUEUE only, and only the two control commands have an effect.
DoDegraded ==
  /\ mode = "degraded" /\ queue # <<>>
  /\ queue' = Tail(queue)
  /\ running' = (Tail(queue) # <<>>)
  /\ late' = {}
  /\ UNCHANGED <<mode, ctrl, fresh, served, dropped, spoiled, dl, xfer, ftpRes, job, noise, faults>>

StorageTask ==
  \/ DoOther \/ DoFileOpen \/ DoFileChunk \/ DoOpenRead \/ DoReadChunk \/ DoOpenWrite
  \/ DoWriteChunk \/ DoCloseWrite \/ DoPathOp \/ DoCtrl \/ DoDegraded

-----------------------------------------------------------------------------
(* The callers.  A caller runs only while the storage task has nothing to  *)
(* do; it waits in rpc_wait, or in socket I/O between the actions.         *)

Free == ~running

\* Leaving a wait, by its answer or (not fresh) by its deadline.
Settle(c) ==
  /\ fresh' = fresh \ {c} /\ served' = served \ {c}
  /\ IF job[c].pc \in Waiting /\ c \notin fresh
     THEN /\ late' = late \union {c}
          /\ faults' = IF mode = "mounted" THEN faults + 1 ELSE faults
     ELSE UNCHANGED <<late, faults>>

\* rpc_send, and the same three lines in httpd: the snapshot is taken first, a
\* full queue drops the command and the caller waits all the same.
Call(c, cmd, j) ==
  /\ queue' = IF Len(queue) < QueueCap THEN Append(queue, cmd) ELSE queue
  /\ dropped' = IF Len(queue) < QueueCap THEN dropped \ {c} ELSE dropped \union {c}
  /\ spoiled' = (IF job[c].pc = "idle" THEN spoiled \ {c} ELSE spoiled)
                  \union (IF Len(queue) < QueueCap THEN {} ELSE {c})
  /\ Settle(c)
  /\ job' = [job EXCEPT ![c] = j]
  /\ UNCHANGED <<mode, ctrl, running, dl, xfer, ftpRes, noise>>

\* A step of caller c that sends nothing.
Go(c, j) ==
  /\ job' = [job EXCEPT ![c] = j]
  /\ Settle(c) /\ dropped' = dropped \ {c}
  /\ UNCHANGED <<mode, queue, ctrl, running, spoiled, dl, xfer, ftpRes, noise>>

At(c, pc) == Free /\ job[c].pc = pc

\* A job that the bound Casts allows, beside those of the callers before it.
Joins(c, kind) ==
  \E cast \in Casts :
    /\ c \in DOMAIN cast /\ kind \in cast[c]
    /\ Nobody \in DOMAIN cast \/ noise = 0
    /\ \A d \in Client \ DOMAIN cast : job[d] = NoJob
Idle(c, kind) == At(c, "idle") /\ Joins(c, kind)

\* rpc_wait returned true; or false, which needs the executor to be held up for
\* 2.5 s, and then polls a caller at most once before the storage task.
Woken(c, pc) == At(c, pc) /\ c \in fresh
TimedOut(c, pc) ==
  /\ At(c, pc) /\ c \notin fresh /\ c \notin late
  /\ mode = "mounted" => faults < MaxFaults

To(c, pc) == [job[c] EXCEPT !.pc = pc]

\* The job after its caller wrote what the shared buffer r holds.
Deliver(c, r) ==
  CASE r.chunk = <<>> -> job[c]
    [] r.chunk = <<job[c].file, job[c].from + job[c].n + 1>> -> [job[c] EXCEPT !.n = @ + 1]
    [] OTHER -> [job[c] EXCEPT !.good = FALSE]

\* GET /api/history/download
WebOpen(c, f) ==
  /\ Idle(c, "get")
  /\ Call(c, Cmd("FileOpen", c, f, 0), [NoJob EXCEPT !.kind = "get", !.pc = "open", !.file = f])

\* The size becomes the Content-Length; an empty file is answered like a
\* missing one.
WebOpened(c) ==
  \/ Woken(c, "open") /\ dl.size > 0 /\ Go(c, [To(c, "next") EXCEPT !.size = dl.size])
  \/ Woken(c, "open") /\ dl.size = 0 /\ Go(c, Over)

WebNext(c) == At(c, "next") /\ Call(c, Cmd("FileChunk", c, NoFile, 0), To(c, "chunk"))

\* Mutant of WebChunk: after a read error the next chunk is asked for.
WebChunkAgain(c) ==
  /\ Woken(c, "chunk")
  /\ IF dl.err THEN Go(c, To(c, "next"))
     ELSE LET j == Deliver(c, dl) IN
          IF (dl.eof /\ dl.chunk = <<>>) \/ dl.sent >= j.size
          THEN Go(c, [j EXCEPT !.pc = "idle", !.ans = "200"])
          ELSE Go(c, [j EXCEPT !.pc = "next"])

\* The chunk goes out before the end is tested.
WebChunk(c) ==
  /\ Woken(c, "chunk")
  /\ IF dl.err THEN Go(c, Over)
     ELSE LET j == Deliver(c, dl) IN
          IF (dl.eof /\ dl.chunk = <<>>) \/ dl.sent >= j.size
          THEN Go(c, [j EXCEPT !.pc = "idle", !.ans = "200"])
          ELSE Go(c, [j EXCEPT !.pc = "next"])

WebTimeout(c) ==
  \/ TimedOut(c, "open") /\ Go(c, Over)
  \/ TimedOut(c, "chunk") /\ Go(c, Over)

\* The browser goes away while a chunk is written.
WebGone(c) == At(c, "next") /\ Go(c, Over)

\* RETR
RetrOpen(c, f, k) ==
  /\ Idle(c, "retr")
  /\ Call(c, Cmd("FtpOpenRead", c, f, k),
          [NoJob EXCEPT !.kind = "retr", !.pc = "ropen", !.file = f, !.from = k])

RetrOpened(c) ==
  /\ Woken(c, "ropen")
  /\ IF ftpRes /\ xfer[c].open
     THEN Go(c, [To(c, "rdata") EXCEPT !.size = xfer[c].size])
     ELSE Go(c, Over)

\* The data connection is there, or 425: then FtpCloseWrite is sent and not
\* waited for, and it does not close the read handle.
RetrData(c) ==
  \/ At(c, "rdata") /\ Go(c, To(c, "rnext"))
  \/ At(c, "rdata") /\ Call(c, Cmd("FtpCloseWrite", c, NoFile, 0), Over)

RetrNext(c) == At(c, "rnext") /\ Call(c, Cmd("FtpReadChunk", c, NoFile, 0), To(c, "rchunk"))

\* After the loop the slot's err decides between 426 and 226.
RetrEnd(c, j) == IF xfer[c].err THEN Over ELSE [j EXCEPT !.pc = "idle", !.ans = "226"]

\* Mutant of RetrChunk: the transfer also ends when a chunk ends it short.
RetrChunkShort(c) ==
  /\ Woken(c, "rchunk")
  /\ LET j == Deliver(c, xfer[c]) IN
     IF xfer[c].chunk = <<>> \/ xfer[c].sent + 1 >= j.size
     THEN Go(c, RetrEnd(c, j))
     ELSE Go(c, [j EXCEPT !.pc = "rnext"])

RetrChunk(c) ==
  /\ Woken(c, "rchunk")
  /\ LET j == Deliver(c, xfer[c]) IN
     IF xfer[c].eof /\ (xfer[c].chunk = <<>> \/ xfer[c].sent >= j.size)
     THEN Go(c, RetrEnd(c, j))
     ELSE Go(c, [j EXCEPT !.pc = "rnext"])

RetrTimeout(c) ==
  \/ TimedOut(c, "ropen") /\ Go(c, Over)
  \/ TimedOut(c, "rchunk") /\ Go(c, Over)

\* The data connection breaks while a chunk is written.
RetrGone(c) == At(c, "rnext") /\ Go(c, Over)

\* STOR and APPE
StorOpen(c, f) ==
  /\ Idle(c, "stor")
  /\ Call(c, Cmd("FtpOpenWrite", c, f, 0), [NoJob EXCEPT !.kind = "stor", !.pc = "wopen", !.file = f])

StorOpened(c) ==
  /\ Woken(c, "wopen")
  /\ IF ftpRes THEN Go(c, To(c, "wdata")) ELSE Go(c, Over)

SendClose(c, j) == Call(c, Cmd("FtpCloseWrite", c, NoFile, 0), j)

StorData(c) ==
  \/ At(c, "wdata") /\ Go(c, To(c, "recv"))
  \/ At(c, "wdata") /\ SendClose(c, To(c, "abort"))

\* A part arrives and is staged for the storage task, or the client is done.
StorPart(c) ==
  \/ /\ At(c, "recv") /\ job[c].n < MaxParts
     /\ Call(c, Cmd("FtpWriteChunk", c, NoFile, 0), [To(c, "wchunk") EXCEPT !.n = @ + 1])
  \/ At(c, "recv") /\ SendClose(c, To(c, "close"))

StorWritten(c) ==
  \/ Woken(c, "wchunk") /\ ~xfer[c].werr /\ Go(c, To(c, "recv"))
  \/ Woken(c, "wchunk") /\ xfer[c].werr /\ SendClose(c, [To(c, "close") EXCEPT !.bad = TRUE])

StorClosed(c) ==
  \/ /\ Woken(c, "close")
     /\ Go(c, IF job[c].bad \/ ~ftpRes THEN Over ELSE [To(c, "idle") EXCEPT !.ans = "226"])
  \/ Woken(c, "abort") /\ Go(c, Over)

StorTimeout(c) ==
  \/ TimedOut(c, "wopen") /\ Go(c, Over)
  \/ TimedOut(c, "wchunk") /\ SendClose(c, [To(c, "close") EXCEPT !.bad = TRUE])
  \/ TimedOut(c, "close") /\ Go(c, Over)
  \/ TimedOut(c, "abort") /\ Go(c, Over)

\* SIZE, DELE, MKD, RNFR, RNTO; on a timeout SIZE, RNFR and RNTO read FTP_RES
\* all the same, DELE and MKD fail.
PathOp(c) ==
  /\ Idle(c, "path")
  /\ Call(c, Cmd("FtpPathOp", c, NoFile, 0), [NoJob EXCEPT !.kind = "path", !.pc = "path"])

PathDone(c) == Woken(c, "path") /\ Go(c, Over)

PathTimeout(c) ==
  /\ TimedOut(c, "path")
  /\ Go(c, Over)

-----------------------------------------------------------------------------
(* Other tasks: samples and syncs on QUEUE, saves on CTRL_QUEUE.           *)
Other ==
  /\ Free /\ noise < MaxNoise /\ Joins(Nobody, "other")
  /\ noise' = noise + 1
  /\ \/ /\ \E op \in {"Sync", "Write"} :
             queue' = IF Len(queue) < QueueCap
                      THEN Append(queue, Cmd(op, Nobody, NoFile, 0)) ELSE queue
        /\ UNCHANGED ctrl
     \/ /\ ctrl' = IF ctrl < CtrlCap THEN ctrl + 1 ELSE ctrl
        /\ UNCHANGED queue
  /\ UNCHANGED <<mode, running, fresh, late, served, dropped, spoiled, dl, xfer, ftpRes, job, faults>>

\* storage_task: mount, or format and mount, or the degraded loop.
Init ==
  /\ mode \in Modes
  /\ queue = <<>> /\ ctrl = 0 /\ running = FALSE
  /\ fresh = {} /\ late = {} /\ served = {} /\ dropped = {} /\ spoiled = {}
  /\ dl = Closed /\ xfer = [c \in Ftp |-> Closed]
  /\ ftpRes = FALSE
  /\ job = [c \in Client |-> NoJob]
  /\ noise = 0 /\ faults = 0

WebSteps(c) == WebOpened(c) \/ WebNext(c) \/ WebChunk(c)
FtpSteps(c) ==
  \/ RetrOpened(c) \/ RetrData(c) \/ RetrNext(c) \/ RetrChunk(c)
  \/ StorOpened(c) \/ StorData(c) \/ StorPart(c) \/ StorWritten(c) \/ StorClosed(c)
  \/ PathDone(c)

Next ==
  \/ StorageTask
  \/ Other
  \/ \E c \in Web :
       WebSteps(c) \/ WebTimeout(c) \/ WebGone(c) \/ \E f \in File : WebOpen(c, f)
  \/ \E c \in Ftp :
       \/ FtpSteps(c) \/ RetrTimeout(c) \/ RetrGone(c) \/ StorTimeout(c)
       \/ PathOp(c) \/ PathTimeout(c)
       \/ \E f \in File : StorOpen(c, f) \/ \E k \in Rests : RetrOpen(c, f, k)

Spec == Init /\ [][Next]_vars

\* The executor polls every woken task once per round.  A caller that can go on
\* is not able to while the storage task drains, hence strong fairness for it.
\* Timeouts, lost connections and new requests are possible, never required.
FairSpec ==
  /\ Spec
  /\ WF_vars(StorageTask)
  /\ \A c \in Web : SF_vars(WebSteps(c))
  /\ \A c \in Ftp : SF_vars(FtpSteps(c))

-----------------------------------------------------------------------------
(* Properties.                                                             *)

\* A caller that rpc_wait releases finds its own command handled, unless the
\* full queue dropped it: with one counter for all callers this rests on the
\* storage task draining the whole queue before any caller looks.
NoFalseWake ==
  \A c \in Client :
    ~running /\ job[c].pc \in Waiting /\ c \in fresh => c \in served \union dropped

\* A download carries the chunks of the file asked for, each once and in order,
\* and all of them when the loop ends normally.
Exact(c) ==
  /\ job[c].good
  /\ job[c].pc = "idle" /\ job[c].ans = "200" => job[c].n = Size[job[c].file]

\* So it is, unless another HTTP task has used FILE_DL during the download, or the
\* full queue dropped a command of it.
DownloadExact == \A c \in Web : c \notin spoiled => Exact(c)

\* Whatever the other HTTP task does: not so in the code.
DownloadAlwaysExact == \A c \in Web : Exact(c)

\* 226 to RETR means that the whole file (from REST on) was sent, unless the
\* data connection broke, the storage task did not answer in time or the full
\* queue dropped a command.
RetrHonest ==
  \A c \in Ftp : LET j == job[c] IN
    j.kind = "retr" /\ j.pc = "idle" /\ j.ans = "226" /\ c \notin spoiled
      => j.good /\ j.from + j.n >= Size[j.file]

\* 226 to STOR means that the file was closed without an error and holds every
\* part received.
Stored(c) == LET j == job[c] IN
  j.kind = "stor" /\ j.pc = "idle" /\ j.ans = "226" => xfer[c].written = j.n /\ xfer[c].wr = NoFile

\* So it does, unless another session's answer replaced the one to the open or to
\* the close in FTP_RES, or the full queue dropped a command of the upload.
UploadHonest == \A c \in Ftp : c \notin spoiled => Stored(c)

\* Whatever the other sessions do: not so in the code.
UploadAlwaysHonest == \A c \in Ftp : Stored(c)

\* Every RPC is answered while the file system is mounted.
RpcAnswered ==
  \A c \in Client : mode = "mounted" /\ job[c].pc \in Waiting ~> job[c].pc \notin Waiting

\* A download comes to an end, unless another one uses FILE_DL meanwhile or the full
\* queue dropped a command of it.
DownloadEnds ==
  \A c \in Web : mode = "mounted" /\ job[c].pc # "idle" ~> job[c].pc = "idle" \/ c \in spoiled

\* Even then: not so in the code, which asks for chunks forever once a FileOpen of
\* the other has failed.
DownloadAlwaysEnds ==
  \A c \in Web : mode = "mounted" /\ job[c].pc # "idle" ~> job[c].pc = "idle"

\* A read error in the middle of a RETR is reported.
ReadErrorReported ==
  \A c \in Ftp : job[c].kind = "retr" /\ job[c].pc # "idle" /\ xfer[c].err ~> job[c].pc = "idle"
=============================================================================
