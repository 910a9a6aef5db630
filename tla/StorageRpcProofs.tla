--------------------------- MODULE StorageRpcProofs ---------------------------
(***************************************************************************)
(* The storage RPCs for any callers, queue capacity, files and traffic of  *)
(* the other tasks: a wake-up is real, and 226 and 200 are honest.         *)
(*                                                                         *)
(* NoFalseWake is not inductive: it speaks of the moments when the storage *)
(* task is idle.  WakeInv adds what holds while it drains: the command of  *)
(* a waiting caller is handled, dropped or still in QUEUE, and a caller    *)
(* can be ahead of its snapshot too early only while the drain goes on,    *)
(* which ends with QUEUE empty.  BaseInv adds the types, which commands a  *)
(* caller sends, and that a released caller has no command left in QUEUE.  *)
(*                                                                         *)
(* The other three invariants follow one transfer through its steps.  At   *)
(* each program counter of the caller they say which of its commands is    *)
(* in QUEUE and what the slot of the storage task holds: RetrInv for RETR, *)
(* GetInv for the download, StorInv for STOR and APPE.  They speak of the  *)
(* callers that are not spoiled: one whose command was dropped is released *)
(* by someone else's and takes what the slot holds for its answer, and so  *)
(* does one whose register (FILE_DL, FTP_RES) another caller has used      *)
(* since.  As long as a caller's own command is in QUEUE nobody can spoil  *)
(* what it waits for.                                                      *)
(***************************************************************************)
EXTENDS StorageRpc, TLAPS

\* Caller c waits for a command that was neither handled nor dropped.
Pending(c) == job[c].pc \in Waiting /\ c \notin served \union dropped

Queued(c) == \E i \in 1..Len(queue) : queue[i].who = c

WakeInv ==
  /\ queue \in Seq(Command) /\ ctrl \in Nat /\ running \in BOOLEAN
  /\ job = [c \in Client |-> job[c]] /\ \A c \in Client : "pc" \in DOMAIN job[c]
  /\ mode = "degraded" => fresh = {}
  /\ \A c \in Client : Pending(c) /\ mode = "mounted" => Queued(c)
  /\ \A c \in Client : Pending(c) /\ c \in fresh => running

\* Init establishes WakeInv: nobody waits.
LEMMA WakeInit == Init => WakeInv
<1> SUFFICES ASSUME Init PROVE WakeInv
  OBVIOUS
<1>1. queue \in Seq(Command)
  BY DEF Init
<1>2. \A c \in Client : job[c].pc = "idle" /\ "pc" \in DOMAIN job[c]
  BY DEF Init, NoJob
<1>3. \A c \in Client : ~Pending(c)
  BY <1>2 DEF Pending, Waiting
<1> QED
  BY <1>1, <1>2, <1>3, Zenon DEF Init, WakeInv

\* Taking a command off QUEUE marks its caller served, and the drain goes on
\* unless QUEUE is empty.
LEMMA ReceiveStep ==
  ASSUME WakeInv, NEW op, Receive(op), Bump \/ UNCHANGED fresh
  PROVE  WakeInv'
<1>1. /\ queue \in Seq(Command) /\ queue # <<>> /\ queue' = Tail(queue)
      /\ running' = (queue' # <<>>) /\ mode = "mounted" /\ mode' = mode
      /\ served' = served \union {c \in Client : c = queue[1].who /\ job[c].pc \in Waiting}
      /\ UNCHANGED <<ctrl, dropped, job>>
  BY DEF WakeInv, Receive
<1>2. /\ queue' \in Seq(Command) /\ Len(queue') = Len(queue) - 1
      /\ \A i \in 1..Len(queue') : queue'[i] = queue[i + 1]
  BY <1>1
<1>3. ASSUME NEW c \in Client, Pending(c)' PROVE Queued(c)'
  <2>1. Pending(c) /\ c # queue[1].who
    BY <1>1, <1>3 DEF Pending
  <2>2. PICK i \in 1..Len(queue) : queue[i].who = c
    BY <1>1, <2>1 DEF WakeInv, Queued
  <2>3. i # 1
    BY <2>1, <2>2
  <2>4. i - 1 \in 1..Len(queue')
    BY <1>1, <1>2, <2>3
  <2>5. queue'[i - 1] = queue[i]
    BY <1>2, <2>4
  <2> QED
    BY <2>2, <2>4, <2>5 DEF Queued
<1>4. ASSUME NEW c \in Client, Pending(c)' PROVE running'
  <2>1. Queued(c)'
    BY <1>3, <1>4
  <2>2. queue' # <<>>
    BY <2>1 DEF Queued
  <2> QED
    BY <1>1, <2>2, Zenon
<1>5. /\ job' = [c \in Client |-> job'[c]] /\ ctrl' \in Nat /\ running' \in BOOLEAN
      /\ \A c \in Client : "pc" \in DOMAIN job'[c]
  BY <1>1 DEF WakeInv
<1>6. ASSUME NEW c \in Client, Pending(c)' /\ mode' = "mounted" PROVE Queued(c)'
  BY <1>3, <1>6
<1> QED
  BY <1>1, <1>2, <1>4, <1>5, <1>6 DEF WakeInv

\* Serving the control lane ends the drain only when QUEUE is empty too.
LEMMA CtrlStep ==
  ASSUME WakeInv, DoCtrl
  PROVE  WakeInv'
<1>1. /\ UNCHANGED <<queue, mode, fresh, served, dropped, job>>
      /\ ctrl \in Nat /\ ctrl > 0 /\ ctrl' = ctrl - 1
      /\ running' = (ctrl > 1 \/ queue # <<>>) /\ mode = "mounted"
  BY DEF DoCtrl, WakeInv
<1>2. \A c \in Client : (Pending(c)' <=> Pending(c)) /\ (Queued(c)' <=> Queued(c))
  BY <1>1 DEF Pending, Queued
<1>3. ASSUME NEW c \in Client, Pending(c) PROVE queue # <<>>
  BY <1>1, <1>3 DEF WakeInv, Queued
<1> QED
  BY <1>1, <1>2, <1>3 DEF WakeInv

\* In the degraded loop nothing is ever answered.
LEMMA DegradedStep ==
  ASSUME WakeInv, DoDegraded
  PROVE  WakeInv'
<1>1. /\ queue \in Seq(Command) /\ queue # <<>> /\ queue' = Tail(queue)
      /\ running' \in BOOLEAN /\ mode = "degraded" /\ fresh = {}
      /\ UNCHANGED <<ctrl, mode, fresh, served, dropped, job>>
  BY DEF DoDegraded, WakeInv
<1>2. queue' \in Seq(Command)
  BY <1>1
<1> QED
  BY <1>1, <1>2 DEF WakeInv

\* A caller that sends: its command is in QUEUE or was dropped.
LEMMA CallStep ==
  ASSUME WakeInv, ~running, NEW c \in Client, NEW cmd \in Command, cmd.who = c,
         NEW j, "pc" \in DOMAIN j, Call(c, cmd, j)
  PROVE  WakeInv'
<1>1. /\ job' = [job EXCEPT ![c] = j] /\ job = [d \in Client |-> job[d]]
      /\ fresh' = fresh \ {c} /\ served' = served \ {c}
      /\ queue' = IF Len(queue) < QueueCap THEN Append(queue, cmd) ELSE queue
      /\ dropped' = IF Len(queue) < QueueCap THEN dropped \ {c} ELSE dropped \union {c}
      /\ UNCHANGED <<mode, ctrl, running>> /\ queue \in Seq(Command)
  BY DEF Call, Settle, WakeInv
<1>2. queue' \in Seq(Command)
  BY <1>1
<1>3. ASSUME NEW d \in Client, d # c PROVE Pending(d)' <=> Pending(d)
  BY <1>1, <1>3 DEF Pending
<1>4. ASSUME NEW d \in Client, Queued(d) PROVE Queued(d)'
  <2>1. PICK i \in 1..Len(queue) : queue[i].who = d
    BY <1>4 DEF Queued
  <2>2. i \in 1..Len(queue') /\ queue'[i] = queue[i]
    BY <1>1, <2>1
  <2> QED
    BY <2>1, <2>2 DEF Queued
<1>5. Pending(c)' => Queued(c)'
  <2> SUFFICES ASSUME Pending(c)' PROVE Queued(c)'
    OBVIOUS
  <2>1. Len(queue) < QueueCap /\ queue' = Append(queue, cmd)
    BY <1>1 DEF Pending
  <2>2. Len(queue) + 1 \in 1..Len(queue') /\ queue'[Len(queue) + 1] = cmd
    BY <1>1, <2>1
  <2> QED
    BY <2>2 DEF Queued
<1>6. c \notin fresh' /\ (\A d \in Client : d \in fresh' => d \in fresh)
  BY <1>1
<1>7. job' = [d \in Client |-> job'[d]] /\ \A d \in Client : "pc" \in DOMAIN job'[d]
  BY <1>1 DEF WakeInv
<1>8. \A d \in Client : Pending(d)' /\ d \in fresh' => running'
  BY <1>1, <1>3, <1>6 DEF WakeInv
<1>9. \A d \in Client : Pending(d)' /\ mode' = "mounted" => Queued(d)'
  BY <1>1, <1>3, <1>4, <1>5 DEF WakeInv
<1> QED
  BY <1>1, <1>2, <1>6, <1>7, <1>8, <1>9 DEF WakeInv

\* A caller that goes on without sending does not wait.
LEMMA GoStep ==
  ASSUME WakeInv, ~running, NEW c \in Client, 
         NEW j, "pc" \in DOMAIN j, j.pc \notin Waiting, Go(c, j)
  PROVE  WakeInv'
<1>1. /\ job' = [job EXCEPT ![c] = j] /\ job = [d \in Client |-> job[d]]
      /\ fresh' = fresh \ {c} /\ served' = served \ {c} /\ dropped' = dropped \ {c}
      /\ UNCHANGED <<mode, queue, ctrl, running>>
  BY DEF Go, Settle, WakeInv
<1>2. ASSUME NEW d \in Client, Pending(d)' PROVE d # c /\ Pending(d)
  BY <1>1, <1>2 DEF Pending
<1>3. \A d \in Client : Queued(d)' <=> Queued(d)
  BY <1>1 DEF Queued
<1>4. job' = [d \in Client |-> job'[d]] /\ \A d \in Client : "pc" \in DOMAIN job'[d]
  BY <1>1 DEF WakeInv
<1> QED
  BY <1>1, <1>2, <1>3, <1>4 DEF WakeInv

\* The commands callers send are their own.
LEMMA OwnCommand ==
  ASSUME NEW c \in Client, NEW op \in Op, NEW f \in File \union {NoFile}, NEW k \in Nat
  PROVE  Cmd(op, c, f, k) \in Command /\ Cmd(op, c, f, k).who = c
BY DEF Cmd, Command

\* Samples, syncs and saves of the other tasks only lengthen the queues.
LEMMA OtherStep ==
  ASSUME WakeInv, Other
  PROVE  WakeInv'
<1>1. /\ ~running /\ UNCHANGED <<mode, running, fresh, served, dropped, job>>
      /\ queue \in Seq(Command) /\ ctrl \in Nat
  BY DEF Other, Free, WakeInv
<1>2. ASSUME NEW op \in {"Sync", "Write"} PROVE Cmd(op, Nobody, NoFile, 0) \in Command
  BY DEF Cmd, Command, Op
<1>3. ctrl' \in Nat
  BY <1>1 DEF Other
<1>4. queue' = queue \/ \E m \in Command : queue' = Append(queue, m)
  BY <1>2 DEF Other
<1>5. queue' \in Seq(Command)
  BY <1>1, <1>4
<1>6. ASSUME NEW c \in Client, Queued(c) PROVE Queued(c)'
  <2>1. PICK i \in 1..Len(queue) : queue[i].who = c
    BY <1>6 DEF Queued
  <2>2. i \in 1..Len(queue') /\ queue'[i] = queue[i]
    BY <1>1, <1>4, <2>1
  <2> QED
    BY <2>1, <2>2 DEF Queued
<1>7. \A c \in Client : Pending(c)' <=> Pending(c)
  BY <1>1 DEF Pending
<1> QED
  BY <1>1, <1>3, <1>5, <1>6, <1>7 DEF WakeInv

\* Every command of QUEUE is taken by Receive, with or without advancing RPC_SEQ.
LEMMA StorageStep ==
  ASSUME WakeInv, StorageTask
  PROVE  WakeInv'
<1>1. CASE DoOther
  BY <1>1, ReceiveStep DEF DoOther
<1>2. CASE DoFileOpen \/ DoFileChunk
  BY <1>2, ReceiveStep DEF DoFileOpen, DoFileChunk
<1>3. CASE DoOpenRead \/ DoReadChunk
  BY <1>3, ReceiveStep, SMTT(40), ZenonT(20) DEF DoOpenRead, DoReadChunk
<1>4. CASE DoOpenWrite \/ DoWriteChunk \/ DoCloseWrite
  BY <1>4, ReceiveStep DEF DoOpenWrite, DoWriteChunk, DoCloseWrite
<1>5. CASE DoPathOp
  BY <1>5, ReceiveStep DEF DoPathOp
<1> QED
  BY <1>1, <1>2, <1>3, <1>4, <1>5, CtrlStep, DegradedStep DEF StorageTask

-----------------------------------------------------------------------------
(* What a caller is told.  The storage task handles a caller's commands in *)
(* the order they were sent, so a caller that is released finds its slot   *)
(* as its last command left it, whatever an earlier one that timed out     *)
(* still has in QUEUE.                                                     *)

\* A command of c is in q; m is the last of them; m is the only one.
In(q, c) == \E i \in 1..Len(q) : q[i].who = c
Last(q, c, m) ==
  \E i \in 1..Len(q) : q[i] = m /\ \A k \in 1..Len(q) : k > i => q[k].who # c
Sole(q, c, m) ==
  \E i \in 1..Len(q) : q[i] = m /\ \A k \in 1..Len(q) : k # i => q[k].who # c

\* The commands of the FTP sessions and of the HTTP tasks.
ResOp == {"FtpOpenRead", "FtpOpenWrite", "FtpCloseWrite", "FtpPathOp"}
FtpOp == {"FtpOpenRead", "FtpReadChunk", "FtpOpenWrite", "FtpWriteChunk", "FtpCloseWrite", "FtpPathOp"}
WebOp == {"FileOpen", "FileChunk"}
Lane(m) == (m.op \in FtpOp => m.who \in Ftp) /\ (m.op \in WebOp => m.who \in Web)
             /\ (m.op \in {"FtpOpenRead", "FileOpen"} => m.file \in File)

IsJob(j) == {"kind", "pc", "file", "from", "size", "n", "good", "bad", "ans"} \subseteq DOMAIN j
IsSlot(r) == {"h", "base", "open", "size", "sent", "chunk", "eof", "err", "wr", "werr", "written"}
               \subseteq DOMAIN r
             /\ r.sent \in Nat /\ r.size \in Nat

RetrPc == {"ropen", "rdata", "rnext", "rchunk"}
StorPc == {"wopen", "wdata", "recv", "wchunk", "close", "abort"}
KindOk(j) == (j.pc \in RetrPc => j.kind = "retr") /\ (j.pc \in StorPc => j.kind = "stor")
               /\ (j.pc = "path" => j.kind = "path")

\* What there is to read from the offset the job asked for.
Left(j) == IF j.from <= Size[j.file] THEN Size[j.file] - j.from ELSE 0

Reads(j) == j.file \in File /\ j.from \in Nat /\ j.n \in Nat

\* The slot r is ready for the next chunk of job j, of which n were delivered.
Ready(r, j) ==
  /\ j.good /\ j.size = r.size /\ r.size = Left(j)
  /\ r.open /\ ~r.eof /\ r.h = j.file /\ r.base = j.from /\ r.sent = j.n
  /\ j.n = 0 => r.chunk = <<>>
  /\ j.n = 0 \/ j.n < r.size

\* It holds that chunk, or nothing because there is none.
Holds(r, j) ==
  /\ j.good /\ j.size = r.size /\ r.size = Left(j)
  /\ r.open /\ r.base = j.from
  /\ \/ r.size = 0 /\ j.n = 0 /\ r.sent = 0 /\ r.eof /\ r.chunk = <<>>
     \/ /\ r.chunk = <<j.file, j.from + j.n + 1>> /\ r.sent = j.n + 1 /\ r.sent <= r.size
        /\ r.eof <=> r.sent >= r.size
        /\ r.eof \/ r.h = j.file

\* RETR of caller c, step by step: q is QUEUE, j the job and r the slot.
RetrAt(q, c, j, r) ==
  /\ j.pc = "ropen" =>
       /\ Reads(j) /\ j.good /\ j.n = 0
       /\ \/ Last(q, c, Cmd("FtpOpenRead", c, j.file, j.from))
          \/ ~In(q, c) /\ r \in {Opened(j.file, j.from, TRUE), Closed}
  /\ j.pc \in {"rdata", "rnext"} => Reads(j) /\ ~In(q, c) /\ (r.err \/ Ready(r, j))
  /\ j.pc = "rchunk" =>
       /\ Reads(j)
       /\ \/ Sole(q, c, Cmd("FtpReadChunk", c, NoFile, 0)) /\ (r.err \/ Ready(r, j))
          \/ ~In(q, c) /\ (r.err \/ Holds(r, j))

\* 226 is true.
RetrTrue(j) ==
  j.kind = "retr" /\ j.pc = "idle" /\ j.ans = "226"
    => j.good /\ j.from + j.n >= Size[j.file]

\* The types, who sends which command, and that a caller is released only when
\* QUEUE holds no command of its own.
BaseInv ==
  /\ WakeInv /\ mode \in {"mounted", "degraded"}
  /\ \A i \in 1..Len(queue) : Lane(queue[i])
  /\ \A c \in Client : IsJob(job[c]) /\ KindOk(job[c])
  /\ xfer = [c \in Ftp |-> xfer[c]] /\ IsSlot(dl) /\ \A c \in Ftp : IsSlot(xfer[c])
  /\ \A c \in Client : c \in fresh /\ In(queue, c) => running

RetrNow(c) == mode = "mounted" => RetrAt(queue, c, job[c], xfer[c])
RetrInv == \A c \in Ftp : c \notin spoiled => RetrNow(c) /\ RetrTrue(job[c])

\* A step of caller c to job j, which sends nothing or a command of its own.
Moves(c, j) ==
  /\ ~running /\ IsJob(j) /\ KindOk(j)
  /\ \/ Go(c, j) /\ j.pc \notin Waiting
     \/ \E m \in Command : m.who = c /\ Lane(m) /\ Call(c, m, j)

\* What handling command m makes of its sender's slot r; ok is what FTP_RES says.
Makes(m, r, s, ok) ==
  /\ m.op = "FtpOpenRead" => s \in {Opened(m.file, m.arg, TRUE), Closed}
  /\ m.op = "FtpReadChunk" => \E g \in BOOLEAN : s = NextChunk(r, g)
  /\ m.op = "FtpOpenWrite" /\ ok => s = [Closed EXCEPT !.wr = m.file]
  /\ m.op = "FtpWriteChunk" =>
       \E g \in BOOLEAN : s = [r EXCEPT !.written = IF g /\ r.wr # NoFile THEN @ + 1 ELSE @,
                                        !.werr = @ \/ ~g]
  /\ m.op = "FtpCloseWrite" =>
       \E g \in BOOLEAN : s = [r EXCEPT !.wr = NoFile, !.written = IF g THEN @ ELSE 0] /\ (ok => g)

\* The same for FILE_DL.
MakesDl(m, r, s) ==
  /\ m.op = "FileOpen" => s \in {Opened(m.file, 0, TRUE), Closed}
  /\ m.op = "FileChunk" =>
       \E g \in BOOLEAN : LET t == NextChunk(r, g) IN s = IF t.eof THEN [t EXCEPT !.h = NoFile] ELSE t
  /\ m.op \notin WebOp => s = r

\* The storage task handles the command at the front of QUEUE.
Handles ==
  /\ mode = "mounted" /\ queue # <<>> /\ queue' = Tail(queue) /\ running' = (queue' # <<>>)
  /\ UNCHANGED <<mode, job>> /\ spoiled' = spoiled \union Overwritten(queue[1])
  /\ xfer' = [c \in Ftp |-> xfer'[c]]
  /\ \A c \in Ftp : /\ IsSlot(xfer'[c])
                    /\ queue[1].who = c => Makes(queue[1], xfer[c], xfer'[c], ftpRes')
                    /\ queue[1].who # c => xfer'[c] = xfer[c]
  /\ IsSlot(dl') /\ MakesDl(queue[1], dl, dl')
  /\ queue[1].op \notin ResOp => ftpRes' = ftpRes

\* Caller c's own step of a RETR, to job j.
RetrMoves(c, j) ==
  /\ mode = "mounted" => RetrAt(queue', c, j, xfer[c])
  /\ RetrTrue(j)
Reading(c) ==
  \E j : Moves(c, j) /\ j.kind \in {"retr", "none"} /\ (RetrNow(c) /\ c \notin spoiled' => RetrMoves(c, j))

\* A download of c, step by step: r is FILE_DL.
GetAt(q, c, j, r) ==
  /\ j.pc = "open" =>
       /\ Reads(j) /\ j.from = 0 /\ j.n = 0
       /\ \/ Last(q, c, Cmd("FileOpen", c, j.file, 0))
          \/ ~In(q, c) /\ r \in {Opened(j.file, 0, TRUE), Closed}
  /\ j.pc = "next" => Reads(j) /\ j.from = 0 /\ r.size > 0 /\ ~In(q, c) /\ Ready(r, j)
  /\ j.pc = "chunk" =>
       /\ Reads(j) /\ j.from = 0
       /\ \/ Sole(q, c, Cmd("FileChunk", c, NoFile, 0)) /\ r.size > 0 /\ Ready(r, j)
          \/ ~In(q, c) /\ (r.err \/ (r.size > 0 /\ Holds(r, j)))

\* No chunk was out of place, and 200 at the end means that none is missing.
GetTrue(j) == j.good /\ (j.pc = "idle" /\ j.ans = "200" => j.n = Size[j.file])

GetNow(c) == (mode = "mounted" => GetAt(queue, c, job[c], dl)) /\ (job[c].pc # "idle" => job[c].good)
GetInv == \A c \in Web : c \notin spoiled => GetNow(c) /\ GetTrue(job[c])

\* Caller c's own step of a download, to job j.
GetMoves(c, j) == (mode = "mounted" => GetAt(queue', c, j, dl)) /\ GetTrue(j)
Loading(c) == \E j : Moves(c, j) /\ (GetNow(c) /\ c \notin spoiled' => GetMoves(c, j))

\* STOR, step by step: r is the session's slot, ok what FTP_RES says.
StorAt(q, c, j, r, ok) ==
  /\ j.pc = "wopen" =>
       /\ j.file \in File /\ j.n = 0
       /\ \/ Last(q, c, Cmd("FtpOpenWrite", c, j.file, 0))
          \/ ~In(q, c) /\ (ok => r = [Closed EXCEPT !.wr = j.file])
  /\ j.pc \in {"wdata", "recv"} =>
       j.n \in Nat /\ ~In(q, c) /\ r.wr # NoFile /\ ~r.werr /\ r.written = j.n
  /\ j.pc = "wchunk" =>
       \/ /\ Sole(q, c, Cmd("FtpWriteChunk", c, NoFile, 0))
          /\ r.wr # NoFile /\ r.written \in Nat /\ j.n = r.written + 1
       \/ ~In(q, c) /\ j.n \in Nat /\ (r.werr \/ (r.wr # NoFile /\ r.written = j.n))
  /\ j.pc = "close" /\ ~j.bad =>
       \/ Sole(q, c, Cmd("FtpCloseWrite", c, NoFile, 0)) /\ r.written = j.n
       \/ ~In(q, c) /\ (ok => r.written = j.n /\ r.wr = NoFile)

\* 226 is true, and the slot stays as it is; in the degraded loop no upload succeeds.
StorTrue(q, c, j, r) ==
  j.kind = "stor" /\ j.pc = "idle" /\ j.ans = "226" =>
    mode = "mounted" /\ ~In(q, c) /\ r.written = j.n /\ r.wr = NoFile

StorNow(c) == mode = "mounted" => StorAt(queue, c, job[c], xfer[c], ftpRes)
StorInv == \A c \in Ftp : c \notin spoiled => StorNow(c) /\ StorTrue(queue, c, job[c], xfer[c])

\* Caller c's own step of an upload, to job j.
StorMoves(c, j) ==
  /\ mode = "mounted" => StorAt(queue', c, j, xfer[c], ftpRes)
  /\ StorTrue(queue', c, j, xfer[c])
Uploads(c) ==
  \E j : Moves(c, j) /\ j.kind \in {"stor", "path", "none"}
         /\ (StorNow(c) /\ c \notin spoiled' => StorMoves(c, j))

\* A command of somebody else behind the queue, or taken from its front, makes no
\* difference to c.
LEMMA OthersQueue ==
  ASSUME NEW q \in Seq(Command), NEW c, NEW x, x.who = c, NEW p,
         \/ p = q
         \/ \E m \in Command : m.who # c /\ p = Append(q, m)
         \/ q # <<>> /\ q[1].who # c /\ p = Tail(q)
  PROVE  /\ In(p, c) => In(q, c)
         /\ Last(q, c, x) => Last(p, c, x)
         /\ Sole(q, c, x) => Sole(p, c, x)
<1>1. CASE p = q
  BY <1>1
<1>2. CASE \E m \in Command : m.who # c /\ p = Append(q, m)
  <2>1. PICK m \in Command : m.who # c /\ p = Append(q, m)
    BY <1>2
  <2>2. /\ Len(p) = Len(q) + 1 /\ Len(q) \in Nat /\ p[Len(q) + 1] = m
        /\ \A i \in 1..Len(q) : i \in 1..Len(p) /\ p[i] = q[i]
        /\ \A i \in 1..Len(p) : i \in 1..Len(q) \/ i = Len(q) + 1
    BY <2>1
  <2>3. In(p, c) => In(q, c)
    BY <2>1, <2>2 DEF In
  <2>4. Last(q, c, x) => Last(p, c, x)
    BY <2>1, <2>2 DEF Last
  <2>5. Sole(q, c, x) => Sole(p, c, x)
    BY <2>1, <2>2 DEF Sole
  <2> QED BY <2>3, <2>4, <2>5
<1>3. CASE q # <<>> /\ q[1].who # c /\ p = Tail(q)
  <2>2. /\ Len(p) = Len(q) - 1 /\ Len(q) \in Nat
        /\ \A i \in 1..Len(p) : i + 1 \in 1..Len(q) /\ p[i] = q[i + 1]
        /\ \A i \in 1..Len(q) : i # 1 => i - 1 \in 1..Len(p) /\ p[i - 1] = q[i]
    BY <1>3
  <2>3. In(p, c) => In(q, c)
    BY <2>2 DEF In
  <2>4. ASSUME Last(q, c, x) PROVE Last(p, c, x)
    <3>1. PICK i \in 1..Len(q) : q[i] = x /\ \A k \in 1..Len(q) : k > i => q[k].who # c
      BY <2>4 DEF Last
    <3>2. i # 1
      BY <1>3, <3>1
    <3>3. i - 1 \in 1..Len(p) /\ p[i - 1] = x
      BY <2>2, <3>1, <3>2
    <3>4. ASSUME NEW k \in 1..Len(p), k > i - 1 PROVE p[k].who # c
      <4>1. k + 1 \in 1..Len(q) /\ k + 1 > i /\ p[k] = q[k + 1]
        BY <2>2, <3>4
      <4> QED BY <3>1, <4>1
    <3> QED BY <3>3, <3>4 DEF Last
  <2>5. ASSUME Sole(q, c, x) PROVE Sole(p, c, x)
    <3>1. PICK i \in 1..Len(q) : q[i] = x /\ \A k \in 1..Len(q) : k # i => q[k].who # c
      BY <2>5 DEF Sole
    <3>2. i # 1
      BY <1>3, <3>1
    <3>3. i - 1 \in 1..Len(p) /\ p[i - 1] = x
      BY <2>2, <3>1, <3>2
    <3>4. ASSUME NEW k \in 1..Len(p), k # i - 1 PROVE p[k].who # c
      <4>1. k + 1 \in 1..Len(q) /\ k + 1 # i /\ p[k] = q[k + 1]
        BY <2>2, <3>4
      <4> QED BY <3>1, <4>1
    <3> QED BY <3>3, <3>4 DEF Sole
  <2> QED BY <2>3, <2>4, <2>5
<1> QED BY <1>1, <1>2, <1>3

\* A command that c sends is its last one, and the only one if there was none.
LEMMA OwnSent ==
  ASSUME NEW q \in Seq(Command), NEW c, NEW m \in Command
  PROVE  /\ Last(Append(q, m), c, m)
         /\ ~In(q, c) => Sole(Append(q, m), c, m)
<1> DEFINE p == Append(q, m)
<1>1. /\ Len(p) = Len(q) + 1 /\ Len(q) \in Nat /\ p[Len(q) + 1] = m
      /\ Len(q) + 1 \in 1..Len(p)
      /\ \A i \in 1..Len(p) : i # Len(q) + 1 => i \in 1..Len(q) /\ p[i] = q[i]
      /\ \A i \in 1..Len(p) : ~(i > Len(q) + 1)
  OBVIOUS
<1> HIDE DEF p
<1>2. Last(p, c, m)
  BY <1>1 DEF Last
<1>3. ~In(q, c) => Sole(p, c, m)
  BY <1>1 DEF In, Sole
<1> QED BY <1>2, <1>3 DEF p

\* A command of c at the front: it is the one waited for, or a stale one before it.
LEMMA OwnTaken ==
  ASSUME NEW q \in Seq(Command), q # <<>>, NEW c, q[1].who = c, NEW x
  PROVE  /\ In(q, c)
         /\ Last(q, c, x) => Last(Tail(q), c, x) \/ (q[1] = x /\ ~In(Tail(q), c))
         /\ Sole(q, c, x) => q[1] = x /\ ~In(Tail(q), c)
<1> DEFINE p == Tail(q)
<1>1. /\ Len(p) = Len(q) - 1 /\ Len(q) \in Nat /\ 1 \in 1..Len(q)
      /\ \A i \in 1..Len(p) : i + 1 \in 1..Len(q) /\ i + 1 > 1 /\ p[i] = q[i + 1]
      /\ \A i \in 1..Len(q) : i # 1 => i - 1 \in 1..Len(p) /\ p[i - 1] = q[i]
  OBVIOUS
<1> HIDE DEF p
<1>2. In(q, c)
  BY <1>1 DEF In
<1>3. ASSUME Last(q, c, x) PROVE Last(p, c, x) \/ (q[1] = x /\ ~In(p, c))
  <2>1. PICK i \in 1..Len(q) : q[i] = x /\ \A k \in 1..Len(q) : k > i => q[k].who # c
    BY <1>3 DEF Last
  <2>2. CASE i = 1
    BY <1>1, <2>1, <2>2 DEF In
  <2>3. CASE i # 1
    <3>1. i - 1 \in 1..Len(p) /\ p[i - 1] = x
      BY <1>1, <2>1, <2>3
    <3>2. ASSUME NEW k \in 1..Len(p), k > i - 1 PROVE p[k].who # c
      <4>1. k + 1 \in 1..Len(q) /\ k + 1 > i /\ p[k] = q[k + 1]
        BY <1>1, <3>2
      <4> QED BY <2>1, <4>1
    <3> QED BY <3>1, <3>2 DEF Last
  <2> QED BY <2>2, <2>3
<1>4. ASSUME Sole(q, c, x) PROVE q[1] = x /\ ~In(p, c)
  <2>1. PICK i \in 1..Len(q) : q[i] = x /\ \A k \in 1..Len(q) : k # i => q[k].who # c
    BY <1>4 DEF Sole
  <2>2. i = 1
    BY <1>1, <2>1
  <2> QED BY <1>1, <2>1, <2>2 DEF In
<1> QED BY <1>2, <1>3, <1>4 DEF p

\* The fields of a command.
LEMMA CmdFields ==
  ASSUME NEW op, NEW c, NEW f, NEW k
  PROVE  Cmd(op, c, f, k).op = op /\ Cmd(op, c, f, k).who = c
         /\ Cmd(op, c, f, k).file = f /\ Cmd(op, c, f, k).arg = k
BY DEF Cmd

\* The commands of others come and go.
LEMMA CmdKept ==
  ASSUME NEW q \in Seq(Command), NEW c, NEW p,
         \/ p = q
         \/ \E m \in Command : m.who # c /\ p = Append(q, m)
         \/ q # <<>> /\ q[1].who # c /\ p = Tail(q)
  PROVE  \A op, f, k :
           /\ In(p, c) => In(q, c)
           /\ Last(q, c, Cmd(op, c, f, k)) => Last(p, c, Cmd(op, c, f, k))
           /\ Sole(q, c, Cmd(op, c, f, k)) => Sole(p, c, Cmd(op, c, f, k))
<1> SUFFICES ASSUME NEW op, NEW f, NEW k
             PROVE  /\ In(p, c) => In(q, c)
                    /\ Last(q, c, Cmd(op, c, f, k)) => Last(p, c, Cmd(op, c, f, k))
                    /\ Sole(q, c, Cmd(op, c, f, k)) => Sole(p, c, Cmd(op, c, f, k))
  OBVIOUS
<1>1. Cmd(op, c, f, k).who = c
  BY CmdFields
<1> QED
  BY <1>1, OthersQueue

\* RETR is where it was when they do.
LEMMA RetrKept ==
  ASSUME NEW q \in Seq(Command), NEW c, NEW j, NEW r, NEW p,
         \/ p = q
         \/ \E m \in Command : m.who # c /\ p = Append(q, m)
         \/ q # <<>> /\ q[1].who # c /\ p = Tail(q),
         RetrAt(q, c, j, r)
  PROVE  RetrAt(p, c, j, r)
BY CmdKept, Zenon DEF RetrAt

\* What the storage task makes of a slot that is ready for a chunk: the chunk, the
\* end, or an error.
LEMMA ChunkRead ==
  ASSUME NEW r, IsSlot(r), NEW j, Reads(j), NEW ok \in BOOLEAN, r.err \/ Ready(r, j)
  PROVE  NextChunk(r, ok).err \/ Holds(NextChunk(r, ok), j)
<1>1. CASE ~r.open
  BY <1>1 DEF NextChunk, Ready
<1>2. CASE r.open /\ r.sent >= r.size
  <2> DEFINE s == [r EXCEPT !.h = NoFile, !.eof = TRUE]
  <2>1. NextChunk(r, ok) = s
    BY <1>2 DEF NextChunk, IsSlot
  <2>2. /\ s.err = r.err /\ s.eof = TRUE /\ s.sent = r.sent /\ s.size = r.size
        /\ s.chunk = r.chunk /\ s.open = r.open /\ s.base = r.base
    BY DEF IsSlot
  <2> HIDE DEF s
  <2>3. ASSUME Ready(r, j) PROVE Holds(s, j)
    <3>1. j.n = 0 /\ r.size = 0 /\ r.sent = 0 /\ r.chunk = <<>>
      BY <1>2, <2>3 DEF Ready, IsSlot
    <3> QED BY <1>2, <2>2, <2>3, <3>1 DEF Ready, Holds
  <2> QED BY <2>1, <2>2, <2>3
<1>3. CASE r.open /\ r.sent < r.size /\ (r.h = NoFile \/ ~ok)
  BY <1>3 DEF NextChunk, IsSlot
<1>4. CASE r.open /\ r.sent < r.size /\ ~(r.h = NoFile \/ ~ok)
  <2> DEFINE s == [r EXCEPT !.chunk = <<r.h, r.base + r.sent + 1>>,
                            !.sent = @ + 1, !.eof = r.sent + 1 >= r.size]
  <2>1. NextChunk(r, ok) = s
    BY <1>4 DEF NextChunk, IsSlot
  <2>2. /\ s.err = r.err /\ s.eof = (r.sent + 1 >= r.size) /\ s.sent = r.sent + 1
        /\ s.size = r.size /\ s.chunk = <<r.h, r.base + r.sent + 1>> /\ s.open = r.open
        /\ s.base = r.base /\ s.h = r.h
    BY DEF IsSlot
  <2> HIDE DEF s
  <2>3. ASSUME Ready(r, j) PROVE Holds(s, j)
    <3>1. r.sent + 1 <= r.size /\ r.sent \in Nat /\ r.size \in Nat
      BY <1>4 DEF IsSlot
    <3>2. s.chunk = <<j.file, j.from + j.n + 1>> /\ s.sent = j.n + 1 /\ s.sent <= s.size
          /\ (s.eof <=> s.sent >= s.size) /\ s.h = j.file
      BY <2>2, <2>3, <3>1, Zenon DEF Ready
    <3>3. j.good /\ j.size = s.size /\ s.size = Left(j) /\ s.open /\ s.base = j.from
      BY <2>2, <2>3 DEF Ready
    <3> QED BY <3>2, <3>3 DEF Holds
  <2> QED BY <2>1, <2>2, <2>3
<1> QED
  BY <1>1, <1>2, <1>3, <1>4 DEF IsSlot

\* The slot stays a slot.
LEMMA SlotKept ==
  /\ IsSlot(Closed)
  /\ \A f \in File, k \in Nat : IsSlot(Opened(f, k, TRUE)) /\ Opened(f, k, FALSE) = Closed
  /\ \A r : \A ok \in BOOLEAN : IsSlot(r) => IsSlot(NextChunk(r, ok))
  /\ \A r : \A v : IsSlot(r) => IsSlot([r EXCEPT !.h = v]) /\ IsSlot([r EXCEPT !.wr = v])
  /\ \A r : \A v, w : IsSlot(r) => /\ IsSlot([r EXCEPT !.written = v, !.werr = w])
                                  /\ IsSlot([r EXCEPT !.wr = v, !.written = w])
<1>1. IsSlot(Closed)
  BY DEF IsSlot, Closed
<1>2. ASSUME NEW f \in File, NEW k \in Nat
      PROVE  IsSlot(Opened(f, k, TRUE)) /\ Opened(f, k, FALSE) = Closed
  <2>1. Size[f] \in Nat
    BY RpcAssumption
  <2> QED BY <2>1 DEF IsSlot, Opened, Closed
<1>3. ASSUME NEW r, NEW ok \in BOOLEAN, IsSlot(r) PROVE IsSlot(NextChunk(r, ok))
  <2>1. CASE ~r.open
    BY <1>3, <2>1 DEF NextChunk
  <2>2. CASE r.open /\ r.sent >= r.size
    BY <1>3, <2>2 DEF NextChunk, IsSlot
  <2>3. CASE r.open /\ r.sent < r.size /\ (r.h = NoFile \/ ~ok)
    BY <1>3, <2>3 DEF NextChunk, IsSlot
  <2>4. CASE r.open /\ r.sent < r.size /\ ~(r.h = NoFile \/ ~ok)
    BY <1>3, <2>4 DEF NextChunk, IsSlot
  <2> QED BY <1>3, <2>1, <2>2, <2>3, <2>4 DEF IsSlot
<1>4. ASSUME NEW r, NEW v, NEW w, IsSlot(r)
      PROVE  /\ IsSlot([r EXCEPT !.h = v]) /\ IsSlot([r EXCEPT !.wr = v])
             /\ IsSlot([r EXCEPT !.written = v, !.werr = w])
             /\ IsSlot([r EXCEPT !.wr = v, !.written = w])
  BY <1>4 DEF IsSlot
<1> QED
  BY <1>1, <1>2, <1>3, <1>4, Zenon

\* A command of c's own is handled: the slot is what RETR waits for.
LEMMA RetrTaken ==
  ASSUME NEW q \in Seq(Command), NEW c, q # <<>>, q[1].who = c, NEW j,
         NEW r, IsSlot(r), RetrAt(q, c, j, r), NEW s,
         q[1].op = "FtpOpenRead" => s \in {Opened(q[1].file, q[1].arg, TRUE), Closed},
         q[1].op = "FtpReadChunk" => \E ok \in BOOLEAN : s = NextChunk(r, ok)
  PROVE  RetrAt(Tail(q), c, j, s)
<1> DEFINE p == Tail(q)
<1>0. ASSUME NEW x
      PROVE  /\ In(q, c)
             /\ Last(q, c, x) => Last(p, c, x) \/ (q[1] = x /\ ~In(p, c))
             /\ Sole(q, c, x) => q[1] = x /\ ~In(p, c)
  BY OwnTaken
<1>a. In(q, c)
  BY <1>0
<1> HIDE DEF p
<1>1. CASE j.pc = "ropen"
  <2> DEFINE x == Cmd("FtpOpenRead", c, j.file, j.from)
  <2>1. Reads(j) /\ j.good /\ j.n = 0 /\ Last(q, c, x)
    BY <1>1, <1>a DEF RetrAt
  <2>2. x.op = "FtpOpenRead" /\ x.file = j.file /\ x.arg = j.from
    BY CmdFields
  <2>3. Last(p, c, x) \/ (q[1] = x /\ ~In(p, c))
    BY <1>0, <2>1
  <2>4. Last(p, c, x) \/ (~In(p, c) /\ s \in {Opened(j.file, j.from, TRUE), Closed})
    BY <2>2, <2>3, Zenon
  <2> QED
    BY <1>1, <2>1, <2>4, Zenon DEF RetrAt, p
<1>2. CASE j.pc \in {"rdata", "rnext"}
  BY <1>2, <1>a DEF RetrAt
<1>3. CASE j.pc = "rchunk"
  <2> DEFINE x == Cmd("FtpReadChunk", c, NoFile, 0)
  <2>1. Reads(j) /\ Sole(q, c, x) /\ (r.err \/ Ready(r, j))
    BY <1>3, <1>a DEF RetrAt
  <2>2. q[1] = x /\ ~In(p, c)
    BY <1>0, <2>1
  <2>3. PICK ok \in BOOLEAN : s = NextChunk(r, ok)
    BY <2>2, CmdFields
  <2>4. s.err \/ Holds(s, j)
    BY <2>1, <2>3, ChunkRead
  <2> QED
    BY <1>3, <2>1, <2>2, <2>4 DEF RetrAt, p
<1>4. CASE j.pc \notin RetrPc
  BY <1>4, Zenon DEF RetrAt, RetrPc
<1> QED
  BY <1>1, <1>2, <1>3, <1>4 DEF RetrPc

\* The parts of BaseInv that storage steps and caller steps must keep.
LEMMA BaseFrom ==
  ASSUME WakeInv', mode' \in {"mounted", "degraded"},
         \A i \in 1..Len(queue') : Lane(queue'[i]),
         \A c \in Client : IsJob(job'[c]) /\ KindOk(job'[c]),
         xfer' = [c \in Ftp |-> xfer'[c]], IsSlot(dl'), \A c \in Ftp : IsSlot(xfer'[c]),
         \A c \in Client : c \in fresh' /\ In(queue', c) => running'
  PROVE  BaseInv'
BY DEF BaseInv

\* A step of c: BaseInv is kept, and for everybody else only QUEUE may have grown
\* by a command that is not theirs.
LEMMA CallerStep ==
  ASSUME BaseInv, NEW c \in Client, NEW j, Moves(c, j)
  PROVE  /\ BaseInv'
         /\ UNCHANGED <<mode, xfer, dl, ftpRes>> /\ job'[c] = j
         /\ job[c].pc # "idle" /\ c \in spoiled => c \in spoiled'
         /\ \A d \in Client \ {c} :
              /\ job'[d] = job[d] /\ (d \in spoiled => d \in spoiled')
              /\ queue' = queue \/ \E m \in Command : m.who # d /\ queue' = Append(queue, m)
<1>1. PICK q : /\ queue' = q
               /\ q = queue \/ \E m \in Command : m.who = c /\ Lane(m) /\ q = Append(queue, m)
  <2>1. CASE Go(c, j)
    BY <2>1 DEF Go
  <2>2. ASSUME NEW m \in Command, m.who = c, Lane(m), Call(c, m, j)
        PROVE  queue' = queue \/ queue' = Append(queue, m)
    BY <2>2 DEF Call
  <2> QED BY <2>1, <2>2 DEF Moves
<1>2. /\ UNCHANGED <<mode, xfer, dl, ftpRes, running>> /\ ~running
      /\ job' = [job EXCEPT ![c] = j] /\ fresh' = fresh \ {c}
      /\ IsJob(j) /\ KindOk(j)
  BY DEF Moves, Go, Call, Settle
<1>3. /\ job = [d \in Client |-> job[d]] /\ queue \in Seq(Command)
      /\ mode \in {"mounted", "degraded"} /\ xfer = [d \in Ftp |-> xfer[d]] /\ IsSlot(dl)
      /\ \A d \in Ftp : IsSlot(xfer[d])
      /\ \A d \in Client : IsJob(job[d]) /\ KindOk(job[d])
      /\ \A d \in Client : d \in fresh /\ In(queue, d) => running
      /\ \A i \in 1..Len(queue) : Lane(queue[i])
  BY DEF BaseInv, WakeInv
<1>4. job'[c] = j /\ \A d \in Client \ {c} : job'[d] = job[d]
  BY <1>2, <1>3
<1>5. \A d \in Client \ {c} : queue' = queue \/ \E m \in Command : m.who # d /\ queue' = Append(queue, m)
  BY <1>1
<1>6. \A d \in Client : IsJob(job'[d]) /\ KindOk(job'[d])
  BY <1>2, <1>3, <1>4
<1>7. \A i \in 1..Len(queue') : Lane(queue'[i])
  <2>1. CASE q = queue
    BY <1>1, <1>3, <2>1
  <2>2. ASSUME NEW m \in Command, Lane(m), q = Append(queue, m), NEW i \in 1..Len(q)
        PROVE  Lane(q[i])
    <3>1. (i \in 1..Len(queue) /\ q[i] = queue[i]) \/ q[i] = m
      BY <1>3, <2>2
    <3> QED BY <1>3, <2>2, <3>1
  <2> QED BY <1>1, <2>1, <2>2
<1>8. ASSUME NEW d \in Client, d \in fresh', In(queue', d) PROVE FALSE
  <2>1. d # c /\ d \in fresh
    BY <1>2, <1>8
  <2>2. In(queue, d)
    <3>1. queue' = queue \/ \E m \in Command : m.who # d /\ queue' = Append(queue, m)
      BY <1>5, <2>1
    <3>2. Cmd("Sync", d, NoFile, 0).who = d
      BY CmdFields
    <3> QED BY <1>3, <1>8, <3>1, <3>2, OthersQueue, SMTT(40), ZenonT(20)
  <2> QED BY <1>2, <1>3, <2>1, <2>2
<1>9. xfer' = [d \in Ftp |-> xfer'[d]] /\ mode' \in {"mounted", "degraded"} /\ IsSlot(dl')
      /\ \A d \in Ftp : IsSlot(xfer'[d])
  BY <1>2, <1>3
<1>10. WakeInv'
  <2>1. WakeInv /\ "pc" \in DOMAIN j /\ ~running
    BY <1>2 DEF BaseInv, IsJob
  <2> QED BY <2>1, CallStep, GoStep DEF Moves
<1>11. BaseInv'
  BY <1>6, <1>7, <1>8, <1>9, <1>10, BaseFrom
<1>12. /\ job[c].pc # "idle" /\ c \in spoiled => c \in spoiled'
       /\ \A d \in Client \ {c} : d \in spoiled => d \in spoiled'
  <2>1. CASE Go(c, j)
    BY <2>1 DEF Go
  <2>2. ASSUME NEW m, Call(c, m, j)
        PROVE  /\ job[c].pc # "idle" /\ c \in spoiled => c \in spoiled'
               /\ \A d \in Client \ {c} : d \in spoiled => d \in spoiled'
    BY <2>2 DEF Call
  <2> QED BY <2>1, <2>2 DEF Moves
<1> QED
  BY <1>2, <1>4, <1>5, <1>11, <1>12

\* One operation after the other: each handler does to the sender's slot what Makes
\* says, and to nobody else's.
LEMMA Handling ==
  ASSUME BaseInv, StorageTask
  PROVE  DoCtrl \/ DoDegraded \/ Handles
<1> DEFINE m == queue[1]
<1>0. /\ queue \in Seq(Command) /\ xfer = [c \in Ftp |-> xfer[c]] /\ IsSlot(dl)
      /\ \A c \in Ftp : IsSlot(xfer[c])
      /\ \A i \in 1..Len(queue) : Lane(queue[i])
  BY DEF BaseInv, WakeInv
<1>a. ASSUME NEW op, Receive(op)
      PROVE  /\ mode = "mounted" /\ queue # <<>> /\ queue' = Tail(queue) /\ running' = (queue' # <<>>)
             /\ UNCHANGED <<mode, job>> /\ m.op = op /\ Head(queue) = m
             /\ spoiled' = spoiled \union Overwritten(m) /\ m \in Command /\ Lane(m)
  <2>1. mode = "mounted" /\ queue # <<>> /\ queue' = Tail(queue) /\ running' = (queue' # <<>>)
        /\ UNCHANGED <<mode, job>> /\ Head(queue).op = op
        /\ spoiled' = spoiled \union Overwritten(Head(queue))
    BY <1>a DEF Receive
  <2>2. Head(queue) = m /\ 1 \in 1..Len(queue) /\ m \in Command
    BY <1>0, <2>1
  <2> QED BY <1>0, <2>1, <2>2
\* A handler that leaves the slots alone, and one that writes the slot of m.who.
<1>b. ASSUME NEW op, Receive(op), op \notin {"FtpOpenRead", "FtpReadChunk", "FtpOpenWrite",
                                             "FtpWriteChunk", "FtpCloseWrite"},
             UNCHANGED xfer, IsSlot(dl'), MakesDl(m, dl, dl'), op \notin ResOp => ftpRes' = ftpRes
      PROVE  Handles
  <2>1. \A c \in Ftp : Makes(m, xfer[c], xfer'[c], ftpRes')
    BY <1>a, <1>b, Zenon DEF Makes
  <2> HIDE DEF m
  <2>2. /\ mode = "mounted" /\ queue # <<>> /\ queue' = Tail(queue) /\ running' = (queue' # <<>>)
        /\ UNCHANGED <<mode, job>> /\ m.op = op /\ spoiled' = spoiled \union Overwritten(m)
    BY <1>a, <1>b
  <2> QED BY <1>0, <1>b, <2>1, <2>2 DEF Handles, m
<1>c. ASSUME NEW op \in FtpOp, Receive(op), UNCHANGED dl, NEW s, IsSlot(s),
             xfer' = [xfer EXCEPT ![m.who] = s], Makes(m, xfer[m.who], s, ftpRes'),
             op \notin ResOp => ftpRes' = ftpRes
      PROVE  Handles
  <2>1. m.op = op /\ m.who \in Ftp
    BY <1>a, <1>c DEF Lane
  <2>2. MakesDl(m, dl, dl')
    BY <1>c, <2>1, Zenon DEF MakesDl, FtpOp, WebOp
  <2>3. /\ xfer' = [c \in Ftp |-> xfer'[c]] /\ xfer'[m.who] = s
        /\ \A c \in Ftp : c # m.who => xfer'[c] = xfer[c]
    BY <1>0, <1>c, <2>1
  <2>4. /\ mode = "mounted" /\ queue # <<>> /\ queue' = Tail(queue) /\ running' = (queue' # <<>>)
        /\ UNCHANGED <<mode, job>> /\ spoiled' = spoiled \union Overwritten(m)
    BY <1>a, <1>c
  <2>5. \A c \in Ftp : /\ IsSlot(xfer'[c])
                       /\ m.who = c => Makes(m, xfer[c], xfer'[c], ftpRes')
                       /\ m.who # c => xfer'[c] = xfer[c]
    BY <1>0, <1>c, <2>3
  <2>6. IsSlot(dl')
    BY <1>0, <1>c
  <2> HIDE DEF m
  <2> QED BY <1>c, <2>1, <2>2, <2>3, <2>4, <2>5, <2>6 DEF Handles, m
<1>1. CASE DoOther
  <2>1. PICK op \in {"Sync", "Write"} : Receive(op)
    BY <1>1 DEF DoOther
  <2>2. UNCHANGED <<xfer, dl, ftpRes>>
    BY <1>1 DEF DoOther
  <2>3. m.op = op
    BY <1>a, <2>1
  <2>4. MakesDl(m, dl, dl')
    BY <2>1, <2>2, <2>3, Zenon DEF MakesDl
  <2> QED BY <1>0, <1>b, <2>1, <2>2, <2>4
<1>2. CASE DoFileOpen
  <2>1. Receive("FileOpen") /\ UNCHANGED <<xfer, ftpRes>>
    BY <1>2 DEF DoFileOpen
  <2>2. m \in Command /\ m.op = "FileOpen" /\ m.file \in File
    BY <1>a, <2>1 DEF Lane
  <2>3. PICK ok \in BOOLEAN : dl' = Opened(m.file, 0, ok)
    BY <1>2, <1>a, <2>1 DEF DoFileOpen
  <2>4. dl' \in {Opened(m.file, 0, TRUE), Closed} /\ IsSlot(dl')
    BY <2>2, <2>3, SlotKept, Zenon
  <2>5. MakesDl(m, dl, dl')
    BY <2>2, <2>4, Zenon DEF MakesDl, WebOp
  <2> QED BY <1>b, <2>1, <2>4, <2>5
<1>3. CASE DoFileChunk
  <2>1. Receive("FileChunk") /\ UNCHANGED <<xfer, ftpRes>>
    BY <1>3 DEF DoFileChunk
  <2>2. m.op = "FileChunk"
    BY <1>a, <2>1
  <2>3. PICK ok \in BOOLEAN : LET r == NextChunk(dl, ok)
                              IN  dl' = IF r.eof THEN [r EXCEPT !.h = NoFile] ELSE r
    BY <1>3 DEF DoFileChunk
  <2>4. IsSlot(dl')
    BY <1>0, <2>3, SlotKept, Zenon
  <2>5. MakesDl(m, dl, dl')
    BY <2>2, <2>3 DEF MakesDl, WebOp
  <2> QED BY <1>b, <2>1, <2>4, <2>5
<1>4. CASE DoPathOp
  <2>1. Receive("FtpPathOp") /\ UNCHANGED <<xfer, dl>>
    BY <1>4 DEF DoPathOp
  <2>4. m.op = "FtpPathOp"
    BY <1>a, <2>1
  <2>2. MakesDl(m, dl, dl')
    BY <2>1, <2>4 DEF MakesDl
  <2>3. "FtpPathOp" \in ResOp
    BY DEF ResOp
  <2> QED BY <1>0, <1>b, <2>1, <2>2, <2>3
<1>5. CASE DoOpenRead
  <2>1. Receive("FtpOpenRead") /\ UNCHANGED dl
    BY <1>5 DEF DoOpenRead, Answer
  <2>2. m \in Command /\ m.op = "FtpOpenRead" /\ m.file \in File /\ m.arg \in Nat
    BY <1>a, <2>1 DEF Lane, Command
  <2>3. PICK ok \in BOOLEAN : xfer' = [xfer EXCEPT ![m.who] = Opened(m.file, m.arg, ok)]
    BY <1>5, <1>a, <2>1, Zenon DEF DoOpenRead, Answer
  <2> DEFINE s == Opened(m.file, m.arg, ok)
  <2>4. s \in {Opened(m.file, m.arg, TRUE), Closed} /\ IsSlot(s)
    BY <2>2, SlotKept, Zenon
  <2> HIDE DEF s
  <2>5. Makes(m, xfer[m.who], s, ftpRes')
    BY <2>2, <2>4, Zenon DEF Makes
  <2>6. "FtpOpenRead" \in FtpOp /\ "FtpOpenRead" \in ResOp
    BY DEF FtpOp, ResOp
  <2> QED BY <1>c, <2>1, <2>3, <2>4, <2>5, <2>6, Zenon DEF s
<1>6. CASE DoReadChunk
  <2>1. Receive("FtpReadChunk") /\ UNCHANGED <<dl, ftpRes>>
    BY <1>6 DEF DoReadChunk
  <2>2. m \in Command /\ m.op = "FtpReadChunk" /\ m.who \in Ftp
    BY <1>a, <2>1 DEF Lane, FtpOp
  <2>3. PICK ok \in BOOLEAN : xfer' = [xfer EXCEPT ![m.who] = NextChunk(xfer[m.who], ok)]
    BY <1>6, <1>a, <2>1, Zenon DEF DoReadChunk
  <2> DEFINE s == NextChunk(xfer[m.who], ok)
  <2>4. IsSlot(s)
    BY <1>0, <2>2, SlotKept, Zenon
  <2>5. Makes(m, xfer[m.who], s, ftpRes')
    BY <2>2 DEF Makes
  <2>6. "FtpReadChunk" \in FtpOp
    BY DEF FtpOp
  <2> HIDE DEF s
  <2> QED BY <1>c, <2>1, <2>3, <2>4, <2>5, <2>6, Zenon DEF s
<1>7. CASE DoOpenWrite
  <2>1. Receive("FtpOpenWrite") /\ UNCHANGED dl
    BY <1>7 DEF DoOpenWrite, Answer
  <2>2. m \in Command /\ m.op = "FtpOpenWrite"
    BY <1>a, <2>1
  <2>3. PICK ok \in BOOLEAN :
          /\ xfer' = [xfer EXCEPT ![m.who] = [Closed EXCEPT !.wr = IF ok THEN m.file ELSE NoFile]]
          /\ ftpRes' = ok
    BY <1>7, <1>a, <2>1, Zenon DEF DoOpenWrite, Answer
  <2> DEFINE s == [Closed EXCEPT !.wr = IF ok THEN m.file ELSE NoFile]
  <2>4. IsSlot(s)
    BY SlotKept, Zenon
  <2>5. Makes(m, xfer[m.who], s, ftpRes')
    BY <2>2, <2>3 DEF Makes
  <2>6. "FtpOpenWrite" \in FtpOp /\ "FtpOpenWrite" \in ResOp
    BY DEF FtpOp, ResOp
  <2> HIDE DEF s
  <2> QED BY <1>c, <2>1, <2>3, <2>4, <2>5, <2>6, Zenon DEF s
<1>8. CASE DoWriteChunk
  <2>1. Receive("FtpWriteChunk") /\ UNCHANGED <<dl, ftpRes>>
    BY <1>8 DEF DoWriteChunk
  <2>2. m \in Command /\ m.op = "FtpWriteChunk" /\ m.who \in Ftp
    BY <1>a, <2>1 DEF Lane, FtpOp
  <2> DEFINE w == xfer[m.who]
             s(g) == [w EXCEPT !.written = IF g /\ w.wr # NoFile THEN @ + 1 ELSE @, !.werr = @ \/ ~g]
  <2>3. PICK ok \in BOOLEAN :
          xfer' = [xfer EXCEPT ![m.who].written = IF ok /\ w.wr # NoFile THEN @ + 1 ELSE @,
                               ![m.who].werr = @ \/ ~ok]
    BY <1>8, <1>a, <2>1, Zenon DEF DoWriteChunk
  <2>7. xfer' = [xfer EXCEPT ![m.who] = s(ok)]
    BY <1>0, <2>2, <2>3, Zenon DEF IsSlot
  <2>4. IsSlot(s(ok))
    BY <1>0, <2>2, SlotKept, Zenon
  <2>5. Makes(m, xfer[m.who], s(ok), ftpRes')
    BY <2>2, Zenon DEF Makes
  <2>6. "FtpWriteChunk" \in FtpOp
    BY DEF FtpOp
  <2> HIDE DEF s, w
  <2> QED BY <1>c, <2>1, <2>4, <2>5, <2>6, <2>7, Zenon
<1>9. CASE DoCloseWrite
  <2>1. Receive("FtpCloseWrite") /\ UNCHANGED dl
    BY <1>9 DEF DoCloseWrite, Answer
  <2>2. m \in Command /\ m.op = "FtpCloseWrite" /\ m.who \in Ftp
    BY <1>a, <2>1 DEF Lane, FtpOp
  <2> DEFINE w == xfer[m.who]
             s(g) == [w EXCEPT !.wr = NoFile, !.written = IF g THEN @ ELSE 0]
  <2>3. PICK ok \in BOOLEAN : xfer' = [xfer EXCEPT ![m.who] = s(ok)] /\ ftpRes' = (ok /\ ~w.werr)
    BY <1>9, <1>a, <2>1, Zenon DEF DoCloseWrite, Answer
  <2>4. IsSlot(s(ok))
    BY <1>0, <2>2, SlotKept, Zenon
  <2>5. Makes(m, xfer[m.who], s(ok), ftpRes')
    BY <2>2, <2>3, Zenon DEF Makes
  <2>6. "FtpCloseWrite" \in FtpOp /\ "FtpCloseWrite" \in ResOp
    BY DEF FtpOp, ResOp
  <2> HIDE DEF s, w
  <2> QED BY <1>c, <2>1, <2>3, <2>4, <2>5, <2>6, Zenon
<1> QED
  BY <1>1, <1>2, <1>3, <1>4, <1>5, <1>6, <1>7, <1>8, <1>9 DEF StorageTask

\* BaseInv while the storage task works, and when others add to the queues.
LEMMA TaskBase ==
  ASSUME BaseInv, StorageTask \/ Other
  PROVE  BaseInv'
<1>a. WakeInv'
  BY StorageStep, OtherStep DEF BaseInv
<1>0. /\ queue \in Seq(Command) /\ xfer = [c \in Ftp |-> xfer[c]] /\ IsSlot(dl)
      /\ \A c \in Ftp : IsSlot(xfer[c]) /\ mode \in {"mounted", "degraded"}
      /\ \A i \in 1..Len(queue) : Lane(queue[i])
      /\ \A c \in Client : IsJob(job[c]) /\ KindOk(job[c])
      /\ mode = "degraded" => fresh = {}
      /\ \A c \in Client : c \in fresh /\ In(queue, c) => running
      /\ mode \in {"mounted", "degraded"}
  BY DEF BaseInv, WakeInv
<1>1. ASSUME queue # <<>>, queue' = Tail(queue)
      PROVE  \A i \in 1..Len(queue') : Lane(queue'[i])
  <2>1. \A i \in 1..Len(queue') : i + 1 \in 1..Len(queue) /\ queue'[i] = queue[i + 1]
    BY <1>0, <1>1
  <2> QED BY <1>0, <2>1
<1>2. \A c : In(queue', c) => queue' # <<>>
  BY DEF In
<1>3. CASE Handles
  <2>1. /\ queue # <<>> /\ queue' = Tail(queue) /\ running' = (queue' # <<>>)
        /\ UNCHANGED <<mode, job>> /\ xfer' = [c \in Ftp |-> xfer'[c]] /\ IsSlot(dl')
        /\ \A c \in Ftp : IsSlot(xfer'[c])
    BY <1>3 DEF Handles
  <2>2. \A c \in Client : c \in fresh' /\ In(queue', c) => running'
    BY <1>2, <2>1, Zenon
  <2> QED BY <1>a, <1>0, <1>1, <2>1, <2>2, BaseFrom
<1>4. CASE DoCtrl
  <2>1. /\ UNCHANGED <<mode, queue, fresh, dl, xfer, job>>
        /\ running' = (ctrl > 1 \/ queue # <<>>)
    BY <1>4 DEF DoCtrl
  <2>2. \A c \in Client : c \in fresh' /\ In(queue', c) => running'
    BY <1>2, <2>1, Zenon
  <2> QED BY <1>a, <1>0, <2>1, <2>2, BaseFrom
<1>5. CASE DoDegraded
  <2>1. /\ UNCHANGED <<mode, fresh, dl, xfer, job>> /\ mode = "degraded"
        /\ queue # <<>> /\ queue' = Tail(queue)
    BY <1>5 DEF DoDegraded
  <2>2. fresh' = {}
    BY <1>0, <2>1
  <2> QED BY <1>a, <1>0, <1>1, <2>1, <2>2, BaseFrom
<1>6. CASE Other
  <2>1. UNCHANGED <<mode, running, fresh, dl, xfer, job>>
    BY <1>6 DEF Other
  <2>2. queue' = queue \/ \E op \in {"Sync", "Write"} : queue' = Append(queue, Cmd(op, Nobody, NoFile, 0))
    BY <1>6 DEF Other
  <2>3. ASSUME NEW op \in {"Sync", "Write"}
        PROVE  LET m == Cmd(op, Nobody, NoFile, 0)
               IN  m \in Command /\ Lane(m) /\ m.who = Nobody
    BY DEF Cmd, Command, Op, Lane, FtpOp, WebOp
  <2>4. queue' = queue \/ \E m \in Command : Lane(m) /\ m.who = Nobody /\ queue' = Append(queue, m)
    BY <2>2, <2>3
  <2>5. \A i \in 1..Len(queue') : Lane(queue'[i])
    <3>1. ASSUME NEW m \in Command, Lane(m), queue' = Append(queue, m), NEW i \in 1..Len(queue')
          PROVE  Lane(queue'[i])
      <4>1. (i \in 1..Len(queue) /\ queue'[i] = queue[i]) \/ queue'[i] = m
        BY <1>0, <3>1
      <4> QED BY <1>0, <3>1, <4>1
    <3> QED BY <1>0, <2>4, <3>1
  <2>6. ASSUME NEW c \in Client, In(queue', c) PROVE In(queue, c)
    <3>1. c # Nobody
      BY RpcAssumption
    <3>2. queue' = queue \/ \E m \in Command : m.who # c /\ queue' = Append(queue, m)
      BY <2>4, <3>1
    <3>3. Cmd("Sync", c, NoFile, 0).who = c
      BY CmdFields
    <3> QED BY <1>0, <2>6, <3>2, <3>3, OthersQueue, SMTT(40), ZenonT(20)
  <2>7. \A c \in Client : c \in fresh' /\ In(queue', c) => running'
    BY <1>0, <2>1, <2>6
  <2> QED BY <1>a, <1>0, <2>1, <2>5, <2>7, BaseFrom
<1> QED
  BY <1>3, <1>4, <1>5, <1>6, Handling

\* What a step of the storage task or of the other tasks means to caller c, whose
\* job it leaves alone: QUEUE changes by commands of others, or c's own is handled.
LEMMA TaskEffect ==
  ASSUME BaseInv, StorageTask \/ Other, mode' = "mounted", NEW c \in Client
  PROVE  /\ mode = "mounted" /\ UNCHANGED job
         /\ \/ Handles /\ queue[1].who = c
            \/ /\ \/ queue' = queue
                  \/ \E m \in Command : m.who # c /\ queue' = Append(queue, m)
                  \/ queue # <<>> /\ queue[1].who # c /\ queue' = Tail(queue)
               /\ Handles \/ UNCHANGED <<xfer, dl, ftpRes>>
<1>1. CASE Handles
  BY <1>1 DEF Handles
<1>2. CASE DoCtrl
  BY <1>2 DEF DoCtrl
<1>3. CASE DoDegraded
  BY <1>3 DEF DoDegraded
<1>4. CASE Other
  <2>1. UNCHANGED <<mode, xfer, dl, ftpRes, job>>
    BY <1>4 DEF Other
  <2>2. queue' = queue \/ \E op \in {"Sync", "Write"} : queue' = Append(queue, Cmd(op, Nobody, NoFile, 0))
    BY <1>4 DEF Other
  <2>3. ASSUME NEW op \in {"Sync", "Write"}
        PROVE  Cmd(op, Nobody, NoFile, 0) \in Command /\ Cmd(op, Nobody, NoFile, 0).who # c
    BY RpcAssumption DEF Cmd, Command, Op
  <2> QED BY <2>1, <2>2, <2>3
<1> QED
  BY <1>1, <1>2, <1>3, <1>4, Handling

\* The storage task and the other tasks leave the jobs alone, and undo no damage.
LEMMA TaskKeeps ==
  ASSUME BaseInv, StorageTask \/ Other
  PROVE  UNCHANGED <<mode, job>> /\ \A c \in spoiled : c \in spoiled'
<1>1. CASE Handles
  BY <1>1 DEF Handles
<1> QED
  BY <1>1, Handling DEF DoCtrl, DoDegraded, Other

\* RETR while the storage task works.
LEMMA TaskRetr ==
  ASSUME BaseInv, RetrInv, StorageTask \/ Other
  PROVE  RetrInv'
<1>1. UNCHANGED <<mode, job>> /\ \A c \in spoiled : c \in spoiled'
  BY TaskKeeps
<1>2. ASSUME NEW c \in Ftp, c \notin spoiled, mode' = "mounted"
      PROVE  RetrAt(queue, c, job[c], xfer[c])'
  <2>0. c \in Client /\ queue \in Seq(Command) /\ IsSlot(xfer[c])
    BY Zenon DEF Client, BaseInv, WakeInv
  <2>2. RetrAt(queue, c, job[c], xfer[c])
    BY <1>1, <1>2 DEF RetrInv, RetrNow
  <2>3. CASE Handles /\ queue[1].who = c
    <3>1. queue # <<>> /\ queue' = Tail(queue) /\ Makes(queue[1], xfer[c], xfer'[c], ftpRes')
      BY <2>3 DEF Handles
    <3>2. /\ queue[1].op = "FtpOpenRead" => xfer'[c] \in {Opened(queue[1].file, queue[1].arg, TRUE), Closed}
          /\ queue[1].op = "FtpReadChunk" => \E ok \in BOOLEAN : xfer'[c] = NextChunk(xfer[c], ok)
      BY <3>1, Zenon DEF Makes
    <3>3. RetrAt(Tail(queue), c, job[c], xfer'[c])
      BY <2>0, <2>2, <2>3, <3>1, <3>2, RetrTaken, Zenon
    <3> QED BY <1>1, <3>1, <3>3
  <2>4. CASE ~(Handles /\ queue[1].who = c)
    <3>1. /\ \/ queue' = queue
             \/ \E m \in Command : m.who # c /\ queue' = Append(queue, m)
             \/ queue # <<>> /\ queue[1].who # c /\ queue' = Tail(queue)
          /\ Handles \/ UNCHANGED <<xfer, dl, ftpRes>>
      BY <1>2, <2>0, <2>4, TaskEffect
    <3>2. xfer'[c] = xfer[c]
      BY <2>4, <3>1 DEF Handles
    <3>3. RetrAt(queue', c, job[c], xfer[c])
      BY <2>0, <2>2, <3>1, RetrKept
    <3> QED BY <1>1, <3>2, <3>3
  <2> QED BY <2>3, <2>4
<1>3. ASSUME NEW c \in Ftp, c \notin spoiled PROVE RetrTrue(job[c])'
  BY <1>1, <1>3 DEF RetrInv, RetrTrue
<1> QED
  BY <1>1, <1>2, <1>3 DEF RetrInv, RetrNow

\* The fields of a job that goes on.
LEMMA ToFields ==
  ASSUME BaseInv, NEW c \in Client, NEW p
  PROVE  LET j == job[c]
             t == To(c, p)
         IN  /\ IsJob(t) /\ t.pc = p /\ t.kind = j.kind /\ t.file = j.file /\ t.from = j.from
             /\ t.size = j.size /\ t.n = j.n /\ t.good = j.good /\ t.bad = j.bad /\ t.ans = j.ans
<1>1. IsJob(job[c])
  BY DEF BaseInv
<1> QED
  BY <1>1 DEF To, IsJob

\* The fields of a job that is over.
LEMMA OverFields ==
  /\ IsJob(Over) /\ KindOk(Over) /\ Over.pc = "idle" /\ Over.pc \notin Waiting
  /\ Over.kind = "none" /\ Over.ans = "over" /\ Over.good = TRUE
BY DEF Over, NoJob, IsJob, KindOk, RetrPc, StorPc, Waiting

\* A caller's step, as seen by every session's RETR.
LEMMA MovesRetr ==
  ASSUME BaseInv, RetrInv, NEW c \in Client, NEW j, Moves(c, j),
         c \in Ftp /\ c \notin spoiled' => RetrMoves(c, j)
  PROVE  BaseInv' /\ RetrInv'
<1>1. /\ BaseInv' /\ UNCHANGED <<mode, xfer>> /\ job'[c] = j
      /\ \A d \in Client \ {c} :
           /\ job'[d] = job[d] /\ (d \in spoiled => d \in spoiled')
           /\ queue' = queue \/ \E m \in Command : m.who # d /\ queue' = Append(queue, m)
  BY CallerStep
<1>2. ASSUME NEW d \in Ftp, d \notin spoiled'
      PROVE  (mode' = "mounted" => RetrAt(queue', d, job'[d], xfer'[d])) /\ RetrTrue(job'[d])
  <2>1. CASE d = c
    BY <1>1, <1>2, <2>1 DEF RetrMoves
  <2>2. CASE d # c
    <3>1. /\ d \in Client /\ job'[d] = job[d] /\ queue \in Seq(Command) /\ d \notin spoiled
          /\ queue' = queue \/ \E m \in Command : m.who # d /\ queue' = Append(queue, m)
      BY <1>1, <1>2, <2>2, Zenon DEF Client, BaseInv, WakeInv
    <3>2. (mode = "mounted" => RetrAt(queue, d, job[d], xfer[d])) /\ RetrTrue(job[d])
      BY <3>1 DEF RetrInv, RetrNow
    <3>3. mode = "mounted" => RetrAt(queue', d, job[d], xfer[d])
      BY <3>1, <3>2, RetrKept
    <3> QED BY <1>1, <3>1, <3>2, <3>3
  <2> QED BY <2>1, <2>2
<1>3. RetrInv'
  BY <1>2 DEF RetrInv, RetrNow
<1> QED
  BY <1>1, <1>3

\* A command sent without a drop is behind QUEUE.
LEMMA Sent ==
  ASSUME NEW c, c \notin spoiled', NEW m, NEW j, Call(c, m, j)
  PROVE  queue' = Append(queue, m)
BY DEF Call

\* A session that ends a job without a claim, with or without a command behind it.
LEMMA ReadingOver ==
  ASSUME NEW c \in Ftp, ~running,
         Go(c, Over) \/ Call(c, Cmd("FtpCloseWrite", c, NoFile, 0), Over)
  PROVE  Reading(c)
<1>1. c \in Client /\ "FtpCloseWrite" \in Op /\ 0 \in Nat
  BY DEF Client, Op
<1> DEFINE m == Cmd("FtpCloseWrite", c, NoFile, 0)
<1>2. m \in Command /\ m.who = c /\ Lane(m)
  BY <1>1, OwnCommand, CmdFields DEF Lane, FtpOp, WebOp
<1>3. Moves(c, Over)
  BY <1>2, OverFields DEF Moves
<1>4. RetrMoves(c, Over)
  BY OverFields, Zenon DEF RetrMoves, RetrAt, RetrTrue
<1> QED
  BY <1>3, <1>4, OverFields, Zenon DEF Reading

\* When a caller is released QUEUE holds no command of its own, and the file system
\* is mounted.
LEMMA Released ==
  ASSUME BaseInv, NEW c \in Client, NEW pc, Woken(c, pc)
  PROVE  ~running /\ job[c].pc = pc /\ ~In(queue, c) /\ mode = "mounted"
BY DEF BaseInv, WakeInv, Woken, At, Free

\* RETR begins.
LEMMA RetrBegins ==
  ASSUME BaseInv, NEW c \in Ftp, NEW f \in File, NEW k \in Rests, RetrOpen(c, f, k)
  PROVE  Reading(c)
<1> DEFINE j == [NoJob EXCEPT !.kind = "retr", !.pc = "ropen", !.file = f, !.from = k]
           m == Cmd("FtpOpenRead", c, f, k)
<1>0. c \in Client /\ k \in Nat /\ queue \in Seq(Command)
  BY RpcAssumption, Zenon DEF Client, BaseInv, WakeInv
<1>1. IsJob(j) /\ j.kind = "retr" /\ j.pc = "ropen" /\ j.file = f /\ j.from = k /\ j.n = 0 /\ j.good
  BY DEF NoJob, IsJob
<1>2. m \in Command /\ m.who = c
  BY <1>0, OwnCommand DEF Op
<1>3. Lane(m)
  BY CmdFields DEF Lane, FtpOp, WebOp
<1>4. Call(c, m, j) /\ ~running
  BY DEF RetrOpen, Idle, At, Free
<1> HIDE DEF j, m
<1>5. c \notin spoiled' => queue' = Append(queue, m)
  BY <1>4, Sent
<1>6. c \notin spoiled' => Last(queue', c, m)
  BY <1>0, <1>2, <1>5, OwnSent, Zenon
<1>7. ASSUME c \notin spoiled' PROVE RetrAt(queue', c, j, xfer[c])
  <2>1. Last(queue', c, Cmd("FtpOpenRead", c, j.file, j.from))
    BY <1>1, <1>6, <1>7 DEF m
  <2>2. Reads(j)
    BY <1>0, <1>1 DEF Reads
  <2> QED BY <1>1, <2>1, <2>2, Zenon DEF RetrAt
<1>8. RetrTrue(j)
  BY <1>1 DEF RetrTrue
<1>9. Moves(c, j)
  BY <1>1, <1>2, <1>3, <1>4 DEF Moves, KindOk, RetrPc, StorPc, Waiting
<1> QED
  BY <1>1, <1>7, <1>8, <1>9 DEF Reading, RetrMoves

\* The file is open: its size, from the offset on, is known.
LEMMA RetrIsOpen ==
  ASSUME BaseInv, NEW c \in Ftp, RetrOpened(c)
  PROVE  Reading(c)
<1> DEFINE r == xfer[c]
           o == job[c]
<1>0. c \in Client
  BY DEF Client
<1>1. ~running /\ o.pc = "ropen" /\ ~In(queue, c) /\ mode = "mounted"
  BY <1>0, Released DEF RetrOpened
<1>2. IsJob(o) /\ o.kind = "retr"
  BY <1>0, <1>1 DEF BaseInv, KindOk, RetrPc
<1>3. RetrNow(c) => RetrAt(queue, c, o, r)
  BY <1>1 DEF RetrNow
<1>a. RetrNow(c) =>
      /\ Reads(o) /\ o.good /\ o.n = 0
      /\ \/ Last(queue, c, Cmd("FtpOpenRead", c, o.file, o.from))
         \/ ~In(queue, c) /\ r \in {Opened(o.file, o.from, TRUE), Closed}
  BY <1>1, <1>3, Zenon DEF RetrAt
<1>b. ASSUME Last(queue, c, Cmd("FtpOpenRead", c, o.file, o.from)) PROVE In(queue, c)
  BY <1>b, CmdFields DEF Last, In
<1>4. RetrNow(c) => Reads(o) /\ o.good /\ o.n = 0 /\ r \in {Opened(o.file, o.from, TRUE), Closed}
  BY <1>1, <1>a, <1>b, Zenon
<1>5. CASE ftpRes /\ xfer[c].open
  <2> DEFINE j == [To(c, "rdata") EXCEPT !.size = r.size]
  <2>1. Go(c, j)
    BY <1>5 DEF RetrOpened
  <2>2. IsJob(To(c, "rdata")) /\ To(c, "rdata").pc = "rdata" /\ To(c, "rdata").kind = "retr"
        /\ To(c, "rdata").file = o.file /\ To(c, "rdata").from = o.from /\ To(c, "rdata").n = o.n
        /\ To(c, "rdata").good = o.good
    BY <1>0, <1>2, ToFields, ZenonT(40)
  <2>3. /\ IsJob(j) /\ j.pc = "rdata" /\ j.kind = "retr" /\ j.file = o.file /\ j.from = o.from
        /\ j.n = o.n /\ j.good = o.good /\ j.size = r.size
    BY <2>2 DEF IsJob
  <2> HIDE DEF j
  <2>4. RetrNow(c) => r = Opened(o.file, o.from, TRUE)
    <3>1. Closed.open = FALSE
      BY DEF Closed
    <3> QED BY <1>4, <1>5, <3>1, Zenon
  <2>5. RetrNow(c) =>
        /\ r.size = Left(o) /\ r.open /\ r.eof = FALSE /\ r.h = o.file /\ r.base = o.from /\ r.sent = 0
        /\ r.chunk = <<>>
    BY <2>4, ZenonT(40) DEF Opened, Closed, Left
  <2> HIDE DEF r, o
  <2>6. RetrNow(c) => Left(j) = Left(o) /\ Reads(j)
    BY <1>4, <2>3 DEF Left, Reads
  <2>7. RetrNow(c) => Ready(r, j)
    BY <1>4, <2>3, <2>5, <2>6 DEF Ready
  <2>8. queue' = queue
    BY <2>1 DEF Go
  <2>9. ASSUME RetrNow(c) PROVE RetrAt(queue', c, j, r) /\ RetrTrue(j)
    BY <2>9, <1>1, <2>3, <2>6, <2>7, <2>8 DEF RetrAt, RetrTrue
  <2>10. Moves(c, j)
    BY <1>1, <2>1, <2>3 DEF Moves, KindOk, RetrPc, StorPc, Waiting
  <2> QED BY <2>3, <2>9, <2>10 DEF Reading, RetrMoves, r
<1>6. CASE ~(ftpRes /\ xfer[c].open)
  <2>1. Go(c, Over)
    BY <1>6 DEF RetrOpened
  <2> QED BY <1>1, <2>1, ReadingOver
<1> QED
  BY <1>5, <1>6

\* The data connection opens or does not; the next chunk is asked for.
LEMMA RetrAsks ==
  ASSUME BaseInv, NEW c \in Ftp, RetrData(c) \/ RetrNext(c)
  PROVE  Reading(c)
<1> DEFINE r == xfer[c]
           o == job[c]
<1>0. c \in Client /\ queue \in Seq(Command)
  BY Zenon DEF Client, BaseInv, WakeInv
<1>1. ~running /\ o.pc \in {"rdata", "rnext"}
  BY DEF RetrData, RetrNext, At, Free
<1>2. IsJob(o) /\ o.kind = "retr"
  BY <1>0, <1>1 DEF BaseInv, KindOk, RetrPc
<1>3. RetrNow(c) /\ mode = "mounted" => Reads(o) /\ ~In(queue, c) /\ (r.err \/ Ready(r, o))
  BY <1>1, ZenonT(40) DEF RetrNow, RetrAt
<1>4. ASSUME NEW p, NEW s, Reads(o), s.err \/ Ready(s, o)
      PROVE  Reads(To(c, p)) /\ (s.err \/ Ready(s, To(c, p)))
  BY <1>0, <1>4, ToFields DEF Reads, Ready, Left
<1>5. ASSUME NEW op \in {"FtpCloseWrite", "FtpReadChunk"}
      PROVE  LET m == Cmd(op, c, NoFile, 0) IN m \in Command /\ m.who = c /\ Lane(m)
  <2>1. op \in Op
    BY DEF Op
  <2> QED BY <1>0, <2>1, OwnCommand, CmdFields DEF Lane, FtpOp, WebOp
<1>6. ASSUME Go(c, To(c, "rnext"))
      PROVE  Reading(c)
  <2> DEFINE j == To(c, "rnext")
  <2>1. IsJob(j) /\ j.pc = "rnext" /\ j.kind = "retr"
    BY <1>0, <1>2, ToFields
  <2>2. queue' = queue
    BY <1>6 DEF Go
  <2>3. RetrNow(c) /\ mode = "mounted" => Reads(j) /\ (r.err \/ Ready(r, j))
    BY <1>3, <1>4, SMTT(40), ZenonT(20)
  <2> HIDE DEF j, r
  <2>4. RetrNow(c) => (mode = "mounted" => RetrAt(queue', c, j, r)) /\ RetrTrue(j)
    BY <1>3, <2>1, <2>2, <2>3, SMTT(40), ZenonT(20) DEF RetrAt, RetrTrue
  <2>5. Moves(c, j)
    BY <1>1, <1>6, <2>1 DEF Moves, KindOk, RetrPc, StorPc, Waiting, j
  <2> QED BY <2>1, <2>4, <2>5 DEF Reading, RetrMoves, r
<1>7. ASSUME Call(c, Cmd("FtpCloseWrite", c, NoFile, 0), Over) PROVE Reading(c)
  BY <1>1, <1>7, ReadingOver
<1>8. ASSUME Call(c, Cmd("FtpReadChunk", c, NoFile, 0), To(c, "rchunk"))
      PROVE  Reading(c)
  <2> DEFINE j == To(c, "rchunk")
             m == Cmd("FtpReadChunk", c, NoFile, 0)
  <2>1. IsJob(j) /\ j.pc = "rchunk" /\ j.kind = "retr"
    BY <1>0, <1>2, ToFields
  <2>2. m \in Command /\ m.who = c /\ Lane(m)
    BY <1>5
  <2>3. RetrNow(c) /\ mode = "mounted" => Reads(j) /\ (r.err \/ Ready(r, j))
    BY <1>3, <1>4
  <2>4. c \notin spoiled' => queue' = Append(queue, m)
    BY <1>8, Sent
  <2>5. RetrNow(c) /\ c \notin spoiled' /\ mode = "mounted" => Sole(queue', c, m)
    BY <1>0, <1>3, <2>2, <2>4, OwnSent, Zenon
  <2>6. Moves(c, j)
    BY <1>1, <1>8, <2>1, <2>2 DEF Moves, KindOk, RetrPc, StorPc, Waiting
  <2> HIDE DEF j, r
  <2>7. RetrNow(c) /\ c \notin spoiled' => (mode = "mounted" => RetrAt(queue', c, j, r)) /\ RetrTrue(j)
    BY <2>1, <2>3, <2>5 DEF RetrAt, RetrTrue
  <2> QED BY <2>1, <2>6, <2>7 DEF Reading, RetrMoves, r
<1> QED
  BY <1>6, <1>7, <1>8 DEF RetrData, RetrNext

\* What the job becomes when its caller has written the buffer.
LEMMA Delivers ==
  ASSUME BaseInv, NEW c \in Client, NEW r, Reads(job[c])
  PROVE  /\ Reads(Deliver(c, r)) /\ Deliver(c, r).file = job[c].file
         /\ Deliver(c, r).from = job[c].from /\ Deliver(c, r).size = job[c].size
         /\ r.chunk = <<>> => Deliver(c, r) = job[c]
         /\ r.chunk = <<job[c].file, job[c].from + job[c].n + 1>>
              => Deliver(c, r).n = job[c].n + 1 /\ Deliver(c, r).good = job[c].good
<1> DEFINE j == job[c]
           d == Deliver(c, r)
<1>1. IsJob(j) /\ j.n \in Nat /\ <<>> # <<j.file, j.from + j.n + 1>>
  BY DEF BaseInv, Reads
<1>2. CASE r.chunk = <<>>
  BY <1>1, <1>2 DEF Deliver
<1>3. CASE r.chunk = <<j.file, j.from + j.n + 1>>
  <2>1. d = [j EXCEPT !.n = @ + 1]
    BY <1>1, <1>3 DEF Deliver
  <2>2. d.file = j.file /\ d.from = j.from /\ d.size = j.size /\ d.n = j.n + 1 /\ d.good = j.good
    BY <1>1, <2>1 DEF IsJob
  <2> HIDE DEF d, j
  <2> QED BY <1>1, <1>3, <2>2 DEF Reads, d, j
<1>4. CASE r.chunk # <<>> /\ r.chunk # <<j.file, j.from + j.n + 1>>
  <2>1. d = [j EXCEPT !.good = FALSE]
    BY <1>4 DEF Deliver
  <2>2. d.file = j.file /\ d.from = j.from /\ d.size = j.size /\ d.n = j.n
    BY <1>1, <2>1, SMTT(40), ZenonT(20) DEF IsJob
  <2> HIDE DEF d, j
  <2> QED BY <1>1, <1>4, <2>2 DEF Reads, d, j
<1> QED
  BY <1>2, <1>3, <1>4

\* When the buffer held the next chunk or the end of the file, the job is complete
\* or the slot is ready for the chunk after.
LEMMA AfterChunk ==
  ASSUME BaseInv, NEW c \in Client, NEW r, IsSlot(r), Reads(job[c]), Holds(r, job[c])
  PROVE  LET d == Deliver(c, r)
         IN  /\ Reads(d)
             /\ \/ /\ r.eof /\ (r.chunk = <<>> \/ r.sent >= d.size) /\ d.good
                   /\ d.from + d.n >= Size[d.file] /\ (r.size > 0 => d.n = r.size)
                \/ /\ ~r.eof /\ r.chunk # <<>> /\ ~(r.sent >= d.size) /\ Ready(r, d)
<1> DEFINE o == job[c]
           d == Deliver(c, r)
<1>1. /\ Reads(d) /\ d.file = o.file /\ d.from = o.from /\ d.size = o.size
      /\ r.chunk = <<>> => d = o
      /\ r.chunk = <<o.file, o.from + o.n + 1>> => d.n = o.n + 1 /\ d.good = o.good
  BY Delivers, Zenon
<1>2. Reads(o) /\ Holds(r, o)
  OBVIOUS
<1> HIDE DEF d, o
<1>3. /\ o.file \in File /\ o.from \in Nat /\ o.n \in Nat /\ Size[o.file] \in Nat
      /\ r.sent \in Nat /\ r.size \in Nat /\ <<>> # <<o.file, o.from + o.n + 1>>
  BY <1>2, RpcAssumption DEF Reads, IsSlot
<1>4. o.good /\ o.size = r.size /\ r.size = Left(o) /\ r.open /\ r.base = o.from
  BY <1>2 DEF Holds
<1>5. CASE r.size = 0 /\ o.n = 0 /\ r.sent = 0 /\ r.eof /\ r.chunk = <<>>
  <2>1. o.from >= Size[o.file]
    BY <1>3, <1>4, <1>5 DEF Left
  <2>2. o.from + o.n >= Size[o.file] /\ ~(r.size > 0)
    BY <1>3, <1>5, <2>1, SMTT(40), ZenonT(20)
  <2> QED BY <1>1, <1>4, <1>5, <2>2 DEF d
<1>6. CASE /\ r.chunk = <<o.file, o.from + o.n + 1>> /\ r.sent = o.n + 1 /\ r.sent <= r.size
           /\ r.eof <=> r.sent >= r.size
           /\ r.eof \/ r.h = o.file
  <2>1. d.n = o.n + 1 /\ d.good /\ d.size = r.size /\ r.chunk # <<>>
    BY <1>1, <1>3, <1>4, <1>6, ZenonT(40)
  <2>2. CASE r.sent >= r.size
    <3>1. o.n + 1 = r.size
      BY <1>3, <1>6, <2>2
    <3>2. o.from + Left(o) >= Size[o.file]
      BY <1>3 DEF Left
    <3>3. o.from + (o.n + 1) >= Size[o.file]
      BY <1>4, <3>1, <3>2
    <3> QED BY <1>1, <1>6, <2>1, <2>2, <3>1, <3>3, SMTT(40), ZenonT(20) DEF d
  <2>3. CASE ~(r.sent >= r.size)
    <3>1. d.n # 0 /\ d.n < r.size /\ d.n = r.sent /\ ~r.eof /\ r.h = d.file
      BY <1>1, <1>3, <1>6, <2>1, <2>3
    <3>2. Left(d) = Left(o)
      BY <1>1 DEF Left
    <3>3. Ready(r, d)
      BY <1>1, <1>4, <2>1, <3>1, <3>2 DEF Ready
    <3> QED BY <1>1, <2>1, <2>3, <3>1, <3>3, SMTT(40), ZenonT(20) DEF d
  <2> QED BY <2>2, <2>3
<1> QED
  BY <1>2, <1>5, <1>6 DEF Holds

\* A chunk is delivered: the transfer goes on with the next one, or ends, and then
\* with 426 or with everything sent.
LEMMA RetrDelivers ==
  ASSUME BaseInv, NEW c \in Ftp, RetrChunk(c)
  PROVE  Reading(c)
<1> DEFINE r == xfer[c]
           o == job[c]
           d == Deliver(c, r)
           last == r.eof /\ (r.chunk = <<>> \/ r.sent >= d.size)
           e == [d EXCEPT !.pc = "idle", !.ans = "226"]
           t == [d EXCEPT !.pc = "rnext"]
<1>0. c \in Client /\ IsSlot(r)
  BY DEF Client, BaseInv
<1>1. ~running /\ o.pc = "rchunk" /\ ~In(queue, c) /\ mode = "mounted"
  BY <1>0, Released DEF RetrChunk
<1>2. o.kind = "retr" /\ IsJob(d) /\ d.kind = o.kind
  <2>1. IsJob(o) /\ o.kind = "retr"
    BY <1>0, <1>1 DEF BaseInv, KindOk, RetrPc
  <2> QED BY <2>1 DEF Deliver, IsJob
<1>3. ASSUME RetrNow(c) PROVE Reads(o) /\ (r.err \/ Holds(r, o))
  <2>1. ~Sole(queue, c, Cmd("FtpReadChunk", c, NoFile, 0))
    BY <1>1, CmdFields DEF Sole, In
  <2> QED BY <1>1, <1>3, <2>1, Zenon DEF RetrNow, RetrAt
<1>4. /\ last => Go(c, IF r.err THEN Over ELSE e)
      /\ ~last => Go(c, t)
  BY DEF RetrChunk, RetrEnd
<1>5. /\ IsJob(e) /\ e.pc = "idle" /\ e.kind = d.kind /\ e.file = d.file /\ e.from = d.from
      /\ e.n = d.n /\ e.good = d.good /\ e.ans = "226"
  BY <1>2 DEF IsJob
<1>6. /\ IsJob(t) /\ t.pc = "rnext" /\ t.kind = d.kind /\ t.file = d.file /\ t.from = d.from
      /\ t.n = d.n /\ t.good = d.good /\ t.size = d.size
  BY <1>2 DEF IsJob
<1>7. ASSUME RetrNow(c)
      PROVE  /\ Reads(d)
             /\ ~r.err => \/ last /\ d.good /\ d.from + d.n >= Size[d.file]
                          \/ ~last /\ Ready(r, d)
  <2>1. Reads(o) /\ (r.err \/ Holds(r, o))
    BY <1>3, <1>7
  <2>2. Reads(d)
    BY <1>0, <2>1, Delivers, Zenon
  <2> QED BY <1>0, <2>1, <2>2, AfterChunk, Zenon
<1> HIDE DEF d, e, t, o
<1>8. CASE last /\ ~r.err
  <2>1. Moves(c, e)
    BY <1>1, <1>2, <1>4, <1>5, <1>8 DEF Moves, KindOk, RetrPc, StorPc, Waiting
  <2>3. RetrNow(c) => RetrTrue(e)
    BY <1>5, <1>7, <1>8 DEF RetrTrue
  <2> QED BY <1>2, <1>5, <2>1, <2>3, Zenon DEF Reading, RetrMoves, RetrAt
<1>10. CASE last /\ r.err
  BY <1>1, <1>4, <1>10, ReadingOver
<1>9. CASE ~last
  <2>1. Moves(c, t)
    BY <1>1, <1>2, <1>4, <1>6, <1>9 DEF Moves, KindOk, RetrPc, StorPc, Waiting
  <2>2. RetrNow(c) => Reads(t) /\ (r.err \/ Ready(r, t))
    BY <1>6, <1>7, <1>9, SMTT(40), ZenonT(20) DEF Reads, Ready, Left
  <2>3. queue' = queue
    BY <1>4, SMTT(40), ZenonT(20) DEF Go
  <2>4. RetrNow(c) => RetrAt(queue', c, t, r) /\ RetrTrue(t)
    BY <1>1, <1>6, <2>2, <2>3 DEF RetrAt, RetrTrue
  <2> QED BY <1>2, <1>6, <2>1, <2>4 DEF Reading, RetrMoves
<1> QED
  BY <1>8, <1>9, <1>10

\* A timeout or a broken connection is no claim.
LEMMA RetrGivesUp ==
  ASSUME BaseInv, NEW c \in Ftp, RetrTimeout(c) \/ RetrGone(c)
  PROVE  Reading(c)
<1>1. ~running /\ Go(c, Over)
  BY DEF RetrTimeout, RetrGone, TimedOut, At, Free
<1> QED
  BY <1>1, ReadingOver

\* A command without a file that a caller of its lane sends.
LEMMA OwnLane ==
  ASSUME NEW c \in Client, NEW op \in Op, NEW f \in File \union {NoFile},
         op \in FtpOp => c \in Ftp, op \in WebOp => c \in Web,
         op \in {"FtpOpenRead", "FileOpen"} => f \in File
  PROVE  LET m == Cmd(op, c, f, 0) IN m \in Command /\ m.who = c /\ Lane(m)
<1>1. 0 \in Nat
  OBVIOUS
<1> QED
  BY <1>1, OwnCommand, CmdFields DEF Lane

\* The commands of an upload are the session's own.
LEMMA UploadOp ==
  ASSUME NEW c \in Ftp, NEW op \in {"FtpOpenWrite", "FtpCloseWrite", "FtpWriteChunk", "FtpPathOp"},
         NEW f \in File \union {NoFile}
  PROVE  LET m == Cmd(op, c, f, 0) IN m \in Command /\ m.who = c /\ Lane(m)
<1>1. op \in Op /\ op \notin WebOp /\ op \notin {"FtpOpenRead", "FileOpen"} /\ c \in Client
  BY DEF Op, WebOp, Client
<1> QED
  BY <1>1, OwnLane

\* A step of an upload or a path command.
LEMMA UploadGoes ==
  ASSUME NEW c \in Ftp, ~running, NEW j, IsJob(j), KindOk(j), j.kind \in {"stor", "path", "none"},
         \/ Go(c, j) /\ j.pc \notin Waiting
         \/ \E op \in {"FtpOpenWrite", "FtpCloseWrite", "FtpWriteChunk", "FtpPathOp"},
               f \in File \union {NoFile} : Call(c, Cmd(op, c, f, 0), j),
         StorNow(c) /\ c \notin spoiled' => StorMoves(c, j)
  PROVE  Uploads(c)
BY UploadOp DEF Moves, Uploads

\* Where nothing is claimed.
LEMMA NoClaim ==
  ASSUME NEW c, NEW j,
         \/ j.pc \in {"path", "abort"}
         \/ j.pc = "close" /\ j.bad
         \/ j.pc = "idle" /\ (j.kind # "stor" \/ j.ans # "226")
  PROVE  StorMoves(c, j)
BY Zenon DEF StorMoves, StorTrue, StorAt

\* Who uploads.
LEMMA UploadKind ==
  ASSUME BaseInv, NEW c \in Ftp
  PROVE  /\ job[c].pc \in StorPc => job[c].kind = "stor"
         /\ job[c].pc = "path" => job[c].kind = "path"
<1>1. c \in Client
  BY DEF Client
<1> QED
  BY <1>1 DEF BaseInv, KindOk

\* The end, without 226 to STOR.
LEMMA UploadEnds ==
  ASSUME NEW c \in Ftp, ~running, Go(c, Over)
  PROVE  Uploads(c)
<1>1. StorMoves(c, Over)
  BY OverFields, NoClaim
<1> QED
  BY <1>1, OverFields, UploadGoes

\* Going on within the upload.
LEMMA UploadTo ==
  ASSUME BaseInv, NEW c \in Ftp, NEW p \in StorPc, job[c].pc \in StorPc
  PROVE  LET t == To(c, p)
         IN  /\ IsJob(t) /\ KindOk(t) /\ t.kind = "stor" /\ t.pc = p /\ t.n = job[c].n
             /\ t.file = job[c].file /\ t.bad = job[c].bad
<1>0. c \in Client /\ queue \in Seq(Command)
  BY Zenon DEF Client, BaseInv, WakeInv
<1>1. p \notin RetrPc /\ p # "path"
  BY DEF StorPc, RetrPc
<1> QED BY <1>0, UploadKind, <1>1, ToFields DEF KindOk

\* A command that is sent when QUEUE holds none of the session's.
LEMMA UploadSent ==
  ASSUME BaseInv, NEW c \in Ftp, NEW op, NEW j, Call(c, Cmd(op, c, NoFile, 0), j), c \notin spoiled',
         ~In(queue, c), op \in {"FtpCloseWrite", "FtpWriteChunk"}
  PROVE  Sole(queue', c, Cmd(op, c, NoFile, 0))
<1>0. c \in Client /\ queue \in Seq(Command)
  BY DEF Client, BaseInv, WakeInv
<1>1. queue' = Append(queue, Cmd(op, c, NoFile, 0))
  BY Sent
<1> QED BY <1>0, UploadOp, <1>1, OwnSent

\* STOR begins.
LEMMA UploadBegins ==
  ASSUME BaseInv, NEW c \in Ftp, NEW f \in File, StorOpen(c, f)
  PROVE  Uploads(c)
<1>0. c \in Client /\ queue \in Seq(Command)
  BY Zenon DEF Client, BaseInv, WakeInv
<1> DEFINE j == [NoJob EXCEPT !.kind = "stor", !.pc = "wopen", !.file = f]
           m == Cmd("FtpOpenWrite", c, f, 0)
<1>1. IsJob(j) /\ KindOk(j) /\ j.kind = "stor" /\ j.pc = "wopen" /\ j.file = f /\ j.n = 0
  BY DEF NoJob, IsJob, KindOk, RetrPc
<1>2. ~running /\ Call(c, m, j)
  BY Zenon DEF StorOpen, Idle, At, Free
<1> HIDE DEF j
<1>3. ASSUME c \notin spoiled' PROVE StorMoves(c, j)
  <2>1. queue' = Append(queue, m)
    BY <1>2, <1>3, Sent
  <2>2. m \in Command
    BY UploadOp
  <2>3. Last(queue', c, Cmd("FtpOpenWrite", c, j.file, 0))
    BY <1>0, <1>1, <2>1, <2>2, OwnSent
  <2> QED BY <1>1, <2>3 DEF StorMoves, StorNow, StorTrue, StorAt
<1> QED BY UploadGoes, <1>1, <1>2, <1>3

\* A path command begins.
LEMMA PathBegins ==
  ASSUME BaseInv, NEW c \in Ftp, PathOp(c)
  PROVE  Uploads(c)
<1> DEFINE j == [NoJob EXCEPT !.kind = "path", !.pc = "path"]
<1>1. IsJob(j) /\ KindOk(j) /\ j.kind = "path" /\ j.pc = "path"
  BY DEF NoJob, IsJob, KindOk, RetrPc, StorPc
<1>2. ~running /\ Call(c, Cmd("FtpPathOp", c, NoFile, 0), j)
  BY DEF PathOp, Idle, At, Free
<1> HIDE DEF j
<1>3. StorMoves(c, j)
  BY NoClaim, <1>1
<1> QED BY UploadGoes, <1>1, <1>2, <1>3

\* The file is open, or not.
LEMMA UploadIsOpen ==
  ASSUME BaseInv, NEW c \in Ftp, StorOpened(c)
  PROVE  Uploads(c)
<1> DEFINE o == job[c]
           r == xfer[c]
<1>0. c \in Client /\ queue \in Seq(Command)
  BY Zenon DEF Client, BaseInv, WakeInv
<1>1. ~running /\ o.pc = "wopen" /\ o.pc \in StorPc /\ ~In(queue, c) /\ mode = "mounted"
  BY <1>0, Released DEF StorOpened, StorPc
<1>2. CASE ~ftpRes
  <2>1. Go(c, Over)
    BY <1>2 DEF StorOpened
  <2> QED BY UploadEnds, <1>1, <2>1
<1>3. CASE ftpRes
  <2> DEFINE j == To(c, "wdata")
  <2>1. Go(c, j)
    BY <1>3 DEF StorOpened
  <2>2. "wdata" \in StorPc /\ "wdata" \notin Waiting
    BY DEF StorPc, Waiting
  <2>3. IsJob(j) /\ KindOk(j) /\ j.kind = "stor" /\ j.pc = "wdata" /\ j.n = o.n
    BY UploadTo, <1>1, <2>2
  <2>4. queue' = queue
    BY <2>1 DEF Go
  <2> HIDE DEF j
  <2>5. ASSUME StorNow(c) PROVE StorMoves(c, j)
    <3>1. ~Last(queue, c, Cmd("FtpOpenWrite", c, o.file, 0))
      BY <1>1, CmdFields DEF Last, In
    <3>2. o.file \in File /\ o.n = 0 /\ r = [Closed EXCEPT !.wr = o.file]
      BY <1>1, <1>3, <2>5, <3>1, Zenon DEF StorNow, StorAt
    <3>3. r.wr # NoFile /\ r.werr = FALSE /\ r.written = 0
      BY <3>2, RpcAssumption DEF Closed
    <3> QED BY <1>1, <2>3, <2>4, <3>2, <3>3 DEF StorMoves, StorNow, StorTrue, StorAt
  <2> QED BY UploadGoes, <1>1, <2>1, <2>2, <2>3, <2>5
<1> QED BY <1>2, <1>3

\* The file is closed.
LEMMA UploadCloses ==
  ASSUME BaseInv, NEW c \in Ftp, StorClosed(c)
  PROVE  Uploads(c)
<1> DEFINE o == job[c]
           r == xfer[c]
<1>0. c \in Client /\ queue \in Seq(Command)
  BY Zenon DEF Client, BaseInv, WakeInv
<1>1. ~running /\ o.pc \in {"close", "abort"} /\ o.pc \in StorPc /\ ~In(queue, c) /\ mode = "mounted"
  BY <1>0, Released DEF StorClosed, StorPc
<1>2. CASE o.pc = "close" /\ ~o.bad /\ ftpRes
  <2> DEFINE j == [To(c, "idle") EXCEPT !.ans = "226"]
  <2>1. Go(c, j)
    BY <1>2 DEF StorClosed, Woken, At
  <2>2. IsJob(j) /\ j.kind = "stor" /\ j.pc = "idle" /\ j.n = o.n /\ j.ans = "226"
    <3>1. LET i == To(c, "idle") IN IsJob(i) /\ i.kind = o.kind /\ i.pc = "idle" /\ i.n = o.n
      BY <1>0, ToFields, ZenonT(40)
    <3>2. o.kind = "stor"
      BY <1>1, UploadKind
    <3> QED BY <3>1, <3>2 DEF IsJob
  <2>3. KindOk(j) /\ j.pc \notin Waiting
    BY <2>2 DEF KindOk, RetrPc, StorPc, Waiting
  <2> HIDE DEF j
  <2>4. ASSUME StorNow(c) PROVE StorMoves(c, j)
    <3>1. ~Sole(queue, c, Cmd("FtpCloseWrite", c, NoFile, 0))
      BY <1>1, CmdFields DEF Sole, In
    <3>2. r.written = o.n /\ r.wr = NoFile
      BY <1>1, <1>2, <2>4, <3>1, Zenon DEF StorNow, StorAt
    <3>3. queue' = queue
      BY <2>1 DEF Go
    <3> QED BY <1>1, <2>2, <3>2, <3>3 DEF StorMoves, StorNow, StorTrue, StorAt
  <2> QED BY UploadGoes, <1>1, <2>1, <2>2, <2>3, <2>4
<1>3. CASE ~(o.pc = "close" /\ ~o.bad /\ ftpRes)
  <2>1. Go(c, Over)
    BY <1>3 DEF StorClosed, Woken, At
  <2> QED BY UploadEnds, <1>1, <2>1
<1> QED BY <1>2, <1>3

\* The data connection is there, or 425.
LEMMA UploadConnects ==
  ASSUME BaseInv, NEW c \in Ftp, StorData(c)
  PROVE  Uploads(c)
<1> DEFINE o == job[c]
<1>1. ~running /\ o.pc = "wdata" /\ o.pc \in StorPc
  BY DEF StorData, StorPc, At, Free
<1>2. ASSUME NEW p \in {"recv", "abort"}
      PROVE  LET j == To(c, p) IN IsJob(j) /\ KindOk(j) /\ j.kind = "stor" /\ j.pc = p /\ j.n = o.n
  BY UploadTo, <1>1 DEF StorPc
<1>3. CASE Go(c, To(c, "recv"))
  <2> DEFINE j == To(c, "recv")
  <2>1. IsJob(j) /\ KindOk(j) /\ j.kind = "stor" /\ j.pc = "recv" /\ j.n = o.n
    BY <1>2
  <2>2. queue' = queue
    BY <1>3 DEF Go
  <2> HIDE DEF j
  <2>3. StorNow(c) => StorMoves(c, j)
    BY <1>1, <2>1, <2>2, Zenon DEF StorMoves, StorNow, StorTrue, StorAt
  <2>4. j.pc \notin Waiting
    BY <2>1 DEF Waiting
  <2> QED BY UploadGoes, <1>1, <1>3, <2>1, <2>3, <2>4 DEF j
<1>4. CASE Call(c, Cmd("FtpCloseWrite", c, NoFile, 0), To(c, "abort"))
  <2> DEFINE j == To(c, "abort")
  <2>1. IsJob(j) /\ KindOk(j) /\ j.kind = "stor" /\ j.pc = "abort"
    BY <1>2
  <2> HIDE DEF j
  <2>2. StorMoves(c, j)
    BY NoClaim, <2>1
  <2> QED BY UploadGoes, <1>1, <1>4, <2>1, <2>2 DEF j
<1> QED BY <1>3, <1>4 DEF StorData, SendClose

\* A part is received, or the client is done.
LEMMA UploadReceives ==
  ASSUME BaseInv, NEW c \in Ftp, StorPart(c)
  PROVE  Uploads(c)
<1> DEFINE o == job[c]
           r == xfer[c]
<1>1. ~running /\ o.pc = "recv" /\ o.pc \in StorPc
  BY DEF StorPart, StorPc, At, Free
<1>2. ASSUME NEW p \in {"wchunk", "close"}
      PROVE  LET t == To(c, p)
             IN  /\ IsJob(t) /\ KindOk(t) /\ t.kind = "stor" /\ t.pc = p /\ t.n = o.n
  BY UploadTo, <1>1 DEF StorPc
<1>3. ASSUME StorNow(c), mode = "mounted"
      PROVE  o.n \in Nat /\ ~In(queue, c) /\ r.wr # NoFile /\ r.written = o.n
  BY <1>1, <1>3, Zenon DEF StorNow, StorAt
<1>4. CASE Call(c, Cmd("FtpWriteChunk", c, NoFile, 0), [To(c, "wchunk") EXCEPT !.n = @ + 1])
  <2> DEFINE t == To(c, "wchunk")
             j == [t EXCEPT !.n = @ + 1]
  <2>1. IsJob(t) /\ KindOk(t) /\ t.kind = "stor" /\ t.pc = "wchunk" /\ t.n = o.n
    BY <1>2
  <2> HIDE DEF t
  <2>2. IsJob(j) /\ j.kind = "stor" /\ j.pc = "wchunk" /\ j.n = o.n + 1
    BY <2>1 DEF IsJob
  <2>3. Call(c, Cmd("FtpWriteChunk", c, NoFile, 0), j)
    BY <1>4 DEF t
  <2> HIDE DEF j
  <2>4. KindOk(j)
    BY <2>2 DEF KindOk, RetrPc
  <2>5. ASSUME StorNow(c), c \notin spoiled' PROVE StorMoves(c, j)
    BY UploadSent, <1>3, <2>2, <2>3, <2>5 DEF StorMoves, StorNow, StorTrue, StorAt
  <2> QED BY UploadGoes, <1>1, <2>2, <2>3, <2>4, <2>5
<1>5. CASE Call(c, Cmd("FtpCloseWrite", c, NoFile, 0), To(c, "close"))
  <2> DEFINE j == To(c, "close")
  <2>1. IsJob(j) /\ KindOk(j) /\ j.kind = "stor" /\ j.pc = "close" /\ j.n = o.n
    BY <1>2
  <2>2. Call(c, Cmd("FtpCloseWrite", c, NoFile, 0), j)
    BY <1>5
  <2> HIDE DEF j
  <2>3. ASSUME StorNow(c), c \notin spoiled' PROVE StorMoves(c, j)
    BY UploadSent, <1>3, <2>1, <2>2, <2>3 DEF StorMoves, StorNow, StorTrue, StorAt
  <2> QED BY UploadGoes, <1>1, <2>1, <2>2, <2>3
<1> QED BY <1>4, <1>5 DEF StorPart, SendClose

\* The part is written, or not.
LEMMA UploadWrites ==
  ASSUME BaseInv, NEW c \in Ftp, StorWritten(c)
  PROVE  Uploads(c)
<1> DEFINE o == job[c]
           r == xfer[c]
<1>0. c \in Client /\ queue \in Seq(Command)
  BY Zenon DEF Client, BaseInv, WakeInv
<1>1. ~running /\ o.pc = "wchunk" /\ o.pc \in StorPc /\ ~In(queue, c) /\ mode = "mounted"
  BY <1>0, Released DEF StorWritten, StorPc
<1>2. ASSUME NEW p \in {"recv", "close"}
      PROVE  LET t == To(c, p) IN IsJob(t) /\ KindOk(t) /\ t.kind = "stor" /\ t.pc = p /\ t.n = o.n
  BY UploadTo, <1>1 DEF StorPc
<1>3. CASE ~r.werr
  <2> DEFINE j == To(c, "recv")
  <2>1. Go(c, j)
    BY <1>3 DEF StorWritten
  <2>2. IsJob(j) /\ KindOk(j) /\ j.kind = "stor" /\ j.pc = "recv" /\ j.n = o.n
    BY <1>2
  <2> HIDE DEF j
  <2>3. j.pc \notin Waiting /\ queue' = queue
    BY <2>1, <2>2 DEF Waiting, Go
  <2>4. ASSUME StorNow(c) PROVE StorMoves(c, j)
    <3>1. ~Sole(queue, c, Cmd("FtpWriteChunk", c, NoFile, 0))
      BY <1>1, CmdFields DEF Sole, In
    <3>2. o.n \in Nat /\ r.wr # NoFile /\ r.written = o.n
      BY <1>1, <1>3, <2>4, <3>1, Zenon DEF StorNow, StorAt
    <3> QED BY <1>1, <1>3, <2>2, <2>3, <3>2 DEF StorMoves, StorNow, StorTrue, StorAt
  <2> QED BY UploadGoes, <1>1, <2>1, <2>2, <2>3, <2>4
<1>4. CASE r.werr
  <2> DEFINE t == To(c, "close")
             j == [t EXCEPT !.bad = TRUE]
  <2>1. Call(c, Cmd("FtpCloseWrite", c, NoFile, 0), j)
    BY <1>4 DEF StorWritten, SendClose
  <2>2. IsJob(t) /\ KindOk(t) /\ t.kind = "stor" /\ t.pc = "close"
    BY <1>2
  <2> HIDE DEF t
  <2>3. IsJob(j) /\ j.kind = "stor" /\ j.pc = "close" /\ j.bad
    BY <2>2 DEF IsJob
  <2> HIDE DEF j
  <2>4. KindOk(j) /\ StorMoves(c, j)
    BY NoClaim, <2>3 DEF KindOk, RetrPc
  <2> QED BY UploadGoes, <1>1, <2>1, <2>3, <2>4
<1> QED BY <1>3, <1>4

\* The session gives up waiting.
LEMMA UploadGivesUp ==
  ASSUME BaseInv, NEW c \in Ftp, StorTimeout(c)
  PROVE  Uploads(c)
<1> DEFINE o == job[c]
<1>1. ~running /\ o.pc \in StorPc
  BY DEF StorTimeout, StorPc, TimedOut, At, Free
<1> DEFINE t == To(c, "close")
           j == [t EXCEPT !.bad = TRUE]
<1>2. \/ Call(c, Cmd("FtpCloseWrite", c, NoFile, 0), j)
      \/ Go(c, Over)
  BY DEF StorTimeout, SendClose
<1>3. IsJob(t) /\ KindOk(t) /\ t.kind = "stor" /\ t.pc = "close"
  BY UploadTo, <1>1 DEF StorPc
<1> HIDE DEF t
<1>4. IsJob(j) /\ j.kind = "stor" /\ j.pc = "close" /\ j.bad
  BY <1>3 DEF IsJob
<1> HIDE DEF j
<1>5. KindOk(j) /\ StorMoves(c, j)
  BY NoClaim, <1>4 DEF KindOk, RetrPc
<1> QED BY UploadGoes, UploadEnds, <1>1, <1>2, <1>4, <1>5

\* A path command ends.
LEMMA PathEnds ==
  ASSUME BaseInv, NEW c \in Ftp, PathDone(c) \/ PathTimeout(c)
  PROVE  Uploads(c)
<1>1. ~running /\ Go(c, Over)
  BY DEF PathDone, PathTimeout, Woken, TimedOut, At, Free
<1> QED BY UploadEnds, <1>1

\* A download that fails.
LEMMA LoadingOver ==
  ASSUME NEW c \in Web, ~running, Go(c, Over)
  PROVE  Loading(c)
<1>1. Moves(c, Over)
  BY OverFields DEF Moves
<1>2. GetMoves(c, Over)
  BY OverFields, Zenon DEF GetMoves, GetAt, GetTrue
<1> QED
  BY <1>1, <1>2, Zenon DEF Loading

\* The download begins.
LEMMA GetBegins ==
  ASSUME BaseInv, NEW c \in Web, NEW f \in File, WebOpen(c, f)
  PROVE  Loading(c)
<1> DEFINE j == [NoJob EXCEPT !.kind = "get", !.pc = "open", !.file = f]
           m == Cmd("FileOpen", c, f, 0)
<1>0. c \in Client /\ queue \in Seq(Command)
  BY Zenon DEF Client, BaseInv, WakeInv
<1>1. /\ IsJob(j) /\ j.kind = "get" /\ j.pc = "open" /\ j.file = f /\ j.from = 0 /\ j.n = 0
      /\ j.good /\ j.ans = "none"
  BY DEF NoJob, IsJob
<1>2. m \in Command /\ m.who = c /\ Lane(m)
  <2>1. "FileOpen" \in Op /\ "FileOpen" \notin FtpOp
    BY DEF Op, FtpOp
  <2> QED BY <1>0, <2>1, OwnLane
<1>4. Call(c, m, j) /\ ~running
  BY DEF WebOpen, Idle, At, Free
<1> HIDE DEF j, m
<1>5. c \notin spoiled' => queue' = Append(queue, m)
  BY <1>4, Sent
<1>6. c \notin spoiled' => Last(queue', c, m)
  BY <1>0, <1>2, <1>5, OwnSent, Zenon
<1>7. ASSUME c \notin spoiled' PROVE GetAt(queue', c, j, dl)
  <2>1. Last(queue', c, Cmd("FileOpen", c, j.file, 0))
    BY <1>1, <1>6, <1>7 DEF m
  <2>2. Reads(j)
    BY <1>0, <1>1 DEF Reads
  <2> QED BY <1>1, <2>1, <2>2, Zenon DEF GetAt
<1>8. GetTrue(j)
  BY <1>1 DEF GetTrue
<1>9. Moves(c, j)
  BY <1>1, <1>2, <1>4 DEF Moves, KindOk, RetrPc, StorPc, Waiting
<1> QED
  BY <1>7, <1>8, <1>9 DEF Loading, GetMoves

\* The file is open, or there is nothing to send.
LEMMA GetIsOpen ==
  ASSUME BaseInv, NEW c \in Web, WebOpened(c)
  PROVE  Loading(c)
<1> DEFINE r == dl
           o == job[c]
<1>0. c \in Client /\ IsSlot(r)
  BY DEF Client, BaseInv
<1>1. ~running /\ o.pc = "open" /\ ~In(queue, c) /\ mode = "mounted"
  BY <1>0, Released DEF WebOpened
<1>2. IsJob(o)
  BY <1>0 DEF BaseInv
<1>3. GetNow(c) => GetAt(queue, c, o, r) /\ o.good
  BY <1>1 DEF GetNow
<1>b. ASSUME Last(queue, c, Cmd("FileOpen", c, o.file, 0)) PROVE In(queue, c)
  BY <1>b, CmdFields DEF Last, In
<1>4. GetNow(c) => Reads(o) /\ o.from = 0 /\ o.good /\ o.n = 0 /\ r \in {Opened(o.file, 0, TRUE), Closed}
  BY <1>1, <1>3, <1>b, Zenon DEF GetAt
<1>5. CASE dl.size > 0
  <2> DEFINE j == [To(c, "next") EXCEPT !.size = r.size]
  <2>1. Go(c, j)
    BY <1>0, <1>5 DEF WebOpened, IsSlot
  <2>2. IsJob(To(c, "next")) /\ To(c, "next").pc = "next"
        /\ To(c, "next").file = o.file /\ To(c, "next").from = o.from /\ To(c, "next").n = o.n
        /\ To(c, "next").good = o.good
    BY <1>0, ToFields
  <2>3. /\ IsJob(j) /\ j.pc = "next" /\ j.file = o.file /\ j.from = o.from
        /\ j.n = o.n /\ j.good = o.good /\ j.size = r.size
    BY <2>2 DEF IsJob
  <2> HIDE DEF j
  <2>4. GetNow(c) => r = Opened(o.file, 0, TRUE)
    <3>1. ~(Closed.size > 0)
      BY DEF Closed
    <3> QED BY <1>4, <1>5, <3>1, Zenon
  <2>5. ASSUME GetNow(c) PROVE
        /\ r.size = Left(o) /\ r.open /\ r.eof = FALSE /\ r.h = o.file /\ r.base = o.from /\ r.sent = 0
        /\ r.chunk = <<>>
    <3>1. r = Opened(o.file, 0, TRUE) /\ o.from = 0
      BY <1>4, <2>4, <2>5
    <3> QED BY <3>1 DEF Opened, Closed, Left
  <2> HIDE DEF r, o
  <2>6. GetNow(c) => Left(j) = Left(o) /\ Reads(j)
    BY <1>4, <2>3 DEF Left, Reads
  <2>7. GetNow(c) => Ready(r, j)
    BY <1>4, <2>3, <2>5, <2>6, ZenonT(40) DEF Ready
  <2>8. queue' = queue
    BY <2>1 DEF Go
  <2>9. ASSUME GetNow(c) PROVE GetAt(queue', c, j, r) /\ GetTrue(j)
    BY <1>1, <1>4, <1>5, <2>3, <2>6, <2>7, <2>8, <2>9, SMTT(40), ZenonT(20) DEF GetAt, GetTrue, r
  <2>10. Moves(c, j)
    BY <1>1, <2>1, <2>3 DEF Moves, KindOk, RetrPc, StorPc, Waiting
  <2> QED BY <2>9, <2>10 DEF Loading, GetMoves, r
<1>6. CASE ~(dl.size > 0)
  <2>1. Go(c, Over)
    BY <1>0, <1>6 DEF WebOpened, IsSlot
  <2> QED BY <1>1, <2>1, LoadingOver
<1> QED
  BY <1>5, <1>6

\* The next chunk is asked for.
LEMMA GetAsks ==
  ASSUME BaseInv, NEW c \in Web, WebNext(c)
  PROVE  Loading(c)
<1> DEFINE r == dl
           o == job[c]
           j == To(c, "chunk")
           m == Cmd("FileChunk", c, NoFile, 0)
<1>0. c \in Client /\ queue \in Seq(Command)
  BY Zenon DEF Client, BaseInv, WakeInv
<1>1. ~running /\ o.pc = "next" /\ Call(c, m, j)
  BY DEF WebNext, At, Free
<1>2. /\ IsJob(j) /\ j.pc = "chunk" /\ j.file = o.file /\ j.from = o.from
      /\ j.n = o.n /\ j.good = o.good /\ j.size = o.size
  BY <1>0, ToFields
<1>3. m \in Command /\ m.who = c /\ Lane(m)
  <2>1. "FileChunk" \in Op /\ "FileChunk" \notin FtpOp /\ "FileChunk" \notin {"FtpOpenRead", "FileOpen"}
    BY DEF Op, FtpOp
  <2> QED BY <1>0, <2>1, OwnLane
<1> HIDE DEF j
<1>4. Moves(c, j)
  BY <1>1, <1>2, <1>3 DEF Moves, KindOk, RetrPc, StorPc, Waiting
<1>5. ASSUME GetNow(c), c \notin spoiled' PROVE GetMoves(c, j)
  <2>1. mode = "mounted" => Reads(o) /\ o.from = 0 /\ r.size > 0 /\ ~In(queue, c) /\ Ready(r, o)
    BY <1>1, <1>5, Zenon DEF GetNow, GetAt
  <2>2. o.good
    BY <1>1, <1>5 DEF GetNow
  <2>3. mode = "mounted" => Sole(queue', c, m)
    <3>1. queue' = Append(queue, m)
      BY <1>1, <1>5, Sent
    <3> QED BY <1>0, <1>3, <2>1, <3>1, OwnSent, SMTT(40), ZenonT(20)
  <2> HIDE DEF r, o
  <2>4. mode = "mounted" => Reads(j) /\ Ready(r, j)
    BY <1>2, <2>1 DEF Reads, Ready, Left
  <2>5. mode = "mounted" => GetAt(queue', c, j, r)
    BY <1>2, <2>1, <2>3, <2>4 DEF GetAt
  <2>6. GetTrue(j)
    BY <1>2, <2>2, SMTT(40), ZenonT(20) DEF GetTrue
  <2> QED BY <2>5, <2>6 DEF GetMoves, r
<1> QED
  BY <1>4, <1>5 DEF Loading

\* A chunk is delivered: on to the next one, or the end with none missing.
LEMMA GetDelivers ==
  ASSUME BaseInv, NEW c \in Web, WebChunk(c)
  PROVE  Loading(c)
<1> DEFINE r == dl
           o == job[c]
           d == Deliver(c, r)
           last == (r.eof /\ r.chunk = <<>>) \/ r.sent >= d.size
           e == [d EXCEPT !.pc = "idle", !.ans = "200"]
           t == [d EXCEPT !.pc = "next"]
<1>0. c \in Client /\ IsSlot(r)
  BY DEF Client, BaseInv
<1>1. ~running /\ o.pc = "chunk" /\ ~In(queue, c) /\ mode = "mounted"
  BY <1>0, Released DEF WebChunk
<1>2. IsJob(d)
  <2>1. IsJob(o)
    BY <1>0 DEF BaseInv
  <2> QED BY <2>1 DEF Deliver, IsJob
<1>3. ASSUME GetNow(c)
      PROVE  Reads(o) /\ o.from = 0 /\ o.good /\ (r.err \/ (r.size > 0 /\ Holds(r, o)))
  <2>1. ~Sole(queue, c, Cmd("FileChunk", c, NoFile, 0))
    BY <1>1, CmdFields DEF Sole, In
  <2> QED BY <1>1, <1>3, <2>1, Zenon DEF GetNow, GetAt
<1>4. /\ r.err => Go(c, Over)
      /\ ~r.err /\ last => Go(c, e)
      /\ ~r.err /\ ~last => Go(c, t)
  BY DEF WebChunk
<1>5. IsJob(e) /\ e.pc = "idle" /\ e.file = d.file /\ e.n = d.n /\ e.good = d.good
  BY <1>2 DEF IsJob
<1>6. /\ IsJob(t) /\ t.pc = "next" /\ t.file = d.file /\ t.from = d.from
      /\ t.n = d.n /\ t.good = d.good /\ t.size = d.size
  BY <1>2 DEF IsJob
<1>8. ASSUME GetNow(c), ~r.err
      PROVE  /\ Reads(d) /\ d.from = 0 /\ r.size > 0
             /\ \/ last /\ d.good /\ d.n = Size[d.file]
                \/ ~last /\ Ready(r, d)
  <2>1. Reads(o) /\ o.from = 0 /\ r.size > 0 /\ Holds(r, o)
    BY <1>3, <1>8
  <2>2. d.from = o.from /\ d.file = o.file
    BY <1>0, <2>1, Delivers, Zenon
  <2>3. /\ Reads(d)
        /\ \/ /\ r.eof /\ (r.chunk = <<>> \/ r.sent >= d.size) /\ d.good
              /\ d.from + d.n >= Size[d.file] /\ (r.size > 0 => d.n = r.size)
           \/ /\ ~r.eof /\ r.chunk # <<>> /\ ~(r.sent >= d.size) /\ Ready(r, d)
    BY <1>0, <2>1, AfterChunk, Zenon
  <2> HIDE DEF d, o
  <2>4. r.size = Size[d.file]
    <3>1. r.size = Left(o) /\ Size[o.file] \in Nat
      BY <2>1, RpcAssumption DEF Holds, Reads
    <3> QED BY <2>1, <2>2, <3>1 DEF Left
  <2> QED BY <2>1, <2>2, <2>3, <2>4
<1> HIDE DEF d, e, t, o
<1>9. CASE r.err
  BY <1>1, <1>4, <1>9, LoadingOver
<1>10. CASE ~r.err /\ last
  <2>1. Moves(c, e)
    BY <1>1, <1>4, <1>5, <1>10 DEF Moves, KindOk, RetrPc, StorPc, Waiting
  <2>2. GetNow(c) => GetTrue(e)
    BY <1>5, <1>8, <1>10 DEF GetTrue
  <2> QED BY <1>5, <2>1, <2>2, Zenon DEF Loading, GetMoves, GetAt
<1>11. CASE ~r.err /\ ~last
  <2>1. Moves(c, t)
    BY <1>1, <1>4, <1>6, <1>11, SMTT(40), ZenonT(20) DEF Moves, KindOk, RetrPc, StorPc, Waiting
  <2>2. ASSUME GetNow(c) PROVE GetMoves(c, t)
    <3>1. Reads(d) /\ d.from = 0 /\ r.size > 0 /\ Ready(r, d) /\ queue' = queue
      BY <1>4, <1>8, <1>11, <2>2 DEF Go
    <3>2. Reads(t) /\ t.from = 0 /\ Ready(r, t) /\ t.good
      BY <1>6, <3>1 DEF Reads, Ready, Left
    <3> QED BY <1>1, <1>6, <3>1, <3>2 DEF GetMoves, GetAt, GetTrue
  <2> QED BY <2>1, <2>2 DEF Loading
<1> QED
  BY <1>9, <1>10, <1>11

\* The steps of an HTTP task.
LEMMA WebMoves ==
  ASSUME BaseInv, NEW c \in Web,
         WebSteps(c) \/ WebTimeout(c) \/ WebGone(c) \/ \E f \in File : WebOpen(c, f)
  PROVE  Loading(c)
<1>1. CASE WebTimeout(c) \/ WebGone(c)
  <2>1. ~running /\ Go(c, Over)
    BY <1>1 DEF WebTimeout, WebGone, TimedOut, At, Free
  <2> QED BY <2>1, LoadingOver
<1> QED
  BY <1>1, GetBegins, GetIsOpen, GetAsks, GetDelivers DEF WebSteps

\* The steps of an FTP session, as RETR and STOR see them.
LEMMA FtpMoves ==
  ASSUME BaseInv, NEW c \in Ftp,
         \/ FtpSteps(c) \/ RetrTimeout(c) \/ RetrGone(c) \/ StorTimeout(c)
         \/ PathOp(c) \/ PathTimeout(c)
         \/ \E f \in File : StorOpen(c, f) \/ \E k \in Rests : RetrOpen(c, f, k)
  PROVE  \E j : /\ Moves(c, j)
                /\ RetrNow(c) /\ c \notin spoiled' => RetrMoves(c, j)
                /\ StorNow(c) /\ c \notin spoiled' => StorMoves(c, j)
<1>1. CASE Reading(c)
  <2>1. PICK j : /\ Moves(c, j) /\ j.kind \in {"retr", "none"}
                 /\ RetrNow(c) /\ c \notin spoiled' => RetrMoves(c, j)
    BY <1>1, Zenon DEF Reading
  <2>2. j.pc \notin StorPc /\ j.kind # "stor"
    BY <2>1 DEF Moves, KindOk
  <2>3. StorMoves(c, j)
    BY <2>2, Zenon DEF StorMoves, StorTrue, StorAt, StorPc
  <2> QED BY <2>1, <2>3, Zenon
<1>2. CASE Uploads(c)
  <2>1. PICK j : /\ Moves(c, j) /\ j.kind \in {"stor", "path", "none"}
                 /\ StorNow(c) /\ c \notin spoiled' => StorMoves(c, j)
    BY <1>2, Zenon DEF Uploads
  <2>2. j.pc \notin RetrPc /\ j.kind # "retr"
    BY <2>1 DEF Moves, KindOk
  <2>3. RetrMoves(c, j)
    BY <2>2, Zenon DEF RetrMoves, RetrAt, RetrTrue, RetrPc
  <2> QED BY <2>1, <2>3, Zenon
<1>3. Reading(c) \/ Uploads(c)
  <2>1. CASE RetrData(c) \/ RetrNext(c)
    BY <2>1, RetrAsks, Zenon
  <2>2. CASE RetrTimeout(c) \/ RetrGone(c)
    BY <2>2, RetrGivesUp, Zenon
  <2>3. CASE \/ StorOpened(c) \/ StorData(c) \/ StorPart(c) \/ StorWritten(c) \/ StorClosed(c)
             \/ StorTimeout(c) \/ PathOp(c) \/ PathDone(c) \/ PathTimeout(c)
             \/ \E f \in File : StorOpen(c, f)
    BY <2>3, UploadBegins, PathBegins, UploadIsOpen, UploadCloses, UploadConnects, UploadReceives,
       UploadWrites, UploadGivesUp, PathEnds
  <2>4. CASE RetrOpened(c) \/ RetrChunk(c)
    BY <2>4, RetrIsOpen, RetrDelivers, Zenon
  <2>5. CASE \E f \in File : \E k \in Rests : RetrOpen(c, f, k)
    BY <2>5, RetrBegins, Zenon
  <2> QED
    BY <2>1, <2>2, <2>3, <2>4, <2>5 DEF FtpSteps
<1> QED
  BY <1>1, <1>2, <1>3

\* Nothing runs at the start.
LEMMA HonestInit == Init => BaseInv /\ RetrInv /\ GetInv /\ StorInv
<1> SUFFICES ASSUME Init PROVE BaseInv /\ RetrInv /\ GetInv /\ StorInv
  OBVIOUS
<1>1. ASSUME NEW c \in Client
      PROVE  /\ job[c].pc = "idle" /\ job[c].kind = "none" /\ job[c].good /\ job[c].ans = "none"
             /\ IsJob(job[c]) /\ KindOk(job[c])
  <2>1. job[c] = NoJob
    BY DEF Init
  <2> QED BY <2>1 DEF NoJob, IsJob, KindOk, RetrPc, StorPc
<1>2. /\ mode \in {"mounted", "degraded"} /\ Len(queue) = 0 /\ fresh = {}
      /\ xfer = [c \in Ftp |-> xfer[c]]
  BY RpcAssumption DEF Init
<1>3. IsSlot(dl) /\ \A c \in Ftp : IsSlot(xfer[c])
  BY SlotKept, Zenon DEF Init
<1>4. BaseInv
  BY <1>1, <1>2, <1>3, WakeInit DEF BaseInv
<1>5. RetrInv
  BY <1>1, Zenon DEF RetrInv, RetrNow, RetrAt, RetrTrue, Client
<1>6. GetInv
  BY <1>1, Zenon DEF GetInv, GetNow, GetAt, GetTrue, Client
<1>7. StorInv
  BY <1>1, Zenon DEF StorInv, StorNow, StorTrue, StorAt, Client
<1> QED
  BY <1>4, <1>5, <1>6, <1>7

\* BaseInv is inductive, whatever is dropped.
LEMMA BaseStep == BaseInv /\ [Next]_vars => BaseInv'
<1> SUFFICES ASSUME BaseInv, [Next]_vars PROVE BaseInv'
  OBVIOUS
<1>1. CASE UNCHANGED vars
  BY <1>1 DEF vars, BaseInv, WakeInv, Pending, Queued
<1>2. CASE StorageTask \/ Other
  BY <1>2, TaskBase
<1>3. ASSUME NEW c \in Web,
             WebSteps(c) \/ WebTimeout(c) \/ WebGone(c) \/ \E f \in File : WebOpen(c, f)
      PROVE  BaseInv'
  <2>1. c \in Client
    BY DEF Client
  <2>2. PICK j : Moves(c, j)
    BY <1>3, WebMoves DEF Loading
  <2> QED BY <2>1, <2>2, CallerStep
<1>4. ASSUME NEW c \in Ftp,
             \/ FtpSteps(c) \/ RetrTimeout(c) \/ RetrGone(c) \/ StorTimeout(c)
             \/ PathOp(c) \/ PathTimeout(c)
             \/ \E f \in File : StorOpen(c, f) \/ \E k \in Rests : RetrOpen(c, f, k)
      PROVE  BaseInv'
  <2>1. c \in Client
    BY DEF Client
  <2>2. PICK j : Moves(c, j)
    BY <1>4, FtpMoves
  <2> QED BY <2>1, <2>2, CallerStep
<1> QED
  BY <1>1, <1>2, <1>3, <1>4 DEF Next

\* rpc_wait never releases a caller whose command is still queued: for every set
\* of callers and every queue capacity, a released caller's command was handled
\* or had been dropped by a full QUEUE.
THEOREM WakeIsReal == Spec => []NoFalseWake
<1>1. BaseInv => NoFalseWake
  BY DEF BaseInv, WakeInv, NoFalseWake, Pending, Free
<1> QED
  BY HonestInit, BaseStep, <1>1, PTL DEF Spec

\* RetrInv is inductive.
LEMMA RetrInvStep == BaseInv /\ RetrInv /\ [Next]_vars => RetrInv'
<1> SUFFICES ASSUME BaseInv, RetrInv, [Next]_vars PROVE RetrInv'
  OBVIOUS
<1>1. CASE UNCHANGED vars
  <2>1. UNCHANGED <<mode, queue, xfer, job, spoiled>>
    BY <1>1 DEF vars
  <2> QED BY <2>1 DEF RetrInv, RetrNow
<1>2. CASE StorageTask \/ Other
  BY <1>2, TaskRetr
<1>3. ASSUME NEW c \in Web,
             WebSteps(c) \/ WebTimeout(c) \/ WebGone(c) \/ \E f \in File : WebOpen(c, f)
      PROVE  RetrInv'
  <2>1. c \in Client /\ c \notin Ftp
    BY RpcAssumption DEF Client
  <2>2. PICK j : Moves(c, j)
    BY <1>3, WebMoves DEF Loading
  <2> QED BY <2>1, <2>2, MovesRetr
<1>4. ASSUME NEW c \in Ftp,
             \/ FtpSteps(c) \/ RetrTimeout(c) \/ RetrGone(c) \/ StorTimeout(c)
             \/ PathOp(c) \/ PathTimeout(c)
             \/ \E f \in File : StorOpen(c, f) \/ \E k \in Rests : RetrOpen(c, f, k)
      PROVE  RetrInv'
  <2>1. c \in Client
    BY DEF Client
  <2>2. PICK j : Moves(c, j) /\ (RetrNow(c) /\ c \notin spoiled' => RetrMoves(c, j))
    BY <1>4, FtpMoves, Zenon
  <2>3. ASSUME c \notin spoiled' PROVE RetrNow(c)
    <3>1. CASE job[c].pc = "idle"
      BY <3>1, Zenon DEF RetrNow, RetrAt
    <3>2. CASE job[c].pc # "idle"
      BY <2>1, <2>2, <2>3, <3>2, CallerStep DEF RetrInv
    <3> QED BY <3>1, <3>2
  <2> QED BY <2>1, <2>2, <2>3, MovesRetr
<1> QED
  BY <1>1, <1>2, <1>3, <1>4 DEF Next

\* 226 to RETR: unless the full QUEUE dropped a command of the session, its data
\* connection broke or rpc_wait timed out, every chunk from the REST offset to the
\* end of the file was sent, in order and once.  It holds for any number of sessions
\* that share the storage task, with any read errors and with the commands that
\* earlier transfers left in QUEUE.
THEOREM RetrIsHonest == Spec => []RetrHonest
<1>1. RetrInv => RetrHonest
  BY Zenon DEF RetrInv, RetrHonest, RetrTrue
<1> QED
  BY HonestInit, BaseStep, RetrInvStep, <1>1, PTL DEF Spec

\* The download is where it was when the commands of others come and go.
LEMMA GetKept ==
  ASSUME NEW q \in Seq(Command), NEW c, NEW j, NEW r, NEW p,
         \/ p = q
         \/ \E m \in Command : m.who # c /\ p = Append(q, m)
         \/ q # <<>> /\ q[1].who # c /\ p = Tail(q),
         GetAt(q, c, j, r)
  PROVE  GetAt(p, c, j, r)
BY CmdKept, Zenon DEF GetAt

\* A command of c's own is handled: FILE_DL is what the download waits for.
LEMMA GetTaken ==
  ASSUME NEW q \in Seq(Command), NEW c, q # <<>>, q[1].who = c, NEW j,
         NEW r, IsSlot(r), GetAt(q, c, j, r), NEW s, MakesDl(q[1], r, s)
  PROVE  GetAt(Tail(q), c, j, s)
<1> DEFINE p == Tail(q)
<1>0. ASSUME NEW x
      PROVE  /\ In(q, c)
             /\ Last(q, c, x) => Last(p, c, x) \/ (q[1] = x /\ ~In(p, c))
             /\ Sole(q, c, x) => q[1] = x /\ ~In(p, c)
  BY OwnTaken
<1>a. In(q, c)
  BY <1>0
<1> HIDE DEF p
<1>1. CASE j.pc = "open"
  <2> DEFINE x == Cmd("FileOpen", c, j.file, 0)
  <2>1. Reads(j) /\ j.from = 0 /\ j.n = 0 /\ Last(q, c, x)
    BY <1>1, <1>a DEF GetAt
  <2>2. x.op = "FileOpen" /\ x.file = j.file
    BY CmdFields
  <2>3. Last(p, c, x) \/ (q[1] = x /\ ~In(p, c))
    BY <1>0, <2>1
  <2>4. Last(p, c, x) \/ (~In(p, c) /\ s \in {Opened(j.file, 0, TRUE), Closed})
    BY <2>2, <2>3, Zenon DEF MakesDl
  <2> QED
    BY <1>1, <2>1, <2>4, Zenon DEF GetAt, p
<1>2. CASE j.pc = "next"
  BY <1>2, <1>a DEF GetAt
<1>3. CASE j.pc = "chunk"
  <2> DEFINE x == Cmd("FileChunk", c, NoFile, 0)
  <2>1. Reads(j) /\ j.from = 0 /\ Sole(q, c, x) /\ r.size > 0 /\ Ready(r, j)
    BY <1>3, <1>a DEF GetAt
  <2>2. q[1] = x /\ ~In(p, c)
    BY <1>0, <2>1
  <2>3. q[1].op = "FileChunk"
    BY <2>2, CmdFields
  <2>4. PICK g \in BOOLEAN : LET t == NextChunk(r, g)
                             IN  s = IF t.eof THEN [t EXCEPT !.h = NoFile] ELSE t
    BY <2>3 DEF MakesDl
  <2> DEFINE t == NextChunk(r, g)
  <2>5. IsSlot(t) /\ (t.err \/ Holds(t, j))
    BY <2>1, ChunkRead, SlotKept, Zenon
  <2>6. ~t.eof => s = t
    BY <2>4
  <2>7. t.eof => s = [t EXCEPT !.h = NoFile]
    BY <2>4
  <2> HIDE DEF t
  <2>8. s.err \/ Holds(s, j)
    <3>1. CASE ~t.eof
      BY <2>5, <2>6, <3>1
    <3>2. CASE t.eof
      <4>1. /\ s.err = t.err /\ s.eof = t.eof /\ s.sent = t.sent /\ s.size = t.size
            /\ s.chunk = t.chunk /\ s.open = t.open /\ s.base = t.base
        BY <2>5, <2>7, <3>2, ZenonT(40) DEF IsSlot
      <4>2. ASSUME Holds(t, j) PROVE Holds(s, j)
        BY <3>2, <4>1, <4>2 DEF Holds
      <4> QED BY <2>5, <4>1, <4>2
    <3> QED BY <3>1, <3>2
  <2>9. s.err \/ (s.size > 0 /\ Holds(s, j))
    <3>1. r.size = Left(j)
      BY <2>1 DEF Ready
    <3>2. Holds(s, j) => s.size = Left(j)
      BY DEF Holds
    <3> QED BY <2>1, <2>8, <3>1, <3>2
  <2> QED
    BY <1>3, <2>1, <2>2, <2>9 DEF GetAt, p
<1>4. CASE j.pc \notin {"open", "next", "chunk"}
  BY <1>4, Zenon DEF GetAt
<1> QED
  BY <1>1, <1>2, <1>3, <1>4

\* Another command on FILE_DL does no harm while the download is not open yet.
LEMMA GetShared ==
  ASSUME NEW q, NEW c, NEW j, NEW r, GetAt(q, c, j, r), NEW s,
         j.pc \notin {"next", "chunk"}, j.pc = "open" => In(q, c)
  PROVE  GetAt(q, c, j, s)
BY Zenon DEF GetAt

\* The download while the storage task works.
LEMMA TaskGet ==
  ASSUME BaseInv, GetInv, StorageTask \/ Other
  PROVE  GetInv'
<1>0. queue \in Seq(Command) /\ IsSlot(dl)
  BY DEF BaseInv, WakeInv
<1>1. UNCHANGED <<mode, job>> /\ \A c \in spoiled : c \in spoiled'
  BY TaskKeeps
<1>2. ASSUME NEW c \in Web, c \notin spoiled', mode' = "mounted"
      PROVE  GetAt(queue', c, job[c], dl')
  <2>0. c \in Client /\ c \notin spoiled
    BY <1>1, <1>2 DEF Client
  <2>1. GetAt(queue, c, job[c], dl)
    BY <1>1, <1>2, <2>0 DEF GetInv, GetNow
  <2>2. CASE Handles /\ queue[1].who = c
    <3>1. queue # <<>> /\ queue' = Tail(queue) /\ MakesDl(queue[1], dl, dl')
      BY <2>2 DEF Handles
    <3>2. GetAt(Tail(queue), c, job[c], dl')
      BY <1>0, <2>1, <2>2, <3>1, GetTaken, Zenon
    <3> QED BY <3>1, <3>2
  <2>3. CASE ~(Handles /\ queue[1].who = c)
    <3>1. /\ \/ queue' = queue
             \/ \E m \in Command : m.who # c /\ queue' = Append(queue, m)
             \/ queue # <<>> /\ queue[1].who # c /\ queue' = Tail(queue)
          /\ Handles \/ UNCHANGED <<xfer, dl, ftpRes>>
      BY <1>2, <2>0, <2>3, TaskEffect
    <3>2. CASE dl' = dl
      BY <1>0, <2>1, <3>1, <3>2, GetKept
    <3>3. CASE dl' # dl
      <4>1. MakesDl(queue[1], dl, dl') /\ queue[1].who # c /\ c \notin Overwritten(queue[1])
        BY <1>2, <2>3, <3>1, <3>3 DEF Handles
      <4>2. queue[1].op \in {"FileOpen", "FileChunk"}
        BY <3>3, <4>1 DEF MakesDl, WebOp
      <4>3. job[c].pc \notin {"next", "chunk"} /\ (job[c].pc = "open" => ~Answered(c))
        BY <2>0, <4>1, <4>2 DEF Overwritten
      <4>4. job[c].pc = "open" => In(queue, c)
        BY <4>3 DEF Answered, In
      <4>5. GetAt(queue, c, job[c], dl')
        BY <2>1, <4>3, <4>4, GetShared
      <4> QED BY <1>0, <3>1, <4>5, GetKept
    <3> QED BY <3>2, <3>3
  <2> QED BY <2>2, <2>3
<1>3. ASSUME NEW c \in Web, c \notin spoiled'
      PROVE  (job'[c].pc # "idle" => job'[c].good) /\ GetTrue(job'[c])
  BY <1>1, <1>3 DEF GetInv, GetNow
<1> QED
  BY <1>1, <1>2, <1>3 DEF GetInv, GetNow

\* A caller's step, as seen by every download.
LEMMA MovesGet ==
  ASSUME BaseInv, GetInv, NEW c \in Client, NEW j, Moves(c, j),
         c \in Web /\ c \notin spoiled' => GetMoves(c, j)
  PROVE  GetInv'
<1>1. /\ UNCHANGED <<mode, dl>> /\ job'[c] = j
      /\ \A d \in Client \ {c} :
           /\ job'[d] = job[d] /\ (d \in spoiled => d \in spoiled')
           /\ queue' = queue \/ \E m \in Command : m.who # d /\ queue' = Append(queue, m)
  BY CallerStep
<1>2. ASSUME NEW d \in Web, d \notin spoiled'
      PROVE  (mode' = "mounted" => GetAt(queue', d, job'[d], dl')) /\ GetTrue(job'[d])
  <2>1. CASE d = c
    BY <1>1, <1>2, <2>1 DEF GetMoves
  <2>2. CASE d # c
    <3>1. /\ job'[d] = job[d] /\ queue \in Seq(Command) /\ d \notin spoiled
          /\ queue' = queue \/ \E m \in Command : m.who # d /\ queue' = Append(queue, m)
      BY <1>1, <1>2, <2>2, Zenon DEF Client, BaseInv, WakeInv
    <3>2. (mode = "mounted" => GetAt(queue, d, job[d], dl)) /\ GetTrue(job[d])
      BY <3>1 DEF GetInv, GetNow
    <3>3. mode = "mounted" => GetAt(queue', d, job[d], dl)
      BY <3>1, <3>2, GetKept
    <3> QED BY <1>1, <3>1, <3>2, <3>3
  <2> QED BY <2>1, <2>2
<1> QED
  BY <1>2, Zenon DEF GetInv, GetNow, GetTrue

\* GetInv is inductive.
LEMMA GetInvStep == BaseInv /\ GetInv /\ [Next]_vars => GetInv'
<1> SUFFICES ASSUME BaseInv, GetInv, [Next]_vars PROVE GetInv'
  OBVIOUS
<1>1. CASE UNCHANGED vars
  <2>1. UNCHANGED <<mode, queue, dl, job, spoiled>>
    BY <1>1 DEF vars
  <2> QED BY <2>1 DEF GetInv, GetNow
<1>2. CASE StorageTask \/ Other
  BY <1>2, TaskGet
<1>3. ASSUME NEW c \in Web,
             WebSteps(c) \/ WebTimeout(c) \/ WebGone(c) \/ \E f \in File : WebOpen(c, f)
      PROVE  GetInv'
  <2>1. c \in Client
    BY DEF Client
  <2>2. PICK j : Moves(c, j) /\ (GetNow(c) /\ c \notin spoiled' => GetMoves(c, j))
    BY <1>3, WebMoves, Zenon DEF Loading
  <2>3. ASSUME c \notin spoiled' PROVE GetNow(c)
    <3>1. CASE job[c].pc = "idle"
      BY <3>1, Zenon DEF GetNow, GetAt
    <3>2. CASE job[c].pc # "idle"
      BY <2>1, <2>2, <2>3, <3>2, CallerStep DEF GetInv
    <3> QED BY <3>1, <3>2
  <2> QED BY <2>1, <2>2, <2>3, MovesGet
<1>4. ASSUME NEW c \in Ftp,
             \/ FtpSteps(c) \/ RetrTimeout(c) \/ RetrGone(c) \/ StorTimeout(c)
             \/ PathOp(c) \/ PathTimeout(c)
             \/ \E f \in File : StorOpen(c, f) \/ \E k \in Rests : RetrOpen(c, f, k)
      PROVE  GetInv'
  <2>1. c \in Client /\ c \notin Web
    BY RpcAssumption DEF Client
  <2>2. PICK j : Moves(c, j)
    BY <1>4, FtpMoves, SMTT(40), ZenonT(20)
  <2> QED BY <2>1, <2>2, MovesGet
<1> QED
  BY <1>1, <1>2, <1>3, <1>4 DEF Next

\* A download: the browser gets the chunks of the file in order, each once, and all
\* of them when the loop ends normally, unless another HTTP task has used FILE_DL
\* after the file was opened for this one, or the full QUEUE dropped a command of
\* it.  It holds for any number of HTTP tasks, whatever FTP sessions do meanwhile.
THEOREM DownloadIsExact == Spec => []DownloadExact
<1>1. GetInv => DownloadExact
  BY Zenon DEF GetInv, DownloadExact, Exact, GetTrue
<1> QED
  BY HonestInit, BaseStep, GetInvStep, <1>1, PTL DEF Spec

\* The upload is where it was when the commands of others come and go.
LEMMA StorKept ==
  ASSUME NEW q \in Seq(Command), NEW c, NEW j, NEW r, NEW ok, NEW p,
         \/ p = q
         \/ \E m \in Command : m.who # c /\ p = Append(q, m)
         \/ q # <<>> /\ q[1].who # c /\ p = Tail(q),
         StorAt(q, c, j, r, ok)
  PROVE  StorAt(p, c, j, r, ok)
BY CmdKept, Zenon DEF StorAt

\* A command of c's own is handled: the slot is what the upload waits for.
LEMMA StorTaken ==
  ASSUME NEW q \in Seq(Command), NEW c, q # <<>>, q[1].who = c, NEW j,
         NEW r, IsSlot(r), NEW a, StorAt(q, c, j, r, a), NEW s, NEW ok, Makes(q[1], r, s, ok)
  PROVE  StorAt(Tail(q), c, j, s, ok)
<1> DEFINE p == Tail(q)
<1>0. ASSUME NEW x
      PROVE  /\ In(q, c)
             /\ Last(q, c, x) => Last(p, c, x) \/ (q[1] = x /\ ~In(p, c))
             /\ Sole(q, c, x) => q[1] = x /\ ~In(p, c)
  BY OwnTaken
<1>a. In(q, c)
  BY <1>0
<1> HIDE DEF p
<1>1. CASE j.pc = "wopen"
  <2> DEFINE x == Cmd("FtpOpenWrite", c, j.file, 0)
  <2>1. j.file \in File /\ j.n = 0 /\ Last(q, c, x)
    BY <1>1, <1>a, Zenon DEF StorAt
  <2>2. x.op = "FtpOpenWrite" /\ x.file = j.file
    BY CmdFields
  <2>3. Last(p, c, x) \/ (q[1] = x /\ ~In(p, c))
    BY <1>0, <2>1
  <2>4. Last(p, c, x) \/ (~In(p, c) /\ (ok => s = [Closed EXCEPT !.wr = j.file]))
    BY <2>2, <2>3, Zenon DEF Makes
  <2> QED
    BY <1>1, <2>1, <2>4 DEF StorAt, p
<1>2. CASE j.pc \in {"wdata", "recv"}
  BY <1>2, <1>a, Zenon DEF StorAt
<1>3. CASE j.pc = "wchunk"
  <2> DEFINE x == Cmd("FtpWriteChunk", c, NoFile, 0)
  <2>1. Sole(q, c, x) /\ r.wr # NoFile /\ r.written \in Nat /\ j.n = r.written + 1
    BY <1>3, <1>a, Zenon DEF StorAt
  <2>2. q[1] = x /\ ~In(p, c)
    BY <1>0, <2>1
  <2>3. q[1].op = "FtpWriteChunk"
    BY <2>2, CmdFields
  <2>4. PICK g \in BOOLEAN : s = [r EXCEPT !.written = IF g /\ r.wr # NoFile THEN @ + 1 ELSE @,
                                           !.werr = @ \/ ~g]
    BY <2>3, Zenon DEF Makes
  <2>5. /\ s.wr = r.wr
        /\ s.written = IF g /\ r.wr # NoFile THEN r.written + 1 ELSE r.written
        /\ s.werr = (r.werr \/ ~g)
    BY <2>4 DEF IsSlot
  <2>6. g = TRUE => s.wr # NoFile /\ s.written = r.written + 1
    BY <2>1, <2>5
  <2>7. g = FALSE => s.werr
    BY <2>5, Zenon
  <2>8. j.n \in Nat /\ (s.werr \/ (s.wr # NoFile /\ s.written = j.n))
    BY <2>1, <2>6, <2>7
  <2> QED
    BY <1>3, <2>2, <2>8 DEF StorAt, p
<1>4. CASE j.pc = "close" /\ ~j.bad
  <2> DEFINE x == Cmd("FtpCloseWrite", c, NoFile, 0)
  <2>1. Sole(q, c, x) /\ r.written = j.n
    BY <1>4, <1>a, Zenon DEF StorAt
  <2>2. q[1] = x /\ ~In(p, c)
    BY <1>0, <2>1
  <2>3. q[1].op = "FtpCloseWrite"
    BY <2>2, CmdFields
  <2>4. PICK g \in BOOLEAN : s = [r EXCEPT !.wr = NoFile, !.written = IF g THEN @ ELSE 0] /\ (ok => g)
    BY <2>3, Zenon DEF Makes
  <2>5. s.wr = NoFile /\ s.written = IF g THEN r.written ELSE 0
    BY <2>4 DEF IsSlot
  <2>6. ok => s.written = j.n /\ s.wr = NoFile
    BY <2>1, <2>4, <2>5
  <2> QED
    BY <1>4, <2>2, <2>6 DEF StorAt, p
<1>5. CASE j.pc \notin {"wopen", "wdata", "recv", "wchunk"} /\ ~(j.pc = "close" /\ ~j.bad)
  BY <1>5, <1>a, Zenon DEF StorAt
<1> QED
  BY <1>1, <1>2, <1>3, <1>4, <1>5

\* Another answer in FTP_RES does no harm while the session's command is in QUEUE.
LEMMA StorShared ==
  ASSUME NEW q, NEW c, NEW j, NEW r, NEW a, StorAt(q, c, j, r, a), NEW b,
         j.pc \in {"wopen", "close"} => In(q, c)
  PROVE  StorAt(q, c, j, r, b)
BY Zenon DEF StorAt

\* The upload while the storage task works.
LEMMA TaskStor ==
  ASSUME BaseInv, StorInv, StorageTask \/ Other
  PROVE  StorInv'
<1>0. queue \in Seq(Command) /\ \A c \in Ftp : IsSlot(xfer[c])
  BY DEF BaseInv, WakeInv
<1>1. UNCHANGED <<mode, job>> /\ \A c \in spoiled : c \in spoiled'
  BY TaskKeeps
<1>2. ASSUME NEW c \in Ftp, c \notin spoiled', mode' = "mounted"
      PROVE  StorAt(queue', c, job[c], xfer'[c], ftpRes') /\ StorTrue(queue', c, job[c], xfer'[c])
  <2>0. c \in Client /\ c \notin spoiled
    BY <1>1, <1>2 DEF Client
  <2>1. StorAt(queue, c, job[c], xfer[c], ftpRes) /\ StorTrue(queue, c, job[c], xfer[c])
    BY <1>1, <1>2, <2>0 DEF StorInv, StorNow
  <2>2. CASE Handles /\ queue[1].who = c
    <3>1. queue # <<>> /\ queue' = Tail(queue) /\ Makes(queue[1], xfer[c], xfer'[c], ftpRes')
      BY <2>2 DEF Handles
    <3>2. StorAt(Tail(queue), c, job[c], xfer'[c], ftpRes')
      BY <1>0, <2>1, <2>2, <3>1, StorTaken, Zenon
    <3>3. In(queue, c)
      BY <1>0, <2>2, <3>1, OwnTaken, Zenon
    <3>4. StorTrue(queue', c, job[c], xfer'[c])
      BY <2>1, <3>3, Zenon DEF StorTrue
    <3> QED BY <3>1, <3>2, <3>4
  <2>3. CASE ~(Handles /\ queue[1].who = c)
    <3>1. /\ \/ queue' = queue
             \/ \E m \in Command : m.who # c /\ queue' = Append(queue, m)
             \/ queue # <<>> /\ queue[1].who # c /\ queue' = Tail(queue)
          /\ Handles \/ UNCHANGED <<xfer, dl, ftpRes>>
      BY <1>2, <2>0, <2>3, TaskEffect
    <3>2. xfer'[c] = xfer[c]
      BY <2>3, <3>1 DEF Handles
    <3>3. StorAt(queue, c, job[c], xfer[c], ftpRes')
      <4>1. CASE ftpRes' = ftpRes
        BY <2>1, <4>1
      <4>2. CASE ftpRes' # ftpRes
        <5>1. queue[1].who # c /\ c \notin Overwritten(queue[1]) /\ queue[1].op \in ResOp
          BY <1>2, <2>3, <3>1, <4>2 DEF Handles
        <5>2. job[c].pc \in {"wopen", "close"} => ~Answered(c)
          BY <2>0, <5>1 DEF Overwritten, ResOp
        <5>3. job[c].pc \in {"wopen", "close"} => In(queue, c)
          BY <5>2 DEF Answered, In
        <5> QED BY <2>1, <5>3, StorShared
      <4> QED BY <4>1, <4>2
    <3>4. StorAt(queue', c, job[c], xfer[c], ftpRes')
      BY <1>0, <3>1, <3>3, StorKept
    <3>5. In(queue', c) => In(queue, c)
      BY <1>0, <3>1, CmdKept
    <3>6. StorTrue(queue', c, job[c], xfer[c])
      BY <2>1, <3>5, Zenon DEF StorTrue
    <3> QED BY <3>2, <3>4, <3>6
  <2> QED BY <2>2, <2>3
<1>3. ASSUME NEW c \in Ftp, c \notin spoiled', mode' # "mounted"
      PROVE  StorTrue(queue', c, job[c], xfer'[c])
  <2>1. StorTrue(queue, c, job[c], xfer[c])
    BY <1>1, <1>3 DEF StorInv
  <2> QED BY <1>1, <1>3, <2>1, Zenon DEF StorTrue
<1>4. ASSUME NEW c \in Ftp, c \notin spoiled'
      PROVE  StorNow(c)' /\ StorTrue(queue, c, job[c], xfer[c])'
  <2>1. mode' = "mounted" => StorAt(queue', c, job'[c], xfer'[c], ftpRes')
    BY <1>1, <1>2, <1>4
  <2>2. StorTrue(queue', c, job'[c], xfer'[c])
    BY <1>1, <1>2, <1>3, <1>4
  <2> QED BY <1>1, <2>1, <2>2 DEF StorNow, StorTrue
<1> QED
  BY <1>4 DEF StorInv

\* A caller's step, as seen by every session's upload.
LEMMA MovesStor ==
  ASSUME BaseInv, StorInv, NEW c \in Client, NEW j, Moves(c, j),
         c \in Ftp /\ c \notin spoiled' => StorMoves(c, j)
  PROVE  StorInv'
<1>1. /\ UNCHANGED <<mode, xfer, ftpRes>> /\ job'[c] = j
      /\ \A d \in Client \ {c} :
           /\ job'[d] = job[d] /\ (d \in spoiled => d \in spoiled')
           /\ queue' = queue \/ \E m \in Command : m.who # d /\ queue' = Append(queue, m)
  BY CallerStep
<1>2. ASSUME NEW d \in Ftp, d \notin spoiled' PROVE StorNow(d)' /\ StorTrue(queue, d, job[d], xfer[d])'
  <2>1. CASE d = c
    BY <1>1, <1>2, <2>1 DEF StorMoves, StorNow, StorTrue
  <2>2. CASE d # c
    <3>1. /\ job'[d] = job[d] /\ queue \in Seq(Command) /\ d \notin spoiled
          /\ queue' = queue \/ \E m \in Command : m.who # d /\ queue' = Append(queue, m)
      BY <1>1, <1>2, <2>2, Zenon DEF Client, BaseInv, WakeInv
    <3>2. /\ mode = "mounted" => StorAt(queue, d, job[d], xfer[d], ftpRes)
          /\ StorTrue(queue, d, job[d], xfer[d])
      BY <3>1 DEF StorInv, StorNow
    <3>3. mode = "mounted" => StorAt(queue', d, job[d], xfer[d], ftpRes)
      BY <3>1, <3>2, StorKept
    <3>4. In(queue', d) => In(queue, d)
      BY <3>1, CmdKept
    <3> QED BY <1>1, <3>1, <3>2, <3>3, <3>4 DEF StorNow, StorTrue
  <2> QED BY <2>1, <2>2
<1> QED
  BY <1>2 DEF StorInv

\* StorInv is inductive.
LEMMA StorInvStep == BaseInv /\ StorInv /\ [Next]_vars => StorInv'
<1> SUFFICES ASSUME BaseInv, StorInv, [Next]_vars PROVE StorInv'
  OBVIOUS
<1>1. CASE UNCHANGED vars
  <2>1. UNCHANGED <<mode, queue, xfer, ftpRes, job, spoiled>>
    BY <1>1 DEF vars
  <2> QED BY <2>1 DEF StorInv, StorNow, StorTrue
<1>2. CASE StorageTask \/ Other
  BY <1>2, TaskStor
<1>3. ASSUME NEW c \in Web,
             WebSteps(c) \/ WebTimeout(c) \/ WebGone(c) \/ \E f \in File : WebOpen(c, f)
      PROVE  StorInv'
  <2>1. c \in Client /\ c \notin Ftp
    BY RpcAssumption DEF Client
  <2>2. PICK j : Moves(c, j)
    BY <1>3, WebMoves DEF Loading
  <2> QED BY <2>1, <2>2, MovesStor
<1>4. ASSUME NEW c \in Ftp,
             \/ FtpSteps(c) \/ RetrTimeout(c) \/ RetrGone(c) \/ StorTimeout(c)
             \/ PathOp(c) \/ PathTimeout(c)
             \/ \E f \in File : StorOpen(c, f) \/ \E k \in Rests : RetrOpen(c, f, k)
      PROVE  StorInv'
  <2>1. c \in Client
    BY DEF Client
  <2>2. PICK j : Moves(c, j) /\ (StorNow(c) /\ c \notin spoiled' => StorMoves(c, j))
    BY <1>4, FtpMoves, Zenon
  <2>3. ASSUME c \notin spoiled' PROVE StorNow(c)
    <3>1. CASE job[c].pc = "idle"
      BY <3>1, Zenon DEF StorNow, StorAt
    <3>2. CASE job[c].pc # "idle"
      BY <2>1, <2>2, <2>3, <3>2, CallerStep DEF StorInv
    <3> QED BY <3>1, <3>2
  <2> QED BY <2>1, <2>2, <2>3, MovesStor
<1> QED
  BY <1>1, <1>2, <1>3, <1>4 DEF Next

\* 226 to STOR: every part received went through the write handle and the handle was
\* closed without an error, unless the answer of another session's command replaced
\* the one to the open or to the close in FTP_RES, or the full QUEUE dropped a command
\* of the upload.  It holds for any number of sessions, with any timeouts, commands
\* left in QUEUE and write errors.
THEOREM UploadIsHonest == Spec => []UploadHonest
<1>1. StorInv => UploadHonest
  BY Zenon DEF StorInv, StorTrue, UploadHonest, Stored
<1> QED
  BY HonestInit, BaseStep, StorInvStep, <1>1, PTL DEF Spec
=============================================================================
