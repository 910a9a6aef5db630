------------------------------- MODULE Modbus -------------------------------
(***************************************************************************)
(* Everything that reads and writes the register map while the device      *)
(* runs: two Modbus TCP connections (mbtcp.rs, mbtcp_adu.rs), the Modbus   *)
(* RTU slave (rtu.rs, rtu_frame.rs), the web page and the shell (httpd.rs, *)
(* shell.rs), the configuration commands that store registers without      *)
(* hooks (udp_cfg.rs, storage.rs) and the link monitor (main.rs).  One PDU *)
(* or write runs in one critical section; tasks interleave between them.   *)
(*                                                                         *)
(* The bytes of a TCP stream are cells <<k, i>>, the i-th cell of the k-th *)
(* ADU that the client sent: Hdr cells of header and unit and, when the    *)
(* PDU has data, Body cells of it.                                         *)
(***************************************************************************)
EXTENDS RegMap, FiniteSets
LOCAL INSTANCE SequencesExt

CONSTANTS
  Conns,      \* the connection tasks
  Adus,       \* the requests that TCP clients send
  RtuFrames,  \* what arrives on the RS485 line between two silences
  RtuUnit,    \* the unit the slave is bound to
  WebWrites,  \* (address, value) pairs written over the web
  ShellCommands,  \* commands given to the shell
  WebForms,   \* bodies of POST /api/cfg: sequences of fields
  Hdr, Body,  \* cells of a header, of the data of a PDU
  MaxAdus,    \* bound on the ADUs of one connection
  MaxOps      \* bound on the requests of all clients

ASSUME FramingAssumption == Hdr \in Nat \ {0} /\ Body \in Nat \ {0}

VARIABLES
  dev,        \* registers, pins, time and counters
  conn,       \* the state of each connection task
  rtu,        \* the frame the RTU task holds while it waits t3.5
  ops         \* requests so far, for the bound

vars == <<dev, conn, rtu, ops>>

NoFrame == [kind |-> "none"]

\* A connection task before accept(): nothing in the socket or in rbuf, no
\* partial frame, no deadline.  sent, served and answered are the ADUs of the
\* client, the frames handed to the server and the ones replied to.
Closed == [pc |-> "accept", unread |-> << >>, chunk |-> << >>,
           frame |-> << >>, dl |-> "none",
           sent |-> << >>, served |-> << >>, answered |-> << >>]

Init == /\ dev = PowerOn
        /\ conn = [c \in Conns |-> Closed]
        /\ rtu = NoFrame
        /\ ops = 0

Op == ops < MaxOps /\ ops' = ops + 1
-----------------------------------------------------------------------------
Accept(c) ==
  /\ conn[c].pc = "accept"
  /\ conn' = [conn EXCEPT ![c].pc = "top"]
  /\ UNCHANGED <<dev, rtu, ops>>

\* The client sends an ADU; TCP delivers its cells in order.
Size(adu) == IF adu.pdu.short THEN Hdr ELSE Hdr + Body
Cells(k, adu) == [i \in 1 .. Size(adu) |-> <<k, i>>]

Send(c, adu) ==
  /\ Op
  /\ conn[c].pc # "accept" /\ Len(conn[c].sent) < MaxAdus
  /\ conn' = [conn EXCEPT
                ![c].sent = Append(@, adu),
                ![c].unread = @ \o Cells(Len(conn[c].sent) + 1, adu)]
  /\ UNCHANGED <<dev, rtu>>

\* mbap_frame_len of the header in the buffer
FrameLen(c, frame) == Size(conn[c].sent[frame[1][1]])
Whole(c, frame) == Len(frame) >= Hdr /\ Len(frame) >= FrameLen(c, frame)

\* The top of serve()'s loop: the half-frame deadline, then the read.
Top(c) ==
  /\ conn[c].pc = "top"
  /\ conn' = IF conn[c].dl = "expired"
             THEN [conn EXCEPT ![c] = Closed]
             ELSE [conn EXCEPT ![c].pc = "read"]
  /\ UNCHANGED <<dev, rtu, ops>>

\* sock.read returns between one byte and everything that has arrived.
ReadSome(c, n) ==
  /\ conn[c].pc = "read"
  /\ conn' = [conn EXCEPT ![c].chunk = SubSeq(conn[c].unread, 1, n),
                          ![c].unread = SubSeq(@, n + 1, Len(@)),
                          ![c].pc = "parse"]
  /\ UNCHANGED <<dev, rtu, ops>>

\* The client closes or the socket fails: serve() returns, the task aborts
\* the socket and accepts again.
Hangup(c) ==
  /\ conn[c].pc \in {"read", "write"}
  /\ conn' = [conn EXCEPT ![c] = Closed]
  /\ UNCHANGED <<dev, rtu, ops>>

\* mbtcp_adu_process: a foreign protocol is refused before the server sees the
\* PDU; broadcasts and silent drops are counted and not answered.
AduProcess(d, adu) ==
  LET s == Process(d, adu.pdu)
  IN CASE adu.proto # 0 -> [d EXCEPT !.calls = << >>, !.reply = Exception(4)]
       [] adu.proto = 0 /\ (adu.unit = 0 \/ s.reply = NoReply) ->
            Drop(Count(s, "NoResp"))
       [] OTHER -> s

\* want - flen: never more than the current frame needs.  (The mutant takes
\* the whole chunk.)
TakeAll(c, frame, chunk) == Len(chunk)
Take(c, frame, chunk) ==
  LET want == IF Len(frame) < Hdr THEN Hdr ELSE FrameLen(c, frame)
      room == want - Len(frame)
  IN IF Len(chunk) < room THEN Len(chunk) ELSE room

\* The frame has been processed: flen = 0 and no deadline.  (The mutant keeps
\* the deadline.)
RestartedStale(cn) == [cn EXCEPT !.frame = << >>, !.pc = "parse"]
Restarted(cn) == [cn EXCEPT !.frame = << >>, !.dl = "none", !.pc = "parse"]

\* One iteration of the copy loop; a complete frame is processed in it.
Parse(c) ==
  LET cn == conn[c]
      take == Take(c, cn.frame, cn.chunk)
      frame == cn.frame \o SubSeq(cn.chunk, 1, take)
      rest == [cn EXCEPT !.frame = frame,
                         !.chunk = SubSeq(@, take + 1, Len(@))]
      k == frame[1][1]
      done == AduProcess(dev, cn.sent[k])
      served == [rest EXCEPT !.served = Append(@, frame)]
  IN /\ cn.pc = "parse" /\ cn.chunk # << >>
     /\ \/ /\ ~Whole(c, frame)
           /\ conn' = [conn EXCEPT ![c] = rest]
           /\ UNCHANGED dev
        \/ /\ Whole(c, frame)
           /\ dev' = done
           /\ conn' = [conn EXCEPT ![c] =
                         IF done.reply = NoReply THEN Restarted(served)
                         ELSE [served EXCEPT !.pc = "write"]]
     /\ UNCHANGED <<rtu, ops>>

\* write_all has sent the reply.
Written(c) ==
  /\ conn[c].pc = "write"
  /\ conn' = [conn EXCEPT ![c] =
                [Restarted(conn[c]) EXCEPT
                   !.answered = Append(@, conn[c].frame[1][1])]]
  /\ UNCHANGED <<dev, rtu, ops>>

\* The chunk is used up: a partial frame gets a deadline, once.
ChunkEnd(c) ==
  /\ conn[c].pc = "parse" /\ conn[c].chunk = << >>
  /\ conn' = [conn EXCEPT ![c].pc = "top",
                          ![c].dl = IF conn[c].frame # << >> /\ @ = "none"
                                    THEN "armed" ELSE @]
  /\ UNCHANGED <<dev, rtu, ops>>

\* 500 ms have passed since the deadline was set.
Expire(c) ==
  /\ conn[c].dl = "armed"
  /\ conn' = [conn EXCEPT ![c].dl = "expired"]
  /\ UNCHANGED <<dev, rtu, ops>>
-----------------------------------------------------------------------------
\* rtu_task: a burst of bytes, then t3.5.  What arrives while the task waits
\* is not received.
RtuReceive(f) ==
  /\ Op
  /\ rtu = NoFrame
  /\ rtu' = f
  /\ UNCHANGED <<dev, conn>>

\* RtuFrame::t35_expired: length, CRC and unit checks, the server, the reply.
CountAll(d, cs) == [d EXCEPT !.diag = [c \in Counters |->
                      IF c \in cs THEN Count(d, c).diag[c] ELSE @[c]]]

RtuProcess(d, f) ==
  LET quiet == [d EXCEPT !.calls = << >>, !.reply = NoReply]
      s == Process(d, f.pdu)
  IN CASE f.kind = "length" -> CountAll(quiet, {"BusMsg", "NoResp"})
       [] f.kind = "crc" -> CountAll(quiet, {"BusMsg", "CrcErr", "NoResp"})
       [] f.kind = "good" /\ f.unit \notin {0, RtuUnit} ->
            CountAll(quiet, {"BusMsg", "NoResp"})
       [] f.kind = "good" /\ f.unit = RtuUnit /\ s.reply # NoReply -> s
       [] OTHER -> Drop(Count(s, "NoResp"))

RtuExpired ==
  /\ rtu # NoFrame
  /\ dev' = RtuProcess(dev, rtu)
  /\ rtu' = NoFrame
  /\ UNCHANGED <<conn, ops>>
-----------------------------------------------------------------------------
Quiet(d) == [d EXCEPT !.calls = << >>, !.reply = NoReply]

\* web_cmd_reg: the REBOOT register is not written, it asks for the graceful
\* reboot.
WebReg(w) ==
  /\ Op
  /\ dev' = CASE w[1] = RebootIdx /\ w[2] # 0 ->
                   Calls(Quiet(dev), "reboot status")
              [] w[1] = RebootIdx /\ w[2] = 0 -> Quiet(dev)
              [] OTHER -> WriteHolding(Quiet(dev), w[1], w[2])
  /\ UNCHANGED <<conn, rtu>>

\* The shell's commands that change something, with their numbers (-1 for one
\* that parse_u32 refuses).  A number out of range changes nothing; `baud`
\* stores the low word of what it has checked.
ShellWrite(d, name, a) ==
  CASE name = "do set" /\ a[1] \in 1 .. DoNum /\ a[2] \in 0 .. 1 ->
         WriteDoBit(d, a[1] - 1, a[2] # 0)
    [] name = "reg" /\ a[1] \in Addrs /\ a[2] \in 0 .. 65535 -> WriteHolding(d, a[1], a[2])
    [] name = "baud" /\ a[1] \in 1200 .. 115200 -> WriteHolding(d, Rs485Idx, a[1] % 65536)
    [] name = "sid" /\ a[1] \in 1 .. 247 -> WriteHolding(d, SlaveIdIdx, a[1])
    [] name = "id" /\ a[1] \in 1 .. 2047 -> WriteHolding(d, CanIdIdx, a[1])
    [] name = "bps" /\ a[1] \in {50, 100, 125, 250, 500, 800, 1000} -> WriteHolding(d, CanBaudIdx, a[1])
    [] name = "ip" /\ a[1] \in 1 .. 254 \ {127} /\ a[4] \in 1 .. 254 ->
         Calls(FoldLeft(LAMBDA e, i : WriteHolding(e, IpOctet1Idx + i - 1, a[i]), d, <<1, 2, 3, 4>>),
               "save")
    [] name = "save" -> Calls(d, "save")
    [] name = "factory" -> Calls(Calls(d, "erase all"), "reboot status")
    [] name = "reboot" -> Calls(Calls(d, "sync"), "reboot status")
    [] OTHER -> d

ShellCommand(c) ==
  /\ Op
  /\ dev' = ShellWrite(Quiet(dev), c.name, c.args)
  /\ UNCHANGED <<conn, rtu>>

\* web_cmd_cfg writes field by field and stops at the first invalid one; a
\* valid value that does not fit a register is skipped by web_cmd_reg.
WebCfg(form) ==
  LET valid == Cardinality({i \in DOMAIN form :
                              \A j \in 1 .. i : form[j].valid})
      step(d, i) == LET f == form[i + 1]
                    IN IF f.val > 65535 THEN d ELSE WriteHolding(d, f.addr, f.val)
  IN /\ Op
     /\ dev' = FoldLeft(step, Quiet(dev), [k \in 1 .. valid |-> k - 1])
     /\ UNCHANGED <<conn, rtu>>

\* web_write_do_bit
WebDoBit(bit, on) ==
  /\ Op
  /\ dev' = WriteDoBit(Quiet(dev), bit, on)
  /\ UNCHANGED <<conn, rtu>>

\* The UDP commands store configuration registers without their hooks and ask
\* for a save.
UdpSetModbus(id, baud) ==
  /\ Op
  /\ dev' = Calls(Stored(Stored(Quiet(dev), SlaveIdIdx, id), Rs485Idx, baud),
                  "save")
  /\ UNCHANGED <<conn, rtu>>

IpValid(ip) == ip[4] \notin {0, 255} /\ ip[1] \notin {0, 127} /\ ip[1] < 224

UdpSetIp(ip) ==
  /\ Op
  /\ dev' = IF IpValid(ip)
            THEN Calls([Quiet(dev) EXCEPT !.holding =
                   [a \in Addrs |-> IF a \in IpOctet1Idx .. IpOctet1Idx + 3
                                    THEN ip[a - IpOctet1Idx + 1] ELSE @[a]]],
                   "save")
            ELSE Quiet(dev)
  /\ UNCHANGED <<conn, rtu>>

\* UDP SET_TIME and the page's time command
SetTime(ts) ==
  /\ Op
  /\ dev' = SetTimestamp(Quiet(dev), ts)
  /\ UNCHANGED <<conn, rtu>>

\* apply_cfg_to_regs at the end of a factory erase
FactoryErased ==
  /\ Op
  /\ dev' = [Quiet(dev) EXCEPT !.holding =
               [a \in Addrs |-> IF a \in DiEnableIdx .. IpOctet1Idx + 3
                                THEN DefaultHolding[a] ELSE @[a]]]
  /\ UNCHANGED <<conn, rtu>>

\* The link monitor of the heartbeat: all outputs off.  (The mutant clears the
\* register only.)
LinkDownUndriven == dev' = Stored(Quiet(dev), DoIdx, 0)
OutputsOff == dev' = SetDo(Stored(Quiet(dev), DoIdx, 0), 0)

LinkDown ==
  /\ Op
  /\ OutputsOff
  /\ UNCHANGED <<conn, rtu>>

Next ==
  \/ \E c \in Conns :
       \/ Accept(c) \/ Top(c) \/ Parse(c) \/ Written(c)
       \/ ChunkEnd(c) \/ Expire(c) \/ Hangup(c)
       \/ \E adu \in Adus : Send(c, adu)
       \/ \E n \in 1 .. Len(conn[c].unread) : ReadSome(c, n)
  \/ \E f \in RtuFrames : RtuReceive(f)
  \/ RtuExpired
  \/ \E w \in WebWrites : WebReg(w)
  \/ \E c \in ShellCommands : ShellCommand(c)
  \/ \E form \in WebForms : WebCfg(form)
  \/ \E bit \in {0, DoNum - 1}, on \in BOOLEAN : WebDoBit(bit, on)
  \/ UdpSetModbus(2, 19200)
  \/ \E last \in {0, 7} : UdpSetIp(<<10, 0, 0, last>>)
  \/ \E ts \in {<<30000, 0>>, <<1, 0>>} : SetTime(ts)
  \/ FactoryErased \/ LinkDown

Spec == Init /\ [][Next]_vars
-----------------------------------------------------------------------------
\* The output pins and LEDs show the low byte of the DO register, whichever
\* of the write paths changed it last: whole register, single coil, coils
\* of a request that failed half way, web, shell, or the link monitor.
OutputsFollow == dev.dout = dev.holding[DoIdx] % 256

\* However the stream is cut into reads, the server is handed the client's
\* ADUs whole, once and in order, and replies to exactly the ones that are
\* neither broadcasts nor silent drops, in order (mbtcp.rs serve).
Answerable(adu) == adu.proto # 0 \/ (adu.unit # 0 /\ ~adu.pdu.short)
ServedInOrder ==
  \A c \in Conns :
    LET cn == conn[c]
        inHand == IF cn.pc = "write" THEN <<Len(cn.served)>> ELSE << >>
        ks == [k \in 1 .. Len(cn.served) |-> k]
    IN /\ Len(cn.served) <= Len(cn.sent)
       /\ \A k \in 1 .. Len(cn.served) : cn.served[k] = Cells(k, cn.sent[k])
       /\ cn.answered \o inHand =
            SelectSeq(ks, LAMBDA k : Answerable(cn.sent[k]))

\* While a connection waits for input it has a half-frame deadline exactly
\* when it holds half a frame: an idle connection is never dropped because of
\* a frame that was completed (mbtcp.rs serve).
DeadlineForHalf ==
  \A c \in Conns : conn[c].pc \in {"top", "read"} =>
    (conn[c].dl = "none" <=> conn[c].frame = << >>)

\* The PDU that the server decodes in this step, if any.
Handled ==
  {conn[c].sent[Len(conn[c].served) + 1].pdu :
     c \in {c \in Conns : /\ Len(conn'[c].served) = Len(conn[c].served) + 1
                         /\ conn[c].sent[Len(conn[c].served) + 1].proto = 0}}
  \cup (IF rtu # NoFrame /\ rtu' = NoFrame /\ rtu.kind = "good"
          THEN (IF rtu.unit \in {0, RtuUnit} THEN {rtu.pdu} ELSE {})
          ELSE {})

\* What a write request asks for: the value it gives to a register.
Asks(p, a) ==
  /\ ~p.short
  /\ \/ p.fc = 6 /\ a = p.addr
     \/ /\ p.fc = 16 /\ p.val \in 1 .. 125 /\ a \in p.addr .. p.addr + p.val - 1
        /\ Len(p.data) = p.count /\ p.count \in 2 * p.val .. 3 * p.val - 1
Value(p, a) ==
  IF p.fc = 6 THEN p.val
  ELSE p.data[2 * (a - p.addr) + 1] * 256 + p.data[2 * (a - p.addr) + 2]

\* Every nonzero write to the SAVE or REBOOT register reaches its hook, the
\* second one as well as the first: the command registers clear themselves, so
\* that the same-value shortcut never swallows a command (regmap.rs
\* io_write_holding).
Heard(hook) == \E i \in 1 .. Len(dev'.calls) : dev'.calls[i] = hook
CommandsHeard ==
  [][\A p \in Handled :
       /\ Asks(p, ConfigSaveIdx) /\ Value(p, ConfigSaveIdx) # 0 => Heard("save")
       /\ Asks(p, RebootIdx) /\ Value(p, RebootIdx) # 0 =>
            Heard("sync") /\ Heard("reboot")]_vars

\* The output bits that a coil request asks for.
BitAt(v, i) == (v \div 2 ^ i) % 2
AsksBit(p, i) ==
  /\ p.val \in 1 .. 2000 /\ Len(p.data) = p.count
  /\ p.count * 8 \in p.val .. p.val + 7 /\ i \in p.addr .. p.addr + p.val - 1

\* FC06 and FC16 give every existing register they address its value, FC15 every
\* existing output its bit, and they touch no other one, also when the request
\* runs past the last address and is answered with an exception (mb_server.rs
\* fc06, fc15, fc16).
WritesExact ==
  [][\A p \in Handled :
       /\ p.fc \in {6, 16} =>
            \A a \in Addrs :
              dev'.holding[a] = IF ~Asks(p, a) THEN dev.holding[a]
                                ELSE IF a \in {ConfigSaveIdx, RebootIdx} THEN 0
                                ELSE Value(p, a)
       /\ p.fc = 15 /\ ~p.short =>
            \A i \in 0 .. DoNum - 1 :
              BitAt(dev'.dout, i) =
                IF AsksBit(p, i) THEN BitAt(p.data[(i - p.addr) \div 8 + 1], (i - p.addr) % 8)
                ELSE BitAt(dev.dout, i)]_vars
=============================================================================
