------------------------------- MODULE RegMap -------------------------------
(***************************************************************************)
(* The register map (regmap.rs) and the Modbus PDU server on top of it     *)
(* (mb_server.rs), as operators on the state of the device                 *)
(*                                                                         *)
(*   holding  the holding registers, with the addresses of the source      *)
(*   dout     the output pins and their LEDs, as set_do last drove them    *)
(*   epoch    the system time as the pair (high word, low word)            *)
(*   diag     the FC08 counters, which saturate at DiagMax                 *)
(*   calls    the hooks called by the latest request, in order             *)
(*   reply    what the latest PDU is answered with                         *)
(*                                                                         *)
(* A PDU is its function code, its address and value fields, the byte      *)
(* count field and the data bytes of FC15 and FC16, and whether its length *)
(* is one the handler drops silently.  The values that reads return are    *)
(* left out, the outcome of the read is not.                               *)
(***************************************************************************)
EXTENDS Integers, Sequences, TLC
LOCAL INSTANCE SequencesExt

CONSTANT DiagMax   \* largest value of a diagnostic counter (65535)

ASSUME DiagAssumption == DiagMax \in Nat \ {0}

DoNum == 8
DiNum == 16
HoldingNumbers == 18
InputNumbers == 6

DoIdx == 0
DiEnableIdx == 1
HistoryEnableIdx == 5
CanIdIdx == 6
CanBaudIdx == 7
Rs485Idx == 8
SlaveIdIdx == 9
IpOctet1Idx == 10
TimestampHiIdx == 14
TimestampLoIdx == 15
ConfigSaveIdx == 16
RebootIdx == 17
Addrs == 0 .. HoldingNumbers - 1

Counters == {"BusMsg", "CrcErr", "Exc", "SrvMsg", "NoResp"}

\* RegMap::new
DefaultHolding ==
  LET set == (1 :> 65535 @@ 2 :> 15 @@ 3 :> 200 @@ 4 :> 200 @@ 6 :> 273
              @@ 7 :> 250 @@ Rs485Idx :> 9600 @@ SlaveIdIdx :> 1
              @@ IpOctet1Idx :> 192 @@ 11 :> 168 @@ 12 :> 12 @@ 13 :> 101)
  IN [a \in Addrs |-> IF a \in DOMAIN set THEN set[a] ELSE 0]

\* time_math.rs: TS_DEFAULT, and TS_MIN .. TS_MAX as pairs of words
DefaultEpoch == <<24075, 57600>>
TsValid(ts) ==
  /\ ts[1] > 14445 \/ (ts[1] = 14445 /\ ts[2] >= 17280)
  /\ ts[1] < 62598 \/ (ts[1] = 62598 /\ ts[2] <= 22272)

NoReply == [kind |-> "none", code |-> 0]
Done == [kind |-> "ok", code |-> 0]
Exception(code) == [kind |-> "exc", code |-> code]
IllegalFc == 1
IllegalAddr == 2
IllegalVal == 3

PowerOn == [holding |-> DefaultHolding, dout |-> 0, epoch |-> DefaultEpoch,
            diag |-> [c \in Counters |-> 0], calls |-> << >>,
            reply |-> NoReply]
-----------------------------------------------------------------------------
\* The hooks of appstate.rs that registers call.
Calls(s, hook) == [s EXCEPT !.calls = Append(@, hook)]
SetDo(s, val) == [s EXCEPT !.dout = val % 256]
SetTimestamp(s, ts) ==
  IF TsValid(ts) THEN [s EXCEPT !.epoch = ts] ELSE s

\* io_write_holding, for an address that exists: a same-value write has no
\* effect at all.
Stored(s, a, v) == [s EXCEPT !.holding[a] = v]

\* The two command registers clear themselves.  (The mutant does not.)
CommandKept(s, a, v) == Stored(s, a, v)
Command(s, a, v) == Stored(s, a, 0)

WriteHolding(s, a, v) ==
  CASE s.holding[a] = v -> s
    [] a = DoIdx -> SetDo(Stored(s, a, v), v)
    [] a = HistoryEnableIdx ->
         Calls(Stored(s, a, v), IF v # 0 THEN "history on" ELSE "history off")
    [] a = TimestampLoIdx ->
         SetTimestamp(Stored(s, a, v), <<s.holding[TimestampHiIdx], v>>)
    [] a = ConfigSaveIdx -> Calls(Command(s, a, v), "save")
    [] a = RebootIdx /\ v # 0 ->
         Calls(Calls(Command(s, a, v), "sync"), "reboot")
    [] a = RebootIdx /\ v = 0 -> Command(s, a, v)
    [] OTHER -> Stored(s, a, v)

\* io_write_do_bit, for a bit that exists.
WriteDoBit(s, bit, on) ==
  LET val == s.holding[DoIdx]
      bitVal == 2 ^ bit
      isOn == (val \div bitVal) % 2 = 1
      new == CASE on /\ ~isOn -> val + bitVal
               [] ~on /\ isOn -> val - bitVal
               [] OTHER -> val
  IN Stored(SetDo(s, new), DoIdx, new % 256)
-----------------------------------------------------------------------------
\* MbServer::diag_count and exc_rsp: the counters saturate.
Count(s, c) ==
  [s EXCEPT !.diag[c] = IF @ < DiagMax THEN @ + 1 ELSE DiagMax]

Answer(s) == [s EXCEPT !.reply = Done]
Drop(s) == [s EXCEPT !.reply = NoReply]
ExcRsp(s, code) == [Count(s, "Exc") EXCEPT !.reply = Exception(code)]

\* fc01, fc02, fc03, fc04: quantity, extension area, then every address.
Read(s, p, maxQty, size, extension) ==
  CASE p.short -> Drop(s)
    [] p.val = 0 \/ p.val > maxQty -> ExcRsp(s, IllegalVal)
    [] extension /\ p.addr >= 5000 -> ExcRsp(s, IllegalFc)
    [] p.addr + p.val > size -> ExcRsp(s, IllegalAddr)
    [] OTHER -> Answer(s)

\* fc05 and fc06
WriteCoil(s, p) ==
  CASE p.short -> Drop(s)
    [] p.addr >= DoNum -> ExcRsp(s, IllegalAddr)
    [] OTHER -> Answer(WriteDoBit(s, p.addr, p.val # 0))

WriteReg(s, p) ==
  CASE p.short -> Drop(s)
    [] p.addr >= HoldingNumbers -> ExcRsp(s, IllegalAddr)
    [] OTHER -> Answer(WriteHolding(s, p.addr, p.val))

\* fc08: clearing also forgets the counts of this very PDU.
Diagnostics(s, p) ==
  CASE p.short -> Drop(s)
    [] p.addr = 10 -> Answer([s EXCEPT !.diag = [c \in Counters |-> 0]])
    [] p.addr = 0 \/ p.addr \in 11 .. 15 -> Answer(s)
    [] OTHER -> ExcRsp(s, IllegalFc)

\* The write loops of fc15 and fc16 stop at the first address that does not
\* exist; what was written before it stays written.  Reach(p, size) are the
\* indices written.  (The mutant checks the whole range beforehand.)
ReachAllOrNone(p, size) ==
  IF p.addr + p.val <= size THEN [k \in 1 .. p.val |-> k - 1] ELSE << >>
Reach(p, size) ==
  LET n == CASE p.addr + p.val <= size -> p.val
             [] p.addr + p.val > size /\ p.addr < size -> size - p.addr
             [] OTHER -> 0
  IN [k \in 1 .. n |-> k - 1]

AfterLoop(s, p, size) ==
  IF p.addr + p.val <= size THEN Answer(s) ELSE ExcRsp(s, IllegalAddr)

WriteCoils(s, p) ==
  LET bitOf(i) == (p.data[i \div 8 + 1] \div 2 ^ (i % 8)) % 2 = 1
      step(d, i) == WriteDoBit(d, p.addr + i, bitOf(i))
  IN CASE p.short -> Drop(s)
       [] p.val = 0 \/ p.val > 2000 -> ExcRsp(s, IllegalVal)
       [] (p.val - 1) \div 8 + 1 # p.count \/ Len(p.data) # p.count ->
            ExcRsp(s, IllegalVal)
       [] OTHER -> AfterLoop(FoldLeft(step, s, Reach(p, DoNum)), p, DoNum)

\* get_be16 of the data bytes.
Word16(p, i) == p.data[2 * i + 1] * 256 + p.data[2 * i + 2]

\* num_bytes / qty is an integer division: up to qty - 1 bytes more than the
\* registers need are accepted and ignored.
WriteRegs(s, p) ==
  LET step(d, i) == WriteHolding(d, p.addr + i, Word16(p, i))
  IN CASE p.short -> Drop(s)
       [] p.val = 0 \/ p.val > 125 -> ExcRsp(s, IllegalVal)
       [] p.addr >= 5000 -> ExcRsp(s, IllegalFc)
       [] Len(p.data) # p.count -> ExcRsp(s, IllegalVal)
       [] p.count \div p.val # 2 -> ExcRsp(s, IllegalVal)
       [] OTHER ->
            AfterLoop(FoldLeft(step, s, Reach(p, HoldingNumbers)), p, HoldingNumbers)

\* MbServer::process
Process(dev, p) ==
  LET s == Count(Count([dev EXCEPT !.calls = << >>], "BusMsg"), "SrvMsg")
  IN CASE p.fc = 1 -> Read(s, p, 2000, DoNum, FALSE)
       [] p.fc = 2 -> Read(s, p, 2000, DiNum, FALSE)
       [] p.fc = 3 -> Read(s, p, 125, HoldingNumbers, TRUE)
       [] p.fc = 4 -> Read(s, p, 125, InputNumbers, TRUE)
       [] p.fc = 5 -> WriteCoil(s, p)
       [] p.fc = 6 -> WriteReg(s, p)
       [] p.fc = 8 -> Diagnostics(s, p)
       [] p.fc = 15 -> WriteCoils(s, p)
       [] p.fc = 16 -> WriteRegs(s, p)
       [] OTHER -> ExcRsp(s, IllegalFc)
=============================================================================
