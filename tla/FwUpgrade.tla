------------------------------ MODULE FwUpgrade ------------------------------
(***************************************************************************)
(* The firmware upgrade: one session (FW) over the staging slot of the NOR *)
(* flash, fed by three channels at once - the UDP server (DATA, DATA_V2),  *)
(* the WebSocket session and the CAN task - none of which owns it.         *)
(*                                                                         *)
(* An image is a sequence of N cells, cell i of the image channel ch sends *)
(* is <<ch, i>>; cell 1 is its header and cell N its TLV block.  Images    *)
(* are signed with the device's key.  The flash holds a cell, is erased,   *)
(* or was programmed twice without an erase in between.  A CRC is the      *)
(* sequence it was computed over.                                          *)
(***************************************************************************)
EXTENDS Integers, Sequences

CONSTANTS
  N,          \* cells of an image
  Page,       \* cells of a flash page (256 bytes)
  SlotSize,   \* cells of the slot (SLOT1_SIZE), the trailer included
  Totals,     \* image sizes that START may announce
  MaxDatagram,\* bound: cells in a DATA or DATA_V2 datagram
  MaxFrame,   \* bound: cells in a WebSocket frame
  KeyChunks,  \* CAN frames that make up a key hash (5)
  TaskSets,   \* bound: the sets of channels that are in use at the same time
  MaxCrc,     \* bound: cells a WebSocket session sends
  MaxFaults   \* bound: flash errors in a behaviour

Channel == {"udp", "ws", "can"}
MinTotal == 1
MagicAt == SlotSize - 1
InfoAt == SlotSize - 2
Cells == 0..SlotSize - 1

ASSUME FwAssumption ==
  /\ N \in Nat \ {0} /\ Page \in Nat \ {0} /\ SlotSize \in Nat /\ SlotSize >= N /\ SlotSize >= 2
  /\ Totals \subseteq Nat /\ KeyChunks \in Nat \ {0} /\ TaskSets \subseteq SUBSET Channel
  /\ MaxDatagram \in Nat /\ MaxFrame \in Nat /\ MaxCrc \in Nat /\ MaxFaults \in Nat

VARIABLES
  session,  \* FW: active, failed, total, written and the page buffer
  slot,     \* contents of the staging slot
  v2,       \* what the UDP task has still to write of a DATA_V2 datagram
  crc,      \* fw_crc of the WebSocket session
  wsPos, canPos,    \* cells that the WebSocket and CAN hosts have sent (N: nothing to send)
  keyMask, keyBad,  \* key_chunk_mask, and the chunks that hold a wrong hash
  writers,  \* who wrote into the session (history variable)
  done,     \* the last image that finish() accepted (history variable)
  stream,   \* the channel that started the session, while it can continue it
  tasks,    \* the channels in use
  faults    \* bounded counter

hostVars == <<wsPos, canPos, keyMask, keyBad>>
vars == <<session, slot, v2, crc, hostVars, writers, done, stream, tasks, faults>>

\* The task of channel ch runs.
Runs(ch) == ch \in tasks /\ UNCHANGED tasks

Erased == <<"erased", 0>>
Garbled == <<"garbled", 0>>
Old == <<"old", 0>>
Magic == <<"magic", 0>>
SwapInfo == <<"swap info", 0>>

NoCrc == <<<<"none", 0>>>>

Image(ch) == [i \in 1..N |-> <<ch, i>>]
NotDone == [ch |-> "none", img |-> <<>>, by |-> {}]
Idle == [active |-> FALSE, failed |-> FALSE, total |-> 0, written |-> 0, page |-> <<>>]
Received == session.written + Len(session.page)
Content(sl, n) == [i \in 1..n |-> sl[i - 1]]

-----------------------------------------------------------------------------
(* The flash.                                                              *)

\* W25q::write: programming a cell that is not erased garbles it.
Program(sl, at, cells) ==
  [i \in DOMAIN sl |->
     IF i \in at..at + Len(cells) - 1
     THEN IF sl[i] = Erased THEN cells[i - at + 1] ELSE Garbled
     ELSE sl[i]]

\* W25q::erase goes upwards; an error stops it after e cells.
EraseTo(e) == [i \in Cells |-> IF i < e THEN Erased ELSE slot[i]]

Fault == faults < MaxFaults /\ faults' = faults + 1

-----------------------------------------------------------------------------
(* The session: fw.rs.  None of its functions awaits.                      *)

Abort == [session EXCEPT !.active = FALSE, !.failed = FALSE, !.page = <<>>, !.written = 0]

\* Mutant of EraseSlot: only the part the image needs is erased.
EraseSlotPart(total) == slot' = EraseTo(total) /\ UNCHANGED faults

EraseSlot(total) == slot' = EraseTo(SlotSize) /\ UNCHANGED faults

\* start, with s the session before it: busy, a bad size or a wrong key change
\* nothing but s; a failed erase leaves the session as it was.
Start(ch, s, total, key) ==
  IF s.active \/ total < MinTotal \/ total > SlotSize \/ key = "bad"
  THEN session' = s /\ UNCHANGED <<slot, writers, stream, done, faults>>
  ELSE \/ /\ EraseSlot(total)
          /\ session' = [active |-> TRUE, failed |-> FALSE, total |-> total,
                         written |-> 0, page |-> <<>>]
          /\ writers' = {} /\ stream' = ch /\ done' = NotDone
       \/ /\ Fault /\ session' = s
          /\ \E e \in 0..SlotSize : slot' = EraseTo(e)
          /\ UNCHANGED <<writers, stream, done>>

\* Mutant of Writable: write does not ask for an open session.
WritableAlways == ~session.failed

Writable == session.active /\ ~session.failed

Fits(d) == Received + Len(d) <= session.total

\* write: every page that fills up is programmed.
WriteOk(d) ==
  LET buf == session.page \o d
      full == (Len(buf) \div Page) * Page
  IN  /\ Writable /\ Fits(d)
      /\ slot' = Program(slot, session.written, SubSeq(buf, 1, full))
      /\ session' = [session EXCEPT !.written = @ + full,
                                    !.page = SubSeq(buf, full + 1, Len(buf))]
      /\ UNCHANGED faults

\* Programming the (j+1)-th of them fails, after p cells have been stored.
WriteFails(d) ==
  LET buf == session.page \o d
      full == (Len(buf) \div Page) * Page
  IN  /\ Writable /\ Fits(d) /\ Fault
      /\ \E j \in 0..(full \div Page) - 1, p \in 0..Page :
           /\ slot' = Program(slot, session.written, SubSeq(buf, 1, j * Page + p))
           /\ session' = [session EXCEPT !.written = @ + j * Page, !.page = <<>>,
                                         !.failed = TRUE]

\* No session, a failed one, or more data than was announced.
WriteRejected(d) ==
  /\ ~Writable \/ ~Fits(d)
  /\ session' = [session EXCEPT !.failed = @ \/ Writable]
  /\ UNCHANGED <<slot, faults>>

\* A call of write by `who` whose result the caller ignores.
Write(who, d) ==
  \/ WriteOk(d) /\ writers' = writers \union {who}
  \/ (WriteFails(d) \/ WriteRejected(d)) /\ UNCHANGED writers

\* The image header is in cell 1 and names the place of the TLV block, which
\* holds the key hash.
TlvOk(sl) == (\E a \in Channel : sl[0] = <<a, 1>>) /\ (\E b \in Channel : sl[N - 1] = <<b, N>>)

\* boot_set_pending on slot sl: magic, image_ok (not modelled) and swap_info, or
\* an error after k of them.
SetPending(sl, k) ==
  LET one == Program(sl, MagicAt, <<Magic>>)
  IN  CASE k = 0 -> sl
        [] k = 1 -> one
        [] k = 2 -> Program(one, InfoAt, <<SwapInfo>>)

\* finish: the session ends whatever happens, its counters stay.
Flushed == Program(slot, session.written, session.page)
Ended(tail) == [session EXCEPT !.active = FALSE, !.written = @ + tail, !.page = <<>>]

\* Mutant of Accepts: the CRC is not compared on any channel.
AcceptsAnyCrc(sl, sum) ==
  session.active /\ ~session.failed /\ Received = session.total /\ TlvOk(sl)

Accepts(sl, sum) ==
  /\ session.active /\ ~session.failed
  /\ Received = session.total
  /\ TlvOk(sl) /\ (sum = NoCrc \/ sum = Content(sl, session.total))

\* finish and, when it verified the image, boot_set_pending.
FinishOk(ch, sum) ==
  /\ Accepts(Flushed, sum)
  /\ session' = Ended(Len(session.page))
  /\ done' = [ch |-> ch, img |-> Content(Flushed, session.total), by |-> writers]
  /\ \/ slot' = SetPending(Flushed, 2) /\ UNCHANGED faults
     \/ Fault /\ \E k \in 0..2 : slot' = SetPending(Flushed, k)

\* A failed session is not flushed; otherwise the sizes, the key hash or the CRC
\* disagree, or a flash operation fails.
FinishFails(ch, sum) ==
  /\ session.active
  /\ \/ session.failed /\ session' = [session EXCEPT !.active = FALSE] /\ UNCHANGED <<slot, faults>>
     \/ /\ ~session.failed /\ ((~Accepts(Flushed, sum) /\ UNCHANGED faults) \/ Fault)
        /\ session' = Ended(Len(session.page)) /\ slot' = Flushed
     \/ /\ ~session.failed /\ Fault
        /\ \E p \in 0..Len(session.page) :
             slot' = Program(slot, session.written, SubSeq(session.page, 1, p))
        /\ session' = Ended(0)
  /\ UNCHANGED done

Finish(ch, sum) ==
  /\ FinishOk(ch, sum) \/ FinishFails(ch, sum)
  /\ UNCHANGED <<writers, stream>>

-----------------------------------------------------------------------------
(* UDP.  A datagram carries any stretch of the host's image at any time:   *)
(* lost, repeated and reordered datagrams are among them.                  *)

Datagrams == UNION {{d \in {SubSeq(Image("udp"), i, j) : j \in 1..N} : Len(d) \in 1..MaxDatagram} : i \in 1..N}
UdpFree == Runs("udp") /\ v2 = <<>>

UdpStart(total, key) ==
  /\ UdpFree /\ Start("udp", session, total, key)
  /\ UNCHANGED <<v2, crc, hostVars>>

UdpData(d) ==
  /\ UdpFree /\ Write("udp", d)
  /\ UNCHANGED <<v2, crc, hostVars, done, stream>>

FirstPage(d) == IF Len(d) > Page THEN SubSeq(d, 1, Page) ELSE d
AfterPage(d) == IF Len(d) > Page THEN SubSeq(d, Page + 1, Len(d)) ELSE <<>>

\* Mutant of Expected: repeated datagrams are not recognised.
ExpectedLoose(d) == d[1][2] - 1 <= Received

\* The offset of the datagram matches the received count.
Expected(d) == d[1][2] - 1 = Received

\* DATA_V2: the offset is compared once, the pages are written one at a time
\* with a yield after each.
UdpDataV2(d) ==
  /\ UdpFree /\ Expected(d)
  /\ Write("udpv2", FirstPage(d)) /\ v2' = AfterPage(d)
  /\ UNCHANGED <<crc, hostVars, done, stream>>

UdpDataV2Next ==
  /\ Runs("udp") /\ v2 # <<>>
  /\ Write("udpv2", FirstPage(v2)) /\ v2' = AfterPage(v2)
  /\ UNCHANGED <<crc, hostVars, done, stream>>

UdpEnd ==
  /\ UdpFree /\ Finish("udp", Image("udp"))
  /\ UNCHANGED <<v2, crc, hostVars>>

-----------------------------------------------------------------------------
(* WebSocket: text commands fw_start and fw_end, binary frames in between. *)

\* The page sends its image from the beginning once fw_start succeeded.
WsStart(total, key) ==
  /\ Runs("ws") /\ Start("ws", session, total, key)
  /\ wsPos' = IF session'.active /\ ~session.active THEN 0 ELSE N
  /\ UNCHANGED <<v2, crc, canPos, keyMask, keyBad>>

\* The CRC runs over the frames that write accepted.
WsData(n) ==
  LET d == SubSeq(Image("ws"), wsPos + 1, wsPos + n) IN
  /\ Runs("ws") /\ session.active /\ wsPos + n <= N /\ Len(crc) + n <= MaxCrc
  /\ wsPos' = wsPos + n
  /\ \/ WriteOk(d) /\ writers' = writers \union {"ws"} /\ crc' = crc \o d
     \/ (WriteFails(d) \/ WriteRejected(d)) /\ UNCHANGED <<writers, crc>>
  /\ UNCHANGED <<v2, canPos, keyMask, keyBad, done, stream>>

\* ws_fw_end: nothing received or too little aborts and leaves fw_crc alone.
WsEnd ==
  /\ Runs("ws") /\ session.active
  /\ IF Received = 0 \/ Received # session.total
     THEN session' = Abort /\ UNCHANGED <<slot, crc, writers, done, stream, faults>>
     ELSE Finish("ws", crc) /\ crc' = <<>>
  /\ wsPos' = N
  /\ UNCHANGED <<v2, canPos, keyMask, keyBad>>

\* The session ends and a new one begins; the upgrade session is not touched.
WsGone ==
  /\ Runs("ws") /\ crc' = <<>> /\ wsPos' = N
  /\ stream' = IF stream = "ws" THEN "none" ELSE stream
  /\ UNCHANGED <<session, slot, v2, canPos, keyMask, keyBad, writers, done, faults>>

-----------------------------------------------------------------------------
(* CAN: the bus keeps the order of frames and may lose some (RxBuf).       *)

\* The hash counts once all its frames are there.
CanKey == IF keyMask # 1..KeyChunks THEN "none" ELSE IF keyBad = {} THEN "good" ELSE "bad"

CanKeyFrame(i, bad) ==
  /\ Runs("can")
  /\ keyMask' = keyMask \union {i}
  /\ keyBad' = IF bad THEN keyBad \union {i} ELSE keyBad \ {i}
  /\ UNCHANGED <<session, slot, v2, crc, wsPos, canPos, writers, done, stream, faults>>

\* START reopens unconditionally.
CanStart(total) ==
  /\ Runs("can") /\ Start("can", Abort, total, CanKey)
  /\ keyMask' = IF keyMask = 1..KeyChunks THEN {} ELSE keyMask
  /\ canPos' = IF session'.active THEN 0 ELSE N
  /\ UNCHANGED <<v2, crc, wsPos, keyBad>>

CanData(i) ==
  /\ Runs("can") /\ session.active /\ i > canPos
  /\ canPos' = i
  /\ Write("can", <<<<"can", i>>>>)
  /\ UNCHANGED <<v2, crc, wsPos, keyMask, keyBad, done, stream>>

CanConfirm ==
  /\ Runs("can") /\ Finish("can", NoCrc)
  /\ canPos' = N
  /\ UNCHANGED <<v2, crc, wsPos, keyMask, keyBad>>

-----------------------------------------------------------------------------
\* A reset: the RAM is lost.  MCUboot swaps a complete image that is marked
\* pending into place and the old firmware into the slot.
Reset ==
  /\ session' = Idle /\ v2' = <<>> /\ crc' = <<>> /\ wsPos' = N /\ canPos' = N
  /\ keyMask' = {} /\ keyBad' = {} /\ writers' = {} /\ stream' = "none"
  /\ IF slot[MagicAt] = Magic /\ (\E ch \in Channel : Content(slot, N) = Image(ch))
     THEN slot' = [i \in Cells |-> Old] /\ done' = NotDone
     ELSE UNCHANGED <<slot, done>>
  /\ UNCHANGED <<tasks, faults>>

Init ==
  /\ session = Idle /\ slot \in {[i \in Cells |-> Erased], [i \in Cells |-> Old]}
  /\ v2 = <<>> /\ crc = <<>> /\ wsPos = N /\ canPos = N /\ keyMask = {} /\ keyBad = {}
  /\ writers = {} /\ done = NotDone /\ stream = "none" /\ tasks \in TaskSets
  /\ faults = 0

Next ==
  \/ \E t \in Totals, key \in {"none", "bad"} : UdpStart(t, key) \/ WsStart(t, key)
  \/ \E d \in Datagrams : UdpData(d) \/ UdpDataV2(d)
  \/ UdpDataV2Next \/ UdpEnd
  \/ \E n \in 1..MaxFrame : WsData(n)
  \/ WsEnd \/ WsGone
  \/ \E i \in 1..KeyChunks, bad \in BOOLEAN : CanKeyFrame(i, bad)
  \/ \E t \in Totals : CanStart(t)
  \/ \E i \in 1..N : CanData(i)
  \/ CanConfirm \/ Reset

Spec == Init /\ [][Next]_vars

-----------------------------------------------------------------------------
(* Properties.                                                             *)

\* No cell of the flash is programmed twice without an erase in between: data
\* is written into an erased slot only, and the trailer where nothing was
\* written ("run after finish() so the region is still erased").
ProgramsErasedOnly == \A i \in Cells : slot[i] # Garbled

\* While the slot is marked pending it holds the image that finish() verified,
\* or an erase has at least removed the header: data that arrives late, on any
\* channel, does not get into a confirmed image.
PendingIntact ==
  slot[MagicAt] = Magic =>
    slot[0] = Erased \/ (done # NotDone /\ Content(slot, Len(done.img)) = done.img)

\* An image accepted on a CRC is the image of the channel that ended the upload,
\* to the last cell, whatever the other channels wrote in between; so is one
\* accepted from CAN, without a CRC, when only CAN wrote.
AcceptedExact ==
  done.ch \in {"udp", "ws"} \/ (done.ch = "can" /\ done.by = {"can"})
    => done.img = Image(done.ch)

\* As long as only DATA_V2 datagrams are written into a session opened over UDP,
\* it holds a prefix of the host's image: lost, repeated and reordered datagrams
\* leave no gap.
V2InOrder ==
  session.active /\ ~session.failed /\ writers \subseteq {"udpv2"} /\ stream = "udp" =>
    /\ Received <= N
    /\ \A i \in 1..Received :
         <<"udp", i>> = IF i <= session.written THEN slot[i - 1]
                        ELSE session.page[i - session.written]
=============================================================================
