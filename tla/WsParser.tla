------------------------------ MODULE WsParser ------------------------------
(***************************************************************************)
(* The client frame parser of ws.rs (WsParser::feed) and the frames that   *)
(* the session queues in answer.  Bytes are numbers 0..255, the parser     *)
(* takes one at a time; hdr_got and got are the lengths of the sequences   *)
(* hdr, mask and payload.                                                  *)
(***************************************************************************)
EXTENDS Integers, Sequences

CONSTANTS
  PAYLOAD_MAX,  \* largest payload the parser stores (10256)
  OutCap,       \* capacity of the reply buffer `out` (768)
  ShortLen,     \* length of a {"ok":..} reply
  IoLen         \* length of the IO snapshot that answers a "do" command

ASSUME ParserAssumption ==
  PAYLOAD_MAX \in Nat /\ OutCap \in Nat /\ ShortLen \in Nat \ {0} /\ IoLen \in Nat \ {0}

Bit(x, i) == (x \div 2^i) % 2
Xor(a, b) ==
  LET d(i) == IF Bit(a, i) = Bit(b, i) THEN 0 ELSE 2^i
  IN  d(0) + d(1) + d(2) + d(3) + d(4) + d(5) + d(6) + d(7)

\* WsParser::new; ok is the result of feed, frame the event of the last byte.
NoFrame == [fin |-> FALSE, opcode |-> 0, payload |-> <<>>]
NewParser ==
  [state |-> "Header", hdr |-> <<>>, fin |-> FALSE, opcode |-> 0, masked |-> FALSE,
   mask |-> <<>>, plen |-> 0, payload |-> <<>>, ok |-> TRUE, event |-> FALSE, frame |-> NoFrame]

\* The big-endian number in a sequence of bytes.
BigEndian(s) ==
  LET val[i \in 0..Len(s)] == IF i = 0 THEN 0 ELSE 256 * val[i - 1] + s[i] IN val[Len(s)]

\* The state after the length is known.
AfterLen(p, n) ==
  [p EXCEPT !.plen = n, !.hdr = <<>>, !.state = IF p.masked THEN "Mask" ELSE "Payload"]

FeedHeader(p, b) ==
  LET h == Append(p.hdr, b)
      n == b % 128
      q == [p EXCEPT !.fin = h[1] >= 128, !.opcode = h[1] % 16, !.masked = b >= 128,
                     !.plen = n, !.payload = <<>>, !.hdr = <<>>]
  IN  CASE Len(h) < 2 -> [p EXCEPT !.hdr = h]
        [] Len(h) = 2 /\ n = 126 -> [q EXCEPT !.state = "Len16"]
        [] Len(h) = 2 /\ n = 127 -> [q EXCEPT !.state = "Len64"]
        [] Len(h) = 2 /\ n < 126 /\ n > PAYLOAD_MAX -> [q EXCEPT !.ok = FALSE]
        [] OTHER -> AfterLen(q, n)

\* Len16 and Len64: w bytes of length.  Len64 tests and stores `v as usize`, on
\* this target the low 32 bits: the last four bytes.
FeedLen(p, b, w) ==
  LET h == Append(p.hdr, b)
      n == BigEndian(IF w = 8 THEN SubSeq(h, 5, 8) ELSE h)
  IN  CASE Len(h) < w -> [p EXCEPT !.hdr = h]
        [] Len(h) = w /\ n > PAYLOAD_MAX -> [p EXCEPT !.ok = FALSE]
        [] OTHER -> AfterLen(p, n)

FeedMask(p, b) ==
  IF Len(p.hdr) < 3
  THEN [p EXCEPT !.hdr = Append(@, b)]
  ELSE [p EXCEPT !.mask = Append(p.hdr, b), !.hdr = <<>>, !.state = "Payload"]

\* A frame is complete when the byte just stored makes got = plen; with
\* plen = 0 it never is.
FeedPayload(p, b) ==
  LET i   == Len(p.payload)
      pay == Append(p.payload, IF p.masked THEN Xor(b, p.mask[1 + (i % 4)]) ELSE b)
  IN  CASE i >= PAYLOAD_MAX -> [p EXCEPT !.ok = FALSE]
        [] i < PAYLOAD_MAX /\ i + 1 = p.plen ->
             [p EXCEPT !.state = "Header", !.hdr = <<>>, !.payload = <<>>, !.event = TRUE,
                       !.frame = [fin |-> p.fin, opcode |-> p.opcode, payload |-> pay]]
        [] OTHER -> [p EXCEPT !.payload = pay]

\* One turn of the loop in feed.
Feed(p, b) ==
  CASE p.state = "Header"  -> FeedHeader(p, b)
    [] p.state = "Len16"   -> FeedLen(p, b, 2)
    [] p.state = "Len64"   -> FeedLen(p, b, 8)
    [] p.state = "Mask"    -> FeedMask(p, b)
    [] p.state = "Payload" -> FeedPayload(p, b)

-----------------------------------------------------------------------------
(* Replies.  `out` is the sequence of the pieces appended to the buffer.   *)

FrameHdrLen(n) == IF n < 126 THEN 2 ELSE IF n <= 65535 THEN 4 ELSE 10

PieceLen(x) == IF x.hdr THEN FrameHdrLen(x.len) ELSE x.len
BytesIn(out) ==
  LET sum[i \in 0..Len(out)] == IF i = 0 THEN 0 ELSE sum[i - 1] + PieceLen(out[i])
  IN  sum[Len(out)]

\* extend_from_slice(..).ok(): all of the piece, or nothing.
Extend(out, x) == IF BytesIn(out) + PieceLen(x) <= OutCap THEN Append(out, x) ELSE out

\* ws_queue_frame: the payload is appended whether or not the header fitted.
QueueFrame(out, f) ==
  Extend(Extend(out, [hdr |-> TRUE, opcode |-> f.opcode, len |-> f.len]),
         [hdr |-> FALSE, opcode |-> f.opcode, len |-> f.len])

\* ws_handle_cmd: every command is answered by one text frame; the first
\* payload byte stands for the "cmd" field, 1 being a "do" that succeeds.
CommandReply(pay) ==
  [opcode |-> 1, len |-> IF pay[1] = 1 THEN IoLen ELSE ShortLen]

\* What the session answers to a complete frame (at most one frame) ...
Answers(f) ==
  CASE ~f.fin -> <<[opcode |-> 8, len |-> 0]>>
    [] f.fin /\ f.opcode = 1 -> <<CommandReply(f.payload)>>
    [] f.fin /\ f.opcode = 8 -> <<[opcode |-> 8, len |-> 0]>>
    [] f.fin /\ f.opcode = 9 -> <<[opcode |-> 10, len |-> Len(f.payload)]>>
    [] OTHER -> <<>>

\* ... and whether it goes on: a fragment, a close and an unknown opcode end it.
GoesOn(f) == f.fin /\ f.opcode \in {1, 2, 9, 10}

-----------------------------------------------------------------------------
(* The encoding of a client frame, by RFC 6455: form is the number of      *)
(* extra length bytes, key the masking key or <<>>.                        *)
Encode(f) ==
  LET n   == Len(f.payload)
      len == CASE f.form = 0 -> <<n>>
               [] f.form = 2 -> <<126, n \div 256, n % 256>>
               [] f.form = 8 -> <<127, 0, 0, 0, 0, 0, 0, n \div 256, n % 256>>
      m   == IF f.key = <<>> THEN 0 ELSE 128
      pay == [i \in 1..n |-> IF f.key = <<>> THEN f.payload[i]
                             ELSE Xor(f.payload[i], f.key[1 + ((i - 1) % 4)])]
  IN  <<f.opcode + (IF f.fin THEN 128 ELSE 0), m + len[1]>> \o Tail(len) \o f.key \o pay
=============================================================================
