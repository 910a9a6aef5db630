------------------------------ MODULE WebServer ------------------------------
(***************************************************************************)
(* The HTTP server (httpd.rs): two tasks, each serving one connection at a *)
(* time from a bounded buffer, with keep-alive and pipelining; a GET /ws   *)
(* turns its connection into the only WebSocket session.  Tasks interleave *)
(* where the code awaits: in a read, in the write of a response or of      *)
(* queued frames, in the timer behind an abort.                            *)
(*                                                                         *)
(* The bytes of HTTP are units: <<i, k>> is unit k of the i-th request of  *)
(* a connection: its request line (1), its header fields (2), the blank    *)
(* line (hdr) and its body after that.  <<0, b>> is a WebSocket byte b.    *)
(***************************************************************************)
EXTENDS WsParser
LOCAL INSTANCE Functions

CONSTANTS
  Task,       \* HTTP tasks (two)
  Request,    \* requests a client may send
  Frame,      \* WebSocket frames a client may send
  RX_BUF,     \* size of the receive buffer (640)
  BODY_MAX,   \* largest accepted body (128)
  WS_RBUF,    \* size of the session's receive buffer (2048)
  MaxSent,    \* bound: requests and frames sent on the open connections
  MaxConns    \* bound: connections in a behaviour

ASSUME WebAssumption ==
  /\ RX_BUF \in Nat \ {0, 1} /\ BODY_MAX \in Nat /\ WS_RBUF \in Nat \ {0}
  /\ \A r \in Request : r.hdr \in Nat /\ r.hdr >= 3 /\ r.clen \in Nat
  /\ \A f \in Frame : /\ f.opcode \in Nat /\ f.form \in {0, 2, 8} /\ f.payload \in Seq(Nat)
                      /\ f.key \in Seq(Nat) /\ Len(f.key) \in {0, 4}

VARIABLES
  WS_ACTIVE,  \* the flag of the single WebSocket session
  st,         \* where each task is
  peer,       \* the other end: "up", "fin" (closed) or "lost"
  wire,       \* units sent by the client and not yet read
  rbuf,       \* rbuf[..rx_len]
  resp,       \* the response being written
  ws,         \* the session: its parser, alive, out
  sent, fsent,     \* requests and frames sent on the connection (history)
  answered,   \* number of requests handed to dispatch (history)
  exact,      \* each was the request sent, whole (history)
  overrun,    \* a read filled the last byte of rbuf (history)
  handed,     \* frames handed over by the parser (history)
  want,       \* frames due in answer to the last read (history)
  conns       \* bounded counter

taskVars == <<st, peer, wire, rbuf, resp, ws, sent, fsent, answered, exact, overrun,
              handed, want>>
vars == <<WS_ACTIVE, taskVars, conns>>

States == {"listen", "read", "reply", "switch", "refuse", "ws", "wsout", "abort"}
\* The states between the claim of WS_ACTIVE and its release.
Holding == {"switch", "refuse", "ws", "wsout"}

NoResp == [used |-> 0, close |-> FALSE, status |-> "none"]
NoWs == [parser |-> NewParser, alive |-> TRUE, out |-> <<>>]

-----------------------------------------------------------------------------
(* Parsing.  `reqs` are the requests of the connection.                    *)

Units(reqs, i) == [k \in 1..(reqs[i].hdr + reqs[i].clen) |-> <<i, k>>]

\* find_hdr_end: the index of the first blank line, 0 if there is none.
HdrEnd(reqs, buf) ==
  LET ends == {j \in DOMAIN buf : buf[j][1] # 0 /\ buf[j][2] = reqs[buf[j][1]].hdr}
  IN  IF ends = {} THEN 0 ELSE CHOOSE j \in ends : \A m \in ends : j <= m

\* hdr_find: the first request whose header fields are in the header.
FieldsOf(reqs, hdr) ==
  LET at == {j \in DOMAIN hdr : hdr[j][1] # 0 /\ hdr[j][2] = 2}
  IN  IF at = {} THEN [clen |-> 0, close |-> FALSE, upgrade |-> FALSE, key |-> FALSE]
      ELSE reqs[hdr[CHOOSE j \in at : \A m \in at : j <= m][1]]

\* parse_request_line: a line without its beginning is either refused or taken
\* for an unknown method.
LinesOf(reqs, hdr) ==
  IF hdr[1][1] # 0 /\ hdr[1][2] = 1
  THEN LET r == reqs[hdr[1][1]]
       IN  {[method |-> r.method, path |-> r.path, ok |-> r.ok, bad |-> FALSE]}
  ELSE {[method |-> "none", path |-> "none", ok |-> FALSE, bad |-> b] : b \in BOOLEAN}

\* dispatch: a known path with its own method is answered 200, or 400 when its
\* arguments are refused; then 405 and 404.
Methods == [page |-> {"GET"}, download |-> {"GET"}, ws |-> {}, command |-> {"POST"}]
Status(line) ==
  CASE line.path \notin DOMAIN Methods -> "404"
    [] line.path \in DOMAIN Methods /\ line.method \notin Methods[line.path] -> "405"
    [] OTHER -> IF line.ok THEN "200" ELSE "400"

\* What the parse loop finds at the front of the buffer: it breaks for more
\* bytes, or answers and either closes or consumes `used` units.
More == [next |-> "read", used |-> 0, close |-> FALSE, status |-> "none"]
Reply(status, used, close) == [next |-> "reply", used |-> used, close |-> close, status |-> status]

\* Mutant of Found: the body is left in the buffer.
FoundNoBody(reqs, buf, active) ==
  LET he   == HdrEnd(reqs, buf)
      hdr  == SubSeq(buf, 1, he)
      f    == FieldsOf(reqs, hdr)
  IN  IF he = 0 \/ Len(buf) - he < f.clen THEN {More}
      ELSE {Reply("200", he, f.close)}

\* Mutant of Found: the active flag is not looked at.
FoundBlind(reqs, buf, active) ==
  LET he   == HdrEnd(reqs, buf)
      hdr  == SubSeq(buf, 1, he)
      f    == FieldsOf(reqs, hdr)
  IN  IF he = 0 \/ Len(buf) - he < f.clen THEN {More}
      ELSE {IF f.upgrade THEN [Reply("101", he, TRUE) EXCEPT !.next = "switch"]
            ELSE Reply("200", he + f.clen, f.close)}

\* The parse loop up to its first await.
Found(reqs, buf, active) ==
  LET he   == HdrEnd(reqs, buf)
      hdr  == SubSeq(buf, 1, he)
      f    == FieldsOf(reqs, hdr)
  IN  IF he = 0
      THEN {IF Len(buf) >= RX_BUF - 1 THEN Reply("400", 0, TRUE) ELSE More}
      ELSE UNION {
        CASE line.bad \/ f.clen > BODY_MAX -> {Reply("400", 0, TRUE)}
          [] ~line.bad /\ f.clen <= BODY_MAX /\ line.method = "GET" ->
               IF line.path = "ws" /\ f.upgrade
               THEN CASE active -> {Reply("503", 0, TRUE)}
                      [] ~active /\ f.key -> {[Reply("101", he, TRUE) EXCEPT !.next = "switch"]}
                      [] OTHER -> {[Reply("400", he, TRUE) EXCEPT !.next = "refuse"]}
               ELSE {Reply(Status(line), he, f.close)}
          [] OTHER ->
               IF Len(buf) - he < f.clen THEN {More}
               ELSE {Reply(Status(line), he + f.clen, f.close)}
        : line \in LinesOf(reqs, hdr)}

-----------------------------------------------------------------------------
(* The tasks.                                                              *)

Here(t, s) == st[t] = s
Set(f, t, v) == [f EXCEPT ![t] = v]

\* op over the elements of s, from the first to the last.
FoldLeft(op(_, _), base, s) ==
  MapThenFoldSet(LAMBDA x, y : op(y, x), base, LAMBDA i : s[i],
                 LAMBDA S : CHOOSE i \in S : \A j \in S : j <= i, DOMAIN s)

\* Read into rbuf at `buf`, or go on behind a response: run the parse loop.  A
\* request that is dispatched or upgraded counts as answered.
Parse(t, buf) ==
  \E x \in Found(sent[t], buf, WS_ACTIVE) :
    /\ st' = Set(st, t, x.next)
    /\ resp' = Set(resp, t, [used |-> x.used, close |-> x.close, status |-> x.status])
    /\ rbuf' = Set(rbuf, t, buf)
    /\ WS_ACTIVE' = (WS_ACTIVE \/ x.next \in {"switch", "refuse"})
    /\ answered' = Set(answered, t, answered[t] + (IF x.used > 0 THEN 1 ELSE 0))
    /\ exact' = Set(exact, t,
         exact[t] /\ (x.used = 0 \/ (/\ answered[t] < Len(sent[t])
                                     /\ SubSeq(buf, 1, x.used) = Units(sent[t], answered[t] + 1))))

\* The variables of serve and of the connection as they are before any byte.
Fresh(t, p) ==
  /\ peer' = Set(peer, t, p)
  /\ wire' = Set(wire, t, <<>>) /\ rbuf' = Set(rbuf, t, <<>>)
  /\ resp' = Set(resp, t, NoResp) /\ ws' = Set(ws, t, NoWs)
  /\ sent' = Set(sent, t, <<>>) /\ fsent' = Set(fsent, t, <<>>)
  /\ answered' = Set(answered, t, 0) /\ exact' = Set(exact, t, TRUE)
  /\ overrun' = Set(overrun, t, FALSE)
  /\ handed' = Set(handed, t, <<>>) /\ want' = Set(want, t, <<>>)

\* serve returns: the task aborts the socket and waits 10 ms.
Return(t) == st' = Set(st, t, "abort") /\ Fresh(t, "lost")

\* accept returned: serve starts.
Accept(t) ==
  /\ Here(t, "listen") /\ conns < MaxConns
  /\ conns' = conns + 1
  /\ st' = Set(st, t, "read") /\ Fresh(t, "up")
  /\ UNCHANGED WS_ACTIVE

\* A read of n units; the buffer keeps its last byte for a terminator, so what
\* is read there is lost.
Read(t, n) ==
  /\ Here(t, "read") /\ n <= Len(wire[t])
  /\ n <= RX_BUF - Len(rbuf[t])
  /\ LET r == rbuf[t] \o SubSeq(wire[t], 1, n)
     IN  Parse(t, SubSeq(r, 1, IF Len(r) < RX_BUF THEN Len(r) ELSE RX_BUF - 1))
  /\ overrun' = Set(overrun, t, overrun[t] \/ Len(rbuf[t]) + n > RX_BUF - 1)
  /\ wire' = Set(wire, t, SubSeq(wire[t], n + 1, Len(wire[t])))
  /\ UNCHANGED <<peer, ws, sent, fsent, handed, want, conns>>

\* Read returns 0 or an error, or the half-request (5 s) or keep-alive (60 s)
\* limit passes while nothing arrives.
ReadEnds(t) ==
  /\ Here(t, "read") /\ wire[t] = <<>>
  /\ Return(t)
  /\ UNCHANGED <<WS_ACTIVE, conns>>

\* The response is written (write errors are ignored): close, or drop what was
\* consumed and look for the next request in the buffer.
Written(t) ==
  /\ Here(t, "reply")
  /\ \/ /\ resp[t].close /\ Return(t)
        /\ UNCHANGED WS_ACTIVE
     \/ /\ ~resp[t].close
        /\ Parse(t, SubSeq(rbuf[t], resp[t].used + 1, Len(rbuf[t])))
        /\ UNCHANGED <<peer, wire, ws, sent, fsent, overrun, handed, want>>
  /\ UNCHANGED conns

\* An upgrade without a key: 400, then the flag is given back.
Refused(t) ==
  /\ Here(t, "refuse")
  /\ Return(t) /\ WS_ACTIVE' = FALSE
  /\ UNCHANGED conns

\* One byte of the parser with the callback that handles a complete frame.
\* Once feed returned false the rest of the chunk is not looked at, while the
\* frames behind a close are.
FeedStep(w, b) ==
  IF ~w.parser.ok THEN w
  ELSE LET p == Feed(w.parser, b)
       IN  IF ~p.event THEN [w EXCEPT !.parser = p, !.alive = @ /\ p.ok]
           ELSE [w EXCEPT !.parser = [p EXCEPT !.event = FALSE, !.frame = NoFrame],
                          !.alive = @ /\ GoesOn(p.frame),
                          !.out = FoldLeft(QueueFrame, @, Answers(p.frame)),
                          !.handed = Append(@, p.frame),
                          !.want = @ \o Answers(p.frame)]

\* Mutant of Session: out is not cleared between two reads.
SessionKeepsOut(t, units) ==
  LET w == FoldLeft(LAMBDA x, u : FeedStep(x, u[2]),
                    [parser |-> ws[t].parser, alive |-> ws[t].alive, out |-> ws[t].out,
                     handed |-> handed[t], want |-> <<>>],
                    units)
  IN  /\ ws' = Set(ws, t, [parser |-> w.parser, alive |-> w.alive, out |-> w.out])
      /\ handed' = Set(handed, t, w.handed)
      /\ want' = Set(want, t, w.want)
      /\ st' = Set(st, t, "wsout")

\* `step` over a chunk: the replies are collected in out and written behind it.
Session(t, units) ==
  LET w == FoldLeft(LAMBDA x, u : FeedStep(x, u[2]),
                    [parser |-> ws[t].parser, alive |-> ws[t].alive, out |-> <<>>,
                     handed |-> handed[t], want |-> <<>>],
                    units)
  IN  /\ ws' = Set(ws, t, [parser |-> w.parser, alive |-> w.alive, out |-> w.out])
      /\ handed' = Set(handed, t, w.handed)
      /\ want' = Set(want, t, w.want)
      /\ st' = Set(st, t, "wsout")

\* Mutant of Switched: bytes behind the upgrade request are forgotten.
SwitchedDrops(t) ==
  /\ Here(t, "switch")
  /\ Session(t, <<>>)
  /\ UNCHANGED <<WS_ACTIVE, peer, wire, rbuf, resp, sent, fsent, answered, exact, overrun, conns>>

\* The 101 is written; the session starts with what is behind the request.
Switched(t) ==
  /\ Here(t, "switch")
  /\ Session(t, SubSeq(rbuf[t], resp[t].used + 1, Len(rbuf[t])))
  /\ UNCHANGED <<WS_ACTIVE, peer, wire, rbuf, resp, sent, fsent, answered, exact, overrun, conns>>

WsRead(t, n) ==
  /\ Here(t, "ws") /\ n <= Len(wire[t]) /\ n <= WS_RBUF
  /\ Session(t, SubSeq(wire[t], 1, n))
  /\ wire' = Set(wire, t, SubSeq(wire[t], n + 1, Len(wire[t])))
  /\ UNCHANGED <<WS_ACTIVE, peer, rbuf, resp, sent, fsent, answered, exact, overrun, conns>>

\* The session ends and its caller gives the flag back.
EndSession(t) == Return(t) /\ WS_ACTIVE' = FALSE

\* out is written: go on reading (pushes in between carry no state), or end.
WsWritten(t) ==
  /\ Here(t, "wsout")
  /\ \/ /\ ws[t].alive /\ st' = Set(st, t, "ws")
        /\ UNCHANGED <<WS_ACTIVE, peer, wire, rbuf, resp, ws, sent, fsent, answered, exact,
                       overrun, handed, want>>
     \/ ~ws[t].alive /\ EndSession(t)
  /\ UNCHANGED conns

\* Mutant of WsEnds: a lost connection is noticed only by an orderly close.
WsEndsOnFin(t) ==
  /\ Here(t, "ws") /\ wire[t] = <<>> /\ peer[t] = "fin"
  /\ EndSession(t)
  /\ UNCHANGED conns

\* Read returns 0 or an error.  There is no idle limit in a session: a lost
\* client is noticed because the pushes of every second are not acknowledged
\* for 75 s.
WsEnds(t) ==
  /\ Here(t, "ws") /\ wire[t] = <<>> /\ peer[t] # "up"
  /\ EndSession(t)
  /\ UNCHANGED conns

Relisten(t) ==
  /\ Here(t, "abort") /\ st' = Set(st, t, "listen")
  /\ UNCHANGED <<WS_ACTIVE, peer, wire, rbuf, resp, ws, sent, fsent, answered, exact, overrun,
                 handed, want, conns>>

-----------------------------------------------------------------------------
(* The clients.                                                            *)

Connected(t) == st[t] \notin {"listen", "abort"} /\ peer[t] = "up"

\* After an upgrade request a client sends frames only.
Upgrading(t) == sent[t] # <<>> /\ sent[t][Len(sent[t])].upgrade

Sent == SumFunction([t \in Task |-> Len(sent[t]) + Len(fsent[t])])

SendRequest(t, r) ==
  /\ Connected(t) /\ ~Upgrading(t) /\ Sent < MaxSent
  /\ sent' = Set(sent, t, Append(sent[t], r))
  /\ wire' = Set(wire, t, wire[t] \o Units(Append(sent[t], r), Len(sent[t]) + 1))
  /\ UNCHANGED <<WS_ACTIVE, st, peer, rbuf, resp, ws, fsent, answered, exact, overrun,
                 handed, want, conns>>

SendFrame(t, f) ==
  /\ Connected(t) /\ Upgrading(t) /\ Sent < MaxSent
  /\ fsent' = Set(fsent, t, Append(fsent[t], f))
  /\ wire' = Set(wire, t, wire[t] \o [i \in DOMAIN Encode(f) |-> <<0, Encode(f)[i]>>])
  /\ UNCHANGED <<WS_ACTIVE, st, peer, rbuf, resp, ws, sent, answered, exact, overrun,
                 handed, want, conns>>

\* The client closes in order, or is lost with what it had sent.
Leave(t) ==
  /\ Connected(t)
  /\ \/ peer' = Set(peer, t, "fin") /\ UNCHANGED wire
     \/ peer' = Set(peer, t, "lost") /\ wire' = Set(wire, t, <<>>)
  /\ UNCHANGED <<WS_ACTIVE, st, rbuf, resp, ws, sent, fsent, answered, exact, overrun,
                 handed, want, conns>>

Init ==
  /\ WS_ACTIVE = FALSE /\ conns = 0
  /\ st = [t \in Task |-> "listen"] /\ peer = [t \in Task |-> "lost"]
  /\ wire = [t \in Task |-> <<>>] /\ rbuf = [t \in Task |-> <<>>]
  /\ resp = [t \in Task |-> NoResp] /\ ws = [t \in Task |-> NoWs]
  /\ sent = [t \in Task |-> <<>>] /\ fsent = [t \in Task |-> <<>>]
  /\ answered = [t \in Task |-> 0] /\ exact = [t \in Task |-> TRUE]
  /\ overrun = [t \in Task |-> FALSE]
  /\ handed = [t \in Task |-> <<>>] /\ want = [t \in Task |-> <<>>]

Client(t) ==
  \/ \E r \in Request : SendRequest(t, r)
  \/ \E f \in Frame : SendFrame(t, f)
  \/ Leave(t)

\* What a task does with bytes, and what it does without them.
Works(t) ==
  \/ \E n \in 1..RX_BUF : Read(t, n)
  \/ Written(t) \/ Switched(t)
  \/ \E n \in 1..WS_RBUF : WsRead(t, n)
Ends(t) == ReadEnds(t) \/ Refused(t) \/ WsWritten(t) \/ WsEnds(t) \/ Relisten(t)

Next == \E t \in Task : Accept(t) \/ Works(t) \/ Ends(t) \/ Client(t)

Spec == Init /\ [][Next]_vars

\* Works(t) is enabled: data has arrived, or a write has finished.
HasWork(t) == Here(t, "reply") \/ Here(t, "switch") \/ (st[t] \in {"read", "ws"} /\ wire[t] # <<>>)

\* Each task is polled once woken, by data, by a finished write, by the end of
\* its connection, by its time limit (the first conjunct is weak fairness of
\* Works(t), written out).  What clients do is never required.
FairSpec ==
  Spec /\ \A t \in Task : /\ []<>~HasWork(t) \/ []<><<Works(t)>>_vars
                          /\ WF_vars(Ends(t))

-----------------------------------------------------------------------------
(* Properties.                                                             *)

\* The session flag of httpd.rs is a Boolean and every task is at one of its awaits.
TypeOK ==
  /\ WS_ACTIVE \in BOOLEAN
  /\ st \in [Task -> States]

\* There is one WebSocket session at most, and the flag is set exactly while a
\* task is between its claim and its release: no upgrade slips through the
\* awaits of the handshake and no way out leaves the flag behind.
OneSession ==
  /\ \A t, u \in Task : st[t] \in Holding /\ st[u] \in Holding => t = u
  /\ WS_ACTIVE <=> \E t \in Task : st[t] \in Holding

\* However the stream is cut into reads, requests are served whole, in order,
\* each with its own body, and a task that waits for bytes with nothing
\* buffered has served all; unless a read ran into the last byte of the buffer.
ServedInOrder ==
  \A t \in Task :
    st[t] # "listen" /\ ~overrun[t] =>
      /\ exact[t]
      /\ st[t] = "read" /\ peer[t] # "lost" /\ wire[t] = <<>> /\ rbuf[t] = <<>>
           => answered[t] = Len(sent[t])

\* The frame a client meant.
Meant(f) == [fin |-> f.fin, opcode |-> f.opcode, payload |-> f.payload]

\* The parser hands over the frames the client sent, unmasked, in order, each
\* once, across the end of the upgrade request and any cut of the stream.  A
\* frame without payload is never completed, so it is the last one.
FramesExact ==
  \A t \in Task : st[t] \in {"ws", "wsout"} /\ ~overrun[t] =>
    /\ Len(handed[t]) <= Len(fsent[t])
    /\ \A i \in DOMAIN handed[t] : handed[t][i] = Meant(fsent[t][i])
    /\ /\ st[t] = "ws" /\ wire[t] = <<>> /\ peer[t] # "lost"
       /\ \A i \in DOMAIN fsent[t] : fsent[t][i].payload # <<>>
       => Len(handed[t]) = Len(fsent[t])

\* What is written after a read are the answers to the frames that this read
\* completed, each once, as long as they fit the reply buffer.
RepliesOnce ==
  \A t \in Task : st[t] = "wsout" =>
    LET pieces == FoldLeft(LAMBDA o, f : o \o <<[hdr |-> TRUE, opcode |-> f.opcode, len |-> f.len],
                                                [hdr |-> FALSE, opcode |-> f.opcode, len |-> f.len]>>,
                           <<>>, want[t])
    IN  BytesIn(pieces) <= OutCap => ws[t].out = pieces

\* A task whose client has gone listens again; with OneSession this also gives
\* back the WebSocket slot.
TaskComesBack ==
  \A t \in Task : st[t] # "listen" /\ peer[t] # "up" ~> st[t] = "listen"
=============================================================================
