-------------------------- MODULE WebServerProofs ---------------------------
(***************************************************************************)
(* The HTTP server for every set of tasks, requests and frames and all     *)
(* buffer sizes.                                                           *)
(*                                                                         *)
(* OneSession is inductive together with the types: the argument is that   *)
(* the parse loop claims the flag only when it is clear (FoundClaims) and  *)
(* from a state that does not hold it, and that all the ways out of a      *)
(* holding state pass through the release.                                 *)
(*                                                                         *)
(* ServedInOrder is not: it says nothing of a task that holds half a       *)
(* request.  OrderInv follows the stream, the units that a task has not    *)
(* consumed: those in its buffer and then those on the wire.  These are    *)
(* whole requests in the order sent, the front is the front of the request *)
(* that is due, and frames come only behind the last one (Goes).  A read   *)
(* moves units from one part of the stream to the other, the parse loop    *)
(* takes exactly the request at the front (FoundUses, for GETs without a   *)
(* body), and clients append behind a complete end.                        *)
(***************************************************************************)
EXTENDS WebServer, TLAPS

SInv == TypeOK /\ OneSession

\* The parse loop goes to read, to a response, or claims the flag, and the
\* last only when it was clear (the compare_exchange of serve).
LEMMA FoundClaims ==
  ASSUME NEW reqs, NEW buf, NEW active \in BOOLEAN, NEW x \in Found(reqs, buf, active)
  PROVE  /\ x.next \in {"read", "reply", "switch", "refuse"}
         /\ x.next \in {"switch", "refuse"} => ~active
<1> DEFINE he  == HdrEnd(reqs, buf)
           hdr == SubSeq(buf, 1, he)
           f   == FieldsOf(reqs, hdr)
           short == {IF Len(buf) >= RX_BUF - 1 THEN Reply("400", 0, TRUE) ELSE More}
           ans(line) ==
             CASE line.bad \/ f.clen > BODY_MAX -> {Reply("400", 0, TRUE)}
               [] ~line.bad /\ f.clen <= BODY_MAX /\ line.method = "GET" ->
                    IF line.path = "ws" /\ f.upgrade
                    THEN CASE active -> {Reply("503", 0, TRUE)}
                           [] ~active /\ f.key -> {[Reply("101", he, TRUE) EXCEPT !.next = "switch"]}
                           [] OTHER -> {[Reply("400", he, TRUE) EXCEPT !.next = "refuse"]}
                    ELSE {Reply(Status(line), he, f.close)}
               [] OTHER ->
                    IF Len(buf) - he < f.clen THEN {More}
                    ELSE {Reply(Status(line), he + f.clen, f.close)}
<1>1. Found(reqs, buf, active) =
        IF he = 0 THEN short ELSE UNION {ans(line) : line \in LinesOf(reqs, hdr)}
  BY DEF Found
<1>2. CASE he = 0
  BY <1>1, <1>2 DEF Reply, More
<1>3. CASE he # 0
  <2>1. PICK line \in LinesOf(reqs, hdr) : x \in ans(line)
    <3> HIDE DEF ans, he, hdr, short
    <3> QED BY <1>1, <1>3
  <2>2. \/ x \in {Reply("400", 0, TRUE), Reply("503", 0, TRUE), More}
        \/ \E s, u, c : x = Reply(s, u, c)
        \/ ~active /\ x = [Reply("101", he, TRUE) EXCEPT !.next = "switch"]
        \/ ~active /\ x = [Reply("400", he, TRUE) EXCEPT !.next = "refuse"]
    <3> HIDE DEF he, hdr, f
    <3> QED BY <2>1, Zenon
  <2> QED BY <2>2 DEF Reply, More
<1> QED BY <1>2, <1>3

\* Reading or going on in the buffer, from a state that does not hold the flag.
LEMMA ParseKeeps ==
  ASSUME SInv, NEW t \in Task, NEW buf, st[t] \in {"read", "reply"}, Parse(t, buf)
  PROVE  SInv'
<1>1. PICK x \in Found(sent[t], buf, WS_ACTIVE) :
        /\ st' = [st EXCEPT ![t] = x.next]
        /\ WS_ACTIVE' = (WS_ACTIVE \/ x.next \in {"switch", "refuse"})
  BY Zenon DEF Parse, Set
<1>2. /\ x.next \in {"read", "reply", "switch", "refuse"}
      /\ x.next \in {"switch", "refuse"} => ~WS_ACTIVE
  BY FoundClaims DEF SInv, TypeOK
<1>3. TypeOK'
  BY <1>1, <1>2 DEF SInv, TypeOK, States
<1>4. OneSession'
  BY <1>1, <1>2, Zenon DEF SInv, TypeOK, OneSession, Holding, States
<1> QED BY <1>3, <1>4 DEF SInv

\* A step of a task between two states that both hold the flag, or both do not.
LEMMA MoveKeeps ==
  ASSUME SInv, NEW t \in Task, NEW s \in States, st' = [st EXCEPT ![t] = s],
         s \in Holding <=> st[t] \in Holding, WS_ACTIVE' = WS_ACTIVE
  PROVE  SInv'
BY DEF SInv, TypeOK, OneSession

\* The holder gives the flag back when it stops holding.
LEMMA ReleaseKeeps ==
  ASSUME SInv, NEW t \in Task, st[t] \in Holding, st' = [st EXCEPT ![t] = "abort"],
         WS_ACTIVE' = FALSE
  PROVE  SInv'
BY Zenon DEF SInv, TypeOK, OneSession, Holding, States

LEMMA SInit == Init => SInv
<1> SUFFICES ASSUME Init PROVE SInv
  OBVIOUS
<1>1. st = [t \in Task |-> "listen"] /\ WS_ACTIVE = FALSE
  BY DEF Init
<1>2. \A t \in Task : st[t] = "listen"
  BY <1>1
<1>3. "listen" \in States /\ "listen" \notin Holding
  BY DEF States, Holding
<1>4. TypeOK
  BY <1>1, <1>3, Zenon DEF TypeOK
<1>5. OneSession
  BY <1>1, <1>2, <1>3 DEF OneSession
<1> QED BY <1>4, <1>5 DEF SInv

\* Every step of a task or of a client keeps the invariant.
LEMMA SNext == SInv /\ [Next]_vars => SInv'
<1> SUFFICES ASSUME SInv, [Next]_vars PROVE SInv'
  OBVIOUS
<1>1. CASE UNCHANGED vars
  BY <1>1 DEF SInv, TypeOK, OneSession, vars, taskVars
<1>2. CASE Next
  <2>1. PICK t \in Task : Accept(t) \/ Works(t) \/ Ends(t) \/ Client(t)
    BY <1>2 DEF Next
  <2>2. ASSUME Accept(t) PROVE SInv'
    <3>1. st[t] = "listen" /\ st' = [st EXCEPT ![t] = "read"] /\ WS_ACTIVE' = WS_ACTIVE
      BY <2>2 DEF Accept, Here, Set
    <3> QED BY <3>1, MoveKeeps, Zenon DEF States, Holding
  <2>3. ASSUME NEW n, Read(t, n) PROVE SInv'
    BY <2>3, ParseKeeps DEF Read, Here
  <2>4. ASSUME Written(t) PROVE SInv'
    <3>1. st[t] = "reply"
      BY <2>4 DEF Written, Here
    <3>2. CASE Return(t) /\ UNCHANGED WS_ACTIVE
      <4>1. st' = [st EXCEPT ![t] = "abort"] /\ WS_ACTIVE' = WS_ACTIVE
        BY <3>2 DEF Return, Set
      <4> QED BY <3>1, <4>1, MoveKeeps, Zenon DEF States, Holding
    <3>3. CASE Parse(t, SubSeq(rbuf[t], resp[t].used + 1, Len(rbuf[t])))
      BY <3>1, <3>3, ParseKeeps
    <3> QED BY <2>4, <3>2, <3>3 DEF Written
  <2>5. ASSUME NEW units, Session(t, units), UNCHANGED WS_ACTIVE, st[t] \in Holding PROVE SInv'
    <3>1. st' = [st EXCEPT ![t] = "wsout"]
      BY <2>5, Zenon DEF Session, Set
    <3> QED BY <2>5, <3>1, MoveKeeps, Zenon DEF States, Holding
  <2>6. ASSUME Switched(t) PROVE SInv'
    BY <2>6, <2>5 DEF Switched, Here, Holding
  <2>7. ASSUME NEW n, WsRead(t, n) PROVE SInv'
    BY <2>7, <2>5 DEF WsRead, Here, Holding
  <2>8. ASSUME Ends(t) PROVE SInv'
    <3>1. CASE ReadEnds(t)
      <4>1. st[t] = "read" /\ st' = [st EXCEPT ![t] = "abort"] /\ WS_ACTIVE' = WS_ACTIVE
        BY <3>1 DEF ReadEnds, Here, Return, Set
      <4> QED BY <4>1, MoveKeeps, Zenon DEF States, Holding
    <3>2. CASE Refused(t)
      <4>1. st[t] = "refuse" /\ st' = [st EXCEPT ![t] = "abort"] /\ WS_ACTIVE' = FALSE
        BY <3>2 DEF Refused, Here, Return, Set
      <4> QED BY <4>1, ReleaseKeeps, Zenon DEF Holding
    <3>3. CASE WsWritten(t)
      <4>1. st[t] = "wsout"
        BY <3>3 DEF WsWritten, Here
      <4>2. \/ st' = [st EXCEPT ![t] = "ws"] /\ WS_ACTIVE' = WS_ACTIVE
            \/ st' = [st EXCEPT ![t] = "abort"] /\ WS_ACTIVE' = FALSE
        BY <3>3 DEF WsWritten, EndSession, Return, Set
      <4> QED BY <4>1, <4>2, MoveKeeps, ReleaseKeeps, Zenon DEF States, Holding
    <3>4. CASE WsEnds(t)
      <4>1. st[t] = "ws" /\ st' = [st EXCEPT ![t] = "abort"] /\ WS_ACTIVE' = FALSE
        BY <3>4 DEF WsEnds, EndSession, Here, Return, Set
      <4> QED BY <4>1, ReleaseKeeps, Zenon DEF Holding
    <3>5. CASE Relisten(t)
      <4>1. st[t] = "abort" /\ st' = [st EXCEPT ![t] = "listen"] /\ WS_ACTIVE' = WS_ACTIVE
        BY <3>5 DEF Relisten, Here, Set
      <4> QED BY <4>1, MoveKeeps, Zenon DEF States, Holding
    <3> QED BY <2>8, <3>1, <3>2, <3>3, <3>4, <3>5 DEF Ends
  <2>9. ASSUME Client(t) PROVE SInv'
    <3>1. UNCHANGED <<st, WS_ACTIVE>>
      BY <2>9, Zenon DEF Client, SendRequest, SendFrame, Leave
    <3> QED BY <3>1 DEF SInv, TypeOK, OneSession
  <2> QED BY <2>1, <2>2, <2>3, <2>4, <2>6, <2>7, <2>8, <2>9 DEF Works
<1> QED BY <1>1, <1>2

\* At most one WebSocket session exists, and WS_ACTIVE is set exactly while a
\* task is between the claim and the release of serve.
THEOREM SingleSession == Spec => []OneSession
<1>1. SInv => OneSession
  BY DEF SInv
<1> QED BY SInit, SNext, <1>1, PTL DEF Spec
-----------------------------------------------------------------------------
(* The stream.  Goes(s, reqs, a, full) says of the units s that a task has *)
(* not consumed yet that they go on with request a + 1: whole requests in  *)
(* the order sent, frames only behind the last one, and, unless the client *)
(* was lost (full), up to the last unit sent.                              *)

\* What a unit carries: the number of a unit, or a byte of a frame.
Data == Nat \union {Xor(a, b) : a \in Nat, b \in Nat}
Unit == Nat \X Data

Span(r) == r.hdr + r.clen

\* The units of a request are together, behind its last one comes the next request
\* or a frame, and behind a frame only frames.
Tagged(s, reqs) ==
  \A j \in 1..Len(s) :
    s[j][1] # 0 => s[j][1] \in 1..Len(reqs) /\ s[j][2] \in 1..Span(reqs[s[j][1]])
Together(s, reqs) ==
  \A i, j \in 1..Len(s) :
    s[i][1] # 0 /\ i <= j /\ s[i][2] + (j - i) <= Span(reqs[s[i][1]])
      => s[j] = <<s[i][1], s[i][2] + (j - i)>>
Follows(s, reqs) ==
  \A i, j \in 1..Len(s) :
    s[i][1] # 0 /\ j = i + 1 /\ s[i][2] = Span(reqs[s[i][1]])
      => s[j] = <<s[i][1] + 1, 1>> \/ (s[j][1] = 0 /\ s[i][1] = Len(reqs))
FramesLast(s) == \A i, j \in 1..Len(s) : s[i][1] = 0 /\ i <= j => s[j][1] = 0
Runs(s, reqs) == Tagged(s, reqs) /\ Together(s, reqs) /\ Follows(s, reqs) /\ FramesLast(s)

\* After an upgrade request a client sends frames only.
Upgraded(reqs) == reqs # <<>> /\ reqs[Len(reqs)].upgrade

Front(s, reqs, a) ==
  /\ s # <<>> => (s[1] = <<a + 1, 1>> /\ a < Len(reqs)) \/ (s[1][1] = 0 /\ a = Len(reqs))
  /\ \A j \in 1..Len(s) : s[j][1] = 0 => Upgraded(reqs)

Back(s, reqs, a) ==
  /\ s = <<>> => a = Len(reqs)
  /\ s # <<>> => \/ s[Len(s)][1] = 0
                 \/ (reqs # <<>> /\ s[Len(s)] = <<Len(reqs), Span(reqs[Len(reqs)])>>)

Goes(s, reqs, a, full) == Runs(s, reqs) /\ Front(s, reqs, a) /\ (full => Back(s, reqs, a))

\* The units of rbuf that are not consumed: all, or those behind the request that
\* is being answered.
Left(s, r, x) == IF s = "read" THEN r ELSE SubSeq(r, x.used + 1, Len(r))

\* A task at st = s with peer p, wire w, rbuf r, resp x, sent q, answered a and
\* exact e.
Ok(s, p, w, r, x, q, a, e) ==
  /\ p \in {"up", "fin", "lost"} /\ w \in Seq(Unit) /\ r \in Seq(Unit)
  /\ q \in Seq(Request) /\ a \in Nat /\ x.used \in 0..Len(r)
  /\ e = TRUE
  /\ s = "read" \/ (s = "reply" /\ ~x.close) => Goes(Left(s, r, x) \o w, q, a, p # "lost")

OkOf(t) == Ok(st[t], peer[t], wire[t], rbuf[t], resp[t], sent[t], answered[t], exact[t])

OrderInv ==
  /\ DOMAIN st = Task /\ DOMAIN peer = Task /\ DOMAIN wire = Task /\ DOMAIN rbuf = Task
  /\ DOMAIN resp = Task /\ DOMAIN sent = Task /\ DOMAIN answered = Task
  /\ DOMAIN exact = Task /\ DOMAIN overrun = Task
  /\ \A t \in Task : overrun[t] \/ OkOf(t)

-----------------------------------------------------------------------------
(* Sequences of units.                                                     *)

\* The parts of a unit.
LEMMA UnitParts ==
  ASSUME NEW u \in Unit
  PROVE  u[1] \in Nat /\ u[2] \in Data /\ u = <<u[1], u[2]>>
BY DEF Unit

\* What is joined, unit by unit.
LEMMA Joined ==
  ASSUME NEW s \in Seq(Unit), NEW w \in Seq(Unit)
  PROVE  /\ s \o w \in Seq(Unit) /\ Len(s \o w) = Len(s) + Len(w)
         /\ \A i \in 1..Len(s) : (s \o w)[i] = s[i]
         /\ \A i \in 1..Len(s) + Len(w) : i > Len(s) => (s \o w)[i] = w[i - Len(s)]
OBVIOUS

\* What is cut off, unit by unit.
LEMMA Cut ==
  ASSUME NEW s \in Seq(Unit), NEW n \in 0..Len(s)
  PROVE  /\ SubSeq(s, 1, n) \in Seq(Unit) /\ Len(SubSeq(s, 1, n)) = n
         /\ \A i \in 1..n : SubSeq(s, 1, n)[i] = s[i]
         /\ SubSeq(s, n + 1, Len(s)) \in Seq(Unit)
         /\ Len(SubSeq(s, n + 1, Len(s))) = Len(s) - n
         /\ \A i \in 1..Len(s) - n : SubSeq(s, n + 1, Len(s))[i] = s[i + n]
OBVIOUS

\* Sequences that agree everywhere.
LEMMA Same ==
  ASSUME NEW s \in Seq(Unit), NEW w \in Seq(Unit), Len(s) = Len(w),
         \A i \in 1..Len(s) : s[i] = w[i]
  PROVE  s = w
OBVIOUS

\* The two parts of what was cut make the whole.
LEMMA CutJoined ==
  ASSUME NEW s \in Seq(Unit), NEW w \in Seq(Unit), NEW n \in 0..Len(w)
  PROVE  (s \o SubSeq(w, 1, n)) \o SubSeq(w, n + 1, Len(w)) = s \o w
<1> DEFINE b == SubSeq(w, 1, n)
           c == SubSeq(w, n + 1, Len(w))
<1>1. /\ b \in Seq(Unit) /\ Len(b) = n /\ \A i \in 1..n : b[i] = w[i]
      /\ c \in Seq(Unit) /\ Len(c) = Len(w) - n /\ \A i \in 1..Len(w) - n : c[i] = w[i + n]
  BY Cut
<1> HIDE DEF b, c
<1>2. Len(s) \in Nat /\ Len(w) \in Nat /\ n \in Nat /\ n <= Len(w)
  OBVIOUS
<1> DEFINE d == s \o b
<1>3. /\ d \in Seq(Unit) /\ Len(d) = Len(s) + n
      /\ \A i \in 1..Len(s) : d[i] = s[i]
      /\ \A i \in 1..Len(s) + n : i > Len(s) => d[i] = b[i - Len(s)]
  BY <1>1, Joined, Zenon
<1> HIDE DEF d
<1>4. /\ d \o c \in Seq(Unit) /\ Len(d \o c) = Len(d) + Len(c)
      /\ \A i \in 1..Len(d) : (d \o c)[i] = d[i]
      /\ \A i \in 1..Len(d) + Len(c) : i > Len(d) => (d \o c)[i] = c[i - Len(d)]
  BY <1>1, <1>3, Joined, Zenon
<1>5. /\ s \o w \in Seq(Unit) /\ Len(s \o w) = Len(s) + Len(w)
      /\ \A i \in 1..Len(s) : (s \o w)[i] = s[i]
      /\ \A i \in 1..Len(s) + Len(w) : i > Len(s) => (s \o w)[i] = w[i - Len(s)]
  BY Joined
<1> DEFINE x == d \o c
           y == s \o w
<1> HIDE DEF x, y
<1>6. Len(x) = Len(s) + Len(w)
  BY <1>1, <1>2, <1>3, <1>4 DEF x
<1>7. ASSUME NEW i \in 1..Len(x) PROVE x[i] = y[i]
  <2>1. CASE i <= Len(s)
    <3>1. i \in 1..Len(s) /\ i \in 1..Len(d)
      BY <1>2, <1>3, <1>6, <2>1
    <3> QED BY <1>3, <1>4, <1>5, <3>1 DEF x, y
  <2>2. CASE i > Len(s) /\ i <= Len(s) + n
    <3>1. i \in 1..Len(s) + n /\ i \in 1..Len(d) /\ i - Len(s) \in 1..n /\ i \in 1..Len(s) + Len(w)
      BY <1>2, <1>3, <1>6, <2>2
    <3> QED BY <1>1, <1>3, <1>4, <1>5, <2>2, <3>1, SMTT(40), ZenonT(20) DEF x, y
  <2>3. CASE i > Len(s) + n
    <3>1. /\ i > Len(s) /\ i > Len(d) /\ i \in 1..Len(d) + Len(c) /\ i \in 1..Len(s) + Len(w)
          /\ i - Len(d) \in 1..Len(w) - n /\ (i - Len(d)) + n = i - Len(s)
      BY <1>1, <1>2, <1>3, <1>6, <2>3
    <3>2. x[i] = c[i - Len(d)]
      BY <1>4, <3>1 DEF x
    <3>3. c[i - Len(d)] = w[i - Len(s)]
      BY <1>1, <3>1, Zenon
    <3> QED BY <1>5, <3>1, <3>2, <3>3, SMTT(40), ZenonT(20) DEF y
  <2> QED BY <1>2, <1>6, <2>1, <2>2, <2>3
<1>8. x \in Seq(Unit) /\ y \in Seq(Unit) /\ Len(x) = Len(y)
  BY <1>4, <1>5, <1>6 DEF x, y
<1>9. x = y
  BY <1>7, <1>8, Same
<1> QED BY <1>9, Zenon DEF x, y, d, b, c

\* The order in which the parts are joined makes no difference.
LEMMA Regrouped ==
  ASSUME NEW s \in Seq(Unit), NEW w \in Seq(Unit), NEW d \in Seq(Unit)
  PROVE  (s \o w) \o d = s \o (w \o d)
<1> DEFINE x == w \o d
<1>1. x \in Seq(Unit) /\ Len(x) = Len(w) + Len(d) /\ Len(w) \in Nat /\ Len(d) \in Nat
  BY Joined
<1>2. Len(w) \in 0..Len(x)
  BY <1>1
<1>3. SubSeq(x, 1, Len(w)) = w
  <2>1. /\ SubSeq(x, 1, Len(w)) \in Seq(Unit) /\ Len(SubSeq(x, 1, Len(w))) = Len(w)
        /\ \A i \in 1..Len(w) : SubSeq(x, 1, Len(w))[i] = x[i]
    BY <1>1, <1>2, Cut
  <2>2. \A i \in 1..Len(w) : x[i] = w[i]
    BY Joined
  <2> HIDE DEF x
  <2> QED BY <2>1, <2>2, Same
<1>4. SubSeq(x, Len(w) + 1, Len(x)) = d
  <2>1. /\ SubSeq(x, Len(w) + 1, Len(x)) \in Seq(Unit)
        /\ Len(SubSeq(x, Len(w) + 1, Len(x))) = Len(x) - Len(w)
        /\ \A i \in 1..Len(x) - Len(w) : SubSeq(x, Len(w) + 1, Len(x))[i] = x[i + Len(w)]
    BY <1>1, <1>2, Cut
  <2>2. \A i \in 1..Len(w) + Len(d) : i > Len(w) => x[i] = d[i - Len(w)]
    BY Joined
  <2> HIDE DEF x
  <2>3. Len(x) - Len(w) = Len(d)
    BY <1>1
  <2>4. \A i \in 1..Len(d) : i + Len(w) \in 1..Len(w) + Len(d) /\ i + Len(w) > Len(w) /\ (i + Len(w)) - Len(w) = i
    BY <1>1
  <2>5. \A i \in 1..Len(d) : x[i + Len(w)] = d[i]
    BY <2>2, <2>4
  <2> QED BY <2>1, <2>3, <2>5, Same, Zenon
<1> HIDE DEF x
<1>5. (s \o SubSeq(x, 1, Len(w))) \o SubSeq(x, Len(w) + 1, Len(x)) = s \o x
  BY <1>1, <1>2, CutJoined, Zenon
<1> QED BY <1>3, <1>4, <1>5, SMTT(40), ZenonT(20) DEF x

\* Sequences of numbers.
LEMMA NatIsData ==
  ASSUME NEW s \in Seq(Nat)
  PROVE  s \in Seq(Data)
<1>1. \A i \in 1..Len(s) : s[i] \in Data
  BY DEF Data
<1>2. s = [i \in 1..Len(s) |-> s[i]] /\ Len(s) \in Nat
  OBVIOUS
<1> QED BY <1>1, <1>2

\* A client frame on the wire: bytes, and none of them belongs to a request.
LEMMA FrameUnits ==
  ASSUME NEW f \in Frame
  PROVE  LET z == [i \in DOMAIN Encode(f) |-> <<0, Encode(f)[i]>>]
         IN  z \in Seq(Unit) /\ \A i \in 1..Len(z) : z[i][1] = 0
<1> DEFINE n   == Len(f.payload)
           len == CASE f.form = 0 -> <<n>>
                    [] f.form = 2 -> <<126, n \div 256, n % 256>>
                    [] f.form = 8 -> <<127, 0, 0, 0, 0, 0, 0, n \div 256, n % 256>>
           m   == IF f.key = <<>> THEN 0 ELSE 128
           pay == [i \in 1..n |-> IF f.key = <<>> THEN f.payload[i]
                                  ELSE Xor(f.payload[i], f.key[1 + ((i - 1) % 4)])]
           hd  == <<f.opcode + (IF f.fin THEN 128 ELSE 0), m + len[1]>>
<1>0. Encode(f) = hd \o Tail(len) \o f.key \o pay
  BY DEF Encode
<1>1. /\ f.opcode \in Nat /\ f.form \in {0, 2, 8} /\ f.payload \in Seq(Nat)
      /\ f.key \in Seq(Nat) /\ Len(f.key) \in {0, 4}
  BY WebAssumption
<1>2. n \in Nat
  BY <1>1
<1>3. n \div 256 \in Nat /\ n % 256 \in Nat
  <2> HIDE DEF n
  <2> QED BY <1>2
<1>4. len \in Seq(Nat) /\ len # <<>>
  <2> HIDE DEF n
  <2>1. CASE f.form = 0
    <3>1. len = <<n>>
      BY <2>1
    <3> HIDE DEF len
    <3> QED BY <1>2, <3>1
  <2>2. CASE f.form = 2
    <3>1. len = <<126, n \div 256, n % 256>>
      BY <2>2
    <3> HIDE DEF len
    <3> QED BY <1>3, <3>1
  <2>3. CASE f.form = 8
    <3>1. len = <<127, 0, 0, 0, 0, 0, 0, n \div 256, n % 256>>
      BY <2>3
    <3> HIDE DEF len
    <3> QED BY <1>3, <3>1
  <2> QED BY <1>1, <2>1, <2>2, <2>3
<1> HIDE DEF len
<1>5. len[1] \in Nat /\ Tail(len) \in Seq(Nat) /\ m \in Nat
  BY <1>4
<1>6. hd \in Seq(Nat)
  <2> HIDE DEF m
  <2> QED BY <1>1, <1>5, SMTT(40), ZenonT(20)
<1>7. pay \in Seq(Data)
  <2>1. ASSUME NEW i \in 1..n PROVE pay[i] \in Data
    <3>1. f.payload[i] \in Nat
      BY <1>1, <2>1, SMTT(40), ZenonT(20)
    <3>2. CASE f.key = <<>>
      BY <3>1, <3>2 DEF Data
    <3>3. CASE f.key # <<>>
      <4>1. Len(f.key) = 4
        BY <1>1, <3>3
      <4>2. 1 + ((i - 1) % 4) \in 1..4
        BY <1>2
      <4>3. f.key[1 + ((i - 1) % 4)] \in Nat
        BY <1>1, <4>1, <4>2
      <4>4. pay[i] = Xor(f.payload[i], f.key[1 + ((i - 1) % 4)])
        BY <3>3
      <4> QED BY <3>1, <4>3, <4>4 DEF Data
    <3> QED BY <3>2, <3>3
  <2>2. pay = [i \in 1..n |-> pay[i]]
    BY Zenon
  <2> HIDE DEF pay, n
  <2> QED BY <1>2, <2>1, <2>2
<1> HIDE DEF pay, hd
<1>8. hd \in Seq(Data) /\ Tail(len) \in Seq(Data) /\ f.key \in Seq(Data)
  BY <1>1, <1>5, <1>6, NatIsData
<1>9. Encode(f) \in Seq(Data)
  BY <1>0, <1>7, <1>8
<1> DEFINE e == Encode(f)
           z == [i \in DOMAIN e |-> <<0, e[i]>>]
<1> HIDE DEF e
<1>10. e \in Seq(Data) /\ DOMAIN e = 1..Len(e) /\ Len(e) \in Nat
  BY <1>9 DEF e
<1>11. \A i \in 1..Len(e) : z[i] = <<0, e[i]>> /\ z[i] \in Unit
  BY <1>10 DEF Unit
<1>12. z = [i \in 1..Len(e) |-> z[i]]
  BY <1>10
<1> HIDE DEF z
<1>13. z \in Seq(Unit) /\ Len(z) = Len(e)
  BY <1>10, <1>11, <1>12
<1>14. \A i \in 1..Len(z) : z[i][1] = 0
  BY <1>11, <1>13
<1> QED BY <1>13, <1>14 DEF z, e

\* A request on the wire.
LEMMA RequestUnits ==
  ASSUME NEW q \in Seq(Request), NEW i \in 1..Len(q)
  PROVE  /\ Span(q[i]) \in Nat /\ Span(q[i]) >= 3 /\ q[i] \in Request
         /\ Units(q, i) \in Seq(Unit) /\ Len(Units(q, i)) = Span(q[i])
         /\ \A k \in 1..Span(q[i]) : Units(q, i)[k] = <<i, k>>
<1>1. q[i] \in Request
  OBVIOUS
<1>2. Span(q[i]) \in Nat /\ Span(q[i]) >= 3
  BY <1>1, WebAssumption DEF Span
<1> DEFINE n == Span(q[i])
           z == [k \in 1..n |-> <<i, k>>]
<1>3. Units(q, i) = z
  BY DEF Units, Span
<1> HIDE DEF n
<1>4. \A k \in 1..n : <<i, k>> \in Unit
  BY <1>2 DEF Unit, Data, n
<1>5. n \in Nat /\ z = [k \in 1..n |-> z[k]] /\ \A k \in 1..n : z[k] = <<i, k>> /\ z[k] \in Unit
  BY <1>2, <1>4 DEF n
<1> HIDE DEF z
<1>6. z \in Seq(Unit) /\ Len(z) = n
  BY <1>5, SMTT(40), ZenonT(20)
<1> QED BY <1>1, <1>2, <1>3, <1>5, <1>6 DEF n

-----------------------------------------------------------------------------
(* What the stream goes on with.                                           *)

\* A part of the stream is made of parts of requests.
LEMMA RunsPart ==
  ASSUME NEW s \in Seq(Unit), NEW q, NEW z \in Seq(Unit), NEW u \in Nat, Len(z) + u <= Len(s),
         \A j \in 1..Len(z) : z[j] = s[j + u], Runs(s, q)
  PROVE  Runs(z, q)
<1>1. Len(s) \in Nat /\ Len(z) \in Nat
  OBVIOUS
<1>2. \A j \in 1..Len(z) : j + u \in 1..Len(s) /\ z[j] = s[j + u]
  BY <1>1
<1>3. \A i, j \in 1..Len(z) : /\ (j + u) - (i + u) = j - i /\ (i <= j => i + u <= j + u)
                              /\ (j = i + 1 => j + u = (i + u) + 1)
  BY <1>1
<1>4. Tagged(z, q)
  <2> SUFFICES ASSUME NEW j \in 1..Len(z)
               PROVE  z[j][1] # 0 => z[j][1] \in 1..Len(q) /\ z[j][2] \in 1..Span(q[z[j][1]])
    BY DEF Tagged
  <2>1. j + u \in 1..Len(s) /\ z[j] = s[j + u]
    BY <1>2
  <2> DEFINE k == j + u
  <2> HIDE DEF k
  <2> QED BY <2>1, Zenon DEF Runs, Tagged, k
<1>5. Together(z, q)
  <2> SUFFICES ASSUME NEW i \in 1..Len(z), NEW j \in 1..Len(z),
                      z[i][1] # 0, i <= j, z[i][2] + (j - i) <= Span(q[z[i][1]])
               PROVE  z[j] = <<z[i][1], z[i][2] + (j - i)>>
    BY DEF Together
  <2> DEFINE k == i + u
             l == j + u
  <2>1. k \in 1..Len(s) /\ l \in 1..Len(s) /\ z[i] = s[k] /\ z[j] = s[l] /\ l - k = j - i /\ k <= l
    BY <1>2, <1>3
  <2> HIDE DEF k, l
  <2>2. s[k][1] # 0 /\ s[k][2] + (l - k) <= Span(q[s[k][1]])
    BY <2>1, Zenon
  <2>3. s[l] = <<s[k][1], s[k][2] + (l - k)>>
    BY <2>1, <2>2, Zenon DEF Runs, Together
  <2> QED BY <2>1, <2>3, Zenon
<1>6. Follows(z, q)
  <2> SUFFICES ASSUME NEW i \in 1..Len(z), NEW j \in 1..Len(z),
                      z[i][1] # 0, j = i + 1, z[i][2] = Span(q[z[i][1]])
               PROVE  z[j] = <<z[i][1] + 1, 1>> \/ (z[j][1] = 0 /\ z[i][1] = Len(q))
    BY SMTT(40), ZenonT(20) DEF Follows
  <2> DEFINE k == i + u
             l == j + u
  <2>1. k \in 1..Len(s) /\ l \in 1..Len(s) /\ z[i] = s[k] /\ z[j] = s[l] /\ l = k + 1
    BY <1>2, <1>3
  <2> HIDE DEF k, l
  <2>2. s[l] = <<s[k][1] + 1, 1>> \/ (s[l][1] = 0 /\ s[k][1] = Len(q))
    BY <2>1, Zenon DEF Runs, Follows
  <2> QED BY <2>1, <2>2, Zenon
<1>7. FramesLast(z)
  <2> SUFFICES ASSUME NEW i \in 1..Len(z), NEW j \in 1..Len(z), z[i][1] = 0, i <= j
               PROVE  z[j][1] = 0
    BY DEF FramesLast
  <2> DEFINE k == i + u
             l == j + u
  <2>1. k \in 1..Len(s) /\ l \in 1..Len(s) /\ z[i] = s[k] /\ z[j] = s[l] /\ k <= l
    BY <1>2, <1>3, Zenon
  <2> HIDE DEF k, l
  <2> QED BY <2>1, Zenon DEF Runs, FramesLast
<1> QED BY <1>4, <1>5, <1>6, <1>7 DEF Runs

\* A stream that starts with a request is the request as far as it reaches.
LEMMA RunsFirst ==
  ASSUME NEW s \in Seq(Unit), NEW q \in Seq(Request), NEW a \in Nat, Runs(s, q), s # <<>>,
         s[1] = <<a + 1, 1>>
  PROVE  /\ a + 1 \in 1..Len(q)
         /\ \A j \in 1..Len(s) : j <= Span(q[a + 1]) => s[j] = <<a + 1, j>>
<1>1. Len(s) \in Nat /\ 1 \in 1..Len(s)
  OBVIOUS
<1>2. s[1][1] = a + 1 /\ s[1][2] = 1 /\ a + 1 # 0
  OBVIOUS
<1>3. a + 1 \in 1..Len(q)
  BY <1>1, <1>2 DEF Runs, Tagged
<1>4. ASSUME NEW j \in 1..Len(s), j <= Span(q[a + 1]) PROVE s[j] = <<a + 1, j>>
  <2>1. 1 <= j /\ 1 + (j - 1) = j
    BY <1>1
  <2> QED BY <1>1, <1>2, <1>4, <2>1 DEF Runs, Together
<1> QED BY <1>3, <1>4

\* A request is consumed: the stream goes on with the next one.
LEMMA GoesNext ==
  ASSUME NEW s \in Seq(Unit), NEW q \in Seq(Request), NEW a \in Nat, NEW full \in BOOLEAN,
         Goes(s, q, a, full), s # <<>>, s[1] = <<a + 1, 1>>, Span(q[a + 1]) <= Len(s),
         NEW z \in Seq(Unit), Len(z) = Len(s) - Span(q[a + 1]),
         \A j \in 1..Len(z) : z[j] = s[j + Span(q[a + 1])]
  PROVE  Goes(z, q, a + 1, full)
<1> DEFINE n == Span(q[a + 1])
<1>1. /\ a + 1 \in 1..Len(q)
      /\ \A j \in 1..Len(s) : j <= n => s[j] = <<a + 1, j>>
  BY RunsFirst DEF Goes
<1>2. n \in Nat /\ n >= 3 /\ Len(s) \in Nat /\ Len(z) \in Nat /\ Len(q) \in Nat
  BY <1>1, RequestUnits
<1> HIDE DEF n
<1>3. Len(z) = Len(s) - n /\ n <= Len(s) /\ \A j \in 1..Len(z) : z[j] = s[j + n]
  BY DEF n
<1>4. Runs(z, q)
  <2>1. Len(z) + n <= Len(s)
    BY <1>2, <1>3
  <2> QED BY <1>2, <1>3, <2>1, RunsPart, Zenon DEF Goes
<1>5. n \in 1..Len(s) /\ s[n] = <<a + 1, n>>
  BY <1>1, <1>2, <1>3
<1>6. ASSUME z # <<>>
      PROVE  (z[1] = <<a + 1 + 1, 1>> /\ a + 1 < Len(q)) \/ (z[1][1] = 0 /\ a + 1 = Len(q))
  <2>1. 1 \in 1..Len(z) /\ n + 1 \in 1..Len(s) /\ z[1] = s[n + 1]
    BY <1>2, <1>3, <1>6
  <2>2. s[n][1] = a + 1 /\ s[n][2] = n /\ a + 1 # 0
    BY <1>5
  <2>3. s[n + 1] = <<a + 1 + 1, 1>> \/ (s[n + 1][1] = 0 /\ a + 1 = Len(q))
    BY <1>5, <2>1, <2>2, Zenon DEF Goes, Runs, Follows, n
  <2>4. CASE s[n + 1] = <<a + 1 + 1, 1>>
    <3>1. s[n + 1][1] = a + 1 + 1 /\ a + 1 + 1 # 0
      BY <2>4
    <3>2. a + 1 + 1 \in 1..Len(q)
      BY <2>1, <3>1 DEF Goes, Runs, Tagged
    <3> QED BY <1>2, <2>1, <2>4, <3>2
  <2> QED BY <2>1, <2>3, <2>4
<1>7. ASSUME NEW j \in 1..Len(z), z[j][1] = 0 PROVE Upgraded(q)
  <2>1. j + n \in 1..Len(s) /\ s[j + n][1] = 0
    BY <1>2, <1>3, <1>7
  <2> QED BY <2>1 DEF Goes, Front
<1>8. ASSUME full PROVE Back(z, q, a + 1)
  <2>1. CASE z = <<>>
    <3>1. Len(s) = n
      BY <1>2, <1>3, <2>1
    <3>2. s[Len(s)] = <<Len(q), Span(q[Len(q)])>>
      BY <1>5, <1>8, <3>1 DEF Goes, Back
    <3>3. a + 1 = Len(q)
      BY <1>5, <3>1, <3>2
    <3> QED BY <2>1, <3>3 DEF Back
  <2>2. CASE z # <<>>
    <3>1. Len(z) \in 1..Len(z) /\ Len(z) + n = Len(s)
      BY <1>2, <1>3, <2>2
    <3>2. z[Len(z)] = s[Len(s)] /\ s # <<>>
      BY <1>3, <3>1
    <3> QED BY <1>8, <2>2, <3>2 DEF Goes, Back
  <2> QED BY <2>1, <2>2
<1> QED BY <1>4, <1>6, <1>7, <1>8 DEF Goes, Front

\* The client sends a request.
LEMMA GoesRequest ==
  ASSUME NEW s \in Seq(Unit), NEW q \in Seq(Request), NEW a \in Nat, Goes(s, q, a, TRUE),
         ~Upgraded(q), NEW r \in Request
  PROVE  Goes(s \o Units(Append(q, r), Len(q) + 1), Append(q, r), a, TRUE)
<1> DEFINE p == Append(q, r)
           n == Len(q) + 1
           d == Units(p, n)
           z == s \o d
           m == Span(p[n])
<1>1. /\ p \in Seq(Request) /\ Len(p) = n /\ n \in 1..Len(p) /\ p[n] = r
      /\ \A i \in 1..Len(q) : p[i] = q[i]
      /\ Len(q) \in Nat /\ n \in Nat /\ n # 0 /\ p # <<>> /\ Len(s) \in Nat
  OBVIOUS
<1> HIDE DEF p
<1>2. m \in Nat /\ m >= 3 /\ d \in Seq(Unit) /\ Len(d) = m /\ \A k \in 1..m : d[k] = <<n, k>>
  BY <1>1, RequestUnits
<1> HIDE DEF d, m, n
<1>3. /\ z \in Seq(Unit) /\ Len(z) = Len(s) + m
      /\ \A i \in 1..Len(s) : z[i] = s[i]
      /\ \A i \in 1..Len(s) + m : i > Len(s) => z[i] = d[i - Len(s)]
  BY <1>2, Joined, Zenon
<1> HIDE DEF z
<1>4. \A i \in 1..Len(z) : i \in 1..Len(s) \/ (i > Len(s) /\ i - Len(s) \in 1..m /\ z[i] = <<n, i - Len(s)>>)
  BY <1>1, <1>2, <1>3
<1>5. \A i \in 1..Len(s) : /\ z[i] = s[i] /\ s[i][1] # 0 /\ s[i][1] \in 1..Len(q)
                           /\ p[s[i][1]] = q[s[i][1]] /\ s[i][2] \in 1..Span(q[s[i][1]])
  BY <1>1, <1>3 DEF Goes, Front, Runs, Tagged
<1>6. s # <<>> => /\ Len(s) \in 1..Len(s) /\ q # <<>>
                  /\ s[Len(s)] = <<Len(q), Span(q[Len(q)])>>
  BY <1>1, <1>5 DEF Goes, Back
<1>7. \A c \in 1..Len(q) : Span(q[c]) \in Nat
  BY RequestUnits
<1>8. \A i \in 1..Len(z) : z[i][1] # 0
  BY <1>1, <1>4, <1>5
<1>9. Tagged(z, p)
  <2> SUFFICES ASSUME NEW j \in 1..Len(z)
               PROVE  z[j][1] \in 1..Len(p) /\ z[j][2] \in 1..Span(p[z[j][1]])
    BY DEF Tagged
  <2>1. CASE j \in 1..Len(s)
    <3>1. z[j][1] \in 1..Len(q) /\ z[j][2] \in 1..Span(p[z[j][1]])
      BY <1>5, <2>1
    <3> QED BY <1>1, <3>1 DEF n
  <2>2. CASE j > Len(s) /\ j - Len(s) \in 1..m /\ z[j] = <<n, j - Len(s)>>
    <3>1. z[j][1] = n /\ z[j][2] = j - Len(s)
      BY <2>2
    <3> QED BY <1>1, <2>2, <3>1 DEF m
  <2> QED BY <1>4, <2>1, <2>2
<1>10. Together(z, p)
  <2> SUFFICES ASSUME NEW i \in 1..Len(z), NEW j \in 1..Len(z),
                      z[i][1] # 0, i <= j, z[i][2] + (j - i) <= Span(p[z[i][1]])
               PROVE  z[j] = <<z[i][1], z[i][2] + (j - i)>>
    BY SMTT(40), ZenonT(20) DEF Together
  <2>1. CASE i \in 1..Len(s)
    <3>1. /\ z[i] = s[i] /\ s[i][1] # 0 /\ s[i][2] \in Int /\ s[i][1] \in 1..Len(q)
          /\ s[i][2] + (j - i) <= Span(q[s[i][1]]) /\ Span(q[s[i][1]]) \in Nat
      BY <1>5, <1>7, <2>1, SMTT(40), ZenonT(20)
    <3>2. CASE j \in 1..Len(s)
      <4>1. s[j] = <<s[i][1], s[i][2] + (j - i)>>
        BY <2>1, <3>1, <3>2, SMTT(40), ZenonT(20) DEF Goes, Runs, Together
      <4> QED BY <1>5, <3>1, <3>2, <4>1
    <3>3. CASE j > Len(s)
      <4>1. /\ Len(s) \in 1..Len(s) /\ i <= Len(s) /\ s # <<>>
            /\ s[i][2] + (Len(s) - i) <= Span(q[s[i][1]])
            /\ s[i][2] + (Len(s) - i) # Span(q[s[i][1]])
        BY <1>1, <2>1, <3>1, <3>3, SMTT(40), ZenonT(20)
      <4>2. s[Len(s)] = <<s[i][1], s[i][2] + (Len(s) - i)>>
        BY <2>1, <3>1, <4>1, SMTT(40), ZenonT(20) DEF Goes, Runs, Together
      <4>3. s[i][1] = Len(q) /\ s[i][2] + (Len(s) - i) = Span(q[Len(q)])
        BY <1>6, <4>1, <4>2
      <4> QED BY <4>1, <4>3
    <3> QED BY <1>4, <3>2, <3>3
  <2>2. CASE i > Len(s) /\ z[i] = <<n, i - Len(s)>>
    <3>1. j > Len(s) /\ j \notin 1..Len(s) /\ z[i][1] = n /\ z[i][2] = i - Len(s)
      BY <1>1, <1>3, <2>2
    <3>2. (i - Len(s)) + (j - i) = j - Len(s)
      BY <1>1, <1>3
    <3> QED BY <1>4, <3>1, <3>2
  <2> QED BY <1>4, <2>1, <2>2
<1>11. Follows(z, p)
  <2> SUFFICES ASSUME NEW i \in 1..Len(z), NEW j \in 1..Len(z),
                      z[i][1] # 0, j = i + 1, z[i][2] = Span(p[z[i][1]])
               PROVE  z[j] = <<z[i][1] + 1, 1>>
    BY DEF Follows
  <2>1. CASE i \in 1..Len(s)
    <3>1. /\ z[i] = s[i] /\ s[i][1] # 0 /\ s[i][2] = Span(q[s[i][1]])
      BY <1>5, <2>1
    <3>2. CASE j \in 1..Len(s)
      <4>1. s[j] = <<s[i][1] + 1, 1>> \/ s[j][1] = 0
        BY <2>1, <3>1, <3>2 DEF Goes, Runs, Follows
      <4> QED BY <1>5, <3>1, <3>2, <4>1
    <3>3. CASE j \notin 1..Len(s)
      <4>1. i = Len(s) /\ s # <<>> /\ j - Len(s) = 1
        BY <1>1, <1>3, <2>1, <3>3
      <4>2. z[j] = <<n, 1>>
        BY <1>4, <3>3, <4>1, SMTT(40), ZenonT(20)
      <4>3. s[i][1] = Len(q)
        BY <1>6, <4>1
      <4> QED BY <3>1, <4>2, <4>3 DEF n
    <3> QED BY <3>2, <3>3
  <2>2. CASE i > Len(s) /\ i - Len(s) \in 1..m /\ z[i] = <<n, i - Len(s)>>
    <3>1. z[i][2] = i - Len(s) /\ z[i][1] = n
      BY <2>2
    <3>2. i - Len(s) = m
      BY <3>1, Zenon DEF m
    <3> QED BY <1>1, <1>2, <1>3, <3>2
  <2> QED BY <1>4, <2>1, <2>2
<1>12. FramesLast(z)
  BY <1>8 DEF FramesLast
<1>13. Front(z, p, a)
  <2>1. z[1] = <<a + 1, 1>> /\ a < Len(p)
    <3>1. CASE s = <<>>
      <4>1. a = Len(q) /\ Len(s) = 0
        BY <3>1 DEF Goes, Back
      <4>2. 1 \in 1..Len(z) /\ 1 \notin 1..Len(s) /\ 1 - Len(s) = 1
        BY <1>2, <1>3, <4>1
      <4> QED BY <1>1, <1>4, <4>1, <4>2 DEF n
    <3>2. CASE s # <<>>
      <4>1. 1 \in 1..Len(s)
        BY <1>1, <3>2
      <4>2. s[1] = <<a + 1, 1>> /\ a < Len(q)
        BY <1>5, <3>2, <4>1 DEF Goes, Front
      <4> QED BY <1>1, <1>3, <4>1, <4>2 DEF n
    <3> QED BY <3>1, <3>2
  <2> QED BY <1>8, <2>1 DEF Front
<1>14. Back(z, p, a)
  <2>1. Len(z) \in 1..Len(z) /\ Len(z) \notin 1..Len(s) /\ Len(z) - Len(s) = m /\ z # <<>>
    BY <1>1, <1>2, <1>3
  <2>2. z[Len(z)] = <<n, m>>
    BY <1>4, <2>1
  <2> QED BY <1>1, <2>1, <2>2 DEF Back, m
<1>15. Goes(z, p, a, TRUE)
  BY <1>9, <1>10, <1>11, <1>12, <1>13, <1>14 DEF Goes, Runs
<1> QED BY <1>15, Zenon DEF z, d, p, n

\* The client sends a frame.
LEMMA GoesFrame ==
  ASSUME NEW s \in Seq(Unit), NEW q \in Seq(Request), NEW a \in Nat, Goes(s, q, a, TRUE),
         Upgraded(q), NEW d \in Seq(Unit), \A i \in 1..Len(d) : d[i][1] = 0
  PROVE  Goes(s \o d, q, a, TRUE)
<1> DEFINE z == s \o d
<1>1. Len(s) \in Nat /\ Len(d) \in Nat
  OBVIOUS
<1>2. /\ z \in Seq(Unit) /\ Len(z) = Len(s) + Len(d)
      /\ \A i \in 1..Len(s) : z[i] = s[i]
      /\ \A i \in 1..Len(s) + Len(d) : i > Len(s) => z[i] = d[i - Len(s)]
  BY Joined
<1> HIDE DEF z
<1>3. \A i \in 1..Len(z) : (i \in 1..Len(s) /\ z[i] = s[i]) \/ (i > Len(s) /\ z[i][1] = 0)
  BY <1>1, <1>2
<1>4. \A i, j \in 1..Len(z) : i <= j /\ j \in 1..Len(s) => i \in 1..Len(s)
  BY <1>1, <1>2
<1>5. Tagged(z, q)
  BY <1>3 DEF Goes, Runs, Tagged
<1>6. s # <<>> => \/ s[Len(s)][1] = 0
                  \/ s[Len(s)] = <<Len(q), Span(q[Len(q)])>>
  BY DEF Goes, Back
<1>7. Together(z, q)
  <2> SUFFICES ASSUME NEW i \in 1..Len(z), NEW j \in 1..Len(z),
                      z[i][1] # 0, i <= j, z[i][2] + (j - i) <= Span(q[z[i][1]])
               PROVE  z[j] = <<z[i][1], z[i][2] + (j - i)>>
    BY DEF Together
  <2>1. i \in 1..Len(s) /\ z[i] = s[i] /\ s[i][1] # 0 /\ s # <<>>
    BY <1>1, <1>3, SMTT(40), ZenonT(20)
  <2>2. s[i][1] \in 1..Len(q) /\ s[i][2] \in 1..Span(q[s[i][1]]) /\ Span(q[s[i][1]]) \in Nat
    BY <2>1, RequestUnits DEF Goes, Runs, Tagged
  <2>3. CASE j \in 1..Len(s)
    <3>1. s[j] = <<s[i][1], s[i][2] + (j - i)>>
      BY <2>1, <2>3 DEF Goes, Runs, Together
    <3> QED BY <1>2, <2>1, <2>3, <3>1, SMTT(40), ZenonT(20)
  <2>4. CASE j > Len(s)
    <3>1. /\ Len(s) \in 1..Len(s) /\ i <= Len(s)
          /\ s[i][2] + (Len(s) - i) <= Span(q[s[i][1]])
          /\ s[i][2] + (Len(s) - i) # Span(q[s[i][1]])
      BY <1>1, <2>1, <2>2, <2>4, SMTT(40), ZenonT(20)
    <3>2. s[Len(s)] = <<s[i][1], s[i][2] + (Len(s) - i)>>
      BY <2>1, <3>1 DEF Goes, Runs, Together
    <3>3. s[i][1] = Len(q) /\ s[i][2] + (Len(s) - i) = Span(q[Len(q)])
      BY <1>6, <2>1, <3>2
    <3> QED BY <3>1, <3>3
  <2> QED BY <1>3, <2>3, <2>4
<1>8. Follows(z, q)
  <2> SUFFICES ASSUME NEW i \in 1..Len(z), NEW j \in 1..Len(z),
                      z[i][1] # 0, j = i + 1, z[i][2] = Span(q[z[i][1]])
               PROVE  z[j] = <<z[i][1] + 1, 1>> \/ (z[j][1] = 0 /\ z[i][1] = Len(q))
    BY SMTT(40), ZenonT(20) DEF Follows
  <2>1. i \in 1..Len(s) /\ z[i] = s[i] /\ s[i][1] # 0 /\ s # <<>>
    BY <1>1, <1>3
  <2>2. CASE j \in 1..Len(s)
    <3>1. s[j] = <<s[i][1] + 1, 1>> \/ (s[j][1] = 0 /\ s[i][1] = Len(q))
      BY <2>1, <2>2 DEF Goes, Runs, Follows
    <3> QED BY <1>2, <2>1, <2>2, <3>1
  <2>3. CASE j > Len(s) /\ z[j][1] = 0
    <3>1. i = Len(s)
      BY <1>1, <2>1, <2>3
    <3>2. s[i][1] = Len(q)
      BY <1>6, <2>1, <3>1
    <3> QED BY <2>1, <2>3, <3>2
  <2> QED BY <1>3, <2>2, <2>3
<1>9. FramesLast(z)
  <2> SUFFICES ASSUME NEW i \in 1..Len(z), NEW j \in 1..Len(z), z[i][1] = 0, i <= j,
                      j \in 1..Len(s)
               PROVE  z[j][1] = 0
    BY <1>3 DEF FramesLast
  <2>1. i \in 1..Len(s)
    BY <1>4
  <2> QED BY <1>2, <2>1 DEF Goes, Runs, FramesLast
<1>10. Front(z, q, a)
  <2> SUFFICES ASSUME z # <<>>
               PROVE  (z[1] = <<a + 1, 1>> /\ a < Len(q)) \/ (z[1][1] = 0 /\ a = Len(q))
    BY DEF Front
  <2>1. CASE s = <<>>
    <3>1. a = Len(q) /\ 1 \in 1..Len(z) /\ 1 \notin 1..Len(s)
      BY <1>2, <2>1 DEF Goes, Back
    <3> QED BY <1>3, <3>1
  <2>2. CASE s # <<>>
    BY <1>1, <1>2, <2>2 DEF Goes, Front
  <2> QED BY <2>1, <2>2
<1>11. Back(z, q, a)
  <2>1. CASE d = <<>>
    <3>1. z = s
      BY <1>2, <2>1, Same
    <3> QED BY <3>1 DEF Goes
  <2>2. CASE d # <<>>
    <3>1. Len(z) \in 1..Len(z) /\ Len(z) \notin 1..Len(s) /\ z # <<>>
      BY <1>1, <1>2, <2>2
    <3> QED BY <1>3, <3>1 DEF Back
  <2> QED BY <2>1, <2>2
<1>12. Goes(z, q, a, TRUE)
  BY <1>5, <1>7, <1>8, <1>9, <1>10, <1>11 DEF Goes, Runs
<1> QED BY <1>12, Zenon DEF z

\* What is in the buffer is the front of the stream.
LEMMA GoesHead ==
  ASSUME NEW s \in Seq(Unit), NEW w \in Seq(Unit), NEW q, NEW a, NEW full,
         Goes(s \o w, q, a, full)
  PROVE  Runs(s, q) /\ Front(s, q, a)
<1>1. Len(s) \in Nat /\ Len(w) \in Nat
  OBVIOUS
<1> DEFINE z == s \o w
<1>2. z \in Seq(Unit) /\ Len(z) = Len(s) + Len(w) /\ \A i \in 1..Len(s) : z[i] = s[i]
  BY Joined
<1>3. Goes(z, q, a, full)
  OBVIOUS
<1> HIDE DEF z
<1>4. \A j \in 1..Len(s) : j \in 1..Len(z) /\ s[j] = z[j] /\ s[j] = z[j + 0]
  BY <1>1, <1>2
<1>5. Runs(s, q)
  <2>1. Len(s) + 0 <= Len(z) /\ 0 \in Nat
    BY <1>1, <1>2
  <2> QED BY <1>2, <1>3, <1>4, <2>1, RunsPart DEF Goes
<1>6. Front(s, q, a)
  <2>1. s # <<>> => 1 \in 1..Len(s) /\ z # <<>>
    BY <1>1, <1>2
  <2> QED BY <1>3, <1>4, <2>1 DEF Goes, Front
<1> QED BY <1>5, <1>6

\* The client is lost with what it had sent.
LEMMA GoesLost ==
  ASSUME NEW s \in Seq(Unit), NEW w \in Seq(Unit), NEW q, NEW a, NEW full,
         Goes(s \o w, q, a, full)
  PROVE  Goes(s \o <<>>, q, a, FALSE)
<1>1. s \o <<>> = s
  OBVIOUS
<1>2. Runs(s, q) /\ Front(s, q, a)
  BY GoesHead
<1> QED BY <1>1, <1>2 DEF Goes

-----------------------------------------------------------------------------
(* The parse loop on a stream that goes on with request a + 1.             *)

\* A GET has no body: the loop consumes a GET up to its blank line.
NoGetBody == \A r \in Request : r.method = "GET" => r.clen = 0

\* Without a unit of a request there is no blank line.
LEMMA NoBlank ==
  ASSUME NEW q, NEW buf \in Seq(Unit), \A j \in 1..Len(buf) : buf[j][1] = 0
  PROVE  HdrEnd(q, buf) = 0
<1>1. {j \in DOMAIN buf : buf[j][1] # 0 /\ buf[j][2] = q[buf[j][1]].hdr} = {}
  OBVIOUS
<1> QED BY <1>1, Zenon DEF HdrEnd

\* find_hdr_end finds the blank line of the request at the front.
LEMMA BlankOf ==
  ASSUME NEW q \in Seq(Request), NEW buf \in Seq(Unit), NEW a \in Nat, a + 1 \in 1..Len(q),
         \A j \in 1..Len(buf) : j <= Span(q[a + 1]) => buf[j] = <<a + 1, j>>
  PROVE  HdrEnd(q, buf) = IF Len(buf) >= q[a + 1].hdr THEN q[a + 1].hdr ELSE 0
<1> DEFINE h == q[a + 1].hdr
           ends == {j \in DOMAIN buf : buf[j][1] # 0 /\ buf[j][2] = q[buf[j][1]].hdr}
<1>1. h \in Nat /\ h >= 3 /\ h <= Span(q[a + 1]) /\ Span(q[a + 1]) \in Nat
  BY WebAssumption DEF Span
<1>2. DOMAIN buf = 1..Len(buf) /\ Len(buf) \in Nat
  OBVIOUS
<1>3. HdrEnd(q, buf) = IF ends = {} THEN 0 ELSE CHOOSE j \in ends : \A m \in ends : j <= m
  BY Zenon DEF HdrEnd
<1> HIDE DEF h
<1>4. \A j \in 1..Len(buf) : j <= h => buf[j][1] = a + 1 /\ buf[j][2] = j
  BY <1>1, <1>2
<1>5. \A j \in ends : j \in 1..Len(buf) /\ j >= h
  BY <1>1, <1>2, <1>4 DEF h
<1>6. CASE Len(buf) >= h
  <2>1. h \in ends /\ \A m \in ends : h <= m
    BY <1>1, <1>2, <1>4, <1>5, <1>6 DEF h
  <2>2. \A j \in ends : (\A m \in ends : j <= m) => j = h
    BY <1>1, <1>2, <1>5, <2>1
  <2> HIDE DEF ends
  <2>3. (CHOOSE j \in ends : \A m \in ends : j <= m) = h
    BY <2>1, <2>2, Zenon
  <2> QED BY <1>3, <1>6, <2>1, <2>3, Zenon DEF h
<1>7. CASE ~(Len(buf) >= h)
  <2>1. ends = {}
    <3> HIDE DEF ends
    <3> QED BY <1>1, <1>2, <1>5, <1>7
  <2> QED BY <1>3, <1>7, <2>1 DEF h
<1> QED BY <1>6, <1>7

\* hdr_find and parse_request_line read the request at the front.
LEMMA HeaderOf ==
  ASSUME NEW q \in Seq(Request), NEW hdr \in Seq(Unit), NEW a \in Nat, a + 1 \in 1..Len(q),
         Len(hdr) >= 3, \A j \in 1..Len(hdr) : hdr[j] = <<a + 1, j>>
  PROVE  /\ FieldsOf(q, hdr) = q[a + 1]
         /\ \A line \in LinesOf(q, hdr) : ~line.bad /\ line.method = q[a + 1].method
<1> DEFINE at == {j \in DOMAIN hdr : hdr[j][1] # 0 /\ hdr[j][2] = 2}
<1>1. DOMAIN hdr = 1..Len(hdr) /\ Len(hdr) \in Nat
  OBVIOUS
<1>2. \A j \in 1..Len(hdr) : hdr[j][1] = a + 1 /\ hdr[j][2] = j /\ a + 1 # 0
  OBVIOUS
<1>3. at = {2}
  BY <1>1, <1>2
<1>4. FieldsOf(q, hdr) =
        IF at = {} THEN [clen |-> 0, close |-> FALSE, upgrade |-> FALSE, key |-> FALSE]
        ELSE q[hdr[CHOOSE j \in at : \A m \in at : j <= m][1]]
  BY Zenon DEF FieldsOf
<1> HIDE DEF at
<1>5. (CHOOSE j \in at : \A m \in at : j <= m) = 2
  BY <1>3
<1>6. FieldsOf(q, hdr) = q[a + 1]
  BY <1>1, <1>2, <1>3, <1>4, <1>5
<1>7. hdr[1][1] = a + 1 /\ hdr[1][1] # 0 /\ hdr[1][2] = 1
  BY <1>1, <1>2
<1> DEFINE r == q[a + 1]
<1>8. LinesOf(q, hdr) = {[method |-> r.method, path |-> r.path, ok |-> r.ok, bad |-> FALSE]}
  BY <1>7 DEF LinesOf
<1> HIDE DEF r
<1>9. \A line \in LinesOf(q, hdr) : ~line.bad /\ line.method = r.method
  BY <1>8
<1> QED BY <1>6, <1>9 DEF r

\* The parse loop asks for more, refuses and closes, or takes exactly request a + 1.
LEMMA FoundUses ==
  ASSUME NoGetBody, NEW q \in Seq(Request), NEW buf \in Seq(Unit), NEW a \in Nat, Runs(buf, q),
         Front(buf, q, a), NEW active, NEW x \in Found(q, buf, active)
  PROVE  \/ x.used = 0 /\ (x.next = "read" \/ x.close)
         \/ /\ a < Len(q) /\ buf # <<>> /\ buf[1] = <<a + 1, 1>> /\ x.next # "read"
            /\ x.used = Span(q[a + 1]) /\ x.used <= Len(buf)
            /\ SubSeq(buf, 1, x.used) = Units(q, a + 1)
<1> DEFINE he  == HdrEnd(q, buf)
           hdr == SubSeq(buf, 1, he)
           f   == FieldsOf(q, hdr)
           short == {IF Len(buf) >= RX_BUF - 1 THEN Reply("400", 0, TRUE) ELSE More}
           ans(line) ==
             CASE line.bad \/ f.clen > BODY_MAX -> {Reply("400", 0, TRUE)}
               [] ~line.bad /\ f.clen <= BODY_MAX /\ line.method = "GET" ->
                    IF line.path = "ws" /\ f.upgrade
                    THEN CASE active -> {Reply("503", 0, TRUE)}
                           [] ~active /\ f.key -> {[Reply("101", he, TRUE) EXCEPT !.next = "switch"]}
                           [] OTHER -> {[Reply("400", he, TRUE) EXCEPT !.next = "refuse"]}
                    ELSE {Reply(Status(line), he, f.close)}
               [] OTHER ->
                    IF Len(buf) - he < f.clen THEN {More}
                    ELSE {Reply(Status(line), he + f.clen, f.close)}
<1>1. Found(q, buf, active) =
        IF he = 0 THEN short ELSE UNION {ans(line) : line \in LinesOf(q, hdr)}
  BY DEF Found
<1>2. CASE he = 0
  BY <1>1, <1>2 DEF Reply, More
<1>3. CASE he # 0
  <2>1. PICK line \in LinesOf(q, hdr) : x \in ans(line)
    <3> HIDE DEF ans, he, hdr, short
    <3> QED BY <1>1, <1>3
  <2>2. Len(buf) \in Nat /\ (buf # <<>> => 1 \in 1..Len(buf))
    OBVIOUS
  <2>3. buf # <<>> /\ buf[1] = <<a + 1, 1>> /\ a < Len(q)
    <3>1. ASSUME buf = <<>> PROVE FALSE
      <4>1. \A j \in 1..Len(buf) : buf[j][1] = 0
        BY <3>1
      <4> QED BY <1>3, <4>1, NoBlank
    <3>2. ASSUME buf # <<>>, buf[1][1] = 0 PROVE FALSE
      <4>1. \A j \in 1..Len(buf) : buf[j][1] = 0
        BY <2>2, <3>2 DEF Runs, FramesLast
      <4> QED BY <1>3, <4>1, NoBlank
    <3> QED BY <3>1, <3>2 DEF Front
  <2> DEFINE r == q[a + 1]
             n == Span(r)
  <2>4. /\ a + 1 \in 1..Len(q)
        /\ \A j \in 1..Len(buf) : j <= n => buf[j] = <<a + 1, j>>
    BY <2>3, RunsFirst
  <2>5. /\ r \in Request /\ r.hdr \in Nat /\ r.hdr >= 3 /\ r.clen \in Nat /\ n = r.hdr + r.clen
    BY <2>4, WebAssumption DEF Span
  <2>6. he = r.hdr /\ Len(buf) >= r.hdr
    BY <1>3, <2>4, BlankOf
  <2> HIDE DEF he, n, r
  <2>7. /\ hdr \in Seq(Unit) /\ Len(hdr) >= 3 /\ \A j \in 1..Len(hdr) : hdr[j] = <<a + 1, j>>
    <3>1. he \in 0..Len(buf)
      BY <2>2, <2>5, <2>6
    <3>2. hdr \in Seq(Unit) /\ Len(hdr) = he /\ \A j \in 1..he : hdr[j] = buf[j]
      BY <3>1, Cut
    <3> HIDE DEF hdr
    <3>3. he >= 3 /\ \A j \in 1..he : j \in 1..Len(buf) /\ j <= n
      BY <2>2, <2>5, <2>6, SMTT(40), ZenonT(20)
    <3> QED BY <2>4, <3>2, <3>3, SMTT(40), ZenonT(20)
  <2> HIDE DEF hdr
  <2>8. f = r /\ ~line.bad /\ line.method = r.method
    BY <2>1, <2>4, <2>7, HeaderOf DEF r
  <2> HIDE DEF f
  <2>9. \/ x \in {Reply("400", 0, TRUE), Reply("503", 0, TRUE), More}
        \/ /\ line.method = "GET"
           /\ \/ x = [Reply("101", he, TRUE) EXCEPT !.next = "switch"]
              \/ x = [Reply("400", he, TRUE) EXCEPT !.next = "refuse"]
              \/ x = Reply(Status(line), he, f.close)
        \/ ~(Len(buf) - he < f.clen) /\ x = Reply(Status(line), he + f.clen, f.close)
    BY <2>1, Zenon
  <2>10. \/ x.used = 0 /\ (x.next = "read" \/ x.close)
         \/ line.method = "GET" /\ x.used = he /\ x.next # "read"
         \/ ~(Len(buf) - he < f.clen) /\ x.used = he + f.clen /\ x.next # "read"
    BY <2>9 DEF Reply, More
  <2>11. \/ x.used = 0 /\ (x.next = "read" \/ x.close)
         \/ x.used = n /\ n <= Len(buf) /\ x.next # "read"
    BY <2>2, <2>5, <2>6, <2>8, <2>10 DEF NoGetBody
  <2>12. ASSUME n <= Len(buf) PROVE SubSeq(buf, 1, n) = Units(q, a + 1)
    <3>1. n \in Nat /\ n \in 0..Len(buf) /\ \A j \in 1..n : j \in 1..Len(buf) /\ buf[j] = <<a + 1, j>>
      BY <2>2, <2>4, <2>5, <2>12, SMTT(40), ZenonT(20)
    <3>2. /\ Units(q, a + 1) \in Seq(Unit) /\ Len(Units(q, a + 1)) = n
          /\ \A k \in 1..n : Units(q, a + 1)[k] = <<a + 1, k>>
      BY <2>4, RequestUnits DEF n, r
    <3>3. /\ SubSeq(buf, 1, n) \in Seq(Unit) /\ Len(SubSeq(buf, 1, n)) = n
          /\ \A i \in 1..n : SubSeq(buf, 1, n)[i] = buf[i]
      BY <3>1, Cut
    <3> DEFINE y == SubSeq(buf, 1, n)
               z == Units(q, a + 1)
    <3> HIDE DEF y, z
    <3>4. y = z
      BY <3>1, <3>2, <3>3, Same, Zenon DEF y, z
    <3> QED BY <3>4 DEF y, z
  <2>13. CASE x.used = n /\ n <= Len(buf) /\ x.next # "read"
    BY <2>3, <2>12, <2>13 DEF n, r
  <2> QED BY <2>11, <2>13
<1> QED BY <1>2, <1>3

\* The loop leaves the task where its stream goes on.
LEMMA ParseOk ==
  ASSUME NoGetBody, NEW p \in {"up", "fin", "lost"}, NEW w \in Seq(Unit), NEW buf \in Seq(Unit),
         NEW q \in Seq(Request), NEW a \in Nat, NEW active, Goes(buf \o w, q, a, p # "lost"),
         NEW x \in Found(q, buf, active), NEW y, y.used = x.used, y.close = x.close
  PROVE  Ok(x.next, p, w, buf, y, q, a + (IF x.used > 0 THEN 1 ELSE 0),
            x.used = 0 \/ (a < Len(q) /\ SubSeq(buf, 1, x.used) = Units(q, a + 1)))
<1> DEFINE b  == a + (IF x.used > 0 THEN 1 ELSE 0)
           e  == x.used = 0 \/ (a < Len(q) /\ SubSeq(buf, 1, x.used) = Units(q, a + 1))
           nx == x.next
           u  == x.used
           full == p # "lost"
<1> SUFFICES Ok(nx, p, w, buf, y, q, b, e)
  OBVIOUS
<1>1. Runs(buf, q) /\ Front(buf, q, a)
  BY GoesHead
<1>2. \/ u = 0 /\ (nx = "read" \/ y.close)
      \/ /\ a < Len(q) /\ buf # <<>> /\ buf[1] = <<a + 1, 1>> /\ nx # "read"
         /\ u = Span(q[a + 1]) /\ u <= Len(buf)
         /\ SubSeq(buf, 1, u) = Units(q, a + 1)
  <2>1. \/ x.used = 0 /\ (x.next = "read" \/ x.close)
        \/ /\ a < Len(q) /\ buf # <<>> /\ buf[1] = <<a + 1, 1>> /\ x.next # "read"
           /\ x.used = Span(q[a + 1]) /\ x.used <= Len(buf)
           /\ SubSeq(buf, 1, x.used) = Units(q, a + 1)
    BY <1>1, FoundUses, SMTT(40)
  <2> QED BY <2>1, Zenon
<1>3. y.used = u /\ Len(buf) \in Nat /\ Len(w) \in Nat /\ Len(q) \in Nat /\ full \in BOOLEAN
  OBVIOUS
<1> HIDE DEF nx
<1>4. CASE u = 0 /\ (nx = "read" \/ y.close)
  <2>1. b = a /\ e = TRUE /\ y.used \in 0..Len(buf)
    BY <1>3, <1>4
  <2> HIDE DEF b, e
  <2>2. ASSUME nx = "read" \/ (nx = "reply" /\ ~y.close)
        PROVE  Goes(Left(nx, buf, y) \o w, q, a, p # "lost")
    <3>1. Left(nx, buf, y) = buf
      BY <1>4, <2>2 DEF Left
    <3> QED BY <3>1
  <2> QED BY <2>1, <2>2 DEF Ok
<1>5. CASE /\ a < Len(q) /\ buf # <<>> /\ buf[1] = <<a + 1, 1>> /\ nx # "read"
           /\ u = Span(q[a + 1]) /\ u <= Len(buf)
           /\ SubSeq(buf, 1, u) = Units(q, a + 1)
  <2>1. a + 1 \in 1..Len(q)
    BY <1>3, <1>5
  <2>2. u \in Nat /\ u >= 3 /\ u \in 0..Len(buf)
    BY <1>3, <1>5, <2>1, RequestUnits
  <2>3. b = a + 1 /\ b \in Nat /\ e = TRUE /\ y.used \in 0..Len(buf)
    BY <1>3, <1>5, <2>2
  <2> HIDE DEF b, e, u
  <2> DEFINE s == buf \o w
             c == SubSeq(buf, u + 1, Len(buf))
             z == c \o w
  <2>4. /\ s \in Seq(Unit) /\ Len(s) = Len(buf) + Len(w) /\ \A i \in 1..Len(buf) : s[i] = buf[i]
        /\ \A i \in 1..Len(buf) + Len(w) : i > Len(buf) => s[i] = w[i - Len(buf)]
        /\ Goes(s, q, a, full)
    BY Joined
  <2>5. /\ c \in Seq(Unit) /\ Len(c) = Len(buf) - u /\ \A i \in 1..Len(buf) - u : c[i] = buf[i + u]
    BY <2>2, Cut
  <2> HIDE DEF c, full
  <2>6. /\ z \in Seq(Unit) /\ Len(z) = Len(c) + Len(w) /\ \A i \in 1..Len(c) : z[i] = c[i]
        /\ \A i \in 1..Len(c) + Len(w) : i > Len(c) => z[i] = w[i - Len(c)]
    BY <2>5, Joined, Zenon
  <2> HIDE DEF s, z
  <2>7. Len(z) = Len(s) - u /\ u <= Len(s)
    BY <1>3, <2>2, <2>4, <2>5, <2>6
  <2>8. ASSUME NEW j \in 1..Len(z) PROVE z[j] = s[j + u]
    <3>1. CASE j <= Len(c)
      <4>1. j \in 1..Len(c) /\ j \in 1..Len(buf) - u /\ j + u \in 1..Len(buf)
        BY <1>3, <2>2, <2>5, <2>6, <3>1
      <4> QED BY <2>4, <2>5, <2>6, <4>1, Zenon
    <3>2. CASE j > Len(c)
      <4>1. /\ j \in 1..Len(c) + Len(w) /\ j + u \in 1..Len(buf) + Len(w) /\ j + u > Len(buf)
            /\ (j + u) - Len(buf) = j - Len(c)
        BY <1>3, <2>2, <2>5, <2>6, <3>2
      <4>2. s[j + u] = w[(j + u) - Len(buf)] /\ z[j] = w[j - Len(c)]
        BY <2>4, <2>6, <3>2, <4>1, SMTT(40), ZenonT(20)
      <4> QED BY <4>1, <4>2
    <3> QED BY <1>3, <2>2, <2>5, <2>6, <3>1, <3>2
  <2>9. s # <<>> /\ s[1] = <<a + 1, 1>>
    <3>1. 1 \in 1..Len(buf) /\ Len(s) # 0
      BY <1>3, <1>5, <2>4
    <3>2. s # <<>>
      BY <3>1
    <3>3. s[1] = buf[1]
      BY <2>4, <3>1, Zenon
    <3> QED BY <1>5, <3>2, <3>3, Zenon
  <2>10. Goes(z, q, a + 1, full)
    <3>1. /\ Len(z) = Len(s) - Span(q[a + 1]) /\ Span(q[a + 1]) <= Len(s)
          /\ \A j \in 1..Len(z) : z[j] = s[j + Span(q[a + 1])]
      BY <1>5, <2>7, <2>8, Zenon
    <3>2. s \in Seq(Unit) /\ z \in Seq(Unit) /\ full \in BOOLEAN /\ Goes(s, q, a, full)
      BY <1>3, <2>4, <2>6, Zenon
    <3> HIDE DEF Goes
    <3> QED BY <2>9, <3>1, <3>2, GoesNext, SMTT(40), ZenonT(20)
  <2>11. ASSUME nx = "read" \/ (nx = "reply" /\ ~y.close)
         PROVE  Goes(Left(nx, buf, y) \o w, q, b, p # "lost")
    <3>1. Left(nx, buf, y) = c
      BY <1>3, <1>5, <2>11, Zenon DEF Left, c
    <3> QED BY <2>3, <2>10, <3>1 DEF z, full
  <2> QED BY <2>3, <2>11 DEF Ok
<1> QED BY <1>2, <1>4, <1>5

-----------------------------------------------------------------------------
(* Every step keeps OrderInv.                                              *)

\* g is f but for task t, where it is v.
Upd(g, f, t, v) == DOMAIN g = Task /\ g[t] = v /\ \A u \in Task \ {t} : g[u] = f[u]

\* An assignment to one task's variable, and none.
LEMMA Updated ==
  ASSUME NEW f, DOMAIN f = Task, NEW t \in Task, NEW v
  PROVE  Upd(Set(f, t, v), f, t, v) /\ Upd(f, f, t, f[t])
BY DEF Upd, Set

\* A step of task t touches nobody else's connection.
LEMMA OneTask ==
  ASSUME OrderInv, NEW t \in Task, NEW s, NEW p, NEW w, NEW r, NEW x, NEW q, NEW a, NEW e, NEW o,
         Upd(st', st, t, s), Upd(peer', peer, t, p), Upd(wire', wire, t, w),
         Upd(rbuf', rbuf, t, r), Upd(resp', resp, t, x), Upd(sent', sent, t, q),
         Upd(answered', answered, t, a), Upd(exact', exact, t, e), Upd(overrun', overrun, t, o),
         o \/ Ok(s, p, w, r, x, q, a, e)
  PROVE  OrderInv'
<1>1. /\ DOMAIN st' = Task /\ DOMAIN peer' = Task /\ DOMAIN wire' = Task /\ DOMAIN rbuf' = Task
      /\ DOMAIN resp' = Task /\ DOMAIN sent' = Task /\ DOMAIN answered' = Task
      /\ DOMAIN exact' = Task /\ DOMAIN overrun' = Task
  BY Zenon DEF Upd
<1>2. overrun'[t] \/ OkOf(t)'
  BY Zenon DEF Upd, OkOf
<1>3. ASSUME NEW u \in Task \ {t} PROVE overrun'[u] \/ OkOf(u)'
  <2>1. /\ st'[u] = st[u] /\ peer'[u] = peer[u] /\ wire'[u] = wire[u] /\ rbuf'[u] = rbuf[u]
        /\ resp'[u] = resp[u] /\ sent'[u] = sent[u] /\ answered'[u] = answered[u]
        /\ exact'[u] = exact[u] /\ overrun'[u] = overrun[u]
    BY Zenon DEF Upd
  <2>2. overrun[u] \/ OkOf(u)
    BY DEF OrderInv
  <2> QED BY <2>1, <2>2, Zenon DEF OkOf
<1>4. \A u \in Task : overrun'[u] \/ OkOf(u)'
  BY <1>2, <1>3, Zenon
<1> QED BY <1>1, <1>4, Zenon DEF OrderInv

\* A connection before any byte.
LEMMA FreshOk ==
  ASSUME OrderInv, NEW t \in Task, NEW p \in {"up", "lost"}, NEW s, Upd(st', st, t, s), Fresh(t, p)
  PROVE  OrderInv'
<1>1. /\ Upd(peer', peer, t, p) /\ Upd(wire', wire, t, <<>>) /\ Upd(rbuf', rbuf, t, <<>>)
      /\ Upd(resp', resp, t, NoResp) /\ Upd(sent', sent, t, <<>>) /\ Upd(answered', answered, t, 0)
      /\ Upd(exact', exact, t, TRUE) /\ Upd(overrun', overrun, t, FALSE)
  <2>1. /\ peer' = Set(peer, t, p) /\ wire' = Set(wire, t, <<>>) /\ rbuf' = Set(rbuf, t, <<>>)
        /\ resp' = Set(resp, t, NoResp) /\ sent' = Set(sent, t, <<>>)
        /\ answered' = Set(answered, t, 0) /\ exact' = Set(exact, t, TRUE)
        /\ overrun' = Set(overrun, t, FALSE)
    BY Zenon DEF Fresh
  <2>2. /\ DOMAIN peer = Task /\ DOMAIN wire = Task /\ DOMAIN rbuf = Task
        /\ DOMAIN resp = Task /\ DOMAIN sent = Task /\ DOMAIN answered = Task
        /\ DOMAIN exact = Task /\ DOMAIN overrun = Task
    BY DEF OrderInv
  <2> QED BY <2>1, <2>2, Updated, Zenon
<1>2. Left(s, <<>>, NoResp) = <<>> /\ NoResp.used = 0 /\ <<>> \o <<>> = <<>> /\ Len(<<>>) = 0
  BY DEF Left, NoResp
<1>3. Goes(<<>>, <<>>, 0, p # "lost")
  BY DEF Goes, Runs, Tagged, Together, Follows, FramesLast, Front, Back
<1>4. Ok(s, p, <<>>, <<>>, NoResp, <<>>, 0, TRUE)
  <2>1. <<>> \in Seq(Unit) /\ <<>> \in Seq(Request) /\ 0 \in Nat /\ NoResp.used \in 0..Len(<<>>)
    BY <1>2
  <2> QED BY <1>2, <1>3, <2>1 DEF Ok
<1> QED BY <1>1, <1>4, OneTask, Zenon

LEMMA OrderInit == Init => OrderInv
<1> SUFFICES ASSUME Init PROVE OrderInv
  OBVIOUS
<1>1. /\ DOMAIN st = Task /\ DOMAIN peer = Task /\ DOMAIN wire = Task /\ DOMAIN rbuf = Task
      /\ DOMAIN resp = Task /\ DOMAIN sent = Task /\ DOMAIN answered = Task
      /\ DOMAIN exact = Task /\ DOMAIN overrun = Task
  BY DEF Init
<1>2. ASSUME NEW t \in Task PROVE OkOf(t)
  <2>1. /\ st[t] = "listen" /\ peer[t] = "lost" /\ wire[t] = <<>> /\ rbuf[t] = <<>>
        /\ resp[t] = NoResp /\ sent[t] = <<>> /\ answered[t] = 0 /\ exact[t] = TRUE
    BY DEF Init
  <2>2. NoResp.used \in 0..Len(<<>>) /\ <<>> \in Seq(Unit) /\ <<>> \in Seq(Request) /\ 0 \in Nat
    BY DEF NoResp
  <2> QED BY <2>1, <2>2 DEF OkOf, Ok
<1> QED BY <1>1, <1>2 DEF OrderInv

\* Reading, or going on in the buffer.
LEMMA ParseStep ==
  ASSUME NoGetBody, OrderInv, NEW t \in Task, NEW buf, NEW w, NEW o, Parse(t, buf),
         UNCHANGED <<peer, sent>>, Upd(wire', wire, t, w), Upd(overrun', overrun, t, o),
         \/ o
         \/ /\ OkOf(t) /\ buf \in Seq(Unit) /\ w \in Seq(Unit)
            /\ Goes(buf \o w, sent[t], answered[t], peer[t] # "lost")
  PROVE  OrderInv'
<1> DEFINE q == sent[t]
           a == answered[t]
           y(x) == [used |-> x.used, close |-> x.close, status |-> x.status]
           b(x) == a + (IF x.used > 0 THEN 1 ELSE 0)
           e(x) == x.used = 0 \/ (a < Len(q) /\ SubSeq(buf, 1, x.used) = Units(q, a + 1))
<1>1. PICK x \in Found(q, buf, WS_ACTIVE) :
        /\ st' = Set(st, t, x.next) /\ resp' = Set(resp, t, y(x)) /\ rbuf' = Set(rbuf, t, buf)
        /\ answered' = Set(answered, t, b(x)) /\ exact' = Set(exact, t, exact[t] /\ e(x))
  BY Zenon DEF Parse
<1>2. y(x).used = x.used /\ y(x).close = x.close
  BY ZenonT(40)
<1> HIDE DEF y, b, e
<1>3. /\ DOMAIN st = Task /\ DOMAIN peer = Task /\ DOMAIN wire = Task /\ DOMAIN rbuf = Task
      /\ DOMAIN resp = Task /\ DOMAIN sent = Task /\ DOMAIN answered = Task
      /\ DOMAIN exact = Task /\ DOMAIN overrun = Task
  BY DEF OrderInv
<1>4. /\ Upd(st', st, t, x.next) /\ Upd(resp', resp, t, y(x)) /\ Upd(rbuf', rbuf, t, buf)
      /\ Upd(answered', answered, t, b(x)) /\ Upd(exact', exact, t, exact[t] /\ e(x))
  BY <1>1, <1>3, Updated, Zenon
<1>5. Upd(peer', peer, t, peer[t]) /\ Upd(sent', sent, t, q)
  BY <1>3, Updated, Zenon
<1>6. ASSUME OkOf(t), buf \in Seq(Unit), w \in Seq(Unit), Goes(buf \o w, q, a, peer[t] # "lost")
      PROVE  Ok(x.next, peer[t], w, buf, y(x), q, b(x), exact[t] /\ e(x))
  <2>1. /\ peer[t] \in {"up", "fin", "lost"} /\ q \in Seq(Request) /\ a \in Nat /\ exact[t] = TRUE
    BY <1>6, Zenon DEF OkOf, Ok
  <2> HIDE DEF q, a
  <2>2. Ok(x.next, peer[t], w, buf, y(x), q, b(x), e(x))
    BY <1>1, <1>2, <1>6, <2>1, ParseOk, Zenon DEF b, e
  <2>3. (exact[t] /\ e(x)) = e(x)
    BY <2>1, Zenon DEF e
  <2> QED BY <2>2, <2>3, Zenon
<1>7. o \/ Ok(x.next, peer[t], w, buf, y(x), q, b(x), exact[t] /\ e(x))
  BY <1>6, Zenon
<1> QED BY <1>4, <1>5, <1>7, OneTask, Zenon

\* A step in which a connection that is not read by serve stays as it is.
LEMMA QuietStep ==
  ASSUME OrderInv, NEW t \in Task, NEW s, NEW w, Upd(st', st, t, s), s \notin {"read", "reply"},
         UNCHANGED <<peer, rbuf, resp, sent, answered, exact, overrun>>,
         Upd(wire', wire, t, w), OkOf(t) => w \in Seq(Unit)
  PROVE  OrderInv'
<1>1. /\ DOMAIN peer = Task /\ DOMAIN rbuf = Task /\ DOMAIN resp = Task /\ DOMAIN sent = Task
      /\ DOMAIN answered = Task /\ DOMAIN exact = Task /\ DOMAIN overrun = Task
  BY DEF OrderInv
<1>2. /\ Upd(peer', peer, t, peer[t]) /\ Upd(rbuf', rbuf, t, rbuf[t]) /\ Upd(resp', resp, t, resp[t])
      /\ Upd(sent', sent, t, sent[t]) /\ Upd(answered', answered, t, answered[t])
      /\ Upd(exact', exact, t, exact[t]) /\ Upd(overrun', overrun, t, overrun[t])
  BY <1>1, Updated, Zenon
<1>3. overrun[t] \/ OkOf(t)
  BY DEF OrderInv
<1>4. overrun[t] \/ Ok(s, peer[t], w, rbuf[t], resp[t], sent[t], answered[t], exact[t])
  BY <1>3, Zenon DEF OkOf, Ok
<1> QED BY <1>2, <1>4, OneTask, ZenonT(40)

\* A read: unless it runs into the last byte of the buffer, what was on the wire is
\* in the buffer or still on the wire.
LEMMA ReadKeeps ==
  ASSUME NoGetBody, OrderInv, NEW t \in Task, NEW n \in 1..RX_BUF, Read(t, n)
  PROVE  OrderInv'
<1> DEFINE r == rbuf[t] \o SubSeq(wire[t], 1, n)
           buf == SubSeq(r, 1, IF Len(r) < RX_BUF THEN Len(r) ELSE RX_BUF - 1)
           w == SubSeq(wire[t], n + 1, Len(wire[t]))
           o == overrun[t] \/ Len(rbuf[t]) + n > RX_BUF - 1
<1>1. /\ st[t] = "read" /\ n <= Len(wire[t]) /\ Parse(t, buf) /\ UNCHANGED <<peer, sent>>
      /\ wire' = Set(wire, t, w) /\ overrun' = Set(overrun, t, o)
  BY Zenon DEF Read, Here
<1>2. DOMAIN wire = Task /\ DOMAIN overrun = Task /\ (overrun[t] \/ OkOf(t))
  BY DEF OrderInv
<1> HIDE DEF buf, w, o
<1>3. Upd(wire', wire, t, w) /\ Upd(overrun', overrun, t, o)
  BY <1>1, <1>2, Updated, Zenon
<1>4. ASSUME ~o
      PROVE  /\ OkOf(t) /\ buf \in Seq(Unit) /\ w \in Seq(Unit)
             /\ Goes(buf \o w, sent[t], answered[t], peer[t] # "lost")
  <2>1. OkOf(t) /\ ~(Len(rbuf[t]) + n > RX_BUF - 1)
    BY <1>2, <1>4 DEF o
  <2>2. /\ wire[t] \in Seq(Unit) /\ rbuf[t] \in Seq(Unit)
        /\ Goes(rbuf[t] \o wire[t], sent[t], answered[t], peer[t] # "lost")
    BY <1>1, <2>1 DEF OkOf, Ok, Left
  <2>3. n \in Nat /\ n \in 0..Len(wire[t]) /\ RX_BUF \in Nat /\ Len(rbuf[t]) \in Nat
    BY <1>1, <2>2, WebAssumption
  <2>4. /\ SubSeq(wire[t], 1, n) \in Seq(Unit) /\ Len(SubSeq(wire[t], 1, n)) = n
        /\ w \in Seq(Unit)
    BY <2>2, <2>3, Cut DEF w
  <2>5. r \in Seq(Unit) /\ Len(r) = Len(rbuf[t]) + n
    BY <2>2, <2>4, Joined
  <2> HIDE DEF r
  <2>6. Len(r) < RX_BUF /\ Len(r) \in 0..Len(r)
    BY <2>1, <2>3, <2>5
  <2>7. buf = SubSeq(r, 1, Len(r))
    BY <2>6 DEF buf
  <2>8. buf = r
    BY <2>5, <2>6, <2>7, Cut, Same, SMTT(40), ZenonT(20)
  <2>9. r \o w = rbuf[t] \o wire[t]
    BY <2>2, <2>3, CutJoined, ZenonT(40) DEF r, w
  <2> QED BY <2>1, <2>2, <2>4, <2>5, <2>8, <2>9
<1> QED BY <1>1, <1>3, <1>4, ParseStep, Zenon

\* A response is written.
LEMMA WrittenKeeps ==
  ASSUME NoGetBody, OrderInv, NEW t \in Task, Written(t)
  PROVE  OrderInv'
<1>1. st[t] = "reply" /\ DOMAIN st = Task /\ DOMAIN wire = Task /\ DOMAIN overrun = Task
  BY Zenon DEF Written, Here, OrderInv
<1>2. CASE Return(t)
  <2>1. Upd(st', st, t, "abort") /\ Fresh(t, "lost")
    BY <1>1, <1>2, Updated, Zenon DEF Return
  <2> QED BY <2>1, FreshOk
<1> DEFINE buf == SubSeq(rbuf[t], resp[t].used + 1, Len(rbuf[t]))
<1>3. CASE /\ ~resp[t].close /\ Parse(t, buf) /\ UNCHANGED <<peer, wire, sent, overrun>>
  <2>1. Upd(wire', wire, t, wire[t]) /\ Upd(overrun', overrun, t, overrun[t])
    BY <1>1, <1>3, Updated, Zenon
  <2>2. ASSUME ~overrun[t]
        PROVE  /\ OkOf(t) /\ buf \in Seq(Unit) /\ wire[t] \in Seq(Unit)
               /\ Goes(buf \o wire[t], sent[t], answered[t], peer[t] # "lost")
    <3>1. OkOf(t)
      BY <2>2 DEF OrderInv
    <3>2. /\ wire[t] \in Seq(Unit) /\ rbuf[t] \in Seq(Unit) /\ resp[t].used \in 0..Len(rbuf[t])
          /\ Goes(Left("reply", rbuf[t], resp[t]) \o wire[t], sent[t], answered[t], peer[t] # "lost")
      BY <1>1, <1>3, <3>1, Zenon DEF OkOf, Ok
    <3>3. Left("reply", rbuf[t], resp[t]) = buf
      BY SMTT(40), ZenonT(20) DEF Left
    <3>4. buf \in Seq(Unit)
      BY <3>2, Cut
    <3> QED BY <3>1, <3>2, <3>3, <3>4, Zenon
  <2> HIDE DEF buf
  <2> QED BY <1>3, <2>1, <2>2, ParseStep, Zenon
<1> QED BY <1>2, <1>3, Zenon DEF Written

\* What a client does: its connection is served by a task that reads it, or not.
LEMMA ClientKeeps ==
  ASSUME OrderInv, NEW t \in Task, Client(t)
  PROVE  OrderInv'
<1>1. /\ UNCHANGED <<st, rbuf, resp, answered, exact, overrun>> /\ peer[t] = "up"
  BY Zenon DEF Client, SendRequest, SendFrame, Leave, Connected
<1>2. /\ DOMAIN st = Task /\ DOMAIN peer = Task /\ DOMAIN wire = Task /\ DOMAIN rbuf = Task
      /\ DOMAIN resp = Task /\ DOMAIN sent = Task /\ DOMAIN answered = Task
      /\ DOMAIN exact = Task /\ DOMAIN overrun = Task
  BY DEF OrderInv
<1>3. /\ Upd(st', st, t, st[t]) /\ Upd(rbuf', rbuf, t, rbuf[t]) /\ Upd(resp', resp, t, resp[t])
      /\ Upd(answered', answered, t, answered[t]) /\ Upd(exact', exact, t, exact[t])
      /\ Upd(overrun', overrun, t, overrun[t])
  BY <1>1, <1>2, Updated, ZenonT(40)
<1> DEFINE s == Left(st[t], rbuf[t], resp[t])
           Reads == st[t] = "read" \/ (st[t] = "reply" /\ ~resp[t].close)
           q == sent[t]
           w == wire[t]
<1>4. overrun[t] \/ OkOf(t)
  BY DEF OrderInv
<1>5. ASSUME OkOf(t)
      PROVE  /\ peer[t] \in {"up", "fin", "lost"} /\ w \in Seq(Unit) /\ rbuf[t] \in Seq(Unit)
             /\ q \in Seq(Request) /\ answered[t] \in Nat /\ resp[t].used \in 0..Len(rbuf[t])
             /\ exact[t] = TRUE /\ s \in Seq(Unit)
             /\ Reads => Goes(s \o w, q, answered[t], TRUE)
  <2>1. /\ peer[t] \in {"up", "fin", "lost"} /\ w \in Seq(Unit) /\ rbuf[t] \in Seq(Unit)
        /\ q \in Seq(Request) /\ answered[t] \in Nat /\ resp[t].used \in 0..Len(rbuf[t])
        /\ exact[t] = TRUE
        /\ Reads => Goes(s \o w, q, answered[t], peer[t] # "lost")
    BY <1>5, Zenon DEF OkOf, Ok
  <2>2. (peer[t] # "lost") = TRUE
    BY <1>1, SMTT(40), ZenonT(20)
  <2>3. SubSeq(rbuf[t], resp[t].used + 1, Len(rbuf[t])) \in Seq(Unit)
    BY <2>1, Cut
  <2>4. s \in Seq(Unit)
    BY <2>1, <2>3, Zenon DEF Left
  <2> HIDE DEF s, Reads, q, w
  <2> QED BY <2>1, <2>2, <2>4, Zenon
\* What is left to show of the new peer, wire and sent.
<1>6. ASSUME NEW p \in {"up", "fin", "lost"}, NEW v, NEW z, OkOf(t) => v \in Seq(Unit) /\ z \in Seq(Request),
             Upd(peer', peer, t, p), Upd(wire', wire, t, v), Upd(sent', sent, t, z),
             OkOf(t) /\ Reads => Goes(s \o v, z, answered[t], p # "lost")
      PROVE  OrderInv'
  <2>1. OkOf(t) => Ok(st[t], p, v, rbuf[t], resp[t], z, answered[t], exact[t])
    BY <1>5, <1>6, Zenon DEF Ok
  <2>2. overrun[t] \/ Ok(st[t], p, v, rbuf[t], resp[t], z, answered[t], exact[t])
    BY <1>4, <2>1, Zenon
  <2> QED BY <1>3, <1>6, <2>2, OneTask, Zenon
<1> HIDE DEF s, Reads
<1>7. ASSUME NEW r \in Request, SendRequest(t, r) PROVE OrderInv'
  <2> DEFINE d == Units(Append(q, r), Len(q) + 1)
  <2>1. /\ ~Upgrading(t) /\ sent' = Set(sent, t, Append(q, r)) /\ wire' = Set(wire, t, w \o d)
        /\ peer' = peer
    BY <1>7, Zenon DEF SendRequest
  <2>2. /\ Upd(peer', peer, t, peer[t]) /\ Upd(wire', wire, t, w \o d)
        /\ Upd(sent', sent, t, Append(q, r))
    BY <1>2, <2>1, Updated, Zenon
  <2>3. ~Upgraded(q)
    BY <2>1, Zenon DEF Upgrading, Upgraded
  <2>4. ASSUME OkOf(t)
        PROVE  /\ w \o d \in Seq(Unit) /\ Append(q, r) \in Seq(Request)
               /\ Reads => Goes(s \o (w \o d), Append(q, r), answered[t], TRUE)
    <3>1. q \in Seq(Request) /\ w \in Seq(Unit) /\ s \in Seq(Unit) /\ answered[t] \in Nat
      BY <1>5, <2>4, Zenon
    <3> HIDE DEF q, w
    <3>2. Append(q, r) \in Seq(Request) /\ Len(q) + 1 \in 1..Len(Append(q, r))
      BY <3>1
    <3>3. d \in Seq(Unit)
      BY <3>2, RequestUnits, Zenon
    <3>4. Reads => Goes((s \o w) \o d, Append(q, r), answered[t], TRUE)
      <4>1. s \o w \in Seq(Unit)
        BY <3>1, Joined, Zenon
      <4>2. Reads => Goes(s \o w, q, answered[t], TRUE)
        BY <1>5, <2>4, Zenon DEF q, w
      <4> QED BY <2>3, <3>1, <4>1, <4>2, GoesRequest, Zenon
    <3> HIDE DEF d
    <3>5. (s \o w) \o d = s \o (w \o d)
      BY <3>1, <3>3, Regrouped, Zenon
    <3>6. w \o d \in Seq(Unit)
      BY <3>1, <3>3, Joined, Zenon
    <3> QED BY <3>2, <3>4, <3>5, <3>6, Zenon
  <2>5. (peer[t] # "lost") = TRUE /\ peer[t] \in {"up", "fin", "lost"}
    BY <1>1
  <2> HIDE DEF q, w, d
  <2> QED BY <1>6, <2>2, <2>4, <2>5, Zenon
<1>8. ASSUME NEW f \in Frame, SendFrame(t, f) PROVE OrderInv'
  <2> DEFINE d == [i \in DOMAIN Encode(f) |-> <<0, Encode(f)[i]>>]
  <2>1. Upgrading(t) /\ sent' = sent /\ wire' = Set(wire, t, w \o d) /\ peer' = peer
    BY <1>8, Zenon DEF SendFrame
  <2>2. d \in Seq(Unit) /\ \A i \in 1..Len(d) : d[i][1] = 0
    BY FrameUnits
  <2> HIDE DEF d
  <2>3. /\ Upd(peer', peer, t, peer[t]) /\ Upd(wire', wire, t, w \o d) /\ Upd(sent', sent, t, q)
    BY <1>2, <2>1, Updated, Zenon
  <2>4. Upgraded(q)
    BY <2>1, Zenon DEF Upgrading, Upgraded
  <2>5. ASSUME OkOf(t)
        PROVE  /\ w \o d \in Seq(Unit) /\ q \in Seq(Request)
               /\ Reads => Goes(s \o (w \o d), q, answered[t], TRUE)
    <3>1. q \in Seq(Request) /\ w \in Seq(Unit) /\ s \in Seq(Unit) /\ answered[t] \in Nat
      BY <1>5, <2>5, Zenon
    <3>2. s \o w \in Seq(Unit) /\ w \o d \in Seq(Unit)
      BY <2>2, <3>1, Joined, Zenon
    <3>3. Reads => Goes(s \o w, q, answered[t], TRUE)
      BY <1>5, <2>5, Zenon
    <3> HIDE DEF q, w
    <3>4. Reads => Goes((s \o w) \o d, q, answered[t], TRUE)
      BY <2>2, <2>4, <3>1, <3>2, <3>3, GoesFrame, ZenonT(40)
    <3>5. (s \o w) \o d = s \o (w \o d)
      BY <2>2, <3>1, Regrouped, Zenon
    <3> QED BY <3>1, <3>2, <3>4, <3>5, Zenon
  <2>6. (peer[t] # "lost") = TRUE /\ peer[t] \in {"up", "fin", "lost"}
    BY <1>1
  <2> HIDE DEF q, w
  <2> QED BY <1>6, <2>3, <2>5, <2>6, Zenon
<1>9. ASSUME Leave(t) PROVE OrderInv'
  <2>1. sent' = sent /\ Upd(sent', sent, t, q)
    BY <1>2, <1>9, Updated, Zenon DEF Leave
  <2>2. CASE peer' = Set(peer, t, "fin") /\ UNCHANGED wire
    <3>1. Upd(peer', peer, t, "fin") /\ Upd(wire', wire, t, w)
      BY <1>2, <2>2, Updated, Zenon
    <3>2. ("fin" # "lost") = TRUE /\ "fin" \in {"up", "fin", "lost"}
      OBVIOUS
    <3> QED BY <1>5, <1>6, <2>1, <3>1, <3>2, Zenon
  <2>3. CASE peer' = Set(peer, t, "lost") /\ wire' = Set(wire, t, <<>>)
    <3>1. Upd(peer', peer, t, "lost") /\ Upd(wire', wire, t, <<>>)
      BY <1>2, <2>3, Updated, Zenon
    <3>2. ("lost" # "lost") = FALSE /\ "lost" \in {"up", "fin", "lost"} /\ <<>> \in Seq(Unit)
      OBVIOUS
    <3>3. OkOf(t) /\ Reads => Goes(s \o <<>>, q, answered[t], FALSE)
      BY <1>5, GoesLost, Zenon
    <3> QED BY <1>5, <1>6, <2>1, <3>1, <3>2, <3>3, ZenonT(40)
  <2> QED BY <1>9, <2>2, <2>3, Zenon DEF Leave
<1> QED BY <1>7, <1>8, <1>9, Zenon DEF Client

\* OrderInv is inductive.
LEMMA OrderStep ==
  ASSUME NoGetBody, OrderInv, [Next]_vars
  PROVE  OrderInv'
<1>0. /\ DOMAIN st = Task /\ DOMAIN wire = Task
      /\ \A t \in Task : overrun[t] \/ OkOf(t)
  BY DEF OrderInv
<1>1. CASE UNCHANGED vars
  <2>1. UNCHANGED <<st, peer, wire, rbuf, resp, sent, answered, exact, overrun>>
    BY <1>1, Zenon DEF vars, taskVars
  <2> QED BY <2>1, Zenon DEF OrderInv, OkOf
<1>2. CASE Next
  <2>1. PICK t \in Task : Accept(t) \/ Works(t) \/ Ends(t) \/ Client(t)
    BY <1>2, Zenon DEF Next
  <2>2. ASSUME Return(t) PROVE OrderInv'
    <3>1. Upd(st', st, t, "abort") /\ Fresh(t, "lost")
      BY <1>0, <2>2, Updated, Zenon DEF Return
    <3> QED BY <3>1, FreshOk
  <2>3. ASSUME Accept(t) PROVE OrderInv'
    <3>1. Upd(st', st, t, "read") /\ Fresh(t, "up")
      BY <1>0, <2>3, Updated, Zenon DEF Accept
    <3> QED BY <3>1, FreshOk
  <2>4. ASSUME NEW n \in 1..RX_BUF, Read(t, n) PROVE OrderInv'
    BY <2>4, ReadKeeps
  <2>5. ASSUME Written(t) PROVE OrderInv'
    BY <2>5, WrittenKeeps
  <2>6. ASSUME NEW s \in {"wsout", "ws", "listen"}, st' = Set(st, t, s),
               UNCHANGED <<peer, wire, rbuf, resp, sent, answered, exact, overrun>>
        PROVE  OrderInv'
    <3>1. Upd(st', st, t, s) /\ Upd(wire', wire, t, wire[t]) /\ s \notin {"read", "reply"}
      BY <1>0, <2>6, Updated
    <3>2. OkOf(t) => wire[t] \in Seq(Unit)
      BY Zenon DEF OkOf, Ok
    <3> QED BY <2>6, <3>1, <3>2, QuietStep, ZenonT(40)
  <2>7. ASSUME Switched(t) PROVE OrderInv'
    <3>1. /\ st' = Set(st, t, "wsout")
          /\ UNCHANGED <<peer, wire, rbuf, resp, sent, answered, exact, overrun>>
      BY <2>7, Zenon DEF Switched, Session
    <3> QED BY <2>6, <3>1, Zenon
  <2>8. ASSUME NEW n \in 1..WS_RBUF, WsRead(t, n) PROVE OrderInv'
    <3> DEFINE w == SubSeq(wire[t], n + 1, Len(wire[t]))
    <3>1. /\ st' = Set(st, t, "wsout") /\ wire' = Set(wire, t, w) /\ n <= Len(wire[t])
          /\ UNCHANGED <<peer, rbuf, resp, sent, answered, exact, overrun>>
      BY <2>8, Zenon DEF WsRead, Session
    <3>2. ASSUME OkOf(t) PROVE w \in Seq(Unit)
      <4>1. wire[t] \in Seq(Unit)
        BY <3>2, Zenon DEF OkOf, Ok
      <4>2. n \in 0..Len(wire[t])
        BY <3>1, <4>1, WebAssumption, SMTT(40), ZenonT(20)
      <4> QED BY <4>1, <4>2, Cut
    <3> HIDE DEF w
    <3>3. Upd(st', st, t, "wsout") /\ Upd(wire', wire, t, w) /\ "wsout" \notin {"read", "reply"}
      BY <1>0, <3>1, Updated
    <3> QED BY <3>1, <3>2, <3>3, QuietStep, ZenonT(40)
  <2>9. ASSUME Ends(t) PROVE OrderInv'
    <3>1. CASE ReadEnds(t)
      BY <2>2, <3>1, Zenon DEF ReadEnds
    <3>2. CASE Refused(t)
      BY <2>2, <3>2, Zenon DEF Refused
    <3>3. CASE WsWritten(t)
      BY <2>2, <2>6, <3>3, Zenon DEF WsWritten, EndSession
    <3>4. CASE WsEnds(t)
      BY <2>2, <3>4, Zenon DEF WsEnds, EndSession
    <3>5. CASE Relisten(t)
      BY <2>6, <3>5, Zenon DEF Relisten
    <3> QED BY <2>9, <3>1, <3>2, <3>3, <3>4, <3>5, ZenonT(40) DEF Ends
  <2>10. ASSUME Client(t) PROVE OrderInv'
    BY <2>10, ClientKeeps
  <2> QED BY <2>1, <2>3, <2>4, <2>5, <2>7, <2>8, <2>9, <2>10, ZenonT(40) DEF Works
<1> QED BY <1>1, <1>2, Zenon

\* However the stream is cut into reads, and for every number of tasks and all sizes
\* of buffers, requests are served whole, in order, each with its own body, and a
\* task that waits with nothing buffered has served all of them, unless a read ran
\* into the last byte of the buffer.  A GET with a body is out: serve leaves the body
\* in the buffer and takes it for the next request.
THEOREM ServesInOrder == NoGetBody => (Spec => []ServedInOrder)
<1> SUFFICES ASSUME NoGetBody PROVE Spec => []ServedInOrder
  OBVIOUS
<1>1. Init => OrderInv
  BY OrderInit
<1>2. OrderInv /\ [Next]_vars => OrderInv'
  BY OrderStep
<1>3. OrderInv => ServedInOrder
  <2> SUFFICES ASSUME OrderInv, NEW t \in Task, ~overrun[t]
               PROVE  /\ exact[t]
                      /\ st[t] = "read" /\ peer[t] # "lost" /\ wire[t] = <<>> /\ rbuf[t] = <<>>
                           => answered[t] = Len(sent[t])
    BY Zenon DEF ServedInOrder
  <2>1. OkOf(t)
    BY DEF OrderInv
  <2>2. exact[t]
    BY <2>1, Zenon DEF OkOf, Ok
  <2>3. ASSUME st[t] = "read", peer[t] # "lost", wire[t] = <<>>, rbuf[t] = <<>>
        PROVE  answered[t] = Len(sent[t])
    <3>1. Goes(Left("read", <<>>, resp[t]) \o <<>>, sent[t], answered[t], peer[t] # "lost")
      BY <2>1, <2>3, Zenon DEF OkOf, Ok
    <3>2. Left("read", <<>>, resp[t]) \o <<>> = <<>>
      BY DEF Left
    <3>3. Goes(<<>>, sent[t], answered[t], peer[t] # "lost")
      BY <3>1, <3>2, Zenon
    <3> QED BY <2>3, <3>3, Zenon DEF Goes, Back
  <2> QED BY <2>2, <2>3, Zenon
<1> QED BY <1>1, <1>2, <1>3, PTL DEF Spec
=============================================================================
