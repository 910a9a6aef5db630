-------------------------- MODULE FtpServerProofs --------------------------
(***************************************************************************)
(* The pool (BusyExact, RejectWindow) for every number of slots and all    *)
(* timer lengths, the one-shot state of the sessions (DataOnce, OneShot)   *)
(* for all command lines, and what uploads store (UploadExact) for all     *)
(* contents and all ways to cut them into reads.                           *)
(***************************************************************************)
EXTENDS FtpServer, FiniteSetTheorems, SequenceTheorems, WellFoundedInduction, TLAPS

(* The pool.  RejectWindow needs that the ticks since the pool was full and *)
(* the ticks the rejector still listens never exceed WINDOW together, and   *)
(* that FTP_BUSY >= N is seen as full at once.                              *)
PoolInv ==
  /\ pool \in [Slot -> {"listen", "serve", "pause"}]
  /\ BusyExact
  /\ sinceFull \in Nat /\ rejLeft \in Nat
  /\ FTP_BUSY >= N => sinceFull = 0
  /\ rej = "armed" => sinceFull + rejLeft <= WINDOW

LEMMA CountType == IsFiniteSet(Serving) /\ Cardinality(Serving) \in Nat /\ N \in Nat
<1>1. IsFiniteSet(Slot)
  BY PoolAssumption
<1>2. Serving \subseteq Slot
  BY DEF Serving
<1> QED BY <1>1, <1>2, FS_Subset, FS_CardinalityType DEF N

LEMMA PoolStarts == PoolInit => PoolInv
<1> SUFFICES ASSUME PoolInit PROVE PoolInv
  OBVIOUS
<1>1. Serving = {}
  BY DEF PoolInit, Serving
<1>2. Cardinality(Serving) = 0
  BY <1>1, FS_EmptySet
<1>3. N \in Nat /\ N # 0
  BY PoolAssumption, FS_CardinalityType, FS_EmptySet DEF N
<1>4. BusyExact
  BY <1>2 DEF PoolInit, BusyExact
<1> QED BY <1>3, <1>4, PoolAssumption DEF PoolInit, PoolInv

\* accept counts one slot more, and one more serves.
LEMMA TakeKeeps == ASSUME PoolInv, NEW s \in Slot, Take(s) PROVE PoolInv'
<1>1. Serving' = Serving \cup {s} /\ s \notin Serving
  BY DEF Take, Serving, PoolInv
<1>2. Cardinality(Serving') = Cardinality(Serving) + 1
  BY <1>1, CountType, FS_AddElement
<1>3. BusyExact'
  BY <1>2 DEF Take, PoolInv, BusyExact
<1>4. pool' \in [Slot -> {"listen", "serve", "pause"}]
  BY DEF Take, PoolInv
<1> QED BY <1>3, <1>4, CountType, PoolAssumption DEF Take, PoolInv, Since, BusyExact

\* The end of a session counts one slot less, and one less serves.
LEMMA LeaveKeeps == ASSUME PoolInv, NEW s \in Slot, Leave(s) PROVE PoolInv'
<1>1. Serving' = Serving \ {s} /\ s \in Serving
  BY DEF Leave, Serving, PoolInv
<1>2. Cardinality(Serving') = Cardinality(Serving) - 1
  BY <1>1, CountType, FS_RemoveElement
<1>3. BusyExact'
  BY <1>2 DEF Leave, PoolInv, BusyExact
<1>4. pool' \in [Slot -> {"listen", "serve", "pause"}]
  BY DEF Leave, PoolInv
<1> QED BY <1>3, <1>4, CountType DEF Leave, PoolInv, BusyExact

LEMMA RelistenKeeps == ASSUME PoolInv, NEW s \in Slot, Relisten(s) PROVE PoolInv'
<1>1. Serving' = Serving
  BY DEF Relisten, Serving, PoolInv
<1>2. BusyExact'
  BY <1>1 DEF Relisten, PoolInv, BusyExact
<1>3. pool' \in [Slot -> {"listen", "serve", "pause"}]
  BY DEF Relisten, PoolInv
<1> QED BY <1>2, <1>3 DEF Relisten, PoolInv

\* The steps that leave the slots and their count alone.
LEMMA RejectorKeeps ==
  ASSUME PoolInv, TurnAway \/ Look \/ Disarm \/ HoldEnds \/ Tick
  PROVE  PoolInv'
<1>1. pool' = pool /\ FTP_BUSY' = FTP_BUSY
  BY DEF TurnAway, Look, Disarm, HoldEnds, Tick
<1>2. BusyExact' /\ pool' \in [Slot -> {"listen", "serve", "pause"}]
  BY <1>1 DEF PoolInv, BusyExact, Serving
<1>3. FTP_BUSY \in Nat /\ N \in Nat
  BY CountType DEF PoolInv, BusyExact
<1>4. CASE TurnAway
  BY <1>1, <1>2, <1>4, PoolAssumption DEF TurnAway, PoolInv
<1>5. CASE Look
  BY <1>1, <1>2, <1>3, <1>5, PoolAssumption DEF Look, PoolInv
<1>6. CASE Disarm
  BY <1>1, <1>2, <1>6 DEF Disarm, PoolInv
<1>7. CASE HoldEnds
  BY <1>1, <1>2, <1>7 DEF HoldEnds, PoolInv
<1>8. CASE Tick
  BY <1>1, <1>2, <1>3, <1>8, PoolAssumption DEF Tick, PoolInv, Since
<1> QED BY <1>4, <1>5, <1>6, <1>7, <1>8

LEMMA PoolUnchanged == PoolInv /\ UNCHANGED poolVars => PoolInv'
BY DEF PoolInv, poolVars, BusyExact, Serving

\* Every step of the server and of its clients keeps the pool's invariant.
LEMMA PoolNext == PoolInv /\ [Next]_vars => PoolInv'
<1> SUFFICES ASSUME PoolInv, [Next]_vars PROVE PoolInv'
  OBVIOUS
<1>1. CASE UNCHANGED vars
  BY <1>1, PoolUnchanged DEF vars
<1>2. CASE TurnAway
  BY <1>2, RejectorKeeps
<1>3. CASE Timers
  BY <1>3, RejectorKeeps, RelistenKeeps DEF Timers
<1>4. ASSUME NEW s \in Slot, Session(s) PROVE PoolInv'
  <2>1. CASE SessionEnds(s)
    BY <2>1, LeaveKeeps DEF SessionEnds
  <2>2. CASE ~SessionEnds(s)
    <3>1. UNCHANGED poolVars
      BY <1>4, <2>2, Zenon DEF Session, Handle, Answer, OpenData, Sent, Chunk, StreamEnds, CloseFile
    <3> QED BY <3>1, PoolUnchanged, SMTT(40), ZenonT(20)
  <2> QED BY <2>1, <2>2
<1>5. ASSUME NEW s \in Slot, Client(s) PROVE PoolInv'
  <2>1. CASE Connect(s)
    BY <2>1, TakeKeeps DEF Connect
  <2>2. CASE ~Connect(s)
    <3>1. UNCHANGED poolVars
      BY <1>5, <2>2 DEF Client, SendLine, DataConnect, DataEnds, ClientGoes
    <3> QED BY <3>1, PoolUnchanged
  <2> QED BY <2>1, <2>2
<1> QED BY <1>1, <1>2, <1>3, <1>4, <1>5 DEF Next

\* FTP_BUSY is the number of slots that serve, whatever ends the sessions.
THEOREM BusyCounts == Spec => []BusyExact
<1>1. Init => PoolInv
  BY PoolStarts DEF Init
<1>2. PoolInv => BusyExact
  BY DEF PoolInv
<1> QED BY <1>1, <1>2, PoolNext, PTL DEF Spec

\* The rejector listens only within WINDOW ticks of a full pool.
THEOREM RejectsInWindow == Spec => []RejectWindow
<1>1. Init => PoolInv
  BY PoolStarts DEF Init
<1>2. PoolInv => RejectWindow
  BY PoolAssumption DEF PoolInv, RejectWindow
<1> QED BY <1>1, <1>2, PoolNext, PTL DEF Spec

-----------------------------------------------------------------------------
(* The sessions.                                                           *)

SessT ==
  [authed : BOOLEAN, anon : BOOLEAN, ascii : BOOLEAN, rest : Nat, pending : BOOLEAN,
   port : {"none", "set"}, passive : BOOLEAN, quit : BOOLEAN]
DataT == [state : {"closed", "listen", "open"}, latest : BOOLEAN, uses : Nat]
OfferT == [rest : BOOLEAN, from : BOOLEAN, port : BOOLEAN]

SessType ==
  /\ lines \in [Slot -> Seq(Line)]
  /\ sess \in [Slot -> SessT] /\ data \in [Slot -> DataT] /\ offered \in [Slot -> OfferT]
  /\ ph \in [Slot -> {"read", "rpc", "open", "xfer", "close"}]
  /\ cur \in [Slot -> Line \cup {NoCmd}]

(* What is armed or pending in a session is what the client offered last,   *)
(* for a session x, data socket d, offers o, phase p and command c.         *)
OfferInv(x, d, o, p, c) ==
  /\ x.port = "set" => o.port
  /\ x.port = "none" /\ d.state # "closed" => d.latest
  /\ p \notin {"xfer", "close"} /\ d.state # "closed" => d.uses = 0
  /\ p = "xfer" => d.latest /\ d.uses = 1
  /\ x.rest > 0 => o.rest
  /\ x.pending => o.from
  /\ p = "rpc" /\ c.name = "RNTO" => x.pending

SessInv == SessType /\ \A s \in Slot : OfferInv(sess[s], data[s], offered[s], ph[s], cur[s])

\* A restart position that is set back.
LEMMA SpendRest ==
  ASSUME NEW x \in SessT, NEW d \in DataT, NEW o \in OfferT, NEW p, NEW c, OfferInv(x, d, o, p, c)
  PROVE  LET y == [x EXCEPT !.rest = 0]
             q == [o EXCEPT !.rest = FALSE]
         IN  y \in SessT /\ q \in OfferT /\ OfferInv(y, d, q, p, c)
<1> DEFINE y == [x EXCEPT !.rest = 0]
           q == [o EXCEPT !.rest = FALSE]
<1>1. y \in SessT /\ q \in OfferT
  BY Zenon DEF SessT, OfferT
<1>2. /\ y.rest = 0 /\ y.port = x.port /\ y.pending = x.pending
      /\ q.port = o.port /\ q.from = o.from
  BY DEF SessT, OfferT
<1>3. OfferInv(y, d, q, p, c)
  <2> HIDE DEF y, q
  <2> QED BY <1>2 DEF OfferInv
<1> QED BY <1>1, <1>3

\* Commands answered without storage keep it.
LEMMA AfterKeeps ==
  ASSUME NEW x \in SessT, NEW d \in DataT, NEW o \in OfferT, NEW c \in Line, NEW k,
         OfferInv(x, d, o, "read", k)
  PROVE  /\ After(x, c) \in SessT /\ DataAfter(d, c) \in DataT /\ OfferedAfter(o, c) \in OfferT
         /\ OfferInv(After(x, c), DataAfter(d, c), OfferedAfter(o, c), "read", k)
<1>1. CASE c.name = "USER"
  BY <1>1, ZenonT(40) DEF OfferInv, After, DataAfter, OfferedAfter, SessT, DataT, OfferT
<1>2. CASE c.name = "PASS"
  BY <1>2, ZenonT(40) DEF OfferInv, After, DataAfter, OfferedAfter, SessT, DataT, OfferT
<1>3. CASE c.name = "TYPE"
  BY <1>3, ZenonT(40) DEF OfferInv, After, DataAfter, OfferedAfter, SessT, DataT, OfferT
<1>4. CASE c.name = "PASV"
  BY <1>4, ZenonT(40) DEF OfferInv, After, DataAfter, OfferedAfter, SessT, DataT, OfferT
<1>5. CASE c.name = "PORT" /\ c.arg = "good"
  BY <1>5, ZenonT(40) DEF OfferInv, After, DataAfter, OfferedAfter, SessT, DataT, OfferT
<1>6. CASE c.name = "REST"
  <2>1. c.arg \in Nat
    BY <1>6, FtpAssumption
  <2>2. /\ After(x, c) = [x EXCEPT !.rest = c.arg] /\ DataAfter(d, c) = d
        /\ OfferedAfter(o, c) = [o EXCEPT !.rest = c.arg > 0]
    BY <1>6 DEF After, DataAfter, OfferedAfter
  <2>3. CASE c.arg > 0
    BY <2>1, <2>2, <2>3, ZenonT(40) DEF OfferInv, SessT, DataT, OfferT
  <2>4. CASE ~(c.arg > 0)
    <3>1. c.arg = 0 /\ (c.arg > 0) = FALSE
      BY <2>1, <2>4
    <3>2. After(x, c) = [x EXCEPT !.rest = 0] /\ OfferedAfter(o, c) = [o EXCEPT !.rest = FALSE]
      BY <2>2, <3>1, Zenon
    <3> QED BY <2>2, <3>2, SpendRest
  <2> QED BY <2>3, <2>4
<1>7. CASE c.name = "QUIT"
  BY <1>7, ZenonT(40) DEF OfferInv, After, DataAfter, OfferedAfter, SessT, DataT, OfferT
<1>8. CASE c.name = "RNTO"
  BY <1>8, Zenon DEF OfferInv, After, DataAfter, OfferedAfter, SessT, DataT, OfferT
<1>9. CASE /\ c.name \notin {"USER", "PASS", "TYPE", "PASV", "REST", "QUIT", "RNTO"}
           /\ ~(c.name = "PORT" /\ c.arg = "good")
  BY <1>9 DEF OfferInv, After, DataAfter, OfferedAfter, SessT, DataT, OfferT
<1> QED BY <1>1, <1>2, <1>3, <1>4, <1>5, <1>6, <1>7, <1>8, <1>9

\* So do the answers of the storage task: they spend what was offered.
LEMMA AnsweredKeepsOffers ==
  ASSUME NEW x \in SessT, NEW d \in DataT, NEW o \in OfferT, NEW c, NEW ok \in BOOLEAN,
         NEW p \in {"read", "open"}, NEW k, OfferInv(x, d, o, "rpc", c)
  PROVE  LET y == Answered(x, c, ok)
             q == OfferedAnswered(o, c, ok /\ MayWrite(x))
         IN  y \in SessT /\ q \in OfferT /\ OfferInv(y, d, q, p, k)
<1>1. CASE c.name \in {"RETR", "STOR", "APPE"}
  <2>1. /\ Answered(x, c, ok) = [x EXCEPT !.rest = 0]
        /\ OfferedAnswered(o, c, ok /\ MayWrite(x)) = [o EXCEPT !.rest = FALSE]
    BY <1>1 DEF Answered, OfferedAnswered
  <2>2. OfferInv(x, d, o, p, k)
    BY DEF OfferInv
  <2> QED BY <2>1, <2>2, SpendRest
<1>2. CASE c.name = "RNFR"
  <2>1. CASE ok /\ MayWrite(x)
    BY <1>2, <2>1, ZenonT(40) DEF OfferInv, Answered, OfferedAnswered, SessT, DataT, OfferT
  <2>2. CASE ~(ok /\ MayWrite(x))
    BY <1>2, <2>2 DEF OfferInv, Answered, OfferedAnswered, SessT, DataT, OfferT
  <2> QED BY <2>1, <2>2
<1>3. CASE c.name = "RNTO"
  BY <1>3, ZenonT(40) DEF OfferInv, Answered, OfferedAnswered, SessT, DataT, OfferT
<1>4. CASE c.name \notin {"RETR", "STOR", "APPE", "RNFR", "RNTO"}
  BY <1>4 DEF OfferInv, Answered, OfferedAnswered, SessT, DataT, OfferT
<1> QED BY <1>1, <1>2, <1>3, <1>4

\* A step of one session, to the given state.
Moves(s, l, x, d, o, p, c) ==
  /\ lines' = Set(lines, s, l) /\ sess' = Set(sess, s, x) /\ data' = Set(data, s, d)
  /\ offered' = Set(offered, s, o) /\ ph' = Set(ph, s, p) /\ cur' = Set(cur, s, c)

LEMMA OneSessionSteps ==
  ASSUME SessInv, NEW s \in Slot, NEW l \in Seq(Line), NEW x \in SessT, NEW d \in DataT,
         NEW o \in OfferT, NEW p \in {"read", "rpc", "open", "xfer", "close"},
         NEW c \in Line \cup {NoCmd}, OfferInv(x, d, o, p, c), Moves(s, l, x, d, o, p, c)
  PROVE  SessInv'
<1> USE DEF Moves, Set
<1>1. SessType'
  BY DEF SessInv, SessType
<1>2. ASSUME NEW r \in Slot PROVE OfferInv(sess[r], data[r], offered[r], ph[r], cur[r])'
  <2>1. CASE r = s
    BY <2>1 DEF SessInv, SessType, OfferInv
  <2>2. CASE r # s
    BY <2>2 DEF SessInv, SessType, OfferInv
  <2> QED BY <2>1, <2>2
<1> QED BY <1>1, <1>2 DEF SessInv

LEMMA SessStarts == Init => SessInv
BY DEF Init, SessInv, SessType, OfferInv, NewSession, Closed, Nothing, NoCmd, SessT, DataT, OfferT

LEMMA FreshKeeps == ASSUME SessInv, NEW s \in Slot, NEW p, Fresh(s, p) PROVE SessInv'
<1>1. /\ NewSession \in SessT /\ Closed \in DataT /\ Nothing \in OfferT /\ <<>> \in Seq(Line)
      /\ OfferInv(NewSession, Closed, Nothing, "read", NoCmd)
  BY DEF OfferInv, NewSession, Closed, Nothing, SessT, DataT, OfferT
<1>2. Moves(s, <<>>, NewSession, Closed, Nothing, "read", NoCmd)
  BY DEF Fresh, Moves
<1> QED BY <1>1, <1>2, OneSessionSteps, Zenon

\* Every step of a session, of the timers and of the clients keeps it.
LEMMA SessNext == SessInv /\ [Next]_vars => SessInv'
<1> SUFFICES ASSUME SessInv, [Next]_vars PROVE SessInv'
  OBVIOUS
<1>u. UNCHANGED sessVars => SessInv'
  BY DEF sessVars, SessInv, SessType, OfferInv
<1>1. CASE UNCHANGED vars
  BY <1>1, <1>u DEF vars
<1>2. CASE (TurnAway /\ UNCHANGED sessVars) \/ Timers
  BY <1>2, <1>u DEF Timers
<1>3. ASSUME NEW s \in Slot, Session(s) PROVE SessInv'
  <2> DEFINE x == sess[s]
             d == data[s]
             o == offered[s]
  <2>t. /\ x \in SessT /\ d \in DataT /\ o \in OfferT /\ lines[s] \in Seq(Line)
        /\ ph[s] \in {"read", "rpc", "open", "xfer", "close"} /\ cur[s] \in Line \cup {NoCmd}
        /\ OfferInv(x, d, o, ph[s], cur[s])
    BY DEF SessInv, SessType
  <2>f. /\ lines = Set(lines, s, lines[s]) /\ sess = Set(sess, s, x) /\ data = Set(data, s, d)
        /\ offered = Set(offered, s, o) /\ ph = Set(ph, s, ph[s]) /\ cur = Set(cur, s, cur[s])
    BY DEF SessInv, SessType, Set
  <2>1. CASE SessionEnds(s)
    BY <2>1, FreshKeeps DEF SessionEnds
  <2>2. CASE Handle(s)
    <3> DEFINE c == Head(lines[s])
    <3>1. c \in Line /\ Tail(lines[s]) \in Seq(Line) /\ ph[s] = "read"
      BY <2>2, <2>t, HeadTailProperties DEF Handle, Reading
    <3>2. CASE Asks(x, c)
      <4>1. Moves(s, Tail(lines[s]), x, d, o, "rpc", c)
        BY <2>2, <2>f, <3>2 DEF Handle, Moves
      <4>2. OfferInv(x, d, o, "rpc", c)
        BY <2>t, <3>1, <3>2 DEF OfferInv, Asks
      <4> HIDE DEF c, x, d, o
      <4> QED BY <2>t, <3>1, <4>1, <4>2, OneSessionSteps, Zenon
    <3>3. CASE ~Asks(x, c)
      <4>1. Moves(s, Tail(lines[s]), After(x, c), DataAfter(d, c), OfferedAfter(o, c), "read", cur[s])
        BY <2>2, <2>f, <3>1, <3>3 DEF Handle, Moves
      <4>2. /\ After(x, c) \in SessT /\ DataAfter(d, c) \in DataT /\ OfferedAfter(o, c) \in OfferT
            /\ OfferInv(After(x, c), DataAfter(d, c), OfferedAfter(o, c), "read", cur[s])
        <5> HIDE DEF c, x, d, o
        <5> QED BY <2>t, <3>1, AfterKeeps
      <4> HIDE DEF c, x, d, o
      <4> QED BY <2>t, <3>1, <4>1, <4>2, OneSessionSteps, Zenon
    <3> QED BY <3>2, <3>3
  <2>3. ASSUME NEW ok \in BOOLEAN, Answer(s, ok) PROVE SessInv'
    <3> DEFINE y == Answered(x, cur[s], ok)
               q == OfferedAnswered(o, cur[s], ok /\ MayWrite(x))
    <3>1. ph[s] = "rpc"
      BY <2>3 DEF Answer
    <3>2. y \in SessT /\ q \in OfferT /\ OfferInv(y, d, q, "read", NoCmd)
                     /\ OfferInv(y, d, q, "open", cur[s])
      <4>1. OfferInv(x, d, o, "rpc", cur[s])
        BY <2>t, <3>1
      <4> HIDE DEF x, d, o
      <4>2. y \in SessT /\ q \in OfferT /\ OfferInv(y, d, q, "read", NoCmd)
        BY <2>t, <2>3, <4>1, AnsweredKeepsOffers, Zenon
      <4>3. OfferInv(y, d, q, "open", cur[s])
        BY <2>t, <2>3, <4>1, AnsweredKeepsOffers, Zenon
      <4> QED BY <4>2, <4>3
    <3>3. \/ Moves(s, lines[s], y, d, q, "open", cur[s])
          \/ Moves(s, lines[s], y, d, q, "read", NoCmd)
      BY <2>3, <2>f DEF Answer, Finish, Moves
    <3> HIDE DEF x, d, o, y, q
    <3> QED BY <2>t, <3>2, <3>3, OneSessionSteps
  <2>4. CASE OpenData(s)
    <3>0. ph[s] = "open" /\ UNCHANGED <<lines, offered>>
      BY <2>4 DEF OpenData
    <3>1. ASSUME NEW e \in DataT, e.latest, e.uses = 0, Begins(s, e),
                 NEW y \in SessT, y.rest = x.rest, y.pending = x.pending, y.port = "none",
                 sess' = Set(sess, s, y)
          PROVE  SessInv'
      <4> DEFINE g == [e EXCEPT !.uses = @ + 1]
      <4>1. g \in DataT /\ OfferInv(y, g, o, "xfer", cur[s])
        BY <2>t, <3>0, <3>1 DEF OfferInv, DataT
      <4>2. Moves(s, lines[s], y, g, o, "xfer", cur[s])
        BY <2>f, <3>0, <3>1 DEF Begins, Moves
      <4> HIDE DEF g
      <4> QED BY <2>t, <4>1, <4>2, OneSessionSteps
    <3>2. CASE x.port = "set"
      <4> DEFINE y == [x EXCEPT !.port = "none"]
      <4>1. y \in SessT /\ y.rest = x.rest /\ y.pending = x.pending /\ y.port = "none"
        BY <2>t DEF SessT
      <4>2. sess' = Set(sess, s, y)
        BY <2>4, <3>2 DEF OpenData
      <4>3. CASE Begins(s, [state |-> "open", latest |-> o.port, uses |-> 0])
        <5> DEFINE r == [state |-> "open", latest |-> o.port, uses |-> 0]
        <5>1. o.port /\ o.port \in BOOLEAN
          BY <2>t, <3>2 DEF OfferInv, OfferT
        <5>2. r \in DataT
          BY <5>1 DEF DataT
        <5>3. r.latest /\ r.uses = 0
          BY <5>1, Zenon
        <5>4. Begins(s, r)
          BY <4>3
        <5> HIDE DEF r, y
        <5> QED BY <3>1, <4>1, <4>2, <5>2, <5>3, <5>4
      <4>4. CASE data' = Set(data, s, Closed) /\ Finish(s)
        <5>1. Closed \in DataT /\ OfferInv(y, Closed, o, "read", NoCmd)
          BY <2>t, <4>1 DEF OfferInv, Closed, DataT
        <5>2. Moves(s, lines[s], y, Closed, o, "read", NoCmd)
          BY <2>f, <3>0, <4>2, <4>4 DEF Finish, Moves
        <5> HIDE DEF y
        <5> QED BY <2>t, <4>1, <5>1, <5>2, OneSessionSteps
      <4> QED BY <2>4, <3>2, <4>3, <4>4 DEF OpenData
    <3>3. CASE x.port = "none"
      <4>1. CASE data[s].state = "open" /\ Begins(s, data[s]) /\ UNCHANGED sess
        <5>1. d.latest /\ d.uses = 0
          BY <2>t, <3>0, <3>3, <4>1 DEF OfferInv
        <5> QED BY <2>f, <2>t, <3>1, <3>3, <4>1, <5>1
      <4>2. CASE Finish(s) /\ UNCHANGED <<data, sess>>
        <5>1. OfferInv(x, d, o, "read", NoCmd)
          BY <2>t, <3>0 DEF OfferInv
        <5>2. Moves(s, lines[s], x, d, o, "read", NoCmd)
          BY <2>f, <3>0, <4>2 DEF Finish, Moves
        <5> QED BY <2>t, <5>1, <5>2, OneSessionSteps
      <4> QED BY <2>4, <3>3, <4>1, <4>2 DEF OpenData
    <3> QED BY <2>t, <3>2, <3>3 DEF SessT
  <2>5. ASSUME UNCHANGED <<lines, sess, offered>>, data' = Set(data, s, Closed), Finish(s)
        PROVE  SessInv'
    <3>1. Closed \in DataT /\ OfferInv(x, Closed, o, "read", NoCmd)
      BY <2>t DEF OfferInv, Closed, DataT
    <3>2. Moves(s, lines[s], x, Closed, o, "read", NoCmd)
      BY <2>f, <2>5 DEF Finish, Moves
    <3> QED BY <2>t, <3>1, <3>2, OneSessionSteps
  <2>6. ASSUME UNCHANGED <<lines, sess, data, offered, cur>>, ph[s] = "xfer",
               ph' = Set(ph, s, "xfer") \/ ph' = Set(ph, s, "close")
        PROVE  SessInv'
    <3>1. OfferInv(x, d, o, "xfer", cur[s]) /\ OfferInv(x, d, o, "close", cur[s])
      BY <2>t, <2>6 DEF OfferInv
    <3>2. \/ Moves(s, lines[s], x, d, o, "xfer", cur[s])
          \/ Moves(s, lines[s], x, d, o, "close", cur[s])
      BY <2>f, <2>6 DEF Moves
    <3> QED BY <2>t, <3>1, <3>2, OneSessionSteps
  <2>7. CASE Sent(s)
    BY <2>7, <2>5 DEF Sent
  <2>8. ASSUME NEW n, Chunk(s, n) PROVE SessInv'
    <3>1. /\ UNCHANGED <<lines, sess, data, offered, cur>> /\ ph[s] = "xfer"
          /\ ph' = Set(ph, s, "xfer") \/ ph' = Set(ph, s, "close")
      BY <2>8, Zenon DEF Chunk, Storing
    <3> QED BY <2>6, <3>1
  <2>9. CASE StreamEnds(s)
    BY <2>9, <2>6 DEF StreamEnds, Storing
  <2>10. ASSUME NEW ok, CloseFile(s, ok) PROVE SessInv'
    BY <2>10, <2>5, Zenon DEF CloseFile
  <2> QED BY <1>3, <2>1, <2>2, <2>3, <2>4, <2>7, <2>8, <2>9, <2>10 DEF Session
<1>4. ASSUME NEW s \in Slot, Client(s) PROVE SessInv'
  <2>1. CASE Connect(s)
    BY <2>1, FreshKeeps DEF Connect
  <2>2. ASSUME NEW c \in Commands[s], SendLine(s, c) PROVE SessInv'
    <3>1. c \in Line
      BY DEF Line
    <3>2. lines' \in [Slot -> Seq(Line)]
      BY <2>2, <3>1 DEF SendLine, Set, SessInv, SessType
    <3> QED BY <2>2, <3>2 DEF SendLine, SessInv, SessType, OfferInv
  <2>3. CASE DataConnect(s)
    <3> DEFINE e == [data[s] EXCEPT !.state = "open"]
    <3>1. data[s] \in DataT /\ data[s].state = "listen" /\ OfferInv(sess[s], data[s], offered[s], ph[s], cur[s])
      BY <2>3 DEF DataConnect, SessInv, SessType
    <3>2. e \in DataT /\ e.state = "open" /\ e.latest = data[s].latest /\ e.uses = data[s].uses
      BY <3>1 DEF DataT
    <3>3. OfferInv(sess[s], e, offered[s], ph[s], cur[s])
      <4> HIDE DEF e
      <4> QED BY <3>1, <3>2 DEF OfferInv
    <3>4. data' = [data EXCEPT ![s] = e] /\ UNCHANGED <<lines, sess, offered, ph, cur>>
      BY <2>3 DEF DataConnect, Set
    <3>5. data' \in [Slot -> DataT]
      <4> HIDE DEF e
      <4> QED BY <3>2, <3>4 DEF SessInv, SessType
    <3>6. ASSUME NEW r \in Slot PROVE OfferInv(sess[r], data[r], offered[r], ph[r], cur[r])'
      <4> HIDE DEF e
      <4> QED BY <3>3, <3>4 DEF SessInv, SessType, OfferInv
    <3> QED BY <3>4, <3>5, <3>6, Zenon DEF SessInv, SessType
  <2>4. CASE DataEnds(s) \/ ClientGoes(s)
    <3>1. UNCHANGED <<lines, sess, data, offered, ph, cur>>
      BY <2>4 DEF DataEnds, ClientGoes
    <3> QED BY <3>1 DEF SessInv, SessType, OfferInv
  <2> QED BY <1>4, <2>1, <2>2, <2>3, <2>4 DEF Client
<1> QED BY <1>1, <1>2, <1>3, <1>4 DEF Next

\* A transfer uses the connection of the last PASV or PORT, once.
THEOREM DataUsedOnce == Spec => []DataOnce
<1>1. SessInv => DataOnce
  BY DEF SessInv, OfferInv, DataOnce
<1> QED BY <1>1, SessStarts, SessNext, PTL DEF Spec

\* REST and RNFR count for one transfer and one rename.
THEOREM OffersUsedOnce == Spec => []OneShot
<1>1. SessInv => OneShot
  BY DEF SessInv, OfferInv, OneShot
<1> QED BY <1>1, SessStarts, SessNext, PTL DEF Spec

-----------------------------------------------------------------------------
(* The conversion of an ASCII upload.                                      *)

\* Every non-empty set of natural numbers has a least element.
LEMMA LeastNat ==
  ASSUME NEW S \in SUBSET Nat, S # {}
  PROVE  \E n \in S : \A m \in S : n <= m
<1> DEFINE T == {0 .. m : m \in S}
<1>1. T \subseteq FiniteSubsetsOf(Nat)
  <2> SUFFICES ASSUME NEW m \in S PROVE 0 .. m \in FiniteSubsetsOf(Nat)
    OBVIOUS
  <2>1. IsFiniteSet(0 .. m)
    BY FS_Interval
  <2>2. 0 .. m \in SUBSET Nat
    OBVIOUS
  <2> QED BY <2>1, <2>2 DEF FiniteSubsetsOf
<1>2. T # {}
  BY Zenon
<1>3. IsWellFoundedOn(StrictSubsetOrdering(Nat), FiniteSubsetsOf(Nat))
  BY FS_StrictSubsetOrderingWellFounded
<1>4. \E x \in T : \A y \in T : ~(<<y, x>> \in StrictSubsetOrdering(Nat))
  <2> HIDE DEF T
  <2> QED BY <1>1, <1>2, <1>3, WFMin, Zenon
<1>5. PICK n \in S : \A y \in T : ~(<<y, 0 .. n>> \in StrictSubsetOrdering(Nat))
  BY <1>4
<1>6. ASSUME NEW m \in S, m < n PROVE FALSE
  <2> DEFINE a == 0 .. m
             b == 0 .. n
  <2>1. a \in T /\ a \in SUBSET Nat /\ b \in SUBSET Nat /\ a \subseteq b /\ a # b
    BY <1>6
  <2>2. \A y \in T : ~(<<y, b>> \in StrictSubsetOrdering(Nat))
    BY <1>5
  <2> HIDE DEF a, b, T
  <2>3. <<a, b>> \in StrictSubsetOrdering(Nat)
    BY <2>1, Zenon DEF StrictSubsetOrdering
  <2> QED BY <2>1, <2>2, <2>3
<1> QED BY <1>5, <1>6

\* f is what the loop over c has kept after each of its steps up to the n-th.
Keeps(c, n, f) ==
  /\ f[0] = <<>>
  /\ \A i \in 1..n : f[i] = IF CrLf(c, i) THEN f[i - 1] ELSE Append(f[i - 1], c[i])

\* There is one for every c.
LEMMA KeptExists ==
  ASSUME NEW c \in Seq(Byte)
  PROVE  \E f \in [0..Len(c) -> Seq(Byte)] : Keeps(c, Len(c), f)
<1> DEFINE P(n) == \E f \in [0..n -> Seq(Byte)] : Keeps(c, n, f)
           bad == {n \in 0..Len(c) : ~P(n)}
<1>1. P(0)
  <2> DEFINE g == [i \in 0..0 |-> <<>>]
  <2>1. g \in [0..0 -> Seq(Byte)] /\ Keeps(c, 0, g)
    BY DEF Keeps
  <2> QED BY <2>1
<1>2. ASSUME NEW n \in 1..Len(c), P(n - 1) PROVE P(n)
  <2>1. PICK f \in [0..(n - 1) -> Seq(Byte)] : Keeps(c, n - 1, f)
    BY <1>2
  <2> DEFINE e == IF CrLf(c, n) THEN f[n - 1] ELSE Append(f[n - 1], c[n])
             g == [i \in 0..n |-> IF i = n THEN e ELSE f[i]]
  <2>2. e \in Seq(Byte)
    <3>1. c[n] \in Byte /\ f[n - 1] \in Seq(Byte)
      OBVIOUS
    <3> QED BY <3>1, AppendProperties
  <2>3. g \in [0..n -> Seq(Byte)]
    <3> HIDE DEF e
    <3> QED BY <2>2
  <2>4. Keeps(c, n, g)
    <3>1. g[n] = e /\ \A i \in 0..(n - 1) : g[i] = f[i]
      <4> HIDE DEF e
      <4> QED OBVIOUS
    <3>2. g[0] = <<>>
      BY <2>1, <3>1 DEF Keeps
    <3>3. ASSUME NEW i \in 1..n
          PROVE  g[i] = IF CrLf(c, i) THEN g[i - 1] ELSE Append(g[i - 1], c[i])
      <4> HIDE DEF g
      <4>1. CASE i = n
        BY <3>1, <4>1
      <4>2. CASE i # n
        <5>1. i \in 1..(n - 1) /\ i \in 0..(n - 1) /\ i - 1 \in 0..(n - 1)
          BY <4>2
        <5>2. f[i] = IF CrLf(c, i) THEN f[i - 1] ELSE Append(f[i - 1], c[i])
          BY <2>1, <5>1 DEF Keeps
        <5> QED BY <3>1, <5>1, <5>2
      <4> QED BY <4>1, <4>2
    <3> QED BY <3>2, <3>3 DEF Keeps
  <2> QED BY <2>3, <2>4
<1>3. ASSUME bad # {} PROVE FALSE
  <2>1. bad \in SUBSET Nat
    OBVIOUS
  <2>2. PICK n \in bad : \A m \in bad : n <= m
    BY <1>3, <2>1, LeastNat, Zenon
  <2>3. n \in 0..Len(c) /\ ~P(n) /\ n # 0
    BY <1>1, <2>2
  <2>4. n \in 1..Len(c) /\ n - 1 \in 0..Len(c) /\ ~(n <= n - 1)
    BY <2>3
  <2>5. P(n - 1)
    <3> HIDE DEF P
    <3> QED BY <2>2, <2>4
  <2> HIDE DEF P
  <2> QED BY <1>2, <2>3, <2>4, <2>5
<1>4. Len(c) \in 0..Len(c)
  OBVIOUS
<1>5. P(Len(c))
  <2> HIDE DEF P
  <2> QED BY <1>3, <1>4
<1> QED BY <1>5

\* Its last value is Stripped(c): there is no other such function.
LEMMA StrippedIs ==
  ASSUME NEW c \in Seq(Byte), NEW f, DOMAIN f = 0..Len(c), f = [i \in 0..Len(c) |-> f[i]],
         Keeps(c, Len(c), f)
  PROVE  Stripped(c) = f[Len(c)]
<1> DEFINE Eq(g) == g = [i \in 0..Len(c) |->
             IF i = 0 THEN <<>> ELSE IF CrLf(c, i) THEN g[i - 1] ELSE Append(g[i - 1], c[i])]
           G == CHOOSE g : Eq(g)
<1>0. Len(c) \in Nat
  OBVIOUS
<1>1. Eq(f)
  <2>1. \A i \in 0..Len(c) : f[i] = IF i = 0 THEN <<>> ELSE IF CrLf(c, i) THEN f[i - 1] ELSE Append(f[i - 1], c[i])
    BY <1>0 DEF Keeps
  <2> QED BY <2>1
<1>2. Eq(G)
  <2> HIDE DEF Eq
  <2> QED BY <1>1
<1>3. Stripped(c) = G[Len(c)]
  BY Zenon DEF Stripped
<1> HIDE DEF G
<1>4. \A i \in 0..Len(c) : G[i] = IF i = 0 THEN <<>> ELSE IF CrLf(c, i) THEN G[i - 1] ELSE Append(G[i - 1], c[i])
  BY <1>2
<1> HIDE DEF Eq
<1> DEFINE bad == {i \in 0..Len(c) : G[i] # f[i]}
<1>5. ASSUME bad # {} PROVE FALSE
  <2>1. bad \in SUBSET Nat
    OBVIOUS
  <2>2. PICK n \in bad : \A m \in bad : n <= m
    BY <1>5, <2>1, LeastNat, Zenon
  <2>3. n \in 0..Len(c) /\ G[n] # f[n]
    BY <2>2
  <2>4. n # 0
    BY <1>4, <2>3 DEF Keeps
  <2>5. n \in 1..Len(c) /\ n - 1 \in 0..Len(c) /\ ~(n <= n - 1)
    BY <2>3, <2>4
  <2>6. G[n - 1] = f[n - 1]
    BY <2>2, <2>5
  <2>7. G[n] = IF CrLf(c, n) THEN G[n - 1] ELSE Append(G[n - 1], c[n])
    BY <1>4, <2>3, <2>4
  <2>8. f[n] = IF CrLf(c, n) THEN f[n - 1] ELSE Append(f[n - 1], c[n])
    BY <2>5 DEF Keeps
  <2> QED BY <2>3, <2>6, <2>7, <2>8
<1> QED BY <1>0, <1>3, <1>5

LEMMA StrippedType == ASSUME NEW c \in Seq(Byte) PROVE Stripped(c) \in Seq(Byte)
<1>1. PICK f \in [0..Len(c) -> Seq(Byte)] : Keeps(c, Len(c), f)
  BY KeptExists
<1>2. Stripped(c) = f[Len(c)]
  BY <1>1, StrippedIs
<1> QED BY <1>2

LEMMA StrippedEmpty == Stripped(<<>>) = <<>>
<1> DEFINE f == [i \in 0..0 |-> <<>>]
<1>1. <<>> \in Seq(Byte) /\ Len(<<>>) = 0
  OBVIOUS
<1>2. Keeps(<<>>, 0, f) /\ DOMAIN f = 0..0 /\ f = [i \in 0..0 |-> f[i]] /\ f[0] = <<>>
  BY DEF Keeps
<1> HIDE DEF f
<1> QED BY <1>1, <1>2, StrippedIs

\* Appending behind two parts.
LEMMA JoinAppend ==
  ASSUME NEW s \in Seq(Byte), NEW t \in Seq(Byte), NEW x \in Byte
  PROVE  s \o Append(t, x) = Append(s \o t, x)
<1>1. s \o t \in Seq(Byte) /\ <<x>> \in Seq(Byte)
  BY ConcatProperties
<1>2. Append(s \o t, x) = (s \o t) \o <<x>>
  BY <1>1, AppendIsConcat
<1>3. Append(t, x) = t \o <<x>>
  BY AppendIsConcat
<1>4. (s \o t) \o <<x>> = s \o (t \o <<x>>)
  BY <1>1, ConcatAssociative
<1> QED BY <1>2, <1>3, <1>4, Zenon

\* A stream cut behind another byte than \r is converted part by part.
LEMMA StrippedCut ==
  ASSUME NEW a \in Seq(Byte), NEW b \in Seq(Byte), a = <<>> \/ a[Len(a)] # "\r"
  PROVE  Stripped(a \o b) = Stripped(a) \o Stripped(b)
<1> DEFINE c == a \o b
           k == Len(a)
           m == Len(b)
<1>0. k \in Nat /\ m \in Nat /\ c \in Seq(Byte) /\ Len(c) = k + m
  BY ConcatProperties
<1>1. PICK f \in [0..k -> Seq(Byte)] : Keeps(a, k, f)
  BY KeptExists
<1>2. PICK g \in [0..m -> Seq(Byte)] : Keeps(b, m, g)
  BY KeptExists
<1> DEFINE h == [i \in 0..(k + m) |-> IF i <= k THEN f[i] ELSE f[k] \o g[i - k]]
<1>3. /\ \A i \in 0..k : h[i] = f[i]
      /\ \A i \in (k + 1)..(k + m) : h[i] = f[k] \o g[i - k]
      /\ DOMAIN h = 0..(k + m) /\ h = [i \in 0..(k + m) |-> h[i]]
  <2>1. \A i \in 0..k : i \in 0..(k + m) /\ i <= k
    BY <1>0
  <2>2. \A i \in (k + 1)..(k + m) : i \in 0..(k + m) /\ ~(i <= k)
    BY <1>0
  <2> HIDE DEF k, m
  <2>3. \A i \in 0..k : h[i] = f[i]
    BY <2>1
  <2>4. \A i \in (k + 1)..(k + m) : h[i] = f[k] \o g[i - k]
    BY <2>2
  <2>5. DOMAIN h = 0..(k + m) /\ h = [i \in 0..(k + m) |-> h[i]]
    BY Zenon
  <2> QED BY <2>3, <2>4, <2>5
<1>4. \A j \in 1..k : c[j] = a[j]
  BY <1>0, ConcatProperties
<1>5. \A j \in (k + 1)..(k + m) : c[j] = b[j - k]
  BY <1>0, ConcatProperties
<1> HIDE DEF h, c, k, m
<1>6. f[k] \o <<>> = f[k] /\ g[0] = <<>> /\ f[k] \in Seq(Byte)
  BY <1>0, <1>1, <1>2, ConcatEmptySeq DEF Keeps
<1>7. \A j \in 0..m : h[k + j] = f[k] \o g[j]
  <2> SUFFICES ASSUME NEW j \in 0..m PROVE h[k + j] = f[k] \o g[j]
    OBVIOUS
  <2>1. CASE j = 0
    <3>1. k + j \in 0..k /\ k + j = k
      BY <1>0, <2>1
    <3> QED BY <1>3, <1>6, <2>1, <3>1, Zenon
  <2>2. CASE j # 0
    <3>1. k + j \in (k + 1)..(k + m) /\ (k + j) - k = j
      BY <1>0, <2>2
    <3> QED BY <1>3, <3>1
  <2> QED BY <2>1, <2>2
<1>8. ASSUME NEW i \in 1..(k + m)
      PROVE  h[i] = IF CrLf(c, i) THEN h[i - 1] ELSE Append(h[i - 1], c[i])
  <2>1. CASE i <= k
    <3>1. i \in 1..k /\ i \in 0..k /\ i - 1 \in 0..k
      BY <1>0, <2>1
    <3>2. CrLf(c, i) <=> CrLf(a, i)
      <4>1. CASE i < k
        <5>1. i + 1 \in 1..k /\ i < Len(c) /\ i < Len(a)
          BY <1>0, <3>1, <4>1 DEF k
        <5>2. c[i] = a[i] /\ c[i + 1] = a[i + 1]
          BY <1>4, <3>1, <5>1
        <5> QED BY <5>1, <5>2 DEF CrLf
      <4>2. CASE ~(i < k)
        <5>1. i = k /\ a # <<>>
          BY <1>0, <3>1, <4>2 DEF k
        <5>2. a[i] # "\r" /\ c[i] = a[i]
          BY <1>4, <3>1, <5>1 DEF k
        <5> QED BY <5>2 DEF CrLf
      <4> QED BY <4>1, <4>2
    <3>3. f[i] = IF CrLf(a, i) THEN f[i - 1] ELSE Append(f[i - 1], a[i])
      BY <1>1, <3>1 DEF Keeps
    <3>4. h[i] = f[i] /\ h[i - 1] = f[i - 1] /\ c[i] = a[i]
      BY <1>3, <1>4, <3>1
    <3> QED BY <3>2, <3>3, <3>4
  <2>2. CASE ~(i <= k)
    <3> DEFINE j == i - k
    <3>1. j \in 1..m /\ i = k + j /\ i \in (k + 1)..(k + m) /\ j - 1 \in 0..m /\ i - 1 = k + (j - 1) /\ j \in 0..m
      BY <1>0, <2>2
    <3> HIDE DEF j
    <3>2. c[i] = b[j]
      BY <1>5, <3>1 DEF j
    <3>3. CrLf(c, i) <=> CrLf(b, j)
      <4>1. CASE j < m
        <5>1. i + 1 \in (k + 1)..(k + m) /\ (i + 1) - k = j + 1 /\ i < Len(c) /\ j < Len(b)
          BY <1>0, <3>1, <4>1 DEF m
        <5>2. c[i + 1] = b[j + 1]
          BY <1>5, <5>1
        <5> QED BY <3>2, <5>1, <5>2 DEF CrLf
      <4>2. CASE ~(j < m)
        <5>1. ~(i < Len(c)) /\ ~(j < Len(b))
          BY <1>0, <3>1, <4>2 DEF m
        <5> QED BY <5>1 DEF CrLf
      <4> QED BY <4>1, <4>2
    <3>4. g[j] = IF CrLf(b, j) THEN g[j - 1] ELSE Append(g[j - 1], b[j])
      BY <1>2, <3>1 DEF Keeps
    <3>5. h[i] = f[k] \o g[j] /\ h[i - 1] = f[k] \o g[j - 1]
      BY <1>7, <3>1
    <3>6. f[k] \o Append(g[j - 1], b[j]) = Append(f[k] \o g[j - 1], b[j])
      <4>1. g[j - 1] \in Seq(Byte) /\ b[j] \in Byte
        <5>1. g[j - 1] \in Seq(Byte)
          BY <1>2, <3>1
        <5>2. b[j] \in Byte
          BY <3>1 DEF m
        <5> QED BY <5>1, <5>2
      <4> QED BY <1>6, <4>1, JoinAppend
    <3> QED BY <3>2, <3>3, <3>4, <3>5, <3>6
  <2> QED BY <2>1, <2>2
<1>9. Keeps(c, Len(c), h)
  <2>1. h[0] = <<>>
    <3>1. 0 \in 0..k /\ f[0] = <<>>
      BY <1>0, <1>1 DEF Keeps
    <3> QED BY <1>3, <3>1, Zenon
  <2> QED BY <1>0, <1>8, <2>1 DEF Keeps
<1>10. Stripped(c) = h[k + m]
  BY <1>0, <1>3, <1>9, StrippedIs
<1>11. h[k + m] = f[k] \o g[m]
  <2>1. m \in 0..m
    BY <1>0
  <2> QED BY <1>7, <2>1, Zenon
<1>12. Stripped(a) = f[k] /\ Stripped(b) = g[m]
  <2>1. Stripped(a) = f[k]
    BY <1>1, StrippedIs DEF k
  <2>2. Stripped(b) = g[m]
    BY <1>2, StrippedIs DEF m
  <2> QED BY <2>1, <2>2
<1> QED BY <1>10, <1>11, <1>12 DEF c

-----------------------------------------------------------------------------
(* Uploads.  While one is on its way, what was read is what the client sent *)
(* without what is still to come, and what is stored is what the bytes read *)
(* so far mean.  An ASCII upload has that only as long as no chunk ended    *)
(* with \r.                                                                 *)

UpT ==
  [all : Seq(Byte), rest : Seq(Byte), end : {"open", "eof", "reset", "failed"},
   held : BOOLEAN, stored : Seq(Byte), cut : BOOLEAN]

LEMMA UpFields ==
  ASSUME NEW u \in UpT
  PROVE  /\ u.all \in Seq(Byte) /\ u.rest \in Seq(Byte) /\ u.stored \in Seq(Byte)
         /\ u.held \in BOOLEAN /\ u.cut \in BOOLEAN
         /\ u.end \in {"open", "eof", "reset", "failed"}
BY DEF UpT

\* The bytes `done` are read and stored.
SoFar(ascii, u, done) ==
  /\ u.all = done \o u.rest
  /\ ~ascii => u.stored = done
  /\ ascii /\ ~u.cut =>
       ~u.held /\ u.stored = Stripped(done) /\ (done = <<>> \/ done[Len(done)] # "\r")

OnItsWay(ascii, u, p) ==
  /\ p \in {"xfer", "close"} /\ u.end \in {"open", "eof"} => \E done \in Seq(Byte) : SoFar(ascii, u, done)
  /\ p = "close" /\ u.end = "eof" => u.rest = <<>>

UpInv ==
  /\ up \in [Slot -> UpT] /\ told \in [Slot -> {"none", "wrong at a cut"}]
  /\ \A s \in Slot : OnItsWay(sess[s].ascii, up[s], ph[s])

\* What one read writes, and what it leaves to be held.
LEMMA AsciiType ==
  ASSUME NEW b \in Seq(Byte), NEW held \in BOOLEAN
  PROVE  AsciiIn(b, held).out \in Seq(Byte) /\ AsciiIn(b, held).held \in BOOLEAN
<1> DEFINE from == IF held /\ b # <<>> /\ b[1] = "\n" THEN Tail(b) ELSE b
           out == Stripped(from)
           hold == from # <<>> /\ from[Len(from)] = "\r" /\ out # <<>>
<1>1. from \in Seq(Byte)
  BY HeadTailProperties
<1>2. out \in Seq(Byte)
  <2> HIDE DEF from
  <2> QED BY <1>1, StrippedType
<1>3. hold \in BOOLEAN
  BY Zenon
<1>4. SubSeq(out, 1, Len(out) - 1) \in Seq(Byte)
  <2> HIDE DEF out
  <2> QED BY <1>2, SubSeqProperties
<1>5. AsciiIn(b, held) = [out |-> IF hold THEN SubSeq(out, 1, Len(out) - 1) ELSE out, held |-> hold]
  BY Zenon DEF AsciiIn
<1> HIDE DEF from, out, hold
<1> QED BY <1>2, <1>3, <1>4, <1>5

\* Without a \r at its end, nothing held before: just the pairs are stripped.
LEMMA AsciiWhole ==
  ASSUME NEW b \in Seq(Byte), b # <<>>, b[Len(b)] # "\r", NEW held \in BOOLEAN, ~held
  PROVE  AsciiIn(b, held).out = Stripped(b) /\ ~AsciiIn(b, held).held
<1> DEFINE from == IF held /\ b # <<>> /\ b[1] = "\n" THEN Tail(b) ELSE b
           out == Stripped(from)
           hold == from # <<>> /\ from[Len(from)] = "\r" /\ out # <<>>
<1>1. from = b
  OBVIOUS
<1>2. ~hold /\ out = Stripped(b)
  <2> HIDE DEF from
  <2> QED BY <1>1
<1>3. AsciiIn(b, held) = [out |-> IF hold THEN SubSeq(out, 1, Len(out) - 1) ELSE out, held |-> hold]
  BY Zenon DEF AsciiIn
<1> HIDE DEF from, out, hold
<1> QED BY <1>2, <1>3

\* The upload behind a chunk of n bytes.
Behind(u, ascii, n, ok) ==
  LET b == SubSeq(u.rest, 1, n)
      a == IF ascii THEN AsciiIn(b, u.held) ELSE [out |-> b, held |-> u.held]
  IN  [u EXCEPT !.rest = SubSeq(@, n + 1, Len(@)), !.held = a.held,
                !.cut = @ \/ (ascii /\ b[n] = "\r"),
                !.stored = IF ok THEN @ \o a.out ELSE @,
                !.end = IF ok THEN @ ELSE "failed"]

\* A chunk that is written moves its bytes from what is to come to what is done.
LEMMA ChunkMoves ==
  ASSUME NEW u \in UpT, NEW ascii \in BOOLEAN, NEW n \in 1..Len(u.rest), NEW ok \in BOOLEAN
  PROVE  /\ Behind(u, ascii, n, ok) \in UpT
         /\ ~ok => Behind(u, ascii, n, ok).end = "failed"
         /\ ok => Behind(u, ascii, n, ok).end = u.end
         /\ SubSeq(u.rest, 1, n) \in Seq(Byte)
         /\ ok => \A done \in Seq(Byte) : SoFar(ascii, u, done) =>
                    SoFar(ascii, Behind(u, ascii, n, ok), done \o SubSeq(u.rest, 1, n))
<1> DEFINE b == SubSeq(u.rest, 1, n)
           a == IF ascii THEN AsciiIn(b, u.held) ELSE [out |-> b, held |-> u.held]
           r == SubSeq(u.rest, n + 1, Len(u.rest))
           k == u.cut \/ (ascii /\ b[n] = "\r")
           w == IF ok THEN u.stored \o a.out ELSE u.stored
           e == IF ok THEN u.end ELSE "failed"
           v == Behind(u, ascii, n, ok)
<1>1. /\ u.all \in Seq(Byte) /\ u.rest \in Seq(Byte) /\ u.stored \in Seq(Byte)
      /\ u.held \in BOOLEAN /\ u.cut \in BOOLEAN
      /\ u.end \in {"open", "eof", "reset", "failed"}
  BY UpFields
<1>2. Len(u.rest) \in Nat /\ n \in Nat /\ n >= 1 /\ n <= Len(u.rest)
  BY <1>1
<1>3. b \in Seq(Byte) /\ Len(b) = n
  BY <1>1, <1>2, SubSeqProperties
<1>4. r \in Seq(Byte) /\ u.rest = b \o r
  <2>1. r \in Seq(Byte)
    BY <1>1, <1>2, SubSeqProperties
  <2>2. b \o r = SubSeq(u.rest, 1, Len(u.rest))
    BY <1>1, <1>2, ConcatAdjacentSubSeq
  <2> QED BY <1>1, <2>1, <2>2, SubSeqFull
<1>5. a.out \in Seq(Byte) /\ a.held \in BOOLEAN
  <2> HIDE DEF b
  <2>1. CASE ascii
    BY <1>1, <1>3, <2>1, AsciiType
  <2>2. CASE ~ascii
    BY <1>1, <1>3, <2>2
  <2> QED BY <2>1, <2>2
<1>6. v = [u EXCEPT !.rest = r, !.held = a.held, !.cut = k, !.stored = w, !.end = e]
  BY Zenon DEF Behind
<1>7. w \in Seq(Byte) /\ k \in BOOLEAN /\ e \in {"open", "eof", "reset", "failed"}
  <2>1. w \in Seq(Byte)
    <3> HIDE DEF a
    <3> QED BY <1>1, <1>5, ConcatProperties
  <2>2. k \in BOOLEAN
    BY Zenon
  <2> QED BY <1>1, <2>1, <2>2
<1>8. v \in UpT /\ v.rest = r /\ v.held = a.held /\ v.cut = k /\ v.stored = w /\ v.end = e /\ v.all = u.all
  <2> HIDE DEF v, r, a, k, w, e
  <2> QED BY <1>4, <1>5, <1>6, <1>7 DEF UpT
<1>9. ASSUME ok, NEW done \in Seq(Byte), SoFar(ascii, u, done) PROVE SoFar(ascii, v, done \o b)
  <2>1. v.all = (done \o b) \o v.rest
    <3> HIDE DEF v, r, b
    <3>1. (done \o b) \o r = done \o (b \o r)
      BY <1>3, <1>4, ConcatAssociative
    <3> QED BY <1>4, <1>8, <1>9, <3>1 DEF SoFar
  <2>2. ASSUME ~ascii PROVE v.stored = done \o b
    <3>1. w = u.stored \o b
      BY <1>9, <2>2
    <3> HIDE DEF v, w, b
    <3> QED BY <1>8, <1>9, <2>2, <3>1 DEF SoFar
  <2>3. ASSUME ascii, ~v.cut
        PROVE  /\ ~v.held /\ v.stored = Stripped(done \o b)
               /\ done \o b = <<>> \/ (done \o b)[Len(done \o b)] # "\r"
    <3>1. ~u.cut /\ b[n] # "\r"
      <4>1. v.cut = k
        BY <1>8
      <4> HIDE DEF v
      <4> QED BY <2>3, <4>1, Zenon
    <3>2. ~u.held /\ u.stored = Stripped(done) /\ (done = <<>> \/ done[Len(done)] # "\r")
      BY <1>9, <2>3, <3>1 DEF SoFar
    <3>3. b # <<>> /\ b[Len(b)] # "\r"
      <4> HIDE DEF b
      <4> QED BY <1>2, <1>3, <3>1
    <3>4. a.out = Stripped(b) /\ ~a.held
      <4>1. a = AsciiIn(b, u.held)
        <5> HIDE DEF b
        <5> QED BY <2>3
      <4> HIDE DEF a, b
      <4> QED BY <1>1, <1>3, <3>2, <3>3, <4>1, AsciiWhole
    <3>5. Stripped(done \o b) = Stripped(done) \o Stripped(b)
      <4> HIDE DEF b
      <4> QED BY <1>3, <1>9, <3>2, StrippedCut
    <3>6. w = u.stored \o a.out
      BY <1>9
    <3>7. (done \o b)[Len(done \o b)] # "\r"
      <4>1. /\ Len(done) \in Nat /\ Len(done \o b) = Len(done) + Len(b)
            /\ \A i \in 1..(Len(done) + Len(b)) :
                 (done \o b)[i] = IF i <= Len(done) THEN done[i] ELSE b[i - Len(done)]
        BY <1>3, <1>9, ConcatProperties
      <4> DEFINE z == Len(done) + Len(b)
      <4>2. z \in 1..z /\ ~(z <= Len(done)) /\ z - Len(done) = Len(b)
        <5> HIDE DEF b
        <5> QED BY <1>2, <1>3, <4>1
      <4>3. (done \o b)[z] = b[Len(b)]
        <5> HIDE DEF b
        <5> QED BY <4>1, <4>2
      <4> HIDE DEF b
      <4> QED BY <3>3, <4>1, <4>3
    <3> HIDE DEF v, w, a, b
    <3> QED BY <1>8, <3>2, <3>4, <3>5, <3>6, <3>7
  <2> HIDE DEF v, b
  <2> QED BY <2>1, <2>2, <2>3 DEF SoFar
<1> HIDE DEF v, b
<1>10. (~ok => v.end = "failed") /\ (ok => v.end = u.end)
  BY <1>8
<1>11. ok => \A done \in Seq(Byte) : SoFar(ascii, u, done) => SoFar(ascii, v, done \o b)
  BY <1>9
<1>12. v \in UpT /\ b \in Seq(Byte)
  BY <1>3, <1>8
<1> QED BY <1>10, <1>11, <1>12, Zenon DEF v, b

\* The upload of one slot steps; the other slots keep theirs.
UpMoves(s, a, u, p, t) ==
  /\ up' = Set(up, s, u) /\ told' = Set(told, s, t) /\ sess'[s].ascii = a /\ ph'[s] = p
  /\ \A r \in Slot \ {s} : sess'[r] = sess[r] /\ ph'[r] = ph[r]

LEMMA OneUploadSteps ==
  ASSUME UpInv, NEW s \in Slot, NEW a, NEW u \in UpT, NEW p, NEW t \in {"none", "wrong at a cut"},
         OnItsWay(a, u, p), UpMoves(s, a, u, p, t)
  PROVE  UpInv'
<1>1. up' \in [Slot -> UpT] /\ told' \in [Slot -> {"none", "wrong at a cut"}]
  BY DEF UpInv, UpMoves, Set
<1>2. ASSUME NEW r \in Slot PROVE OnItsWay(sess'[r].ascii, up'[r], ph'[r])
  <2>1. CASE r = s
    <3>1. up'[r] = u /\ sess'[r].ascii = a /\ ph'[r] = p
      BY <2>1 DEF UpInv, UpMoves, Set
    <3> QED BY <3>1
  <2>2. CASE r # s
    <3>1. up'[r] = up[r] /\ sess'[r] = sess[r] /\ ph'[r] = ph[r]
      BY <2>2 DEF UpInv, UpMoves, Set
    <3> QED BY <3>1 DEF UpInv
  <2> QED BY <2>1, <2>2
<1>3. (\A r \in Slot : OnItsWay(sess[r].ascii, up[r], ph[r]))'
  BY <1>2 DEF OnItsWay, SoFar
<1> QED BY <1>1, <1>3 DEF UpInv

\* Without a transfer there is nothing to say.
LEMMA Idle == ASSUME NEW a, NEW u, NEW p, p \notin {"xfer", "close"} PROVE OnItsWay(a, u, p)
BY DEF OnItsWay

LEMMA NoUploadType == NoUpload \in UpT
BY DEF NoUpload, UpT

LEMMA UpStarts == Init => UpInv
<1> SUFFICES ASSUME Init PROVE UpInv
  OBVIOUS
<1>1. up \in [Slot -> UpT] /\ told \in [Slot -> {"none", "wrong at a cut"}]
  BY NoUploadType DEF Init
<1>2. ASSUME NEW s \in Slot PROVE OnItsWay(sess[s].ascii, up[s], ph[s])
  <2>1. ph[s] = "read"
    BY DEF Init
  <2> QED BY <2>1, Idle
<1> QED BY <1>1, <1>2 DEF UpInv

\* Every step of a session, of the timers and of the clients keeps it.
LEMMA UpNext == SessInv /\ UpInv /\ [Next]_vars => UpInv'
<1> SUFFICES ASSUME SessInv, UpInv, [Next]_vars PROVE UpInv'
  OBVIOUS
<1>u. UNCHANGED <<up, told, sess, ph>> => UpInv'
  BY DEF UpInv, OnItsWay, SoFar
<1>1. CASE UNCHANGED vars
  BY <1>1, <1>u DEF vars, sessVars
<1>2. CASE (TurnAway /\ UNCHANGED sessVars) \/ Timers
  BY <1>2, <1>u DEF Timers, sessVars
<1>3. ASSUME NEW s \in Slot, Session(s) \/ Client(s) PROVE UpInv'
  <2> DEFINE a == sess[s].ascii
             u == up[s]
  <2>t. /\ u \in UpT /\ told[s] \in {"none", "wrong at a cut"} /\ a \in BOOLEAN
        /\ OnItsWay(a, u, ph[s])
    BY DEF SessInv, SessType, SessT, UpInv
  <2>s. /\ u.rest \in Seq(Byte) /\ <<>> \in Seq(Byte)
        /\ u.end \in {"open", "eof", "reset", "failed"}
    <3>1. <<>> \in Seq(Byte)
      OBVIOUS
    <3> HIDE DEF u
    <3> QED BY <2>t, <3>1, UpFields, Zenon
  <2>f. up = Set(up, s, u) /\ told = Set(told, s, told[s])
    BY DEF UpInv, Set
  <2>g. \A x : sess' = Set(sess, s, x) => sess'[s] = x /\ \A r \in Slot \ {s} : sess'[r] = sess[r]
    BY DEF SessInv, SessType, Set
  <2>h. \A p : ph' = Set(ph, s, p) => ph'[s] = p /\ \A r \in Slot \ {s} : ph'[r] = ph[r]
    BY DEF SessInv, SessType, Set
  <2>i. ASSUME NEW v \in UpT, NEW t \in {"none", "wrong at a cut"}, NEW p,
               p \notin {"xfer", "close"}, ph' = Set(ph, s, p),
               sess' = sess \/ \E x : sess' = Set(sess, s, x),
               up' = Set(up, s, v), told' = Set(told, s, t)
        PROVE  UpInv'
    <3>1. UpMoves(s, sess'[s].ascii, v, p, t)
      BY <2>g, <2>h, <2>i DEF UpMoves
    <3>2. OnItsWay(sess'[s].ascii, v, p)
      BY <2>i, Idle
    <3> QED BY <2>i, <3>1, <3>2, OneUploadSteps
  <2>j. ASSUME NEW v \in UpT, NEW p, OnItsWay(a, v, p), UNCHANGED <<sess, told>>,
               ph' = Set(ph, s, p) \/ (ph' = ph /\ p = ph[s]), up' = Set(up, s, v)
        PROVE  UpInv'
    <3>1. UpMoves(s, a, v, p, told[s])
      BY <2>f, <2>h, <2>j DEF UpMoves
    <3> HIDE DEF a
    <3> QED BY <2>t, <2>j, <3>1, OneUploadSteps
  <2>1. CASE SessionEnds(s) \/ Connect(s)
    <3>1. /\ ph' = Set(ph, s, "read") /\ sess' = Set(sess, s, NewSession)
          /\ up' = Set(up, s, NoUpload) /\ told' = Set(told, s, "none")
      BY <2>1 DEF SessionEnds, Connect, Fresh
    <3> QED BY <2>i, <3>1, NoUploadType
  <2>2. CASE Handle(s)
    <3>1. told' = Set(told, s, "none") /\ up' = Set(up, s, u)
      BY <2>2, <2>f DEF Handle
    <3>2. ph[s] = "read" /\ ph = Set(ph, s, "read")
      BY <2>2 DEF Handle, Reading, Set, SessInv, SessType
    <3>3. /\ ph' = Set(ph, s, "rpc") \/ ph' = Set(ph, s, "read")
          /\ sess' = sess \/ \E x : sess' = Set(sess, s, x)
      BY <2>2, <3>2, Zenon DEF Handle
    <3> HIDE DEF u
    <3> QED BY <2>t, <2>i, <3>1, <3>3
  <2>3. ASSUME NEW ok \in BOOLEAN, Answer(s, ok) PROVE UpInv'
    <3>1. told' = Set(told, s, told[s]) /\ up' = Set(up, s, u)
      BY <2>3, <2>f DEF Answer
    <3>2. /\ ph' = Set(ph, s, "open") \/ ph' = Set(ph, s, "read")
          /\ \E x : sess' = Set(sess, s, x)
      BY <2>3, Zenon DEF Answer, Finish
    <3> HIDE DEF u
    <3> QED BY <2>t, <2>i, <3>1, <3>2
  <2>4. CASE OpenData(s)
    <3>1. told' = Set(told, s, told[s]) /\ (sess' = sess \/ \E x : sess' = Set(sess, s, x))
      BY <2>4, <2>f, Zenon DEF OpenData
    <3>2. CASE \E d : Begins(s, d)
      <4>1. PICK c \in Content \cup {<<>>} :
              up' = Set(up, s, IF peer[s] = "up" THEN [NoUpload EXCEPT !.all = c, !.rest = c, !.end = "open"]
                               ELSE [NoUpload EXCEPT !.all = c, !.end = "reset"])
        BY <3>2 DEF Begins
      <4>2. ph' = Set(ph, s, "xfer")
        BY <3>2 DEF Begins
      <4> DEFINE v == [NoUpload EXCEPT !.all = c, !.rest = c, !.end = "open"]
                 w == [NoUpload EXCEPT !.all = c, !.end = "reset"]
      <4>3. c \in Seq(Byte) /\ <<>> \in Seq(Byte)
        <5>1. Content \subseteq Seq(Byte)
          BY FtpAssumption
        <5>2. <<>> \in Seq(Byte)
          OBVIOUS
        <5> QED BY <5>1, <5>2, Zenon
      <4>4. v \in UpT /\ w \in UpT
        BY <4>3, Zenon DEF NoUpload, UpT
      <4>5. OnItsWay(sess'[s].ascii, w, "xfer")
        BY DEF OnItsWay, NoUpload
      <4>6. OnItsWay(sess'[s].ascii, v, "xfer")
        <5>1. v.all = c /\ v.rest = c /\ v.stored = <<>> /\ v.held = FALSE /\ <<>> \in Seq(Byte)
          BY DEF NoUpload
        <5>2. <<>> \o c = c
          BY <4>3, ConcatEmptySeq
        <5> HIDE DEF v
        <5>3. SoFar(sess'[s].ascii, v, <<>>)
          BY <5>1, <5>2, StrippedEmpty DEF SoFar
        <5> QED BY <5>1, <5>3 DEF OnItsWay
      <4>7. ASSUME NEW z \in {v, w}, up' = Set(up, s, z) PROVE UpInv'
        <5>1. UpMoves(s, sess'[s].ascii, z, "xfer", told[s])
          BY <2>g, <2>h, <3>1, <4>2, <4>7 DEF UpMoves
        <5>2. z \in UpT /\ OnItsWay(sess'[s].ascii, z, "xfer")
          BY <4>4, <4>5, <4>6, <4>7
        <5> QED BY <2>t, <5>1, <5>2, OneUploadSteps
      <4> HIDE DEF v, w
      <4> QED BY <4>1, <4>7 DEF v, w
    <3>3. CASE Finish(s) /\ UNCHANGED up
      <4>1. ph' = Set(ph, s, "read") /\ up' = Set(up, s, u)
        BY <2>f, <3>3 DEF Finish
      <4> HIDE DEF u
      <4> QED BY <2>t, <2>i, <3>1, <4>1
    <3> QED BY <2>4, <3>2, <3>3, Zenon DEF OpenData
  <2>5. CASE Sent(s)
    <3>1. /\ ph' = Set(ph, s, "read") /\ sess' = sess
          /\ up' = Set(up, s, NoUpload) /\ told' = Set(told, s, told[s])
      BY <2>5, <2>f DEF Sent, Finish
    <3> QED BY <2>t, <2>i, <3>1, NoUploadType
  <2>6. ASSUME NEW n \in 1..BUF, Chunk(s, n) PROVE UpInv'
    <3> DEFINE b == SubSeq(u.rest, 1, n)
               V(ok) == Behind(u, a, n, ok)
    <3>1. PICK ok \in BOOLEAN : up' = Set(up, s, V(ok)) /\ ph' = Set(ph, s, IF ok THEN "xfer" ELSE "close")
      BY <2>6, Zenon DEF Chunk, Behind
    <3>2. ph[s] = "xfer" /\ UNCHANGED <<sess, told>> /\ n <= Len(u.rest)
      BY <2>6, Zenon DEF Chunk, Storing
    <3>3. n \in 1..Len(u.rest)
      <4>1. u.rest \in Seq(Byte) /\ BUF \in Nat
        BY <2>t, FtpAssumption DEF UpT
      <4> QED BY <3>2, <4>1
    <3>4. /\ V(ok) \in UpT /\ (~ok => V(ok).end = "failed") /\ (ok => V(ok).end = u.end)
          /\ ok => \A done \in Seq(Byte) : SoFar(a, u, done) => SoFar(a, V(ok), done \o b)
          /\ b \in Seq(Byte)
      <4> HIDE DEF u, a
      <4> QED BY <2>t, <3>3, ChunkMoves, Zenon
    <3> HIDE DEF V, b
    <3>5. OnItsWay(a, V(ok), IF ok THEN "xfer" ELSE "close")
      <4>1. CASE ~ok
        BY <3>4, <4>1 DEF OnItsWay
      <4>2. CASE ok /\ u.end \in {"open", "eof"}
        <5>1. PICK done \in Seq(Byte) : SoFar(a, u, done)
          BY <2>t, <3>2, <4>2 DEF OnItsWay
        <5>2. SoFar(a, V(ok), done \o b) /\ done \o b \in Seq(Byte)
          <6> HIDE DEF a, u
          <6> QED BY <3>4, <4>2, <5>1, ConcatProperties
        <5> HIDE DEF a, u
        <5> QED BY <4>2, <5>2 DEF OnItsWay
      <4>3. CASE ok /\ u.end \notin {"open", "eof"}
        <5> HIDE DEF a, u
        <5> QED BY <3>4, <4>3 DEF OnItsWay
      <4> QED BY <4>1, <4>2, <4>3
    <3> HIDE DEF a, u
    <3> QED BY <2>j, <3>1, <3>2, <3>4, <3>5
  <2>7. CASE StreamEnds(s)
    <3>1. /\ u.rest = <<>> /\ ph[s] = "xfer" /\ ph' = Set(ph, s, "close") /\ UNCHANGED <<sess, told>>
          /\ up' = Set(up, s, u)
      BY <2>7, <2>f DEF StreamEnds, Storing
    <3> HIDE DEF a, u
    <3>2. OnItsWay(a, u, "close")
      BY <2>t, <3>1 DEF OnItsWay
    <3> QED BY <2>t, <2>j, <3>1, <3>2
  <2>8. ASSUME NEW ok \in BOOLEAN, CloseFile(s, ok) PROVE UpInv'
    <3> DEFINE t == IF ~ok \/ u.end # "eof" \/ u.stored = Meant(s) THEN "none"
                    ELSE IF u.cut THEN "wrong at a cut" ELSE "wrong"
    <3>1. /\ ph[s] = "close" /\ ph' = Set(ph, s, "read") /\ sess' = sess
          /\ up' = Set(up, s, NoUpload) /\ told' = Set(told, s, t)
      BY <2>8 DEF CloseFile, Finish
    <3>2. t \in {"none", "wrong at a cut"}
      <4> SUFFICES ASSUME u.end = "eof", ~u.cut PROVE u.stored = Meant(s)
        BY Zenon
      <4>1. PICK done \in Seq(Byte) : SoFar(a, u, done)
        BY <2>t, <3>1 DEF OnItsWay
      <4>2. u.rest = <<>>
        BY <2>t, <3>1 DEF OnItsWay
      <4>3. u.all = done
        <5>1. done \o <<>> = done
          BY ConcatEmptySeq
        <5> QED BY <4>1, <4>2, <5>1 DEF SoFar
      <4>4. u.stored = IF a THEN Stripped(done) ELSE done
        BY <4>1 DEF SoFar
      <4> QED BY <4>3, <4>4, Zenon DEF Meant
    <3> HIDE DEF t
    <3> QED BY <2>i, <3>1, <3>2, NoUploadType
  <2>9. CASE DataConnect(s) \/ \E c \in Commands[s] : SendLine(s, c)
    BY <2>9, <1>u, Zenon DEF DataConnect, SendLine
  <2>10. ASSUME NEW v \in UpT, UNCHANGED <<sess, ph, told>>, up' = Set(up, s, v), v.all = u.all,
                v.stored = u.stored, v.held = u.held, v.cut = u.cut,
                \/ v.end = "reset"
                \/ v.end = u.end /\ v.rest = u.rest
                \/ ph[s] = "xfer" /\ u.end = "open" /\ v.rest = u.rest
         PROVE  UpInv'
    <3>1. OnItsWay(a, v, ph[s])
      <4> HIDE DEF a, u
      <4>1. CASE v.end = "reset"
        BY <4>1 DEF OnItsWay
      <4>2. CASE v.end = u.end /\ v.rest = u.rest
        BY <2>t, <2>10, <4>2 DEF OnItsWay, SoFar
      <4>3. CASE ph[s] = "xfer" /\ u.end = "open" /\ v.rest = u.rest
        <5>1. PICK done \in Seq(Byte) : SoFar(a, u, done)
          BY <2>t, <4>3 DEF OnItsWay
        <5>2. SoFar(a, v, done)
          BY <2>10, <4>3, <5>1 DEF SoFar
        <5> QED BY <4>3, <5>2 DEF OnItsWay
      <4> QED BY <2>10, <4>1, <4>2, <4>3
    <3> HIDE DEF a, u
    <3> QED BY <2>j, <2>10, <3>1
  <2>11. CASE DataEnds(s)
    <3>1. PICK e \in {"eof", "reset"} :
            up' = Set(up, s, [u EXCEPT !.end = e, !.rest = IF e = "eof" THEN @ ELSE <<>>])
      BY <2>11 DEF DataEnds
    <3> DEFINE v == [u EXCEPT !.end = e, !.rest = IF e = "eof" THEN @ ELSE <<>>]
    <3>2. ph[s] = "xfer" /\ u.end = "open" /\ UNCHANGED <<sess, ph, told>>
      BY <2>11 DEF DataEnds, Storing
    <3>3. /\ v \in UpT /\ v.all = u.all /\ v.stored = u.stored /\ v.held = u.held /\ v.cut = u.cut
          /\ v.end = "reset" \/ v.rest = u.rest
      <4> DEFINE r == IF e = "eof" THEN u.rest ELSE <<>>
      <4>1. r \in Seq(Byte) /\ (e = "reset" \/ r = u.rest)
        BY <2>s
      <4>2. v = [u EXCEPT !.end = e, !.rest = r]
        BY Zenon
      <4> HIDE DEF u, r, v
      <4> QED BY <2>t, <4>1, <4>2 DEF UpT
    <3>4. up' = Set(up, s, v)
      BY <3>1
    <3> HIDE DEF v, u
    <3> QED BY <2>10, <3>2, <3>3, <3>4
  <2>12. CASE ClientGoes(s)
    <3> DEFINE v == [u EXCEPT !.end = IF @ = "open" THEN "reset" ELSE @,
                              !.rest = IF u.end = "open" THEN <<>> ELSE @]
    <3>1. up' = Set(up, s, v) /\ UNCHANGED <<sess, ph, told>>
      BY <2>12 DEF ClientGoes
    <3>2. /\ v \in UpT /\ v.all = u.all /\ v.stored = u.stored /\ v.held = u.held /\ v.cut = u.cut
          /\ v.end = "reset" \/ (v.end = u.end /\ v.rest = u.rest)
      <4> DEFINE r == IF u.end = "open" THEN <<>> ELSE u.rest
                 e == IF u.end = "open" THEN "reset" ELSE u.end
      <4>1. /\ r \in Seq(Byte) /\ e \in {"open", "eof", "reset", "failed"}
            /\ e = "reset" \/ (e = u.end /\ r = u.rest)
        BY <2>s
      <4>2. v = [u EXCEPT !.end = e, !.rest = r]
        BY Zenon
      <4> HIDE DEF u, r, e, v
      <4> QED BY <2>t, <4>1, <4>2 DEF UpT
    <3> HIDE DEF v, u
    <3> QED BY <2>10, <3>1, <3>2
  <2> QED BY <1>3, <2>1, <2>2, <2>3, <2>4, <2>5, <2>6, <2>7, <2>8, <2>9, <2>11, <2>12
         DEF Session, Client
<1> QED BY <1>1, <1>2, <1>3 DEF Next

\* An upload that is answered with 226 is stored as it was meant, unless a chunk
\* of an ASCII upload ended with \r.
THEOREM UploadStored == Spec => []UploadExact
<1>1. UpInv => UploadExact
  BY DEF UpInv, UploadExact
<1> QED BY <1>1, SessStarts, SessNext, UpStarts, UpNext, PTL DEF Spec
=============================================================================
