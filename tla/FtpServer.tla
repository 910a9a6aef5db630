------------------------------ MODULE FtpServer ------------------------------
(***************************************************************************)
(* The FTP sessions (ftpd.rs) in their pool.  A session handles the lines  *)
(* of its control connection one by one; a transfer asks the storage task, *)
(* opens the data connection and moves bytes.  The storage task's answers  *)
(* are a choice here (StorageRpc models them); so is what the client does. *)
(***************************************************************************)
EXTENDS TcpPool, Sequences

CONSTANTS
  Commands,   \* for each slot, the command lines its clients send
  Pipelined,  \* slots whose clients do not wait for the reply to a line
  MaxLines,   \* bound: lines sent and not yet handled
  Content,    \* uploads
  BUF         \* size of the upload buffer (512)

Byte == {"x", "\r", "\n"}
Line == UNION {Commands[s] : s \in Slot}

ASSUME FtpAssumption ==
  /\ BUF \in Nat \ {0}
  /\ \A c \in Line : c.name = "REST" => c.arg \in Nat
  /\ Content \subseteq Seq(Byte)

VARIABLES
  peer,     \* the control connection: "up" or "fin"
  lines,    \* lines of the client that are not yet handled
  sess,     \* struct Session
  ph,       \* where the session is: "read", "rpc", "open", "xfer", "close"
  cur,      \* the command being handled
  data,     \* the data socket
  up,       \* the upload: what the client sends, what was read and stored
  told,     \* the last upload was answered with 226 and is wrong (history)
  offered   \* what is still to be used: REST and RNFR (history)

sessVars == <<peer, lines, sess, ph, cur, data, up, told, offered>>
vars == <<poolVars, sessVars>>

NoCmd == [name |-> "none"]
\* port is the active-mode target: "none" or "set"; passive, that there is a port.
NewSession ==
  [authed |-> FALSE, anon |-> FALSE, ascii |-> FALSE, rest |-> 0, pending |-> FALSE,
   port |-> "none", passive |-> FALSE, quit |-> FALSE]
\* latest: it belongs to the last PASV or PORT; uses: transfers it carried.
Closed == [state |-> "closed", latest |-> FALSE, uses |-> 0]
NoUpload == [all |-> <<>>, rest |-> <<>>, end |-> "eof", held |-> FALSE, stored |-> <<>>, cut |-> FALSE]
Nothing == [rest |-> FALSE, from |-> FALSE, port |-> FALSE]

Set(f, s, v) == [f EXCEPT ![s] = v]

-----------------------------------------------------------------------------
(* The ASCII conversion of an upload chunk.                                *)

\* Mutant of AsciiIn: every \r is stripped.
AsciiInAll(buf, held) ==
  [out |-> SelectSeq(buf, LAMBDA b : b # "\r"), held |-> FALSE]

CrLf(c, i) == c[i] = "\r" /\ i < Len(c) /\ c[i + 1] = "\n"

\* The bytes of c without the \r of each \r\n: what the loop over a buffer keeps.
\* Of the whole stream, it is what an ASCII upload means.
Stripped(c) ==
  LET upTo[i \in 0..Len(c)] ==
        IF i = 0 THEN <<>> ELSE IF CrLf(c, i) THEN upTo[i - 1] ELSE Append(upTo[i - 1], c[i])
  IN  upTo[Len(c)]

\* Strip the \r of \r\n; a \r at the end is held, and a \n behind it skipped.
AsciiIn(buf, held) ==
  LET from == IF held /\ buf # <<>> /\ buf[1] = "\n" THEN Tail(buf) ELSE buf
      out  == Stripped(from)
      hold == from # <<>> /\ from[Len(from)] = "\r" /\ out # <<>>
  IN  [out |-> IF hold THEN SubSeq(out, 1, Len(out) - 1) ELSE out, held |-> hold]

-----------------------------------------------------------------------------
(* The control connection.                                                 *)

Reading(s) == pool[s] = "serve" /\ ph[s] = "read"

\* The locals of session and the sockets, before and after a client.
Fresh(s, p) ==
  /\ peer' = Set(peer, s, p) /\ lines' = Set(lines, s, <<>>)
  /\ sess' = Set(sess, s, NewSession) /\ ph' = Set(ph, s, "read") /\ cur' = Set(cur, s, NoCmd)
  /\ data' = Set(data, s, Closed) /\ up' = Set(up, s, NoUpload)
  /\ told' = Set(told, s, "none") /\ offered' = Set(offered, s, Nothing)

\* A client connects: 220 and a fresh session.
Connect(s) == Take(s) /\ Fresh(s, "up")

\* Mutant of SessionEnds: an empty read is not taken for the end.
SessionEndsOnQuit(s) ==
  /\ Reading(s) /\ sess[s].quit
  /\ Leave(s) /\ Fresh(s, "fin")

\* session returns: the client closed and every line was handled, or QUIT was
\* handled; the lines behind it that were read with it are handled, the others
\* never read.
SessionEnds(s) ==
  /\ Reading(s)
  /\ sess[s].quit \/ (lines[s] = <<>> /\ peer[s] = "fin")
  /\ Leave(s) /\ Fresh(s, "fin")

\* Mutant of After: PASV leaves the target of an earlier PORT.
AfterPasvKeeps(x, c) ==
  CASE c.name = "USER" -> [x EXCEPT !.anon = c.arg = "anonymous", !.pending = FALSE]
    [] c.name = "PASS" -> [x EXCEPT !.authed = x.anon \/ c.arg = "good"]
    [] c.name = "PASV" -> [x EXCEPT !.passive = TRUE]
    [] c.name = "PORT" /\ c.arg = "good" -> [x EXCEPT !.port = "set"]
    [] OTHER -> x

\* The session after a command that needs no storage.
After(x, c) ==
  CASE c.name = "USER" -> [x EXCEPT !.anon = c.arg = "anonymous", !.pending = FALSE]
    [] c.name = "PASS" -> [x EXCEPT !.authed = x.anon \/ c.arg = "good"]
    [] c.name = "TYPE" -> [x EXCEPT !.ascii = c.arg = "A"]
    [] c.name = "PASV" -> [x EXCEPT !.port = "none", !.passive = TRUE]
    [] c.name = "PORT" /\ c.arg = "good" -> [x EXCEPT !.port = "set"]
    [] c.name = "REST" -> [x EXCEPT !.rest = c.arg]
    [] c.name = "QUIT" -> [x EXCEPT !.quit = TRUE]
    [] c.name = "RNTO" -> [x EXCEPT !.pending = FALSE]
    [] OTHER -> x

\* PASV aborts the data socket and arms its listener before the reply; a PORT
\* makes what the socket is from then on out of date.
DataAfter(d, c) ==
  CASE c.name = "PASV" -> [state |-> "listen", latest |-> TRUE, uses |-> 0]
    [] c.name = "PORT" /\ c.arg = "good" -> [d EXCEPT !.latest = FALSE]
    [] OTHER -> d

OfferedAfter(o, c) ==
  CASE c.name = "USER" -> [o EXCEPT !.from = FALSE]
    [] c.name = "REST" -> [o EXCEPT !.rest = c.arg > 0]
    [] c.name = "PASV" -> [o EXCEPT !.port = FALSE]
    [] c.name = "PORT" /\ c.arg = "good" -> [o EXCEPT !.port = TRUE]
    [] OTHER -> o

MayWrite(x) == x.authed /\ ~x.anon

\* The commands that ask the storage task, as far as the session may.
Asks(x, c) ==
  \/ c.name \in {"SIZE", "RNFR", "LIST"}
  \/ c.name = "RETR" /\ x.authed
  \/ c.name \in {"STOR", "APPE", "DELE"} /\ MayWrite(x)
  \/ c.name = "RNTO" /\ x.pending /\ MayWrite(x)

\* handle_command up to its reply, or up to its first request to storage.
Handle(s) ==
  LET c == Head(lines[s])
      x == sess[s]
  IN  /\ Reading(s) /\ lines[s] # <<>>
      /\ lines' = Set(lines, s, Tail(lines[s]))
      /\ told' = Set(told, s, "none")
      /\ \/ /\ Asks(x, c)
            /\ ph' = Set(ph, s, "rpc") /\ cur' = Set(cur, s, c)
            /\ UNCHANGED <<sess, data, offered>>
         \/ /\ ~Asks(x, c)
            /\ sess' = Set(sess, s, After(x, c))
            /\ data' = Set(data, s, DataAfter(data[s], c))
            /\ offered' = Set(offered, s, OfferedAfter(offered[s], c))
            /\ UNCHANGED <<ph, cur>>
      /\ UNCHANGED <<poolVars, peer, up>>

\* Back to the next line, behind the reply.
Finish(s) == ph' = Set(ph, s, "read") /\ cur' = Set(cur, s, NoCmd)

Transfers == {"LIST", "RETR", "STOR", "APPE"}

\* Mutant of Answered: a STOR leaves the restart position.
AnsweredKeeps(x, c, ok) ==
  CASE c.name = "RETR" -> [x EXCEPT !.rest = 0]
    [] c.name = "RNFR" /\ ok /\ MayWrite(x) -> [x EXCEPT !.pending = TRUE]
    [] c.name = "RNTO" -> [x EXCEPT !.pending = FALSE]
    [] OTHER -> x

\* The session behind the answer (or the 2.5 s) of the storage task.
Answered(x, c, ok) ==
  CASE c.name \in {"RETR", "STOR", "APPE"} -> [x EXCEPT !.rest = 0]
    [] c.name = "RNFR" /\ ok /\ MayWrite(x) -> [x EXCEPT !.pending = TRUE]
    [] c.name = "RNTO" -> [x EXCEPT !.pending = FALSE]
    [] OTHER -> x

OfferedAnswered(o, c, accepted) ==
  CASE c.name \in {"RETR", "STOR", "APPE"} -> [o EXCEPT !.rest = FALSE]
    [] c.name = "RNFR" /\ accepted -> [o EXCEPT !.from = TRUE]
    [] c.name = "RNTO" -> [o EXCEPT !.from = FALSE]
    [] OTHER -> o

Answer(s, ok) ==
  /\ pool[s] = "serve" /\ ph[s] = "rpc"
  /\ sess' = Set(sess, s, Answered(sess[s], cur[s], ok))
  /\ offered' = Set(offered, s, OfferedAnswered(offered[s], cur[s], ok /\ MayWrite(sess[s])))
  /\ IF ok /\ cur[s].name \in Transfers
     THEN ph' = Set(ph, s, "open") /\ UNCHANGED cur
     ELSE Finish(s)
  /\ UNCHANGED <<poolVars, peer, lines, data, up, told>>

-----------------------------------------------------------------------------
(* Transfers.                                                              *)

Begins(s, d) ==
  /\ data' = Set(data, s, [d EXCEPT !.uses = @ + 1])
  /\ ph' = Set(ph, s, "xfer")
  /\ \E c \in (IF cur[s].name \in {"STOR", "APPE"} THEN Content ELSE {<<>>}) :
       up' = Set(up, s, IF peer[s] = "up" THEN [NoUpload EXCEPT !.all = c, !.rest = c, !.end = "open"]
                        ELSE [NoUpload EXCEPT !.all = c, !.end = "reset"])
  /\ UNCHANGED cur

\* open_data: connect to the target of PORT, or wait up to 10 s for the client
\* to connect to the passive port.
OpenData(s) ==
  /\ pool[s] = "serve" /\ ph[s] = "open"
  /\ \/ /\ sess[s].port = "set"
        /\ sess' = Set(sess, s, [sess[s] EXCEPT !.port = "none"])
        /\ \/ Begins(s, [state |-> "open", latest |-> offered[s].port, uses |-> 0])
           \/ data' = Set(data, s, Closed) /\ Finish(s) /\ UNCHANGED up
     \/ /\ sess[s].port = "none"
        /\ \/ sess[s].passive /\ data[s].state = "open" /\ Begins(s, data[s])
           \/ /\ ~sess[s].passive \/ data[s].state # "open"
              /\ Finish(s) /\ UNCHANGED <<data, up>>
        /\ UNCHANGED sess
  /\ UNCHANGED <<poolVars, peer, lines, told, offered>>

\* LIST and RETR: the bytes are sent (StorageRpc) and our half is closed.
Sent(s) ==
  /\ pool[s] = "serve" /\ ph[s] = "xfer" /\ cur[s].name \in {"LIST", "RETR"}
  /\ Finish(s)
  /\ data' = Set(data, s, Closed)
  /\ up' = Set(up, s, NoUpload)
  /\ UNCHANGED <<poolVars, peer, lines, sess, told, offered>>

Storing(s) == pool[s] = "serve" /\ ph[s] = "xfer" /\ cur[s].name \in {"STOR", "APPE"}

\* STOR, APPE: a chunk is read, converted and written; a failed write ends it.
Chunk(s, n) ==
  LET u == up[s]
      b == SubSeq(u.rest, 1, n)
      a == IF sess[s].ascii THEN AsciiIn(b, u.held) ELSE [out |-> b, held |-> u.held]
  IN  /\ Storing(s) /\ n <= Len(u.rest)
      /\ \E ok \in BOOLEAN :
           /\ ok \/ a.out # <<>>
           /\ up' = Set(up, s,
                [u EXCEPT !.rest = SubSeq(@, n + 1, Len(@)), !.held = a.held,
                          !.cut = @ \/ (sess[s].ascii /\ b[n] = "\r"),
                          !.stored = IF ok THEN @ \o a.out ELSE @,
                          !.end = IF ok THEN @ ELSE "failed"])
           /\ ph' = Set(ph, s, IF ok THEN "xfer" ELSE "close")
      /\ UNCHANGED <<poolVars, peer, lines, sess, cur, data, told, offered>>

\* read returns 0 or an error.
StreamEnds(s) ==
  /\ Storing(s) /\ up[s].rest = <<>> /\ up[s].end # "open"
  /\ ph' = Set(ph, s, "close")
  /\ UNCHANGED <<poolVars, peer, lines, sess, cur, data, up, told, offered>>

\* What the upload means.
Meant(s) == IF sess[s].ascii THEN Stripped(up[s].all) ELSE up[s].all

\* The file is closed (451 unless all went well), then our half of the data connection.
CloseFile(s, ok) ==
  /\ pool[s] = "serve" /\ ph[s] = "close"
  /\ Finish(s)
  /\ told' = Set(told, s, IF ~ok \/ up[s].end # "eof" \/ up[s].stored = Meant(s) THEN "none"
                         ELSE IF up[s].cut THEN "wrong at a cut" ELSE "wrong")
  /\ data' = Set(data, s, Closed)
  /\ up' = Set(up, s, NoUpload)
  /\ UNCHANGED <<poolVars, peer, lines, sess, offered>>

-----------------------------------------------------------------------------
(* The clients.                                                            *)

Up(s) == pool[s] = "serve" /\ peer[s] = "up"

SendLine(s, c) ==
  /\ Up(s) /\ Len(lines[s]) < MaxLines
  /\ s \in Pipelined \/ (Reading(s) /\ lines[s] = <<>>)
  /\ lines' = Set(lines, s, Append(lines[s], c))
  /\ UNCHANGED <<poolVars, peer, sess, ph, cur, data, up, told, offered>>

DataConnect(s) ==
  /\ Up(s) /\ data[s].state = "listen"
  /\ data' = Set(data, s, [data[s] EXCEPT !.state = "open"])
  /\ UNCHANGED <<poolVars, peer, lines, sess, ph, cur, up, told, offered>>

\* The client closes the upload, or the connection is reset with what is unread.
DataEnds(s) ==
  /\ Storing(s) /\ up[s].end = "open"
  /\ \E e \in {"eof", "reset"} :
       up' = Set(up, s, [up[s] EXCEPT !.end = e, !.rest = IF e = "eof" THEN @ ELSE <<>>])
  /\ UNCHANGED <<poolVars, peer, lines, sess, ph, cur, data, told, offered>>

\* The client goes, with its data connection.
ClientGoes(s) ==
  /\ Up(s)
  /\ peer' = Set(peer, s, "fin")
  /\ up' = Set(up, s, [up[s] EXCEPT !.end = IF @ = "open" THEN "reset" ELSE @,
                                    !.rest = IF up[s].end = "open" THEN <<>> ELSE @])
  /\ UNCHANGED <<poolVars, lines, sess, ph, cur, data, told, offered>>

Init ==
  /\ PoolInit
  /\ peer = [s \in Slot |-> "fin"] /\ lines = [s \in Slot |-> <<>>]
  /\ sess = [s \in Slot |-> NewSession] /\ ph = [s \in Slot |-> "read"]
  /\ cur = [s \in Slot |-> NoCmd] /\ data = [s \in Slot |-> Closed]
  /\ up = [s \in Slot |-> NoUpload] /\ told = [s \in Slot |-> "none"]
  /\ offered = [s \in Slot |-> Nothing]

Session(s) ==
  \/ SessionEnds(s) \/ Handle(s) \/ \E ok \in BOOLEAN : Answer(s, ok)
  \/ OpenData(s) \/ Sent(s) \/ \E n \in 1..BUF : Chunk(s, n)
  \/ StreamEnds(s) \/ \E ok \in BOOLEAN : CloseFile(s, ok)

Timers == (Look \/ Disarm \/ HoldEnds \/ Tick \/ \E s \in Slot : Relisten(s)) /\ UNCHANGED sessVars

Client(s) ==
  \/ Connect(s) \/ (\E c \in Commands[s] : SendLine(s, c))
  \/ DataConnect(s) \/ DataEnds(s) \/ ClientGoes(s)

Next == (TurnAway /\ UNCHANGED sessVars) \/ Timers \/ \E s \in Slot : Session(s) \/ Client(s)

Spec == Init /\ [][Next]_vars

\* Tasks are polled when they are woken and time goes on.
FairSpec == Spec /\ WF_vars(Timers) /\ \A s \in Slot : WF_vars(Session(s))

-----------------------------------------------------------------------------
(* Properties.                                                             *)

\* FTP_BUSY counts the slots that serve: no way out of a session leaves it up.
BusyExact == FTP_BUSY = Cardinality(Serving)

\* The rejector listens only while the pool is full or within 50 ms of that: it
\* takes no client that comes later.
RejectWindow == rej = "armed" => sinceFull <= WINDOW

\* A transfer uses the connection of the last PASV or PORT, and none is used
\* for two transfers.
DataOnce == \A s \in Slot : pool[s] = "serve" /\ ph[s] = "xfer" => data[s].latest /\ data[s].uses = 1

\* REST counts for the next transfer only, RNFR for one RNTO of the same login.
OneShot ==
  \A s \in Slot : pool[s] = "serve" /\ ph[s] = "rpc" =>
    /\ cur[s].name \in {"RETR", "STOR"} /\ sess[s].rest > 0 => offered[s].rest
    /\ cur[s].name = "RNTO" => offered[s].from

\* An upload that the client closed and that is answered with 226 is in the
\* file as it was meant, unless a chunk of an ASCII upload ended with \r.
UploadExact == \A s \in Slot : told[s] # "wrong"

\* The same for every way to cut an ASCII upload into chunks, as the comment
\* "strip \r of \r\n pairs, hold a trailing \r for the next chunk" says.
AsciiUpload == \A s \in Slot : told[s] = "none"

\* A client that has gone gives its slot back: the task listens again.
SlotFreed == \A s \in Slot : pool[s] = "serve" /\ peer[s] = "fin" ~> pool[s] = "listen"
=============================================================================
