---------------------------- MODULE MCWebServer ----------------------------
(* Small instances of WebServer.                                           *)
EXTENDS WebServer

Req(m, p, n, close) ==
  [method |-> m, path |-> p, ok |-> TRUE, hdr |-> 3, clen |-> n, close |-> close,
   upgrade |-> FALSE, key |-> FALSE]
Upg(key) == [Req("GET", "ws", 0, FALSE) EXCEPT !.upgrade = TRUE, !.key = key]

MCRequest == {Req("GET", "page", 0, FALSE), Req("POST", "command", 1, FALSE),
              Req("POST", "command", 1, TRUE), Upg(TRUE), Upg(FALSE)}

Fr(op, form, key, pay) ==
  [fin |-> TRUE, opcode |-> op, form |-> form, key |-> key, payload |-> pay]
MCFrame == {Fr(1, 0, <<7, 2, 3, 4>>, <<1>>), Fr(9, 2, <<9, 8, 7, 6>>, <<5, 6>>), Fr(8, 0, <<>>, <<>>)}
\* With the 64-bit form of the length, which makes a frame of 11 bytes.
MCLongFrame == MCFrame \cup {Fr(2, 8, <<>>, <<5>>)}
=============================================================================
