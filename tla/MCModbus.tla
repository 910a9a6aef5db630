------------------------------ MODULE MCModbus ------------------------------
(* Instance of Modbus with requests that meet every branch of the server:   *)
(* registers of each kind, ranges that end at and run past the last one,    *)
(* the limits of quantities and byte counts.                                *)
EXTENDS Modbus

Request(fc, a, v) ==
  [fc |-> fc, short |-> FALSE, addr |-> a, val |-> v, count |-> 0,
   data |-> << >>]
Block(fc, a, q, n, bytes) ==
  [fc |-> fc, short |-> FALSE, addr |-> a, val |-> q, count |-> n,
   data |-> bytes]
Bare(fc) == [Request(fc, 0, 0) EXCEPT !.short = TRUE]
Adu(unit, proto, pdu) == [unit |-> unit, proto |-> proto, pdu |-> pdu]

TcpPdus ==
  {Request(6, 0, 257), Request(5, 7, 1), Request(6, 16, 1), Request(8, 10, 0),
   Block(15, 6, 4, 1, <<5>>), Block(16, 15, 2, 5, <<1, 0, 0, 1, 9>>),
   Block(16, 16, 3, 6, <<0, 1, 0, 1, 0, 1>>), Bare(3)}
MCAdus == {Adu(1, 0, p) : p \in TcpPdus}
            \cup {Adu(0, 0, Request(6, 0, 2)), Adu(1, 1, Request(6, 0, 2))}

RtuPdus ==
  {Request(1, 0, 8), Request(1, 1, 8), Request(2, 15, 1), Request(3, 17, 1),
   Request(3, 5000, 1), Request(3, 0, 126), Request(4, 0, 6), Request(4, 6, 1),
   Request(5, 8, 1), Request(5, 0, 0), Request(6, 18, 1), Request(6, 5, 1),
   Request(6, 14, 30000), Request(6, 17, 2), Request(8, 0, 0), Request(8, 11, 0),
   Request(8, 1, 0), Request(7, 0, 0), Block(15, 0, 9, 2, <<255, 1>>),
   Block(15, 0, 0, 1, <<0>>), Block(15, 0, 8, 2, <<0, 0>>),
   Block(16, 5000, 1, 2, <<0, 1>>), Block(16, 0, 2, 2, <<0, 1>>),
   Block(16, 0, 126, 2, <<0, 1>>), Block(16, 0, 1, 4, <<0, 1>>),
   Bare(1), Bare(5), Bare(6), Bare(8), Bare(15), Bare(16)}
MCRtuFrames ==
  {[kind |-> "good", unit |-> 1, pdu |-> p] : p \in RtuPdus}
    \cup {[kind |-> "good", unit |-> u, pdu |-> Request(6, 0, 1)] : u \in {0, 2}}
    \cup {[kind |-> k, unit |-> 1, pdu |-> Request(6, 0, 1)] :
            k \in {"length", "crc"}}

Field(a, v, ok) == [addr |-> a, val |-> v, valid |-> ok]
MCWebForms ==
  {<<Field(10, 10, TRUE), Field(13, 7, TRUE), Field(9, 0, FALSE)>>,
   <<Field(8, 115200, TRUE), Field(9, 2, TRUE)>>}
MCWebWrites == {<<0, 128>>, <<5, 0>>, <<16, 1>>, <<17, 0>>, <<17, 1>>}

Typed(name, args) == [name |-> name, args |-> args]
MCShellCommands ==
  {Typed("do set", <<8, 1>>), Typed("do set", <<9, 1>>), Typed("reg", <<0, 128>>),
   Typed("reg", <<17, 1>>), Typed("reg", <<18, 0>>), Typed("baud", <<115200>>),
   Typed("sid", <<0>>), Typed("sid", <<247>>), Typed("id", <<2047>>), Typed("bps", <<125>>),
   Typed("ip", <<10, 0, 0, 7>>), Typed("save", <<>>), Typed("factory", <<>>),
   Typed("reboot", <<>>)}
=============================================================================
