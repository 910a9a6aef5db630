---------------------------- MODULE MCStorageRpc ----------------------------
(* Small instances of StorageRpc: a file of two chunks, two HTTP tasks and  *)
(* two FTP sessions, of which those of one cast are at work.               *)
EXTENDS StorageRpc, TLC

MCWeb == {"w1", "w2"}
MCFtp == {"s1", "s2"}
MCSize == [f \in File |-> 2]

\* Two downloads beside other tasks; a download beside every FTP job; an upload
\* and a RETR beside whatever writes FTP_RES in another session.
MCCasts ==
  { "w1" :> {"get"} @@ "w2" :> {"get"} @@ "nobody" :> {"other"},
    "w1" :> {"get"} @@ "s1" :> {"retr", "stor"},
    "s1" :> {"retr", "stor"} @@ "s2" :> {"stor", "path"} }
\* Two uploads; two downloads; one RETR.
FtpCasts == {"s1" :> {"stor"} @@ "s2" :> {"stor", "path"}}
WebCasts == {"w1" :> {"get"} @@ "w2" :> {"get"}}
RetrCasts == {"s1" :> {"retr"}}
=============================================================================
