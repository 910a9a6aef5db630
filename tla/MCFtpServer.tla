---------------------------- MODULE MCFtpServer ----------------------------
(* Small instances of FtpServer: one slot whose clients use the commands   *)
(* that leave something for a later one, one whose clients come and go.    *)
EXTENDS FtpServer, TLC

CONSTANTS s1, s2

Cmd(n, a) == [name |-> n, arg |-> a]
SessionCommands ==
  {Cmd("USER", "anonymous"), Cmd("PASS", "good"), Cmd("TYPE", "A"),
   Cmd("PORT", "good"), Cmd("REST", 1)}
  \cup {Cmd(n, 0) : n \in {"PASV", "RETR", "STOR", "RNFR", "RNTO"}}

MCCommands == (s1 :> SessionCommands @@ s2 :> {Cmd("QUIT", 0)})
MCContent == {<<"\r", "x">>, <<"\r", "\n">>}

UploadCommands ==
  {Cmd("USER", "admin"), Cmd("PASS", "good"), Cmd("TYPE", "A"), Cmd("PASV", 0), Cmd("STOR", 0)}
MCUploadOnly == [s \in Slot |-> UploadCommands]
=============================================================================
