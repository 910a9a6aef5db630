------------------------------ MODULE MCShell ------------------------------
(* Two commands with a common first letter, one of which has a subcommand.  *)
EXTENDS Shell

MCTree == {<< <<"a", "b">> >>, << <<"a", "a">> >>, << <<"a", "b">>, <<"b">> >>}

MCGroups ==
  {<<k>> : k \in {"a", "b", " ", "BS", "Left", "CtrlRight", "Up", "Down", "Home", "TAB", "CRLF"}}
    \cup {<<"a", "CR">>, <<"a", "CR", "b", "LF">>, <<"a", "b">>}
=============================================================================
