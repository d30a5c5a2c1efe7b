------------------------------- MODULE MCVfs -------------------------------
(***************************************************************************)
(* Vfs on three of its boot-time nodes: a directory, a file and a /proc    *)
(* entry.                                                                  *)
(***************************************************************************)
EXTENDS Vfs

MCNames == {"tmp", "motd", "proc", "null", "x", ".."}
MCChars == {"m", "a", "b", "space"}
MCPaths == {<<"tmp">>, <<"motd">>, <<"proc">>}
\* One path that a node stores whole, one that is cut, one that is refused.
MCUserPaths == {<<"motd">>, <<"tmp", "x">>, <<"..", "motd">>}
MCTexts == {<<"a">>, <<"b", "b">>}
MCModes == {{}, {"w"}, {"r", "w"}}
=============================================================================
