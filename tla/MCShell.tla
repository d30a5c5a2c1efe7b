------------------------------ MODULE MCShell ------------------------------
(***************************************************************************)
(* The real boot script and program table, and lines of seven letters and  *)
(* blanks: more words than argv holds.                                     *)
(***************************************************************************)
EXTENDS Shell

MCScript == <<
    "mkdir", Blank, "/var/log", NL,
    "touch", Blank, "/var/log/boot.log", NL,
    "append", Blank, "/var/log/boot.log", Blank, "boot", Blank, "sequence", Blank, "complete", NL,
    "service", Blank, "start", Blank, "netd" >>

=============================================================================
