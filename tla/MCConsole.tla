----------------------------- MODULE MCConsole -----------------------------
(***************************************************************************)
(* A screen of two rows and three columns: a prompt and a full line wrap,  *)
(* and every second line scrolls.                                          *)
(***************************************************************************)
EXTENDS Console

MCPrompt == <<"$">>
MCOutputs == {<<NL, TAB>>}
MCWrites == {<<"o", NL>>, <<BS, "o", "o">>}

=============================================================================
