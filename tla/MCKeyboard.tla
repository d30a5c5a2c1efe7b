----------------------------- MODULE MCKeyboard -----------------------------
(***************************************************************************)
(* A short ring and a short command line: both fill up.                    *)
(***************************************************************************)
EXTENDS Keyboard

=============================================================================
