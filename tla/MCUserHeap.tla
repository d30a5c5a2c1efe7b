----------------------------- MODULE MCUserHeap -----------------------------
(***************************************************************************)
(* The heap lies behind the kernel image, which is linked at 0x100000: far *)
(* below USER_SPACE_START.                                                 *)
(***************************************************************************)
EXTENDS UserHeap

=============================================================================
