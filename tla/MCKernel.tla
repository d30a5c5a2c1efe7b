------------------------------ MODULE MCKernel ------------------------------
(***************************************************************************)
(* A small kernel: few slots, a short second.                              *)
(***************************************************************************)
EXTENDS Kernel

=============================================================================
