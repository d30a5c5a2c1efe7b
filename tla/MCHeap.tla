------------------------------- MODULE MCHeap -------------------------------
(***************************************************************************)
(* Small arenas for module Heap.  A block of 1..8 bytes takes 20 bytes of  *)
(* arena; a free block is split when more than 28 bytes of it are left.    *)
(***************************************************************************)
EXTENDS Heap

=============================================================================
