------------------------------ MODULE MCProcess ------------------------------
(***************************************************************************)
(* A small process table: a kernel thread and a few user slots.            *)
(***************************************************************************)
EXTENDS Process

\* Round is the loop of schedule(): idx = (cur + i) % PROC_MAX, i = 1 ..
ASSUME RoundIsLoopIndex ==
    \A c, i \in Slots :
        /\ Round(c, i) \in 1 .. ProcMax
        /\ (c + Round(c, i)) % ProcMax = i

=============================================================================
