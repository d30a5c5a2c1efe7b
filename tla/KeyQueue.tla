------------------------------ MODULE KeyQueue ------------------------------
(***************************************************************************)
(* What the keyboard driver promises the shell: a bounded first-in         *)
(* first-out queue of characters.  A key struck while the queue is full is *)
(* lost, which is a stuttering step here.                                  *)
(***************************************************************************)
EXTENDS Naturals, Sequences

CONSTANTS Char, Capacity, NUL

VARIABLES
    queue,      \* the characters struck and not yet handed to the shell
    got         \* the character handed over last

Init == queue = <<>> /\ got = NUL

Put(ch) ==
    /\ Len(queue) < Capacity
    /\ queue' = Append(queue, ch)
    /\ UNCHANGED got

Get ==
    /\ queue # <<>>
    /\ got' = Head(queue)
    /\ queue' = Tail(queue)

Next == Get \/ \E ch \in Char : Put(ch)

Spec == Init /\ [][Next]_<<queue, got>>

=============================================================================
