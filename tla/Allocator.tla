------------------------------ MODULE Allocator ------------------------------
(***************************************************************************)
(* What a memory allocator promises its clients, whatever its data         *)
(* structures: the ranges it has handed out lie in the arena and share no  *)
(* byte, a range is handed out whole and taken back whole, and nothing but *)
(* a release of that very pointer ends a grant.  kmalloc may refuse        *)
(* (return NULL) and kfree may refuse (return 0): both leave the grants    *)
(* alone, and are stuttering steps here.                                   *)
(***************************************************************************)
EXTENDS Integers

CONSTANTS ArenaStart, ArenaEnd, Sizes

VARIABLE granted        \* the pointers handed out -> the size asked for

Overlap(p, n, q, m) == p < q + m /\ q < p + n

Init == granted = [p \in {} |-> 0]

Grant(p, n) ==
    /\ p \notin DOMAIN granted
    /\ p >= ArenaStart
    /\ p + n <= ArenaEnd
    /\ \A q \in DOMAIN granted : ~Overlap(p, n, q, granted[q])
    /\ granted' = [q \in DOMAIN granted \cup {p} |-> IF q = p THEN n ELSE granted[q]]

Release(p) ==
    /\ p \in DOMAIN granted
    /\ granted' = [q \in DOMAIN granted \ {p} |-> granted[q]]

Next ==
    \/ \E p \in ArenaStart .. ArenaEnd, n \in Sizes \ {0} : Grant(p, n)
    \/ \E p \in ArenaStart .. ArenaEnd : Release(p)

Spec == Init /\ [][Next]_granted

=============================================================================
