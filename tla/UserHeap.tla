------------------------------ MODULE UserHeap ------------------------------
(***************************************************************************)
(* The heap as user processes see it, through SYS_MALLOC and SYS_FREE of   *)
(* syscall.c.                                                              *)
(***************************************************************************)
EXTENDS Heap

CONSTANTS
    MallocLimit,        \* 0x100000: SYS_MALLOC refuses this size and more
    UserSpaceStart,     \* USER_SPACE_START
    UserSpaceEnd        \* USER_SPACE_END

VARIABLE returned       \* history: pointers given to SYS_FREE since they were granted

userVars == <<vars, returned>>

\* validate_user_ptr(ptr, 1)
validate_user_ptr(ptr) == ptr # NULL /\ ptr >= UserSpaceStart /\ ptr + 1 <= UserSpaceEnd

SysMalloc(n) ==
    /\ pc = "idle"
    /\ n < MallocLimit
    /\ kmalloc(n)
    /\ UNCHANGED returned

\* A process gives back what it was granted.
SysFree(p) ==
    /\ pc = "idle"
    /\ p \in DOMAIN live
    /\ returned' = returned \cup {p}
    /\ IF validate_user_ptr(p) THEN kfree(p) ELSE UNCHANGED vars

HeapStep ==
    /\ Step
    /\ returned' = returned \ (DOMAIN live' \ DOMAIN live)

UserInit == Init /\ returned = {}

UserNext ==
    \/ \E n \in Requests : SysMalloc(n)
    \/ \E p \in Addr : SysFree(p)
    \/ HeapStep

UserSpec == UserInit /\ [][UserNext]_userVars

\* README.md says of SYS_FREE: "free heap memory".  What a process gave back
\* is free once the call returned.
SysFreeFrees == pc = "idle" => returned \cap DOMAIN live = {}

=============================================================================
