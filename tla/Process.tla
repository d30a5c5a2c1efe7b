------------------------------- MODULE Process -------------------------------
(***************************************************************************)
(* The process table and round-robin scheduler of process.c, used by any   *)
(* client: slot 0 is the kernel's own thread, the other slots are user     *)
(* processes.  One CPU, and the table is only touched in ring 0, which is  *)
(* never preempted: each function is one step.                             *)
(***************************************************************************)
EXTENDS Integers, FiniteSets

CONSTANTS
    ProcMax,        \* PROC_MAX, the number of slots
    PidLimit        \* bound: next_pid stops here (2^32 in the code)

ASSUME ProcAssumption ==
    /\ ProcMax \in Nat \ {0, 1}
    /\ PidLimit \in Nat \ {0}

VARIABLES
    state,          \* procs[i].state
    pid,            \* procs[i].pid, kept when the slot becomes UNUSED
    ctx,            \* procs[i].ctx: "none" (NULL or stale), "fresh", "saved"
    current_proc,   \* the slot of current_proc
    next_pid,
    esp0,           \* the slot whose kernel stack the TSS names
    waits           \* history: switches since the slot last became READY

procVars == <<state, pid, ctx, current_proc, next_pid, esp0, waits>>

Slots == 0 .. (ProcMax - 1)
UserSlots == Slots \ {0}
States == {"UNUSED", "READY", "RUNNING", "ZOMBIE"}

\* Where an entry point lies: proc_create accepts [0x08000000, 0xC0000000).
EntryRanges == {"zero", "kernel", "user", "high"}

-----------------------------------------------------------------------------
\* Mutant: next_pid starts at 0.
ProcInitFromZero ==
    /\ state = [i \in Slots |-> IF i = 0 THEN "RUNNING" ELSE "UNUSED"]
    /\ pid = [i \in Slots |-> 0]
    /\ ctx = [i \in Slots |-> "none"]
    /\ current_proc = 0
    /\ next_pid = 0
    /\ esp0 = 0
    /\ waits = [i \in Slots |-> 0]

\* proc_init: the caller is process 0 and runs.
ProcInit ==
    /\ state = [i \in Slots |-> IF i = 0 THEN "RUNNING" ELSE "UNUSED"]
    /\ pid = [i \in Slots |-> 0]
    /\ ctx = [i \in Slots |-> "none"]
    /\ current_proc = 0
    /\ next_pid = 1
    /\ esp0 = 0
    /\ waits = [i \in Slots |-> 0]

\* The round of the scheduler's loop at which it looks at slot i, counted
\* from slot c: the d in 1 .. PROC_MAX with (c + d) % PROC_MAX = i.
Round(c, i) == IF i > c THEN i - c ELSE i - c + ProcMax

\* Mutant: every slot in use is taken for READY.
ReadyIfUsed(st) == {i \in Slots : st[i] # "UNUSED"}

\* The slots the scheduler's loop accepts.
Ready(st) == {i \in Slots : st[i] = "READY"}

\* Mutant: the previous process stays RUNNING.
SwitchKeepsRunning(st, i) ==
    IF i = current_proc
    THEN state' = st /\ UNCHANGED <<ctx, current_proc, esp0, waits>>
    ELSE /\ state' = [st EXCEPT ![i] = "RUNNING"]
         /\ ctx' = [ctx EXCEPT ![current_proc] = "saved", ![i] = "none"]
         /\ current_proc' = i
         /\ esp0' = IF i # 0 THEN i ELSE esp0
         /\ waits' = [j \in Slots |->
                        IF j # i /\ st[j] = "READY" THEN waits[j] + 1 ELSE 0]

\* Mutant: the previous process becomes READY even when it ended.
SwitchRevives(st, i) ==
    IF i = current_proc
    THEN state' = st /\ UNCHANGED <<ctx, current_proc, esp0, waits>>
    ELSE /\ state' = [st EXCEPT ![current_proc] = "READY", ![i] = "RUNNING"]
         /\ ctx' = [ctx EXCEPT ![current_proc] = "saved", ![i] = "none"]
         /\ current_proc' = i
         /\ esp0' = IF i # 0 THEN i ELSE esp0
         /\ waits' = [j \in Slots |->
                        IF j # i /\ st[j] = "READY" THEN waits[j] + 1 ELSE 0]

\* Mutant: the TSS is not updated.
SwitchKeepsStack(st, i) ==
    IF i = current_proc
    THEN state' = st /\ UNCHANGED <<ctx, current_proc, esp0, waits>>
    ELSE /\ state' = [st EXCEPT ![current_proc] = IF @ = "RUNNING" THEN "READY" ELSE @, ![i] = "RUNNING"]
         /\ ctx' = [ctx EXCEPT ![current_proc] = "saved", ![i] = "none"]
         /\ current_proc' = i
         /\ esp0' = esp0
         /\ waits' = [j \in Slots |->
                        IF j # i /\ st[j] = "READY" THEN waits[j] + 1 ELSE 0]

\* swtch to slot i, with the table in state st: the context of the previous
\* process is saved on its kernel stack, that of slot i is consumed.
SwitchTo(st, i) ==
    IF i = current_proc
    THEN state' = st /\ UNCHANGED <<ctx, current_proc, esp0, waits>>
    ELSE /\ state' = [st EXCEPT ![current_proc] = IF @ = "RUNNING" THEN "READY" ELSE @,
                                ![i] = "RUNNING"]
         /\ ctx' = [ctx EXCEPT ![current_proc] = "saved", ![i] = "none"]
         /\ current_proc' = i
         /\ esp0' = IF i # 0 THEN i ELSE esp0
         /\ waits' = [j \in Slots |->
                        IF j # i /\ st[j] = "READY" THEN waits[j] + 1 ELSE 0]

\* Mutant: every search starts at slot 0.
schedule_lowest(st) ==
    IF Ready(st) # {}
    THEN \E i \in Ready(st) : (\A j \in Ready(st) : i <= j) /\ SwitchTo(st, i)
    ELSE IF /\ st[current_proc] # "RUNNING"
            /\ current_proc # 0
            /\ st[0] \in {"READY", "RUNNING"}
         THEN SwitchTo(st, 0)
         ELSE state' = st /\ UNCHANGED <<ctx, current_proc, esp0, waits>>

\* schedule(), with the table in state st: the first READY slot after the
\* current one, in cyclic order; with none, the kernel if the current
\* process ended, and otherwise no switch.
schedule(st) ==
    IF Ready(st) # {}
    THEN \E i \in Ready(st) :
            /\ \A j \in Ready(st) : Round(current_proc, i) <= Round(current_proc, j)
            /\ SwitchTo(st, i)
    ELSE IF /\ st[current_proc] # "RUNNING"
            /\ current_proc # 0
            /\ st[0] \in {"READY", "RUNNING"}
         THEN SwitchTo(st, 0)
         ELSE state' = st /\ UNCHANGED <<ctx, current_proc, esp0, waits>>

-----------------------------------------------------------------------------
CanCreate(entry) == entry = "user" /\ \E i \in UserSlots : state[i] = "UNUSED"

\* Mutant: no context is prepared for the first switch.
CreateWithoutContext(i) ==
    /\ state[i] = "UNUSED"
    /\ \A j \in 1 .. (i - 1) : state[j] # "UNUSED"
    /\ state' = [state EXCEPT ![i] = "READY"]
    /\ pid' = [pid EXCEPT ![i] = next_pid]
    /\ waits' = [waits EXCEPT ![i] = 0]
    /\ next_pid' = next_pid + 1
    /\ UNCHANGED <<ctx, current_proc, esp0>>

\* Mutant: next_pid is not incremented.
CreateSamePid(i) ==
    /\ state[i] = "UNUSED"
    /\ \A j \in 1 .. (i - 1) : state[j] # "UNUSED"
    /\ state' = [state EXCEPT ![i] = "READY"]
    /\ pid' = [pid EXCEPT ![i] = next_pid]
    /\ ctx' = [ctx EXCEPT ![i] = "fresh"]
    /\ waits' = [waits EXCEPT ![i] = 0]
    /\ UNCHANGED <<next_pid, current_proc, esp0>>

\* proc_create in slot i, the first UNUSED one: the new process is READY
\* with a context that returns to user mode through trapret.
CreateIn(i) ==
    /\ state[i] = "UNUSED"
    /\ \A j \in 1 .. (i - 1) : state[j] # "UNUSED"
    /\ state' = [state EXCEPT ![i] = "READY"]
    /\ pid' = [pid EXCEPT ![i] = next_pid]
    /\ ctx' = [ctx EXCEPT ![i] = "fresh"]
    /\ waits' = [waits EXCEPT ![i] = 0]
    /\ next_pid' = next_pid + 1
    /\ UNCHANGED <<current_proc, esp0>>

\* A refused entry point or a full table returns -1 and changes nothing.
proc_create(entry) ==
    IF CanCreate(entry)
    THEN next_pid < PidLimit /\ \E i \in UserSlots : CreateIn(i)
    ELSE UNCHANGED procVars

proc_yield == schedule(state) /\ UNCHANGED <<pid, next_pid>>

\* proc_exit: process 0 does not exit.
proc_exit ==
    IF pid[current_proc] = 0
    THEN UNCHANGED procVars
    ELSE /\ schedule([state EXCEPT ![current_proc] = "ZOMBIE"])
         /\ UNCHANGED <<pid, next_pid>>

\* The kernel's main loop: every ZOMBIE slot becomes UNUSED.
ReapAll ==
    /\ state' = [i \in Slots |-> IF i # 0 /\ state[i] = "ZOMBIE" THEN "UNUSED" ELSE state[i]]
    /\ UNCHANGED <<pid, ctx, current_proc, next_pid, esp0, waits>>

\* The end of prog_exec: the slot of its child is released.
ReleaseSlot(i) ==
    /\ state' = [state EXCEPT ![i] = "UNUSED"]
    /\ UNCHANGED <<pid, ctx, current_proc, next_pid, esp0, waits>>

\* Only the kernel thread creates processes and releases their slots, and it
\* releases none that could still run: no system call does either.
ProcNext ==
    \/ current_proc = 0 /\ \E entry \in EntryRanges : proc_create(entry)
    \/ proc_yield
    \/ proc_exit
    \/ current_proc = 0 /\ ReapAll
    \/ /\ current_proc = 0
       /\ \E i \in UserSlots : state[i] \notin {"READY", "RUNNING"} /\ ReleaseSlot(i)

ProcSpec == ProcInit /\ [][ProcNext]_procVars

-----------------------------------------------------------------------------
(***************************************************************************)
(* Correctness.                                                            *)
(***************************************************************************)
ProcTypeOK ==
    /\ state \in [Slots -> States]
    /\ pid \in [Slots -> Nat]
    /\ ctx \in [Slots -> {"none", "fresh", "saved"}]
    /\ current_proc \in Slots
    /\ next_pid \in Nat \ {0}
    /\ esp0 \in Slots
    /\ waits \in [Slots -> Nat]

\* The process that has the CPU is the only one marked RUNNING, whatever
\* sequence of creates, yields and exits led here.
OneRunning == \A i \in Slots : state[i] = "RUNNING" <=> i = current_proc

\* The kernel thread never exits, so that there is always a process to
\* switch to when the last user process ends.
KernelStays == pid[0] = 0 /\ state[0] \in {"READY", "RUNNING"}

\* swtch never loads the context of a process that has none: one not READY
\* through proc_create or a previous switch away from it.
ReadyHasContext == \A i \in Slots : state[i] = "READY" => ctx[i] # "none"

\* A pid is in the table once, UNUSED slots included, and a user process
\* never has pid 0: the scan of prog_exec by pid finds the slot just
\* created, and proc_exit never refuses a user process.
PidsDistinct ==
    /\ \A i, j \in Slots : pid[i] = pid[j] /\ pid[i] # 0 => i = j
    /\ \A i \in Slots : pid[i] < next_pid
    /\ \A i \in UserSlots : state[i] # "UNUSED" => pid[i] # 0

\* The stack on which the CPU enters the kernel from user mode is that of
\* the process that runs, never that of another one or of a recycled slot.
EntryStackIsOwn == current_proc # 0 => esp0 = current_proc

\* A READY process is passed over by fewer than PROC_MAX switches before it
\* runs, however other processes come and go: round-robin without
\* starvation.
BoundedBypass == \A i \in Slots : state[i] = "READY" => waits[i] < ProcMax

\* A process that ended does not run again: its slot can only be recycled.
ZombiesStayDead ==
    [][\A i \in Slots : state[i] = "ZOMBIE" => state'[i] \in {"ZOMBIE", "UNUSED"}]_procVars

=============================================================================
