------------------------------- MODULE Kernel -------------------------------
(***************************************************************************)
(* The running kernel: its main loop and the `exec` command on the kernel  *)
(* thread (slot 0), user processes making system calls or faulting, and    *)
(* the timer interrupt that preempts them, all over the process table of   *)
(* module Process.  The table is only reached through that module's        *)
(* operations.                                                             *)
(*                                                                         *)
(* swtch does not save EFLAGS: a context that resumes in the kernel        *)
(* inherits the interrupt flag of the one that switched to it, and only    *)
(* iret (to user mode) or sti sets it.  `intr` follows that flag.          *)
(***************************************************************************)
EXTENDS Process

CONSTANTS
    Hz,             \* PIT_FREQ: ticks per second
    Quantum,        \* ticks between two preemptions
    WordSize        \* 2^32: the tick counter and the target of a sleep wrap here

ASSUME KernelAssumption ==
    /\ Hz \in Nat \ {0}
    /\ Quantum \in Nat \ {0}
    /\ WordSize \in Nat \ {0}

VARIABLES
    kpc,        \* where the kernel thread is: "main", "hlt", "exec"
    child,      \* the slot prog_exec waits for, 0 when it waits for none
    mode,       \* user slots: "user" or "sleep" (in the loop of SYS_SLEEP)
    target,     \* user slots: the local of SYS_SLEEP, 0 outside it
    ticks,
    intr        \* EFLAGS.IF of the running context

kernelVars == <<kpc, child, mode, target, ticks, intr>>
vars == <<procVars, kernelVars>>

Words == 0 .. (WordSize - 1)

Init ==
    /\ ProcInit
    /\ kpc = "main"
    /\ child = 0
    /\ mode = [i \in UserSlots |-> "user"]
    /\ target = [i \in UserSlots |-> 0]
    /\ ticks = 0
    /\ intr = TRUE

timer_seconds == ticks \div Hz

\* The largest value timer_seconds() takes: it returns to 0 with the ticks.
LastSecond == (WordSize - 1) \div Hz

\* The interrupt flag once slot i runs: iret sets it on the way to user mode,
\* any other context keeps what it is given.
Resumed(i, carried) == IF i # 0 /\ mode[i] = "user" THEN TRUE ELSE carried

InUser == current_proc # 0 /\ mode[current_proc] = "user"

-----------------------------------------------------------------------------
(***************************************************************************)
(* The kernel thread.                                                      *)
(***************************************************************************)
\* Mutant: exec returns without waiting.
prog_exec_async(entry) ==
    /\ current_proc = 0
    /\ kpc = "main"
    /\ proc_create(entry)
    /\ UNCHANGED kernelVars

\* Mutant: the pid is taken for the index of the slot.
prog_exec_by_pid(entry) ==
    /\ current_proc = 0
    /\ kpc = "main"
    /\ IF entry = "zero"
       THEN UNCHANGED vars
       ELSE /\ proc_create(entry)
            /\ IF CanCreate(entry)
               THEN child' = next_pid /\ kpc' = "exec"
               ELSE UNCHANGED <<child, kpc>>
            /\ UNCHANGED <<mode, target, ticks, intr>>

\* prog_exec up to its wait.  The entry is that of a program linked into the
\* kernel image or the one elf_load found ("zero": not executable).
prog_exec(entry) ==
    /\ current_proc = 0
    /\ kpc = "main"
    /\ IF entry = "zero"
       THEN UNCHANGED vars
       ELSE /\ proc_create(entry)
            /\ IF CanCreate(entry)
               THEN /\ \E i \in Slots :
                          /\ pid'[i] = next_pid
                          /\ \A j \in 0 .. (i - 1) : pid'[j] # next_pid
                          /\ child' = i
                    /\ kpc' = "exec"
               ELSE UNCHANGED <<child, kpc>>
            /\ UNCHANGED <<mode, target, ticks, intr>>

\* Mutant: a child that is only READY counts as ended.
ChildRunsNow == state[child] = "RUNNING"

ChildRuns == state[child] \in {"READY", "RUNNING"}

\* Mutant: the wait does not enable interrupts.
ExecWaitNoSti ==
    /\ current_proc = 0
    /\ kpc = "exec"
    /\ ChildRuns
    /\ proc_yield
    /\ intr' = Resumed(current_proc', intr)
    /\ UNCHANGED <<kpc, child, mode, target, ticks>>

\* One round of the wait: sti, schedule().
ExecWait ==
    /\ current_proc = 0
    /\ kpc = "exec"
    /\ ChildRuns
    /\ proc_yield
    /\ intr' = Resumed(current_proc', TRUE)
    /\ UNCHANGED <<kpc, child, mode, target, ticks>>

\* The child ended: its slot is released, exec returns to the main loop.
ExecDone ==
    /\ current_proc = 0
    /\ kpc = "exec"
    /\ ~ChildRuns
    /\ ReleaseSlot(child)
    /\ kpc' = "main"
    /\ child' = 0
    /\ UNCHANGED <<mode, target, ticks, intr>>

\* Mutant: hlt without sti.
MainIdleNoSti ==
    /\ current_proc = 0
    /\ kpc = "main"
    /\ ReapAll
    /\ kpc' = "hlt"
    /\ UNCHANGED <<child, mode, target, ticks, intr>>

\* No more input: reap zombies, then sti; hlt.
MainIdle ==
    /\ current_proc = 0
    /\ kpc = "main"
    /\ ReapAll
    /\ kpc' = "hlt"
    /\ intr' = TRUE
    /\ UNCHANGED <<child, mode, target, ticks>>

-----------------------------------------------------------------------------
(***************************************************************************)
(* User processes.  A system call or a fault enters through an interrupt   *)
(* gate: interrupts are off until iret.                                    *)
(***************************************************************************)
\* The handler ends the process it interrupted.
EndProcess ==
    /\ InUser
    /\ proc_exit
    /\ intr' = Resumed(current_proc', FALSE)
    /\ UNCHANGED <<kpc, child, mode, target, ticks>>

SysExit == EndProcess
UserFault == EndProcess
UserEnd == SysExit \/ UserFault

SysYield ==
    /\ InUser
    /\ proc_yield
    /\ intr' = Resumed(current_proc', FALSE)
    /\ UNCHANGED <<kpc, child, mode, target, ticks>>

SysSleep(n) ==
    /\ InUser
    /\ mode' = [mode EXCEPT ![current_proc] = "sleep"]
    /\ target' = [target EXCEPT ![current_proc] = (timer_seconds + n) % WordSize]
    /\ intr' = FALSE
    /\ UNCHANGED <<procVars, kpc, child, ticks>>

\* One round of the loop of SYS_SLEEP: yield while the target is ahead.
SleepRound ==
    /\ current_proc # 0
    /\ mode[current_proc] = "sleep"
    /\ timer_seconds < target[current_proc]
    /\ proc_yield
    /\ intr' = Resumed(current_proc', intr)
    /\ UNCHANGED <<kpc, child, mode, target, ticks>>

SleepOver ==
    /\ current_proc # 0
    /\ mode[current_proc] = "sleep"
    /\ timer_seconds >= target[current_proc]
    /\ mode' = [mode EXCEPT ![current_proc] = "user"]
    /\ target' = [target EXCEPT ![current_proc] = 0]
    /\ intr' = TRUE
    /\ UNCHANGED <<procVars, kpc, child, ticks>>

-----------------------------------------------------------------------------
(***************************************************************************)
(* timer_tick: count, and preempt ring 3 every Quantum ticks.  An interrupt *)
(* taken while the kernel thread is in hlt sends it round its loop.        *)
(***************************************************************************)
Tick ==
    /\ intr
    /\ ticks' = (ticks + 1) % WordSize
    /\ kpc' = IF current_proc = 0 /\ kpc = "hlt" THEN "main" ELSE kpc
    /\ IF InUser /\ ticks' % Quantum = 0
       THEN proc_yield /\ intr' = Resumed(current_proc', FALSE)
       ELSE UNCHANGED <<procVars, intr>>
    /\ UNCHANGED <<child, mode, target>>

KernelStep == ExecWait \/ ExecDone \/ MainIdle
SyscallStep == SleepRound \/ SleepOver

Next ==
    \/ \E entry \in EntryRanges : prog_exec(entry)
    \/ KernelStep
    \/ UserEnd
    \/ SysYield
    \/ \E n \in Words : SysSleep(n)
    \/ SyscallStep
    \/ Tick

Spec == Init /\ [][Next]_vars

(***************************************************************************)
(* The CPU is faster than its clock: in a second that keeps coming back,   *)
(* a wait of the kernel keeps getting somewhere.  And the timer interrupt  *)
(* is taken if interrupts are on again and again: the PIC holds it while   *)
(* they are off.  Nothing is assumed of programs.                          *)
(***************************************************************************)
FairSpec ==
    /\ Spec
    /\ \A s \in 0 .. LastSecond :
          /\ SF_vars(KernelStep /\ timer_seconds = s)
          /\ SF_vars(SyscallStep /\ timer_seconds = s)
    /\ SF_vars(Tick)

-----------------------------------------------------------------------------
TypeOK ==
    /\ ProcTypeOK
    /\ kpc \in {"main", "hlt", "exec"}
    /\ child \in Slots
    /\ mode \in [UserSlots -> {"user", "sleep"}]
    /\ target \in [UserSlots -> Words]
    /\ ticks \in Words
    /\ intr \in BOOLEAN

\* Only the wait of prog_exec ever hands the CPU to a user process, so none
\* may be left READY when the kernel thread is back in its main loop: it
\* would never run again.
NoStrayProcess ==
    kpc \in {"main", "hlt"} =>
        /\ current_proc = 0
        /\ \A i \in UserSlots : state[i] \notin {"READY", "RUNNING"}

\* prog_exec waits for the process it created: the slot found by pid is not
\* recycled, by the reaper or by another process, before exec releases it.
ChildIsOwn ==
    kpc = "exec" =>
        /\ child # 0
        /\ pid[child] = next_pid - 1
        /\ state[child] # "UNUSED"

\* A process in SYS_SLEEP that waits for a second which the clock has.  The
\* argument may be so large that the clock is reset before it gets there; one
\* for which the sum wraps waits for an earlier second, or not at all.
Waits(i) == mode[i] = "sleep" /\ target[i] <= LastSecond
Oversleeps(i) == mode[i] = "sleep" /\ target[i] > LastSecond

\* A process in SYS_SLEEP returns to user mode, although it waits in a loop
\* entered with interrupts off, for a clock that wraps.
SleeperWakes == \A i \in UserSlots : Waits(i) ~> mode[i] = "user"

\* exec comes back to the shell, if its program ends when it is given the CPU
\* often enough, and does not sleep for longer than the clock counts.
ExecReturns ==
    SF_vars(UserEnd) =>
        (kpc = "exec" ~> (kpc = "main" \/ \E i \in UserSlots : Oversleeps(i)))

\* The clock never stops, whatever programs do: whatever context leaked its
\* interrupt flag, interrupts are eventually enabled again.
ClockRuns == []<><<Tick>>_vars

\* The kernel is a client of the process table: see module Process.
ProcessSpec == ProcSpec

=============================================================================
