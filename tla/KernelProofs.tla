---------------------------- MODULE KernelProofs ----------------------------
(***************************************************************************)
(* Proofs about module Kernel, for every number of slots, every length of  *)
(* a second and of a quantum, every width of the clock and every sleep.    *)
(***************************************************************************)
EXTENDS Kernel, ProcessProofs

Runs == {"READY", "RUNNING"}

\* While exec waits, its child is the only user process that may run.
OnlyChildRuns ==
    kpc = "exec" => \A i \in UserSlots \ {child} : state[i] \notin Runs

\* The inductive invariant.
KernelInv == ProcInv /\ TypeOK /\ NoStrayProcess /\ ChildIsOwn /\ OnlyChildRuns

\* A step that neither revives, recycles nor creates a process.
NoneRevived ==
    \A j \in Slots : /\ state'[j] \in Runs => state[j] \in Runs
                     /\ state'[j] = "UNUSED" <=> state[j] = "UNUSED"

\* schedule() moves the CPU but neither ends nor revives nor recycles a
\* process.
LEMMA ScheduleMovesOnly ==
    ASSUME ProcInv, NEW st \in [Slots -> States], schedule(st),
           st[current_proc] \in {"RUNNING", "ZOMBIE"}
    PROVE  \A j \in Slots : /\ state'[j] \in Runs <=> st[j] \in Runs
                            /\ state'[j] = "UNUSED" <=> st[j] = "UNUSED"
<1>0. current_proc \in Slots /\ 0 \in Slots
  BY ProcAssumption DEF ProcInv, ProcTypeOK, Slots
<1>1. ASSUME NEW i \in Slots, st[i] \in Runs, SwitchTo(st, i)
      PROVE  \A j \in Slots : /\ state'[j] \in Runs <=> st[j] \in Runs
                              /\ state'[j] = "UNUSED" <=> st[j] = "UNUSED"
  BY <1>0, <1>1 DEF SwitchTo, Runs
<1>2. \/ state' = st
      \/ \E i \in Slots : st[i] \in Runs /\ SwitchTo(st, i)
  BY <1>0 DEF schedule, Ready, Runs
<1>. QED BY <1>1, <1>2

\* proc_yield, the same for the table as it is.
LEMMA YieldMovesOnly ==
    ASSUME ProcInv, proc_yield
    PROVE  NoneRevived /\ UNCHANGED <<pid, next_pid>>
<1>1. state \in [Slots -> States] /\ state[current_proc] = "RUNNING"
  BY DEF ProcInv, ProcTypeOK, OneRunning
<1>. QED BY <1>1, ScheduleMovesOnly DEF proc_yield, NoneRevived

\* proc_exit ends the process that runs and no other.
LEMMA ExitEndsOnly ==
    ASSUME ProcInv, proc_exit
    PROVE  NoneRevived /\ UNCHANGED <<pid, next_pid>>
<1>. DEFINE st == [state EXCEPT ![current_proc] = "ZOMBIE"]
<1>1. /\ state \in [Slots -> States] /\ current_proc \in Slots
      /\ state[current_proc] = "RUNNING"
  BY DEF ProcInv, ProcTypeOK, OneRunning
<1>2. CASE pid[current_proc] = 0
  BY <1>2 DEF proc_exit, procVars, NoneRevived
<1>3. CASE pid[current_proc] # 0
  <2>1. /\ st \in [Slots -> States] /\ st[current_proc] = "ZOMBIE"
        /\ \A j \in Slots : /\ st[j] \in Runs => state[j] \in Runs
                            /\ st[j] = "UNUSED" <=> state[j] = "UNUSED"
    BY <1>1 DEF States, Runs
  <2>2. schedule(st) /\ UNCHANGED <<pid, next_pid>>
    BY <1>3 DEF proc_exit
  <2>. HIDE DEF st
  <2>. QED BY <2>1, <2>2, ScheduleMovesOnly DEF NoneRevived
<1>. QED BY <1>2, <1>3

LEMMA KernelInitInv == Init => KernelInv
<1>. SUFFICES ASSUME Init PROVE KernelInv
  OBVIOUS
<1>1. ProcInv
  BY ProcInitInv DEF Init
<1>2. TypeOK
  BY <1>1, KernelAssumption, ProcAssumption DEF Init, TypeOK, ProcInv, Slots, Words
<1>3. NoStrayProcess /\ ChildIsOwn /\ OnlyChildRuns
  BY DEF Init, ProcInit, NoStrayProcess, ChildIsOwn, OnlyChildRuns, UserSlots
<1>. QED BY <1>1, <1>2, <1>3 DEF KernelInv

\* Every step of the kernel is a step of a client of the process table: exec
\* releases the slot of its child only once that has ended.
LEMMA KernelStepIsProcStep == KernelInv /\ [Next]_vars => [ProcNext]_procVars
<1>. SUFFICES ASSUME KernelInv, [Next]_vars PROVE [ProcNext]_procVars
  OBVIOUS
<1>1. CASE \E entry \in EntryRanges : prog_exec(entry)
  BY <1>1 DEF prog_exec, ProcNext, vars
<1>2. CASE ExecWait
  BY <1>2 DEF ExecWait, ProcNext
<1>3. CASE ExecDone
  <2>1. child \in UserSlots /\ state[child] \notin {"READY", "RUNNING"}
    BY <1>3 DEF ExecDone, ChildRuns, KernelInv, TypeOK, ChildIsOwn, UserSlots
  <2>. QED BY <1>3, <2>1 DEF ExecDone, ProcNext
<1>4. CASE MainIdle
  BY <1>4 DEF MainIdle, ProcNext
<1>5. CASE UserEnd
  BY <1>5 DEF UserEnd, SysExit, UserFault, EndProcess, ProcNext
<1>6. CASE SysYield \/ SleepRound
  BY <1>6 DEF SysYield, SleepRound, ProcNext
<1>7. CASE SleepOver \/ \E n \in Words : SysSleep(n)
  BY <1>7 DEF SleepOver, SysSleep
<1>8. CASE Tick
  BY <1>8 DEF Tick, ProcNext
<1>9. CASE UNCHANGED vars
  BY <1>9 DEF vars
<1>. QED BY <1>1, <1>2, <1>3, <1>4, <1>5, <1>6, <1>7, <1>8, <1>9 DEF Next, KernelStep, SyscallStep

-----------------------------------------------------------------------------
\* The processes that run may change, and exec and the main loop stay where
\* they are: what any yield, exit or tick does to the two of them.
LEMMA QuietStep ==
    ASSUME KernelInv, ProcInv', NoneRevived, UNCHANGED <<pid, next_pid, child>>,
           kpc' = kpc \/ (kpc = "hlt" /\ kpc' = "main")
    PROVE  NoStrayProcess' /\ ChildIsOwn' /\ OnlyChildRuns'
<1>0. /\ current_proc' \in Slots /\ state'[current_proc'] = "RUNNING"
      /\ UserSlots = Slots \ {0} /\ child \in Slots
  BY DEF ProcInv, ProcTypeOK, OneRunning, UserSlots, KernelInv, TypeOK
<1>1. NoStrayProcess'
  <2>. SUFFICES ASSUME kpc' \in {"main", "hlt"}
                PROVE  /\ current_proc' = 0
                       /\ \A i \in UserSlots : state'[i] \notin {"READY", "RUNNING"}
    BY DEF NoStrayProcess
  <2>1. \A i \in UserSlots : state[i] \notin Runs
    BY DEF KernelInv, NoStrayProcess, Runs
  <2>2. \A i \in UserSlots : state'[i] \notin Runs
    BY <1>0, <2>1 DEF NoneRevived
  <2>. QED BY <1>0, <2>2 DEF Runs
<1>2. ChildIsOwn'
  BY <1>0 DEF KernelInv, ChildIsOwn, NoneRevived
<1>3. OnlyChildRuns'
  BY <1>0 DEF KernelInv, OnlyChildRuns, NoneRevived
<1>. QED BY <1>1, <1>2, <1>3

\* exec finds in the table the process it has just created.
LEMMA ExecKeepsInv ==
    ASSUME KernelInv, ProcInv', NEW entry \in EntryRanges, prog_exec(entry), CanCreate(entry),
           entry # "zero"
    PROVE  NoStrayProcess' /\ ChildIsOwn' /\ OnlyChildRuns'
<1>1. PICK i \in UserSlots : CreateIn(i)
  BY DEF prog_exec, proc_create
<1>2. /\ i \in Slots /\ i # 0 /\ state \in [Slots -> States] /\ pid \in [Slots -> Nat]
      /\ next_pid \in Nat \ {0}
      /\ \A j \in Slots : pid[j] < next_pid
  BY <1>1 DEF UserSlots, KernelInv, ProcInv, ProcTypeOK, PidsDistinct
<1>3. /\ pid'[i] = next_pid /\ next_pid' = next_pid + 1
      /\ \A j \in Slots \ {i} : pid'[j] = pid[j] /\ state'[j] = state[j]
      /\ state'[i] = "READY"
  BY <1>1, <1>2 DEF CreateIn
<1>4. PICK j \in Slots : pid'[j] = next_pid /\ child' = j
  BY DEF prog_exec
<1>5. j = i
  BY <1>2, <1>3, <1>4
<1>6. kpc = "main" /\ kpc' = "exec"
  BY DEF prog_exec
<1>7. NoStrayProcess' /\ ChildIsOwn'
  BY <1>2, <1>3, <1>4, <1>5, <1>6 DEF NoStrayProcess, ChildIsOwn
<1>8. OnlyChildRuns'
  BY <1>3, <1>4, <1>5, <1>6 DEF KernelInv, NoStrayProcess, OnlyChildRuns, Runs, UserSlots
<1>. QED BY <1>7, <1>8

\* The types of what the kernel adds to the table.
LEMMA KernelTypes ==
    ASSUME KernelInv, ProcInv', [Next]_vars
    PROVE  TypeOK'
<1>. USE DEF KernelInv, TypeOK, ProcInv
<1>0. 0 \in Slots /\ UserSlots = Slots \ {0} /\ current_proc \in Slots
  BY ProcAssumption DEF Slots, UserSlots, ProcTypeOK
<1>1. CASE \E entry \in EntryRanges : prog_exec(entry)
  BY <1>0, <1>1 DEF prog_exec, vars, kernelVars
<1>2. CASE ExecWait \/ UserEnd \/ SysYield \/ SleepRound
  <2>1. intr' \in BOOLEAN
    BY <1>2 DEF ExecWait, UserEnd, SysExit, UserFault, EndProcess, SysYield, SleepRound, Resumed
  <2>. QED BY <1>2, <2>1 DEF ExecWait, UserEnd, SysExit, UserFault, EndProcess, SysYield, SleepRound
<1>3. CASE ExecDone \/ MainIdle
  BY <1>0, <1>3 DEF ExecDone, MainIdle
<1>4. CASE SleepOver \/ \E n \in Words : SysSleep(n)
  <2>1. ASSUME NEW n \in Words PROVE (timer_seconds + n) % WordSize \in Words
    BY KernelAssumption DEF timer_seconds, Words
  <2>2. 0 \in Words /\ current_proc \in UserSlots
    BY <1>0, <1>4, KernelAssumption DEF SleepOver, SysSleep, InUser, Words
  <2>3. target' \in [UserSlots -> Words]
    BY <1>4, <2>1, <2>2 DEF SleepOver, SysSleep
  <2>. QED BY <1>0, <1>4, <2>2, <2>3 DEF SleepOver, SysSleep
<1>5. CASE Tick
  <2>1. intr' \in BOOLEAN
    BY <1>5 DEF Tick, Resumed
  <2>2. ticks' \in Words
    BY <1>5, KernelAssumption DEF Tick, Words
  <2>. QED BY <1>5, <2>1, <2>2 DEF Tick
<1>6. CASE UNCHANGED vars
  BY <1>6 DEF vars, kernelVars
<1>. QED BY <1>1, <1>2, <1>3, <1>4, <1>5, <1>6 DEF Next, KernelStep, SyscallStep

LEMMA KernelNextInv == KernelInv /\ [Next]_vars => KernelInv'
<1>. SUFFICES ASSUME KernelInv, [Next]_vars PROVE KernelInv'
  OBVIOUS
<1>0. ProcInv /\ ProcInv'
  BY KernelStepIsProcStep, ProcNextInv DEF KernelInv
<1>t. TypeOK'
  BY <1>0, KernelTypes
<1>u. ASSUME UNCHANGED procVars, UNCHANGED <<kpc, child>>
      PROVE  NoStrayProcess' /\ ChildIsOwn' /\ OnlyChildRuns'
  BY <1>u DEF procVars, KernelInv, NoStrayProcess, ChildIsOwn, OnlyChildRuns
<1>1. ASSUME NEW entry \in EntryRanges, prog_exec(entry)
      PROVE  NoStrayProcess' /\ ChildIsOwn' /\ OnlyChildRuns'
  <2>1. CASE entry # "zero" /\ CanCreate(entry)
    BY <1>0, <1>1, <2>1, ExecKeepsInv
  <2>2. CASE entry = "zero" \/ ~CanCreate(entry)
    BY <1>1, <1>u, <2>2 DEF prog_exec, proc_create, vars, kernelVars
  <2>. QED BY <2>1, <2>2
<1>2. CASE ExecWait \/ SysYield \/ SleepRound
  <2>1. proc_yield /\ UNCHANGED <<kpc, child>>
    BY <1>2 DEF ExecWait, SysYield, SleepRound
  <2>. QED BY <1>0, <1>t, <2>1, YieldMovesOnly, QuietStep DEF KernelInv
<1>3. CASE UserEnd
  <2>1. proc_exit /\ UNCHANGED <<kpc, child>>
    BY <1>3 DEF UserEnd, SysExit, UserFault, EndProcess
  <2>. QED BY <1>0, <1>t, <2>1, ExitEndsOnly, QuietStep DEF KernelInv
<1>4. CASE Tick
  <2>1. /\ UNCHANGED child
        /\ kpc' = kpc \/ (kpc = "hlt" /\ kpc' = "main")
        /\ proc_yield \/ UNCHANGED procVars
    BY <1>4 DEF Tick
  <2>2. NoneRevived /\ UNCHANGED <<pid, next_pid>>
    BY <1>0, <2>1, YieldMovesOnly DEF procVars, NoneRevived
  <2>. QED BY <1>0, <1>t, <2>1, <2>2, QuietStep DEF KernelInv
<1>5. CASE ExecDone
  BY <1>0, <1>t, <1>5 DEF ExecDone, ReleaseSlot, ChildRuns, KernelInv, ProcInv, ProcTypeOK, TypeOK,
     NoStrayProcess, ChildIsOwn, OnlyChildRuns, Runs, UserSlots
<1>6. CASE MainIdle
  BY <1>0, <1>t, <1>6 DEF MainIdle, ReapAll, KernelInv, ProcInv, ProcTypeOK,
     NoStrayProcess, ChildIsOwn, OnlyChildRuns, UserSlots
<1>7. CASE SleepOver \/ \E n \in Words : SysSleep(n)
  BY <1>0, <1>t, <1>u, <1>7 DEF SleepOver, SysSleep, KernelInv
<1>8. CASE UNCHANGED vars
  BY <1>0, <1>t, <1>u, <1>8 DEF vars, kernelVars, KernelInv
<1>. QED BY <1>0, <1>t, <1>1, <1>2, <1>3, <1>4, <1>5, <1>6, <1>7, <1>8
     DEF Next, KernelStep, SyscallStep, KernelInv

-----------------------------------------------------------------------------
\* Every reachable state of the kernel satisfies the invariant.
THEOREM KernelInvariant == Spec => []KernelInv
BY KernelInitInv, KernelNextInv, PTL DEF Spec

\* The kernel's variables keep their types: the clock and every sleeper's
\* target are words, and exec's child is a slot of the table.
THEOREM KernelTypeOK == Spec => []TypeOK
<1>1. KernelInv => TypeOK
  BY DEF KernelInv
<1>. QED BY <1>1, KernelInvariant, PTL

\* No user process is READY once the kernel thread is back in its main loop,
\* which would never let it run.
THEOREM KernelNoStrayProcess == Spec => []NoStrayProcess
<1>1. KernelInv => NoStrayProcess
  BY DEF KernelInv
<1>. QED BY <1>1, KernelInvariant, PTL

\* prog_exec waits for the process that it created.
THEOREM KernelChildIsOwn == Spec => []ChildIsOwn
<1>1. KernelInv => ChildIsOwn
  BY DEF KernelInv
<1>. QED BY <1>1, KernelInvariant, PTL

\* The kernel uses the process table as module Process allows, so that the
\* theorems about the table hold of the kernel.
THEOREM KernelUsesProcess == Spec => ProcessSpec
<1>1. Init => ProcInit
  BY DEF Init
<1>. QED BY <1>1, KernelInvariant, KernelStepIsProcStep, PTL DEF Spec, ProcessSpec, ProcSpec

=============================================================================
