--------------------------- MODULE ProcessProofs ---------------------------
(***************************************************************************)
(* Proofs about module Process, for every number of slots.                 *)
(***************************************************************************)
EXTENDS Process, TLAPS

\* Why a READY process is not passed over for long: each switch takes the
\* scheduler's loop at least one slot nearer to it.
BypassBudget ==
    \A i \in Slots : state[i] = "READY" => waits[i] + Round(current_proc, i) <= ProcMax

\* The inductive invariant.
ProcInv ==
    /\ ProcTypeOK
    /\ OneRunning
    /\ KernelStays
    /\ ReadyHasContext
    /\ PidsDistinct
    /\ EntryStackIsOwn
    /\ BypassBudget

\* The loop of schedule() sees every slot once, the current one last.
LEMMA RoundBounds ==
    ASSUME NEW c \in Slots, NEW i \in Slots
    PROVE  Round(c, i) \in 1 .. ProcMax
BY ProcAssumption DEF Round, Slots

\* After a switch from c to j, a slot that j came before is nearer by the
\* rounds spent on j, and the slot switched from is behind all others.
LEMMA RoundAfterSwitch ==
    ASSUME NEW c \in Slots, NEW j \in Slots, NEW i \in Slots,
           i # j, Round(c, j) <= Round(c, i)
    PROVE  Round(j, i) + 1 <= Round(c, i)
BY ProcAssumption DEF Round, Slots

LEMMA ProcInitInv == ProcInit => ProcInv
<1>. SUFFICES ASSUME ProcInit PROVE ProcInv
  OBVIOUS
<1>1. 0 \in Slots /\ \A i \in Slots : i \in Nat
  BY ProcAssumption DEF Slots
<1>. QED BY <1>1 DEF ProcInit, ProcInv, ProcTypeOK, OneRunning, KernelStays, ReadyHasContext,
      PidsDistinct, EntryStackIsOwn, BypassBudget, States, UserSlots

\* A switch away from a process that runs, or has just become a ZOMBIE.
LEMMA SwitchKeepsInv ==
    ASSUME ProcInv, NEW st \in [Slots -> States], NEW i \in Slots,
           \A j \in Slots \ {current_proc} : st[j] = state[j],
           st[current_proc] \in {"RUNNING", "ZOMBIE"},
           current_proc = 0 => st[0] = "RUNNING",
           st[i] = "READY",
           \A j \in Slots : st[j] = "READY" => Round(current_proc, i) <= Round(current_proc, j),
           SwitchTo(st, i), UNCHANGED <<pid, next_pid>>
    PROVE  ProcInv'
<1>0. PICK c \in Slots : c = current_proc
  BY DEF ProcInv, ProcTypeOK
<1>1. i # c /\ 0 \in Slots /\ \A j \in Slots : j \in Nat
  BY <1>0, ProcAssumption DEF Slots
<1>2. /\ state' = [st EXCEPT ![c] = IF @ = "RUNNING" THEN "READY" ELSE @, ![i] = "RUNNING"]
      /\ ctx' = [ctx EXCEPT ![c] = "saved", ![i] = "none"]
      /\ current_proc' = i
      /\ esp0' = (IF i # 0 THEN i ELSE esp0)
      /\ waits' = [j \in Slots |-> IF j # i /\ st[j] = "READY" THEN waits[j] + 1 ELSE 0]
  BY <1>0, <1>1 DEF SwitchTo
<1>3. /\ state' \in [Slots -> States]
      /\ state'[i] = "RUNNING"
      /\ state'[c] = (IF st[c] = "RUNNING" THEN "READY" ELSE st[c])
      /\ \A j \in Slots \ {c, i} : state'[j] = state[j] /\ st[j] = state[j]
  BY <1>0, <1>1, <1>2 DEF States
<1>4. ProcTypeOK'
  BY <1>0, <1>1, <1>2, <1>3 DEF ProcInv, ProcTypeOK
<1>5. OneRunning'
  BY <1>0, <1>1, <1>2, <1>3 DEF ProcInv, OneRunning
<1>6. KernelStays'
  <2>1. pid'[0] = 0
    BY DEF ProcInv, KernelStays
  <2>2. state'[0] \in {"READY", "RUNNING"}
    BY <1>0, <1>1, <1>3 DEF ProcInv, KernelStays
  <2>. QED BY <2>1, <2>2 DEF KernelStays
<1>7. ReadyHasContext'
  BY <1>0, <1>1, <1>2, <1>3 DEF ProcInv, ReadyHasContext, ProcTypeOK
<1>8. PidsDistinct'
  <2>1. \A j \in Slots : state'[j] # "UNUSED" => state[j] # "UNUSED"
    BY <1>0, <1>1, <1>3 DEF ProcInv, OneRunning
  <2>. QED BY <2>1 DEF ProcInv, PidsDistinct, UserSlots
<1>9. EntryStackIsOwn'
  BY <1>2 DEF EntryStackIsOwn
<1>10. BypassBudget'
  <2>. SUFFICES ASSUME NEW j \in Slots, state'[j] = "READY"
                PROVE  waits'[j] + Round(i, j) <= ProcMax
    BY <1>2 DEF BypassBudget, Round
  <2>1. j # i
    BY <1>3
  <2>2. CASE j = c
    <3>1. waits'[j] = 0
      BY <1>0, <1>2, <2>2
    <3>. QED BY <3>1, RoundBounds, ProcAssumption
  <2>3. CASE j # c
    <3>1. state[j] = "READY" /\ st[j] = "READY"
      BY <1>3, <2>1, <2>3
    <3>2. waits'[j] = waits[j] + 1 /\ waits[j] \in Nat
      BY <1>2, <2>1, <3>1 DEF ProcInv, ProcTypeOK
    <3>3. waits[j] + Round(c, j) <= ProcMax
      BY <1>0, <3>1 DEF ProcInv, BypassBudget
    <3>4. Round(c, i) <= Round(c, j)
      BY <1>0, <3>1
    <3>5. Round(i, j) + 1 <= Round(c, j)
      BY <2>1, <3>4, RoundAfterSwitch
    <3>6. Round(i, j) \in Int /\ Round(c, j) \in Int
      BY RoundBounds
    <3>. QED BY <3>2, <3>3, <3>5, <3>6, ProcAssumption
  <2>. QED BY <2>2, <2>3
<1>. QED BY <1>4, <1>5, <1>6, <1>7, <1>8, <1>9, <1>10 DEF ProcInv

\* schedule(), from proc_yield or from proc_exit.
LEMMA ScheduleKeepsInv ==
    ASSUME ProcInv, NEW st \in [Slots -> States],
           \A j \in Slots \ {current_proc} : st[j] = state[j],
           st[current_proc] \in {"RUNNING", "ZOMBIE"},
           current_proc = 0 => st[0] = "RUNNING",
           schedule(st), UNCHANGED <<pid, next_pid>>
    PROVE  ProcInv'
<1>0. current_proc \in Slots /\ 0 \in Slots /\ state[current_proc] = "RUNNING"
  BY ProcAssumption DEF ProcInv, ProcTypeOK, Slots, OneRunning
<1>1. CASE Ready(st) # {}
  <2>1. PICK i \in Ready(st) :
            /\ \A j \in Ready(st) : Round(current_proc, i) <= Round(current_proc, j)
            /\ SwitchTo(st, i)
    BY <1>1 DEF schedule
  <2>. QED BY <2>1, SwitchKeepsInv DEF Ready
<1>2. CASE Ready(st) = {}
  <2>1. current_proc = 0
    BY <1>0, <1>2 DEF Ready, ProcInv, KernelStays, OneRunning
  <2>2. state' = st /\ UNCHANGED <<ctx, current_proc, esp0, waits>>
    BY <1>2, <2>1 DEF schedule
  <2>3. st = state
    <3>1. \A j \in Slots : st[j] = state[j]
      BY <1>0, <2>1
    <3>2. state \in [Slots -> States]
      BY DEF ProcInv, ProcTypeOK
    <3>. QED BY <3>1, <3>2
  <2>. QED BY <2>2, <2>3 DEF ProcInv, ProcTypeOK, OneRunning, KernelStays, ReadyHasContext,
        PidsDistinct, EntryStackIsOwn, BypassBudget
<1>. QED BY <1>1, <1>2

\* proc_create.
LEMMA CreateKeepsInv ==
    ASSUME ProcInv, NEW i \in UserSlots, CreateIn(i), current_proc = 0
    PROVE  ProcInv'
<1>0. /\ i \in Slots /\ i # 0 /\ 0 \in Slots /\ state[i] = "UNUSED"
      /\ state' = [state EXCEPT ![i] = "READY"]
      /\ pid' = [pid EXCEPT ![i] = next_pid]
      /\ ctx' = [ctx EXCEPT ![i] = "fresh"]
      /\ waits' = [waits EXCEPT ![i] = 0]
      /\ next_pid' = next_pid + 1
      /\ UNCHANGED <<current_proc, esp0>>
      /\ next_pid \in Nat \ {0}
  BY ProcAssumption DEF CreateIn, UserSlots, Slots, ProcInv, ProcTypeOK
<1>1. ProcTypeOK'
  BY <1>0 DEF ProcInv, ProcTypeOK, States
<1>2. OneRunning' /\ KernelStays' /\ ReadyHasContext' /\ EntryStackIsOwn'
  BY <1>0 DEF ProcInv, ProcTypeOK, OneRunning, KernelStays, ReadyHasContext, EntryStackIsOwn
<1>3. PidsDistinct'
  <2>1. \A j \in Slots : pid[j] \in Nat /\ pid[j] < next_pid
    BY DEF ProcInv, ProcTypeOK, PidsDistinct
  <2>2. pid'[i] = next_pid /\ \A j \in Slots \ {i} : pid'[j] = pid[j] /\ state'[j] = state[j]
    BY <1>0 DEF ProcInv, ProcTypeOK
  <2>3. \A j \in Slots : pid'[j] < next_pid'
    BY <1>0, <2>1, <2>2
  <2>4. \A j, k \in Slots : pid'[j] = pid'[k] /\ pid'[j] # 0 => j = k
    BY <1>0, <2>1, <2>2 DEF ProcInv, PidsDistinct
  <2>5. \A j \in UserSlots : state'[j] # "UNUSED" => pid'[j] # 0
    BY <1>0, <2>2 DEF ProcInv, PidsDistinct, UserSlots
  <2>. QED BY <2>3, <2>4, <2>5 DEF PidsDistinct
<1>4. BypassBudget'
  <2>. SUFFICES ASSUME NEW j \in Slots, state'[j] = "READY"
                PROVE  waits'[j] + Round(current_proc, j) <= ProcMax
    BY <1>0 DEF BypassBudget, Round
  <2>1. CASE j = i
    BY <1>0, <2>1, RoundBounds, ProcAssumption DEF ProcInv, ProcTypeOK
  <2>2. CASE j # i
    BY <1>0, <2>2 DEF ProcInv, ProcTypeOK, BypassBudget
  <2>. QED BY <2>1, <2>2
<1>. QED BY <1>1, <1>2, <1>3, <1>4 DEF ProcInv

\* The reaper and the end of prog_exec: slots of dead processes are recycled.
LEMMA RecycleKeepsInv ==
    ASSUME ProcInv, state' \in [Slots -> States],
           \A i \in Slots : state'[i] = state[i] \/ (i # 0 /\ state[i] \notin {"READY", "RUNNING"}
                                                     /\ state'[i] = "UNUSED"),
           UNCHANGED <<pid, ctx, current_proc, next_pid, esp0, waits>>
    PROVE  ProcInv'
<1>0. 0 \in Slots /\ UserSlots \subseteq Slots
  BY ProcAssumption DEF Slots, UserSlots
<1>1. ProcTypeOK' /\ OneRunning' /\ KernelStays' /\ ReadyHasContext' /\ PidsDistinct' /\ EntryStackIsOwn'
  BY <1>0 DEF ProcInv, ProcTypeOK, OneRunning, KernelStays, ReadyHasContext, PidsDistinct, EntryStackIsOwn
<1>2. BypassBudget'
  BY DEF ProcInv, BypassBudget, Round
<1>. QED BY <1>1, <1>2 DEF ProcInv

-----------------------------------------------------------------------------
\* One step of any client keeps the invariant.
LEMMA ProcNextInv == ProcInv /\ [ProcNext]_procVars => ProcInv'
<1>. SUFFICES ASSUME ProcInv, [ProcNext]_procVars PROVE ProcInv'
  OBVIOUS
<1>0. /\ UNCHANGED procVars => ProcInv'
      /\ current_proc \in Slots /\ state \in [Slots -> States] /\ state[current_proc] = "RUNNING"
      /\ pid[0] = 0 /\ UserSlots = Slots \ {0}
  BY DEF procVars, ProcInv, ProcTypeOK, OneRunning, KernelStays, ReadyHasContext,
        PidsDistinct, EntryStackIsOwn, BypassBudget, UserSlots
<1>1. CASE current_proc = 0 /\ \E entry \in EntryRanges : proc_create(entry)
  BY <1>0, <1>1, CreateKeepsInv DEF proc_create
<1>2. CASE proc_yield
  BY <1>0, <1>2, ScheduleKeepsInv DEF proc_yield
<1>3. CASE proc_exit
  <2>1. CASE pid[current_proc] = 0
    BY <1>0, <1>3, <2>1 DEF proc_exit
  <2>2. CASE pid[current_proc] # 0
    <3>. DEFINE st == [state EXCEPT ![current_proc] = "ZOMBIE"]
    <3>1. /\ schedule(st) /\ UNCHANGED <<pid, next_pid>>
          /\ current_proc # 0
      BY <1>0, <1>3, <2>2 DEF proc_exit
    <3>2. /\ st \in [Slots -> States] /\ st[current_proc] = "ZOMBIE"
          /\ \A j \in Slots \ {current_proc} : st[j] = state[j]
      BY <1>0 DEF States
    <3>. HIDE DEF st
    <3>. QED BY <3>1, <3>2, ScheduleKeepsInv
  <2>. QED BY <2>1, <2>2
<1>4. CASE ReapAll
  BY <1>0, <1>4, RecycleKeepsInv DEF ReapAll, States
<1>5. CASE \E i \in UserSlots : state[i] \notin {"READY", "RUNNING"} /\ ReleaseSlot(i)
  BY <1>0, <1>5, RecycleKeepsInv DEF ReleaseSlot, States
<1>. QED BY <1>0, <1>1, <1>2, <1>3, <1>4, <1>5 DEF ProcNext

\* Every reachable state of the process table satisfies the invariant.
THEOREM ProcessInvariant == ProcSpec => []ProcInv
BY ProcInitInv, ProcNextInv, PTL DEF ProcSpec

\* A process that ended stays ended until its slot is recycled.
THEOREM ProcessZombiesStayDead == ProcSpec => ZombiesStayDead
<1>1. ASSUME ProcInv, [ProcNext]_procVars, NEW i \in Slots, state[i] = "ZOMBIE"
      PROVE  state'[i] \in {"ZOMBIE", "UNUSED"}
  <2>0. /\ i # current_proc /\ current_proc \in Slots /\ state \in [Slots -> States]
        /\ state[current_proc] = "RUNNING" /\ i # 0
    BY <1>1 DEF ProcInv, ProcTypeOK, OneRunning, KernelStays
  <2>1. ASSUME NEW st \in [Slots -> States], schedule(st), st[i] = "ZOMBIE"
        PROVE  state'[i] = "ZOMBIE"
    <3>1. ASSUME NEW k \in Slots, SwitchTo(st, k), k # i PROVE state'[i] = "ZOMBIE"
      BY <2>0, <2>1, <3>1 DEF SwitchTo
    <3>2. 0 \in Slots
      BY ProcAssumption DEF Slots
    <3>. QED BY <2>0, <2>1, <3>1, <3>2 DEF schedule, Ready
  <2>2. CASE proc_yield
    BY <1>1, <2>0, <2>1, <2>2 DEF proc_yield
  <2>3. CASE proc_exit
    <3>1. CASE pid[current_proc] = 0
      BY <1>1, <2>3, <3>1 DEF proc_exit, procVars
    <3>2. CASE pid[current_proc] # 0
      <4>. DEFINE st == [state EXCEPT ![current_proc] = "ZOMBIE"]
      <4>1. st \in [Slots -> States] /\ st[i] = "ZOMBIE"
        BY <1>1, <2>0 DEF States
      <4>2. schedule(st)
        BY <2>3, <3>2 DEF proc_exit
      <4>. HIDE DEF st
      <4>. QED BY <2>1, <4>1, <4>2
    <3>. QED BY <3>1, <3>2
  <2>4. CASE \E entry \in EntryRanges : proc_create(entry)
    BY <1>1, <2>0, <2>4 DEF proc_create, CreateIn, procVars, UserSlots
  <2>5. CASE ReapAll \/ \E k \in UserSlots : ReleaseSlot(k)
    BY <1>1, <2>0, <2>5 DEF ReapAll, ReleaseSlot, UserSlots
  <2>. QED BY <1>1, <2>2, <2>3, <2>4, <2>5 DEF ProcNext, procVars
<1>2. ProcInv /\ [ProcNext]_procVars =>
        [\A i \in Slots : state[i] = "ZOMBIE" => state'[i] \in {"ZOMBIE", "UNUSED"}]_procVars
  BY <1>1
<1>. QED BY <1>2, ProcessInvariant, PTL DEF ProcSpec, ZombiesStayDead

\* The type invariant of the process table.
THEOREM ProcessTypeOK == ProcSpec => []ProcTypeOK
<1>1. ProcInv => ProcTypeOK
  BY DEF ProcInv
<1>. QED BY <1>1, ProcessInvariant, PTL

\* Exactly one process is RUNNING, and it is current_proc.
THEOREM ProcessOneRunning == ProcSpec => []OneRunning
<1>1. ProcInv => OneRunning
  BY DEF ProcInv
<1>. QED BY <1>1, ProcessInvariant, PTL

\* swtch only ever loads a context that proc_create or swtch itself left.
THEOREM ProcessReadyHasContext == ProcSpec => []ReadyHasContext
<1>1. ProcInv => ReadyHasContext
  BY DEF ProcInv
<1>. QED BY <1>1, ProcessInvariant, PTL

\* The pid scan of prog_exec is unambiguous.
THEOREM ProcessPidsDistinct == ProcSpec => []PidsDistinct
<1>1. ProcInv => PidsDistinct
  BY DEF ProcInv
<1>. QED BY <1>1, ProcessInvariant, PTL

\* User mode always traps onto the stack of the running process.
THEOREM ProcessEntryStackIsOwn == ProcSpec => []EntryStackIsOwn
<1>1. ProcInv => EntryStackIsOwn
  BY DEF ProcInv
<1>. QED BY <1>1, ProcessInvariant, PTL

\* Round-robin: a READY process waits for fewer than PROC_MAX switches.
THEOREM ProcessBoundedBypass == ProcSpec => []BoundedBypass
<1>1. ProcInv => BoundedBypass
  <2>. SUFFICES ASSUME ProcInv, NEW i \in Slots, state[i] = "READY" PROVE waits[i] < ProcMax
    BY DEF BoundedBypass
  <2>1. waits[i] + Round(current_proc, i) <= ProcMax /\ waits[i] \in Nat /\ current_proc \in Slots
    BY DEF ProcInv, BypassBudget, ProcTypeOK
  <2>2. Round(current_proc, i) \in 1 .. ProcMax
    BY <2>1, RoundBounds
  <2>. QED BY <2>1, <2>2, ProcAssumption
<1>. QED BY <1>1, ProcessInvariant, PTL

=============================================================================
