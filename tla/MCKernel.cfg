\* Two user slots.  Words 0 .. 10: seconds of four ticks, a preemption every
\* second tick, and a last second that the wrap of the counter cuts short.
CONSTANTS
  ProcMax = 3
  PidLimit = 5
  Hz = 4
  Quantum = 2
  WordSize = 11
SPECIFICATION FairSpec
INVARIANTS
  TypeOK
  NoStrayProcess
  ChildIsOwn
PROPERTIES
  SleeperWakes
  ExecReturns
  ClockRuns
  ProcessSpec
