\* A kernel thread, four user slots, up to seven processes.
CONSTANTS
  ProcMax = 5
  PidLimit = 8
SPECIFICATION ProcSpec
INVARIANTS
  ProcTypeOK
  OneRunning
  ReadyHasContext
  PidsDistinct
  EntryStackIsOwn
  BoundedBypass
PROPERTIES
  ZombiesStayDead
