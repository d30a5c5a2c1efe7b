\* 92 bytes hold up to four small blocks, one more than the table tracks, and
\* 33 bytes no longer fit once a small block sits in the middle.
CONSTANTS
    HeapStart = 8
    HeapSize = 92
    MaxTracked = 3
    Requests = {0, 1, 9, 33}
    WordSize = 1024
SPECIFICATION FairSpec
INVARIANTS
    TypeOK
    Tiling
    GrantsAreUsedBlocks
    FreedHeapIsWhole
    SweepLeavesNothing
    Accounting
PROPERTIES
    NullOnlyIfNoRoom
    CallReturns
    AllocatorSpec
