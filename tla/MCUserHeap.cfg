CONSTANTS
    HeapStart = 8
    HeapSize = 92
    MaxTracked = 3
    Requests = {1, 9}
    WordSize = 1024
    MallocLimit = 100
    UserSpaceStart = 200
    UserSpaceEnd = 800
SPECIFICATION UserSpec
INVARIANT SysFreeFrees
