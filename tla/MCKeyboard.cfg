\* A ring of four slots holds three characters; a line holds two.
CONSTANTS
    KB_BUF_SZ = 4
    CmdBufSize = 3
    Scancodes = {"ShiftDown", "ShiftUp", "CapsLock", "Letter", "Enter", "Backspace"}
SPECIFICATION FairSpec
INVARIANTS
    TypeOK
PROPERTIES
    QueueSpec
    LostOnlyIfFull
    KeysReachShell
