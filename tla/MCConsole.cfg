\* Two characters typed ahead, lines of two.
CONSTANTS
    VGA_WIDTH = 3
    VGA_HEIGHT = 2
    TabStop = 3
    Glyphs = {"$", "a", "o"}
    Keys = {"a", "tab", "newline", "erase"}
    KeyMax = 2
    LineMax = 2
    EchoMax = 2
    Prompt <- MCPrompt
    Outputs <- MCOutputs
    Writes <- MCWrites
SPECIFICATION Spec
\* `shutdown` stops the machine.
CHECK_DEADLOCK FALSE
INVARIANTS
    TypeOK
    CursorStays
    ScreenIsRoll
    EchoMatchesLine
