\* The 34 programs and the table of 32.
CONSTANTS
    Letters = {"service"}
    CmdBufSize = 4
    MaxArgs = 3
    MAX_PROGRAMS = 32
    Script <- MCScript
SPECIFICATION Spec
CHECK_DEADLOCK FALSE
INVARIANT ProgramsAreFound
