\* argv of three words in a buffer of eight bytes.
CONSTANTS
    Letters = {"service", "poweroff"}
    CmdBufSize = 8
    MaxArgs = 3
    MAX_PROGRAMS = 32
    Script <- MCScript
SPECIFICATION Spec
\* `poweroff` stops the machine.
CHECK_DEADLOCK FALSE
INVARIANTS
    TypeOK
    ArgsAreWords
    ScriptRunsLines
    OnePrompt
