------------------------------- MODULE Console -------------------------------
(***************************************************************************)
(* The screen as the user meets it.  The kernel thread prints what the     *)
(* shell and its commands write and draws erasures; the keyboard interrupt *)
(* echoes each struck character with the same terminal_putchar, between    *)
(* any two memory accesses of the kernel thread's own call.  The accesses  *)
(* are those of the compiled terminal_putchar, terminal_scroll and         *)
(* terminal_clear, in their order: it loads row and column once.           *)
(***************************************************************************)
EXTENDS Terminal
LOCAL INSTANCE SequencesExt

CONSTANTS
    Keys,           \* the characters of the keys that are struck
    KeyMax,         \* characters the key buffer holds
    LineMax,        \* characters cmd_buffer holds
    Prompt,         \* what print_prompt writes
    Outputs,        \* what commands print
    Writes,         \* what user programs pass to SYS_WRITE
    EchoMax         \* bound on the echoes inside one terminal call

ASSUME ConsoleAssumption ==
    /\ Keys \subseteq Glyphs \cup {Blank, TAB, NL, BS}
    /\ KeyMax \in Nat /\ LineMax \in Nat /\ EchoMax \in Nat
    /\ Prompt \in Seq(Glyphs \cup {Blank})
    /\ Outputs \subseteq Seq(Glyphs \cup {Blank, TAB, NL})
    /\ Writes \subseteq Seq(Glyphs \cup {Blank, TAB, NL, BS})
    /\ Len(Prompt) + LineMax <= ScreenSize - VGA_WIDTH

VARIABLES
    buffer, row, column,    \* terminal_buffer, terminal_row, terminal_column
    pc,         \* the next access of the kernel thread's terminal call; "free"
                \* outside of one
    reg,        \* the row and column that terminal_putchar has loaded
    k,          \* the cell at which terminal_scroll or terminal_clear is
    todo,       \* what the kernel thread has still to print
    after,      \* what it does then: "input", "exec" (wait for the child) or "halt"
    queue,      \* characters struck and not yet read
    cmd,        \* cmd_buffer up to cmd_index
    roll,       \* history: what was printed and echoed
    echoes,     \* echoes inside the current terminal call
    torn,       \* history: an echo fell inside a call of the kernel thread
    disturbed   \* history: the line shown need not be the line typed

term == <<buffer, row, column>>
call == <<pc, reg, k, echoes>>
vars == <<buffer, row, column, pc, reg, k, echoes, todo, after, queue, cmd, roll, torn, disturbed>>

Screen == [buffer |-> buffer, row |-> row, column |-> column]

SetScreen(t) == buffer' = t.buffer /\ row' = t.row /\ column' = t.column

\* The end of the boot messages and the first prompt, with interrupts on.
Init ==
    /\ buffer = terminal_initialize.buffer
    /\ row = terminal_initialize.row
    /\ column = terminal_initialize.column
    /\ pc = "free"
    /\ reg = [row |-> 0, column |-> 0]
    /\ k = 0
    /\ echoes = 0
    /\ todo = <<NL>> \o Prompt
    /\ after = "input"
    /\ queue = <<>>
    /\ cmd = <<>>
    /\ roll = BlankRoll
    /\ torn = FALSE
    /\ disturbed = FALSE

-----------------------------------------------------------------------------
(***************************************************************************)
(* The keyboard interrupt: every character but Enter and Backspace is      *)
(* echoed, whether or not there is room to keep it.                        *)
(***************************************************************************)
Echoed(c) == c \notin {NL, BS}

\* Nothing that is still to be printed or read will move the cursor.
Listening ==
    /\ pc = "free" /\ todo = <<>> /\ after = "input"
    /\ \A i \in 1 .. Len(queue) : Echoed(queue[i])

keyboard_irq(c) ==
    /\ pc # "halted"
    /\ queue' = IF Len(queue) < KeyMax THEN Append(queue, c) ELSE queue
    /\ IF Echoed(c)
       THEN /\ SetScreen(terminal_putchar(Screen, c))
            /\ pc # "free" => echoes < EchoMax
            /\ echoes' = IF pc = "free" THEN 0 ELSE echoes + 1
            /\ torn' = (torn \/ pc # "free")
            /\ roll' = IF torn' THEN BlankRoll ELSE RollPut(roll, c)
            /\ disturbed' = (disturbed \/ ~Listening \/ c = TAB \/ Len(queue) = KeyMax)
       ELSE UNCHANGED <<term, echoes, roll, torn, disturbed>>
    /\ UNCHANGED <<pc, reg, k, todo, after, cmd>>

-----------------------------------------------------------------------------
(***************************************************************************)
(* terminal_putchar of the kernel thread, for the first character of todo. *)
(***************************************************************************)
Goto(label) == pc' = label

\* terminal_putchar returns.
PutDone ==
    /\ Goto("free")
    /\ todo' = Tail(todo)
    /\ roll' = IF torn THEN BlankRoll ELSE RollPut(roll, Head(todo))
    /\ reg' = [row |-> 0, column |-> 0]
    /\ k' = 0
    /\ echoes' = 0

\* The call goes on: what its accesses leave alone.
PutOn == UNCHANGED <<todo, roll, echoes>>

CallOnly == UNCHANGED <<after, queue, cmd, torn>>

NewlineLoad ==
    /\ pc = "free" /\ todo # <<>> /\ Head(todo) = NL
    /\ reg' = [reg EXCEPT !.row = row]
    /\ Goto("home")
    /\ PutOn /\ CallOnly /\ UNCHANGED <<term, k, disturbed>>

\* Nothing is erased across the left edge.
EraseAtEdge ==
    /\ pc = "free" /\ todo # <<>> /\ Head(todo) = BS /\ column = 0
    /\ disturbed' = TRUE
    /\ PutDone /\ CallOnly /\ UNCHANGED term

LoadColumn ==
    /\ pc = "free" /\ todo # <<>> /\ Head(todo) # NL
    /\ Head(todo) = BS => column > 0
    /\ reg' = [reg EXCEPT !.column = column]
    /\ Goto("row")
    /\ PutOn /\ CallOnly /\ UNCHANGED <<term, k, disturbed>>

LoadRow ==
    /\ pc = "row"
    /\ reg' = [reg EXCEPT !.row = row]
    /\ Goto(CASE Head(todo) = BS  -> "left"
              [] Head(todo) = TAB -> "tab"
              [] OTHER -> "write")
    /\ PutOn /\ CallOnly /\ UNCHANGED <<term, k, disturbed>>

PutEntry(c, x, y) == buffer' = [buffer EXCEPT ![At(x, y)] = c]

WriteGlyph ==
    /\ pc = "write"
    /\ PutEntry(Head(todo), reg.column, reg.row)
    /\ Goto(IF reg.column + 1 >= VGA_WIDTH THEN "home" ELSE "right")
    /\ PutOn /\ CallOnly /\ UNCHANGED <<row, column, reg, k, disturbed>>

MoveRight ==
    /\ pc = "right"
    /\ column' = reg.column + 1
    /\ PutDone /\ CallOnly /\ UNCHANGED <<buffer, row, disturbed>>

MoveLeft ==
    /\ pc = "left"
    /\ column' = reg.column - 1
    /\ Goto("blank")
    /\ PutOn /\ CallOnly /\ UNCHANGED <<buffer, row, reg, k, disturbed>>

BlankErased ==
    /\ pc = "blank"
    /\ PutEntry(Blank, reg.column - 1, reg.row)
    /\ PutDone /\ CallOnly /\ UNCHANGED <<row, column, disturbed>>

\* One blank of a tab; the column is kept in its register until the stop.
TabBlank ==
    /\ pc = "tab"
    /\ PutEntry(Blank, reg.column, reg.row)
    /\ reg' = [reg EXCEPT !.column = @ + 1]
    /\ Goto(IF (reg.column + 1) % TabStop = 0 THEN "stop" ELSE "tab")
    /\ PutOn /\ CallOnly /\ UNCHANGED <<row, column, k, disturbed>>

TabAtStop ==
    /\ pc = "stop"
    /\ column' = reg.column
    /\ IF reg.column >= VGA_WIDTH
       THEN Goto("home") /\ PutOn /\ UNCHANGED <<reg, k>>
       ELSE PutDone
    /\ CallOnly /\ UNCHANGED <<buffer, row, disturbed>>

MoveHome ==
    /\ pc = "home"
    /\ column' = 0
    /\ Goto("down")
    /\ PutOn /\ CallOnly /\ UNCHANGED <<buffer, row, reg, k, disturbed>>

\* Mutant: the last row is left without a scroll.
MoveDownLate ==
    /\ pc = "down"
    /\ row' = reg.row + 1
    /\ IF reg.row + 1 > VGA_HEIGHT
       THEN Goto("scroll") /\ PutOn /\ UNCHANGED <<reg, k>>
       ELSE PutDone
    /\ CallOnly /\ UNCHANGED <<buffer, column, disturbed>>

MoveDown ==
    /\ pc = "down"
    /\ row' = reg.row + 1
    /\ IF reg.row + 1 >= VGA_HEIGHT
       THEN Goto("scroll") /\ PutOn /\ UNCHANGED <<reg, k>>
       ELSE PutDone
    /\ CallOnly /\ UNCHANGED <<buffer, column, disturbed>>

\* Mutant: the last row is moved up but not blanked.
ScrollCellNoBlank ==
    /\ pc = "scroll"
    /\ buffer' = [buffer EXCEPT ![k] = IF k < ScreenSize - VGA_WIDTH
                                       THEN buffer[k + VGA_WIDTH] ELSE @]
    /\ k' = k + 1
    /\ Goto(IF k + 1 = ScreenSize THEN "bottom" ELSE "scroll")
    /\ PutOn /\ CallOnly /\ UNCHANGED <<row, column, reg, disturbed>>

\* One cell of terminal_scroll: copied from the row below or blanked.
ScrollCell ==
    /\ pc = "scroll"
    /\ buffer' = [buffer EXCEPT ![k] = IF k < ScreenSize - VGA_WIDTH
                                       THEN buffer[k + VGA_WIDTH] ELSE Blank]
    /\ k' = k + 1
    /\ Goto(IF k + 1 = ScreenSize THEN "bottom" ELSE "scroll")
    /\ PutOn /\ CallOnly /\ UNCHANGED <<row, column, reg, disturbed>>

BackOnScreen ==
    /\ pc = "bottom"
    /\ row' = VGA_HEIGHT - 1
    /\ PutDone /\ CallOnly /\ UNCHANGED <<buffer, column, disturbed>>

(***************************************************************************)
(* terminal_clear, from prog_clear.                                        *)
(***************************************************************************)
ClearCell ==
    /\ pc = "clear"
    /\ buffer' = [buffer EXCEPT ![k] = Blank]
    /\ k' = k + 1
    /\ Goto(IF k + 1 = ScreenSize THEN "top" ELSE "clear")
    /\ PutOn /\ CallOnly /\ UNCHANGED <<row, column, reg, disturbed>>

ClearRow ==
    /\ pc = "top"
    /\ row' = 0
    /\ Goto("corner")
    /\ PutOn /\ CallOnly /\ UNCHANGED <<buffer, column, reg, k, disturbed>>

ClearColumn ==
    /\ pc = "corner"
    /\ column' = 0
    /\ k' = 0 /\ echoes' = 0
    /\ Goto("free")
    /\ CallOnly /\ UNCHANGED <<buffer, row, reg, todo, roll, disturbed>>

TerminalStep ==
    \/ NewlineLoad \/ EraseAtEdge \/ LoadColumn \/ LoadRow
    \/ WriteGlyph \/ MoveRight \/ MoveLeft \/ BlankErased
    \/ TabBlank \/ TabAtStop \/ MoveHome \/ MoveDown
    \/ ScrollCell \/ BackOnScreen
    \/ ClearCell \/ ClearRow \/ ClearColumn

-----------------------------------------------------------------------------
(***************************************************************************)
(* shell_input on the next character, and what execute_command prints.     *)
(***************************************************************************)
Reading == pc = "free" /\ todo = <<>> /\ after = "input" /\ queue # <<>>

\* Mutant: the last byte of cmd_buffer takes a character.
InputCharTooLong ==
    /\ Reading /\ Echoed(Head(queue))
    /\ queue' = Tail(queue)
    /\ cmd' = IF Len(cmd) <= LineMax THEN Append(cmd, Head(queue)) ELSE cmd
    /\ disturbed' = (disturbed \/ Len(cmd) = LineMax)
    /\ UNCHANGED <<term, call, todo, after, roll, torn>>

InputChar ==
    /\ Reading /\ Echoed(Head(queue))
    /\ queue' = Tail(queue)
    /\ cmd' = IF Len(cmd) < LineMax THEN Append(cmd, Head(queue)) ELSE cmd
    /\ disturbed' = (disturbed \/ Len(cmd) = LineMax)
    /\ UNCHANGED <<term, call, todo, after, roll, torn>>

\* Mutant: the erasure is drawn on an empty line too.
InputEraseAlways ==
    /\ Reading /\ Head(queue) = BS
    /\ queue' = Tail(queue)
    /\ cmd' = IF cmd = <<>> THEN cmd ELSE Front(cmd)
    /\ todo' = <<BS>>
    /\ UNCHANGED <<term, call, after, roll, torn, disturbed>>

InputErase ==
    /\ Reading /\ Head(queue) = BS
    /\ queue' = Tail(queue)
    /\ IF cmd = <<>> THEN UNCHANGED <<cmd, todo>>
                     ELSE cmd' = Front(cmd) /\ todo' = <<BS>>
    /\ UNCHANGED <<term, call, after, roll, torn, disturbed>>

\* cmd_index is 0 again only when execute_command has returned; until then
\* nothing reads it.
InputEnter ==
    /\ Reading /\ Head(queue) = NL
    /\ queue' = Tail(queue)
    /\ cmd' = <<>>
    /\ disturbed' = \E i \in 2 .. Len(queue) : Echoed(queue[i])

\* A line without a word only prompts again.
EnterNothing ==
    /\ InputEnter
    /\ \A i \in 1 .. Len(cmd) : cmd[i] = Blank
    /\ todo' = Prompt
    /\ UNCHANGED <<term, call, after, roll, torn>>

HasWord == \E i \in 1 .. Len(cmd) : cmd[i] # Blank

\* A program, `exit` or the message that there is no such program.
EnterCommand(out) ==
    /\ InputEnter /\ HasWord
    /\ todo' = out \o <<NL>> \o Prompt
    /\ UNCHANGED <<term, call, after, roll, torn>>

EnterClear ==
    /\ InputEnter /\ HasWord
    /\ Goto("clear")
    /\ todo' = Prompt
    /\ roll' = BlankRoll /\ torn' = FALSE
    /\ UNCHANGED <<term, reg, k, echoes, after>>

EnterExec ==
    /\ InputEnter /\ HasWord
    /\ todo' = <<NL>> /\ after' = "exec"
    /\ UNCHANGED <<term, call, roll, torn>>

\* SYS_WRITE of the child, in a handler with interrupts off.
do_write(data) ==
    /\ pc = "free" /\ todo = <<>> /\ after = "exec"
    /\ SetScreen(terminal_writestring(Screen, data))
    /\ roll' = IF torn THEN BlankRoll ELSE RollPutString(roll, data)
    /\ UNCHANGED <<call, todo, after, queue, cmd, torn, disturbed>>

ExecReturns ==
    /\ pc = "free" /\ todo = <<>> /\ after = "exec"
    /\ todo' = <<NL>> \o Prompt /\ after' = "input"
    /\ UNCHANGED <<term, call, queue, cmd, roll, torn, disturbed>>

\* `shutdown`: prog_halt prints, turns interrupts off and stops.
EnterShutdown(out) ==
    /\ InputEnter /\ HasWord
    /\ todo' = out /\ after' = "halt"
    /\ UNCHANGED <<term, call, roll, torn>>

Halt ==
    /\ pc = "free" /\ todo = <<>> /\ after = "halt"
    /\ Goto("halted")
    /\ UNCHANGED <<term, reg, k, echoes, todo, after, queue, cmd, roll, torn, disturbed>>

ShellStep ==
    \/ InputChar \/ InputErase \/ EnterNothing
    \/ \E out \in Outputs : EnterCommand(out) \/ EnterShutdown(out)
    \/ EnterClear \/ EnterExec
    \/ \E data \in Writes : do_write(data)
    \/ ExecReturns \/ Halt

Next ==
    \/ \E c \in Keys : keyboard_irq(c)
    \/ TerminalStep
    \/ ShellStep

Spec == Init /\ [][Next]_vars

-----------------------------------------------------------------------------
Chars == Glyphs \cup {Blank, TAB, NL, BS}

TypeOK ==
    /\ buffer \in [Cells -> Glyphs \cup {Blank}]
    /\ row \in 0 .. VGA_HEIGHT /\ column \in 0 .. VGA_WIDTH
    /\ pc \in {"free", "row", "write", "right", "left", "blank", "tab", "stop", "home",
               "down", "scroll", "bottom", "clear", "top", "corner", "halted"}
    /\ reg \in [row : 0 .. (VGA_HEIGHT - 1), column : 0 .. VGA_WIDTH]
    /\ k \in 0 .. ScreenSize
    /\ echoes \in 0 .. EchoMax
    /\ todo \in Seq(Chars)
    /\ after \in {"input", "exec", "halt"}
    /\ queue \in Seq(Keys) /\ Len(queue) <= KeyMax
    /\ cmd \in Seq(Keys \ {NL, BS}) /\ Len(cmd) <= LineMax
    /\ torn \in BOOLEAN /\ disturbed \in BOOLEAN

\* Wherever an echo comes between the accesses of terminal_putchar, the
\* cursor leaves the screen only downwards and only while the kernel thread
\* scrolls, or to the right at the end of a tab, and what the kernel thread
\* writes next is on the screen: no order of echo and output writes outside
\* the screen and the one row below it.
CursorStays ==
    /\ row = VGA_HEIGHT => pc \in {"scroll", "bottom"}
    /\ column = VGA_WIDTH => pc = "home" /\ row < VGA_HEIGHT
    /\ pc \in {"write", "tab"} => At(reg.column, reg.row) < ScreenSize
    /\ pc \in {"left", "blank"} => reg.column > 0

\* The screen is the end of a roll of paper with all that was printed and
\* echoed, unless an echo fell inside a terminal call since the last
\* `clear`: scrolling, wrapping, tabs and erasures lose and repeat nothing.
ScreenIsRoll == pc = "free" /\ ~torn => Shows(Screen, roll)

\* When the shell waits for a key, the prompt and the command line as it
\* will be executed stand before the cursor, unless since the last Enter a
\* character was struck ahead of an erasure or of the prompt, a tab was
\* typed, a character had no room, or an erasure met the left edge.
EchoMatchesLine ==
    Listening /\ queue = <<>> /\ ~disturbed =>
        LET line == Prompt \o cmd
            cursor == At(column, row)
        IN  /\ cursor >= Len(line)
            /\ \A i \in 1 .. Len(line) : buffer[cursor - Len(line) + i - 1] = line[i]

=============================================================================
