-------------------------------- MODULE Shell --------------------------------
(***************************************************************************)
(* The shell from the boot script to the command line: the program table   *)
(* of task.c, shell_run_script, shell_input with the buffer cmd_buffer it  *)
(* edits in place, parse_args, the dispatch of execute_command and the     *)
(* service manager.  A word is a sequence of letters; a letter may stand   *)
(* for a whole name, so that the real names take one cell each.  What the  *)
(* other programs do is in modules Vfs, Heap and Kernel, what is drawn in  *)
(* Console.                                                                *)
(***************************************************************************)
EXTENDS Integers, Sequences, FiniteSets
LOCAL INSTANCE SequencesExt

CONSTANTS
    Letters,        \* the letters that are typed
    CmdBufSize,     \* bytes of cmd_buffer
    MaxArgs,        \* entries of argv in execute_command
    MAX_PROGRAMS,
    Script          \* the text of /etc/init.rc

NUL   == "nul"
Blank == "blank"
NL    == "newline"
BS    == "erase"

\* The names that shell_register_programs registers, in its order.
Registered == <<
    "help", "about", "fastfetch", "roadmap", "service", "touch", "write", "rm", "mv",
    "mkdir", "chmod", "stat", "cp", "append", "clear", "uname", "uptime", "date", "free",
    "cpuid", "whoami", "hostname", "pwd", "ls", "cat", "echo", "ps", "id", "arch", "exec",
    "display", "memtest", "reboot", "halt" >>

Names == {Registered[n] : n \in 1 .. Len(Registered)}

ServiceNames == {"netd", "sshd", "audiod", "guid"}

ASSUME ShellAssumption ==
    /\ CmdBufSize \in Nat \ {0} /\ MaxArgs \in Nat \ {0} /\ MAX_PROGRAMS \in Nat
    /\ Letters \cap {NUL, Blank, NL, BS} = {}
    /\ Script \in Seq(STRING) /\ \A n \in 1 .. Len(Script) : Script[n] # NUL

VARIABLES
    pc,                 \* "register", "script", "main" or "halted"
    prog_table,         \* the names in the table, up to prog_count
    next,               \* the call of program_register that comes next
    script, i, start,   \* shell_run_script: its copy of the text and two indices
    shell_batch_mode,
    cmd_buffer, cmd_index,
    services,
    typed,              \* history: the characters of the line, without the erased ones
    ran,                \* history: the commands of the script, by their words
    prompts             \* history: prompts since boot or since the last Enter

edit == <<cmd_buffer, cmd_index, typed>>
boot == <<prog_table, next, script, i, start, shell_batch_mode, ran>>
vars == <<pc, prog_table, next, script, i, start, shell_batch_mode, cmd_buffer, cmd_index,
          services, typed, ran, prompts>>

Init ==
    /\ pc = "register"
    /\ prog_table = <<>>
    /\ next = 1
    /\ script = <<>>
    /\ i = 0 /\ start = 0
    /\ shell_batch_mode = FALSE
    /\ cmd_buffer = [n \in 0 .. (CmdBufSize - 1) |-> NUL]
    /\ cmd_index = 0
    /\ services = [s \in ServiceNames |-> [enabled |-> s = "netd", running |-> FALSE]]
    /\ typed = <<>> /\ ran = <<>>
    /\ prompts = 0

-----------------------------------------------------------------------------
(***************************************************************************)
(* task.c: a table that takes no more than MAX_PROGRAMS.                   *)
(***************************************************************************)
program_register ==
    /\ pc = "register" /\ next <= Len(Registered)
    /\ prog_table' = IF Len(prog_table) >= MAX_PROGRAMS THEN prog_table
                     ELSE Append(prog_table, Registered[next])
    /\ next' = next + 1
    /\ UNCHANGED <<pc, edit, script, i, start, shell_batch_mode, ran, services, prompts>>

program_find(word) == \E n \in 1 .. Len(prog_table) : <<prog_table[n]>> = word

-----------------------------------------------------------------------------
(***************************************************************************)
(* parse_args on the string that begins at p in the array b.               *)
(***************************************************************************)
FirstFrom(b, p, S) ==
    CHOOSE q \in DOMAIN b : /\ q >= p /\ b[q] \in S
                            /\ \A r \in p .. (q - 1) : b[r] \notin S

Chars(b) == {b[q] : q \in DOMAIN b}

\* Mutant: the end of the line is stepped over like the end of a word.
ParseWordRunsOn(s) ==
    LET q == FirstFrom(s.b, s.p, Chars(s.b) \ {Blank})
        e == FirstFrom(s.b, q, {NUL, Blank})
    IN  CASE s.b[s.p] = NUL -> s
          [] s.b[s.p] # NUL /\ s.b[q] = NUL -> [s EXCEPT !.p = q]
          [] OTHER -> [b    |-> [s.b EXCEPT ![e] = NUL],
                       p    |-> IF e + 1 \in DOMAIN s.b THEN e + 1 ELSE e,
                       argv |-> Append(s.argv, q)]

\* One round of the loop: blanks are skipped, a word is entered in argv and
\* its end overwritten by a terminator.
ParseWord(s) ==
    LET q == FirstFrom(s.b, s.p, Chars(s.b) \ {Blank})
        e == FirstFrom(s.b, q, {NUL, Blank})
    IN  CASE s.b[s.p] = NUL -> s
          [] s.b[s.p] # NUL /\ s.b[q] = NUL -> [s EXCEPT !.p = q]
          [] OTHER -> [b    |-> [s.b EXCEPT ![e] = NUL],
                       p    |-> IF s.b[e] = NUL THEN e ELSE e + 1,
                       argv |-> Append(s.argv, q)]

parse_args(b, p) ==
    LET round[n \in 0 .. MaxArgs] ==
            IF n = 0 THEN [b |-> b, p |-> p, argv |-> <<>>] ELSE ParseWord(round[n - 1])
    IN  round[MaxArgs]

\* The string at p.
CString(b, p) ==
    LET e == FirstFrom(b, p, {NUL}) IN [n \in 1 .. (e - p) |-> b[p + n - 1]]

(***************************************************************************)
(* The service manager, on the words of its command line.                  *)
(***************************************************************************)
Set(name, field, value) ==
    IF \E s \in ServiceNames : name = <<s>>
    THEN [services EXCEPT ![name[1]][field] = value]
    ELSE services

prog_service(args) ==
    IF Len(args) < 3 THEN services
    ELSE CASE args[2] = <<"start">>   -> Set(args[3], "running", TRUE)
           [] args[2] = <<"stop">>    -> Set(args[3], "running", FALSE)
           [] args[2] = <<"enable">>  -> Set(args[3], "enabled", TRUE)
           [] args[2] = <<"disable">> -> Set(args[3], "enabled", FALSE)
           [] OTHER -> services

(***************************************************************************)
(* execute_command on the words of a line.  before is the number of        *)
(* prompts to which it adds its own.                                       *)
(***************************************************************************)
Args(b, p) ==
    LET parsed == parse_args(b, p)
    IN  [n \in 1 .. Len(parsed.argv) |-> CString(parsed.b, parsed.argv[n])]

print_prompt(before) == prompts' = IF shell_batch_mode THEN before ELSE before + 1

\* The programs that do not come back, by the table or built in.
Stops(word) ==
    \/ program_find(word) /\ word \in {<<"reboot">>, <<"halt">>}
    \/ ~program_find(word) /\ word \in {<<"shutdown">>, <<"poweroff">>}

execute_command(args, before) ==
    IF args = <<>> \/ Stops(args[1])
    THEN /\ UNCHANGED services
         /\ IF args = <<>> THEN print_prompt(before) /\ UNCHANGED pc
                           ELSE prompts' = before /\ pc' = "halted"
    ELSE /\ services' = IF args[1] = <<"service">> /\ program_find(args[1])
                        THEN prog_service(args) ELSE services
         /\ print_prompt(before)
         /\ UNCHANGED pc

-----------------------------------------------------------------------------
(***************************************************************************)
(* shell_run_script, which cuts its copy of the text into strings, each    *)
(* cut further by parse_args while the rest is still to be read.           *)
(***************************************************************************)
ScriptBegin ==
    /\ pc = "register" /\ next > Len(Registered)
    /\ pc' = "script"
    /\ script' = [n \in 0 .. Len(Script) |-> IF n < Len(Script) THEN Script[n + 1] ELSE NUL]
    /\ shell_batch_mode' = (Script # <<>>)
    /\ i' = IF Script # <<>> THEN 0 ELSE 1
    /\ UNCHANGED <<edit, prog_table, next, start, ran, services, prompts>>

ScriptChar ==
    /\ pc = "script" /\ i <= Len(Script)
    /\ i' = i + 1
    /\ LET b == [script EXCEPT ![i] = NUL]
       IN  IF script[i] \notin {NL, NUL}
           THEN UNCHANGED <<pc, script, start, ran, services, prompts>>
           ELSE /\ start' = i + 1
                /\ IF b[start] = NUL
                   THEN script' = b /\ UNCHANGED <<pc, ran, services, prompts>>
                   ELSE /\ script' = parse_args(b, start).b
                        /\ ran' = IF Args(b, start) = <<>> THEN ran ELSE Append(ran, Args(b, start))
                        /\ execute_command(Args(b, start), prompts)
    /\ UNCHANGED <<edit, prog_table, next, shell_batch_mode>>

\* Mutant: batch mode is left on.
ScriptEndInBatch ==
    /\ pc = "script" /\ i > Len(Script)
    /\ pc' = "main"
    /\ prompts' = prompts + 1
    /\ UNCHANGED <<edit, boot, services>>

\* The end of the script; kernel_main goes on to its first prompt.
ScriptEnd ==
    /\ pc = "script" /\ i > Len(Script)
    /\ pc' = "main"
    /\ shell_batch_mode' = FALSE
    /\ prompts' = prompts + 1
    /\ UNCHANGED <<edit, prog_table, next, script, i, start, ran, services>>

-----------------------------------------------------------------------------
(***************************************************************************)
(* shell_input, which leaves old bytes behind cmd_index.                   *)
(***************************************************************************)
\* Mutant: the last byte of cmd_buffer takes a character.
InputCharTooLong(c) ==
    /\ pc = "main"
    /\ IF cmd_index < CmdBufSize
       THEN /\ cmd_buffer' = [cmd_buffer EXCEPT ![cmd_index] = c]
            /\ cmd_index' = cmd_index + 1
            /\ typed' = Append(typed, c)
       ELSE UNCHANGED edit
    /\ UNCHANGED <<pc, boot, services, prompts>>

InputChar(c) ==
    /\ pc = "main"
    /\ IF cmd_index < CmdBufSize - 1
       THEN /\ cmd_buffer' = [cmd_buffer EXCEPT ![cmd_index] = c]
            /\ cmd_index' = cmd_index + 1
            /\ typed' = Append(typed, c)
       ELSE UNCHANGED edit
    /\ UNCHANGED <<pc, boot, services, prompts>>

InputErase ==
    /\ pc = "main"
    /\ IF cmd_index > 0
       THEN cmd_index' = cmd_index - 1 /\ typed' = Front(typed)
       ELSE UNCHANGED <<cmd_index, typed>>
    /\ UNCHANGED <<pc, boot, cmd_buffer, services, prompts>>

\* Mutant: Enter does not terminate the line.
TerminatedNot == cmd_buffer

\* The line with the terminator that Enter writes behind it.
Terminated == [cmd_buffer EXCEPT ![cmd_index] = NUL]

InputEnter ==
    /\ pc = "main"
    /\ execute_command(Args(Terminated, 0), 0)
    /\ cmd_buffer' = parse_args(Terminated, 0).b
    /\ cmd_index' = 0
    /\ typed' = <<>>
    /\ UNCHANGED boot

Next ==
    \/ program_register
    \/ ScriptBegin \/ ScriptChar \/ ScriptEnd
    \/ \E c \in Letters \cup {Blank} : InputChar(c)
    \/ InputErase \/ InputEnter

Spec == Init /\ [][Next]_vars

-----------------------------------------------------------------------------
TypeOK ==
    /\ pc \in {"register", "script", "main", "halted"}
    /\ \A n \in 1 .. Len(prog_table) : prog_table[n] \in Names
    /\ Len(prog_table) <= MAX_PROGRAMS
    /\ cmd_buffer \in [0 .. (CmdBufSize - 1) -> Letters \cup {Blank, NUL}]
    /\ cmd_index \in 0 .. (CmdBufSize - 1)
    /\ shell_batch_mode \in BOOLEAN
    /\ services \in [ServiceNames -> [enabled : BOOLEAN, running : BOOLEAN]]

\* The nth member of a set of numbers, from the least.
Nth(S, n) == CHOOSE m \in S : Cardinality({l \in S : l < m}) = n - 1

\* The words of a text: its longest runs without a blank, the first MaxArgs
\* of them.
Words(text) ==
    LET starts == {n \in 1 .. Len(text) : text[n] # Blank /\ (n = 1 \/ text[n - 1] = Blank)}
        ends   == {n \in 1 .. Len(text) : text[n] # Blank /\ (n = Len(text) \/ text[n + 1] = Blank)}
    IN  [w \in 1 .. Min({MaxArgs, Cardinality(starts)}) |->
            SubSeq(text, Nth(starts, w), Nth(ends, w))]

Lines(text) ==
    LET cuts == {0, Len(text) + 1} \cup {n \in 1 .. Len(text) : text[n] = NL}
    IN  [l \in 1 .. (Cardinality(cuts) - 1) |->
            SubSeq(text, Nth(cuts, l) + 1, Nth(cuts, l + 1) - 1)]

\* The commands of the script; a line without a word is none.
ScriptCommands ==
    LET lines == Lines(Script)
        full  == {l \in 1 .. Len(lines) : Words(lines[l]) # <<>>}
    IN  [n \in 1 .. Cardinality(full) |-> Words(lines[Nth(full, n)])]

\* Were Enter struck now, the command would get the first MaxArgs words of
\* what was typed, without what was erased and nothing left in cmd_buffer
\* by earlier lines or by the terminators written into them.
ArgsAreWords == pc = "main" => Args(Terminated, 0) = Words(typed)

\* The script ran line by line, the last one without a newline included,
\* and each command got the words of its line: cutting one line into words
\* does not touch the lines behind it.
ScriptRunsLines == pc = "main" => ran = ScriptCommands

\* Waiting for a line the shell has prompted once since the last one, and
\* never inside the script.
OnePrompt ==
    /\ pc = "main" => prompts = 1
    /\ pc = "script" => prompts = 0

\* Every program that shell_register_programs registers can be called.
ProgramsAreFound == pc = "main" => \A n \in 1 .. Len(Registered) : program_find(<<Registered[n]>>)

=============================================================================
