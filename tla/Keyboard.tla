------------------------------ MODULE Keyboard ------------------------------
(***************************************************************************)
(* The path of a key stroke: keyboard_irq puts its character in the ring   *)
(* kb_buf, keyboard_getchar takes it out in the kernel's main loop,        *)
(* shell_input edits the command line.  The interrupt may come between any *)
(* two accesses of keyboard_getchar to the ring, while a command runs, and *)
(* between the check that found the ring empty and hlt.                    *)
(***************************************************************************)
EXTENDS Integers, Sequences

CONSTANTS
    KB_BUF_SZ,      \* slots of the ring
    CmdBufSize,     \* bytes of cmd_buffer
    Scancodes       \* the scancodes that arrive, by what the driver makes of them

ModifierDown == [ShiftDown |-> "SHIFT", CtrlDown |-> "CTRL", AltDown |-> "ALT"]
ModifierUp   == [ShiftUp |-> "SHIFT", CtrlUp |-> "CTRL", AltUp |-> "ALT"]

\* kbdus_lower and kbdus_upper on one key of each sort.
Lower == [Letter |-> "a", Digit |-> "1", Enter |-> "newline", Backspace |-> "erase"]
Upper == [Letter |-> "A", Digit |-> "!", Enter |-> "newline", Backspace |-> "erase"]

\* Scancodes 0x10 .. 0x32, on which Caps Lock inverts Shift.
CapsRange == {"Letter", "Enter"}

\* Key releases, the 0xE0 prefix and keys with no character.
Ignored == {"Release", "Prefix", "Blank"}

AllScancodes == DOMAIN ModifierDown \cup DOMAIN ModifierUp \cup {"CapsLock"}
                \cup DOMAIN Lower \cup Ignored

NUL == "nul"     \* the 0 that getchar returns from an empty ring

Char == {Lower[k] : k \in DOMAIN Lower} \cup {Upper[k] : k \in DOMAIN Upper}

ASSUME KeyboardAssumption ==
    /\ KB_BUF_SZ \in Nat \ {0, 1}
    /\ CmdBufSize \in Nat \ {0}
    /\ Scancodes \subseteq AllScancodes

VARIABLES
    kb_buf, kb_head, kb_tail,
    kb_state,   \* the modifiers held or locked
    pc,         \* the main loop: "check", "read", "advance" (keyboard_getchar),
                \* "input" (shell_input), "run" (execute_command), "idle", "hlt"
    c,          \* the local of keyboard_getchar
    got,        \* what keyboard_getchar returned last
    cmd         \* cmd_buffer up to cmd_index

ring == <<kb_buf, kb_head, kb_tail>>
vars == <<kb_buf, kb_head, kb_tail, kb_state, pc, c, got, cmd>>

Index == 0 .. (KB_BUF_SZ - 1)

Init ==
    /\ kb_buf = [i \in Index |-> NUL]
    /\ kb_head = 0
    /\ kb_tail = 0
    /\ kb_state = {}
    /\ pc = "check"
    /\ c = NUL
    /\ got = NUL
    /\ cmd = <<>>

-----------------------------------------------------------------------------
(***************************************************************************)
(* keyboard_irq.  An interrupt taken in hlt sends the main loop round.     *)
(***************************************************************************)
Woken == IF pc = "hlt" THEN "check" ELSE pc

UseUpper(key) ==
    ("SHIFT" \in kb_state) # (key \in CapsRange /\ "CAPS" \in kb_state)

KeyChar(key) == IF UseUpper(key) THEN Upper[key] ELSE Lower[key]

\* The state of the modifiers after scancode s.
Modifiers(s) ==
    CASE s \in DOMAIN ModifierDown -> kb_state \cup {ModifierDown[s]}
      [] s \in DOMAIN ModifierUp   -> kb_state \ {ModifierUp[s]}
      [] s = "CapsLock" /\ "CAPS" \in kb_state -> kb_state \ {"CAPS"}
      [] s = "CapsLock" /\ "CAPS" \notin kb_state -> kb_state \cup {"CAPS"}
      [] OTHER -> kb_state

\* Mutant: the ring counts as full one slot early.
StoreEarlyFull(ch) ==
    IF (kb_head + 2) % KB_BUF_SZ # kb_tail
    THEN /\ kb_buf' = [kb_buf EXCEPT ![kb_head] = ch]
         /\ kb_head' = (kb_head + 1) % KB_BUF_SZ
         /\ UNCHANGED kb_tail
    ELSE UNCHANGED ring

\* A character goes in at kb_head unless the ring is full.
Store(ch) ==
    LET next == (kb_head + 1) % KB_BUF_SZ
    IN  IF next # kb_tail
        THEN /\ kb_buf' = [kb_buf EXCEPT ![kb_head] = ch]
             /\ kb_head' = next
             /\ UNCHANGED kb_tail
        ELSE UNCHANGED ring

keyboard_irq(s) ==
    /\ kb_state' = Modifiers(s)
    /\ IF s \in DOMAIN Lower THEN Store(KeyChar(s)) ELSE UNCHANGED ring
    /\ pc' = Woken
    /\ UNCHANGED <<c, got, cmd>>

-----------------------------------------------------------------------------
(***************************************************************************)
(* keyboard_getchar, in its three accesses to the ring.                    *)
(***************************************************************************)
GetcharCheck ==
    /\ pc = "check"
    /\ pc' = IF kb_head = kb_tail THEN "idle" ELSE "read"
    /\ UNCHANGED <<ring, kb_state, c, got, cmd>>

GetcharRead ==
    /\ pc = "read"
    /\ c' = kb_buf[kb_tail]
    /\ pc' = "advance"
    /\ UNCHANGED <<ring, kb_state, got, cmd>>

\* Mutant: kb_tail runs off the end of the ring.
GetcharAdvanceNoWrap ==
    /\ pc = "advance"
    /\ kb_tail' = kb_tail + 1
    /\ got' = c
    /\ pc' = "input"
    /\ UNCHANGED <<kb_buf, kb_head, kb_state, c, cmd>>

\* Mutant: the slot is read after kb_tail was advanced.
GetcharAdvanceFirst ==
    /\ pc = "advance"
    /\ kb_tail' = (kb_tail + 1) % KB_BUF_SZ
    /\ got' = kb_buf[kb_tail']
    /\ pc' = "input"
    /\ UNCHANGED <<kb_buf, kb_head, kb_state, c, cmd>>

GetcharAdvance ==
    /\ pc = "advance"
    /\ kb_tail' = (kb_tail + 1) % KB_BUF_SZ
    /\ got' = c
    /\ pc' = "input"
    /\ UNCHANGED <<kb_buf, kb_head, kb_state, c, cmd>>

(***************************************************************************)
(* shell_input, the command it may run, and the end of the main loop.      *)
(***************************************************************************)
Edited ==
    CASE got = "newline" -> cmd
      [] got = "erase"   -> IF cmd = <<>> THEN cmd ELSE SubSeq(cmd, 1, Len(cmd) - 1)
      [] OTHER -> IF Len(cmd) < CmdBufSize - 1 THEN Append(cmd, got) ELSE cmd

shell_input ==
    /\ pc = "input"
    /\ cmd' = Edited
    /\ pc' = IF got = "newline" THEN "run" ELSE "check"
    /\ UNCHANGED <<ring, kb_state, c, got>>

CommandReturns ==
    /\ pc = "run"
    /\ cmd' = <<>>
    /\ pc' = "check"
    /\ UNCHANGED <<ring, kb_state, c, got>>

Halt ==
    /\ pc = "idle"
    /\ pc' = "hlt"
    /\ UNCHANGED <<ring, kb_state, c, got, cmd>>

\* Mutant: the timer interrupt is masked.
TimerMasked == pc = "hlt" /\ UNCHANGED vars

\* The timer interrupt, for a main loop in hlt.
TimerWakes ==
    /\ pc = "hlt"
    /\ pc' = "check"
    /\ UNCHANGED <<ring, kb_state, c, got, cmd>>

MainLoop ==
    \/ GetcharCheck \/ GetcharRead \/ GetcharAdvance
    \/ shell_input \/ CommandReturns \/ Halt

Next ==
    \/ \E s \in Scancodes : keyboard_irq(s)
    \/ MainLoop
    \/ TimerWakes

Spec == Init /\ [][Next]_vars

\* The main loop runs, every command returns, and the PIT ticks.
FairSpec == Spec /\ WF_vars(MainLoop) /\ WF_vars(TimerWakes)

-----------------------------------------------------------------------------
TypeOK ==
    /\ kb_buf \in [Index -> Char \cup {NUL}]
    /\ kb_head \in Index /\ kb_tail \in Index
    /\ kb_state \subseteq {"SHIFT", "CTRL", "ALT", "CAPS"}
    /\ pc \in {"check", "read", "advance", "input", "run", "idle", "hlt"}
    /\ c \in Char \cup {NUL}
    /\ got \in Char \cup {NUL}
    /\ cmd \in Seq(Char \ {"newline", "erase"})
    /\ Len(cmd) < CmdBufSize        \* room for the terminator

\* The characters in the ring, oldest first.
Waiting ==
    LET n == (kb_head - kb_tail) % KB_BUF_SZ
    IN  [i \in 1 .. n |-> kb_buf[(kb_tail + i - 1) % KB_BUF_SZ]]

\* The driver is a bounded queue: characters reach the shell in the order
\* they were struck, none twice, none from a slot the interrupt has already
\* reused, however interrupts fall between the accesses of getchar.
Queue == INSTANCE KeyQueue WITH Capacity <- KB_BUF_SZ - 1, queue <- Waiting

QueueSpec == Queue!Spec

\* A character is lost only when the ring already holds KB_BUF_SZ - 1 of
\* them.
LostOnlyIfFull ==
    [][\A s \in Scancodes \cap DOMAIN Lower :
          keyboard_irq(s) /\ Len(Waiting) < KB_BUF_SZ - 1
              => Waiting' = Append(Waiting, KeyChar(s))]_vars

\* A struck key reaches the shell although the check that found the ring
\* empty and hlt are not one step: the timer ends the hlt.
KeysReachShell ==
    \A t \in Index : kb_tail = t /\ kb_head # t ~> kb_tail # t

=============================================================================
