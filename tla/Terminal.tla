------------------------------ MODULE Terminal ------------------------------
(***************************************************************************)
(* tty.c: the text screen and its cursor.  The operators take and return   *)
(* a terminal [buffer, row, column] and stand for whole calls, as they run *)
(* with interrupts off; module Console takes terminal_putchar apart where  *)
(* the keyboard interrupt may come in between.  Colours are left out.      *)
(***************************************************************************)
EXTENDS Integers, Sequences
LOCAL INSTANCE SequencesExt

CONSTANTS
    VGA_WIDTH, VGA_HEIGHT,
    TabStop,        \* columns between two tab stops
    Glyphs          \* the characters that are drawn, besides the blank

NL    == "newline"
BS    == "erase"
TAB   == "tab"
Blank == "blank"

ASSUME TerminalAssumption ==
    /\ VGA_WIDTH \in Nat \ {0, 1}
    /\ VGA_HEIGHT \in Nat \ {0, 1}
    /\ TabStop \in Nat \ {0}
    /\ VGA_WIDTH % TabStop = 0
    /\ Glyphs \cap {NL, BS, TAB, Blank} = {}

ScreenSize == VGA_HEIGHT * VGA_WIDTH

\* The text memory that the cursor reaches: the screen and the row below it.
Cells == 0 .. (ScreenSize + VGA_WIDTH - 1)

\* The cell that terminal_putentryat(c, color, x, y) writes.
At(x, y) == y * VGA_WIDTH + x

terminal_initialize ==
    [buffer |-> [i \in Cells |-> Blank], row |-> 0, column |-> 0]

\* Every row moves up by one and the bottom row is blanked; the row below
\* the screen is not part of it.
terminal_scroll(buffer) ==
    [i \in Cells |->
        IF i < ScreenSize - VGA_WIDTH THEN buffer[i + VGA_WIDTH]
        ELSE IF i < ScreenSize THEN Blank ELSE buffer[i]]

\* The start of the next row, with a scroll at the bottom.
NextRow(t) ==
    IF t.row + 1 >= VGA_HEIGHT
    THEN [buffer |-> terminal_scroll(t.buffer), row |-> VGA_HEIGHT - 1, column |-> 0]
    ELSE [buffer |-> t.buffer, row |-> t.row + 1, column |-> 0]

Wrapped(t) == IF t.column >= VGA_WIDTH THEN NextRow(t) ELSE t

\* The cursor moves right to column x over cells that get c.
Filled(t, c, x) ==
    [buffer |-> [i \in Cells |-> IF i \in At(t.column, t.row) .. (At(x, t.row) - 1)
                                 THEN c ELSE t.buffer[i]],
     row |-> t.row, column |-> x]

NextStop(column) ==
    IF column >= VGA_WIDTH THEN column ELSE (column \div TabStop + 1) * TabStop

\* Nothing is erased across the left edge.
Erased(t) ==
    IF t.column = 0 THEN t
    ELSE [buffer |-> [t.buffer EXCEPT ![At(t.column - 1, t.row)] = Blank],
          row |-> t.row, column |-> t.column - 1]

terminal_putchar(t, c) ==
    CASE c = NL  -> NextRow(t)
      [] c = BS  -> Erased(t)
      [] c = TAB -> Wrapped(Filled(t, Blank, NextStop(t.column)))
      [] OTHER   -> Wrapped(Filled(t, c, t.column + 1))

terminal_writestring(t, data) ==
    LET put[n \in 0 .. Len(data)] == IF n = 0 THEN t ELSE terminal_putchar(put[n - 1], data[n])
    IN  put[Len(data)]

-----------------------------------------------------------------------------
(***************************************************************************)
(* What a terminal promises: a roll of paper.  The roll is the sequence of *)
(* the lines written, of which the screen shows the last VGA_HEIGHT, and   *)
(* the cursor stands behind the last character of the last line.           *)
(***************************************************************************)
BlankRoll == << <<>> >>

WithLast(roll, line) == [roll EXCEPT ![Len(roll)] = line]

\* The roll with a new empty line; what no longer shows is forgotten.
NewLine(roll) ==
    LET longer == Append(roll, <<>>)
    IN  IF Len(longer) > VGA_HEIGHT THEN Tail(longer) ELSE longer

\* The last line takes text, and is full with VGA_WIDTH characters.
RollWrite(roll, text) ==
    LET line == Last(roll) \o text
    IN  IF Len(line) >= VGA_WIDTH THEN NewLine(WithLast(roll, line)) ELSE WithLast(roll, line)

RollPut(roll, c) ==
    LET line == Last(roll)
    IN  CASE c = NL  -> NewLine(roll)
          [] c = BS  -> IF line = <<>> THEN roll ELSE WithLast(roll, Front(line))
          [] c = TAB -> RollWrite(roll, [i \in 1 .. (TabStop - (Len(line) % TabStop)) |-> Blank])
          [] OTHER   -> RollWrite(roll, <<c>>)

RollPutString(roll, data) ==
    LET put[n \in 0 .. Len(data)] == IF n = 0 THEN roll ELSE RollPut(put[n - 1], data[n])
    IN  put[Len(data)]

\* The terminal t is what the roll looks like.
Shows(t, roll) ==
    /\ t.row = Len(roll) - 1
    /\ t.column = Len(Last(roll))
    /\ \A y \in 0 .. (VGA_HEIGHT - 1), x \in 0 .. (VGA_WIDTH - 1) :
          t.buffer[At(x, y)] = IF y < Len(roll) /\ x < Len(roll[y + 1])
                               THEN roll[y + 1][x + 1] ELSE Blank

=============================================================================
