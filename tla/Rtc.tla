-------------------------------- MODULE Rtc --------------------------------
(***************************************************************************)
(* The `date` command against the real time clock.  The chip counts on     *)
(* while prog_date reads its registers one after the other.                *)
(***************************************************************************)
EXTENDS Integers, Sequences

CONSTANT Moments    \* the time at consecutive seconds, in decimal fields

Fields == <<"sec", "min", "hour", "day", "month", "year">>

Names == {Fields[n] : n \in 1 .. Len(Fields)}

VARIABLES
    second,     \* the moment at which the chip is
    read,       \* registers that prog_date has read
    shown,      \* what it will print
    began       \* history: the moment at which it began

vars == <<second, read, shown, began>>

Init ==
    /\ second = 1
    /\ read = 0
    /\ shown = [f \in Names |-> 0]
    /\ began = 1

\* The chip keeps its registers in BCD, and changes all of them at once.
Register(f) == (Moments[second][f] \div 10) * 16 + (Moments[second][f] % 10)

RtcUpdate ==
    /\ second < Len(Moments)
    /\ second' = second + 1
    /\ UNCHANGED <<read, shown, began>>

bcd_to_bin(bcd) == (bcd \div 16) * 10 + (bcd % 16)

\* One read_cmos of prog_date; the first begins a new command.
read_cmos ==
    LET n == IF read = Len(Fields) THEN 1 ELSE read + 1
    IN  /\ read' = n
        /\ shown' = [shown EXCEPT ![Fields[n]] = bcd_to_bin(Register(Fields[n]))]
        /\ began' = IF n = 1 THEN second ELSE began
        /\ UNCHANGED second

Next == RtcUpdate \/ read_cmos

Spec == Init /\ [][Next]_vars

-----------------------------------------------------------------------------
\* README.md says of `date`: "RTC date/time".  What it prints was the time at
\* some moment between its first read and its last.
DateWasTrue == read = Len(Fields) => \E n \in began .. second : shown = Moments[n]

=============================================================================
