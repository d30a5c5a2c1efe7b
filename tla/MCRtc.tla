------------------------------- MODULE MCRtc -------------------------------
(***************************************************************************)
(* The seconds around the turn of a year.                                  *)
(***************************************************************************)
EXTENDS Rtc

MCMoments == <<
    [sec |-> 58, min |-> 59, hour |-> 23, day |-> 31, month |-> 12, year |-> 25],
    [sec |-> 59, min |-> 59, hour |-> 23, day |-> 31, month |-> 12, year |-> 25],
    [sec |-> 0,  min |-> 0,  hour |-> 0,  day |-> 1,  month |-> 1,  year |-> 26],
    [sec |-> 1,  min |-> 0,  hour |-> 0,  day |-> 1,  month |-> 1,  year |-> 26] >>

=============================================================================
