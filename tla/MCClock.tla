------------------------------ MODULE MCClock -------------------------------
(***************************************************************************)
(* An instance of Clock for TLC: the seconds before a minute, an hour,     *)
(* noon, local midnight, midnight, a tenth day and a month's end in either *)
(* place, on a chip in each mode.                                          *)
(***************************************************************************)
EXTENDS Clock

MCModes == [binary : BOOLEAN, hours24 : BOOLEAN]

MCStarts ==
    {57, 3597, 43197, 61197, 86397, 8 * 86400 + 86397, 29 * 86400 + 61197,
     29 * 86400 + 86397}

=============================================================================
