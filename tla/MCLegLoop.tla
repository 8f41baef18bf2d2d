------------------------------- MODULE MCLegLoop -------------------------------
(* Small instances of LegLoop for TLC. *)
EXTENDS LegLoop

UpToTwentyFour == 0 .. 24
Percents == {1, 10, 33, 50, 75, 90, 99, 100}
================================================================================
