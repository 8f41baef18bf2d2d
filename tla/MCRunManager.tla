----------------------------- MODULE MCRunManager -----------------------------
(* Small instances of RunManager for TLC. *)
EXTENDS RunManager

CONSTANTS r1, r2
================================================================================
