------------------------------ MODULE MCSimTrading ------------------------------
(* Small instance of SimTrading for TLC. *)
EXTENDS SimTrading

Levels == <<4, 8>>
Closes == <<35, 100>>
================================================================================
