----------------------------- MODULE MCRealtimeHub -----------------------------
(* Small instance of RealtimeHub for TLC. *)
EXTENDS RealtimeHub

CONSTANTS tab1, tab2, btcLong, btcShort
================================================================================
