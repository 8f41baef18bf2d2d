------------------------------- MODULE SlotPool -------------------------------
(***************************************************************************)
(* What the trading engine promises about the number of coins it trades:   *)
(* a pool of MaxSymbols slots.  A symbol takes a slot when its first       *)
(* position opens, only while a slot is free, and gives it back when its   *)
(* last position closes.  TradingLoop implements this module.              *)
(***************************************************************************)
EXTENDS Integers, FiniteSets

CONSTANTS Symbols, MaxSymbols

VARIABLE open          \* the symbols that hold a slot

Init == open = {}

\* The first position of s opens.
Take(s) ==
    /\ s \notin open
    /\ Cardinality(open) < MaxSymbols
    /\ open' = open \union {s}

\* The last position of s closes.
Give(s) ==
    /\ s \in open
    /\ open' = open \ {s}

Next == \E s \in Symbols : Take(s) \/ Give(s)

Spec == Init /\ [][Next]_open
===============================================================================
