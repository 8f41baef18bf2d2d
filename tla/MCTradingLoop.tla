----------------------------- MODULE MCTradingLoop -----------------------------
(* Small instances of TradingLoop for TLC. *)
EXTENDS TradingLoop, TLC

CONSTANTS btc, eth, sol, LONG, SHORT

RankedThree == <<btc, eth, sol>>
RankedTwo == <<btc, eth>>

\* The two sides are interchangeable in every action.
SideSymmetry == Permutations({LONG, SHORT})
================================================================================
