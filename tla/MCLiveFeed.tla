------------------------------- MODULE MCLiveFeed -------------------------------
(* Small instance of LiveFeed for TLC. *)
EXTENDS LiveFeed

CONSTANTS btc, eth
================================================================================
