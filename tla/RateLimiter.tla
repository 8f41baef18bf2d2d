------------------------------ MODULE RateLimiter ------------------------------
(***************************************************************************)
(* The token bucket in front of every request of BitunixRest.  The clock   *)
(* ticks Rate * Grain times a second, so that a tick brings 1/Grain of a   *)
(* token and the allowance is a number of ticks.  The lock lets one caller *)
(* in; who waits for it has no state here.                                 *)
(***************************************************************************)
EXTENDS Integers

CONSTANTS
    Rate,     \* tokens a second, and the size of the bucket
    Grain,    \* ticks that bring one token
    MaxTime   \* bound: the clock stops there

VARIABLES
    now,        \* time.monotonic()
    allowance,  \* _allowance
    last,       \* _last
    asleep,     \* the holder of the lock awaits asyncio.sleep
    wake,       \* when that sleep is over
    granted     \* calls of acquire that returned

vars == <<now, allowance, last, asleep, wake, granted>>

Least(a, b) == IF a <= b THEN a ELSE b

Init ==
    /\ now = 0 /\ last = 0 /\ wake = 0
    /\ allowance = Rate * Grain
    /\ asleep = FALSE
    /\ granted = 0

\* The allowance after the refill at the top of acquire.
Refilled == Least(Rate * Grain, allowance + (now - last))

\* A token is there.
Acquire ==
    /\ ~asleep
    /\ Refilled >= Grain
    /\ allowance' = Refilled - Grain
    /\ last' = now
    /\ granted' = granted + 1
    /\ UNCHANGED <<now, asleep, wake>>

\* Less than a token: sleep for the rest of it.
Sleep ==
    /\ ~asleep
    /\ Refilled < Grain
    /\ allowance' = Refilled
    /\ last' = now
    /\ asleep' = TRUE
    /\ wake' = now + (Grain - Refilled)
    /\ UNCHANGED <<now, granted>>

\* The sleep is over, perhaps late; _last still is the time before it.
Wake ==
    /\ asleep
    /\ now >= wake
    /\ asleep' = FALSE
    /\ allowance' = 0
    /\ granted' = granted + 1
    /\ UNCHANGED <<now, last, wake>>

\* The task is cancelled in its sleep and releases the lock.
Cancel ==
    /\ asleep
    /\ asleep' = FALSE
    /\ UNCHANGED <<now, allowance, last, wake, granted>>

Tick ==
    /\ now < MaxTime
    /\ now' = now + 1
    /\ UNCHANGED <<allowance, last, asleep, wake, granted>>

Next == Acquire \/ Sleep \/ Wake \/ Cancel \/ Tick

Spec == Init /\ [][Next]_vars

--------------------------------------------------------------------------------
(* Properties                                                              *)

TypeOK ==
    /\ now \in Nat /\ last \in Nat /\ wake \in Nat
    /\ allowance \in 0 .. Rate * Grain
    /\ asleep \in BOOLEAN
    /\ granted \in Nat

\* A token bucket grants its size plus the rate times the time gone by ("Simple
\* async token bucket (requests per second).", rest.py:42).
TokenBucket == Grain * granted <= Rate * Grain + now

\* What the limiter does keep: beyond the size of the bucket it grants at most
\* twice the rate, as the time slept is credited once more by the next acquire.
AtMostTwice == Grain * granted <= Rate * Grain + 2 * now
================================================================================
