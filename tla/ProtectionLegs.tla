---------------------------- MODULE ProtectionLegs ----------------------------
(***************************************************************************)
(* How a position is divided into take-profit orders: the plan of the      *)
(* strategy (trend_scanner.protection_plan) and the loop that makes each   *)
(* order one the exchange accepts (LiveBroker._normalize_tp_legs).         *)
(* Quantities are whole multiples of a unit; Step and MinQty are in units. *)
(***************************************************************************)
EXTENDS Integers, Sequences

CONSTANTS
    Step,      \* 10 ^ -base_precision of the instrument
    MinQty     \* min_trade_volume of the instrument

ASSUME StepAssumption == Step \in Nat \ {0}
ASSUME MinQtyAssumption == MinQty \in Nat \ {0}

Least(a, b) == IF a < b THEN a ELSE b

\* Round a quantity down to the precision of the instrument.
RoundQty(q) == q - (q % Step)

\* The quantity of the first of two levels, which closes closePct percent.
FirstLeg(q, closePct) ==
    IF closePct >= 100 THEN q ELSE RoundQty((q * closePct) \div 100)

\* The planned legs of a position of q: the second level closes what is left;
\* a level without quantity is left out.
PlanLegs(q, closePct) ==
    LET first == Least(FirstLeg(q, closePct), q) IN
    IF first \in {0, q} THEN <<q>> ELSE <<first, q - first>>

NoLegs == [legs |-> <<>>, carry |-> 0, placed |-> 0]

\* Mutant: a leg too small to place is forgotten.
PlaceLegNoCarry(acc, leg, total) ==
    LET qty == Least(RoundQty(leg + acc.carry), total - acc.placed) IN
    IF leg <= 0 \/ qty < MinQty
    THEN acc
    ELSE [legs |-> Append(acc.legs, qty), carry |-> 0, placed |-> acc.placed + qty]
\* Mutant: what is already placed is not taken off the position.
PlaceLegNoClip(acc, leg, total) ==
    LET qty == RoundQty(leg + acc.carry) IN
    IF leg <= 0 THEN acc
    ELSE IF qty < MinQty THEN [acc EXCEPT !.carry = leg + @]
    ELSE [legs |-> Append(acc.legs, qty), carry |-> 0, placed |-> acc.placed + qty]
\* Mutant: a leg is placed although it is below the minimum.
PlaceLegAnySize(acc, leg, total) ==
    LET qty == Least(RoundQty(leg + acc.carry), total - acc.placed) IN
    IF leg <= 0 \/ qty <= 0 THEN acc
    ELSE [legs |-> Append(acc.legs, qty), carry |-> 0, placed |-> acc.placed + qty]
\* One turn of the loop over the planned legs, for a position of total: a leg
\* below the minimum is carried into the next one.
PlaceLeg(acc, leg, total) ==
    LET qty == Least(RoundQty(leg + acc.carry), total - acc.placed) IN
    IF leg <= 0 THEN acc
    ELSE IF qty < MinQty THEN [acc EXCEPT !.carry = leg + @]
    ELSE [legs |-> Append(acc.legs, qty), carry |-> 0, placed |-> acc.placed + qty]

\* Mutant: the dust stays without a take-profit.
FoldDustNot(acc, total) == acc.legs
\* After the loop, rounding dust goes into the last leg.
FoldDust(acc, total) ==
    LET leftover == RoundQty(total - acc.placed) IN
    IF 0 < leftover /\ leftover < MinQty /\ acc.legs # <<>>
    THEN [acc.legs EXCEPT ![Len(acc.legs)] = @ + leftover]
    ELSE acc.legs
================================================================================
