-------------------------------- MODULE LegLoop --------------------------------
(***************************************************************************)
(* The loop of LiveBroker._normalize_tp_legs, one action per turn, on every *)
(* plan the strategy makes and every position the exchange then reports     *)
(* (an order may have filled in part, or onto a position that was there).   *)
(***************************************************************************)
EXTENDS ProtectionLegs

CONSTANTS
    Quantities,   \* quantities of orders and positions
    ClosePcts     \* tp1_close_pct

ASSUME QuantitiesAssumption == Quantities \subseteq Nat
ASSUME ClosePctsAssumption == ClosePcts \subseteq Nat

VARIABLES
    planned,   \* quantity of the order the plan was made for
    plan,      \* the planned legs
    total,     \* quantity of the position
    next,      \* the leg the loop looks at
    acc,       \* legs, carry and placed_total
    result     \* the legs returned, once there

vars == <<planned, plan, total, next, acc, result>>

Init ==
    /\ planned \in {q \in Quantities : q >= MinQty /\ q % Step = 0}
    /\ \E pct \in ClosePcts : plan = PlanLegs(planned, pct)
    /\ total \in Quantities
    /\ next = 1
    /\ acc = NoLegs
    /\ result = <<>>

NextLeg ==
    /\ next <= Len(plan)
    /\ acc' = PlaceLeg(acc, plan[next], total)
    /\ next' = next + 1
    /\ UNCHANGED <<planned, plan, total, result>>

Return ==
    /\ next = Len(plan) + 1
    /\ result' = FoldDust(acc, total)
    /\ next' = next + 1
    /\ UNCHANGED <<planned, plan, total, acc>>

Next == NextLeg \/ Return

Spec == Init /\ [][Next]_vars

--------------------------------------------------------------------------------
(* Properties                                                              *)

\* The sum of at most two legs: a plan has no more.
SumOf(legs) ==
    CASE Len(legs) = 0 -> 0
      [] Len(legs) = 1 -> legs[1]
      [] OTHER -> legs[1] + legs[2]

TypeOK ==
    /\ planned \in Nat /\ total \in Nat
    /\ plan \in Seq(Nat) /\ Len(plan) \in 1 .. 2
    /\ next \in 1 .. Len(plan) + 2
    /\ acc \in [legs : Seq(Nat), carry : Nat, placed : 0 .. total]
    /\ Len(acc.legs) < next /\ Len(acc.legs) <= Len(plan)
    /\ result \in Seq(Nat) /\ Len(result) <= 2

\* The take-profits never close more than there is, whatever part of the order
\* has filled: "qty = min(qty, remaining)" and the dust together.
WithinPosition == SumOf(result) <= total

\* "Round and merge TP legs so every placed leg meets the exchange minimum"
\* (live.py:108).
EveryLegPlaceable == \A i \in DOMAIN result : result[i] >= MinQty

\* A position no larger than the plan is closed to the last unit by its
\* take-profits: nothing that is carried, clipped or rounded is lost.
FullyCovered ==
    (next > Len(plan) + 1 /\ MinQty <= total /\ total <= planned /\ total % Step = 0)
        => SumOf(result) = total
================================================================================
