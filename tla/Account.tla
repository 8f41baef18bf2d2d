-------------------------------- MODULE Account --------------------------------
(***************************************************************************)
(* The arithmetic of a simulated account: what RiskSizer makes of an       *)
(* intent and what a fill does to a position of SimBroker.  Quantities are *)
(* whole multiples of the instrument's precision; prices and money are     *)
(* fractions.  The slippage is 0, as the builder leaves it.                *)
(***************************************************************************)
EXTENDS Fractions, FiniteSetsExt

CONSTANTS
    Sides,          \* {"LONG", "SHORT"}
    MinInvestment,  \* RiskParams.min_investment_usd
    MaxCapital,     \* RiskParams.max_capital_usd
    MaxLoss,        \* RiskParams.max_loss_usd
    BaseLeverage,   \* RiskParams.base_leverage, within the instrument's limits
    MaxLeverage,    \* RiskParams.max_leverage, within the instrument's limits
    LeverageStep,   \* RiskParams.leverage_step
    AllowHedge,     \* RiskParams.allow_hedge
    FeePercent,     \* fee_rate, in percent
    MinVolume       \* min_trade_volume of the instrument

ASSUME SidesAssumption == Sides = {"LONG", "SHORT"}
ASSUME LeverageAssumption ==
    {BaseLeverage, MaxLeverage, LeverageStep} \subseteq Nat \ {0}
ASSUME VolumeAssumption == MinVolume \in Nat \ {0} /\ MinInvestment \in Nat \ {0}
ASSUME MoneyAssumption == {MaxCapital, MaxLoss, FeePercent} \subseteq Nat

Opposite(s) == IF s = "LONG" THEN "SHORT" ELSE "LONG"
Sign(s) == IF s = "LONG" THEN 1 ELSE -1

--------------------------------------------------------------------------------
(* Positions                                                               *)

\* No entry in _positions.
NoPosition == [qty |-> 0, entry |-> Zero, margin |-> Zero, steps |-> 0]

UnrealizedPnl(x, s, price) == ((Whole(price) (-) x.entry) (.) Whole(x.qty * Sign(s)))

UsedMargin(pos) == pos["LONG"].margin (+) pos["SHORT"].margin

Equity(balance, pos, price) ==
    balance (+) UnrealizedPnl(pos["LONG"], "LONG", price)
            (+) UnrealizedPnl(pos["SHORT"], "SHORT", price)

Fee(qty, price) == Frac(qty * price * FeePercent, 100)

\* Mutant: the entry prices are averaged without their quantities.
EnlargedUnweighted(x, qty, leverage, price) ==
    [qty |-> x.qty + qty,
     entry |-> IF x.qty = 0 THEN Whole(price)
               ELSE (x.entry (+) Whole(price)) (/) Whole(2),
     margin |-> x.margin (+) Frac(price * qty, leverage),
     steps |-> x.steps + 1]
\* An opening fill: the entry price is averaged, the margin added.
Enlarged(x, qty, leverage, price) ==
    [qty |-> x.qty + qty,
     entry |-> ((x.entry (.) Whole(x.qty)) (+) Whole(price * qty))
               (/) Whole(x.qty + qty),
     margin |-> x.margin (+) Frac(price * qty, leverage),
     steps |-> x.steps + 1]

\* Mutant: a partial close keeps the whole margin.
ReducedKeepsMargin(x, qty) ==
    IF qty = x.qty THEN NoPosition ELSE [x EXCEPT !.qty = @ - qty]
\* Mutant: a position that is closed stays in the book.
ReducedKeepsEmpty(x, qty) ==
    [x EXCEPT !.qty = @ - qty, !.margin = @ (.) Frac(x.qty - qty, x.qty)]
\* A closing fill releases the margin in proportion.
Reduced(x, qty) ==
    IF qty = x.qty
    THEN NoPosition
    ELSE [x EXCEPT !.qty = @ - qty, !.margin = @ (.) Frac(x.qty - qty, x.qty)]

RealizedPnl(x, s, qty, price) ==
    ((Whole(price) (-) x.entry) (.) Whole(qty * Sign(s)))

--------------------------------------------------------------------------------
(* RiskSizer                                                               *)

Leverages == {l \in BaseLeverage .. MaxLeverage : (l - BaseLeverage) % LeverageStep = 0}

QtyAt(leverage, price) == (MinInvestment * leverage) \div price

\* The multipliers at which the order meets the exchange's minimum.
Qualifying(price) == {l \in Leverages : QtyAt(l, price) >= MinVolume}
ChosenLeverage(price) == Min(Qualifying(price))
OpenQty(price) == QtyAt(ChosenLeverage(price), price)

HedgeGate(pos, s) == AllowHedge \/ pos[Opposite(s)] = NoPosition

\* Mutant: the margin of the order itself is not counted.
CapitalGateWithoutOrder(pos) == UsedMargin(pos) \preceq Whole(MaxCapital)
CapitalGate(pos) == (UsedMargin(pos) (+) Whole(MinInvestment)) \preceq Whole(MaxCapital)

\* Mutant: the loss of one unit instead of the order's.
LossGatePerUnit(price, stop) ==
    Absolute(Whole(price) (-) stop) \preceq Whole(MaxLoss)
LossGate(price, stop) ==
    (Absolute(Whole(price) (-) stop) (.) Whole(OpenQty(price))) \preceq Whole(MaxLoss)

\* _size_open accepts an order of side s with that stop.
Opens(pos, s, price, stop) ==
    /\ HedgeGate(pos, s)
    /\ CapitalGate(pos)
    /\ Qualifying(price) # {}
    /\ LossGate(price, stop)

\* _size_close: the quantity of a close or of a reduction by percent; what
\* rounds to nothing closes the whole position.
CloseQty(x, percent) ==
    LET qty == (x.qty * percent) \div 100 IN IF qty = 0 THEN x.qty ELSE qty
================================================================================
