------------------------------ MODULE SimTrading ------------------------------
(***************************************************************************)
(* One coin of a simulated run, with its prices: each bar's close moves    *)
(* the mark, the strategy (autoscan_ladder or trend_scanner) turns it into *)
(* intents, and the sizer and SimBroker process them before the next bar.  *)
(* The indicators are choices: the trend a bar shows, and whether a        *)
(* pullback triggers.  TradingLoop has the rest of the engine, for any     *)
(* number of coins; it leaves the prices out.                              *)
(***************************************************************************)
EXTENDS Account, Sequences

CONSTANTS
    Prices,          \* closes a bar can have
    InitialCapital,  \* RunConfig.initial_capital
    MaxBars,         \* bound: bars of the run
    Strategies,      \* which strategies a run may use
    \* AutoscanLadderParams
    LadderSteps,     \* ladder_steps
    LadderSpacing,   \* ladder_step_spacing_pct
    LadderProfit,    \* take_profit_pct
    \* TrendScannerParams
    MaxEntries,      \* max_entries
    EntrySpacing,    \* entry_spacing_pct
    TpPercents,      \* <<tp1_pct, tp2_pct>>
    TpCloses,        \* <<tp1_close_pct, tp2_close_pct>>
    BreakevenAfter,  \* breakeven_after_tp
    TrailAfter,      \* trail_after_tp
    TrailPercent,    \* trail_pct
    StopPercent      \* stop_loss_pct, of either strategy

ASSUME PricesAssumption == Prices \subseteq Nat \ {0}
ASSUME StrategiesAssumption == Strategies \subseteq {"ladder", "scanner"}
ASSUME RunAssumption == {InitialCapital, MaxBars, EntrySpacing} \subseteq Nat
\* At 100 percent the stop of a long position would be the price 0, which stands
\* for none.
ASSUME DistanceAssumption == {StopPercent, TrailPercent} \subseteq Nat \ {100}
ASSUME LevelsAssumption ==
    TpPercents \in Seq(Nat) /\ TpCloses \in Seq(Nat) /\ Len(TpCloses) = Len(TpPercents)

VARIABLES
    strategy,  \* the strategy of the run
    hedge,     \* AutoscanLadderParams.allow_hedge
    bars,      \* bars seen
    price,     \* close of the last bar, the mark
    queue,     \* intents of that bar not yet processed
    balance,   \* SimBroker.balance
    pos,       \* SimBroker._positions, by side
    last,      \* _last_entry of either strategy, Zero when absent
    stop,      \* _stop, Zero when absent
    best,      \* _best, Zero when absent
    hits,      \* _tps_hit
    entered    \* price of the last entry that filled (read by a property only)

accountVars == <<balance, pos, entered>>
tradeVars == <<last, stop, best, hits>>
vars == <<strategy, hedge, bars, price, queue, accountVars, tradeVars>>

--------------------------------------------------------------------------------
Held(s) == pos[s].qty > 0

OpenIntent(s, stopPrice) == [action |-> "open", side |-> s, stop |-> stopPrice]
CloseIntent(s) == [action |-> "close", side |-> s]
ReduceIntent(s, percent) == [action |-> "reduce", side |-> s, percent |-> percent]

\* a is at least as good as b for a position of side s.
AtLeast(s, a, b) == IF s = "LONG" THEN b \preceq a ELSE a \preceq b
Better(s, a, b) == IF AtLeast(s, a, b) THEN a ELSE b

\* The price that is percent worse for s than p: _initial_stop, _stop_price and
\* the trail below the best price.
Behind(s, p, percent) == p (.) Frac(100 - Sign(s) * percent, 100)

\* The move from one price to another, in percent of the first.
MovePercent(from, to) == ((to (-) from) (/) from) (.) Whole(100)
Spaced(from, to, percent) == Whole(percent) \preceq Absolute(MovePercent(from, to))

NewBar(p) ==
    /\ queue = <<>>
    /\ bars < MaxBars
    /\ bars' = bars + 1
    /\ price' = p
    /\ UNCHANGED <<strategy, hedge, accountVars>>

Init ==
    /\ strategy \in Strategies /\ hedge \in BOOLEAN
    /\ strategy = "scanner" => ~hedge
    /\ bars = 0 /\ price \in Prices /\ queue = <<>>
    /\ balance = Whole(InitialCapital)
    /\ pos = [s \in Sides |-> NoPosition]
    /\ last = [s \in Sides |-> Zero] /\ stop = [s \in Sides |-> Zero]
    /\ best = [s \in Sides |-> Zero] /\ hits = [s \in Sides |-> 0]
    /\ entered = [s \in Sides |-> Zero]

--------------------------------------------------------------------------------
(* AutoscanLadderStrategy.on_event for a trend in the direction of s.       *)

\* The opposite side is closed first unless hedging is allowed.
Flip(s) == IF Held(Opposite(s)) /\ ~hedge THEN <<CloseIntent(Opposite(s))>> ELSE <<>>

\* The profit on the margin, in percent.
ProfitPercent(s, p) ==
    IF pos[s].margin = Zero
    THEN Zero
    ELSE (UnrealizedPnl(pos[s], s, p) (/) pos[s].margin) (.) Whole(100)

TakesLadderProfit(s, p) == Held(s) /\ Whole(LadderProfit) \preceq ProfitPercent(s, p)

LadderTakeProfit(s, p) ==
    /\ TakesLadderProfit(s, p)
    /\ queue' = Append(Flip(s), CloseIntent(s))
    /\ last' = [last EXCEPT ![s] = Zero]

\* _spacing_ok, against the last attempt.
LadderSpaced(s, p) == last[s] # Zero => Spaced(last[s], Whole(p), LadderSpacing)

LadderEntry(s, p) ==
    /\ ~TakesLadderProfit(s, p)
    /\ pos[s].steps < LadderSteps
    /\ LadderSpaced(s, p)
    /\ queue' = Append(Flip(s), OpenIntent(s, Behind(s, Whole(p), StopPercent)))
    /\ last' = [last EXCEPT ![s] = Whole(p)]

LadderWait(s, p) ==
    /\ ~TakesLadderProfit(s, p)
    /\ pos[s].steps >= LadderSteps \/ ~LadderSpaced(s, p)
    /\ queue' = Flip(s)
    /\ UNCHANGED last

LadderBar(s, p) ==
    /\ strategy = "ladder"
    /\ NewBar(p)
    /\ LadderTakeProfit(s, p) \/ LadderEntry(s, p) \/ LadderWait(s, p)
    /\ UNCHANGED <<stop, best, hits>>

--------------------------------------------------------------------------------
(* TrendScannerStrategy.on_event.                                          *)

\* The best price since the entry, of the sides that are open.
BestWith(p) ==
    [s \in Sides |->
        IF ~Held(s) THEN best[s]
        ELSE Better(s, Whole(p), IF best[s] = Zero THEN pos[s].entry ELSE best[s])]

StopCrossed(s, p) == Held(s) /\ stop[s] # Zero /\ AtLeast(s, stop[s], Whole(p))

ScannerStop(s, p) ==
    /\ StopCrossed(s, p)
    /\ queue' = <<CloseIntent(s)>>
    /\ last' = [last EXCEPT ![s] = Zero] /\ stop' = [stop EXCEPT ![s] = Zero]
    /\ best' = [best EXCEPT ![s] = Zero] /\ hits' = [hits EXCEPT ![s] = 0]

\* The next level is reached.
TpReached(s, p) ==
    /\ Held(s)
    /\ hits[s] < Len(TpPercents)
    /\ Whole(TpPercents[hits[s] + 1])
           \preceq (MovePercent(pos[s].entry, Whole(p)) (.) Whole(Sign(s)))

\* Mutant: the trail replaces the stop even when it is worse.
AdvancedStopLoosened(s, n, bestPrice) ==
    IF TrailAfter > 0 /\ n >= TrailAfter
    THEN Behind(s, bestPrice, TrailPercent)
    ELSE stop[s]
\* _advance_stop after the n-th take-profit: to the entry price, then behind the
\* best price, never backwards.
AdvancedStop(s, n, bestPrice) ==
    LET now == IF stop[s] = Zero
               THEN Behind(s, pos[s].entry, StopPercent) ELSE stop[s]
        even == IF BreakevenAfter > 0 /\ n >= BreakevenAfter
                THEN Better(s, pos[s].entry, now) ELSE now
    IN IF TrailAfter > 0 /\ n >= TrailAfter
       THEN Better(s, Behind(s, bestPrice, TrailPercent), even)
       ELSE even

ScannerTakeProfit(s, p) ==
    /\ ~StopCrossed(s, p)
    /\ TpReached(s, p)
    /\ LET n == hits[s] + 1
           final == n = Len(TpPercents) \/ TpCloses[n] >= 100
       IN /\ queue' = << IF final THEN CloseIntent(s) ELSE ReduceIntent(s, TpCloses[n]) >>
          /\ hits' = [hits EXCEPT ![s] = n]
          /\ best' = BestWith(p)
          /\ stop' = [stop EXCEPT ![s] = AdvancedStop(s, n, BestWith(p)[s])]
    /\ UNCHANGED last

\* No exit is due.
Quiet(p) == \A s \in Sides : ~StopCrossed(s, p) /\ ~TpReached(s, p)

\* A pullback in a trend of side s opens, if the coin is flat.
ScannerFirst(s, p) ==
    /\ Quiet(p)
    /\ \A t \in Sides : ~Held(t)
    /\ queue' = <<OpenIntent(s, Behind(s, Whole(p), StopPercent))>>
    /\ last' = [last EXCEPT ![s] = Whole(p)]
    /\ stop' = [stop EXCEPT ![s] = Behind(s, Whole(p), StopPercent)]
    /\ best' = [best EXCEPT ![s] = Whole(p)]
    /\ hits' = [hits EXCEPT ![s] = 0]

\* Mutant: the move since the last entry may go either way.
AddDueEitherWay(s, p) == last[s] # Zero /\ Spaced(last[s], Whole(p), EntrySpacing)
\* An adverse move since the last attempt.
AddDue(s, p) ==
    /\ last[s] # Zero
    /\ Spaced(last[s], Whole(p), EntrySpacing)
    /\ ~AtLeast(s, Whole(p), last[s])

ScannerAdd(s, p) ==
    /\ Quiet(p)
    /\ Held(s) /\ pos[s].steps < MaxEntries
    /\ AddDue(s, p)
    /\ queue' = <<OpenIntent(s, stop[s])>>
    /\ last' = [last EXCEPT ![s] = Whole(p)]
    /\ best' = BestWith(p)
    /\ UNCHANGED <<stop, hits>>

\* Neither exit nor entry, or no trend.
ScannerWait(p) ==
    /\ Quiet(p)
    /\ queue' = <<>>
    /\ best' = BestWith(p)
    /\ UNCHANGED <<last, stop, hits>>

ScannerBar(p) ==
    /\ strategy = "scanner"
    /\ NewBar(p)
    /\ \/ ScannerWait(p)
       \/ \E s \in Sides :
             \/ ScannerStop(s, p) \/ ScannerTakeProfit(s, p)
             \/ ScannerFirst(s, p) \/ ScannerAdd(s, p)

--------------------------------------------------------------------------------
(* _process_intents: the sizer, then SimBroker.submit.                      *)

TakesNext(action) == queue # <<>> /\ Head(queue).action = action /\ queue' = Tail(queue)

\* The order fills at the mark.
FillOpen ==
    /\ TakesNext("open")
    /\ LET i == Head(queue)
           qty == OpenQty(price)
       IN /\ Opens(pos, i.side, price, i.stop)
          /\ balance' = balance (-) Fee(qty, price)
          /\ pos' = [pos EXCEPT ![i.side] =
                        Enlarged(@, qty, ChosenLeverage(price), price)]
          /\ entered' = [entered EXCEPT ![i.side] = Whole(price)]
    /\ UNCHANGED <<strategy, hedge, bars, price, tradeVars>>

\* A first entry of the scanner that is refused takes its trade state back; the
\* ladder does not hear of it.
RejectOpen ==
    /\ TakesNext("open")
    /\ LET i == Head(queue)
           forgotten == strategy = "scanner" /\ pos[i.side].steps = 0
       IN /\ ~Opens(pos, i.side, price, i.stop)
          /\ IF forgotten
             THEN /\ last' = [last EXCEPT ![i.side] = Zero]
                  /\ stop' = [stop EXCEPT ![i.side] = Zero]
                  /\ best' = [best EXCEPT ![i.side] = Zero]
                  /\ hits' = [hits EXCEPT ![i.side] = 0]
             ELSE UNCHANGED tradeVars
    /\ UNCHANGED <<strategy, hedge, bars, price, accountVars>>

Fill(s, qty) ==
    /\ balance' = balance (+) (RealizedPnl(pos[s], s, qty, price) (-) Fee(qty, price))
    /\ pos' = [pos EXCEPT ![s] = Reduced(@, qty)]
    /\ UNCHANGED <<strategy, hedge, bars, price, tradeVars, entered>>

FillClose == TakesNext("close") /\ Fill(Head(queue).side, pos[Head(queue).side].qty)

FillReduce ==
    /\ TakesNext("reduce")
    /\ LET i == Head(queue) IN Fill(i.side, CloseQty(pos[i.side], i.percent))

Next ==
    \/ \E p \in Prices : ScannerBar(p) \/ \E s \in Sides : LadderBar(s, p)
    \/ FillOpen \/ RejectOpen \/ FillClose \/ FillReduce

Spec == Init /\ [][Next]_vars

--------------------------------------------------------------------------------
(* Properties                                                              *)

TypeOK ==
    /\ bars \in 0 .. MaxBars /\ price \in Prices
    /\ IsFraction(balance)
    /\ \A s \in Sides :
        /\ pos[s].qty \in Nat /\ pos[s].steps \in Nat
        /\ IsFraction(pos[s].entry) /\ IsFraction(pos[s].margin)
        /\ pos[s].qty = 0 <=> pos[s] = NoPosition
        /\ IsFraction(last[s]) /\ IsFraction(stop[s]) /\ IsFraction(best[s])
        /\ hits[s] \in 0 .. Len(TpPercents)

\* The committed margin never exceeds max_capital_usd ("Maximum committed margin
\* (usable/losable capital) for the strategy.", risk/config.py:19): each order is
\* checked with the planned margin, while the broker books one of its own from
\* the filled quantity and releases it in parts.
UsedWithinCapital == UsedMargin(pos) \preceq Whole(MaxCapital)

\* A fill changes the equity at its own price by its fee and nothing else,
\* whatever was averaged, reduced and realized before (sim.py:8-15).
Traded(s) == Magnitude(pos'[s].qty - pos[s].qty)
EquityMovesByFee ==
    [][ price' = price =>
          Equity(balance', pos', price) =
              Equity(balance, pos, price) (-) Fee(Traded("LONG") + Traded("SHORT"), price) ]_vars

\* The margin of a position stays between what its quantity needs at the highest
\* and at the lowest multiplier, through steps at different multipliers and
\* partial closes (types.py:247-249).
MarginFits ==
    \A s \in Sides :
        LET notional == pos[s].entry (.) Whole(pos[s].qty) IN
        /\ (notional (/) Whole(MaxLeverage)) \preceq pos[s].margin
        /\ pos[s].margin \preceq (notional (/) Whole(BaseLeverage))

\* The stop of an open position never moves against it, although it is moved to
\* an average entry price that further entries worsen and behind a best price.
StopNeverLoosens ==
    [][\A s \in Sides :
          Held(s) /\ stop[s] # Zero /\ stop'[s] # Zero => AtLeast(s, stop'[s], stop[s])]_vars

\* What a position of the scanner loses at its stop is at most max_loss_usd for
\* each of its steps.  The limit is documented as the loss budget of the strategy
\* (risk/config.py:25), but the gate looks at one order at a time (sizer.py:131), so
\* that a position of several steps may lose more than the budget.
PlannedLossBounded ==
    \A s \in Sides :
        Held(s) /\ stop[s] # Zero =>
            ((pos[s].entry (-) stop[s]) (.) Whole(pos[s].qty * Sign(s)))
                \preceq Whole(pos[s].steps * MaxLoss)

\* Each further entry of the scanner is at a price worse for the position than
\* the one before that filled, by the spacing ("Adverse price move (percent)
\* required before adding the next entry.", trend_scanner.py:88), although the
\* strategy compares with its last attempt, which may have been refused.
EntriesSpaced ==
    [][\A s \in Sides :
          strategy = "scanner" /\ pos[s].steps > 0 /\ pos'[s].steps > pos[s].steps =>
              /\ Spaced(entered[s], Whole(price), EntrySpacing)
              /\ ~AtLeast(s, Whole(price), entered[s])]_vars
================================================================================
