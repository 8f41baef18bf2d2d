# Verification of CT_app

CT_app trades perpetual futures on Bitunix: a strategy is run live, dry (on live
prices against a simulated broker) or as a backtest by the same engine. This
directory holds TLA+ models of its core, the TLC configurations that check them
and the TLAPS proofs about them. Paths below are relative to `backend/app/` of
the repository unless they start with `frontend/`.

## 1. The system

```
 frontend ── REST ──> api ── control topic ──> trading_worker ── RunManager ── Engine(s)
    ^                                                                            |  |
    |  WebSocket                                              strategy, sizer ───┘  |
 realtime hub <── event topics <── KafkaSink <── events ────────────────────────────┤
                       |                                                            |
                   db_writer ──> PostgreSQL              feed <── Bitunix WS/REST ──> broker
```

| Component | State it keeps | Operations | Makes it correct |
|---|---|---|---|
| `domain/engine.py` Engine | the selected coins, which were open last, the scan in progress | scan of the ranked universe, one event of the feed at a time, intents to orders, released coins, replacement scan | never more than `max_symbols` coins, every open coin watched and subscribed, scans end, a coin that went flat is replaced |
| `strategies/trend_scanner.py` | selection, round-robin cursor, per key: stop, best price, last entry, take-profits hit | `on_event`, `on_open_outcome`, `release_symbol`, `next_scan_candidate`, `protection_plan` | one side per coin, bounded entries, every open position has a stop |
| `strategies/autoscan_ladder.py` | price of the last entry per key | `on_event` | entries bounded, capital respected |
| `risk/sizer.py` | none | size an intent or reject it | capital and loss limits, minimum size |
| `domain/brokers/sim.py` | balance, positions, marks | `set_mark`, `submit`, `account` | margin and balance follow the fills |
| `domain/brokers/live.py` | none of its own: the exchange's positions and orders | `submit` (baseline, order, confirmation, verification), `place_exchange_protections`, `account` | no position without a stop, take-profits that fit the position, one entry per coin |
| `exchange/bitunix/rest.py`, `ws.py` | token bucket; subscriptions, the socket, a queue | signed requests, paging; subscribe, reconnect | request rate; every subscription survives a reconnect |
| `domain/feeds/` | subscribed symbols, the candle in progress per symbol, a queue | stream, history, new symbols | each bar once and in order |
| `services/run_manager.py`, `workers/trading_worker.py`, `api/control` | control topic, offsets, handle and task per run | start, stop, supervise, shutdown | one engine per run, a stop stops, statuses tell the truth |
| `events/`, `workers/db_writer.py`, `db/` | topics, offsets, the buffer, the tables | publish, consume, flush | every event stored once, run rows current |
| `api/realtime/hub.py`, `frontend/src/store`, `frontend/src/lib/ws.ts` | clients and channels; the view of a run | broadcast, subscribe; reduce | the view equals the run |
| routers, metrics, configuration, logging, signing, indicators, migrations, pages | rows and settings | one query or computation per call | not modelled, see section 6 |

What is hard here: every `await` on the exchange lets positions change under a
decision; requests fail in the middle of a sequence that must leave a stop
behind; orders fill late, in parts or never; commands and events are redelivered
by Kafka whose offsets are committed on a timer; a run can be cancelled at any
`await`. The list, with its lines, is `hazards` in `PROJECT.json`.

## 2. The modules

| Module | Models | Proofs |
|---|---|---|
| `TradingLoop` | `Engine.run` driving `trend_scanner` over either broker, without prices | `TradingLoopProofs` |
| `SlotPool` | what TradingLoop promises: at most `max_symbols` slots, one step at a time | refinements in `TradingLoopProofs` |
| `ProtectionLegs` | the arithmetic of take-profit legs (`protection_plan`, `_normalize_tp_legs`, `_round_qty`) | - |
| `LegLoop` | the loop of `_normalize_tp_legs` as a machine over any plan | `BrokerProofs` |
| `LiveOrder` | one hedge leg of a live account: entry checks, `submit`, placement of protections, against the exchange | `LiveOrderProofs` |
| `Fractions`, `Account` | exact fractions; `RiskSizer` and the fills of `SimBroker` as operators | lemmas in `SimTradingProofs` |
| `SimTrading` | one coin of a simulated run with its prices, under either strategy | `SimTradingProofs` |
| `Selection` | the elements of a list at a set of places | lemmas in `LiveFeedProofs` and `RealtimeHubProofs` |
| `KlineHistory` | the paging and widening of the candle requests | lemmas in `LiveFeedProofs` |
| `LiveFeed` | `BitunixWS`, `LiveFeed`, `MarketState`, from trades to bars | `LiveFeedProofs` |
| `RateLimiter` | the token bucket of the REST client | `BrokerProofs` |
| `RunManager` | control topic, worker, run manager, one task per run | `RunManagerProofs` |
| `DbWriter` | event topics, `db_writer`, transactions and offsets | `DbWriterProofs` |
| `RealtimeHub` | hub, WebSocket handlers, the browser's client and store | `RealtimeHubProofs` |

`MC*` modules hold the constants of the TLC instances. `ProtectionLegs` is used by
both `LegLoop` and `LiveOrder`, so the legs placed there are the legs proved about;
`LiveFeed` evaluates `KlineHistory` on its own candles; `SimTrading` is built from
`Account`; `LiveFeed` and `RealtimeHub` use `Selection`. Operators named as mutants in
a comment are variants of the definition that follows them, with one plausible mistake
each; nothing uses them except the runs that show that a property would notice the
mistake.

### TradingLoop

One asyncio task runs the engine, so an action is the code between two awaits at which
the account may change. `phase` is where the task stands (`start`, `scan`, `idle` =
waiting for the feed, `intent`, `submit`, `after`, `replace`, `ended`) and `loop` whose
body runs: the startup scan, the replacement scan, the stream with a history provider to
scan with, or the `fixed` stream on the coins the user gave, which neither scans nor
releases; `Streams` says which of the last two a behaviour may start with. On the
`fixed` stream the feed is subscribed to the coins of `Given` and never to another, so a
position found on one of the others is selected and not served; with a history provider
`Start` subscribes what it selects. `Start`, `ScanNext`, `ScanEnd` are `_on_start` and
`_scan_and_select`; `HandleBar` and `HandleTick` are `_handle_event` up to the
strategy's decision, `SizeRejected`, `SizeAccepted`, `SubmitOpen`, `SubmitClose`,
`SubmitRejected` the turn of `_process_intents`; `HandleReleased`, `HandleNoRelease`,
`BackToScan` and `ReplaceNext`/`ReplaceEnd` the rest. `trend_scanner` decides at most
one intent per bar of a coin. Prices and indicators are choices: which of nothing, stop,
take-profit, first entry, further entry a bar gives is left open within what the
strategy's own state and the account snapshot allow. The sizer may refuse any opening
order.

With `Live`, the run starts on any set of positions, positions close
(`ExchangeCloses`) or rejected orders fill (`LateFill`) between any two steps, and
somebody else, the owner or a second run, opens positions on the same account
(`OtherOpens`). While `trouble` is `"now"` the position request fails and a snapshot is
empty, as `LiveBroker.account` answers then; it comes back (`AccountReturns`). `trouble`
says whether the request has failed, a rejected order has filled or somebody else has
opened a position; only `account()` and properties read it. `OpenIsWatched`,
`DropOnlyWhenFlat`, `ReplacementSweeps` and `NoOpenBeyondLimit` say what holds until
then, that is, on an account the run has to itself but for closing: a position the
engine was not shown is not on the watchlist, and its coin may be dropped or passed by.

### LiveOrder, ProtectionLegs, LegLoop

The state is the exchange's (position, its `positionId`, open orders, resting
stops and take-profits) and the local variables of `_process_intents`, `submit`,
`_confirm_open`, `_resolve_position` and `place_exchange_protections`; `pc`
names the next request. Between any two requests an order fills (in parts), a
take-profit or a stop triggers, or the owner closes the position. Flags turn the
faults on. `mishaps` records which faults have happened so far; no action reads it,
only properties do: each says which mishaps it does not survive. An order that fills
in parts while it is being confirmed is none of them; one that fills, or fills
further, once its confirmation is over is (`late`).

`LegLoop` turns the loop that folds take-profits too small to be placed into
their neighbours into a machine with one turn per action, so that its result is a
matter of an invariant and not of induction over a recursive function.

### Account, SimTrading

A bar (`LadderBar`, `ScannerBar`) sets the mark and lets the strategy fill `queue`
with intents; `FillOpen`, `RejectOpen`, `FillClose`, `FillReduce` process them one
by one through the sizer and `SimBroker.submit`, before the next bar. Prices,
margins and balances are exact fractions over the least denominator there is, so
that equal fractions are equal records; quantities are whole numbers of the
instrument's precision. The trend a bar shows is a choice, the coin is one;
selecting, releasing and the number of coins are TradingLoop's part.

### KlineHistory, LiveFeed

The exchange has a candle for each period with a trade and pushes it, with each trade,
to the connections subscribed to it. The client connects, notices a loss after a while
and subscribes anew (`Connect`, `Drop`, `Notice`); the pump turns pushes into bars
(`Pump`); the engine fetches a coin's history in a scan, selects it, which subscribes
it, or passes, and appends bars to the history (`Scan`, `Select`, `Pass`,
`HandleEvent`). A fetch goes through the paging of `_get_klines_range` and the widening
windows of `get_recent_klines` on the very candles there are, and each of its requests
may fail. `Pages` is the only recursive definition, a function of the number of pages
and the end of the first. `missed` and `closed` record the periods of which a push was
missed and the bars emitted, for properties only.

### RateLimiter

A clock in ticks of 1/(Rate * Grain) seconds; `Acquire`, or `Sleep` followed by
`Wake` (perhaps late) or `Cancel`. The lock holds everyone else off meanwhile.

### RunManager

`control` is the topic, `read` and `committed` the consumer's offsets. The worker
handles one command at a time, builds engines while the others run, and goes down
when a build raises (the exception is not caught), when it is interrupted, or in a
crash; nothing restarts it (the compose file has no restart policy), `Boot` is the
operator. In the first two cases the `finally` block is left at its first await: the
metrics task it has cancelled raises `CancelledError`, which `suppress(Exception)` does
not cover. `manager.shutdown()` and the commit of `consumer.stop()` are never reached;
`asyncio.run` cancels the tasks of the runs, and no offset is committed. A task goes
`created`, `streaming`, `returning` or `raising` (by how `Engine.run` ended, its last
RunEvent is out), `reporting` (`_supervise` has set the status), `done`; a cancellation
arrives at any of them. A command sent
before the group's first commit and while the worker is down is skipped
(`auto_offset_reset="latest"`).

### DbWriter

Events are offsets of a log of two kinds, run events (upserted) and row events
(inserted). `Poll` consumes one and decides whether to flush: a full batch must,
a linger that has passed may. A flush is a transaction: it happens or not, and a
raised one may still have been committed (`LostReplies`), as may one that a
cancellation or a kill interrupts. The consumer commits its position whenever it
likes. A process that stops leaves its `finally` block at the cancelled metrics task as
well: nothing is flushed and nothing committed (`Stop`). For the properties,
`delivered` counts how often each event was consumed, and `lost` is the set of events
that were committed while they were in the buffer of a process that then ended.

### RealtimeHub

A connection is a tab and a number. On the server: accepting, joining the clients,
reading the subscription, and the broadcast, which goes through a copy of the
clients, waits for a slow one and removes those it could not send to. In the
browser: the client that connects anew when `onclose` was called, subscribes again
in `onopen`, and the store's table of positions, one row per symbol and side. A
connection is lost with any part of the frames on it; the API restarts with a new
consumer at the end of the topic, or without one.

## 3. Runs

| Run | Instance | What it shows |
|---|---|---|
| `dry_scan` | 3 ranked coins, 2 slots, 2 sides, 2 entries, simulated broker, both streams | one side per coin, bounded steps, every position armed, coins dropped only when flat, a replacement scan sweeps the universe, the slot pool is implemented |
| `live` | 2 coins, one of them given, 1 slot, both streams, any positions at the start, positions close at any await, somebody else opens some, account requests fail and return, rejected orders fill later | until trouble every open coin is watched and no coin is opened beyond the limit; every scan comes back to the feed |
| `missed_release` | 2 coins, 1 slot, dry | **violated**: a position opened by the replacement scan and closed by the next bar is never released |
| `tp_legs` | every plan and position up to 24 units, precision 2, minimum 5 | the legs fit the position, meet the minimum and cover it |
| `order` | 2 entries of 4 units in two legs of 2, minimum 2, 2 polls, all faults | stop, exposure, take-profits and their coverage, each up to the named mishaps |
| `order_unprotected` | 1 entry, trigger orders may be refused | **violated**: the stop of the fallback is tried once |
| `sim` | 4 prices, 6 bars, both strategies, multipliers 1 to 3, levels at 4 % and 8 %, fee 1 % | committed margin within the limit, margins fit the positions, loss at the stop bounded for each step, equity moves by fees only, stops never loosen, entries are spaced |
| `feed` | 1 coin, 3 periods, 2 trades each, 1 lost connection, 2 scans, 2 pages of 1 candle | bars once, in order and final; history in order; a scan gets the latest candles without a hole; subscriptions survive reconnects |
| `rate` | 2 tokens a second, 4 s | **violated**: the bucket grants up to twice its rate |
| `runs` | 2 runs, 4 commands, 1 crash, interrupt or rebalance | one engine per run, visible while it trades; a stop whose offset is committed is final in every process, and any stop takes effect in the end |
| `writer` | 4 events, batches of 2, every fault | buffer in order; each event written at most once per delivery, and at least once unless lost; run row current |
| `hub` | 1 tab with 2 connections, 2 positions, 3 announcements, wires of 1 frame, 1 restart | a table that has caught up is current, rows never go back, the hub ends with one subscribed client |

Why the bounds are enough:

- With three coins and two slots one coin is open, one is selected and one is a
  candidate at the same time, and the cursor wraps; two entries reach the limit on
  steps. `SideSymmetry` is sound as no action tells the sides apart; it is used in
  `dry_scan`, which checks no liveness. In `live` one slot and two coins are
  enough to hold more than the limit at the start, to fill the slot between decision
  and order, and to replace; one coin given and one not are enough for a position the
  `fixed` stream does not serve.
- Two orders suffice for a second entry on top of the first, two polls for "seen
  better, then confirmed" and "given up". Of an order of four units at 50 % and a
  minimum of two, a full fill leaves two legs, placed by two requests between which
  the first may hit; a fill of three leaves a leg of one, which is dust and folded into
  the other; smaller ones leave one leg or none. An order of five units (a rounded
  leg, then clipped) was checked by hand. In `tp_legs` the minimum is no multiple of
  the precision.
- In `sim` six bars hold an entry, two further ones at other prices, a
  take-profit that reduces, an advanced stop and a second trade. The prices 92, 96,
  100, 106 make multipliers differ between steps, reach both levels, both spacings
  and the stop; the capital limit binds at the third entry and the loss limit at one
  price.
- With pages of a single candle each fetch pages as often as it can, and with two of
  them at most the cap is reached; three periods suffice for a bar closed by a push, a
  gap, and a reconnect in between.
- One disruption is enough for every redelivery of a start and a stop; with two
  runs a shutdown finds one task streaming while the other is in any state. Builds
  that raise take the worker down any number of times.
- Two full batches are enough for one that is redelivered after another was written;
  stops and kills are not bounded. Writes and deliveries are counted up to two.
- Two connections of one tab put the old and the new connection in one broadcast;
  the tabs share nothing but the list of clients. Wires of one frame make the pump
  wait.

`CHECK_DEADLOCK FALSE` is set everywhere because every instance really stops: a
run ends by its cancellation or the end of its feed, and the bounded inputs
(bars, orders, commands, events, connections) run out.

### Fairness

- `TradingLoop!FairSpec`: weak fairness of the engine's own steps. The event loop
  resumes the task after each request, and requests have timeouts. Nothing is
  assumed of the feed or the exchange.
- `LiveFeed!FairSpec`: the client's task reconnects after its backoff, and the pump
  reads what is there. Connections are lost a bounded number of times.
- `RunManager!FairSpec`: the worker goes on with what it read, a cancellation is
  delivered. Engines need not end on their own, nobody needs to send or boot.
  `StopTakesEffect` has a hypothesis of its own, that the worker stops going down: a
  start whose build raises is served again at every boot, as the first automatic commit
  comes 5 s after it, and a stop that follows it in the topic may never be reached.
- `RealtimeHub!FairSpec`: the hub's tasks run, the browser's callbacks and its
  reconnect timer come, it reads what arrives. The last connection of a tab is not
  lost: `Settles` is about what follows the last fault.

`DbWriter`, `LiveOrder`, `SimTrading`, `LegLoop` and `RateLimiter` state no liveness.

## 4. Theorems

All hold for every value of the constants that satisfies the modules' named `ASSUME`s:
finitely many coins and a non-empty universe, positive limits, Boolean flags, a positive
precision, minimum, rate, batch, page size and number of pages; natural numbers for
money, percentages, margins of windows, lengths of histories and numbers of connections,
positive ones for prices and leverages; as many take-profit levels as closing
percentages, and no stop at a distance of 100 %, whose price would be 0, which stands
for none.

"Until trouble" means while the position request has not failed, no order reported
rejected has filled and nobody but the run has opened a position on the account.

| Module | Theorem | Says |
|---|---|---|
| `TradingLoopProofs` | `TypeCorrect` | `TypeOK` for every universe, limit and mode |
| | `DrySafety`, `DryOneSide`, `DryOpenIsArmed`, `DryStepsBounded` | in dry runs and backtests `SlotBound`, `OneSidePerSymbol`, `OpenIsArmed`, `StepsBounded` |
| | `DryImplementsSlots` | there, TradingLoop implements SlotPool |
| | `RunsImplementSlots` | so does every run, live ones included, that finds the account flat, until trouble |
| | `StaysWithinLimit`, `StaysOneSided` | in every mode, a run that starts within `SlotBound` (`OneSidePerSymbol`) stays there until trouble |
| | `NeverBeyondLimit` | in every mode `NoOpenBeyondLimit` |
| | `OpenCoinsAreWatched`, `OnlyFlatCoinsDrop` | in every mode `OpenIsWatched` (open coins are selected, and subscribed if the stream can serve them), `DropOnlyWhenFlat` |
| | `ScanSweeps` | in every mode `ReplacementSweeps` |
| `BrokerProofs` | `TypeCorrect`, `LegsWithinPosition`, `LegsPlaceable`, `LegsCover` | the legs fit the position, meet the minimum and cover it, for every precision, minimum, split and position |
| | `TwiceTheRate` | `AtMostTwice`: the bound the limiter does keep |
| `LiveOrderProofs` | `TypeCorrect` | `TypeOK` under all faults |
| | `EnteredOnce` | `ExposureBounded` under all faults |
| | `StopUntilMishap` | `ProtectedUntilMishap` when quantities are counted in the instrument's precision (`Step = 1`) |
| | `TpsFit` | `TpsWithinPosition`: the resting take-profits are those of one entry and fit the position |
| | `ExitsCover` | `ExitsCoverPosition`, whatever part of the order fills while it is confirmed, when `Step = 1` |
| `SimTradingProofs` | `TypesCorrect` | `TypeOK`: every amount is a fraction over its least denominator |
| | `MarginStaysInProportion`, `CapitalIsKept`, `LossIsPlanned` | `MarginFits`, `UsedWithinCapital`, `PlannedLossBounded` for any prices, levels, limits and leverages, under either strategy |
| | `StopsOnlyTighten`, `EntriesAreSpaced`, `EquityIsKept` | `StopNeverLoosens`, `EntriesSpaced`, `EquityMovesByFee` |
| `LiveFeedProofs` | `TypeCorrect`, `BarsAlwaysInOrder`, `BarsAlwaysFinal` | `TypeOK`, `BarsInOrder`, `BarIsFinal` for any coins, losses, scans and trades |
| | `HistoryStaysInOrder` | `HistoryInOrder` for any length of the history |
| | `ScansGetTheLatest` | `HistoryIsRecent` for any page size, number of pages and windows; its lemma `RecentIsNewest` for any number of candles asked for |
| `RunManagerProofs` | `TypeCorrect`, `TradingVisible`, `StopsAreFinal`, `StartsOneEngine` | `TypeOK`, `TradingIsVisible`, `StopIsFinal`, `OneEngine` for any runs and disruptions |
| `DbWriterProofs` | `TypeCorrect`, `WritesOncePerDelivery`, `BufferedInOrder`, `RowShowsLatest` | `TypeOK`, `OncePerDelivery`, `BufferIsTail`, `RunRowIsLatest` under all faults |
| `RealtimeHubProofs` | `RowsNeverGoBack`, `CaughtUpTabsAreCurrent` | `ViewNeverGoesBack`, `ViewIsCurrent` for any tabs, losses and restarts |

Where the invariants come from:

- TradingLoop. `SlotBound` is not inductive: an order is sent after the decision, so it
  must be known that a pending first entry still finds its coin flat and a slot free.
  `DryInv` adds `IntentFits` (the pending intent fits the positions), `StepsFit` (flat
  keys have no steps) and "open coins are selected". It holds because nothing but the
  task itself changes the positions of a simulated broker. In a live run others do, and
  only `LiveInv` is left: an order of a first entry is under way only while a slot is
  free, because the engine reads the account again before it sends the order and
  positions can only close in between, unless there was trouble.
- TradingLoop, every mode. `WatchInv` adds to these, until trouble, that a first
  entry is under way on a coin that is flat, and that open coins are selected. It fails
  as soon as a position is open that the engine was not shown, which is why the
  properties have that guard; with it each fill takes a free slot and everything else
  closes a position at most (`PoolStep`). `SubsInv`, which needs no guard, says what is
  subscribed: all that is selected when the run scans, the coins given when it does not.
- The replacement scan. `SweepInv`: each try takes the cursor past one place of
  the universe at least, and every coin it has passed is selected or was tried. At the
  last try it is past all of them; that is arithmetic modulo the universe, in lemmas of
  its own (`TurnPasses`, `WrapsOnce`). What the account shows must be selected or tried
  as well: a coin skipped only as open could go flat behind the cursor.
- LegLoop. The invariant bounds what is carried over from legs that were too
  small and relates the legs kept, the carry and the rest of the plan to the
  position; arithmetic on one and on two legs is in lemmas of its own.
- LiveOrder. `OneOrder`: an order is sent only while the coin is flat, what it has
  filled and can still fill while it is being confirmed is one order, and nothing else
  fills. `FlatInv`: a flat position keeps no trigger orders. `StopInv` follows
  the stop from the entry through verification and fallback. `TpInv`: take-profits
  rest for the latest entry only, and those placed and those still to come fit the
  position as long as it is the one they were planned on. `CoverInv`: they are then
  all of it. All but `FlatInv` hold for the mishaps their properties name.
- SimTrading. A fraction is known by what it is equal to and not by how it was
  computed (`Is(a, n, d)`), so that every fact becomes one of integers. `SimInv`
  bounds the committed margin and, step by step, the loss at the stop. For the scanner
  it says that the one intent in the queue carries the stop the strategy keeps and is
  made at the mark; and that a position that is not about to be closed has a stop,
  and that its last attempted entry was at no better a price than the last one that
  filled. Without the latter the spacing, which is measured from the last attempt, says
  nothing of the last entry.
- LiveFeed. `OrderInv` is the order of the pushes: those on their way are not older
  than the candle in progress, which is newer than every bar closed. `FinalInv`
  adds which of these candles is the last word of its period: the last push of a
  period on its way is, the candle in progress is when no push of its period is
  left, every closed bar is; or a push of that period was missed. `HistoryInv` says of a
  coin scanned once at most that nothing on its way to the engine (pushes, the
  candle in progress, events) is older than its history, and that nothing of it is
  on its way before the scan.
- KlineHistory. A full page and the newest of the candles below it are the newest
  of all (`NewestJoin`); so the pages together are as many of the latest candles as fit
  in the pages allowed, and no other function satisfies the recursion
  (`PagesAreNewest`, by the least number of pages at which one would differ). Each
  window is therefore a final part of all candles, and so are its latest ones
  (`NewestSince`), whichever window is the last.
- RateLimiter. `BucketInv`: the allowance counts against what was granted, with the
  time slept counted twice.
- RunManager. `TasksInv` relates each task's progress to the handle's status, the
  last RunEvent and the worker's phase. `FinalInv` is the argument on the offsets: a run
  has one start, which its stops follow; the start being built is not before the offset
  read, which the committed one never passes; so a stop that was read has met its task,
  and one that was skipped follows a start that was skipped too.
- DbWriter. The invariant says where each event is: before the buffer, and then
  written or lost; in the buffer, and then to be written once more for the delivery it
  is there for; or not consumed. A process that is down is at its committed offset, one
  that polls has room in its batch. For the run's row (`RowInv`) a transaction, also one
  that nobody heard of, leaves it at the latest run event consumed.
- RealtimeHub. A tab's connections follow one another (`OneConnection`), the frames
  on a wire are in order (`WireInOrder`) and newer than the rows (`WireIsNewer`),
  because a connection starts only after the one before it has been read to its
  end. `NoneMissed`: on a connection that is up and subscribed every event since
  it subscribed is yet to be sent to it, on its wire, or in its table.

Only model-checked: the liveness properties `BackToFeed`, `StopTakesEffect`,
`Recovers` and `Settles`, as TLAPS proves nothing about fairness. Every safety
property and every action property of a passing run is a theorem. `DropOnlyWhenFlat`
and `ReplacementSweeps` are proved in every mode but checked by a run only in dry ones;
`HistoryIsRecent` is checked on requests of up to four candles.

## 5. Divergences found

Three runs end in a counterexample that a comment or a document of the repository
rules out; `findings` quotes both sides:

- `missed_release`: `_symbols_with_open` is taken before the replacement scan opens
  positions, so one that its next bar closes is never released.
- `order_unprotected`: the fallback places the stop once; when that fails the
  position stays open without one.
- `rate`: the limiter credits the time slept a second time.

What else showed up while modelling, in the models but without a run of its own:

- `allow_hedge` lets "opposite-direction positions [...] coexist"
  (`strategies/trend_scanner.py:117`, likewise `risk/config.py:34`). Nothing in the
  scanner reads it, and it enters on the other side of a coin only when the coin is flat:
  `OneSidePerSymbol` holds whatever the flag says.
- `max_loss_usd` is the "Maximum estimated loss budget for the strategy"
  (`risk/config.py:23`). The gate (`risk/sizer.py:131`) compares it with the loss of one
  order, so a position of several steps may lose more at its stop; TLC finds one in the
  instance of `sim` within a few bars. `PlannedLossBounded` is the bound there is:
  `max_loss_usd` for each step.
- The workers' `finally` blocks await a metrics task they have just cancelled under
  `contextlib.suppress(Exception)` (`workers/db_writer.py:68`,
  `workers/trading_worker.py:50`), which does not cover `CancelledError`;
  `services/metrics.py:104` suppresses the right one. The sampler always runs (`psutil` is
  a dependency), so whenever a worker stops the rest of the block is skipped: the writer's
  last flush, `manager.shutdown()`, `consumer.stop()` with its commit, `sink.stop()`.
- A start whose build raises takes the worker down before its offset is committed and
  is served again at every boot; the commands behind it may never be handled.
- On a run with coins given by the user `_on_start` selects every coin that has a
  position (`domain/engine.py:195`), but the feed is subscribed to the given ones alone
  (`services/builder.py:66`): the exits of the others are never evaluated.
- `LiveBroker.account` answers a failed position request with an account without
  positions (`domain/brokers/live.py:413`); the engine then opens coins beyond
  `max_symbols` (`strategies/trend_scanner.py:67`). `NoOpenBeyondLimit` excludes it.
- The writer flushes its buffer after the linger only when another event arrives
  (`workers/db_writer.py:63`, against line 7). When it stops, for whatever reason, the
  buffered events whose offsets were committed meanwhile are lost, and those flushed
  since the last commit are consumed again, which inserts rows a second time and takes
  a run's row back (`requirements/REQ-004-kafka-db-pipeline.md:24` asks for idempotent
  upserts).
- `Engine.run` reports its end in `except Exception`, which a `CancelledError`
  passes by: a stopped run emits no RunEvent and its row says `started` for ever,
  although `events/schemas.py:197` lists `stopped`. A stop handled before the new
  task took its first step cancels it before `_supervise` enters its `try`: the
  handle keeps `running`.
- The ladder remembers the price of an entry the sizer refused, and its spacing is
  then measured from a price at which nothing was bought.
- With the defaults of `trend_scanner` (`trail_after_tp = 2`, two levels of which
  the last closes) the stop never trails.
- The last candle of a REST history is the unfinished one
  (`exchange/bitunix/rest.py:178`), which the strategy reads as a closed bar, and it
  comes a second time when it closes.
- The WebSocket client is not stopped with its feed (`domain/feeds/live.py:99`), and
  a subscription whose send fails ends the run although the next connection would
  send it again (`exchange/bitunix/ws.py:71`).
- A closed position is not announced (`domain/engine.py:1141`), so its row stays; the
  hub does not try again when Kafka does not answer at start
  (`api/realtime/hub.py:57`); the rows have no run id in their key
  (`frontend/src/store/realtime.ts:154`), so two runs on one coin share a row.

## 6. Not modelled

- The REST routers outside control (one query or one row per request), configuration,
  logging, request signing, table definitions and migrations, the pages: nothing else
  depends on their behaviour. Nor the samples of the metrics sampler; that its cancelled
  task ends the workers' shutdown is in `DbWriter` and `RunManager`.
- Indicators: numeric functions of the closes, whose result is a choice.
- The parsing of exchange records and of Kafka payloads, the routing of events to
  topics, the texts of events. Events that Kafka refuses are dropped by the sink; in
  the models a published event arrives.
- Feeds: the warmup of `LiveFeed` itself, which the builder never enables as it
  passes no REST client; replay and backtest feeds, which hand out a list in order.
  The queues of the socket and of the client are one.
- SimTrading: slippage, which the builder leaves at 0; coins that are
  released. It is not composed with TradingLoop: prices on several coins are beyond
  TLC.
- Hub: the filter by run and the unsubscription, which the pages do not use; the
  other tables of the store, which are reduced alike.
- RunManager: more than one worker in the consumer group.
- The repository's queries (`db/repositories.py`), apart from the upsert of runs.

What would come next: a proof that the positions of SimTrading's scanner are those
TradingLoop allows a coin, and the composition of LiveFeed's bars with TradingLoop's
`HandleBar`.
