-------------------------------- MODULE LiveFeed --------------------------------
(***************************************************************************)
(* From the exchange's trades to the bars the strategy reads: the          *)
(* WebSocket client with its reconnects and subscriptions, the feed that   *)
(* closes candles, and the engine that fetches a coin's history when it    *)
(* scans it, subscribes the coins it selects and appends closed bars to    *)
(* its MarketState.                                                        *)
(*                                                                         *)
(* A candle is its period t and the number v of trades in it, which stands *)
(* for its close.  The queues of the socket and of BitunixWS are one; the  *)
(* exchange sends each change of a candle to the connections subscribed to *)
(* it, in order.                                                           *)
(***************************************************************************)
EXTENDS KlineHistory, SequencesExt, Selection

CONSTANTS
    Symbols,      \* coins
    Warmup,       \* Strategy.warmup_bars()
    MaxHistory,   \* MarketState max_history
    MaxTime,      \* bound: periods
    MaxTrades,    \* bound: trades of a coin in a period
    MaxDrops,     \* bound: connections lost
    MaxScans      \* bound: scans of a coin

ASSUME HistoryAssumption == MaxHistory \in Nat

VARIABLES
    now,       \* the current period
    candles,   \* the exchange's candles of each coin, in order
    served,    \* subscriptions of the live connection
    conn,      \* "none", "up", or "broken": lost, but _active_ws is still set
    drops,     \* connections lost so far
    subs,      \* BitunixWS._subscriptions; LiveFeed._symbol_set is the same set
    inbox,     \* BitunixWS._queue
    started,   \* stream() has started the client
    progress,  \* _in_progress
    events,    \* LiveFeed._queue
    auto,      \* the engine has a history provider: no coins were given
    engine,    \* "scan", "stream", "failed" or "ended"
    scanned,   \* the coin whose scan is being decided on, in a set
    scans,     \* scans of each coin
    history,   \* MarketState._bars
    closed,    \* BAR candles the feed has emitted (read by properties only)
    missed     \* periods of which a push was missed (read by properties only)

exchangeVars == <<now, candles>>
clientVars == <<served, conn, drops, subs, inbox, started>>
feedVars == <<progress, events, closed>>
engineVars == <<auto, engine, scanned, scans, history>>
vars == <<exchangeVars, clientVars, feedVars, engineVars, missed>>

--------------------------------------------------------------------------------
Candle(t, v) == [t |-> t, v |-> v]
NoCandle == Candle(-1, 0)

Times(s) == {candles[s][i].t : i \in DOMAIN candles[s]}
\* The candles of s with the open times T, in order.
CandlesOf(s, T) ==
    AtPlaces(candles[s], {i \in DOMAIN candles[s] : candles[s][i].t \in T})

InitWith(first) ==
    /\ now = 0
    /\ candles = [s \in Symbols |-> <<>>]
    /\ served = {} /\ conn = "none" /\ drops = 0
    /\ auto \in BOOLEAN
    /\ subs = first
    /\ inbox = <<>> /\ started = FALSE
    /\ progress = [s \in Symbols |-> NoCandle]
    /\ events = <<>>
    /\ engine = "scan" /\ scanned = {}
    /\ scans = [s \in Symbols |-> 0]
    /\ history = [s \in Symbols |-> <<>>]
    /\ closed = [s \in Symbols |-> <<>>]
    /\ missed = [s \in Symbols |-> {}]

\* Mutant: the coins to scan are subscribed from the start.
InitSubscribed == InitWith(Symbols)
\* Coins given by the user are subscribed from the start.
Init == InitWith(IF auto THEN {} ELSE Symbols)

--------------------------------------------------------------------------------
(* The exchange.                                                           *)

Tick ==
    /\ now < MaxTime
    /\ now' = now + 1
    /\ UNCHANGED <<candles, clientVars, feedVars, engineVars, missed>>

\* _handle_raw puts the push on the queue.
Deliver(s, c) == inbox' = Append(inbox, [s |-> s, c |-> c])

\* A trade opens or changes the candle of this period, which is pushed to the
\* connection if that is subscribed.
Trade(s) ==
    /\ LET open == candles[s] # <<>> /\ Last(candles[s]).t = now
           c == IF open THEN Candle(now, Last(candles[s]).v + 1) ELSE Candle(now, 1)
       IN /\ c.v <= MaxTrades
          /\ candles' = [candles EXCEPT ![s] =
                            Append(IF open THEN Front(@) ELSE @, c)]
          /\ IF s \in served
             THEN Deliver(s, c) /\ UNCHANGED missed
             ELSE missed' = [missed EXCEPT ![s] = @ \union {now}] /\ UNCHANGED inbox
    /\ UNCHANGED <<now, served, conn, drops, subs, started, feedVars, engineVars>>

\* The connection is lost; the client has not noticed.
Drop ==
    /\ conn = "up" /\ drops < MaxDrops
    /\ conn' = "broken" /\ served' = {} /\ drops' = drops + 1
    /\ UNCHANGED <<exchangeVars, subs, inbox, started, feedVars, engineVars, missed>>

--------------------------------------------------------------------------------
(* BitunixWS._run                                                          *)

\* Mutant: a new connection subscribes nothing.
ConnectSilently ==
    /\ started /\ conn = "none"
    /\ conn' = "up"
    /\ UNCHANGED <<served, exchangeVars, drops, subs, inbox, started, feedVars,
                   engineVars, missed>>
\* A connection is made and sent every subscription; _active_ws is set and the
\* list is taken without an await in between.
Connect ==
    /\ started /\ conn = "none"
    /\ conn' = "up" /\ served' = subs
    /\ UNCHANGED <<exchangeVars, drops, subs, inbox, started, feedVars, engineVars,
                   missed>>

\* The loop over the messages ends or raises; after the backoff it connects anew.
Notice ==
    /\ conn = "broken"
    /\ conn' = "none"
    /\ UNCHANGED <<exchangeVars, served, drops, subs, inbox, started, feedVars,
                   engineVars, missed>>

--------------------------------------------------------------------------------
(* LiveFeed                                                                *)

\* Mutant: a candle with the same open time closes the one in progress as well.
RollsOverEarly(s, c) == progress[s] # NoCandle /\ c.t >= progress[s].t
\* A push with a newer open time closes the candle in progress.
RollsOver(s, c) == progress[s] # NoCandle /\ c.t > progress[s].t

\* Mutant: the push that closes a candle is emitted instead of it.
ClosedBarIsPush(s, c) == c
\* What is emitted then.
ClosedBar(s, c) == progress[s]

\* _pump_ws: one message becomes a BAR of the previous candle or a TICK.
Pump ==
    /\ started /\ engine = "stream" /\ inbox # <<>>
    /\ LET s == Head(inbox).s
           c == Head(inbox).c
       IN /\ progress' = [progress EXCEPT ![s] = c]
          /\ IF RollsOver(s, c)
             THEN /\ events' = Append(events, [s |-> s, bar |-> ClosedBar(s, c)])
                  /\ closed' = [closed EXCEPT ![s] = Append(@, ClosedBar(s, c))]
             ELSE /\ events' = Append(events, [s |-> s, bar |-> NoCandle])
                  /\ UNCHANGED closed
    /\ inbox' = Tail(inbox)
    /\ UNCHANGED <<exchangeVars, served, conn, drops, subs, started, engineVars,
                   missed>>

\* BitunixWS.subscribe: a subscription is sent at once over a connection, else it
\* is sent by the next one.  Sending over a lost one raises or goes nowhere.
Subscribe(s) ==
    /\ subs' = subs \union {s}
    /\ \/ conn # "up" /\ UNCHANGED <<served, engine>>
       \/ conn = "up" /\ served' = served \union {s} /\ UNCHANGED engine
       \/ conn = "broken" /\ engine' = "failed" /\ UNCHANGED served

\* LiveFeed.ensure_symbols for one coin; an exception ends the run.
EnsureSymbols(s) ==
    IF s \in subs THEN UNCHANGED <<subs, served, engine>> ELSE Subscribe(s)

--------------------------------------------------------------------------------
(* The engine.                                                             *)

\* MarketState.update_bar for each of the bars.
Remember(s, new) ==
    LET all == history[s] \o new
        excess == Len(all) - MaxHistory
    IN history' = [history EXCEPT ![s] =
                      IF excess > 0 THEN SubSeq(all, excess + 1, Len(all)) ELSE all]

\* The engine waits for its next event or turns to its next coin.
Ready(phases) == engine \in phases /\ scanned = {}

\* _evaluate_symbol_scan: the history of a coin is fetched and added.  A coin can
\* be scanned again when it is neither selected nor open.
Scan(s) ==
    /\ auto /\ Ready({"scan", "stream"})
    /\ scans[s] < MaxScans
    /\ scans' = [scans EXCEPT ![s] = @ + 1]
    /\ \E T \in FetchResults(Times(s), now, Warmup) :
        /\ Remember(s, CandlesOf(s, T))
        /\ scanned' = IF T = {} THEN {} ELSE {s}
    /\ UNCHANGED <<exchangeVars, clientVars, feedVars, auto, engine, missed>>

\* The scan opened a position: the coin is selected and subscribed.
Select(s) ==
    /\ engine \in {"scan", "stream"} /\ s \in scanned
    /\ scanned' = {}
    /\ EnsureSymbols(s)
    /\ UNCHANGED <<exchangeVars, conn, drops, inbox, started, feedVars, auto, scans,
                   history, missed>>

\* It did not.
Pass ==
    /\ engine \in {"scan", "stream"} /\ scanned # {}
    /\ scanned' = {}
    /\ UNCHANGED <<exchangeVars, clientVars, feedVars, auto, engine, scans, history,
                   missed>>

\* The startup scan is over, or there is none: stream() starts the client.
StartStream ==
    /\ Ready({"scan"})
    /\ started' = TRUE /\ engine' = "stream"
    /\ UNCHANGED <<exchangeVars, served, conn, drops, subs, inbox, feedVars, auto,
                   scanned, scans, history, missed>>

\* _handle_event: a BAR goes into the history, a TICK only moves the mark.
HandleEvent ==
    /\ Ready({"stream"}) /\ events # <<>>
    /\ events' = Tail(events)
    /\ LET e == Head(events) IN
       IF e.bar = NoCandle THEN UNCHANGED history ELSE Remember(e.s, <<e.bar>>)
    /\ UNCHANGED <<exchangeVars, clientVars, progress, closed, auto, engine, scanned,
                   scans, missed>>

\* The run is stopped: the pump is cancelled, the client goes on.
EndRun ==
    /\ engine \in {"scan", "stream"}
    /\ engine' = "ended"
    /\ UNCHANGED <<exchangeVars, clientVars, feedVars, auto, scanned, scans, history,
                   missed>>

Client == Connect \/ Notice

Next ==
    \/ Tick \/ Drop \/ Client \/ Pump \/ Pass \/ StartStream \/ HandleEvent \/ EndRun
    \/ \E s \in Symbols : Trade(s) \/ Scan(s) \/ Select(s)

Spec == Init /\ [][Next]_vars
\* The client's task and the pump run while there is something to do.
FairSpec == Spec /\ WF_vars(Client) /\ WF_vars(Pump)

--------------------------------------------------------------------------------
(* Properties                                                              *)

Increasing(q) == \A i \in 1 .. Len(q) - 1 : q[i].t < q[i + 1].t

Candles == [t : Int, v : Nat]
Pushes == [s : Symbols, c : Candles]
Events == [s : Symbols, bar : Candles]

\* The history apart, which HistoryInOrder is about.
TypeOK ==
    /\ now \in Nat
    /\ candles \in [Symbols -> Seq(Candles)]
    /\ subs \in SUBSET Symbols /\ served \in SUBSET subs
    /\ conn \in {"none", "up", "broken"} /\ started \in BOOLEAN
    /\ inbox \in Seq(Pushes)
    /\ progress \in [Symbols -> Candles]
    /\ events \in Seq(Events)
    /\ closed \in [Symbols -> Seq(Candles)]
    /\ engine \in {"scan", "stream", "failed", "ended"}
    /\ scanned \in SUBSET Symbols

\* Every candle is closed at most once and in order, whatever connections are
\* lost and whatever is subscribed twice ("Strategies act on *closed* bars",
\* live.py:3).
BarsInOrder == \A s \in Symbols : Increasing(closed[s])

\* Why: the pushes of a coin arrive in the order of their periods, none older than
\* the candle in progress, which is newer than every bar closed.
InboxOrdered ==
    /\ \A i \in 1 .. Len(inbox) : inbox[i].c.t <= now
    /\ \A i, j \in 1 .. Len(inbox) :
          i < j /\ inbox[i].s = inbox[j].s => inbox[i].c.t <= inbox[j].c.t
ProgressBehind ==
    \A i \in 1 .. Len(inbox) : progress[inbox[i].s].t <= inbox[i].c.t
ProgressNotAhead == \A s \in Symbols : progress[s].t <= now
ClosedBefore ==
    \A s \in Symbols : \A i \in 1 .. Len(closed[s]) : closed[s][i].t < progress[s].t
OrderInv ==
    InboxOrdered /\ ProgressBehind /\ ProgressNotAhead /\ ClosedBefore /\ BarsInOrder

\* A bar the feed emits is the final candle of a period that is over, unless a
\* push of that candle was missed.
BarIsFinal ==
    \A s \in Symbols : \A i \in DOMAIN closed[s] :
        LET c == closed[s][i] IN
        c.t < now /\ (c.t \in missed[s] \/ \E j \in DOMAIN candles[s] : candles[s][j] = c)

\* Until a coin is scanned a second time its history is in order.  (Only in
\* order: the last candle of a scan is unfinished and comes again when it closes.)
HistoryInOrder ==
    \A s \in Symbols :
        scans[s] <= 1 =>
            \A i \in 1 .. Len(history[s]) - 1 : history[s][i].t <= history[s][i + 1].t

\* Whatever the gaps between the candles and however many pages it takes, what
\* get_recent_klines returns are the latest candles there are, without a hole.
HistoryIsRecent ==
    \A s \in Symbols : \A count \in 1 .. 4 :
        LET got == RecentKlines(Times(s), now, count) IN
        \E n \in 0 .. count : got = Newest(n, Times(s))

\* A wanted coin is served, now or after the connection is made again ("The
\* client auto-reconnects and re-subscribes after a drop.", ws.py:4).
Recovers == \A s \in Symbols : started /\ s \in subs ~> s \in served
================================================================================
