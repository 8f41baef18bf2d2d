------------------------------ MODULE TradingLoop ------------------------------
(***************************************************************************)
(* The event loop of domain/engine.py driving the trend_scanner strategy   *)
(* over a broker: which coins are selected, scanned, opened, closed and    *)
(* released.  The asyncio task is one process; every action below is the   *)
(* code between two awaits at which the account may change, so the steps   *)
(* of the exchange (Live) interleave exactly where the code awaits it.     *)
(*                                                                         *)
(* Prices, indicators and quantities are abstracted to the choices they    *)
(* make: whether a bar triggers an entry, a stop or a take-profit, and     *)
(* whether the sizer accepts an order.                                     *)
(***************************************************************************)
EXTENDS Integers, Sequences, FiniteSets

CONSTANTS
    Symbols,       \* every symbol a position can be on
    Sides,         \* the position sides, LONG and SHORT
    Universe,      \* the volume-ranked symbols, a sequence (desired_symbols)
    MaxSymbols,    \* TrendScannerParams.max_symbols
    MaxEntries,    \* TrendScannerParams.max_entries
    Live,          \* Mode.LIVE; FALSE is the dry run and the backtest
    Streams,       \* the streams a run may be on: "stream" with a history
                   \* provider to scan with, "fixed" on the user's symbols
    Given,         \* config.symbols: the symbols the user gave
    AllowHedge,    \* RiskParams.allow_hedge
    AccountFails,  \* the position request of LiveBroker.account() may fail
    LateFills,     \* an order reported REJECTED may still fill later
    OthersTrade    \* the account is not the run's own: its owner or another
                   \* run may open positions on it

ASSUME SymbolsAssumption == IsFiniteSet(Symbols) /\ Given \subseteq Symbols
ASSUME UniverseAssumption == Universe \in Seq(Symbols) /\ Len(Universe) > 0
ASSUME LimitAssumption == MaxSymbols \in Nat \ {0} /\ MaxEntries \in Nat \ {0}
ASSUME FlagAssumption ==
    /\ Live \in BOOLEAN /\ AllowHedge \in BOOLEAN
    /\ AccountFails \in BOOLEAN /\ LateFills \in BOOLEAN /\ OthersTrade \in BOOLEAN
    /\ Streams \in SUBSET {"stream", "fixed"}

VARIABLES
    phase,      \* where the engine task stands
    loop,       \* whose body runs: "scan", "stream", "fixed" or "replace"
    intent,     \* the intent being processed
    acct,       \* open keys of the snapshot the scan loops test is_full on
    tried,      \* coins evaluated by the scan loop that runs
    swept,      \* which coins those were (read by a property only)
    sel,        \* the watchlist: _selected of the strategy and of the engine
    cursor,     \* _scan_cursor
    armed,      \* keys with trade state: _stop, _best, _last_entry
    hits,       \* _tps_hit
    withOpen,   \* _symbols_with_open
    subs,       \* symbols the feed is subscribed to
    seen,       \* symbols the feed holds an in-progress candle for
    held,       \* open positions, by (symbol, side)
    steps,      \* Position.step_count of the simulated broker
    pending,    \* live orders reported REJECTED that may still fill
    trouble     \* "now" while the position request fails; "past" once it did, a
                \* rejected order filled or somebody else opened a position;
                \* else "none"

strategyVars == <<sel, cursor, armed, hits>>
feedVars == <<subs, seen>>
brokerVars == <<held, steps, pending, trouble>>
vars == <<phase, loop, intent, acct, tried, swept, strategyVars, withOpen,
          feedVars, brokerVars>>

--------------------------------------------------------------------------------
Keys == Symbols \X Sides
SymbolsOf(K) == {k[1] : k \in K}
KeysOf(S) == {k \in Keys : k[1] \in S}

NumTps == 2                       \* len(_tp_levels())

Kinds == {"first", "add", "reduce", "close"}
NoIntent == [kind |-> "none", key |-> <<>>]
Intent(kind, k) == [kind |-> kind, key |-> k]

Flat(s, K) == s \notin SymbolsOf(K)

\* Mutant: one coin too many.
SlotFreeOffByOne(K) == Cardinality(SymbolsOf(K)) <= MaxSymbols
\* _slot_free; is_full is its negation.
SlotFree(K) == Cardinality(SymbolsOf(K)) < MaxSymbols

\* broker.account(): the truth, but an account without positions when the
\* position request of the live broker fails.  A scan reads it several times.
AccountReads == {IF Live /\ trouble = "now" THEN {} ELSE held}

\* Clear _stop, _tps_hit, _best and _last_entry of the keys K.
ResetTrade(K) ==
    /\ armed' = armed \ K
    /\ hits' = [k \in Keys |-> IF k \in K THEN 0 ELSE hits[k]]

\* Mutant: newly selected coins are not subscribed.
RefreshNoSubscribe(S) == sel' = S /\ UNCHANGED subs
\* Every change of the strategy's selection is followed by _refresh_selection
\* before the next decision: the engine's copy follows and the feed subscribes
\* the symbols that are new.
Refresh(S) ==
    /\ sel' = S
    /\ subs' = subs \union (S \ sel)

--------------------------------------------------------------------------------
(* Strategy.on_event for a bar of s under the account snapshot a.           *)

Decide(i) ==
    /\ intent' = i
    /\ phase' = IF i = NoIntent THEN "after" ELSE "intent"

\* Fewer closes than the indicators need: nothing is looked at.
TooFewBars == Decide(NoIntent) /\ UNCHANGED <<armed, hits>>

\* Live: trade state of a key that went flat on the exchange.
Stale(s, a) == IF Live THEN {k \in armed : k[1] = s /\ k \notin a} ELSE {}

NoSignal(s, a) == Decide(NoIntent) /\ ResetTrade(Stale(s, a))

\* Mutant: the stop closes nothing, the trade state is gone all the same.
StopHitForgets(s, a) ==
    /\ ~Live
    /\ \E k \in a \intersect armed :
        /\ k[1] = s
        /\ Decide(NoIntent)
        /\ ResetTrade({k})
\* Dry: the price crossed the stop.
StopHit(s, a) ==
    /\ ~Live
    /\ \E k \in a \intersect armed :
        /\ k[1] = s
        /\ Decide(Intent("close", k))
        /\ ResetTrade({k})

\* Dry: the next take-profit is reached.  The last level closes; an earlier one
\* reduces, or closes when its close percentage is 100.
TakeProfit(s, a) ==
    /\ ~Live
    /\ \E k \in a :
        /\ k[1] = s
        /\ hits[k] < NumTps
        /\ hits' = [hits EXCEPT ![k] = @ + 1]
        /\ armed' = armed \union {k}
        /\ \/ Decide(Intent("close", k))
           \/ hits[k] + 1 < NumTps /\ Decide(Intent("reduce", k))

\* Mutant: only the side that enters has to be flat.
FirstEntryAnySide(s, a) ==
    /\ SlotFree(a)
    /\ \E k \in KeysOf({s}) \ a :
        /\ Decide(Intent("first", k))
        /\ armed' = armed \union {k}
        /\ hits' = [hits EXCEPT ![k] = 0]
\* step_count 0, regime and pullback agree: open, if the coin is flat and a slot
\* is free.
FirstEntry(s, a) ==
    /\ Flat(s, a)
    /\ SlotFree(a)
    /\ \E k \in KeysOf({s}) :
        /\ Decide(Intent("first", k))
        /\ armed' = (armed \ Stale(s, a)) \union {k}
        /\ hits' = [l \in Keys |->
                       IF l = k \/ l \in Stale(s, a) THEN 0 ELSE hits[l]]

\* Mutant: the entries are counted one too late.
AddEntryOffByOne(s, a) ==
    /\ ~Live
    /\ \E k \in a \intersect armed :
        /\ k[1] = s
        /\ steps[k] \in 1 .. MaxEntries
        /\ Decide(Intent("add", k))
        /\ UNCHANGED <<armed, hits>>
\* Dry: an adverse move since the last entry adds a step.  (Live positions come
\* from the exchange with step_count 0, so they never add.)
AddEntry(s, a) ==
    /\ ~Live
    /\ \E k \in a \intersect armed :
        /\ k[1] = s
        /\ steps[k] \in 1 .. (MaxEntries - 1)
        /\ Decide(Intent("add", k))
        /\ UNCHANGED <<armed, hits>>

OnEvent(s, a) ==
    \/ TooFewBars
    \/ NoSignal(s, a)
    \/ StopHit(s, a)
    \/ TakeProfit(s, a)
    \/ FirstEntry(s, a)
    \/ AddEntry(s, a)

--------------------------------------------------------------------------------
Init ==
    /\ phase = "start" /\ loop \in Streams /\ intent = NoIntent
    /\ acct = {} /\ tried = 0 /\ swept = {}
    /\ sel = {} /\ cursor = 0 /\ armed = {} /\ hits = [k \in Keys |-> 0]
    /\ withOpen = {}
    /\ subs = IF loop = "fixed" THEN Given ELSE {}
    /\ seen = {}
    /\ held \in IF Live THEN SUBSET Keys ELSE {{}}
    /\ steps = [k \in Keys |-> 0]
    /\ pending = {} /\ trouble = "none"

\* Strategy.on_start selects what is already open.  Only the startup scan
\* subscribes it: on the user's own symbols the feed keeps to these.
OnStart(a) ==
    IF loop = "stream"
    THEN Refresh(SymbolsOf(a))
    ELSE sel' = SymbolsOf(a) /\ UNCHANGED subs

\* With a history provider the startup scan follows, otherwise the first event
\* of the stream.
Start ==
    /\ phase = "start"
    /\ \E a \in AccountReads : OnStart(a)
    /\ IF loop = "stream"
       THEN /\ phase' = "scan" /\ loop' = "scan"
            /\ acct' \in AccountReads
       ELSE /\ phase' = "idle"
            /\ UNCHANGED <<loop, acct>>
    /\ UNCHANGED <<intent, tried, swept, cursor, armed, hits, withOpen, seen,
                   brokerVars>>

\* _evaluate_symbol_scan: a coin whose history cannot be fetched is skipped,
\* which changes as little as one with too few bars.
Evaluate(s) == \E a \in AccountReads : OnEvent(s, a)

\* Mutant: the loop does not advance.
CountTriedNot == tried' = tried
\* The for loop over the universe, or "tried += 1".
CountTried == tried' = tried + 1

\* One turn of the loop of _scan_and_select.
ScanNext ==
    /\ phase = "scan"
    /\ tried < Len(Universe)
    /\ SlotFree(acct)
    /\ CountTried
    /\ Evaluate(Universe[tried + 1])
    /\ UNCHANGED <<loop, acct, swept, sel, cursor, withOpen, feedVars,
                   brokerVars>>

\* The walk is over or the target reached; the stream starts.
ScanEnd ==
    /\ phase = "scan"
    /\ tried = Len(Universe) \/ ~SlotFree(acct)
    /\ phase' = "idle" /\ loop' = "stream"
    /\ tried' = 0 /\ acct' = {}
    /\ \E a \in AccountReads : withOpen' = SymbolsOf(a)
    /\ subs' = subs \union sel
    /\ UNCHANGED <<intent, swept, strategyVars, seen, brokerVars>>

\* A closed bar of s leaves the feed.
HandleBar(s) ==
    /\ phase = "idle"
    /\ s \in subs \intersect seen
    /\ \E a \in AccountReads : OnEvent(s, a)
    /\ UNCHANGED <<loop, acct, tried, swept, sel, cursor, withOpen, feedVars,
                   brokerVars>>

\* A tick of s: on_event ignores it, the rest of _handle_event runs.
HandleTick(s) ==
    /\ phase = "idle"
    /\ s \in subs
    /\ seen' = seen \union {s}
    /\ Decide(NoIntent)
    /\ UNCHANGED <<loop, acct, tried, swept, strategyVars, withOpen, subs,
                   brokerVars>>

--------------------------------------------------------------------------------
(* _process_intents                                                        *)

\* on_open_outcome(success=False, first_entry=True), then the refresh.
OpenFailed(k) == ResetTrade({k}) /\ Refresh(sel \ {k[1]})

\* An order that was not accepted or not filled.
NotOpened ==
    IF intent.kind = "first"
    THEN OpenFailed(intent.key)
    ELSE UNCHANGED <<sel, armed, hits, subs>>

\* The live checks of a first entry on the refreshed account.
LiveRefuses(a) ==
    /\ Live
    /\ intent.kind = "first"
    /\ ~Flat(intent.key[1], a) \/ ~SlotFree(a)

\* The sizer: closing needs a position; opening is refused against an opposite
\* position unless hedging is allowed.
SizerAccepts(a) ==
    IF intent.kind \in {"close", "reduce"}
    THEN intent.key \in a
    ELSE AllowHedge \/ \A k \in a : k[1] = intent.key[1] => k = intent.key

\* The capital, minimum-size and loss gates may refuse any opening order.
SizerMayReject(a) == ~SizerAccepts(a) \/ intent.kind \in {"first", "add"}

SizeRejected ==
    /\ phase = "intent"
    /\ \E a \in AccountReads : LiveRefuses(a) \/ SizerMayReject(a)
    /\ NotOpened
    /\ phase' = "after" /\ intent' = NoIntent
    /\ UNCHANGED <<loop, acct, tried, swept, cursor, withOpen, seen,
                   brokerVars>>

SizeAccepted ==
    /\ phase = "intent"
    /\ \E a \in AccountReads : ~LiveRefuses(a) /\ SizerAccepts(a)
    /\ phase' = "submit"
    /\ UNCHANGED <<loop, intent, acct, tried, swept, strategyVars, withOpen,
                   feedVars, brokerVars>>

\* Strategy._ensure_selected.
EnsureSelected(s) == Refresh(sel \union {s})

\* The order filled; a first entry selects its coin.
Filled ==
    /\ IF intent.kind = "first"
       THEN EnsureSelected(intent.key[1])
       ELSE UNCHANGED <<sel, subs>>
    /\ UNCHANGED <<armed, hits>>

AfterSubmit ==
    /\ phase' = "after" /\ intent' = NoIntent
    /\ UNCHANGED <<loop, acct, tried, swept, cursor, withOpen, seen>>

\* An opening order fills.
SubmitOpen ==
    /\ phase = "submit"
    /\ intent.kind \in {"first", "add"}
    /\ held' = held \union {intent.key}
    /\ steps' = IF Live THEN steps ELSE [steps EXCEPT ![intent.key] = @ + 1]
    /\ Filled
    /\ AfterSubmit
    /\ UNCHANGED <<pending, trouble>>

\* A closing order fills; a reduce whose rounded quantity is zero, or the whole
\* position, closes it too.
SubmitClose ==
    /\ phase = "submit"
    /\ intent.kind \in {"close", "reduce"}
    /\ \/ held' = held \ {intent.key} /\ steps' = [steps EXCEPT ![intent.key] = 0]
       \/ intent.kind = "reduce" /\ UNCHANGED <<held, steps>>
    /\ Filled
    /\ AfterSubmit
    /\ UNCHANGED <<pending, trouble>>

\* Live: the order is reported REJECTED: the exchange refused it, or the
\* confirmation timed out or raised and the order fills later.
SubmitRejected ==
    /\ phase = "submit"
    /\ Live
    /\ NotOpened
    /\ AfterSubmit
    /\ \/ UNCHANGED pending
       \/ LateFills /\ pending' = pending \union {intent.key}
    /\ UNCHANGED <<held, steps, trouble>>

--------------------------------------------------------------------------------
(* What follows the intents.                                               *)

\* Mutant: the difference is taken the other way round.
ReleasedSymbolsSwapped(a) == (SymbolsOf(a) \ withOpen) \intersect sel
\* The selected coins that were open after the previous event and are flat now.
ReleasedSymbols(a) == (withOpen \ SymbolsOf(a)) \intersect sel

\* Strategy.release_symbol for each of the coins S.
ReleaseSymbols(S) == Refresh(sel \ S) /\ ResetTrade(KeysOf(S))

\* In the stream: _handle_released_positions takes them off the watchlist.
Released(a) ==
    /\ phase = "after"
    /\ loop = "stream"
    /\ withOpen' = SymbolsOf(a)
    /\ LET released == ReleasedSymbols(a) IN
       IF released = {}
       THEN /\ phase' = "idle"
            /\ UNCHANGED <<loop, acct, sel, armed, hits, subs>>
       ELSE /\ ReleaseSymbols(released)
            /\ acct' \in AccountReads
            /\ phase' = "replace" /\ loop' = "replace"

HandleReleased ==
    /\ \E a \in AccountReads : Released(a)
    /\ UNCHANGED <<intent, tried, swept, cursor, seen, brokerVars>>

\* Without a history provider nothing is released.
HandleNoRelease ==
    /\ phase = "after"
    /\ loop = "fixed"
    /\ phase' = "idle"
    /\ UNCHANGED <<loop, intent, acct, tried, swept, strategyVars, withOpen,
                   feedVars, brokerVars>>

\* In a scan loop: the account is read again before the next coin.
BackToScan ==
    /\ phase = "after"
    /\ loop \in {"scan", "replace"}
    /\ phase' = loop
    /\ acct' \in AccountReads
    /\ UNCHANGED <<loop, intent, tried, swept, strategyVars, withOpen, feedVars,
                   brokerVars>>

\* next_scan_candidate: the offsets from the cursor of the coins that are
\* neither selected nor open.
At(offset) == Universe[((cursor + offset) % Len(Universe)) + 1]
Offsets == {o \in 0 .. Len(Universe) - 1 : At(o) \notin sel \union SymbolsOf(acct)}

NextCursor(o) == (cursor + o + 1) % Len(Universe)

\* Mutant: the cap on tried coins is one short.
ReplaceGoesOnShort ==
    SlotFree(acct) /\ tried < Len(Universe) - 1 /\ Offsets # {}
ReplaceGoesOn == SlotFree(acct) /\ tried < Len(Universe) /\ Offsets # {}

\* One turn of the loop of _scan_for_replacements.
ReplaceNext ==
    /\ phase = "replace"
    /\ ReplaceGoesOn
    /\ \E o \in Offsets :
       /\ \A p \in Offsets : o <= p
       /\ cursor' = NextCursor(o)
       /\ swept' = swept \union {At(o)}
       /\ Evaluate(At(o))
    /\ CountTried
    /\ UNCHANGED <<loop, acct, sel, withOpen, feedVars, brokerVars>>

ReplaceEnd ==
    /\ phase = "replace"
    /\ ~ReplaceGoesOn
    /\ phase' = "idle" /\ loop' = "stream"
    /\ tried' = 0 /\ swept' = {} /\ acct' = {}
    /\ UNCHANGED <<intent, strategyVars, withOpen, feedVars, brokerVars>>

\* The run is stopped (the task is cancelled at an await) or an exception leaves
\* the loop.
End ==
    /\ phase # "ended"
    /\ phase' = "ended"
    /\ UNCHANGED <<loop, intent, acct, tried, swept, strategyVars, withOpen,
                   feedVars, brokerVars>>

--------------------------------------------------------------------------------
(* The exchange of a live run.                                             *)

ExchangeVarsOnly ==
    UNCHANGED <<phase, loop, intent, acct, tried, swept, strategyVars, withOpen,
                feedVars, steps>>

\* A resting take-profit or stop, or the user, closes a position.
ExchangeCloses(k) ==
    /\ Live /\ phase # "ended" /\ k \in held
    /\ held' = held \ {k}
    /\ ExchangeVarsOnly /\ UNCHANGED <<pending, trouble>>

LateFill(k) ==
    /\ Live /\ phase # "ended" /\ k \in pending
    /\ held' = held \union {k}
    /\ pending' = pending \ {k}
    /\ trouble' = IF trouble = "now" THEN "now" ELSE "past"
    /\ ExchangeVarsOnly

\* The owner of the account, or another run on it, opens a position.
OtherOpens(k) ==
    /\ Live /\ OthersTrade /\ phase # "ended" /\ k \notin held
    /\ held' = held \union {k}
    /\ trouble' = IF trouble = "now" THEN "now" ELSE "past"
    /\ ExchangeVarsOnly /\ UNCHANGED pending

\* The position request fails, and later succeeds again.
AccountGoes ==
    /\ Live /\ AccountFails /\ phase # "ended" /\ trouble # "now"
    /\ trouble' = "now"
    /\ ExchangeVarsOnly /\ UNCHANGED <<held, pending>>

AccountReturns ==
    /\ Live /\ phase # "ended" /\ trouble = "now"
    /\ trouble' = "past"
    /\ ExchangeVarsOnly /\ UNCHANGED <<held, pending>>

--------------------------------------------------------------------------------
\* The steps the task takes by itself once it runs.
EngineStep ==
    \/ Start \/ ScanNext \/ ScanEnd
    \/ SizeRejected \/ SizeAccepted
    \/ SubmitOpen \/ SubmitClose \/ SubmitRejected
    \/ HandleReleased \/ HandleNoRelease \/ BackToScan
    \/ ReplaceNext \/ ReplaceEnd

Next ==
    \/ EngineStep
    \/ \E s \in Symbols : HandleBar(s) \/ HandleTick(s)
    \/ \E k \in Keys : ExchangeCloses(k) \/ LateFill(k) \/ OtherOpens(k)
    \/ AccountGoes \/ AccountReturns
    \/ End

Spec == Init /\ [][Next]_vars
\* The event loop runs the task until it waits for the feed.
FairSpec == Spec /\ WF_vars(EngineStep)

--------------------------------------------------------------------------------
(* Properties                                                              *)

TypeOK ==
    /\ phase \in {"start", "scan", "idle", "intent", "submit", "after",
                   "replace", "ended"}
    /\ loop \in {"scan", "stream", "fixed", "replace"}
    /\ intent \in [kind : Kinds, key : Keys] \union {NoIntent}
    /\ phase \in {"intent", "submit"} => intent # NoIntent
    /\ phase \in {"start", "scan", "idle", "after", "replace"} => intent = NoIntent
    /\ acct \in SUBSET Keys
    /\ tried \in 0 .. Len(Universe)
    /\ swept \in SUBSET Symbols
    /\ sel \in SUBSET Symbols
    /\ cursor \in 0 .. Len(Universe) - 1
    /\ armed \in SUBSET Keys
    /\ hits \in [Keys -> 0 .. NumTps]
    /\ withOpen \in SUBSET Symbols
    /\ subs \in SUBSET Symbols /\ seen \in SUBSET Symbols
    /\ held \in SUBSET Keys
    /\ steps \in [Keys -> Nat]
    /\ pending \in SUBSET Keys
    /\ trouble \in {"none", "now", "past"}

OpenSymbols == SymbolsOf(held)

\* No more than max_symbols coins are ever traded at once ("How many coins to
\* actively trade at once", trend_scanner.py:67), although the strategy decides
\* on one account snapshot and the order is sent after others.
SlotBound == Cardinality(OpenSymbols) <= MaxSymbols

\* The two sides of one coin are never open together: the first entry of either
\* side needs the coin flat, so allow_hedge ("Allow opposite-direction positions to
\* coexist", trend_scanner.py:117) has no effect on this strategy.
OneSidePerSymbol == \A k, l \in held : k[1] = l[1] => k = l

\* A simulated position always has its stop: the strategy drops the trade state
\* of a position only together with the order that closes it.
Closing == IF intent.kind = "close" THEN {intent.key} ELSE {}
OpenIsArmed == held \ Closing \subseteq armed

\* The symbols whose data a run gets when it wants it: on the user's own symbols
\* the feed subscribes no others, not even those of positions found at the start.
Streamable == IF loop = "fixed" THEN Given ELSE Symbols

\* Every coin with an open position is on the watchlist, and its market data is
\* subscribed, whenever the task waits for the feed; else its exits would never
\* be evaluated.  (Not a position the account did not show, one of an order
\* reported rejected or one of somebody else; and a position found at the start
\* on a coin the user did not give is on the watchlist, but without data.)
OpenIsWatched ==
    phase = "idle" /\ trouble = "none" =>
        /\ OpenSymbols \subseteq sel
        /\ OpenSymbols \intersect Streamable \subseteq subs

\* A position never has more steps than max_entries, although each add is
\* decided on one snapshot and counted by the broker.
StepsBounded == \A k \in Keys : steps[k] <= MaxEntries

\* The pending intent fits the positions it was decided on: nothing moves them
\* while the order of a simulated run is under way.
IntentFits ==
    /\ intent.kind = "first" =>
          Flat(intent.key[1], held) /\ SlotFree(held) /\ intent.key \in armed
    /\ intent.kind \in {"add", "reduce", "close"} => intent.key \in held
    /\ intent.kind = "add" => steps[intent.key] < MaxEntries

\* Only open positions have steps.
StepsFit == \A k \in Keys : k \notin held => steps[k] = 0

\* The inductive invariant of the simulated runs.
DryInv ==
    /\ SlotBound /\ OneSidePerSymbol /\ OpenIsArmed /\ StepsBounded
    /\ IntentFits /\ StepsFit
    /\ OpenSymbols \subseteq sel

\* A run opens no further coin when max_symbols coins are open, even when the
\* run starts on an account that already holds more and however positions close
\* between the decision and the order; unless the account could not be read, an
\* order reported rejected filled or somebody else opened a position.
NoOpenBeyondLimit ==
    [][trouble' = "none" =>
           \A s \in SymbolsOf(held') \ OpenSymbols :
               Cardinality(OpenSymbols) < MaxSymbols]_vars

\* The inductive invariant of the live runs: an order of a first entry is under
\* way only while a slot is free, unless something went wrong.
LiveInv ==
    /\ intent.kind # "add"
    /\ phase = "submit" /\ intent.kind = "first" /\ trouble = "none" =>
           SlotFree(held)

\* A coin leaves the watchlist only when it has no open position (release_symbol,
\* trend_scanner.py:243: "Free a watchlist slot when the symbol has no open
\* position."), unless the account hides one.
DropOnlyWhenFlat ==
    [][trouble = "none" => \A s \in sel \ sel' : Flat(s, held)]_vars

\* "When a symbol goes fully flat, drop it from the watchlist and scan
\* replacements" (engine.py:488): a coin that is still selected when the task
\* waits for the feed has a position.
FlatIsReleased ==
    phase = "idle" /\ loop = "stream" => sel \subseteq OpenSymbols

\* A replacement scan that ends with a free slot has tried every coin that is
\* neither selected nor open: the round-robin cursor skips none.  (Not when a
\* position that is not selected closes while the cursor is past its coin.)
ReplacementSweeps ==
    [][ (trouble = "none" /\ phase = "replace" /\ phase' = "idle" /\ SlotFree(acct)) =>
            \A i \in DOMAIN Universe :
                Universe[i] \in sel \union SymbolsOf(acct) \union swept ]_vars

\* The task always comes back to the feed: no scan goes on for ever, however
\* often its candidates are refused.
BackToFeed == phase # "idle" ~> phase \in {"idle", "ended"}

\* The engine implements a pool of max_symbols slots.
Slots == INSTANCE SlotPool WITH open <- OpenSymbols
ImplementsSlots == Slots!Spec
================================================================================
