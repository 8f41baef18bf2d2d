--------------------------- MODULE TradingLoopProofs ---------------------------
(***************************************************************************)
(* Proofs about TradingLoop: type correctness for every run; for every run *)
(* of the simulated broker (dry run and backtest) the bound on the coins   *)
(* traded, the other safety invariants and the refinement of the slot      *)
(* pool; for every run, live ones included, that no coin is opened beyond  *)
(* the limit, that open coins are watched, and that a replacement scan     *)
(* leaves out none.                                                        *)
(***************************************************************************)
EXTENDS TradingLoop, FiniteSetTheorems, TLAPS

(***************************************************************************)
(* The part of the state the steps of the engine task share.               *)
(***************************************************************************)
USE UniverseAssumption, LimitAssumption, FlagAssumption

\* A symbol of a set of keys is a symbol, and removing keys removes no other.
LEMMA SymbolsOfKeys ==
    ASSUME NEW K \in SUBSET Keys
    PROVE  /\ SymbolsOf(K) \in SUBSET Symbols
           /\ IsFiniteSet(SymbolsOf(K))
           /\ Cardinality(SymbolsOf(K)) \in Nat
<1>1. SymbolsOf(K) \in SUBSET Symbols
  BY DEF SymbolsOf, Keys
<1>2. IsFiniteSet(SymbolsOf(K))
  BY <1>1, SymbolsAssumption, FS_Subset
<1>3. QED BY <1>1, <1>2, FS_CardinalityType

\* The account snapshots are sets of keys, and the truth in a simulated run.
LEMMA Reads ==
    ASSUME held \in SUBSET Keys
    PROVE  /\ AccountReads \in SUBSET (SUBSET Keys)
           /\ ~Live => AccountReads = {held}
BY DEF AccountReads

--------------------------------------------------------------------------------
\* The strategy's decision keeps the types of what it writes.
LEMMA OnEventType ==
    ASSUME TypeOK, NEW s \in Symbols, NEW a \in SUBSET Keys, OnEvent(s, a)
    PROVE  /\ phase' \in {"after", "intent"}
           /\ intent' \in [kind : Kinds, key : Keys] \union {NoIntent}
           /\ phase' = "intent" <=> intent' # NoIntent
           /\ armed' \in SUBSET Keys
           /\ hits' \in [Keys -> 0 .. NumTps]
<1> USE DEF TypeOK, Decide, NumTps
<1>1. CASE TooFewBars
  BY <1>1 DEF TooFewBars
<1>2. CASE NoSignal(s, a)
  BY <1>2 DEF NoSignal, ResetTrade, Stale
<1>3. CASE StopHit(s, a)
  BY <1>3 DEF StopHit, ResetTrade, Intent, NoIntent, Kinds
<1>4. CASE TakeProfit(s, a)
  BY <1>4 DEF TakeProfit, Intent, NoIntent, Kinds
<1>5. CASE FirstEntry(s, a)
  BY <1>5 DEF FirstEntry, KeysOf, Stale, Intent, NoIntent, Kinds
<1>6. CASE AddEntry(s, a)
  BY <1>6 DEF AddEntry, Intent, NoIntent, Kinds
<1>7. QED BY <1>1, <1>2, <1>3, <1>4, <1>5, <1>6 DEF OnEvent

\* The coin the round-robin picks is in the universe.
LEMMA PickType ==
    ASSUME TypeOK, NEW o \in Offsets
    PROVE  At(o) \in Symbols /\ NextCursor(o) \in 0 .. Len(Universe) - 1
<1>1. o \in Int /\ cursor \in Int /\ Len(Universe) \in Nat \ {0}
  BY DEF Offsets, TypeOK
<1>2. (cursor + o) % Len(Universe) \in 0 .. Len(Universe) - 1
  BY <1>1
<1>3. (cursor + o + 1) % Len(Universe) \in 0 .. Len(Universe) - 1
  BY <1>1
<1>4. At(o) \in Symbols
  BY <1>1, <1>2 DEF At
<1>5. QED BY <1>3, <1>4 DEF NextCursor

\* Type correctness of the initial states and of every step.
LEMMA TypeInit == Init => TypeOK
<1>1. SUFFICES ASSUME Init PROVE TypeOK
  OBVIOUS
<1>2. 0 \in 0 .. Len(Universe) /\ 0 \in 0 .. Len(Universe) - 1
  OBVIOUS
<1>3. QED BY <1>1, <1>2, SymbolsAssumption DEF Init, TypeOK, NoIntent, NumTps

LEMMA TypeStep == TypeOK /\ [Next]_vars => TypeOK'
<1> SUFFICES ASSUME TypeOK, [Next]_vars PROVE TypeOK'
  OBVIOUS
<1> USE DEF strategyVars, feedVars, brokerVars
<1>a. held \in SUBSET Keys /\ AccountReads \in SUBSET (SUBSET Keys)
  BY Reads DEF TypeOK
<1>b. \A K \in SUBSET Keys : SymbolsOf(K) \in SUBSET Symbols
  BY SymbolsOfKeys
<1>c. ASSUME NotOpened, intent # NoIntent
      PROVE  /\ sel' \in SUBSET Symbols /\ subs' \in SUBSET Symbols
             /\ armed' \in SUBSET Keys /\ hits' \in [Keys -> 0 .. NumTps]
  BY <1>c DEF NotOpened, OpenFailed, ResetTrade, Refresh, TypeOK, NumTps
<1>d. ASSUME Filled, intent # NoIntent
      PROVE  /\ sel' \in SUBSET Symbols /\ subs' \in SUBSET Symbols
             /\ armed' \in SUBSET Keys /\ hits' \in [Keys -> 0 .. NumTps]
  <2>1. intent.key[1] \in Symbols
    BY <1>d DEF TypeOK, Keys
  <2>2. QED BY <1>d, <2>1 DEF Filled, EnsureSelected, Refresh, TypeOK
<1>1. CASE Start
  BY <1>1, <1>a, <1>b DEF Start, OnStart, Refresh, TypeOK
<1>2. CASE ScanNext
  <2>1. Universe[tried + 1] \in Symbols
    BY <1>2 DEF ScanNext, TypeOK
  <2>2. PICK a \in AccountReads : OnEvent(Universe[tried + 1], a)
    BY <1>2 DEF ScanNext, Evaluate
  <2>3. QED
    BY <1>2, <1>a, <2>1, <2>2, OnEventType DEF ScanNext, CountTried, TypeOK
<1>3. CASE ScanEnd
  BY <1>3, <1>a, <1>b DEF ScanEnd, TypeOK
<1>4. CASE \E s \in Symbols : HandleBar(s)
  <2>1. PICK s \in Symbols, a \in AccountReads : HandleBar(s) /\ OnEvent(s, a)
    BY <1>4 DEF HandleBar
  <2>2. QED BY <1>a, <2>1, OnEventType DEF HandleBar, TypeOK
<1>5. CASE \E s \in Symbols : HandleTick(s)
  BY <1>5 DEF HandleTick, Decide, TypeOK
<1>6. CASE SizeRejected
  BY <1>6, <1>c DEF SizeRejected, TypeOK
<1>7. CASE SizeAccepted
  BY <1>7 DEF SizeAccepted, TypeOK
<1>8. CASE SubmitOpen
  BY <1>8, <1>d DEF SubmitOpen, AfterSubmit, TypeOK, NoIntent
<1>9. CASE SubmitClose
  BY <1>9, <1>d DEF SubmitClose, AfterSubmit, TypeOK, NoIntent
<1>10. CASE SubmitRejected
  BY <1>10, <1>c DEF SubmitRejected, AfterSubmit, TypeOK, NoIntent
<1>11. CASE HandleReleased
  <2>1. PICK a \in AccountReads : Released(a)
    BY <1>11 DEF HandleReleased
  <2>2. SymbolsOf(a) \in SUBSET Symbols
    BY <1>a, <1>b, <2>1
  <2>3. QED
    BY <1>11, <1>a, <2>1, <2>2
    DEF HandleReleased, Released, ReleasedSymbols, ReleaseSymbols, Refresh,
        ResetTrade, KeysOf, TypeOK, NumTps
<1>12. CASE HandleNoRelease
  BY <1>12 DEF HandleNoRelease, TypeOK
<1>13. CASE BackToScan
  BY <1>13, <1>a DEF BackToScan, TypeOK
<1>14. CASE ReplaceNext
  <2>1. PICK o \in Offsets : cursor' = NextCursor(o) /\ Evaluate(At(o))
                             /\ swept' = swept \union {At(o)}
    BY <1>14 DEF ReplaceNext
  <2>2. PICK a \in AccountReads : OnEvent(At(o), a)
    BY <2>1 DEF Evaluate
  <2>3. At(o) \in Symbols /\ cursor' \in 0 .. Len(Universe) - 1
    BY <2>1, PickType
  <2>4. tried' \in 0 .. Len(Universe)
    BY <1>14 DEF ReplaceNext, ReplaceGoesOn, CountTried, TypeOK
  <2>5. /\ phase' \in {"after", "intent"}
        /\ intent' \in [kind : Kinds, key : Keys] \union {NoIntent}
        /\ phase' = "intent" <=> intent' # NoIntent
        /\ armed' \in SUBSET Keys
        /\ hits' \in [Keys -> 0 .. NumTps]
    BY <1>a, <2>2, <2>3, OnEventType
  <2>6. QED BY <1>14, <2>1, <2>3, <2>4, <2>5 DEF ReplaceNext, TypeOK
<1>15. CASE ReplaceEnd
  BY <1>15 DEF ReplaceEnd, TypeOK
<1>16. CASE \E k \in Keys : ExchangeCloses(k) \/ LateFill(k) \/ OtherOpens(k)
  BY <1>16 DEF ExchangeCloses, LateFill, OtherOpens, ExchangeVarsOnly, TypeOK
<1>17. CASE End
  BY <1>17 DEF End, TypeOK
<1>18. CASE UNCHANGED vars
  BY <1>18 DEF vars, TypeOK
<1>19. CASE AccountGoes \/ AccountReturns
  BY <1>19 DEF AccountGoes, AccountReturns, ExchangeVarsOnly, TypeOK
<1>20. QED
  BY <1>1, <1>2, <1>3, <1>4, <1>5, <1>6, <1>7, <1>8, <1>9, <1>10, <1>11, <1>12,
     <1>13, <1>14, <1>15, <1>16, <1>17, <1>18, <1>19 DEF Next, EngineStep

\* Every reachable state of every run, simulated or live, with or without
\* failures, is well typed; in particular the scan loops never index the
\* universe out of range.
THEOREM TypeCorrect == Spec => []TypeOK
BY TypeInit, TypeStep, PTL DEF Spec

--------------------------------------------------------------------------------
(* The simulated runs.                                                     *)

\* Taking a free slot for a flat symbol stays within the bound.
LEMMA SlotTaken ==
    ASSUME NEW K \in SUBSET Keys, NEW k \in Keys, Flat(k[1], K), SlotFree(K)
    PROVE  /\ SymbolsOf(K \union {k}) = SymbolsOf(K) \union {k[1]}
           /\ Cardinality(SymbolsOf(K \union {k})) <= MaxSymbols
<1>1. SymbolsOf(K \union {k}) = SymbolsOf(K) \union {k[1]}
  BY DEF SymbolsOf
<1>2. IsFiniteSet(SymbolsOf(K)) /\ Cardinality(SymbolsOf(K)) \in Nat
  BY SymbolsOfKeys
<1>3. Cardinality(SymbolsOf(K) \union {k[1]}) = Cardinality(SymbolsOf(K)) + 1
  BY <1>2, FS_AddElement DEF Flat
<1>4. Cardinality(SymbolsOf(K)) + 1 <= MaxSymbols
  BY <1>2, LimitAssumption DEF SlotFree
<1>5. QED BY <1>1, <1>3, <1>4

\* Closing a position frees at most its own symbol.
LEMMA SlotGiven ==
    ASSUME NEW K \in SUBSET Keys, NEW k \in Keys,
           Cardinality(SymbolsOf(K)) <= MaxSymbols
    PROVE  /\ SymbolsOf(K \ {k}) \subseteq SymbolsOf(K)
           /\ Cardinality(SymbolsOf(K \ {k})) <= MaxSymbols
<1>1. SymbolsOf(K \ {k}) \subseteq SymbolsOf(K)
  BY DEF SymbolsOf
<1>2. IsFiniteSet(SymbolsOf(K)) /\ Cardinality(SymbolsOf(K)) \in Nat
  BY SymbolsOfKeys
<1>3. /\ Cardinality(SymbolsOf(K \ {k})) \in Nat
      /\ Cardinality(SymbolsOf(K \ {k})) <= Cardinality(SymbolsOf(K))
  BY <1>1, <1>2, FS_Subset, FS_CardinalityType
<1> DEFINE m == Cardinality(SymbolsOf(K \ {k}))
           n == Cardinality(SymbolsOf(K))
<1>4. m \in Nat /\ n \in Nat /\ m <= n /\ n <= MaxSymbols
  BY <1>2, <1>3
<1> HIDE DEF m, n
<1>5. m <= MaxSymbols
  BY <1>4, LimitAssumption
<1>6. QED BY <1>1, <1>5 DEF m

\* A decision on the true positions yields an intent that fits them, and drops
\* the trade state of an open position only to close it.
LEMMA OnEventDry ==
    ASSUME ~Live, TypeOK, DryInv, NEW s \in Symbols, OnEvent(s, held),
           phase \in {"scan", "idle", "replace"}
    PROVE  /\ intent'.kind = "first" =>
                 /\ Flat(intent'.key[1], held) /\ SlotFree(held)
                 /\ intent'.key \in armed'
           /\ intent'.kind \in {"add", "reduce", "close"} => intent'.key \in held
           /\ intent'.kind = "add" => steps[intent'.key] < MaxEntries
           /\ held \ Closing' \subseteq armed'
<1>1. held \subseteq armed
  BY DEF DryInv, OpenIsArmed, Closing, TypeOK, NoIntent
<1>2. held \subseteq Keys /\ steps \in [Keys -> Nat] /\ armed \subseteq Keys
  BY DEF TypeOK
<1>3. Stale(s, held) = {}
  BY DEF Stale
<1> USE DEF Decide, NoIntent, Intent, Closing
<1>4. CASE TooFewBars
  BY <1>1, <1>4 DEF TooFewBars
<1>5. CASE NoSignal(s, held)
  BY <1>1, <1>3, <1>5 DEF NoSignal, ResetTrade
<1>6. CASE StopHit(s, held)
  BY <1>1, <1>6 DEF StopHit, ResetTrade
<1>7. CASE TakeProfit(s, held)
  BY <1>1, <1>7 DEF TakeProfit
<1>8. CASE FirstEntry(s, held)
  <2>1. PICK k \in KeysOf({s}) : /\ Decide(Intent("first", k))
                                 /\ armed' = (armed \ Stale(s, held)) \union {k}
    BY <1>8 DEF FirstEntry
  <2>2. k[1] = s /\ Flat(s, held) /\ SlotFree(held)
    BY <1>8, <2>1 DEF FirstEntry, KeysOf
  <2>3. QED BY <1>1, <1>3, <2>1, <2>2
<1>9. CASE AddEntry(s, held)
  <2>1. PICK k \in held \intersect armed :
            /\ steps[k] \in 1 .. (MaxEntries - 1)
            /\ Decide(Intent("add", k))
            /\ UNCHANGED armed
    BY <1>9 DEF AddEntry
  <2>2. steps[k] < MaxEntries
    BY <2>1
  <2>3. QED BY <1>1, <2>1, <2>2
<1>10. QED BY <1>4, <1>5, <1>6, <1>7, <1>8, <1>9 DEF OnEvent

LEMMA DryInit == ~Live /\ Init => DryInv
<1> SUFFICES ASSUME ~Live, Init PROVE DryInv
  OBVIOUS
<1>1. held = {} /\ SymbolsOf(held) = {} /\ intent = NoIntent /\ sel = {}
  BY DEF Init, SymbolsOf
<1>2. Cardinality(SymbolsOf(held)) = 0
  BY <1>1, FS_EmptySet
<1>3. SlotBound
  BY <1>2, LimitAssumption DEF SlotBound, OpenSymbols
<1>4. StepsBounded /\ StepsFit
  BY LimitAssumption DEF Init, StepsBounded, StepsFit
<1>5. QED
  BY <1>1, <1>3, <1>4
  DEF DryInv, OneSidePerSymbol, OpenIsArmed, IntentFits, OpenSymbols, NoIntent

\* A step that leaves the positions and the watchlist alone, loses no trade state
\* of an open position and keeps the intent fitting preserves the invariant.
LEMMA DryKept ==
    ASSUME DryInv, UNCHANGED <<held, steps>>,
           intent' = intent \/ intent' = NoIntent,
           sel' = sel,
           armed' = armed, intent' = NoIntent => intent.kind # "close"
    PROVE  DryInv'
BY DEF DryInv, SlotBound, OneSidePerSymbol, OpenIsArmed, StepsBounded, IntentFits,
       StepsFit, OpenSymbols, Closing, NoIntent

LEMMA DryDecided ==
    ASSUME ~Live, TypeOK, DryInv, NEW s \in Symbols, OnEvent(s, held),
           phase \in {"scan", "idle", "replace"},
           UNCHANGED <<held, steps, sel>>
    PROVE  DryInv'
<1>1. IntentFits' /\ OpenIsArmed'
  BY OnEventDry DEF IntentFits, OpenIsArmed, Flat, SlotFree
<1>2. QED
  BY <1>1 DEF DryInv, SlotBound, OneSidePerSymbol, StepsBounded, StepsFit,
              OpenSymbols

\* An opening order of a simulated run.
LEMMA DryOpened ==
    ASSUME ~Live, TypeOK, DryInv, SubmitOpen
    PROVE  DryInv'
<1> DEFINE k == intent.key
<1>1. /\ k \in Keys /\ k[1] \in Symbols
      /\ held' = held \union {k} /\ steps' = [steps EXCEPT ![k] = @ + 1]
      /\ held \subseteq Keys /\ steps \in [Keys -> Nat]
      /\ UNCHANGED armed /\ intent' = NoIntent
      /\ intent.kind \in {"first", "add"}
  BY DEF SubmitOpen, Filled, AfterSubmit, TypeOK, NoIntent, Keys
<1>2. CASE intent.kind = "first"
  <2>1. Flat(k[1], held) /\ SlotFree(held)
    BY <1>2 DEF DryInv, IntentFits
  <2>2. /\ OpenSymbols' = OpenSymbols \union {k[1]}
        /\ Cardinality(OpenSymbols') <= MaxSymbols
    BY <1>1, <2>1, SlotTaken DEF OpenSymbols
  <2>3. sel' = sel \union {k[1]}
    BY <1>2 DEF SubmitOpen, Filled, EnsureSelected, Refresh
  <2>4. steps[k] = 0 /\ k \notin held
    BY <1>1, <2>1 DEF DryInv, StepsFit, Flat, SymbolsOf
  <2>5. OneSidePerSymbol'
    BY <1>1, <2>1 DEF DryInv, OneSidePerSymbol, Flat, SymbolsOf
  <2>6. StepsBounded' /\ StepsFit'
    BY <1>1, <2>4, LimitAssumption DEF DryInv, StepsBounded, StepsFit
  <2>7. OpenIsArmed'
    BY <1>1, <1>2 DEF DryInv, OpenIsArmed, IntentFits, Closing, NoIntent
  <2>8. QED
    BY <1>1, <2>2, <2>3, <2>5, <2>6, <2>7
    DEF DryInv, SlotBound, IntentFits, NoIntent
<1>3. CASE intent.kind = "add"
  <2>1. k \in held /\ steps[k] < MaxEntries
    BY <1>3 DEF DryInv, IntentFits
  <2>2. held' = held /\ UNCHANGED <<sel, subs>>
    BY <1>1, <1>3, <2>1 DEF SubmitOpen, Filled
  <2>3. StepsBounded' /\ StepsFit'
    BY <1>1, <2>1, LimitAssumption DEF DryInv, StepsBounded, StepsFit
  <2>4. QED
    BY <1>1, <1>3, <2>2, <2>3
    DEF DryInv, SlotBound, OneSidePerSymbol, OpenIsArmed, IntentFits, OpenSymbols,
        Closing, NoIntent
<1>4. QED BY <1>1, <1>2, <1>3

\* A closing order of a simulated run.
LEMMA DryClosed ==
    ASSUME ~Live, TypeOK, DryInv, SubmitClose
    PROVE  DryInv'
<1> DEFINE k == intent.key
<1>1. /\ k \in Keys /\ held \subseteq Keys /\ steps \in [Keys -> Nat]
      /\ UNCHANGED <<armed, sel, subs>> /\ intent' = NoIntent
      /\ intent.kind \in {"close", "reduce"}
  BY DEF SubmitClose, Filled, AfterSubmit, TypeOK, NoIntent
<1>2. CASE held' = held \ {k} /\ steps' = [steps EXCEPT ![k] = 0]
  <2>1. OpenSymbols' \subseteq OpenSymbols /\ Cardinality(OpenSymbols') <= MaxSymbols
    BY <1>1, <1>2, SlotGiven DEF OpenSymbols, DryInv, SlotBound
  <2>2. StepsBounded' /\ StepsFit'
    BY <1>1, <1>2, LimitAssumption DEF DryInv, StepsBounded, StepsFit
  <2>3. OneSidePerSymbol' /\ OpenIsArmed'
    BY <1>1, <1>2 DEF DryInv, OneSidePerSymbol, OpenIsArmed, Closing, NoIntent
  <2>4. QED
    BY <1>1, <2>1, <2>2, <2>3 DEF DryInv, SlotBound, IntentFits, NoIntent
<1>3. CASE intent.kind = "reduce" /\ UNCHANGED <<held, steps>>
  BY <1>1, <1>3, DryKept DEF NoIntent, DryInv
<1>4. QED BY <1>1, <1>2, <1>3 DEF SubmitClose

LEMMA DryStep == ~Live /\ TypeOK /\ DryInv /\ [Next]_vars => DryInv'
<1> SUFFICES ASSUME ~Live, TypeOK, DryInv, [Next]_vars PROVE DryInv'
  OBVIOUS
<1> USE DEF strategyVars, feedVars, brokerVars
<1>a. held \in SUBSET Keys /\ AccountReads = {held}
  BY Reads DEF TypeOK
<1>b. \/ phase \in {"intent", "submit", "ended"}
      \/ intent = NoIntent /\ intent.kind = "none"
  BY DEF TypeOK, NoIntent
<1>c. OpenSymbols \subseteq sel
  BY DEF DryInv
<1>1. CASE Start
  BY <1>1, <1>a, <1>b, <1>c
  DEF Start, OnStart, Refresh, DryInv, SlotBound, OneSidePerSymbol, OpenIsArmed,
      StepsBounded, IntentFits, StepsFit, OpenSymbols, Closing
<1>2. CASE ScanNext
  <2>1. OnEvent(Universe[tried + 1], held) /\ Universe[tried + 1] \in Symbols
    BY <1>2, <1>a DEF ScanNext, Evaluate, TypeOK
  <2>2. QED BY <1>2, <2>1, DryDecided DEF ScanNext
<1>3. CASE ScanEnd
  BY <1>3, <1>b, <1>c, DryKept DEF ScanEnd
<1>4. CASE \E s \in Symbols : HandleBar(s)
  <2>1. PICK s \in Symbols : HandleBar(s) /\ OnEvent(s, held)
    BY <1>4, <1>a DEF HandleBar
  <2>2. QED BY <2>1, DryDecided DEF HandleBar
<1>5. CASE \E s \in Symbols : HandleTick(s)
  BY <1>5, <1>b, <1>c, DryKept DEF HandleTick, Decide
<1>6. CASE SizeRejected
  <2>1. intent # NoIntent /\ intent \in [kind : Kinds, key : Keys]
    BY <1>6 DEF SizeRejected, TypeOK
  <2>2. CASE intent.kind = "first"
    <3>1. /\ sel' = sel \ {intent.key[1]}
          /\ armed' = armed \ {intent.key} /\ intent' = NoIntent
          /\ UNCHANGED <<held, steps>>
      BY <1>6, <2>2
      DEF SizeRejected, NotOpened, OpenFailed, ResetTrade, Refresh
    <3>2. intent.key[1] \notin OpenSymbols /\ intent.key \notin held
      BY <2>2 DEF DryInv, IntentFits, Flat, OpenSymbols, SymbolsOf
    <3>3. QED
      BY <1>c, <2>2, <3>1, <3>2
      DEF DryInv, SlotBound, OneSidePerSymbol, OpenIsArmed, StepsBounded,
          IntentFits, StepsFit, OpenSymbols, Closing, NoIntent
  <2>3. CASE intent.kind # "first"
    <3>1. intent.kind # "close"
      BY <1>6, <1>a, <2>3
      DEF SizeRejected, LiveRefuses, SizerMayReject, SizerAccepts, DryInv, IntentFits
    <3>2. QED
      BY <1>6, <1>c, <2>3, <3>1, DryKept DEF SizeRejected, NotOpened
  <2>4. QED BY <2>2, <2>3
<1>7. CASE SizeAccepted
  BY <1>7, <1>c DEF SizeAccepted, DryInv, SlotBound, OneSidePerSymbol, OpenIsArmed,
      StepsBounded, IntentFits, StepsFit, OpenSymbols, Closing
<1>8. CASE SubmitOpen
  BY <1>8, DryOpened
<1>9. CASE SubmitClose
  BY <1>9, DryClosed
<1>10. CASE SubmitRejected
  BY <1>10 DEF SubmitRejected
<1>11. CASE HandleReleased
  <2>1. Released(held) /\ UNCHANGED <<intent, held, steps>> /\ intent = NoIntent
    BY <1>11, <1>a, <1>b DEF HandleReleased, Released
  <2>2. CASE ReleasedSymbols(held) = {}
    BY <1>c, <2>1, <2>2, DryKept DEF Released, NoIntent
  <2>3. CASE ReleasedSymbols(held) # {}
    <3>1. /\ sel' = sel \ ReleasedSymbols(held)
          /\ armed' = armed \ KeysOf(ReleasedSymbols(held))
      BY <2>1, <2>3 DEF Released, ReleaseSymbols, Refresh, ResetTrade
    <3>2. ReleasedSymbols(held) \intersect OpenSymbols = {}
      BY DEF ReleasedSymbols, OpenSymbols
    <3>3. held \intersect KeysOf(ReleasedSymbols(held)) = {}
      BY <3>2 DEF KeysOf, OpenSymbols, SymbolsOf
    <3>4. OpenIsArmed'
      BY <2>1, <3>1, <3>3 DEF DryInv, OpenIsArmed, Closing
    <3>5. QED
      BY <1>c, <2>1, <3>1, <3>2, <3>4
      DEF DryInv, SlotBound, OneSidePerSymbol, StepsBounded, IntentFits, StepsFit,
          OpenSymbols, NoIntent
  <2>4. QED BY <2>2, <2>3
<1>12. CASE HandleNoRelease
  BY <1>12, <1>b, <1>c, DryKept DEF HandleNoRelease
<1>13. CASE BackToScan
  BY <1>13, <1>b, <1>c, DryKept DEF BackToScan
<1>14. CASE ReplaceNext
  <2>1. PICK o \in Offsets : Evaluate(At(o))
    BY <1>14 DEF ReplaceNext
  <2>2. OnEvent(At(o), held) /\ At(o) \in Symbols
    BY <1>a, <2>1, PickType DEF Evaluate
  <2>3. QED BY <1>14, <2>2, DryDecided DEF ReplaceNext
<1>15. CASE ReplaceEnd
  BY <1>15, <1>b, <1>c, DryKept DEF ReplaceEnd
<1>16. CASE \E k \in Keys : ExchangeCloses(k) \/ LateFill(k) \/ OtherOpens(k)
  BY <1>16 DEF ExchangeCloses, LateFill, OtherOpens
<1>17. CASE End \/ UNCHANGED vars
  BY <1>17, <1>c
  DEF End, vars, DryInv, SlotBound, OneSidePerSymbol, OpenIsArmed, StepsBounded,
      IntentFits, StepsFit, OpenSymbols, Closing
<1>18. CASE AccountGoes \/ AccountReturns
  BY <1>18 DEF AccountGoes, AccountReturns
<1>19. QED
  BY <1>1, <1>2, <1>3, <1>4, <1>5, <1>6, <1>7, <1>8, <1>9, <1>10, <1>11, <1>12,
     <1>13, <1>14, <1>15, <1>16, <1>17, <1>18 DEF Next, EngineStep

\* In every dry run and backtest, for any universe, any limits and any hedging
\* setting, whatever the bars trigger and the sizer refuses: never more than
\* max_symbols coins or max_entries steps, never both sides of a coin, and always
\* a stop.
THEOREM DrySafety ==
    ASSUME ~Live
    PROVE  Spec => [](/\ SlotBound /\ OneSidePerSymbol /\ OpenIsArmed
                      /\ StepsBounded)
<1>1. Init => DryInv
  BY DryInit
<1>2. TypeOK /\ DryInv /\ [Next]_vars => DryInv'
  BY DryStep
<1>3. DryInv => /\ SlotBound /\ OneSidePerSymbol /\ OpenIsArmed
                /\ StepsBounded
  BY DEF DryInv
<1>4. QED BY <1>1, <1>2, <1>3, TypeCorrect, PTL DEF Spec

\* In every dry run and backtest the two sides of one coin are never open
\* together: the first entry of either side is decided and filled on a flat coin.
THEOREM DryOneSide == ASSUME ~Live PROVE Spec => []OneSidePerSymbol
BY DrySafety, PTL

\* In every dry run and backtest an open position has its stop, except while the
\* order that closes it is under way.
THEOREM DryOpenIsArmed == ASSUME ~Live PROVE Spec => []OpenIsArmed
BY DrySafety, PTL

\* In every dry run and backtest no position is entered more than max_entries
\* times.
THEOREM DryStepsBounded == ASSUME ~Live PROVE Spec => []StepsBounded
BY DrySafety, PTL

\* The invariant as the action properties use it.
LEMMA DryInvariant == ASSUME ~Live PROVE Spec => [](TypeOK /\ DryInv)
<1>1. Init => DryInv
  BY DryInit
<1>2. TypeOK /\ DryInv /\ [Next]_vars => DryInv'
  BY DryStep
<1>3. QED BY <1>1, <1>2, TypeCorrect, PTL DEF Spec

\* Every dry run and backtest implements the pool of max_symbols slots: a coin's
\* first position takes a free slot, its last one gives it back, and no other
\* step of the engine changes the coins that are open.
THEOREM DryImplementsSlots ==
    ASSUME ~Live
    PROVE  Spec => ImplementsSlots
<1>1. Init => Slots!Init
  BY DEF Init, Slots!Init, OpenSymbols, SymbolsOf
<1>2. TypeOK /\ DryInv /\ [Next]_vars => [Slots!Next]_OpenSymbols
  <2> SUFFICES ASSUME TypeOK, DryInv, Next, OpenSymbols' # OpenSymbols
               PROVE  Slots!Next
    BY DEF vars, brokerVars, OpenSymbols
  <2> DEFINE k == intent.key
  <2>a. held \subseteq Keys
    BY DEF TypeOK
  <2>1. CASE SubmitOpen
    <3>1. k \in Keys /\ k[1] \in Symbols /\ held' = held \union {k}
      BY <2>1 DEF SubmitOpen, TypeOK, NoIntent, Keys
    <3>2. intent.kind = "first"
      BY <2>1, <3>1 DEF SubmitOpen, DryInv, IntentFits, OpenSymbols
    <3>3. Flat(k[1], held) /\ SlotFree(held)
      BY <3>2 DEF DryInv, IntentFits
    <3>4. OpenSymbols' = OpenSymbols \union {k[1]}
      BY <2>a, <3>1, <3>3, SlotTaken DEF OpenSymbols
    <3>5. k[1] \notin OpenSymbols /\ Cardinality(OpenSymbols) < MaxSymbols
      BY <3>3 DEF Flat, SlotFree, OpenSymbols
    <3>6. Slots!Take(k[1])
      BY <3>4, <3>5 DEF Slots!Take, Cardinality, Slots!Cardinality
    <3>7. QED BY <3>1, <3>6 DEF Slots!Next
  <2>2. CASE SubmitClose
    <3>1. k \in held /\ k[1] \in Symbols /\ held' = held \ {k}
      BY <2>2, <2>a
      DEF SubmitClose, DryInv, IntentFits, OpenSymbols, Keys
    <3>2. OpenSymbols' = OpenSymbols \ {k[1]}
      BY <3>1 DEF OpenSymbols, SymbolsOf, DryInv, OneSidePerSymbol
    <3>3. k[1] \in OpenSymbols
      BY <3>1 DEF OpenSymbols, SymbolsOf
    <3>4. QED BY <3>1, <3>2, <3>3 DEF Slots!Next, Slots!Give
  <2>3. QED
    BY <2>1, <2>2
    DEF Next, EngineStep, Start, ScanNext, ScanEnd, HandleBar, HandleTick,
        SizeRejected, SizeAccepted, SubmitRejected, HandleReleased, HandleNoRelease,
        BackToScan, ReplaceNext, ReplaceEnd, End, ExchangeCloses, LateFill, OtherOpens,
        AccountGoes, AccountReturns,
        brokerVars, OpenSymbols
<1>3. QED BY <1>1, <1>2, DryInvariant, PTL DEF Spec, ImplementsSlots, Slots!Spec

--------------------------------------------------------------------------------
(* The live runs.                                                          *)

\* A decision of a live run never adds to a position.
LEMMA OnEventLive ==
    ASSUME Live, NEW s, NEW a, OnEvent(s, a)
    PROVE  phase' \in {"after", "intent"} /\ intent'.kind # "add"
<1> USE DEF Decide, Intent, NoIntent
<1>1. CASE TooFewBars
  BY <1>1 DEF TooFewBars
<1>2. CASE NoSignal(s, a)
  BY <1>2 DEF NoSignal
<1>3. CASE FirstEntry(s, a)
  BY <1>3 DEF FirstEntry
<1>4. QED
  BY <1>1, <1>2, <1>3 DEF OnEvent, StopHit, TakeProfit, AddEntry

LEMMA LiveStep == Live /\ TypeOK /\ LiveInv /\ [Next]_vars => LiveInv'
<1> SUFFICES ASSUME Live, TypeOK, LiveInv, [Next]_vars PROVE LiveInv'
  OBVIOUS
<1> USE DEF strategyVars, feedVars, brokerVars
<1>1. CASE ScanNext
  BY <1>1, OnEventLive DEF ScanNext, Evaluate, LiveInv
<1>2. CASE \E s \in Symbols : HandleBar(s)
  BY <1>2, OnEventLive DEF HandleBar, LiveInv
<1>3. CASE ReplaceNext
  BY <1>3, OnEventLive DEF ReplaceNext, Evaluate, LiveInv
<1>4. CASE SizeAccepted
  <2>1. trouble = "none" => AccountReads = {held}
    BY DEF AccountReads
  <2>2. trouble = "none" /\ intent.kind = "first" => SlotFree(held)
    BY <1>4, <2>1 DEF SizeAccepted, LiveRefuses
  <2>3. QED BY <1>4, <2>2 DEF SizeAccepted, LiveInv, SlotFree
<1>5. CASE SizeRejected \/ SubmitOpen \/ SubmitClose \/ SubmitRejected
  BY <1>5 DEF SizeRejected, SubmitOpen, SubmitClose, SubmitRejected, AfterSubmit,
              LiveInv, NoIntent
<1>6. CASE \E k \in Keys : ExchangeCloses(k)
  <2>1. PICK k \in Keys : ExchangeCloses(k)
    BY <1>6
  <2>2. held \in SUBSET Keys /\ held' = held \ {k}
    BY <2>1 DEF ExchangeCloses, TypeOK
  <2>3. SymbolsOf(held') \subseteq SymbolsOf(held)
    BY <2>2 DEF SymbolsOf
  <2>4. /\ Cardinality(SymbolsOf(held)) \in Nat
        /\ Cardinality(SymbolsOf(held')) \in Nat
        /\ Cardinality(SymbolsOf(held')) <= Cardinality(SymbolsOf(held))
    BY <2>2, <2>3, SymbolsOfKeys, FS_Subset
  <2>5. SlotFree(held) => SlotFree(held')
    <3> DEFINE m == Cardinality(SymbolsOf(held'))
               n == Cardinality(SymbolsOf(held))
    <3>1. m \in Nat /\ n \in Nat /\ m <= n /\ MaxSymbols \in Nat
      BY <2>4, LimitAssumption
    <3> HIDE DEF m, n
    <3>2. n < MaxSymbols => m < MaxSymbols
      BY <3>1
    <3>3. QED BY <3>2 DEF SlotFree, m, n
  <2>6. QED BY <2>1, <2>5 DEF ExchangeCloses, ExchangeVarsOnly, LiveInv
<1>7. CASE \/ \E k \in Keys : LateFill(k) \/ OtherOpens(k)
           \/ AccountGoes \/ AccountReturns
  BY <1>7 DEF LateFill, OtherOpens, AccountGoes, AccountReturns, ExchangeVarsOnly,
              LiveInv
<1>8. CASE \/ Start \/ ScanEnd \/ HandleReleased \/ HandleNoRelease
           \/ BackToScan \/ ReplaceEnd \/ End
  <2>1. phase' # "submit" /\ intent' = intent
    BY <1>8 DEF Start, ScanEnd, HandleReleased, Released, HandleNoRelease,
                BackToScan, ReplaceEnd, End, TypeOK
  <2>2. QED BY <2>1 DEF LiveInv
<1>9. CASE \E s \in Symbols : HandleTick(s)
  BY <1>9 DEF HandleTick, Decide, LiveInv, NoIntent
<1>10. CASE UNCHANGED vars
  BY <1>10 DEF vars, LiveInv, SlotFree
<1>11. QED
  BY <1>1, <1>2, <1>3, <1>4, <1>5, <1>6, <1>7, <1>8, <1>9, <1>10
  DEF Next, EngineStep

LEMMA LiveInvariant == ASSUME Live PROVE Spec => [](TypeOK /\ LiveInv)
<1>1. Init => LiveInv
  BY DEF Init, LiveInv, NoIntent
<1>2. TypeOK /\ LiveInv /\ [Next]_vars => LiveInv'
  BY LiveStep
<1>3. QED BY <1>1, <1>2, TypeCorrect, PTL DEF Spec

\* The symbols that are new after a step, for the steps that are not an order
\* that fills: none, or the account was in trouble.
LEMMA OthersOpenNothing ==
    ASSUME TypeOK, Next, ~SubmitOpen, trouble' = "none"
    PROVE  SymbolsOf(held') \subseteq OpenSymbols
<1> USE DEF brokerVars
<1>1. CASE SubmitClose
  BY <1>1 DEF SubmitClose, SymbolsOf, OpenSymbols
<1>2. CASE \E k \in Keys : ExchangeCloses(k)
  BY <1>2 DEF ExchangeCloses, SymbolsOf, OpenSymbols
<1>3. CASE \E k \in Keys : LateFill(k) \/ OtherOpens(k)
  BY <1>3 DEF LateFill, OtherOpens
<1>4. CASE UNCHANGED held
  BY <1>4 DEF OpenSymbols
<1>5. QED
  BY <1>1, <1>2, <1>3, <1>4
  DEF Next, EngineStep, Start, ScanNext, ScanEnd, HandleBar, HandleTick,
      SizeRejected, SizeAccepted, SubmitRejected, HandleReleased, HandleNoRelease,
      BackToScan, ReplaceNext, ReplaceEnd, End, AccountGoes, AccountReturns

\* An order that fills takes a free slot or opens no further coin.
LEMMA OpenTakesSlot ==
    ASSUME TypeOK, Live => LiveInv, ~Live => DryInv, SubmitOpen, trouble' = "none",
           NEW s \in SymbolsOf(held') \ OpenSymbols
    PROVE  Cardinality(OpenSymbols) < MaxSymbols
<1>1. trouble = "none" /\ phase = "submit" /\ held' = held \union {intent.key}
  BY DEF SubmitOpen
<1>2. intent.kind \in {"first", "add"} /\ intent.key \notin held
  BY <1>1 DEF SubmitOpen, SymbolsOf, OpenSymbols
<1>3. CASE Live
  BY <1>1, <1>2, <1>3 DEF LiveInv, SlotFree, OpenSymbols
<1>4. CASE ~Live
  BY <1>2, <1>4 DEF DryInv, IntentFits, SlotFree, OpenSymbols
<1>5. QED BY <1>3, <1>4

\* In every run, simulated or live, on the user's coins or on scanned ones, for
\* any positions the account holds at the start and however they close meanwhile:
\* no further coin is opened when max_symbols are open, as long as the account
\* can be read, no order reported rejected fills and nobody else opens a position.
THEOREM NeverBeyondLimit == Spec => NoOpenBeyondLimit
<1>1. TypeOK /\ (Live => LiveInv) /\ (~Live => DryInv) /\ [Next]_vars =>
          [trouble' = "none" =>
               \A s \in SymbolsOf(held') \ OpenSymbols :
                   Cardinality(OpenSymbols) < MaxSymbols]_vars
  BY OthersOpenNothing, OpenTakesSlot
<1>2. CASE Live
  BY <1>1, <1>2, LiveInvariant, PTL DEF Spec, NoOpenBeyondLimit
<1>3. CASE ~Live
  BY <1>1, <1>3, DryInvariant, PTL DEF Spec, NoOpenBeyondLimit
<1>4. QED BY <1>2, <1>3

--------------------------------------------------------------------------------
(* Every run: the watchlist.                                               *)

\* A first entry is under way on a coin that is flat, and every open coin is
\* selected once the run has looked at the account; unless something went wrong.
WatchInv ==
    trouble = "none" =>
        /\ intent.kind = "first" => Flat(intent.key[1], held)
        /\ phase \notin {"start", "ended"} => OpenSymbols \subseteq sel

\* What the strategy decides on a bar of a coin is about that coin, and a first
\* entry is decided on a coin that is flat.
LEMMA OnEventOfCoin ==
    ASSUME NEW s, NEW a, OnEvent(s, a)
    PROVE  /\ phase' \in {"after", "intent"}
           /\ intent' # NoIntent => intent'.key[1] = s
           /\ intent'.kind = "first" => Flat(intent'.key[1], a)
<1> USE DEF Decide, Intent, NoIntent
<1>1. CASE TooFewBars \/ NoSignal(s, a)
  BY <1>1 DEF TooFewBars, NoSignal
<1>2. CASE StopHit(s, a)
  BY <1>2 DEF StopHit
<1>3. CASE TakeProfit(s, a)
  BY <1>3 DEF TakeProfit
<1>4. CASE FirstEntry(s, a)
  BY <1>4 DEF FirstEntry, KeysOf
<1>5. CASE AddEntry(s, a)
  BY <1>5 DEF AddEntry
<1> QED BY <1>1, <1>2, <1>3, <1>4, <1>5 DEF OnEvent

\* The steps that decide on a bar touch neither the watchlist nor the account.
LEMMA WatchDecided ==
    ASSUME WatchInv, trouble = "none", phase \notin {"start", "ended"},
           UNCHANGED <<sel, held>>, NEW s, OnEvent(s, held)
    PROVE  WatchInv'
BY OnEventOfCoin DEF WatchInv, OpenSymbols, Flat

\* An entry that failed takes a flat coin off the watchlist.
LEMMA WatchNotOpened ==
    ASSUME WatchInv, trouble = "none", phase \notin {"start", "ended"},
           NotOpened, held' = held, intent' = NoIntent
    PROVE  WatchInv'
<1>1. OpenSymbols' \subseteq sel'
  BY DEF NotOpened, OpenFailed, Refresh, WatchInv, OpenSymbols, Flat
<1> QED BY <1>1 DEF WatchInv, NoIntent

LEMMA WatchStep ==
    TypeOK /\ (Live => LiveInv) /\ (~Live => DryInv) /\ WatchInv /\ [Next]_vars
        => WatchInv'
<1> SUFFICES ASSUME TypeOK, Live => LiveInv, ~Live => DryInv, WatchInv, [Next]_vars,
                    trouble' = "none"
             PROVE  WatchInv'
  BY DEF WatchInv
<1> USE DEF strategyVars, feedVars, brokerVars
<1>a. held \in SUBSET Keys /\ trouble = "none"
  BY DEF TypeOK, Next, EngineStep, Start, ScanNext, ScanEnd, HandleBar, HandleTick,
         SizeRejected, SizeAccepted, SubmitOpen, SubmitClose, SubmitRejected,
         HandleReleased, HandleNoRelease, BackToScan, ReplaceNext, ReplaceEnd, End,
         ExchangeCloses, LateFill, OtherOpens, AccountGoes, AccountReturns, vars
<1>b. AccountReads = {held}
  BY <1>a DEF AccountReads
<1>1. CASE Start
  BY <1>1, <1>b DEF Start, OnStart, Refresh, WatchInv, OpenSymbols, TypeOK, NoIntent
<1>2. CASE ScanNext \/ (\E s \in Symbols : HandleBar(s)) \/ ReplaceNext
  BY <1>2, <1>a, <1>b, WatchDecided DEF ScanNext, HandleBar, ReplaceNext, Evaluate
<1>3. CASE ScanEnd
  BY <1>3 DEF ScanEnd, WatchInv, OpenSymbols
<1>4. CASE (\E s \in Symbols : HandleTick(s)) \/ SizeAccepted \/ HandleNoRelease
              \/ BackToScan \/ ReplaceEnd
  <2>1. /\ UNCHANGED <<sel, held>> /\ phase \notin {"start", "ended"}
        /\ intent' \in {intent, NoIntent}
    BY <1>4 DEF HandleTick, Decide, SizeAccepted, HandleNoRelease, BackToScan, ReplaceEnd
  <2> QED BY <1>a, <2>1 DEF WatchInv, OpenSymbols, NoIntent, Flat
<1>5. CASE SizeRejected \/ SubmitRejected
  BY <1>5, <1>a, WatchNotOpened DEF SizeRejected, SubmitRejected, AfterSubmit
<1>6. CASE SubmitOpen
  <2>1. intent.kind = "first" \/ intent.key \in held
    BY <1>6 DEF SubmitOpen, LiveInv, DryInv, IntentFits
  <2>2. OpenSymbols' = OpenSymbols \union {intent.key[1]}
    BY <1>6, <1>a DEF SubmitOpen, OpenSymbols, SymbolsOf
  <2>3. OpenSymbols \subseteq sel
    BY <1>6, <1>a DEF SubmitOpen, WatchInv
  <2>4. intent.key \in held => intent.key[1] \in OpenSymbols
    BY DEF OpenSymbols, SymbolsOf
  <2>5. OpenSymbols' \subseteq sel' /\ intent' = NoIntent
    BY <1>6, <1>a, <2>1, <2>2, <2>3, <2>4
    DEF SubmitOpen, Filled, EnsureSelected, Refresh, AfterSubmit, WatchInv
  <2> QED BY <2>5 DEF WatchInv, NoIntent
<1>7. CASE SubmitClose
  <2>1. /\ OpenSymbols' \subseteq OpenSymbols /\ UNCHANGED sel
        /\ intent' = NoIntent /\ phase \notin {"start", "ended"}
    BY <1>7, <1>a DEF SubmitClose, Filled, AfterSubmit, OpenSymbols, SymbolsOf
  <2> QED BY <1>a, <2>1 DEF WatchInv, NoIntent
<1>8. CASE HandleReleased
  <2>1. Released(held) /\ UNCHANGED <<intent, held>> /\ phase = "after"
    BY <1>8, <1>b DEF HandleReleased, Released
  <2>2. OpenSymbols \intersect ReleasedSymbols(held) = {}
    BY DEF OpenSymbols, ReleasedSymbols
  <2>3. OpenSymbols' \subseteq sel'
    BY <1>a, <2>1, <2>2 DEF Released, ReleaseSymbols, Refresh, WatchInv, OpenSymbols
  <2> QED BY <1>a, <2>1, <2>3 DEF WatchInv, Flat
<1>9. CASE \E k \in Keys : ExchangeCloses(k)
  <2>1. /\ SymbolsOf(held') \subseteq SymbolsOf(held)
        /\ UNCHANGED <<phase, intent, sel>>
    BY <1>9 DEF ExchangeCloses, ExchangeVarsOnly, SymbolsOf
  <2> QED BY <1>a, <2>1 DEF WatchInv, OpenSymbols, Flat
<1>10. CASE \/ \E k \in Keys : LateFill(k) \/ OtherOpens(k)
            \/ AccountGoes \/ AccountReturns
  BY <1>10 DEF LateFill, OtherOpens, AccountGoes, AccountReturns
<1>11. CASE End \/ UNCHANGED vars
  BY <1>11, <1>a DEF End, vars, WatchInv, OpenSymbols, Flat
<1> QED
  BY <1>1, <1>2, <1>3, <1>4, <1>5, <1>6, <1>7, <1>8, <1>9, <1>10, <1>11
  DEF Next, EngineStep

\* The invariants of both kinds of run.
LEMMA RunInvariant ==
    Spec => [](TypeOK /\ (Live => LiveInv) /\ (~Live => DryInv) /\ WatchInv)
<1>1. Init => WatchInv
  BY DEF Init, WatchInv, NoIntent
<1>2. TypeOK /\ (Live => LiveInv) /\ (~Live => DryInv) /\ WatchInv /\ [Next]_vars
          => WatchInv'
  BY WatchStep
<1>3. CASE Live
  BY <1>1, <1>2, <1>3, LiveInvariant, PTL DEF Spec
<1>4. CASE ~Live
  BY <1>1, <1>2, <1>4, DryInvariant, PTL DEF Spec
<1> QED BY <1>3, <1>4

\* A scanning run has subscribed what it selected; a run on the user's own
\* symbols keeps these subscribed.
SubsInv ==
    /\ phase = "start" => loop \in {"stream", "fixed"}
    /\ phase = "replace" => loop = "replace"
    /\ loop # "fixed" => sel \subseteq subs
    /\ loop = "fixed" => Given \subseteq subs

\* Subscriptions are never taken back, and what a scanning run adds to its
\* selection it subscribes.
LEMMA SubsStep == TypeOK /\ SubsInv /\ [Next]_vars => SubsInv'
<1> SUFFICES ASSUME TypeOK, SubsInv, [Next]_vars PROVE SubsInv'
  OBVIOUS
<1> USE DEF strategyVars, feedVars, brokerVars
<1>1. CASE Start
  BY <1>1 DEF Start, OnStart, Refresh, SubsInv
<1>2. CASE ScanNext \/ (\E s \in Symbols : HandleBar(s)) \/ ReplaceNext
  <2>1. /\ \E s, a : OnEvent(s, a)
        /\ UNCHANGED <<loop, sel, subs>>
    BY <1>2 DEF ScanNext, HandleBar, ReplaceNext, Evaluate
  <2>2. phase' \in {"after", "intent"}
    BY <2>1, OnEventOfCoin
  <2> QED BY <2>1, <2>2 DEF SubsInv
<1>3. CASE ScanEnd
  BY <1>3 DEF ScanEnd, SubsInv
<1>4. CASE \E s \in Symbols : HandleTick(s)
  BY <1>4 DEF HandleTick, Decide, SubsInv
<1>5. CASE SizeRejected \/ SubmitRejected
  BY <1>5 DEF SizeRejected, SubmitRejected, AfterSubmit, NotOpened, OpenFailed,
              Refresh, SubsInv
<1>6. CASE SubmitOpen \/ SubmitClose
  BY <1>6 DEF SubmitOpen, SubmitClose, Filled, AfterSubmit, EnsureSelected, Refresh,
              SubsInv
<1>7. CASE HandleReleased
  BY <1>7 DEF HandleReleased, Released, ReleaseSymbols, Refresh, SubsInv
<1>8. CASE SizeAccepted \/ HandleNoRelease \/ BackToScan
  BY <1>8 DEF SizeAccepted, HandleNoRelease, BackToScan, SubsInv
<1>9. CASE ReplaceEnd
  BY <1>9 DEF ReplaceEnd, SubsInv
<1>10. CASE \/ \E k \in Keys : ExchangeCloses(k) \/ LateFill(k) \/ OtherOpens(k)
            \/ AccountGoes \/ AccountReturns
  BY <1>10 DEF ExchangeCloses, LateFill, OtherOpens, AccountGoes, AccountReturns,
               ExchangeVarsOnly, SubsInv
<1>11. CASE End \/ UNCHANGED vars
  BY <1>11 DEF End, vars, SubsInv
<1> QED
  BY <1>1, <1>2, <1>3, <1>4, <1>5, <1>6, <1>7, <1>8, <1>9, <1>10, <1>11
  DEF Next, EngineStep

\* In every run, simulated or live, whatever the account holds at the start and
\* whichever positions close on the exchange: whenever the task waits for the
\* feed the coins with an open position are selected, and subscribed unless the
\* run is on the user's own symbols and the coin is none of these; as long as the
\* account can be read, no order reported rejected fills and nobody else opens a
\* position.
THEOREM OpenCoinsAreWatched == Spec => []OpenIsWatched
<1>1. Init => SubsInv
  BY DEF Init, SubsInv
<1>2. TypeOK /\ SubsInv /\ [Next]_vars => SubsInv'
  BY SubsStep
<1>3. TypeOK /\ WatchInv /\ SubsInv => OpenIsWatched
  BY DEF WatchInv, SubsInv, OpenIsWatched, Streamable
<1> QED BY <1>1, <1>2, <1>3, RunInvariant, PTL DEF Spec

\* In every run, simulated or live, a coin leaves the watchlist only when it has
\* no open position, by a release as by a failed first entry, as long as the
\* account can be read, no order reported rejected fills and nobody else opens a
\* position.
THEOREM OnlyFlatCoinsDrop == Spec => DropOnlyWhenFlat
<1>1. TypeOK /\ WatchInv /\ [Next]_vars =>
          [trouble = "none" => \A s \in sel \ sel' : Flat(s, held)]_vars
  <2> SUFFICES ASSUME TypeOK, WatchInv, Next, trouble = "none", NEW s \in sel \ sel'
               PROVE  Flat(s, held)
    BY DEF vars, strategyVars
  <2> USE DEF strategyVars, feedVars, brokerVars
  <2>a. held \in SUBSET Keys /\ AccountReads = {held}
    BY DEF AccountReads, TypeOK
  <2>1. CASE SizeRejected \/ SubmitRejected
    <3>1. intent.kind = "first" /\ s = intent.key[1]
      BY <2>1 DEF SizeRejected, SubmitRejected, NotOpened, OpenFailed, Refresh
    <3>2. QED BY <3>1 DEF WatchInv
  <2>2. CASE HandleReleased
    <3>1. s \in ReleasedSymbols(held)
      BY <2>a, <2>2 DEF HandleReleased, Released, ReleaseSymbols, Refresh
    <3>2. QED BY <3>1 DEF ReleasedSymbols, Flat
  <2>3. CASE Start
    <3>1. s \notin SymbolsOf(held)
      BY <2>3, <2>a DEF Start, OnStart, Refresh
    <3>2. QED BY <3>1 DEF Flat
  <2>4. QED
    BY <2>1, <2>2, <2>3
    DEF Next, EngineStep, ScanNext, ScanEnd, HandleBar, HandleTick, SizeAccepted,
        SubmitOpen, SubmitClose, Filled, EnsureSelected, Refresh, HandleNoRelease,
        BackToScan, ReplaceNext, ReplaceEnd, End, ExchangeCloses, LateFill, OtherOpens,
        AccountGoes, AccountReturns, ExchangeVarsOnly
<1>2. QED BY <1>1, RunInvariant, PTL DEF Spec, DropOnlyWhenFlat

--------------------------------------------------------------------------------
(* The replacement scan sweeps the universe.                               *)

\* A coin that the scan need not try any more.
IsDone(s) == s \in sel \union swept

\* How many places of the universe, from the index i on, the cursor has passed.
BehindCursor(i) ==
    IF i <= cursor THEN cursor - i + 1 ELSE cursor - i + 1 + Len(Universe)

\* Each try passes one place of the universe at least, and what it passed is done
\* with: what the account shows is selected, and a coin leaves the watchlist
\* during the scan only when its own entry failed.
SweepInv ==
    /\ phase = "replace" => loop = "replace"
    /\ phase = "scan" => loop = "scan"
    /\ phase \in {"start", "idle"} => loop \in {"stream", "fixed"}
    /\ loop # "replace" => swept = {}
    /\ loop \in {"stream", "fixed"} => tried = 0
    /\ loop = "replace" =>
          /\ intent # NoIntent => intent.key[1] \in swept
          /\ trouble = "none" =>
                /\ SymbolsOf(acct) \subseteq sel \union swept
                /\ \A i \in DOMAIN Universe :
                      BehindCursor(i) <= tried => IsDone(Universe[i])

\* The remainder of a sum of two places.
LEMMA WrapsOnce ==
    ASSUME NEW n \in Nat \ {0}, NEW x \in Nat, x < n + n
    PROVE  /\ x < n => x % n = x
           /\ x >= n => x % n = x - n
<1>1. CASE x < n
  BY <1>1
<1>2. CASE x >= n
  <2>1. x = n + (x - n) /\ x - n \in 0 .. n - 1
    BY <1>2
  <2> QED BY <1>2, <2>1
<1> QED BY <1>1, <1>2

\* The offset of an index from the cursor.
OffsetOf(i) == IF i <= cursor THEN i - 1 - cursor + Len(Universe) ELSE i - 1 - cursor

\* It leads to the index, and the cursor has passed what it is not.
LEMMA OffsetAt ==
    ASSUME TypeOK, NEW i \in DOMAIN Universe
    PROVE  /\ OffsetOf(i) \in 0 .. Len(Universe) - 1
           /\ At(OffsetOf(i)) = Universe[i]
           /\ BehindCursor(i) = Len(Universe) - OffsetOf(i)
<1>1. PICK n \in Nat \ {0}, c \in Nat :
         n = Len(Universe) /\ c = cursor /\ c < n
  BY DEF TypeOK
<1>2. i \in Nat /\ i >= 1 /\ i <= n
  BY <1>1
<1>3. CASE i <= c
  <2>1. OffsetOf(i) = i - 1 - c + n /\ BehindCursor(i) = c - i + 1
    BY <1>1, <1>3 DEF OffsetOf, BehindCursor
  <2>2. i - 1 + n \in Nat /\ i - 1 + n < n + n /\ i - 1 + n >= n
    BY <1>2
  <2>3. (i - 1 + n) % n = i - 1 + n - n
    BY <2>2, WrapsOnce
  <2>4. c + OffsetOf(i) = i - 1 + n /\ i - 1 + n - n = i - 1 /\ (i - 1) + 1 = i
    BY <1>2, <2>1
  <2>5. At(OffsetOf(i)) = Universe[i]
    BY <1>1, <2>3, <2>4 DEF At
  <2> QED BY <1>1, <1>2, <1>3, <2>1, <2>5
<1>4. CASE i > c
  <2>1. OffsetOf(i) = i - 1 - c /\ BehindCursor(i) = c - i + 1 + n
    BY <1>1, <1>2, <1>4 DEF OffsetOf, BehindCursor
  <2>2. i - 1 \in Nat /\ i - 1 < n + n /\ i - 1 < n
    BY <1>2
  <2>3. (i - 1) % n = i - 1
    BY <2>2, WrapsOnce
  <2>4. c + OffsetOf(i) = i - 1 /\ (i - 1) + 1 = i
    BY <1>2, <2>1
  <2>5. At(OffsetOf(i)) = Universe[i]
    BY <1>1, <2>3, <2>4 DEF At
  <2> QED BY <1>1, <1>2, <1>4, <2>1, <2>5
<1> QED BY <1>1, <1>2, <1>3, <1>4

\* The distances before and after a turn that does not reach the index i.
LEMMA TurnArithmetic ==
    ASSUME NEW n \in Int, NEW c \in Int, NEW o \in Int, NEW i \in Int, NEW q \in Int,
           NEW d \in Int, NEW b \in Int,
           0 <= c, c < n, 0 <= o, o < q, q < n, 1 <= i, i <= n,
           i <= c => q = i - 1 - c + n,
           i > c => q = i - 1 - c,
           c + o + 1 < n => d = c + o + 1,
           c + o + 1 >= n => d = c + o + 1 - n,
           i <= d => b = d - i + 1,
           i > d => b = d - i + 1 + n
    PROVE  b = n - q + o + 1
<1>1. CASE i <= c /\ c + o + 1 < n
  BY <1>1
<1>2. CASE i <= c /\ c + o + 1 >= n
  BY <1>2
<1>3. CASE i > c
  BY <1>3
<1> QED BY <1>1, <1>2, <1>3

\* A turn of the scan passes the places up to the one it tries; of these it
\* leaves out only what is selected or open.
LEMMA TurnPasses ==
    ASSUME TypeOK, NEW o \in Offsets, \A p \in Offsets : o <= p,
           cursor' = NextCursor(o), NEW i \in DOMAIN Universe
    PROVE  \/ BehindCursor(i)' = BehindCursor(i) + o + 1
           \/ Universe[i] = At(o)
           \/ Universe[i] \in sel \union SymbolsOf(acct)
<1>1. PICK n \in Nat \ {0}, c \in Nat, q \in Nat :
         /\ n = Len(Universe) /\ c = cursor /\ q = OffsetOf(i)
         /\ c < n /\ q < n
  <2>1. OffsetOf(i) \in Nat /\ OffsetOf(i) < Len(Universe)
    BY OffsetAt
  <2> QED BY <2>1 DEF TypeOK
<1>2. i \in Nat /\ i >= 1 /\ i <= n /\ o \in Nat /\ o < n
  BY <1>1 DEF Offsets
<1>3. At(q) = Universe[i] /\ BehindCursor(i) = n - q
  BY <1>1, OffsetAt
<1>4. CASE q < o
  <2>1. q \notin Offsets
    BY <1>1, <1>2, <1>4
  <2> QED BY <1>1, <1>3, <2>1 DEF Offsets
<1>5. CASE q = o
  BY <1>3, <1>5
<1>6. CASE q > o
  <2>1. cursor' = (c + o + 1) % n
    BY <1>1 DEF NextCursor
  <2>2. c + o + 1 \in Nat /\ c + o + 1 < n + n
    BY <1>1, <1>2, <1>6
  <2>3. /\ i <= c => q = i - 1 - c + n
        /\ i > c => q = i - 1 - c
    BY <1>1, <1>2 DEF OffsetOf
  <2>4. PICK d \in Nat : d = cursor'
    BY <1>1, <2>1, <2>2
  <2>5. PICK b \in Int :
           /\ b = BehindCursor(i)'
           /\ i <= d => b = d - i + 1
           /\ i > d => b = d - i + 1 + n
    <3>1. /\ i <= d => BehindCursor(i)' = d - i + 1
          /\ i > d => BehindCursor(i)' = d - i + 1 + n
      BY <1>1, <1>2, <2>4 DEF BehindCursor
    <3> QED BY <1>1, <1>2, <2>4, <3>1
  <2>6. /\ c + o + 1 < n => d = c + o + 1
        /\ c + o + 1 >= n => d = c + o + 1 - n
    <3>1. PICK x \in Nat : x = c + o + 1
      BY <2>2
    <3>2. x < n + n /\ d = x % n
      BY <2>1, <2>2, <2>4, <3>1
    <3>3. (x < n => x % n = x) /\ (x >= n => x % n = x - n)
      BY <3>2, WrapsOnce
    <3> QED BY <1>1, <1>2, <2>4, <3>1, <3>2, <3>3
  <2>7. b = n - q + o + 1
    <3>1. /\ n \in Int /\ c \in Int /\ o \in Int /\ i \in Int /\ q \in Int /\ d \in Int
          /\ 0 <= c /\ c < n /\ 0 <= o /\ o < q /\ q < n /\ 1 <= i /\ i <= n
      BY <1>1, <1>2, <1>6
    <3> QED BY <2>3, <2>5, <2>6, <3>1, TurnArithmetic
  <2>8. n - q \in Int /\ n - q + o + 1 = BehindCursor(i) + o + 1
    BY <1>1, <1>2, <1>3
  <2> QED BY <2>5, <2>7, <2>8
<1> QED BY <1>1, <1>2, <1>4, <1>5, <1>6

\* The steps that leave the scan where it is.
LEMMA SweepKept ==
    ASSUME SweepInv, UNCHANGED <<loop, tried, swept, cursor, acct>>,
           phase' \notin {"replace", "scan", "start", "idle"} \/ phase' = phase,
           trouble' = "none" => trouble = "none",
           loop = "replace" =>
              /\ intent' # NoIntent => intent'.key[1] \in swept
              /\ sel \subseteq sel' \union swept
    PROVE  SweepInv'
<1>1. CASE loop # "replace"
  BY <1>1 DEF SweepInv
<1>2. CASE loop = "replace"
  <2>1. /\ loop' = "replace" /\ (intent' # NoIntent => intent'.key[1] \in swept')
        /\ phase' \notin {"scan", "start", "idle"}
    BY <1>2 DEF SweepInv
  <2>2. ASSUME trouble' = "none"
        PROVE  SymbolsOf(acct)' \subseteq sel' \union swept'
    BY <1>2, <2>2 DEF SweepInv
  <2>3. ASSUME trouble' = "none", NEW i \in DOMAIN Universe, BehindCursor(i)' <= tried'
        PROVE  IsDone(Universe[i])'
    <3>1. BehindCursor(i) <= tried
      BY <2>3 DEF BehindCursor
    <3>2. IsDone(Universe[i])
      BY <1>2, <2>3, <3>1 DEF SweepInv
    <3> QED BY <1>2, <3>2 DEF IsDone
  <2> QED BY <2>1, <2>2, <2>3 DEF SweepInv
<1> QED BY <1>1, <1>2

LEMMA SweepStep == TypeOK /\ WatchInv /\ SweepInv /\ [Next]_vars => SweepInv'
<1> SUFFICES ASSUME TypeOK, WatchInv, SweepInv, [Next]_vars PROVE SweepInv'
  OBVIOUS
<1> USE DEF strategyVars, feedVars, brokerVars
<1>a. /\ AccountReads \in SUBSET (SUBSET Keys) /\ held \in SUBSET Keys
      /\ trouble = "none" => AccountReads = {held}
  BY Reads DEF TypeOK, AccountReads
<1>1. CASE Start \/ ScanEnd \/ ReplaceEnd
  BY <1>1 DEF Start, ScanEnd, ReplaceEnd, SweepInv
<1>2. CASE ScanNext
  <2>1. /\ Universe[tried + 1] \in Symbols
        /\ \E a \in AccountReads : OnEvent(Universe[tried + 1], a)
    BY <1>2 DEF ScanNext, Evaluate, TypeOK
  <2>2. phase' \in {"after", "intent"}
    BY <1>a, <2>1, OnEventOfCoin
  <2> QED BY <1>2, <2>2 DEF ScanNext, SweepInv
<1>3. CASE \E s \in Symbols : HandleBar(s) \/ HandleTick(s)
  <2>1. phase' \in {"after", "intent"}
    BY <1>3, <1>a, OnEventOfCoin DEF HandleBar, HandleTick, Decide
  <2>2. /\ UNCHANGED <<loop, tried, swept>> /\ phase = "idle"
    BY <1>3 DEF HandleBar, HandleTick
  <2> QED BY <2>1, <2>2 DEF SweepInv
<1>4. CASE SizeRejected \/ SizeAccepted \/ SubmitRejected
  <2>1. /\ intent # NoIntent
        /\ UNCHANGED <<loop, tried, swept, cursor, acct, trouble>>
        /\ phase' \in {"after", "submit"} /\ intent' \in {NoIntent, intent}
    BY <1>4 DEF SizeRejected, SizeAccepted, SubmitRejected, AfterSubmit, TypeOK
  <2>2. sel \subseteq sel' \union {intent.key[1]}
    BY <1>4 DEF SizeRejected, SizeAccepted, SubmitRejected, NotOpened, OpenFailed, Refresh
  <2>3. loop = "replace" => intent.key[1] \in swept
    BY <2>1 DEF SweepInv
  <2> QED BY <2>1, <2>2, <2>3, SweepKept
<1>5. CASE SubmitOpen \/ SubmitClose
  <2>1. /\ UNCHANGED <<loop, tried, swept, cursor, acct, trouble>>
        /\ phase' = "after" /\ intent' = NoIntent
    BY <1>5 DEF SubmitOpen, SubmitClose, AfterSubmit
  <2>2. sel \subseteq sel'
    BY <1>5 DEF SubmitOpen, SubmitClose, Filled, EnsureSelected, Refresh
  <2> QED BY <2>1, <2>2, SweepKept
<1>6. CASE HandleReleased
  <2>1. PICK a \in AccountReads : Released(a)
    BY <1>6 DEF HandleReleased
  <2>2. /\ loop = "stream" /\ phase = "after" /\ intent' = NoIntent
        /\ UNCHANGED <<tried, swept, cursor, held, trouble>> /\ tried = 0 /\ swept = {}
    BY <1>6, <2>1 DEF HandleReleased, Released, SweepInv, TypeOK
  <2>3. CASE ReleasedSymbols(a) = {}
    BY <2>1, <2>2, <2>3 DEF Released, SweepInv
  <2>4. CASE ReleasedSymbols(a) # {}
    <3>1. /\ acct' \in AccountReads /\ phase' = "replace" /\ loop' = "replace"
          /\ sel' = sel \ ReleasedSymbols(a)
      BY <2>1, <2>4 DEF Released, ReleaseSymbols, Refresh
    <3>2. ASSUME NEW i \in DOMAIN Universe
          PROVE  ~(BehindCursor(i)' <= tried')
      BY <2>2 DEF BehindCursor, TypeOK
    <3>3. ASSUME trouble = "none"
          PROVE  SymbolsOf(acct)' \subseteq sel'
      <4>1. acct' = held /\ a = held
        BY <1>a, <2>1, <3>1, <3>3
      <4>2. SymbolsOf(held) \subseteq sel
        BY <2>2, <3>3 DEF WatchInv, OpenSymbols
      <4> QED BY <3>1, <4>1, <4>2 DEF ReleasedSymbols
    <3> QED BY <2>2, <3>1, <3>2, <3>3 DEF SweepInv
  <2> QED BY <2>3, <2>4
<1>7. CASE HandleNoRelease
  BY <1>7 DEF HandleNoRelease, SweepInv
<1>8. CASE BackToScan
  <2>1. /\ UNCHANGED <<loop, tried, swept, cursor, sel, trouble>> /\ phase' = loop
        /\ acct' \in AccountReads /\ loop \in {"scan", "replace"}
        /\ intent' = NoIntent /\ phase = "after"
    BY <1>8 DEF BackToScan, TypeOK
  <2>2. CASE loop = "scan"
    BY <2>1, <2>2 DEF SweepInv
  <2>3. CASE loop = "replace"
    <3>1. ASSUME trouble = "none"
          PROVE  SymbolsOf(acct)' \subseteq sel'
      BY <1>a, <2>1, <3>1 DEF WatchInv, OpenSymbols
    <3>2. ASSUME trouble = "none", NEW i \in DOMAIN Universe, BehindCursor(i)' <= tried'
          PROVE  IsDone(Universe[i])'
      <4>1. BehindCursor(i) <= tried
        BY <2>1, <3>2 DEF BehindCursor
      <4>2. IsDone(Universe[i])
        BY <2>3, <3>2, <4>1 DEF SweepInv
      <4> QED BY <2>1, <4>2 DEF IsDone
    <3> QED BY <2>1, <2>3, <3>1, <3>2 DEF SweepInv
  <2> QED BY <2>1, <2>2, <2>3
<1>9. CASE ReplaceNext
  <2>1. PICK o \in Offsets :
           /\ \A p \in Offsets : o <= p
           /\ cursor' = NextCursor(o)
           /\ swept' = swept \union {At(o)}
           /\ Evaluate(At(o))
    BY <1>9 DEF ReplaceNext
  <2>2. /\ loop = "replace" /\ UNCHANGED <<loop, acct, sel, trouble>>
        /\ tried' = tried + 1
    BY <1>9 DEF ReplaceNext, CountTried, SweepInv
  <2>3. /\ phase' \in {"after", "intent"}
        /\ intent' # NoIntent => intent'.key[1] = At(o)
    BY <1>a, <2>1, PickType, OnEventOfCoin DEF Evaluate
  <2>4. trouble = "none" => SymbolsOf(acct)' \subseteq sel' \union swept'
    BY <2>1, <2>2 DEF SweepInv
  <2>5. ASSUME trouble = "none", NEW i \in DOMAIN Universe, BehindCursor(i)' <= tried'
        PROVE  IsDone(Universe[i])'
    <3>1. CASE BehindCursor(i)' = BehindCursor(i) + o + 1
      <4>1. BehindCursor(i) \in Int /\ o \in Nat /\ tried \in Int
        BY DEF BehindCursor, Offsets, TypeOK
      <4>2. BehindCursor(i) <= tried
        BY <2>2, <2>5, <3>1, <4>1
      <4>3. IsDone(Universe[i])
        BY <2>2, <2>5, <4>2 DEF SweepInv
      <4> QED BY <2>1, <2>2, <4>3 DEF IsDone
    <3>2. CASE Universe[i] = At(o)
      BY <2>1, <3>2 DEF IsDone
    <3>3. CASE Universe[i] \in sel \union SymbolsOf(acct)
      BY <2>1, <2>2, <2>5, <3>3 DEF IsDone, SweepInv
    <3> QED BY <2>1, <3>1, <3>2, <3>3, TurnPasses
  <2> QED BY <2>1, <2>2, <2>3, <2>4, <2>5 DEF SweepInv
<1>10. CASE End \/ UNCHANGED vars
  BY <1>10, SweepKept DEF End, vars, SweepInv
<1>11. CASE \/ \E k \in Keys : ExchangeCloses(k) \/ LateFill(k) \/ OtherOpens(k)
            \/ AccountGoes \/ AccountReturns
  <2>1. /\ UNCHANGED <<phase, loop, intent, acct, tried, swept, cursor, sel>>
        /\ trouble' = "none" => trouble = "none"
    BY <1>11
    DEF ExchangeCloses, LateFill, OtherOpens, AccountGoes, AccountReturns, ExchangeVarsOnly
  <2> QED BY <2>1, SweepKept DEF SweepInv
<1> QED
  BY <1>1, <1>2, <1>3, <1>4, <1>5, <1>6, <1>7, <1>8, <1>9, <1>10, <1>11
  DEF Next, EngineStep

\* In every run, simulated or live, a replacement scan that ends with a free slot
\* has tried every coin of the universe that is neither selected nor open,
\* wherever the cursor stood, whatever was skipped, tried, refused or opened on
\* the way, whichever positions close on the exchange, and even when the cap on
\* the tries ended it; as long as the account can be read, no order reported
\* rejected fills and nobody else opens a position.
THEOREM ScanSweeps == Spec => ReplacementSweeps
<1>1. TypeOK /\ SweepInv /\ [Next]_vars =>
          [ (trouble = "none" /\ phase = "replace" /\ phase' = "idle" /\ SlotFree(acct)) =>
                \A i \in DOMAIN Universe :
                    Universe[i] \in sel \union SymbolsOf(acct) \union swept ]_vars
  <2> SUFFICES ASSUME TypeOK, SweepInv, Next, trouble = "none", phase = "replace",
                      phase' = "idle", SlotFree(acct), NEW i \in DOMAIN Universe
               PROVE  Universe[i] \in sel \union SymbolsOf(acct) \union swept
    OBVIOUS
  <2>1. ~ReplaceGoesOn
    <3>1. ASSUME ReplaceNext PROVE FALSE
      <4>1. PICK o \in Offsets : Evaluate(At(o))
        BY <3>1 DEF ReplaceNext
      <4>2. AccountReads \in SUBSET (SUBSET Keys) /\ At(o) \in Symbols
        BY Reads, PickType DEF TypeOK
      <4> QED BY <4>1, <4>2, OnEventOfCoin DEF Evaluate
    <3> QED
      BY <3>1
      DEF Next, EngineStep, Start, ScanNext, ScanEnd, HandleBar, HandleTick,
          SizeRejected, SizeAccepted, SubmitOpen, SubmitClose, SubmitRejected,
          HandleReleased, Released, HandleNoRelease, BackToScan, ReplaceEnd, End,
          ExchangeCloses, LateFill, OtherOpens, AccountGoes, AccountReturns, ExchangeVarsOnly
  <2>2. CASE Offsets = {}
    <3>1. OffsetOf(i) \notin Offsets
      BY <2>2
    <3>2. OffsetOf(i) \in 0 .. Len(Universe) - 1 /\ At(OffsetOf(i)) = Universe[i]
      BY OffsetAt
    <3> QED BY <3>1, <3>2 DEF Offsets
  <2>3. CASE tried = Len(Universe)
    <3>1. BehindCursor(i) <= tried
      BY <2>3, OffsetAt
    <3> QED BY <3>1 DEF SweepInv, IsDone
  <2> QED BY <2>1, <2>2, <2>3 DEF ReplaceGoesOn, TypeOK
<1>2. Init => SweepInv
  BY DEF Init, SweepInv
<1>3. TypeOK /\ WatchInv /\ SweepInv /\ [Next]_vars => SweepInv'
  BY SweepStep
<1> QED BY <1>1, <1>2, <1>3, RunInvariant, PTL DEF Spec, ReplacementSweeps

--------------------------------------------------------------------------------
(* Runs without trouble, live ones as well, are a pool of slots.           *)

\* An order that fills takes a free slot for a flat coin or adds to a position.
LEMMA FillTakesSlot ==
    ASSUME TypeOK, Live => LiveInv, ~Live => DryInv, WatchInv, SubmitOpen,
           trouble = "none"
    PROVE  /\ intent.key \in Keys /\ held' = held \union {intent.key}
           /\ \/ Flat(intent.key[1], held) /\ SlotFree(held)
              \/ held' = held
<1>1. /\ phase = "submit" /\ intent.kind \in {"first", "add"}
      /\ held' = held \union {intent.key}
  BY DEF SubmitOpen
<1>2. intent.key \in Keys
  BY <1>1 DEF TypeOK, NoIntent
<1>3. CASE intent.kind = "first"
  <2>1. Flat(intent.key[1], held)
    BY <1>3 DEF WatchInv
  <2>2. SlotFree(held)
    BY <1>1, <1>3 DEF LiveInv, DryInv, IntentFits
  <2> QED BY <1>1, <1>2, <2>1, <2>2
<1>4. CASE intent.kind = "add"
  <2>1. intent.key \in held
    BY <1>4 DEF LiveInv, DryInv, IntentFits
  <2> QED BY <1>1, <1>2, <2>1
<1> QED BY <1>1, <1>3, <1>4

\* Any other step closes one position at most, until there is trouble.
LEMMA OthersClose ==
    ASSUME TypeOK, [Next]_vars, ~SubmitOpen, trouble' = "none"
    PROVE  held' = held \/ \E k \in Keys : k \in held /\ held' = held \ {k}
<1> USE DEF brokerVars
<1>1. CASE SubmitClose
  <2>1. intent.key \in Keys
    BY <1>1 DEF SubmitClose, TypeOK, NoIntent
  <2> QED BY <1>1, <2>1 DEF SubmitClose
<1>2. CASE \E k \in Keys : ExchangeCloses(k)
  BY <1>2 DEF ExchangeCloses
<1>3. CASE \E k \in Keys : LateFill(k) \/ OtherOpens(k)
  BY <1>3 DEF LateFill, OtherOpens
<1>4. CASE UNCHANGED held
  BY <1>4
<1> QED
  BY <1>1, <1>2, <1>3, <1>4
  DEF Next, EngineStep, Start, ScanNext, ScanEnd, HandleBar, HandleTick,
      SizeRejected, SizeAccepted, SubmitRejected, HandleReleased, HandleNoRelease,
      BackToScan, ReplaceNext, ReplaceEnd, End, AccountGoes, AccountReturns, vars

\* Trouble is never over.
LEMMA TroubleStays ==
    ASSUME TypeOK, [Next]_vars, trouble' = "none"
    PROVE  trouble = "none"
BY DEF TypeOK, Next, EngineStep, Start, ScanNext, ScanEnd, HandleBar, HandleTick,
       SizeRejected, SizeAccepted, SubmitOpen, SubmitClose, SubmitRejected,
       HandleReleased, HandleNoRelease, BackToScan, ReplaceNext, ReplaceEnd, End,
       ExchangeCloses, LateFill, OtherOpens, AccountGoes, AccountReturns,
       ExchangeVarsOnly,
       brokerVars, vars

\* The coins open after a step: one more, which took a free slot, one less, or the
\* same.
LEMMA PoolStep ==
    ASSUME TypeOK, Live => LiveInv, ~Live => DryInv, WatchInv, [Next]_vars,
           trouble' = "none"
    PROVE  [Slots!Next]_OpenSymbols
<1>a. held \in SUBSET Keys /\ trouble = "none"
  BY TroubleStays DEF TypeOK
<1>1. CASE SubmitOpen
  <2> DEFINE k == intent.key
  <2>1. /\ k \in Keys /\ held' = held \union {k}
        /\ (Flat(k[1], held) /\ SlotFree(held)) \/ held' = held
    BY <1>a, <1>1, FillTakesSlot
  <2>2. CASE held' = held
    BY <2>2 DEF OpenSymbols
  <2>3. CASE Flat(k[1], held) /\ SlotFree(held)
    <3>1. OpenSymbols' = OpenSymbols \union {k[1]}
      BY <1>a, <2>1, <2>3, SlotTaken DEF OpenSymbols
    <3>2. k[1] \notin OpenSymbols /\ Cardinality(OpenSymbols) < MaxSymbols
      BY <2>3 DEF Flat, SlotFree, OpenSymbols
    <3>3. k[1] \in Symbols
      BY <2>1 DEF Keys
    <3>4. Slots!Take(k[1])
      BY <3>1, <3>2 DEF Slots!Take, Cardinality, Slots!Cardinality
    <3> QED BY <3>3, <3>4 DEF Slots!Next
  <2> QED BY <2>1, <2>2, <2>3
<1>2. CASE ~SubmitOpen
  <2>1. CASE held' = held
    BY <2>1 DEF OpenSymbols
  <2>2. ASSUME NEW k \in Keys, k \in held, held' = held \ {k}
        PROVE  [Slots!Next]_OpenSymbols
    <3>1. k[1] \in Symbols /\ k[1] \in OpenSymbols
      BY <2>2 DEF Keys, OpenSymbols, SymbolsOf
    <3>2. OpenSymbols' = OpenSymbols \/ OpenSymbols' = OpenSymbols \ {k[1]}
      BY <2>2 DEF OpenSymbols, SymbolsOf
    <3> QED BY <3>1, <3>2 DEF Slots!Next, Slots!Give
  <2> QED BY <1>2, <2>1, <2>2, OthersClose
<1> QED BY <1>1, <1>2

\* In every run, simulated or live, that has the account flat at the start: until
\* the account cannot be read, an order reported rejected fills or somebody else
\* opens a position, the engine and the exchange together implement the pool of
\* max_symbols slots.
THEOREM RunsImplementSlots ==
    Spec /\ OpenSymbols = {} /\ [](trouble = "none") => ImplementsSlots
<1>1. OpenSymbols = {} => Slots!Init
  BY DEF Slots!Init
<1>2. TypeOK /\ (Live => LiveInv) /\ (~Live => DryInv) /\ WatchInv /\ [Next]_vars
          /\ (trouble = "none")' => [Slots!Next]_OpenSymbols
  BY PoolStep
<1> QED BY <1>1, <1>2, RunInvariant, PTL DEF Spec, ImplementsSlots, Slots!Spec

\* A run, simulated or live, that starts with no more than max_symbols coins open
\* never has more, until the account cannot be read, an order reported rejected
\* fills or somebody else opens a position.
THEOREM StaysWithinLimit == Spec /\ SlotBound => [](trouble = "none" => SlotBound)
<1>1. TypeOK /\ (Live => LiveInv) /\ (~Live => DryInv) /\ WatchInv /\ [Next]_vars
          /\ (trouble = "none" => SlotBound) => (trouble = "none" => SlotBound)'
  <2> SUFFICES ASSUME TypeOK, Live => LiveInv, ~Live => DryInv, WatchInv, [Next]_vars,
                      trouble = "none" => SlotBound, trouble' = "none"
               PROVE  SlotBound'
    OBVIOUS
  <2>1. held \in SUBSET Keys /\ trouble = "none" /\ SlotBound
    BY TroubleStays DEF TypeOK
  <2>2. CASE held' = held
    BY <2>1, <2>2 DEF SlotBound, OpenSymbols
  <2>3. CASE SubmitOpen
    BY <2>1, <2>2, <2>3, FillTakesSlot, SlotTaken DEF SlotBound, OpenSymbols
  <2>4. ASSUME NEW k \in Keys, k \in held, held' = held \ {k}
        PROVE  SlotBound'
    BY <2>1, <2>4, SlotGiven DEF SlotBound, OpenSymbols
  <2> QED BY <2>2, <2>3, <2>4, OthersClose
<1> QED BY <1>1, RunInvariant, PTL DEF Spec

\* A run, simulated or live, that starts without both sides of a coin open never
\* has them, until the account cannot be read, an order reported rejected fills or
\* somebody else opens a position; the hedging setting makes no difference.
THEOREM StaysOneSided ==
    Spec /\ OneSidePerSymbol => [](trouble = "none" => OneSidePerSymbol)
<1>1. TypeOK /\ (Live => LiveInv) /\ (~Live => DryInv) /\ WatchInv /\ [Next]_vars
          /\ (trouble = "none" => OneSidePerSymbol)
          => (trouble = "none" => OneSidePerSymbol)'
  <2> SUFFICES ASSUME TypeOK, Live => LiveInv, ~Live => DryInv, WatchInv, [Next]_vars,
                      trouble = "none" => OneSidePerSymbol, trouble' = "none"
               PROVE  OneSidePerSymbol'
    OBVIOUS
  <2>1. held \in SUBSET Keys /\ trouble = "none" /\ OneSidePerSymbol
    BY TroubleStays DEF TypeOK
  <2>2. CASE held' = held
    BY <2>1, <2>2 DEF OneSidePerSymbol
  <2>3. CASE SubmitOpen
    BY <2>1, <2>2, <2>3, FillTakesSlot DEF OneSidePerSymbol, Flat, SymbolsOf
  <2>4. ASSUME NEW k \in Keys, k \in held, held' = held \ {k}
        PROVE  OneSidePerSymbol'
    BY <2>1, <2>4 DEF OneSidePerSymbol
  <2> QED BY <2>2, <2>3, <2>4, OthersClose
<1> QED BY <1>1, RunInvariant, PTL DEF Spec
================================================================================
