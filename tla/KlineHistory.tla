------------------------------ MODULE KlineHistory ------------------------------
(***************************************************************************)
(* The candles a scan gets from the REST client: get_recent_klines, which  *)
(* widens its window until it has enough candles, over _get_klines_range,  *)
(* which pages backwards, under Engine._fetch_history, which asks again    *)
(* for more.  A candle is its open time, in periods of the interval;       *)
(* periods without a trade have none.                                      *)
(***************************************************************************)
EXTENDS Integers, FiniteSetsExt

CONSTANTS
    PageLimit,    \* candles in one answer, 200
    MaxPages,     \* pages of one request, 500
    WindowExtra,  \* least margin of the first window, 50
    WindowSlack   \* periods each window is longer, 5

ASSUME PageAssumption == PageLimit \in Nat \ {0} /\ MaxPages \in Nat \ {0}
ASSUME WindowAssumption == WindowExtra \in Nat /\ WindowSlack \in Nat

\* The n latest of the candles C.
Newest(n, C) == {t \in C : Cardinality({u \in C : u > t}) < n}

\* Mutant: the next page leaves out the period before the oldest candle.
PagesSkipping(C, start, end) ==
    LET back[n \in 1 .. MaxPages] ==
          [e \in Int |->
             LET batch == Newest(PageLimit, {t \in C : start <= t /\ t <= e}) IN
             IF n = 1 \/ Cardinality(batch) < PageLimit \/ Min(batch) <= start
             THEN batch
             ELSE batch \union back[n - 1][Min(batch) - 2]]
    IN back[MaxPages][end]
\* _get_klines_range: pages of the candles before the last one's oldest, until
\* one is short, or reaches the start, or is the last that may be asked for; up to
\* n of them, the first one ending at e.
Pages(C, start, end) ==
    LET back[n \in 1 .. MaxPages] ==
          [e \in Int |->
             LET batch == Newest(PageLimit, {t \in C : start <= t /\ t <= e}) IN
             IF n = 1 \/ Cardinality(batch) < PageLimit \/ Min(batch) <= start
             THEN batch
             ELSE batch \union back[n - 1][Min(batch) - 1]]
    IN back[MaxPages][end]

NumWindows == 6
FirstSpan(count) == IF 2 * count >= count + WindowExtra THEN 2 * count ELSE count + WindowExtra

\* The candles of the i-th window; each is twice as long as the one before.
Window(C, now, count, i) ==
    Pages(C, now - (FirstSpan(count) * 2^(i - 1) + WindowSlack), now)

\* The i-th window is the last one if it holds count candles or, in spite of its
\* length, no more than the one before.
EndsWidening(C, now, count, i) ==
    LET n == Cardinality(Window(C, now, count, i)) IN
    \/ n >= count
    \/ i > 1 /\ n = Cardinality(Window(C, now, count, i - 1))
    \/ i = NumWindows

\* The latest count candles of the last window.
Widened(C, now, count) ==
    LET last == Min({i \in 1 .. NumWindows : EndsWidening(C, now, count, i)})
    IN Newest(count, Window(C, now, count, last))

\* get_recent_klines: one answer if the count fits in it and there are as many.
RecentKlines(C, now, count) ==
    LET single == Newest(count, C) IN
    IF count <= PageLimit /\ Cardinality(single) = count
    THEN single
    ELSE Widened(C, now, count)

\* _fetch_history asks for count candles, then for four and six times as many;
\* each request may fail, which returns what the one before had brought.
Request(count, attempt) == IF attempt = 0 THEN count ELSE 2 * count * (attempt + 1)
FetchResults(C, now, count) ==
    LET got(attempt) == RecentKlines(C, now, Request(count, attempt))
        short(attempt) == Cardinality(got(attempt)) < count
    IN {{}, got(0)}
       \union (IF short(0) THEN {got(1)} ELSE {})
       \union (IF short(0) /\ short(1) THEN {got(2)} ELSE {})
================================================================================
