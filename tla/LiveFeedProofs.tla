----------------------------- MODULE LiveFeedProofs -----------------------------
(***************************************************************************)
(* Proofs about LiveFeed: type correctness, that every candle is closed at *)
(* most once, in order and with its final value, that the history a        *)
(* strategy reads is in order, whatever connections are lost, what is      *)
(* subscribed when and which coins are scanned, and that what a scan       *)
(* fetches (KlineHistory) are the latest candles there are.                *)
(***************************************************************************)
EXTENDS LiveFeed, SequenceTheorems, FiniteSetTheorems, FunctionTheorems,
        WellFoundedInduction, TLAPS

--------------------------------------------------------------------------------
(* What the part of a list that is kept (Selection) has in common with the *)
(* list: the elements and their order.  First the ranks of the places.     *)

\* The places of a list are finitely many, and so are those up to one of them.
LEMMA PlacesFinite ==
    ASSUME NEW m \in Nat, NEW P \in SUBSET (1 .. m)
    PROVE  /\ IsFiniteSet(P) /\ Cardinality(P) \in Nat
           /\ \A i \in P : /\ IsFiniteSet({h \in P : h <= i})
                           /\ Rank(P, i) \in 1 .. Cardinality(P)
<1>1. IsFiniteSet(1 .. m)
  BY FS_Interval
<1>2. IsFiniteSet(P) /\ Cardinality(P) \in Nat
  BY <1>1, FS_Subset, FS_CardinalityType
<1>3. ASSUME NEW i \in P
      PROVE  /\ IsFiniteSet({h \in P : h <= i})
             /\ Rank(P, i) \in 1 .. Cardinality(P)
  <2> DEFINE upTo == {h \in P : h <= i}
  <2>1. upTo \in SUBSET P /\ i \in upTo
    OBVIOUS
  <2> HIDE DEF upTo
  <2>2. IsFiniteSet(upTo) /\ Cardinality(upTo) <= Cardinality(P)
    BY <1>2, <2>1, FS_Subset
  <2>3. Cardinality(upTo) \in Nat /\ Cardinality(upTo) # 0
    BY <2>1, <2>2, FS_CardinalityType, FS_EmptySet
  <2>4. Cardinality(upTo) \in 1 .. Cardinality(P)
    BY <1>2, <2>2, <2>3
  <2> QED BY <2>2, <2>4 DEF upTo, Rank
<1> QED BY <1>2, <1>3

\* A later place has a higher rank.
LEMMA RankGrows ==
    ASSUME NEW m \in Nat, NEW P \in SUBSET (1 .. m),
           NEW i \in P, NEW j \in P, i < j
    PROVE  Rank(P, i) < Rank(P, j)
<1> DEFINE low == {h \in P : h <= i}
           high == {h \in P : h <= j}
<1>1. low \in SUBSET high /\ j \in high /\ j \notin low
  <2>1. i \in Nat /\ j \in Nat
    OBVIOUS
  <2>2. \A h \in P : h <= i => h <= j
    <3>1. ASSUME NEW h \in P, h <= i
          PROVE  h <= j
      <4>1. h \in Nat
        OBVIOUS
      <4> QED BY <2>1, <3>1, <4>1
    <3> QED BY <3>1
  <2>3. j <= j /\ ~(j <= i)
    BY <2>1
  <2> QED BY <2>2, <2>3
<1>2. IsFiniteSet(low) /\ IsFiniteSet(high)
  BY PlacesFinite
<1>3. Rank(P, i) = Cardinality(low) /\ Rank(P, j) = Cardinality(high)
  BY DEF Rank
<1> HIDE DEF low, high
<1>4. Cardinality(low) <= Cardinality(high) /\ Cardinality(low) # Cardinality(high)
  BY <1>1, <1>2, FS_Subset
<1>5. Cardinality(low) \in Nat /\ Cardinality(high) \in Nat
  BY <1>2, FS_CardinalityType
<1> QED BY <1>3, <1>4, <1>5

\* Every rank is that of one place.
LEMMA RankOfOne ==
    ASSUME NEW m \in Nat, NEW P \in SUBSET (1 .. m)
    PROVE  /\ \A i, j \in P : Rank(P, i) = Rank(P, j) => i = j
           /\ \A n \in 1 .. Cardinality(P) : \E i \in P : Rank(P, i) = n
<1>1. \A i, j \in P : Rank(P, i) = Rank(P, j) => i = j
  <2>1. ASSUME NEW i \in P, NEW j \in P, i # j
        PROVE  Rank(P, i) # Rank(P, j)
    <3>1. Cardinality(P) \in Nat
      BY PlacesFinite
    <3>2. Rank(P, i) \in 1 .. Cardinality(P) /\ Rank(P, j) \in 1 .. Cardinality(P)
      BY PlacesFinite
    <3>3. i \in Nat /\ j \in Nat /\ Rank(P, i) \in Nat /\ Rank(P, j) \in Nat
      BY <3>1, <3>2
    <3>4. CASE i < j
      <4>1. Rank(P, i) < Rank(P, j)
        BY <3>4, RankGrows
      <4> QED BY <3>3, <4>1
    <3>5. CASE j < i
      <4>1. Rank(P, j) < Rank(P, i)
        BY <3>5, RankGrows
      <4> QED BY <3>3, <4>1
    <3> QED BY <2>1, <3>3, <3>4, <3>5
  <2> QED BY <2>1
<1> DEFINE ranks == 1 .. Cardinality(P)
           f == [i \in P |-> Rank(P, i)]
<1>2. IsFiniteSet(P) /\ Cardinality(P) \in Nat
  BY PlacesFinite
<1>3. IsFiniteSet(ranks) /\ Cardinality(ranks) = Cardinality(P)
  BY <1>2, FS_Interval
<1>4. f \in [P -> ranks] /\ \A i \in P : f[i] = Rank(P, i)
  BY PlacesFinite
<1> HIDE DEF f, ranks
<1>5. f \in Injection(P, ranks)
  BY <1>1, <1>4 DEF Injection, IsInjective
<1>6. f \in Surjection(P, ranks)
  BY <1>3, <1>5, FS_Injection
<1>7. \A n \in ranks : \E i \in P : f[i] = n
  BY <1>6 DEF Surjection
<1> QED BY <1>1, <1>4, <1>7 DEF ranks

--------------------------------------------------------------------------------
(* The list at its places.                                                 *)

\* The list that is kept holds what the places hold, each place once, in order.
LEMMA AtPlacesOrder ==
    ASSUME NEW S, NEW s \in Seq(S), NEW P \in SUBSET (1 .. Len(s))
    PROVE  /\ AtPlaces(s, P) \in Seq(S) /\ Len(AtPlaces(s, P)) = Cardinality(P)
           /\ \E place \in [1 .. Cardinality(P) -> P] :
                 /\ \A n \in 1 .. Cardinality(P) : AtPlaces(s, P)[n] = s[place[n]]
                 /\ \A i \in P : \E n \in 1 .. Cardinality(P) : place[n] = i
                 /\ \A n, k \in 1 .. Cardinality(P) : n < k => place[n] < place[k]
<1>1. PICK m \in Nat : m = Len(s)
  BY LenProperties
<1>2. Cardinality(P) \in Nat
  BY <1>1, PlacesFinite
<1> DEFINE ranks == 1 .. Cardinality(P)
           place == [n \in ranks |-> CHOOSE i \in P : Rank(P, i) = n]
<1>3. \A n \in ranks : place[n] \in P /\ Rank(P, place[n]) = n
  BY <1>1, RankOfOne
<1>4. AtPlaces(s, P) = [n \in ranks |-> s[place[n]]]
  BY DEF AtPlaces
<1>5. place \in [ranks -> P]
  BY <1>3
<1> HIDE DEF place
<1>6. \A i \in P : s[i] \in S
  BY ElementOfSeq
<1>7. AtPlaces(s, P) \in Seq(S) /\ Len(AtPlaces(s, P)) = Cardinality(P)
  <2>1. [n \in ranks |-> s[place[n]]] \in [ranks -> S]
    BY <1>3, <1>6
  <2> QED BY <1>2, <1>4, <2>1, SeqDef
<1>8. \A i \in P : \E n \in ranks : place[n] = i
  <2>1. ASSUME NEW i \in P
        PROVE  Rank(P, i) \in ranks /\ place[Rank(P, i)] = i
    <3>1. Rank(P, i) \in ranks
      BY <1>1, PlacesFinite
    <3>2. place[Rank(P, i)] \in P /\ Rank(P, place[Rank(P, i)]) = Rank(P, i)
      BY <1>3, <3>1
    <3> QED BY <1>1, <3>1, <3>2, RankOfOne
  <2> QED BY <2>1
<1>9. ASSUME NEW n \in ranks, NEW k \in ranks, n < k
      PROVE  place[n] < place[k]
  <2>1. /\ place[n] \in P /\ Rank(P, place[n]) = n
        /\ place[k] \in P /\ Rank(P, place[k]) = k
    BY <1>3
  <2>2. place[n] \in Nat /\ place[k] \in Nat /\ n \in Nat /\ k \in Nat
    <3>1. \A h \in P : h \in Nat
      BY <1>1
    <3>2. n \in Nat /\ k \in Nat
      BY <1>2
    <3> QED BY <2>1, <3>1, <3>2
  <2>3. CASE place[k] < place[n]
    <3>1. k < n
      BY <1>1, <2>1, <2>3, RankGrows
    <3> QED BY <1>9, <2>2, <3>1
  <2>4. CASE place[k] = place[n]
    BY <1>9, <2>1, <2>2, <2>4
  <2> QED BY <2>2, <2>3, <2>4
<1> QED BY <1>4, <1>5, <1>7, <1>8, <1>9

--------------------------------------------------------------------------------
LEMMA ElementOf ==
    ASSUME NEW S, NEW q \in Seq(S), NEW i \in 1 .. Len(q)
    PROVE  q[i] \in S
OBVIOUS

\* What the invariants compare are integers.
LEMMA TimesAreIntegers ==
    ASSUME TypeOK
    PROVE  /\ now \in Int
           /\ \A i \in 1 .. Len(inbox) :
                 inbox[i].s \in Symbols /\ inbox[i].c.t \in Int
           /\ \A s \in Symbols : progress[s].t \in Int
           /\ \A s \in Symbols : \A i \in 1 .. Len(closed[s]) : closed[s][i].t \in Int
<1>1. \A c \in Candles : c.t \in Int
  BY DEF Candles
<1>2. \A q \in Pushes : q.s \in Symbols /\ q.c \in Candles
  BY DEF Pushes
<1>3. \A i \in 1 .. Len(inbox) : inbox[i] \in Pushes
  BY ElementOf DEF TypeOK
<1>4. \A s \in Symbols : progress[s] \in Candles /\ closed[s] \in Seq(Candles)
  BY DEF TypeOK
<1>5. \A s \in Symbols : \A i \in 1 .. Len(closed[s]) : closed[s][i] \in Candles
  BY <1>4, ElementOf
<1>6. now \in Int
  BY DEF TypeOK
<1>7. QED BY <1>1, <1>2, <1>3, <1>4, <1>5, <1>6

LEMMA NoCandleType == NoCandle \in Candles /\ NoCandle.t = -1
BY DEF NoCandle, Candle, Candles

\* The candle a trade leaves behind belongs to the current period.
LEMMA TradeType ==
    ASSUME TypeOK, NEW s \in Symbols, Trade(s)
    PROVE  /\ candles' \in [Symbols -> Seq(Candles)]
           /\ inbox' \in Seq(Pushes)
           /\ \/ inbox' = inbox
              \/ \E q \in Pushes :
                    q.s = s /\ q.c.t = now /\ inbox' = Append(inbox, q)
<1> DEFINE open == candles[s] # <<>> /\ Last(candles[s]).t = now
           c == IF open THEN Candle(now, Last(candles[s]).v + 1) ELSE Candle(now, 1)
           q == [s |-> s, c |-> c]
<1>1. /\ candles' = [candles EXCEPT ![s] = Append(IF open THEN Front(@) ELSE @, c)]
      /\ inbox' = inbox \/ inbox' = Append(inbox, q)
  BY DEF Trade, Deliver
<1>2. candles[s] \in Seq(Candles) /\ now \in Nat
  BY DEF TypeOK
<1>3. open => Last(candles[s]) \in Candles /\ Front(candles[s]) \in Seq(Candles)
  BY <1>2 DEF Last, Front
<1>4. c \in Candles /\ c.t = now
  BY <1>2, <1>3 DEF Candle, Candles
<1> HIDE DEF c, open
<1>5. (IF open THEN Front(candles[s]) ELSE candles[s]) \in Seq(Candles)
  BY <1>2, <1>3
<1>6. Append(IF open THEN Front(candles[s]) ELSE candles[s], c) \in Seq(Candles)
  BY <1>4, <1>5
<1>7. candles' \in [Symbols -> Seq(Candles)]
  BY <1>1, <1>6 DEF TypeOK
<1>8. q \in Pushes /\ q.s = s /\ q.c.t = now
  BY <1>4 DEF Pushes
<1> HIDE DEF q
<1>9. inbox' \in Seq(Pushes)
  <2>1. inbox \in Seq(Pushes)
    BY DEF TypeOK
  <2>2. Append(inbox, q) \in Seq(Pushes)
    BY <1>8, <2>1, AppendProperties
  <2>3. QED BY <1>1, <2>1, <2>2
<1>10. QED BY <1>1, <1>7, <1>8, <1>9

\* The message the pump takes and what is left.
LEMMA PumpTakes ==
    ASSUME TypeOK, Pump
    PROVE  LET s == Head(inbox).s
               c == Head(inbox).c
           IN /\ Len(inbox) \in Nat \ {0} /\ Head(inbox) = inbox[1]
              /\ s \in Symbols /\ c \in Candles
              /\ inbox' = Tail(inbox) /\ inbox' \in Seq(Pushes)
              /\ Len(inbox') = Len(inbox) - 1
              /\ \A i \in 1 .. Len(inbox') : inbox'[i] = inbox[i + 1]
<1>1. inbox \in Seq(Pushes) /\ inbox # <<>> /\ inbox' = Tail(inbox)
  BY DEF TypeOK, Pump
<1>2. Head(inbox) \in Pushes /\ Head(inbox) = inbox[1]
  BY <1>1
<1>3. Head(inbox).s \in Symbols /\ Head(inbox).c \in Candles
  BY <1>2 DEF Pushes
<1>4. /\ Len(inbox) \in Nat \ {0} /\ inbox' \in Seq(Pushes)
      /\ Len(inbox') = Len(inbox) - 1
      /\ \A i \in 1 .. Len(inbox') : inbox'[i] = inbox[i + 1]
  BY <1>1, HeadTailProperties
<1>5. QED BY <1>1, <1>2, <1>3, <1>4

LEMMA PumpType ==
    ASSUME TypeOK, Pump
    PROVE  TypeOK'
<1> DEFINE s == Head(inbox).s
           c == Head(inbox).c
<1>1. s \in Symbols /\ c \in Candles /\ inbox' \in Seq(Pushes)
  BY PumpTakes
<1>2. /\ progress' = [progress EXCEPT ![s] = c]
      /\ IF RollsOver(s, c)
         THEN /\ events' = Append(events, [s |-> s, bar |-> progress[s]])
              /\ closed' = [closed EXCEPT ![s] = Append(@, progress[s])]
         ELSE /\ events' = Append(events, [s |-> s, bar |-> NoCandle])
              /\ UNCHANGED closed
  BY DEF Pump, ClosedBar
<1> HIDE DEF s, c
<1>3. progress[s] \in Candles /\ NoCandle \in Candles /\ closed[s] \in Seq(Candles)
  BY <1>1, NoCandleType DEF TypeOK
<1>4. events' \in Seq(Events)
  <2>1. /\ [s |-> s, bar |-> progress[s]] \in Events
        /\ [s |-> s, bar |-> NoCandle] \in Events
    BY <1>1, <1>3 DEF Events
  <2>2. events \in Seq(Events)
    BY DEF TypeOK
  <2>3. /\ Append(events, [s |-> s, bar |-> progress[s]]) \in Seq(Events)
        /\ Append(events, [s |-> s, bar |-> NoCandle]) \in Seq(Events)
    BY <2>1, <2>2, AppendProperties
  <2>4. QED BY <1>2, <2>3
<1>5. closed' \in [Symbols -> Seq(Candles)]
  <2>1. Append(closed[s], progress[s]) \in Seq(Candles)
    BY <1>3
  <2>2. QED BY <1>2, <2>1 DEF TypeOK
<1>6. progress' \in [Symbols -> Candles]
  BY <1>1, <1>2 DEF TypeOK
<1>7. UNCHANGED <<exchangeVars, served, conn, drops, subs, started, engineVars, missed>>
  BY DEF Pump
<1>8. QED BY <1>1, <1>4, <1>5, <1>6, <1>7 DEF TypeOK, exchangeVars, engineVars

LEMMA TypeInit == Init => TypeOK
<1>1. SUFFICES ASSUME Init PROVE TypeOK
  OBVIOUS
<1>2. NoCandle \in Candles
  BY NoCandleType
<1>3. /\ now = 0 /\ candles = [s \in Symbols |-> <<>>]
      /\ served = {} /\ conn = "none" /\ subs \in {{}, Symbols}
      /\ inbox = <<>> /\ started = FALSE
      /\ progress = [s \in Symbols |-> NoCandle]
      /\ events = <<>> /\ engine = "scan" /\ scanned = {}
      /\ closed = [s \in Symbols |-> <<>>]
  BY <1>1 DEF Init, InitWith
<1>4. candles \in [Symbols -> Seq(Candles)] /\ closed \in [Symbols -> Seq(Candles)]
  BY <1>3
<1>5. inbox \in Seq(Pushes) /\ events \in Seq(Events)
  BY <1>3
<1>6. progress \in [Symbols -> Candles]
  BY <1>2, <1>3
<1>7. QED BY <1>3, <1>4, <1>5, <1>6 DEF TypeOK

LEMMA TypeStep == TypeOK /\ [Next]_vars => TypeOK'
<1> SUFFICES ASSUME TypeOK, [Next]_vars PROVE TypeOK'
  OBVIOUS
<1> USE DEF exchangeVars, clientVars, feedVars, engineVars
<1>1. CASE Tick
  BY <1>1 DEF Tick, TypeOK
<1>2. CASE Drop
  BY <1>2 DEF Drop, TypeOK
<1>3. CASE Client
  BY <1>3 DEF Client, Connect, Notice, TypeOK
<1>4. CASE Pump
  BY <1>4, PumpType
<1>5. CASE Pass
  BY <1>5 DEF Pass, TypeOK
<1>6. CASE StartStream
  BY <1>6 DEF StartStream, TypeOK
<1>7. CASE HandleEvent
  <2>1. events' \in Seq(Events)
    BY <1>7 DEF HandleEvent, TypeOK
  <2>2. UNCHANGED <<exchangeVars, clientVars, progress, closed, engine, scanned>>
    BY <1>7 DEF HandleEvent
  <2>3. QED BY <2>1, <2>2 DEF TypeOK
<1>8. CASE EndRun
  BY <1>8 DEF EndRun, TypeOK
<1>9. ASSUME NEW s \in Symbols, Trade(s) PROVE TypeOK'
  BY <1>9, TradeType DEF Trade, TypeOK
<1>10. ASSUME NEW s \in Symbols, Scan(s) PROVE TypeOK'
  <2>1. /\ UNCHANGED <<exchangeVars, clientVars, feedVars, engine>>
        /\ scanned' \in SUBSET Symbols
    BY <1>10 DEF Scan
  <2>2. QED BY <2>1 DEF TypeOK
<1>11. ASSUME NEW s \in Symbols, Select(s) PROVE TypeOK'
  BY <1>11 DEF Select, EnsureSymbols, Subscribe, TypeOK
<1>12. CASE UNCHANGED vars
  BY <1>12 DEF vars, TypeOK
<1>13. QED
  BY <1>1, <1>2, <1>3, <1>4, <1>5, <1>6, <1>7, <1>8, <1>9, <1>10, <1>11, <1>12
  DEF Next

\* Every reachable state of the feed, its client and its engine is well typed.
THEOREM TypeCorrect == Spec => []TypeOK
BY TypeInit, TypeStep, PTL DEF Spec

--------------------------------------------------------------------------------
(* The order of the bars.                                                  *)

LEMMA OrderInit == Init => OrderInv
<1>1. SUFFICES ASSUME Init PROVE OrderInv
  OBVIOUS
<1>2. inbox = <<>> /\ now = 0 /\ progress = [s \in Symbols |-> NoCandle]
      /\ closed = [s \in Symbols |-> <<>>]
  BY <1>1 DEF Init, InitWith
<1>3. NoCandle.t = -1
  BY NoCandleType
<1>4. QED
  BY <1>2, <1>3 DEF OrderInv, InboxOrdered, ProgressBehind, ProgressNotAhead,
                    ClosedBefore, BarsInOrder, Increasing

\* A push of the current period joins the end of the queue.
LEMMA TradeOrder ==
    ASSUME TypeOK, OrderInv, NEW s \in Symbols, Trade(s)
    PROVE  OrderInv'
<1> USE DEF OrderInv
<1>1. UNCHANGED <<now, progress, closed>>
  BY DEF Trade, feedVars
<1>2. ProgressNotAhead' /\ ClosedBefore' /\ BarsInOrder'
  BY <1>1 DEF ProgressNotAhead, ClosedBefore, BarsInOrder, Increasing
<1>3. CASE inbox' = inbox
  BY <1>1, <1>2, <1>3 DEF InboxOrdered, ProgressBehind
<1>4. ASSUME NEW q \in Pushes, q.c.t = now,
             inbox' = Append(inbox, q)
      PROVE  OrderInv'
  <2>1. inbox \in Seq(Pushes)
    BY DEF TypeOK
  <2>2. /\ Len(inbox) \in Nat /\ Len(inbox') = Len(inbox) + 1
        /\ inbox'[Len(inbox) + 1] = q
        /\ \A i \in 1 .. Len(inbox) : inbox'[i] = inbox[i]
    BY <1>4, <2>1
  <2>3. /\ now \in Int /\ q.s \in Symbols
        /\ \A i \in 1 .. Len(inbox) : inbox[i].c.t \in Int
    BY <1>4, TimesAreIntegers DEF Pushes
  <2>4. \A i \in 1 .. Len(inbox') : i \in 1 .. Len(inbox) \/ i = Len(inbox) + 1
    BY <2>2
  <2>5. InboxOrdered'
    <3>1. \A i \in 1 .. Len(inbox') : inbox'[i].c.t <= now'
      BY <1>1, <1>4, <2>2, <2>3, <2>4 DEF InboxOrdered
    <3>2. ASSUME NEW i \in 1 .. Len(inbox'), NEW j \in 1 .. Len(inbox'),
                 i < j, inbox'[i].s = inbox'[j].s
          PROVE  inbox'[i].c.t <= inbox'[j].c.t
      <4>1. i \in 1 .. Len(inbox)
        BY <2>2, <3>2
      <4>2. CASE j \in 1 .. Len(inbox)
        BY <2>2, <3>2, <4>1, <4>2 DEF InboxOrdered
      <4>3. CASE j = Len(inbox) + 1
        BY <1>4, <2>2, <4>1, <4>3 DEF InboxOrdered
      <4>4. QED BY <2>4, <4>2, <4>3
    <3>3. QED BY <3>1, <3>2 DEF InboxOrdered
  <2>6. ProgressBehind'
    <3>1. ASSUME NEW i \in 1 .. Len(inbox')
          PROVE  progress[inbox'[i].s].t <= inbox'[i].c.t
      <4>1. CASE i \in 1 .. Len(inbox)
        BY <2>2, <4>1 DEF ProgressBehind
      <4>2. CASE i = Len(inbox) + 1
        BY <1>4, <2>2, <2>3, <4>2 DEF ProgressNotAhead
      <4>3. QED BY <2>4, <4>1, <4>2
    <3>2. QED BY <1>1, <3>1 DEF ProgressBehind
  <2>7. QED BY <1>2, <2>5, <2>6
<1>5. QED BY <1>3, <1>4, TradeType

\* A bar is closed by a push of a later period.
LEMMA PumpOrder ==
    ASSUME TypeOK, OrderInv, Pump
    PROVE  OrderInv'
<1> DEFINE s == Head(inbox).s
           c == Head(inbox).c
<1>1. /\ Len(inbox) \in Nat \ {0} /\ inbox[1].s = s /\ inbox[1].c = c
      /\ s \in Symbols /\ c \in Candles
      /\ Len(inbox') = Len(inbox) - 1
      /\ \A i \in 1 .. Len(inbox') : inbox'[i] = inbox[i + 1]
  BY PumpTakes
<1>2. /\ progress' = [progress EXCEPT ![s] = c]
      /\ IF RollsOver(s, c)
         THEN closed' = [closed EXCEPT ![s] = Append(@, progress[s])]
         ELSE UNCHANGED closed
      /\ now' = now
  BY DEF Pump, ClosedBar, exchangeVars
<1> HIDE DEF s, c
<1> USE DEF OrderInv
<1>3. /\ progress \in [Symbols -> Candles] /\ closed \in [Symbols -> Seq(Candles)]
      /\ now \in Int /\ c.t \in Int
      /\ \A u \in Symbols : progress[u].t \in Int
  <2>1. c.t \in Int
    BY <1>1 DEF Candles
  <2>2. QED BY <2>1, TimesAreIntegers DEF TypeOK
<1>4. progress[s].t <= c.t /\ c.t <= now
  BY <1>1 DEF ProgressBehind, InboxOrdered
<1>5. InboxOrdered'
  <2>1. \A i \in 1 .. Len(inbox') : i + 1 \in 1 .. Len(inbox)
    BY <1>1
  <2>2. \A i \in 1 .. Len(inbox') : inbox'[i].c.t <= now'
    BY <1>1, <1>2, <2>1 DEF InboxOrdered
  <2>3. ASSUME NEW i \in 1 .. Len(inbox'), NEW j \in 1 .. Len(inbox'),
               i < j, inbox'[i].s = inbox'[j].s
        PROVE  inbox'[i].c.t <= inbox'[j].c.t
    <3>1. /\ i + 1 \in 1 .. Len(inbox) /\ j + 1 \in 1 .. Len(inbox) /\ i + 1 < j + 1
          /\ inbox[i + 1].s = inbox[j + 1].s
          /\ inbox'[i] = inbox[i + 1] /\ inbox'[j] = inbox[j + 1]
      BY <1>1, <2>1, <2>3
    <3>2. inbox[i + 1].c.t <= inbox[j + 1].c.t
      BY <3>1 DEF InboxOrdered
    <3>3. QED BY <3>1, <3>2
  <2>4. QED BY <2>2, <2>3 DEF InboxOrdered
<1>6. ProgressBehind'
  <2>1. ASSUME NEW i \in 1 .. Len(inbox')
        PROVE  progress'[inbox'[i].s].t <= inbox'[i].c.t
    <3>1. i + 1 \in 1 .. Len(inbox) /\ 1 \in 1 .. Len(inbox) /\ 1 < i + 1
          /\ inbox'[i] = inbox[i + 1]
      BY <1>1
    <3>2. inbox[i + 1].s \in Symbols
      BY <3>1, TimesAreIntegers
    <3>3. CASE inbox[i + 1].s = s
      <4>1. inbox[1].c.t <= inbox[i + 1].c.t
        BY <1>1, <3>1, <3>3 DEF InboxOrdered
      <4>2. QED BY <1>1, <1>2, <1>3, <3>1, <3>3, <4>1
    <3>4. CASE inbox[i + 1].s # s
      BY <1>2, <1>3, <3>1, <3>2, <3>4 DEF ProgressBehind
    <3>5. QED BY <3>3, <3>4
  <2>2. QED BY <2>1 DEF ProgressBehind
<1>7. ProgressNotAhead'
  BY <1>2, <1>3, <1>4 DEF ProgressNotAhead
<1>8. CASE RollsOver(s, c)
  <2>1. progress[s].t < c.t /\ closed' = [closed EXCEPT ![s] = Append(@, progress[s])]
    BY <1>2, <1>8 DEF RollsOver
  <2> DEFINE n == Len(closed[s])
  <2>2. /\ n \in Nat /\ Len(closed'[s]) = n + 1
        /\ closed'[s][n + 1] = progress[s]
        /\ \A i \in 1 .. n : closed'[s][i] = closed[s][i]
    <3>1. closed[s] \in Seq(Candles) /\ progress[s] \in Candles
      BY <1>1, <1>3
    <3>2. closed'[s] = Append(closed[s], progress[s])
      BY <1>1, <1>3, <2>1
    <3>3. QED BY <3>1, <3>2, AppendProperties
  <2>3. \A i \in 1 .. n : closed[s][i].t < progress[s].t /\ closed[s][i].t \in Int
    BY <1>1, TimesAreIntegers DEF ClosedBefore
  <2>4. \A i \in 1 .. n - 1 : closed[s][i].t < closed[s][i + 1].t
    BY <1>1 DEF BarsInOrder, Increasing
  <2> HIDE DEF n
  <2>5. \A u \in Symbols \ {s} : closed'[u] = closed[u] /\ progress'[u] = progress[u]
    BY <1>2, <1>3, <2>1
  <2>6. progress'[s] = c
    BY <1>1, <1>2, <1>3
  <2>7. \A i \in 1 .. Len(closed'[s]) : closed'[s][i].t < c.t
    <3>1. \A i \in 1 .. n + 1 : i \in 1 .. n \/ i = n + 1
      BY <2>2
    <3>2. QED BY <1>1, <1>3, <2>1, <2>2, <2>3, <3>1
  <2>8. \A i \in 1 .. Len(closed'[s]) - 1 : closed'[s][i].t < closed'[s][i + 1].t
    <3>1. SUFFICES ASSUME NEW i \in 1 .. n
                   PROVE  closed'[s][i].t < closed'[s][i + 1].t
      BY <2>2
    <3>2. CASE i = n
      BY <2>2, <2>3, <3>2
    <3>3. CASE i # n
      <4>1. i \in 1 .. n - 1 /\ i + 1 \in 1 .. n
        BY <2>2, <3>3
      <4>2. QED BY <2>2, <2>4, <4>1
    <3>4. QED BY <3>2, <3>3
  <2>9. ClosedBefore'
    BY <2>5, <2>6, <2>7 DEF ClosedBefore
  <2>10. BarsInOrder'
    BY <2>5, <2>8 DEF BarsInOrder, Increasing
  <2>11. QED BY <1>5, <1>6, <1>7, <2>9, <2>10
<1>9. CASE ~RollsOver(s, c)
  <2>1. closed' = closed
    BY <1>2, <1>9
  <2>2. ClosedBefore'
    <3>1. ASSUME NEW u \in Symbols, NEW i \in 1 .. Len(closed[u])
          PROVE  closed[u][i].t < progress'[u].t
      <4>1. closed[u][i].t < progress[u].t /\ closed[u][i].t \in Int
        BY TimesAreIntegers DEF ClosedBefore
      <4>2. progress[u].t <= progress'[u].t /\ progress'[u].t \in Int
        BY <1>1, <1>2, <1>3, <1>4
      <4>3. QED BY <1>3, <4>1, <4>2
    <3>2. QED BY <2>1, <3>1 DEF ClosedBefore
  <2>3. BarsInOrder'
    BY <2>1 DEF BarsInOrder, Increasing
  <2>4. QED BY <1>5, <1>6, <1>7, <2>2, <2>3
<1>10. QED BY <1>8, <1>9

LEMMA OrderStep == TypeOK /\ OrderInv /\ [Next]_vars => OrderInv'
<1> SUFFICES ASSUME TypeOK, OrderInv, [Next]_vars PROVE OrderInv'
  OBVIOUS
<1>1. CASE Pump
  BY <1>1, PumpOrder
<1>2. ASSUME NEW s \in Symbols, Trade(s) PROVE OrderInv'
  BY <1>2, TradeOrder
<1>3. CASE UNCHANGED <<inbox, progress, closed>> /\ now' \in Nat /\ now' >= now
  <2>1. /\ now \in Int
        /\ \A i \in 1 .. Len(inbox) : inbox[i].c.t \in Int
        /\ \A s \in Symbols : progress[s].t \in Int
    BY TimesAreIntegers
  <2>2. InboxOrdered' /\ ProgressNotAhead'
    BY <1>3, <2>1 DEF OrderInv, InboxOrdered, ProgressNotAhead
  <2>3. QED
    BY <1>3, <2>2
    DEF OrderInv, ProgressBehind, ClosedBefore, BarsInOrder, Increasing
<1>4. CASE ~Pump /\ \A s \in Symbols : ~Trade(s)
  <2>1. UNCHANGED <<inbox, progress, closed>> /\ (now' = now \/ now' = now + 1)
    BY <1>4
    DEF Next, Tick, Drop, Client, Connect, Notice, Pass, StartStream, HandleEvent,
        EndRun, Scan, Select, vars, exchangeVars, clientVars, feedVars, engineVars
  <2>2. now' \in Nat /\ now' >= now
    BY <2>1 DEF TypeOK
  <2>3. QED BY <1>3, <2>1, <2>2
<1>5. QED BY <1>1, <1>2, <1>4

\* For any coins, drops, scans and trades: every candle is closed at most once
\* and the bars of a coin are closed in the order of their periods.
THEOREM BarsAlwaysInOrder == Spec => []BarsInOrder
<1>1. OrderInv => BarsInOrder
  BY DEF OrderInv
<1>2. QED BY <1>1, OrderInit, OrderStep, TypeCorrect, PTL DEF Spec
--------------------------------------------------------------------------------
(* The bars are final.                                                     *)

\* The exchange has this very candle, or a push of its period was missed.
Known(periods, cs, c) == c.t \in periods \/ \E j \in 1 .. Len(cs) : cs[j] = c
Final(s, c) == Known(missed[s], candles[s], c)
FinalNext(s, c) == Known(missed'[s], candles'[s], c)

MissedType == missed \in [Symbols -> SUBSET Int]

\* The last push of a period still on its way is final ...
PushesFinal ==
    \A i \in 1 .. Len(inbox) :
        (\A j \in 1 .. Len(inbox) :
            i < j /\ inbox[j].s = inbox[i].s => inbox[j].c.t # inbox[i].c.t)
        => Final(inbox[i].s, inbox[i].c)

\* ... and the candle in progress is, when no push of its period is.
ProgressFinal ==
    \A s \in Symbols :
        progress[s] # NoCandle
        /\ (\A i \in 1 .. Len(inbox) : inbox[i].s = s => inbox[i].c.t # progress[s].t)
        => Final(s, progress[s])

ClosedFinal == \A s \in Symbols : \A i \in 1 .. Len(closed[s]) : Final(s, closed[s][i])

FinalInv == MissedType /\ PushesFinal /\ ProgressFinal /\ ClosedFinal

LEMMA FinalInit == Init => FinalInv
<1>1. SUFFICES ASSUME Init PROVE FinalInv
  OBVIOUS
<1>2. inbox = <<>> /\ progress = [s \in Symbols |-> NoCandle]
      /\ closed = [s \in Symbols |-> <<>>] /\ missed = [s \in Symbols |-> {}]
  BY <1>1 DEF Init, InitWith
<1>3. QED BY <1>2 DEF FinalInv, MissedType, PushesFinal, ProgressFinal, ClosedFinal

\* A trade leaves every candle but the one of the current period as it is, and
\* either its push is the last one on its way or it is missed.
LEMMA TradeKeepsFinal ==
    ASSUME TypeOK, MissedType, NEW s \in Symbols, Trade(s)
    PROVE  /\ MissedType'
           /\ \A u \in Symbols : \A c : Final(u, c) /\ (u # s \/ c.t # now) => FinalNext(u, c)
           /\ \/ /\ inbox' = inbox
                 /\ \A c : c.t = now => FinalNext(s, c)
              \/ \E q \in Pushes : /\ q.s = s /\ q.c.t = now
                                   /\ inbox' = Append(inbox, q)
                                   /\ FinalNext(s, q.c)
<1> DEFINE open == candles[s] # <<>> /\ Last(candles[s]).t = now
           c == IF open THEN Candle(now, Last(candles[s]).v + 1) ELSE Candle(now, 1)
           q == [s |-> s, c |-> c]
           rest == IF open THEN Front(candles[s]) ELSE candles[s]
<1>1. /\ candles' = [candles EXCEPT ![s] = Append(rest, c)]
      /\ \/ inbox' = Append(inbox, q) /\ missed' = missed
         \/ inbox' = inbox /\ missed' = [missed EXCEPT ![s] = @ \union {now}]
  BY DEF Trade, Deliver
<1>2. candles \in [Symbols -> Seq(Candles)] /\ now \in Nat
  BY DEF TypeOK
<1>3. c \in Candles /\ c.t = now
  <2>1. open => Last(candles[s]) \in Candles
    BY <1>2 DEF Last
  <2>2. QED BY <1>2, <2>1 DEF Candle, Candles
<1>4. /\ rest \in Seq(Candles)
      /\ \A j \in 1 .. Len(candles[s]) :
            candles[s][j].t # now => j \in 1 .. Len(rest) /\ rest[j] = candles[s][j]
  <2>1. CASE open
    <3> DEFINE n == Len(candles[s])
    <3>1. /\ Front(candles[s]) \in Seq(Candles)
          /\ Len(Front(candles[s])) = n - 1
          /\ \A j \in 1 .. n - 1 : Front(candles[s])[j] = candles[s][j]
      <4>1. candles[s] \in Seq(Candles) /\ n \in Nat /\ n > 0
        BY <1>2, <2>1
      <4>2. QED BY <4>1 DEF Front
    <3>2. candles[s][Len(candles[s])].t = now /\ Len(candles[s]) \in Nat
      BY <1>2, <2>1 DEF Last
    <3>3. rest = Front(candles[s])
      BY <2>1
    <3>4. \A j \in 1 .. Len(candles[s]) :
              candles[s][j].t # now => j \in 1 .. Len(candles[s]) - 1
      BY <3>2
    <3>5. QED BY <3>1, <3>3, <3>4
  <2>2. CASE ~open
    <3>1. rest = candles[s]
      BY <2>2
    <3>2. QED BY <1>2, <3>1
  <2>3. QED BY <2>1, <2>2
<1>5. q \in Pushes /\ q.s = s /\ q.c = c
  BY <1>3 DEF Pushes
<1> HIDE DEF c, rest, open, q
<1>6. /\ candles'[s] = Append(rest, c)
      /\ Len(candles'[s]) = Len(rest) + 1 /\ Len(rest) \in Nat
      /\ candles'[s][Len(rest) + 1] = c
      /\ \A j \in 1 .. Len(rest) : candles'[s][j] = rest[j]
      /\ \A u \in Symbols \ {s} : candles'[u] = candles[u]
  <2>1. candles'[s] = Append(rest, c)
    BY <1>1, <1>2
  <2>2. \A u \in Symbols \ {s} : candles'[u] = candles[u]
    BY <1>1, <1>2
  <2>3. QED BY <1>3, <1>4, <2>1, <2>2, AppendProperties
<1>7. /\ MissedType'
      /\ \A u \in Symbols : missed[u] \subseteq missed'[u]
  <2>1. CASE missed' = missed
    BY <2>1 DEF MissedType
  <2>2. CASE missed' = [missed EXCEPT ![s] = @ \union {now}]
    <3>1. now \in Int
      BY <1>2
    <3>2. QED BY <2>2, <3>1 DEF MissedType
  <2>3. QED BY <1>1, <2>1, <2>2
<1>8. FinalNext(s, c)
  <2>1. Len(rest) + 1 \in 1 .. Len(candles'[s])
    BY <1>6
  <2>2. QED BY <1>6, <2>1 DEF Final, FinalNext, Known
<1>9. ASSUME NEW u \in Symbols, NEW d, Final(u, d), u # s \/ d.t # now
      PROVE  FinalNext(u, d)
  <2>1. CASE d.t \in missed[u]
    BY <1>7, <2>1 DEF Final, FinalNext, Known
  <2>2. CASE d.t \notin missed[u]
    <3>1. PICK j \in 1 .. Len(candles[u]) : candles[u][j] = d
      BY <1>9, <2>2 DEF Final, FinalNext, Known
    <3>2. CASE u # s
      BY <1>6, <3>1, <3>2 DEF Final, FinalNext, Known
    <3>3. CASE u = s
      <4>1. j \in 1 .. Len(rest) /\ rest[j] = d
        BY <1>4, <1>9, <3>1, <3>3
      <4>2. j \in 1 .. Len(candles'[s]) /\ candles'[s][j] = d
        BY <1>6, <4>1
      <4>3. QED BY <3>3, <4>2 DEF Final, FinalNext, Known
    <3>4. QED BY <3>2, <3>3
  <2>3. QED BY <2>1, <2>2
<1>10. CASE inbox' = Append(inbox, q) /\ missed' = missed
  BY <1>3, <1>5, <1>7, <1>8, <1>9, <1>10
<1>11. CASE inbox' = inbox /\ missed' = [missed EXCEPT ![s] = @ \union {now}]
  <2>1. now \in missed'[s]
    BY <1>11 DEF MissedType
  <2>2. \A d : d.t = now => FinalNext(s, d)
    BY <2>1 DEF Final, FinalNext, Known
  <2>3. QED BY <1>7, <1>9, <1>11, <2>2
<1>12. QED BY <1>1, <1>10, <1>11

\* The closed bars are of periods before the current one.
LEMMA ClosedIsPast ==
    ASSUME TypeOK, OrderInv, NEW s \in Symbols, NEW i \in 1 .. Len(closed[s])
    PROVE  closed[s][i].t < now
<1>1. closed[s][i].t < progress[s].t /\ progress[s].t <= now
  BY DEF OrderInv, ClosedBefore, ProgressNotAhead
<1>2. QED BY <1>1, TimesAreIntegers

LEMMA TradeFinal ==
    ASSUME TypeOK, OrderInv, FinalInv, NEW s \in Symbols, Trade(s)
    PROVE  FinalInv'
<1>1. UNCHANGED <<now, progress, closed>>
  BY DEF Trade, feedVars
<1>2. /\ MissedType'
      /\ \A u \in Symbols : \A c : Final(u, c) /\ (u # s \/ c.t # now) => FinalNext(u, c)
  BY TradeKeepsFinal DEF FinalInv
<1>3. ClosedFinal'
  <2>1. ASSUME NEW u \in Symbols, NEW i \in 1 .. Len(closed[u])
        PROVE  FinalNext(u, closed[u][i])
    <3>1. closed[u][i].t # now
      BY ClosedIsPast, TimesAreIntegers
    <3>2. Final(u, closed[u][i])
      BY DEF FinalInv, ClosedFinal
    <3>3. QED BY <1>1, <1>2, <3>1, <3>2 DEF Final, FinalNext
  <2>2. QED BY <1>1, <2>1 DEF ClosedFinal, Final, FinalNext
<1>4. CASE inbox' = inbox /\ \A c : c.t = now => FinalNext(s, c)
  <2>1. ASSUME NEW u \in Symbols, NEW c, Final(u, c)
        PROVE  FinalNext(u, c)
    BY <1>2, <1>4, <2>1
  <2>2. PushesFinal'
    <3>1. \A i \in 1 .. Len(inbox) : inbox[i].s \in Symbols
      BY TimesAreIntegers
    <3>2. QED BY <1>4, <2>1, <3>1 DEF FinalInv, PushesFinal, Final, FinalNext
  <2>3. ProgressFinal'
    BY <1>1, <1>4, <2>1 DEF FinalInv, ProgressFinal, Final, FinalNext
  <2>4. QED BY <1>2, <1>3, <2>2, <2>3 DEF FinalInv
<1>5. ASSUME NEW q \in Pushes, q.s = s, q.c.t = now, inbox' = Append(inbox, q),
             FinalNext(s, q.c)
      PROVE  FinalInv'
  <2>1. inbox \in Seq(Pushes)
    BY DEF TypeOK
  <2> DEFINE n == Len(inbox)
  <2>2. /\ n \in Nat /\ Len(inbox') = n + 1
        /\ inbox'[n + 1] = q
        /\ \A i \in 1 .. n : inbox'[i] = inbox[i]
    BY <1>5, <2>1
  <2>3. \A i \in 1 .. n : inbox[i].s \in Symbols
    BY TimesAreIntegers
  <2> HIDE DEF n
  <2>4. \A i \in 1 .. n + 1 : i \in 1 .. n \/ i = n + 1
    BY <2>2
  <2>5. PushesFinal'
    <3>1. ASSUME NEW i \in 1 .. n + 1,
                 \A j \in 1 .. n + 1 :
                    i < j /\ inbox'[j].s = inbox'[i].s => inbox'[j].c.t # inbox'[i].c.t
          PROVE  FinalNext(inbox'[i].s, inbox'[i].c)
      <4>1. CASE i = n + 1
        BY <1>5, <2>2, <4>1 DEF Final, FinalNext
      <4>2. CASE i \in 1 .. n
        <5>1. \A j \in 1 .. n : j \in 1 .. n + 1
          BY <2>2
        <5>2. Final(inbox[i].s, inbox[i].c)
          BY <2>2, <3>1, <4>2, <5>1 DEF FinalInv, PushesFinal, n
        <5>3. i < n + 1 /\ n + 1 \in 1 .. n + 1
          BY <2>2, <4>2
        <5>4. inbox[i].s # s \/ inbox[i].c.t # now
          BY <1>5, <2>2, <3>1, <4>2, <5>3
        <5>5. inbox'[i] = inbox[i]
          BY <2>2, <4>2
        <5>6. QED BY <1>2, <2>3, <4>2, <5>2, <5>4, <5>5 DEF Final, FinalNext
      <4>3. QED BY <2>4, <4>1, <4>2
    <3>2. QED BY <2>2, <3>1 DEF PushesFinal, Final, FinalNext
  <2>6. ProgressFinal'
    <3>1. ASSUME NEW u \in Symbols, progress[u] # NoCandle,
                 \A i \in 1 .. n + 1 : inbox'[i].s = u => inbox'[i].c.t # progress[u].t
          PROVE  FinalNext(u, progress[u])
      <4>1. \A i \in 1 .. n : i \in 1 .. n + 1
        BY <2>2
      <4>2. \A i \in 1 .. n : inbox[i].s = u => inbox[i].c.t # progress[u].t
        BY <2>2, <3>1, <4>1
      <4>3. Final(u, progress[u])
        BY <3>1, <4>2 DEF FinalInv, ProgressFinal, n
      <4>4. n + 1 \in 1 .. n + 1
        BY <2>2
      <4>5. u # s \/ progress[u].t # now
        BY <1>5, <2>2, <3>1, <4>4
      <4>6. QED BY <1>1, <1>2, <4>3, <4>5 DEF Final, FinalNext
    <3>2. QED BY <1>1, <2>2, <3>1 DEF ProgressFinal, Final, FinalNext
  <2>7. QED BY <1>2, <1>3, <2>5, <2>6 DEF FinalInv
<1>6. QED BY <1>4, <1>5, TradeKeepsFinal DEF FinalInv

\* The candle in progress is closed by a push of a later period, so that no push of
\* its own is on its way.
LEMMA PumpFinal ==
    ASSUME TypeOK, OrderInv, FinalInv, Pump
    PROVE  FinalInv'
<1> DEFINE s == Head(inbox).s
           c == Head(inbox).c
<1>1. /\ Len(inbox) \in Nat \ {0} /\ inbox[1].s = s /\ inbox[1].c = c
      /\ s \in Symbols /\ c \in Candles
      /\ Len(inbox') = Len(inbox) - 1
      /\ \A i \in 1 .. Len(inbox') : inbox'[i] = inbox[i + 1]
  BY PumpTakes
<1>2. /\ progress' = [progress EXCEPT ![s] = c]
      /\ IF RollsOver(s, c)
         THEN closed' = [closed EXCEPT ![s] = Append(@, progress[s])]
         ELSE UNCHANGED closed
      /\ UNCHANGED <<now, candles, missed>>
  BY DEF Pump, ClosedBar, exchangeVars
<1> HIDE DEF s, c
<1>3. \A u, d : FinalNext(u, d) <=> Final(u, d)
  BY <1>2 DEF Final, FinalNext, Known
<1>4. MissedType'
  BY <1>2 DEF FinalInv, MissedType
<1>5. /\ \A i \in 1 .. Len(inbox') : i + 1 \in 1 .. Len(inbox) /\ 1 < i + 1
      /\ \A j \in 1 .. Len(inbox) : 1 < j =>
            j - 1 \in 1 .. Len(inbox') /\ inbox[j] = inbox'[j - 1]
  BY <1>1
<1>6. PushesFinal'
  <2>1. ASSUME NEW i \in 1 .. Len(inbox'),
               \A j \in 1 .. Len(inbox') :
                  i < j /\ inbox'[j].s = inbox'[i].s => inbox'[j].c.t # inbox'[i].c.t
        PROVE  Final(inbox'[i].s, inbox'[i].c)
    <3>1. i + 1 \in 1 .. Len(inbox) /\ inbox'[i] = inbox[i + 1]
      BY <1>1, <1>5
    <3>2. ASSUME NEW j \in 1 .. Len(inbox), i + 1 < j, inbox[j].s = inbox[i + 1].s
          PROVE  inbox[j].c.t # inbox[i + 1].c.t
      <4>1. j - 1 \in 1 .. Len(inbox') /\ i < j - 1 /\ inbox[j] = inbox'[j - 1]
        BY <1>5, <3>2
      <4>2. QED BY <2>1, <3>1, <3>2, <4>1
    <3>3. QED BY <3>1, <3>2 DEF FinalInv, PushesFinal
  <2>2. QED BY <1>3, <2>1 DEF PushesFinal, Final, FinalNext
<1>7. progress \in [Symbols -> Candles] /\ closed \in [Symbols -> Seq(Candles)]
  BY DEF TypeOK
<1>8. ProgressFinal'
  <2>1. ASSUME NEW u \in Symbols, progress'[u] # NoCandle,
               \A i \in 1 .. Len(inbox') : inbox'[i].s = u => inbox'[i].c.t # progress'[u].t
        PROVE  Final(u, progress'[u])
    <3>1. CASE u = s
      <4>1. progress'[u] = c
        BY <1>2, <1>7, <3>1
      <4>2. 1 \in 1 .. Len(inbox)
        BY <1>1
      <4>3. ASSUME NEW j \in 1 .. Len(inbox), 1 < j, inbox[j].s = inbox[1].s
            PROVE  inbox[j].c.t # inbox[1].c.t
        BY <1>1, <1>5, <2>1, <3>1, <4>1, <4>3
      <4>4. QED BY <1>1, <3>1, <4>1, <4>2, <4>3 DEF FinalInv, PushesFinal
    <3>2. CASE u # s
      <4>1. progress'[u] = progress[u]
        BY <1>2, <1>7, <3>2
      <4>2. ASSUME NEW i \in 1 .. Len(inbox), inbox[i].s = u
            PROVE  inbox[i].c.t # progress[u].t
        <5>1. i # 1
          BY <1>1, <3>2, <4>2
        <5>2. 1 < i
          BY <1>1, <5>1
        <5>3. i - 1 \in 1 .. Len(inbox') /\ inbox[i] = inbox'[i - 1]
          BY <1>5, <5>2
        <5>4. QED BY <2>1, <4>1, <4>2, <5>3
      <4>3. QED BY <2>1, <4>1, <4>2 DEF FinalInv, ProgressFinal
    <3>3. QED BY <3>1, <3>2
  <2>2. QED BY <1>3, <2>1 DEF ProgressFinal, Final, FinalNext
<1>9. CASE RollsOver(s, c)
  <2>1. progress[s] # NoCandle /\ progress[s].t < c.t
        /\ closed' = [closed EXCEPT ![s] = Append(@, progress[s])]
    BY <1>2, <1>9 DEF RollsOver
  <2>2. Final(s, progress[s])
    <3>1. ASSUME NEW i \in 1 .. Len(inbox), inbox[i].s = s
          PROVE  inbox[i].c.t # progress[s].t
      <4>1. c.t <= inbox[i].c.t
        <5>1. CASE i = 1
          BY <1>1, <5>1 DEF Candles
        <5>2. CASE i # 1
          BY <1>1, <3>1, <5>2 DEF OrderInv, InboxOrdered
        <5>3. QED BY <5>1, <5>2
      <4>2. c.t \in Int /\ inbox[i].c.t \in Int /\ progress[s].t \in Int
        BY <1>1, TimesAreIntegers DEF Candles
      <4>3. QED BY <2>1, <4>1, <4>2
    <3>2. QED BY <1>1, <2>1, <3>1 DEF FinalInv, ProgressFinal
  <2>3. /\ Len(closed[s]) \in Nat /\ Len(closed'[s]) = Len(closed[s]) + 1
        /\ closed'[s][Len(closed[s]) + 1] = progress[s]
        /\ \A i \in 1 .. Len(closed[s]) : closed'[s][i] = closed[s][i]
    <3>1. closed[s] \in Seq(Candles) /\ progress[s] \in Candles
      BY <1>1, <1>7
    <3>2. closed'[s] = Append(closed[s], progress[s])
      BY <1>1, <1>7, <2>1
    <3>3. QED BY <3>1, <3>2, AppendProperties
  <2>4. \A u \in Symbols \ {s} : closed'[u] = closed[u]
    BY <1>7, <2>1
  <2>5. ASSUME NEW i \in 1 .. Len(closed'[s])
        PROVE  Final(s, closed'[s][i])
    <3>1. CASE i \in 1 .. Len(closed[s])
      BY <1>1, <2>3, <3>1 DEF FinalInv, ClosedFinal
    <3>2. CASE i = Len(closed[s]) + 1
      BY <2>2, <2>3, <3>2
    <3>3. QED BY <2>3, <3>1, <3>2
  <2>6. ClosedFinal'
    BY <1>3, <2>4, <2>5 DEF FinalInv, ClosedFinal, Final, FinalNext
  <2>7. QED BY <1>4, <1>6, <1>8, <2>6 DEF FinalInv
<1>10. CASE ~RollsOver(s, c)
  <2>1. ClosedFinal'
    BY <1>2, <1>3, <1>10 DEF FinalInv, ClosedFinal, Final, FinalNext
  <2>2. QED BY <1>4, <1>6, <1>8, <2>1 DEF FinalInv
<1>11. QED BY <1>9, <1>10

LEMMA FinalStep == TypeOK /\ OrderInv /\ FinalInv /\ [Next]_vars => FinalInv'
<1> SUFFICES ASSUME TypeOK, OrderInv, FinalInv, [Next]_vars PROVE FinalInv'
  OBVIOUS
<1>1. CASE Pump
  BY <1>1, PumpFinal
<1>2. ASSUME NEW s \in Symbols, Trade(s) PROVE FinalInv'
  BY <1>2, TradeFinal
<1>3. CASE ~Pump /\ \A s \in Symbols : ~Trade(s)
  <2>1. UNCHANGED <<candles, missed, inbox, progress, closed>>
    BY <1>3
    DEF Next, Tick, Drop, Client, Connect, Notice, Pass, StartStream, HandleEvent,
        EndRun, Scan, Select, vars, exchangeVars, clientVars, feedVars, engineVars
  <2>2. QED
    BY <2>1 DEF FinalInv, MissedType, PushesFinal, ProgressFinal, ClosedFinal, Final, FinalNext, Known
<1>4. QED BY <1>1, <1>2, <1>3

\* For any coins, drops, scans and trades: a bar the feed emits is the final candle
\* of a period that is over, unless a push of that candle was missed.
THEOREM BarsAlwaysFinal == Spec => []BarIsFinal
<1>1. TypeOK /\ OrderInv /\ FinalInv => BarIsFinal
  <2>1. SUFFICES ASSUME TypeOK, OrderInv, FinalInv,
                        NEW s \in Symbols, NEW i \in DOMAIN closed[s]
                 PROVE  /\ closed[s][i].t < now
                        /\ \/ closed[s][i].t \in missed[s]
                           \/ \E j \in DOMAIN candles[s] : candles[s][j] = closed[s][i]
    BY DEF BarIsFinal
  <2>2. closed[s] \in Seq(Candles) /\ candles[s] \in Seq(Candles)
    BY <2>1 DEF TypeOK
  <2>3. i \in 1 .. Len(closed[s]) /\ DOMAIN candles[s] = 1 .. Len(candles[s])
    BY <2>1, <2>2
  <2>4. QED BY <2>1, <2>3, ClosedIsPast DEF FinalInv, ClosedFinal, Final, FinalNext, Known
<1>2. QED BY <1>1, OrderInit, OrderStep, FinalInit, FinalStep, TypeCorrect, PTL DEF Spec

--------------------------------------------------------------------------------
(* The order of the history.                                               *)

Sorted(q) == \A i, j \in 1 .. Len(q) : i < j => q[i].t <= q[j].t
IsBar(e) == e.bar # NoCandle
\* No candle in the history of s is newer than t.
AtMost(s, t) == \A k \in 1 .. Len(history[s]) : history[s][k].t <= t

HistoryType ==
    /\ history \in [Symbols -> Seq(Candles)]
    /\ scans \in [Symbols -> Nat] /\ auto \in BOOLEAN

\* The exchange has one candle of a period, and none of one to come.
CandlesInOrder ==
    \A s \in Symbols : \A i, j \in 1 .. Len(candles[s]) :
        /\ 0 <= candles[s][i].t /\ candles[s][i].t <= now
        /\ i < j => candles[s][i].t < candles[s][j].t

\* The bars on their way to the engine are in order, none newer than the candle in
\* progress.
EventsInOrder ==
    /\ \A i \in 1 .. Len(events) :
          IsBar(events[i]) => events[i].bar.t <= progress[events[i].s].t
    /\ \A i, j \in 1 .. Len(events) :
          i < j /\ events[i].s = events[j].s /\ IsBar(events[i]) /\ IsBar(events[j])
              => events[i].bar.t <= events[j].bar.t

\* A coin the engine chooses is scanned before anything of it can arrive.
ScannedFirst ==
    auto => \A s \in Symbols : scans[s] = 0 =>
        /\ s \notin subs /\ s \notin scanned
        /\ history[s] = <<>> /\ progress[s] = NoCandle
        /\ \A i \in 1 .. Len(inbox) : inbox[i].s # s
        /\ \A i \in 1 .. Len(events) : events[i].s # s

\* Until it is scanned again nothing on its way is older than its history.
HistoryBehind ==
    \A s \in Symbols : scans[s] <= 1 =>
        /\ AtMost(s, now)
        /\ progress[s] # NoCandle => AtMost(s, progress[s].t)
        /\ \A i \in 1 .. Len(inbox) : inbox[i].s = s => AtMost(s, inbox[i].c.t)
        /\ \A i \in 1 .. Len(events) :
              events[i].s = s /\ IsBar(events[i]) => AtMost(s, events[i].bar.t)

HistorySorted == \A s \in Symbols : scans[s] <= 1 => Sorted(history[s])

HistoryInv ==
    HistoryType /\ CandlesInOrder /\ EventsInOrder /\ ScannedFirst /\ HistoryBehind
    /\ HistorySorted

LEMMA HistoryInit == Init => HistoryInv
<1> SUFFICES ASSUME Init PROVE HistoryInv
  OBVIOUS
<1>1. /\ now = 0 /\ candles = [s \in Symbols |-> <<>>] /\ auto \in BOOLEAN
      /\ subs = (IF auto THEN {} ELSE Symbols) /\ inbox = <<>> /\ events = <<>>
      /\ progress = [s \in Symbols |-> NoCandle] /\ scanned = {}
      /\ scans = [s \in Symbols |-> 0] /\ history = [s \in Symbols |-> <<>>]
  BY DEF Init, InitWith
<1>2. HistoryType
  BY <1>1 DEF HistoryType
<1>3. ScannedFirst
  BY <1>1 DEF ScannedFirst
<1> QED
  BY <1>1, <1>2, <1>3
  DEF HistoryInv, CandlesInOrder, EventsInOrder, HistoryBehind, HistorySorted, Sorted,
      AtMost

\* What the history is made of are candles, with integer times.
LEMMA HistoryTimes ==
    ASSUME TypeOK, HistoryType
    PROVE  /\ \A s \in Symbols : \A k \in 1 .. Len(history[s]) : history[s][k].t \in Int
           /\ \A s \in Symbols : \A k \in 1 .. Len(candles[s]) : candles[s][k].t \in Int
           /\ \A i \in 1 .. Len(events) :
                 /\ events[i].s \in Symbols /\ events[i].bar \in Candles
                 /\ events[i].bar.t \in Int
<1>1. \A c \in Candles : c.t \in Int
  BY DEF Candles
<1>2. \A e \in Events : e.s \in Symbols /\ e.bar \in Candles
  BY DEF Events
<1>3. \A s \in Symbols : history[s] \in Seq(Candles) /\ candles[s] \in Seq(Candles)
  BY DEF TypeOK, HistoryType
<1>4. \A i \in 1 .. Len(events) : events[i] \in Events
  BY ElementOf DEF TypeOK
<1>5. \A s \in Symbols : \A k \in 1 .. Len(history[s]) : history[s][k] \in Candles
  BY <1>3, ElementOf
<1>6. \A s \in Symbols : \A k \in 1 .. Len(candles[s]) : candles[s][k] \in Candles
  BY <1>3, ElementOf
<1> QED BY <1>1, <1>2, <1>4, <1>5, <1>6

\* Adding newer candles to a history, and cutting it, keeps it in order.
LEMMA RememberKeeps ==
    ASSUME HistoryType, NEW s \in Symbols, NEW new \in Seq(Candles), Remember(s, new)
    PROVE  /\ history' \in [Symbols -> Seq(Candles)]
           /\ \A u \in Symbols \ {s} : history'[u] = history[u]
           /\ \A k \in 1 .. Len(history'[s]) :
                 \/ \E i \in 1 .. Len(history[s]) : history'[s][k] = history[s][i]
                 \/ \E i \in 1 .. Len(new) : history'[s][k] = new[i]
           /\ (/\ Sorted(history[s]) /\ Sorted(new)
               /\ \A i \in 1 .. Len(history[s]) : \A j \in 1 .. Len(new) :
                     history[s][i].t <= new[j].t)
              => Sorted(history'[s])
<1> DEFINE old == history[s]
           all == old \o new
           excess == Len(all) - MaxHistory
           kept == IF excess > 0 THEN SubSeq(all, excess + 1, Len(all)) ELSE all
<1>1. history' = [history EXCEPT ![s] = kept]
  BY DEF Remember
<1>2. old \in Seq(Candles)
  BY DEF HistoryType
<1> HIDE DEF old
<1>3. PICK m \in Nat : m = Len(old)
  BY <1>2, LenProperties
<1>4. PICK n \in Nat : n = Len(new)
  BY LenProperties
<1>5. /\ all \in Seq(Candles) /\ Len(all) = m + n
      /\ \A i \in 1 .. m + n : all[i] = IF i <= m THEN old[i] ELSE new[i - m]
  BY <1>2, <1>3, <1>4, ConcatProperties
<1> HIDE DEF all
<1>6. PICK cut \in Nat :
          /\ kept \in Seq(Candles)
          /\ \A k \in 1 .. Len(kept) : k + cut \in 1 .. m + n /\ kept[k] = all[k + cut]
  <2>1. CASE excess > 0
    <3>1. excess \in Nat /\ excess <= m + n
      BY <1>5, <2>1, HistoryAssumption
    <3>2. \A i \in excess + 1 .. m + n : all[i] \in Candles
      BY <1>5, <3>1, ElementOf
    <3>3. /\ SubSeq(all, excess + 1, m + n) \in Seq(Candles)
          /\ Len(SubSeq(all, excess + 1, m + n))
                = IF excess + 1 <= m + n THEN (m + n) - (excess + 1) + 1 ELSE 0
          /\ \A i \in 1 .. (m + n) - (excess + 1) + 1 :
                SubSeq(all, excess + 1, m + n)[i] = all[(excess + 1) + i - 1]
      BY <3>1, <3>2, SubSeqProperties
    <3>4. kept = SubSeq(all, excess + 1, m + n)
      BY <1>5, <2>1
    <3> HIDE DEF kept, excess
    <3>5. /\ Len(kept) \in Nat /\ (Len(kept) = 0 \/ Len(kept) = (m + n) - excess)
      BY <3>1, <3>3, <3>4
    <3>6. \A k \in 1 .. Len(kept) :
              k + excess \in 1 .. m + n /\ kept[k] = all[k + excess]
      <4>1. ASSUME NEW k \in 1 .. Len(kept)
            PROVE  k + excess \in 1 .. m + n /\ kept[k] = all[k + excess]
        <5>1. /\ k \in 1 .. (m + n) - (excess + 1) + 1
              /\ (excess + 1) + k - 1 = k + excess /\ k + excess \in 1 .. m + n
          BY <3>1, <3>5
        <5> QED BY <3>3, <3>4, <5>1
      <4> QED BY <4>1
    <3> QED BY <3>1, <3>3, <3>4, <3>6
  <2>2. CASE ~(excess > 0)
    <3>1. kept = all
      BY <2>2
    <3> HIDE DEF kept
    <3>2. \A k \in 1 .. Len(kept) : k + 0 \in 1 .. m + n /\ kept[k] = all[k + 0]
      BY <1>5, <3>1
    <3> QED BY <1>5, <3>1, <3>2
  <2> QED BY <2>1, <2>2
<1> HIDE DEF kept
<1>7. /\ history' \in [Symbols -> Seq(Candles)] /\ history'[s] = kept
      /\ \A u \in Symbols \ {s} : history'[u] = history[u]
  BY <1>1, <1>6 DEF HistoryType
<1>8. \A k \in 1 .. Len(kept) :
          LET h == k + cut IN
          \/ h \in 1 .. m /\ kept[k] = old[h]
          \/ h \in m + 1 .. m + n /\ h - m \in 1 .. n /\ kept[k] = new[h - m]
  <2>1. ASSUME NEW k \in 1 .. Len(kept), NEW h \in Int, h = k + cut
        PROVE  \/ h \in 1 .. m /\ kept[k] = old[h]
               \/ h \in m + 1 .. m + n /\ h - m \in 1 .. n /\ kept[k] = new[h - m]
    <3>1. h \in 1 .. m + n /\ kept[k] = all[h]
      BY <1>6, <2>1
    <3>2. CASE h <= m
      BY <1>5, <3>1, <3>2
    <3>3. CASE ~(h <= m)
      <4>1. h \in m + 1 .. m + n /\ h - m \in 1 .. n
        BY <3>1, <3>3
      <4> QED BY <1>5, <3>1, <3>3, <4>1
    <3> QED BY <3>2, <3>3
  <2>2. \A k \in 1 .. Len(kept) : k + cut \in Int
    BY <1>6
  <2> QED BY <2>1, <2>2
<1>9. ASSUME Sorted(old), Sorted(new),
             \A i \in 1 .. m : \A j \in 1 .. n : old[i].t <= new[j].t
      PROVE  Sorted(kept)
  <2>1. ASSUME NEW i \in 1 .. Len(kept), NEW j \in 1 .. Len(kept), i < j
        PROVE  kept[i].t <= kept[j].t
    <3>1. PICK h \in Nat, k \in Nat : h = i + cut /\ k = j + cut
      BY <1>6
    <3>2. h < k
      BY <1>6, <2>1, <3>1
    <3>3. \/ h \in 1 .. m /\ kept[i] = old[h]
          \/ h \in m + 1 .. m + n /\ h - m \in 1 .. n /\ kept[i] = new[h - m]
      BY <1>8, <3>1
    <3>4. \/ k \in 1 .. m /\ kept[j] = old[k]
          \/ k \in m + 1 .. m + n /\ k - m \in 1 .. n /\ kept[j] = new[k - m]
      BY <1>8, <3>1
    <3>5. CASE h \in 1 .. m /\ kept[i] = old[h] /\ k \in 1 .. m /\ kept[j] = old[k]
      BY <1>3, <1>9, <3>2, <3>5 DEF Sorted
    <3>6. CASE /\ h \in 1 .. m /\ kept[i] = old[h]
               /\ k \in m + 1 .. m + n /\ k - m \in 1 .. n /\ kept[j] = new[k - m]
      BY <1>9, <3>6
    <3>7. CASE /\ h \in m + 1 .. m + n /\ h - m \in 1 .. n /\ kept[i] = new[h - m]
               /\ k \in m + 1 .. m + n /\ k - m \in 1 .. n /\ kept[j] = new[k - m]
      <4>1. h - m < k - m
        BY <3>2
      <4> QED BY <1>4, <1>9, <3>7, <4>1 DEF Sorted
    <3>8. ~(h \in m + 1 .. m + n /\ k \in 1 .. m)
      BY <3>2
    <3> QED BY <3>3, <3>4, <3>5, <3>6, <3>7, <3>8
  <2> QED BY <2>1 DEF Sorted
<1> QED BY <1>3, <1>4, <1>7, <1>8, <1>9 DEF old

\* A trade opens the candle of the current period or changes it.
LEMMA TradeCandles ==
    ASSUME TypeOK, CandlesInOrder, NEW s \in Symbols, Trade(s)
    PROVE  CandlesInOrder'
<1> DEFINE open == candles[s] # <<>> /\ Last(candles[s]).t = now
           c == IF open THEN Candle(now, Last(candles[s]).v + 1) ELSE Candle(now, 1)
           rest == IF open THEN Front(candles[s]) ELSE candles[s]
<1>1. candles' = [candles EXCEPT ![s] = Append(rest, c)] /\ now' = now
  BY DEF Trade
<1>2. candles[s] \in Seq(Candles) /\ now \in Nat
  BY DEF TypeOK
<1>3. c.t = now /\ c \in Candles
  <2>1. open => Last(candles[s]) \in Candles
    BY <1>2 DEF Last
  <2> QED BY <1>2, <2>1 DEF Candle, Candles
<1> HIDE DEF c
<1>4. PICK m \in Nat : m = Len(candles[s])
  BY <1>2, LenProperties
<1>5. \A i \in 1 .. m : candles[s][i].t \in Int
  <2>1. \A i \in 1 .. m : candles[s][i] \in Candles
    BY <1>2, <1>4, ElementOf
  <2> QED BY <2>1 DEF Candles
<1>6. PICK n \in Nat :
         /\ rest \in Seq(Candles) /\ Len(rest) = n
         /\ \A i \in 1 .. n : i \in 1 .. m /\ rest[i] = candles[s][i]
         /\ \A i \in 1 .. n : rest[i].t < now
  <2>1. CASE open
    <3>1. m # 0 /\ candles[s][m].t = now
      BY <1>2, <1>4, <2>1, EmptySeq DEF Last
    <3>2. rest = SubSeq(candles[s], 1, m - 1)
      BY <1>4, <2>1 DEF Front
    <3>3. \A i \in 1 .. m - 1 : candles[s][i] \in Candles
      BY <1>2, <1>4, ElementOf
    <3>4. /\ rest \in Seq(Candles) /\ Len(rest) = m - 1
          /\ \A i \in 1 .. m - 1 : rest[i] = candles[s][i]
      <4>1. /\ SubSeq(candles[s], 1, m - 1) \in Seq(Candles)
            /\ Len(SubSeq(candles[s], 1, m - 1)) = IF 1 <= m - 1 THEN (m - 1) - 1 + 1 ELSE 0
            /\ \A i \in 1 .. (m - 1) - 1 + 1 :
                  SubSeq(candles[s], 1, m - 1)[i] = candles[s][1 + i - 1]
        BY <1>4, <3>3, SubSeqProperties
      <4>2. \A i \in 1 .. m - 1 : i \in 1 .. (m - 1) - 1 + 1 /\ 1 + i - 1 = i
        BY <1>4
      <4> HIDE DEF rest
      <4> QED BY <1>4, <3>1, <3>2, <4>1, <4>2
    <3>5. \A i \in 1 .. m - 1 : candles[s][i].t < candles[s][m].t
      BY <1>4, <3>1 DEF CandlesInOrder
    <3>6. m - 1 \in Nat /\ \A i \in 1 .. m - 1 : i \in 1 .. m
      BY <1>4, <3>1
    <3> QED BY <3>1, <3>4, <3>5, <3>6
  <2>2. CASE ~open
    <3>1. rest = candles[s]
      BY <2>2
    <3>2. ASSUME NEW i \in 1 .. m
          PROVE  candles[s][i].t < now
      <4>1. m # 0 /\ m \in 1 .. m /\ candles[s] # <<>>
        BY <1>2, <1>4, EmptySeq
      <4>2. candles[s][m].t # now
        BY <1>4, <2>2, <4>1 DEF Last
      <4>3. candles[s][m].t <= now
        BY <1>4, <4>1 DEF CandlesInOrder
      <4>4. i = m \/ candles[s][i].t < candles[s][m].t
        BY <1>4, <4>1 DEF CandlesInOrder
      <4> QED BY <1>2, <1>5, <4>1, <4>2, <4>3, <4>4
    <3> QED BY <1>2, <1>4, <3>1, <3>2
  <2> QED BY <2>1, <2>2
<1> HIDE DEF rest, open
<1>7. /\ candles'[s] = Append(rest, c)
      /\ \A u \in Symbols \ {s} : candles'[u] = candles[u]
  BY <1>1 DEF TypeOK
<1>8. /\ Len(Append(rest, c)) = n + 1 /\ Append(rest, c)[n + 1] = c
      /\ \A i \in 1 .. n : Append(rest, c)[i] = rest[i]
  BY <1>3, <1>6, AppendProperties
<1>9. ASSUME NEW i \in 1 .. n + 1, NEW j \in 1 .. n + 1
      PROVE  /\ 0 <= candles'[s][i].t /\ candles'[s][i].t <= now
             /\ i < j => candles'[s][i].t < candles'[s][j].t
  <2>1. \A k \in 1 .. n : candles'[s][k] = candles[s][k] /\ candles'[s][k].t < now
                          /\ candles'[s][k].t \in Int /\ k \in 1 .. m
                          /\ 0 <= candles'[s][k].t
    <3>1. \A k \in 1 .. m : 0 <= candles[s][k].t
      BY <1>4 DEF CandlesInOrder
    <3> QED BY <1>5, <1>6, <1>7, <1>8, <3>1
  <2>2. candles'[s][n + 1].t = now
    BY <1>3, <1>7, <1>8
  <2>3. 0 <= candles'[s][i].t /\ candles'[s][i].t <= now
    <3>1. CASE i = n + 1
      BY <1>2, <2>2, <3>1
    <3>2. CASE i \in 1 .. n
      BY <1>2, <2>1, <3>2
    <3> QED BY <3>1, <3>2
  <2>4. ASSUME i < j
        PROVE  candles'[s][i].t < candles'[s][j].t
    <3>1. i \in 1 .. n
      BY <2>4
    <3>2. CASE j = n + 1
      BY <2>1, <2>2, <3>1, <3>2
    <3>3. CASE j \in 1 .. n
      <4>1. candles[s][i].t < candles[s][j].t
        BY <1>4, <2>1, <2>4, <3>1, <3>3 DEF CandlesInOrder
      <4> QED BY <2>1, <3>1, <3>3, <4>1
    <3> QED BY <3>2, <3>3
  <2> QED BY <2>3, <2>4
<1> QED BY <1>1, <1>7, <1>8, <1>9 DEF CandlesInOrder

LEMMA TradeHistory ==
    ASSUME TypeOK, HistoryInv, NEW s \in Symbols, Trade(s)
    PROVE  HistoryInv'
<1>1. /\ UNCHANGED <<now, subs, scanned, scans, auto, history, progress, events>>
      /\ inbox' # inbox => s \in served
  BY DEF Trade, feedVars, engineVars
<1>2. served \in SUBSET subs /\ inbox \in Seq(Pushes) /\ now \in Nat
  BY DEF TypeOK
<1>3. \A i \in 1 .. Len(inbox') :
          \/ i \in 1 .. Len(inbox) /\ inbox'[i] = inbox[i]
          \/ inbox'[i].s = s /\ inbox'[i].c.t = now /\ s \in subs
  <2>1. CASE inbox' = inbox
    BY <2>1
  <2>2. CASE inbox' # inbox
    <3>1. PICK q \in Pushes : q.s = s /\ q.c.t = now /\ inbox' = Append(inbox, q)
      BY <2>2, TradeType
    <3>2. /\ Len(inbox') = Len(inbox) + 1 /\ Len(inbox) \in Nat
          /\ inbox'[Len(inbox) + 1] = q
          /\ \A i \in 1 .. Len(inbox) : inbox'[i] = inbox[i]
      BY <1>2, <3>1, AppendProperties, LenProperties
    <3>3. \A i \in 1 .. Len(inbox') : i \in 1 .. Len(inbox) \/ i = Len(inbox) + 1
      BY <3>2
    <3> QED BY <1>1, <1>2, <2>2, <3>1, <3>2, <3>3
  <2> QED BY <2>1, <2>2
<1>4. CandlesInOrder'
  BY TradeCandles DEF HistoryInv
<1>5. HistoryType' /\ EventsInOrder' /\ HistorySorted'
  BY <1>1 DEF HistoryInv, HistoryType, EventsInOrder, HistorySorted, Sorted
<1>6. ScannedFirst'
  BY <1>1, <1>3 DEF HistoryInv, ScannedFirst
<1>7. HistoryBehind'
  <2>1. ASSUME NEW u \in Symbols, scans[u] <= 1, NEW i \in 1 .. Len(inbox'),
               inbox'[i].s = u
        PROVE  AtMost(u, inbox'[i].c.t)
    BY <1>3, <2>1 DEF HistoryInv, HistoryBehind
  <2> QED BY <1>1, <2>1 DEF HistoryInv, HistoryBehind, AtMost
<1> QED BY <1>4, <1>5, <1>6, <1>7 DEF HistoryInv

\* A push puts no bar into the queue that is older than those before it, and takes
\* the place of the candle in progress, which it is not older than.
LEMMA PumpHistory ==
    ASSUME TypeOK, OrderInv, HistoryInv, Pump
    PROVE  HistoryInv'
<1> DEFINE p == Head(inbox).s
           d == Head(inbox).c
<1>1. /\ UNCHANGED <<now, candles, subs, scanned, scans, auto, history>>
      /\ progress' = [progress EXCEPT ![p] = d]
      /\ \/ /\ RollsOver(p, d)
            /\ events' = Append(events, [s |-> p, bar |-> progress[p]])
         \/ events' = Append(events, [s |-> p, bar |-> NoCandle])
  BY DEF Pump, ClosedBar, exchangeVars, engineVars
<1>2. /\ Len(inbox) \in Nat \ {0} /\ inbox[1].s = p /\ inbox[1].c = d
      /\ Len(inbox') = Len(inbox) - 1
      /\ \A i \in 1 .. Len(inbox') : inbox'[i] = inbox[i + 1]
      /\ p \in Symbols /\ d \in Candles
  BY PumpTakes
<1> HIDE DEF p, d
<1>3. PICK s \in Symbols : s = p
  BY <1>2
<1>4. PICK c \in Candles : c = d
  BY <1>2
<1>5. PICK bar \in Candles :
         /\ events' = Append(events, [s |-> s, bar |-> bar])
         /\ bar # NoCandle => bar = progress[s] /\ bar.t < c.t
  <2>1. CASE RollsOver(p, d) /\ events' = Append(events, [s |-> p, bar |-> progress[p]])
    BY <1>3, <1>4, <2>1 DEF RollsOver, TypeOK
  <2>2. CASE events' = Append(events, [s |-> p, bar |-> NoCandle])
    BY <1>3, <2>2, NoCandleType
  <2> QED BY <1>1, <2>1, <2>2
<1> DEFINE e == [s |-> s, bar |-> bar]
<1>6. /\ e.s = s /\ e.bar = bar /\ e \in Events /\ events' = Append(events, e)
  BY <1>5 DEF Events
<1> HIDE DEF e
<1>7. PICK n \in Nat : n = Len(events)
  BY LenProperties DEF TypeOK
<1>8. /\ Len(events') = n + 1 /\ events'[n + 1] = e
      /\ \A i \in 1 .. n : events'[i] = events[i]
  BY <1>6, <1>7, AppendProperties DEF TypeOK
<1>9. \A i \in 1 .. n + 1 : i = n + 1 \/ i \in 1 .. n
  OBVIOUS
<1>10. /\ progress'[s] = c /\ \A u \in Symbols \ {s} : progress'[u] = progress[u]
       /\ progress' \in [Symbols -> Candles]
  BY <1>1, <1>3, <1>4 DEF TypeOK
<1>11. 1 \in 1 .. Len(inbox) /\ inbox[1].s = s /\ inbox[1].c = c
  BY <1>2, <1>3, <1>4
<1>12. \A i \in 1 .. Len(inbox') : i + 1 \in 1 .. Len(inbox) /\ inbox'[i] = inbox[i + 1]
  BY <1>2
<1>13. /\ c.t \in Int /\ \A u \in Symbols : progress[u].t \in Int
       /\ progress[s].t <= c.t
  <2>1. progress[s].t <= c.t
    BY <1>11 DEF OrderInv, ProgressBehind
  <2> QED BY <2>1, TimesAreIntegers DEF Candles
<1>14. \A i \in 1 .. n : /\ events[i].s \in Symbols /\ events[i].bar.t \in Int
                         /\ IsBar(events[i]) =>
                               events[i].bar.t <= progress[events[i].s].t
  BY <1>7, HistoryTimes DEF HistoryInv, EventsInOrder
<1>15. EventsInOrder'
  <2>1. ASSUME NEW i \in 1 .. n + 1, IsBar(events'[i])
        PROVE  events'[i].bar.t <= progress'[events'[i].s].t
    <3>1. CASE i = n + 1
      <4>1. bar # NoCandle /\ events'[i].bar = bar /\ events'[i].s = s
        BY <1>6, <1>8, <2>1, <3>1 DEF IsBar
      <4> QED BY <1>5, <1>10, <1>13, <4>1
    <3>2. CASE i \in 1 .. n
      <4>1. /\ events'[i] = events[i] /\ events[i].bar.t <= progress[events[i].s].t
            /\ events[i].s \in Symbols /\ events[i].bar.t \in Int
        BY <1>8, <1>14, <2>1, <3>2
      <4>2. CASE events[i].s = s
        BY <1>10, <1>13, <4>1, <4>2
      <4>3. CASE events[i].s # s
        BY <1>10, <4>1, <4>3
      <4> QED BY <4>2, <4>3
    <3> QED BY <1>9, <3>1, <3>2
  <2>2. ASSUME NEW i \in 1 .. n + 1, NEW j \in 1 .. n + 1, i < j,
               events'[i].s = events'[j].s, IsBar(events'[i]), IsBar(events'[j])
        PROVE  events'[i].bar.t <= events'[j].bar.t
    <3>1. i \in 1 .. n
      BY <2>2
    <3>2. CASE j = n + 1
      <4>1. bar # NoCandle /\ events'[j].bar = bar /\ events'[i].s = s
        BY <1>6, <1>8, <2>2, <3>2 DEF IsBar
      <4> QED BY <1>5, <1>8, <1>14, <2>2, <3>1, <4>1
    <3>3. CASE j \in 1 .. n
      BY <1>7, <1>8, <2>2, <3>1, <3>3 DEF HistoryInv, EventsInOrder
    <3> QED BY <1>9, <3>2, <3>3
  <2> QED BY <1>8, <2>1, <2>2 DEF EventsInOrder
<1>16. HistoryType' /\ HistorySorted' /\ CandlesInOrder'
  BY <1>1 DEF HistoryInv, HistoryType, HistorySorted, Sorted, CandlesInOrder
<1>17. ScannedFirst'
  <2>1. auto /\ scans[s] = 0 => FALSE
    BY <1>11 DEF HistoryInv, ScannedFirst
  <2>2. ASSUME auto, NEW u \in Symbols, scans[u] = 0
        PROVE  /\ u \notin subs /\ u \notin scanned
               /\ history[u] = <<>> /\ progress'[u] = NoCandle
               /\ \A i \in 1 .. Len(inbox') : inbox'[i].s # u
               /\ \A i \in 1 .. Len(events') : events'[i].s # u
    <3>1. u # s
      BY <2>1, <2>2
    <3>2. /\ u \notin subs /\ u \notin scanned
          /\ history[u] = <<>> /\ progress[u] = NoCandle
          /\ \A i \in 1 .. Len(inbox) : inbox[i].s # u
          /\ \A i \in 1 .. n : events[i].s # u
      BY <1>7, <2>2 DEF HistoryInv, ScannedFirst
    <3>3. \A i \in 1 .. n + 1 : events'[i].s # u
      BY <1>6, <1>8, <1>9, <3>1, <3>2
    <3> QED BY <1>8, <1>10, <1>12, <3>1, <3>2, <3>3
  <2> QED BY <1>1, <2>2 DEF ScannedFirst
<1>18. HistoryBehind'
  <2>1. ASSUME NEW u \in Symbols, scans[u] <= 1
        PROVE  /\ AtMost(u, now)
               /\ progress'[u] # NoCandle => AtMost(u, progress'[u].t)
               /\ \A i \in 1 .. Len(inbox') : inbox'[i].s = u => AtMost(u, inbox'[i].c.t)
               /\ \A i \in 1 .. Len(events') :
                     events'[i].s = u /\ IsBar(events'[i]) => AtMost(u, events'[i].bar.t)
    <3>1. /\ AtMost(u, now)
          /\ progress[u] # NoCandle => AtMost(u, progress[u].t)
          /\ \A i \in 1 .. Len(inbox) : inbox[i].s = u => AtMost(u, inbox[i].c.t)
          /\ \A i \in 1 .. n :
                events[i].s = u /\ IsBar(events[i]) => AtMost(u, events[i].bar.t)
      BY <1>7, <2>1 DEF HistoryInv, HistoryBehind
    <3>2. progress'[u] # NoCandle => AtMost(u, progress'[u].t)
      <4>1. CASE u = s
        <5>1. AtMost(s, c.t)
          BY <1>11, <3>1, <4>1
        <5> QED BY <1>10, <4>1, <5>1
      <4>2. CASE u # s
        BY <1>10, <3>1, <4>2
      <4> QED BY <4>1, <4>2
    <3>3. \A i \in 1 .. n + 1 :
             events'[i].s = u /\ IsBar(events'[i]) => AtMost(u, events'[i].bar.t)
      <4>1. ASSUME u = s, bar # NoCandle
            PROVE  AtMost(u, bar.t)
        BY <1>5, <3>1, <4>1
      <4> QED BY <1>6, <1>8, <1>9, <3>1, <4>1 DEF IsBar
    <3> QED BY <1>8, <1>12, <3>1, <3>2, <3>3
  <2> QED BY <1>1, <2>1 DEF HistoryBehind, AtMost
<1> QED BY <1>15, <1>16, <1>17, <1>18 DEF HistoryInv

\* The engine takes an event: its bar is not older than the history, nor newer than
\* what comes after it.
LEMMA HandleHistory ==
    ASSUME TypeOK, OrderInv, HistoryInv, HandleEvent
    PROVE  HistoryInv'
<1> DEFINE first == Head(events)
<1>1. /\ events # <<>> /\ events' = Tail(events)
      /\ UNCHANGED <<now, candles, subs, inbox, progress, scanned, scans, auto>>
      /\ IF first.bar = NoCandle THEN UNCHANGED history
                                 ELSE Remember(first.s, <<first.bar>>)
  BY DEF HandleEvent, exchangeVars, clientVars
<1>2. events \in Seq(Events)
  BY DEF TypeOK
<1>3. PICK n \in Nat : n = Len(events')
  BY <1>1, <1>2, HeadTailProperties, LenProperties
<1>4. /\ Len(events) = n + 1 /\ first = events[1] /\ first \in Events
      /\ \A i \in 1 .. n : events'[i] = events[i + 1]
  BY <1>1, <1>2, <1>3, HeadTailProperties, EmptySeq, LenProperties
<1> HIDE DEF first
<1>5. PICK e \in Events : e = first
  BY <1>4
<1>6. PICK s \in Symbols, bar \in Candles : s = e.s /\ bar = e.bar
  BY DEF Events
<1>7. /\ events[1] = e /\ 1 \in 1 .. Len(events)
      /\ \A i \in 1 .. n : i + 1 \in 1 .. Len(events) /\ 1 < i + 1
  BY <1>4, <1>5
<1>8. CandlesInOrder'
  BY <1>1 DEF HistoryInv, CandlesInOrder
<1>9. EventsInOrder'
  <2>1. \A i \in 1 .. n : IsBar(events'[i])
            => events'[i].bar.t <= progress'[events'[i].s].t
    BY <1>1, <1>4, <1>7 DEF HistoryInv, EventsInOrder
  <2>2. ASSUME NEW i \in 1 .. n, NEW j \in 1 .. n, i < j,
               events'[i].s = events'[j].s, IsBar(events'[i]), IsBar(events'[j])
        PROVE  events'[i].bar.t <= events'[j].bar.t
    <3>1. i + 1 < j + 1
      BY <2>2
    <3> QED BY <1>4, <1>7, <2>2, <3>1 DEF HistoryInv, EventsInOrder
  <2> QED BY <1>3, <2>1, <2>2 DEF EventsInOrder
<1>10. CASE bar = NoCandle
  <2>1. UNCHANGED history
    BY <1>1, <1>5, <1>6, <1>10
  <2>2. HistoryType' /\ HistorySorted'
    BY <1>1, <2>1 DEF HistoryInv, HistoryType, HistorySorted, Sorted
  <2>3. ScannedFirst'
    BY <1>1, <1>3, <1>4, <1>7, <2>1 DEF HistoryInv, ScannedFirst
  <2>4. HistoryBehind'
    BY <1>1, <1>3, <1>4, <1>7, <2>1 DEF HistoryInv, HistoryBehind, AtMost
  <2> QED BY <1>8, <1>9, <2>2, <2>3, <2>4 DEF HistoryInv
<1>11. CASE bar # NoCandle
  <2> DEFINE new == <<bar>>
  <2>1. Remember(s, new) /\ IsBar(e)
    BY <1>1, <1>5, <1>6, <1>11 DEF IsBar
  <2>2. new \in Seq(Candles) /\ Len(new) = 1 /\ new[1] = bar
    OBVIOUS
  <2> HIDE DEF new
  <2>3. /\ history' \in [Symbols -> Seq(Candles)]
        /\ \A u \in Symbols \ {s} : history'[u] = history[u]
        /\ \A k \in 1 .. Len(history'[s]) :
              \/ \E i \in 1 .. Len(history[s]) : history'[s][k] = history[s][i]
              \/ history'[s][k] = bar
        /\ (/\ Sorted(history[s]) /\ Sorted(new)
            /\ \A i \in 1 .. Len(history[s]) : \A j \in 1 .. Len(new) :
                  history[s][i].t <= new[j].t)
           => Sorted(history'[s])
    BY <2>1, <2>2, RememberKeeps DEF HistoryInv
  <2>4. HistoryType'
    BY <1>1, <2>3 DEF HistoryInv, HistoryType
  <2>5. /\ bar.t \in Int /\ bar.t <= progress[s].t /\ progress[s].t \in Int
        /\ progress[s].t <= now /\ now \in Int
        /\ \A i \in 1 .. Len(inbox) :
              inbox[i].s = s => progress[s].t <= inbox[i].c.t /\ inbox[i].c.t \in Int
        /\ \A i \in 1 .. n : events'[i].s = s /\ IsBar(events'[i])
              => bar.t <= events'[i].bar.t
    <3>1. bar.t <= progress[s].t
      BY <1>6, <1>7, <2>1 DEF HistoryInv, EventsInOrder
    <3>2. \A i \in 1 .. n : events'[i].s = s /\ IsBar(events'[i])
              => bar.t <= events'[i].bar.t
      BY <1>4, <1>6, <1>7, <2>1 DEF HistoryInv, EventsInOrder
    <3>3. bar.t \in Int
      BY DEF Candles
    <3> QED
      BY <3>1, <3>2, <3>3, TimesAreIntegers DEF OrderInv, ProgressNotAhead, ProgressBehind
  <2>6. ScannedFirst'
    <3>1. ~(auto /\ scans[s] = 0)
      BY <1>6, <1>7 DEF HistoryInv, ScannedFirst
    <3> QED BY <1>1, <1>3, <1>4, <1>7, <2>3, <3>1 DEF HistoryInv, ScannedFirst
  <2>7. HistorySorted'
    <3>1. ASSUME scans[s] <= 1
          PROVE  Sorted(history'[s])
      <4>1. AtMost(s, bar.t) /\ Sorted(history[s])
        BY <1>6, <1>7, <2>1, <3>1 DEF HistoryInv, HistoryBehind, HistorySorted
      <4>2. Sorted(new)
        BY <2>2 DEF Sorted
      <4>3. \A i \in 1 .. Len(history[s]) : \A j \in 1 .. Len(new) :
                history[s][i].t <= new[j].t
        BY <2>2, <4>1 DEF AtMost
      <4> QED BY <2>3, <4>1, <4>2, <4>3
    <3> QED BY <1>1, <2>3, <3>1 DEF HistoryInv, HistorySorted, Sorted
  <2>8. HistoryBehind'
    <3>1. ASSUME NEW u \in Symbols \ {s}, scans[u] <= 1
          PROVE  /\ AtMost(u, now)
                 /\ progress[u] # NoCandle => AtMost(u, progress[u].t)
                 /\ \A i \in 1 .. Len(inbox) : inbox[i].s = u => AtMost(u, inbox[i].c.t)
                 /\ \A i \in 1 .. n :
                       events'[i].s = u /\ IsBar(events'[i]) => AtMost(u, events'[i].bar.t)
      BY <1>4, <1>7, <3>1 DEF HistoryInv, HistoryBehind
    <3>2. ASSUME scans[s] <= 1, NEW t \in Int, bar.t <= t, AtMost(s, t)
          PROVE  \A k \in 1 .. Len(history'[s]) : history'[s][k].t <= t
      BY <2>3, <3>2 DEF AtMost
    <3>3. ASSUME scans[s] <= 1
          PROVE  /\ AtMost(s, now)
                 /\ progress[s] # NoCandle => AtMost(s, progress[s].t)
                 /\ \A i \in 1 .. Len(inbox) : inbox[i].s = s => AtMost(s, inbox[i].c.t)
                 /\ \A i \in 1 .. n :
                       events'[i].s = s /\ IsBar(events'[i]) => AtMost(s, events'[i].bar.t)
      BY <1>4, <1>7, <3>3 DEF HistoryInv, HistoryBehind
    <3>4. \A i \in 1 .. n : events'[i].bar.t \in Int
      BY <1>4, <1>7, HistoryTimes DEF HistoryInv
    <3>5. bar.t <= now /\ \A i \in 1 .. Len(inbox) : inbox[i].s = s => bar.t <= inbox[i].c.t
      BY <2>5
    <3>6. ASSUME NEW u \in Symbols, scans[u] <= 1
          PROVE  /\ AtMost(u, now)'
                 /\ progress'[u] # NoCandle => AtMost(u, progress[u].t)'
                 /\ \A i \in 1 .. Len(inbox') : inbox'[i].s = u => AtMost(u, inbox[i].c.t)'
                 /\ \A i \in 1 .. Len(events') :
                       events'[i].s = u /\ IsBar(events'[i]) => AtMost(u, events[i].bar.t)'
      <4>1. CASE u # s
        BY <1>1, <1>3, <2>3, <3>1, <3>6, <4>1 DEF AtMost
      <4>2. CASE u = s
        <5>1. \A k \in 1 .. Len(history'[s]) : history'[s][k].t <= now
          BY <2>5, <3>2, <3>3, <3>5, <3>6, <4>2
        <5>2. progress[s] # NoCandle =>
                 \A k \in 1 .. Len(history'[s]) : history'[s][k].t <= progress[s].t
          BY <2>5, <3>2, <3>3, <3>6, <4>2
        <5>3. \A i \in 1 .. Len(inbox) : inbox[i].s = s =>
                 \A k \in 1 .. Len(history'[s]) : history'[s][k].t <= inbox[i].c.t
          BY <2>5, <3>2, <3>3, <3>5, <3>6, <4>2
        <5>4. \A i \in 1 .. n : events'[i].s = s /\ IsBar(events'[i]) =>
                 \A k \in 1 .. Len(history'[s]) : history'[s][k].t <= events'[i].bar.t
          BY <2>5, <3>2, <3>3, <3>4, <3>6, <4>2
        <5> QED BY <1>1, <1>3, <4>2, <5>1, <5>2, <5>3, <5>4 DEF AtMost
      <4> QED BY <4>1, <4>2
    <3> QED BY <1>1, <3>6 DEF HistoryBehind
  <2> QED BY <1>8, <1>9, <2>4, <2>6, <2>7, <2>8 DEF HistoryInv
<1> QED BY <1>10, <1>11

\* The first scan of a coin fills an empty history, before anything can arrive.
LEMMA ScanHistory ==
    ASSUME TypeOK, HistoryInv, NEW s \in Symbols, Scan(s)
    PROVE  HistoryInv'
<1>1. /\ auto /\ scans' = [scans EXCEPT ![s] = @ + 1]
      /\ UNCHANGED <<now, candles, subs, inbox, progress, events, auto>>
  BY DEF Scan, exchangeVars, clientVars, feedVars
<1>2. PICK T : Remember(s, CandlesOf(s, T)) /\ scanned' \in SUBSET {s}
  BY DEF Scan
<1> DEFINE P == {i \in DOMAIN candles[s] : candles[s][i].t \in T}
           new == CandlesOf(s, T)
<1>3. candles[s] \in Seq(Candles) /\ now \in Nat
  BY DEF TypeOK
<1>4. P \in SUBSET (1 .. Len(candles[s])) /\ new = AtPlaces(candles[s], P)
  BY <1>3 DEF CandlesOf
<1>5. Remember(s, new)
  BY <1>2
<1> HIDE DEF P, new
<1>6. new \in Seq(Candles) /\ Len(new) = Cardinality(P)
  BY <1>3, <1>4, AtPlacesOrder
<1>7. PICK place \in [1 .. Cardinality(P) -> P] :
         /\ \A n \in 1 .. Cardinality(P) : new[n] = candles[s][place[n]]
         /\ \A n, k \in 1 .. Cardinality(P) : n < k => place[n] < place[k]
  BY <1>3, <1>4, AtPlacesOrder
<1>8. \A n \in 1 .. Len(new) :
          /\ place[n] \in 1 .. Len(candles[s]) /\ new[n] = candles[s][place[n]]
          /\ new[n].t \in Int /\ new[n].t <= now
  <2>1. \A n \in 1 .. Len(new) :
            place[n] \in 1 .. Len(candles[s]) /\ new[n] = candles[s][place[n]]
    BY <1>4, <1>6, <1>7
  <2>2. \A i \in 1 .. Len(candles[s]) : candles[s][i].t \in Int /\ candles[s][i].t <= now
    BY HistoryTimes DEF HistoryInv, CandlesInOrder
  <2> QED BY <2>1, <2>2
<1>9. Sorted(new)
  <2>1. ASSUME NEW i \in 1 .. Len(new), NEW j \in 1 .. Len(new), i < j
        PROVE  new[i].t <= new[j].t
    <3>1. place[i] < place[j]
      BY <1>6, <1>7, <2>1
    <3>2. candles[s][place[i]].t < candles[s][place[j]].t
      BY <1>8, <3>1 DEF HistoryInv, CandlesInOrder
    <3>3. /\ new[i] = candles[s][place[i]] /\ new[j] = candles[s][place[j]]
          /\ new[i].t \in Int /\ new[j].t \in Int
      BY <1>8
    <3>4. new[i].t < new[j].t
      BY <3>2, <3>3
    <3> QED BY <3>3, <3>4
  <2> QED BY <2>1 DEF Sorted
<1>10. /\ history' \in [Symbols -> Seq(Candles)]
       /\ \A u \in Symbols \ {s} : history'[u] = history[u]
       /\ \A k \in 1 .. Len(history'[s]) :
             \/ \E i \in 1 .. Len(history[s]) : history'[s][k] = history[s][i]
             \/ \E i \in 1 .. Len(new) : history'[s][k] = new[i]
       /\ (/\ Sorted(history[s]) /\ Sorted(new)
           /\ \A i \in 1 .. Len(history[s]) : \A j \in 1 .. Len(new) :
                 history[s][i].t <= new[j].t)
          => Sorted(history'[s])
  BY <1>5, <1>6, RememberKeeps DEF HistoryInv
<1>11. /\ scans' \in [Symbols -> Nat] /\ scans[s] \in Nat /\ scans'[s] = scans[s] + 1
       /\ \A u \in Symbols \ {s} : scans'[u] = scans[u]
  BY <1>1 DEF HistoryInv, HistoryType
<1>12. HistoryType' /\ CandlesInOrder' /\ EventsInOrder'
  BY <1>1, <1>10, <1>11 DEF HistoryInv, HistoryType, CandlesInOrder, EventsInOrder
<1>13. scans'[s] # 0
  BY <1>11
<1>14. ScannedFirst'
  BY <1>1, <1>2, <1>10, <1>11, <1>13 DEF HistoryInv, ScannedFirst
<1>15. ASSUME scans'[s] <= 1
       PROVE  /\ history[s] = <<>> /\ progress[s] = NoCandle
              /\ \A i \in 1 .. Len(inbox) : inbox[i].s # s
              /\ \A i \in 1 .. Len(events) : events[i].s # s
  <2>1. scans[s] = 0
    BY <1>11, <1>15
  <2> QED BY <1>1, <2>1 DEF HistoryInv, ScannedFirst
<1>16. HistorySorted'
  <2>1. ASSUME scans'[s] <= 1
        PROVE  Sorted(history'[s])
    <3>1. \A i : i \notin 1 .. Len(history[s])
      BY <1>15, <2>1
    <3> QED BY <1>9, <1>10, <3>1 DEF Sorted
  <2> QED BY <1>10, <1>11, <2>1 DEF HistoryInv, HistorySorted, Sorted
<1>17. HistoryBehind'
  <2>1. ASSUME scans'[s] <= 1, NEW k \in 1 .. Len(history'[s])
        PROVE  history'[s][k].t <= now
    <3>1. \A i : i \notin 1 .. Len(history[s])
      BY <1>15, <2>1
    <3> QED BY <1>8, <1>10, <3>1
  <2>2. ASSUME NEW u \in Symbols, scans'[u] <= 1
        PROVE  /\ AtMost(u, now)'
               /\ progress'[u] # NoCandle => AtMost(u, progress[u].t)'
               /\ \A i \in 1 .. Len(inbox') : inbox'[i].s = u => AtMost(u, inbox[i].c.t)'
               /\ \A i \in 1 .. Len(events') :
                     events'[i].s = u /\ IsBar(events'[i]) => AtMost(u, events[i].bar.t)'
    <3>1. CASE u = s
      BY <1>1, <1>15, <2>1, <2>2, <3>1 DEF AtMost
    <3>2. CASE u # s
      BY <1>1, <1>10, <1>11, <2>2, <3>2 DEF HistoryInv, HistoryBehind, AtMost
    <3> QED BY <3>1, <3>2
  <2> QED BY <2>2 DEF HistoryBehind
<1> QED BY <1>12, <1>14, <1>16, <1>17 DEF HistoryInv

LEMMA HistoryStep == TypeOK /\ OrderInv /\ HistoryInv /\ [Next]_vars => HistoryInv'
<1> SUFFICES ASSUME TypeOK, OrderInv, HistoryInv, [Next]_vars PROVE HistoryInv'
  OBVIOUS
<1>1. CASE Pump
  BY <1>1, PumpHistory
<1>2. CASE HandleEvent
  BY <1>2, HandleHistory
<1>3. ASSUME NEW s \in Symbols, Trade(s) PROVE HistoryInv'
  BY <1>3, TradeHistory
<1>4. ASSUME NEW s \in Symbols, Scan(s) PROVE HistoryInv'
  BY <1>4, ScanHistory
<1>5. CASE Tick
  <2>1. /\ now' = now + 1
        /\ UNCHANGED <<candles, subs, inbox, progress, events, scanned, scans, auto,
                       history>>
    BY <1>5 DEF Tick, clientVars, feedVars, engineVars
  <2>2. HistoryType' /\ EventsInOrder' /\ ScannedFirst' /\ HistorySorted'
    BY <2>1
    DEF HistoryInv, HistoryType, EventsInOrder, ScannedFirst, HistorySorted, Sorted
  <2>3. now \in Nat
    BY DEF TypeOK
  <2>4. CandlesInOrder'
    <3>1. ASSUME NEW s \in Symbols, NEW i \in 1 .. Len(candles[s]), NEW j \in 1 .. Len(candles[s])
          PROVE  /\ 0 <= candles[s][i].t /\ candles[s][i].t <= now + 1
                 /\ i < j => candles[s][i].t < candles[s][j].t
      <4>1. /\ 0 <= candles[s][i].t /\ candles[s][i].t <= now
            /\ (i < j => candles[s][i].t < candles[s][j].t)
            /\ candles[s][i].t \in Int
        BY HistoryTimes DEF HistoryInv, CandlesInOrder
      <4> QED BY <2>3, <4>1
    <3> QED BY <2>1, <3>1 DEF CandlesInOrder
  <2>5. HistoryBehind'
    <3>1. ASSUME NEW s \in Symbols, AtMost(s, now)
          PROVE  AtMost(s, now + 1)
      <4>1. \A k \in 1 .. Len(history[s]) : history[s][k].t \in Int
        BY HistoryTimes DEF HistoryInv
      <4> QED BY <2>3, <3>1, <4>1 DEF AtMost
    <3> QED BY <2>1, <3>1 DEF HistoryInv, HistoryBehind, AtMost
  <2> QED BY <2>2, <2>4, <2>5 DEF HistoryInv
<1>6. ASSUME NEW s \in Symbols, Select(s) PROVE HistoryInv'
  <2>1. /\ s \in scanned /\ scanned' = {} /\ subs' \in {subs, subs \union {s}}
        /\ UNCHANGED <<now, candles, inbox, progress, events, scans, auto, history>>
    BY <1>6 DEF Select, EnsureSymbols, Subscribe, exchangeVars, feedVars
  <2> QED
    BY <2>1
    DEF HistoryInv, HistoryType, CandlesInOrder, EventsInOrder, ScannedFirst,
        HistoryBehind, AtMost, HistorySorted, Sorted
<1>7. CASE Drop \/ Client \/ Pass \/ StartStream \/ EndRun \/ UNCHANGED vars
  <2>1. /\ scanned' \in SUBSET scanned
        /\ UNCHANGED <<now, candles, subs, inbox, progress, events, scans, auto, history>>
    BY <1>7
    DEF Drop, Client, Connect, Notice, Pass, StartStream, EndRun, vars, exchangeVars,
        clientVars, feedVars, engineVars
  <2> QED
    BY <2>1
    DEF HistoryInv, HistoryType, CandlesInOrder, EventsInOrder, ScannedFirst,
        HistoryBehind, AtMost, HistorySorted, Sorted
<1> QED BY <1>1, <1>2, <1>3, <1>4, <1>5, <1>6, <1>7 DEF Next

\* For any coins, lost connections, scans and lengths of the history: until a coin is
\* scanned a second time, the history its strategy reads is in order.
THEOREM HistoryStaysInOrder == Spec => []HistoryInOrder
<1>1. HistoryInv => HistoryInOrder
  <2>1. SUFFICES ASSUME HistoryInv, NEW s \in Symbols, scans[s] <= 1,
                        NEW i \in 1 .. Len(history[s]) - 1
                 PROVE  history[s][i].t <= history[s][i + 1].t
    BY DEF HistoryInOrder
  <2>2. PICK n \in Nat : n = Len(history[s])
    BY <2>1, LenProperties DEF HistoryInv, HistoryType
  <2>3. i \in 1 .. n /\ i + 1 \in 1 .. n /\ i < i + 1
    BY <2>1, <2>2
  <2> QED BY <2>1, <2>2, <2>3 DEF HistoryInv, HistorySorted, Sorted
<1> QED
  BY <1>1, HistoryInit, HistoryStep, OrderInit, OrderStep, TypeCorrect, PTL DEF Spec

--------------------------------------------------------------------------------
(* A scan gets the latest candles.                                         *)

\* A set of numbers that is not empty has a least one.
LEMMA HasLeast ==
    ASSUME NEW S \in SUBSET Nat, S # {}
    PROVE  \E e \in S : \A f \in S : e <= f
<1> DEFINE R == OpToRel(<, Nat)
<1>1. IsWellFoundedOn(R, Nat)
  BY NatLessThanWellFounded, Zenon
<1>2. ASSUME NEW y \in Nat, NEW x \in Nat, y < x
      PROVE  <<y, x>> \in R
  <2> DEFINE p == <<y, x>>
  <2>1. p \in Nat \X Nat
    OBVIOUS
  <2>2. p[1] = y /\ p[2] = x
    OBVIOUS
  <2>3. p[1] < p[2]
    BY <1>2, <2>2, Zenon
  <2> HIDE DEF p
  <2>4. p \in R
    BY <2>1, <2>3, Zenon DEF OpToRel
  <2> QED BY <2>4, Zenon DEF p
<1> HIDE DEF R
<1>3. PICK e \in S : \A f \in S : ~(<<f, e>> \in R)
  BY <1>1, WFMin, Zenon
<1>4. \A f \in S : ~(f < e)
  BY <1>2, <1>3, Zenon
<1> QED BY <1>4

\* With a bound it has a greatest one.
LEMMA HasGreatest ==
    ASSUME NEW m \in Nat, NEW S \in SUBSET (0 .. m), S # {}
    PROVE  \E e \in S : \A f \in S : f <= e
<1> DEFINE T == {m - f : f \in S}
<1>1. T \in SUBSET Nat /\ T # {}
  <2>1. ASSUME NEW f \in S PROVE m - f \in Nat
    <3>1. f \in 0 .. m
      OBVIOUS
    <3> QED BY <3>1
  <2> QED BY <2>1
<1>2. PICK d \in T : \A f \in T : d <= f
  BY <1>1, HasLeast
<1>3. PICK e \in S : d = m - e
  BY <1>2
<1>4. ASSUME NEW f \in S PROVE f <= e
  <2>1. m - e <= m - f /\ e \in Int /\ f \in Int
    BY <1>2, <1>3
  <2> QED BY <2>1
<1> QED BY <1>4

\* The sets of candles here are finite.
LEMMA CandlesFinite ==
    ASSUME NEW m \in Nat, NEW S \in SUBSET (0 .. m)
    PROVE  IsFiniteSet(S) /\ Cardinality(S) \in Nat
<1> DEFINE I == 0 .. m
<1>1. m \in Int /\ 0 \in Int
  OBVIOUS
<1>2. IsFiniteSet(I)
  BY <1>1, FS_Interval
<1> HIDE DEF I
<1>3. IsFiniteSet(S)
  <2>1. S \in SUBSET I
    BY DEF I
  <2> QED BY <1>2, <2>1, FS_Subset
<1> QED BY <1>3, FS_CardinalityType

LEMMA NewestIn == ASSUME NEW n, NEW S PROVE Newest(n, S) \in SUBSET S
BY DEF Newest

\* What is later than one of the newest candles is one of them.
LEMMA NewestUp ==
    ASSUME NEW m \in Nat, NEW S \in SUBSET (0 .. m), NEW n \in Int,
           NEW t \in Newest(n, S), NEW u \in S, t <= u
    PROVE  u \in Newest(n, S)
<1> DEFINE A == {x \in S : x > t}
           B == {x \in S : x > u}
<1>1. Cardinality(A) < n /\ t \in S
  BY DEF Newest
<1>2. A \in SUBSET (0 .. m) /\ B \in SUBSET A
  <2>1. \A x \in S : x \in Int
    OBVIOUS
  <2>2. t \in Int /\ u \in Int
    BY <1>1, <2>1, Zenon
  <2>3. A \in SUBSET S
    OBVIOUS
  <2>4. \A x \in B : x \in A
    BY <2>1, <2>2
  <2> QED BY <2>3, <2>4
<1> HIDE DEF A
<1>3. /\ IsFiniteSet(A) /\ Cardinality(A) \in Nat
      /\ Cardinality(B) \in Nat /\ Cardinality(B) <= Cardinality(A)
  <2> HIDE DEF B
  <2>1. B \in SUBSET (0 .. m)
    BY <1>2
  <2> QED BY <1>2, <2>1, CandlesFinite, FS_Subset
<1>4. Cardinality(B) < n
  BY <1>1, <1>3
<1> QED BY <1>4 DEF Newest

\* The newest are as many as asked for, or all there are.
LEMMA NewestAll ==
    ASSUME NEW m \in Nat, NEW S \in SUBSET (0 .. m), NEW n \in Nat,
           Cardinality(Newest(n, S)) < n
    PROVE  Newest(n, S) = S
<1> DEFINE T == S \ Newest(n, S)
<1>1. ASSUME T # {} PROVE FALSE
  <2>1. T \in SUBSET (0 .. m)
    OBVIOUS
  <2>2. PICK e \in T : \A f \in T : f <= e
    BY <1>1, <2>1, HasGreatest
  <2> DEFINE A == {x \in S : x > e}
  <2>3. A \in SUBSET Newest(n, S)
    <3>1. \A x \in S : x \in Int
      OBVIOUS
    <3>2. \A x \in T : ~(x > e)
      BY <2>1, <2>2, <3>1
    <3> QED BY <3>2
  <2>4. ~(Cardinality(A) < n)
    BY <2>2 DEF Newest
  <2>5. Newest(n, S) \in SUBSET (0 .. m)
    BY NewestIn
  <2> HIDE DEF A
  <2>6. Cardinality(A) \in Nat /\ Cardinality(A) <= Cardinality(Newest(n, S))
    BY <2>3, <2>5, CandlesFinite, FS_Subset
  <2>7. Cardinality(Newest(n, S)) \in Nat
    BY <2>5, CandlesFinite
  <2> QED BY <2>4, <2>6, <2>7
<1> QED BY <1>1, NewestIn

\* They are never more.
LEMMA NewestFew ==
    ASSUME NEW m \in Nat, NEW S \in SUBSET (0 .. m), NEW n \in Nat
    PROVE  Cardinality(Newest(n, S)) \in 0 .. n
<1> DEFINE N == Newest(n, S)
<1>1. N \in SUBSET S /\ N \in SUBSET (0 .. m) /\ N \in SUBSET Nat
  <2> HIDE DEF N
  <2>1. N \in SUBSET S
    BY NewestIn DEF N
  <2>2. \A x \in 0 .. m : x \in Nat
    OBVIOUS
  <2> QED BY <2>1, <2>2
<1>2. CASE N = {}
  BY <1>2, FS_EmptySet
<1>3. CASE N # {}
  <2> HIDE DEF N
  <2>1. PICK e \in N : \A f \in N : e <= f
    BY <1>1, <1>3, HasLeast
  <2> DEFINE A == {x \in S : x > e}
  <2>2. N \ {e} \in SUBSET A
    BY <1>1, <2>1
  <2>3. Cardinality(A) < n
    BY <2>1 DEF Newest, N
  <2>4. A \in SUBSET (0 .. m)
    OBVIOUS
  <2> HIDE DEF A
  <2>5. IsFiniteSet(A) /\ Cardinality(A) \in Nat /\ IsFiniteSet(N) /\ Cardinality(N) \in Nat
    BY <1>1, <2>4, CandlesFinite
  <2>6. Cardinality(N \ {e}) = Cardinality(N) - 1
    BY <2>1, <2>5, FS_RemoveElement
  <2>7. Cardinality(N \ {e}) <= Cardinality(A)
    BY <2>2, <2>5, FS_Subset
  <2>8. Cardinality(N) \in 0 .. n
    BY <2>3, <2>5, <2>6, <2>7
  <2> QED BY <2>8 DEF N
<1> QED BY <1>2, <1>3

\* Of the candles since some time the newest are newest ones of all.
LEMMA NewestSince ==
    ASSUME NEW m \in Nat, NEW C \in SUBSET (0 .. m), NEW W \in SUBSET C,
           \A w \in W, u \in C : w <= u => u \in W,
           NEW count \in Nat
    PROVE  \E n \in 0 .. count : Newest(count, W) = Newest(n, C)
<1> DEFINE N == Newest(count, C)
<1>0. \A t \in C : t \in Int
  OBVIOUS
<1>1. ASSUME NEW t \in W
      PROVE  {u \in W : u > t} = {u \in C : u > t}
  <2>1. \A u \in C : u > t => t <= u
    BY <1>0
  <2>2. \A u \in C : u > t => u \in W
    BY <2>1, Zenon
  <2> QED BY <2>2
<1>2. Newest(count, W) = W \intersect N
  BY <1>1 DEF Newest
<1>3. CASE W \in SUBSET N
  <2>1. W \in SUBSET (0 .. m) /\ N \in SUBSET (0 .. m)
    BY NewestIn
  <2>2. Cardinality(N) \in 0 .. count
    BY NewestFew
  <2>3. /\ IsFiniteSet(W) /\ Cardinality(W) \in Nat
        /\ Cardinality(W) <= Cardinality(N)
    <3> HIDE DEF N
    <3> QED BY <1>3, <2>1, CandlesFinite, FS_Subset
  <2>4. Cardinality(W) \in 0 .. count
    BY <2>2, <2>3
  <2>5. ASSUME NEW t \in W
        PROVE  Cardinality({u \in C : u > t}) < Cardinality(W)
    <3> DEFINE A == {u \in C : u > t}
    <3>1. A \in SUBSET (W \ {t})
      <4>1. A = {u \in W : u > t}
        BY <1>1
      <4>2. \A u \in W : u > t => u # t
        BY <1>0
      <4> QED BY <4>1, <4>2
    <3> HIDE DEF A
    <3>2. IsFiniteSet(W \ {t}) /\ Cardinality(W \ {t}) = Cardinality(W) - 1
      BY <2>3, <2>5, FS_RemoveElement
    <3>3. A \in SUBSET (0 .. m)
      BY <3>1
    <3>4. Cardinality(A) \in Nat /\ Cardinality(A) <= Cardinality(W \ {t})
      BY <3>1, <3>2, <3>3, CandlesFinite, FS_Subset
    <3>5. Cardinality(A) < Cardinality(W)
      BY <2>3, <3>2, <3>4
    <3> QED BY <3>5 DEF A
  <2>6. ASSUME NEW t \in C \ W
        PROVE  ~(Cardinality({u \in C : u > t}) < Cardinality(W))
    <3> DEFINE A == {u \in C : u > t}
    <3>1. W \in SUBSET A
      <4>1. \A u \in W : ~(u <= t)
        BY <2>6
      <4> QED BY <1>0, <2>6, <4>1
    <3>2. A \in SUBSET (0 .. m)
      OBVIOUS
    <3> HIDE DEF A
    <3>3. /\ Cardinality(A) \in Nat
          /\ Cardinality(W) <= Cardinality(A)
      BY <3>1, <3>2, CandlesFinite, FS_Subset
    <3>4. ~(Cardinality(A) < Cardinality(W))
      BY <2>3, <3>3
    <3> QED BY <3>4 DEF A
  <2>7. W = Newest(Cardinality(W), C)
    BY <2>5, <2>6 DEF Newest
  <2> QED BY <1>2, <1>3, <2>4, <2>7
<1>4. CASE ~(W \in SUBSET N)
  <2>1. PICK t \in W : t \notin N
    BY <1>4
  <2>2. ASSUME NEW x \in N PROVE x \in W
    <3>1. x \in C
      BY NewestIn
    <3>2. ~(x <= t)
      <4>1. t \in C /\ count \in Int
        OBVIOUS
      <4> QED BY <2>1, <2>2, <4>1, NewestUp
    <3>3. t <= x
      BY <1>0, <3>1, <3>2
    <3> QED BY <3>1, <3>3
  <2>3. Newest(count, W) = Newest(count, C)
    BY <1>2, <2>2
  <2> QED BY <2>3
<1> QED BY <1>3, <1>4

\* Asking for more brings the others as well.
LEMMA NewestMore ==
    ASSUME NEW m \in Nat, NEW S \in SUBSET (0 .. m), NEW n \in Int, NEW k \in Int, n <= k
    PROVE  Newest(n, S) \in SUBSET Newest(k, S)
<1>1. ASSUME NEW t \in Newest(n, S)
      PROVE  t \in Newest(k, S)
  <2> DEFINE A == {u \in S : u > t}
  <2>1. t \in S /\ Cardinality(A) < n
    BY DEF Newest
  <2>2. A \in SUBSET (0 .. m)
    OBVIOUS
  <2> HIDE DEF A
  <2>3. Cardinality(A) \in Nat
    BY <2>2, CandlesFinite
  <2>4. Cardinality(A) < k
    BY <2>1, <2>3
  <2> QED BY <2>1, <2>4 DEF A, Newest
<1> QED BY <1>1

\* The newest ones below a full page, together with it.
LEMMA NewestJoin ==
    ASSUME NEW m \in Nat, NEW S \in SUBSET (0 .. m), NEW n \in Nat, NEW k \in Nat,
           ~(Cardinality(Newest(n, S)) < n)
    PROVE  Newest(n + k, S) = Newest(n, S) \union Newest(k, S \ Newest(n, S))
<1> DEFINE B == Newest(n, S)
           R == S \ B
<1>1. B \in SUBSET S /\ B \in SUBSET (0 .. m) /\ R \in SUBSET (0 .. m)
  BY NewestIn
<1>2. IsFiniteSet(B) /\ Cardinality(B) = n
  <2>1. Cardinality(B) \in 0 .. n
    BY NewestFew
  <2>2. IsFiniteSet(B)
    <3> HIDE DEF B
    <3> QED BY <1>1, CandlesFinite
  <2> QED BY <2>1, <2>2
<1>3. B \in SUBSET Newest(n + k, S)
  BY NewestMore
<1>4. \A t \in S : t \in Int
  OBVIOUS
<1>5. ASSUME NEW t \in R
      PROVE  t \in Newest(n + k, S) <=> t \in Newest(k, R)
  <2> DEFINE A == {u \in S : u > t}
             D == {u \in R : u > t}
  <2>1. \A b \in B : b > t
    <3>1. \A b \in B : ~(b <= t)
      BY NewestUp
    <3> HIDE DEF B
    <3> QED BY <1>1, <1>4, <3>1 DEF R
  <2>2. A = B \union D /\ B \intersect D = {}
    <3> HIDE DEF B
    <3> QED BY <1>1, <2>1
  <2>3. D \in SUBSET (0 .. m)
    BY <1>1
  <2> HIDE DEF A, B, D, R
  <2>4. IsFiniteSet(D) /\ Cardinality(D) \in Nat
    BY <2>3, CandlesFinite
  <2>5. Cardinality(A) = n + Cardinality(D)
    <3>1. Cardinality(B \union D) =
              Cardinality(B) + Cardinality(D) - Cardinality(B \intersect D)
      BY <1>2, <2>4, FS_Union
    <3>2. Cardinality(B \intersect D) = 0
      BY <2>2, FS_EmptySet
    <3> QED BY <1>2, <2>2, <2>4, <3>1, <3>2
  <2>6. Cardinality(A) < n + k <=> Cardinality(D) < k
    BY <2>4, <2>5
  <2>7. t \in S
    BY DEF R
  <2> QED BY <2>6, <2>7 DEF A, D, Newest
<1>6. Newest(n + k, S) \in SUBSET S /\ Newest(k, R) \in SUBSET R
  BY NewestIn
<1> HIDE DEF B
<1>7. Newest(n + k, S) = B \union Newest(k, R)
  BY <1>3, <1>5, <1>6
<1> QED BY <1>7 DEF B

LEMMA PageArithmetic ==
    ASSUME NEW n \in Nat \ {0}, NEW k \in Nat
    PROVE  /\ (n - 1) * k \in Nat /\ n * k \in Nat
           /\ n * k = k + (n - 1) * k /\ k <= n * k
           /\ n = 1 => n * k = k
<1>1. PICK p \in Nat : p = n - 1
  OBVIOUS
<1>2. p * k \in Nat
  OBVIOUS
<1>3. n * k = k + p * k
  BY <1>1
<1> QED BY <1>1, <1>2, <1>3

\* The pages are the latest candles from start to end, as many as fit in them.
LEMMA PagesAreNewest ==
    ASSUME NEW m \in Nat, NEW C \in SUBSET (0 .. m),
           NEW start \in Int, NEW end \in Int
    PROVE  Pages(C, start, end) =
              Newest(MaxPages * PageLimit, {t \in C : start <= t /\ t <= end})
<1> DEFINE S(e) == {t \in C : start <= t /\ t <= e}
           Batch(e) == Newest(PageLimit, S(e))
           All(n, e) == Newest(n * PageLimit, S(e))
           Stops(n, e) ==
             n = 1 \/ Cardinality(Batch(e)) < PageLimit \/ Min(Batch(e)) <= start
           IsBack(b) ==
             b = [n \in 1 .. MaxPages |->
                    [e \in Int |-> IF Stops(n, e) THEN Batch(e)
                                   ELSE Batch(e) \union b[n - 1][Min(Batch(e)) - 1]]]
<1>1. /\ PageLimit \in Nat \ {0} /\ MaxPages \in Nat \ {0}
      /\ \A n \in 1 .. MaxPages : n \in Nat \ {0}
  BY PageAssumption
<1>2. \A e : /\ S(e) \in SUBSET (0 .. m)
            /\ \A t \in S(e) : t \in Int /\ start <= t /\ t <= e
  <2>1. \A t \in C : t \in Int
    OBVIOUS
  <2>2. ASSUME NEW e PROVE S(e) \in SUBSET C
    OBVIOUS
  <2>3. ASSUME NEW e, NEW t \in S(e)
        PROVE  t \in Int /\ start <= t /\ t <= e
    BY <2>1
  <2> HIDE DEF S
  <2> QED BY <2>2, <2>3
\* A page that is short is all there is; one that is not has an oldest candle, and
\* is all there is from that one on.
<1>3. ASSUME NEW e \in Int
      PROVE  /\ Batch(e) \in SUBSET S(e)
             /\ Cardinality(Batch(e)) < PageLimit => Batch(e) = S(e)
             /\ ~(Cardinality(Batch(e)) < PageLimit) =>
                   /\ Min(Batch(e)) \in S(e)
                   /\ Batch(e) = {t \in S(e) : Min(Batch(e)) <= t}
  <2> HIDE DEF S
  <2>1. S(e) \in SUBSET (0 .. m) /\ \A t \in S(e) : t \in Int
    BY <1>2
  <2>2. Batch(e) \in SUBSET S(e)
    BY NewestIn
  <2>3. Cardinality(Batch(e)) < PageLimit => Batch(e) = S(e)
    BY <1>1, <2>1, NewestAll
  <2>4. ASSUME ~(Cardinality(Batch(e)) < PageLimit)
        PROVE  /\ Min(Batch(e)) \in S(e)
               /\ Batch(e) = {t \in S(e) : Min(Batch(e)) <= t}
    <3> DEFINE B == Batch(e)
               least == Min(B)
    <3>1. B # {}
      <4>1. B = {} => Cardinality(B) = 0
        <5> HIDE DEF B
        <5> QED BY FS_EmptySet
      <4> QED BY <1>1, <2>4, <4>1
    <3>2. B \in SUBSET Nat
      <4>1. \A x \in 0 .. m : x \in Nat
        OBVIOUS
      <4> HIDE DEF B
      <4> QED BY <2>1, <2>2, <4>1 DEF B
    <3>3. least \in B /\ \A t \in B : least <= t
      <4> HIDE DEF B
      <4>1. \E x \in B : \A y \in B : x <= y
        BY <3>1, <3>2, HasLeast
      <4>2. least = CHOOSE x \in B : \A y \in B : x <= y
        BY DEF Min
      <4> QED BY <4>1, <4>2, Zenon
    <3>4. ASSUME NEW t \in S(e), least <= t
          PROVE  t \in B
      <4>1. PageLimit \in Int
        BY <1>1
      <4> HIDE DEF least
      <4> QED BY <2>1, <3>3, <3>4, <4>1, NewestUp
    <3> QED BY <2>2, <3>3, <3>4
  <2> QED BY <2>2, <2>3, <2>4
\* The page where the paging stops is all there is, or all that may be asked for.
<1>4. ASSUME NEW n \in 1 .. MaxPages, NEW e \in Int, Stops(n, e)
      PROVE  Batch(e) = All(n, e)
  <2>1. n \in Nat \ {0} /\ PageLimit \in Nat
    BY <1>1
  <2>2. n * PageLimit \in Nat /\ PageLimit <= n * PageLimit
        /\ (n = 1 => n * PageLimit = PageLimit)
    BY <2>1, PageArithmetic
  <2>3. CASE n = 1
    BY <2>2, <2>3
  <2>4. CASE n # 1
    <3>1. Batch(e) = S(e)
      <4>1. CASE Cardinality(Batch(e)) < PageLimit
        BY <1>3, <4>1
      <4>2. CASE ~(Cardinality(Batch(e)) < PageLimit)
        <5> DEFINE least == Min(Batch(e))
        <5>1. least <= start
          BY <1>4, <2>4, <4>2
        <5>2. least \in S(e) /\ Batch(e) = {t \in S(e) : least <= t}
          BY <1>3, <4>2
        <5> HIDE DEF least, Batch, S
        <5>3. \A t \in S(e) : t \in Int /\ start <= t
          BY <1>2
        <5>4. \A t \in S(e) : least <= t
          BY <5>1, <5>2, <5>3
        <5> QED BY <5>2, <5>4
      <4> QED BY <4>1, <4>2
    <3>2. S(e) \in SUBSET (0 .. m)
      BY <1>2
    <3> HIDE DEF S
    <3>3. Batch(e) \in SUBSET All(n, e)
      <4> DEFINE k == n * PageLimit
      <4>1. k \in Int /\ PageLimit \in Int /\ PageLimit <= k
        BY <2>1, <2>2
      <4> HIDE DEF k
      <4>2. Newest(PageLimit, S(e)) \in SUBSET Newest(k, S(e))
        BY <3>2, <4>1, NewestMore
      <4> QED BY <4>2 DEF k
    <3>4. All(n, e) \in SUBSET S(e)
      BY NewestIn
    <3> QED BY <3>1, <3>3, <3>4
  <2> QED BY <2>3, <2>4
\* Otherwise the pages before it bring what is older.
<1>5. ASSUME NEW n \in 1 .. MaxPages, NEW e \in Int, ~Stops(n, e)
      PROVE  /\ n - 1 \in 1 .. MaxPages /\ Min(Batch(e)) - 1 \in Int
             /\ All(n, e) = Batch(e) \union All(n - 1, Min(Batch(e)) - 1)
  <2> DEFINE least == Min(Batch(e))
  <2>1. least \in S(e) /\ Batch(e) = {t \in S(e) : least <= t}
    BY <1>3, <1>5
  <2>2. ~(Cardinality(Batch(e)) < PageLimit) /\ n - 1 \in 1 .. MaxPages
    BY <1>1, <1>5
  <2> HIDE DEF least
  <2>3. least \in Int /\ least <= e /\ least - 1 \in Int
    <3> HIDE DEF S, Batch
    <3> QED BY <1>2, <2>1
  <2>4. S(least - 1) = S(e) \ Batch(e)
    <3>1. \A t \in C : t \in Int
      OBVIOUS
    <3>2. \A t \in C : t <= least - 1 => t <= e
      BY <2>3, <3>1
    <3>3. \A t \in C : ~(least <= t) <=> t <= least - 1
      BY <2>3, <3>1
    <3> HIDE DEF Batch
    <3> QED BY <2>1, <3>2, <3>3, Zenon
  <2>5. S(e) \in SUBSET (0 .. m)
    BY <1>2
  <2>6. /\ n * PageLimit = PageLimit + (n - 1) * PageLimit
        /\ PageLimit \in Nat /\ (n - 1) * PageLimit \in Nat
    BY <1>1, PageArithmetic
  <2> DEFINE k == (n - 1) * PageLimit
  <2> HIDE DEF S, k
  <2>7. Newest(PageLimit + k, S(e)) = Batch(e) \union Newest(k, S(e) \ Batch(e))
    BY <2>2, <2>5, <2>6, NewestJoin DEF k
  <2>8. All(n, e) = Newest(PageLimit + k, S(e))
    BY <2>6 DEF k
  <2>9. All(n - 1, least - 1) = Newest(k, S(e) \ Batch(e))
    BY <2>4 DEF k
  <2> HIDE DEF Batch, All
  <2>10. All(n, e) = Batch(e) \union All(n - 1, least - 1)
    BY <2>7, <2>8, <2>9
  <2> QED BY <2>2, <2>3, <2>10 DEF least
<1> HIDE DEF S, Batch, All, Stops
\* So these candles satisfy the recursion, and nothing else does.
<1>6. \E b : IsBack(b)
  <2> DEFINE b == [n \in 1 .. MaxPages |-> [e \in Int |-> All(n, e)]]
  <2>1. ASSUME NEW n \in 1 .. MaxPages, NEW e \in Int
        PROVE  All(n, e) = IF Stops(n, e) THEN Batch(e)
                           ELSE Batch(e) \union b[n - 1][Min(Batch(e)) - 1]
    <3>1. CASE Stops(n, e)
      BY <1>4, <3>1
    <3>2. CASE ~Stops(n, e)
      <4> DEFINE k == Min(Batch(e)) - 1
      <4>1. n - 1 \in 1 .. MaxPages /\ k \in Int
            /\ All(n, e) = Batch(e) \union All(n - 1, k)
        BY <1>5, <3>2
      <4> HIDE DEF k
      <4>2. b[n - 1][k] = All(n - 1, k)
        BY <4>1
      <4> HIDE DEF b
      <4> QED BY <3>2, <4>1, <4>2 DEF k
    <3> QED BY <3>1, <3>2
  <2>2. IsBack(b)
    BY <2>1
  <2> QED BY <2>2
<1>7. ASSUME NEW b, IsBack(b)
      PROVE  \A n \in 1 .. MaxPages : \A e \in Int : b[n][e] = All(n, e)
  <2> DEFINE Wrong == {n \in 1 .. MaxPages : \E e \in Int : b[n][e] # All(n, e)}
  <2>1. ASSUME NEW n \in 1 .. MaxPages, NEW e \in Int
        PROVE  b[n][e] = IF Stops(n, e) THEN Batch(e)
                         ELSE Batch(e) \union b[n - 1][Min(Batch(e)) - 1]
    <3> DEFINE Turn(k) ==
          [d \in Int |-> IF Stops(k, d) THEN Batch(d)
                         ELSE Batch(d) \union b[k - 1][Min(Batch(d)) - 1]]
    <3>1. b = [k \in 1 .. MaxPages |-> Turn(k)]
      BY <1>7, Zenon
    <3>2. b[n] = Turn(n)
      <4> HIDE DEF Turn
      <4> QED BY <3>1, Zenon
    <3> QED BY <3>2, Zenon
  <2>2. ASSUME Wrong # {} PROVE FALSE
    <3>1. Wrong \in SUBSET Nat
      OBVIOUS
    <3>2. PICK n \in Wrong : \A k \in Wrong : n <= k
      BY <2>2, <3>1, HasLeast
    <3>3. PICK e \in Int : b[n][e] # All(n, e)
      BY <3>2
    <3>4. n \in 1 .. MaxPages
      BY <3>2
    <3>5. ~Stops(n, e)
      BY <1>4, <2>1, <3>3, <3>4
    <3> DEFINE p == Min(Batch(e)) - 1
    <3>6. n - 1 \in 1 .. MaxPages /\ p \in Int
          /\ All(n, e) = Batch(e) \union All(n - 1, p)
      BY <1>5, <3>4, <3>5
    <3>7. b[n][e] = Batch(e) \union b[n - 1][p]
      BY <2>1, <3>4, <3>5
    <3> HIDE DEF p
    <3>8. b[n - 1][p] # All(n - 1, p)
      BY <3>3, <3>6, <3>7
    <3>9. n - 1 \in Wrong
      BY <3>6, <3>8
    <3> QED BY <3>2, <3>4, <3>9
  <2> QED BY <2>2
<1>8. PICK b : b = (CHOOSE f : IsBack(f))
  OBVIOUS
<1>9. IsBack(b)
  <2> HIDE DEF IsBack
  <2> QED BY <1>6, <1>8
<1>10. b[MaxPages][end] = All(MaxPages, end)
  <2> HIDE DEF IsBack
  <2>1. MaxPages \in 1 .. MaxPages
    BY <1>1
  <2> QED BY <1>7, <1>9, <2>1
<1>11. Pages(C, start, end) = b[MaxPages][end]
  BY <1>8 DEF Pages, S, Batch, Stops
<1> QED BY <1>10, <1>11 DEF All, S

\* Every window holds the candles since some time.
LEMMA WindowIsRecent ==
    ASSUME NEW t0 \in Nat, NEW C \in SUBSET (0 .. t0), NEW count \in Nat,
           NEW i \in 1 .. NumWindows
    PROVE  /\ Window(C, t0, count, i) \in SUBSET C
           /\ \A w \in Window(C, t0, count, i), u \in C :
                 w <= u => u \in Window(C, t0, count, i)
<1> DEFINE start == t0 - (FirstSpan(count) * 2^(i - 1) + WindowSlack)
<1>1. FirstSpan(count) \in Int /\ WindowSlack \in Int
  BY WindowAssumption DEF FirstSpan
<1>2. 2^(i - 1) \in Int
  BY DEF NumWindows
<1>3. start \in Int
  <2> DEFINE a == FirstSpan(count)
             b == 2^(i - 1)
  <2> HIDE DEF a, b
  <2>1. a \in Int /\ b \in Int
    BY <1>1, <1>2 DEF a, b
  <2>2. t0 - (a * b + WindowSlack) \in Int
    BY <1>1, <2>1
  <2> QED BY <2>2 DEF a, b
<1> HIDE DEF start
<1> DEFINE S == {t \in C : start <= t /\ t <= t0}
           n == MaxPages * PageLimit
<1>4. Window(C, t0, count, i) = Newest(n, S)
  <2>1. t0 \in Int
    OBVIOUS
  <2>2. Window(C, t0, count, i) = Pages(C, start, t0)
    BY Zenon DEF Window, start
  <2>3. \A a, b \in Int : Pages(C, a, b) = Newest(n, {t \in C : a <= t /\ t <= b})
    BY PagesAreNewest, Zenon
  <2> QED BY <1>3, <2>1, <2>2, <2>3, Zenon
<1>5. \A t \in C : t \in Int /\ t <= t0
  OBVIOUS
<1>6. \A w, u \in C : start <= w /\ w <= u => start <= u
  BY <1>3, <1>5
<1>7. \A w \in S, u \in C : w <= u => u \in S
  BY <1>5, <1>6, Zenon
<1>8. S \in SUBSET C /\ S \in SUBSET (0 .. t0)
  OBVIOUS
<1>9. n \in Int
  BY PageAssumption, PageArithmetic
<1> HIDE DEF S, n
<1>10. \A w \in Newest(n, S), u \in S : w <= u => u \in Newest(n, S)
  BY <1>8, <1>9, NewestUp
<1>11. Newest(n, S) \in SUBSET S
  BY NewestIn
<1> QED BY <1>4, <1>7, <1>8, <1>10, <1>11

\* What a request returns are the latest candles there are, at most as many as it
\* asked for.
LEMMA RecentIsNewest ==
    ASSUME NEW t0 \in Nat, NEW C \in SUBSET (0 .. t0), NEW count \in Nat
    PROVE  \E n \in 0 .. count : RecentKlines(C, t0, count) = Newest(n, C)
<1>1. CASE RecentKlines(C, t0, count) = Newest(count, C)
  BY <1>1
<1>2. CASE RecentKlines(C, t0, count) = Widened(C, t0, count)
  <2> DEFINE Ends == {i \in 1 .. NumWindows : EndsWidening(C, t0, count, i)}
             last == Min(Ends)
  <2>1. NumWindows \in Ends /\ Ends \in SUBSET Nat
    BY DEF EndsWidening, NumWindows
  <2>2. last \in 1 .. NumWindows
    <3> HIDE DEF Ends
    <3>1. \E e \in Ends : \A f \in Ends : e <= f
      BY <2>1, HasLeast
    <3>2. last = CHOOSE e \in Ends : \A f \in Ends : e <= f
      BY DEF Min
    <3>3. last \in Ends
      BY <3>1, <3>2, Zenon
    <3> QED BY <3>3 DEF Ends
  <2> DEFINE W == Window(C, t0, count, last)
  <2>3. Widened(C, t0, count) = Newest(count, W)
    BY Zenon DEF Widened
  <2> HIDE DEF last
  <2>4. W \in SUBSET C /\ \A w \in W, u \in C : w <= u => u \in W
    BY <2>2, WindowIsRecent
  <2> HIDE DEF W
  <2>5. \E n \in 0 .. count : Newest(count, W) = Newest(n, C)
    BY <2>4, NewestSince
  <2> QED BY <1>2, <2>3, <2>5
<1> QED BY <1>1, <1>2 DEF RecentKlines

LEMMA TimesAreKnown ==
    ASSUME TypeOK, HistoryInv, NEW s \in Symbols
    PROVE  Times(s) \in SUBSET (0 .. now)
<1>1. PICK m \in Nat : m = Len(candles[s]) /\ DOMAIN candles[s] = 1 .. m
  <2>1. candles[s] \in Seq(Candles)
    BY DEF TypeOK
  <2> QED BY <2>1, LenProperties
<1>2. ASSUME NEW i \in DOMAIN candles[s]
      PROVE  candles[s][i].t \in 0 .. now
  <2>1. now \in Int
    BY DEF TypeOK
  <2>2. i \in 1 .. Len(candles[s])
    BY <1>1
  <2>3. candles[s][i].t \in Int
    BY <2>2, HistoryTimes DEF HistoryInv
  <2>4. 0 <= candles[s][i].t /\ candles[s][i].t <= now
    BY <2>2 DEF HistoryInv, CandlesInOrder
  <2> QED BY <2>1, <2>3, <2>4
<1> QED BY <1>2 DEF Times

\* For any size and number of pages, windows, coins and gaps between their candles: what
\* get_recent_klines returns are the latest candles there are, without a hole, however
\* many pages and windows it takes.
THEOREM ScansGetTheLatest == Spec => []HistoryIsRecent
<1>1. TypeOK /\ HistoryInv => HistoryIsRecent
  <2>1. SUFFICES ASSUME TypeOK, HistoryInv, NEW s \in Symbols, NEW count \in 1 .. 4
                 PROVE  \E n \in 0 .. count :
                           RecentKlines(Times(s), now, count) = Newest(n, Times(s))
    BY Zenon DEF HistoryIsRecent
  <2>2. PICK t0, C : t0 = now /\ C = Times(s)
    OBVIOUS
  <2>3. t0 \in Nat /\ count \in Nat
    BY <2>1, <2>2 DEF TypeOK
  <2>4. C \in SUBSET (0 .. t0)
    BY <2>1, <2>2, TimesAreKnown
  <2>5. \E n \in 0 .. count : RecentKlines(C, t0, count) = Newest(n, C)
    BY <2>3, <2>4, RecentIsNewest
  <2> QED BY <2>2, <2>5
<1> QED
  BY <1>1, HistoryInit, HistoryStep, OrderInit, OrderStep, TypeCorrect, PTL DEF Spec
================================================================================
