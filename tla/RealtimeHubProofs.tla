--------------------------- MODULE RealtimeHubProofs ---------------------------
(***************************************************************************)
(* Proofs about RealtimeHub, for any tabs, rows, connections, restarts and *)
(* losses: no row of a table goes back to an older announcement, and a tab *)
(* that has caught up shows the latest of each position.                   *)
(***************************************************************************)
EXTENDS RealtimeHub, SequenceTheorems, FiniteSetTheorems, FunctionTheorems,
        TLAPS

--------------------------------------------------------------------------------
(* What the part of a list that is kept (Selection) has in common with the *)
(* list: the elements and their order.  First the ranks of the places.     *)

\* The places of a list are finitely many, and so are those up to one of them.
LEMMA PlacesFinite ==
    ASSUME NEW m \in Nat, NEW P \in SUBSET (1 .. m)
    PROVE  /\ IsFiniteSet(P) /\ Cardinality(P) \in Nat
           /\ \A i \in P : /\ IsFiniteSet({h \in P : h <= i})
                           /\ Rank(P, i) \in 1 .. Cardinality(P)
<1>1. IsFiniteSet(1 .. m)
  BY FS_Interval
<1>2. IsFiniteSet(P) /\ Cardinality(P) \in Nat
  BY <1>1, FS_Subset, FS_CardinalityType
<1>3. ASSUME NEW i \in P
      PROVE  /\ IsFiniteSet({h \in P : h <= i})
             /\ Rank(P, i) \in 1 .. Cardinality(P)
  <2> DEFINE upTo == {h \in P : h <= i}
  <2>1. upTo \in SUBSET P /\ i \in upTo
    OBVIOUS
  <2> HIDE DEF upTo
  <2>2. IsFiniteSet(upTo) /\ Cardinality(upTo) <= Cardinality(P)
    BY <1>2, <2>1, FS_Subset
  <2>3. Cardinality(upTo) \in Nat /\ Cardinality(upTo) # 0
    BY <2>1, <2>2, FS_CardinalityType, FS_EmptySet
  <2>4. Cardinality(upTo) \in 1 .. Cardinality(P)
    BY <1>2, <2>2, <2>3
  <2> QED BY <2>2, <2>4 DEF upTo, Rank
<1> QED BY <1>2, <1>3

\* A later place has a higher rank.
LEMMA RankGrows ==
    ASSUME NEW m \in Nat, NEW P \in SUBSET (1 .. m),
           NEW i \in P, NEW j \in P, i < j
    PROVE  Rank(P, i) < Rank(P, j)
<1> DEFINE low == {h \in P : h <= i}
           high == {h \in P : h <= j}
<1>1. low \in SUBSET high /\ j \in high /\ j \notin low
  <2>1. i \in Nat /\ j \in Nat
    OBVIOUS
  <2>2. \A h \in P : h <= i => h <= j
    <3>1. ASSUME NEW h \in P, h <= i
          PROVE  h <= j
      <4>1. h \in Nat
        OBVIOUS
      <4> QED BY <2>1, <3>1, <4>1
    <3> QED BY <3>1
  <2>3. j <= j /\ ~(j <= i)
    BY <2>1
  <2> QED BY <2>2, <2>3
<1>2. IsFiniteSet(low) /\ IsFiniteSet(high)
  BY PlacesFinite
<1>3. Rank(P, i) = Cardinality(low) /\ Rank(P, j) = Cardinality(high)
  BY DEF Rank
<1> HIDE DEF low, high
<1>4. Cardinality(low) <= Cardinality(high) /\ Cardinality(low) # Cardinality(high)
  BY <1>1, <1>2, FS_Subset
<1>5. Cardinality(low) \in Nat /\ Cardinality(high) \in Nat
  BY <1>2, FS_CardinalityType
<1> QED BY <1>3, <1>4, <1>5

\* Every rank is that of one place.
LEMMA RankOfOne ==
    ASSUME NEW m \in Nat, NEW P \in SUBSET (1 .. m)
    PROVE  /\ \A i, j \in P : Rank(P, i) = Rank(P, j) => i = j
           /\ \A n \in 1 .. Cardinality(P) : \E i \in P : Rank(P, i) = n
<1>1. \A i, j \in P : Rank(P, i) = Rank(P, j) => i = j
  <2>1. ASSUME NEW i \in P, NEW j \in P, i # j
        PROVE  Rank(P, i) # Rank(P, j)
    <3>1. Cardinality(P) \in Nat
      BY PlacesFinite
    <3>2. Rank(P, i) \in 1 .. Cardinality(P) /\ Rank(P, j) \in 1 .. Cardinality(P)
      BY PlacesFinite
    <3>3. i \in Nat /\ j \in Nat /\ Rank(P, i) \in Nat /\ Rank(P, j) \in Nat
      BY <3>1, <3>2
    <3>4. CASE i < j
      <4>1. Rank(P, i) < Rank(P, j)
        BY <3>4, RankGrows
      <4> QED BY <3>3, <4>1
    <3>5. CASE j < i
      <4>1. Rank(P, j) < Rank(P, i)
        BY <3>5, RankGrows
      <4> QED BY <3>3, <4>1
    <3> QED BY <2>1, <3>3, <3>4, <3>5
  <2> QED BY <2>1
<1> DEFINE ranks == 1 .. Cardinality(P)
           f == [i \in P |-> Rank(P, i)]
<1>2. IsFiniteSet(P) /\ Cardinality(P) \in Nat
  BY PlacesFinite
<1>3. IsFiniteSet(ranks) /\ Cardinality(ranks) = Cardinality(P)
  BY <1>2, FS_Interval
<1>4. f \in [P -> ranks] /\ \A i \in P : f[i] = Rank(P, i)
  BY PlacesFinite
<1> HIDE DEF f, ranks
<1>5. f \in Injection(P, ranks)
  BY <1>1, <1>4 DEF Injection, IsInjective
<1>6. f \in Surjection(P, ranks)
  BY <1>3, <1>5, FS_Injection
<1>7. \A n \in ranks : \E i \in P : f[i] = n
  BY <1>6 DEF Surjection
<1> QED BY <1>1, <1>4, <1>7 DEF ranks

--------------------------------------------------------------------------------
(* The list at its places.                                                 *)

\* The list that is kept holds what the places hold, each place once, in order.
LEMMA AtPlacesOrder ==
    ASSUME NEW S, NEW s \in Seq(S), NEW P \in SUBSET (1 .. Len(s))
    PROVE  /\ AtPlaces(s, P) \in Seq(S) /\ Len(AtPlaces(s, P)) = Cardinality(P)
           /\ \E place \in [1 .. Cardinality(P) -> P] :
                 /\ \A n \in 1 .. Cardinality(P) : AtPlaces(s, P)[n] = s[place[n]]
                 /\ \A i \in P : \E n \in 1 .. Cardinality(P) : place[n] = i
                 /\ \A n, k \in 1 .. Cardinality(P) : n < k => place[n] < place[k]
<1>1. PICK m \in Nat : m = Len(s)
  BY LenProperties
<1>2. Cardinality(P) \in Nat
  BY <1>1, PlacesFinite
<1> DEFINE ranks == 1 .. Cardinality(P)
           place == [n \in ranks |-> CHOOSE i \in P : Rank(P, i) = n]
<1>3. \A n \in ranks : place[n] \in P /\ Rank(P, place[n]) = n
  BY <1>1, RankOfOne
<1>4. AtPlaces(s, P) = [n \in ranks |-> s[place[n]]]
  BY DEF AtPlaces
<1>5. place \in [ranks -> P]
  BY <1>3
<1> HIDE DEF place
<1>6. \A i \in P : s[i] \in S
  BY ElementOfSeq
<1>7. AtPlaces(s, P) \in Seq(S) /\ Len(AtPlaces(s, P)) = Cardinality(P)
  <2>1. [n \in ranks |-> s[place[n]]] \in [ranks -> S]
    BY <1>3, <1>6
  <2> QED BY <1>2, <1>4, <2>1, SeqDef
<1>8. \A i \in P : \E n \in ranks : place[n] = i
  <2>1. ASSUME NEW i \in P
        PROVE  Rank(P, i) \in ranks /\ place[Rank(P, i)] = i
    <3>1. Rank(P, i) \in ranks
      BY <1>1, PlacesFinite
    <3>2. place[Rank(P, i)] \in P /\ Rank(P, place[Rank(P, i)]) = Rank(P, i)
      BY <1>3, <3>1
    <3> QED BY <1>1, <3>1, <3>2, RankOfOne
  <2> QED BY <2>1
<1>9. ASSUME NEW n \in ranks, NEW k \in ranks, n < k
      PROVE  place[n] < place[k]
  <2>1. /\ place[n] \in P /\ Rank(P, place[n]) = n
        /\ place[k] \in P /\ Rank(P, place[k]) = k
    BY <1>3
  <2>2. place[n] \in Nat /\ place[k] \in Nat /\ n \in Nat /\ k \in Nat
    <3>1. \A h \in P : h \in Nat
      BY <1>1
    <3>2. n \in Nat /\ k \in Nat
      BY <1>2
    <3> QED BY <2>1, <3>1, <3>2
  <2>3. CASE place[k] < place[n]
    <3>1. k < n
      BY <1>1, <2>1, <2>3, RankGrows
    <3> QED BY <1>9, <2>2, <3>1
  <2>4. CASE place[k] = place[n]
    BY <1>9, <2>1, <2>2, <2>4
  <2> QED BY <2>2, <2>3, <2>4
<1> QED BY <1>4, <1>5, <1>7, <1>8, <1>9

--------------------------------------------------------------------------------
(* The tabs and their connections.                                         *)

Links == {"none", "opening", "up", "lost", "closed"}
\* A connection that may still bring a frame.
Bringing == {"opening", "up", "lost"}

\* The types of what the proof is about.
RowTypes ==
    /\ topic \in Seq(Keys) /\ read \in 0 .. Len(topic)
    /\ link \in [Conns -> Links]
    /\ wire \in [Conns -> Seq(Nat)]
    /\ view \in [Tabs -> [Keys -> Nat]]

\* A tab reads one connection at a time: it opens the next one when the last one
\* is closed, with no frame left.
OneConnection ==
    /\ \A c \in Conns : wire[c] # <<>> => link[c] \in {"up", "lost"}
    /\ \A c, d \in Conns :
          TabOf(c) = TabOf(d) /\ link[c] \in Bringing /\ link[d] \in Bringing => c = d

\* The frames on a connection are in the order of their events.
WireInOrder ==
    \A c \in Conns : \A i, j \in 1 .. Len(wire[c]) : i <= j => wire[c][i] <= wire[c][j]

\* Every frame is at least as new as all the rows its tab shows, and at most as new
\* as the event the hub took last.
WireIsNewer ==
    /\ \A c \in Conns : \A i \in 1 .. Len(wire[c]) :
          /\ wire[c][i] <= read
          /\ \A k \in Keys : view[TabOf(c)][k] <= wire[c][i]
    /\ \A t \in Tabs : \A k \in Keys : view[t][k] <= read

RowInv == RowTypes /\ OneConnection /\ WireInOrder /\ WireIsNewer

LEMMA TabOfConn ==
    ASSUME NEW c \in Conns
    PROVE  TabOf(c) \in Tabs
BY DEF Conns, TabOf

LEMMA InitRowInv == Init => RowInv
BY DEF Init, RowInv, RowTypes, OneConnection, WireInOrder, WireIsNewer, Links, Bringing

--------------------------------------------------------------------------------
(* Steps that put no frame on a connection and take none off it.           *)

LEMMA QuietKeeps ==
    ASSUME RowInv, UNCHANGED <<link, wire, view>>,
           topic' \in Seq(Keys), read' \in 0 .. Len(topic'), read <= read'
    PROVE  RowInv'
<1>1. RowTypes'
  BY DEF RowInv, RowTypes
<1>2. OneConnection' /\ WireInOrder'
  BY DEF RowInv, OneConnection, WireInOrder
<1>3. WireIsNewer'
  <2>1. ASSUME NEW c \in Conns, NEW i \in 1 .. Len(wire[c])
        PROVE  wire[c][i] <= read'
    <3>1. wire[c][i] \in Nat /\ wire[c][i] <= read
      BY DEF RowInv, RowTypes, WireIsNewer
    <3> QED BY <3>1 DEF RowInv, RowTypes
  <2>2. ASSUME NEW t \in Tabs, NEW k \in Keys
        PROVE  view[t][k] <= read'
    <3>1. view[t][k] \in Nat /\ view[t][k] <= read
      BY DEF RowInv, RowTypes, WireIsNewer
    <3> QED BY <3>1 DEF RowInv, RowTypes
  <2> QED BY <2>1, <2>2 DEF RowInv, WireIsNewer
<1> QED BY <1>1, <1>2, <1>3 DEF RowInv

\* The connection of c changes its state; none begins that may bring a frame while
\* another one of the tab does.
LEMMA LinkKeeps ==
    ASSUME RowInv, UNCHANGED <<topic, read, wire, view>>,
           link' \in [Conns -> Links],
           \A c \in Conns : wire[c] # <<>> => link'[c] \in {"up", "lost"},
           \A c, d \in Conns :
               TabOf(c) = TabOf(d) /\ link'[c] \in Bringing /\ link'[d] \in Bringing
                   => c = d
    PROVE  RowInv'
BY DEF RowInv, RowTypes, OneConnection, WireInOrder, WireIsNewer

--------------------------------------------------------------------------------
(* The steps that touch the connections.                                   *)

\* A frame is sent: it is the event the hub took last.
LEMMA SendKeeps ==
    ASSUME RowInv, NEW c \in Conns, link[c] = "up",
           wire' = [wire EXCEPT ![c] = Append(@, read)],
           UNCHANGED <<topic, read, link, view>>
    PROVE  RowInv'
<1> DEFINE old == wire[c]
           new == Append(wire[c], read)
<1>1. old \in Seq(Nat) /\ read \in Nat /\ Len(old) \in Nat
  BY DEF RowInv, RowTypes
<1>2. /\ new \in Seq(Nat) /\ Len(new) = Len(old) + 1
      /\ \A i \in 1 .. Len(old) : new[i] = old[i]
      /\ new[Len(old) + 1] = read
  BY <1>1
<1>3. wire' \in [Conns -> Seq(Nat)] /\ wire'[c] = new
      /\ \A d \in Conns \ {c} : wire'[d] = wire[d]
  BY <1>2 DEF RowInv, RowTypes
<1>4. \A i \in 1 .. Len(old) : old[i] \in Nat /\ old[i] <= read
  BY <1>1 DEF RowInv, WireIsNewer
<1> HIDE DEF old, new
<1>5. \A i \in 1 .. Len(new) : i \in 1 .. Len(old) \/ i = Len(old) + 1
  BY <1>1, <1>2
<1>6. RowTypes' /\ OneConnection'
  BY <1>3 DEF RowInv, RowTypes, OneConnection
<1>7. WireInOrder'
  <2>1. ASSUME NEW i \in 1 .. Len(new), NEW j \in 1 .. Len(new), i <= j
        PROVE  new[i] <= new[j]
    <3>1. CASE j \in 1 .. Len(old)
      <4>1. i \in 1 .. Len(old)
        BY <1>1, <2>1, <3>1
      <4> QED BY <1>2, <2>1, <3>1, <4>1 DEF RowInv, WireInOrder, old
    <3>2. CASE j = Len(old) + 1
      BY <1>1, <1>2, <1>4, <1>5, <3>2
    <3> QED BY <1>5, <3>1, <3>2
  <2>2. ASSUME NEW d \in Conns, NEW i \in 1 .. Len(wire'[d]), NEW j \in 1 .. Len(wire'[d]),
               i <= j
        PROVE  wire'[d][i] <= wire'[d][j]
    BY <1>3, <2>1, <2>2 DEF RowInv, WireInOrder
  <2> QED BY <2>2 DEF WireInOrder
<1>8. WireIsNewer'
  <2>1. ASSUME NEW i \in 1 .. Len(new)
        PROVE  new[i] <= read /\ \A k \in Keys : view[TabOf(c)][k] <= new[i]
    <3>1. CASE i \in 1 .. Len(old)
      BY <1>2, <3>1 DEF RowInv, WireIsNewer, old
    <3>2. CASE i = Len(old) + 1
      BY <1>1, <1>2, <3>2, TabOfConn DEF RowInv, WireIsNewer
    <3> QED BY <1>5, <3>1, <3>2
  <2>2. ASSUME NEW d \in Conns, NEW i \in 1 .. Len(wire'[d])
        PROVE  /\ wire'[d][i] <= read
               /\ \A k \in Keys : view[TabOf(d)][k] <= wire'[d][i]
    BY <1>3, <2>1, <2>2 DEF RowInv, WireIsNewer
  <2> QED BY <2>2 DEF RowInv, WireIsNewer
<1> QED BY <1>6, <1>7, <1>8 DEF RowInv

\* Some frames of a connection are gone: what is left are frames it had, in order.
LEMMA FewerKeeps ==
    ASSUME RowInv, NEW c \in Conns, NEW rest \in Seq(Nat), NEW shift \in Nat,
           \A i \in 1 .. Len(rest) : i + shift \in 1 .. Len(wire[c])
                                     /\ rest[i] = wire[c][i + shift],
           wire' = [wire EXCEPT ![c] = rest],
           UNCHANGED <<topic, read, link>>,
           view' \in [Tabs -> [Keys -> Nat]],
           \A t \in Tabs : \A k \in Keys : view'[t][k] <= read,
           \A t \in Tabs \ {TabOf(c)} : view'[t] = view[t],
           view' = view \/ link[c] \in Bringing,
           \A i \in 1 .. Len(rest) : \A k \in Keys : view'[TabOf(c)][k] <= rest[i]
    PROVE  RowInv'
<1>1. /\ wire' \in [Conns -> Seq(Nat)] /\ wire'[c] = rest
      /\ \A d \in Conns \ {c} : wire'[d] = wire[d]
  BY DEF RowInv, RowTypes
<1>2. rest # <<>> => wire[c] # <<>>
  <2>1. CASE rest # <<>>
    <3>1. Len(rest) \in Nat /\ Len(rest) > 0
      BY <2>1
    <3>2. 1 + shift \in 1 .. Len(wire[c])
      BY <3>1
    <3> QED BY <3>2
  <2> QED BY <2>1
<1>3. RowTypes' /\ OneConnection'
  BY <1>1, <1>2 DEF RowInv, RowTypes, OneConnection
<1>4. WireInOrder'
  <2>1. ASSUME NEW i \in 1 .. Len(rest), NEW j \in 1 .. Len(rest), i <= j
        PROVE  rest[i] <= rest[j]
    <3>1. /\ i + shift \in 1 .. Len(wire[c]) /\ rest[i] = wire[c][i + shift]
          /\ j + shift \in 1 .. Len(wire[c]) /\ rest[j] = wire[c][j + shift]
      OBVIOUS
    <3>2. i + shift <= j + shift
      BY <2>1
    <3> QED BY <3>1, <3>2 DEF RowInv, WireInOrder
  <2> QED BY <1>1, <2>1 DEF RowInv, WireInOrder
<1>5. WireIsNewer'
  <2>1. ASSUME NEW i \in 1 .. Len(rest)
        PROVE  rest[i] <= read
    BY DEF RowInv, WireIsNewer
  <2>2. ASSUME NEW d \in Conns \ {c}, NEW i \in 1 .. Len(wire[d])
        PROVE  \A k \in Keys : view'[TabOf(d)][k] <= wire[d][i]
    <3>1. view'[TabOf(d)] = view[TabOf(d)]
      <4>1. CASE view' = view
        BY <4>1
      <4>2. CASE link[c] \in Bringing /\ TabOf(d) = TabOf(c)
        <5>1. wire[d] # <<>>
          BY <2>2
        <5>2. link[d] \in Bringing
          BY <5>1 DEF RowInv, OneConnection, Bringing
        <5> QED BY <2>2, <4>2, <5>2 DEF RowInv, OneConnection
      <4>3. CASE TabOf(d) # TabOf(c)
        BY <4>3, TabOfConn
      <4> QED BY <4>1, <4>2, <4>3
    <3> QED BY <3>1 DEF RowInv, WireIsNewer
  <2> QED BY <1>1, <2>1, <2>2 DEF RowInv, WireIsNewer
<1> QED BY <1>3, <1>4, <1>5 DEF RowInv

--------------------------------------------------------------------------------
(* Every step.                                                             *)

\* The browser reads a frame: it is at least as new as the row it replaces.
LEMMA MessageKeeps ==
    ASSUME RowInv, NEW c \in Conns, OnMessage(c)
    PROVE  /\ RowInv'
           /\ \A t \in Tabs : \A k \in Keys : view[t][k] <= view'[t][k]
<1> DEFINE e == Head(wire[c])
           t0 == TabOf(c)
<1>1. /\ wire[c] # <<>> /\ link[c] \in {"up", "lost"}
      /\ view' = [view EXCEPT ![t0][topic[e]] = e]
      /\ wire' = [wire EXCEPT ![c] = Tail(@)]
      /\ UNCHANGED <<topic, read, link>>
  BY DEF OnMessage, pumpVars, topicVars
<1>2. wire[c] \in Seq(Nat) /\ view \in [Tabs -> [Keys -> Nat]] /\ t0 \in Tabs
      /\ read \in Nat
  BY TabOfConn DEF RowInv, RowTypes
<1>3. /\ Len(wire[c]) \in Nat /\ 1 \in 1 .. Len(wire[c]) /\ e = wire[c][1] /\ e \in Nat
  BY <1>1, <1>2
<1>4. /\ Tail(wire[c]) \in Seq(Nat) /\ Len(Tail(wire[c])) = Len(wire[c]) - 1
      /\ \A i \in 1 .. Len(Tail(wire[c])) :
            i + 1 \in 1 .. Len(wire[c]) /\ Tail(wire[c])[i] = wire[c][i + 1]
  BY <1>1, <1>2
<1>5. e <= read /\ \A k \in Keys : view[t0][k] <= e
  BY <1>3 DEF RowInv, WireIsNewer
<1> HIDE DEF e
<1>6. /\ view' \in [Tabs -> [Keys -> Nat]]
      /\ \A t \in Tabs \ {t0} : view'[t] = view[t]
      /\ \A k \in Keys : view'[t0][k] \in {view[t0][k], e}
  BY <1>1, <1>2, <1>3
<1> HIDE DEF t0
<1>7. \A k \in Keys : view[t0][k] <= view'[t0][k] /\ view'[t0][k] <= e
  <2>1. ASSUME NEW k \in Keys
        PROVE  view[t0][k] <= view'[t0][k] /\ view'[t0][k] <= e
    <3>1. view[t0][k] \in Nat
      BY <1>2
    <3>2. view[t0][k] <= e /\ view'[t0][k] \in {view[t0][k], e}
      BY <1>5, <1>6
    <3> QED BY <1>3, <3>1, <3>2
  <2> QED BY <2>1
<1>8. \A t \in Tabs : \A k \in Keys : view[t][k] <= view'[t][k]
  <2>1. ASSUME NEW t \in Tabs \ {t0}, NEW k \in Keys
        PROVE  view[t][k] <= view'[t][k]
    BY <1>2, <1>6
  <2> QED BY <1>7, <2>1
<1>9. \A t \in Tabs : \A k \in Keys : view'[t][k] <= read
  <2>1. ASSUME NEW k \in Keys
        PROVE  view'[t0][k] <= read
    BY <1>2, <1>3, <1>5, <1>6, <1>7
  <2>2. \A t \in Tabs : \A k \in Keys : view[t][k] <= read
    BY DEF RowInv, WireIsNewer
  <2> QED BY <1>6, <2>1, <2>2
<1>10. \A i \in 1 .. Len(Tail(wire[c])) : \A k \in Keys : view'[t0][k] <= Tail(wire[c])[i]
  <2>1. ASSUME NEW i \in 1 .. Len(Tail(wire[c])), NEW k \in Keys
        PROVE  view'[t0][k] <= Tail(wire[c])[i]
    <3>1. i + 1 \in 1 .. Len(wire[c]) /\ 1 <= i + 1 /\ Tail(wire[c])[i] = wire[c][i + 1]
      BY <1>4
    <3>2. wire[c][1] <= wire[c][i + 1]
      BY <1>3, <3>1 DEF RowInv, WireInOrder
    <3>3. wire[c][i + 1] \in Nat
      BY <1>2, <3>1
    <3>4. view'[t0][k] <= e /\ view'[t0][k] \in Nat
      BY <1>2, <1>6, <1>7
    <3> QED BY <1>3, <3>1, <3>2, <3>3, <3>4
  <2> QED BY <2>1
<1>11. link[c] \in Bringing
  BY <1>1 DEF Bringing
<1> DEFINE rest == Tail(wire[c])
<1>12. wire' = [wire EXCEPT ![c] = rest] /\ rest \in Seq(Nat)
  BY <1>1, <1>4
<1>13. \A i \in 1 .. Len(rest) : i + 1 \in 1 .. Len(wire[c]) /\ rest[i] = wire[c][i + 1]
  BY <1>4
<1>14. \A i \in 1 .. Len(rest) : \A k \in Keys : view'[TabOf(c)][k] <= rest[i]
  BY <1>10 DEF t0
<1> HIDE DEF rest
<1>15. RowInv'
  BY <1>1, <1>6, <1>9, <1>11, <1>12, <1>13, <1>14, FewerKeeps DEF t0
<1> QED BY <1>8, <1>15

\* A connection is lost with its last frames.
LEMMA LoseKeeps ==
    ASSUME RowInv, NEW c \in Conns, Lose(c)
    PROVE  RowInv'
<1>1. /\ link[c] \in {"opening", "up"} /\ link' = [link EXCEPT ![c] = "lost"]
      /\ UNCHANGED <<topic, read, view>>
  BY DEF Lose, pumpVars, topicVars, browserVars
<1>2. PICK n \in 0 .. Len(wire[c]) : wire' = [wire EXCEPT ![c] = SubSeq(@, 1, n)]
  BY DEF Lose
<1> DEFINE rest == SubSeq(wire[c], 1, n)
<1>3. wire \in [Conns -> Seq(Nat)] /\ link \in [Conns -> Links]
  BY DEF RowInv, RowTypes
<1>4. /\ rest \in Seq(Nat) /\ Len(rest) = n
      /\ \A i \in 1 .. n : i \in 1 .. Len(wire[c]) /\ rest[i] = wire[c][i]
  BY <1>2, <1>3
<1>5. wire' \in [Conns -> Seq(Nat)] /\ wire'[c] = rest
      /\ \A d \in Conns \ {c} : wire'[d] = wire[d]
  BY <1>2, <1>3, <1>4
<1>6. link' \in [Conns -> Links] /\ link'[c] = "lost"
      /\ \A d \in Conns \ {c} : link'[d] = link[d]
  BY <1>1, <1>3 DEF Links
<1> HIDE DEF rest
<1>7. RowTypes'
  BY <1>1, <1>5, <1>6 DEF RowInv, RowTypes
<1>8. OneConnection'
  <2>1. \A d \in Conns : wire'[d] # <<>> => link'[d] \in {"up", "lost"}
    BY <1>5, <1>6 DEF RowInv, OneConnection
  <2>2. \A d \in Conns : link'[d] \in Bringing => link[d] \in Bringing
    BY <1>1, <1>6 DEF Bringing
  <2> QED BY <2>1, <2>2 DEF RowInv, OneConnection
<1>9. WireInOrder'
  <2>1. ASSUME NEW i \in 1 .. n, NEW j \in 1 .. n, i <= j
        PROVE  rest[i] <= rest[j]
    BY <1>4, <2>1 DEF RowInv, WireInOrder
  <2> QED BY <1>4, <1>5, <2>1 DEF RowInv, WireInOrder
<1>10. WireIsNewer'
  BY <1>1, <1>4, <1>5 DEF RowInv, WireIsNewer
<1> QED BY <1>7, <1>8, <1>9, <1>10 DEF RowInv

LEMMA LinkSteps ==
    ASSUME RowInv,
           \/ \E c \in Conns : Accept(c) \/ OnClose(c)
           \/ \E t \in Tabs : Open(t)
    PROVE  RowInv'
<1>1. link \in [Conns -> Links] /\ wire \in [Conns -> Seq(Nat)]
  BY DEF RowInv, RowTypes
<1>2. ASSUME NEW c \in Conns, Accept(c) \/ OnClose(c)
      PROVE  RowInv'
  <2>1. /\ UNCHANGED <<topic, read, wire, view>>
        /\ \/ link[c] = "opening" /\ link' = [link EXCEPT ![c] = "up"]
           \/ wire[c] = <<>> /\ link' = [link EXCEPT ![c] = "closed"]
    BY <1>2 DEF Accept, OnClose, topicVars, pumpVars, browserVars
  <2>2. /\ link' \in [Conns -> Links]
        /\ \A d \in Conns \ {c} : link'[d] = link[d]
        /\ \/ link[c] = "opening" /\ link'[c] = "up"
           \/ wire[c] = <<>> /\ link'[c] = "closed"
    BY <1>1, <2>1 DEF Links
  <2>3. \A d \in Conns : link'[d] \in Bringing => link[d] \in Bringing
    BY <2>2 DEF Bringing
  <2>4. \A d \in Conns : wire[d] # <<>> => link'[d] \in {"up", "lost"}
    BY <2>2 DEF RowInv, OneConnection
  <2> QED BY <2>1, <2>2, <2>3, <2>4, LinkKeeps DEF RowInv, OneConnection
<1>3. ASSUME NEW t \in Tabs, Open(t)
      PROVE  RowInv'
  <2> DEFINE new == <<t, Cardinality(Made(t)) + 1>>
  <2>1. /\ UNCHANGED <<topic, read, wire, view>>
        /\ link' = [link EXCEPT ![new] = "opening"]
        /\ \A i \in 1 .. MaxConns : link[<<t, i>>] # "none" => link[<<t, i>>] = "closed"
    BY <1>3 DEF Open, MayOpen, Made, topicVars, pumpVars, browserVars
  <2> HIDE DEF new
  <2>2. \A d \in Conns : TabOf(d) = t => link[d] \notin Bringing
    <3>1. ASSUME NEW d \in Conns, TabOf(d) = t
          PROVE  link[d] \in {"none", "closed"}
      <4>1. d = <<t, d[2]>> /\ d[2] \in 1 .. MaxConns
        BY <3>1 DEF Conns, TabOf
      <4> QED BY <2>1, <4>1
    <3> QED BY <3>1 DEF Bringing
  <2>3. link' \in [Conns -> Links] /\ \A d \in Conns : d # new => link'[d] = link[d]
    BY <1>1, <2>1 DEF Links
  <2>4. \A d \in Conns : wire[d] # <<>> => link'[d] \in {"up", "lost"}
    <3>1. \A d \in Conns : wire[d] # <<>> => TabOf(d) # t
      BY <2>2 DEF RowInv, OneConnection, Bringing
    <3>2. TabOf(new) = t
      BY DEF new, TabOf
    <3> QED BY <2>3, <3>1, <3>2 DEF RowInv, OneConnection
  <2>5. \A c, d \in Conns :
            TabOf(c) = TabOf(d) /\ link'[c] \in Bringing /\ link'[d] \in Bringing => c = d
    <3>1. TabOf(new) = t
      BY DEF new, TabOf
    <3> QED BY <2>2, <2>3, <3>1 DEF RowInv, OneConnection
  <2> QED BY <2>1, <2>3, <2>4, <2>5, LinkKeeps
<1> QED BY <1>2, <1>3

\* The API starts again: its connections are lost, and it begins at the latest event.
LEMMA RestartKeeps ==
    ASSUME RowInv, Restart
    PROVE  RowInv'
<1>1. /\ UNCHANGED <<topic, wire, view>> /\ read' = Len(topic)
      /\ link' = [c \in Conns |-> IF link[c] \in {"opening", "up"} THEN "lost" ELSE link[c]]
  BY DEF Restart, browserVars
<1>2. topic \in Seq(Keys) /\ read \in 0 .. Len(topic) /\ link \in [Conns -> Links]
      /\ wire \in [Conns -> Seq(Nat)] /\ view \in [Tabs -> [Keys -> Nat]]
  BY DEF RowInv, RowTypes
<1>3. Len(topic) \in Nat
  BY <1>2
<1>4. RowTypes'
  BY <1>1, <1>2, <1>3 DEF RowTypes, Links
<1>5. OneConnection'
  BY <1>1 DEF RowInv, OneConnection, Bringing
<1>6. WireInOrder'
  BY <1>1 DEF RowInv, WireInOrder
<1>7. WireIsNewer'
  <2>1. ASSUME NEW c \in Conns, NEW i \in 1 .. Len(wire[c])
        PROVE  wire[c][i] <= Len(topic)
    <3>1. wire[c][i] \in Nat /\ wire[c][i] <= read
      BY <1>2 DEF RowInv, WireIsNewer
    <3> QED BY <1>2, <1>3, <3>1
  <2>2. ASSUME NEW t \in Tabs, NEW k \in Keys
        PROVE  view[t][k] <= Len(topic)
    <3>1. view[t][k] \in Nat /\ view[t][k] <= read
      BY <1>2 DEF RowInv, WireIsNewer
    <3> QED BY <1>2, <1>3, <3>1
  <2> QED BY <1>1, <2>1, <2>2 DEF RowInv, WireIsNewer
<1> QED BY <1>4, <1>5, <1>6, <1>7 DEF RowInv

LEMMA NextKeeps ==
    ASSUME RowInv, [Next]_vars
    PROVE  /\ RowInv'
           /\ \A t \in Tabs : \A k \in Keys : view[t][k] <= view'[t][k]
<1>1. topic \in Seq(Keys) /\ read \in 0 .. Len(topic) /\ Len(topic) \in Nat
  BY DEF RowInv, RowTypes
<1>2. ASSUME UNCHANGED view
      PROVE  \A t \in Tabs : \A k \in Keys : view[t][k] <= view'[t][k]
  BY <1>2 DEF RowInv, RowTypes
<1>3. ASSUME NEW k \in Keys, Publish(k)
      PROVE  RowInv' /\ UNCHANGED view
  <2>1. topic' = Append(topic, k) /\ UNCHANGED <<read, link, wire, view>>
    BY <1>3 DEF Publish, pumpVars, browserVars
  <2>2. topic' \in Seq(Keys) /\ Len(topic') = Len(topic) + 1
    BY <1>1, <2>1
  <2>3. read' \in 0 .. Len(topic') /\ read <= read'
    BY <1>1, <2>1, <2>2
  <2> QED BY <2>1, <2>2, <2>3, QuietKeeps
<1>4. CASE PumpTake
  <2>1. read < Len(topic) /\ read' = read + 1 /\ UNCHANGED <<topic, link, wire, view>>
    BY <1>4 DEF PumpTake, browserVars
  <2>2. read' \in 0 .. Len(topic') /\ read <= read' /\ topic' \in Seq(Keys)
    BY <1>1, <2>1
  <2> QED BY <1>2, <2>1, <2>2, QuietKeeps
<1>5. ASSUME UNCHANGED <<topic, read, link, wire, view>>
      PROVE  RowInv'
  BY <1>1, <1>5, QuietKeeps
<1>6. CASE PumpSend
  <2>1. UNCHANGED <<topic, read, link, view>>
    BY <1>6 DEF PumpSend, browserVars
  <2>2. CASE UNCHANGED wire
    BY <1>2, <1>5, <2>1, <2>2
  <2>3. CASE wire' # wire
    <3> DEFINE c == snapshot[index]
    <3>1. link[c] = "up" /\ wire' = [wire EXCEPT ![c] = Append(@, read)]
      BY <1>6, <2>3 DEF PumpSend
    <3> HIDE DEF c
    <3>2. c \in Conns
      BY <2>3, <3>1 DEF RowInv, RowTypes
    <3> QED BY <1>2, <2>1, <3>1, <3>2, SendKeeps
  <2> QED BY <2>2, <2>3
<1>7. CASE PumpDone
  <2>1. UNCHANGED <<topic, read, link, wire, view>>
    BY <1>7 DEF PumpDone, browserVars
  <2> QED BY <1>2, <1>5, <2>1
<1>8. CASE Restart
  <2>1. UNCHANGED view
    BY <1>8 DEF Restart, browserVars
  <2> QED BY <1>2, <1>8, <2>1, RestartKeeps
<1>9. ASSUME NEW c \in Conns, Register(c) \/ Configure(c) \/ HandlerEnds(c) \/ OnOpen(c)
      PROVE  RowInv' /\ UNCHANGED view
  <2>1. UNCHANGED <<topic, read, link, wire, view>>
    BY <1>9 DEF Register, Configure, HandlerEnds, OnOpen, topicVars, pumpVars, browserVars
  <2> QED BY <1>5, <2>1
<1>10. ASSUME NEW c \in Conns, Accept(c) \/ OnClose(c)
       PROVE  RowInv' /\ UNCHANGED view
  BY <1>10, LinkSteps DEF Accept, OnClose, browserVars
<1>11. ASSUME NEW t \in Tabs, Open(t)
       PROVE  RowInv' /\ UNCHANGED view
  BY <1>11, LinkSteps DEF Open, browserVars
<1>12. ASSUME NEW c \in Conns, Lose(c)
       PROVE  RowInv' /\ UNCHANGED view
  BY <1>12, LoseKeeps DEF Lose, browserVars
<1>13. CASE UNCHANGED vars
  <2>1. UNCHANGED <<topic, read, link, wire, view>>
    BY <1>13 DEF vars, topicVars, pumpVars, browserVars
  <2> QED BY <1>2, <1>5, <2>1
<1> QED
  BY <1>2, <1>3, <1>4, <1>6, <1>7, <1>8, <1>9, <1>10, <1>11, <1>12, <1>13, MessageKeeps
     DEF Next, Pump, Handler, Browser

\* A row never goes back to an older announcement: for any tabs, rows, size of the
\* connections and bounds, whatever connections are lost and however often the API
\* starts again.
THEOREM RowsNeverGoBack == Spec => ViewNeverGoesBack
<1>1. RowInv /\ [Next]_vars => RowInv'
  BY NextKeeps
<1>2. RowInv /\ [Next]_vars
          => [\A t \in Tabs : \A k \in Keys : view[t][k] <= view'[t][k]]_vars
  BY NextKeeps
<1> QED BY <1>1, <1>2, InitRowInv, PTL DEF Spec, ViewNeverGoesBack

--------------------------------------------------------------------------------
(* What was announced is shown, on its way, or about to be sent.           *)

InList(c, s) == \E i \in 1 .. Len(s) : s[i] = c
Gone(c) == link[c] \in {"lost", "closed"}

\* The types of the rest.
HubTypes ==
    /\ clients \in Seq(Conns) /\ snapshot \in Seq(Conns)
    /\ index \in 0 .. Len(snapshot) + 1
    /\ since \in [Conns -> Nat]
    /\ handler \in [Conns -> {"none", "accepted", "loop", "ended"}]

\* A connection that is up has a handler, which is registered before it subscribes
\* anything; the hub drops none that is still up.
Handled ==
    \A c \in Conns :
        /\ link[c] = "up" => handler[c] \in {"accepted", "loop"}
        /\ link[c] \in {"none", "opening"} => handler[c] = "none"
        /\ link[c] = "up" /\ handler[c] = "loop" => InList(c, clients)
        /\ c \in channels => handler[c] \in {"loop", "ended"}
        /\ c \in dead => Gone(c)

\* A tab makes its connections one after the other.
MadeInOrder ==
    \A t \in Tabs : \A i \in Made(t) : \A j \in 1 .. i : j \in Made(t)

\* The broadcast of event n has yet to come to connection c ...
ToBeSent(c, n) == n = read /\ index # 0 /\ \E i \in index .. Len(snapshot) : snapshot[i] = c
\* ... or it is on the wire ...
OnWire(c, n) == \E i \in 1 .. Len(wire[c]) : wire[c][i] = n
\* ... or the table shows it, or a later one of the same row.
IsShown(c, n) == n <= view[TabOf(c)][topic[n]]
Reaches(c, n) == ToBeSent(c, n) \/ OnWire(c, n) \/ IsShown(c, n)

NoneMissed ==
    \A c \in Conns :
        link[c] = "up" /\ c \in channels => \A n \in since[c] + 1 .. read : Reaches(c, n)

HubInv == RowInv /\ HubTypes /\ Handled /\ MadeInOrder /\ NoneMissed

LEMMA InitHubInv == Init => HubInv
<1> SUFFICES ASSUME Init PROVE HubInv
  OBVIOUS
<1>1. HubTypes
  <2>1. <<>> \in Seq(Conns) /\ Len(<<>>) = 0
    BY EmptySeq
  <2> QED BY <2>1 DEF Init, HubTypes
<1>2. Handled /\ NoneMissed
  BY DEF Init, Handled, NoneMissed
<1>3. MadeInOrder
  <2>1. ASSUME NEW t \in Tabs PROVE Made(t) = {}
    BY DEF Init, Made, Conns
  <2> QED BY <2>1 DEF MadeInOrder
<1> QED BY <1>1, <1>2, <1>3, InitRowInv DEF HubInv

\* Nothing but what is left out is gone from a list.
LEMMA WithoutKeeps ==
    ASSUME NEW s \in Seq(Conns), NEW gone
    PROVE  /\ Without(s, gone) \in Seq(Conns)
           /\ \A c : c \notin gone /\ InList(c, s) => InList(c, Without(s, gone))
<1> DEFINE P == {i \in DOMAIN s : s[i] \notin gone}
<1>1. P \in SUBSET (1 .. Len(s)) /\ Without(s, gone) = AtPlaces(s, P)
  BY DEF Without
<1>2. \A c : c \notin gone /\ InList(c, s) => \E i \in P : s[i] = c
  BY DEF InList
<1> HIDE DEF P
<1>3. /\ AtPlaces(s, P) \in Seq(Conns) /\ Len(AtPlaces(s, P)) = Cardinality(P)
      /\ \A i \in P : \E n \in 1 .. Cardinality(P) : AtPlaces(s, P)[n] = s[i]
  BY <1>1, AtPlacesOrder
<1> QED BY <1>1, <1>2, <1>3 DEF InList

\* Connections made in order are as many as the last one's number.
LEMMA MadeFromOne ==
    ASSUME MadeInOrder, NEW t \in Tabs
    PROVE  Cardinality(Made(t)) \in Nat /\ Made(t) = 1 .. Cardinality(Made(t))
<1> DEFINE M == Made(t)
           n == Cardinality(M)
<1>1. M \in SUBSET (1 .. MaxConns) /\ \A i \in M : (1 .. i) \in SUBSET M
  BY DEF MadeInOrder, Made
<1> HIDE DEF M
<1>2. IsFiniteSet(M) /\ n \in Nat
  BY <1>1, ConnsAssumption, PlacesFinite
<1>3. ASSUME NEW i \in M
      PROVE  i \in 1 .. n
  <2>1. i \in Nat \ {0}
    BY <1>1, ConnsAssumption
  <2>2. Cardinality(1 .. i) = i
    BY <2>1, FS_Interval
  <2>3. Cardinality(1 .. i) <= n
    BY <1>1, <1>2, FS_Subset
  <2> QED BY <1>2, <2>1, <2>2, <2>3
<1>4. IsFiniteSet(1 .. n) /\ Cardinality(1 .. n) = n
  BY <1>2, FS_Interval
<1>5. M = 1 .. n
  <2>1. M \in SUBSET (1 .. n)
    BY <1>3
  <2> QED BY <1>4, <2>1, FS_Subset
<1> QED BY <1>2, <1>5 DEF M

--------------------------------------------------------------------------------
(* The types, the handlers and the connections are kept.                   *)

\* The steps of the handlers and of the pump that end a broadcast or a client.
LEMMA HubTypesKept ==
    ASSUME RowInv, HubTypes, [Next]_vars
    PROVE  HubTypes'
<1> DEFINE lists == <<clients, snapshot, index, since, handler>>
<1>1. CASE UNCHANGED lists
  BY <1>1 DEF HubTypes
<1>2. CASE PumpTake
  <2>1. /\ snapshot' = clients /\ index' = 1 /\ UNCHANGED <<clients, since, handler>>
    BY <1>2 DEF PumpTake, serverVars
  <2>2. Len(clients) \in Nat
    BY LenProperties DEF HubTypes
  <2>3. index' \in 0 .. Len(snapshot') + 1
    BY <2>1, <2>2
  <2> QED BY <2>1, <2>3 DEF HubTypes
<1>3. CASE PumpSend
  <2>1. /\ index \in 1 .. Len(snapshot) /\ index' = index + 1
        /\ UNCHANGED <<snapshot, clients, since, handler>>
    BY <1>3 DEF PumpSend, AfterDead, serverVars
  <2>2. Len(snapshot) \in Nat
    BY LenProperties DEF HubTypes
  <2>3. index' \in 0 .. Len(snapshot') + 1
    BY <2>1, <2>2
  <2> QED BY <2>1, <2>3 DEF HubTypes
<1>4. CASE PumpDone
  <2>1. /\ clients' = Without(clients, dead) /\ index' = 0 /\ snapshot' = <<>>
        /\ UNCHANGED <<since, handler>>
    BY <1>4 DEF PumpDone
  <2>2. clients' \in Seq(Conns)
    BY <2>1, WithoutKeeps DEF HubTypes
  <2>3. <<>> \in Seq(Conns) /\ Len(<<>>) = 0
    BY EmptySeq
  <2> QED BY <2>1, <2>2, <2>3 DEF HubTypes
<1>5. ASSUME NEW c \in Conns, Accept(c)
      PROVE  HubTypes'
  BY <1>5 DEF Accept, pumpVars, HubTypes
<1>6. ASSUME NEW c \in Conns, Register(c)
      PROVE  HubTypes'
  <2>1. clients' \in Seq(Conns)
    BY <1>6, AppendProperties DEF Register, HubTypes
  <2> QED BY <1>6, <2>1 DEF Register, pumpVars, HubTypes
<1>7. ASSUME NEW c \in Conns, Configure(c)
      PROVE  HubTypes'
  <2>1. read \in Nat
    BY LenProperties DEF RowInv, RowTypes
  <2> QED BY <1>7, <2>1 DEF Configure, pumpVars, HubTypes
<1>8. ASSUME NEW c \in Conns, HandlerEnds(c)
      PROVE  HubTypes'
  <2>1. clients' \in Seq(Conns)
    BY <1>8, WithoutKeeps DEF HandlerEnds, Disconnect, HubTypes
  <2> QED BY <1>8, <2>1 DEF HandlerEnds, pumpVars, HubTypes
<1>9. CASE Restart
  <2>1. <<>> \in Seq(Conns) /\ Len(<<>>) = 0
    BY EmptySeq
  <2>2. /\ clients' = <<>> /\ snapshot' = <<>> /\ index' = 0 /\ UNCHANGED since
        /\ handler' = [c \in Conns |-> IF link[c] = "none" THEN "none" ELSE "ended"]
    BY <1>9 DEF Restart
  <2> QED BY <2>1, <2>2 DEF HubTypes
<1>10. ASSUME NEW c \in Conns, Browser(c) \/ Lose(c)
       PROVE  UNCHANGED lists
  BY <1>10 DEF Browser, OnOpen, OnMessage, OnClose, Lose, pumpVars, serverVars
<1>11. ASSUME NEW t \in Tabs, Open(t)
       PROVE  UNCHANGED lists
  BY <1>11 DEF Open, pumpVars, serverVars
<1>12. ASSUME NEW k \in Keys, Publish(k)
       PROVE  UNCHANGED lists
  BY <1>12 DEF Publish, pumpVars, serverVars
<1>13. ASSUME UNCHANGED vars
       PROVE  UNCHANGED lists
  BY <1>13 DEF vars, pumpVars, serverVars
<1> HIDE DEF lists
<1> QED
  BY <1>1, <1>2, <1>3, <1>4, <1>5, <1>6, <1>7, <1>8, <1>9, <1>10, <1>11, <1>12, <1>13
     DEF Next, Pump, Handler

\* Which connection a tab opens: the next one, which had no handler yet.
LEMMA OpensNext ==
    ASSUME RowInv, MadeInOrder, NEW t \in Tabs, Open(t)
    PROVE  \E c \in Conns :
              /\ TabOf(c) = t /\ link[c] = "none"
              /\ link' = [link EXCEPT ![c] = "opening"]
              /\ c[2] = Cardinality(Made(t)) + 1
<1> DEFINE i == Cardinality(Made(t)) + 1
           c == <<t, i>>
<1>1. i <= MaxConns /\ link' = [link EXCEPT ![c] = "opening"]
  BY DEF Open
<1>2. Cardinality(Made(t)) \in Nat /\ Made(t) = 1 .. Cardinality(Made(t))
  BY MadeFromOne
<1>3. i \in 1 .. MaxConns /\ i \notin Made(t)
  BY <1>1, <1>2, ConnsAssumption
<1>4. c \in Conns /\ TabOf(c) = t /\ c[2] = i
  BY <1>3 DEF Conns, TabOf
<1>5. link[c] = "none"
  BY <1>3 DEF Made
<1> QED BY <1>1, <1>4, <1>5

\* No connection is unmade, and the next one comes after the others.
LEMMA MadeInOrderKept ==
    ASSUME RowInv, MadeInOrder, [Next]_vars
    PROVE  MadeInOrder'
<1>1. link \in [Conns -> Links]
  BY DEF RowInv, RowTypes
<1>2. ASSUME link' \in [Conns -> Links],
             \A c \in Conns : link'[c] = "none" <=> link[c] = "none"
      PROVE  MadeInOrder'
  <2>1. ASSUME NEW t \in Tabs PROVE Made(t)' = Made(t)
    <3>1. \A i \in 1 .. MaxConns : <<t, i>> \in Conns
      BY DEF Conns
    <3> QED BY <1>2, <3>1 DEF Made
  <2>2. \A t \in Tabs : Made(t)' = Made(t)
    BY <2>1
  <2> QED BY <2>2 DEF MadeInOrder
<1>3. ASSUME UNCHANGED link
      PROVE  MadeInOrder'
  BY <1>1, <1>2, <1>3
<1>4. ASSUME NEW c \in Conns, Accept(c) \/ OnClose(c) \/ Lose(c)
      PROVE  MadeInOrder'
  <2>1. /\ link[c] # "none"
        /\ \E state \in {"up", "closed", "lost"} : link' = [link EXCEPT ![c] = state]
    BY <1>4 DEF Accept, OnClose, Lose
  <2>2. /\ link' \in [Conns -> Links]
        /\ \A d \in Conns : link'[d] = "none" <=> link[d] = "none"
    BY <1>1, <2>1 DEF Links
  <2> QED BY <1>2, <2>2
<1>5. CASE Restart
  <2>1. link' = [c \in Conns |-> IF link[c] \in {"opening", "up"} THEN "lost" ELSE link[c]]
    BY <1>5 DEF Restart
  <2>2. /\ link' \in [Conns -> Links]
        /\ \A d \in Conns : link'[d] = "none" <=> link[d] = "none"
    BY <1>1, <2>1 DEF Links
  <2> QED BY <1>2, <2>2
<1>6. ASSUME NEW t \in Tabs, Open(t)
      PROVE  MadeInOrder'
  <2>1. PICK c \in Conns : /\ TabOf(c) = t /\ link[c] = "none"
                           /\ link' = [link EXCEPT ![c] = "opening"]
                           /\ c[2] = Cardinality(Made(t)) + 1
    BY <1>6, OpensNext
  <2>2. \A d \in Conns : (link'[d] # "none") <=> (link[d] # "none" \/ d = c)
    BY <1>1, <2>1
  <2>3. ASSUME NEW u \in Tabs, NEW i \in 1 .. MaxConns, link'[<<u, i>>] # "none",
               NEW j \in 1 .. i
        PROVE  j \in 1 .. MaxConns /\ link'[<<u, j>>] # "none"
    <3>1. j \in 1 .. MaxConns /\ <<u, i>> \in Conns /\ <<u, j>> \in Conns
      BY ConnsAssumption DEF Conns
    <3>2. CASE link[<<u, i>>] # "none"
      <4>1. link[<<u, j>>] # "none"
        BY <3>2 DEF MadeInOrder, Made
      <4> QED BY <2>2, <3>1, <4>1
    <3>3. CASE <<u, i>> = c
      <4>1. u = t /\ i = Cardinality(Made(t)) + 1
        BY <2>1, <3>3 DEF TabOf
      <4>2. Cardinality(Made(t)) \in Nat /\ Made(t) = 1 .. Cardinality(Made(t))
        BY MadeFromOne
      <4>3. j = i \/ j \in Made(t)
        BY <4>1, <4>2
      <4>4. link[<<u, j>>] # "none" \/ <<u, j>> = c
        BY <3>3, <4>1, <4>3 DEF Made
      <4> QED BY <2>2, <3>1, <4>4
    <3> QED BY <2>2, <2>3, <3>1, <3>2, <3>3
  <2> QED BY <2>3 DEF MadeInOrder, Made
<1>7. ASSUME NEW c \in Conns,
             Register(c) \/ Configure(c) \/ HandlerEnds(c) \/ OnOpen(c) \/ OnMessage(c)
      PROVE  UNCHANGED link
  BY <1>7 DEF Register, Configure, HandlerEnds, OnOpen, OnMessage
<1>8. ASSUME Pump \/ UNCHANGED vars \/ \E k \in Keys : Publish(k)
      PROVE  UNCHANGED link
  BY <1>8 DEF Pump, PumpTake, PumpSend, PumpDone, vars, Publish
<1> QED
  BY <1>3, <1>4, <1>5, <1>6, <1>7, <1>8 DEF Next, Handler, Browser

\* The steps of a handler.
LEMMA HandlerKeeps ==
    ASSUME RowInv, HubTypes, Handled, NEW c \in Conns, Handler(c)
    PROVE  Handled'
<1>1. /\ link \in [Conns -> Links] /\ clients \in Seq(Conns)
      /\ handler \in [Conns -> {"none", "accepted", "loop", "ended"}]
  BY DEF RowInv, RowTypes, HubTypes
<1>2. CASE Accept(c)
  <2>1. /\ link[c] = "opening" /\ link' = [link EXCEPT ![c] = "up"]
        /\ handler' = [handler EXCEPT ![c] = "accepted"]
        /\ UNCHANGED <<clients, channels, dead>>
    BY <1>2 DEF Accept, pumpVars
  <2>2. /\ link'[c] = "up" /\ handler'[c] = "accepted"
        /\ \A d \in Conns \ {c} : link'[d] = link[d] /\ handler'[d] = handler[d]
    BY <1>1, <2>1
  <2>3. c \notin channels /\ c \notin dead
    BY <2>1 DEF Handled, Gone
  <2> QED BY <2>1, <2>2, <2>3 DEF Handled, Gone
<1>3. CASE Register(c)
  <2>1. /\ handler[c] = "accepted" /\ clients' = Append(clients, c)
        /\ handler' = [handler EXCEPT ![c] = "loop"]
        /\ UNCHANGED <<link, channels, dead>>
    BY <1>3 DEF Register, pumpVars
  <2>2. /\ handler'[c] = "loop"
        /\ \A d \in Conns \ {c} : handler'[d] = handler[d]
    BY <1>1, <2>1
  <2>3. InList(c, clients') /\ \A d \in Conns : InList(d, clients) => InList(d, clients')
    BY <1>1, <2>1, AppendProperties DEF InList
  <2> QED BY <2>1, <2>2, <2>3 DEF Handled, Gone
<1>4. CASE Configure(c)
  BY <1>4 DEF Configure, pumpVars, Handled, Gone
<1>5. CASE HandlerEnds(c)
  <2>1. /\ handler[c] = "loop" /\ link[c] \in {"lost", "closed"}
        /\ clients' = Without(clients, {c})
        /\ handler' = [handler EXCEPT ![c] = "ended"]
        /\ UNCHANGED <<link, channels, dead>>
    BY <1>5 DEF HandlerEnds, Disconnect, pumpVars
  <2>2. /\ handler'[c] = "ended"
        /\ \A d \in Conns \ {c} : handler'[d] = handler[d]
    BY <1>1, <2>1
  <2>3. \A d \in Conns \ {c} : InList(d, clients) => InList(d, clients')
    BY <1>1, <2>1, WithoutKeeps
  <2> QED BY <2>1, <2>2, <2>3 DEF Handled, Gone
<1> QED BY <1>2, <1>3, <1>4, <1>5 DEF Handler

LEMMA HandledKept ==
    ASSUME RowInv, HubTypes, Handled, MadeInOrder, [Next]_vars
    PROVE  Handled'
<1>1. /\ link \in [Conns -> Links] /\ clients \in Seq(Conns)
      /\ handler \in [Conns -> {"none", "accepted", "loop", "ended"}]
  BY DEF RowInv, RowTypes, HubTypes
<1>2. ASSUME UNCHANGED <<link, handler, clients, channels, dead>>
      PROVE  Handled'
  BY <1>2 DEF Handled, Gone
<1>3. CASE PumpSend
  <2> DEFINE c == snapshot[index]
  <2>1. /\ UNCHANGED <<link, handler, clients, channels>>
        /\ \/ UNCHANGED dead
           \/ dead' = dead \union {c} /\ c \in channels /\ link[c] # "up"
    BY <1>3 DEF PumpSend, serverVars
  <2>2. c \in Conns
    BY <1>3 DEF PumpSend, HubTypes
  <2> HIDE DEF c
  <2>3. c \in channels /\ link[c] # "up" => Gone(c)
    BY <1>1, <2>2 DEF Handled, Gone, Links
  <2> QED BY <2>1, <2>3 DEF Handled, Gone
<1>4. CASE PumpDone
  <2>1. /\ clients' = Without(clients, dead) /\ dead' = {}
        /\ UNCHANGED <<link, handler, channels>>
    BY <1>4 DEF PumpDone
  <2>2. \A d \in Conns : link[d] = "up" => d \notin dead
    BY DEF Handled, Gone
  <2>3. \A d \in Conns : d \notin dead /\ InList(d, clients) => InList(d, clients')
    BY <1>1, <2>1, WithoutKeeps
  <2> QED BY <2>1, <2>2, <2>3 DEF Handled, Gone
<1>5. CASE Restart
  <2>1. /\ dead' = {} /\ UNCHANGED channels
        /\ handler' = [c \in Conns |-> IF link[c] = "none" THEN "none" ELSE "ended"]
        /\ link' = [c \in Conns |-> IF link[c] \in {"opening", "up"} THEN "lost" ELSE link[c]]
    BY <1>5 DEF Restart
  <2> QED BY <1>1, <2>1 DEF Handled, Gone
<1>6. ASSUME NEW t \in Tabs, Open(t)
      PROVE  Handled'
  <2>1. PICK c \in Conns : link[c] = "none" /\ link' = [link EXCEPT ![c] = "opening"]
    BY <1>6, OpensNext
  <2>2. UNCHANGED <<handler, clients, channels, dead>>
    BY <1>6 DEF Open, serverVars, pumpVars
  <2>3. link'[c] = "opening" /\ \A d \in Conns \ {c} : link'[d] = link[d]
    BY <1>1, <2>1
  <2>4. handler[c] = "none" /\ c \notin dead
    BY <2>1 DEF Handled, Gone
  <2> QED BY <2>2, <2>3, <2>4 DEF Handled, Gone
<1>7. ASSUME NEW c \in Conns, Lose(c) \/ OnClose(c)
      PROVE  Handled'
  <2>1. /\ UNCHANGED <<handler, clients, channels, dead>>
        /\ \E state \in {"lost", "closed"} : link' = [link EXCEPT ![c] = state]
    BY <1>7 DEF Lose, OnClose, serverVars, pumpVars
  <2>2. link'[c] \in {"lost", "closed"} /\ \A d \in Conns \ {c} : link'[d] = link[d]
    BY <1>1, <2>1
  <2> QED BY <2>1, <2>2 DEF Handled, Gone
<1>8. ASSUME NEW c \in Conns, OnOpen(c) \/ OnMessage(c)
      PROVE  Handled'
  BY <1>2, <1>8 DEF OnOpen, OnMessage, serverVars, pumpVars
<1>9. ASSUME PumpTake \/ UNCHANGED vars \/ \E k \in Keys : Publish(k)
      PROVE  Handled'
  BY <1>2, <1>9 DEF PumpTake, vars, Publish, serverVars, pumpVars
<1> QED
  BY <1>3, <1>4, <1>5, <1>6, <1>7, <1>8, <1>9, HandlerKeeps DEF Next, Pump, Browser

--------------------------------------------------------------------------------
(* No event is missed.                                                     *)

\* Steps that leave the connections that are up where they are.
LEMMA NoneMissedQuiet ==
    ASSUME RowInv, HubTypes, NoneMissed,
           UNCHANGED <<read, index, snapshot, view, since>>,
           \A n \in 1 .. read : topic'[n] = topic[n],
           \A c \in Conns :
               link'[c] = "up" /\ c \in channels' =>
                   link[c] = "up" /\ c \in channels /\ wire'[c] = wire[c]
    PROVE  NoneMissed'
<1>1. ASSUME NEW c \in Conns, link'[c] = "up", c \in channels',
             NEW n \in since[c] + 1 .. read
      PROVE  Reaches(c, n)'
  <2>1. link[c] = "up" /\ c \in channels /\ wire'[c] = wire[c]
    BY <1>1
  <2>2. Reaches(c, n)
    BY <2>1 DEF NoneMissed
  <2>3. read \in Nat /\ since[c] \in Nat
    BY LenProperties DEF RowInv, RowTypes, HubTypes
  <2>4. n \in 1 .. read
    BY <2>3
  <2>5. topic'[n] = topic[n]
    BY <2>4
  <2> QED BY <2>1, <2>2, <2>5 DEF Reaches, ToBeSent, OnWire, IsShown
<1> QED BY <1>1 DEF NoneMissed

LEMMA TakeMissesNone ==
    ASSUME RowInv, HubTypes, Handled, NoneMissed, PumpTake
    PROVE  NoneMissed'
<1>1. /\ index = 0 /\ read' = read + 1 /\ snapshot' = clients /\ index' = 1
      /\ UNCHANGED <<topic, link, channels, since, wire, view>>
  BY DEF PumpTake, serverVars, browserVars
<1>2. ASSUME NEW c \in Conns, link[c] = "up", c \in channels,
             NEW n \in since[c] + 1 .. read + 1
      PROVE  Reaches(c, n)'
  <2>1. read \in Nat /\ since[c] \in Nat
    BY LenProperties DEF RowInv, RowTypes, HubTypes
  <2>2. CASE n = read + 1
    <3>1. InList(c, clients)
      BY <1>2 DEF Handled
    <3> QED BY <1>1, <2>2, <3>1 DEF Reaches, ToBeSent, InList
  <2>3. CASE n # read + 1
    <3>1. n \in since[c] + 1 .. read
      BY <2>1, <2>3
    <3>2. Reaches(c, n)
      BY <1>2, <3>1 DEF NoneMissed
    <3> QED BY <1>1, <3>2 DEF Reaches, ToBeSent, OnWire, IsShown
  <2> QED BY <2>2, <2>3
<1> QED BY <1>1, <1>2 DEF NoneMissed

\* The one client the broadcast is at gets the event if it is up and subscribed.
LEMMA SendMissesNone ==
    ASSUME RowInv, HubTypes, Handled, NoneMissed, PumpSend
    PROVE  NoneMissed'
<1>1. index \in 1 .. Len(snapshot) /\ snapshot[index] \in Conns
  BY DEF PumpSend, HubTypes
<1>2. PICK at \in Conns : at = snapshot[index]
  BY <1>1
<1>3. /\ index' = index + 1
      /\ UNCHANGED <<topic, read, snapshot, link, channels, since, view>>
      /\ \/ wire' = [wire EXCEPT ![at] = Append(@, read)]
         \/ UNCHANGED wire /\ ~(at \in channels /\ link[at] = "up")
  BY <1>2 DEF PumpSend, AfterDead, serverVars, browserVars
<1>4. wire \in [Conns -> Seq(Nat)] /\ read \in Nat
  BY LenProperties DEF RowInv, RowTypes
<1>5. PICK len \in Nat : len = Len(snapshot)
  BY LenProperties DEF HubTypes
<1>6. /\ index + 1 # 0
      /\ \A i \in index .. Len(snapshot) : i = index \/ i \in index + 1 .. Len(snapshot)
  BY <1>1, <1>5
<1>7. /\ \A c \in Conns, n \in Nat : OnWire(c, n) => OnWire(c, n)'
      /\ at \in channels /\ link[at] = "up" =>
            \E i \in 1 .. Len(wire'[at]) : wire'[at][i] = read
  <2>1. CASE UNCHANGED wire /\ ~(at \in channels /\ link[at] = "up")
    BY <2>1 DEF OnWire
  <2>2. CASE wire' = [wire EXCEPT ![at] = Append(@, read)]
    <3>1. /\ wire'[at] = Append(wire[at], read)
          /\ \A d \in Conns \ {at} : wire'[d] = wire[d]
      BY <1>4, <2>2
    <3>2. /\ Len(Append(wire[at], read)) = Len(wire[at]) + 1 /\ Len(wire[at]) \in Nat
          /\ Append(wire[at], read)[Len(wire[at]) + 1] = read
          /\ \A i \in 1 .. Len(wire[at]) : Append(wire[at], read)[i] = wire[at][i]
      BY <1>4, AppendProperties, LenProperties
    <3>3. ASSUME NEW c \in Conns, NEW n \in Nat, OnWire(c, n)
          PROVE  OnWire(c, n)'
      <4>1. PICK i \in 1 .. Len(wire[c]) : wire[c][i] = n
        BY <3>3 DEF OnWire
      <4>2. i \in 1 .. Len(wire'[c]) /\ wire'[c][i] = n
        BY <3>1, <3>2, <4>1
      <4> QED BY <4>2 DEF OnWire
    <3>4. Len(wire'[at]) \in 1 .. Len(wire'[at]) /\ wire'[at][Len(wire'[at])] = read
      BY <3>1, <3>2
    <3> QED BY <3>3, <3>4
  <2> QED BY <1>3, <2>1, <2>2
<1>8. ASSUME NEW c \in Conns, link[c] = "up", c \in channels,
             NEW n \in since[c] + 1 .. read
      PROVE  Reaches(c, n)'
  <2>1. n \in Nat
    BY <1>4 DEF HubTypes
  <2>2. CASE ToBeSent(c, n)
    <3>1. PICK i \in index .. Len(snapshot) : snapshot[i] = c
      BY <2>2 DEF ToBeSent
    <3>2. n = read
      BY <2>2 DEF ToBeSent
    <3>3. CASE i = index
      <4>1. \E j \in 1 .. Len(wire'[c]) : wire'[c][j] = n
        BY <1>2, <1>7, <1>8, <3>1, <3>2, <3>3
      <4> QED BY <4>1 DEF Reaches, OnWire
    <3>4. CASE i \in index + 1 .. Len(snapshot)
      BY <1>3, <1>6, <3>1, <3>2, <3>4 DEF Reaches, ToBeSent
    <3> QED BY <1>6, <3>1, <3>3, <3>4
  <2>3. CASE OnWire(c, n)
    BY <1>7, <2>1, <2>3 DEF Reaches
  <2>4. CASE IsShown(c, n)
    BY <1>3, <2>4 DEF Reaches, IsShown
  <2>5. Reaches(c, n)
    BY <1>8 DEF NoneMissed
  <2> QED BY <2>2, <2>3, <2>4, <2>5 DEF Reaches
<1> QED BY <1>3, <1>8 DEF NoneMissed

\* The frame the browser reads is shown; the others still come.
LEMMA MessageMissesNone ==
    ASSUME RowInv, RowInv', HubTypes, NoneMissed, NEW m \in Conns, OnMessage(m),
           \A t \in Tabs : \A k \in Keys : view[t][k] <= view'[t][k]
    PROVE  NoneMissed'
<1>1. /\ wire[m] # <<>>
      /\ view' = [view EXCEPT ![TabOf(m)][topic[Head(wire[m])]] = Head(wire[m])]
      /\ wire' = [wire EXCEPT ![m] = Tail(@)]
      /\ UNCHANGED <<topic, read, index, snapshot, link, channels, since>>
  BY DEF OnMessage, pumpVars, serverVars, topicVars
<1>2. /\ topic \in Seq(Keys) /\ read \in 0 .. Len(topic) /\ Len(topic) \in Nat
      /\ wire \in [Conns -> Seq(Nat)]
      /\ view \in [Tabs -> [Keys -> Nat]] /\ view' \in [Tabs -> [Keys -> Nat]]
  BY DEF RowInv, RowTypes
<1>3. /\ wire'[m] = Tail(wire[m]) /\ \A d \in Conns \ {m} : wire'[d] = wire[d]
  BY <1>1, <1>2
<1>4. /\ Len(wire[m]) \in Nat \ {0} /\ Head(wire[m]) = wire[m][1]
      /\ Len(Tail(wire[m])) = Len(wire[m]) - 1
      /\ \A i \in 1 .. Len(Tail(wire[m])) : Tail(wire[m])[i] = wire[m][i + 1]
  BY <1>1, <1>2, EmptySeq, HeadTailProperties
<1>5. ASSUME NEW c \in Conns, link[c] = "up", c \in channels,
             NEW n \in since[c] + 1 .. read
      PROVE  Reaches(c, n)'
  <2>1. /\ read \in Nat /\ since[c] \in Nat /\ n \in 1 .. Len(topic)
    BY <1>2 DEF HubTypes
  <2>2. /\ topic[n] \in Keys /\ TabOf(c) \in Tabs
    BY <1>2, <2>1, TabOfConn
  <2>3. Reaches(c, n)
    BY <1>5 DEF NoneMissed
  <2>4. CASE ToBeSent(c, n)
    BY <1>1, <2>4 DEF Reaches, ToBeSent
  <2>5. CASE IsShown(c, n)
    <3>1. n <= view[TabOf(c)][topic[n]]
      BY <2>5 DEF IsShown
    <3>2. view[TabOf(c)][topic[n]] <= view'[TabOf(c)][topic[n]]
      BY <2>2
    <3>3. view[TabOf(c)][topic[n]] \in Nat /\ view'[TabOf(c)][topic[n]] \in Nat
      BY <1>2, <2>2
    <3>4. n <= view'[TabOf(c)][topic[n]]
      BY <2>1, <3>1, <3>2, <3>3
    <3> QED BY <1>1, <3>4 DEF Reaches, IsShown
  <2>6. CASE OnWire(c, n) /\ c # m
    <3>1. wire'[c] = wire[c]
      BY <1>3, <2>6
    <3> QED BY <2>6, <3>1 DEF Reaches, OnWire
  <2>7. CASE OnWire(c, n) /\ c = m
    <3>1. PICK i \in 1 .. Len(wire[m]) : wire[m][i] = n
      BY <2>7 DEF OnWire
    <3>2. CASE i = 1
      <4>1. Head(wire[m]) = n
        BY <1>4, <3>1, <3>2
      <4>2. view' = [view EXCEPT ![TabOf(m)][topic[n]] = n]
        BY <1>1, <4>1
      <4>3. view'[TabOf(m)][topic[n]] = n
        BY <1>2, <2>2, <2>7, <4>2
      <4>4. n <= view'[TabOf(c)][topic[n]]
        BY <2>1, <2>7, <4>3
      <4> QED BY <1>1, <4>4 DEF Reaches, IsShown
    <3>3. CASE i # 1
      <4>1. i - 1 \in 1 .. Len(Tail(wire[m])) /\ i = (i - 1) + 1
        BY <1>4, <3>1, <3>3
      <4>2. Tail(wire[m])[i - 1] = wire[m][i]
        BY <1>4, <4>1
      <4>3. i - 1 \in 1 .. Len(wire'[m]) /\ wire'[m][i - 1] = n
        BY <1>3, <3>1, <4>1, <4>2
      <4> QED BY <2>7, <4>3 DEF Reaches, OnWire
    <3> QED BY <3>2, <3>3
  <2> QED BY <2>3, <2>4, <2>5, <2>6, <2>7 DEF Reaches
<1> QED BY <1>1, <1>5 DEF NoneMissed

LEMMA NoneMissedKept ==
    ASSUME HubInv, RowInv', [Next]_vars,
           \A t \in Tabs : \A k \in Keys : view[t][k] <= view'[t][k]
    PROVE  NoneMissed'
<1>1. RowInv /\ HubTypes /\ Handled /\ MadeInOrder /\ NoneMissed
  BY DEF HubInv
<1>2. /\ link \in [Conns -> Links] /\ topic \in Seq(Keys)
      /\ read \in Nat /\ Len(topic) \in Nat /\ read <= Len(topic)
  BY <1>1 DEF RowInv, RowTypes
<1>3. ASSUME NEW k \in Keys, Publish(k)
      PROVE  NoneMissed'
  <2>1. /\ topic' = Append(topic, k)
        /\ UNCHANGED <<read, index, snapshot, view, since, link, channels, wire>>
    BY <1>3 DEF Publish, pumpVars, serverVars, browserVars
  <2>2. \A n \in 1 .. read : topic'[n] = topic[n]
    <3>1. \A n \in 1 .. Len(topic) : Append(topic, k)[n] = topic[n]
      BY <1>2, AppendProperties
    <3>2. \A n \in 1 .. read : n \in 1 .. Len(topic)
      BY <1>2
    <3> QED BY <2>1, <3>1, <3>2
  <2> QED BY <1>1, <2>1, <2>2, NoneMissedQuiet
<1>4. CASE PumpDone
  <2>1. /\ index = Len(snapshot) + 1
        /\ UNCHANGED <<topic, read, link, channels, since, wire, view>>
    BY <1>4 DEF PumpDone, browserVars
  <2>2. PICK len \in Nat : len = Len(snapshot)
    BY <1>1, LenProperties DEF HubTypes
  <2>3. \A c, n : ~ToBeSent(c, n)
    BY <2>1, <2>2 DEF ToBeSent
  <2> QED BY <1>1, <2>1, <2>3 DEF NoneMissed, Reaches, OnWire, IsShown
<1>5. ASSUME NEW c \in Conns, Configure(c)
      PROVE  NoneMissed'
  <2>1. /\ channels' = channels \union {c} /\ since' = [since EXCEPT ![c] = read]
        /\ UNCHANGED <<topic, read, index, snapshot, link, wire, view>>
    BY <1>5 DEF Configure, pumpVars, topicVars
  <2>2. since'[c] = read /\ \A d \in Conns \ {c} : since'[d] = since[d]
    BY <1>1, <2>1 DEF HubTypes
  <2>3. \A n : n \notin read + 1 .. read
    BY <1>2
  <2> QED BY <1>1, <2>1, <2>2, <2>3
      DEF NoneMissed, Reaches, ToBeSent, OnWire, IsShown
<1>6. ASSUME NEW c \in Conns, Accept(c)
      PROVE  NoneMissed'
  <2>1. /\ link[c] = "opening" /\ link' = [link EXCEPT ![c] = "up"]
        /\ UNCHANGED <<topic, read, index, snapshot, channels, since, wire, view>>
    BY <1>6 DEF Accept, topicVars, pumpVars, browserVars
  <2>2. c \notin channels /\ \A d \in Conns \ {c} : link'[d] = link[d]
    BY <1>1, <1>2, <2>1 DEF Handled
  <2> QED BY <1>1, <2>1, <2>2, NoneMissedQuiet
<1>7. ASSUME NEW c \in Conns, Lose(c) \/ OnClose(c)
      PROVE  NoneMissed'
  <2>1. /\ UNCHANGED <<topic, read, index, snapshot, channels, since, view>>
        /\ \E state \in {"lost", "closed"} : link' = [link EXCEPT ![c] = state]
        /\ UNCHANGED wire
              \/ \E n \in 0 .. Len(wire[c]) : wire' = [wire EXCEPT ![c] = SubSeq(@, 1, n)]
    BY <1>7 DEF Lose, OnClose, topicVars, pumpVars, serverVars, browserVars
  <2>2. link'[c] # "up" /\ \A d \in Conns \ {c} : link'[d] = link[d] /\ wire'[d] = wire[d]
    BY <1>1, <1>2, <2>1 DEF RowInv, RowTypes
  <2> QED BY <1>1, <2>1, <2>2, NoneMissedQuiet
<1>8. ASSUME NEW t \in Tabs, Open(t)
      PROVE  NoneMissed'
  <2>1. PICK c \in Conns : link' = [link EXCEPT ![c] = "opening"]
    BY <1>1, <1>8, OpensNext
  <2>2. UNCHANGED <<topic, read, index, snapshot, channels, since, wire, view>>
    BY <1>8 DEF Open, topicVars, pumpVars, serverVars, browserVars
  <2>3. link'[c] # "up" /\ \A d \in Conns \ {c} : link'[d] = link[d]
    BY <1>2, <2>1
  <2> QED BY <1>1, <2>2, <2>3, NoneMissedQuiet
<1>9. CASE Restart
  <2>1. link' = [c \in Conns |-> IF link[c] \in {"opening", "up"} THEN "lost" ELSE link[c]]
    BY <1>9 DEF Restart
  <2>2. \A c \in Conns : link'[c] # "up"
    BY <2>1
  <2> QED BY <2>2 DEF NoneMissed
<1>10. ASSUME \/ UNCHANGED vars
              \/ \E c \in Conns : Register(c) \/ HandlerEnds(c) \/ OnOpen(c)
       PROVE  NoneMissed'
  <2>1. UNCHANGED <<topic, read, index, snapshot, link, channels, since, wire, view>>
    BY <1>10 DEF vars, Register, HandlerEnds, OnOpen, topicVars, pumpVars, serverVars,
                 browserVars
  <2> QED BY <1>1, <2>1, NoneMissedQuiet
<1> QED
  BY <1>1, <1>3, <1>4, <1>5, <1>6, <1>7, <1>8, <1>9, <1>10,
     TakeMissesNone, SendMissesNone, MessageMissesNone
     DEF Next, Pump, Handler, Browser

LEMMA HubInvKept ==
    ASSUME HubInv, [Next]_vars
    PROVE  HubInv'
<1>1. RowInv' /\ \A t \in Tabs : \A k \in Keys : view[t][k] <= view'[t][k]
  BY NextKeeps DEF HubInv
<1>2. HubTypes' /\ Handled' /\ MadeInOrder'
  BY HubTypesKept, HandledKept, MadeInOrderKept DEF HubInv
<1>3. NoneMissed'
  BY <1>1, NoneMissedKept
<1> QED BY <1>1, <1>2, <1>3 DEF HubInv

\* With nothing on its way and nothing to be sent, what is left is that it is shown.
LEMMA CaughtUpIsCurrent == HubInv => ViewIsCurrent
<1> SUFFICES ASSUME HubInv, NEW c \in Conns, CaughtUp(c), NEW k \in Keys,
                    NEW n \in since[c] + 1 .. Len(topic), topic[n] = k
             PROVE  n <= view[TabOf(c)][k]
  BY DEF ViewIsCurrent
<1>1. /\ link[c] = "up" /\ c \in channels
      /\ read = Len(topic) /\ index = 0 /\ wire[c] = <<>>
  BY DEF CaughtUp, Idle
<1>2. Reaches(c, n)
  BY <1>1 DEF HubInv, NoneMissed
<1>3. ~ToBeSent(c, n) /\ ~OnWire(c, n)
  BY <1>1 DEF ToBeSent, OnWire
<1> QED BY <1>2, <1>3 DEF Reaches, IsShown

\* A tab that has caught up shows the latest announcement of every position announced
\* since its connection was subscribed: for any tabs, rows and size of the
\* connections, whoever connects, is slow, is lost or is dropped during a broadcast,
\* and however often the API starts again.
THEOREM CaughtUpTabsAreCurrent == Spec => []ViewIsCurrent
<1>1. HubInv /\ [Next]_vars => HubInv'
  BY HubInvKept
<1> QED BY <1>1, InitHubInv, CaughtUpIsCurrent, PTL DEF Spec
================================================================================
