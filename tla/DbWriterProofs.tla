---------------------------- MODULE DbWriterProofs ----------------------------
(***************************************************************************)
(* The buffer is always the end of what was consumed and never more than a *)
(* batch; an event is written at most once for every time it is delivered, *)
(* at least once unless a process took it down with it after its offset    *)
(* was committed; and the run's row is as recent as the run events         *)
(* flushed: whatever the batch size, the stops, the kills, the failing     *)
(* flushes and the moments of the commits.                                 *)
(***************************************************************************)
EXTENDS DbWriter, WellFoundedInduction, TLAPS

--------------------------------------------------------------------------------
(* The inductive invariant: besides the two properties, a process that is  *)
(* down has left nothing behind.                                           *)

TypesInv ==
    /\ log \in Seq(Kinds) /\ Len(log) \in 0 .. MaxEvents
    /\ position \in 0 .. Len(log)
    /\ committed \in 0 .. position
    /\ buffer \in Seq(Offsets)
    /\ written \in [Offsets -> 0 .. MaxWrites]
    /\ pc \in {"down", "poll", "flush", "stopping"}
    /\ delivered \in [Offsets -> 0 .. MaxWrites]
    /\ lost \subseteq Offsets

DownInv == pc = "down" => buffer = <<>> /\ committed = position

\* While it polls the buffer has room.
RoomInv == pc = "poll" => Len(buffer) < BatchMax

IInv == TypesInv /\ BufferIsTail /\ OncePerDelivery /\ DownInv /\ RoomInv

LEMMA InitIInv == Init => IInv
<1> SUFFICES ASSUME Init PROVE IInv
  OBVIOUS
<1>1. TypesInv
  <2>1. log = <<>> /\ log \in Seq(Kinds) /\ Len(log) = 0 /\ MaxEvents \in Nat
    BY BatchAssumption DEF Init
  <2>2. buffer \in Seq(Offsets) /\ committed = 0 /\ position = 0
    BY DEF Init
  <2>3. /\ written \in [Offsets -> 0 .. MaxWrites]
        /\ delivered \in [Offsets -> 0 .. MaxWrites]
    BY WritesAssumption DEF Init
  <2>4. pc = "down" /\ lost \subseteq Offsets
    BY DEF Init
  <2> QED BY <2>1, <2>2, <2>3, <2>4 DEF TypesInv
<1>2. BufferIsTail
  BY BatchAssumption DEF Init, BufferIsTail
<1>3. OncePerDelivery
  <2>1. position = 0 /\ Len(buffer) = 0
    BY DEF Init
  <2>2. DOMAIN buffer = {}
    BY DEF Init
  <2>3. Flushed = 0 /\ Buffered = {}
    BY <2>1, <2>2 DEF Flushed, Buffered
  <2> QED BY <2>3, BatchAssumption DEF Init, OncePerDelivery, Offsets
<1>4. DownInv /\ RoomInv
  BY DEF Init, DownInv, RoomInv
<1> QED BY <1>1, <1>2, <1>3, <1>4 DEF IInv

\* What is buffered are the events after the flushed ones.
LEMMA BufferedAre ==
    ASSUME TypesInv, BufferIsTail
    PROVE  /\ Flushed \in 0 .. position
           /\ \A e \in Offsets : e \in Buffered <=> e > Flushed /\ e <= position
<1>1. position \in Nat /\ Len(buffer) \in Nat /\ Len(buffer) <= position
  BY DEF TypesInv, BufferIsTail
<1>2. ASSUME NEW e \in Offsets
      PROVE  e \in Buffered <=> e > Flushed /\ e <= position
  <2>1. e \in Int
    BY BatchAssumption DEF Offsets
  <2>2. DOMAIN buffer = 1 .. Len(buffer)
    BY DEF TypesInv
  <2>3. ASSUME NEW i \in 1 .. Len(buffer), e = buffer[i]
        PROVE  e > Flushed /\ e <= position
    BY <1>1, <2>3 DEF BufferIsTail, Flushed
  <2>4. ASSUME e > Flushed, e <= position
        PROVE  \E i \in 1 .. Len(buffer) : e = buffer[i]
    <3>1. e - Flushed \in 1 .. Len(buffer)
      BY <1>1, <2>1, <2>4 DEF Flushed
    <3>2. buffer[e - Flushed] = e
      BY <1>1, <2>1, <3>1 DEF BufferIsTail, Flushed
    <3> QED BY <3>1, <3>2
  <2> QED BY <2>2, <2>3, <2>4 DEF Buffered
<1> QED BY <1>1, <1>2 DEF Flushed

\* A transaction of a batch that was not yet tried writes each buffered event
\* within its deliveries, and no other.
LEMMA WriteCounts ==
    ASSUME IInv, Write, pc = "flush"
    PROVE  /\ written' \in [Offsets -> 0 .. MaxWrites]
           /\ \A e \in Offsets :
                 /\ e \in Buffered => written'[e] > 0
                 /\ e \notin Buffered => written'[e] = written[e]
                 /\ written'[e] <= delivered[e]
<1>1. ASSUME NEW e \in Offsets
      PROVE  /\ written'[e] \in 0 .. MaxWrites
             /\ e \in Buffered => written'[e] > 0
             /\ e \notin Buffered => written'[e] = written[e]
             /\ written'[e] <= delivered[e]
  <2>1. /\ written[e] \in 0 .. MaxWrites /\ delivered[e] \in 0 .. MaxWrites
        /\ MaxWrites \in Nat /\ MaxWrites >= 2
        /\ written[e] <= delivered[e]
        /\ e \in Buffered /\ delivered[e] < MaxWrites => written[e] < delivered[e]
    BY WritesAssumption DEF IInv, TypesInv, OncePerDelivery
  <2>2. written'[e] = IF e \in Buffered /\ written[e] < MaxWrites
                      THEN written[e] + 1 ELSE written[e]
    BY DEF Write, More
  <2>3. CASE e \in Buffered /\ written[e] < MaxWrites
    BY <2>1, <2>2, <2>3
  <2>4. CASE ~ (e \in Buffered /\ written[e] < MaxWrites)
    BY <2>1, <2>2, <2>4
  <2> QED BY <2>3, <2>4
<1>2. written' = [e \in Offsets |-> written'[e]]
  BY DEF Write, More
<1> QED BY <1>1, <1>2

\* Of a flush that is left the same holds, whether the transaction was done or
\* not.
LEMMA AbandonCounts ==
    ASSUME IInv, AbandonWrite, pc = "flush"
    PROVE  /\ written' \in [Offsets -> 0 .. MaxWrites]
           /\ \A e \in Offsets :
                 /\ e <= Flushed /\ e \notin lost => written'[e] > 0
                 /\ written'[e] <= delivered[e]
<1>1. CASE UNCHANGED <<written, runRow>>
  BY <1>1 DEF IInv, TypesInv, OncePerDelivery
<1>2. CASE Write
  <2>1. \A e \in Offsets : e <= Flushed /\ e \notin lost => written[e] > 0
    BY DEF IInv, OncePerDelivery
  <2> QED BY <1>2, <2>1, WriteCounts
<1> QED BY <1>1, <1>2 DEF AbandonWrite

\* The end of a process: nothing that left the buffer is forgotten, and what
\* the buffer held is lost if it was committed and else delivered again.
LEMMA EndCounts ==
    ASSUME IInv, EndProcess,
           written' \in [Offsets -> 0 .. MaxWrites],
           \A e \in Offsets :
              /\ e <= Flushed /\ e \notin lost => written'[e] > 0
              /\ written'[e] <= delivered[e]
    PROVE  IInv'
<1>1. /\ pc' = "down" /\ position' = committed /\ buffer' = <<>>
      /\ lost' = lost \cup {e \in Buffered : e <= committed}
      /\ UNCHANGED <<log, committed, delivered>>
  BY DEF EndProcess
<1>2. /\ position \in 0 .. Len(log) /\ committed \in 0 .. position
      /\ Len(log) \in 0 .. MaxEvents /\ MaxEvents \in Nat
  BY BatchAssumption DEF IInv, TypesInv
<1>3. Buffered \subseteq Offsets
  BY DEF IInv, TypesInv, Buffered
<1>4. TypesInv'
  <2>1. lost' \subseteq Offsets
    BY <1>1, <1>3 DEF IInv, TypesInv
  <2>2. position' \in 0 .. Len(log') /\ committed' \in 0 .. position'
    BY <1>1, <1>2
  <2>3. /\ log' \in Seq(Kinds) /\ Len(log') \in 0 .. MaxEvents
        /\ delivered' \in [Offsets -> 0 .. MaxWrites]
    BY <1>1 DEF IInv, TypesInv
  <2> QED BY <1>1, <2>1, <2>2, <2>3 DEF TypesInv
<1>5. BufferIsTail'
  BY <1>1, <1>2, BatchAssumption DEF BufferIsTail
<1>6. Flushed' = committed /\ Buffered' = {}
  BY <1>1, <1>2 DEF Flushed, Buffered
<1>7. ASSUME NEW e \in Offsets, e <= committed, e \notin lost'
      PROVE  written'[e] > 0
  <2>1. e \in Int /\ committed \in Int /\ e <= position
    BY <1>2, <1>7 DEF Offsets
  <2>2. e \notin lost /\ e \notin Buffered
    BY <1>1, <1>7
  <2>3. e <= Flushed
    BY <2>1, <2>2, BufferedAre DEF IInv
  <2> QED BY <2>2, <2>3
<1>8. OncePerDelivery'
  BY <1>1, <1>6, <1>7 DEF OncePerDelivery
<1> QED BY <1>1, <1>4, <1>5, <1>8 DEF IInv, DownInv, RoomInv

LEMMA NextIInv ==
    ASSUME IInv, [Next]_vars
    PROVE  IInv'
<1> USE DEF process, history
<1>0. TypesInv /\ BufferIsTail /\ OncePerDelivery /\ DownInv /\ RoomInv
  BY DEF IInv
<1>1. CASE Publish
  <2>1. PICK kind \in Kinds : log' = Append(log, kind)
    BY <1>1 DEF Publish
  <2>2. UNCHANGED <<committed, position, buffer, pc, written, delivered, lost>>
    BY <1>1 DEF Publish
  <2>3. log' \in Seq(Kinds) /\ Len(log') = Len(log) + 1 /\ Len(log) < MaxEvents
    BY <1>0, <1>1, <2>1 DEF Publish, TypesInv
  <2>4. TypesInv'
    BY <1>0, <2>2, <2>3, BatchAssumption DEF TypesInv
  <2>5. BufferIsTail' /\ DownInv' /\ RoomInv'
    BY <1>0, <2>2 DEF BufferIsTail, DownInv, RoomInv
  <2>6. OncePerDelivery'
    BY <1>0, <2>2 DEF OncePerDelivery, Flushed, Buffered
  <2> QED BY <2>4, <2>5, <2>6 DEF IInv
<1>2. CASE Boot
  <2>1. /\ pc = "down" /\ buffer = <<>> /\ committed = position
        /\ position' = position /\ buffer' = buffer /\ pc' = "poll"
        /\ UNCHANGED <<log, committed, written, delivered, lost>>
    BY <1>0, <1>2 DEF Boot, DownInv
  <2>2. TypesInv' /\ BufferIsTail'
    BY <1>0, <2>1 DEF TypesInv, BufferIsTail
  <2>3. DownInv' /\ RoomInv'
    BY <2>1, BatchAssumption DEF DownInv, RoomInv
  <2>4. OncePerDelivery'
    BY <1>0, <2>1 DEF OncePerDelivery, Flushed, Buffered
  <2> QED BY <2>2, <2>3, <2>4 DEF IInv
<1>3. CASE Poll
  <2>1. /\ position < Len(log) /\ position' = position + 1
        /\ buffer' = Append(buffer, position + 1)
        /\ delivered' = More(delivered, {position + 1})
        /\ pc = "poll" /\ pc' \in {"flush", "poll"}
        /\ UNCHANGED <<log, committed, written, lost>>
    BY <1>3 DEF Poll
  <2>2. position \in Nat /\ Len(log) \in 0 .. MaxEvents /\ committed \in 0 .. position
    BY <1>0 DEF TypesInv
  <2>3. position + 1 \in Offsets
    BY <2>1, <2>2, BatchAssumption DEF Offsets
  <2>4. /\ buffer \in Seq(Offsets) /\ Len(buffer) \in Nat
        /\ buffer' \in Seq(Offsets) /\ Len(buffer') = Len(buffer) + 1
    BY <1>0, <2>1, <2>3 DEF TypesInv
  <2>5. delivered' \in [Offsets -> 0 .. MaxWrites]
    BY <1>0, <2>1, WritesAssumption DEF TypesInv, More
  <2>6. TypesInv'
    <3>1. position' \in 0 .. Len(log') /\ committed' \in 0 .. position'
      BY <2>1, <2>2
    <3>2. buffer' \in Seq(Offsets) /\ pc' \in {"down", "poll", "flush", "stopping"}
      BY <2>1, <2>4
    <3>3. /\ log' \in Seq(Kinds) /\ Len(log') \in 0 .. MaxEvents
          /\ written' \in [Offsets -> 0 .. MaxWrites] /\ lost' \subseteq Offsets
      BY <1>0, <2>1 DEF TypesInv
    <3> QED BY <2>5, <3>1, <3>2, <3>3 DEF TypesInv
  <2>7. BufferIsTail'
    <3>1. Len(buffer) < BatchMax /\ BatchMax \in Nat
      BY <1>0, <1>3, BatchAssumption DEF Poll, RoomInv
    <3>2. Len(buffer') <= BatchMax
      BY <2>4, <3>1
    <3>3. Len(buffer') <= position'
      BY <1>0, <2>1, <2>2, <2>4 DEF BufferIsTail
    <3>4. ASSUME NEW i \in 1 .. Len(buffer')
          PROVE  buffer'[i] = position' - Len(buffer') + i
      <4>1. CASE i = Len(buffer) + 1
        BY <2>1, <2>2, <2>3, <2>4, <4>1
      <4>2. CASE i # Len(buffer) + 1
        <5>1. i \in 1 .. Len(buffer)
          BY <2>4, <4>2
        <5>2. buffer'[i] = buffer[i]
          BY <2>1, <2>3, <2>4, <5>1
        <5>3. buffer[i] = position - Len(buffer) + i
          BY <1>0, <5>1 DEF BufferIsTail
        <5> QED BY <2>1, <2>2, <2>4, <5>1, <5>2, <5>3
      <4> QED BY <4>1, <4>2
    <3> QED BY <3>2, <3>3, <3>4 DEF BufferIsTail
  <2>8. Flushed' = Flushed
    BY <2>1, <2>2, <2>4 DEF Flushed
  <2>9. ASSUME NEW e \in Offsets
        PROVE  /\ e <= Flushed' /\ e \notin lost' => written'[e] > 0
               /\ written'[e] <= delivered'[e]
               /\ e \in Buffered' /\ delivered'[e] < MaxWrites
                     => written'[e] < delivered'[e]
    <3>1. /\ written[e] \in 0 .. MaxWrites /\ delivered[e] \in 0 .. MaxWrites
          /\ written[e] <= delivered[e]
          /\ e <= Flushed /\ e \notin lost => written[e] > 0
          /\ e \in Buffered /\ delivered[e] < MaxWrites
                => written[e] < delivered[e]
      BY <1>0, <2>1 DEF TypesInv, OncePerDelivery
    <3>2. delivered'[e] = IF e = position + 1 /\ delivered[e] < MaxWrites
                          THEN delivered[e] + 1 ELSE delivered[e]
      BY <2>1 DEF More
    <3>3. e \in Buffered' => e = position + 1 \/ e \in Buffered
      <4>1. /\ DOMAIN buffer = 1 .. Len(buffer)
            /\ DOMAIN buffer' = 1 .. (Len(buffer) + 1)
        BY <2>4
      <4>2. ASSUME NEW i \in 1 .. (Len(buffer) + 1)
            PROVE  \/ buffer'[i] = position + 1
                   \/ i \in DOMAIN buffer /\ buffer'[i] = buffer[i]
        <5>1. CASE i = Len(buffer) + 1
          BY <2>1, <2>3, <2>4, <5>1
        <5>2. CASE i # Len(buffer) + 1
          <6>1. i \in 1 .. Len(buffer)
            BY <2>4, <5>2
          <6>2. buffer'[i] = buffer[i]
            BY <2>1, <2>3, <2>4, <6>1
          <6> QED BY <4>1, <6>1, <6>2
        <5> QED BY <5>1, <5>2
      <4> QED BY <4>1, <4>2 DEF Buffered
    <3>4. CASE e = position + 1 /\ delivered[e] < MaxWrites
      BY <2>1, <2>8, <3>1, <3>2, <3>4, WritesAssumption
    <3>5. CASE e = position + 1 /\ ~ (delivered[e] < MaxWrites)
      BY <2>1, <2>8, <3>1, <3>2, <3>5, WritesAssumption
    <3>6. CASE e # position + 1
      BY <2>1, <2>8, <3>1, <3>2, <3>3, <3>6
    <3> QED BY <3>4, <3>5, <3>6
  <2>10. OncePerDelivery'
    BY <2>9 DEF OncePerDelivery
  <2>11. RoomInv'
    BY <1>3, <2>1, <2>4, BatchAssumption DEF Poll, BatchFull, RoomInv
  <2> QED BY <2>1, <2>6, <2>7, <2>10, <2>11 DEF IInv, DownInv
<1>4. CASE FlushSucceeds
  <2>1. /\ Write /\ buffer' = <<>> /\ pc = "flush" /\ pc' = "poll"
        /\ UNCHANGED <<log, committed, position, delivered, lost>>
    BY <1>4 DEF FlushSucceeds, ClearBuffer
  <2>2. /\ written' \in [Offsets -> 0 .. MaxWrites]
        /\ \A e \in Offsets :
              /\ e \in Buffered => written'[e] > 0
              /\ e \notin Buffered => written'[e] = written[e]
              /\ written'[e] <= delivered[e]
    BY <2>1, WriteCounts
  <2>3. Flushed' = position /\ Buffered' = {}
    BY <1>0, <2>1 DEF TypesInv, Flushed, Buffered
  <2>4. ASSUME NEW e \in Offsets, e <= position, e \notin lost
        PROVE  written'[e] > 0
    <3>1. CASE e \in Buffered
      BY <2>2, <3>1
    <3>2. CASE e \notin Buffered
      <4>1. e <= Flushed
        <5>1. e \in Int /\ position \in Int
          BY <1>0 DEF Offsets, TypesInv
        <5> QED BY <1>0, <2>4, <3>2, <5>1, BufferedAre
      <4> QED BY <1>0, <2>2, <2>4, <3>2, <4>1 DEF OncePerDelivery
    <3> QED BY <3>1, <3>2
  <2>5. OncePerDelivery'
    BY <2>1, <2>2, <2>3, <2>4 DEF OncePerDelivery
  <2>6. BufferIsTail'
    BY <1>0, <2>1, BatchAssumption DEF BufferIsTail, TypesInv
  <2>7. TypesInv'
    BY <1>0, <2>1, <2>2 DEF TypesInv
  <2>8. DownInv' /\ RoomInv'
    BY <2>1, BatchAssumption DEF DownInv, RoomInv
  <2> QED BY <2>5, <2>6, <2>7, <2>8 DEF IInv
<1>5. CASE FlushRaises \/ Interrupt
  <2>1. pc' = "stopping" /\ UNCHANGED <<log, committed, position, buffer,
                                        delivered, lost>>
    BY <1>5 DEF FlushRaises, Interrupt
  <2>2. \/ UNCHANGED <<written, runRow>>
        \/ pc = "flush" /\ AbandonWrite
    BY <1>5 DEF FlushRaises, Interrupt, AbandonWrite
  <2>3. /\ written' \in [Offsets -> 0 .. MaxWrites]
        /\ \A e \in Offsets :
              /\ e <= Flushed /\ e \notin lost => written'[e] > 0
              /\ written'[e] <= delivered[e]
    <3>1. CASE UNCHANGED <<written, runRow>>
      BY <1>0, <3>1 DEF TypesInv, OncePerDelivery
    <3> QED BY <2>2, <3>1, AbandonCounts
  <2>4. Flushed' = Flushed
    BY <2>1 DEF Flushed
  <2>5. OncePerDelivery'
    BY <2>1, <2>3, <2>4 DEF OncePerDelivery
  <2>6. TypesInv'
    BY <1>0, <2>1, <2>3 DEF TypesInv
  <2>7. BufferIsTail' /\ DownInv' /\ RoomInv'
    BY <1>0, <2>1 DEF BufferIsTail, DownInv, RoomInv
  <2> QED BY <2>5, <2>6, <2>7 DEF IInv
<1>6. CASE Stop
  <2>1. EndProcess /\ UNCHANGED <<written, runRow>>
    BY <1>6 DEF Stop
  <2>2. /\ written' \in [Offsets -> 0 .. MaxWrites]
        /\ \A e \in Offsets :
              /\ e <= Flushed /\ e \notin lost => written'[e] > 0
              /\ written'[e] <= delivered[e]
    BY <1>0, <2>1 DEF TypesInv, OncePerDelivery
  <2> QED BY <2>1, <2>2, EndCounts
<1>7. CASE AutoCommit
  <2>1. committed' = position /\ pc # "down"
    BY <1>7 DEF AutoCommit
  <2>2. UNCHANGED <<log, position, buffer, pc, written, delivered, lost>>
    BY <1>7 DEF AutoCommit
  <2>3. TypesInv'
    BY <1>0, <2>1, <2>2 DEF TypesInv
  <2>4. BufferIsTail' /\ DownInv' /\ RoomInv'
    BY <1>0, <2>1, <2>2 DEF BufferIsTail, DownInv, RoomInv
  <2>5. OncePerDelivery'
    BY <1>0, <2>2 DEF OncePerDelivery, Flushed, Buffered
  <2> QED BY <2>3, <2>4, <2>5 DEF IInv
<1>8. CASE Crash
  <2>1. EndProcess
    BY <1>8 DEF Crash
  <2>2. \/ UNCHANGED <<written, runRow>>
        \/ pc = "flush" /\ AbandonWrite
    BY <1>8 DEF Crash
  <2>3. /\ written' \in [Offsets -> 0 .. MaxWrites]
        /\ \A e \in Offsets :
              /\ e <= Flushed /\ e \notin lost => written'[e] > 0
              /\ written'[e] <= delivered[e]
    <3>1. CASE UNCHANGED <<written, runRow>>
      BY <1>0, <3>1 DEF TypesInv, OncePerDelivery
    <3> QED BY <2>2, <3>1, AbandonCounts
  <2> QED BY <2>1, <2>3, EndCounts
<1>9. CASE UNCHANGED vars
  <2>1. UNCHANGED <<log, committed, position, buffer, pc, written, delivered, lost>>
    BY <1>9 DEF vars
  <2>2. OncePerDelivery'
    BY <1>0, <2>1 DEF OncePerDelivery, Flushed, Buffered
  <2>3. TypesInv' /\ BufferIsTail' /\ DownInv' /\ RoomInv'
    BY <1>0, <2>1 DEF TypesInv, BufferIsTail, DownInv, RoomInv
  <2> QED BY <2>2, <2>3 DEF IInv
<1> QED BY <1>1, <1>2, <1>3, <1>4, <1>5, <1>6, <1>7, <1>8, <1>9 DEF Next

\* Everything that has left the buffer is written, but for what a process took
\* down with it after committing it, and at most once for every delivery.
THEOREM WritesOncePerDelivery == Spec => []OncePerDelivery
<1>1. IInv /\ [Next]_vars => IInv'
  BY NextIInv
<1>2. IInv => OncePerDelivery
  BY DEF IInv
<1> QED BY <1>1, <1>2, InitIInv, PTL DEF Spec

\* The buffer is the end of what was consumed, in order, and at most a batch,
\* whatever fails.
THEOREM BufferedInOrder == Spec => []BufferIsTail
<1>1. IInv /\ [Next]_vars => IInv'
  BY NextIInv
<1>2. IInv => BufferIsTail
  BY DEF IInv
<1> QED BY <1>1, <1>2, InitIInv, PTL DEF Spec

--------------------------------------------------------------------------------
(* The run's row.                                                          *)

\* A set of numbers up to n has a greatest member: the least of the distances
\* to n is minimal for the well-founded order of the naturals.
LEMMA HasLatest ==
    ASSUME NEW n \in Nat, NEW S \in SUBSET (0 .. n), S # {}
    PROVE  \E e \in S : \A f \in S : f <= e
<1> DEFINE T == {n - e : e \in S}
           R == OpToRel(<, Nat)
<1>1. \A e \in S : n - e \in Nat
  OBVIOUS
<1>2. T \in SUBSET Nat
  BY <1>1, Zenon
<1>3. T # {}
  OBVIOUS
<1>4. IsWellFoundedOn(R, Nat)
  BY NatLessThanWellFounded, Zenon
<1>5. \A y, x \in Nat : y < x => <<y, x>> \in R
  <2> SUFFICES ASSUME NEW y \in Nat, NEW x \in Nat, y < x PROVE <<y, x>> \in R
    BY Zenon
  <2> DEFINE p == <<y, x>>
  <2>1. p \in Nat \X Nat
    OBVIOUS
  <2>2. p[1] = y /\ p[2] = x
    OBVIOUS
  <2>3. p[1] < p[2]
    BY <2>2, Zenon
  <2> HIDE DEF p
  <2>4. p \in R
    BY <2>1, <2>3, Zenon DEF OpToRel
  <2> QED BY <2>4, Zenon DEF p
<1> HIDE DEF T, R
<1>6. PICK x \in T : \A y \in T : ~ (<<y, x>> \in R)
  BY <1>2, <1>3, <1>4, WFMin, Zenon
<1>7. \A y \in T : ~ (y < x)
  BY <1>2, <1>5, <1>6, Zenon
<1>8. PICK e \in S : x = n - e
  BY <1>6 DEF T
<1>9. ASSUME NEW f \in S PROVE f <= e
  <2>1. ~ (n - f < n - e)
    BY <1>7, <1>8 DEF T
  <2> QED BY <2>1
<1> QED BY <1>9

\* The row is that of an event published, no older than any run event flushed.
RowInv == runRow \in 0 .. Len(log) /\ RunRowIsLatest

\* A transaction leaves the row at the latest run event consumed.
LEMMA WriteRow ==
    ASSUME IInv, RowInv, Write
    PROVE  /\ runRow' \in 0 .. Len(log)
           /\ \A e \in 1 .. position :
                 log[e] = "run" /\ e \notin lost => e <= runRow'
<1> DEFINE runs == {e \in Buffered : log[e] = "run"}
<1>1. /\ position \in 0 .. Len(log) /\ Len(log) \in 0 .. MaxEvents
      /\ MaxEvents \in Nat /\ Flushed \in 0 .. position
  BY BatchAssumption, BufferedAre DEF IInv, TypesInv
<1>2. /\ Buffered \subseteq Offsets
      /\ \A e \in Offsets : e \in Buffered <=> e > Flushed /\ e <= position
  BY BufferedAre DEF IInv, TypesInv, Buffered
<1>3. \A e \in Buffered : e \in 1 .. position /\ e > Flushed
  BY <1>1, <1>2 DEF Offsets
<1>4. \A e \in 1 .. position : e \notin Buffered => e \in 1 .. Flushed
  BY <1>1, <1>2 DEF Offsets
<1>5. CASE runs = {}
  <2>1. runRow' = runRow
    BY <1>5 DEF Write, LatestRun
  <2>2. ASSUME NEW e \in 1 .. position, log[e] = "run", e \notin lost
        PROVE  e <= runRow
    <3>1. e \in 1 .. Flushed
      BY <1>4, <1>5, <2>2
    <3> QED BY <2>2, <3>1 DEF RowInv, RunRowIsLatest
  <2> QED BY <2>1, <2>2 DEF RowInv
<1>6. CASE runs # {}
  <2>1. runs \in SUBSET (0 .. position)
    BY <1>3
  <2>2. \E e \in runs : \A f \in runs : f <= e
    <3>1. position \in Nat
      BY <1>1
    <3> HIDE DEF runs
    <3> QED BY <1>6, <2>1, <3>1, HasLatest, Zenon
  <2>3. runRow' = CHOOSE e \in runs : \A f \in runs : f <= e
    BY <1>6 DEF Write, LatestRun
  <2>4. runRow' \in runs /\ \A f \in runs : f <= runRow'
    <3> HIDE DEF runs
    <3> QED BY <2>2, <2>3
  <2>5. runRow' \in 1 .. position /\ runRow' > Flushed
    BY <1>3, <2>4
  <2>6. ASSUME NEW e \in 1 .. position, log[e] = "run"
        PROVE  e <= runRow'
    <3>1. CASE e \in Buffered
      BY <2>4, <2>6, <3>1
    <3>2. CASE e \notin Buffered
      BY <1>1, <1>4, <2>5, <3>2
    <3> QED BY <3>1, <3>2
  <2>7. runRow' \in 0 .. Len(log)
    BY <1>1, <2>5
  <2> QED BY <2>6, <2>7
<1> QED BY <1>5, <1>6

\* The row of a flush that is left.
LEMMA AbandonRow ==
    ASSUME IInv, RowInv, AbandonWrite \/ UNCHANGED <<written, runRow>>
    PROVE  /\ runRow' \in 0 .. Len(log)
           /\ \A e \in 1 .. Flushed :
                 log[e] = "run" /\ e \notin lost => e <= runRow'
<1>1. CASE UNCHANGED <<written, runRow>>
  BY <1>1 DEF RowInv, RunRowIsLatest
<1>2. CASE Write
  <2>1. \A e \in 1 .. Flushed : e \in 1 .. position
    BY BufferedAre DEF IInv, TypesInv
  <2> QED BY <1>2, <2>1, WriteRow
<1> QED BY <1>1, <1>2 DEF AbandonWrite

LEMMA NextRowInv ==
    ASSUME IInv, RowInv, [Next]_vars
    PROVE  RowInv'
<1> USE DEF process, history
<1>0. /\ log \in Seq(Kinds) /\ Len(log) \in Nat
      /\ position \in 0 .. Len(log) /\ committed \in 0 .. position
      /\ Flushed \in 0 .. position /\ Len(buffer) \in Nat
  BY BatchAssumption, BufferedAre DEF IInv, TypesInv
<1>1. CASE Publish
  <2>1. PICK kind \in Kinds : log' = Append(log, kind)
    BY <1>1 DEF Publish
  <2>2. UNCHANGED <<position, buffer, runRow, lost>>
    BY <1>1 DEF Publish
  <2>3. /\ Len(log') = Len(log) + 1
        /\ \A e \in 1 .. Len(log) : log'[e] = log[e]
    BY <1>0, <2>1
  <2>4. \A e \in 1 .. Flushed : e \in 1 .. Len(log)
    BY <1>0
  <2>5. Flushed' = Flushed
    BY <2>2 DEF Flushed
  <2> QED BY <1>0, <2>2, <2>3, <2>4, <2>5 DEF RowInv, RunRowIsLatest
<1>2. CASE Boot
  <2>1. /\ position' = position /\ buffer' = buffer
        /\ UNCHANGED <<log, runRow, lost>>
    BY <1>2 DEF Boot, IInv, DownInv
  <2> QED BY <2>1 DEF RowInv, RunRowIsLatest, Flushed
<1>3. CASE Poll
  <2>1. /\ position' = position + 1 /\ buffer' = Append(buffer, position + 1)
        /\ UNCHANGED <<log, runRow, lost>> /\ position < Len(log)
    BY <1>3 DEF Poll
  <2>2. position + 1 \in Offsets
    BY <1>0, <2>1, BatchAssumption DEF Offsets, IInv, TypesInv
  <2>3. Len(buffer') = Len(buffer) + 1
    BY <2>1, <2>2 DEF IInv, TypesInv
  <2>4. Flushed' = Flushed
    BY <1>0, <2>1, <2>3 DEF Flushed
  <2> QED BY <2>1, <2>4 DEF RowInv, RunRowIsLatest
<1>4. CASE FlushSucceeds
  <2>1. /\ Write /\ buffer' = <<>> /\ UNCHANGED <<log, position, lost>>
    BY <1>4 DEF FlushSucceeds, ClearBuffer
  <2>2. Flushed' = position
    BY <1>0, <2>1 DEF Flushed
  <2> QED BY <2>1, <2>2, WriteRow DEF RowInv, RunRowIsLatest
<1>5. CASE FlushRaises \/ Interrupt
  <2>1. UNCHANGED <<log, position, buffer, lost>>
    BY <1>5 DEF FlushRaises, Interrupt
  <2>2. AbandonWrite \/ UNCHANGED <<written, runRow>>
    BY <1>5 DEF FlushRaises, Interrupt, AbandonWrite
  <2>3. Flushed' = Flushed
    BY <2>1 DEF Flushed
  <2> QED BY <2>1, <2>2, <2>3, AbandonRow DEF RowInv, RunRowIsLatest
<1>6. CASE Stop \/ Crash
  <2>1. /\ position' = committed /\ buffer' = <<>> /\ log' = log
        /\ lost' = lost \cup {e \in Buffered : e <= committed}
    BY <1>6 DEF Stop, Crash, EndProcess
  <2>2. AbandonWrite \/ UNCHANGED <<written, runRow>>
    BY <1>6 DEF Stop, Crash
  <2>3. Flushed' = committed
    BY <1>0, <2>1 DEF Flushed
  <2>4. ASSUME NEW e \in 1 .. committed, e \notin lost'
        PROVE  e \in 1 .. Flushed /\ e \notin lost
    <3>1. e \in Offsets
      BY <1>0, BatchAssumption DEF IInv, TypesInv, Offsets
    <3>2. e \notin Buffered /\ e \notin lost
      BY <2>1, <2>4
    <3> QED BY <1>0, <3>1, <3>2, BufferedAre DEF IInv
  <2> QED BY <2>1, <2>2, <2>3, <2>4, AbandonRow DEF RowInv, RunRowIsLatest
<1>7. CASE AutoCommit
  BY <1>7 DEF AutoCommit, RowInv, RunRowIsLatest, Flushed
<1>8. CASE UNCHANGED vars
  BY <1>8 DEF vars, RowInv, RunRowIsLatest, Flushed
<1> QED BY <1>1, <1>2, <1>3, <1>4, <1>5, <1>6, <1>7, <1>8 DEF Next

LEMMA BothInv == Spec => [](IInv /\ RowInv)
<1>1. Init => IInv /\ RowInv
  <2>1. Init => RowInv
    BY DEF Init, RowInv, RunRowIsLatest, Flushed
  <2> QED BY <2>1, InitIInv
<1>2. IInv /\ RowInv /\ [Next]_vars => IInv' /\ RowInv'
  BY NextIInv, NextRowInv
<1> QED BY <1>1, <1>2, PTL DEF Spec

\* Every variable has its type: no offset is committed that was not consumed,
\* and the row shows an event of the log.
THEOREM TypeCorrect == Spec => []TypeOK
<1>1. IInv /\ RowInv => TypeOK
  BY BatchAssumption DEF IInv, RowInv, TypesInv, TypeOK
<1> QED BY <1>1, BothInv, PTL

\* A run's row is never older than the latest run event flushed, but for the
\* events lost.
THEOREM RowShowsLatest == Spec => []RunRowIsLatest
<1>1. RowInv => RunRowIsLatest
  BY DEF RowInv
<1> QED BY <1>1, BothInv, PTL
================================================================================
