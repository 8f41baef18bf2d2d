---------------------------- MODULE LiveOrderProofs ----------------------------
(***************************************************************************)
(* Proofs about LiveOrder: one coin is entered once and its position has a *)
(* stop, for every order, every plan of take-profits, every number of      *)
(* confirmation polls and all faults, until one of the mishaps named in    *)
(* the properties.                                                         *)
(***************************************************************************)
EXTENDS LiveOrder, SequenceTheorems, TLAPS

--------------------------------------------------------------------------------
(* The take-profit legs are at most two quantities.                        *)

Accs == [legs : Seq(Nat), carry : Nat, placed : Nat]

LEMMA RoundQtyType ==
    ASSUME NEW q \in Nat
    PROVE  RoundQty(q) \in 0 .. q
BY StepAssumption DEF RoundQty

LEMMA PlaceLegType ==
    ASSUME NEW acc \in Accs, NEW leg \in Nat, NEW total \in Nat
    PROVE  /\ PlaceLeg(acc, leg, total) \in Accs
           /\ Len(PlaceLeg(acc, leg, total).legs) <= Len(acc.legs) + 1
<1> DEFINE piece == Least(RoundQty(leg + acc.carry), total - acc.placed)
<1>1. acc.legs \in Seq(Nat) /\ acc.carry \in Nat /\ acc.placed \in Nat
  BY DEF Accs
<1>2. piece \in Int /\ Len(acc.legs) \in Nat
  <2>1. RoundQty(leg + acc.carry) \in Nat
    BY <1>1, RoundQtyType
  <2> QED BY <1>1, <2>1 DEF Least
<1>3. CASE leg <= 0
  BY <1>2, <1>3 DEF PlaceLeg
<1>4. CASE leg > 0 /\ piece < MinQty
  <2>1. PlaceLeg(acc, leg, total) = [acc EXCEPT !.carry = leg + @]
    BY <1>4 DEF PlaceLeg
  <2> QED BY <1>1, <1>2, <2>1 DEF Accs
<1>5. CASE leg > 0 /\ ~(piece < MinQty)
  <2>1. PlaceLeg(acc, leg, total) =
            [legs |-> Append(acc.legs, piece), carry |-> 0, placed |-> acc.placed + piece]
    BY <1>5 DEF PlaceLeg
  <2>2. piece \in Nat
    BY <1>2, <1>5, MinQtyAssumption
  <2> HIDE DEF piece
  <2>3. Append(acc.legs, piece) \in Seq(Nat) /\ Len(Append(acc.legs, piece)) = Len(acc.legs) + 1
    BY <1>1, <2>2
  <2> QED BY <1>1, <1>2, <2>1, <2>2, <2>3 DEF Accs
<1> QED BY <1>3, <1>4, <1>5

LEMMA FoldDustType ==
    ASSUME NEW acc \in Accs, NEW total \in Nat
    PROVE  /\ FoldDust(acc, total) \in Seq(Nat)
           /\ Len(FoldDust(acc, total)) = Len(acc.legs)
<1> DEFINE leftover == RoundQty(total - acc.placed)
           last == Len(acc.legs)
<1>1. acc.legs \in Seq(Nat) /\ acc.placed \in Nat /\ last \in Nat
  BY DEF Accs
<1>2. CASE 0 < leftover /\ leftover < MinQty /\ acc.legs # <<>>
  <2>1. FoldDust(acc, total) = [acc.legs EXCEPT ![last] = @ + leftover]
    BY <1>2 DEF FoldDust
  <2>2. leftover \in Nat
    BY <1>1, <1>2, StepAssumption DEF RoundQty
  <2>3. last \in 1 .. last
    BY <1>1, <1>2
  <2> HIDE DEF leftover
  <2> QED BY <1>1, <2>1, <2>2, <2>3
<1>3. CASE ~(0 < leftover /\ leftover < MinQty /\ acc.legs # <<>>)
  BY <1>1, <1>3 DEF FoldDust
<1> QED BY <1>2, <1>3

LEMMA PlanLegsType ==
    /\ PlanLegs(OrderQty, ClosePct) \in Seq(Nat)
    /\ Len(PlanLegs(OrderQty, ClosePct)) \in 1 .. 2
<1> DEFINE first == Least(FirstLeg(OrderQty, ClosePct), OrderQty)
<1>1. first \in 0 .. OrderQty
  <2>1. CASE ClosePct >= 100
    BY <2>1, OrderAssumption DEF Least, FirstLeg
  <2>2. CASE ~(ClosePct >= 100)
    <3>1. (OrderQty * ClosePct) \div 100 \in Nat
      BY OrderAssumption
    <3>2. FirstLeg(OrderQty, ClosePct) \in Nat
      BY <2>2, <3>1, RoundQtyType DEF FirstLeg
    <3> QED BY <3>2, OrderAssumption DEF Least
  <2> QED BY <2>1, <2>2
<1>2. CASE first \in {0, OrderQty}
  <2>1. PlanLegs(OrderQty, ClosePct) = <<OrderQty>>
    BY <1>2 DEF PlanLegs
  <2> QED BY <2>1, OrderAssumption
<1>3. CASE first \notin {0, OrderQty}
  <2>1. PlanLegs(OrderQty, ClosePct) = <<first, OrderQty - first>>
    BY <1>3 DEF PlanLegs
  <2> QED BY <1>1, <2>1, OrderAssumption
<1> QED BY <1>2, <1>3

\* The legs placed on a position of total.
Placement(total) == Normalize(PlanLegs(OrderQty, ClosePct), total)

LEMMA PlacementType ==
    ASSUME NEW total \in Nat
    PROVE  Placement(total) \in Seq(Nat) /\ Len(Placement(total)) <= 2
<1> DEFINE plan == PlanLegs(OrderQty, ClosePct)
           first == PlaceLeg(NoLegs, plan[1], total)
           both == IF Len(plan) = 1 THEN first ELSE PlaceLeg(first, plan[2], total)
<1>1. plan \in Seq(Nat) /\ Len(plan) \in 1 .. 2
  BY PlanLegsType
<1> HIDE DEF plan
<1>2. plan[1] \in Nat /\ (Len(plan) # 1 => plan[2] \in Nat)
  BY <1>1
<1>3. NoLegs \in Accs /\ Len(NoLegs.legs) = 0
  BY DEF NoLegs, Accs
<1>4. first \in Accs /\ Len(first.legs) <= 1
  BY <1>2, <1>3, PlaceLegType
<1> HIDE DEF first
<1>5. both \in Accs /\ Len(both.legs) <= 2
  <2>1. Len(first.legs) \in Nat
    BY <1>4 DEF Accs
  <2>2. CASE Len(plan) = 1
    BY <1>4, <2>1, <2>2
  <2>3. CASE Len(plan) # 1
    <3>1. /\ PlaceLeg(first, plan[2], total) \in Accs
          /\ Len(PlaceLeg(first, plan[2], total).legs) <= Len(first.legs) + 1
      BY <1>2, <1>4, <2>3, PlaceLegType
    <3>2. Len(PlaceLeg(first, plan[2], total).legs) \in Nat
      BY <3>1 DEF Accs
    <3> QED BY <1>4, <2>1, <2>3, <3>1, <3>2
  <2> QED BY <2>2, <2>3
<1>6. Placement(total) = FoldDust(both, total)
  BY DEF Placement, Normalize, both, first, plan
<1> HIDE DEF both
<1> QED BY <1>5, <1>6, FoldDustType

LEMMA LegsToPlaceType ==
    ASSUME size \in Nat
    PROVE  LegsToPlace \in Seq(Nat) /\ Len(LegsToPlace) <= 2
BY PlacementType DEF LegsToPlace, Placement

--------------------------------------------------------------------------------
(* Type correctness.                                                       *)

\* An order is sent only while the bound on orders allows one.
OrdersFit == pc \in {"baseline", "place"} => orders < MaxOrders

TypeInv == TypeOK /\ OrdersFit

\* A call that is over leaves nothing behind.
LEMMA LeaveTypes ==
    ASSUME TypeInv, NEW l, Leave(l)
    PROVE  /\ pc' = l
           /\ base' \in Nat /\ best' \in Nat /\ pid' \in 0 .. epoch
           /\ polls' \in 0 .. MaxPolls - 1
           /\ bundledOk' \in BOOLEAN
           /\ size' \in Nat /\ next' \in 1 .. 3
<1>1. epoch \in Nat /\ 0 \in 0 .. epoch /\ 0 \in 0 .. MaxPolls - 1
  BY BoundAssumption DEF TypeInv, TypeOK
<1>2. /\ pc' = l /\ base' = 0 /\ best' = 0 /\ pid' = 0 /\ polls' = 0
      /\ bundledOk' = FALSE /\ size' = 0 /\ next' = 1
  BY DEF Leave
<1>3. bundledOk' \in BOOLEAN
  BY <1>2, Zenon
<1>4. base' \in Nat /\ best' \in Nat /\ size' \in Nat /\ next' \in 1 .. 3
  BY <1>2
<1>5. pid' \in 0 .. epoch /\ polls' \in 0 .. MaxPolls - 1
  BY <1>1, <1>2, Zenon
<1> QED BY <1>2, <1>3, <1>4, <1>5

\* A mishap is one of those named.
LEMMA NoteTypes ==
    ASSUME TypeInv, NEW m \in Mishaps, Note(m)
    PROVE  mishaps' \in SUBSET Mishaps
BY DEF TypeInv, TypeOK, Note

\* What a step may do to the variables of the engine's calls.
LEMMA CallTypes ==
    ASSUME TypeInv, EngineStep \/ Enter
    PROVE  /\ pc' \in {"idle", "baseline", "place", "confirm", "verify", "resolve",
                        "sl", "tp", "failed"}
           /\ orders' \in 0 .. MaxOrders /\ OrdersFit'
           /\ base' \in Nat /\ best' \in Nat /\ pid' \in 0 .. epoch
           /\ polls' \in 0 .. MaxPolls - 1
           /\ bundledOk' \in BOOLEAN
           /\ size' \in Nat /\ next' \in 1 .. 3
           /\ mishaps' \in SUBSET Mishaps
<1> USE BoundAssumption, OrderAssumption DEF TypeInv, TypeOK, OrdersFit
<1>1. CASE Enter
  BY <1>1 DEF Enter, Note, Mishaps, GoTo, callVars
<1>2. CASE Baseline
  BY <1>2 DEF Baseline, Snapshot, GoTo
<1>3. CASE Place
  <2>1. /\ pc = "place" /\ orders' = orders + 1 /\ orders < MaxOrders
        /\ mishaps' = mishaps \/ Note("request")
    BY <1>3 DEF Place
  <2>2. mishaps' \in SUBSET Mishaps
    BY <2>1, NoteTypes DEF Mishaps
  <2>3. \/ pc' = "confirm" /\ UNCHANGED callVars
        \/ Leave("idle")
    BY <1>3 DEF Place, GoTo
  <2>4. CASE Leave("idle")
    <3> HIDE DEF TypeInv
    <3> QED BY <2>4, LeaveTypes, <2>1, <2>2 DEF TypeInv
  <2>5. CASE pc' = "confirm" /\ UNCHANGED callVars
    BY <2>1, <2>2, <2>5 DEF callVars
  <2> QED BY <2>3, <2>4, <2>5
<1>4. CASE Confirm
  <2>1. pc = "confirm" /\ UNCHANGED <<orders, mishaps>>
    BY <1>4 DEF Confirm
  <2>2. mishaps' \in SUBSET Mishaps
    BY <2>1
  <2>3. CASE Leave("idle")
    BY <2>1, <2>2, <2>3, LeaveTypes
  <2>4. CASE ~Leave("idle")
    <3>1. \/ pc' = "verify" /\ polls' = 0
          \/ pc' = pc /\ polls' = polls + 1 /\ polls + 1 # MaxPolls
      BY <1>4, <2>4 DEF Confirm, GoTo, CountPoll, LastPoll
    <3>2. /\ UNCHANGED <<base, bundledOk, size, next>>
          /\ best' = IF Snapshot.qty - base > best THEN Snapshot.qty - base ELSE best
          /\ pid' = IF Snapshot.qty - base > best THEN Snapshot.id ELSE pid
      BY <1>4, <2>4 DEF Confirm
    <3>3. best' \in Nat /\ pid' \in 0 .. epoch
      BY <3>2 DEF Snapshot
    <3>4. polls' \in 0 .. MaxPolls - 1
      BY <3>1
    <3> QED BY <2>1, <2>2, <3>1, <3>2, <3>3, <3>4
  <2> QED BY <2>3, <2>4
<1>5. CASE SubmitRaises
  <2>1. /\ Leave("idle") /\ UNCHANGED orders
        /\ mishaps' = mishaps \/ Note("request")
    BY <1>5 DEF SubmitRaises
  <2>2. mishaps' \in SUBSET Mishaps
    BY <2>1, NoteTypes DEF Mishaps
  <2> QED BY <2>1, <2>2, LeaveTypes
<1>6. CASE Verify
  BY <1>6 DEF Verify, Resting, GoTo
<1>7. CASE Resolve
  <2>1. UNCHANGED <<orders, mishaps>>
    BY <1>7 DEF Resolve
  <2>2. CASE Leave("idle")
    BY <2>1, <2>2, LeaveTypes
  <2>3. CASE ~Leave("idle")
    <3>1. \/ /\ pc' \in {"tp", "sl"} /\ size' = qty /\ pid' = epoch
             /\ UNCHANGED <<base, best, polls, bundledOk, next>>
          \/ /\ polls' = polls + 1 /\ polls + 1 # MaxPolls
             /\ UNCHANGED <<pc, base, best, pid, bundledOk, size, next>>
      BY <1>7, <2>3 DEF Resolve, Snapshot, GoTo, CountPoll, LastPoll
    <3>2. polls' \in 0 .. MaxPolls - 1 /\ pid' \in 0 .. epoch /\ size' \in Nat
      BY <3>1
    <3>3. pc' # "baseline" /\ pc' # "place"
      BY <1>7, <3>1 DEF Resolve
    <3> QED BY <2>1, <3>1, <3>2, <3>3
  <2> QED BY <2>2, <2>3
<1>8. CASE ResolveRaises
  <2>1. Leave("failed") /\ UNCHANGED orders /\ Note("request")
    BY <1>8 DEF ResolveRaises
  <2>2. mishaps' \in SUBSET Mishaps
    BY <2>1, NoteTypes DEF Mishaps
  <2> QED BY <2>1, <2>2, LeaveTypes
<1>9. CASE PlaceSl
  BY <1>9 DEF PlaceSl, Note, Mishaps, GoTo, callVars
<1>10. CASE PlaceTp
  <2>1. next + 1 \in 1 .. 3
    BY <1>10, LegsToPlaceType DEF PlaceTp
  <2> QED BY <1>10, <2>1 DEF PlaceTp, Note, Mishaps
<1>11. CASE PlacementDone
  <2>1. Leave("idle") /\ UNCHANGED <<orders, mishaps>>
    BY <1>11 DEF PlacementDone
  <2> QED BY <2>1, LeaveTypes
<1> QED
  BY <1>1, <1>2, <1>3, <1>4, <1>5, <1>6, <1>7, <1>8, <1>9, <1>10, <1>11 DEF EngineStep

\* What the engine does to the exchange: it sends an order or a trigger order.
LEMMA EngineExchangeTypes ==
    ASSUME TypeInv, EngineStep \/ Enter
    PROVE  /\ UNCHANGED <<qty, epoch, slFull>>
           /\ left' \in [Orders -> 0 .. OrderQty]
           /\ slQty' \in Nat
           /\ tps' \in [LegKeys -> Nat]
<1> USE OrderAssumption DEF TypeInv, TypeOK
<1>1. CASE Place
  <2>1. left' \in {left, [left EXCEPT ![orders + 1] = OrderQty]}
        /\ UNCHANGED <<qty, epoch, slFull, slQty, tps>>
    BY <1>1 DEF Place
  <2> QED BY <2>1
<1>2. CASE PlaceSl
  <2>1. /\ slQty' \in {slQty, RoundQty(size), size}
        /\ UNCHANGED <<qty, epoch, slFull, left, tps>>
    BY <1>2 DEF PlaceSl
  <2>2. RoundQty(size) \in Nat
    BY RoundQtyType
  <2> QED BY <2>1, <2>2
<1>3. CASE PlaceTp
  <2>1. /\ next <= Len(LegsToPlace) /\ next \in 1 .. 3
        /\ \/ tps' = tps
           \/ tps' = [tps EXCEPT ![<<orders, next>>] = LegsToPlace[next]]
        /\ UNCHANGED <<qty, epoch, slFull, left, slQty>>
    BY <1>3 DEF PlaceTp
  <2>2. LegsToPlace[next] \in Nat
    <3>1. LegsToPlace \in Seq(Nat)
      BY LegsToPlaceType
    <3> HIDE DEF TypeInv, TypeOK
    <3> QED BY <2>1, <3>1
  <2> QED BY <2>1, <2>2
<1>4. CASE UNCHANGED exchangeVars
  BY <1>4 DEF exchangeVars
<1> QED
  BY <1>1, <1>2, <1>3, <1>4
     DEF EngineStep, Enter, Baseline, Confirm, SubmitRaises, Verify, Resolve,
         ResolveRaises, PlacementDone

\* What the exchange does on its own.
LEMMA ReduceTypes ==
    ASSUME TypeInv, NEW n \in 1 .. qty, NEW rest \in [LegKeys -> Nat],
           NEW restingSl \in Nat, Reduce(n, rest, restingSl)
    PROVE  /\ qty' \in Nat /\ qty' <= qty /\ slFull' \in BOOLEAN /\ slQty' \in Nat
           /\ tps' \in [LegKeys -> Nat]
           /\ UNCHANGED <<epoch, left, pc, orders, callVars>>
<1>1. qty \in Nat /\ slFull \in BOOLEAN /\ Nothing \in [LegKeys -> Nat]
  BY DEF TypeInv, TypeOK, Nothing
<1>2. qty' = qty - n /\ UNCHANGED <<epoch, left, pc, orders, callVars>>
  BY DEF Reduce
<1>3. \/ slFull' = FALSE /\ slQty' = 0 /\ tps' = Nothing
      \/ slFull' = slFull /\ slQty' = restingSl /\ tps' = rest
  BY DEF Reduce
<1>4. slFull' \in BOOLEAN /\ tps' \in [LegKeys -> Nat]
  BY <1>1, <1>3, Zenon
<1>5. slQty' \in Nat
  BY <1>3
<1> QED BY <1>1, <1>2, <1>4, <1>5

LEMMA ExchangeTypes ==
    ASSUME TypeInv, ExchangeStep
    PROVE  TypeInv'
<1>1. ASSUME NEW o \in Orders, Fill(o)
      PROVE  TypeInv'
  <2>1. PICK n \in 1 .. left[o] :
          qty' = qty + n /\ left' = [left EXCEPT ![o] = @ - n]
    BY <1>1 DEF Fill
  <2>2. /\ epoch' \in {epoch, epoch + 1} /\ slFull' \in {TRUE, slFull}
        /\ UNCHANGED <<slQty, tps, pc, orders, callVars>>
        /\ mishaps' \in {mishaps, mishaps \union {"late"}}
    BY <1>1 DEF Fill, Note
  <2>3. left[o] \in 0 .. OrderQty
    BY DEF TypeInv, TypeOK
  <2>4. left' \in [Orders -> 0 .. OrderQty] /\ qty' \in Nat
    BY <2>1, <2>3, OrderAssumption DEF TypeInv, TypeOK
  <2>5. epoch' \in Nat /\ pid' \in 0 .. epoch'
    BY <2>2 DEF TypeInv, TypeOK, callVars
  <2>6. mishaps' \in SUBSET Mishaps
    BY <2>2 DEF TypeInv, TypeOK, Mishaps
  <2> QED BY <2>2, <2>4, <2>5, <2>6 DEF TypeInv, TypeOK, OrdersFit, callVars
<1>2. ASSUME NEW n \in 1 .. qty, NEW rest \in [LegKeys -> Nat], NEW restingSl \in Nat,
             Reduce(n, rest, restingSl), mishaps' \in {mishaps, mishaps \union {"cut"}}
      PROVE  TypeInv'
  BY <1>2, ReduceTypes DEF TypeInv, TypeOK, OrdersFit, callVars, Mishaps
<1>3. ASSUME NEW k \in LegKeys, TakeProfitHit(k)
      PROVE  TypeInv'
  <2>1. /\ qty > 0 /\ tps[k] > 0
        /\ Reduce(Least(tps[k], qty), [tps EXCEPT ![k] = 0], slQty)
        /\ mishaps' = mishaps
    BY <1>3 DEF TakeProfitHit
  <2>2. /\ [tps EXCEPT ![k] = 0] \in [LegKeys -> Nat] /\ slQty \in Nat
        /\ tps[k] \in Nat /\ qty \in Nat
    BY DEF TypeInv, TypeOK
  <2>3. Least(tps[k], qty) \in 1 .. qty
    BY <2>1, <2>2 DEF Least
  <2> QED BY <1>2, <2>1, <2>2, <2>3
<1>4. CASE StopHit
  <2>1. /\ qty > 0 /\ (slFull \/ slQty > 0)
        /\ Reduce(IF slFull THEN qty ELSE Least(slQty, qty), tps, 0)
        /\ mishaps' \in {mishaps, mishaps \union {"cut"}}
    BY <1>4 DEF StopHit, Note
  <2>2. tps \in [LegKeys -> Nat] /\ slQty \in Nat /\ qty \in Nat
    BY DEF TypeInv, TypeOK
  <2>3. (IF slFull THEN qty ELSE Least(slQty, qty)) \in 1 .. qty
    BY <2>1, <2>2 DEF Least
  <2> QED BY <1>2, <2>1, <2>2, <2>3
<1>5. CASE UserCloses
  <2>1. qty > 0 /\ Reduce(qty, Nothing, 0) /\ mishaps' = mishaps
    BY <1>5 DEF UserCloses
  <2>2. qty \in 1 .. qty /\ Nothing \in [LegKeys -> Nat]
    BY <2>1 DEF TypeInv, TypeOK, Nothing
  <2> QED BY <1>2, <2>1, <2>2
<1> QED BY <1>1, <1>3, <1>4, <1>5 DEF ExchangeStep

LEMMA InitTypeInv == Init => TypeInv
<1> SUFFICES ASSUME Init PROVE TypeInv
  OBVIOUS
<1>1. left \in [Orders -> 0 .. OrderQty] /\ tps \in [LegKeys -> Nat]
  BY OrderAssumption DEF Init, Nothing
<1>2. orders \in 0 .. MaxOrders /\ polls \in 0 .. MaxPolls - 1 /\ pid \in 0 .. epoch
  BY BoundAssumption DEF Init
<1>3. slFull \in BOOLEAN /\ bundledOk \in BOOLEAN
  BY Zenon DEF Init
<1>4. /\ qty \in Nat /\ epoch \in Nat /\ slQty \in Nat /\ base \in Nat /\ best \in Nat
      /\ size \in Nat /\ next \in 1 .. 3 /\ pc = "idle" /\ mishaps \in SUBSET Mishaps
  BY DEF Init
<1> QED BY <1>1, <1>2, <1>3, <1>4 DEF TypeInv, TypeOK, OrdersFit

LEMMA NextTypeInv ==
    ASSUME TypeInv, [Next]_vars
    PROVE  TypeInv'
<1>1. CASE Enter \/ EngineStep
  <2>1. qty \in Nat /\ epoch \in Nat /\ slFull \in BOOLEAN
    BY DEF TypeInv, TypeOK
  <2>2. UNCHANGED <<qty, epoch, slFull>>
    BY <1>1, EngineExchangeTypes
  <2> QED BY <1>1, <2>1, <2>2, EngineExchangeTypes, CallTypes DEF TypeInv, TypeOK
<1>2. CASE ExchangeStep
  BY <1>2, ExchangeTypes
<1>3. CASE UNCHANGED vars
  BY <1>3 DEF vars, exchangeVars, callVars, TypeInv, TypeOK, OrdersFit
<1> QED BY <1>1, <1>2, <1>3 DEF Next

\* Every variable has its type: the polls end, and no plan has a third leg.
THEOREM TypeCorrect == Spec => []TypeOK
<1>1. TypeInv => TypeOK
  BY DEF TypeInv
<1> QED BY <1>1, InitTypeInv, NextTypeInv, PTL DEF Spec
--------------------------------------------------------------------------------
(* One coin is entered once.                                               *)

\* Mishaps are never forgotten.
LEMMA MishapsStay ==
    ASSUME [Next]_vars
    PROVE  mishaps \subseteq mishaps'
<1>1. ASSUME UNCHANGED mishaps \/ \E m \in Mishaps : Note(m)
      PROVE  mishaps \subseteq mishaps'
  BY <1>1 DEF Note
<1>2. CASE Enter \/ EngineStep
  BY <1>1, <1>2
     DEF Enter, EngineStep, Baseline, Place, Confirm, SubmitRaises, Verify, Resolve,
         ResolveRaises, PlaceSl, PlaceTp, PlacementDone, Mishaps
<1>3. CASE ExchangeStep \/ UNCHANGED vars
  BY <1>1, <1>3
     DEF ExchangeStep, Fill, TakeProfitHit, StopHit, UserCloses, vars, Mishaps
<1> QED BY <1>2, <1>3 DEF Next

\* No order was lost sight of or filled late, no open position overlooked.
Careful == mishaps \subseteq {"stop", "tp"}

\* Then an order is sent only while the coin is flat, what is filled of the order
\* being confirmed and what is not are one order, and nothing else fills.
OneOrder ==
    Careful =>
        /\ pc # "failed"
        /\ pc \in {"baseline", "place"} => qty = 0
        /\ pc = "confirm" => orders \in Orders /\ qty + left[orders] <= OrderQty
        /\ qty <= OrderQty

\* A step that sends no order and fills none keeps OneOrder.
LEMMA NoOrderSent ==
    ASSUME OneOrder, Careful, UNCHANGED <<qty, left, orders>>,
           pc' = "confirm" => pc = "confirm",
           pc' \in {"baseline", "place"} => qty = 0, pc' # "failed"
    PROVE  OneOrder'
BY DEF OneOrder, Orders

LEMMA OneOrderEngine ==
    ASSUME TypeInv, OneOrder, EngineStep \/ Enter, Careful, Careful'
    PROVE  OneOrder'
<1>1. CASE Enter
  <2>1. qty = 0 /\ pc = "idle" /\ pc' = "baseline" /\ UNCHANGED <<qty, left, orders>>
    BY <1>1 DEF Enter, Note, Careful, GoTo, exchangeVars, TypeInv, TypeOK
  <2> QED BY <2>1, NoOrderSent
<1>2. CASE Baseline
  <2>1. pc = "baseline" /\ pc' = "place" /\ UNCHANGED <<qty, left, orders>>
    BY <1>2 DEF Baseline, GoTo, exchangeVars
  <2> QED BY <2>1, NoOrderSent DEF OneOrder
<1>3. CASE Place
  <2>1. pc = "place" /\ qty = 0 /\ qty' = qty /\ orders' = orders + 1
    BY <1>3 DEF Place, OneOrder
  <2>2. orders' \in Orders /\ Orders' = Orders
    <3>1. orders \in 0 .. MaxOrders /\ orders < MaxOrders
      BY <2>1 DEF TypeInv, TypeOK, OrdersFit
    <3> QED BY <2>1, <3>1, BoundAssumption DEF Orders
  <2>3. \/ pc' = "confirm" /\ left' = [left EXCEPT ![orders + 1] = OrderQty]
        \/ pc' = "idle"
    BY <1>3 DEF Place, GoTo, Leave
  <2>4. pc' = "confirm" => left'[orders'] = OrderQty
    BY <2>1, <2>2, <2>3 DEF TypeInv, TypeOK
  <2>5. pc' \in {"confirm", "idle"}
    BY <2>3
  <2> QED BY <2>1, <2>2, <2>4, <2>5, OrderAssumption DEF OneOrder
<1>4. CASE Confirm
  <2>1. /\ pc = "confirm" /\ pc' \in {"confirm", "verify", "idle"}
        /\ UNCHANGED <<qty, left, orders>>
    BY <1>4 DEF Confirm, GoTo, Leave, exchangeVars
  <2> QED BY <2>1, NoOrderSent
<1>5. CASE SubmitRaises
  <2>1. /\ pc = "baseline" /\ pc' = "idle" /\ UNCHANGED <<qty, left, orders>>
    BY <1>5 DEF SubmitRaises, Note, Careful, Leave, exchangeVars
  <2> QED BY <2>1, NoOrderSent
<1>6. CASE ResolveRaises
  BY <1>6 DEF ResolveRaises, Note, Careful
<1>7. CASE Verify \/ Resolve \/ PlaceSl \/ PlaceTp \/ PlacementDone
  <2>1. /\ pc \in {"verify", "resolve", "sl", "tp"}
        /\ pc' \in {"resolve", "sl", "tp", "idle"}
        /\ UNCHANGED <<qty, left, orders>>
    BY <1>7 DEF Verify, Resolve, PlaceSl, PlaceTp, PlacementDone, GoTo, Leave,
                exchangeVars
  <2> QED BY <2>1, NoOrderSent
<1> QED BY <1>1, <1>2, <1>3, <1>4, <1>5, <1>6, <1>7 DEF EngineStep

\* What fills while the run is careful is the order being confirmed.
LEMMA CarefulFill ==
    ASSUME NEW o \in Orders, Fill(o), Careful'
    PROVE  pc = "confirm" /\ o = orders
BY DEF Fill, Note, Careful

LEMMA OneOrderExchange ==
    ASSUME TypeInv, OneOrder, ExchangeStep, Careful, Careful'
    PROVE  OneOrder'
<1>1. ASSUME NEW o \in Orders, Fill(o)
      PROVE  OneOrder'
  <2>1. UNCHANGED <<pc, orders>> /\ pc = "confirm" /\ o = orders
    BY <1>1, CarefulFill DEF Fill
  <2>2. PICK n \in 1 .. left[o] : qty' = qty + n /\ left' = [left EXCEPT ![o] = @ - n]
    BY <1>1 DEF Fill
  <2>3. qty + left[o] <= OrderQty
    BY <2>1 DEF OneOrder
  <2>4. qty \in Nat /\ left \in [Orders -> 0 .. OrderQty]
    BY DEF TypeInv, TypeOK
  <2>5. left'[o] = left[o] - n /\ left[o] \in Nat
    BY <2>2, <2>4, OrderAssumption
  <2>6. qty' + left'[o] <= OrderQty /\ qty' <= OrderQty
    BY <2>2, <2>3, <2>4, <2>5, OrderAssumption
  <2>7. Orders' = Orders
    BY DEF Orders
  <2> QED BY <2>1, <2>6, <2>7 DEF OneOrder
<1>2. ASSUME NEW n \in 1 .. qty, qty' = qty - n, UNCHANGED <<pc, orders, left>>
      PROVE  OneOrder'
  <2>1. qty \in Nat /\ (orders \in Orders => left[orders] \in Nat)
    BY OrderAssumption DEF TypeInv, TypeOK
  <2>2. qty' \in Nat /\ qty' <= qty
    BY <1>2, <2>1
  <2>3. Orders' = Orders
    BY DEF Orders
  <2>4. qty' <= OrderQty
    BY <2>1, <2>2, OrderAssumption DEF OneOrder
  <2>5. pc = "confirm" => orders \in Orders /\ qty' + left[orders] <= OrderQty
    BY <2>1, <2>2, OrderAssumption DEF OneOrder
  <2>6. pc \in {"baseline", "place"} => qty' = 0
    BY <1>2, <2>1 DEF OneOrder
  <2> QED BY <1>2, <2>3, <2>4, <2>5, <2>6 DEF OneOrder
<1>3. ASSUME NEW k \in LegKeys, TakeProfitHit(k)
      PROVE  OneOrder'
  <2>1. /\ qty > 0 /\ tps[k] > 0 /\ qty' = qty - Least(tps[k], qty)
        /\ UNCHANGED <<pc, orders, left>>
    BY <1>3 DEF TakeProfitHit, Reduce
  <2>2. Least(tps[k], qty) \in 1 .. qty
    BY <2>1 DEF Least, TypeInv, TypeOK
  <2> QED BY <1>2, <2>1, <2>2
<1>4. CASE StopHit
  <2>1. /\ qty > 0 /\ (slFull \/ slQty > 0)
        /\ qty' = qty - (IF slFull THEN qty ELSE Least(slQty, qty))
        /\ UNCHANGED <<pc, orders, left>>
    BY <1>4 DEF StopHit, Reduce
  <2>2. (IF slFull THEN qty ELSE Least(slQty, qty)) \in 1 .. qty
    BY <2>1 DEF Least, TypeInv, TypeOK
  <2> QED BY <1>2, <2>1, <2>2
<1>5. CASE UserCloses
  <2>1. qty > 0 /\ qty' = qty - qty /\ UNCHANGED <<pc, orders, left>>
    BY <1>5 DEF UserCloses, Reduce
  <2>2. qty \in 1 .. qty
    BY <2>1 DEF TypeInv, TypeOK
  <2> QED BY <1>2, <2>1, <2>2
<1> QED BY <1>1, <1>3, <1>4, <1>5 DEF ExchangeStep

LEMMA NextOneOrder ==
    ASSUME TypeInv, OneOrder, [Next]_vars
    PROVE  OneOrder'
<1>1. CASE ~Careful'
  BY <1>1 DEF OneOrder
<1>2. CASE Careful'
  <2>1. Careful
    BY <1>2, MishapsStay DEF Careful
  <2>2. CASE Enter \/ EngineStep
    BY <1>2, <2>1, <2>2, OneOrderEngine
  <2>3. CASE ExchangeStep
    BY <1>2, <2>1, <2>3, OneOrderExchange
  <2>4. CASE UNCHANGED vars
    BY <2>1, <2>4 DEF OneOrder, Orders, vars, exchangeVars
  <2> QED BY <2>2, <2>3, <2>4 DEF Next
<1> QED BY <1>1, <1>2

\* The position is never larger than one order, until an order was lost sight of or
\* filled once its confirmation was over, or an open position was overlooked.
THEOREM EnteredOnce == Spec => []ExposureBounded
<1>1. Init => TypeInv /\ OneOrder
  <2>1. Init => OneOrder
    BY OrderAssumption DEF Init, OneOrder
  <2> QED BY <2>1, InitTypeInv
<1>2. TypeInv /\ OneOrder /\ [Next]_vars => (TypeInv /\ OneOrder)'
  BY NextTypeInv, NextOneOrder
<1>3. TypeInv /\ OneOrder => ExposureBounded
  BY DEF ExposureBounded, OneOrder, Careful
<1> QED BY <1>1, <1>2, <1>3, PTL DEF Spec
--------------------------------------------------------------------------------
(* The position has a stop.                                                *)

\* A flat position keeps no trigger order.
FlatInv == qty = 0 => ~slFull /\ slQty = 0 /\ tps = Nothing

\* Nothing but take-profits was refused, and no order was lost sight of.
Tame == mishaps \subseteq {"tp"}

\* The stop on the way from the entry to its verification, to the fallback and to
\* the end of the placement.
StopInv ==
    Tame =>
        /\ pc \in {"place", "confirm"} => base = 0
        /\ pc \in {"confirm", "verify", "resolve", "sl"} => slQty = 0 /\ tps = Nothing
        /\ (pc = "resolve" /\ bundledOk) => slFull \/ qty = 0
        /\ pc = "sl" => qty <= size
        /\ pc \in {"idle", "tp"} => slFull \/ slQty >= qty

LEMMA NextFlatInv ==
    ASSUME TypeInv, FlatInv, [Next]_vars
    PROVE  FlatInv'
<1>1. CASE Enter \/ EngineStep
  <2>1. CASE PlaceSl \/ PlaceTp
    BY <2>1 DEF PlaceSl, PlaceTp, Attached, FlatInv
  <2>2. CASE UNCHANGED <<qty, slFull, slQty, tps>>
    BY <2>2 DEF FlatInv, Nothing
  <2> QED
    BY <1>1, <2>1, <2>2
       DEF Enter, EngineStep, Baseline, Place, Confirm, SubmitRaises, Verify, Resolve,
           ResolveRaises, PlacementDone, exchangeVars
<1>2. ASSUME NEW o \in Orders, Fill(o)
      PROVE  qty' # 0
  <2>1. PICK n \in 1 .. left[o] : qty' = qty + n
    BY <1>2 DEF Fill
  <2>2. qty \in Nat /\ left[o] \in Nat
    BY OrderAssumption DEF TypeInv, TypeOK
  <2> QED BY <2>1, <2>2
<1>3. ASSUME NEW n \in Int, NEW rest, NEW restingSl, Reduce(n, rest, restingSl)
      PROVE  FlatInv'
  <2>1. qty' = qty - n /\ qty \in Nat
    BY <1>3 DEF Reduce, TypeInv, TypeOK
  <2>2. CASE n = qty
    BY <1>3, <2>2 DEF Reduce, FlatInv, Nothing
  <2>3. CASE n # qty
    BY <2>1, <2>3 DEF FlatInv
  <2> QED BY <2>2, <2>3
<1>4. CASE ExchangeStep
  <2>1. ASSUME NEW k \in LegKeys, TakeProfitHit(k)
        PROVE  FlatInv'
    <3>1. Least(tps[k], qty) \in Int
      BY DEF Least, TypeInv, TypeOK
    <3> QED BY <1>3, <2>1, <3>1 DEF TakeProfitHit
  <2>2. CASE StopHit
    <3>1. (IF slFull THEN qty ELSE Least(slQty, qty)) \in Int
      BY DEF Least, TypeInv, TypeOK
    <3> QED BY <1>3, <2>2, <3>1 DEF StopHit
  <2>3. CASE UserCloses
    BY <1>3, <2>3 DEF UserCloses, TypeInv, TypeOK
  <2>4. CASE qty' # 0
    BY <2>4 DEF FlatInv
  <2> QED BY <1>2, <1>4, <2>1, <2>2, <2>3, <2>4 DEF ExchangeStep
<1>5. CASE UNCHANGED vars
  BY <1>5 DEF vars, exchangeVars, FlatInv, Nothing
<1> QED BY <1>1, <1>4, <1>5 DEF Next

LEMMA StopInvEngine ==
    ASSUME Step = 1, TypeInv, OneOrder, FlatInv, StopInv, Tame, Tame',
           Enter \/ EngineStep
    PROVE  StopInv'
<1> USE DEF Tame
<1>1. Careful
  BY DEF Careful
<1>2. qty \in Nat /\ slQty \in Nat /\ size \in Nat
  BY DEF TypeInv, TypeOK
<1>3. CASE Enter
  BY <1>2, <1>3 DEF Enter, Note, GoTo, exchangeVars, StopInv
<1>4. CASE Baseline
  <2>1. qty = 0 /\ base' = qty /\ pc' = "place"
    BY <1>1, <1>4 DEF Baseline, Snapshot, GoTo, OneOrder
  <2> QED BY <2>1 DEF StopInv
<1>5. CASE Place
  <2>1. qty = 0 /\ slQty = 0 /\ tps = Nothing /\ base = 0
    BY <1>1, <1>5 DEF Place, OneOrder, FlatInv, StopInv
  <2>2. UNCHANGED <<qty, slFull, slQty, tps>>
    BY <1>5 DEF Place
  <2>3. (pc' = "confirm" /\ base' = base) \/ pc' = "idle"
    BY <1>5 DEF Place, GoTo, callVars, Leave
  <2>4. Nothing' = Nothing
    BY DEF Nothing
  <2> QED BY <2>1, <2>2, <2>3, <2>4 DEF StopInv
<1>6. CASE Confirm
  <2>1. pc = "confirm" /\ base = 0 /\ slQty = 0 /\ tps = Nothing
    BY <1>6 DEF Confirm, StopInv
  <2>2. UNCHANGED <<qty, slFull, slQty, tps>>
    BY <1>6 DEF Confirm, exchangeVars
  <2>3. \/ pc' = "verify"
        \/ pc' = "confirm" /\ base' = base
        \/ pc' = "idle" /\ best = 0 /\ ~(qty - base > best)
    BY <1>6, <2>1 DEF Confirm, Snapshot, GoTo, Leave
  <2>4. Nothing' = Nothing
    BY DEF Nothing
  <2> QED BY <1>2, <2>1, <2>2, <2>3, <2>4 DEF StopInv
<1>7. CASE SubmitRaises
  <2>1. pc = "baseline" /\ pc' = "idle" /\ UNCHANGED <<qty, slFull, slQty>>
    BY <1>7 DEF SubmitRaises, Note, Leave, exchangeVars
  <2>2. qty = 0
    BY <1>1, <2>1 DEF OneOrder
  <2> QED BY <1>2, <2>1, <2>2 DEF StopInv
<1>8. CASE Verify
  <2>1. pc = "verify" /\ slQty = 0 /\ tps = Nothing
    BY <1>8 DEF Verify, StopInv
  <2>2. UNCHANGED <<qty, slFull, slQty, tps>> /\ pc' = "resolve"
    BY <1>8 DEF Verify, exchangeVars, GoTo
  <2>3. bundledOk' => slFull
    <3>1. bundledOk' => Resting(pid)
      BY <1>8 DEF Verify
    <3>2. Resting(pid) => slFull
      BY <2>1 DEF Resting
    <3> QED BY <3>1, <3>2
  <2>4. Nothing' = Nothing
    BY DEF Nothing
  <2> QED BY <2>1, <2>2, <2>3, <2>4 DEF StopInv
<1>9. CASE Resolve
  <2>1. pc = "resolve" /\ slQty = 0 /\ tps = Nothing /\ (bundledOk => slFull \/ qty = 0)
    BY <1>9 DEF Resolve, StopInv
  <2>2. UNCHANGED <<qty, slFull, slQty, tps>>
    BY <1>9 DEF Resolve, exchangeVars
  <2>3. \/ pc' = "tp" /\ bundledOk /\ qty > 0
        \/ pc' = "sl" /\ size' = qty
        \/ pc' = "resolve" /\ bundledOk' = bundledOk
        \/ pc' = "idle" /\ qty = 0
    BY <1>9, <2>1 DEF Resolve, Snapshot, GoTo, Leave
  <2>4. Nothing' = Nothing
    BY DEF Nothing
  <2> QED BY <1>2, <2>1, <2>2, <2>3, <2>4 DEF StopInv
<1>10. CASE ResolveRaises
  BY <1>10 DEF ResolveRaises, Note
<1>11. CASE PlaceSl
  <2>1. /\ pc = "sl" /\ pc' = "tp" /\ qty > 0 /\ UNCHANGED <<qty, slFull>>
        /\ slQty' = IF RoundQty(size) > 0 THEN RoundQty(size) ELSE size
    BY <1>11 DEF PlaceSl, Note, GoTo, Attached
  <2>2. RoundQty(size) = size
    BY <1>2 DEF RoundQty
  <2>3. qty <= size
    BY <2>1 DEF StopInv
  <2> QED BY <1>2, <2>1, <2>2, <2>3 DEF StopInv
<1>12. CASE PlaceTp
  BY <1>12 DEF PlaceTp, StopInv
<1>13. CASE PlacementDone
  BY <1>13 DEF PlacementDone, Leave, exchangeVars, StopInv
<1> QED
  BY <1>3, <1>4, <1>5, <1>6, <1>7, <1>8, <1>9, <1>10, <1>11, <1>12, <1>13 DEF EngineStep

LEMMA StopInvExchange ==
    ASSUME TypeInv, OneOrder, FlatInv, StopInv, Tame, Tame', ExchangeStep
    PROVE  StopInv'
<1> USE DEF Tame
<1>1. Careful
  BY DEF Careful
<1>2. qty \in Nat /\ slQty \in Nat /\ size \in Nat /\ tps \in [LegKeys -> Nat]
  BY DEF TypeInv, TypeOK
<1>3. Nothing' = Nothing
  BY DEF Nothing
<1>4. pc \in {"idle", "baseline", "place", "confirm", "verify", "resolve", "sl", "tp"}
  BY <1>1 DEF TypeInv, TypeOK, OneOrder
<1>5. ASSUME NEW o \in Orders, Fill(o)
      PROVE  StopInv'
  <2>1. pc = "confirm"
    BY <1>5, CarefulFill DEF Careful
  <2>2. UNCHANGED <<pc, base, slQty, tps>>
    BY <1>5 DEF Fill, callVars
  <2> QED BY <1>3, <2>1, <2>2 DEF StopInv
\* The position is closed.
<1>6. ASSUME NEW rest, NEW restingSl, Reduce(qty, rest, restingSl)
      PROVE  StopInv'
  <2>1. /\ qty' = 0 /\ slQty' = 0 /\ tps' = Nothing
        /\ UNCHANGED <<pc, base, bundledOk, size>>
    BY <1>2, <1>6 DEF Reduce, callVars
  <2> QED BY <1>2, <1>3, <2>1 DEF StopInv
\* A part of it is, and the stop stays.
<1>7. ASSUME NEW n \in 1 .. qty - 1, NEW rest, Reduce(n, rest, slQty),
             tps # Nothing
      PROVE  StopInv'
  <2>1. /\ qty' = qty - n /\ UNCHANGED <<slFull, slQty, pc>>
    BY <1>2, <1>7 DEF Reduce
  <2>2. pc \in {"idle", "tp", "baseline", "place"}
    BY <1>4, <1>7 DEF StopInv
  <2>3. qty # 0
    BY <1>2, <1>7
  <2>4. pc \in {"idle", "tp"}
    BY <1>1, <2>2, <2>3 DEF OneOrder
  <2> QED BY <1>2, <1>7, <2>1, <2>4 DEF StopInv
<1>8. ASSUME NEW k \in LegKeys, TakeProfitHit(k)
      PROVE  StopInv'
  <2>1. /\ qty > 0 /\ tps[k] > 0
        /\ Reduce(Least(tps[k], qty), [tps EXCEPT ![k] = 0], slQty)
    BY <1>8 DEF TakeProfitHit
  <2>2. tps # Nothing
    BY <2>1 DEF Nothing
  <2>3. CASE Least(tps[k], qty) = qty
    BY <1>6, <2>1, <2>3
  <2>4. CASE Least(tps[k], qty) # qty
    <3>1. Least(tps[k], qty) \in 1 .. qty - 1
      BY <1>2, <2>1, <2>4 DEF Least
    <3> QED BY <1>7, <2>1, <2>2, <3>1
  <2> QED BY <2>3, <2>4
<1>9. CASE StopHit
  <2>1. /\ qty > 0 /\ (slFull \/ slQty > 0)
        /\ Reduce(IF slFull THEN qty ELSE Least(slQty, qty), tps, 0)
    BY <1>9 DEF StopHit
  <2>2. slFull \/ slQty >= qty
    BY <1>1, <1>2, <1>4, <2>1 DEF StopInv, OneOrder
  <2>3. (IF slFull THEN qty ELSE Least(slQty, qty)) = qty
    BY <1>2, <2>2 DEF Least
  <2> QED BY <1>6, <2>1, <2>3
<1>10. CASE UserCloses
  BY <1>6, <1>10 DEF UserCloses
<1> QED BY <1>5, <1>8, <1>9, <1>10 DEF ExchangeStep

LEMMA NextStopInv ==
    ASSUME Step = 1, TypeInv, OneOrder, FlatInv, StopInv, [Next]_vars
    PROVE  StopInv'
<1>1. CASE ~Tame'
  BY <1>1 DEF StopInv
<1>2. CASE Tame'
  <2>1. Tame
    BY <1>2, MishapsStay DEF Tame
  <2>2. CASE Enter \/ EngineStep
    BY <1>2, <2>1, <2>2, StopInvEngine
  <2>3. CASE ExchangeStep
    BY <1>2, <2>1, <2>3, StopInvExchange
  <2>4. CASE UNCHANGED vars
    BY <2>1, <2>4 DEF StopInv, vars, exchangeVars, callVars, Nothing
  <2> QED BY <2>2, <2>3, <2>4 DEF Next
<1> QED BY <1>1, <1>2

\* When the engine has turned to the next event, a stop covers all of an open
\* position, until the stop of the fallback is refused, an order is lost sight of or
\* fills once its confirmation is over, or a position is overlooked; quantities are counted in the precision of the instrument.
THEOREM StopUntilMishap ==
    ASSUME Step = 1
    PROVE  Spec => []ProtectedUntilMishap
<1> DEFINE IInv == TypeInv /\ OneOrder /\ FlatInv /\ StopInv
<1>1. Init => IInv
  <2>1. Init => OneOrder
    BY OrderAssumption DEF Init, OneOrder
  <2>2. Init => FlatInv /\ StopInv
    BY DEF Init, FlatInv, StopInv
  <2> QED BY <2>1, <2>2, InitTypeInv
<1>2. IInv /\ [Next]_vars => IInv'
  BY NextTypeInv, NextOneOrder, NextFlatInv, NextStopInv
<1>3. IInv => ProtectedUntilMishap
  BY DEF ProtectedUntilMishap, Protected, OneOrder, Careful, StopInv, Tame
<1> QED BY <1>1, <1>2, <1>3, PTL DEF Spec
--------------------------------------------------------------------------------
(* What the legs to place add up to.                                       *)

LegSum(s) == (IF 1 <= Len(s) THEN s[1] ELSE 0) + (IF 2 <= Len(s) THEN s[2] ELSE 0)

\* What the loop has placed is in its legs and never exceeds the position.
Placed(acc, total) == LegSum(acc.legs) = acc.placed /\ acc.placed <= total

Short(s, n) == Len(s) \in 0 .. n

LEMMA LegSumAppend ==
    ASSUME NEW s \in Seq(Nat), Short(s, 1), NEW n \in Nat
    PROVE  LegSum(Append(s, n)) = LegSum(s) + n
<1>a. Len(s) \in Nat /\ (Len(s) = 0 \/ Len(s) = 1)
  <2>1. Len(s) \in Nat
    BY LenProperties
  <2> QED BY <2>1 DEF Short
<1>b. /\ Len(Append(s, n)) = Len(s) + 1
      /\ \A i \in 1 .. Len(s) : Append(s, n)[i] = s[i]
      /\ Append(s, n)[Len(s) + 1] = n
  BY AppendProperties
<1> HIDE DEF Short
<1>1. CASE Len(s) = 0
  <2>1. Len(Append(s, n)) = 1 /\ Append(s, n)[1] = n
    BY <1>1, <1>b
  <2> QED BY <1>1, <2>1 DEF LegSum
<1>2. CASE Len(s) = 1
  <2>1. Len(Append(s, n)) = 2 /\ Append(s, n)[1] = s[1] /\ Append(s, n)[2] = n
    BY <1>2, <1>b
  <2>2. s[1] \in Nat
    <3>1. 1 \in 1 .. Len(s)
      BY <1>2
    <3> QED BY <3>1, ElementOfSeq
  <2> QED BY <1>2, <2>1, <2>2 DEF LegSum
<1> QED BY <1>a, <1>1, <1>2

LEMMA ShortOne ==
    ASSUME NEW s \in Seq(Nat), NEW n \in Nat, Len(s) <= n
    PROVE  Short(s, n)
<1>1. Len(s) \in Nat
  BY LenProperties
<1> QED BY <1>1 DEF Short

LEMMA PlaceLegPlaces ==
    ASSUME NEW acc \in Accs, NEW leg \in Nat, NEW total \in Nat,
           Short(acc.legs, 1), Placed(acc, total)
    PROVE  Placed(PlaceLeg(acc, leg, total), total)
<1> DEFINE piece == Least(RoundQty(leg + acc.carry), total - acc.placed)
<1>1. acc.legs \in Seq(Nat) /\ acc.carry \in Nat /\ acc.placed \in Nat
  BY DEF Accs
<1>2. piece \in Int /\ piece <= total - acc.placed
  <2>1. leg + acc.carry \in Nat
    BY <1>1
  <2>2. RoundQty(leg + acc.carry) \in Nat
    BY <2>1, RoundQtyType
  <2> QED BY <1>1, <2>2 DEF Least
<1>3. CASE leg <= 0
  BY <1>3 DEF PlaceLeg
<1>4. CASE leg > 0 /\ piece < MinQty
  <2>1. PlaceLeg(acc, leg, total) = [acc EXCEPT !.carry = leg + @]
    BY <1>4 DEF PlaceLeg
  <2>2. /\ PlaceLeg(acc, leg, total).legs = acc.legs
        /\ PlaceLeg(acc, leg, total).placed = acc.placed
    BY <2>1 DEF Accs
  <2> QED BY <2>2 DEF Placed
<1>5. CASE leg > 0 /\ ~(piece < MinQty)
  <2>1. PlaceLeg(acc, leg, total) =
            [legs |-> Append(acc.legs, piece), carry |-> 0, placed |-> acc.placed + piece]
    BY <1>5 DEF PlaceLeg
  <2>2. piece \in Nat
    BY <1>2, <1>5, MinQtyAssumption
  <2> HIDE DEF piece
  <2>3. LegSum(Append(acc.legs, piece)) = LegSum(acc.legs) + piece
    BY <1>1, <2>2, LegSumAppend
  <2> QED BY <1>1, <1>2, <2>1, <2>2, <2>3 DEF Placed
<1> QED BY <1>3, <1>4, <1>5

LEMMA LegSumFold ==
    ASSUME NEW s \in Seq(Nat), s # <<>>, Short(s, 2), NEW n \in Nat
    PROVE  LegSum([s EXCEPT ![Len(s)] = @ + n]) = LegSum(s) + n
<1> DEFINE r == [s EXCEPT ![Len(s)] = @ + n]
<1>a. Len(s) = 1 \/ Len(s) = 2
  <2>1. Len(s) \in Nat \ {0}
    BY EmptySeq
  <2> QED BY <2>1 DEF Short
<1>b. Len(s) \in 1 .. Len(s) /\ \A i \in 1 .. Len(s) : s[i] \in Nat
  BY <1>a, ElementOfSeq
<1>c. /\ Len(r) = Len(s)
      /\ \A i \in 1 .. Len(s) : r[i] = IF i = Len(s) THEN s[Len(s)] + n ELSE s[i]
  <2>1. s[Len(s)] + n \in Nat
    BY <1>b
  <2> QED BY <1>b, <2>1, ExceptSeq
<1> SUFFICES LegSum(r) = LegSum(s) + n
  OBVIOUS
<1> HIDE DEF r
<1>1. CASE Len(s) = 1
  <2>1. Len(r) = 1 /\ r[1] = s[1] + n /\ s[1] \in Nat
    BY <1>1, <1>b, <1>c
  <2>2. LegSum(r) = r[1] /\ LegSum(s) = s[1]
    BY <1>1, <2>1 DEF LegSum
  <2> QED BY <2>1, <2>2
<1>2. CASE Len(s) = 2
  <2>1. Len(r) = 2 /\ r[1] = s[1] /\ r[2] = s[2] + n /\ s[1] \in Nat /\ s[2] \in Nat
    BY <1>2, <1>b, <1>c
  <2>2. LegSum(r) = r[1] + r[2] /\ LegSum(s) = s[1] + s[2]
    BY <1>2, <2>1 DEF LegSum
  <2> QED BY <2>1, <2>2
<1> QED BY <1>a, <1>1, <1>2

\* The dust goes where it still fits.
LEMMA FoldDustFits ==
    ASSUME NEW acc \in Accs, NEW total \in Nat, Short(acc.legs, 2), Placed(acc, total)
    PROVE  LegSum(FoldDust(acc, total)) <= total
<1> DEFINE leftover == RoundQty(total - acc.placed)
<1>1. acc.legs \in Seq(Nat) /\ acc.placed \in Nat /\ Len(acc.legs) \in Nat
  BY DEF Accs
<1>2. leftover \in 0 .. total - acc.placed
  <2>1. total - acc.placed \in Nat
    BY <1>1 DEF Placed
  <2> QED BY <2>1, RoundQtyType
<1>3. CASE 0 < leftover /\ leftover < MinQty /\ acc.legs # <<>>
  <2>1. FoldDust(acc, total) = [acc.legs EXCEPT ![Len(acc.legs)] = @ + leftover]
    BY <1>3 DEF FoldDust
  <2>2. acc.legs # <<>> /\ leftover \in Nat
    BY <1>1, <1>2, <1>3
  <2> HIDE DEF leftover
  <2>3. LegSum(FoldDust(acc, total)) = LegSum(acc.legs) + leftover
    BY <1>1, <2>1, <2>2, LegSumFold
  <2> QED BY <1>1, <1>2, <2>3 DEF Placed
<1>4. CASE ~(0 < leftover /\ leftover < MinQty /\ acc.legs # <<>>)
  BY <1>1, <1>4 DEF FoldDust, Placed
<1> QED BY <1>3, <1>4

\* The legs never add up to more than the position they are placed on.
LEMMA LegsFit ==
    ASSUME NEW total \in Nat
    PROVE  LegSum(Placement(total)) <= total
<1> DEFINE plan == PlanLegs(OrderQty, ClosePct)
           first == PlaceLeg(NoLegs, plan[1], total)
           both == IF Len(plan) = 1 THEN first ELSE PlaceLeg(first, plan[2], total)
<1>1. plan \in Seq(Nat) /\ Len(plan) \in 1 .. 2
  BY PlanLegsType
<1> HIDE DEF plan
<1>2. plan[1] \in Nat /\ (Len(plan) # 1 => plan[2] \in Nat)
  BY <1>1
<1>3. /\ NoLegs \in Accs /\ Len(NoLegs.legs) = 0 /\ Short(NoLegs.legs, 1)
      /\ Placed(NoLegs, total)
  BY DEF NoLegs, Accs, Placed, LegSum, Short
<1>4. first \in Accs /\ Short(first.legs, 1) /\ Placed(first, total)
  <2>1. Len(first.legs) <= 0 + 1
    BY <1>2, <1>3, PlaceLegType
  <2>2. first \in Accs /\ Placed(first, total)
    BY <1>2, <1>3, PlaceLegType, PlaceLegPlaces
  <2>3. first.legs \in Seq(Nat) /\ Len(first.legs) <= 1
    BY <2>1, <2>2 DEF Accs
  <2> QED BY <2>2, <2>3, ShortOne
<1> HIDE DEF first
<1>5. both \in Accs /\ Short(both.legs, 2) /\ Placed(both, total)
  <2>1. Len(first.legs) \in Nat
    BY <1>4 DEF Accs
  <2>2. CASE Len(plan) = 1
    BY <1>4, <2>1, <2>2 DEF Short
  <2>3. CASE Len(plan) # 1
    <3>1. /\ PlaceLeg(first, plan[2], total) \in Accs
          /\ Len(PlaceLeg(first, plan[2], total).legs) <= Len(first.legs) + 1
          /\ Placed(PlaceLeg(first, plan[2], total), total)
      BY <1>2, <1>4, <2>3, PlaceLegType, PlaceLegPlaces
    <3> DEFINE second == PlaceLeg(first, plan[2], total)
    <3> HIDE DEF second
    <3>2. second.legs \in Seq(Nat)
      BY <3>1 DEF Accs, second
    <3>3. Len(second.legs) <= 2
      <4>1. Len(second.legs) <= Len(first.legs) + 1
        BY <3>1 DEF second
      <4>2. Len(first.legs) \in 0 .. 1 /\ Len(second.legs) \in Nat
        BY <1>4, <3>2, LenProperties DEF Short
      <4>3. PICK m \in 0 .. 1 : m = Len(first.legs)
        BY <4>2
      <4>4. PICK l \in Nat : l = Len(second.legs)
        BY <4>2
      <4>5. l <= m + 1
        BY <4>1, <4>3, <4>4, Zenon
      <4>6. l <= 2
        BY <4>5
      <4> QED BY <4>4, <4>6, Zenon
    <3>4. Short(second.legs, 2)
      BY <3>2, <3>3, ShortOne
    <3> QED BY <2>3, <3>1, <3>4 DEF second
  <2> QED BY <2>2, <2>3
<1>6. Placement(total) = FoldDust(both, total)
  BY DEF Placement, Normalize, both, first, plan
<1> HIDE DEF both
<1> QED BY <1>5, <1>6, FoldDustFits

--------------------------------------------------------------------------------
(* The take-profits fit the position.                                      *)

\* The i-th leg placed on a position of total, and the sum of the legs from the
\* i-th on.
LegAt(total, i) == IF i <= Len(Placement(total)) THEN Placement(total)[i] ELSE 0
Rest(total, i) ==
    (IF i <= 1 THEN LegAt(total, 1) ELSE 0) + (IF i <= 2 THEN LegAt(total, 2) ELSE 0)

LEMMA RestFacts ==
    ASSUME NEW total \in Nat
    PROVE  /\ LegAt(total, 1) \in Nat /\ LegAt(total, 2) \in Nat
           /\ Rest(total, 1) = LegAt(total, 1) + LegAt(total, 2)
           /\ Rest(total, 2) = LegAt(total, 2)
           /\ Rest(total, 3) = 0
           /\ Rest(total, 1) = LegSum(Placement(total))
<1>1. Placement(total) \in Seq(Nat)
  BY PlacementType
<1> DEFINE s == Placement(total)
<1> HIDE DEF s
<1>2. Len(s) \in Nat /\ \A i \in 1 .. Len(s) : s[i] \in Nat
  BY <1>1, LenProperties, ElementOfSeq DEF s
<1>3. \A i \in {1, 2} : (IF i <= Len(s) THEN s[i] ELSE 0) \in Nat
  BY <1>2
<1>4. LegAt(total, 1) \in Nat /\ LegAt(total, 2) \in Nat
  BY <1>3 DEF LegAt, s
<1>5. LegSum(s) = LegAt(total, 1) + LegAt(total, 2)
  BY DEF LegSum, LegAt, s
<1> QED BY <1>4, <1>5 DEF Rest, s

\* No stop cut a position and no open position was overlooked.
Sound == mishaps \intersect {"cut", "account"} = {}

\* Take-profits rest only for the latest entry; those placed and those still to be
\* placed fit the position while it is the one the placement read.
TpInv ==
    Sound =>
        /\ pc \in {"baseline", "place", "confirm", "verify", "resolve", "sl"} =>
               tps = Nothing
        /\ pc # "tp" => next = 1
        /\ pc \in {"confirm", "verify", "resolve", "sl", "tp"} => orders \in Orders
        /\ NoOtherTps(orders)
        /\ pc = "tp" => \A j \in 1 .. 2 : j >= next => tps[<<orders, j>>] = 0
        /\ orders \in Orders => TpsOf(orders) <= qty
        /\ (pc \in {"sl", "tp"} /\ Attached) => TpsOf(orders) + Rest(size, next) <= qty

\* Without take-profits there is nothing to bound but the placement.
LEMMA NoTps ==
    ASSUME TypeInv', tps' = Nothing,
           pc' # "tp" => next' = 1,
           pc' \in {"confirm", "verify", "resolve", "sl", "tp"} => orders' \in Orders,
           (pc' \in {"sl", "tp"} /\ Attached') => Rest(size', next') <= qty'
    PROVE  TpInv'
<1>1. qty' \in Nat
  BY DEF TypeInv, TypeOK
<1>2. \A k \in LegKeys : tps'[k] = 0
  BY DEF Nothing
<1>3. \A j \in 1 .. 2 : orders' \in Orders => tps'[<<orders', j>>] = 0
  BY <1>2 DEF LegKeys
<1>4. Nothing' = Nothing /\ Orders' = Orders
  BY DEF Nothing, Orders
<1>5. orders' \in Orders => TpsOf(orders)' = 0
  BY <1>3 DEF TpsOf
<1>6. NoOtherTps(orders)'
  BY <1>2 DEF NoOtherTps
<1>7. (pc' \in {"sl", "tp"} /\ Attached') =>
          TpsOf(orders)' + Rest(size', next') <= qty'
  <2> SUFFICES ASSUME pc' \in {"sl", "tp"}, Attached'
               PROVE  TpsOf(orders)' + Rest(size', next') <= qty'
    OBVIOUS
  <2>1. Rest(size', next') \in Nat
    <3>1. size' \in Nat /\ next' \in 1 .. 3
      BY DEF TypeInv, TypeOK
    <3> QED BY <3>1, RestFacts
  <2> QED BY <1>5, <2>1
<1> QED BY <1>1, <1>3, <1>4, <1>5, <1>6, <1>7 DEF TpInv

\* One turn of the loop over the legs: the sum of what is left to place is one leg
\* smaller.
LEMMA LegTurn ==
    ASSUME TypeInv, PlaceTp
    PROVE  /\ next \in 1 .. 2 /\ next' = next + 1
           /\ LegAt(size, next) = LegsToPlace[next]
           /\ LegAt(size, next) \in Nat /\ Rest(size, next + 1) \in Nat
           /\ Rest(size, next) = LegAt(size, next) + Rest(size, next + 1)
<1>1. size \in Nat /\ next \in 1 .. 3 /\ next' = next + 1 /\ next <= Len(LegsToPlace)
  BY DEF TypeInv, TypeOK, PlaceTp
<1>2. LegsToPlace = Placement(size)
  BY DEF LegsToPlace, Placement
<1>3. next \in 1 .. 2
  <2>1. Len(LegsToPlace) <= 2 /\ LegsToPlace \in Seq(Nat)
    BY <1>1, LegsToPlaceType
  <2>2. PICK n \in Nat : n = Len(LegsToPlace)
    BY <2>1, LenProperties
  <2>3. n <= 2 /\ next <= n
    BY <1>1, <2>1, <2>2, Zenon
  <2> QED BY <1>1, <2>2, <2>3
<1>4. LegAt(size, next) = LegsToPlace[next]
  BY <1>1, <1>2 DEF LegAt
<1> DEFINE total == size
<1>a. total \in Nat
  BY DEF TypeInv, TypeOK
<1>5. /\ LegAt(total, next) \in Nat /\ Rest(total, next + 1) \in Nat
      /\ Rest(total, next) = LegAt(total, next) + Rest(total, next + 1)
  <2> HIDE DEF total
  <2>1. next = 1 \/ next = 2
    BY <1>3
  <2>2. CASE next = 1
    BY <1>a, <2>2, RestFacts
  <2>3. CASE next = 2
    BY <1>a, <2>3, RestFacts
  <2> QED BY <2>1, <2>2, <2>3
<1> QED BY <1>1, <1>3, <1>4, <1>5

\* A leg that is taken adds its quantity to the resting take-profits.
LEMMA LegPlaced ==
    ASSUME TypeInv, TpInv, Sound, PlaceTp,
           tps' = [tps EXCEPT ![<<orders, next>>] = LegsToPlace[next]]
    PROVE  /\ orders \in Orders /\ TpsOf(orders) \in Nat
           /\ TpsOf(orders)' = TpsOf(orders) + LegAt(size, next)
           /\ NoOtherTps(orders)'
           /\ \A j \in 1 .. 2 : j >= next + 1 => tps'[<<orders, j>>] = 0
<1>1. tps \in [LegKeys -> Nat]
  BY DEF TypeInv, TypeOK
<1>2. pc = "tp" /\ orders' = orders
  BY DEF PlaceTp
<1>3. /\ orders \in Orders /\ NoOtherTps(orders)
      /\ \A j \in 1 .. 2 : j >= next => tps[<<orders, j>>] = 0
  BY <1>2 DEF TpInv
<1>4. next \in 1 .. 2 /\ LegAt(size, next) = LegsToPlace[next] /\ LegAt(size, next) \in Nat
  BY LegTurn
<1>5. \A j \in 1 .. 2 : tps[<<orders, j>>] \in Nat
  BY <1>1, <1>3 DEF LegKeys
<1>6. <<orders, next>> \in LegKeys /\ tps[<<orders, next>>] = 0
  BY <1>3, <1>4 DEF LegKeys
<1>7. \A k \in LegKeys :
        tps'[k] = IF k = <<orders, next>> THEN LegAt(size, next) ELSE tps[k]
  BY <1>1, <1>4, <1>6
<1>8. /\ tps'[<<orders, next>>] = LegAt(size, next)
      /\ \A j \in 1 .. 2 : j # next => tps'[<<orders, j>>] = tps[<<orders, j>>]
  BY <1>3, <1>4, <1>7 DEF LegKeys
<1>9. TpsOf(orders)' = TpsOf(orders) + LegAt(size, next)
  <2>1. next = 1 \/ next = 2
    BY <1>4
  <2>2. TpsOf(orders)' = tps'[<<orders, 1>>] + tps'[<<orders, 2>>]
    BY <1>2 DEF TpsOf
  <2>3. CASE next = 1
    BY <1>4, <1>5, <1>6, <1>8, <2>2, <2>3 DEF TpsOf
  <2>4. CASE next = 2
    BY <1>4, <1>5, <1>6, <1>8, <2>2, <2>4 DEF TpsOf
  <2> QED BY <2>1, <2>3, <2>4
<1>10. NoOtherTps(orders)'
  BY <1>2, <1>3, <1>7 DEF NoOtherTps, LegKeys
<1>11. \A j \in 1 .. 2 : j >= next + 1 => tps'[<<orders, j>>] = 0
  BY <1>3, <1>4, <1>8
<1>12. TpsOf(orders) \in Nat
  BY <1>5 DEF TpsOf
<1> QED BY <1>3, <1>9, <1>10, <1>11, <1>12

\* A take-profit that closes part of the position takes as much off both.
LEMMA LegHit ==
    ASSUME TypeInv, TpInv, Sound, NEW k \in LegKeys, TakeProfitHit(k),
           Least(tps[k], qty) # qty
    PROVE  /\ tps[k] \in Nat /\ tps[k] < qty /\ orders \in Orders
           /\ TpsOf(orders) \in Nat
           /\ qty' = qty - tps[k]
           /\ TpsOf(orders)' = TpsOf(orders) - tps[k]
           /\ NoOtherTps(orders)'
           /\ \A i \in 1 .. 2 : tps'[<<orders, i>>] \in {0, tps[<<orders, i>>]}
           /\ pc \notin {"baseline", "place", "confirm", "verify", "resolve", "sl"}
           /\ UNCHANGED <<epoch, pc, orders, callVars>>
<1>1. qty \in Nat /\ tps \in [LegKeys -> Nat]
  BY DEF TypeInv, TypeOK
<1>2. /\ qty > 0 /\ tps[k] > 0
      /\ Reduce(Least(tps[k], qty), [tps EXCEPT ![k] = 0], slQty)
  BY DEF TakeProfitHit
<1>3. Least(tps[k], qty) = tps[k] /\ tps[k] \in Nat /\ tps[k] < qty
  BY <1>1 DEF Least
<1>4. /\ qty' = qty - tps[k] /\ tps' = [tps EXCEPT ![k] = 0]
      /\ UNCHANGED <<epoch, pc, orders, callVars>>
  BY <1>2, <1>3 DEF Reduce
<1>5. pc \notin {"baseline", "place", "confirm", "verify", "resolve", "sl"}
  <2>1. tps # Nothing
    BY <1>2 DEF Nothing
  <2> QED BY <2>1 DEF TpInv
<1>6. k[1] = orders /\ NoOtherTps(orders)
  BY <1>1, <1>2 DEF TpInv, NoOtherTps
<1>7. PICK j \in 1 .. 2 : k = <<orders, j>>
  BY <1>6 DEF LegKeys
<1>8. orders \in Orders
  BY <1>7 DEF LegKeys
<1>9. \A i \in 1 .. 2 : /\ tps[<<orders, i>>] \in Nat
                        /\ tps'[<<orders, i>>] = IF i = j THEN 0 ELSE tps[<<orders, i>>]
  BY <1>1, <1>4, <1>7, <1>8 DEF LegKeys
<1>10. TpsOf(orders)' = TpsOf(orders) - tps[k] /\ TpsOf(orders) \in Nat
  <2>1. TpsOf(orders)' = tps'[<<orders, 1>>] + tps'[<<orders, 2>>]
    BY <1>4 DEF TpsOf
  <2>2. j = 1 \/ j = 2
    BY <1>7
  <2>3. CASE j = 1
    BY <1>7, <1>9, <2>1, <2>3 DEF TpsOf
  <2>4. CASE j = 2
    BY <1>7, <1>9, <2>1, <2>4 DEF TpsOf
  <2> QED BY <2>2, <2>3, <2>4
<1>11. NoOtherTps(orders)'
  BY <1>1, <1>4, <1>6 DEF NoOtherTps, LegKeys
<1>12. \A i \in 1 .. 2 : tps'[<<orders, i>>] \in {0, tps[<<orders, i>>]}
  BY <1>9
<1> QED BY <1>3, <1>4, <1>5, <1>8, <1>10, <1>11, <1>12

LEMMA TpEngine ==
    ASSUME TypeInv, TypeInv', FlatInv, TpInv, Sound, Sound', Enter \/ EngineStep
    PROVE  TpInv'
<1>1. qty \in Nat /\ size \in Nat /\ next \in 1 .. 3 /\ tps \in [LegKeys -> Nat]
  BY DEF TypeInv, TypeOK
<1>2. CASE Enter
  <2>1. qty = 0 /\ pc = "idle" /\ pc' = "baseline" /\ next' = next /\ tps' = tps
    BY <1>2 DEF Enter, Note, Sound, GoTo, exchangeVars, callVars
  <2>2. tps = Nothing /\ next = 1
    BY <2>1 DEF FlatInv, TpInv
  <2> QED BY <2>1, <2>2, NoTps
<1>3. CASE Baseline
  <2>1. pc = "baseline" /\ pc' = "place" /\ next' = next /\ tps' = tps
    BY <1>3 DEF Baseline, GoTo, exchangeVars
  <2> QED BY <2>1, NoTps DEF TpInv
<1>4. CASE Place
  <2>1. /\ pc = "place" /\ pc' \in {"confirm", "idle"} /\ orders' = orders + 1
        /\ tps' = tps /\ next' \in {next, 1}
    BY <1>4 DEF Place, GoTo, Leave, callVars
  <2>2. orders' \in Orders
    BY <2>1, BoundAssumption DEF TypeInv, TypeOK, OrdersFit, Orders
  <2> QED BY <2>1, <2>2, NoTps DEF TpInv
<1>5. CASE Confirm \/ SubmitRaises \/ Verify \/ ResolveRaises
  <2>1. /\ pc \in {"baseline", "confirm", "verify", "resolve"}
        /\ pc' \in {"confirm", "verify", "resolve", "idle", "failed"}
        /\ pc = "baseline" => pc' = "idle"
        /\ tps' = tps /\ orders' = orders /\ next' \in {next, 1}
    BY <1>5 DEF Confirm, SubmitRaises, Verify, ResolveRaises, GoTo, Leave, exchangeVars
  <2> QED BY <2>1, NoTps DEF TpInv
<1>6. CASE Resolve
  <2>1. pc = "resolve" /\ tps' = tps /\ orders' = orders /\ next' \in {next, 1} /\ qty' = qty
    BY <1>6 DEF Resolve, Leave, exchangeVars
  <2>2. (pc' \in {"sl", "tp"} /\ size' = qty) \/ pc' \in {"resolve", "idle"}
    BY <1>6 DEF Resolve, Snapshot, GoTo, Leave
  <2>3. tps = Nothing /\ next = 1 /\ orders \in Orders
    BY <2>1 DEF TpInv
  <2>4. Rest(qty, 1) <= qty
    <3>1. Rest(qty, 1) = LegSum(Placement(qty)) /\ LegSum(Placement(qty)) <= qty
      BY <1>1, RestFacts, LegsFit
    <3> QED BY <3>1
  <2>5. Orders' = Orders
    BY DEF Orders
  <2> QED BY <2>1, <2>2, <2>3, <2>4, <2>5, NoTps
<1>7. CASE PlaceSl
  <2>1. /\ pc = "sl" /\ pc' = "tp" /\ next' = next /\ tps' = tps /\ orders' = orders
        /\ qty' = qty /\ size' = size /\ epoch' = epoch /\ pid' = pid
    BY <1>7 DEF PlaceSl, GoTo, callVars
  <2>2. tps = Nothing /\ next = 1 /\ orders \in Orders
        /\ (Attached => TpsOf(orders) + Rest(size, next) <= qty)
    BY <2>1 DEF TpInv
  <2>3. TpsOf(orders) = 0
    BY <2>2 DEF TpsOf, Nothing, LegKeys
  <2>4. Attached => Rest(size, next) <= qty
    BY <1>1, <2>2, <2>3, RestFacts
  <2>5. Attached' = Attached
    BY <2>1 DEF Attached
  <2> QED BY <2>1, <2>2, <2>4, <2>5, NoTps
<1>8. CASE PlaceTp
  <2>1. /\ pc = "tp" /\ pc' = pc /\ orders' = orders /\ qty' = qty /\ size' = size
        /\ epoch' = epoch /\ pid' = pid /\ next' = next + 1
        /\ \/ Attached /\ tps' = [tps EXCEPT ![<<orders, next>>] = LegsToPlace[next]]
           \/ tps' = tps
    BY <1>8 DEF PlaceTp
  <2>2. /\ orders \in Orders /\ NoOtherTps(orders) /\ TpsOf(orders) <= qty
        /\ \A j \in 1 .. 2 : j >= next => tps[<<orders, j>>] = 0
        /\ Attached => TpsOf(orders) + Rest(size, next) <= qty
    BY <2>1 DEF TpInv
  <2>3. Attached' = Attached /\ Orders' = Orders /\ LegKeys' = LegKeys
    BY <2>1 DEF Attached, Orders, LegKeys
  <2>4. TpsOf(orders) \in Nat
    BY <1>1, <2>2 DEF TpsOf, LegKeys
  <2>5. CASE tps' = tps
    <3>1. TpsOf(orders)' = TpsOf(orders) /\ NoOtherTps(orders)'
      BY <2>1, <2>2, <2>3, <2>5 DEF TpsOf, NoOtherTps
    <3>2. Attached => TpsOf(orders) + Rest(size, next + 1) <= qty
      BY <1>1, <1>8, <2>2, <2>4, LegTurn
    <3>3. \A j \in 1 .. 2 : j >= next + 1 => tps[<<orders, j>>] = 0
      BY <1>1, <2>2
    <3> QED BY <2>1, <2>2, <2>3, <2>5, <3>1, <3>2, <3>3 DEF TpInv
  <2>6. CASE Attached /\ tps' = [tps EXCEPT ![<<orders, next>>] = LegsToPlace[next]]
    <3>1. /\ TpsOf(orders)' = TpsOf(orders) + LegAt(size, next)
          /\ NoOtherTps(orders)'
          /\ \A j \in 1 .. 2 : j >= next + 1 => tps'[<<orders, j>>] = 0
      BY <1>8, <2>6, LegPlaced
    <3>2. TpsOf(orders)' + Rest(size, next + 1) <= qty /\ TpsOf(orders)' <= qty
      BY <1>1, <1>8, <2>2, <2>4, <2>6, <3>1, LegTurn
    <3> QED BY <2>1, <2>2, <2>3, <3>1, <3>2 DEF TpInv
  <2> QED BY <2>1, <2>5, <2>6
<1>9. CASE PlacementDone
  <2>1. /\ pc = "tp" /\ pc' = "idle" /\ next' = 1 /\ orders' = orders
        /\ qty' = qty /\ tps' = tps
    BY <1>9 DEF PlacementDone, Leave, exchangeVars
  <2>2. TpsOf(orders)' = TpsOf(orders) /\ NoOtherTps(orders)' = NoOtherTps(orders)
        /\ Orders' = Orders
    BY <2>1 DEF TpsOf, NoOtherTps, Orders, LegKeys
  <2> QED BY <2>1, <2>2 DEF TpInv
<1> QED BY <1>2, <1>3, <1>4, <1>5, <1>6, <1>7, <1>8, <1>9 DEF EngineStep

LEMMA TpExchange ==
    ASSUME TypeInv, TypeInv', FlatInv, TpInv, Sound, Sound', ExchangeStep
    PROVE  TpInv'
<1>1. /\ qty \in Nat /\ slQty \in Nat /\ tps \in [LegKeys -> Nat] /\ pid \in 0 .. epoch
      /\ epoch \in Nat
  BY DEF TypeInv, TypeOK
<1>2. ASSUME NEW o \in Orders, Fill(o)
      PROVE  TpInv'
  <2>1. PICK n \in 1 .. left[o] : qty' = qty + n
    BY <1>2 DEF Fill
  <2>2. left[o] \in Nat
    BY OrderAssumption DEF TypeInv, TypeOK
  <2>3. /\ tps' = tps /\ pc' = pc /\ orders' = orders /\ next' = next /\ size' = size
        /\ pid' = pid
    BY <1>2 DEF Fill, callVars
  <2>4. Attached' => Attached
    <3>1. epoch' = IF qty = 0 THEN epoch + 1 ELSE epoch
      BY <1>2 DEF Fill
    <3> QED BY <1>1, <2>3, <3>1 DEF Attached
  <2>5. qty' >= qty /\ qty' \in Nat
    BY <1>1, <2>1, <2>2
  <2>6. /\ TpsOf(orders)' = TpsOf(orders) /\ NoOtherTps(orders)' = NoOtherTps(orders)
        /\ Orders' = Orders /\ Nothing' = Nothing
    BY <2>3 DEF TpsOf, NoOtherTps, Orders, LegKeys, Nothing
  <2>7. orders \in Orders => TpsOf(orders) \in Nat
    BY <1>1 DEF TpsOf, LegKeys
  <2>8. Rest(size, next) \in Nat
    <3>1. size \in Nat /\ next \in 1 .. 3
      BY DEF TypeInv, TypeOK
    <3> QED BY <3>1, RestFacts
  <2>9. orders \in Orders => TpsOf(orders) <= qty'
    BY <1>1, <2>5, <2>7 DEF TpInv
  <2>10. (pc \in {"sl", "tp"} /\ Attached') => TpsOf(orders) + Rest(size, next) <= qty'
    <3> SUFFICES ASSUME pc \in {"sl", "tp"}, Attached'
                 PROVE  TpsOf(orders) + Rest(size, next) <= qty'
      OBVIOUS
    <3>1. TpsOf(orders) + Rest(size, next) <= qty /\ orders \in Orders
      BY <2>4 DEF TpInv
    <3> QED BY <1>1, <2>5, <2>7, <2>8, <3>1
  <2> QED BY <2>3, <2>6, <2>9, <2>10 DEF TpInv
\* The position is closed.
<1>3. ASSUME NEW rest, NEW restingSl, Reduce(qty, rest, restingSl)
      PROVE  TpInv'
  <2>1. /\ qty' = 0 /\ tps' = Nothing /\ pc' = pc /\ orders' = orders /\ next' = next
    BY <1>1, <1>3 DEF Reduce, callVars
  <2>2. ~Attached'
    BY <2>1 DEF Attached
  <2>3. Orders' = Orders
    BY DEF Orders
  <2> QED BY <2>1, <2>2, <2>3, NoTps DEF TpInv
<1>4. ASSUME NEW k \in LegKeys, TakeProfitHit(k)
      PROVE  TpInv'
  <2>1. /\ qty > 0 /\ tps[k] > 0
        /\ Reduce(Least(tps[k], qty), [tps EXCEPT ![k] = 0], slQty)
    BY <1>4 DEF TakeProfitHit
  <2>2. CASE Least(tps[k], qty) = qty
    BY <1>3, <2>1, <2>2
  <2>3. CASE Least(tps[k], qty) # qty
    <3>1. /\ tps[k] \in Nat /\ orders \in Orders /\ TpsOf(orders) \in Nat
          /\ qty' = qty - tps[k]
          /\ TpsOf(orders)' = TpsOf(orders) - tps[k]
          /\ NoOtherTps(orders)'
          /\ \A i \in 1 .. 2 : tps'[<<orders, i>>] \in {0, tps[<<orders, i>>]}
          /\ pc \notin {"baseline", "place", "confirm", "verify", "resolve", "sl"}
          /\ epoch' = epoch /\ pc' = pc /\ orders' = orders
          /\ pid' = pid /\ size' = size /\ next' = next
      BY <1>4, <2>3, LegHit DEF callVars
    <3>2. TpsOf(orders) <= qty
      BY <3>1 DEF TpInv
    <3>3. TpsOf(orders)' <= qty'
      BY <1>1, <3>1, <3>2
    <3>4. (pc' \in {"sl", "tp"} /\ Attached') =>
              TpsOf(orders)' + Rest(size', next') <= qty'
      <4> SUFFICES ASSUME pc = "tp", Attached'
                   PROVE  TpsOf(orders)' + Rest(size, next) <= qty'
        BY <3>1
      <4>1. Attached
        BY <2>1, <3>1 DEF Attached
      <4>2. TpsOf(orders) + Rest(size, next) <= qty
        BY <4>1 DEF TpInv
      <4>3. Rest(size, next) \in Nat
        <5>1. size \in Nat /\ next \in 1 .. 3
          BY DEF TypeInv, TypeOK
        <5> QED BY <5>1, RestFacts
      <4> QED BY <1>1, <3>1, <4>2, <4>3
    <3>5. pc' = "tp" => \A i \in 1 .. 2 : i >= next' => tps'[<<orders', i>>] = 0
      BY <3>1 DEF TpInv
    <3>6. pc' # "tp" => next' = 1
      BY <3>1 DEF TpInv
    <3>7. Orders' = Orders
      BY DEF Orders
    <3> QED BY <3>1, <3>3, <3>4, <3>5, <3>6, <3>7 DEF TpInv
  <2> QED BY <2>2, <2>3
<1>5. CASE StopHit
  <2>1. /\ qty > 0
        /\ Reduce(IF slFull THEN qty ELSE Least(slQty, qty), tps, 0)
        /\ qty' > 0 => Note("cut")
    BY <1>5 DEF StopHit
  <2>2. ~(qty' > 0)
    BY <2>1 DEF Note, Sound
  <2>3. (IF slFull THEN qty ELSE Least(slQty, qty)) = qty
    BY <1>1, <2>1, <2>2 DEF Reduce, Least
  <2> QED BY <1>3, <2>1, <2>3
<1>6. CASE UserCloses
  BY <1>3, <1>6 DEF UserCloses
<1> QED BY <1>2, <1>4, <1>5, <1>6 DEF ExchangeStep

LEMMA NextTpInv ==
    ASSUME TypeInv, FlatInv, TpInv, [Next]_vars
    PROVE  TpInv'
<1>1. CASE ~Sound'
  BY <1>1 DEF TpInv
<1>2. CASE Sound'
  <2>1. Sound
    BY <1>2, MishapsStay DEF Sound
  <2>2. TypeInv'
    BY NextTypeInv
  <2>3. CASE Enter \/ EngineStep
    BY <1>2, <2>1, <2>2, <2>3, TpEngine
  <2>4. CASE ExchangeStep
    BY <1>2, <2>1, <2>2, <2>4, TpExchange
  <2>5. CASE UNCHANGED vars
    BY <2>1, <2>5 DEF TpInv, vars, exchangeVars, callVars, Nothing, NoOtherTps, TpsOf,
                      Attached, Orders, LegKeys
  <2> QED BY <2>3, <2>4, <2>5 DEF Next
<1> QED BY <1>1, <1>2

LEMMA InitTpInv == Init => TpInv
BY DEF Init, TpInv, NoOtherTps, Nothing, Orders

\* The resting take-profits are those of one entry and never add up to more than
\* the position, whatever fills, closes or fails while they are placed, until a stop
\* leaves a rest or an open position is overlooked.
THEOREM TpsFit == Spec => []TpsWithinPosition
<1> DEFINE IInv == TypeInv /\ FlatInv /\ TpInv
<1>1. Init => IInv
  <2>1. Init => FlatInv
    BY DEF Init, FlatInv
  <2> QED BY <2>1, InitTypeInv, InitTpInv
<1>2. IInv /\ [Next]_vars => IInv'
  BY NextTypeInv, NextFlatInv, NextTpInv
<1>3. IInv => TpsWithinPosition
  <2> SUFFICES ASSUME IInv, Sound
               PROVE  \E o \in Orders : NoOtherTps(o) /\ TpsOf(o) <= qty
    BY DEF TpsWithinPosition, Sound
  <2>1. NoOtherTps(orders) /\ (orders \in Orders => TpsOf(orders) <= qty)
    BY DEF TpInv
  <2>2. CASE orders \in Orders
    BY <2>1, <2>2
  <2>3. CASE orders \notin Orders
    <3>1. 1 \in Orders /\ \A k \in LegKeys : tps[k] = 0
      BY <2>1, <2>3, BoundAssumption DEF NoOtherTps, Orders, LegKeys
    <3>2. NoOtherTps(1) /\ TpsOf(1) = 0
      BY <3>1 DEF NoOtherTps, TpsOf, LegKeys
    <3> QED BY <3>1, <3>2 DEF TypeInv, TypeOK
  <2> QED BY <2>2, <2>3
<1> QED BY <1>1, <1>2, <1>3, PTL DEF Spec

--------------------------------------------------------------------------------
(* The take-profits cover the position.                                    *)

\* The plan is the whole order, or a part of it and the rest.
LEMMA PlanParts ==
    \/ PlanLegs(OrderQty, ClosePct) = <<OrderQty>>
    \/ \E f \in 1 .. OrderQty - 1 :
           PlanLegs(OrderQty, ClosePct) = <<f, OrderQty - f>>
<1> DEFINE first == Least(FirstLeg(OrderQty, ClosePct), OrderQty)
<1>1. first \in 0 .. OrderQty
  <2>1. CASE ClosePct >= 100
    BY <2>1, OrderAssumption DEF Least, FirstLeg
  <2>2. CASE ~(ClosePct >= 100)
    <3>1. (OrderQty * ClosePct) \div 100 \in Nat
      BY OrderAssumption
    <3>2. FirstLeg(OrderQty, ClosePct) \in Nat
      BY <2>2, <3>1, RoundQtyType DEF FirstLeg
    <3> QED BY <3>2, OrderAssumption DEF Least
  <2> QED BY <2>1, <2>2
<1>2. CASE first \in {0, OrderQty}
  BY <1>2 DEF PlanLegs
<1>3. CASE first \notin {0, OrderQty}
  <2>1. PlanLegs(OrderQty, ClosePct) = <<first, OrderQty - first>>
    BY <1>3 DEF PlanLegs
  <2>2. first \in 1 .. OrderQty - 1
    BY <1>1, <1>3, OrderAssumption
  <2> HIDE DEF first
  <2> QED BY <2>1, <2>2
<1> QED BY <1>2, <1>3

\* With quantities in the precision of the instrument nothing is rounded.
LEMMA RoundQtyId ==
    ASSUME Step = 1, NEW q \in Nat
    PROVE  RoundQty(q) = q
BY DEF RoundQty

\* A position that can be closed is closed by the legs placed on it, however little
\* of the order was filled and wherever the plan divides it.
LEMMA LegsCover ==
    ASSUME Step = 1, NEW total \in MinQty .. OrderQty
    PROVE  LegSum(Placement(total)) = total
<1> DEFINE plan == PlanLegs(OrderQty, ClosePct)
           Acc(l, c, p) == [legs |-> l, carry |-> c, placed |-> p]
<1>1. total \in Nat \ {0} /\ total >= MinQty /\ total <= OrderQty /\ OrderQty \in Nat \ {0}
      /\ MinQty \in Nat \ {0}
  BY MinQtyAssumption, OrderAssumption
<1>2. FoldDust(Acc(<<total>>, 0, total), total) = <<total>>
  <2>1. RoundQty(total - total) = 0
    BY <1>1, RoundQtyId
  <2> QED BY <2>1 DEF FoldDust
<1>3. LegSum(<<total>>) = total
  BY DEF LegSum
<1>4. \A c \in Nat, l \in Nat : (l > 0 /\ l + c >= total) =>
        PlaceLeg(Acc(<<>>, c, 0), l, total) = Acc(<<total>>, 0, total)
  <2> SUFFICES ASSUME NEW c \in Nat, NEW l \in Nat, l > 0, l + c >= total
               PROVE  PlaceLeg(Acc(<<>>, c, 0), l, total) = Acc(<<total>>, 0, total)
    OBVIOUS
  <2>1. RoundQty(l + c) = l + c
    BY RoundQtyId
  <2>2. Least(RoundQty(l + c), total - 0) = total
    BY <1>1, <2>1 DEF Least
  <2>3. ~(l <= 0) /\ ~(total < MinQty) /\ 0 + total = total
    BY <1>1
  <2> QED BY <2>2, <2>3 DEF PlaceLeg
<1>5. NoLegs = Acc(<<>>, 0, 0)
  BY DEF NoLegs
<1>6. CASE plan = <<OrderQty>>
  <2>1. Placement(total) = FoldDust(PlaceLeg(NoLegs, OrderQty, total), total)
    BY <1>6 DEF Placement, Normalize
  <2>2. PlaceLeg(NoLegs, OrderQty, total) = Acc(<<total>>, 0, total)
    BY <1>1, <1>4, <1>5
  <2> QED BY <1>2, <1>3, <2>1, <2>2
<1>7. ASSUME NEW f \in 1 .. OrderQty - 1, plan = <<f, OrderQty - f>>
      PROVE  LegSum(Placement(total)) = total
  <2>1. /\ f \in Nat /\ OrderQty - f \in Nat /\ f > 0 /\ OrderQty - f > 0
        /\ ~(f <= 0) /\ ~(OrderQty - f <= 0)
    BY <1>1
  <2> DEFINE first == PlaceLeg(NoLegs, f, total)
  <2>2. Placement(total) = FoldDust(PlaceLeg(first, OrderQty - f, total), total)
    BY <1>7 DEF Placement, Normalize
  <2>3. RoundQty(f + 0) = f
    BY <2>1, RoundQtyId
  \* The first leg alone closes the position.
  <2>4. CASE f >= total
    <3>1. first = Acc(<<total>>, 0, total)
      BY <1>4, <1>5, <2>1, <2>4
    <3>2. Least(RoundQty(OrderQty - f + 0), total - total) = 0
      <4>1. RoundQty(OrderQty - f + 0) = OrderQty - f
        BY <2>1, RoundQtyId
      <4> QED BY <1>1, <2>1, <4>1 DEF Least
    <3>3. PlaceLeg(first, OrderQty - f, total) = Acc(<<total>>, OrderQty - f + 0, total)
      BY <1>1, <2>1, <3>1, <3>2 DEF PlaceLeg
    <3>4. FoldDust(Acc(<<total>>, OrderQty - f + 0, total), total) = <<total>>
      <4>1. RoundQty(total - total) = 0
        BY <1>1, RoundQtyId
      <4> QED BY <4>1 DEF FoldDust
    <3> QED BY <1>3, <2>2, <3>3, <3>4
  \* It is too small and carried into the second.
  <2>5. CASE f < total /\ f < MinQty
    <3>1. Least(RoundQty(f + 0), total - 0) = f
      BY <1>1, <2>1, <2>3, <2>5 DEF Least
    <3>2. first = Acc(<<>>, f + 0, 0)
      BY <1>5, <2>1, <2>5, <3>1 DEF PlaceLeg
    <3>3. PlaceLeg(first, OrderQty - f, total) = Acc(<<total>>, 0, total)
      <4>1. OrderQty - f + (f + 0) >= total /\ f + 0 \in Nat
        BY <1>1, <2>1
      <4> HIDE DEF first, Acc
      <4> QED BY <1>4, <2>1, <3>2, <4>1
    <3> QED BY <1>2, <1>3, <2>2, <3>3
  <2>6. CASE f < total /\ f >= MinQty
    <3>1. Least(RoundQty(f + 0), total - 0) = f
      BY <1>1, <2>1, <2>3, <2>6 DEF Least
    <3>2. first = Acc(<<f>>, 0, f)
      <4>1. ~(f < MinQty) /\ 0 + f = f
        BY <1>1, <2>1, <2>6
      <4> QED BY <1>5, <2>1, <3>1, <4>1 DEF PlaceLeg
    <3>3. Least(RoundQty(OrderQty - f + 0), total - f) = total - f
      <4>1. RoundQty(OrderQty - f + 0) = OrderQty - f
        BY <2>1, RoundQtyId
      <4> QED BY <1>1, <2>1, <4>1 DEF Least
    \* The second leg is too small: its quantity is folded into the first.
    <3>4. CASE total - f < MinQty
      <4>1. PlaceLeg(first, OrderQty - f, total) = Acc(<<f>>, OrderQty - f + 0, f)
        BY <2>1, <3>2, <3>3, <3>4 DEF PlaceLeg
      <4>2. RoundQty(total - f) = total - f
        BY <1>1, <2>1, <2>6, RoundQtyId
      <4>3. FoldDust(Acc(<<f>>, OrderQty - f + 0, f), total) =
                [<<f>> EXCEPT ![1] = @ + (total - f)]
        <5>1. 0 < total - f
          BY <1>1, <2>1, <2>6
        <5> QED BY <3>4, <4>2, <5>1 DEF FoldDust
      <4>4. LegSum([<<f>> EXCEPT ![1] = @ + (total - f)]) = f + (total - f)
        BY <1>1, <2>1 DEF LegSum
      <4> QED BY <1>1, <2>1, <2>2, <4>1, <4>3, <4>4
    <3>5. CASE ~(total - f < MinQty)
      <4> DEFINE rest == total - f
                 both == Append(<<f>>, rest)
      <4>1. rest \in Nat /\ f + rest = total /\ ~(rest < MinQty)
        BY <1>1, <2>1, <2>6, <3>5
      <4>2. Least(RoundQty(OrderQty - f + 0), total - f) = rest
        BY <3>3
      <4> HIDE DEF rest
      <4>3. PlaceLeg(first, OrderQty - f, total) = Acc(both, 0, f + rest)
        BY <2>1, <3>2, <4>1, <4>2 DEF PlaceLeg
      <4>4. FoldDust(Acc(both, 0, f + rest), total) = both
        <5>1. RoundQty(total - (f + rest)) = 0
          BY <1>1, <4>1, RoundQtyId
        <5> QED BY <5>1 DEF FoldDust
      <4>5. LegSum(both) = f + rest
        <5>1. <<f>> \in Seq(Nat) /\ Short(<<f>>, 1) /\ LegSum(<<f>>) = f
          BY <2>1 DEF Short, LegSum
        <5> QED BY <4>1, <5>1, LegSumAppend
      <4> QED BY <2>2, <4>1, <4>3, <4>4, <4>5
    <3> QED BY <3>4, <3>5
  <2> QED BY <1>1, <2>1, <2>4, <2>5, <2>6
<1> QED BY <1>6, <1>7, PlanParts

\* Nothing but a stop was refused.
Neat == mishaps \subseteq {"stop"}

\* While the legs are placed, those that rest and those still to come close the
\* position exactly, and when the engine is done the resting ones do.
CoverInv ==
    Neat =>
        /\ pc \in {"place", "confirm"} => base = 0
        /\ (pc \in {"sl", "tp"} /\ qty > 0) =>
               /\ size \in 1 .. OrderQty
               /\ IF size < MinQty THEN qty < MinQty
                  ELSE TpsOf(orders) + Rest(size, next) = qty
        /\ (pc = "idle" /\ qty >= MinQty) => orders \in Orders /\ TpsOf(orders) = qty

LEMMA CoverEngine ==
    ASSUME Step = 1, TypeInv, TypeInv', OneOrder, FlatInv, TpInv, TpInv', CoverInv,
           Neat, Neat', Enter \/ EngineStep
    PROVE  CoverInv'
<1>1. Careful /\ Sound /\ Sound'
  BY DEF Neat, Careful, Sound
<1>2. /\ qty \in Nat /\ size \in Nat /\ next \in 1 .. 3 /\ tps \in [LegKeys -> Nat]
      /\ MinQty \in Nat \ {0} /\ base \in Nat
  BY MinQtyAssumption DEF TypeInv, TypeOK
<1>3. CASE Enter
  BY <1>3 DEF Enter, GoTo, CoverInv
<1>4. CASE Baseline
  <2>1. pc = "baseline" /\ pc' = "place" /\ base' = qty
    BY <1>4 DEF Baseline, GoTo, Snapshot
  <2>2. qty = 0
    BY <1>1, <2>1 DEF OneOrder
  <2> QED BY <2>1, <2>2 DEF CoverInv
<1>5. CASE Place
  <2>1. /\ pc = "place" /\ qty' = qty
        /\ pc' = "idle" \/ (pc' = "confirm" /\ base' = base)
    BY <1>5 DEF Place, GoTo, Leave, callVars
  <2>2. qty = 0
    BY <1>1, <2>1 DEF OneOrder
  <2> QED BY <1>2, <2>1, <2>2 DEF CoverInv
<1>6. CASE Confirm
  <2>1. pc = "confirm" /\ qty' = qty
    BY <1>6 DEF Confirm, exchangeVars
  <2>2. base = 0
    BY <2>1 DEF CoverInv
  <2>3. \/ pc' = "verify"
        \/ pc' = "confirm" /\ base' = base
        \/ pc' = "idle" /\ best = 0 /\ ~(qty - base > best)
    BY <1>6, <2>1 DEF Confirm, Snapshot, GoTo, Leave
  <2>4. pc' = "idle" => qty = 0
    BY <1>2, <2>2, <2>3
  <2> QED BY <1>2, <2>1, <2>2, <2>3, <2>4 DEF CoverInv
<1>7. CASE SubmitRaises
  <2>1. pc \in {"baseline", "confirm"} /\ pc' = "idle" /\ qty' = qty
    BY <1>7 DEF SubmitRaises, Leave, exchangeVars
  <2>2. pc = "baseline"
    BY <1>7, <2>1 DEF SubmitRaises, Note, Neat
  <2>3. qty = 0
    BY <1>1, <2>2 DEF OneOrder
  <2> QED BY <1>2, <2>1, <2>3 DEF CoverInv
<1>8. CASE Verify
  BY <1>8 DEF Verify, GoTo, CoverInv
<1>9. CASE Resolve
  <2>1. pc = "resolve" /\ tps' = tps /\ orders' = orders /\ qty' = qty
    BY <1>9 DEF Resolve, exchangeVars
  <2>2. \/ pc' \in {"sl", "tp"} /\ size' = qty /\ next' = next /\ qty > 0
        \/ pc' = "resolve"
        \/ pc' = "idle" /\ qty = 0
    BY <1>9 DEF Resolve, Snapshot, GoTo, Leave
  <2>3. tps = Nothing /\ next = 1 /\ orders \in Orders
    BY <1>1, <2>1 DEF TpInv
  <2>4. TpsOf(orders)' = 0
    BY <2>1, <2>3 DEF TpsOf, Nothing, LegKeys
  <2>5. CASE pc' \in {"sl", "tp"} /\ size' = qty /\ next' = next /\ qty > 0
    <3>1. qty <= OrderQty
      BY <1>1 DEF OneOrder
    <3>2. qty >= MinQty => Rest(qty, 1) = qty
      <4> SUFFICES ASSUME qty >= MinQty
                   PROVE  Rest(qty, 1) = qty
        OBVIOUS
      <4>1. qty \in MinQty .. OrderQty
        BY <1>2, <3>1, OrderAssumption
      <4>2. LegSum(Placement(qty)) = qty
        BY <4>1, LegsCover
      <4> QED BY <1>2, <4>2, RestFacts
    <3>3. size' \in 1 .. OrderQty
      BY <1>2, <2>5, <3>1, OrderAssumption
    <3>4. IF size' < MinQty THEN qty' < MinQty
          ELSE TpsOf(orders)' + Rest(size', next') = qty'
      BY <1>2, <2>1, <2>3, <2>4, <2>5, <3>2
    <3> QED BY <2>5, <3>3, <3>4 DEF CoverInv
  <2> QED BY <1>2, <2>1, <2>2, <2>5 DEF CoverInv
<1>10. CASE ResolveRaises
  BY <1>10 DEF ResolveRaises, Note, Neat
<1>11. CASE PlaceSl
  <2>1. /\ pc = "sl" /\ pc' = "tp" /\ next' = next /\ tps' = tps /\ orders' = orders
        /\ qty' = qty /\ size' = size
    BY <1>11 DEF PlaceSl, GoTo, callVars
  <2>2. TpsOf(orders)' = TpsOf(orders)
    BY <2>1 DEF TpsOf
  <2> QED BY <2>1, <2>2 DEF CoverInv
<1>12. CASE PlaceTp
  <2>1. /\ pc = "tp" /\ pc' = pc /\ orders' = orders /\ qty' = qty /\ size' = size
        /\ tps' = [tps EXCEPT ![<<orders, next>>] = LegsToPlace[next]]
    BY <1>12 DEF PlaceTp, Note, Neat
  <2>2. /\ next' = next + 1
        /\ LegAt(size, next) \in Nat /\ Rest(size, next + 1) \in Nat
        /\ Rest(size, next) = LegAt(size, next) + Rest(size, next + 1)
    BY <1>12, LegTurn
  <2>3. TpsOf(orders)' = TpsOf(orders) + LegAt(size, next) /\ TpsOf(orders) \in Nat
    BY <1>1, <1>12, <2>1, LegPlaced
  <2>4. TpsOf(orders)' + Rest(size', next') = TpsOf(orders) + Rest(size, next)
    BY <2>1, <2>2, <2>3
  <2> QED BY <2>1, <2>4 DEF CoverInv
<1>13. CASE PlacementDone
  <2>1. /\ pc = "tp" /\ pc' = "idle" /\ orders' = orders /\ qty' = qty /\ tps' = tps
        /\ next > Len(LegsToPlace)
    BY <1>13 DEF PlacementDone, Leave, exchangeVars
  <2>2. TpsOf(orders)' = TpsOf(orders) /\ Orders' = Orders /\ orders \in Orders
    BY <1>1, <2>1 DEF TpsOf, Orders, TpInv
  <2>3. Rest(size, next) = 0
    <3>1. LegsToPlace = Placement(size) /\ Placement(size) \in Seq(Nat)
      BY <1>2, PlacementType DEF LegsToPlace, Placement
    <3>2. PICK n \in Nat : n = Len(Placement(size))
      BY <3>1, LenProperties
    <3>3. next > n
      BY <2>1, <3>1, <3>2, Zenon
    <3>4. \A i \in 1 .. 2 : i >= next => LegAt(size, i) = 0
      BY <1>2, <3>2, <3>3 DEF LegAt
    <3> QED BY <1>2, <3>4 DEF Rest
  <2>4. TpsOf(orders) \in Nat
    BY <1>2, <2>2 DEF TpsOf, LegKeys
  <2>5. qty >= MinQty => TpsOf(orders) = qty
    BY <1>2, <2>1, <2>3, <2>4 DEF CoverInv
  <2> QED BY <2>1, <2>2, <2>5 DEF CoverInv
<1> QED
  BY <1>3, <1>4, <1>5, <1>6, <1>7, <1>8, <1>9, <1>10, <1>11, <1>12, <1>13 DEF EngineStep

LEMMA CoverExchange ==
    ASSUME TypeInv, OneOrder, TpInv, CoverInv, Neat, Neat', ExchangeStep
    PROVE  CoverInv'
<1>1. Careful /\ Sound
  BY DEF Neat, Careful, Sound
<1>2. /\ qty \in Nat /\ slQty \in Nat /\ tps \in [LegKeys -> Nat] /\ MinQty \in Nat \ {0}
  BY MinQtyAssumption DEF TypeInv, TypeOK
<1>3. ASSUME NEW o \in Orders, Fill(o)
      PROVE  CoverInv'
  <2>1. pc = "confirm"
    BY <1>3, CarefulFill DEF Neat, Careful
  <2>2. pc' = pc /\ base' = base
    BY <1>3 DEF Fill, callVars
  <2> QED BY <2>1, <2>2 DEF CoverInv
\* The position is closed.
<1>4. ASSUME NEW rest, NEW restingSl, Reduce(qty, rest, restingSl)
      PROVE  CoverInv'
  <2>1. qty' = 0 /\ pc' = pc /\ base' = base
    BY <1>2, <1>4 DEF Reduce, callVars
  <2>2. ~(qty' > 0) /\ ~(qty' >= MinQty)
    BY <1>2, <2>1
  <2> QED BY <2>1, <2>2 DEF CoverInv
<1>5. ASSUME NEW k \in LegKeys, TakeProfitHit(k)
      PROVE  CoverInv'
  <2>1. /\ tps[k] > 0
        /\ Reduce(Least(tps[k], qty), [tps EXCEPT ![k] = 0], slQty)
    BY <1>5 DEF TakeProfitHit
  <2>2. CASE Least(tps[k], qty) = qty
    BY <1>4, <2>1, <2>2
  <2>3. CASE Least(tps[k], qty) # qty
    <3>1. /\ tps[k] \in Nat /\ tps[k] < qty
          /\ TpsOf(orders) \in Nat
          /\ qty' = qty - tps[k]
          /\ TpsOf(orders)' = TpsOf(orders) - tps[k]
          /\ pc' = pc /\ orders' = orders
          /\ base' = base /\ size' = size /\ next' = next
      BY <1>1, <1>5, <2>3, LegHit DEF callVars
    <3>2. qty > 0 /\ (qty' >= MinQty => qty >= MinQty) /\ (qty < MinQty => qty' < MinQty)
      BY <1>2, <3>1
    <3>3. Orders' = Orders
      BY DEF Orders
    <3>4. pc \in {"place", "confirm"} => base = 0
      BY DEF CoverInv
    <3>5. (pc \in {"sl", "tp"}) =>
              /\ size \in 1 .. OrderQty
              /\ IF size < MinQty THEN qty' < MinQty
                 ELSE TpsOf(orders)' + Rest(size, next) = qty'
      <4> SUFFICES ASSUME pc \in {"sl", "tp"}
                   PROVE  /\ size \in 1 .. OrderQty
                          /\ IF size < MinQty THEN qty' < MinQty
                             ELSE TpsOf(orders)' + Rest(size, next) = qty'
        OBVIOUS
      <4>1. /\ size \in 1 .. OrderQty
            /\ IF size < MinQty THEN qty < MinQty
               ELSE TpsOf(orders) + Rest(size, next) = qty
        BY <3>2 DEF CoverInv
      <4>2. Rest(size, next) \in Nat
        <5>1. size \in Nat /\ next \in 1 .. 3
          BY DEF TypeInv, TypeOK
        <5> QED BY <5>1, RestFacts
      <4> QED BY <1>2, <3>1, <3>2, <4>1, <4>2
    <3>6. (pc = "idle" /\ qty' >= MinQty) => orders \in Orders /\ TpsOf(orders)' = qty'
      BY <3>1, <3>2 DEF CoverInv
    <3> QED BY <3>1, <3>3, <3>4, <3>5, <3>6 DEF CoverInv
  <2> QED BY <2>2, <2>3
<1>6. CASE StopHit
  <2>1. /\ qty > 0
        /\ Reduce(IF slFull THEN qty ELSE Least(slQty, qty), tps, 0)
        /\ qty' > 0 => Note("cut")
    BY <1>6 DEF StopHit
  <2>2. ~(qty' > 0)
    BY <2>1 DEF Note, Neat
  <2>3. (IF slFull THEN qty ELSE Least(slQty, qty)) = qty
    BY <1>2, <2>1, <2>2 DEF Reduce, Least
  <2> QED BY <1>4, <2>1, <2>3
<1>7. CASE UserCloses
  BY <1>4, <1>7 DEF UserCloses
<1> QED BY <1>3, <1>5, <1>6, <1>7 DEF ExchangeStep

LEMMA NextCoverInv ==
    ASSUME Step = 1, TypeInv, OneOrder, FlatInv, TpInv, CoverInv, [Next]_vars
    PROVE  CoverInv'
<1>1. CASE ~Neat'
  BY <1>1 DEF CoverInv
<1>2. CASE Neat'
  <2>1. Neat
    BY <1>2, MishapsStay DEF Neat
  <2>2. TypeInv' /\ TpInv'
    BY NextTypeInv, NextTpInv
  <2>3. CASE Enter \/ EngineStep
    BY <1>2, <2>1, <2>2, <2>3, CoverEngine
  <2>4. CASE ExchangeStep
    BY <1>2, <2>1, <2>4, CoverExchange
  <2>5. CASE UNCHANGED vars
    BY <2>1, <2>5 DEF CoverInv, vars, exchangeVars, callVars, TpsOf, Orders
  <2> QED BY <2>3, <2>4, <2>5 DEF Next
<1> QED BY <1>1, <1>2

\* After the placement the take-profits close all of a position that the minimum
\* volume lets be closed, however little of the order was filled, wherever the plan
\* divides it and whichever take-profits already hit; until an exit is refused, an
\* order is lost sight of or fills once its confirmation is over, or a position is
\* overlooked or cut by a stop.  Quantities are counted in the
\* precision of the instrument.
THEOREM ExitsCover ==
    ASSUME Step = 1
    PROVE  Spec => []ExitsCoverPosition
<1> DEFINE IInv == TypeInv /\ OneOrder /\ FlatInv /\ TpInv /\ CoverInv
<1>1. Init => IInv
  <2>1. Init => OneOrder
    BY OrderAssumption DEF Init, OneOrder
  <2>2. Init => FlatInv
    BY DEF Init, FlatInv
  <2>3. Init => CoverInv
    BY MinQtyAssumption DEF Init, CoverInv
  <2> QED BY <2>1, <2>2, <2>3, InitTypeInv, InitTpInv
<1>2. IInv /\ [Next]_vars => IInv'
  BY NextTypeInv, NextOneOrder, NextFlatInv, NextTpInv, NextCoverInv
<1>3. IInv => ExitsCoverPosition
  <2> SUFFICES ASSUME IInv, Neat, pc = "idle", qty >= MinQty
               PROVE  \E o \in Orders : NoOtherTps(o) /\ TpsOf(o) = qty
    BY DEF ExitsCoverPosition, Neat
  <2>1. orders \in Orders /\ TpsOf(orders) = qty
    BY DEF CoverInv
  <2>2. NoOtherTps(orders)
    BY DEF TpInv, Neat, Sound
  <2> QED BY <2>1, <2>2
<1> QED BY <1>1, <1>2, <1>3, PTL DEF Spec
================================================================================
