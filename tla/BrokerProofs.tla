------------------------------ MODULE BrokerProofs ------------------------------
(***************************************************************************)
(* Proofs about two parts of the live broker.                              *)
(*                                                                         *)
(* The take-profit orders (LegLoop) of every plan on every position: never *)
(* more than the position, never below the minimum, and the whole of a     *)
(* position that is no larger than the plan.                               *)
(*                                                                         *)
(* The token bucket of its REST client (RateLimiter, from the line below   *)
(* on): what it grants at most, for every rate, every grain of the clock   *)
(* and any number of callers.                                              *)
(***************************************************************************)
EXTENDS LegLoop, TLAPS

--------------------------------------------------------------------------------
(* Multiples of the precision.                                             *)

LEMMA ProductIsMultiple ==
    ASSUME NEW k \in Nat
    PROVE  (k * Step) % Step = 0
BY StepAssumption

LEMMA MultipleIsProduct ==
    ASSUME NEW a \in Nat, a % Step = 0
    PROVE  \E k \in Nat : a = k * Step
<1>1. a \div Step \in Nat /\ a = Step * (a \div Step) + (a % Step)
  BY StepAssumption
<1> QED BY <1>1, StepAssumption

LEMMA SumIsMultiple ==
    ASSUME NEW a \in Nat, NEW b \in Nat, a % Step = 0, b % Step = 0
    PROVE  (a + b) % Step = 0
<1>1. PICK j \in Nat : a = j * Step
  BY MultipleIsProduct
<1>2. PICK k \in Nat : b = k * Step
  BY MultipleIsProduct
<1>3. a + b = (j + k) * Step
  BY <1>1, <1>2, StepAssumption
<1>4. ((j + k) * Step) % Step = 0
  BY ProductIsMultiple
<1> QED BY <1>3, <1>4

LEMMA DifferenceIsMultiple ==
    ASSUME NEW a \in Nat, NEW b \in Nat, a % Step = 0, b % Step = 0, b <= a
    PROVE  (a - b) % Step = 0
<1>1. PICK j \in Nat : a = j * Step
  BY MultipleIsProduct
<1>2. PICK k \in Nat : b = k * Step
  BY MultipleIsProduct
<1>3. k <= j
  BY <1>1, <1>2, StepAssumption
<1>4. a - b = (j - k) * Step
  BY <1>1, <1>2, StepAssumption
<1>5. ((j - k) * Step) % Step = 0
  BY <1>3, ProductIsMultiple
<1> QED BY <1>4, <1>5

\* Rounding down keeps a quantity a quantity, and multiples as they are.
LEMMA RoundQtyBounds ==
    ASSUME NEW q \in Nat
    PROVE  /\ RoundQty(q) \in 0 .. q
           /\ RoundQty(q) % Step = 0
           /\ q % Step = 0 => RoundQty(q) = q
<1>1. q % Step \in 0 .. q
  BY StepAssumption
<1>2. q - (q % Step) = (q \div Step) * Step /\ q \div Step \in Nat
  BY StepAssumption
<1>3. ((q \div Step) * Step) % Step = 0
  BY <1>2, ProductIsMultiple
<1> QED BY <1>1, <1>2, <1>3 DEF RoundQty

\* A leg appended to at most one other is added to the sum.
LEMMA SumOfAppend ==
    ASSUME NEW s \in Seq(Nat), Len(s) \in 0 .. 1, NEW q \in Nat
    PROVE  SumOf(Append(s, q)) = SumOf(s) + q
<1>1. CASE Len(s) = 0
  <2>1. Len(Append(s, q)) = 1 /\ Append(s, q)[1] = q
    BY <1>1
  <2> QED BY <1>1, <2>1 DEF SumOf
<1>2. CASE Len(s) = 1
  <2>1. Len(Append(s, q)) = Len(s) + 1 /\ Append(s, q)[Len(s) + 1] = q
    OBVIOUS
  <2>2. Append(s, q)[1] = s[1]
    <3>1. \A i \in 1 .. Len(s) : Append(s, q)[i] = s[i]
      OBVIOUS
    <3>2. 1 \in 1 .. Len(s)
      BY <1>2
    <3> QED BY <3>1, <3>2
  <2>3. Len(Append(s, q)) = 2 /\ Append(s, q)[2] = q
    BY <1>2, <2>1
  <2> QED BY <1>2, <2>1, <2>2, <2>3 DEF SumOf
<1>3. Len(s) = 0 \/ Len(s) = 1
  OBVIOUS
<1> QED BY <1>1, <1>2, <1>3

USE StepAssumption, MinQtyAssumption, QuantitiesAssumption, ClosePctsAssumption

LEMMA ElementOf ==
    ASSUME NEW S, NEW s \in Seq(S), NEW i \in 1 .. Len(s)
    PROVE  s[i] \in S
OBVIOUS

LEMMA FirstOfTwo ==
    ASSUME NEW m \in 1 .. 2, NEW k \in 1 .. m, k # m
    PROVE  k = 1 /\ m = 2
OBVIOUS

LEMMA BelowTop ==
    ASSUME NEW m \in 1 .. 2, NEW k \in 1 .. (m + 2), k # m + 2
    PROVE  ~(k > m + 1)
<1>1. m \in Int /\ k \in Int /\ k <= m + 2
  OBVIOUS
<1> QED BY <1>1

LEMMA AtMostTwo ==
    ASSUME NEW m \in 1 .. 2, NEW n \in Nat, n <= m
    PROVE  n \in 0 .. 2
OBVIOUS

\* A leg that joins the carry leaves the rest of the plan by as much.
LEMMA LegJoinsCarry ==
    ASSUME NEW t \in Nat, NEW p \in Nat, NEW c \in Nat, NEW l \in Nat, NEW r \in Nat,
           t - p <= c + (l + r)
    PROVE  t - p <= (l + c) + r
OBVIOUS

--------------------------------------------------------------------------------
(* The plan divides the order exactly.                                     *)

Rest == CASE next > Len(plan) -> 0
          [] next = Len(plan) -> plan[next]
          [] OTHER -> SumOf(plan)

LEMMA PlanIsExact ==
    ASSUME NEW q \in Nat, q % Step = 0, q > 0, NEW pct \in Nat
    PROVE  LET p == PlanLegs(q, pct) IN
           /\ p \in Seq(Nat) /\ Len(p) \in 1 .. 2
           /\ SumOf(p) = q
           /\ \A i \in 1 .. Len(p) : p[i] > 0 /\ p[i] % Step = 0
<1> DEFINE first == Least(FirstLeg(q, pct), q)
<1>1. first \in 0 .. q /\ first % Step = 0
  <2>1. CASE pct >= 100
    BY <2>1 DEF Least, FirstLeg
  <2>2. CASE ~(pct >= 100)
    <3>1. (q * pct) \div 100 \in Nat
      OBVIOUS
    <3>2. FirstLeg(q, pct) \in Nat /\ FirstLeg(q, pct) % Step = 0
      BY <2>2, <3>1, RoundQtyBounds DEF FirstLeg
    <3> QED BY <3>2 DEF Least
  <2> QED BY <2>1, <2>2
<1>2. CASE first \in {0, q}
  <2>1. PlanLegs(q, pct) = <<q>>
    BY <1>2 DEF PlanLegs
  <2> QED BY <2>1 DEF SumOf
<1>3. CASE first \notin {0, q}
  <2>1. PlanLegs(q, pct) = <<first, q - first>>
    BY <1>3 DEF PlanLegs
  <2>2. (q - first) % Step = 0 /\ q - first > 0 /\ q - first \in Nat
    BY <1>1, <1>3, DifferenceIsMultiple
  <2> QED BY <1>1, <1>3, <2>1, <2>2 DEF SumOf
<1> QED BY <1>2, <1>3

--------------------------------------------------------------------------------
(* The inductive invariant.                                                *)

Returned == next = Len(plan) + 2

\* What the loop has built is bounded by the position and made of legs that
\* can be placed.
LegsInv ==
    /\ SumOf(acc.legs) = acc.placed
    /\ \A i \in 1 .. Len(acc.legs) : acc.legs[i] >= MinQty

\* What is not placed yet is in the carry or still to come, in whole steps; a
\* carry means that no leg as large as the minimum could be made of it.
Coverable == total <= planned /\ total % Step = 0
CoverInv ==
    /\ SumOf(plan) = planned
    /\ \A i \in 1 .. Len(plan) : plan[i] > 0 /\ plan[i] % Step = 0
    /\ acc.carry % Step = 0
    /\ Coverable =>
          /\ acc.placed % Step = 0
          /\ total - acc.placed <= acc.carry + Rest
          /\ acc.carry < MinQty \/ total - acc.placed < MinQty

ResultInv ==
    IF Returned
    THEN WithinPosition /\ EveryLegPlaceable /\ FullyCovered
    ELSE result = <<>>

IInv == TypeOK /\ LegsInv /\ CoverInv /\ ResultInv

LEMMA InitIInv == Init => IInv
<1> SUFFICES ASSUME Init PROVE IInv
  OBVIOUS
<1>1. planned \in Nat /\ planned % Step = 0 /\ planned > 0 /\ total \in Nat
  BY DEF Init
<1>2. PICK pct \in ClosePcts : plan = PlanLegs(planned, pct)
  BY DEF Init
<1>3. /\ plan \in Seq(Nat) /\ Len(plan) \in 1 .. 2
      /\ SumOf(plan) = planned
      /\ \A i \in 1 .. Len(plan) : plan[i] > 0 /\ plan[i] % Step = 0
  BY <1>1, <1>2, PlanIsExact
<1>4. TypeOK
  BY <1>1, <1>3 DEF Init, TypeOK, NoLegs
<1>5. LegsInv
  BY DEF Init, LegsInv, NoLegs, SumOf
<1>6. CoverInv
  <2>1. Rest = planned
    BY <1>1, <1>3 DEF Rest, Init, SumOf
  <2> QED BY <1>1, <1>3, <2>1 DEF CoverInv, Coverable, Init, NoLegs
<1>7. ResultInv
  BY <1>3 DEF ResultInv, Returned, Init
<1> QED BY <1>4, <1>5, <1>6, <1>7 DEF IInv

LEMMA NextLegIInv == IInv /\ NextLeg => IInv'
<1> SUFFICES ASSUME IInv, NextLeg PROVE IInv'
  OBVIOUS
<1> USE DEF IInv
<1> DEFINE leg == plan[next]
           want == leg + acc.carry
           qty == Least(RoundQty(want), total - acc.placed)
<1>1. /\ next \in 1 .. Len(plan) /\ next' = next + 1
      /\ UNCHANGED <<planned, plan, total, result>>
      /\ acc' = PlaceLeg(acc, leg, total)
  BY DEF NextLeg, TypeOK
<1>2. /\ plan \in Seq(Nat) /\ Len(plan) \in 1 .. 2
      /\ leg \in Nat /\ leg > 0 /\ leg % Step = 0
  BY <1>1 DEF TypeOK, CoverInv
<1>3. /\ acc \in [legs : Seq(Nat), carry : Nat, placed : 0 .. total]
      /\ acc.legs \in Seq(Nat) /\ acc.carry \in Nat
      /\ acc.placed \in Nat /\ acc.placed <= total /\ total \in Nat
      /\ planned \in Nat
      /\ Len(acc.legs) < next /\ Len(acc.legs) <= Len(plan)
  BY DEF TypeOK
<1>4. /\ want \in Nat /\ want % Step = 0 /\ RoundQty(want) = want
  <2>1. want \in Nat
    BY <1>2, <1>3
  <2>2. acc.carry % Step = 0
    BY DEF CoverInv
  <2>3. want % Step = 0
    BY <1>2, <1>3, <2>2, SumIsMultiple
  <2> HIDE DEF want
  <2> QED BY <2>1, <2>3, RoundQtyBounds
<1>5. qty \in Nat /\ qty <= total - acc.placed /\ qty <= want
  BY <1>3, <1>4 DEF Least
<1>6. Rest = leg + Rest' /\ Rest' \in Nat
  <2>1. CASE next = Len(plan)
    BY <1>1, <1>2, <2>1 DEF Rest
  <2>2. CASE next # Len(plan)
    <3>1. next = 1 /\ Len(plan) = 2
      BY <1>1, <1>2, <2>2, FirstOfTwo
    <3>4. plan[2] \in Nat
      <4>1. 2 \in 1 .. Len(plan)
        BY <3>1
      <4> QED BY <1>2, <4>1, ElementOf
    <3>2. Rest = plan[1] + plan[2]
      BY <3>1 DEF Rest, SumOf
    <3>3. Rest' = plan[2]
      BY <1>1, <3>1 DEF Rest
    <3> QED BY <1>2, <3>1, <3>2, <3>3, <3>4
  <2> QED BY <2>1, <2>2
<1>7. result' = <<>> /\ ResultInv'
  BY <1>1, <1>2 DEF ResultInv, Returned
<1>7a. ASSUME Coverable PROVE total - acc.placed <= want + Rest'
  <2>1. total - acc.placed <= acc.carry + Rest
    BY <1>7a DEF CoverInv
  <2>2. total - acc.placed <= acc.carry + (leg + Rest')
    BY <1>6, <2>1
  <2>3. /\ total \in Nat /\ acc.placed \in Nat /\ acc.carry \in Nat
        /\ leg \in Nat /\ Rest' \in Nat
    BY <1>2, <1>3, <1>6
  <2> HIDE DEF leg
  <2> QED BY <2>2, <2>3, LegJoinsCarry
<1>8. CASE qty < MinQty
  <2>1. acc' = [acc EXCEPT !.carry = leg + @]
    BY <1>1, <1>2, <1>8 DEF PlaceLeg
  <2>2. /\ acc'.legs = acc.legs /\ acc'.placed = acc.placed
        /\ acc'.carry = want
        /\ acc' \in [legs : Seq(Nat), carry : Nat, placed : 0 .. total]
    BY <1>2, <1>3, <1>4, <2>1
  <2>3. TypeOK'
    <3>1. Len(acc.legs) \in Nat /\ Len(acc'.legs) = Len(acc.legs)
      BY <1>3, <2>2
    <3>2. Len(acc'.legs) < next' /\ Len(acc'.legs) <= Len(plan)
      BY <1>1, <1>2, <1>3, <3>1
    <3>3. next' \in 1 .. Len(plan) + 2
      BY <1>1, <1>2
    <3> QED BY <1>1, <1>2, <1>3, <2>2, <3>2, <3>3, <1>7 DEF TypeOK
  <2>4. LegsInv'
    BY <2>2 DEF LegsInv
  <2>5. CoverInv'
    <3>1. want < MinQty \/ total - acc.placed < MinQty
      BY <1>3, <1>4, <1>8 DEF Least
    <3>2. Coverable => total - acc.placed <= want + Rest'
      BY <1>7a
    <3> QED BY <1>1, <1>4, <2>2, <3>1, <3>2 DEF CoverInv, Coverable
  <2> QED BY <2>3, <2>4, <2>5, <1>7
<1>9. CASE qty >= MinQty
  <2>1. acc' = [legs |-> Append(acc.legs, qty), carry |-> 0, placed |-> acc.placed + qty]
    BY <1>1, <1>2, <1>5, <1>9 DEF PlaceLeg
  <2>2. /\ acc'.legs = Append(acc.legs, qty) /\ acc'.carry = 0
        /\ acc'.placed = acc.placed + qty
        /\ acc' \in [legs : Seq(Nat), carry : Nat, placed : 0 .. total]
    BY <1>3, <1>5, <2>1
  <2>3. TypeOK'
    <3>1. Len(acc'.legs) = Len(acc.legs) + 1
      BY <1>3, <1>5, <2>2
    <3>2. Len(acc.legs) \in Nat
      BY <1>3
    <3>3. Len(acc'.legs) < next' /\ Len(acc'.legs) <= Len(plan)
      BY <1>1, <1>2, <1>3, <3>1, <3>2
    <3>4. next' \in 1 .. Len(plan) + 2
      BY <1>1, <1>2
    <3> QED BY <1>1, <1>2, <1>3, <2>2, <3>3, <3>4, <1>7 DEF TypeOK
  <2>4. LegsInv'
    <3>1. Len(acc.legs) \in 0 .. 1
      <4>1. Len(acc.legs) \in Nat
        BY <1>3
      <4>2. next <= 2
        BY <1>1, <1>2
      <4>3. \A m \in Nat : m < next => m \in 0 .. 1
        BY <1>1, <4>2
      <4> QED BY <1>3, <4>1, <4>3
    <3>2. SumOf(acc.legs) = acc.placed
      BY DEF LegsInv
    <3>3. SumOf(Append(acc.legs, qty)) = SumOf(acc.legs) + qty
      <4> HIDE DEF qty
      <4> QED BY <1>3, <1>5, <3>1, SumOfAppend
    <3>4. \A i \in 1 .. Len(acc'.legs) : acc'.legs[i] >= MinQty
      <4> HIDE DEF qty
      <4> QED BY <1>3, <1>5, <1>9, <2>2 DEF LegsInv
    <3> QED BY <2>2, <3>2, <3>3, <3>4 DEF LegsInv
  <2>5. CoverInv'
    <3>1. ASSUME Coverable
          PROVE  /\ (acc.placed + qty) % Step = 0
                 /\ total - (acc.placed + qty) <= Rest'
      <4>1. (total - acc.placed) % Step = 0
        BY <1>3, <3>1, DifferenceIsMultiple DEF Coverable, CoverInv
      <4>2. qty % Step = 0
        BY <1>4, <4>1 DEF Least
      <4>3. (acc.placed + qty) % Step = 0
        BY <1>3, <1>5, <3>1, <4>2, SumIsMultiple DEF CoverInv
      <4>4. total - acc.placed <= want + Rest'
        BY <1>7a, <3>1
      <4>5. qty = want \/ qty = total - acc.placed
        BY <1>4 DEF Least
      <4>6. total - (acc.placed + qty) <= Rest'
        <5> HIDE DEF qty, want
        <5> QED BY <1>3, <1>4, <1>5, <1>6, <4>4, <4>5
      <4> QED BY <4>3, <4>6
    <3>2. Coverable' <=> Coverable
      BY <1>1 DEF Coverable
    <3>3. 0 % Step = 0 /\ 0 < MinQty
      OBVIOUS
    <3>4. /\ acc'.carry % Step = 0
          /\ acc'.carry < MinQty
          /\ acc'.placed = acc.placed + qty
      BY <2>2, <3>3
    <3>6. acc'.carry + Rest' = Rest'
      <4>1. acc'.carry = 0
        BY <2>2
      <4>2. Rest' \in Nat
        BY <1>6
      <4>3. \A k \in Nat : 0 + k = k
        OBVIOUS
      <4> QED BY <4>1, <4>2, <4>3, Zenon
    <3>5. UNCHANGED <<plan, planned, total>>
      BY <1>1
    <3> HIDE DEF qty
    <3> QED BY <3>1, <3>2, <3>4, <3>5, <3>6 DEF CoverInv
  <2> QED BY <2>3, <2>4, <2>5, <1>7
<1> QED BY <1>5, <1>8, <1>9

LEMMA ReturnIInv == IInv /\ Return => IInv'
<1> SUFFICES ASSUME IInv, Return PROVE IInv'
  OBVIOUS
<1> USE DEF IInv
<1> DEFINE leftover == RoundQty(total - acc.placed)
           n == Len(acc.legs)
           dusty == 0 < leftover /\ leftover < MinQty /\ acc.legs # <<>>
           ok == /\ result' \in Seq(Nat) /\ Len(result') = n
                 /\ \A i \in 1 .. Len(result') : result'[i] >= MinQty
                 /\ SumOf(result') = IF dusty THEN acc.placed + leftover ELSE acc.placed
<1>1. /\ next = Len(plan) + 1 /\ next' = next + 1
      /\ UNCHANGED <<planned, plan, total, acc>>
      /\ result' = FoldDust(acc, total)
  BY DEF Return
<1>2. /\ plan \in Seq(Nat) /\ Len(plan) \in 1 .. 2
      /\ acc.legs \in Seq(Nat) /\ n \in 0 .. 2 /\ acc.carry \in Nat
      /\ acc.placed \in Nat /\ acc.placed <= total /\ total \in Nat
      /\ planned \in Nat
  <2>1. Len(acc.legs) \in Nat /\ Len(acc.legs) <= Len(plan) /\ Len(plan) \in 1 .. 2
    BY DEF TypeOK
  <2>2. Len(acc.legs) \in 0 .. 2
    BY <2>1, AtMostTwo
  <2> QED BY <2>2 DEF TypeOK
<1>3. leftover \in 0 .. (total - acc.placed)
  <2>1. total - acc.placed \in Nat
    BY <1>2
  <2> QED BY <2>1, RoundQtyBounds
<1>4. Rest = 0 /\ Rest' = 0
  BY <1>1, <1>2 DEF Rest
<1>5. ASSUME dusty PROVE ok
  <2>1. result' = [acc.legs EXCEPT ![n] = @ + leftover]
    BY <1>1, <1>5 DEF FoldDust
  <2>2. n \in 1 .. 2
    BY <1>2, <1>5
  <2>3. result' \in Seq(Nat) /\ Len(result') = n
    BY <1>2, <1>3, <2>1, <2>2
  <2>4. SumOf(result') = acc.placed + leftover
    <3>1. SumOf(acc.legs) = acc.placed
      BY DEF LegsInv
    <3>2. SumOf([acc.legs EXCEPT ![n] = @ + leftover]) = SumOf(acc.legs) + leftover
      <4> HIDE DEF leftover
      <4>1. CASE n = 1
        BY <1>2, <1>3, <4>1 DEF SumOf
      <4>2. CASE n = 2
        BY <1>2, <1>3, <4>2 DEF SumOf
      <4> QED BY <2>2, <4>1, <4>2
    <3> QED BY <2>1, <3>1, <3>2
  <2>5. \A i \in 1 .. Len(result') : result'[i] >= MinQty
    BY <1>2, <1>3, <2>1, <2>2, <2>3 DEF LegsInv
  <2> HIDE DEF leftover
  <2> QED BY <1>5, <2>3, <2>4, <2>5
<1>6. ASSUME ~dusty PROVE ok
  <2>1. result' = acc.legs
    BY <1>1, <1>6 DEF FoldDust
  <2>2. n \in 0 .. 2 /\ n = Len(result')
    BY <1>2, <2>1
  <2> HIDE DEF leftover
  <2> QED BY <1>2, <1>6, <2>1, <2>2 DEF LegsInv
<1>7. ok
  BY <1>5, <1>6
<1>8. TypeOK'
  <2>1. next' \in 1 .. Len(plan) + 2 /\ Len(acc.legs) < next'
    BY <1>1, <1>2 DEF TypeOK
  <2>2. result' \in Seq(Nat) /\ Len(result') = n
    BY <1>7
  <2>3. \A k \in 0 .. 2 : k <= 2
    OBVIOUS
  <2>4. Len(result') <= 2
    BY <1>2, <2>2, <2>3
  <2> QED BY <1>1, <2>1, <2>2, <2>4 DEF TypeOK
<1>9. LegsInv' /\ CoverInv'
  BY <1>1, <1>4 DEF LegsInv, CoverInv, Coverable
<1>10. ResultInv'
  <2>1. SumOf(result') <= total
    <3> HIDE DEF leftover
    <3> QED BY <1>2, <1>3, <1>7
  <2>2. ASSUME MinQty <= total, Coverable
        PROVE  SumOf(result') = total
    <3>0. total % Step = 0 /\ acc.placed % Step = 0
      BY <2>2 DEF Coverable, CoverInv
    <3>1. (total - acc.placed) % Step = 0 /\ total - acc.placed \in Nat
      <4>1. total - acc.placed \in Nat
        BY <1>2
      <4>2. (total - acc.placed) % Step = 0
        BY <1>2, <3>0, DifferenceIsMultiple
      <4> QED BY <4>1, <4>2
    <3>2. leftover = total - acc.placed
      BY <3>1, RoundQtyBounds
    <3>3. leftover < MinQty
      BY <1>2, <1>4, <2>2, <3>2 DEF CoverInv
    <3>4. acc.legs = <<>> => acc.placed = 0
      BY DEF LegsInv, SumOf
    <3> HIDE DEF leftover
    <3>5. leftover = 0 \/ dusty
      BY <1>2, <2>2, <3>2, <3>3, <3>4
    <3> QED BY <1>2, <1>7, <3>2, <3>5
  <2>3. WithinPosition' /\ EveryLegPlaceable'
    BY <1>1, <1>7, <2>1 DEF WithinPosition, EveryLegPlaceable
  <2>4. FullyCovered'
    BY <1>1, <2>2 DEF FullyCovered, Coverable
  <2> QED BY <1>1, <1>2, <2>3, <2>4 DEF ResultInv, Returned
<1> QED BY <1>8, <1>9, <1>10

\* The invariant holds in every reachable state.
THEOREM IInvHolds == Spec => []IInv
<1>1. IInv /\ [Next]_vars => IInv'
  <2> SUFFICES ASSUME IInv, [Next]_vars PROVE IInv'
    OBVIOUS
  <2>1. CASE NextLeg
    BY <2>1, NextLegIInv
  <2>2. CASE Return
    BY <2>2, ReturnIInv
  <2>3. CASE UNCHANGED vars
    BY <2>3 DEF vars, IInv, TypeOK, LegsInv, CoverInv, Coverable, Rest,
                ResultInv, Returned, WithinPosition, EveryLegPlaceable,
                FullyCovered
  <2> QED BY <2>1, <2>2, <2>3 DEF Next
<1> QED BY <1>1, InitIInv, PTL DEF Spec

\* Every variable has its type: the loop never leaves the plan.
THEOREM TypeCorrect == Spec => []TypeOK
<1>1. IInv => TypeOK
  BY DEF IInv
<1> QED BY <1>1, IInvHolds, PTL

\* For every precision, minimum, close percentage and position, the take-profits
\* of one position add up to no more than the position.
THEOREM LegsWithinPosition == Spec => []WithinPosition
<1>1. IInv => WithinPosition
  <2>1. CASE Returned
    BY <2>1 DEF IInv, ResultInv
  <2>2. CASE ~Returned
    BY <2>2 DEF IInv, ResultInv, TypeOK, WithinPosition, SumOf
  <2> QED BY <2>1, <2>2
<1> QED BY <1>1, IInvHolds, PTL

\* Every take-profit order meets the minimum of the exchange.
THEOREM LegsPlaceable == Spec => []EveryLegPlaceable
<1>1. IInv => EveryLegPlaceable
  BY DEF IInv, ResultInv, EveryLegPlaceable
<1> QED BY <1>1, IInvHolds, PTL

\* A position no larger than the planned one is covered to the last unit.
THEOREM LegsCover == Spec => []FullyCovered
<1>1. IInv => FullyCovered
  <2>0. SUFFICES ASSUME IInv PROVE FullyCovered
    OBVIOUS
  <2>1. CASE Returned
    BY <2>0, <2>1 DEF IInv, ResultInv
  <2>2. CASE ~Returned
    <3>1. next \in 1 .. Len(plan) + 2 /\ Len(plan) \in 1 .. 2
      BY <2>0 DEF IInv, TypeOK
    <3>2. ~(next > Len(plan) + 1)
      BY <2>2, <3>1, BelowTop DEF Returned
    <3> QED BY <3>2 DEF FullyCovered
  <2> QED BY <2>1, <2>2
<1> QED BY <1>1, IInvHolds, PTL

--------------------------------------------------------------------------------
(* The token bucket.                                                       *)

CONSTANTS Rate, Grain, MaxTime
VARIABLES now, allowance, last, asleep, wake, granted

Limiter == INSTANCE RateLimiter

\* A sleeper will have its token when it wakes; what is granted and what is left
\* in the bucket never exceed the size of the bucket, the time the refills have
\* counted, and the time since, which the next refill counts once more.
BucketInv ==
    /\ Limiter!TypeOK
    /\ last <= now
    /\ asleep => /\ allowance < Grain
                 /\ wake = last + (Grain - allowance)
                 /\ Grain * granted + allowance <= Rate * Grain + 2 * last
    /\ ~asleep => Grain * granted + allowance <= Rate * Grain + last + now

\* The first token of a call is worth one grain.
LEMMA OneMore ==
    ASSUME NEW k \in Nat, NEW n \in Nat
    PROVE  k * (n + 1) = k * n + k
    OBVIOUS

LEMMA Times ==
    ASSUME NEW k \in Nat, NEW n \in Nat
    PROVE  k * n \in Nat
    OBVIOUS

\* The refill neither exceeds the bucket nor what is there and the time gone by.
LEMMA RefillBounded ==
    ASSUME Limiter!TypeOK, last <= now, Rate * Grain \in Nat
    PROVE  /\ Limiter!Refilled \in 0 .. Rate * Grain
           /\ Limiter!Refilled <= allowance + (now - last)
    BY DEF Limiter!TypeOK, Limiter!Refilled, Limiter!Least

LEMMA BucketInvInductive ==
    ASSUME Rate \in Nat, Grain \in Nat
    PROVE  /\ Limiter!Init => BucketInv
           /\ BucketInv /\ [Limiter!Next]_Limiter!vars => BucketInv'
<1>1. PICK cap \in Nat : cap = Rate * Grain
  BY Times
<1>2. Limiter!Init => BucketInv
  <2> SUFFICES ASSUME Limiter!Init PROVE BucketInv
    OBVIOUS
  <2>1. Grain * granted = 0
    BY DEF Limiter!Init
  <2>2. allowance = cap
    BY <1>1 DEF Limiter!Init
  <2>3. Limiter!TypeOK
    <3>1. allowance \in 0 .. cap
      BY <2>2
    <3>2. allowance \in 0 .. Rate * Grain
      BY <1>1, <3>1, Zenon
    <3> QED
      BY <3>2 DEF Limiter!Init, Limiter!TypeOK
  <2>4. Grain * granted + allowance <= Rate * Grain + last + now
    BY <1>1, <2>1, <2>2 DEF Limiter!Init
  <2> QED
    BY <2>3, <2>4 DEF Limiter!Init, BucketInv
<1>3. ASSUME BucketInv, [Limiter!Next]_Limiter!vars PROVE BucketInv'
  <2>1. PICK got \in Nat : got = Grain * granted
    BY <1>3, Times DEF BucketInv, Limiter!TypeOK
  <2>2. Grain * (granted + 1) = got + Grain
    BY <1>3, <2>1, OneMore DEF BucketInv, Limiter!TypeOK
  <2>3. /\ Limiter!Refilled \in 0 .. cap
        /\ Limiter!Refilled <= allowance + (now - last)
    BY <1>1, <1>3, RefillBounded DEF BucketInv
  <2>4. CASE Limiter!Acquire
    BY <1>1, <1>3, <2>1, <2>2, <2>3, <2>4 DEF BucketInv, Limiter!TypeOK, Limiter!Acquire
  <2>5. CASE Limiter!Sleep
    BY <1>1, <1>3, <2>1, <2>3, <2>5 DEF BucketInv, Limiter!TypeOK, Limiter!Sleep
  <2>6. CASE Limiter!Wake
    <3>1. Grain * granted' = got + Grain
      BY <2>2, <2>6 DEF Limiter!Wake
    <3>2. /\ got + allowance <= cap + 2 * last
          /\ wake = last + (Grain - allowance)
          /\ now >= wake
      BY <1>1, <1>3, <2>1, <2>6 DEF BucketInv, Limiter!Wake
    <3>3. now \in Nat /\ last \in Nat /\ allowance \in Nat
      BY <1>3 DEF BucketInv, Limiter!TypeOK
    <3>4. got + Grain <= cap + last + now
      BY <3>2, <3>3
    <3>5. last' = last /\ now' = now /\ allowance' = 0 /\ asleep' = FALSE
      BY <2>6 DEF Limiter!Wake
    <3>6. Limiter!TypeOK'
      <4>1. allowance' \in 0 .. cap
        BY <3>5
      <4>2. allowance' \in 0 .. Rate * Grain
        BY <1>1, <4>1, Zenon
      <4>3. now' \in Nat /\ last' \in Nat /\ wake' \in Nat
        BY <1>3, <2>6 DEF BucketInv, Limiter!TypeOK, Limiter!Wake
      <4>4. granted' \in Nat
        BY <1>3, <2>6 DEF BucketInv, Limiter!TypeOK, Limiter!Wake
      <4> QED
        BY <3>5, <4>2, <4>3, <4>4 DEF Limiter!TypeOK
    <3> QED
      BY <1>1, <1>3, <3>1, <3>3, <3>4, <3>5, <3>6 DEF BucketInv
  <2>7. CASE Limiter!Cancel
    <3>1. /\ got + allowance <= cap + 2 * last
          /\ last <= now /\ last \in Nat /\ now \in Nat /\ allowance \in Nat
      BY <1>1, <1>3, <2>1, <2>7 DEF BucketInv, Limiter!TypeOK, Limiter!Cancel
    <3>2. got + allowance <= cap + last + now
      BY <3>1
    <3>3. Limiter!TypeOK'
      BY <1>1, <1>3, <2>7 DEF BucketInv, Limiter!TypeOK, Limiter!Cancel
    <3> QED
      BY <1>1, <2>1, <2>7, <3>1, <3>2, <3>3 DEF BucketInv, Limiter!Cancel
  <2>8. CASE Limiter!Tick
    BY <1>1, <1>3, <2>1, <2>8 DEF BucketInv, Limiter!TypeOK, Limiter!Tick
  <2>9. CASE UNCHANGED Limiter!vars
    BY <1>3, <2>9 DEF BucketInv, Limiter!TypeOK, Limiter!vars
  <2> QED
    BY <1>3, <2>4, <2>5, <2>6, <2>7, <2>8, <2>9 DEF Limiter!Next
<1> QED
  BY <1>2, <1>3

\* Whatever the callers do and however late a sleep ends, acquire returns at most
\* as often as the bucket is large plus twice the rate times the time gone by: the
\* bound the limiter of rest.py:41 keeps, where a token bucket keeps half of it.
THEOREM TwiceTheRate ==
    ASSUME Rate \in Nat, Grain \in Nat
    PROVE  Limiter!Spec => []Limiter!AtMostTwice
<1>1. BucketInv => Limiter!AtMostTwice
  <2> SUFFICES ASSUME BucketInv PROVE Limiter!AtMostTwice
    OBVIOUS
  <2>1. Grain * granted \in Nat /\ Rate * Grain \in Nat
    BY Times DEF BucketInv, Limiter!TypeOK
  <2> QED
    BY <2>1 DEF BucketInv, Limiter!TypeOK, Limiter!AtMostTwice
<1>2. Limiter!Init => BucketInv
  BY BucketInvInductive
<1>3. BucketInv /\ [Limiter!Next]_Limiter!vars => BucketInv'
  BY BucketInvInductive
<1> QED
  BY <1>1, <1>2, <1>3, PTL DEF Limiter!Spec
================================================================================
