--------------------------- MODULE SimTradingProofs ---------------------------
(***************************************************************************)
(* Proofs about SimTrading: type correctness, the bounds on the margin and *)
(* on the planned loss, that stops only tighten, that entries are spaced   *)
(* and that a fill changes the equity by its fee, for every strategy       *)
(* parameter, every price and every length of a run.  The fractions of     *)
(* Fractions come first: Is(a, n, d) says that a is n / d, and each        *)
(* operation is characterised by the n and d of what it is applied to.     *)
(***************************************************************************)
EXTENDS SimTrading, WellFoundedInduction, TLAPS

--------------------------------------------------------------------------------
(* Integers.                                                               *)

\* Products, for the provers to take as names.
LEMMA Product ==
    ASSUME NEW x \in Int, NEW y \in Int, NEW z \in Int
    PROVE  /\ x * y \in Int /\ x * y = y * x
           /\ (x * y) * z = x * (y * z)
           /\ (x * y) * z = (x * z) * y
           /\ (x + y) * z = x * z + y * z
           /\ (-x) * y = -(x * y)
OBVIOUS

LEMMA Positive ==
    ASSUME NEW x \in Nat \ {0}, NEW y \in Nat \ {0}
    PROVE  x * y \in Nat \ {0}
OBVIOUS

\* A positive factor is cancelled.
LEMMA Cancel ==
    ASSUME NEW x \in Int, NEW y \in Int, NEW k \in Nat \ {0}
    PROVE  /\ x * k = y * k => x = y
           /\ x * k <= y * k <=> x <= y
OBVIOUS

\* A set of numbers that is not empty has a least one.
LEMMA HasLeast ==
    ASSUME NEW S \in SUBSET Nat, S # {}
    PROVE  \E e \in S : \A f \in S : e <= f
<1> DEFINE R == OpToRel(<, Nat)
<1>1. IsWellFoundedOn(R, Nat)
  BY NatLessThanWellFounded, Zenon
<1>2. \A y, x \in Nat : y < x => <<y, x>> \in R
  <2> SUFFICES ASSUME NEW y \in Nat, NEW x \in Nat, y < x PROVE <<y, x>> \in R
    BY Zenon
  <2> DEFINE p == <<y, x>>
  <2>1. p \in Nat \X Nat
    OBVIOUS
  <2>2. p[1] = y /\ p[2] = x
    OBVIOUS
  <2>3. p[1] < p[2]
    BY <2>2, Zenon
  <2> HIDE DEF p
  <2>4. p \in R
    BY <2>1, <2>3, Zenon DEF OpToRel
  <2> QED BY <2>4, Zenon DEF p
<1> HIDE DEF R
<1>3. PICK e \in S : \A f \in S : ~(<<f, e>> \in R)
  BY <1>1, WFMin, Zenon
<1>4. \A f \in S : ~(f < e)
  BY <1>2, <1>3, Zenon
<1> QED BY <1>4

\* Quotient and remainder.
LEMMA Division ==
    ASSUME NEW n \in Int, NEW d \in Nat \ {0}
    PROVE  \E q \in Int, r \in 0 .. d - 1 :
              q = n \div d /\ r = n % d /\ n = q * d + r
<1>1. PICK q \in Int, r \in Int : q = n \div d /\ r = n % d
  OBVIOUS
<1>2. r \in 0 .. d - 1 /\ n = q * d + r
  BY <1>1
<1> QED BY <1>1, <1>2, Zenon

LEMMA WholeQuotient ==
    ASSUME NEW q \in Int, NEW d \in Nat \ {0}
    PROVE  (q * d) \div d = q /\ (q * d) % d = 0
OBVIOUS

--------------------------------------------------------------------------------
(* Fractions: a is A / D.                                                  *)

\* n / d can be written with the denominator e.
Over(n, d, e) == \E m \in Int : m * d = n * e

LEMMA ReducesIsOver ==
    ASSUME NEW n \in Int, NEW d \in Nat \ {0}, NEW e \in 1 .. d, Reduces(n, d, e)
    PROVE  \E m \in Int : m = n \div (d \div e) /\ m * d = n * e
<1>1. PICK k \in Int : k = d \div e /\ d = k * e /\ n % k = 0
  <2>1. PICK q \in Int, r \in 0 .. e - 1 :
           q = d \div e /\ r = d % e /\ d = q * e + r
    BY Division
  <2>2. r = 0 /\ n % q = 0
    BY <2>1, Zenon DEF Reduces
  <2>3. d = q * e + r
    BY <2>1, Zenon
  <2>4. q * e \in Int
    BY Product
  <2>5. d = q * e
    BY <2>2, <2>3, <2>4
  <2> QED BY <2>1, <2>2, <2>5, Zenon
<1>2. d = k * e
  BY <1>1, Zenon
<1>3. k \in Nat \ {0}
  BY <1>2
<1>4. PICK m \in Int : m = n \div k /\ n = m * k
  <2>1. PICK q \in Int, r \in 0 .. k - 1 :
           q = n \div k /\ r = n % k /\ n = q * k + r
    BY <1>3, Division
  <2>2. r = 0
    BY <1>1, <2>1, Zenon
  <2>3. n = q * k + r
    BY <2>1, Zenon
  <2>4. q * k \in Int
    BY Product
  <2>5. n = q * k
    BY <2>2, <2>3, <2>4
  <2> QED BY <2>1, <2>5, Zenon
<1>5. n = m * k
  BY <1>4, Zenon
<1>6. m * d = n * e
  BY <1>2, <1>5, Product
<1> QED BY <1>1, <1>4, <1>6, Zenon

\* The least denominator divides every other.
LEMMA LeastReduces ==
    ASSUME NEW n \in Int, NEW d \in Nat \ {0}, NEW e \in Nat \ {0},
           Over(n, d, e), \A f \in Nat \ {0} : Over(n, d, f) => e <= f
    PROVE  e \in 1 .. d /\ Reduces(n, d, e)
<1>1. PICK m \in Int : m * d = n * e
  BY DEF Over
<1>2. e <= d
  BY DEF Over
<1>3. PICK q \in Int, r \in 0 .. e - 1 :
         q = d \div e /\ r = d % e /\ d = q * e + r
  BY Division
<1>4. d = q * e + r
  BY <1>3, Zenon
<1>5. r = 0
  <2> DEFINE k == n - q * m
  <2>1. k \in Int
    BY Product
  <2>2. k * d = n * r
    <3>1. (q * m) * d = q * (m * d)
      BY Product
    <3>2. (q * m) * d = q * (n * e)
      BY <1>1, <3>1
    <3>3. q * (n * e) = n * (q * e)
      BY Product
    <3>4. n * d = n * (q * e) + n * r
      BY <1>4, Product
    <3>5. k * d = n * d - (q * m) * d
      BY Product
    <3>6. PICK a \in Int, b \in Int, c \in Int, g \in Int :
             a = n * d /\ b = (q * m) * d /\ c = n * (q * e) /\ g = n * r
      BY Product
    <3> QED BY <3>2, <3>3, <3>4, <3>5, <3>6
  <2>3. Over(n, d, r)
    BY <2>1, <2>2 DEF Over
  <2> QED BY <2>3
<1>6. d = q * e /\ q \in Nat \ {0}
  <2>1. q * e \in Int
    BY Product
  <2>2. d = q * e
    BY <1>5, <1>4, <2>1
  <2> QED BY <2>2
<1>7. n = m * q
  <2>1. n * e = (m * q) * e
    BY <1>1, <1>6, Product
  <2>2. m * q \in Int
    BY Product
  <2> QED BY <2>1, <2>2, Cancel
<1>8. n % q = 0
  BY <1>6, <1>7, WholeQuotient
<1>9. d % e = 0 /\ d \div e = q
  BY <1>3, <1>5, Zenon
<1>10. Reduces(n, d, e)
  BY <1>8, <1>9, Zenon DEF Reduces
<1> QED BY <1>2, <1>10

FractionSet == [num : Int, den : Nat \ {0}]
Is(a, n, d) == a.num * d = n * a.den

\* Frac(n, d) is n / d, with the least denominator there is.
LEMMA FracIsLeast ==
    ASSUME NEW n \in Int, NEW d \in Nat \ {0}
    PROVE  /\ Frac(n, d) \in FractionSet /\ Is(Frac(n, d), n, d)
           /\ \A e \in Nat \ {0} : Over(n, d, e) => Frac(n, d).den <= e
<1> DEFINE dens == {e \in Nat \ {0} : Over(n, d, e)}
           Chosen(e) == Reduces(n, d, e) /\ \A f \in 1 .. e - 1 : ~Reduces(n, d, f)
<1>1. n * d = n * d /\ d \in dens
  BY DEF Over
<1>2. dens \in SUBSET Nat /\ dens # {}
  BY <1>1
<1>3. PICK e \in dens : \A f \in dens : e <= f
  <2> HIDE DEF dens
  <2> QED BY <1>2, HasLeast
<1>4. e \in 1 .. d /\ Reduces(n, d, e)
  BY <1>3, LeastReduces
<1>5. \A f \in 1 .. d : Reduces(n, d, f) => e <= f
  <2>1. ASSUME NEW f \in 1 .. d, Reduces(n, d, f) PROVE e <= f
    <3>1. PICK m \in Int : m * d = n * f
      BY <2>1, ReducesIsOver
    <3>2. Over(n, d, f)
      BY <3>1, Zenon DEF Over
    <3>3. f \in dens
      BY <3>2
    <3> QED BY <1>3, <3>3
  <2> QED BY <2>1
<1>6. Chosen(e)
  <2>1. ASSUME NEW f \in 1 .. e - 1 PROVE ~Reduces(n, d, f)
    <3>1. f \in 1 .. d /\ ~(e <= f)
      BY <1>4
    <3> QED BY <1>5, <3>1
  <2> QED BY <1>4, <2>1
<1>7. \A f \in 1 .. d : Chosen(f) => f = e
  <2>1. ASSUME NEW f \in 1 .. d, Chosen(f) PROVE f = e
    <3>1. e <= f
      BY <1>5, <2>1
    <3>2. ~(e \in 1 .. f - 1)
      BY <1>4, <2>1
    <3> QED BY <1>4, <3>1, <3>2
  <2> QED BY <2>1
<1>8. (CHOOSE f \in 1 .. d : Chosen(f)) = e
  <2> HIDE DEF Chosen
  <2> QED BY <1>4, <1>6, <1>7
<1>9. Frac(n, d) = [num |-> n \div (d \div e), den |-> e]
  BY <1>8 DEF Frac
<1>10. PICK m \in Int : m = n \div (d \div e) /\ m * d = n * e
  BY <1>4, ReducesIsOver
<1>11. Frac(n, d) = [num |-> m, den |-> e]
  BY <1>9, <1>10, Zenon
<1> QED BY <1>3, <1>10, <1>11 DEF FractionSet, Is

\* The least fractions: equal as fractions, equal as records.
Lowest == {a \in FractionSet : Frac(a.num, a.den) = a}

\* Values that agree with a third agree.
LEMMA SameRatio ==
    ASSUME NEW a \in Int, NEW b \in Nat \ {0}, NEW n \in Int, NEW d \in Nat \ {0},
           NEW m \in Int, NEW e \in Nat \ {0},
           a * d = n * b, n * e = m * d
    PROVE  a * e = m * b
<1>1. (a * e) * d = (a * d) * e
  BY Product
<1>2. (a * d) * e = (n * e) * b
  BY Product
<1>3. (n * e) * b = (m * b) * d
  BY Product
<1>4. a * e \in Int /\ m * b \in Int
  BY Product
<1> QED BY <1>1, <1>2, <1>3, <1>4, Cancel

LEMMA SameFrac ==
    ASSUME NEW n \in Int, NEW d \in Nat \ {0}, NEW m \in Int, NEW e \in Nat \ {0},
           n * e = m * d
    PROVE  Frac(n, d) = Frac(m, e)
<1>1. PICK a \in FractionSet :
         a = Frac(n, d) /\ Is(a, n, d)
         /\ \A f \in Nat \ {0} : Over(n, d, f) => a.den <= f
  BY FracIsLeast
<1>2. PICK b \in FractionSet :
         b = Frac(m, e) /\ Is(b, m, e)
         /\ \A f \in Nat \ {0} : Over(m, e, f) => b.den <= f
  BY FracIsLeast
<1>3. /\ a.num \in Int /\ a.den \in Nat \ {0} /\ a = [num |-> a.num, den |-> a.den]
      /\ b.num \in Int /\ b.den \in Nat \ {0} /\ b = [num |-> b.num, den |-> b.den]
  BY DEF FractionSet
<1>4. a.num * d = n * a.den /\ b.num * e = m * b.den
  BY <1>1, <1>2 DEF Is
<1>5. a.num * e = m * a.den
  BY <1>3, <1>4, SameRatio
<1>6. b.num * d = n * b.den
  BY <1>3, <1>4, SameRatio
<1>7. b.den <= a.den
  BY <1>2, <1>3, <1>5 DEF Over
<1>8. a.den <= b.den
  BY <1>1, <1>3, <1>6 DEF Over
<1>9. a.den = b.den
  BY <1>3, <1>7, <1>8
<1>10. a.num = b.num
  BY <1>3, <1>4, <1>6, <1>9, Cancel
<1> QED BY <1>1, <1>2, <1>3, <1>9, <1>10

LEMMA FracIs ==
    ASSUME NEW n \in Int, NEW d \in Nat \ {0}
    PROVE  Frac(n, d) \in Lowest /\ Is(Frac(n, d), n, d)
<1>1. PICK a \in FractionSet : a = Frac(n, d) /\ Is(a, n, d)
  BY FracIsLeast
<1>2. a.num \in Int /\ a.den \in Nat \ {0} /\ a.num * d = n * a.den
  BY <1>1 DEF FractionSet, Is
<1>3. Frac(a.num, a.den) = a
  BY <1>1, <1>2, SameFrac
<1> QED BY <1>1, <1>3 DEF Lowest

\* Two of the same value are one.
LEMMA IsUnique ==
    ASSUME NEW a \in Lowest, NEW b \in Lowest, NEW n \in Int, NEW d \in Nat \ {0},
           Is(a, n, d), Is(b, n, d)
    PROVE  a = b
<1>1. /\ a.num \in Int /\ a.den \in Nat \ {0} /\ a.num * d = n * a.den
      /\ b.num \in Int /\ b.den \in Nat \ {0} /\ b.num * d = n * b.den
  BY DEF Lowest, FractionSet, Is
<1>2. Frac(a.num, a.den) = Frac(n, d)
  BY <1>1, SameFrac
<1>3. Frac(b.num, b.den) = Frac(n, d)
  BY <1>1, SameFrac
<1> QED BY <1>2, <1>3 DEF Lowest

\* The terms may be any that have the value.
LEMMA IsOther ==
    ASSUME NEW a \in FractionSet, NEW n \in Int, NEW d \in Nat \ {0},
           NEW m \in Int, NEW e \in Nat \ {0},
           Is(a, n, d), n * e = m * d
    PROVE  Is(a, m, e)
<1>1. PICK x \in Int, y \in Nat \ {0} : x = a.num /\ y = a.den
  BY DEF FractionSet
<1>2. x * d = n * y
  BY <1>1 DEF Is
<1>3. x * e = m * y
  BY <1>2, SameRatio
<1> QED BY <1>1, <1>3, Zenon DEF Is

LEMMA LowestIs ==
    ASSUME NEW a \in Lowest
    PROVE  a \in FractionSet /\ a.num \in Int /\ a.den \in Nat \ {0} /\ Is(a, a.num, a.den)
BY Product DEF Lowest, FractionSet, Is

LEMMA WholeIs ==
    ASSUME NEW n \in Int
    PROVE  Whole(n) \in Lowest /\ Is(Whole(n), n, 1)
<1>1. PICK a \in FractionSet :
         a = Frac(n, 1) /\ Is(a, n, 1)
         /\ \A f \in Nat \ {0} : Over(n, 1, f) => a.den <= f
  BY FracIsLeast
<1>2. a.num \in Int /\ a.den \in Nat \ {0} /\ a = [num |-> a.num, den |-> a.den]
  BY DEF FractionSet
<1>3. Over(n, 1, 1)
  BY DEF Over
<1>4. a.den = 1
  BY <1>1, <1>2, <1>3
<1>5. a.num = n
  BY <1>1, <1>2, <1>4 DEF Is
<1>6. a = Whole(n)
  BY <1>2, <1>4, <1>5 DEF Whole
<1> QED BY <1>1, <1>6, FracIs

\* Both terms times k.
LEMMA ScaledIs ==
    ASSUME NEW a \in FractionSet, NEW n \in Int, NEW d \in Nat \ {0}, NEW k \in Nat \ {0},
           Is(a, n, d)
    PROVE  n * k \in Int /\ d * k \in Nat \ {0} /\ Is(a, n * k, d * k)
<1>1. a.num \in Int /\ a.den \in Nat \ {0} /\ a.num * d = n * a.den
  BY DEF FractionSet, Is
<1>2. a.num * (d * k) = (n * a.den) * k
  BY <1>1, Product
<1>3. (n * a.den) * k = (n * k) * a.den
  BY <1>1, Product
<1> QED BY <1>2, <1>3, Product, Positive DEF Is

LEMMA SumIs ==
    ASSUME NEW a \in FractionSet, NEW b \in FractionSet,
           NEW n \in Int, NEW m \in Int, NEW d \in Nat \ {0},
           Is(a, n, d), Is(b, m, d)
    PROVE  (a (+) b) \in Lowest /\ Is(a (+) b, n + m, d)
<1>1. /\ a.num \in Int /\ a.den \in Nat \ {0} /\ a.num * d = n * a.den
      /\ b.num \in Int /\ b.den \in Nat \ {0} /\ b.num * d = m * b.den
  BY DEF FractionSet, Is
<1>2. PICK r \in FractionSet : r = Frac(a.den, b.den) /\ Is(r, a.den, b.den)
  BY <1>1, FracIsLeast
<1>3. r.num \in Int /\ r.den \in Nat \ {0} /\ r.num * b.den = a.den * r.den
  BY <1>2 DEF FractionSet, Is
<1>4. PICK M \in Nat \ {0} : M = a.den * r.den
  BY <1>1, <1>3, Positive
<1>5. PICK x \in Int, y \in Int : x = a.num * r.den /\ y = b.num * r.num
  BY <1>1, <1>3, Product
<1>6. x * d = n * M
  <2>1. x * d = (a.num * d) * r.den
    BY <1>1, <1>3, <1>5, Product
  <2>2. (n * a.den) * r.den = n * M
    BY <1>1, <1>3, <1>4, Product
  <2> QED BY <1>1, <2>1, <2>2
<1>7. y * d = m * M
  <2>1. y * d = (b.num * d) * r.num
    BY <1>1, <1>3, <1>5, Product
  <2>2. (m * b.den) * r.num = m * (r.num * b.den)
    BY <1>1, <1>3, Product
  <2> QED BY <1>1, <1>3, <1>4, <2>1, <2>2
<1>8. (x + y) * d = (n + m) * M
  BY <1>6, <1>7, Product
<1>9. PICK c \in Lowest : c = Frac(x + y, M) /\ Is(c, x + y, M)
  BY FracIs
<1>10. Is(c, n + m, d)
  <2>1. c \in FractionSet
    BY DEF Lowest
  <2>2. x + y \in Int /\ n + m \in Int
    OBVIOUS
  <2> QED BY <1>8, <1>9, <2>1, <2>2, IsOther
<1>11. a (+) b = c
  BY <1>2, <1>4, <1>5, <1>9, Zenon DEF (+)
<1> QED BY <1>10, <1>11

LEMMA MinusIs ==
    ASSUME NEW a \in FractionSet, NEW n \in Int, NEW d \in Nat \ {0}, Is(a, n, d)
    PROVE  Minus(a) \in FractionSet /\ Is(Minus(a), -n, d)
<1>1. a.num \in Int /\ a.den \in Nat \ {0} /\ a.num * d = n * a.den
  BY DEF FractionSet, Is
<1>2. Minus(a) = [num |-> -a.num, den |-> a.den]
  BY DEF Minus, FractionSet
<1>3. (-a.num) * d = (-n) * a.den
  BY <1>1, Product
<1> QED BY <1>1, <1>2, <1>3 DEF FractionSet, Is

LEMMA DifferenceIs ==
    ASSUME NEW a \in FractionSet, NEW b \in FractionSet,
           NEW n \in Int, NEW m \in Int, NEW d \in Nat \ {0},
           Is(a, n, d), Is(b, m, d)
    PROVE  (a (-) b) \in Lowest /\ Is(a (-) b, n - m, d)
<1>1. Minus(b) \in FractionSet /\ Is(Minus(b), -m, d)
  BY MinusIs
<1>2. -m \in Int /\ n + (-m) = n - m
  OBVIOUS
<1>3. (a (+) Minus(b)) \in Lowest /\ Is(a (+) Minus(b), n + (-m), d)
  BY <1>1, <1>2, SumIs
<1> QED BY <1>2, <1>3 DEF (-)

LEMMA TimesIs ==
    ASSUME NEW a \in FractionSet, NEW b \in FractionSet,
           NEW n \in Int, NEW m \in Int, NEW d \in Nat \ {0}, NEW e \in Nat \ {0},
           Is(a, n, d), Is(b, m, e)
    PROVE  (a (.) b) \in Lowest /\ Is(a (.) b, n * m, d * e)
<1>1. /\ a.num \in Int /\ a.den \in Nat \ {0} /\ a.num * d = n * a.den
      /\ b.num \in Int /\ b.den \in Nat \ {0} /\ b.num * e = m * b.den
  BY DEF FractionSet, Is
<1>2. PICK x \in Int, y \in Nat \ {0} : x = a.num * b.num /\ y = a.den * b.den
  BY <1>1, Product, Positive
<1>3. PICK c \in Lowest : c = Frac(x, y) /\ Is(c, x, y)
  BY FracIs
<1>4. x * (d * e) = (n * m) * y
  <2>1. (a.num * b.num) * (d * e) = (a.num * d) * (b.num * e)
    BY <1>1
  <2>2. (n * a.den) * (m * b.den) = (n * m) * (a.den * b.den)
    BY <1>1
  <2> QED BY <1>1, <1>2, <2>1, <2>2, Zenon
<1>5. Is(c, n * m, d * e)
  <2>1. PICK u \in Int, v \in Nat \ {0} : u = n * m /\ v = d * e
    BY Product, Positive
  <2>2. x * v = u * y
    BY <1>4, <2>1, Zenon
  <2>3. c \in FractionSet
    BY DEF Lowest
  <2>4. Is(c, u, v)
    BY <1>3, <2>2, <2>3, IsOther
  <2> QED BY <2>1, <2>4, Zenon
<1>6. a (.) b = c
  BY <1>2, <1>3, Zenon DEF (.)
<1> QED BY <1>5, <1>6

LEMMA TimesWhole ==
    ASSUME NEW a \in FractionSet, NEW n \in Int, NEW d \in Nat \ {0}, Is(a, n, d),
           NEW k \in Int
    PROVE  (a (.) Whole(k)) \in Lowest /\ Is(a (.) Whole(k), n * k, d)
<1>1. Whole(k) \in FractionSet /\ Is(Whole(k), k, 1)
  BY WholeIs, LowestIs
<1>2. (a (.) Whole(k)) \in Lowest /\ Is(a (.) Whole(k), n * k, d * 1)
  BY <1>1, TimesIs
<1>3. d * 1 = d
  OBVIOUS
<1> QED BY <1>2, <1>3, Zenon

\* Parts of a whole number of equal parts.
LEMMA OverWhole ==
    ASSUME NEW a \in FractionSet, NEW n \in Int, NEW d \in Nat \ {0}, Is(a, n, d),
           NEW k \in Nat \ {0}
    PROVE  (a (/) Whole(k)) \in Lowest /\ Is(a (/) Whole(k), n, d * k)
<1>1. a.num \in Int /\ a.den \in Nat \ {0} /\ a.num * d = n * a.den
  BY DEF FractionSet, Is
<1>2. PICK y \in Nat \ {0}, v \in Nat \ {0} : y = a.den * k /\ v = d * k
  BY <1>1, Positive
<1>3. PICK c \in Lowest : c = Frac(a.num, y) /\ Is(c, a.num, y)
  BY <1>1, FracIs
<1>4. a.num * v = n * y
  <2>1. a.num * (d * k) = (n * a.den) * k
    BY <1>1, Product
  <2>2. (n * a.den) * k = n * (a.den * k)
    BY <1>1, Product
  <2> QED BY <1>2, <2>1, <2>2, Zenon
<1>5. Is(c, n, v)
  <2>1. c \in FractionSet
    BY DEF Lowest
  <2> QED BY <1>1, <1>3, <1>4, <2>1, IsOther
<1>6. a (/) Whole(k) = Frac(a.num * 1, a.den * k)
  BY DEF (/), Whole
<1>7. a.num * 1 = a.num
  BY <1>1
<1> QED BY <1>2, <1>3, <1>5, <1>6, <1>7, Zenon

LEMMA AtMostIs ==
    ASSUME NEW a \in FractionSet, NEW b \in FractionSet,
           NEW n \in Int, NEW m \in Int, NEW d \in Nat \ {0}, NEW e \in Nat \ {0},
           Is(a, n, d), Is(b, m, e)
    PROVE  a \preceq b <=> n * e <= m * d
<1>1. /\ a.num \in Int /\ a.den \in Nat \ {0} /\ a.num * d = n * a.den
      /\ b.num \in Int /\ b.den \in Nat \ {0} /\ b.num * e = m * b.den
  BY DEF FractionSet, Is
<1>2. PICK x \in Int, y \in Int, u \in Int, v \in Int :
         x = a.num * b.den /\ y = b.num * a.den /\ u = n * e /\ v = m * d
  BY <1>1, Product
<1>3. PICK k \in Nat \ {0}, l \in Nat \ {0} : k = d * e /\ l = a.den * b.den
  BY <1>1, Positive
<1>4. x * k = u * l
  <2>1. (a.num * b.den) * (d * e) = (a.num * d) * (b.den * e)
    BY <1>1
  <2>2. (n * a.den) * (b.den * e) = (n * e) * (a.den * b.den)
    BY <1>1
  <2> QED BY <1>1, <1>2, <1>3, <2>1, <2>2, Zenon
<1>5. y * k = v * l
  <2>1. (b.num * a.den) * (d * e) = (b.num * e) * (a.den * d)
    BY <1>1
  <2>2. (m * b.den) * (a.den * d) = (m * d) * (a.den * b.den)
    BY <1>1
  <2> QED BY <1>1, <1>2, <1>3, <2>1, <2>2, Zenon
<1>6. x <= y <=> x * k <= y * k
  BY Cancel
<1>7. u <= v <=> u * l <= v * l
  BY Cancel
<1>8. a \preceq b <=> x <= y
  BY <1>2, Zenon DEF \preceq
<1>9. n * e <= m * d <=> u <= v
  BY <1>2, Zenon
<1> QED BY <1>4, <1>5, <1>6, <1>7, <1>8, <1>9, Zenon

LEMMA AbsoluteIs ==
    ASSUME NEW a \in FractionSet, NEW n \in Int, NEW d \in Nat \ {0}, Is(a, n, d)
    PROVE  Absolute(a) \in FractionSet /\ Is(Absolute(a), Magnitude(n), d)
<1>1. a.num \in Int /\ a.den \in Nat \ {0} /\ a.num * d = n * a.den
  BY DEF FractionSet, Is
<1>2. Absolute(a) = [num |-> Magnitude(a.num), den |-> a.den]
  BY DEF Absolute, FractionSet
<1>3. Magnitude(a.num) \in Int
  BY <1>1 DEF Magnitude
<1>4. (-a.num) * d = (-n) * a.den
  BY <1>1, Product
<1>5. a.num < 0 <=> n < 0
  BY <1>1
<1>6. Magnitude(a.num) * d = Magnitude(n) * a.den
  BY <1>1, <1>4, <1>5 DEF Magnitude
<1> QED BY <1>1, <1>2, <1>3, <1>6 DEF FractionSet, Is

--------------------------------------------------------------------------------
(* The order of the fractions.                                             *)

LEMMA Order ==
    ASSUME NEW a \in Lowest, NEW b \in Lowest, NEW c \in Lowest
    PROVE  /\ a \preceq a
           /\ a \preceq b \/ b \preceq a
           /\ a \preceq b /\ b \preceq c => a \preceq c
           /\ a \preceq b /\ b \preceq a => a = b
<1>1. /\ a.num \in Int /\ a.den \in Nat \ {0}
      /\ b.num \in Int /\ b.den \in Nat \ {0}
      /\ c.num \in Int /\ c.den \in Nat \ {0}
  BY DEF Lowest, FractionSet
<1>2. a \preceq a /\ (a \preceq b \/ b \preceq a)
  BY <1>1, Product DEF \preceq
<1>3. ASSUME a \preceq b, b \preceq c PROVE a \preceq c
  <2>1. a.num * b.den <= b.num * a.den /\ b.num * c.den <= c.num * b.den
    BY <1>3 DEF \preceq
  <2>2. (a.num * b.den) * c.den <= (b.num * a.den) * c.den
    BY <1>1, <2>1, Cancel, Product
  <2>3. (b.num * c.den) * a.den <= (c.num * b.den) * a.den
    BY <1>1, <2>1, Cancel, Product
  <2>4. (b.num * a.den) * c.den = (b.num * c.den) * a.den
    BY <1>1, Product
  <2>5. (a.num * b.den) * c.den = (a.num * c.den) * b.den
    BY <1>1, Product
  <2>6. (c.num * b.den) * a.den = (c.num * a.den) * b.den
    BY <1>1, Product
  <2>7. PICK x \in Int, y \in Int : x = a.num * c.den /\ y = c.num * a.den
    BY <1>1, Product
  <2>8. PICK z \in Int : z = (b.num * a.den) * c.den
    BY <1>1, Product
  <2>9. x * b.den <= z /\ z <= y * b.den
    BY <2>2, <2>3, <2>4, <2>5, <2>6, <2>7, <2>8, Zenon
  <2>10. x * b.den \in Int /\ y * b.den \in Int
    BY <1>1, <2>7, Product
  <2>11. x * b.den <= y * b.den
    BY <2>8, <2>9, <2>10
  <2>12. x <= y
    BY <1>1, <2>7, <2>11, Cancel
  <2> QED BY <2>7, <2>12, Zenon DEF \preceq
<1>4. ASSUME a \preceq b, b \preceq a PROVE a = b
  <2>1. a.num * b.den = b.num * a.den
    BY <1>1, <1>4, Product DEF \preceq
  <2>2. Frac(a.num, a.den) = Frac(b.num, b.den)
    BY <1>1, <2>1, SameFrac
  <2> QED BY <2>2 DEF Lowest
<1> QED BY <1>2, <1>3, <1>4

\* A common denominator.
LEMMA CommonTerms ==
    ASSUME NEW a \in FractionSet, NEW b \in FractionSet
    PROVE  \E n \in Int, m \in Int, d \in Nat \ {0} : Is(a, n, d) /\ Is(b, m, d)
<1>1. /\ a.num \in Int /\ a.den \in Nat \ {0} /\ Is(a, a.num, a.den)
      /\ b.num \in Int /\ b.den \in Nat \ {0} /\ Is(b, b.num, b.den)
  BY Product DEF FractionSet, Is
<1>2. Is(a, a.num * b.den, a.den * b.den) /\ a.num * b.den \in Int
  BY <1>1, ScaledIs
<1>3. Is(b, b.num * a.den, b.den * a.den) /\ b.num * a.den \in Int
  BY <1>1, ScaledIs
<1>4. PICK d \in Nat \ {0} : d = a.den * b.den /\ d = b.den * a.den
  BY <1>1, Positive, Product
<1> QED BY <1>2, <1>3, <1>4, Zenon

LEMMA CommonTerms3 ==
    ASSUME NEW a \in FractionSet, NEW b \in FractionSet, NEW c \in FractionSet
    PROVE  \E n \in Int, m \in Int, k \in Int, d \in Nat \ {0} :
              Is(a, n, d) /\ Is(b, m, d) /\ Is(c, k, d)
<1>1. PICK n \in Int, m \in Int, d \in Nat \ {0} : Is(a, n, d) /\ Is(b, m, d)
  BY CommonTerms
<1>2. c.num \in Int /\ c.den \in Nat \ {0} /\ Is(c, c.num, c.den)
  BY Product DEF FractionSet, Is
<1>3. Is(a, n * c.den, d * c.den) /\ n * c.den \in Int
  BY <1>1, <1>2, ScaledIs
<1>4. Is(b, m * c.den, d * c.den) /\ m * c.den \in Int
  BY <1>1, <1>2, ScaledIs
<1>5. Is(c, c.num * d, c.den * d) /\ c.num * d \in Int
  BY <1>2, ScaledIs
<1>6. PICK e \in Nat \ {0} : e = d * c.den /\ e = c.den * d
  BY <1>2, Positive, Product
<1> QED BY <1>3, <1>4, <1>5, <1>6, Zenon

LEMMA SumCommutes ==
    ASSUME NEW a \in FractionSet, NEW b \in FractionSet
    PROVE  a (+) b = b (+) a
<1>1. PICK n \in Int, m \in Int, d \in Nat \ {0} : Is(a, n, d) /\ Is(b, m, d)
  BY CommonTerms
<1>2. (a (+) b) \in Lowest /\ Is(a (+) b, n + m, d)
  BY <1>1, SumIs
<1>3. (b (+) a) \in Lowest /\ Is(b (+) a, m + n, d)
  BY <1>1, SumIs
<1>4. n + m = m + n /\ n + m \in Int
  OBVIOUS
<1> QED BY <1>2, <1>3, <1>4, IsUnique

LEMMA SumAssociates ==
    ASSUME NEW a \in FractionSet, NEW b \in FractionSet, NEW c \in FractionSet
    PROVE  (a (+) b) (+) c = a (+) (b (+) c)
<1>1. PICK n \in Int, m \in Int, k \in Int, d \in Nat \ {0} :
         Is(a, n, d) /\ Is(b, m, d) /\ Is(c, k, d)
  BY CommonTerms3
<1>2. PICK x \in Lowest : x = a (+) b /\ Is(x, n + m, d)
  BY <1>1, SumIs
<1>3. PICK y \in Lowest : y = b (+) c /\ Is(y, m + k, d)
  BY <1>1, SumIs
<1>4. x \in FractionSet /\ y \in FractionSet /\ n + m \in Int /\ m + k \in Int
  BY DEF Lowest
<1>5. (x (+) c) \in Lowest /\ Is(x (+) c, (n + m) + k, d)
  BY <1>1, <1>2, <1>4, SumIs
<1>6. (a (+) y) \in Lowest /\ Is(a (+) y, n + (m + k), d)
  BY <1>1, <1>3, <1>4, SumIs
<1>7. (n + m) + k = n + (m + k) /\ (n + m) + k \in Int
  OBVIOUS
<1>8. x (+) c = a (+) y
  BY <1>5, <1>6, <1>7, IsUnique
<1> QED BY <1>2, <1>3, <1>8, Zenon

LEMMA SumSwaps ==
    ASSUME NEW a \in FractionSet, NEW b \in FractionSet, NEW c \in FractionSet
    PROVE  (a (+) b) (+) c = (a (+) c) (+) b
<1>1. (a (+) b) (+) c = a (+) (b (+) c) /\ (a (+) c) (+) b = a (+) (c (+) b)
  BY SumAssociates
<1>2. b (+) c = c (+) b
  BY SumCommutes
<1> QED BY <1>1, <1>2, Zenon

LEMMA SumGrows ==
    ASSUME NEW a \in FractionSet, NEW b \in FractionSet, NEW c \in FractionSet,
           b \preceq c
    PROVE  (a (+) b) \preceq (a (+) c)
<1>1. PICK n \in Int, m \in Int, k \in Int, d \in Nat \ {0} :
         Is(a, n, d) /\ Is(b, m, d) /\ Is(c, k, d)
  BY CommonTerms3
<1>2. m * d <= k * d
  BY <1>1, AtMostIs
<1>3. (n + m) * d <= (n + k) * d
  BY <1>2, Product
<1>4. (a (+) b) \in FractionSet /\ Is(a (+) b, n + m, d)
  BY <1>1, SumIs DEF Lowest
<1>5. (a (+) c) \in FractionSet /\ Is(a (+) c, n + k, d)
  BY <1>1, SumIs DEF Lowest
<1>6. n + m \in Int /\ n + k \in Int
  OBVIOUS
<1> QED BY <1>3, <1>4, <1>5, <1>6, AtMostIs

LEMMA NothingLess ==
    ASSUME NEW a \in Lowest
    PROVE  a (-) Zero = a
<1>1. a \in FractionSet /\ a.num \in Int /\ a.den \in Nat \ {0} /\ Is(a, a.num, a.den)
  BY LowestIs
<1>2. Zero \in FractionSet /\ Is(Zero, 0, a.den)
  BY <1>1, Product DEF Zero, Whole, FractionSet, Is
<1>3. (a (-) Zero) \in Lowest /\ Is(a (-) Zero, a.num - 0, a.den)
  BY <1>1, <1>2, DifferenceIs
<1>4. a.num - 0 = a.num
  BY <1>1
<1> QED BY <1>1, <1>3, <1>4, IsUnique

--------------------------------------------------------------------------------
(* The sizer and the fills.                                                *)

LEMMA LeastOf ==
    ASSUME NEW S \in SUBSET Nat, S # {}
    PROVE  Min(S) \in S
<1>1. PICK e \in S : \A f \in S : e <= f
  BY HasLeast
<1> QED BY <1>1 DEF Min

\* An order the sizer accepts costs no more than the margin it was given.
LEMMA OrderIs ==
    ASSUME NEW p \in Nat \ {0}, Qualifying(p) # {}
    PROVE  /\ ChosenLeverage(p) \in BaseLeverage .. MaxLeverage
           /\ OpenQty(p) \in Nat \ {0}
           /\ p * OpenQty(p) <= MinInvestment * ChosenLeverage(p)
<1>1. BaseLeverage \in Nat \ {0} /\ MaxLeverage \in Nat
  BY LeverageAssumption
<1>2. Qualifying(p) \in SUBSET Nat
  BY <1>1 DEF Qualifying, Leverages
<1>3. PICK l \in Qualifying(p) : l = ChosenLeverage(p)
  BY <1>2, LeastOf DEF ChosenLeverage
<1>4. l \in BaseLeverage .. MaxLeverage /\ QtyAt(l, p) >= MinVolume
  BY <1>3 DEF Qualifying, Leverages
<1>5. PICK m \in Int : m = MinInvestment * l
  BY <1>1, <1>4, VolumeAssumption, Product
<1>6. PICK q \in Int, r \in 0 .. p - 1 :
         q = m \div p /\ r = m % p /\ m = q * p + r
  BY <1>5, Division
<1>7. OpenQty(p) = q
  BY <1>3, <1>5, <1>6, Zenon DEF OpenQty, QtyAt
<1>8. q >= MinVolume
  BY <1>4, <1>5, <1>6, Zenon DEF QtyAt
<1>9. q \in Nat \ {0}
  BY <1>8, VolumeAssumption
<1>10. p * q <= m
  <2>1. m = q * p + r
    BY <1>6, Zenon
  <2>2. q * p \in Int /\ q * p = p * q
    BY Product
  <2> QED BY <2>1, <2>2
<1> QED BY <1>3, <1>4, <1>5, <1>7, <1>9, <1>10

Positions == [qty : Nat, entry : Lowest, margin : Lowest, steps : Nat]

LEMMA EnlargedIs ==
    ASSUME NEW x \in Positions, NEW q \in Nat \ {0}, NEW l \in Nat \ {0}, NEW p \in Nat \ {0},
           NEW E \in Int, NEW D \in Nat \ {0}, Is(x.entry, E, D),
           NEW M \in Int, NEW F \in Nat \ {0}, Is(x.margin, M, F)
    PROVE  /\ Enlarged(x, q, l, p) \in Positions
           /\ Enlarged(x, q, l, p).qty = x.qty + q
           /\ Enlarged(x, q, l, p).steps = x.steps + 1
           /\ Is(Enlarged(x, q, l, p).entry, E * x.qty + (p * q) * D, D * (x.qty + q))
           /\ Is(Enlarged(x, q, l, p).margin, M * l + (p * q) * F, F * l)
<1>1. /\ x.qty \in Nat /\ x.steps \in Nat
      /\ x.entry \in FractionSet /\ x.margin \in FractionSet
  BY DEF Positions, Lowest
<1>2. PICK c \in Int : c = p * q
  BY Product
<1>3. PICK n \in Int : n = E * x.qty
  BY <1>1, Product
<1>4. PICK a \in FractionSet : a = x.entry (.) Whole(x.qty) /\ Is(a, n, D)
  <2>1. x.qty \in Int
    BY <1>1
  <2>2. /\ (x.entry (.) Whole(x.qty)) \in Lowest
        /\ Is(x.entry (.) Whole(x.qty), E * x.qty, D)
    BY <1>1, <2>1, TimesWhole
  <2> QED BY <1>3, <2>2, Zenon DEF Lowest
<1>5. PICK b \in FractionSet : b = Whole(c) /\ Is(b, c * D, D) /\ c * D \in Int
  <2>1. Whole(c) \in FractionSet /\ Is(Whole(c), c, 1)
    BY WholeIs, LowestIs
  <2>2. c * D \in Int /\ Is(Whole(c), c * D, 1 * D)
    BY <2>1, ScaledIs
  <2>3. 1 * D = D
    OBVIOUS
  <2> QED BY <2>1, <2>2, <2>3, Zenon
<1>6. PICK e \in FractionSet : e = a (+) b /\ Is(e, n + c * D, D)
  BY <1>4, <1>5, SumIs DEF Lowest
<1>7. /\ (e (/) Whole(x.qty + q)) \in Lowest
      /\ Is(e (/) Whole(x.qty + q), n + c * D, D * (x.qty + q))
  <2>1. x.qty + q \in Nat \ {0} /\ n + c * D \in Int
    BY <1>1, <1>5
  <2> QED BY <1>6, <2>1, OverWhole
<1>8. PICK f \in FractionSet : f = Frac(c, l) /\ Is(f, c * F, F * l) /\ c * F \in Int
  <2>1. Frac(c, l) \in FractionSet /\ Is(Frac(c, l), c, l)
    BY FracIsLeast
  <2>2. c * F \in Int /\ Is(Frac(c, l), c * F, l * F)
    BY <2>1, ScaledIs
  <2>3. l * F = F * l
    BY Product
  <2> QED BY <2>1, <2>2, <2>3, Zenon
<1>9. Is(x.margin, M * l, F * l) /\ M * l \in Int /\ F * l \in Nat \ {0}
  BY <1>1, ScaledIs
<1>10. (x.margin (+) f) \in Lowest /\ Is(x.margin (+) f, M * l + c * F, F * l)
  BY <1>1, <1>8, <1>9, SumIs
<1>11. Enlarged(x, q, l, p) =
          [qty |-> x.qty + q, entry |-> e (/) Whole(x.qty + q),
           margin |-> x.margin (+) f, steps |-> x.steps + 1]
  BY <1>2, <1>4, <1>5, <1>6, <1>8, Zenon DEF Enlarged
<1> QED BY <1>1, <1>2, <1>3, <1>7, <1>8, <1>10, <1>11 DEF Positions

LEMMA ReducedIs ==
    ASSUME NEW x \in Positions, NEW q \in 0 .. x.qty, q # x.qty,
           NEW M \in Int, NEW F \in Nat \ {0}, Is(x.margin, M, F)
    PROVE  /\ Reduced(x, q) \in Positions
           /\ Reduced(x, q).qty = x.qty - q /\ x.qty - q \in Nat \ {0}
           /\ x.qty \in Nat \ {0}
           /\ Reduced(x, q).steps = x.steps
           /\ Reduced(x, q).entry = x.entry
           /\ Is(Reduced(x, q).margin, M * (x.qty - q), F * x.qty)
<1>1. x.qty \in Nat /\ x.margin \in FractionSet
  BY DEF Positions, Lowest
<1>2. PICK h \in Nat \ {0}, k \in Nat \ {0} : h = x.qty /\ k = x.qty - q
  BY <1>1
<1>3. Frac(k, h) \in FractionSet /\ Is(Frac(k, h), k, h)
  BY FracIsLeast
<1>4. (x.margin (.) Frac(k, h)) \in Lowest /\ Is(x.margin (.) Frac(k, h), M * k, F * h)
  BY <1>1, <1>3, TimesIs
<1>5. Reduced(x, q) = [x EXCEPT !.qty = k, !.margin = x.margin (.) Frac(k, h)]
  <2>1. Reduced(x, q) =
           [x EXCEPT !.qty = x.qty - q, !.margin = x.margin (.) Frac(x.qty - q, x.qty)]
    BY DEF Reduced, Positions
  <2> QED BY <1>2, <2>1, Zenon
<1>6. /\ Reduced(x, q) \in Positions
      /\ Reduced(x, q).qty = k /\ Reduced(x, q).steps = x.steps
      /\ Reduced(x, q).entry = x.entry
      /\ Reduced(x, q).margin = x.margin (.) Frac(k, h)
  BY <1>4, <1>5 DEF Positions
<1> QED BY <1>2, <1>4, <1>6, Zenon

\* MarginFits of one position, at one multiplier.
AtLeastAt(x, k) == ((x.entry (.) Whole(x.qty)) (/) Whole(k)) \preceq x.margin
AtMostAt(x, k) == x.margin \preceq ((x.entry (.) Whole(x.qty)) (/) Whole(k))

LEMMA FitsIs ==
    ASSUME NEW x \in Positions, NEW k \in Nat \ {0},
           NEW E \in Int, NEW D \in Nat \ {0}, Is(x.entry, E, D),
           NEW M \in Int, NEW F \in Nat \ {0}, Is(x.margin, M, F)
    PROVE  /\ AtLeastAt(x, k) <=> (E * x.qty) * F <= M * (D * k)
           /\ AtMostAt(x, k) <=> M * (D * k) <= (E * x.qty) * F
<1>1. x.qty \in Int /\ x.entry \in FractionSet /\ x.margin \in FractionSet
  BY DEF Positions, Lowest
<1>2. PICK n \in Int : n = E * x.qty
  BY <1>1, Product
<1>3. PICK a \in FractionSet : a = x.entry (.) Whole(x.qty) /\ Is(a, n, D)
  <2>1. /\ (x.entry (.) Whole(x.qty)) \in Lowest
        /\ Is(x.entry (.) Whole(x.qty), E * x.qty, D)
    BY <1>1, TimesWhole
  <2> QED BY <1>2, <2>1, Zenon DEF Lowest
<1>4. (a (/) Whole(k)) \in FractionSet /\ Is(a (/) Whole(k), n, D * k)
  BY <1>3, OverWhole DEF Lowest
<1>5. D * k \in Nat \ {0}
  BY Positive
<1>6. (a (/) Whole(k)) \preceq x.margin <=> n * F <= M * (D * k)
  BY <1>1, <1>4, <1>5, AtMostIs
<1>7. x.margin \preceq (a (/) Whole(k)) <=> M * (D * k) <= n * F
  BY <1>1, <1>4, <1>5, AtMostIs
<1> QED BY <1>2, <1>3, <1>6, <1>7, Zenon DEF AtLeastAt, AtMostAt

\* An order adds to both sides what it needs at its own multiplier.
LEMMA FitsArithmetic ==
    ASSUME NEW E \in Int, NEW D \in Nat \ {0}, NEW M \in Int, NEW F \in Nat \ {0},
           NEW h \in Nat, NEW q \in Nat \ {0}, NEW l \in Nat \ {0}, NEW k \in Nat \ {0},
           NEW c \in Nat \ {0}
    PROVE  /\ l <= k /\ (E * h) * F <= M * (D * k) =>
                  (E * h + c * D) * (F * l) <= (M * l + c * F) * (D * k)
           /\ k <= l /\ M * (D * k) <= (E * h) * F =>
                  (M * l + c * F) * (D * k) <= (E * h + c * D) * (F * l)
<1>1. PICK n \in Int, W \in Nat \ {0} : n = E * h /\ W = (c * D) * F
  BY Product, Positive
<1>2. PICK A \in Int, B \in Int : A = n * F /\ B = M * (D * k)
  BY Product
<1>3. (n + c * D) * (F * l) = A * l + W * l
  <2>1. (n + c * D) * (F * l) = n * (F * l) + (c * D) * (F * l)
    BY Product
  <2>2. n * (F * l) = A * l
    BY <1>2, Product
  <2>3. (c * D) * (F * l) = W * l
    BY <1>1, Product
  <2> QED BY <2>1, <2>2, <2>3, Zenon
<1>4. (M * l + c * F) * (D * k) = B * l + W * k
  <2>1. (M * l + c * F) * (D * k) = (M * l) * (D * k) + (c * F) * (D * k)
    BY Product
  <2>2. (M * l) * (D * k) = B * l
    BY <1>2, Product
  <2>3. (c * F) * (D * k) = W * k
    BY <1>1, Product
  <2> QED BY <2>1, <2>2, <2>3, Zenon
<1>5. A * l \in Int /\ B * l \in Int /\ W * l \in Int /\ W * k \in Int
  BY Product
<1>6. ASSUME l <= k, A <= B
      PROVE  A * l + W * l <= B * l + W * k
  <2>1. A * l <= B * l
    BY <1>6, Cancel
  <2>2. W * l <= W * k
    BY <1>6, Cancel, Product
  <2> QED BY <1>5, <2>1, <2>2
<1>7. ASSUME k <= l, B <= A
      PROVE  B * l + W * k <= A * l + W * l
  <2>1. B * l <= A * l
    BY <1>7, Cancel
  <2>2. W * k <= W * l
    BY <1>7, Cancel, Product
  <2> QED BY <1>5, <2>1, <2>2
<1> QED BY <1>1, <1>2, <1>3, <1>4, <1>6, <1>7, Zenon

LEMMA EnlargedFits ==
    ASSUME NEW x \in Positions, NEW q \in Nat \ {0}, NEW l \in Nat \ {0}, NEW p \in Nat \ {0},
           NEW k \in Nat \ {0}
    PROVE  /\ l <= k /\ AtLeastAt(x, k) => AtLeastAt(Enlarged(x, q, l, p), k)
           /\ k <= l /\ AtMostAt(x, k) => AtMostAt(Enlarged(x, q, l, p), k)
<1>1. PICK E \in Int, D \in Nat \ {0}, M \in Int, F \in Nat \ {0} :
         Is(x.entry, E, D) /\ Is(x.margin, M, F)
  BY LowestIs DEF Positions
<1>2. PICK y \in Positions :
         /\ y = Enlarged(x, q, l, p)
         /\ y.qty = x.qty + q
         /\ Is(y.entry, E * x.qty + (p * q) * D, D * (x.qty + q))
         /\ Is(y.margin, M * l + (p * q) * F, F * l)
  BY <1>1, EnlargedIs
<1>3. PICK h \in Nat, j \in Nat \ {0} : h = x.qty /\ j = x.qty + q
  BY DEF Positions
<1>4. PICK c \in Nat \ {0} : c = p * q
  BY Positive
<1>5. PICK e \in Int, m \in Int, d \in Nat \ {0}, f \in Nat \ {0} :
         e = E * h + c * D /\ m = M * l + c * F /\ d = D * j /\ f = F * l
  BY Product, Positive
<1>6. y.qty = j /\ Is(y.entry, e, d) /\ Is(y.margin, m, f)
  BY <1>2, <1>3, <1>4, <1>5, Zenon
<1>7. /\ AtLeastAt(y, k) <=> (e * j) * f <= m * (d * k)
      /\ AtMostAt(y, k) <=> m * (d * k) <= (e * j) * f
  BY <1>6, FitsIs
<1>8. /\ AtLeastAt(x, k) <=> (E * h) * F <= M * (D * k)
      /\ AtMostAt(x, k) <=> M * (D * k) <= (E * h) * F
  BY <1>1, <1>3, FitsIs
<1>9. /\ l <= k /\ AtLeastAt(x, k) => e * f <= m * (D * k)
      /\ k <= l /\ AtMostAt(x, k) => m * (D * k) <= e * f
  <2>1. /\ l <= k /\ (E * h) * F <= M * (D * k) =>
                  (E * h + c * D) * (F * l) <= (M * l + c * F) * (D * k)
        /\ k <= l /\ M * (D * k) <= (E * h) * F =>
                  (M * l + c * F) * (D * k) <= (E * h + c * D) * (F * l)
    BY FitsArithmetic
  <2> QED BY <1>5, <1>8, <2>1, Zenon
<1>10. PICK a \in Int, b \in Int : a = e * f /\ b = m * (D * k)
  BY Product
<1>11. (e * j) * f = a * j /\ m * (d * k) = b * j
  BY <1>5, <1>10, Product
<1>12. (a <= b <=> a * j <= b * j) /\ (b <= a <=> b * j <= a * j)
  BY Cancel
<1> QED BY <1>2, <1>7, <1>9, <1>10, <1>11, <1>12, Zenon

LEMMA ReducedFits ==
    ASSUME NEW x \in Positions, NEW q \in 0 .. x.qty, NEW k \in Nat \ {0}
    PROVE  /\ AtLeastAt(x, k) => AtLeastAt(Reduced(x, q), k)
           /\ AtMostAt(x, k) => AtMostAt(Reduced(x, q), k)
<1>1. CASE q = x.qty
  <2>1. NoPosition \in Positions /\ Is(NoPosition.entry, 0, 1) /\ Is(NoPosition.margin, 0, 1)
        /\ NoPosition.qty = 0
    BY WholeIs DEF NoPosition, Positions, Zero
  <2>2. /\ AtLeastAt(NoPosition, k) <=> (0 * NoPosition.qty) * 1 <= 0 * (1 * k)
        /\ AtMostAt(NoPosition, k) <=> 0 * (1 * k) <= (0 * NoPosition.qty) * 1
    <3>1. 0 \in Int /\ 1 \in Nat \ {0}
      OBVIOUS
    <3> QED BY <2>1, <3>1, FitsIs, Zenon
  <2>3. (0 * NoPosition.qty) * 1 = 0 /\ 0 * (1 * k) = 0
    BY <2>1
  <2> QED BY <1>1, <2>2, <2>3 DEF Reduced
<1>2. CASE q # x.qty
  <2>1. PICK E \in Int, D \in Nat \ {0}, M \in Int, F \in Nat \ {0} :
           Is(x.entry, E, D) /\ Is(x.margin, M, F)
    BY LowestIs DEF Positions
  <2>2. PICK y \in Positions :
           /\ y = Reduced(x, q) /\ y.qty = x.qty - q /\ y.entry = x.entry
           /\ Is(y.margin, M * (x.qty - q), F * x.qty)
           /\ x.qty - q \in Nat \ {0} /\ x.qty \in Nat \ {0}
    BY <1>2, <2>1, ReducedIs
  <2>3. PICK h \in Nat \ {0}, j \in Nat \ {0} : h = x.qty /\ j = x.qty - q
    BY <2>2
  <2>4. PICK m \in Int, f \in Nat \ {0} : m = M * j /\ f = F * h
    BY Product, Positive
  <2>5. y.qty = j /\ Is(y.entry, E, D) /\ Is(y.margin, m, f)
    BY <2>1, <2>2, <2>3, <2>4, Zenon
  <2>6. /\ AtLeastAt(y, k) <=> (E * j) * f <= m * (D * k)
        /\ AtMostAt(y, k) <=> m * (D * k) <= (E * j) * f
    BY <2>5, FitsIs
  <2>7. /\ AtLeastAt(x, k) <=> (E * h) * F <= M * (D * k)
        /\ AtMostAt(x, k) <=> M * (D * k) <= (E * h) * F
    BY <2>1, <2>3, FitsIs
  <2>8. PICK a \in Int, b \in Int : a = (E * h) * F /\ b = M * (D * k)
    BY Product
  <2>9. (E * j) * f = a * j /\ m * (D * k) = b * j
    BY <2>4, <2>8, Product
  <2>10. (a <= b <=> a * j <= b * j) /\ (b <= a <=> b * j <= a * j)
    BY Cancel
  <2> QED BY <2>2, <2>6, <2>7, <2>8, <2>9, <2>10, Zenon
<1> QED BY <1>1, <1>2

LEMMA SignIs ==
    ASSUME NEW a \in FractionSet, NEW n \in Int, NEW d \in Nat \ {0}, Is(a, n, d)
    PROVE  (a.num > 0 <=> n > 0) /\ (a.num >= 0 <=> n >= 0) /\ (a.num = 0 <=> n = 0)
<1>1. a.num \in Int /\ a.den \in Nat \ {0} /\ a.num * d = n * a.den
  BY DEF FractionSet, Is
<1> QED BY <1>1

LEMMA ZeroIs ==
    ASSUME NEW a \in Lowest
    PROVE  /\ Zero \in Lowest /\ Zero.num = 0 /\ (a.num = 0 <=> a = Zero)
           /\ a.num >= 0 => Zero \preceq a
<1>1. Zero \in Lowest /\ Is(Zero, 0, 1) /\ Zero.num = 0 /\ Zero.den = 1
  BY WholeIs DEF Zero, Whole
<1>2. a \in FractionSet /\ a.num \in Int /\ a.den \in Nat \ {0} /\ Is(a, a.num, a.den)
  BY LowestIs
<1>3. ASSUME a.num = 0 PROVE a = Zero
  <2>1. Is(a, 0, 1)
    BY <1>2, <1>3 DEF Is
  <2> QED BY <1>1, <2>1, IsUnique
<1>4. a.num >= 0 => Zero \preceq a
  BY <1>1, <1>2 DEF \preceq
<1> QED BY <1>1, <1>3, <1>4

LEMMA OrderCosts ==
    ASSUME NEW c \in Nat, NEW l \in Nat \ {0}, c <= MinInvestment * l
    PROVE  /\ Frac(c, l) \in Lowest /\ Frac(c, l).num >= 0
           /\ Frac(c, l) \preceq Whole(MinInvestment)
<1>1. MinInvestment \in Int
  BY VolumeAssumption
<1>2. Frac(c, l) \in Lowest /\ Frac(c, l) \in FractionSet /\ Is(Frac(c, l), c, l)
  BY FracIs DEF Lowest
<1>3. Whole(MinInvestment) \in FractionSet /\ Is(Whole(MinInvestment), MinInvestment, 1)
  BY <1>1, WholeIs DEF Lowest
<1>4. Frac(c, l) \preceq Whole(MinInvestment) <=> c * 1 <= MinInvestment * l
  BY <1>1, <1>2, <1>3, AtMostIs
<1>5. Frac(c, l).num >= 0
  BY <1>2, SignIs
<1> QED BY <1>2, <1>4, <1>5

\* The margins of both sides.
LEMMA UsedIs ==
    ASSUME NEW P \in [Sides -> Positions], NEW s \in Sides, NEW x \in Positions
    PROVE  /\ Opposite(s) \in Sides /\ Opposite(s) # s
           /\ \A t \in Sides : t = s \/ t = Opposite(s)
           /\ UsedMargin(P) = P[s].margin (+) P[Opposite(s)].margin
           /\ UsedMargin([P EXCEPT ![s] = x]) = x.margin (+) P[Opposite(s)].margin
<1>1. /\ Opposite(s) \in Sides /\ Opposite(s) # s
      /\ \A t \in Sides : t = s \/ t = Opposite(s)
  BY SidesAssumption DEF Opposite
<1>2. ASSUME NEW Q \in [Sides -> Positions]
      PROVE  UsedMargin(Q) = Q[s].margin (+) Q[Opposite(s)].margin
  <2>1. \A t \in Sides : Q[t].margin \in FractionSet
    BY DEF Positions, Lowest
  <2>2. CASE s = "LONG"
    BY <2>2 DEF UsedMargin, Opposite
  <2>3. CASE s = "SHORT"
    <3>1. Q["LONG"].margin (+) Q["SHORT"].margin = Q["SHORT"].margin (+) Q["LONG"].margin
      <4>1. "LONG" \in Sides /\ "SHORT" \in Sides
        BY SidesAssumption
      <4> QED BY <2>1, <4>1, SumCommutes
    <3> QED BY <2>3, <3>1 DEF UsedMargin, Opposite
  <2> QED BY <2>2, <2>3, SidesAssumption
<1>3. PICK Q \in [Sides -> Positions] : Q = [P EXCEPT ![s] = x]
  OBVIOUS
<1>4. Q[s] = x /\ Q[Opposite(s)] = P[Opposite(s)]
  BY <1>1, <1>3
<1> QED BY <1>1, <1>2, <1>3, <1>4, Zenon

LEMMA EnlargedFacts ==
    ASSUME NEW x \in Positions, NEW q \in Nat \ {0}, NEW l \in Nat \ {0}, NEW p \in Nat \ {0}
    PROVE  /\ Enlarged(x, q, l, p) \in Positions
           /\ Enlarged(x, q, l, p).qty = x.qty + q
           /\ Enlarged(x, q, l, p).steps = x.steps + 1
<1>1. PICK E \in Int, D \in Nat \ {0}, M \in Int, F \in Nat \ {0} :
         Is(x.entry, E, D) /\ Is(x.margin, M, F)
  BY LowestIs DEF Positions
<1>2. Enlarged(x, q, l, p) \in Positions
  BY <1>1, EnlargedIs
<1>3. /\ Enlarged(x, q, l, p).qty = x.qty + q
      /\ Enlarged(x, q, l, p).steps = x.steps + 1
  BY DEF Enlarged
<1> QED BY <1>2, <1>3, Zenon

LEMMA EnlargedMargin ==
    ASSUME NEW x, NEW q, NEW l, NEW p, NEW c, c = p * q
    PROVE  Enlarged(x, q, l, p).margin = x.margin (+) Frac(c, l)
BY Zenon DEF Enlarged

LEMMA EnlargedEntry ==
    ASSUME NEW x \in Positions, NEW q \in Nat \ {0}, NEW l \in Nat \ {0}, NEW p \in Nat \ {0},
           NEW E \in Int, NEW D \in Nat \ {0}, Is(x.entry, E, D),
           NEW e, NEW d, e = E * x.qty + (p * q) * D, d = D * (x.qty + q)
    PROVE  Is(Enlarged(x, q, l, p).entry, e, d)
<1>1. PICK M \in Int, F \in Nat \ {0} : Is(x.margin, M, F)
  BY LowestIs DEF Positions
<1>2. Is(Enlarged(x, q, l, p).entry, E * x.qty + (p * q) * D, D * (x.qty + q))
  BY <1>1, EnlargedIs
<1> QED BY <1>2, Zenon

LEMMA UsedEnlarged ==
    ASSUME NEW P \in [Sides -> Positions], NEW s \in Sides,
           NEW q \in Nat \ {0}, NEW l \in Nat \ {0}, NEW p \in Nat \ {0},
           p * q <= MinInvestment * l, CapitalGate(P)
    PROVE  UsedMargin([P EXCEPT ![s] = Enlarged(P[s], q, l, p)]) \preceq Whole(MaxCapital)
<1>1. PICK x \in Positions, z \in Positions : x = P[s] /\ z = P[Opposite(s)]
  BY UsedIs
<1>2. x.margin \in FractionSet /\ z.margin \in FractionSet
  BY DEF Positions, Lowest
<1>3. PICK c \in Nat : c = p * q
  OBVIOUS
<1>4. PICK y \in Positions :
         y = Enlarged(x, q, l, p) /\ y.margin = x.margin (+) Frac(c, l)
  <2>1. Enlarged(x, q, l, p).margin = x.margin (+) Frac(c, l)
    BY <1>3, EnlargedMargin, Zenon
  <2> QED BY <2>1, EnlargedFacts, Zenon
<1>5. PICK f \in FractionSet, w \in FractionSet :
         f = Frac(c, l) /\ w = Whole(MinInvestment) /\ f \preceq w
  <2>1. Whole(MinInvestment) \in FractionSet
    BY WholeIs, VolumeAssumption DEF Lowest
  <2> QED BY <1>3, <2>1, OrderCosts DEF Lowest
<1>6. PICK u \in Lowest : u = UsedMargin(P) /\ u = x.margin (+) z.margin
  <2>1. (x.margin (+) z.margin) \in Lowest
    BY <1>2, CommonTerms, SumIs
  <2> QED BY <1>1, <2>1, UsedIs
<1>7. UsedMargin([P EXCEPT ![s] = y]) = y.margin (+) z.margin
  <2>1. UsedMargin([P EXCEPT ![s] = y]) = y.margin (+) P[Opposite(s)].margin
    BY UsedIs
  <2> QED BY <1>1, <2>1, Zenon
<1>8. y.margin (+) z.margin = u (+) f
  BY <1>2, <1>4, <1>5, <1>6, SumSwaps
<1>9. (u (+) f) \preceq (u (+) w)
  BY <1>5, <1>6, SumGrows DEF Lowest
<1>10. (u (+) w) \preceq Whole(MaxCapital)
  BY <1>5, <1>6, Zenon DEF CapitalGate
<1>11. (u (+) f) \in Lowest /\ (u (+) w) \in Lowest /\ Whole(MaxCapital) \in Lowest
  <2>1. u \in FractionSet
    BY DEF Lowest
  <2>2. (u (+) f) \in Lowest /\ (u (+) w) \in Lowest
    BY <2>1, CommonTerms, SumIs
  <2> QED BY <2>2, WholeIs, MoneyAssumption
<1>12. (u (+) f) \preceq Whole(MaxCapital)
  BY <1>9, <1>10, <1>11, Order
<1> QED BY <1>1, <1>4, <1>7, <1>8, <1>12, Zenon

LEMMA ReducedMargin ==
    ASSUME NEW x \in Positions, NEW q \in 0 .. x.qty, x.margin.num >= 0
    PROVE  /\ Reduced(x, q) \in Positions
           /\ Reduced(x, q).margin.num >= 0
           /\ Reduced(x, q).margin \preceq x.margin
<1>1. x.margin \in Lowest
  BY DEF Positions
<1>2. CASE q = x.qty
  <2>1. Reduced(x, q) = NoPosition
    BY <1>2 DEF Reduced
  <2>2. NoPosition \in Positions /\ NoPosition.margin = Zero
    BY ZeroIs, <1>1 DEF NoPosition, Positions
  <2> QED BY <1>1, <2>1, <2>2, ZeroIs
<1>3. CASE q # x.qty
  <2>1. PICK M \in Int, F \in Nat \ {0} : Is(x.margin, M, F) /\ M = x.margin.num
    BY <1>1, LowestIs
  <2>2. PICK y \in Positions :
           /\ y = Reduced(x, q)
           /\ Is(y.margin, M * (x.qty - q), F * x.qty)
           /\ x.qty - q \in Nat \ {0} /\ x.qty \in Nat \ {0}
    BY <1>3, <2>1, ReducedIs
  <2>3. PICK h \in Nat \ {0}, j \in Nat \ {0} : h = x.qty /\ j = x.qty - q /\ j <= h
    BY <2>2
  <2>4. PICK m \in Int, f \in Nat \ {0} : m = M * j /\ f = F * h
    BY Product, Positive
  <2>5. Is(y.margin, m, f) /\ y.margin \in FractionSet /\ x.margin \in FractionSet
    BY <1>1, <2>2, <2>3, <2>4, Zenon DEF Positions, Lowest
  <2>6. m >= 0
    BY <2>1, <2>4
  <2>7. y.margin \preceq x.margin <=> m * F <= M * f
    BY <2>1, <2>5, AtMostIs
  <2>8. m * F = (M * F) * j /\ M * f = (M * F) * h
    BY <2>4, Product
  <2>9. PICK g \in Nat : g = M * F
    BY <2>1
  <2>10. g * j <= g * h
    BY <2>3
  <2>11. m * F <= M * f
    BY <2>8, <2>9, <2>10, Zenon
  <2> QED BY <2>2, <2>5, <2>6, <2>7, <2>11, SignIs
<1> QED BY <1>2, <1>3

LEMMA UsedReduced ==
    ASSUME NEW P \in [Sides -> Positions], NEW s \in Sides, NEW q \in 0 .. P[s].qty,
           P[s].margin.num >= 0, UsedMargin(P) \preceq Whole(MaxCapital)
    PROVE  UsedMargin([P EXCEPT ![s] = Reduced(P[s], q)]) \preceq Whole(MaxCapital)
<1>1. PICK x \in Positions, z \in Positions : x = P[s] /\ z = P[Opposite(s)]
  BY UsedIs
<1>2. PICK y \in Positions : y = Reduced(x, q) /\ y.margin \preceq x.margin
  BY <1>1, ReducedMargin
<1>3. x.margin \in FractionSet /\ y.margin \in FractionSet /\ z.margin \in FractionSet
  BY DEF Positions, Lowest
<1>4. (z.margin (+) y.margin) \preceq (z.margin (+) x.margin)
  BY <1>2, <1>3, SumGrows
<1>5. /\ z.margin (+) y.margin = y.margin (+) z.margin
      /\ z.margin (+) x.margin = x.margin (+) z.margin
  BY <1>3, SumCommutes
<1>6. /\ UsedMargin(P) = x.margin (+) z.margin
      /\ UsedMargin([P EXCEPT ![s] = y]) = y.margin (+) z.margin
  BY <1>1, UsedIs
<1>7. PICK u \in Lowest, v \in Lowest : u = x.margin (+) z.margin /\ v = y.margin (+) z.margin
  BY <1>3, CommonTerms, SumIs
<1>8. Whole(MaxCapital) \in Lowest
  BY WholeIs, MoneyAssumption
<1>9. v \preceq u /\ u \preceq Whole(MaxCapital)
  BY <1>4, <1>5, <1>6, <1>7, Zenon
<1>10. v \preceq Whole(MaxCapital)
  BY <1>8, <1>9, Order
<1> QED BY <1>1, <1>2, <1>6, <1>7, <1>10, Zenon

--------------------------------------------------------------------------------
(* Profit and loss.                                                        *)

LEMMA SignOf ==
    ASSUME NEW s \in Sides
    PROVE  Sign(s) \in {1, -1} /\ (s = "LONG" <=> Sign(s) = 1)
BY SidesAssumption DEF Sign

\* A move from the entry price, for a quantity.
LEMMA GainIs ==
    ASSUME NEW a \in FractionSet, NEW b \in FractionSet,
           NEW n \in Int, NEW m \in Int, NEW d \in Nat \ {0}, Is(a, n, d), Is(b, m, d),
           NEW k \in Int
    PROVE  /\ ((a (-) b) (.) Whole(k)) \in Lowest
           /\ Is((a (-) b) (.) Whole(k), (n - m) * k, d)
<1>1. PICK c \in FractionSet : c = a (-) b /\ Is(c, n - m, d)
  BY DifferenceIs DEF Lowest
<1>2. n - m \in Int
  OBVIOUS
<1>3. (c (.) Whole(k)) \in Lowest /\ Is(c (.) Whole(k), (n - m) * k, d)
  BY <1>1, <1>2, TimesWhole
<1> QED BY <1>1, <1>3, Zenon

LEMMA WholeOver ==
    ASSUME NEW k \in Int, NEW d \in Nat \ {0}
    PROVE  Whole(k) \in FractionSet /\ k * d \in Int /\ Is(Whole(k), k * d, d)
<1>1. Whole(k) \in FractionSet /\ Is(Whole(k), k, 1)
  BY WholeIs DEF Lowest
<1>2. k * d \in Int /\ Is(Whole(k), k * d, 1 * d)
  BY <1>1, ScaledIs
<1>3. 1 * d = d
  OBVIOUS
<1> QED BY <1>1, <1>2, <1>3, Zenon

LEMMA UnrealizedIs ==
    ASSUME NEW x \in Positions, NEW s \in Sides, NEW p \in Int,
           NEW E \in Int, NEW D \in Nat \ {0}, Is(x.entry, E, D)
    PROVE  /\ UnrealizedPnl(x, s, p) \in Lowest
           /\ Is(UnrealizedPnl(x, s, p), (p * D - E) * (x.qty * Sign(s)), D)
<1>1. x.entry \in FractionSet /\ x.qty * Sign(s) \in Int
  BY SignOf DEF Positions, Lowest
<1>2. Whole(p) \in FractionSet /\ p * D \in Int /\ Is(Whole(p), p * D, D)
  BY WholeOver
<1> QED BY <1>1, <1>2, GainIs DEF UnrealizedPnl

\* What is bought or sold at the mark has no profit yet.
LEMMA EnlargedPnl ==
    ASSUME NEW x \in Positions, NEW s \in Sides,
           NEW q \in Nat \ {0}, NEW l \in Nat \ {0}, NEW p \in Nat \ {0}
    PROVE  UnrealizedPnl(Enlarged(x, q, l, p), s, p) = UnrealizedPnl(x, s, p)
<1>1. PICK E \in Int, D \in Nat \ {0} : Is(x.entry, E, D)
  BY LowestIs DEF Positions
<1>2. PICK y \in Positions :
         y = Enlarged(x, q, l, p) /\ y.qty = x.qty + q
  BY EnlargedFacts
<1>3. PICK h \in Nat, j \in Nat \ {0} : h = x.qty /\ j = x.qty + q /\ j = h + q
  BY DEF Positions
<1>4. PICK e \in Int, d \in Nat \ {0}, g \in Int :
         e = E * h + (p * q) * D /\ d = D * j /\ g = Sign(s)
  BY Product, Positive, SignOf
<1>5. y.qty = j /\ Is(y.entry, e, d)
  BY <1>1, <1>2, <1>3, <1>4, EnlargedEntry
<1>6. /\ UnrealizedPnl(x, s, p) \in Lowest
      /\ Is(UnrealizedPnl(x, s, p), (p * D - E) * (h * g), D)
  <2>1. p \in Int
    OBVIOUS
  <2>2. /\ UnrealizedPnl(x, s, p) \in Lowest
        /\ Is(UnrealizedPnl(x, s, p), (p * D - E) * (x.qty * Sign(s)), D)
    BY <1>1, <2>1, UnrealizedIs
  <2> QED BY <1>3, <1>4, <2>2, Zenon
<1>7. /\ UnrealizedPnl(y, s, p) \in Lowest
      /\ Is(UnrealizedPnl(y, s, p), (p * d - e) * (j * g), d)
  <2>1. /\ UnrealizedPnl(y, s, p) \in Lowest
        /\ Is(UnrealizedPnl(y, s, p), (p * d - e) * (y.qty * Sign(s)), d)
    <3>1. p \in Int
      OBVIOUS
    <3> QED BY <1>5, <3>1, UnrealizedIs
  <2> QED BY <1>4, <1>5, <2>1, Zenon
<1>8. PICK a \in Int, b \in Int : a = (p * D - E) * (h * g) /\ b = (p * d - e) * (j * g)
  BY Product
<1>9. b = a * j
  <2>1. PICK k \in Int : k = p * D
    BY Product
  <2>2. p * d = k * j /\ (p * q) * D = k * q
    BY <1>4, <2>1, Product
  <2>3. k * j = k * h + k * q
    BY <1>3, <2>1, Product
  <2>4. p * d - e = (k - E) * h
    <3>1. k * h \in Int /\ k * q \in Int /\ E * h \in Int
      BY Product
    <3>2. (k - E) * h = k * h - E * h
      BY Product
    <3> QED BY <1>4, <2>2, <2>3, <3>1, <3>2
  <2>5. ((k - E) * h) * (j * g) = ((k - E) * (h * g)) * j
    BY Product
  <2> QED BY <1>8, <2>1, <2>4, <2>5, Zenon
<1>10. /\ UnrealizedPnl(y, s, p) \in FractionSet /\ Is(UnrealizedPnl(y, s, p), b, d)
       /\ UnrealizedPnl(x, s, p) \in FractionSet /\ Is(UnrealizedPnl(x, s, p), a, D)
  BY <1>6, <1>7, <1>8, Zenon DEF Lowest
<1>11. Is(UnrealizedPnl(x, s, p), b, d)
  <2>1. Is(UnrealizedPnl(x, s, p), a * j, D * j)
    BY <1>10, ScaledIs
  <2> QED BY <1>4, <1>9, <2>1, Zenon
<1> QED BY <1>2, <1>6, <1>7, <1>10, <1>11, IsUnique

\* What is realized is taken from the profit of the rest.
LEMMA ReducedPnl ==
    ASSUME NEW x \in Positions, NEW s \in Sides, NEW q \in 0 .. x.qty, NEW p \in Int
    PROVE  /\ RealizedPnl(x, s, q, p) \in Lowest
           /\ UnrealizedPnl(Reduced(x, q), s, p) \in Lowest
           /\ UnrealizedPnl(x, s, p) =
                 RealizedPnl(x, s, q, p) (+) UnrealizedPnl(Reduced(x, q), s, p)
<1>1. PICK E \in Int, D \in Nat \ {0}, M \in Int, F \in Nat \ {0} :
         Is(x.entry, E, D) /\ Is(x.margin, M, F)
  BY LowestIs DEF Positions
<1>2. PICK h \in Nat, g \in Int, j \in Nat :
         h = x.qty /\ g = Sign(s) /\ j = x.qty - q /\ h = q + j /\ q \in Nat
  BY SignOf DEF Positions
<1>3. PICK a \in Int : a = p * D - E
  BY Product
<1>4. UnrealizedPnl(x, s, p) \in Lowest /\ Is(UnrealizedPnl(x, s, p), a * (h * g), D)
  <2>1. /\ UnrealizedPnl(x, s, p) \in Lowest
        /\ Is(UnrealizedPnl(x, s, p), (p * D - E) * (x.qty * Sign(s)), D)
    BY <1>1, UnrealizedIs
  <2> QED BY <1>2, <1>3, <2>1, Zenon
<1>5. PICK r \in Lowest : r = RealizedPnl(x, s, q, p) /\ Is(r, a * (q * g), D)
  <2>1. x.entry \in FractionSet /\ q * g \in Int
    BY <1>2, Product DEF Positions, Lowest
  <2>2. Whole(p) \in FractionSet /\ p * D \in Int /\ Is(Whole(p), p * D, D)
    BY WholeOver
  <2>3. /\ ((Whole(p) (-) x.entry) (.) Whole(q * g)) \in Lowest
        /\ Is((Whole(p) (-) x.entry) (.) Whole(q * g), (p * D - E) * (q * g), D)
    BY <1>1, <2>1, <2>2, GainIs
  <2> QED BY <1>2, <1>3, <2>3, Zenon DEF RealizedPnl
<1>6. PICK u \in Lowest : u = UnrealizedPnl(Reduced(x, q), s, p) /\ Is(u, a * (j * g), D)
  <2>1. CASE q = x.qty
    <3>1. NoPosition \in Positions /\ Is(NoPosition.entry, 0, D) /\ NoPosition.qty = 0
      BY WholeIs DEF NoPosition, Positions, Zero, Whole, Is
    <3>2. /\ UnrealizedPnl(NoPosition, s, p) \in Lowest
          /\ Is(UnrealizedPnl(NoPosition, s, p), (p * D - 0) * (NoPosition.qty * Sign(s)), D)
      <4>1. 0 \in Int
        OBVIOUS
      <4> QED BY <3>1, <4>1, UnrealizedIs, Zenon
    <3>3. (p * D - 0) * (NoPosition.qty * Sign(s)) = 0 /\ a * (j * g) = 0
      <4>1. j = 0
        BY <1>2, <2>1
      <4>2. 0 * g = 0 /\ p * D - 0 \in Int /\ NoPosition.qty * Sign(s) = 0 * g
        BY <1>2, <3>1, Product
      <4>3. (p * D - 0) * 0 = 0 /\ a * 0 = 0
        BY <4>2
      <4> QED BY <4>1, <4>2, <4>3, Zenon
    <3>4. Reduced(x, q) = NoPosition
      BY <2>1 DEF Reduced
    <3> QED BY <3>2, <3>3, <3>4, Zenon
  <2>2. CASE q # x.qty
    <3>1. PICK y \in Positions : y = Reduced(x, q) /\ y.qty = x.qty - q /\ y.entry = x.entry
      BY <1>1, <2>2, ReducedIs
    <3>2. Is(y.entry, E, D)
      BY <1>1, <3>1, Zenon
    <3>3. /\ UnrealizedPnl(y, s, p) \in Lowest
          /\ Is(UnrealizedPnl(y, s, p), (p * D - E) * (y.qty * Sign(s)), D)
      BY <3>2, UnrealizedIs
    <3> QED BY <1>2, <1>3, <3>1, <3>3, Zenon
  <2> QED BY <2>1, <2>2
<1>7. PICK n \in Int, m \in Int : n = a * (q * g) /\ m = a * (j * g)
  BY <1>2, Product
<1>8. a * (h * g) = n + m
  <2>1. PICK v \in Int, w \in Int : v = q * g /\ w = j * g
    BY <1>2, Product
  <2>2. h * g = v + w
    <3>1. q \in Int /\ j \in Int /\ g \in Int
      BY <1>2
    <3>2. (q + j) * g = q * g + j * g
      BY <3>1, Product
    <3> QED BY <1>2, <2>1, <3>2, Zenon
  <2>3. a * (v + w) = a * v + a * w
    OBVIOUS
  <2> QED BY <1>7, <2>1, <2>2, <2>3, Zenon
<1>9. (r (+) u) \in Lowest /\ Is(r (+) u, n + m, D)
  BY <1>5, <1>6, <1>7, SumIs DEF Lowest
<1>10. Is(UnrealizedPnl(x, s, p), n + m, D) /\ n + m \in Int
  BY <1>4, <1>7, <1>8
<1>11. UnrealizedPnl(x, s, p) = r (+) u
  BY <1>4, <1>9, <1>10, IsUnique
<1> QED BY <1>5, <1>6, <1>11, Zenon

\* A fee taken from the balance is taken from the equity.
LEMMA FeeLast ==
    ASSUME NEW a \in FractionSet, NEW b \in FractionSet, NEW c \in FractionSet,
           NEW f \in FractionSet
    PROVE  ((a (-) f) (+) b) (+) c = ((a (+) b) (+) c) (-) f
<1>1. PICK g \in FractionSet : g = Minus(f)
  BY CommonTerms, MinusIs
<1>2. (a (+) b) \in FractionSet /\ (a (+) g) \in FractionSet
  BY CommonTerms, SumIs DEF Lowest
<1>3. (a (+) g) (+) b = (a (+) b) (+) g
  BY SumSwaps
<1>4. ((a (+) b) (+) g) (+) c = ((a (+) b) (+) c) (+) g
  BY <1>2, SumSwaps
<1> QED BY <1>1, <1>3, <1>4, Zenon DEF (-)

LEMMA UnrealizedType ==
    ASSUME NEW x \in Positions, NEW s \in Sides, NEW p \in Int
    PROVE  UnrealizedPnl(x, s, p) \in FractionSet
<1>1. PICK E \in Int, D \in Nat \ {0} : Is(x.entry, E, D)
  BY LowestIs DEF Positions
<1> QED BY <1>1, UnrealizedIs DEF Lowest

LEMMA EquityIs ==
    ASSUME NEW P \in [Sides -> Positions], NEW b \in Lowest, NEW p \in Int
    PROVE  Equity(b, P, p) \in Lowest
<1>1. /\ UnrealizedPnl(P["LONG"], "LONG", p) \in FractionSet
      /\ UnrealizedPnl(P["SHORT"], "SHORT", p) \in FractionSet
  <2>1. "LONG" \in Sides /\ "SHORT" \in Sides
    BY SidesAssumption
  <2> QED BY <2>1, UnrealizedType
<1>2. (b (+) UnrealizedPnl(P["LONG"], "LONG", p)) \in FractionSet
  BY <1>1, CommonTerms, SumIs DEF Lowest
<1> QED BY <1>1, <1>2, CommonTerms, SumIs DEF Equity

\* A fill at the mark leaves the equity but for the fee.
LEMMA OpenKeepsEquity ==
    ASSUME NEW P \in [Sides -> Positions], NEW b \in Lowest, NEW f \in FractionSet,
           NEW p \in Int, NEW s \in Sides, NEW y \in Positions,
           NEW Q, Q[s] = y, \A t \in Sides : t # s => Q[t] = P[t],
           UnrealizedPnl(y, s, p) = UnrealizedPnl(P[s], s, p)
    PROVE  Equity(b (-) f, Q, p) = Equity(b, P, p) (-) f
<1>1. \A t \in Sides : UnrealizedPnl(Q[t], t, p) = UnrealizedPnl(P[t], t, p)
  OBVIOUS
<1>2. "LONG" \in Sides /\ "SHORT" \in Sides
  BY SidesAssumption
<1>3. PICK L \in FractionSet, S \in FractionSet :
         /\ L = UnrealizedPnl(P["LONG"], "LONG", p)
         /\ S = UnrealizedPnl(P["SHORT"], "SHORT", p)
  BY <1>2, UnrealizedType
<1>4. b \in FractionSet
  BY DEF Lowest
<1>5. ((b (-) f) (+) L) (+) S = ((b (+) L) (+) S) (-) f
  BY <1>4, FeeLast
<1> QED BY <1>1, <1>2, <1>3, <1>5, Zenon DEF Equity

LEMMA CloseKeepsEquity ==
    ASSUME NEW P \in [Sides -> Positions], NEW b \in Lowest, NEW f \in FractionSet,
           NEW p \in Int, NEW s \in Sides, NEW y \in Positions, NEW r \in FractionSet,
           NEW Q, Q[s] = y, \A t \in Sides : t # s => Q[t] = P[t],
           UnrealizedPnl(P[s], s, p) = r (+) UnrealizedPnl(y, s, p)
    PROVE  Equity(b (+) (r (-) f), Q, p) = Equity(b, P, p) (-) f
<1>1. /\ \A t \in Sides : t # s => UnrealizedPnl(Q[t], t, p) = UnrealizedPnl(P[t], t, p)
      /\ UnrealizedPnl(Q[s], s, p) = UnrealizedPnl(y, s, p)
  OBVIOUS
<1>2. "LONG" \in Sides /\ "SHORT" \in Sides /\ (s = "LONG" \/ s = "SHORT")
  BY SidesAssumption
<1>3. PICK L \in FractionSet, S \in FractionSet, u \in FractionSet :
         /\ L = UnrealizedPnl(P["LONG"], "LONG", p)
         /\ S = UnrealizedPnl(P["SHORT"], "SHORT", p)
         /\ u = UnrealizedPnl(y, s, p)
  BY <1>2, UnrealizedType
<1>4. b \in FractionSet
  BY DEF Lowest
<1>5. PICK a \in FractionSet : a = b (+) r
  BY <1>4, CommonTerms, SumIs DEF Lowest
<1>6. b (+) (r (-) f) = a (-) f
  <2>1. PICK g \in FractionSet : g = Minus(f)
    BY CommonTerms, MinusIs
  <2>2. (b (+) r) (+) g = b (+) (r (+) g)
    BY <1>4, SumAssociates
  <2> QED BY <1>5, <2>1, <2>2, Zenon DEF (-)
<1>7. CASE s = "LONG"
  <2>1. ((a (-) f) (+) u) (+) S = ((a (+) u) (+) S) (-) f
    BY FeeLast
  <2>2. a (+) u = b (+) (r (+) u)
    BY <1>4, <1>5, SumAssociates
  <2>3. L = r (+) u
    BY <1>3, <1>7, Zenon
  <2>4. Equity(b (+) (r (-) f), Q, p) = ((a (-) f) (+) u) (+) S
    <3>1. UnrealizedPnl(Q["LONG"], "LONG", p) = u /\ UnrealizedPnl(Q["SHORT"], "SHORT", p) = S
      BY <1>1, <1>2, <1>3, <1>7
    <3> QED BY <1>6, <3>1, Zenon DEF Equity
  <2>5. Equity(b, P, p) = (b (+) L) (+) S
    BY <1>3, Zenon DEF Equity
  <2> QED BY <2>1, <2>2, <2>3, <2>4, <2>5, Zenon
<1>8. CASE s = "SHORT"
  <2>1. ((a (-) f) (+) L) (+) u = ((a (+) L) (+) u) (-) f
    BY FeeLast
  <2>2. a (+) L = (b (+) L) (+) r
    BY <1>4, <1>5, SumSwaps
  <2>3. PICK c \in FractionSet : c = b (+) L
    BY <1>4, CommonTerms, SumIs DEF Lowest
  <2>4. (c (+) r) (+) u = c (+) (r (+) u)
    BY SumAssociates
  <2>5. S = r (+) u
    BY <1>3, <1>8, Zenon
  <2>6. Equity(b (+) (r (-) f), Q, p) = ((a (-) f) (+) L) (+) u
    <3>1. UnrealizedPnl(Q["LONG"], "LONG", p) = L /\ UnrealizedPnl(Q["SHORT"], "SHORT", p) = u
      BY <1>1, <1>2, <1>3, <1>8
    <3> QED BY <1>6, <3>1, Zenon DEF Equity
  <2>7. Equity(b, P, p) = c (+) S
    BY <1>3, <2>3, Zenon DEF Equity
  <2> QED BY <2>1, <2>2, <2>3, <2>4, <2>5, <2>6, <2>7, Zenon
<1> QED BY <1>2, <1>7, <1>8

\* What the position loses at the stop t.
Loss(x, s, t) == (x.entry (-) t) (.) Whole(x.qty * Sign(s))

LEMMA LossIs ==
    ASSUME NEW x \in Positions, NEW s \in Sides, NEW t \in Lowest,
           NEW E \in Int, NEW T \in Int, NEW D \in Nat \ {0}, Is(x.entry, E, D), Is(t, T, D),
           NEW K \in Int
    PROVE  /\ Loss(x, s, t) \in Lowest
           /\ Loss(x, s, t) \preceq Whole(K) <=> (E - T) * (x.qty * Sign(s)) <= K * D
<1>1. PICK k \in Int : k = x.qty * Sign(s)
  BY SignOf DEF Positions
<1>2. x.entry \in FractionSet /\ t \in FractionSet
  BY DEF Positions, Lowest
<1>3. PICK c \in Lowest : c = (x.entry (-) t) (.) Whole(k) /\ Is(c, (E - T) * k, D)
  BY <1>2, GainIs
<1>4. Whole(K) \in FractionSet /\ Is(Whole(K), K, 1) /\ c \in FractionSet
  BY WholeIs DEF Lowest
<1>5. PICK n \in Int : n = (E - T) * k
  BY Product
<1>6. c \preceq Whole(K) <=> n * 1 <= K * D
  BY <1>3, <1>4, <1>5, AtMostIs
<1>7. n * 1 = n
  OBVIOUS
<1> QED BY <1>1, <1>3, <1>5, <1>6, <1>7, Zenon DEF Loss

\* An order that may lose so much adds no more.
LEMMA LossEnlarged ==
    ASSUME NEW x \in Positions, NEW s \in Sides, NEW t \in Lowest,
           NEW q \in Nat \ {0}, NEW l \in Nat \ {0}, NEW p \in Nat \ {0},
           NEW K \in Int, Loss(x, s, t) \preceq Whole(K),
           NEW B \in Int, (Absolute(Whole(p) (-) t) (.) Whole(q)) \preceq Whole(B)
    PROVE  Loss(Enlarged(x, q, l, p), s, t) \preceq Whole(K + B)
<1>1. PICK E \in Int, T \in Int, D \in Nat \ {0} : Is(x.entry, E, D) /\ Is(t, T, D)
  BY CommonTerms DEF Positions, Lowest
<1>2. PICK h \in Nat, j \in Nat \ {0}, g \in {1, -1} :
         h = x.qty /\ j = x.qty + q /\ j = h + q /\ g = Sign(s)
  BY SignOf DEF Positions
<1>3. PICK e \in Int, d \in Nat \ {0} : e = E * h + (p * q) * D /\ d = D * j
  BY Product, Positive
<1>4. PICK y \in Positions : y = Enlarged(x, q, l, p) /\ y.qty = j /\ Is(y.entry, e, d)
  <2>1. Enlarged(x, q, l, p) \in Positions /\ Enlarged(x, q, l, p).qty = x.qty + q
    BY EnlargedFacts
  <2>2. e = E * x.qty + (p * q) * D /\ d = D * (x.qty + q)
    BY <1>2, <1>3, Zenon
  <2>3. Is(Enlarged(x, q, l, p).entry, e, d)
    BY <1>1, <2>2, EnlargedEntry
  <2> QED BY <1>2, <2>1, <2>3, Zenon
<1>5. PICK v \in Int : v = T * j /\ Is(t, v, d)
  <2>1. T * j \in Int /\ Is(t, T * j, D * j)
    BY <1>1, ScaledIs DEF Lowest
  <2> QED BY <1>3, <2>1, Zenon
<1>6. Loss(y, s, t) \preceq Whole(K + B) <=> (e - v) * (j * g) <= (K + B) * d
  <2>1. K + B \in Int
    OBVIOUS
  <2>2. Loss(y, s, t) \preceq Whole(K + B) <=> (e - v) * (y.qty * Sign(s)) <= (K + B) * d
    BY <1>4, <1>5, <2>1, LossIs
  <2> QED BY <1>2, <1>4, <2>2, Zenon
<1>7. (E - T) * (h * g) <= K * D
  <2>1. Loss(x, s, t) \preceq Whole(K) <=> (E - T) * (x.qty * Sign(s)) <= K * D
    BY <1>1, LossIs
  <2> QED BY <1>2, <2>1, Zenon
<1>8. PICK w \in Int : w = p * D - T
  BY Product
<1>9. Magnitude(w) * q <= B * D
  <2>1. Whole(p) \in FractionSet /\ p * D \in Int /\ Is(Whole(p), p * D, D)
    <3>1. p \in Int
      OBVIOUS
    <3> QED BY <3>1, WholeOver
  <2>2. PICK c \in FractionSet : c = Whole(p) (-) t /\ Is(c, w, D)
    BY <1>1, <1>8, <2>1, DifferenceIs DEF Lowest
  <2>3. PICK a \in FractionSet : a = Absolute(c) /\ Is(a, Magnitude(w), D)
    BY <2>2, AbsoluteIs
  <2>4. PICK m \in Int : m = Magnitude(w)
    BY DEF Magnitude
  <2>5. PICK o \in FractionSet : o = a (.) Whole(q) /\ Is(o, m * q, D)
    <3>1. q \in Int
      OBVIOUS
    <3> QED BY <2>3, <2>4, <3>1, TimesWhole DEF Lowest
  <2>6. Whole(B) \in FractionSet /\ Is(Whole(B), B, 1)
    BY WholeIs DEF Lowest
  <2>7. PICK n \in Int : n = m * q
    BY <2>4, Product
  <2>8. o \preceq Whole(B) <=> n * 1 <= B * D
    BY <2>5, <2>6, <2>7, AtMostIs
  <2>9. n * 1 = n
    OBVIOUS
  <2> QED BY <2>2, <2>3, <2>4, <2>5, <2>7, <2>8, <2>9, Zenon
<1>10. e - v = (E - T) * h + w * q
  <2>1. (p * q) * D = (p * D) * q
    BY Product
  <2>2. (E - T) * h = E * h - T * h /\ w * q = (p * D) * q - T * q /\ T * j = T * h + T * q
    BY <1>2, <1>8, Product
  <2>3. PICK i1 \in Int, i2 \in Int, i3 \in Int, i4 \in Int :
           i1 = E * h /\ i2 = (p * D) * q /\ i3 = T * h /\ i4 = T * q
    BY Product
  <2> QED BY <1>3, <1>5, <2>1, <2>2, <2>3
<1>11. PICK a \in Int, b \in Int, m \in Int, K1 \in Int, B1 \in Int :
          a = (E - T) * h /\ b = w * q /\ m = Magnitude(w) * q /\ K1 = K * D /\ B1 = B * D
  BY Product DEF Magnitude
<1>12. a * g <= K1
  BY <1>2, <1>7, <1>11, Product
<1>13. b * g <= m
  <2>1. w * g <= Magnitude(w) /\ w * g \in Int /\ Magnitude(w) \in Int
    BY DEF Magnitude
  <2>2. (w * g) * q <= Magnitude(w) * q
    BY <2>1, Cancel
  <2>3. b * g = (w * g) * q
    BY <1>11, Product
  <2> QED BY <1>11, <2>2, <2>3, Zenon
<1>14. (a + b) * g <= K1 + B1
  <2>1. (a + b) * g = a * g + b * g /\ a * g \in Int /\ b * g \in Int
    BY Product
  <2> QED BY <1>9, <1>11, <1>12, <1>13, <2>1
<1>15. (e - v) * (j * g) = ((a + b) * g) * j
  BY <1>10, <1>11, Product
<1>16. (K + B) * d = (K1 + B1) * j
  BY <1>3, <1>11, Product
<1>17. ((a + b) * g) * j <= (K1 + B1) * j
  <2>1. (a + b) * g \in Int /\ K1 + B1 \in Int
    BY Product
  <2> QED BY <1>14, <2>1, Cancel
<1> QED BY <1>4, <1>6, <1>15, <1>16, <1>17, Zenon

\* A part of the position loses no more than the whole.
LEMMA LossReduced ==
    ASSUME NEW x \in Positions, NEW s \in Sides, NEW t \in Lowest,
           NEW q \in 0 .. x.qty, q # x.qty,
           NEW K \in Nat, Loss(x, s, t) \preceq Whole(K)
    PROVE  Loss(Reduced(x, q), s, t) \preceq Whole(K)
<1>1. PICK E \in Int, T \in Int, D \in Nat \ {0} : Is(x.entry, E, D) /\ Is(t, T, D)
  BY CommonTerms DEF Positions, Lowest
<1>2. PICK M \in Int, F \in Nat \ {0} : Is(x.margin, M, F)
  BY LowestIs DEF Positions
<1>3. PICK y \in Positions : y = Reduced(x, q) /\ y.qty = x.qty - q /\ y.entry = x.entry
  BY <1>2, ReducedIs
<1>4. PICK h \in Nat, j \in Nat, g \in {1, -1} :
         h = x.qty /\ j = x.qty - q /\ g = Sign(s) /\ j <= h
  BY SignOf DEF Positions
<1>5. Is(y.entry, E, D) /\ K \in Int
  BY <1>1, <1>3
<1>6. /\ Loss(x, s, t) \preceq Whole(K) <=> (E - T) * (x.qty * Sign(s)) <= K * D
      /\ Loss(y, s, t) \preceq Whole(K) <=> (E - T) * (y.qty * Sign(s)) <= K * D
  BY <1>1, <1>5, LossIs
<1>7. PICK a \in Int, B \in Nat : a = (E - T) * g /\ B = K * D
  <2>1. K * D \in Nat
    OBVIOUS
  <2> QED BY <2>1, Product
<1>8. (E - T) * (h * g) = a * h /\ (E - T) * (j * g) = a * j
  BY <1>4, <1>7, Product
<1>9. a * h <= B => a * j <= B
  BY <1>4
<1> QED BY <1>3, <1>4, <1>6, <1>7, <1>8, <1>9, Zenon

\* A better stop loses no more.
LEMMA LossBetter ==
    ASSUME NEW x \in Positions, NEW s \in Sides, NEW t \in Lowest, NEW u \in Lowest,
           AtLeast(s, u, t), NEW K \in Int, Loss(x, s, t) \preceq Whole(K)
    PROVE  Loss(x, s, u) \preceq Whole(K)
<1>1. PICK E \in Int, T \in Int, U \in Int, D \in Nat \ {0} :
         Is(x.entry, E, D) /\ Is(t, T, D) /\ Is(u, U, D)
  BY CommonTerms3 DEF Positions, Lowest
<1>2. PICK h \in Nat, g \in {1, -1} : h = x.qty /\ g = Sign(s)
  BY SignOf DEF Positions
<1>3. /\ Loss(x, s, t) \preceq Whole(K) <=> (E - T) * (x.qty * Sign(s)) <= K * D
      /\ Loss(x, s, u) \preceq Whole(K) <=> (E - U) * (x.qty * Sign(s)) <= K * D
  BY <1>1, LossIs
<1>4. T * g <= U * g
  <2>1. t \in FractionSet /\ u \in FractionSet
    BY DEF Lowest
  <2>2. (t \preceq u <=> T * D <= U * D) /\ (u \preceq t <=> U * D <= T * D)
    BY <1>1, <2>1, AtMostIs
  <2>3. (T * D <= U * D <=> T <= U) /\ (U * D <= T * D <=> U <= T)
    BY Cancel
  <2>4. CASE s = "LONG"
    BY <1>2, <2>2, <2>3, <2>4 DEF AtLeast, Sign
  <2>5. CASE s # "LONG"
    BY <1>2, <2>2, <2>3, <2>5 DEF AtLeast, Sign
  <2> QED BY <2>4, <2>5
<1>5. PICK a \in Int, b \in Int : a = (E - T) * g /\ b = (E - U) * g /\ b <= a
  BY <1>2, <1>4
<1>6. (E - T) * (h * g) = a * h /\ (E - U) * (h * g) = b * h
  BY <1>2, <1>5, Product
<1>7. b * h <= a * h
  BY <1>5
<1>8. a * h <= K * D => b * h <= K * D
  <2>1. a * h \in Int /\ b * h \in Int /\ K * D \in Int
    BY Product
  <2> QED BY <1>7, <2>1
<1> QED BY <1>2, <1>3, <1>6, <1>8, Zenon

--------------------------------------------------------------------------------
(* Prices of a position.                                                   *)

LEMMA AtLeastOrder ==
    ASSUME NEW s \in Sides, NEW a \in Lowest, NEW b \in Lowest, NEW c \in Lowest
    PROVE  /\ AtLeast(s, a, a)
           /\ AtLeast(s, a, b) \/ AtLeast(s, b, a)
           /\ AtLeast(s, a, b) /\ AtLeast(s, b, c) => AtLeast(s, a, c)
<1>1. /\ a \preceq a /\ (a \preceq b \/ b \preceq a)
      /\ a \preceq b /\ b \preceq c => a \preceq c
      /\ c \preceq b /\ b \preceq a => c \preceq a
  BY Order
<1> QED BY <1>1 DEF AtLeast

LEMMA BetterIs ==
    ASSUME NEW s \in Sides, NEW a \in Lowest, NEW b \in Lowest
    PROVE  /\ Better(s, a, b) \in {a, b}
           /\ AtLeast(s, Better(s, a, b), a) /\ AtLeast(s, Better(s, a, b), b)
BY AtLeastOrder DEF Better

LEMMA BehindIs ==
    ASSUME NEW s \in Sides, NEW a \in Lowest, NEW percent \in Nat
    PROVE  /\ Behind(s, a, percent) \in Lowest
           /\ a.num > 0 /\ percent # 100 => Behind(s, a, percent) # Zero
<1>1. PICK k \in Int : k = 100 - Sign(s) * percent /\ (percent # 100 => k # 0)
  BY SignOf
<1>2. a \in FractionSet /\ a.num \in Int /\ a.den \in Nat \ {0} /\ Is(a, a.num, a.den)
  BY LowestIs
<1>3. Frac(k, 100) \in FractionSet /\ Is(Frac(k, 100), k, 100)
  BY FracIsLeast
<1>4. PICK c \in Lowest : c = a (.) Frac(k, 100) /\ Is(c, a.num * k, a.den * 100)
  <2>1. 100 \in Nat \ {0}
    OBVIOUS
  <2>2. /\ (a (.) Frac(k, 100)) \in Lowest
        /\ Is(a (.) Frac(k, 100), a.num * k, a.den * 100)
    BY <1>2, <1>3, <2>1, TimesIs, Zenon
  <2> QED BY <2>2, Zenon
<1>5. Behind(s, a, percent) = c
  BY <1>1, <1>4, Zenon DEF Behind
<1>6. ASSUME a.num > 0, percent # 100 PROVE c # Zero
  <2>1. PICK n \in Int, d \in Nat \ {0} : n = a.num * k /\ d = a.den * 100
    BY <1>2, Product, Positive
  <2>2. n # 0
    BY <1>1, <1>2, <1>6, <2>1
  <2>3. c.num = 0 <=> n = 0
    BY <1>4, <2>1, SignIs DEF Lowest
  <2> QED BY <2>2, <2>3, ZeroIs
<1> QED BY <1>5, <1>6

LEMMA WholeOrder ==
    ASSUME NEW a \in Int, NEW b \in Int
    PROVE  /\ Whole(a) \preceq Whole(b) <=> a <= b
           /\ Whole(a).num = a
BY DEF Whole, \preceq

\* The spacing of two prices.
LEMMA SpacedIs ==
    ASSUME NEW a \in Nat \ {0}, NEW b \in Nat, NEW percent \in Nat
    PROVE  Spaced(Whole(a), Whole(b), percent) <=> percent * a <= Magnitude(b - a) * 100
<1>1. a \in Int /\ b \in Int /\ percent \in Int /\ b - a \in Int /\ 100 \in Int /\ 1 \in Nat \ {0}
  OBVIOUS
<1>2. /\ Whole(a) \in FractionSet /\ Is(Whole(a), a, 1)
      /\ Whole(b) \in FractionSet /\ Is(Whole(b), b, 1)
      /\ Whole(percent) \in FractionSet /\ Is(Whole(percent), percent, 1)
  BY <1>1, WholeIs DEF Lowest
<1>3. PICK c \in FractionSet : c = Whole(b) (-) Whole(a) /\ Is(c, b - a, 1)
  BY <1>1, <1>2, DifferenceIs DEF Lowest
<1>4. PICK e \in FractionSet : e = c (/) Whole(a) /\ Is(e, b - a, a)
  <2>1. (c (/) Whole(a)) \in Lowest /\ Is(c (/) Whole(a), b - a, 1 * a)
    BY <1>1, <1>3, OverWhole
  <2>2. 1 * a = a
    OBVIOUS
  <2> QED BY <2>1, <2>2, Zenon DEF Lowest
<1>5. PICK m \in FractionSet : m = e (.) Whole(100) /\ Is(m, (b - a) * 100, a)
  BY <1>1, <1>4, TimesWhole DEF Lowest
<1>6. (b - a) * 100 \in Int /\ Magnitude((b - a) * 100) = Magnitude(b - a) * 100
  BY DEF Magnitude
<1>7. PICK n \in Int : n = Magnitude(b - a) * 100
  BY DEF Magnitude
<1>8. PICK g \in FractionSet : g = Absolute(m) /\ Is(g, n, a)
  <2>1. Absolute(m) \in FractionSet /\ Is(Absolute(m), Magnitude((b - a) * 100), a)
    BY <1>5, <1>6, AbsoluteIs
  <2> QED BY <1>6, <1>7, <2>1, Zenon
<1>9. Whole(percent) \preceq g <=> percent * a <= n * 1
  BY <1>1, <1>2, <1>8, AtMostIs
<1>10. n * 1 = n
  OBVIOUS
<1> QED BY <1>3, <1>4, <1>5, <1>7, <1>8, <1>9, <1>10, Zenon DEF Spaced, MovePercent

\* What is spaced from a price is spaced from every better one.
LEMMA SpacedFurther ==
    ASSUME NEW s \in Sides, NEW p \in Nat \ {0}, NEW a \in Nat \ {0}, NEW e \in Nat \ {0},
           NEW percent \in Nat,
           AtLeast(s, Whole(e), Whole(a)), ~AtLeast(s, Whole(p), Whole(a)),
           Spaced(Whole(a), Whole(p), percent)
    PROVE  Spaced(Whole(e), Whole(p), percent) /\ ~AtLeast(s, Whole(p), Whole(e))
<1>1. /\ Spaced(Whole(a), Whole(p), percent) <=> percent * a <= Magnitude(p - a) * 100
      /\ Spaced(Whole(e), Whole(p), percent) <=> percent * e <= Magnitude(p - e) * 100
  BY SpacedIs
<1>2. PICK x \in Nat, y \in Nat : x = percent * a /\ y = percent * e
  OBVIOUS
<1>3. CASE s = "LONG"
  <2>1. a <= e /\ p < a
    BY <1>3, WholeOrder DEF AtLeast
  <2>2. x <= (a - p) * 100
    BY <1>1, <1>2, <2>1 DEF Magnitude
  <2>3. y <= (e - p) * 100
    <3>1. percent < 100
      <4>1. x < 100 * a
        BY <2>2
      <4> QED BY <1>2, <4>1
    <3>2. y - x <= 100 * (e - a)
      <4>1. y - x = percent * (e - a)
        BY <1>2
      <4>2. PICK k \in Nat : k = e - a
        BY <2>1
      <4>3. percent * k <= 100 * k
        BY <3>1
      <4> QED BY <4>1, <4>2, <4>3
    <3> QED BY <2>2, <3>2
  <2>4. ~AtLeast(s, Whole(p), Whole(e))
    BY <1>3, <2>1, WholeOrder DEF AtLeast
  <2> QED BY <1>1, <1>2, <2>1, <2>3, <2>4 DEF Magnitude
<1>4. CASE s # "LONG"
  <2>1. e <= a /\ a < p
    BY <1>4, WholeOrder DEF AtLeast
  <2>2. x <= (p - a) * 100
    BY <1>1, <1>2, <2>1 DEF Magnitude
  <2>3. y <= x
    BY <1>2, <2>1
  <2>4. y <= (p - e) * 100
    BY <2>1, <2>2, <2>3
  <2>5. ~AtLeast(s, Whole(p), Whole(e))
    BY <1>4, <2>1, WholeOrder DEF AtLeast
  <2> QED BY <1>1, <1>2, <2>1, <2>4, <2>5 DEF Magnitude
<1> QED BY <1>3, <1>4

LEMMA AdvancedIs ==
    ASSUME NEW s \in Sides, NEW n, NEW b \in Lowest,
           pos[s].entry \in Lowest, stop[s] \in Lowest
    PROVE  /\ AdvancedStop(s, n, b) \in Lowest
           /\ stop[s] # Zero => AtLeast(s, AdvancedStop(s, n, b), stop[s])
           /\ stop[s] # Zero /\ pos[s].entry.num > 0 /\ b.num > 0 =>
                 AdvancedStop(s, n, b) # Zero
<1>1. StopPercent \in Nat /\ TrailPercent \in Nat \ {100}
  BY DistanceAssumption
<1> DEFINE now == IF stop[s] = Zero
                  THEN Behind(s, pos[s].entry, StopPercent) ELSE stop[s]
           even == IF BreakevenAfter > 0 /\ n >= BreakevenAfter
                   THEN Better(s, pos[s].entry, now) ELSE now
           trail == Behind(s, b, TrailPercent)
<1>2. now \in Lowest
  BY <1>1, BehindIs
<1>3. even \in Lowest /\ even \in {now, pos[s].entry} /\ AtLeast(s, even, now)
  <2> HIDE DEF now
  <2> QED BY <1>2, BetterIs, AtLeastOrder
<1>4. trail \in Lowest /\ (b.num > 0 => trail # Zero)
  BY <1>1, BehindIs
<1>5. /\ AdvancedStop(s, n, b) \in {even, trail}
      /\ AtLeast(s, AdvancedStop(s, n, b), even)
  <2>1. AdvancedStop(s, n, b) = IF TrailAfter > 0 /\ n >= TrailAfter
                                THEN Better(s, trail, even) ELSE even
    BY DEF AdvancedStop
  <2> HIDE DEF even, trail
  <2> QED BY <1>3, <1>4, <2>1, BetterIs, AtLeastOrder
<1>6. stop[s] # Zero => now = stop[s]
  OBVIOUS
<1>7. pos[s].entry.num > 0 => pos[s].entry # Zero
  BY WholeOrder DEF Zero
<1> HIDE DEF now, even, trail
<1>8. AdvancedStop(s, n, b) \in Lowest
  BY <1>3, <1>4, <1>5
<1>9. AtLeast(s, AdvancedStop(s, n, b), now)
  BY <1>2, <1>3, <1>5, <1>8, AtLeastOrder
<1> QED BY <1>3, <1>4, <1>5, <1>6, <1>7, <1>8, <1>9

--------------------------------------------------------------------------------
(* The invariant.                                                          *)

Intents ==
    [action : {"open"}, side : Sides, stop : Lowest]
    \cup [action : {"close"}, side : Sides]
    \cup [action : {"reduce"}, side : Sides, percent : 0 .. 99]

AccountTypes ==
    /\ strategy \in Strategies /\ hedge \in BOOLEAN
    /\ bars \in 0 .. MaxBars /\ price \in Prices
    /\ queue \in Seq(Intents)
    /\ balance \in Lowest
    /\ pos \in [Sides -> Positions]
    /\ last \in [Sides -> Lowest] /\ stop \in [Sides -> Lowest]
    /\ best \in [Sides -> Lowest] /\ entered \in [Sides -> Lowest]
    /\ hits \in [Sides -> 0 .. Len(TpPercents)]

\* A position is closed altogether, or has a price, a margin and a step.
PositionSane(x) ==
    /\ x.margin.num >= 0
    /\ x.qty = 0 => x = NoPosition
    /\ x.qty > 0 => x.entry.num > 0 /\ x.steps > 0
OpenOrNone == \A s \in Sides : PositionSane(pos[s])

LadderKeepsNoStop == strategy = "ladder" => \A s \in Sides : stop[s] = Zero

ClosesNext(s) == queue = <<CloseIntent(s)>>

\* a and b are closes, and a is no better than b.
Worse(s, a, b) == \E p, q \in Prices : a = Whole(p) /\ b = Whole(q) /\ AtLeast(s, b, a)

\* The scanner's intent, the only one: an entry carries the stop the strategy
\* keeps and is at the mark, spaced from the last one that filled.
ScannerOpens(i) ==
    /\ queue = <<i>>
    /\ i.action = "open" =>
          /\ i.stop = stop[i.side] /\ stop[i.side] # Zero
          /\ last[i.side] = Whole(price)
          /\ Held(i.side) =>
                /\ Spaced(entered[i.side], Whole(price), EntrySpacing)
                /\ ~AtLeast(i.side, Whole(price), entered[i.side])

QueueInv == strategy = "scanner" => queue = <<>> \/ \E i \in Intents : ScannerOpens(i)

BestInv == \A s \in Sides : best[s] = Zero \/ best[s].num > 0

\* An open position that is not about to be closed has a stop, and the last
\* attempt was no better than the last entry.
HeldInv ==
    strategy = "scanner" =>
        \A s \in Sides :
            Held(s) /\ ~ClosesNext(s) =>
                stop[s] # Zero /\ Worse(s, last[s], entered[s])

SimInv ==
    /\ AccountTypes /\ OpenOrNone /\ LadderKeepsNoStop
    /\ QueueInv /\ BestInv /\ HeldInv
    /\ MarginFits /\ UsedWithinCapital /\ PlannedLossBounded

--------------------------------------------------------------------------------
(* The intents.                                                            *)

LEMMA IntentIs ==
    ASSUME NEW i \in Intents
    PROVE  /\ i.side \in Sides /\ i.action \in {"open", "close", "reduce"}
           /\ i.action = "open" => i.stop \in Lowest
           /\ i.action = "reduce" => i.percent \in 0 .. 99
BY DEF Intents

LEMMA IntentsMade ==
    ASSUME NEW s \in Sides
    PROVE  /\ \A t \in Lowest : OpenIntent(s, t) \in Intents
           /\ CloseIntent(s) \in Intents
           /\ \A c \in 0 .. 99 : ReduceIntent(s, c) \in Intents
BY DEF Intents, OpenIntent, CloseIntent, ReduceIntent

LEMMA SidesAre ==
    ASSUME NEW s \in Sides
    PROVE  /\ Opposite(s) \in Sides /\ Opposite(s) # s
           /\ \A t \in Sides : t = s \/ t = Opposite(s)
BY SidesAssumption DEF Opposite

LEMMA PriceIs ==
    ASSUME NEW p \in Prices
    PROVE  /\ p \in Nat \ {0} /\ Whole(p) \in Lowest /\ Whole(p).num > 0
           /\ Zero \in Lowest /\ Zero.num = 0 /\ Whole(p) # Zero
<1>1. p \in Nat \ {0} /\ p \in Int /\ 0 \in Int
  BY PricesAssumption
<1>2. Whole(p) \in Lowest /\ Whole(p).num = p /\ Whole(0) \in Lowest /\ Whole(0).num = 0
  BY <1>1, WholeIs, WholeOrder
<1>3. QED
  BY <1>1, <1>2 DEF Zero

LEMMA CloseQtyIs ==
    ASSUME NEW x \in Positions, NEW c \in 0 .. 99
    PROVE  CloseQty(x, c) \in 0 .. x.qty
<1>1. x.qty \in Nat /\ c \in Nat /\ 100 \in Nat \ {0}
  BY DEF Positions
<1>2. PICK m \in Int : m = x.qty * c
  BY <1>1
<1>3. PICK q \in Int, r \in 0 .. 100 - 1 :
         q = m \div 100 /\ r = m % 100 /\ m = q * 100 + r
  BY <1>1, <1>2, Division, Zenon
<1>4. x.qty * c <= x.qty * 99 /\ 0 <= x.qty * c
  BY <1>1
<1>5. m <= 99 * x.qty /\ 0 <= m
  BY <1>1, <1>2, <1>4
<1>6. q \in 0 .. x.qty
  BY <1>1, <1>3, <1>5
<1>7. CloseQty(x, c) = IF q = 0 THEN x.qty ELSE q
  BY <1>2, <1>3, Zenon DEF CloseQty
<1>8. QED
  BY <1>1, <1>6, <1>7

LEMMA NoPositionIs == NoPosition \in Positions /\ PositionSane(NoPosition)
<1>1. Zero \in Lowest /\ Zero.num = 0
  BY WholeIs, WholeOrder, 0 \in Int, Zenon DEF Zero
<1>2. QED
  BY <1>1 DEF NoPosition, Positions, PositionSane

LEMMA BestWithIs ==
    ASSUME AccountTypes, OpenOrNone, BestInv, NEW p \in Prices
    PROVE  /\ BestWith(p) \in [Sides -> Lowest]
           /\ \A s \in Sides :
                 /\ BestWith(p)[s] = Zero \/ BestWith(p)[s].num > 0
                 /\ Held(s) => BestWith(p)[s].num > 0
<1>1. SUFFICES ASSUME NEW s \in Sides
               PROVE  /\ BestWith(p)[s] \in Lowest
                      /\ BestWith(p)[s] = Zero \/ BestWith(p)[s].num > 0
                      /\ Held(s) => BestWith(p)[s].num > 0
  BY DEF BestWith
<1>2. /\ best[s] \in Lowest /\ pos[s] \in Positions /\ pos[s].entry \in Lowest
      /\ pos[s].qty \in Nat
  BY DEF AccountTypes, Positions
<1>3. best[s] = Zero \/ best[s].num > 0
  BY DEF BestInv
<1>4. Held(s) => pos[s].entry.num > 0
  BY <1>2 DEF OpenOrNone, PositionSane, Held
<1>5. Whole(p) \in Lowest /\ Whole(p).num > 0
  BY PriceIs
<1>6. DEFINE b == IF best[s] = Zero THEN pos[s].entry ELSE best[s]
<1>7. b \in Lowest /\ (Held(s) => b.num > 0)
  BY <1>2, <1>3, <1>4
<1>8. Better(s, Whole(p), b) \in {Whole(p), b}
  BY <1>5, <1>7, BetterIs
<1>9. BestWith(p)[s] = IF ~Held(s) THEN best[s] ELSE Better(s, Whole(p), b)
  BY DEF BestWith
<1>10. QED
  BY <1>2, <1>3, <1>5, <1>7, <1>8, <1>9

--------------------------------------------------------------------------------
(* The steps: what each takes and leaves.                                  *)

\* What the strategy keeps, and the intents it makes.
TradeTypes ==
    /\ queue \in Seq(Intents)
    /\ last \in [Sides -> Lowest] /\ stop \in [Sides -> Lowest]
    /\ best \in [Sides -> Lowest] /\ hits \in [Sides -> 0 .. Len(TpPercents)]

AccountSane ==
    /\ balance \in Lowest /\ entered \in [Sides -> Lowest]
    /\ pos \in [Sides -> Positions] /\ OpenOrNone

LEMMA TypesAre == AccountTypes /\ OpenOrNone <=>
    /\ strategy \in Strategies /\ hedge \in BOOLEAN
    /\ bars \in 0 .. MaxBars /\ price \in Prices
    /\ TradeTypes /\ AccountSane
BY DEF AccountTypes, TradeTypes, AccountSane

LEMMA StopIs ==
    ASSUME NEW s \in Sides, NEW p \in Prices
    PROVE  Behind(s, Whole(p), StopPercent) \in Lowest /\ Behind(s, Whole(p), StopPercent) # Zero
<1>1. StopPercent \in Nat /\ StopPercent # 100
  BY DistanceAssumption
<1>2. QED
  BY <1>1, PriceIs, BehindIs

LEMMA LadderTypes ==
    ASSUME AccountTypes, NEW s \in Sides, NEW p \in Prices, LadderBar(s, p)
    PROVE  TradeTypes'
<1>1. Opposite(s) \in Sides
  BY SidesAre
<1>2. Flip(s) \in Seq(Intents)
  BY <1>1, IntentsMade DEF Flip
<1>3. /\ CloseIntent(s) \in Intents
      /\ OpenIntent(s, Behind(s, Whole(p), StopPercent)) \in Intents
      /\ Whole(p) \in Lowest /\ Zero \in Lowest
  BY IntentsMade, StopIs, PriceIs
<1>4. queue' \in Seq(Intents)
  BY <1>2, <1>3 DEF LadderBar, LadderTakeProfit, LadderEntry, LadderWait
<1>5. last' \in [Sides -> Lowest]
  BY <1>3 DEF LadderBar, LadderTakeProfit, LadderEntry, LadderWait, AccountTypes
<1>6. QED
  BY <1>4, <1>5 DEF LadderBar, AccountTypes, TradeTypes

\* What the take-profit of a level gives.
LEMMA TakeProfitIs ==
    ASSUME AccountTypes, OpenOrNone, BestInv,
           NEW s \in Sides, NEW p \in Prices, ScannerTakeProfit(s, p)
    PROVE  /\ Held(s)
           /\ hits[s] + 1 \in 1 .. Len(TpPercents)
           /\ stop' = [stop EXCEPT ![s] = AdvancedStop(s, hits[s] + 1, BestWith(p)[s])]
           /\ AdvancedStop(s, hits[s] + 1, BestWith(p)[s]) \in Lowest
           /\ stop[s] # Zero =>
                 /\ AdvancedStop(s, hits[s] + 1, BestWith(p)[s]) # Zero
                 /\ AtLeast(s, AdvancedStop(s, hits[s] + 1, BestWith(p)[s]), stop[s])
           /\ \/ queue' = <<CloseIntent(s)>>
              \/ \E c \in 0 .. 99 : queue' = <<ReduceIntent(s, c)>>
<1>1. Held(s) /\ hits[s] < Len(TpPercents)
  BY DEF ScannerTakeProfit, TpReached
<1>2. Len(TpPercents) \in Nat /\ hits[s] \in 0 .. Len(TpPercents)
  BY LevelsAssumption DEF AccountTypes
<1>3. PICK n \in 1 .. Len(TpPercents) : n = hits[s] + 1
  BY <1>1, <1>2
<1>4. n \in 1 .. Len(TpCloses) /\ TpCloses[n] \in Nat
  BY <1>3, LevelsAssumption
<1>5. \/ queue' = <<CloseIntent(s)>>
      \/ \E c \in 0 .. 99 : queue' = <<ReduceIntent(s, c)>>
  <2>1. CASE n = Len(TpPercents) \/ TpCloses[n] >= 100
    BY <1>3, <2>1, Zenon DEF ScannerTakeProfit
  <2>2. CASE ~(n = Len(TpPercents) \/ TpCloses[n] >= 100)
    <3>1. queue' = <<ReduceIntent(s, TpCloses[n])>>
      BY <1>3, <2>2, Zenon DEF ScannerTakeProfit
    <3>2. PICK c \in Nat : c = TpCloses[n]
      BY <1>4, Zenon
    <3>3. ~(c >= 100)
      BY <2>2, <3>2, Zenon
    <3>4. c \in 0 .. 99
      BY <3>3
    <3>5. QED
      BY <3>1, <3>2, <3>4, Zenon
  <2>3. QED
    BY <2>1, <2>2, Zenon
<1>6. stop' = [stop EXCEPT ![s] = AdvancedStop(s, hits[s] + 1, BestWith(p)[s])]
  BY Zenon DEF ScannerTakeProfit
<1>7. BestWith(p)[s] \in Lowest /\ BestWith(p)[s].num > 0
  BY <1>1, BestWithIs
<1>8. pos[s].entry \in Lowest /\ stop[s] \in Lowest /\ pos[s].entry.num > 0
  BY <1>1 DEF AccountTypes, Positions, OpenOrNone, PositionSane, Held
<1>9. /\ AdvancedStop(s, hits[s] + 1, BestWith(p)[s]) \in Lowest
      /\ stop[s] # Zero =>
            /\ AdvancedStop(s, hits[s] + 1, BestWith(p)[s]) # Zero
            /\ AtLeast(s, AdvancedStop(s, hits[s] + 1, BestWith(p)[s]), stop[s])
  BY <1>7, <1>8, AdvancedIs
<1>10. QED
  BY <1>1, <1>3, <1>5, <1>6, <1>9

LEMMA ScannerTypes ==
    ASSUME AccountTypes, OpenOrNone, BestInv, HeldInv, NEW p \in Prices, ScannerBar(p)
    PROVE  TradeTypes'
<1>1. /\ BestWith(p) \in [Sides -> Lowest] /\ Whole(p) \in Lowest /\ Zero \in Lowest
      /\ 0 \in 0 .. Len(TpPercents)
  BY BestWithIs, PriceIs, LevelsAssumption
<1>2. CASE ScannerWait(p)
  BY <1>1, <1>2 DEF ScannerWait, AccountTypes, TradeTypes
<1>3. ASSUME NEW s \in Sides, ScannerStop(s, p)
      PROVE  TradeTypes'
  <2>1. CloseIntent(s) \in Intents
    BY IntentsMade
  <2>2. QED
    BY <1>1, <1>3, <2>1 DEF ScannerStop, AccountTypes, TradeTypes
<1>4. ASSUME NEW s \in Sides, ScannerTakeProfit(s, p)
      PROVE  TradeTypes'
  <2>1. /\ hits[s] + 1 \in 1 .. Len(TpPercents)
        /\ stop' = [stop EXCEPT ![s] = AdvancedStop(s, hits[s] + 1, BestWith(p)[s])]
        /\ AdvancedStop(s, hits[s] + 1, BestWith(p)[s]) \in Lowest
        /\ \/ queue' = <<CloseIntent(s)>>
           \/ \E c \in 0 .. 99 : queue' = <<ReduceIntent(s, c)>>
    BY <1>4, TakeProfitIs, Zenon
  <2>2. queue' \in Seq(Intents)
    <3>1. PICK i \in Intents : queue' = <<i>>
      BY <2>1, IntentsMade, Zenon
    <3>2. QED
      BY <3>1
  <2>3. hits' = [hits EXCEPT ![s] = hits[s] + 1] /\ best' = BestWith(p) /\ last' = last
    BY <1>4, Zenon DEF ScannerTakeProfit
  <2>4. hits[s] + 1 \in 0 .. Len(TpPercents)
    BY <2>1, LevelsAssumption
  <2>5. hits' \in [Sides -> 0 .. Len(TpPercents)]
    BY <2>3, <2>4 DEF AccountTypes
  <2>6. stop' \in [Sides -> Lowest]
    BY <2>1 DEF AccountTypes
  <2>7. QED
    BY <1>1, <2>2, <2>3, <2>5, <2>6 DEF AccountTypes, TradeTypes
<1>5. ASSUME NEW s \in Sides, ScannerFirst(s, p)
      PROVE  TradeTypes'
  <2>1. /\ Behind(s, Whole(p), StopPercent) \in Lowest
        /\ OpenIntent(s, Behind(s, Whole(p), StopPercent)) \in Intents
    BY IntentsMade, StopIs
  <2>2. QED
    BY <1>1, <1>5, <2>1 DEF ScannerFirst, AccountTypes, TradeTypes
<1>6. ASSUME NEW s \in Sides, ScannerAdd(s, p)
      PROVE  TradeTypes'
  <2>1. stop[s] \in Lowest
    BY DEF AccountTypes
  <2>2. OpenIntent(s, stop[s]) \in Intents
    BY <2>1, IntentsMade
  <2>3. QED
    BY <1>1, <1>6, <2>2 DEF ScannerAdd, AccountTypes, TradeTypes
<1>7. QED
  BY <1>2, <1>3, <1>4, <1>5, <1>6, Zenon DEF ScannerBar

LEMMA TakesTypes ==
    ASSUME AccountTypes, NEW action, TakesNext(action)
    PROVE  /\ Head(queue) \in Intents /\ Head(queue).action = action
           /\ queue' = Tail(queue) /\ queue' \in Seq(Intents)
BY DEF TakesNext, AccountTypes

\* A reduction or a close: a part of the position, or all of it.
Filled(s, qty) == TakesNext(Head(queue).action) /\ Head(queue).action # "open" /\ Fill(s, qty)

LEMMA FillIs ==
    ASSUME AccountTypes, FillClose \/ FillReduce
    PROVE  \E s \in Sides :
              \E qty \in 0 .. pos[s].qty :
                 /\ Filled(s, qty) /\ Head(queue) \in Intents
                 /\ Head(queue).action = "close" => Head(queue).side = s /\ qty = pos[s].qty
<1>1. CASE FillClose
  <2>1. /\ Head(queue) \in Intents /\ Head(queue).action = "close"
        /\ TakesNext("close")
    BY <1>1, TakesTypes DEF FillClose
  <2>2. PICK s \in Sides : s = Head(queue).side
    BY <2>1, IntentIs
  <2>3. pos[s].qty \in 0 .. pos[s].qty
    BY DEF AccountTypes, Positions
  <2>4. Filled(s, pos[s].qty)
    BY <1>1, <2>1, <2>2 DEF FillClose, Filled
  <2>5. QED
    BY <2>1, <2>2, <2>3, <2>4
<1>2. CASE FillReduce
  <2>1. /\ Head(queue) \in Intents /\ Head(queue).action = "reduce"
        /\ TakesNext("reduce")
    BY <1>2, TakesTypes DEF FillReduce
  <2>2. PICK s \in Sides : s = Head(queue).side /\ Head(queue).percent \in 0 .. 99
    BY <2>1, IntentIs
  <2>3. pos[s] \in Positions
    BY DEF AccountTypes
  <2>4. PICK qty \in 0 .. pos[s].qty : qty = CloseQty(pos[s], Head(queue).percent)
    BY <2>2, <2>3, CloseQtyIs
  <2>5. Filled(s, qty)
    BY <1>2, <2>1, <2>2, <2>4 DEF FillReduce, Filled
  <2>6. QED
    BY <2>1, <2>5
<1>3. QED
  BY <1>1, <1>2

\* An order the sizer lets through.
LEMMA OpenIs ==
    ASSUME AccountTypes, OpenOrNone, FillOpen
    PROVE  \E s \in Sides, q \in Nat \ {0}, l \in Nat \ {0} :
              /\ s = Head(queue).side /\ Head(queue) \in Intents
              /\ Head(queue).action = "open" /\ Head(queue).stop \in Lowest
              /\ q = OpenQty(price) /\ l \in BaseLeverage .. MaxLeverage
              /\ price * q <= MinInvestment * l
              /\ Opens(pos, s, price, Head(queue).stop)
              /\ balance' = balance (-) Fee(q, price)
              /\ pos' = [pos EXCEPT ![s] = Enlarged(pos[s], q, l, price)]
              /\ entered' = [entered EXCEPT ![s] = Whole(price)]
<1>1. Head(queue) \in Intents /\ Head(queue).action = "open"
  BY TakesTypes DEF FillOpen
<1>2. PICK s \in Sides : s = Head(queue).side /\ Head(queue).stop \in Lowest
  BY <1>1, IntentIs
<1>3. Opens(pos, s, price, Head(queue).stop)
  BY <1>2 DEF FillOpen
<1>4. price \in Nat \ {0} /\ Qualifying(price) # {}
  BY <1>3, PricesAssumption DEF AccountTypes, Opens
<1>5. PICK l \in BaseLeverage .. MaxLeverage, q \in Nat \ {0} :
         l = ChosenLeverage(price) /\ q = OpenQty(price) /\ price * q <= MinInvestment * l
  BY <1>4, OrderIs
<1>6. l \in Nat \ {0}
  BY <1>5, LeverageAssumption
<1>7. /\ balance' = balance (-) Fee(q, price)
      /\ pos' = [pos EXCEPT ![s] = Enlarged(pos[s], q, l, price)]
      /\ entered' = [entered EXCEPT ![s] = Whole(price)]
  BY <1>2, <1>5, Zenon DEF FillOpen
<1>8. QED
  BY <1>1, <1>2, <1>3, <1>5, <1>6, <1>7, Zenon

--------------------------------------------------------------------------------
(* The account.                                                            *)

LEMMA FeeIs ==
    ASSUME NEW q \in Nat, NEW p \in Nat
    PROVE  Fee(q, p) \in Lowest /\ Fee(q, p) \in FractionSet
<1>1. FeePercent \in Int
  BY MoneyAssumption
<1>2. PICK n \in Int : n = q * p
  BY Product
<1>3. PICK m \in Int : m = n * FeePercent
  BY <1>1, <1>2, Product
<1>4. 100 \in Nat \ {0}
  OBVIOUS
<1>5. Frac(m, 100) \in Lowest
  BY <1>4, FracIs
<1>6. Fee(q, p) = Frac(m, 100)
  BY <1>2, <1>3, Zenon DEF Fee
<1>7. QED
  BY <1>5, <1>6 DEF Lowest

LEMMA EnlargedSane ==
    ASSUME NEW x \in Positions, PositionSane(x),
           NEW q \in Nat \ {0}, NEW l \in Nat \ {0}, NEW p \in Nat \ {0}
    PROVE  Enlarged(x, q, l, p) \in Positions /\ PositionSane(Enlarged(x, q, l, p))
<1>1. PICK h \in Nat, E \in Int, D \in Nat \ {0}, M \in Int, F \in Nat \ {0} :
         /\ h = x.qty /\ E = x.entry.num /\ D = x.entry.den
         /\ M = x.margin.num /\ F = x.margin.den
         /\ Is(x.entry, E, D) /\ Is(x.margin, M, F)
  <2>1. x.qty \in Nat /\ x.entry \in Lowest /\ x.margin \in Lowest
    BY DEF Positions
  <2>2. QED
    BY <2>1, LowestIs, Zenon
<1>2. h = 0 => E = 0
  BY <1>1 DEF PositionSane, NoPosition, Zero, Whole
<1>3. h > 0 => E > 0
  BY <1>1, Zenon DEF PositionSane
<1>4. M >= 0
  BY <1>1, Zenon DEF PositionSane
<1>5. PICK c \in Nat \ {0} : c = p * q
  BY Positive
<1>6. PICK y \in Positions : y = Enlarged(x, q, l, p) /\ y.qty = x.qty + q /\ y.steps = x.steps + 1
         /\ Is(y.entry, E * x.qty + (p * q) * D, D * (x.qty + q))
         /\ Is(y.margin, M * l + (p * q) * F, F * l)
  BY <1>1, EnlargedIs, Zenon
<1>7. PICK n \in Nat \ {0}, d \in Nat \ {0} : n = E * h + c * D /\ d = D * (h + q)
  <2>1. c * D \in Nat \ {0} /\ D * (h + q) \in Nat \ {0}
    <3>1. h + q \in Nat \ {0}
      OBVIOUS
    <3>2. QED
      BY <3>1, Positive
  <2>2. E * h \in Nat
    <3>1. CASE h = 0
      BY <3>1, <1>2
    <3>2. CASE h > 0
      <4>1. E \in Nat \ {0} /\ h \in Nat \ {0}
        BY <1>3, <3>2
      <4>2. QED
        BY <4>1, Positive
    <3>3. QED
      BY <3>1, <3>2
  <2>3. E * h + c * D \in Nat \ {0}
    BY <2>1, <2>2
  <2>4. QED
    BY <2>1, <2>3
<1>8. PICK m \in Nat, f \in Nat \ {0} : m = M * l + c * F /\ f = F * l
  <2>1. F * l \in Nat \ {0} /\ c * F \in Nat \ {0}
    BY Positive
  <2>2. M * l \in Nat
    BY <1>4
  <2>3. QED
    BY <2>1, <2>2
<1>9. Is(y.entry, n, d) /\ Is(y.margin, m, f)
  BY <1>1, <1>5, <1>6, <1>7, <1>8, Zenon
<1>10. y.entry \in FractionSet /\ y.margin \in FractionSet /\ y.qty \in Nat /\ y.steps \in Nat
  BY DEF Positions, Lowest
<1>11. y.entry.num > 0
  BY <1>9, <1>10, SignIs
<1>12. y.margin.num >= 0
  BY <1>9, <1>10, SignIs
<1>13. y.qty > 0 /\ y.steps > 0
  <2>1. x.qty \in Nat /\ x.steps \in Nat
    BY DEF Positions
  <2>2. QED
    BY <1>6, <2>1
<1>14. PositionSane(y)
  BY <1>10, <1>11, <1>12, <1>13 DEF PositionSane
<1>15. QED
  BY <1>6, <1>14, Zenon

LEMMA ReducedSane ==
    ASSUME NEW x \in Positions, PositionSane(x), NEW q \in 0 .. x.qty
    PROVE  Reduced(x, q) \in Positions /\ PositionSane(Reduced(x, q))
<1>1. CASE q = x.qty
  BY <1>1, NoPositionIs DEF Reduced
<1>2. CASE q # x.qty
  <2>1. x.margin.num >= 0 /\ x.entry.num \in Int /\ x.steps \in Nat /\ x.qty \in Nat
    BY DEF PositionSane, Positions, Lowest, FractionSet
  <2>2. Reduced(x, q) \in Positions /\ Reduced(x, q).margin.num >= 0
    BY <2>1, ReducedMargin
  <2>3. /\ x.qty \in Nat \ {0} /\ Reduced(x, q).qty \in Nat \ {0}
        /\ Reduced(x, q).steps = x.steps /\ Reduced(x, q).entry = x.entry
    <3>1. x.margin.num \in Int /\ x.margin.den \in Nat \ {0}
          /\ Is(x.margin, x.margin.num, x.margin.den)
      <4>1. x.margin \in Lowest
        BY DEF Positions
      <4>2. QED
        BY <4>1, LowestIs
    <3>2. QED
      BY <1>2, <3>1, ReducedIs
  <2>4. x.entry.num > 0 /\ x.steps > 0
    BY <2>3 DEF PositionSane
  <2>5. QED
    BY <2>2, <2>3, <2>4 DEF PositionSane
<1>3. QED
  BY <1>1, <1>2

LEMMA OpenTypes ==
    ASSUME AccountTypes, OpenOrNone, FillOpen
    PROVE  AccountSane'
<1>1. PICK s \in Sides, q \in Nat \ {0}, l \in Nat \ {0} :
         /\ balance' = balance (-) Fee(q, price)
         /\ pos' = [pos EXCEPT ![s] = Enlarged(pos[s], q, l, price)]
         /\ entered' = [entered EXCEPT ![s] = Whole(price)]
  BY OpenIs, Zenon
<1>2. /\ pos \in [Sides -> Positions] /\ pos[s] \in Positions /\ PositionSane(pos[s])
      /\ entered \in [Sides -> Lowest] /\ balance \in FractionSet
  BY DEF AccountTypes, OpenOrNone, Lowest
<1>3. price \in Nat \ {0} /\ price \in Nat /\ q \in Nat /\ Whole(price) \in Lowest
  BY PriceIs DEF AccountTypes
<1>4. balance' \in Lowest
  <2>1. PICK n \in Int, m \in Int, d \in Nat \ {0} :
           Is(balance, n, d) /\ Is(Fee(q, price), m, d)
    BY <1>2, <1>3, FeeIs, CommonTerms
  <2>2. QED
    BY <1>1, <1>2, <1>3, <2>1, FeeIs, DifferenceIs
<1>5. entered' \in [Sides -> Lowest]
  BY <1>1, <1>2, <1>3
<1>6. PICK y \in Positions : y = Enlarged(pos[s], q, l, price) /\ PositionSane(y)
  BY <1>2, <1>3, EnlargedSane
<1>7. pos' \in [Sides -> Positions] /\ \A t \in Sides : pos'[t] = IF t = s THEN y ELSE pos[t]
  BY <1>1, <1>2, <1>6
<1>8. \A t \in Sides : PositionSane(pos'[t])
  BY <1>6, <1>7 DEF OpenOrNone
<1>9. QED
  BY <1>4, <1>5, <1>7, <1>8 DEF AccountSane, OpenOrNone

LEMMA FillTypes ==
    ASSUME AccountTypes, OpenOrNone, NEW s \in Sides, NEW q \in 0 .. pos[s].qty, Fill(s, q)
    PROVE  AccountSane'
<1>1. /\ balance' = balance (+) (RealizedPnl(pos[s], s, q, price) (-) Fee(q, price))
      /\ pos' = [pos EXCEPT ![s] = Reduced(pos[s], q)] /\ entered' = entered
  BY Zenon DEF Fill
<1>2. /\ pos \in [Sides -> Positions] /\ pos[s] \in Positions /\ PositionSane(pos[s])
      /\ entered \in [Sides -> Lowest] /\ balance \in FractionSet /\ pos[s].qty \in Nat
  BY DEF AccountTypes, OpenOrNone, Lowest, Positions
<1>3. price \in Nat /\ price \in Int /\ q \in Nat
  BY <1>2, PriceIs DEF AccountTypes
<1>4. PICK r \in Lowest, f \in Lowest : r = RealizedPnl(pos[s], s, q, price) /\ f = Fee(q, price)
  BY <1>2, <1>3, FeeIs, ReducedPnl
<1>5. r \in FractionSet /\ f \in FractionSet
  BY DEF Lowest
<1>6. r (-) f \in Lowest
  <2>1. PICK n \in Int, m \in Int, d \in Nat \ {0} : Is(r, n, d) /\ Is(f, m, d)
    BY <1>5, CommonTerms
  <2>2. QED
    BY <1>5, <2>1, DifferenceIs
<1>7. r (-) f \in FractionSet
  BY <1>6 DEF Lowest
<1>8. balance' \in Lowest
  <2>1. PICK n \in Int, m \in Int, d \in Nat \ {0} : Is(balance, n, d) /\ Is(r (-) f, m, d)
    BY <1>2, <1>7, CommonTerms
  <2>2. balance (+) (r (-) f) \in Lowest
    BY <1>2, <1>7, <2>1, SumIs
  <2>3. QED
    BY <1>1, <1>4, <2>2, Zenon
<1>9. PICK y \in Positions : y = Reduced(pos[s], q) /\ PositionSane(y)
  BY <1>2, ReducedSane
<1>10. pos' \in [Sides -> Positions] /\ \A t \in Sides : pos'[t] = IF t = s THEN y ELSE pos[t]
  BY <1>1, <1>2, <1>9
<1>11. \A t \in Sides : PositionSane(pos'[t])
  BY <1>9, <1>10 DEF OpenOrNone
<1>12. QED
  BY <1>1, <1>2, <1>8, <1>10, <1>11 DEF AccountSane, OpenOrNone

LEMMA MarginFitsIs ==
    MarginFits <=> \A s \in Sides : AtLeastAt(pos[s], MaxLeverage) /\ AtMostAt(pos[s], BaseLeverage)
BY Zenon DEF MarginFits, AtLeastAt, AtMostAt

LEMMA OpenFits ==
    ASSUME AccountTypes, OpenOrNone, MarginFits, UsedWithinCapital, FillOpen
    PROVE  MarginFits' /\ UsedWithinCapital'
<1>1. PICK s \in Sides, q \in Nat \ {0}, l \in Nat \ {0} :
         /\ pos' = [pos EXCEPT ![s] = Enlarged(pos[s], q, l, price)]
         /\ l \in BaseLeverage .. MaxLeverage /\ price * q <= MinInvestment * l
         /\ Opens(pos, s, price, Head(queue).stop)
  BY OpenIs, Zenon
<1>2. /\ pos \in [Sides -> Positions] /\ pos[s] \in Positions
      /\ price \in Nat \ {0} /\ BaseLeverage \in Nat \ {0} /\ MaxLeverage \in Nat \ {0}
      /\ BaseLeverage <= l /\ l <= MaxLeverage
  BY <1>1, PricesAssumption, LeverageAssumption DEF AccountTypes
<1>3. PICK y : y = Enlarged(pos[s], q, l, price)
  OBVIOUS
<1>4. AtLeastAt(pos[s], MaxLeverage) /\ AtMostAt(pos[s], BaseLeverage)
  BY MarginFitsIs
<1>5. AtLeastAt(y, MaxLeverage) /\ AtMostAt(y, BaseLeverage)
  BY <1>2, <1>3, <1>4, EnlargedFits
<1>6. \A t \in Sides : pos'[t] = IF t = s THEN y ELSE pos[t]
  BY <1>1, <1>2, <1>3
<1>7. \A t \in Sides : AtLeastAt(pos'[t], MaxLeverage) /\ AtMostAt(pos'[t], BaseLeverage)
  <2>1. TAKE t \in Sides
  <2>2. CASE t = s
    <3>1. pos'[t] = y
      BY <1>6, <2>2
    <3>2. QED
      BY <1>5, <3>1, Zenon
  <2>3. CASE t # s
    <3>1. pos'[t] = pos[t]
      BY <1>6, <2>3
    <3>2. AtLeastAt(pos[t], MaxLeverage) /\ AtMostAt(pos[t], BaseLeverage)
      BY MarginFitsIs, Zenon
    <3>3. QED
      BY <3>1, <3>2, Zenon
  <2>4. QED
    BY <2>2, <2>3
<1>8. MarginFits'
  BY <1>7, Zenon DEF MarginFits, AtLeastAt, AtMostAt
<1>9. CapitalGate(pos)
  BY <1>1 DEF Opens
<1>10. UsedMargin([pos EXCEPT ![s] = Enlarged(pos[s], q, l, price)]) \preceq Whole(MaxCapital)
  BY <1>1, <1>2, <1>9, UsedEnlarged
<1>11. UsedWithinCapital'
  BY <1>1, <1>10, Zenon DEF UsedWithinCapital
<1>12. QED
  BY <1>8, <1>11

LEMMA FillFits ==
    ASSUME AccountTypes, OpenOrNone, MarginFits, UsedWithinCapital,
           NEW s \in Sides, NEW q \in 0 .. pos[s].qty, Fill(s, q)
    PROVE  MarginFits' /\ UsedWithinCapital'
<1>1. pos' = [pos EXCEPT ![s] = Reduced(pos[s], q)]
  BY Zenon DEF Fill
<1>2. /\ pos \in [Sides -> Positions] /\ pos[s] \in Positions
      /\ BaseLeverage \in Nat \ {0} /\ MaxLeverage \in Nat \ {0}
      /\ pos[s].margin.num >= 0
  BY LeverageAssumption DEF AccountTypes, OpenOrNone, PositionSane
<1>3. PICK y : y = Reduced(pos[s], q)
  OBVIOUS
<1>4. AtLeastAt(pos[s], MaxLeverage) /\ AtMostAt(pos[s], BaseLeverage)
  BY MarginFitsIs
<1>5. AtLeastAt(y, MaxLeverage) /\ AtMostAt(y, BaseLeverage)
  BY <1>2, <1>3, <1>4, ReducedFits
<1>6. \A t \in Sides : pos'[t] = IF t = s THEN y ELSE pos[t]
  BY <1>1, <1>2, <1>3
<1>7. \A t \in Sides : AtLeastAt(pos'[t], MaxLeverage) /\ AtMostAt(pos'[t], BaseLeverage)
  <2>1. TAKE t \in Sides
  <2>2. CASE t = s
    <3>1. pos'[t] = y
      BY <1>6, <2>2
    <3>2. QED
      BY <1>5, <3>1, Zenon
  <2>3. CASE t # s
    <3>1. pos'[t] = pos[t]
      BY <1>6, <2>3
    <3>2. AtLeastAt(pos[t], MaxLeverage) /\ AtMostAt(pos[t], BaseLeverage)
      BY MarginFitsIs, Zenon
    <3>3. QED
      BY <3>1, <3>2, Zenon
  <2>4. QED
    BY <2>2, <2>3
<1>8. MarginFits'
  BY <1>7, Zenon DEF MarginFits, AtLeastAt, AtMostAt
<1>9. UsedMargin(pos) \preceq Whole(MaxCapital)
  BY DEF UsedWithinCapital
<1>10. UsedMargin([pos EXCEPT ![s] = Reduced(pos[s], q)]) \preceq Whole(MaxCapital)
  BY <1>2, <1>9, UsedReduced
<1>11. UsedWithinCapital'
  BY <1>1, <1>10, Zenon DEF UsedWithinCapital
<1>12. QED
  BY <1>8, <1>11

--------------------------------------------------------------------------------
(* What the strategy knows of the account.                                 *)

\* A step of a bar takes the next bar with nothing left to process.
LEMMA BarsTake ==
    ASSUME AccountTypes, NEW p \in Prices, NewBar(p)
    PROVE  /\ queue = <<>> /\ bars' \in 0 .. MaxBars /\ price' = p
           /\ \A s \in Sides : ~ClosesNext(s)
BY RunAssumption DEF NewBar, AccountTypes, ClosesNext, CloseIntent

LEMMA LadderStops ==
    ASSUME SimInv, NEW s \in Sides, NEW p \in Prices, LadderBar(s, p)
    PROVE  /\ QueueInv' /\ BestInv' /\ HeldInv' /\ LadderKeepsNoStop'
           /\ MarginFits' /\ UsedWithinCapital' /\ PlannedLossBounded'
<1>1. strategy = "ladder" /\ strategy' = strategy /\ strategy # "scanner"
  BY DEF LadderBar, NewBar
<1>2. pos' = pos /\ stop' = stop /\ best' = best
  BY DEF LadderBar, NewBar, accountVars
<1>3. QueueInv' /\ HeldInv'
  BY <1>1 DEF QueueInv, HeldInv
<1>4. BestInv'
  BY <1>2 DEF BestInv, SimInv
<1>5. LadderKeepsNoStop'
  BY <1>1, <1>2 DEF LadderKeepsNoStop, SimInv
<1>6. MarginFits' /\ UsedWithinCapital'
  BY <1>2, Zenon DEF MarginFits, UsedWithinCapital, SimInv
<1>7. PlannedLossBounded'
  BY <1>2, Zenon DEF PlannedLossBounded, Held, SimInv
<1>8. QED
  BY <1>3, <1>4, <1>5, <1>6, <1>7

\* The stop of an open position is left, or moved for the better.
LossKept(s) ==
    stop'[s] # Zero /\ Held(s) => stop[s] # Zero /\ AtLeast(s, stop'[s], stop[s])

LEMMA LossKeptIs ==
    ASSUME SimInv, pos' = pos, stop' \in [Sides -> Lowest],
           \A s \in Sides : LossKept(s)
    PROVE  PlannedLossBounded'
<1>1. SUFFICES ASSUME NEW s \in Sides, Held(s)', stop'[s] # Zero
               PROVE  Loss(pos[s], s, stop'[s]) \preceq Whole(pos[s].steps * MaxLoss)
  BY Zenon DEF PlannedLossBounded, Loss
<1>2. Held(s) /\ stop[s] # Zero /\ AtLeast(s, stop'[s], stop[s])
  BY <1>1 DEF Held, LossKept
<1>3. /\ pos[s] \in Positions /\ stop[s] \in Lowest /\ stop'[s] \in Lowest
      /\ pos[s].steps \in Nat /\ MaxLoss \in Nat
  BY MoneyAssumption DEF SimInv, AccountTypes, Positions
<1>4. PICK K \in Int : K = pos[s].steps * MaxLoss
  BY <1>3
<1>5. Loss(pos[s], s, stop[s]) \preceq Whole(K)
  BY <1>2, <1>4, Zenon DEF SimInv, PlannedLossBounded, Loss
<1>6. Loss(pos[s], s, stop'[s]) \preceq Whole(K)
  BY <1>2, <1>3, <1>5, LossBetter
<1>7. QED
  BY <1>4, <1>6, Zenon

\* What the scanner keeps after a bar.
ScannerKeeps ==
    /\ QueueInv' /\ BestInv' /\ HeldInv'
    /\ \A s \in Sides : LossKept(s)

LEMMA ScannerBarIs ==
    ASSUME SimInv, NEW p \in Prices, ScannerBar(p)
    PROVE  /\ strategy = "scanner" /\ strategy' = "scanner" /\ queue = <<>> /\ price' = p
           /\ pos' = pos /\ entered' = entered
           /\ AccountTypes /\ OpenOrNone /\ BestInv /\ HeldInv
           /\ \A s \in Sides : Held(s) => stop[s] # Zero /\ Worse(s, last[s], entered[s])
           /\ \A s \in Sides : stop[s] \in Lowest /\ AtLeast(s, stop[s], stop[s])
<1>1. /\ strategy = "scanner" /\ strategy' = strategy /\ NewBar(p)
      /\ pos' = pos /\ entered' = entered
  BY DEF ScannerBar, NewBar, accountVars
<1>2. AccountTypes /\ OpenOrNone /\ BestInv /\ HeldInv
  BY DEF SimInv
<1>3. queue = <<>> /\ price' = p /\ \A s \in Sides : ~ClosesNext(s)
  BY <1>1, <1>2, BarsTake
<1>4. \A s \in Sides : Held(s) => stop[s] # Zero /\ Worse(s, last[s], entered[s])
  BY <1>1, <1>2, <1>3 DEF HeldInv
<1>5. \A s \in Sides : stop[s] \in Lowest
  BY <1>2 DEF AccountTypes
<1>6. \A s \in Sides : AtLeast(s, stop[s], stop[s])
  BY <1>5, AtLeastOrder
<1>7. QED
  BY <1>1, <1>2, <1>3, <1>4, <1>5, <1>6

LEMMA WaitKeeps ==
    ASSUME SimInv, NEW p \in Prices, ScannerBar(p), ScannerWait(p)
    PROVE  ScannerKeeps
<1>1. queue' = <<>> /\ best' = BestWith(p) /\ last' = last /\ stop' = stop
  BY DEF ScannerWait
<1>2. /\ strategy' = "scanner" /\ pos' = pos /\ entered' = entered
      /\ AccountTypes /\ OpenOrNone /\ BestInv
      /\ \A s \in Sides : Held(s) => stop[s] # Zero /\ Worse(s, last[s], entered[s])
      /\ \A s \in Sides : AtLeast(s, stop[s], stop[s])
  BY ScannerBarIs
<1>3. QueueInv'
  BY <1>1 DEF QueueInv
<1>4. BestInv'
  BY <1>1, <1>2, BestWithIs DEF BestInv
<1>5. HeldInv'
  BY <1>1, <1>2, Zenon DEF HeldInv, Held, Worse
<1>6. \A s \in Sides : LossKept(s)
  BY <1>1, <1>2, Zenon DEF LossKept
<1>7. QED
  BY <1>3, <1>4, <1>5, <1>6 DEF ScannerKeeps

LEMMA StopKeeps ==
    ASSUME SimInv, NEW p \in Prices, ScannerBar(p), NEW s \in Sides, ScannerStop(s, p)
    PROVE  ScannerKeeps
<1>1. /\ queue' = <<CloseIntent(s)>>
      /\ last' = [last EXCEPT ![s] = Zero] /\ stop' = [stop EXCEPT ![s] = Zero]
      /\ best' = [best EXCEPT ![s] = Zero]
  BY DEF ScannerStop
<1>2. /\ strategy' = "scanner" /\ pos' = pos /\ entered' = entered
      /\ AccountTypes /\ OpenOrNone /\ BestInv
      /\ \A t \in Sides : Held(t) => stop[t] # Zero /\ Worse(t, last[t], entered[t])
      /\ \A t \in Sides : AtLeast(t, stop[t], stop[t])
  BY ScannerBarIs
<1>3. /\ stop'[s] = Zero /\ best'[s] = Zero
      /\ \A t \in Sides : t # s => stop'[t] = stop[t] /\ best'[t] = best[t] /\ last'[t] = last[t]
  BY <1>1, <1>2 DEF AccountTypes
<1>4. QueueInv'
  <2>1. CloseIntent(s) \in Intents /\ CloseIntent(s).action = "close"
    BY IntentsMade DEF CloseIntent
  <2>2. ScannerOpens(CloseIntent(s))'
    BY <1>1, <2>1 DEF ScannerOpens
  <2>3. QED
    BY <2>1, <2>2 DEF QueueInv
<1>5. BestInv'
  BY <1>2, <1>3 DEF BestInv
<1>6. ClosesNext(s)'
  BY <1>1 DEF ClosesNext
<1>7. HeldInv'
  BY <1>2, <1>3, <1>6, Zenon DEF HeldInv, Held, Worse
<1>8. \A t \in Sides : LossKept(t)
  BY <1>2, <1>3, Zenon DEF LossKept
<1>9. QED
  BY <1>4, <1>5, <1>7, <1>8 DEF ScannerKeeps

LEMMA TakeProfitKeeps ==
    ASSUME SimInv, NEW p \in Prices, ScannerBar(p), NEW s \in Sides, ScannerTakeProfit(s, p)
    PROVE  ScannerKeeps
<1>1. /\ strategy' = "scanner" /\ pos' = pos /\ entered' = entered
      /\ AccountTypes /\ OpenOrNone /\ BestInv
      /\ \A t \in Sides : Held(t) => stop[t] # Zero /\ Worse(t, last[t], entered[t])
      /\ \A t \in Sides : AtLeast(t, stop[t], stop[t])
  BY ScannerBarIs
<1>2. best' = BestWith(p) /\ last' = last
  BY Zenon DEF ScannerTakeProfit
<1>3. PICK a : a = AdvancedStop(s, hits[s] + 1, BestWith(p)[s])
  OBVIOUS
<1>4. /\ Held(s) /\ stop' = [stop EXCEPT ![s] = a]
      /\ stop[s] # Zero => a # Zero /\ AtLeast(s, a, stop[s])
      /\ \/ queue' = <<CloseIntent(s)>>
         \/ \E c \in 0 .. 99 : queue' = <<ReduceIntent(s, c)>>
  BY <1>1, <1>3, TakeProfitIs, Zenon
<1>5. stop'[s] = a /\ \A t \in Sides : t # s => stop'[t] = stop[t]
  BY <1>1, <1>4 DEF AccountTypes
<1>6. stop[s] # Zero
  BY <1>1, <1>4
<1>7. QueueInv'
  <2>1. PICK i \in Intents : queue' = <<i>> /\ i.action # "open"
    <3>1. CASE queue' = <<CloseIntent(s)>>
      BY <3>1, IntentsMade DEF CloseIntent
    <3>2. CASE \E c \in 0 .. 99 : queue' = <<ReduceIntent(s, c)>>
      <4>1. PICK c \in 0 .. 99 : queue' = <<ReduceIntent(s, c)>>
        BY <3>2
      <4>2. ReduceIntent(s, c) \in Intents /\ ReduceIntent(s, c).action # "open"
        BY IntentsMade DEF ReduceIntent
      <4>3. QED
        BY <4>1, <4>2
    <3>3. QED
      BY <1>4, <3>1, <3>2
  <2>2. ScannerOpens(i)'
    BY <2>1 DEF ScannerOpens
  <2>3. QED
    BY <2>2 DEF QueueInv
<1>8. BestInv'
  BY <1>1, <1>2, BestWithIs DEF BestInv
<1>9. HeldInv'
  <2>1. \A t \in Sides : Held(t)' => stop'[t] # Zero /\ Worse(t, last[t], entered[t])
    BY <1>1, <1>4, <1>5, <1>6, Zenon DEF Held
  <2>2. QED
    BY <1>1, <1>2, <2>1, Zenon DEF HeldInv, Worse
<1>10. \A t \in Sides : LossKept(t)
  BY <1>1, <1>4, <1>5, <1>6, Zenon DEF LossKept
<1>11. QED
  BY <1>7, <1>8, <1>9, <1>10 DEF ScannerKeeps

LEMMA FirstKeeps ==
    ASSUME SimInv, NEW p \in Prices, ScannerBar(p), NEW s \in Sides, ScannerFirst(s, p)
    PROVE  ScannerKeeps
<1>1. PICK a \in Lowest : a = Behind(s, Whole(p), StopPercent) /\ a # Zero
  BY StopIs
<1>2. /\ queue' = <<OpenIntent(s, a)>>
      /\ last' = [last EXCEPT ![s] = Whole(p)] /\ stop' = [stop EXCEPT ![s] = a]
      /\ best' = [best EXCEPT ![s] = Whole(p)]
      /\ \A t \in Sides : ~Held(t)
  BY <1>1 DEF ScannerFirst
<1>3. /\ strategy' = "scanner" /\ pos' = pos /\ price' = p
      /\ AccountTypes /\ BestInv
  BY ScannerBarIs
<1>4. \A t \in Sides : ~Held(t)'
  BY <1>2, <1>3, Zenon DEF Held
<1>5. /\ stop'[s] = a /\ last'[s] = Whole(p) /\ best'[s] = Whole(p)
      /\ \A t \in Sides : t # s => best'[t] = best[t]
  BY <1>2, <1>3 DEF AccountTypes
<1>6. QueueInv'
  <2>1. OpenIntent(s, a) \in Intents
    BY IntentsMade
  <2>2. OpenIntent(s, a).side = s /\ OpenIntent(s, a).stop = a
    BY DEF OpenIntent
  <2>3. ScannerOpens(OpenIntent(s, a))'
    BY <1>1, <1>2, <1>3, <1>4, <1>5, <2>2 DEF ScannerOpens
  <2>4. QED
    BY <2>1, <2>3 DEF QueueInv
<1>7. BestInv'
  BY <1>3, <1>5, PriceIs DEF BestInv
<1>8. HeldInv'
  BY <1>4, Zenon DEF HeldInv
<1>9. \A t \in Sides : LossKept(t)
  BY <1>2, Zenon DEF LossKept
<1>10. QED
  BY <1>6, <1>7, <1>8, <1>9 DEF ScannerKeeps

LEMMA AddKeeps ==
    ASSUME SimInv, NEW p \in Prices, ScannerBar(p), NEW s \in Sides, ScannerAdd(s, p)
    PROVE  ScannerKeeps
<1>1. /\ Held(s) /\ AddDue(s, p)
      /\ queue' = <<OpenIntent(s, stop[s])>>
      /\ last' = [last EXCEPT ![s] = Whole(p)] /\ best' = BestWith(p) /\ stop' = stop
  BY DEF ScannerAdd
<1>2. /\ strategy' = "scanner" /\ pos' = pos /\ entered' = entered /\ price' = p
      /\ AccountTypes /\ OpenOrNone /\ BestInv
      /\ \A t \in Sides : Held(t) => stop[t] # Zero /\ Worse(t, last[t], entered[t])
      /\ \A t \in Sides : stop[t] \in Lowest /\ AtLeast(t, stop[t], stop[t])
  BY ScannerBarIs
<1>3. last'[s] = Whole(p) /\ \A t \in Sides : t # s => last'[t] = last[t]
  BY <1>1, <1>2 DEF AccountTypes
<1>4. stop[s] # Zero /\ stop[s] \in Lowest
  BY <1>1, <1>2
<1>5. PICK a \in Prices, e \in Prices :
         last[s] = Whole(a) /\ entered[s] = Whole(e) /\ AtLeast(s, Whole(e), Whole(a))
  BY <1>1, <1>2, Zenon DEF Worse
<1>6. /\ a \in Nat \ {0} /\ e \in Nat \ {0} /\ p \in Nat \ {0} /\ EntrySpacing \in Nat
      /\ Whole(a) \in Lowest /\ Whole(e) \in Lowest /\ Whole(p) \in Lowest
  BY PriceIs, RunAssumption
<1>7. Spaced(Whole(a), Whole(p), EntrySpacing) /\ ~AtLeast(s, Whole(p), Whole(a))
  BY <1>1, <1>5, Zenon DEF AddDue
<1>8. Spaced(Whole(e), Whole(p), EntrySpacing) /\ ~AtLeast(s, Whole(p), Whole(e))
  BY <1>5, <1>6, <1>7, SpacedFurther
<1>9. AtLeast(s, Whole(e), Whole(p))
  BY <1>6, <1>8, AtLeastOrder
<1>10. Worse(s, Whole(p), entered[s])
  BY <1>5, <1>9, Zenon DEF Worse
<1>11. QueueInv'
  <2>1. PICK i \in Intents : i = OpenIntent(s, stop[s])
    BY <1>4, IntentsMade
  <2>2. i.side = s /\ i.stop = stop[s]
    BY <2>1 DEF OpenIntent
  <2>3. Spaced(entered'[s], Whole(price'), EntrySpacing)
        /\ ~AtLeast(s, Whole(price'), entered'[s])
    BY <1>2, <1>5, <1>8, Zenon
  <2>4. ScannerOpens(i)'
    BY <1>1, <1>2, <1>3, <1>4, <2>1, <2>2, <2>3, Zenon DEF ScannerOpens
  <2>5. QED
    BY <2>1, <2>4 DEF QueueInv
<1>12. BestInv'
  BY <1>1, <1>2, BestWithIs DEF BestInv
<1>13. HeldInv'
  <2>1. \A t \in Sides : Held(t) => stop[t] # Zero /\ Worse(t, last'[t], entered[t])
    BY <1>2, <1>3, <1>10, Zenon
  <2>2. QED
    BY <1>1, <1>2, <2>1, Zenon DEF HeldInv, Held, Worse
<1>14. \A t \in Sides : LossKept(t)
  BY <1>1, <1>2, Zenon DEF LossKept
<1>15. QED
  BY <1>11, <1>12, <1>13, <1>14 DEF ScannerKeeps

LEMMA ScannerBarKeeps ==
    ASSUME SimInv, NEW p \in Prices, ScannerBar(p)
    PROVE  ScannerKeeps
<1>1. CASE ScannerWait(p)
  BY <1>1, WaitKeeps
<1>2. ASSUME NEW s \in Sides, ScannerStop(s, p) PROVE ScannerKeeps
  BY <1>2, StopKeeps
<1>3. ASSUME NEW s \in Sides, ScannerTakeProfit(s, p) PROVE ScannerKeeps
  BY <1>3, TakeProfitKeeps
<1>4. ASSUME NEW s \in Sides, ScannerFirst(s, p) PROVE ScannerKeeps
  BY <1>4, FirstKeeps
<1>5. ASSUME NEW s \in Sides, ScannerAdd(s, p) PROVE ScannerKeeps
  BY <1>5, AddKeeps
<1>6. QED
  BY <1>1, <1>2, <1>3, <1>4, <1>5, Zenon DEF ScannerBar

\* The scanner's one intent is taken.
LEMMA ScannerTakes ==
    ASSUME SimInv, NEW action, TakesNext(action), strategy = "scanner"
    PROVE  /\ queue' = <<>> /\ queue = <<Head(queue)>> /\ Head(queue) \in Intents
           /\ Head(queue).action = action
           /\ ScannerOpens(Head(queue))
           /\ \A s \in Sides : ClosesNext(s) => Head(queue) = CloseIntent(s)
<1>1. queue # <<>> /\ Head(queue).action = action /\ queue' = Tail(queue)
  BY DEF TakesNext
<1>2. PICK i \in Intents : ScannerOpens(i)
  BY <1>1 DEF SimInv, QueueInv
<1>3. queue = <<i>>
  BY <1>2 DEF ScannerOpens
<1>4. Head(queue) = i /\ Tail(queue) = <<>>
  BY <1>3
<1>5. \A s \in Sides : ClosesNext(s) => Head(queue) = CloseIntent(s)
  BY DEF ClosesNext
<1>6. QED
  BY <1>1, <1>2, <1>3, <1>4, <1>5, Zenon

\* A bound on the loss of the position before an order.
LEMMA LossBefore ==
    ASSUME AccountTypes, OpenOrNone, PlannedLossBounded, NEW s \in Sides, stop[s] # Zero
    PROVE  Loss(pos[s], s, stop[s]) \preceq Whole(pos[s].steps * MaxLoss)
<1>1. CASE Held(s)
  BY <1>1, Zenon DEF PlannedLossBounded, Loss
<1>2. CASE ~Held(s)
  <2>1. PICK x \in Positions, t \in Lowest : x = pos[s] /\ t = stop[s] /\ x = NoPosition
    BY <1>2 DEF AccountTypes, OpenOrNone, PositionSane, Held, Positions
  <2>2. x.qty = 0 /\ x.steps = 0
    BY <2>1 DEF NoPosition
  <2>3. PICK E \in Int, T \in Int, D \in Nat \ {0} : Is(x.entry, E, D) /\ Is(t, T, D)
    BY CommonTerms DEF Positions, Lowest
  <2>4. PICK g \in Int : g = Sign(s)
    BY SignOf
  <2>5. Loss(x, s, t) \preceq Whole(0) <=> (E - T) * (x.qty * Sign(s)) <= 0 * D
    BY <2>3, 0 \in Int, LossIs
  <2>6. (E - T) * (0 * g) <= 0 * D
    BY <2>3
  <2>7. Loss(x, s, t) \preceq Whole(0)
    BY <2>2, <2>4, <2>5, <2>6, Zenon
  <2>8. 0 * MaxLoss = 0
    BY MoneyAssumption
  <2>9. QED
    BY <2>1, <2>2, <2>7, <2>8, Zenon
<1>3. QED
  BY <1>1, <1>2

LEMMA OpenLoss ==
    ASSUME SimInv, FillOpen, strategy = "scanner"
    PROVE  PlannedLossBounded'
<1>1. AccountTypes /\ OpenOrNone /\ PlannedLossBounded
  BY DEF SimInv
<1>2. PICK s \in Sides, q \in Nat \ {0}, l \in Nat \ {0} :
         /\ s = Head(queue).side /\ q = OpenQty(price) /\ Head(queue).action = "open"
         /\ Opens(pos, s, price, Head(queue).stop)
         /\ pos' = [pos EXCEPT ![s] = Enlarged(pos[s], q, l, price)]
  BY <1>1, OpenIs, Zenon
<1>3. ScannerOpens(Head(queue))
  BY ScannerTakes DEF FillOpen
<1>4. PICK t \in Lowest : t = stop[s] /\ t = Head(queue).stop /\ t # Zero
  BY <1>1, <1>2, <1>3 DEF ScannerOpens, AccountTypes
<1>5. stop' = stop
  BY DEF FillOpen, tradeVars
<1>6. PICK x \in Positions : x = pos[s] /\ x.steps \in Nat
  BY <1>1 DEF AccountTypes, Positions
<1>7. price \in Nat \ {0} /\ MaxLoss \in Int /\ MaxLoss \in Nat
  BY <1>1, PricesAssumption, MoneyAssumption DEF AccountTypes
<1>8. PICK K \in Int : K = x.steps * MaxLoss /\ K + MaxLoss = (x.steps + 1) * MaxLoss
  BY <1>6, <1>7
<1>9. Loss(x, s, t) \preceq Whole(K)
  BY <1>1, <1>4, <1>6, <1>8, LossBefore, Zenon
<1>10. (Absolute(Whole(price) (-) t) (.) Whole(q)) \preceq Whole(MaxLoss)
  BY <1>2, <1>4, Zenon DEF Opens, LossGate
<1>11. PICK y \in Positions : y = Enlarged(x, q, l, price) /\ y.steps = x.steps + 1
  BY <1>7, EnlargedFacts
<1>12. Loss(y, s, t) \preceq Whole(K + MaxLoss)
  BY <1>7, <1>9, <1>10, <1>11, LossEnlarged
<1>13. \A r \in Sides : pos'[r] = IF r = s THEN y ELSE pos[r]
  BY <1>1, <1>2, <1>6, <1>11 DEF AccountTypes
<1>14. SUFFICES ASSUME NEW r \in Sides, Held(r)', stop'[r] # Zero
                PROVE  Loss(pos'[r], r, stop'[r]) \preceq Whole(pos'[r].steps * MaxLoss)
  BY Zenon DEF PlannedLossBounded, Loss
<1>15. CASE r = s
  <2>1. pos'[r] = y /\ stop'[r] = t
    BY <1>4, <1>5, <1>13, <1>15
  <2>2. Loss(y, r, t) \preceq Whole((x.steps + 1) * MaxLoss)
    BY <1>8, <1>12, <1>15, Zenon
  <2>3. QED
    BY <1>11, <2>1, <2>2, Zenon
<1>16. CASE r # s
  <2>1. pos'[r] = pos[r] /\ stop'[r] = stop[r]
    BY <1>5, <1>13, <1>16
  <2>2. Loss(pos[r], r, stop[r]) \preceq Whole(pos[r].steps * MaxLoss)
    BY <1>1, <1>14, <2>1, LossBefore
  <2>3. QED
    BY <2>1, <2>2, Zenon
<1>17. QED
  BY <1>15, <1>16

LEMMA OpenKeeps ==
    ASSUME SimInv, FillOpen
    PROVE  QueueInv' /\ BestInv' /\ HeldInv' /\ LadderKeepsNoStop' /\ PlannedLossBounded'
<1>1. /\ strategy' = strategy /\ price' = price
      /\ last' = last /\ stop' = stop /\ best' = best
  BY DEF FillOpen, tradeVars
<1>2. BestInv' /\ LadderKeepsNoStop'
  BY <1>1 DEF SimInv, BestInv, LadderKeepsNoStop
<1>3. CASE strategy # "scanner"
  <2>1. strategy = "ladder"
    BY <1>3, StrategiesAssumption DEF SimInv, AccountTypes
  <2>2. \A s \in Sides : stop'[s] = Zero
    BY <1>1, <2>1 DEF SimInv, LadderKeepsNoStop
  <2>3. PlannedLossBounded'
    BY <2>2, Zenon DEF PlannedLossBounded
  <2>4. QED
    BY <1>1, <1>2, <1>3, <2>3 DEF QueueInv, HeldInv
<1>4. CASE strategy = "scanner"
  <2>1. PICK s \in Sides, q \in Nat \ {0}, l \in Nat \ {0} :
           /\ s = Head(queue).side /\ Head(queue).action = "open"
           /\ pos' = [pos EXCEPT ![s] = Enlarged(pos[s], q, l, price)]
           /\ entered' = [entered EXCEPT ![s] = Whole(price)]
    BY OpenIs, Zenon DEF SimInv
  <2>2. /\ queue' = <<>> /\ ScannerOpens(Head(queue))
        /\ \A r \in Sides : ClosesNext(r) => Head(queue) = CloseIntent(r)
    BY <1>4, ScannerTakes DEF FillOpen
  <2>3. \A r \in Sides : ~ClosesNext(r)
    BY <2>1, <2>2 DEF CloseIntent
  <2>4. /\ entered'[s] = Whole(price) /\ last[s] = Whole(price) /\ stop[s] # Zero
        /\ price \in Prices
        /\ \A r \in Sides : r # s => pos'[r] = pos[r] /\ entered'[r] = entered[r]
    BY <2>1, <2>2 DEF SimInv, AccountTypes, ScannerOpens
  <2>5. Whole(price) \in Lowest
    BY <2>4, PriceIs
  <2>6. AtLeast(s, Whole(price), Whole(price))
    BY <2>5, AtLeastOrder
  <2>7. Worse(s, Whole(price), Whole(price))
    BY <2>4, <2>6, Zenon DEF Worse
  <2>8. \A r \in Sides : Held(r)' => stop[r] # Zero /\ Worse(r, last[r], entered'[r])
    <3>1. TAKE r \in Sides
    <3>2. CASE r = s
      BY <2>4, <2>7, <3>2, Zenon
    <3>3. CASE r # s
      BY <1>4, <2>3, <2>4, <3>3, Zenon DEF SimInv, HeldInv, Held
    <3>4. QED
      BY <3>2, <3>3
  <2>9. HeldInv'
    BY <1>1, <2>8, Zenon DEF HeldInv, Worse
  <2>10. QueueInv'
    BY <2>2 DEF QueueInv
  <2>11. PlannedLossBounded'
    BY <1>4, OpenLoss
  <2>12. QED
    BY <1>2, <2>9, <2>10, <2>11
<1>5. QED
  BY <1>3, <1>4

LEMMA RejectKeeps ==
    ASSUME SimInv, RejectOpen
    PROVE  /\ TradeTypes' /\ QueueInv' /\ BestInv' /\ HeldInv' /\ LadderKeepsNoStop'
           /\ \A s \in Sides : LossKept(s)
<1>1. /\ strategy' = strategy /\ price' = price /\ pos' = pos /\ entered' = entered
      /\ TakesNext("open")
  BY DEF RejectOpen, accountVars
<1>2. AccountTypes /\ OpenOrNone /\ BestInv
  BY DEF SimInv
<1>3. PICK s \in Sides : s = Head(queue).side /\ queue' \in Seq(Intents)
  BY <1>1, <1>2, TakesTypes, IntentIs
<1>4. \/ UNCHANGED tradeVars
      \/ /\ strategy = "scanner" /\ pos[s].steps = 0
         /\ last' = [last EXCEPT ![s] = Zero] /\ stop' = [stop EXCEPT ![s] = Zero]
         /\ best' = [best EXCEPT ![s] = Zero] /\ hits' = [hits EXCEPT ![s] = 0]
  BY <1>3 DEF RejectOpen
<1>5. strategy = "scanner" =>
         /\ queue' = <<>>
         /\ \A r \in Sides : Held(r) => stop[r] # Zero /\ Worse(r, last[r], entered[r])
  <2>1. SUFFICES ASSUME strategy = "scanner"
                 PROVE  /\ queue' = <<>>
                        /\ \A r \in Sides :
                              Held(r) => stop[r] # Zero /\ Worse(r, last[r], entered[r])
    OBVIOUS
  <2>2. /\ queue' = <<>> /\ Head(queue).action = "open"
        /\ \A r \in Sides : ClosesNext(r) => Head(queue) = CloseIntent(r)
    BY <1>1, <2>1, ScannerTakes
  <2>3. \A r \in Sides : ~ClosesNext(r)
    BY <2>2 DEF CloseIntent
  <2>4. QED
    BY <2>1, <2>2, <2>3 DEF SimInv, HeldInv
<1>6. QueueInv'
  BY <1>1, <1>5 DEF QueueInv
<1>7. \A r \in Sides : stop[r] \in Lowest /\ AtLeast(r, stop[r], stop[r])
  BY <1>2, AtLeastOrder DEF AccountTypes
<1>8. CASE UNCHANGED tradeVars
  <2>1. last' = last /\ stop' = stop /\ best' = best /\ hits' = hits
    BY <1>8 DEF tradeVars
  <2>2. TradeTypes'
    BY <1>2, <1>3, <2>1 DEF AccountTypes, TradeTypes
  <2>3. BestInv' /\ LadderKeepsNoStop'
    BY <1>1, <2>1 DEF SimInv, BestInv, LadderKeepsNoStop
  <2>4. HeldInv'
    BY <1>1, <1>5, <2>1, Zenon DEF HeldInv, Held, Worse
  <2>5. \A r \in Sides : LossKept(r)
    BY <1>7, <2>1, Zenon DEF LossKept
  <2>6. QED
    BY <1>6, <2>2, <2>3, <2>4, <2>5
<1>9. CASE /\ strategy = "scanner" /\ pos[s].steps = 0
           /\ last' = [last EXCEPT ![s] = Zero] /\ stop' = [stop EXCEPT ![s] = Zero]
           /\ best' = [best EXCEPT ![s] = Zero] /\ hits' = [hits EXCEPT ![s] = 0]
  <2>1. ~Held(s)
    BY <1>2, <1>9 DEF AccountTypes, Positions, OpenOrNone, PositionSane, Held
  <2>2. Zero \in Lowest /\ 0 \in 0 .. Len(TpPercents)
    BY <1>2, PriceIs, LevelsAssumption DEF AccountTypes
  <2>3. TradeTypes'
    BY <1>2, <1>3, <1>9, <2>2 DEF AccountTypes, TradeTypes
  <2>4. /\ stop'[s] = Zero /\ best'[s] = Zero
        /\ \A r \in Sides : r # s => stop'[r] = stop[r] /\ best'[r] = best[r] /\ last'[r] = last[r]
    BY <1>2, <1>9 DEF AccountTypes
  <2>5. BestInv' /\ LadderKeepsNoStop'
    BY <1>1, <1>2, <1>9, <2>4 DEF BestInv, LadderKeepsNoStop
  <2>6. HeldInv'
    <3>1. \A r \in Sides : Held(r) => stop'[r] # Zero /\ Worse(r, last'[r], entered[r])
      BY <1>5, <1>9, <2>1, <2>4, Zenon
    <3>2. QED
      BY <1>1, <3>1, Zenon DEF HeldInv, Held, Worse
  <2>7. \A r \in Sides : LossKept(r)
    BY <1>7, <2>4, Zenon DEF LossKept
  <2>8. QED
    BY <1>6, <2>3, <2>5, <2>6, <2>7
<1>10. QED
  BY <1>4, <1>8, <1>9

LEMMA FillLoss ==
    ASSUME SimInv, NEW s \in Sides, NEW q \in 0 .. pos[s].qty, Fill(s, q)
    PROVE  PlannedLossBounded'
<1>1. AccountTypes /\ OpenOrNone /\ PlannedLossBounded
  BY DEF SimInv
<1>2. pos' = [pos EXCEPT ![s] = Reduced(pos[s], q)] /\ stop' = stop
  BY Zenon DEF Fill, tradeVars
<1>3. PICK x \in Positions : x = pos[s] /\ q \in 0 .. x.qty
  BY <1>1 DEF AccountTypes
<1>4. PICK y : y = Reduced(x, q) /\ x = pos[s] /\ q \in 0 .. x.qty
  BY <1>3
<1>5. \A r \in Sides : pos'[r] = IF r = s THEN y ELSE pos[r]
  BY <1>1, <1>2, <1>4 DEF AccountTypes
<1>6. SUFFICES ASSUME NEW r \in Sides, Held(r)', stop'[r] # Zero
               PROVE  Loss(pos'[r], r, stop'[r]) \preceq Whole(pos'[r].steps * MaxLoss)
  BY Zenon DEF PlannedLossBounded, Loss
<1>7. CASE r = s
  <2>1. pos'[r] = y /\ y.qty > 0
    BY <1>5, <1>6, <1>7 DEF Held
  <2>2. q # x.qty
    BY <1>4, <2>1 DEF Reduced, NoPosition
  <2>3. x.margin.num \in Int /\ x.margin.den \in Nat \ {0}
        /\ Is(x.margin, x.margin.num, x.margin.den)
    BY LowestIs DEF Positions
  <2>4. y.steps = x.steps
    BY <1>4, <2>2, <2>3, ReducedIs
  <2>5. PICK t \in Lowest : t = stop[s] /\ t # Zero
    BY <1>1, <1>2, <1>6, <1>7 DEF AccountTypes
  <2>6. PICK K \in Nat : K = x.steps * MaxLoss
    BY MoneyAssumption DEF Positions
  <2>7. Loss(x, s, t) \preceq Whole(K)
    BY <1>1, <1>4, <2>5, <2>6, LossBefore, Zenon
  <2>8. Loss(y, s, t) \preceq Whole(K)
    BY <1>4, <2>2, <2>7, LossReduced
  <2>9. QED
    BY <1>2, <1>7, <2>1, <2>4, <2>5, <2>6, <2>8, Zenon
<1>8. CASE r # s
  <2>1. pos'[r] = pos[r] /\ stop'[r] = stop[r]
    BY <1>2, <1>5, <1>8
  <2>2. Loss(pos[r], r, stop[r]) \preceq Whole(pos[r].steps * MaxLoss)
    BY <1>1, <1>6, <2>1, LossBefore
  <2>3. QED
    BY <2>1, <2>2, Zenon
<1>9. QED
  BY <1>7, <1>8

LEMMA FillKeeps ==
    ASSUME SimInv, NEW s \in Sides, NEW q \in 0 .. pos[s].qty, Filled(s, q),
           Head(queue) \in Intents,
           Head(queue).action = "close" => Head(queue).side = s /\ q = pos[s].qty
    PROVE  QueueInv' /\ BestInv' /\ HeldInv' /\ LadderKeepsNoStop' /\ PlannedLossBounded'
<1>1. /\ strategy' = strategy /\ price' = price /\ entered' = entered
      /\ last' = last /\ stop' = stop /\ best' = best
      /\ pos' = [pos EXCEPT ![s] = Reduced(pos[s], q)]
      /\ Fill(s, q) /\ TakesNext(Head(queue).action)
  BY Zenon DEF Filled, Fill, tradeVars
<1>2. BestInv' /\ LadderKeepsNoStop'
  BY <1>1 DEF SimInv, BestInv, LadderKeepsNoStop
<1>3. PlannedLossBounded'
  BY <1>1, FillLoss
<1>4. CASE strategy # "scanner"
  BY <1>1, <1>2, <1>3, <1>4 DEF QueueInv, HeldInv
<1>5. CASE strategy = "scanner"
  <2>1. /\ queue' = <<>>
        /\ \A r \in Sides : ClosesNext(r) => Head(queue) = CloseIntent(r)
    BY <1>1, <1>5, ScannerTakes
  <2>2. QueueInv'
    BY <2>1 DEF QueueInv
  <2>3. pos \in [Sides -> Positions]
    BY DEF SimInv, AccountTypes
  <2>4. \A r \in Sides : Held(r)' => Held(r) /\ ~ClosesNext(r)
    <3>1. SUFFICES ASSUME NEW r \in Sides, Held(r)'
                   PROVE  Held(r) /\ ~ClosesNext(r)
      OBVIOUS
    <3>2. CASE r = s
      <4>1. Reduced(pos[s], q).qty > 0
        BY <1>1, <2>3, <3>1, <3>2 DEF Held
      <4>2. q # pos[s].qty
        BY <4>1 DEF Reduced, NoPosition
      <4>3. Held(s)
        BY <2>3, <4>2 DEF Held, Positions
      <4>4. ~ClosesNext(s)
        BY <2>1, <4>2 DEF CloseIntent
      <4>5. QED
        BY <3>2, <4>3, <4>4
    <3>3. CASE r # s
      <4>1. Held(r)
        BY <1>1, <2>3, <3>1, <3>3 DEF Held
      <4>2. ASSUME ClosesNext(r) PROVE FALSE
        <5>1. Head(queue) = CloseIntent(r)
          BY <2>1, <4>2
        <5>2. Head(queue).action = "close" /\ Head(queue).side = r
          BY <5>1 DEF CloseIntent
        <5>3. QED
          BY <3>3, <5>2
      <4>3. QED
        BY <4>1, <4>2
    <3>4. QED
      BY <3>2, <3>3
  <2>5. \A r \in Sides : Held(r)' => stop[r] # Zero /\ Worse(r, last[r], entered[r])
    BY <1>5, <2>4, Zenon DEF SimInv, HeldInv
  <2>6. HeldInv'
    BY <1>1, <2>5, Zenon DEF HeldInv, Worse
  <2>7. QED
    BY <1>2, <1>3, <2>2, <2>6
<1>6. QED
  BY <1>4, <1>5

--------------------------------------------------------------------------------
(* The invariant holds.                                                    *)

LEMMA InitInv == Init => SimInv
<1>1. SUFFICES ASSUME Init PROVE SimInv
  OBVIOUS
<1>2. /\ queue = <<>> /\ price \in Prices /\ pos = [s \in Sides |-> NoPosition]
      /\ stop = [s \in Sides |-> Zero] /\ best = [s \in Sides |-> Zero]
      /\ balance = Whole(InitialCapital)
      /\ \A s \in Sides : pos[s] = NoPosition /\ stop[s] = Zero /\ best[s] = Zero /\ ~Held(s)
  <2>1. /\ queue = <<>> /\ price \in Prices /\ pos = [s \in Sides |-> NoPosition]
        /\ stop = [s \in Sides |-> Zero] /\ best = [s \in Sides |-> Zero]
        /\ balance = Whole(InitialCapital)
    BY <1>1 DEF Init
  <2>2. \A s \in Sides : pos[s] = NoPosition /\ stop[s] = Zero /\ best[s] = Zero
    BY <2>1
  <2>3. ~(NoPosition.qty > 0)
    BY DEF NoPosition
  <2>4. \A s \in Sides : ~Held(s)
    BY <2>2, <2>3, Zenon DEF Held
  <2>5. QED
    BY <2>1, <2>2, <2>4
<1>3. /\ Zero \in Lowest /\ NoPosition \in Positions /\ PositionSane(NoPosition)
      /\ Whole(InitialCapital) \in Lowest
  BY <1>2, PriceIs, NoPositionIs, WholeIs, RunAssumption
<1>4. AccountTypes /\ OpenOrNone
  <2>1. 0 \in 0 .. Len(TpPercents) /\ 0 \in 0 .. MaxBars
    BY LevelsAssumption, RunAssumption
  <2>2. queue \in Seq(Intents)
    BY <1>2
  <2>3. strategy \in Strategies /\ hedge \in BOOLEAN /\ bars \in 0 .. MaxBars
    BY <1>1, <2>1, Zenon DEF Init
  <2>4. /\ pos \in [Sides -> Positions] /\ last \in [Sides -> Lowest]
        /\ stop \in [Sides -> Lowest] /\ best \in [Sides -> Lowest]
        /\ entered \in [Sides -> Lowest] /\ hits \in [Sides -> 0 .. Len(TpPercents)]
    <3>1. /\ last = [s \in Sides |-> Zero] /\ entered = [s \in Sides |-> Zero]
          /\ hits = [s \in Sides |-> 0]
      BY <1>1 DEF Init
    <3>2. QED
      BY <1>2, <1>3, <2>1, <3>1
  <2>5. OpenOrNone
    BY <1>2, <1>3, Zenon DEF OpenOrNone
  <2>6. QED
    BY <1>2, <1>3, <2>2, <2>3, <2>4, <2>5, Zenon DEF AccountTypes
<1>5. LadderKeepsNoStop /\ QueueInv /\ BestInv /\ HeldInv /\ PlannedLossBounded
  BY <1>2, Zenon DEF LadderKeepsNoStop, QueueInv, BestInv, HeldInv, PlannedLossBounded
<1>6. MarginFits
  <2>1. \A k \in Nat \ {0} : AtLeastAt(NoPosition, k) /\ AtMostAt(NoPosition, k)
    <3>1. TAKE k \in Nat \ {0}
    <3>2. Is(Zero, 0, 1) /\ 0 \in Int /\ 1 \in Nat \ {0}
      BY WholeIs DEF Zero
    <3>3. /\ NoPosition.entry = Zero /\ NoPosition.margin = Zero /\ NoPosition.qty = 0
      BY DEF NoPosition
    <3>4. /\ AtLeastAt(NoPosition, k) <=> (0 * NoPosition.qty) * 1 <= 0 * (1 * k)
          /\ AtMostAt(NoPosition, k) <=> 0 * (1 * k) <= (0 * NoPosition.qty) * 1
      BY <1>3, <3>2, <3>3, FitsIs
    <3>5. (0 * 0) * 1 <= 0 * (1 * k) /\ 0 * (1 * k) <= (0 * 0) * 1
      OBVIOUS
    <3>6. QED
      BY <3>3, <3>4, <3>5, Zenon
  <2>2. BaseLeverage \in Nat \ {0} /\ MaxLeverage \in Nat \ {0}
    BY LeverageAssumption
  <2>3. QED
    BY <1>2, <2>1, <2>2, MarginFitsIs, Zenon
<1>7. UsedWithinCapital
  <2>1. UsedMargin(pos) = Zero (+) Zero
    BY <1>2, SidesAssumption DEF UsedMargin, NoPosition
  <2>2. Is(Zero, 0, 1) /\ Zero \in FractionSet /\ 0 \in Int /\ 1 \in Nat \ {0}
    BY WholeIs DEF Zero, Lowest
  <2>3. Is(Zero (+) Zero, 0 + 0, 1) /\ Zero (+) Zero \in Lowest
    BY <2>2, SumIs
  <2>4. /\ MaxCapital \in Int /\ Is(Whole(MaxCapital), MaxCapital, 1)
        /\ Whole(MaxCapital) \in FractionSet /\ Zero (+) Zero \in FractionSet /\ 0 + 0 \in Int
    BY <2>3, WholeIs, MoneyAssumption DEF Lowest
  <2>5. (Zero (+) Zero) \preceq Whole(MaxCapital) <=> (0 + 0) * 1 <= MaxCapital * 1
    BY <2>2, <2>3, <2>4, AtMostIs
  <2>6. (0 + 0) * 1 <= MaxCapital * 1
    BY MoneyAssumption
  <2>7. QED
    BY <2>1, <2>5, <2>6, Zenon DEF UsedWithinCapital
<1>8. QED
  BY <1>4, <1>5, <1>6, <1>7 DEF SimInv

\* What a bar leaves of the account.
LEMMA BarsKeepAccount ==
    ASSUME SimInv, pos' = pos, balance' = balance, entered' = entered
    PROVE  AccountSane' /\ MarginFits' /\ UsedWithinCapital'
<1>1. AccountSane'
  BY DEF SimInv, AccountTypes, AccountSane, OpenOrNone
<1>2. MarginFits' /\ UsedWithinCapital'
  BY Zenon DEF SimInv, MarginFits, UsedWithinCapital
<1>3. QED
  BY <1>1, <1>2

LEMMA ScannerBarInv ==
    ASSUME SimInv, NEW p \in Prices, ScannerBar(p)
    PROVE  SimInv'
<1>1. /\ strategy = "scanner" /\ strategy' = strategy /\ hedge' = hedge /\ NewBar(p)
      /\ pos' = pos /\ balance' = balance /\ entered' = entered
      /\ AccountTypes /\ OpenOrNone /\ BestInv /\ HeldInv
  BY DEF ScannerBar, NewBar, accountVars, SimInv
<1>2. bars' \in 0 .. MaxBars /\ price' \in Prices
  BY <1>1, BarsTake
<1>3. TradeTypes'
  BY <1>1, ScannerTypes
<1>4. AccountSane' /\ MarginFits' /\ UsedWithinCapital'
  BY <1>1, BarsKeepAccount
<1>5. QueueInv' /\ BestInv' /\ HeldInv' /\ \A s \in Sides : LossKept(s)
  BY ScannerBarKeeps DEF ScannerKeeps
<1>6. PlannedLossBounded'
  BY <1>1, <1>3, <1>5, LossKeptIs DEF TradeTypes
<1>7. LadderKeepsNoStop'
  BY <1>1 DEF LadderKeepsNoStop
<1>8. AccountTypes' /\ OpenOrNone'
  BY <1>1, <1>2, <1>3, <1>4 DEF AccountTypes, TradeTypes, AccountSane
<1>9. QED
  BY <1>4, <1>5, <1>6, <1>7, <1>8 DEF SimInv

LEMMA LadderBarInv ==
    ASSUME SimInv, NEW s \in Sides, NEW p \in Prices, LadderBar(s, p)
    PROVE  SimInv'
<1>1. /\ strategy' = strategy /\ hedge' = hedge /\ NewBar(p)
      /\ pos' = pos /\ balance' = balance /\ entered' = entered
      /\ AccountTypes /\ OpenOrNone
  BY DEF LadderBar, NewBar, accountVars, SimInv
<1>2. bars' \in 0 .. MaxBars /\ price' \in Prices
  BY <1>1, BarsTake
<1>3. TradeTypes'
  BY <1>1, LadderTypes
<1>4. AccountSane'
  BY <1>1, BarsKeepAccount
<1>5. AccountTypes' /\ OpenOrNone'
  BY <1>1, <1>2, <1>3, <1>4 DEF AccountTypes, TradeTypes, AccountSane
<1>6. QED
  BY <1>5, LadderStops DEF SimInv

LEMMA ProcessInv ==
    ASSUME SimInv, FillOpen \/ RejectOpen \/ FillClose \/ FillReduce
    PROVE  SimInv'
<1>1. AccountTypes /\ OpenOrNone /\ MarginFits /\ UsedWithinCapital
  BY DEF SimInv
<1>2. CASE FillOpen
  <2>1. AccountSane' /\ MarginFits' /\ UsedWithinCapital'
    BY <1>1, <1>2, OpenTypes, OpenFits
  <2>2. QueueInv' /\ BestInv' /\ HeldInv' /\ LadderKeepsNoStop' /\ PlannedLossBounded'
    BY <1>2, OpenKeeps
  <2>3. queue' \in Seq(Intents)
    BY <1>1, <1>2, TakesTypes DEF FillOpen
  <2>4. UNCHANGED <<strategy, hedge, bars, price, last, stop, best, hits>>
    BY <1>2 DEF FillOpen, tradeVars
  <2>5. AccountTypes' /\ OpenOrNone'
    BY <1>1, <2>1, <2>3, <2>4 DEF AccountTypes, AccountSane
  <2>6. QED
    BY <2>1, <2>2, <2>5 DEF SimInv
<1>3. CASE RejectOpen
  <2>1. /\ TradeTypes' /\ QueueInv' /\ BestInv' /\ HeldInv' /\ LadderKeepsNoStop'
        /\ \A s \in Sides : LossKept(s)
    BY <1>3, RejectKeeps
  <2>2. UNCHANGED <<strategy, hedge, bars, price, balance, pos, entered>>
    BY <1>3 DEF RejectOpen, accountVars
  <2>3. AccountSane' /\ MarginFits' /\ UsedWithinCapital'
    BY <2>2, BarsKeepAccount
  <2>4. PlannedLossBounded'
    BY <2>1, <2>2, LossKeptIs DEF TradeTypes
  <2>5. AccountTypes' /\ OpenOrNone'
    BY <1>1, <2>1, <2>2, <2>3 DEF AccountTypes, AccountSane, TradeTypes
  <2>6. QED
    BY <2>1, <2>3, <2>4, <2>5 DEF SimInv
<1>4. CASE FillClose \/ FillReduce
  <2>1. PICK s \in Sides :
           \E q \in 0 .. pos[s].qty :
              /\ Filled(s, q) /\ Head(queue) \in Intents
              /\ Head(queue).action = "close" => Head(queue).side = s /\ q = pos[s].qty
    BY <1>1, <1>4, FillIs, Zenon
  <2>2. PICK q \in 0 .. pos[s].qty :
           /\ Filled(s, q) /\ Head(queue) \in Intents
           /\ Head(queue).action = "close" => Head(queue).side = s /\ q = pos[s].qty
    BY <2>1, Zenon
  <2>3. Fill(s, q) /\ TakesNext(Head(queue).action)
    BY <2>2 DEF Filled
  <2>4. AccountSane' /\ MarginFits' /\ UsedWithinCapital'
    BY <1>1, <2>3, FillTypes, FillFits
  <2>5. QueueInv' /\ BestInv' /\ HeldInv' /\ LadderKeepsNoStop' /\ PlannedLossBounded'
    BY <2>2, FillKeeps
  <2>6. queue' \in Seq(Intents)
    BY <1>1, <2>3, TakesTypes
  <2>7. UNCHANGED <<strategy, hedge, bars, price, last, stop, best, hits>>
    BY <2>3, Zenon DEF Fill, tradeVars
  <2>8. AccountTypes' /\ OpenOrNone'
    BY <1>1, <2>4, <2>6, <2>7 DEF AccountTypes, AccountSane
  <2>9. QED
    BY <2>4, <2>5, <2>8 DEF SimInv
<1>5. QED
  BY <1>2, <1>3, <1>4

LEMMA StutterInv ==
    ASSUME SimInv, UNCHANGED vars
    PROVE  SimInv'
<1>1. /\ UNCHANGED <<strategy, hedge, bars, price, queue, balance, pos, entered>>
      /\ UNCHANGED <<last, stop, best, hits>>
  BY DEF vars, accountVars, tradeVars
<1>2. AccountTypes' /\ OpenOrNone' /\ LadderKeepsNoStop' /\ BestInv'
  BY <1>1 DEF SimInv, AccountTypes, OpenOrNone, LadderKeepsNoStop, BestInv
<1>3. QueueInv' /\ HeldInv'
  BY <1>1, Zenon DEF SimInv, QueueInv, ScannerOpens, HeldInv, Held, ClosesNext, Worse
<1>4. MarginFits' /\ UsedWithinCapital' /\ PlannedLossBounded'
  BY <1>1, Zenon DEF SimInv, MarginFits, UsedWithinCapital, PlannedLossBounded, Held
<1>5. QED
  BY <1>2, <1>3, <1>4 DEF SimInv

LEMMA NextInv == SimInv /\ [Next]_vars => SimInv'
<1>1. SUFFICES ASSUME SimInv, [Next]_vars PROVE SimInv'
  OBVIOUS
<1>2. ASSUME NEW p \in Prices, ScannerBar(p) PROVE SimInv'
  BY <1>1, <1>2, ScannerBarInv
<1>3. ASSUME NEW s \in Sides, NEW p \in Prices, LadderBar(s, p) PROVE SimInv'
  BY <1>1, <1>3, LadderBarInv
<1>4. CASE FillOpen \/ RejectOpen \/ FillClose \/ FillReduce
  BY <1>1, <1>4, ProcessInv
<1>5. CASE UNCHANGED vars
  BY <1>1, <1>5, StutterInv
<1>6. QED
  BY <1>1, <1>2, <1>3, <1>4, <1>5, Zenon DEF Next

\* SimInv holds of every state a run reaches: what the strategy, the queue and
\* SimBroker keep of one another between two steps.
THEOREM Invariant == Spec => []SimInv
BY InitInv, NextInv, PTL DEF Spec

LEMMA TypesFollow == SimInv => TypeOK
<1>1. SUFFICES ASSUME SimInv PROVE TypeOK
  OBVIOUS
<1>2. AccountTypes /\ OpenOrNone
  BY <1>1 DEF SimInv
<1>3. \A a \in Lowest : IsFraction(a)
  BY DEF Lowest, FractionSet, IsFraction
<1>4. bars \in 0 .. MaxBars /\ price \in Prices /\ IsFraction(balance)
  BY <1>2, <1>3 DEF AccountTypes
<1>5. ASSUME NEW s \in Sides
      PROVE  /\ pos[s].qty \in Nat /\ pos[s].steps \in Nat
             /\ IsFraction(pos[s].entry) /\ IsFraction(pos[s].margin)
             /\ pos[s].qty = 0 <=> pos[s] = NoPosition
             /\ IsFraction(last[s]) /\ IsFraction(stop[s]) /\ IsFraction(best[s])
             /\ hits[s] \in 0 .. Len(TpPercents)
  <2>1. /\ pos[s] \in Positions /\ last[s] \in Lowest /\ stop[s] \in Lowest /\ best[s] \in Lowest
        /\ hits[s] \in 0 .. Len(TpPercents)
    BY <1>2 DEF AccountTypes
  <2>2. /\ pos[s].qty \in Nat /\ pos[s].steps \in Nat
        /\ pos[s].entry \in Lowest /\ pos[s].margin \in Lowest
    BY <2>1 DEF Positions
  <2>3. pos[s].qty = 0 <=> pos[s] = NoPosition
    BY <1>2 DEF OpenOrNone, PositionSane, NoPosition
  <2>4. QED
    BY <1>3, <2>1, <2>2, <2>3, Zenon
<1>6. QED
  BY <1>4, <1>5, Zenon DEF TypeOK

\* Every amount the broker and the strategy keep is an exact fraction, and a
\* position without a quantity is no position (SimBroker._positions).
THEOREM TypesCorrect == Spec => []TypeOK
BY Invariant, TypesFollow, PTL

\* Whatever multipliers the steps were sized with and however often a part was
\* closed, the margin SimBroker books stays between what the position needs at
\* the highest and at the lowest multiplier.
THEOREM MarginStaysInProportion == Spec => []MarginFits
<1>1. SimInv => MarginFits
  BY DEF SimInv
<1>2. QED
  BY <1>1, Invariant, PTL

\* The margin of both sides never exceeds max_capital_usd: RiskSizer checks an
\* order with the margin it plans, and no fill of SimBroker books more.
THEOREM CapitalIsKept == Spec => []UsedWithinCapital
<1>1. SimInv => UsedWithinCapital
  BY DEF SimInv
<1>2. QED
  BY <1>1, Invariant, PTL

\* At its stop a position of the scanner loses at most max_loss_usd for each of
\* its steps, though RiskSizer looks at one order at a time and the strategy
\* moves the stop between them.
THEOREM LossIsPlanned == Spec => []PlannedLossBounded
<1>1. SimInv => PlannedLossBounded
  BY DEF SimInv
<1>2. QED
  BY <1>1, Invariant, PTL

\* No step moves the stop of an open position against it: _advance_stop, and a
\* refused entry, which forgets the stop of a coin that holds nothing.
THEOREM StopsOnlyTighten == Spec => StopNeverLoosens
<1> DEFINE Kept == \A s \in Sides :
              Held(s) /\ stop[s] # Zero /\ stop'[s] # Zero => AtLeast(s, stop'[s], stop[s])
<1>1. ASSUME SimInv, [Next]_vars
      PROVE  Kept
  <2>1. \A s \in Sides : AtLeast(s, stop[s], stop[s])
    BY <1>1, AtLeastOrder DEF SimInv, AccountTypes
  <2>2. CASE stop' = stop
    BY <2>1, <2>2, Zenon
  <2>3. CASE \A s \in Sides : LossKept(s)
    BY <2>3, Zenon DEF LossKept
  <2>4. ASSUME NEW p \in Prices, ScannerBar(p) PROVE Kept
    <3>1. \A s \in Sides : LossKept(s)
      BY <1>1, <2>4, ScannerBarKeeps DEF ScannerKeeps
    <3>2. QED
      BY <2>3, <3>1, Zenon
  <2>5. ASSUME NEW s \in Sides, NEW p \in Prices, LadderBar(s, p) PROVE Kept
    BY <2>2, <2>5 DEF LadderBar
  <2>6. CASE RejectOpen
    BY <1>1, <2>3, <2>6, RejectKeeps
  <2>7. CASE FillOpen
    BY <2>2, <2>7 DEF FillOpen, tradeVars
  <2>8. CASE FillClose \/ FillReduce
    <3>1. stop' = stop
      BY <2>8 DEF FillClose, FillReduce, Fill, tradeVars
    <3>2. QED
      BY <2>2, <3>1, Zenon
  <2>9. CASE UNCHANGED vars
    BY <2>2, <2>9 DEF vars, tradeVars
  <2>10. QED
    BY <1>1, <2>4, <2>5, <2>6, <2>7, <2>8, <2>9, Zenon DEF Next
<1>2. SimInv /\ [Next]_vars => [Kept]_vars
  BY <1>1
<1>3. QED
  BY <1>2, Invariant, PTL DEF Spec, StopNeverLoosens

\* An entry of the scanner that fills on an open position is worse than the last
\* one that filled, by the spacing, although the strategy compares with its last
\* attempt: attempts only get worse.
THEOREM EntriesAreSpaced == Spec => EntriesSpaced
<1> DEFINE FurtherApart == \A s \in Sides :
              strategy = "scanner" /\ pos[s].steps > 0 /\ pos'[s].steps > pos[s].steps =>
                  /\ Spaced(entered[s], Whole(price), EntrySpacing)
                  /\ ~AtLeast(s, Whole(price), entered[s])
<1>1. ASSUME SimInv, [Next]_vars
      PROVE  FurtherApart
  <2>1. AccountTypes /\ OpenOrNone
    BY <1>1 DEF SimInv
  <2>2. \A s \in Sides : pos[s].steps \in Nat /\ ~(pos[s].steps > pos[s].steps)
    BY <2>1 DEF AccountTypes, Positions
  <2>3. CASE pos' = pos
    BY <2>2, <2>3, Zenon
  <2>4. ASSUME NEW p \in Prices, ScannerBar(p) PROVE pos' = pos
    BY <2>4 DEF ScannerBar, NewBar, accountVars
  <2>5. ASSUME NEW s \in Sides, NEW p \in Prices, LadderBar(s, p) PROVE pos' = pos
    BY <2>5 DEF LadderBar, NewBar, accountVars
  <2>6. CASE RejectOpen
    BY <2>3, <2>6 DEF RejectOpen, accountVars
  <2>7. CASE FillOpen
    <3>1. SUFFICES ASSUME NEW s \in Sides, strategy = "scanner",
                          pos[s].steps > 0, pos'[s].steps > pos[s].steps
                   PROVE  /\ Spaced(entered[s], Whole(price), EntrySpacing)
                          /\ ~AtLeast(s, Whole(price), entered[s])
      BY Zenon
    <3>2. PICK i \in Intents : i = Head(queue) /\ ScannerOpens(i) /\ i.action = "open"
      BY <1>1, <2>7, <3>1, ScannerTakes DEF FillOpen
    <3>3. PICK r \in Sides : \E y : r = i.side /\ pos' = [pos EXCEPT ![r] = y]
      BY <2>1, <2>7, <3>2, OpenIs, Zenon
    <3>4. s = r
      BY <2>1, <2>2, <3>1, <3>3 DEF AccountTypes
    <3>5. Held(s)
      BY <2>1, <3>1 DEF AccountTypes, Positions, OpenOrNone, PositionSane, NoPosition, Held
    <3>6. QED
      BY <3>2, <3>3, <3>4, <3>5, Zenon DEF ScannerOpens
  <2>8. CASE FillClose \/ FillReduce
    <3>1. PICK r \in Sides : \E q \in 0 .. pos[r].qty : Filled(r, q)
      BY <2>1, <2>8, FillIs, Zenon
    <3>2. PICK q \in 0 .. pos[r].qty : Filled(r, q)
      BY <3>1
    <3>3. pos' = [pos EXCEPT ![r] = Reduced(pos[r], q)]
      BY <3>2, Zenon DEF Filled, Fill
    <3>4. PICK y : y = Reduced(pos[r], q)
      OBVIOUS
    <3>5. y.steps = 0 \/ y.steps = pos[r].steps
      BY <2>1, <3>4 DEF Reduced, NoPosition, AccountTypes, Positions
    <3>6. \A s \in Sides : pos'[s] = IF s = r THEN y ELSE pos[s]
      BY <2>1, <3>3, <3>4 DEF AccountTypes
    <3>7. ASSUME NEW s \in Sides PROVE ~(pos[s].steps > 0 /\ pos'[s].steps > pos[s].steps)
      BY <2>2, <3>5, <3>6
    <3>8. QED
      BY <3>7, Zenon
  <2>9. CASE UNCHANGED vars
    BY <2>3, <2>9 DEF vars, accountVars
  <2>10. QED
    BY <1>1, <2>3, <2>4, <2>5, <2>6, <2>7, <2>8, <2>9, Zenon DEF Next
<1>2. SimInv /\ [Next]_vars => [FurtherApart]_vars
  BY <1>1
<1>3. QED
  BY <1>2, Invariant, PTL DEF Spec, EntriesSpaced

--------------------------------------------------------------------------------
(* The equity.                                                             *)

\* One position has changed, by k.
LEMMA TradedIs ==
    ASSUME AccountTypes, NEW s \in Sides, NEW y, NEW k \in Nat,
           pos' = [pos EXCEPT ![s] = y],
           y.qty = pos[s].qty + k \/ y.qty + k = pos[s].qty, y.qty \in Nat
    PROVE  Traded("LONG") + Traded("SHORT") = k
<1>1. \A t \in Sides : pos[t].qty \in Nat
  BY DEF AccountTypes, Positions
<1>2. pos'[s] = y /\ \A t \in Sides : t # s => pos'[t] = pos[t]
  BY DEF AccountTypes
<1>3. Traded(s) = k
  BY <1>1, <1>2 DEF Traded, Magnitude
<1>4. \A t \in Sides : t # s => Traded(t) = 0
  BY <1>1, <1>2 DEF Traded, Magnitude
<1>5. QED
  BY <1>3, <1>4, SidesAssumption

LEMMA NothingTraded ==
    ASSUME AccountTypes, pos' = pos, balance' = balance, price' = price
    PROVE  Equity(balance', pos', price) =
              Equity(balance, pos, price) (-) Fee(Traded("LONG") + Traded("SHORT"), price)
<1>1. "LONG" \in Sides /\ "SHORT" \in Sides /\ \A t \in Sides : pos[t].qty \in Nat
  BY SidesAssumption DEF AccountTypes, Positions
<1>2. Traded("LONG") = 0 /\ Traded("SHORT") = 0
  BY <1>1 DEF Traded, Magnitude
<1>3. price \in Nat \ {0} /\ price \in Int /\ FeePercent \in Int /\ 100 \in Nat \ {0}
  BY PricesAssumption, MoneyAssumption DEF AccountTypes
<1>4. PICK z \in Int : z = 0 * price * FeePercent /\ z = 0
  BY <1>3
<1>5. Frac(z, 100) = Zero
  <2>1. Frac(0, 100) \in Lowest /\ Is(Frac(0, 100), 0, 100)
    BY <1>3, FracIs, 0 \in Int
  <2>2. Zero \in Lowest /\ Is(Zero, 0, 1) /\ 0 \in Int /\ 1 \in Nat \ {0}
    BY WholeIs DEF Zero
  <2>3. Is(Zero, 0, 100)
    BY <1>3, <2>2, IsOther, 0 * 100 = 0 * 1 DEF Lowest
  <2>4. QED
    BY <1>3, <1>4, <2>1, <2>2, <2>3, IsUnique
<1>6. Fee(0, price) = Zero
  BY <1>4, <1>5, Zenon DEF Fee
<1>7. Equity(balance, pos, price) \in Lowest
  BY <1>3, EquityIs DEF AccountTypes
<1>8. Equity(balance, pos, price) (-) Zero = Equity(balance, pos, price)
  BY <1>7, NothingLess
<1>9. Traded("LONG") + Traded("SHORT") = 0
  BY <1>2
<1>10. QED
  BY <1>6, <1>8, <1>9, Zenon

\* A fill at the mark changes the equity by its fee: the entry price SimBroker
\* averages and the profit it realizes leave the rest of it as it was.
THEOREM EquityIsKept == Spec => EquityMovesByFee
<1> DEFINE ByFee ==
      Equity(balance', pos', price) =
          Equity(balance, pos, price) (-) Fee(Traded("LONG") + Traded("SHORT"), price)
<1>1. ASSUME SimInv, [Next]_vars, price' = price
      PROVE  ByFee
  <2>1. AccountTypes /\ OpenOrNone
    BY <1>1 DEF SimInv
  <2>2. /\ price \in Nat \ {0} /\ price \in Nat /\ price \in Int
        /\ pos \in [Sides -> Positions] /\ balance \in Lowest
    BY <2>1, PricesAssumption DEF AccountTypes
  <2>3. PICK P \in [Sides -> Positions], b \in Lowest, p \in Int :
            P = pos /\ b = balance /\ p = price
    BY <2>2, Zenon
  <2>4. CASE pos' = pos /\ balance' = balance
    BY <1>1, <2>1, <2>4, NothingTraded
  <2>5. ASSUME NEW c \in Prices, ScannerBar(c) PROVE pos' = pos /\ balance' = balance
    BY <2>5 DEF ScannerBar, NewBar, accountVars
  <2>6. ASSUME NEW s \in Sides, NEW c \in Prices, LadderBar(s, c)
        PROVE  pos' = pos /\ balance' = balance
    BY <2>6 DEF LadderBar, NewBar, accountVars
  <2>7. CASE RejectOpen
    BY <2>4, <2>7 DEF RejectOpen, accountVars
  <2>8. CASE FillOpen
    <3>1. PICK s \in Sides, q \in Nat \ {0}, l \in Nat \ {0} :
             /\ balance' = balance (-) Fee(q, price)
             /\ pos' = [pos EXCEPT ![s] = Enlarged(pos[s], q, l, price)]
      BY <2>1, <2>8, OpenIs, Zenon
    <3>2. pos[s] \in Positions /\ pos[s].qty \in Nat /\ q \in Nat
      BY <2>2 DEF Positions
    <3>3. PICK y \in Positions : y = Enlarged(pos[s], q, l, price) /\ y.qty = pos[s].qty + q
      BY <2>2, <3>2, EnlargedFacts
    <3>4. Traded("LONG") + Traded("SHORT") = q
      <4>1. pos' = [pos EXCEPT ![s] = y]
        BY <3>1, <3>3
      <4>2. QED
        BY <2>1, <3>2, <3>3, <4>1, TradedIs DEF Positions
    <3>5. UnrealizedPnl(y, s, price) = UnrealizedPnl(pos[s], s, price)
      BY <2>2, <3>2, <3>3, EnlargedPnl
    <3>6. PICK f \in FractionSet : f = Fee(q, price)
      BY <2>2, <3>2, FeeIs
    <3>7. PICK Q : Q = pos' /\ Q[s] = y /\ \A t \in Sides : t # s => Q[t] = P[t]
      BY <2>2, <2>3, <3>1, <3>3
    <3>8. Equity(b (-) f, Q, p) = Equity(b, P, p) (-) f
      <4>1. UnrealizedPnl(y, s, p) = UnrealizedPnl(P[s], s, p)
        BY <2>3, <3>5, Zenon
      <4>2. QED
        BY <3>7, <4>1, OpenKeepsEquity
    <3>9. QED
      BY <2>3, <3>1, <3>3, <3>4, <3>6, <3>7, <3>8, Zenon
  <2>9. CASE FillClose \/ FillReduce
    <3>1. PICK s \in Sides : \E q \in 0 .. pos[s].qty : Filled(s, q)
      BY <2>1, <2>9, FillIs, Zenon
    <3>2. PICK q \in 0 .. pos[s].qty : Filled(s, q)
      BY <3>1
    <3>3. /\ balance' = balance (+) (RealizedPnl(pos[s], s, q, price) (-) Fee(q, price))
          /\ pos' = [pos EXCEPT ![s] = Reduced(pos[s], q)]
      BY <3>2, Zenon DEF Filled, Fill
    <3>4. pos[s] \in Positions /\ PositionSane(pos[s]) /\ pos[s].qty \in Nat /\ q \in Nat
      BY <2>1 DEF AccountTypes, OpenOrNone, Positions
    <3>5. PICK y \in Positions : y = Reduced(pos[s], q)
      BY <3>4, ReducedSane
    <3>6. y.qty + q = pos[s].qty
      BY <3>4, <3>5 DEF Reduced, NoPosition, Positions
    <3>7. Traded("LONG") + Traded("SHORT") = q
      <4>1. pos' = [pos EXCEPT ![s] = y]
        BY <3>3, <3>5
      <4>2. QED
        BY <2>1, <3>4, <3>6, <4>1, TradedIs DEF Positions
    <3>8. PICK r \in FractionSet :
             /\ r = RealizedPnl(pos[s], s, q, price)
             /\ UnrealizedPnl(pos[s], s, price) = r (+) UnrealizedPnl(y, s, price)
      BY <2>2, <3>4, <3>5, ReducedPnl DEF Lowest
    <3>9. PICK f \in FractionSet : f = Fee(q, price)
      BY <2>2, <3>4, FeeIs
    <3>10. PICK Q : Q = pos' /\ Q[s] = y /\ \A t \in Sides : t # s => Q[t] = P[t]
      BY <2>2, <2>3, <3>3, <3>5
    <3>11. Equity(b (+) (r (-) f), Q, p) = Equity(b, P, p) (-) f
      <4>1. UnrealizedPnl(P[s], s, p) = r (+) UnrealizedPnl(y, s, p)
        BY <2>3, <3>8, Zenon
      <4>2. QED
        BY <3>10, <4>1, CloseKeepsEquity
    <3>12. QED
      BY <2>3, <3>3, <3>5, <3>7, <3>8, <3>9, <3>10, <3>11, Zenon
  <2>10. CASE UNCHANGED vars
    BY <2>4, <2>10 DEF vars, accountVars
  <2>11. QED
    BY <1>1, <2>4, <2>5, <2>6, <2>7, <2>8, <2>9, <2>10, Zenon DEF Next
<1>2. SimInv /\ [Next]_vars => [price' = price => Equity(balance', pos', price) =
          Equity(balance, pos, price) (-) Fee(Traded("LONG") + Traded("SHORT"), price)]_vars
  BY <1>1, Zenon
<1>3. QED
  BY <1>2, Invariant, PTL DEF Spec, EquityMovesByFee

================================================================================
