------------------------------- MODULE Fractions -------------------------------
(***************************************************************************)
(* Exact fractions, for the Decimals of the simulated account.  A fraction *)
(* is kept with the least denominator there is, so that equal fractions    *)
(* are equal records.                                                      *)
(***************************************************************************)
EXTENDS Integers

Magnitude(i) == IF i < 0 THEN -i ELSE i

\* Over e, n / d is a whole number of parts.
Reduces(n, d, e) == d % e = 0 /\ n % (d \div e) = 0

\* n / d, for d > 0.
Frac(n, d) ==
    LET e == CHOOSE e \in 1 .. d :
                Reduces(n, d, e) /\ \A f \in 1 .. e - 1 : ~Reduces(n, d, f)
    IN [num |-> n \div (d \div e), den |-> e]

Whole(n) == [num |-> n, den |-> 1]
Zero == Whole(0)

\* Over the least common multiple of the denominators.
a (+) b ==
    LET r == Frac(a.den, b.den) IN Frac(a.num * r.den + b.num * r.num, a.den * r.den)
Minus(a) == [a EXCEPT !.num = -@]
a (-) b == a (+) Minus(b)
a (.) b == Frac(a.num * b.num, a.den * b.den)
\* For b > 0.
a (/) b == Frac(a.num * b.den, a.den * b.num)

a \preceq b == a.num * b.den <= b.num * a.den

Absolute(a) == [a EXCEPT !.num = Magnitude(@)]

IsFraction(a) == a.num \in Int /\ a.den \in Nat \ {0}
================================================================================
