------------------------------- MODULE Numbers ------------------------------
(***************************************************************************)
(* The numbers of the Subpython interpreter (lab04, eval.c).  A number is  *)
(* a fraction num/den, an int one with den = 1.  A float is exact here:    *)
(* what a double cannot hold is not rounded.  With den = 0 it is one of    *)
(* the two infinities, or NaN if num is 0 too; there is one zero.          *)
(***************************************************************************)
EXTENDS Integers

Sign(n) == IF n > 0 THEN 1 ELSE IF n < 0 THEN -1 ELSE 0
Magnitude(n) == Sign(n) * n

\* Division of ints in C, which rounds towards zero, and its remainder.
Quotient(a, b) == Sign(a) * Sign(b) * (Magnitude(a) \div Magnitude(b))
Remainder(a, b) == a - b * Quotient(a, b)

\* The greatest number that divides n and d, for d > 0.
Divides(g, n, d) == n % g = 0 /\ d % g = 0
CommonDivisor(n, d) ==
  CHOOSE g \in 1..d : Divides(g, n, d) /\ \A h \in (g + 1)..d : ~Divides(h, n, d)

\* The number n/d in lowest terms, for d >= 0.
Fraction(n, d) ==
  IF d = 0 THEN [num |-> Sign(n), den |-> 0]
  ELSE LET g == CommonDivisor(n, d) IN [num |-> n \div g, den |-> d \div g]

NaN == [num |-> 0, den |-> 0]
Infinite(a) == a.den = 0

\* The whole part of a finite number.
Whole(a) == Quotient(a.num, a.den)

Opposite(a) == [num |-> -a.num, den |-> a.den]

Plus(a, b) ==
  IF Infinite(a) /\ Infinite(b) THEN IF a = b THEN a ELSE NaN
  ELSE Fraction(a.num * b.den + b.num * a.den, a.den * b.den)

Times(a, b) == Fraction(a.num * b.num, a.den * b.den)

\* A zero that divides counts as positive.
Over(a, b) ==
  Fraction(a.num * b.den * (IF b.num < 0 THEN -1 ELSE 1), a.den * Magnitude(b.num))

\* fmod.
Mod(a, b) ==
  IF Infinite(a) \/ b.num = 0 THEN NaN
  ELSE IF Infinite(b) THEN a
  ELSE Plus(a, Opposite(Times(b, [num |-> Whole(Over(a, b)), den |-> 1])))

\* The operators of the language on doubles.
FloatResult(op, a, b) ==
  CASE op = "+" -> Plus(a, b)
    [] op = "-" -> Plus(a, Opposite(b))
    [] op = "*" -> Times(a, b)
    [] op = "/" -> Over(a, b)
    [] op = "%" -> Mod(a, b)

\* The operators of the language that give an int for two of them.
IntResult(op, a, b) ==
  CASE op = "+" -> a + b
    [] op = "-" -> a - b
    [] op = "*" -> a * b
    [] op = "%" -> Remainder(a, b)

\* Which side of the finite numbers a lies on.
Side(a) == IF Infinite(a) THEN a.num ELSE 0

Below(a, b) ==
  \/ Side(a) < Side(b)
  \/ ~Infinite(a) /\ ~Infinite(b) /\ a.num * b.den < b.num * a.den

\* Whether the comparison op of two numbers holds: none does for NaN.
Holds(op, a, b) ==
  LET p == [num |-> a.num, den |-> a.den]
      q == [num |-> b.num, den |-> b.den]
  IN /\ NaN \notin {p, q}
     /\ CASE op = "==" -> p = q
          [] op = "<" -> Below(p, q)
          [] op = ">" -> Below(q, p)
          [] op = "<=" -> ~Below(q, p)
          [] op = ">=" -> ~Below(p, q)
=============================================================================
