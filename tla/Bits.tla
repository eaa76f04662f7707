-------------------------------- MODULE Bits --------------------------------
(***************************************************************************)
(* Numbers and their bits: powers of two, shifts, and the number that has  *)
(* a given set of bits.                                                    *)
(***************************************************************************)
EXTENDS Integers

\* 1 << n.
Power(n) ==
  LET power[i \in 0..n] == IF i = 0 THEN 1 ELSE 2 * power[i - 1]
  IN power[n]

\* x >> n.
Shifted(x, n) ==
  LET shifted[i \in 0..n] == IF i = 0 THEN x ELSE shifted[i - 1] \div 2
  IN shifted[n]

\* The bit of x at place i.
Bit(x, i) == Shifted(x, i) % 2

\* The bits below n that x has set, and the number with exactly these.
Ones(n, x) == {i \in 0..(n - 1) : Bit(x, i) = 1}

FromOnes(n, S) ==
  LET number[i \in 0..n] ==
        IF i = 0 THEN 0 ELSE 2 * number[i - 1] + (IF n - i \in S THEN 1 ELSE 0)
  IN number[n]
=============================================================================
