---------------------------- MODULE MCProcessor -----------------------------
(***************************************************************************)
(* The programs that come with the processor, the words of their .ibits    *)
(* files beside the listings of the comments, on chosen inputs: around the *)
(* sign bit, around the limit of time, and zero.                           *)
(***************************************************************************)
EXTENDS Programs

\* divider.ibits
Divider == [
  name |-> "divider",
  program |-> At0(<<\h0bb6, \h2207, \h0bcf, \h07c5, \h2353,
                    \h1786, \h28c2, \h0ba6, \h03cf, \h3c00>>),
  listing |-> DividerListing]

\* ifib.ibits
IFib == [
  name |-> "ifib",
  program |-> At0(<<\h0a00, \h0b24, \h0adb, \h16da, \h0b6d, \h176d,
                    \h02c4, \h0283, \h02e2, \h0b4e, \h2985, \h3c00>>),
  listing |-> IFibListing]

\* Each operation the two do not use, once.
Operations == [
  name |-> "operations",
  program |-> At0(<<\h0e0a, \h120b, \h2e0c, \h320d, \h360e, \h3a0f, \h3c00>>),
  listing |-> At0(<<Op("^", 0, 1, 2), Op("|", 0, 1, 3), Op(">>", 0, 1, 4),
                    Op(">>>", 0, 1, 5), Op("<<", 0, 1, 6), Op("<<", 0, 1, 7),
                    Op("done", 0, 0, 0)>>)]

\* No program: the program counter runs through a store of zeros.
Empty == [name |-> "empty", program |-> At0(<<>>), listing |-> At0(<<>>)]

Loaded(p, registers) ==
  [name |-> p.name, program |-> p.program, listing |-> p.listing,
   registers |-> At0(registers)]

Ends == {0, 1, 2, 3, 10, SignBit - 2, SignBit - 1, SignBit, SignBit + 1, Modulus - 1}

MCImage ==
  { Loaded(Divider, <<dividend, divisor, SignBit, 0, 1, 0, 0, 0>>) :
      dividend \in Ends \cup {28, 29}, divisor \in Ends }
  \cup { Loaded(IFib, <<Modulus - 1, arg>> \o [i \in 1..6 |-> Modulus - 1]) :
           arg \in {0, 1, 2, 5, 10, 11, 12, 25, 26} }
  \cup { Loaded(Operations, <<a, b>> \o [i \in 1..6 |-> 0]) :
           a \in Ends \cup {42}, b \in Ends \cup {21} }
  \cup { Loaded(Empty, [i \in 1..8 |-> 0]) }

----------------------------------------------------------------------------
(***************************************************************************)
(* Properties                                                              *)
(***************************************************************************)

\* How run() must end: a loop that takes too long, or never ends because the
\* divisor or the argument is zero, at the limit of time; a program without an
\* end in memory that is not its own; all else normally, the slowest of them on
\* the last tick that the limit leaves (div_10_0.txt explains the zero divisor).
Expected ==
  CASE loaded.name = "divider" /\ Divides ->
         IF 5 * (Starts(0) \div Starts(1) + 2) < MaxExecuteTime THEN {"done"} ELSE {"max time"}
    [] loaded.name = "divider" /\ Starts(0) < SignBit /\ Starts(1) = 0 -> {"max time"}
    [] loaded.name = "ifib" ->
         IF Starts(1) # 0 /\ 6 * (Starts(1) + 1) < MaxExecuteTime THEN {"done"} ELSE {"max time"}
    [] loaded.name = "operations" -> {"done"}
    [] loaded.name = "empty" -> {"stray"}
    [] OTHER -> {"done", "max time"}

\* run() ends, and ends so.
EndsAsExpected == <>[](status # "running" /\ status \in Expected)
=============================================================================
