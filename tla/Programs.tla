------------------------------ MODULE Programs ------------------------------
(***************************************************************************)
(* The two programs that come with the processor, as their .ibits files    *)
(* list them in comments, and what they compute.                           *)
(***************************************************************************)
EXTENDS Processor, Sequences

\* The sequence s as it lies in the instruction store.
At0(s) == [a \in 0..(Len(s) - 1) |-> s[a + 1]]

Op(op, a, b, to) == [op |-> op, a |-> a, b |-> b, to |-> to]

\* divider.ibits
DividerListing ==
  At0(<<Op("-", 6, 6, 6), Op("&", 0, 0, 7), Op("-", 7, 1, 7),
        Op("~", 7, 7, 5), Op("&", 5, 2, 3), Op("++", 6, 6, 6),
        Op("bnz", 3, 3, 2), Op("-", 6, 4, 6), Op("+", 7, 1, 7),
        Op("done", 0, 0, 0)>>)

\* ifib.ibits
IFibListing ==
  At0(<<Op("-", 0, 0, 0), Op("-", 4, 4, 4), Op("-", 3, 3, 3),
        Op("++", 3, 3, 2), Op("-", 5, 5, 5), Op("++", 5, 5, 5),
        Op("+", 3, 0, 4), Op("+", 2, 0, 3), Op("+", 3, 4, 2),
        Op("-", 5, 1, 6), Op("bnz", 6, 6, 5), Op("done", 0, 0, 0)>>)

\* The divider finds the sign bit and a one in its registers (div_15_5.rbits), and
\* the limit of time, 1000 ticks against words of 32 bits, ends a program before its
\* counter can come around to zero.
ASSUME ProgramAssumption ==
  /\ MaxExecuteTime <= 6 * Modulus
  /\ \A i \in Image :
       /\ i.name = "divider" =>
            i.listing = DividerListing /\ i.registers[2] = SignBit /\ i.registers[4] = 1
       /\ i.name = "ifib" => i.listing = IFibListing

Starts(r) == loaded.registers[r]

\* What the divider divides: a dividend without the sign bit by a divisor that
\* is not zero and at most the sign bit.
Divides ==
  /\ loaded.name = "divider"
  /\ Starts(0) < SignBit
  /\ Starts(1) \in 1..SignBit

----------------------------------------------------------------------------
(***************************************************************************)
(* Properties                                                              *)
(***************************************************************************)

\* When the divider is done, R6 holds the quotient and R7 the remainder of what
\* R0 and R1 held, through the loop that goes one subtraction too far and takes
\* it back.  Whatever is divided, also by zero and with the sign bit set, each
\* time it comes to the top of its loop, and when it is done, quotient times
\* divisor plus remainder are the dividend up to a word (divider.ibits).
DivisionExact ==
  /\ (Divides /\ status = "done") =>
       rfmem[6] = Starts(0) \div Starts(1) /\ rfmem[7] = Starts(0) % Starts(1)
  /\ (loaded.name = "divider" /\ time > 0 /\ (status = "done" \/ bus.pc = 2)) =>
       (rfmem[6] * Starts(1) + rfmem[7] - Starts(0)) % Modulus = 0

\* The Fibonacci numbers n and n + 1, as words.
FibPair[n \in 0..Modulus] ==
  IF n = 0 THEN <<0, 1>>
  ELSE LET p == FibPair[n - 1] IN <<p[2], (p[1] + p[2]) % Modulus>>

\* When ifib is done, R2 holds the Fibonacci number after the one its argument
\* counts, up to a word (ifib.ibits).
FibonacciExact ==
  (loaded.name = "ifib" /\ status = "done") => rfmem[2] = FibPair[Starts(1)][2]

\* What both programs leave in their registers.
ProgramsExact == DivisionExact /\ FibonacciExact
=============================================================================
