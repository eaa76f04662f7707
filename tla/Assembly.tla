------------------------------ MODULE Assembly ------------------------------
(***************************************************************************)
(* What a programmer of the processor of lab01 reads in a listing: a       *)
(* register gets the result of an operation on registers, a branch is      *)
(* taken when a register is not zero, the program is done.  No buses, no   *)
(* encoding, no units, no limit of time.  Words are told by their bits.    *)
(***************************************************************************)
EXTENDS Integers, Bits

CONSTANTS
  Width,    \* the bits of a register
  Listings  \* the programs: instructions by their address

VARIABLES
  listing,   \* the program
  register,  \* the registers
  at,        \* the address of the next instruction
  done       \* whether the program has ended

vars == <<listing, register, at, done>>

Same(x, y) == (x - y) % Power(Width) = 0

Init ==
  /\ listing \in Listings
  /\ at = 0
  /\ done = FALSE

\* y is the result of the operation op on a and b.
Result(op, a, b, y) ==
  CASE op = "+"  -> Same(y, a + b)
    [] op = "-"  -> Same(y, a - b)
    [] op = "++" -> Same(y, a + 1)
    [] op = "~"  -> \A i \in 0..(Width - 1) : Bit(y, i) = 1 - Bit(a, i)
    [] op = "&"  -> \A i \in 0..(Width - 1) : Bit(y, i) = Bit(a, i) * Bit(b, i)
    [] op = "|"  -> \A i \in 0..(Width - 1) : Bit(y, i) = 1 <=> 1 \in {Bit(a, i), Bit(b, i)}
    [] op = "^"  -> \A i \in 0..(Width - 1) : Bit(y, i) = (Bit(a, i) + Bit(b, i)) % 2
    [] op = "<<" -> Bit(y, 0) = 0 /\ \A i \in 1..(Width - 1) : Bit(y, i) = Bit(a, i - 1)
    [] op \in {">>", ">>>"} ->
         /\ Bit(y, Width - 1) = IF op = ">>" THEN Bit(a, Width - 1) ELSE 0
         /\ \A i \in 1..(Width - 1) : Bit(y, i - 1) = Bit(a, i)

Assign(e) ==
  /\ register'[e.to] \in 0..(Power(Width) - 1)
  /\ Result(e.op, register[e.a], register[e.b], register'[e.to])
  /\ register' = [register EXCEPT ![e.to] = register'[e.to]]
  /\ at' = at + 1
  /\ UNCHANGED done

Branch(e) ==
  /\ at' = IF register[e.a] # 0 THEN e.to ELSE at + 1
  /\ UNCHANGED <<register, done>>

End ==
  /\ at' = at + 1
  /\ done' = TRUE
  /\ UNCHANGED register

\* Past the end of its listing a program does nothing.
Nothing ==
  /\ at' = at + 1
  /\ UNCHANGED <<register, done>>

Execute ==
  /\ ~done
  /\ UNCHANGED listing
  /\ IF at \notin DOMAIN listing THEN Nothing
     ELSE CASE listing[at].op = "done" -> End
            [] listing[at].op = "bnz" -> Branch(listing[at])
            [] OTHER -> Assign(listing[at])

Spec == Init /\ [][Execute]_vars
=============================================================================
