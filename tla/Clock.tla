------------------------------- MODULE Clock --------------------------------
(***************************************************************************)
(* The cycle counter of lab03 (clock.c, the x86 version).  The processor   *)
(* counts cycles in two words; a measurement is the difference of two      *)
(* readings, from which the compensating version takes the clock ticks in  *)
(* between, at a price per tick that is measured once.                     *)
(***************************************************************************)
EXTENDS Integers, Sequences, SequencesExt

CONSTANTS
  CounterWord, \* the number of values of a word of the counter: 2^32 in C
  RecordThresh \* RECORDTHRESH, the least number of cycles that a tick may cost

ASSUME ClockAssumption ==
  /\ CounterWord \in Nat \ {0}
  /\ RecordThresh \in Nat

\* access_counter: what the counter shows after t cycles.
access_counter(t) ==
  [hi |-> (t \div CounterWord) % CounterWord, lo |-> t % CounterWord]

\* Mutant: the borrow is forgotten.
get_counter_no_borrow(cyc, ncyc) ==
  LET lo == (ncyc.lo - cyc.lo) % CounterWord
      hi == (ncyc.hi - cyc.hi) % CounterWord
  IN hi * CounterWord + lo

\* get_counter: the subtraction of the two words of reading cyc from those of
\* the later reading ncyc, in the unsigned arithmetic of C.
get_counter(cyc, ncyc) ==
  LET lo == (ncyc.lo - cyc.lo) % CounterWord
      borrow == IF lo > ncyc.lo THEN 1 ELSE 0
      hi == (ncyc.hi - cyc.hi - borrow) % CounterWord
  IN hi * CounterWord + lo

\* callibrate: the least price of a tick among the events seen that is over the
\* threshold, or 0.
callibrate(events) ==
  FoldLeft(LAMBDA cyc_per_tick, cpt :
             IF (cyc_per_tick = 0 \/ cyc_per_tick > cpt) /\ cpt > RecordThresh
             THEN cpt ELSE cyc_per_tick,
           0, events)

\* get_comp_counter: the cycles between two readings without those of the ticks.
get_comp_counter(cyc, ncyc, ticks, cyc_per_tick) ==
  get_counter(cyc, ncyc) - ticks * cyc_per_tick
=============================================================================
