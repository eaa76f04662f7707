-------------------------------- MODULE Fcyc --------------------------------
(***************************************************************************)
(* The K-best measurement of lab03 (fcyc.c): a function is run again and   *)
(* again until its K fastest runs agree, or the number of runs is at its   *)
(* limit.  The result is the fastest run.                                  *)
(***************************************************************************)
EXTENDS Clock

CONSTANTS
  kbest, maxsamples,       \* the parameters that init_fsecs sets
  EpsilonNum, EpsilonDen,  \* epsilon, as a fraction
  RunTime,                 \* the numbers of cycles that a run may take
  Ticks,                   \* the numbers of clock ticks during a run
  Events,                  \* the sequences of events that callibrate may see
  CounterStart             \* the first positions of the cycle counter

ASSUME FcycAssumption ==
  /\ kbest \in Nat \ {0}
  /\ maxsamples \in Nat
  /\ EpsilonNum \in Nat /\ EpsilonDen \in Nat \ {0}
  /\ RunTime \subseteq 0..(CounterWord * CounterWord - 1)
  /\ CounterStart \subseteq 0..(CounterWord * CounterWord - 1)
  /\ Ticks \subseteq Nat
  /\ \A e \in Events : callibrate(e) \in Nat

VARIABLES
  sampling,     \* fcyc is in its "loop", is "done" with it, or "off"
  values,       \* the kbest best samples, in order, as far as there are any
  samplecount,
  cycles,       \* the position of the cycle counter
  cyc_per_tick,
  samples       \* all samples of this measurement, as they should be (history)

fcycVars == <<sampling, values, samplecount, cycles, cyc_per_tick, samples>>

NoValues == [j \in 0..(kbest - 1) |-> 0]

FcycInit ==
  /\ sampling = "off"
  /\ values = NoValues
  /\ samplecount = 0
  /\ cycles \in CounterStart
  /\ cyc_per_tick = 0
  /\ samples = <<>>

----------------------------------------------------------------------------
\* The place where the insertion sort leaves val, which comes in at pos: the
\* values before pos are in order.
Place(v, pos, val) ==
  CHOOSE p \in 0..pos : /\ \A j \in p..(pos - 1) : v[j] > val
                        /\ p > 0 => v[p - 1] <= val

\* The values v with val at place q, and those from there to pos moved up.
Inserted(v, q, pos, val) ==
  [j \in 0..(kbest - 1) |->
     IF j < q \/ j > pos THEN v[j] ELSE IF j = q THEN val ELSE v[j - 1]]

\* add_sample: val is kept behind the others as long as there is room, and then
\* in place of the worst if it is better; an insertion sort follows.
add_sample(v, n, val) ==
  IF n < kbest THEN Inserted(v, Place(v, n, val), n, val)
  ELSE IF val < v[kbest - 1]
  THEN Inserted(v, Place(v, kbest - 1, val), kbest - 1, val)
  ELSE v

\* has_converged: the kbest minimum measurements are within epsilon.
has_converged(v, n) ==
  /\ n >= kbest
  /\ (EpsilonDen + EpsilonNum) * v[0] >= EpsilonDen * v[kbest - 1]

\* fcyc starts with init_sampler.
FcycStart ==
  /\ sampling = "off"
  /\ sampling' = "loop"
  /\ values' = NoValues
  /\ samplecount' = 0
  /\ samples' = <<>>
  /\ UNCHANGED <<cycles, cyc_per_tick>>

\* start_comp_counter callibrates as long as it knows no price of a tick.
Price == IF cyc_per_tick = 0 THEN {callibrate(e) : e \in Events} ELSE {cyc_per_tick}

\* One turn of the loop, in which the function takes t cycles and the clock
\* ticks n times.  Clearing the cache before it changes nothing that is modelled.
FcycSample(t, n) ==
  LET now == (cycles + t) % (CounterWord * CounterWord)
  IN \E price \in Price :
     LET cyc == get_comp_counter(access_counter(cycles), access_counter(now), n, price)
         sorted == add_sample(values, samplecount, cyc)
     IN /\ sampling = "loop"
        /\ cyc_per_tick' = price
        /\ cycles' = now
        /\ values' = sorted
        /\ samplecount' = samplecount + 1
        /\ sampling' = IF has_converged(sorted, samplecount + 1)
                           \/ samplecount + 1 >= maxsamples
                        THEN "done" ELSE "loop"
        /\ samples' = Append(samples, t - n * price)

\* What fcyc returns, after the loop.
result == values[0]

\* It gives the values back and returns.
FcycEnd ==
  /\ sampling = "done"
  /\ sampling' = "off"
  /\ values' = NoValues
  /\ samples' = <<>>
  /\ UNCHANGED <<samplecount, cycles, cyc_per_tick>>

\* A run does not come back to fcyc, or is left by a jump.
FcycAbandon ==
  /\ sampling' = "off"
  /\ UNCHANGED <<values, samplecount, cycles, cyc_per_tick, samples>>

FcycNext ==
  \/ FcycStart \/ FcycEnd \/ FcycAbandon
  \/ \E t \in RunTime, n \in Ticks : FcycSample(t, n)

FcycSpec == FcycInit /\ [][FcycNext]_fcycVars

----------------------------------------------------------------------------
FcycTypeOK ==
  /\ sampling \in {"off", "loop", "done"}
  /\ values \in [0..(kbest - 1) -> Int]
  /\ samplecount \in Nat
  /\ cycles \in 0..(CounterWord * CounterWord - 1)
  /\ cyc_per_tick \in Nat
  /\ samples \in Seq(Int)

\* The number of values that are samples.
Kept == IF samplecount < kbest THEN samplecount ELSE kbest

\* The values kept are the best samples in order: each is the sample of a run of
\* its own, and no other run was better.  A sample is exactly the cycles of its
\* run without its ticks, also when a word of the counter wraps around in the
\* middle (fcyc.c:67-88, clock.c:55-72, 280-296).
KBest ==
  sampling # "off" =>
  /\ Len(samples) = samplecount
  /\ \A a, b \in 0..(Kept - 1) : a <= b => values[a] <= values[b]
  /\ \E run \in Injection(0..(Kept - 1), 1..samplecount) :
       /\ \A j \in 0..(Kept - 1) : values[j] = samples[run[j]]
       /\ \A s \in 1..samplecount : (\A j \in 0..(Kept - 1) : run[j] # s) =>
            samplecount > kbest /\ values[kbest - 1] <= samples[s]
=============================================================================
