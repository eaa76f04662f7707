----------------------------- MODULE Scheduler -----------------------------
(***************************************************************************)
(* What the thread library promises its user: a first-in-first-out         *)
(* scheduler of one processor, without links, stacks or registers.         *)
(***************************************************************************)
EXTENDS Naturals, Sequences

CONSTANTS Thread, NULL

VARIABLES stage,    \* "starting", "running" or "ended"
          running,  \* the thread that has the processor, or NULL
          ready,    \* the threads waiting for it, first come first served
          blocked   \* the threads that wait to be unblocked

vars == <<stage, running, ready, blocked>>

Known(t) ==
  \/ t = running
  \/ t \in blocked
  \/ \E i \in DOMAIN ready : ready[i] = t

Init == /\ stage = "starting"
        /\ running = NULL
        /\ ready = <<>>
        /\ blocked = {}

\* The processor goes to the first thread of queue q.
RunFirst(q) ==
  IF q = <<>>
  THEN stage' = "ended" /\ running' = NULL /\ ready' = q
  ELSE UNCHANGED stage /\ running' = Head(q) /\ ready' = Tail(q)

Create(t) ==
  /\ stage # "ended"
  /\ ~Known(t)
  /\ ready' = Append(ready, t)
  /\ UNCHANGED <<stage, running, blocked>>

Start ==
  /\ stage = "starting"
  /\ IF ready = <<>>
     THEN stage' = "ended" /\ UNCHANGED <<running, ready>>
     ELSE /\ stage' = "running"
          /\ running' = Head(ready)
          /\ ready' = Tail(ready)
  /\ UNCHANGED blocked

Yield ==
  /\ stage = "running"
  /\ RunFirst(Append(ready, running))
  /\ UNCHANGED blocked

Block ==
  /\ stage = "running"
  /\ RunFirst(ready)
  /\ blocked' = blocked \cup {running}

Finish ==
  /\ stage = "running"
  /\ RunFirst(ready)
  /\ UNCHANGED blocked

Unblock(t) ==
  /\ stage = "running"
  /\ t \in blocked
  /\ blocked' = blocked \ {t}
  /\ ready' = Append(ready, t)
  /\ UNCHANGED <<stage, running>>

\* The process ends early: no memory for a thread, or a wrong unblock.
Stop ==
  /\ stage # "ended"
  /\ stage' = "ended"
  /\ UNCHANGED <<running, ready, blocked>>

Next == \/ \E t \in Thread : Create(t) \/ Unblock(t)
        \/ Start \/ Yield \/ Block \/ Finish \/ Stop

Spec == Init /\ [][Next]_vars
=============================================================================
