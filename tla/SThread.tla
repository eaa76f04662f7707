------------------------------ MODULE SThread ------------------------------
(***************************************************************************)
(* The cooperative user-level thread library of lab06 (sthreads/sthread.c, *)
(* queue.c and glue.s).                                                    *)
(*                                                                         *)
(* The library runs on one processor and a thread gives it up only by      *)
(* calling the library, so each library call runs to the context switch    *)
(* that ends it: one action per call.  Compute is the thread's own code    *)
(* between two calls; it changes every register and leaves a local         *)
(* variable on the thread's stack.                                         *)
(***************************************************************************)
EXTENDS ThreadQueue, ThreadContext

CONSTANTS Job   \* what a thread is created to do: a function and its argument

ASSUME JobAssumption == NULL \notin Job

VARIABLES
  phase,    \* "main" until sthread_start, "threads" after it, or how the
            \* process ended
  current,  \* the running thread
  state,    \* the state field of each Thread struct; "Free" when the address
            \* is not allocated
  mem,      \* the ready and blocked queues and the threads' links
  stack,    \* the stack memory of each thread
  context,  \* the context field of each thread: a depth of its stack
  regs, ip, \* the registers and the instruction pointer of the processor
  job       \* what each thread was created for, and how far its code has come

vars == <<phase, current, state, mem, stack, context, regs, ip, job>>

ThreadState == {"Free", "Running", "Ready", "Blocked"}

Live(t) == state[t] # "Free"

FunctionWord(j) == <<"function", j>>
ArgumentWord(j) == <<"argument", j>>
UserRegs(t, n) == [r \in Register |-> <<"value", t, n, r>>]
UserIp(t, n) == <<"in user code", t, n>>
UserLocal(t, n) == <<"local", t, n>>

NoJob == [id |-> NULL, step |-> 0]

Init ==
  /\ phase = "main"
  /\ current = NULL
  /\ state = [t \in Thread |-> "Free"]
  /\ mem = EmptyLinks
  /\ stack = [t \in Thread |-> <<>>]
  /\ context = [t \in Thread |-> 0]
  /\ regs = [r \in Register |-> Zero]
  /\ ip = <<"main">>
  /\ job = [t \in Thread |-> NoJob]

----------------------------------------------------------------------------
(***************************************************************************)
(* The scheduler.  Its operators take the thread states, links, stacks and *)
(* contexts as the code before them left them.                             *)
(***************************************************************************)

\* Mutant: the thread that gets the processor is not marked as running.
DispatchNotMarked(st, m, stk, ctx) ==
  LET n == m.head["ready"]
      saved == SubSeq(stk[n], 1, ctx[n])
  IN /\ current' = n
     /\ state' = st
     /\ mem' = QueueTake(m, "ready")
     /\ regs' = RestoreRegs(saved)
     /\ ip' = RestoreIp(saved)
     /\ stack' = [stk EXCEPT ![n] = RestoreStack(saved)]
     /\ context' = ctx

\* Take the first ready thread, run it and restore its context.
Dispatch(st, m, stk, ctx) ==
  LET n == m.head["ready"]
      saved == SubSeq(stk[n], 1, ctx[n])
  IN /\ current' = n
     /\ state' = [st EXCEPT ![n] = "Running"]
     /\ mem' = QueueTake(m, "ready")
     /\ regs' = RestoreRegs(saved)
     /\ ip' = RestoreIp(saved)
     /\ stack' = [stk EXCEPT ![n] = RestoreStack(saved)]
     /\ context' = ctx

\* Mutant: a process with blocked threads only is taken to have finished.
NothingReadyAlwaysDone(st, m, stk, ctx) ==
  /\ phase' = "exit: all executed"
  /\ current' = NULL
  /\ state' = st
  /\ mem' = m
  /\ stack' = stk
  /\ context' = ctx
  /\ UNCHANGED <<regs, ip>>

\* No thread is ready: the process exits, saying whether any is blocked.
NothingReady(st, m, stk, ctx) ==
  /\ phase' = IF QueueEmpty(m, "blocked") THEN "exit: all executed"
                                          ELSE "exit: deadlock"
  /\ current' = NULL
  /\ state' = st
  /\ mem' = m
  /\ stack' = stk
  /\ context' = ctx
  /\ UNCHANGED <<regs, ip>>

Select(st, m, stk, ctx) ==
  IF QueueEmpty(m, "ready")
  THEN NothingReady(st, m, stk, ctx)
  ELSE /\ Dispatch(st, m, stk, ctx)
       /\ UNCHANGED phase

\* __sthread_switch and __sthread_scheduler called by a thread that goes on to
\* state s in queue q: its context is saved, it is queued, and the next thread
\* is selected.
SwitchTo(q, s) ==
  LET stk == SaveContext(stack[current], regs, ip)
  IN /\ phase = "threads"
     /\ Select([state EXCEPT ![current] = s],
               QueueAppend(mem, q, current),
               [stack EXCEPT ![current] = stk],
               [context EXCEPT ![current] = Len(stk)])
     /\ UNCHANGED job

----------------------------------------------------------------------------
(***************************************************************************)
(* The operations of the library                                           *)
(***************************************************************************)

\* sthread_create gets t from malloc for the Thread struct, called by main or
\* by the running thread.
Create(t, j) ==
  LET stk == InitialContext(FunctionWord(j), ArgumentWord(j))
  IN /\ phase \in {"main", "threads"}
     /\ ~Live(t)
     /\ state' = [state EXCEPT ![t] = "Ready"]
     /\ mem' = QueueAppend(mem, "ready", t)
     /\ stack' = [stack EXCEPT ![t] = stk]
     /\ context' = [context EXCEPT ![t] = Len(stk)]
     /\ job' = [job EXCEPT ![t] = [id |-> j, step |-> 0]]
     /\ UNCHANGED <<phase, current, regs, ip>>

\* malloc returns no stack or no Thread struct: exit(1) before anything changed.
CreateFails ==
  /\ phase \in {"main", "threads"}
  /\ phase' = "exit: no memory"
  /\ UNCHANGED <<current, state, mem, stack, context, regs, ip, job>>

\* sthread_start: the scheduler is called with no context, and takes the first
\* ready thread without looking whether there is one.
Start ==
  /\ phase = "main"
  /\ IF QueueEmpty(mem, "ready")
     THEN /\ phase' = "fault: null current"
          /\ UNCHANGED <<current, state, mem, stack, context, regs, ip>>
     ELSE /\ phase' = "threads"
          /\ Dispatch(state, mem, stack, context)
  /\ UNCHANGED job

\* The running thread's own code.
Compute ==
  LET n == IF job[current].step = 1 THEN 2 ELSE 1
  IN /\ phase = "threads"
     /\ regs' = UserRegs(current, n)
     /\ ip' = UserIp(current, n)
     /\ stack' = [stack EXCEPT ![current] =
                    <<stack[current][1], UserLocal(current, n)>>]
     /\ job' = [job EXCEPT ![current].step = n]
     /\ UNCHANGED <<phase, current, state, mem, context>>

Yield == SwitchTo("ready", "Ready")

Block == SwitchTo("blocked", "Blocked")

\* Mutant: the finished thread is not deleted.
FinishNotDeleted ==
  /\ phase = "threads"
  /\ Select([state EXCEPT ![current] = "Finished"], mem, stack, context)
  /\ job' = [job EXCEPT ![current] = NoJob]

\* The thread's function returns into __sthread_finish; the scheduler, on its
\* own stack, frees the thread's stack and struct and selects the next thread.
Finish ==
  /\ phase = "threads"
  /\ Select([state EXCEPT ![current] = "Free"], mem,
            [stack EXCEPT ![current] = <<>>],
            [context EXCEPT ![current] = 0])
  /\ job' = [job EXCEPT ![current] = NoJob]

\* Mutant: the unblocked thread is taken off the blocked queue and left there.
UnblockNotQueued(t) ==
  /\ phase = "threads"
  /\ state[t] = "Blocked"
  /\ state' = [state EXCEPT ![t] = "Ready"]
  /\ mem' = QueueRemove(mem, "blocked", t)
  /\ UNCHANGED <<phase, current, stack, context, regs, ip, job>>

\* sthread_unblock, called by the running thread on a thread that exists.  The
\* assertion aborts the process when the thread is not blocked.
Unblock(t) ==
  /\ phase = "threads"
  /\ Live(t)
  /\ IF state[t] = "Blocked"
     THEN /\ state' = [state EXCEPT ![t] = "Ready"]
          /\ mem' = QueueAppend(QueueRemove(mem, "blocked", t), "ready", t)
          /\ UNCHANGED phase
     ELSE /\ phase' = "abort: not blocked"
          /\ UNCHANGED <<state, mem>>
  /\ UNCHANGED <<current, stack, context, regs, ip, job>>

\* The process has ended.
Ended ==
  /\ phase \notin {"main", "threads"}
  /\ UNCHANGED vars

Next ==
  \/ \E t \in Thread, j \in Job : Create(t, j)
  \/ CreateFails
  \/ Start
  \/ Compute
  \/ Yield
  \/ Block
  \/ Finish
  \/ \E t \in Thread : Unblock(t)
  \/ Ended

\* Cooperation, which the library asks of the functions it runs: a thread that
\* has the processor eventually yields, blocks or returns.
Cooperation == WF_vars(Yield \/ Block \/ Finish)

SafetySpec == Init /\ [][Next]_vars

Spec == SafetySpec /\ Cooperation

----------------------------------------------------------------------------
(***************************************************************************)
(* Properties                                                              *)
(***************************************************************************)
Word == {Zero, FinishAddress, InitialFlags}
        \cup {FunctionWord(j) : j \in Job} \cup {ArgumentWord(j) : j \in Job}
        \cup {UserIp(t, n) : t \in Thread, n \in 1..2}
        \cup {UserLocal(t, n) : t \in Thread, n \in 1..2}
        \cup {<<"value", t, n, r>> : t \in Thread, n \in 1..2, r \in Register}

Phase == {"main", "threads", "exit: all executed", "exit: deadlock",
          "exit: no memory", "abort: not blocked", "fault: null current"}

\* The variables have the types of the code's fields; no thread is Finished
\* between two library calls, __sthread_scheduler has deleted it.
TypeOK ==
  /\ phase \in Phase
  /\ current \in Pointer
  /\ state \in [Thread -> ThreadState]
  /\ mem \in LinkMemory
  /\ stack \in [Thread -> Seq(Word)]
  /\ context \in [Thread -> Nat]
  /\ regs \in [Register -> Word]
  /\ ip \in Word \cup {<<"main">>}
  /\ job \in [Thread -> [id : Job \cup {NULL}, step : 0..2]]

\* "During normal operation there is exactly one thread in the ThreadRunning
\* state, and this variable points to that thread" (sthread.c:66-74): current
\* is the only running thread once the library is started, and NULL before.
OneRunning ==
  /\ phase = "main" => current = NULL
  /\ phase = "threads" => current \in Thread
  /\ \A t \in Thread : state[t] = "Running" <=> t = current

\* A queue holds the threads of one state, each of them once, as a well-formed
\* doubly linked list whose head, tail, prev and next pointers all agree
\* (sthread.c:76-86 and queue.c).  No thread of that state is lost and no freed
\* thread stays linked.
InState(s) == {t \in Thread : state[t] = s}

Orders(S) == [1..Cardinality(S) -> S]

WellFormedQueue(q, s) ==
  \E order \in Orders(InState(s)) : Lists(mem, q, InState(s), order)

QueuesWellFormed ==
  /\ WellFormedQueue("ready", "Ready")
  /\ WellFormedQueue("blocked", "Blocked")

\* The running thread has the registers, the stack and the place in its code it
\* had when it last gave up the processor; a thread that never ran has its
\* argument in rdi and is at its function; and its function will return to
\* __sthread_finish (glue.s: save, restore and initialize).
ContextPreserved ==
  LET n == job[current].step
      j == job[current].id
  IN phase = "threads" =>
       IF n = 0
       THEN /\ regs["rdi"] = ArgumentWord(j)
            /\ ip = FunctionWord(j)
            /\ stack[current] = <<FinishAddress>>
       ELSE /\ regs = UserRegs(current, n)
            /\ ip = UserIp(current, n)
            /\ stack[current] = <<FinishAddress, UserLocal(current, n)>>

\* The process says "all threads executed" only when no thread is left, and
\* "thread deadlock" only when every thread left is blocked and one is
\* (sthread.c:163-172).
ExitIsHonest ==
  /\ phase = "exit: all executed" => \A t \in Thread : ~Live(t)
  /\ phase = "exit: deadlock" =>
       /\ \A t \in Thread : Live(t) => state[t] = "Blocked"
       /\ \E t \in Thread : Live(t)

\* The order of a queue, read off its links.
Order(q, s) ==
  CHOOSE order \in Orders(InState(s)) : Lists(mem, q, InState(s), order)

Before(s, a, b) ==
  \E i, j \in DOMAIN s : i < j /\ s[i] = a /\ s[j] = b

\* No step lets a thread overtake one that was ready before it, be it ready
\* already or made ready by the step: threads run in the order in which they
\* became ready.
NoOvertaking ==
  [][\A a, b \in Thread :
        /\ state[a] = "Ready"
        /\ state'[a] = "Ready"
        /\ state'[b] = "Ready"
        /\ state[b] = "Ready" => Before(Order("ready", "Ready"), a, b)
        => Before(Order("ready", "Ready")', a, b)]_vars

\* Under cooperation, a thread that is ready eventually runs, unless the
\* process ends first.
ReadyThreadRuns ==
  \A t \in Thread :
    phase = "threads" /\ state[t] = "Ready"
      ~> state[t] = "Running" \/ phase # "threads"

----------------------------------------------------------------------------
(***************************************************************************)
(* The library implements the scheduler of module Scheduler: the linked    *)
(* ready queue is its sequence, the threads on the blocked queue its set.  *)
(***************************************************************************)
Abstract == INSTANCE Scheduler WITH
  stage <- CASE phase = "main" -> "starting"
             [] phase = "threads" -> "running"
             [] OTHER -> "ended",
  running <- current,
  ready <- Order("ready", "Ready"),
  blocked <- InState("Blocked")

ImplementsScheduler == Abstract!Spec
=============================================================================
