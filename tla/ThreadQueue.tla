---------------------------- MODULE ThreadQueue ----------------------------
(***************************************************************************)
(* The doubly linked queues of the thread library (sthreads/queue.c).      *)
(*                                                                         *)
(* A link memory m is what the queue operations read and write: the head   *)
(* and tail pointer of every queue, and the prev and next fields of every  *)
(* Thread struct (a thread has one pair of fields, shared by the queues).  *)
(* Each operation maps a link memory to the link memory it leaves behind.  *)
(***************************************************************************)
EXTENDS Naturals, FiniteSets

CONSTANTS Thread,   \* the addresses malloc can give to a Thread struct
          NULL      \* the null pointer

ASSUME NullAssumption == NULL \notin Thread

Queues == {"ready", "blocked"}
Pointer == Thread \cup {NULL}

LinkMemory == [head : [Queues -> Pointer], tail : [Queues -> Pointer],
               prev : [Thread -> Pointer], next : [Thread -> Pointer]]

EmptyLinks == [head |-> [q \in Queues |-> NULL],
               tail |-> [q \in Queues |-> NULL],
               prev |-> [t \in Thread |-> NULL],
               next |-> [t \in Thread |-> NULL]]

QueueEmpty(m, q) == m.head[q] = NULL

\* Mutant: a thread is put in front of the queue.
QueueAppendAtHead(m, q, t) ==
  LET empty == QueueEmpty(m, q)
  IN [head |-> [m.head EXCEPT ![q] = t],
      tail |-> [m.tail EXCEPT ![q] = IF empty THEN t ELSE @],
      prev |-> IF empty THEN [m.prev EXCEPT ![t] = NULL]
               ELSE [m.prev EXCEPT ![m.head[q]] = t, ![t] = NULL],
      next |-> [m.next EXCEPT ![t] = m.head[q]]]

QueueAppend(m, q, t) ==
  LET empty == QueueEmpty(m, q)
  IN [head |-> [m.head EXCEPT ![q] = IF empty THEN t ELSE @],
      tail |-> [m.tail EXCEPT ![q] = t],
      prev |-> [m.prev EXCEPT ![t] = IF empty THEN NULL ELSE m.tail[q]],
      next |-> IF empty THEN [m.next EXCEPT ![t] = NULL]
               ELSE [m.next EXCEPT ![m.tail[q]] = t, ![t] = NULL]]

\* The thread queue_take returns is the head it found; a taken thread keeps its
\* own prev and next fields.
QueueTake(m, q) ==
  LET t == m.head[q]
      last == t = m.tail[q]
  IN IF QueueEmpty(m, q) THEN m
     ELSE [head |-> [m.head EXCEPT ![q] = IF last THEN NULL ELSE m.next[t]],
           tail |-> [m.tail EXCEPT ![q] = IF last THEN NULL ELSE @],
           prev |-> IF last THEN m.prev ELSE [m.prev EXCEPT ![m.next[t]] = NULL],
           next |-> m.next]

\* Mutant: removing the last thread does not move the tail.
QueueRemoveKeepTail(m, q, t) ==
  LET p == m.prev[t]
      n == m.next[t]
  IN [head |-> [m.head EXCEPT ![q] = IF @ = t THEN n ELSE @],
      tail |-> m.tail,
      prev |-> IF n # NULL THEN [m.prev EXCEPT ![n] = p] ELSE m.prev,
      next |-> IF p # NULL THEN [m.next EXCEPT ![p] = n] ELSE m.next]

QueueRemove(m, q, t) ==
  LET p == m.prev[t]
      n == m.next[t]
  IN [head |-> [m.head EXCEPT ![q] = IF @ = t THEN n ELSE @],
      tail |-> [m.tail EXCEPT ![q] = IF @ = t THEN p ELSE @],
      prev |-> IF n # NULL THEN [m.prev EXCEPT ![n] = p] ELSE m.prev,
      next |-> IF p # NULL THEN [m.next EXCEPT ![p] = n] ELSE m.next]

----------------------------------------------------------------------------
(***************************************************************************)
(* Queue q of link memory m holds exactly the n threads s[1], ..., s[n],   *)
(* in that order, and every pointer of the queue says so.                  *)
(***************************************************************************)
Represents(m, q, n, s) ==
  /\ \A i, j \in 1..n : s[i] = s[j] => i = j
  /\ m.head[q] = IF n = 0 THEN NULL ELSE s[1]
  /\ m.tail[q] = IF n = 0 THEN NULL ELSE s[n]
  /\ \A i \in 1..n :
        /\ m.prev[s[i]] = IF i = 1 THEN NULL ELSE s[i - 1]
        /\ m.next[s[i]] = IF i = n THEN NULL ELSE s[i + 1]

\* The queue holds each thread of set S once, in the order s.
Lists(m, q, S, s) ==
  LET n == Cardinality(S)
  IN /\ \A t \in S : \E i \in 1..n : s[i] = t
     /\ Represents(m, q, n, s)
=============================================================================
