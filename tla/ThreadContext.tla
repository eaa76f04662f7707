--------------------------- MODULE ThreadContext ---------------------------
(***************************************************************************)
(* The machine context of a thread (sthreads/glue.s): what                 *)
(* __sthread_switch pushes on the thread's stack before the scheduler      *)
(* runs, what __sthread_restore pops, and the frame that                   *)
(* __sthread_initialize_context lays out for a thread that never ran.      *)
(* A stack is a sequence whose last element is the word rsp points to; a   *)
(* context pointer is a depth of that stack.  A word is a tuple whose first  *)
(* element says what kind of value it is.                                  *)
(***************************************************************************)
EXTENDS Naturals, Sequences

\* The order in which __sthread_switch pushes the registers.
PushOrder == <<"rax", "rbx", "rcx", "rdx", "rsi", "rdi", "rbp", "r8", "r9",
               "r10", "r11", "r12", "r13", "r14", "r15", "rflags">>

\* Mutant: pops in the order of the pushes.
PopOrderNotReversed == PushOrder

\* The order in which __sthread_restore pops them, as the code writes it.
PopOrder == <<"rflags", "r15", "r14", "r13", "r12", "r11", "r10", "r9", "r8",
              "rbp", "rdi", "rsi", "rdx", "rcx", "rbx", "rax">>

Register == {PushOrder[i] : i \in DOMAIN PushOrder}

\* The address of __sthread_finish, and the flags pushf saves in a new context.
FinishAddress == <<"__sthread_finish">>
InitialFlags == <<"initial rflags">>
Zero == <<"zero">>

\* The stack after the call of __sthread_switch and its pushes.
SaveContext(stk, regs, ret) ==
  stk \o <<ret>> \o [i \in DOMAIN PushOrder |-> regs[PushOrder[i]]]

\* What the pops and the ret of __sthread_restore leave, for the context at the
\* top of stk: the registers, the address ret jumps to, and the stack.
RestoreRegs(stk) ==
  [r \in Register |->
     stk[Len(stk) + 1 - (CHOOSE i \in DOMAIN PopOrder : PopOrder[i] = r)]]
RestoreIp(stk) == stk[Len(stk) - Len(PopOrder)]
RestoreStack(stk) == SubSeq(stk, 1, Len(stk) - Len(PopOrder) - 1)

\* The stack __sthread_initialize_context builds: under the frame lies the
\* address of __sthread_finish, where the thread's function returns to.
InitialContext(f, arg) ==
  <<FinishAddress, f>> \o
  [i \in DOMAIN PushOrder |->
     CASE PushOrder[i] = "rdi" -> arg
       [] PushOrder[i] = "rflags" -> InitialFlags
       [] OTHER -> Zero]
=============================================================================
