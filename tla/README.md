# Verification of Systems-and-Assembly

TLA+ models of the programs in this repository: a cooperative thread library
(lab06), a `malloc` package and the driver that grades it (lab03), two list
implementations with a small-object pool (lab05), a garbage-collected interpreter
with its parser (lab04) and the toy processor (lab01). Every definition is a
translation of the C or assembly source; `PROJECT.json` gives the lines for each
one (`map`), the runs, the mutants, the findings, the hazards and the theorems.

Contents: [inventory](#inventory) · [plan](#plan) · [modules](#modules-and-how-they-correspond-to-the-code) ·
[runs](#runs-and-what-they-show) · [findings](#findings) · [fairness](#fairness) · [proofs](#proofs) · [limits](#what-is-not-modelled-and-why)

## Inventory

The labs are independent programs. Inside a lab the parts call each other
directly; there are no messages and no preemption. Two programs have several
actors: the thread library, whose threads interleave at library calls, and the
trace driver, whose alarm may ring between any two of its steps. In the interpreter
the collector runs inside any allocation.

### Thread library, lab06 (`sthreads/`)

| part | state | operations | called by |
|---|---|---|---|
| `sthread.c` | `current`, `ready_queue`, `blocked_queue`, one `Thread` struct per thread (state, stack, context, links) | `sthread_create`, `_start`, `_yield`, `_block`, `_unblock`, `__sthread_finish`, `__sthread_scheduler` | the threads; `glue.s` |
| `queue.c` | head and tail of a doubly linked list; `prev`/`next` inside the structs | `queue_empty`, `queue_append`, `queue_take`, `queue_remove` | `sthread.c` |
| `glue.s` | the processor's registers, the stacks, a static slot for the scheduler's frame | `__sthread_switch`, `__sthread_restore`, `__sthread_initialize_context`, `__sthread_start` | `sthread.c`, returning threads |
| `test*.c` | none | clients of the library | - |

Hard: every interleaving of calls by any number of threads; unlinking from the
middle of a queue; a context saved by one routine, or built by hand, and read by
another; a finished thread freed while its function is still "returning".
Correct when: one thread runs and `current` names it; each queue is a well-linked
list of exactly the threads in its state; a resumed thread finds its registers,
stack and program counter as it left them; threads run in the order in which they
became ready, and each eventually does; the exit message is true.

### malloc package, lab03 (`mm.c`, `memlib.c`, `mdriver.c`)

| part | state | operations |
|---|---|---|
| `mm.c` | the heap: blocks with a header and a footer word; two doubly linked free lists threaded through the free blocks, for blocks up to and above `BIG_SIZE` | `mm_init`, `malloc`, `free`, `realloc`, `calloc`, `mm_checkheap`; below them `extend_heap`, `find_fit`, `place`, `coalesce`, `insert_free`, `remove_free` |
| `memlib.c` | the break of a simulated heap with a fixed limit | `mem_sbrk`, `mem_reset_brk` |
| `mdriver.c` | a trace and its blocks (addresses, sizes, the start of their random bytes), the list of payload ranges, the count of errors, statistics per trace | `read_trace`; `eval_mm_valid` checks alignment, bounds, overlap and contents of each payload; `eval_mm_util` measures the heap; `eval_mm_speed` the time; `run_tests` goes through the files, and jumps to its head when the alarm rings |
| `fcyc.c`, `fsecs.c` | the K best samples | a function is run until its fastest runs agree |
| `clock.c` | the two words of a reading, the price of a clock tick | counter, compensation, calibration |
| `ftimer.c`, `driverlib.c` | timers, a socket | another way to measure; the alarm, grading over the network |

Hard: long sequences of legal calls that fragment, split and coalesce the heap
across two lists; the remainder of a split that is too small; a heap at its limit;
`realloc` that fails half-way. For the driver: allocators that answer anything, an
overlap its range test cannot see, an alarm at the worst moment, a counter whose
lower word wraps around. Correct when: the blocks tile the heap and their
tags agree; a free list holds exactly the free blocks of its size class, doubly
linked; payloads are aligned, inside the heap, disjoint and never altered; the heap
grows only when nothing fits. The driver is correct when it never blames an allocator that
keeps its promises, every overlap comes out, the figures are what they are called, and
a score is earned.

### Lists, lab05 (`lists.c`, `linkedlist.c`, `arraylist.c`, `smallobj.c`)

| part | state | operations |
|---|---|---|
| `linkedlist.c` | head, tail, singly linked nodes, a node pool | size, get, clear, insert, append, contains, sort (quicksort on the links), iterator |
| `arraylist.c` | a growing array | the same |
| `smallobj.c` | a list of chunks, each a bump allocator with a count of frees | `so_alloc`, `so_free`; a chunk whose objects were all handed out and freed is released |
| `lists.c` | - | dispatch through the function pointers of `list_t` |
| `listperf.c`, `cpuinfo/` | - | benchmark, printing |

Hard: the order of calls (append after insert or sort), the in-place quicksort,
chunks that fill and drain in an arbitrary order, the exactly full array, iterators
of empty lists. Correct when: both implementations are the same sequence, every node
belongs to a chunk that still exists, and a chunk is released when all of its objects have come back.

### Interpreter, lab04 (`subpython/`)

| part | state | operations |
|---|---|---|
| `alloc.c` | a memory pool with a free pointer, the reference table, `num_refs`, `max_refs` | `mm_malloc`, `make_reference`, `deref`, `collect_garbage` (mark, sweep and compact) |
| `eval.c`, `global.c` | global variables (named and temporary), the shared `None`/`True`/`False` | expression and statement evaluation, lists and dictionaries, `error` |
| `grammar.l.c`, data in `grammar.y.c` | the place in the input, the start condition, a queue of tokens, a stack of indentation levels | `yylex`: one token, for which several may have to be queued |
| `grammar.y.c` | a stack of states with values, the lookahead token | `yyparse`: shift, reduce with the action of the rule, accept, error |
| `ast.c` | pages, each with an offset | allocation of tree nodes, release of the whole pool |
| `repl.c` | - | parse, evaluate, free, until the end of the input |

Hard: the collector may run in any allocation and moves every value, so every
pointer and every reference that is not a root is stale afterwards; slots of the
reference table are reused; errors abandon a statement in the middle; cyclic
data. In the parser: blocks that exist only as differences of leading blanks, values that are
addresses in a buffer the scanner goes on writing, arrays of fixed size.
Correct when: what the program can reach survives a collection unchanged, references
in use are valid, the pool is compact, and the table's count is right; the tree is that
of the text, and no tree node leaves its page.

### Processor, lab01 (`proc/`), and small programs

`branching_processor.c` runs a fetch-decode-execute cycle over a program counter, a
decoder, a register file, an ALU and a branch unit that meet on twelve shared buses, with two
programs (division and Fibonacci numbers) and a limit on the number of ticks. `bits/` counts bits in two ways and `floats/` adds numbers in
several orders. Correct when: the programs terminate with the right result for every
input, at the width of the registers.

## Plan

The order follows how much a model checker adds over the repository's own tests.

1. Thread library: `ThreadQueue`, `ThreadContext`, composed by `SThread`; abstract
   `Scheduler`. **Checked and proved**, liveness excepted.
2. Allocator: `MM`; abstract `Ranges`, the driver's range list. **Checked and proved.**
3. Lists: `ListTypes`, `SmallObj`, `LinkedList`, `ArrayList`, composed by `Lists`;
   abstract `ListSpec`. **Checked and proved.**
4. Garbage collector and evaluator: `Numbers`, `Pool`, `Subpython`. **Checked**, and what
   `Pool` makes of any pool **proved**.
5. Processor: `Processor`, the cycle at a small width; abstract `Assembly`, the listings.
   **Checked**, and its type correctness, that the units implement the listing, and, in `Programs`, what
   the two programs compute **proved** for every width, that they end in time excepted. Bit counting
   against its definition is left.
6. Trace driver and timing: `RangeList`, `Clock`, `Fcyc`, composed by `Driver`. **Checked and proved**, the
   termination of the driver excepted.
7. Parser: `Grammar`, `Scanner`, `AstPool`, composed by `Parser`; reference `Reading`.
   **Checked and proved**, the agreement with `Reading` excepted, which is recursive.

Theorems worth proving next: that evaluating keeps the pool sound, for a `Subpython` whose expressions are
evaluated without `RECURSIVE` operators; what `PoolProofs` says of one allocation is the step of it.

## Modules and how they correspond to the code

### Thread library

`ThreadQueue` is `queue.c` on memory: `mem.head`, `mem.tail` for the two queues and
`mem.prev`, `mem.next` for every struct, so the operations follow and change links
exactly as the C does, stale links of a taken thread included. `Lists(m, q, S, order)`
says that queue `q` of memory `m` is the sequence `order` of the threads `S`, with all links
agreeing. (`queue.c` line 1 lacks the `#` of its include; the functions are modelled
as written.)

`ThreadContext` is `glue.s`: a context is the sequence of words on a stack,
`PushOrder` and `PopOrder` are the two instruction sequences, `InitialContext` the
frame built by hand. Words are symbolic.

`SThread` composes them. The library switches only inside its own calls, so each
call up to the switch is one action:

| action | code |
|---|---|
| `Create`, `CreateFails` | `sthread_create`, with `malloc` failing at either place |
| `Start` | `sthread_start`: first call of the scheduler, `current == NULL` |
| `Yield`, `Block` | `sthread_yield`, `sthread_block`: save, enqueue, schedule, restore |
| `Finish` | return into `__sthread_finish`; the scheduler frees the thread |
| `Unblock` | `sthread_unblock`, its assertion included |
| `Compute` | the thread's own code: new registers, a local on its stack (external) |
| `Ended` | the process has exited, aborted or faulted |

The address of a `Thread` struct is a model value and is reused after it is freed. A
`Job` stands for a function together with its argument. `sthread_unblock` on a struct
that was freed reads freed memory; the interface leaves that to its callers and
`Unblock` takes only existing threads.

`Scheduler` is the promise: a sequence of ready threads, a set of blocked ones. Its
refinement mapping reads the ready sequence off the links (`Order`).

### malloc

`MM` is `mm.c` over `mem_sbrk`, in units of 8 bytes (the alignment). `heap` is a record:
`brk`, the header and the footer tag at each address (`head`, `foot`), the links of the free
lists (`next`, `prev`), and the two list heads (`list`).
Every helper of the C file is an operator from heap to heap (`InsertFree`, `RemoveFree`,
`Coalesce`, `ExtendHeap`, `FindFit`, `Place`), composed in the order of the calls; the
actions `Malloc`, `Free`, `Realloc`, `Calloc` and `Reset` (a new trace) run one call each.
`live` is what the callers hold, with the sizes they asked for; `status` records a
crash. Words in a block that nobody reads again (user data, left-over tags) are
brought to one value, `Junk`, so that heaps that differ only there are one state.
`calloc` clears the block without testing the pointer: with a full heap the process
ends, `status = "segfault"`, and that is the only state without a successor. The two
constants of the size classes, the chunk and the limit are parameters.

`Ranges` is what `mdriver.c` checks of each result (`add_range`: alignment, bounds,
overlap), as an abstract specification.

Two next-state relations: `Spec` allows everything; `SegregatedSpec` leaves out the steps
in which a small request is served from the big list (`CrossesLists`). After such a step the
free lists are broken (see findings), so what `mm.c` keeps can only be stated
without them.

### Trace driver and timing

`RangeList` is the list of payload ranges with `add_range` (`Refused`: its three tests in the
code's form, only the ends of the new payload are looked up in older ones) and `remove_range`, and the
random bytes: a byte is the draw it comes from and its place, so that two payloads never agree by chance.
`Clock` is the pair of counter words with the borrow between them, the tick compensation and its
calibration. `Fcyc` is the sampler: `values` are the best samples in order, and sampling
ends when they agree within `epsilon` or `maxsamples` is reached.

`Driver` composes them. `phase` is the place in `main` and `run_tests`, and a request of a trace is one
action per evaluation:

| actions | code |
|---|---|
| `ReadTrace`, `FreeTrace` | `read_trace`, `free_trace`, the loop of `run_tests` |
| `StartValid`, `ValidAlloc`, `ValidRealloc`, `ValidFree`, `EndValid` | `eval_mm_valid`, with `check_index` at each of the three debug levels |
| `StartUtil`, `UtilAlloc`, `UtilRealloc`, `UtilFree`, `EndUtil` | `eval_mm_util` |
| `SpeedRun`, `SpeedFails`, `EndSpeed` | `eval_mm_speed` under `fsecs` and `fcyc` |
| `LibcRead`, `LibcValid`, `LibcSpeed`, `Report` | the rest of `main` |
| `RingInTests`, `RingOutside` | `timeout_handler` and its `longjmp` |
| `Hang` | an allocator that does not come back (external) |

The allocator is the environment. An honest one (`honest`) answers with any aligned address in the heap
that overlaps nothing, and `realloc` copies; a careless one answers with any of `Address`, null
included, may write into a payload, fail to copy, refuse `mm_init`, or hang. Both are in one
run, so what the driver says of each can be compared. Command lines, files and addresses are constants. The jump
of an alarm that rings while `run_tests` is not running has no defined target: phase "fault". (Without `-l`, the steps between
`init_timeout` and the first `setjmp` are part of the initial state, and an alarm in them is modelled as ringing in `run_tests`.) `clashed` is a history
variable, the blocks that lie under a later one, for `OverlapsSurface`.

### Lists

`SmallObj`, `LinkedList` and `ArrayList` are records with one operator per C
function; `Lists` makes each call of a client on both lists, with an iterator on each,
as `listperf.c` does in its two modes. The linked list is the `LL_NODEPOOL` build: its
nodes are `<<chunk, index>>` pairs and `malloc` may return any unused chunk. The content of a
released node is brought to one value. `QuickSorted` follows the in-place
quicksort on the links. `qsort` and `malloc` are external; a failing `malloc` aborts the process
and is left out. `ListSpec` is the promise of `lists.h`: a sequence, and what an iterator has yet to read.

`Spec` allows every call at any time; `CarefulSpec` appends only while the tail is the
last node, since `insert` at the end and `sort` leave a wrong tail (see findings).

### Subpython

`Numbers` is the arithmetic of the evaluator on exact fractions, with the two infinities and NaN.

`Pool` is `alloc.c`: values at their addresses, the free pointer, the reference
table and `num_refs`, all in bytes. `DataSize` gives the size of each struct of `types.h` (the layouts agree on the
place of the size and of the mark, which is why the collector may treat them all as `Value`).
`Allocate` is `make_reference` with the new value, `MmMalloc` collects first when there is no room,
`Collect` marks (`Marked`), then goes with `SweepOne` over the blocks in address order. How a process goes
wrong is kept in `fault`: a failed assertion, an exhausted pool, an overwritten header, a table
index out of bounds, an endless recursion, a read or write through a stale pointer. The faults end the process.

`Subpython` is `eval.c` under the loop of `repl.c`. The interpreter is sequential, so one step, `Run`,
is one statement. Inside a step the evaluator works on a machine: the pool, the named globals, the
stack of temporary globals and whether `error` was called. Each C function is an operator that
gives the machine it leaves and a result, and `Then` goes on unless the statement was
abandoned, which is what the `longjmp` of `error` does. Every allocation is a `New` with the
roots of that moment, so a collection happens wherever the code may have one. Modelled are all kinds of
values, all operators and comparisons, lists, dictionaries, strings and their subscripts, `del`, `if`,
`while`, sequences, and the builtin functions. Statements are trees; `Source` is a set of programs, each with the
statements that may come next and the size of its pool, option `-m` of `repl.c` (`repl.c:131`).

Abstracted: a float is not rounded; printing is what it dereferences;
the array behind the globals and its growth; ints have `2 * IntLimit` values;
`num_refs` is not counted further than one beyond the table.

`CarefulSpec` runs only statements that do not make the evaluator hold a new value over another
allocation (`Careful`): what is stored has a name. The evaluator keeps the right side of an assignment (`eval.c:746`),
the value of a pair in a literal (`eval.c:1365`) and the index of a `del` (`eval.c:831`) in local
variables that are no roots; without the restriction references die while in use, and no other property survives that.

### Parser

`Grammar` holds the 76 productions of `grammar.y.c` as data, each with what its action makes of
the right side, and the automaton: a state is its kernel of items, `Goto` leads from state to state,
`Decided` says where the tables reduce without a lookahead (`yydefault`), which is visible: there the scanner is
not asked. The numbered tables of bison encode this automaton.

`Scanner` is `yylex`, one action per group of rules. What is typed is chosen as it is read: a line is its
leading blanks and a sequence of lexemes from `Inputs`. Indentation turns into `INDENT` and
`DEDENT` tokens in `token_queue`, by the levels on `indent_stack`. `yytext` is the text matched last. `AstPool` is the
pool of `ast.c`: pages, their offsets, and the test for room with its unsigned difference.

`Parser` composes them: `Lex`, `Shift`, `Reduce`, `Finish` and `SyntaxError` are the steps of `yyparse`,
`NextTurn` the loop of `repl.c`, at a prompt or over a file (`interactive`). A name on the stack is still an address in the
scanner's buffer; `TextOf` gives a wrong text when the scanner has gone on. A reduction allocates
what its action does, in its order; were the text of a name allocated before its node, a page made for
a long name could become the current one, and the unsigned test would find room in it for ever (`PagesHold`).
The rules for a name and for a string reduce in states that need no lookahead, so the text is copied while the buffer still
has it: `TextAtHand`.

`Reading` is the reference, which `MCParser` compares with the tree: what a text means, by depth of lines and by the loosest operator outside brackets, without
tokens for blocks, states or a stack. It is recursive and used by TLC only. A text that
the parser rejects has often not been read to its end, so `Completions` gives the shortest ways in which it might go on: an operand, what closes the open
brackets, a colon with a statement, a block, the end. `ParsesAsWritten` asks for more than equal trees: at a syntax error none of them is a program,
and while the parser goes on, one of them is. The second part also shows that the completions suffice: a way to go on that they
lacked would leave the parser in a text without one. The end of a file must be at the start of a line, as the
grammar has it: a last line without a newline is a syntax error in both.

### Processor

`Processor` has the value on each bus (`bus`), the registers (`rfmem`) and the instruction store.
Each unit is an operator from buses to buses, `Ticked` composes them in the order of `clock()`, and one
step, `Clock`, is one turn of the loop of `run()`. A program counter beyond the store ends the
model (`Stray`): what `ifetch` reads there is whatever the memory holds. Registers have `Width` bits.

`Assembly` is what the comments of the `.ibits` files say: an operation on registers, told by its
bits, a branch, the end; no encoding, no buses, no limit of time. Buses are wired once, so a bus is a
field of a record. `Bits` has powers of two, shifts and the bits of a number. Loading the two files is
the initial state, `Image`: words beside their listing, and `Encodes` says which word stands for which line of a listing.

`Programs` has the listings of `divider.ibits` and `ifib.ibits` and what they compute (`DivisionExact`, `FibonacciExact`).
`MCProcessor` puts the words of the files beside them, with a program of the operations that the two do not use, and an empty one.

## Runs and what they show

| run | bounds | shows |
|---|---|---|
| `sthread` | 4 threads, 2 jobs, thread symmetry | `TypeOK`, `OneRunning`, `QueuesWellFormed`, `ContextPreserved`, `ExitIsHonest` in every interleaving |
| `sthread_order` | 3 threads, fairness, no symmetry | `NoOvertaking`, `ReadyThreadRuns`, `ImplementsScheduler` |
| `malloc` | heap of 24 units, smallest block 3, big above 4, requests of 0, 16 and 32 bytes | `TypeOK`, `BlocksTile`, `FreeListsComplete`, `LiveBlocksIntact`, `GrowsOnlyWithoutFit`, `ImplementsRanges` |
| `lists` | 3 chunks of 2 nodes, 3 values, 4 elements, chunk symmetry | `TypeOK`, `ListsAgree` (both lists and their iterators), `StorageSound` (each node in a chunk of the list, objects counted exactly, full chunks released; the array fits), `ImplementsListSpec` |
| `subpython` | 4 programs in a pool of 144 bytes and one in a pool of 512, table of 4 slots at first, ints -1 and 0, 3 names | `TypeOK`, `PoolSound`, `StructuresSound` (no dereference of a dead reference), `ComparisonsAgree` (with their mirror images, and with the order of lists where that one says less), `CollectionInvisible`, `GarbageReclaimed` under `CarefulSpec` |
| `processor` | 6 bits, limit of 160 ticks, the two programs, one with the other operations, and an empty one, on 251 inputs | `TypeOK`, `ProgramsExact` (division and Fibonacci numbers), `EndsAsExpected`, `ImplementsAssembly` |
| `driver` | heap of 10 units, alignment 2, counter words of 4 values, 2 best of at most 3 samples, 3 trace files, 5 command lines | `TypeOK`, `NoFalseAlarm`, `RangesAreLive`, `UtilizationExact`, `ScoreIsEarned`, `KBest`, `OverlapsSurface`, `DriverEnds` |
| `parser` | 7 vocabularies, lines of up to 5 lexemes, up to 5 lines; 4 levels, queue of 4, pages of 64 bytes, stack of 24 | `ParsesAsWritten` (the tree, and where an error is reported), `TextAtHand`, `PagesHold`, `LimitsHold` |
| `malloc_cross`, `lists_tail`, `subpython_sizes`, `subpython_table` | as the runs above, or a little smaller | findings 1 to 4 |

Why the bounds are enough. Four threads are the fewest with a thread in the middle of
the blocked queue, a neighbour on each side, while another runs. In 24 units
the small list and the big list both reach three blocks (first, middle, last are
different cases of `remove_free`), all four cases of `coalesce` occur, on the same and on
different lists, splits leave every remainder from none to a big block, and the heap runs out.
Two nodes a chunk and four elements give a chunk in the middle of the chunk list
that empties first, and array capacities 1, 2 and 4; three values leave both
a duplicate and a reversed order in a list to sort.

The three singletons take 48 of the 144 bytes of the Subpython pool; the other 96 hold a list with
one item and two ints, or a dictionary with an entry and an int, or two long strings. `ListProgram` and
`SharingProgram` share lists and make them cyclic, `NumberProgram` has division by zero, infinities and NaN, also inside of
lists, `TextProgram` long strings, branches and loops; most statements collect. Two lists with items to compare
do not fit beside the variables in 144 bytes, so `OrderProgram` has a pool of 512: it compares any two of six lists,
which differ in the first item, in a later one or in length, or hold NaN or a list. The table
doubles, slots are reused, blocks move over dead ones of
every size, and the pool is exactly full. `CollectionInvisible` compares each statement with the same
one in a pool that never has to collect, down to four levels of the printed value, and states
where either faults are left out of the comparison. `CHECK_DEADLOCK` is off because a fault ends the process.
The runs `subpython_sizes` and `subpython_table` use 136 bytes, four ints and the statements of two programs at once.

The trace `full` of the driver lets a block grow around the place of a smaller one, the only kind of overlap that
passes `add_range`; `loose` has no weight and no ranges, an empty block, a leak, and a
release of the null pointer; `broken` is refused by `read_trace`. The command lines have every debug level,
with and without `-c`, libc, alarm and a second file. Run times of 4 and 5 cycles start at
position 15 of a counter whose lower word wraps at 4 and whose upper at 16; two samples agree, differ, or run into the
limit, and a tick may be dearer than what was measured. `CHECK_DEADLOCK` is off: the driver ends.

The vocabularies of the parser are `Nesting`, `Branching` and `Suites` for statements and blocks, `Operations`,
`Brackets`, `Names` and `Signs` for expressions. Each is small, so that all sequences of its lexemes are parsed: right and wrong ones,
at a prompt and from a file. Four levels are filled by three blocks, and `Nesting` has a fourth one to open: the assertions of `indent_push` (`grammar.y.c:379`) and of the
queue (`grammar.y.c:283`) are both reached, and a queue of several `DEDENT`s;
a name of 70 bytes needs a page larger than usual; 25 signs overflow the stack of states.
`CHECK_DEADLOCK` is off: a file is read once, and an assertion ends the process.

The processor has 6 bits instead of 32 and 160 ticks instead of 1000: as in the code, the limit is
larger than the store and smaller than the time in which a 6-bit counter wraps around, so a zero divisor, a
zero argument, the longest run that still ends (quotient 29, argument 25) and the next one are all among the
inputs, with operands around zero and around the sign bit. It is deterministic: one behaviour per input.

Every property was seen to fail for a bug planted in the code it is about: the
`mutants` of `PROJECT.json`, whose operators stand beside the originals.

## Findings

1. `place` rewrites the header before `remove_free` chooses the list by it (`mm.c:560`), so a big block handed
   out for a small request stays on the big list. `find_fit` looks on one list only, so the case
   needs a heap extension whose block coalesced into a big one. Run `malloc_cross`.
2. `linkedlist_insert` at the end sets the tail to `NULL` (`linkedlist.c:142`) and `linkedlist_sort`
   sets it to the head (`linkedlist.c:256`): the next append loses elements. Run `lists_tail`.
3. The sweep reads the size of a block after moving it over its own header (`alloc.c:474-484`): a
   dictionary that moves down by one dead int loses the rest of the pool. Run `subpython_sizes`.
4. `num_refs` grows when a slot is reused (`alloc.c:210`) and passes the size of the table; the table is
   enlarged only when the two are equal, so the search for a slot leaves it. Run `subpython_table`.

Three more disagreements with a comment have no run of their own; the properties are stated so that they say only what the code keeps.

5. A chunk of the pool is released only when as many objects came back as it has room for (`smallobj.c:278`). One that was
   handed out in part stays when none of its objects is in use, against "When a chunk is no longer in use, it is removed" (`smallobj.c:24-26`)
   and the comment of `is_chunk_empty` (`smallobj.c:273-276`): one insertion, then `clear`. `StorageSound` asks for the release of the chunks that
   were handed out to their end.
6. `<`, `>`, `<=` and `>=` of lists are the disjunction of those of the items (`eval.c:639-646`), not the lexicographical order of the
   comment (`eval.c:633-634`): `[-1, 0] < [0, -1]` and `[0, -1] < [-1, 0]` are both true, and such states are among those of the run `subpython`. `ComparisonsAgree` asks
   that the list which comes first in that order is less than the other one and at most it, not that no other outcome is true as well.
7. `add_range` looks only for the two ends of a new payload in the older ones (`mdriver.c:542-543`), so it accepts a payload
   that encloses an older one, against "to detect any overlapping allocated blocks" (`mdriver.c:503-504`) and `mdriver.c:850-851`. `OverlapsSurface`
   shows that this is the only way through, and when the random bytes bring it out; the run `driver` gets there with the trace `full`.

The models end the process in more places where the code goes wrong and no doc or test speaks of it:
`sthread_start` with no thread dereferences a null pointer (`sthread.c:135-139`; `SThread`'s phase "fault: null
current"), where the comment asks to "examine the system state to handle this situation properly" (`sthread.c:123-124`); `calloc` clears a block it did not get (`mm.c:299`); an alarm that rings outside `run_tests` jumps nowhere
(`mdriver.c:208`); marking a cyclic dictionary does not end (`alloc.c:368`); a new entry is linked through
a pointer that a collection made stale (`eval.c:314`), and a concatenation reads its strings through such pointers
(`eval.c:958`); a string index below minus the length reads in front of the string (`eval.c:1265`); the remainder by the int zero traps; and a
program without a DONE word leaves the instruction store (`instruction_store.c:47`). The statements that `Careful` leaves
out are a weakness of the same kind.

## Fairness

`processor` assumes that the simulator keeps running (weak fairness of `Next`): one thread in a loop.
`driver` assumes the same of the driver (`WF(Evaluation)`), and that an alarm that was set rings
(`WF(Ring)`), which the kernel sees to; nothing is assumed of the allocator, which may hang for ever. Then
`DriverEnds` says that the driver waits for ever only where no alarm was set: the alarm rings once, and
after it no trace is tried.
`sthread_order`: `Cooperation` is weak fairness of `Yield \/ Block \/ Finish`.
The library cannot take the processor from a thread, and asks every thread to give it up;
which of the three ways it takes is its own business, so fairness is on the disjunction. Nothing is
assumed of `Create`, `Unblock` or `Start`. A thread that computes for ever starves
the others, in the model as in the code. The other machines are sequential clients of a data
structure: nothing is owed to anyone, and only safety is claimed.

## Proofs

TLC shows a property on the instance of a run; these theorems hold for every value of the
constants that the named assumptions of the modules allow. Each theorem is listed under `theorems`.

| module | over | proves |
|---|---|---|
| `DataLemmas` | - | minima, maxima, sequences, iteration: facts the others cite |
| `SThreadProofs` | `ThreadQueue`, `SThread`, `Scheduler` | what each queue operation does to a represented sequence; `OneRunning`, `QueuesWellFormed`, `ExitIsHonest`, `TypeOK`, `ContextPreserved`, `ImplementsScheduler`, `NoOvertaking` |
| `MMProofs` | `MM`, `Ranges` | `TypeOK`, `BlocksTile`, `FreeListsComplete`, `LiveBlocksIntact`, `GrowsOnlyWithoutFit`, `ImplementsRanges` |
| `DriverProofs` | `Clock`, `Fcyc`, `RangeList`, `Driver` | `KBest`, `ScoreIsEarned`, `RangesAreLive`, `OverlapsSurface`, `NoFalseAlarm`, `TypeOK`, `UtilizationExact` |
| `ListsProofs` | `SmallObj`, `LinkedList`, `ArrayList`, `Lists`, `ListSpec` | `TypeOK`, `ListsAgree`, `StorageSound`, `ImplementsListSpec` |
| `ParserProofs` | `Grammar`, `Scanner`, `AstPool`, `Parser` | `TextAtHand`, `PagesHold`, `LimitsHold` |
| `PoolProofs` | `Pool` | that marking finds what is reachable, that a collection and an allocation leave it as it was, and that the pool stays sound |
| `ProcessorProofs` | `Bits`, `Processor`, `Assembly`, `Programs` | `TypeOK`, `ImplementsAssembly`, `ProgramsExact` |

**Data.** The library's induction theorems are out of the prover's reach, so `DataLemmas` has `LeastNatural` (a
set of naturals that is not empty has a least member, since `<` is well founded): a statement
about all `n` is proved by looking at the least counterexample. `Iterates` gives a function that
repeats a step as often as wanted, which is a walk along a list without a recursive definition.

**Thread library.** The queues first: `AppendRepresents` (whatever
links the appended thread had), `TakeRepresents`, `RemoveRepresents`, and frame lemmas: an
operation on one queue leaves the other as it was. `QueuesWellFormed` is not inductive alone:
it is stated with orders of length `Cardinality(InState(s))`, and it does not say that the running thread is
on no queue. `IInv` adds `OneRunning`, a witness order for each queue whose range
is exactly the threads in its state, and the types of the links and states; a step then moves one
thread between `current`, the two sequences and the free structs, which is a lemma of the queue each.
`ContextPreserved` needs `ContextInv`: what a waiting thread has on its stack is `SavedStack`, the frame that one of the
two ways of suspending it left; that sixteen pops undo sixteen pushes is `PopsReversePushes`, from the two instruction
sequences. The refinement reads `Order` off the links, so `OrderIsList` first shows that the sequence chosen there is
the only one that the links represent; then each call is one of `Scheduler` on that sequence. `NoOvertaking` follows
from what every call keeps of the order (`Keeps`). Assumptions: `Thread` is finite, `NULL` is not a thread.

**malloc.** `SegregatedSpec` is the specification of all theorems of `MM`: after a request that crosses the lists they are
false, which is the run `malloc_cross` and a finding. The types, the tiling and the lists are one invariant. `Tiled(h, B)` says that `B` is
the set of blocks: it starts at `First`, the end of each is another or the break, nothing lies inside of one, the footer repeats the header,
and a word that is no tag holds `Junk`. A list is `Linked(h, k, L, r)`: its members are `L`, and `r` is a rank that
falls along its links, so that walking ends. `Kept(h, B, r, X)` is both, with blocks `X` that are in flux: free, but on no list, as between
`remove_free` and `insert_free`. First comes the algebra of the helpers: what `SetBlock`, a split, a merge with either neighbour and
`extend_heap` do to the blocks, and what insertion and removal do to a ranked list, each from `Kept` to `Kept`;
then they are composed as the C functions do. The recursive functions of the model (the search of
`find_fit`, the blocks found by walking the headers, the members of a list found by walking its links) are compared with what the invariant says by the
least counterexample, in the order of the rank or of the addresses. `LiveBlocksIntact` and `ImplementsRanges` then say what a caller sees. Assumption:
`SizeAssumption`, the relations between the smallest block, the chunk and the limit that the macros of `mm.c` have.

**Driver.** `CounterExact` is the arithmetic of the borrow between two counter words; `AddSampleBest` shows that the
insertion sort keeps the `kbest` smallest of all samples, with an injection from places to runs as the witness that `KBest` asks for.
The theorem is proved of `Fcyc` alone and of `Driver`, whose steps are steps of the sampler (`DriverMeasures`).
`ScoreInv` relates the number of errors, the trace in work, the phase, the traces judged valid so far, and the alarm: the
trace at which it rang is neither valid afterwards nor is any later one.
`JudgedInv` adds what `eval_mm_valid` knows: `Placed`, the blocks and sizes that the driver holds are those
which the requests so far leave to the program (`LastOpStep`, `SizeStep` follow them from request to request); `Watched`, each live block was
filled from a draw made before this request, and one on which another was laid is garbled; `Ranked`, the list is one range for each live block, no two with the
same lower end. What an allocator may answer is `Answered`.
`NeverFalseAlarm` takes from it that no check fails before the alarm, and from `Unstopped` that the driver exits only at a trace that it cannot read: `ReadTrace` is the one step to
the exit that an honest allocator leaves, since `HonestServed` shows that each request of `eval_mm_util` gets its block, or the null pointer for an empty one. `UtilInv` is for the pass that measures: the driver's sizes are right for the blocks that were not
freed by their last request (it never clears the size of a freed one), the total is the demand, and with an honest allocator
the blocks lie apart below the break. `Demand` is a fold over the set of indices, so `SumsExist` first shows that the recursive definition of its sums has
a solution (after as many steps as there are indices it does not change any more), `SumsChange` how the sums change with one value,
and `SumsOfPayloads` that they count the bytes of payloads which lie apart, so that they fit below the break. Assumptions: `DriverAssumption` (there is a trace; `-c` names
one) and `TraceAssumption`: a trace is that of a program, which frees and resizes what it has, and asks for memory under
an index that has none. `read_trace` does not test this; the twelve files in `traces/` meet it, and without it `RangesAreLive` is false, since a range
is removed once and a block can be freed twice.

**Lists.** `CarefulSpec` is the specification of the theorems: without its restriction on `append` they are false, which is
the run `lists_tail`. `Linked(l, s)` says that the list `l` is the nodes `s`: they are distinct, linked in this order from the head on, each
holds a value, and the pool owns exactly them. `Owns(pool, M)` is the accounting of `smallobj.c`: an object in use lies in
a chunk of the list below its `next_available`, each chunk has handed out as many more objects than came back as it has in `M`, only the
last one has room, and a chunk all of whose objects were handed out and freed is gone (one that still has room may stay, finding 5). It is not `StorageSound` alone that is inductive: a released chunk must
have no counts, or a new one at its address would inherit them. An operation is shown in two halves:
`Placed` and `Stored` are what any insertion does to the links and to the array, and `InsertLinked`, `AppendLinked`,
`InsertStores` and `AppendStores` that the code does it. Sorting: `QuickSortedProperties` shows, by the length of the shortest
sequence for which it would fail, that the quicksort on the links returns the same nodes in order;
`RankProperties` that the order of `qsort` leaves no cell out; and `SortedUnique` that two sorted rearrangements of one sequence are the same
sequence, so the two lists agree although they sort differently. `IInv` adds the iterators, which are at the same place of both.
Assumptions: `ValueAssumption` (integers, none of them the null pointer), `NodeAssumption` (finitely many addresses, none of them null), and that a
chunk and the first array hold at least one element.

**Parser.** That a reduction finds its right side on the stack is the main part. `StackOK` says that each state is where some
symbol leads from the one below. From that, `StackBack` follows an item of the state on top down the stack, one state for each symbol before the
dot, so a complete rule lies on the stack as a whole and starts in a state that has its item
(`CompleteOnStack`); and a state with an item that begins a rule has one that waits for the symbol of that rule (`LeadsSomewhere`, by `StartsReached`, the
least number of steps in which `Starts` reaches every first symbol), so the reduction has a state to go to. These hold for any well-formed
rules; `RulesOK` goes through the 76 productions. `PagesOK` strengthens `PagesHold`: a page is at least of the usual size, and the current one is
never filled beyond the usual size, for else the unsigned difference would find room in it for ever. It is inductive since
a page for a long text goes behind the current one if there is one, and there is one, since every
action starts with an allocation of at most 32 bytes (`AllocatedAllOK`).
`IndentOK` has the levels grow from 0, so that `Kept` finds one to keep, and the queue drained before tokens are pushed; as many
`DEDENT`s as there are levels then fit. `TextAtHand` needs `TextInv` (the lookahead, if it is a name or a string, is the text of the scanner) and `CopyState`: a
state in which a rule that copies a text is complete is reached by that token alone, has no other item and is `Decided`,
so nothing is read in it. Assumptions: `InputAssumption` (what the inputs are), `RoomAssumption` (the queue has as much room as the stack of levels: 1024 and 1024,
`grammar.y.c:129-130`), `PageAssumption` (a page holds one node), `DepthAssumption` (the stack of `yyparse` has room for two states).

**Pool.** `Pool` has no state of its own: the interpreter keeps the pool and calls its operators, so the theorems are
about what an operator makes of any pool that is `PoolOK`. That is what `Sound`, and so `PoolSound`, says (`PoolIsSound`), with the types: values
lie end to end from 0 to the free pointer (`Tiled`), and the table and the references in the values are
inverse to each other, with the used slots below `num_refs` (`Named`). The empty pool is `PoolOK`, and allocations, collections, and values changed in place
leave it so. `MarkingIsReachability`: as many steps as there are values are enough, since each step but the last finds a value more, and an
injection from references to addresses bounds those. `Swept` is the invariant of the sweep: the marked values below the address it has come to lie end to end, each
under its reference and as it was, the free pointer of the sweep is not beyond what is still to be swept, and the rest
of the table is as before. With that, `CollectionKeepsTheLive` says that afterwards the references in use are exactly those that marking reached, and that each has the value
it had; `AllocationKeepsTheLive` says the same of an allocation with the collection it may need. Hypotheses: the pool is `PoolOK`, and the process has
not ended in the operation (`fault`); that it ends in the cases of the runs `subpython_sizes` and `subpython_table` is a finding. That the roots which the evaluator passes are enough is not
part of it: they are not, without the restriction of `CarefulSpec`.

**Processor.** The first two theorems are for every width and for every program whose words are what its listing says
(`Encodes`). Type correctness needs in addition that a program which runs on has ticks left, and that the buses always hold numbers. `Ticks` follows the
twelve buses through the five units, in the order of `clock()`: each one finds what it reads already set from the instruction that was fetched in this
tick. A step of the clock is then `End`, `Branch`, `Assign` or `Nothing` of `Assembly`, by what `Encodes` says of the word.
The arithmetic is what is left, since the listing tells a result by its bits or up to a word: `FromOnesProperties` (the number made of a set of bits is a word, and has these bits), `ShiftedHalf` and
`BitsOfSum` (a power of two that is added changes none of the bits below it), from which `LeftShift`, `RightShift` and `HighestBit` follow.
The recursive functions in `Power`, `Shifted` and `FromOnes` are compared with the iteration of a step by the least place where they would differ (`StepsAgree`).
Assumptions: `ProcessorAssumption` (a register has a bit, the limit leaves a tick) and `ImageAssumption` (the words loaded are a program with its
listing, and the registers hold words).

The third theorem is about the two programs. `LineComputes` says what the instruction of a line leaves in the registers, and `DividerSteps` and `IFibSteps`
say it of every line of the two. The invariants have a fact for each place of the program counter. Of the divider, `Counted` holds for all operands: R7 is the dividend less R6
times the divisor up to a word, one time more between the subtraction and the counting. `Divided` is needed for the quotient itself, and holds when the dividend has no
sign bit and the divisor is between 1 and the sign bit: before the subtraction the rest is not negative, after it R7 has the sign bit
if and only if the rest is negative (`SignOfRest`), which is what complement, mask and branch find out (`SignTest`); what is taken back is then a rest
below the divisor, and quotient and remainder are unique (`DivisionUnique`). Of `ifib`, `Makes` says which two Fibonacci numbers lie in which registers,
that R5 counts them, and that each takes six ticks: without the time, the counter could come around to zero and meet its argument with the wrong pair.
Hence `ProgramAssumption`: the limit is at most six ticks for every word (1000 against six times 2^32), and the divider finds the sign bit and a one in R2 and R4, as in its `.rbits` files.

Only model-checked: all of `Subpython`; `ParsesAsWritten`, whose reference is recursive. `Subpython` evaluates nested expressions and marks nested values by `RECURSIVE` operators, which the
provers cannot unfold, and so no theorem can be stated of a module that reaches it. Out of the prover's reach: liveness (`ReadyThreadRuns`, `DriverEnds`, `EndsAsExpected`), `ENABLED`, and what
`RECURSIVE` operators (`Eval`, `Reading`) compute for every input.

## What is not modelled and why

- Register widths, alignment and the red zone of `glue.s`: words are symbolic, and only whether
  a word comes back in its place is told apart.
- In `mm.c`, what `realloc` copies beyond the payload: its limit `oldsize` is meant to be the old size, but is the `size_t` in front of the payload (`mm.c:281`), whose lower
  half is the footer of the block before and whose upper half is the own header. It is never below 2^32, so always as many bytes are copied as the new size has; nobody reads
  those beyond the old payload. Rounding near the largest `size_t` (`mm.c:207`); what the program reads through a
  freed pointer; `sthread_unblock` with the handle of a thread that was freed.
- Comparison overflow of `arraylist_sort` for values more than `INT_MAX` apart.
- `ftimer.c`, which the build does not use; clearing the cache and the clock frequency in `fcyc.c` and `clock.c`; the formula
  of the score; `mmap` in `memlib.c`; the network of `driverlib.c`: I/O or floating-point.
- What `longjmp` does to memory that the interrupted call was changing: only the driver's own variables are followed.
- Rounding of floats in lab04; printing; `mm_cleanup` at the exit.
- Which characters make a lexeme, and comments; the prompt and its history; the text of error messages; a
  failing `calloc` in `ast.c`, whose result is not tested; input without the readline library.
- Benchmarks (`listperf.c`, `cpuinfo/`), the example programs of lab06 and the system call wrapper: clients, whose calls
  are among those the models allow, measurement, or one system call.
- Bit counting (lab01): planned above. Floating-point sums (lab01): outside TLC.
- Of the processor: building and freeing its units, reading and writing files, the test driver of the ALU.
