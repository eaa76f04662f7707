------------------------------- MODULE Driver -------------------------------
(***************************************************************************)
(* The trace driver of lab03 (mdriver.c): it replays trace files against   *)
(* an allocator, judges what the allocator answers, and measures the       *)
(* utilization of the heap and the time.  A trace is replayed for its      *)
(* correctness, then for the utilization, and then as often as the K-best  *)
(* measurement asks for.                                                   *)
(*                                                                         *)
(* The allocator is an environment.  An honest one meets the promises of   *)
(* malloc; any other one may answer with any address or none, garble a     *)
(* payload, fail to copy one, or not come back.  The alarm that the driver *)
(* sets for this case may ring between any two steps.                      *)
(***************************************************************************)
EXTENDS RangeList, Fcyc

CONSTANTS
  File,    \* the trace files, by name
  Options, \* the command lines
  Address  \* the addresses that an allocator may answer with

\* There are default traces, so that a trace is named in any case; -c runs the
\* one that it names (mdriver.c:283-292, 336-340).
ASSUME DriverAssumption ==
  /\ \A o \in Options :
       /\ o.files \in Seq(DOMAIN File) /\ o.files # <<>>
       /\ o.onetime => Len(o.files) = 1
  /\ Address \subseteq Int

VARIABLES
  opts,            \* the command line
  honest,          \* the allocator keeps the promises of malloc
  phase,           \* where the driver is
  i, opnum,        \* the number of the trace, and of the requests done
  mem, brk,        \* the simulated heap
  blocks, block_sizes, block_rand_base, \* the payloads, by index
  ranges, errors,
  total_size, max_total_size,
  mm_stats,        \* the statistics of the traces
  alarm,           \* "off", "set" or "rung"
  timed_out,       \* the trace at which the alarm rang, or 0
  report,          \* what is printed in the end
  clashed          \* the blocks over which another one was laid (history)

traceVars == <<opnum, mem, brk, blocks, block_sizes, block_rand_base>>
heapVars == <<mem, brk>>
blockVars == <<blocks, block_sizes, block_rand_base>>
utilVars == <<total_size, max_total_size>>
fixed == <<opts, honest, report>>
driverVars == <<opts, honest, phase, i, traceVars, ranges, errors, utilVars,
                mm_stats, alarm, timed_out, report, clashed>>
vars == <<driverVars, fcycVars>>

\* Requests, as the lines of a trace file.  Index -1 is the null pointer.
Alloc(index, size) == [type |-> "a", index |-> index, size |-> size]
Resize(index, size) == [type |-> "r", index |-> index, size |-> size]
Release(index) == [type |-> "f", index |-> index, size |-> 0]

trace == File[opts.files[i]]
op == trace.lines[opnum + 1]
Requested(type) == opnum < trace.num_ops /\ op.type = type
Finished == opnum = trace.num_ops

\* The ranges of this trace are kept.
Tracked == trace.ignore_ranges = 0 /\ opts.debug # 0

\* The blocks that the first n requests leave to the program, and the bytes.
LastOp(lines, n, id) == SelectLastInSubSeq(lines, 1, n, LAMBDA l : l.index = id)
Size(lines, n, id) == IF LastOp(lines, n, id) = 0 THEN 0
                      ELSE lines[LastOp(lines, n, id)].size
Ids == 0..(trace.num_ids - 1)
Live == {id \in Ids : Size(trace.lines, opnum, id) > 0}
Demand(n) == MapThenSumSet(LAMBDA id : Size(trace.lines, n, id), Ids)

NoStats == [weight |-> 0, ops |-> 0, valid |-> FALSE, util |-> <<>>, secs |-> <<>>]
NoReport == [numcorrect |-> 0, scored |-> FALSE, counted |-> {}]

\* main after it has read the command line and set the alarm.
Init ==
  /\ opts \in Options
  /\ honest \in BOOLEAN
  /\ phase = IF opts.run_libc THEN "libc" ELSE "read"
  /\ i = 1 /\ opnum = 0
  /\ mem = EmptyMemory /\ brk = 0
  /\ blocks = <<>> /\ block_sizes = <<>> /\ block_rand_base = <<>>
  /\ ranges = <<>> /\ errors = 0
  /\ total_size = 0 /\ max_total_size = 0
  /\ mm_stats = [j \in DOMAIN opts.files |-> NoStats]
  /\ alarm = IF opts.timeout THEN "set" ELSE "off"
  /\ timed_out = 0
  /\ report = NoReport
  /\ clashed = {}
  /\ FcycInit

----------------------------------------------------------------------------
(***************************************************************************)
(* The allocator                                                           *)
(***************************************************************************)

\* The heap after n bytes were copied from lo to the new payload at p.
Copied(lo, p, n) ==
  [a \in DOMAIN mem |-> IF a - p \in 0..(n - 1) THEN mem[lo + a - p] ELSE mem[a]]

\* The heaps that a careless allocator leaves: its own data may hit the first
\* byte of a payload.
Hit == {mem} \cup {[mem EXCEPT ![blocks[id]] = Junk] : id \in Live}

Answer(p, b, m) == [ptr |-> p, brk |-> b, mem |-> m]

\* Where the heap has room for size bytes for block id, and how far it grows.
Extents(id, size) ==
  {e \in [ptr : 0..(HeapLimit - 1), brk : brk..HeapLimit] :
     /\ e.ptr % ALIGNMENT = 0
     /\ e.ptr + size <= e.brk
     /\ e.brk \in {brk, e.ptr + size, HeapLimit}
     /\ \A j \in Live \ {id} :
          Payload(e.ptr, size) \cap Payload(blocks[j], block_sizes[j]) = {}}

\* The answers to a request for size bytes for block id, which has n bytes at lo.
Honest(id, size, lo, n) ==
  IF size = 0 THEN {Answer(NULL, brk, mem)}
  ELSE {Answer(e.ptr, e.brk, Copied(lo, e.ptr, IF n < size THEN n ELSE size)) :
          e \in Extents(id, size)}

Careless(id, size, lo, n) ==
  {Answer(p, b, m) : p \in Address \cup {NULL}, b \in {brk, HeapLimit}, m \in Hit}
  \cup
  {Answer(p, b, Copied(lo, p, IF n < size THEN n ELSE size)) :
     p \in Address, b \in {brk, HeapLimit}}

Answers(id, size, lo, n) ==
  IF honest THEN Honest(id, size, lo, n) ELSE Careless(id, size, lo, n)

\* Mutant: no memory is an answer to no request.
ServedWithMemory(size, p) == p # NULL

\* Only whether there is an answer matters where payloads are not looked at.
Served(size, p) == p # NULL \/ size = 0

\* mm_init on the heap that mem_reset_brk left, and whether it succeeds.
InitHeap(b) == b \in {0, ALIGNMENT} /\ b <= HeapLimit
InitFails == ~honest

\* A call of a careless allocator may not come back.
Hang ==
  /\ phase \in {"init", "valid", "init util", "util"} \/ (phase = "speed" /\ sampling = "loop")
  /\ ~honest
  /\ phase' = "hung"
  /\ UNCHANGED <<fixed, i, traceVars, ranges, errors, utilVars, mm_stats, alarm,
                 timed_out, clashed, fcycVars>>

----------------------------------------------------------------------------
(***************************************************************************)
(* run_tests                                                               *)
(***************************************************************************)

\* What read_trace demands of a file: it holds as many requests as it says, and
\* the greatest index is the one that it says.
Indices(lines) == {0} \cup {lines[j].index : j \in {k \in DOMAIN lines : lines[k].type # "f"}}
Read(f) == SubSeq(f.lines, 1, f.num_ops)
Legal(f) ==
  /\ f.weight \in {0, 1} /\ f.ignore_ranges \in {0, 1}
  /\ Len(f.lines) >= f.num_ops
  /\ \A j \in 1..f.num_ops : f.lines[j].type \in {"a", "r", "f"}
  /\ f.num_ids - 1 \in Indices(Read(f))
  /\ \A id \in Indices(Read(f)) : id <= f.num_ids - 1

\* Request n of a trace is one of a program: it names one of its blocks, asks for
\* memory under an index that holds none, and passes on no block that it freed.
Proper(f, n) ==
  LET l == f.lines[n]
      last == LastOp(f.lines, n - 1, l.index)
  IN /\ l.index \in -1..(f.num_ids - 1) /\ l.size \in Nat
     /\ l.type # "f" => l.index # -1
     /\ l.type = "a" => l.size > 0 /\ Size(f.lines, n - 1, l.index) = 0
     /\ l.type = "f" => l.size = 0
     /\ l.type # "a" /\ l.index # -1 /\ last # 0 => f.lines[last].type # "f"

\* So are the traces in traces/, which were recorded from programs or written in
\* the same way.
ASSUME TraceAssumption ==
  \A name \in DOMAIN File :
    /\ File[name].num_ops \in Nat /\ File[name].num_ids \in Nat
    /\ Legal(File[name]) => \A n \in 1..File[name].num_ops : Proper(File[name], n)

Cleared == [id \in Ids |-> 0]
NoBlocks == [id \in Ids |-> NULL]

\* Mutant: the trace is tried again after the alarm.
TriedAgain == TRUE

\* After a time out no trace is tried.
Tried == timed_out = 0

\* read_trace, and what becomes of the trace.
ReadTrace ==
  /\ phase = "read"
  /\ IF Legal(trace)
     THEN /\ phase' = IF Tried THEN "init" ELSE "free"
          /\ mm_stats' = [mm_stats EXCEPT ![i] =
               [mm_stats[i] EXCEPT !.weight = trace.weight,
                                   !.ops = trace.num_ops,
                                   !.valid = Tried /\ mm_stats[i].valid]]
          /\ blocks' = NoBlocks
          /\ block_sizes' = Cleared
          /\ block_rand_base' = Cleared
     ELSE /\ phase' = "exit"
          /\ UNCHANGED <<mm_stats, blockVars>>
  /\ UNCHANGED <<fixed, i, opnum, heapVars, ranges, errors, utilVars, alarm,
                 timed_out, clashed, fcycVars>>

\* reinit_trace, for a pass over the trace from its start.
Reinit == blocks' = NoBlocks /\ block_sizes' = Cleared

\* free_trace, and on to the next trace.
FreeTrace ==
  /\ phase = "free"
  /\ IF (opts.onetime /\ timed_out = 0) \/ i = Len(opts.files)
     THEN phase' = "results" /\ i' = i
     ELSE phase' = "read" /\ i' = i + 1
  /\ opnum' = 0
  /\ blocks' = <<>> /\ block_sizes' = <<>> /\ block_rand_base' = <<>>
  /\ UNCHANGED <<fixed, heapVars, ranges, errors, utilVars, mm_stats, alarm,
                 timed_out, clashed, fcycVars>>

\* Mutant: it prints and does not count.
malloc_error_uncounted(n) == errors' = errors

\* malloc_error, n times.
malloc_error(n) == errors' = errors + n

\* eval_mm_valid has returned valid.
Judged(valid) ==
  /\ mm_stats' = [mm_stats EXCEPT ![i].valid = valid]
  /\ phase' = IF valid /\ ~opts.onetime THEN "init util" ELSE "free"

----------------------------------------------------------------------------
(***************************************************************************)
(* eval_mm_valid                                                           *)
(***************************************************************************)

\* It starts with an empty heap, no ranges, and mm_init.
StartValid ==
  /\ phase = "init"
  /\ opnum' = 0
  /\ mem' = EmptyMemory
  /\ InitHeap(brk')
  /\ ranges' = <<>>
  /\ clashed' = {}
  /\ Reinit
  /\ \/ phase' = "valid" /\ UNCHANGED <<errors, mm_stats>>
     \/ InitFails /\ malloc_error(1) /\ Judged(FALSE)
  /\ UNCHANGED <<fixed, i, block_rand_base, utilVars, alarm, timed_out, fcycVars>>

\* Whether check_index reports block id, filled from base on, in heap m.
Bad(m, id, size, base) ==
  id >= 0 /\ opts.debug # 0 /\ Garbled(m, blocks[id], size, base)

IsBad(id) == Bad(mem, id, block_sizes[id], block_rand_base[id])

\* The number of blocks among ids that check_index reports.
Reports(ids) == Cardinality({id \in ids : IsBad(id)})

\* Before each request, with DBG_EXPENSIVE, all blocks in the list are checked.
Surveyed == IF opts.debug = 2 THEN {ranges[j].index : j \in DOMAIN ranges} ELSE {}

\* The blocks on which a new payload of another block is laid.
Under(id, lo, size) ==
  {j \in Live \ {id} :
     Payload(lo, size) \cap Payload(blocks[j], block_sizes[j]) # {}}

\* The answer a to a request for block id is kept: the block is filled from a
\* new draw on, in heap m.
Keep(a, id, size, m) ==
  /\ blocks' = [blocks EXCEPT ![id] = a.ptr]
  /\ block_sizes' = [block_sizes EXCEPT ![id] = size]
  /\ IF opts.debug = 0
     THEN mem' = m /\ UNCHANGED block_rand_base
     ELSE /\ block_rand_base' = [block_rand_base EXCEPT ![id] = opnum + 1]
          /\ mem' = randomize_block(m, a.ptr, size, opnum + 1)
  /\ clashed' = (clashed \ {id}) \cup Under(id, a.ptr, size)
  /\ opnum' = opnum + 1

\* The range of the answer a, if ranges are kept, among the others rs.
Ranged(rs, a, size, id) ==
  ranges' = IF Tracked /\ size > 0 THEN WithRange(rs, a.ptr, size, id) ELSE rs

\* The answer a is not kept, and the evaluation ends.
Fail(a) ==
  /\ Judged(FALSE)
  /\ mem' = a.mem
  /\ UNCHANGED <<opnum, blockVars, clashed>>

ValidAlloc ==
  /\ phase = "valid" /\ Requested("a")
  /\ \E a \in Answers(op.index, op.size, NULL, 0) :
       /\ brk' = a.brk
       /\ IF a.ptr = NULL \/ Refused(ranges, a.ptr, op.size, a.brk)
          THEN /\ malloc_error(Reports(Surveyed) + 1)
               /\ Fail(a)
               /\ UNCHANGED ranges
          ELSE /\ malloc_error(Reports(Surveyed))
               /\ Ranged(ranges, a, op.size, op.index)
               /\ Keep(a, op.index, op.size, a.mem)
               /\ UNCHANGED <<phase, mm_stats>>
  /\ UNCHANGED <<fixed, i, utilVars, alarm, timed_out, fcycVars>>

\* The bytes that a block of old bytes and its copy of size bytes share.
Common(old, size) == IF size < old THEN size ELSE old

\* The block is checked, resized, and checked again as far as it was copied.
ValidRealloc ==
  LET id == op.index
      size == op.size
      old == block_sizes[id]
      before == Reports(Surveyed) + Reports({id})
      rest == remove_range(ranges, blocks[id])
  IN /\ phase = "valid" /\ Requested("r")
     /\ \E a \in Answers(id, size, blocks[id], old) :
          /\ brk' = a.brk
          /\ IF (a.ptr = NULL) # (size = 0)
             THEN /\ malloc_error(before + 1)
                  /\ Fail(a)
                  /\ UNCHANGED ranges
             ELSE IF size > 0 /\ Refused(rest, a.ptr, size, a.brk)
             THEN /\ malloc_error(before + 1)
                  /\ Fail(a)
                  /\ ranges' = rest
             ELSE /\ malloc_error(before +
                       IF opts.debug # 0
                          /\ Garbled(a.mem, a.ptr, Common(old, size), block_rand_base[id])
                       THEN 1 ELSE 0)
                  /\ Ranged(rest, a, size, id)
                  /\ Keep(a, id, size, a.mem)
                  /\ UNCHANGED <<phase, mm_stats>>
     /\ UNCHANGED <<fixed, i, utilVars, alarm, timed_out, fcycVars>>

ValidFree ==
  /\ phase = "valid" /\ Requested("f")
  /\ IF op.index = -1
     THEN malloc_error(Reports(Surveyed)) /\ UNCHANGED ranges
     ELSE /\ malloc_error(Reports(Surveyed) + Reports({op.index}))
          /\ ranges' = remove_range(ranges, blocks[op.index])
  /\ mem' \in IF honest THEN {mem} ELSE Hit
  /\ clashed' = clashed \ {op.index}
  /\ opnum' = opnum + 1
  /\ UNCHANGED <<fixed, phase, i, brk, blockVars, utilVars, mm_stats, alarm,
                 timed_out, fcycVars>>

\* "As far as we know, this is a valid malloc package."
EndValid ==
  /\ phase = "valid" /\ Finished
  /\ Judged(TRUE)
  /\ UNCHANGED <<fixed, i, traceVars, ranges, errors, utilVars, alarm, timed_out,
                 clashed, fcycVars>>

----------------------------------------------------------------------------
(***************************************************************************)
(* eval_mm_util and eval_mm_speed.  A request that fails ends the driver.  *)
(***************************************************************************)
StartUtil ==
  /\ phase = "init util"
  /\ Reinit
  /\ mem' = EmptyMemory
  /\ InitHeap(brk')
  /\ opnum' = 0
  /\ total_size' = 0 /\ max_total_size' = 0
  /\ phase' \in {"util"} \cup IF InitFails THEN {"exit"} ELSE {}
  /\ UNCHANGED <<fixed, i, block_rand_base, ranges, errors, mm_stats, alarm,
                 timed_out, clashed, fcycVars>>

\* The total changes by n bytes.
Count(n) ==
  /\ total_size' = total_size + n
  /\ max_total_size' = IF total_size' > max_total_size THEN total_size'
                       ELSE max_total_size

\* An answer of the allocator where its payload is not looked at.
UtilAnswers(id, size, lo, n) ==
  IF honest THEN Honest(id, size, lo, n)
  ELSE {Answer(p, b, mem) : p \in {0, NULL}, b \in {brk, HeapLimit}}

UtilAlloc ==
  /\ phase = "util" /\ Requested("a")
  /\ \E a \in UtilAnswers(op.index, op.size, NULL, 0) :
       /\ brk' = a.brk
       /\ IF a.ptr = NULL
          THEN phase' = "exit" /\ UNCHANGED <<opnum, blocks, block_sizes, utilVars>>
          ELSE /\ blocks' = [blocks EXCEPT ![op.index] = a.ptr]
               /\ block_sizes' = [block_sizes EXCEPT ![op.index] = op.size]
               /\ Count(op.size)
               /\ opnum' = opnum + 1
               /\ UNCHANGED phase
  /\ UNCHANGED <<fixed, i, mem, block_rand_base, ranges, errors, mm_stats, alarm,
                 timed_out, clashed, fcycVars>>

\* Mutant: the old size of the block is not taken off.
GrowthGross(size, old) == size

Growth(size, old) == size - old

UtilRealloc ==
  /\ phase = "util" /\ Requested("r")
  /\ \E a \in UtilAnswers(op.index, op.size, blocks[op.index], block_sizes[op.index]) :
       /\ brk' = a.brk
       /\ IF ~Served(op.size, a.ptr)
          THEN phase' = "exit" /\ UNCHANGED <<opnum, blocks, block_sizes, utilVars>>
          ELSE /\ blocks' = [blocks EXCEPT ![op.index] = a.ptr]
               /\ block_sizes' = [block_sizes EXCEPT ![op.index] = op.size]
               /\ Count(Growth(op.size, block_sizes[op.index]))
               /\ opnum' = opnum + 1
               /\ UNCHANGED phase
  /\ UNCHANGED <<fixed, i, mem, block_rand_base, ranges, errors, mm_stats, alarm,
                 timed_out, clashed, fcycVars>>

\* The size of a block stays in block_sizes when it is freed.
UtilFree ==
  /\ phase = "util" /\ Requested("f")
  /\ Count(IF op.index < 0 THEN 0 ELSE -block_sizes[op.index])
  /\ opnum' = opnum + 1
  /\ UNCHANGED <<fixed, phase, i, heapVars, blockVars, ranges, errors, mm_stats,
                 alarm, timed_out, clashed, fcycVars>>

\* The utilization, as a fraction: the high-water mark over mem_heapsize().
EndUtil ==
  /\ phase = "util" /\ Finished
  /\ mm_stats' = [mm_stats EXCEPT ![i].util = <<max_total_size, brk>>]
  /\ phase' = "speed"
  /\ FcycStart
  /\ UNCHANGED <<fixed, i, traceVars, ranges, errors, utilVars, alarm, timed_out, clashed>>

\* One run of eval_mm_speed below fcyc, in t cycles with n ticks.  It starts
\* with an empty heap and nobody looks at what it leaves in it.
SpeedRun(t, n) ==
  /\ phase = "speed"
  /\ FcycSample(t, n)
  /\ Reinit
  /\ mem' = EmptyMemory /\ brk' = 0
  /\ opnum' = 0
  /\ UNCHANGED <<fixed, phase, i, block_rand_base, ranges, errors, utilVars,
                 mm_stats, alarm, timed_out, clashed>>

\* A request of it fails.
SpeedFails ==
  /\ phase = "speed" /\ sampling = "loop"
  /\ ~honest
  /\ phase' = "exit"
  /\ UNCHANGED <<fixed, i, traceVars, ranges, errors, utilVars, mm_stats, alarm,
                 timed_out, clashed, fcycVars>>

\* fsecs returns; the seconds are given in cycles.
EndSpeed ==
  /\ phase = "speed"
  /\ FcycEnd
  /\ mm_stats' = [mm_stats EXCEPT ![i].secs = <<result>>]
  /\ phase' = "free"
  /\ UNCHANGED <<fixed, i, traceVars, ranges, errors, utilVars, alarm, timed_out, clashed>>

----------------------------------------------------------------------------
(***************************************************************************)
(* The alarm, and the rest of main                                         *)
(***************************************************************************)

\* The alarm rings inside of run_tests: timeout_handler jumps to the head of its
\* loop.  The trace in work is read again; its first record is not freed.
InTests == phase \in {"read", "init", "valid", "init util", "util", "speed",
                      "free", "hung"}
RingInTests ==
  /\ alarm = "set" /\ InTests
  /\ alarm' = "rung"
  /\ errors' = 1
  /\ timed_out' = i
  /\ phase' = "read"
  /\ opnum' = 0
  /\ blocks' = <<>> /\ block_sizes' = <<>> /\ block_rand_base' = <<>>
  /\ FcycAbandon
  /\ UNCHANGED <<fixed, i, heapVars, ranges, utilVars, mm_stats, clashed>>

\* It rings before run_tests has called setjmp or after it has returned: the
\* jump goes nowhere that is defined.
RingOutside ==
  /\ alarm = "set" /\ phase \in {"libc", "libc valid", "libc speed", "results"}
  /\ alarm' = "rung"
  /\ phase' = "fault"
  /\ UNCHANGED <<fixed, i, traceVars, ranges, errors, utilVars, mm_stats,
                 timed_out, clashed, fcycVars>>

\* main reads a trace for the libc allocator.
LibcRead ==
  /\ phase = "libc"
  /\ phase' = IF Legal(trace) THEN "libc valid" ELSE "exit"
  /\ UNCHANGED <<fixed, i, traceVars, ranges, errors, utilVars, mm_stats, alarm,
                 timed_out, clashed, fcycVars>>

\* eval_libc_valid: a request that libc refuses ends the driver.
LibcValid ==
  /\ phase = "libc valid"
  /\ phase' \in {"libc speed", "exit"}
  /\ UNCHANGED <<fixed, i, traceVars, ranges, errors, utilVars, mm_stats, alarm,
                 timed_out, clashed, fcycVars>>

\* eval_libc_speed below fsecs, and on to the next trace; the student's package
\* is tested after the last.
LibcSpeed ==
  /\ phase = "libc speed"
  /\ \/ IF i = Len(opts.files) THEN phase' = "read" /\ i' = 1
        ELSE phase' = "libc" /\ i' = i + 1
     \/ phase' = "exit" /\ i' = i
  /\ UNCHANGED <<fixed, traceVars, ranges, errors, utilVars, mm_stats, alarm,
                 timed_out, clashed, fcycVars>>

\* main after run_tests: the traces that count in the average utilization and
\* time are those with a weight.  There is a score if there was no error.
Report ==
  /\ phase = "results"
  /\ phase' = "end"
  /\ report' = [numcorrect |-> Cardinality({j \in DOMAIN mm_stats : mm_stats[j].valid}),
                scored |-> errors = 0,
                counted |-> {j \in DOMAIN mm_stats :
                               mm_stats[j].weight = 1 /\ mm_stats[j].util # <<>>}]
  /\ UNCHANGED <<opts, honest, i, traceVars, ranges, errors, utilVars, mm_stats,
                 alarm, timed_out, clashed, fcycVars>>

Evaluation ==
  \/ ReadTrace \/ FreeTrace
  \/ StartValid \/ ValidAlloc \/ ValidRealloc \/ ValidFree \/ EndValid
  \/ StartUtil \/ UtilAlloc \/ UtilRealloc \/ UtilFree \/ EndUtil
  \/ \E t \in RunTime, n \in Ticks : SpeedRun(t, n)
  \/ SpeedFails \/ EndSpeed
  \/ LibcRead \/ LibcValid \/ LibcSpeed \/ Report

Ring == RingInTests \/ RingOutside

Next == Evaluation \/ Hang \/ Ring

\* The driver is a process that runs, and the alarm rings in the end.
Spec == Init /\ [][Next]_vars /\ WF_vars(Evaluation) /\ WF_vars(Ring)

----------------------------------------------------------------------------
(***************************************************************************)
(* Properties                                                              *)
(***************************************************************************)
Heap == 0..(HeapLimit - 1)
Stats == [weight : {0, 1}, ops : Nat, valid : BOOLEAN, util : Seq(Nat), secs : Seq(Int)]

\* The variables of the driver have the types of the code's; the payloads it
\* keeps lie in the heap.
TypeOK ==
  /\ opts \in Options /\ honest \in BOOLEAN
  /\ i \in DOMAIN opts.files /\ opnum \in Nat
  /\ \A a \in DOMAIN mem : a \in Heap /\ mem[a][1] \in Nat /\ mem[a][2] \in Nat
  /\ brk \in 0..HeapLimit
  /\ DOMAIN blocks = DOMAIN block_sizes /\ DOMAIN blocks = DOMAIN block_rand_base
  /\ phase = "valid" =>
       \A id \in Live : Payload(blocks[id], block_sizes[id]) \subseteq 0..(brk - 1)
  /\ errors \in Nat /\ total_size \in Int /\ max_total_size \in Nat
  /\ mm_stats \in [DOMAIN opts.files -> Stats]
  /\ alarm \in {"off", "set", "rung"}
  /\ timed_out \in 0..Len(opts.files)
  /\ FcycTypeOK

\* An allocator that keeps its promises is never blamed: it ends the driver in no
\* pass, which stops only at a trace that it cannot read (or, with -l, at libc);
\* and as long as the alarm does not ring no check of the driver reports it and
\* no trace is judged invalid.
NoFalseAlarm ==
  honest =>
    /\ phase = "exit" /\ ~opts.run_libc => ~Legal(trace)
    /\ alarm # "rung" =>
         /\ errors = 0
         /\ phase \in {"init util", "util", "speed", "results", "end"} =>
              \A j \in 1..(i - 1) : mm_stats[j].valid
         /\ phase = "end" =>
              report.numcorrect = IF opts.onetime THEN 1 ELSE Len(opts.files)

\* "We use the range list to detect any overlapping allocated blocks"
\* (mdriver.c:503): the list holds one range for each block that the program
\* has, with its extent, and no other.
RangesAreLive ==
  phase = "valid" /\ Tracked =>
    /\ {ranges[j] : j \in DOMAIN ranges}
         = {[lo |-> blocks[id], hi |-> blocks[id] + block_sizes[id] - 1, index |-> id] :
              id \in Live}
    /\ Len(ranges) = Cardinality(Live)

\* "If we can't afford the linear-time loop, we ... just assume the overlap will
\* be caught by writing random bits" (mdriver.c:535): a block on which another
\* one was laid is reported when it is freed or resized; with DBG_EXPENSIVE any
\* such block in the list is reported at the next request; and where ranges are
\* kept, only a payload that encloses the older one gets that far
\* (mdriver.c:542-551, 635-661).
Requests == phase = "valid" /\ phase' = "valid" /\ opnum' = opnum + 1
OverlapsSurface ==
  [][Requests =>
       /\ opts.debug # 0 /\ ~(clashed \subseteq clashed' \cup {-1}) => errors' > errors
       /\ opts.debug = 2 /\ Tracked /\ clashed # {} => errors' > errors
       /\ Tracked => \A id \in clashed' \ clashed :
            /\ blocks'[op.index] < blocks[id]
            /\ blocks'[op.index] + op.size > blocks[id] + block_sizes[id]
    ]_vars

\* The utilization counts exactly the bytes that the program holds, and their
\* high-water mark over all prefixes of the trace; so for an allocator that
\* keeps its promises it is at most 1 (mdriver.c:929-939, 948-1022).
UtilizationExact ==
  /\ phase = "util" =>
       /\ total_size = Demand(opnum)
       /\ \A n \in 0..opnum : Demand(n) <= max_total_size
       /\ \E n \in 0..opnum : Demand(n) = max_total_size
  /\ honest => \A j \in DOMAIN mm_stats :
       mm_stats[j].util # <<>> => mm_stats[j].util[1] <= mm_stats[j].util[2]

\* There is a score only if each trace was judged valid (or, with -c, the one
\* that was run), and a time out leaves neither a score nor a valid trace from
\* where it came on (mdriver.c:192-240, 446-487).
ScoreIsEarned ==
  phase = "end" =>
    /\ report.scored => \A j \in DOMAIN mm_stats : mm_stats[j].valid
    /\ timed_out # 0 =>
         /\ ~report.scored
         /\ \A j \in timed_out..Len(opts.files) : ~mm_stats[j].valid

\* The driver comes to an end, with its results or without, unless it waits for
\* an allocator that never comes back and no alarm is set.
Ended == phase \in {"end", "exit", "fault"}
DriverEnds == <>(Ended \/ (phase = "hung" /\ alarm = "off"))
=============================================================================
