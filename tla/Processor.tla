----------------------------- MODULE Processor ------------------------------
(***************************************************************************)
(* The branching processor of lab01 (proc): units that read and set the    *)
(* pins of shared buses, the clock that runs them in turn, and the loop    *)
(* that gives the clock until the program is done or took too long.        *)
(***************************************************************************)
EXTENDS Integers, Bits

CONSTANTS
  Width,           \* the bits of a register: 32 in the code
  MaxExecuteTime,  \* MAX_EXECUTE_TIME
  Image            \* what is loaded: the words of a program and its listing, by
                   \* their address, and the registers it starts with

ASSUME ProcessorAssumption == Width \in Nat \ {0} /\ MaxExecuteTime \in Nat \ {0, 1}

InstructionStoreDepth == 100
NumRegisters == 8
Register == 0..(NumRegisters - 1)
Modulus == Power(Width)
SignBit == Power(Width - 1)
Words == 0..(Modulus - 1)

VARIABLES
  loaded,   \* the image
  rfmem,    \* the register file
  bus,      \* the value on each bus
  time,     \* how often the clock ticked
  status    \* how run() goes on or ended

vars == <<loaded, rfmem, bus, time, status>>

\* The instruction store after loading; what the file does not fill is zero.
imemory == [a \in 0..(InstructionStoreDepth - 1) |->
              IF a \in DOMAIN loaded.program THEN loaded.program[a] ELSE 0]

\* build_processor wires the pins to twelve buses; only the one of the program
\* counter gets a value before the clock ticks.
Bus == {"pc", "instr", "aluop", "writep", "src1", "src2", "dst", "branch_addr",
        "rf1", "rf2", "aluout", "branch"}

Init ==
  /\ loaded \in Image
  /\ rfmem = loaded.registers
  /\ bus = [b \in Bus |-> IF b = "pc" THEN 0 ELSE -1]
  /\ time = 0
  /\ status = "running"

----------------------------------------------------------------------------
(***************************************************************************)
(* Instructions (instruction.h)                                            *)
(***************************************************************************)
AluAdd == 0
AluInv == 1
AluSub == 2
AluXor == 3
AluOr == 4
AluIncr == 5
AluAnd == 8
OpBnz == 10
AluSra == 11
AluSrl == 12
AluSla == 13
AluSll == 14
AluDone == 15

\* What an instruction has at a bit, which counts as much as unit, and above: as
\* many values as the mask lets through.
Field(instr, unit, values) == (instr \div unit) % values

Opcode(instr) == Field(instr, 1024, 16)
WriteFlag(instr) == Field(instr, 512, 2)
Src1(instr) == Field(instr, 64, NumRegisters)
Src2(instr) == Field(instr, 8, NumRegisters)
Dst(instr) == Field(instr, 1, NumRegisters)
BranchAddr(instr) == Field(instr, 1, 64)

\* Mutant: the sum is not cut to a word.
SumWide(a, b) == a + b

\* Registers are unsigned: what does not fit is lost.
Sum(a, b) == (a + b) % Modulus

\* alu_eval: an operation that is not known gives zero.
AluResult(op, a, b) ==
  CASE op = AluAdd -> Sum(a, b)
    [] op = AluInv -> FromOnes(Width, (0..(Width - 1)) \ Ones(Width, a))
    [] op = AluSub -> (a - b) % Modulus
    [] op = AluXor -> LET x == Ones(Width, a)
                         y == Ones(Width, b)
                     IN FromOnes(Width, (x \ y) \cup (y \ x))
    [] op = AluOr -> FromOnes(Width, Ones(Width, a) \cup Ones(Width, b))
    [] op = AluIncr -> Sum(a, 1)
    [] op = AluAnd -> FromOnes(Width, Ones(Width, a) \cap Ones(Width, b))
    [] op = AluSra -> a \div 2 + (IF a >= SignBit THEN SignBit ELSE 0)
    [] op = AluSrl -> a \div 2
    [] op \in {AluSla, AluSll} -> Sum(a, a)
    [] OTHER -> 0

----------------------------------------------------------------------------
(***************************************************************************)
(* The units, each from the buses to the buses                             *)
(***************************************************************************)
IFetch(b) == [b EXCEPT !.instr = imemory[b.pc]]

\* Mutant: the two sources are taken from each other's place.
IDecodeSwapped(b) ==
  [b EXCEPT !.aluop = Opcode(b.instr), !.writep = WriteFlag(b.instr),
            !.src1 = Src2(b.instr), !.src2 = Src1(b.instr), !.dst = Dst(b.instr),
            !.branch_addr = BranchAddr(b.instr)]

IDecode(b) ==
  [b EXCEPT !.aluop = Opcode(b.instr), !.writep = WriteFlag(b.instr),
            !.src1 = Src1(b.instr), !.src2 = Src2(b.instr), !.dst = Dst(b.instr),
            !.branch_addr = BranchAddr(b.instr)]

RfRead(b) == [b EXCEPT !.rf1 = rfmem[b.src1], !.rf2 = rfmem[b.src2]]

\* Mutant: the branch is taken when the operand is zero.
BranchTestZero(b) ==
  [b EXCEPT !.branch = IF b.aluop = OpBnz /\ b.rf1 = 0 THEN 1 ELSE 0]

BranchTest(b) ==
  [b EXCEPT !.branch = IF b.aluop = OpBnz /\ b.rf1 # 0 THEN 1 ELSE 0]

AluEval(b) == [b EXCEPT !.aluout = AluResult(b.aluop, b.rf1, b.rf2)]

RfWrite(b) ==
  IF b.writep = 1 THEN [rfmem EXCEPT ![b.dst] = b.aluout] ELSE rfmem

NextPC(b) == [b EXCEPT !.pc = IF b.branch = 1 THEN b.branch_addr ELSE b.pc + 1]

----------------------------------------------------------------------------
(***************************************************************************)
(* The loop of run()                                                       *)
(***************************************************************************)

\* What clock() leaves on the buses before it writes the register and moves the
\* program counter: the units in the order of the call.
Ticked == AluEval(BranchTest(RfRead(IDecode(IFetch(bus)))))

\* Mutant: the loop gives the clock once more.
HowItGoesOnLonger(aluop, t) ==
  CASE aluop = AluDone -> "done"
    [] aluop # AluDone /\ t = MaxExecuteTime -> "max time"
    [] OTHER -> "running"

\* After the t-th tick; the loop gives fewer than MaxExecuteTime.
HowItGoesOn(aluop, t) ==
  CASE aluop = AluDone -> "done"
    [] aluop # AluDone /\ t = MaxExecuteTime - 1 -> "max time"
    [] OTHER -> "running"

Clock ==
  /\ status = "running"
  /\ bus.pc \in DOMAIN imemory
  /\ rfmem' = RfWrite(Ticked)
  /\ bus' = NextPC(Ticked)
  /\ time' = time + 1
  /\ status' = HowItGoesOn(bus'.aluop, time')
  /\ UNCHANGED loaded

\* The program counter has left the instruction store: ifetch reads whatever
\* lies behind it, and the model ends.
Stray ==
  /\ status = "running"
  /\ bus.pc \notin DOMAIN imemory
  /\ status' = "stray"
  /\ UNCHANGED <<loaded, rfmem, bus, time>>

Next == Clock \/ Stray

Spec == Init /\ [][Next]_vars /\ WF_vars(Next)

\* Registers hold words, and after the first tick each bus what its producer may
\* set: the fields idecode cuts from an instruction, and words.
TypeOK ==
  /\ rfmem \in [Register -> Words]
  /\ time \in 0..(MaxExecuteTime - 1)
  /\ status \in {"running", "done", "max time", "stray"}
  /\ bus.pc \in 0..InstructionStoreDepth
  /\ time > 0 =>
       /\ bus.aluop \in 0..15 /\ bus.writep \in 0..1 /\ bus.branch \in 0..1
       /\ {bus.src1, bus.src2, bus.dst} \subseteq Register
       /\ bus.branch_addr \in 0..63
       /\ {bus.rf1, bus.rf2, bus.aluout} \subseteq Words

----------------------------------------------------------------------------
(***************************************************************************)
(* Programs, as their listings have them                                   *)
(***************************************************************************)

\* The opcodes that an operation of a listing may have.
Opcodes(op) ==
  CASE op = "+" -> {AluAdd}
    [] op = "~" -> {AluInv}
    [] op = "-" -> {AluSub}
    [] op = "^" -> {AluXor}
    [] op = "|" -> {AluOr}
    [] op = "++" -> {AluIncr}
    [] op = "&" -> {AluAnd}
    [] op = "bnz" -> {OpBnz}
    [] op = ">>" -> {AluSra}
    [] op = ">>>" -> {AluSrl}
    [] op = "<<" -> {AluSla, AluSll}
    [] op = "done" -> {AluDone}

Binary == {"+", "-", "^", "|", "&"}
Unary == {"~", "++", ">>", ">>>", "<<"}

\* The word instr is what the line e of a listing says.
Encodes(instr, e) ==
  /\ e.op \in Binary \cup Unary \cup {"bnz", "done"}
  /\ Opcode(instr) \in Opcodes(e.op)
  /\ e.op # "done" => Src1(instr) = e.a
  /\ e.op \in Binary => Src2(instr) = e.b
  /\ IF e.op \in {"bnz", "done"} THEN WriteFlag(instr) = 0
     ELSE WriteFlag(instr) = 1 /\ Dst(instr) = e.to
  /\ e.op = "bnz" => BranchAddr(instr) = e.to

\* What is loaded is words, and the program is that of the listing.
ASSUME ImageAssumption ==
  \A i \in Image :
    /\ i.registers \in [Register -> Words]
    /\ DOMAIN i.program \subseteq 0..(InstructionStoreDepth - 1)
    /\ DOMAIN i.listing = DOMAIN i.program
    /\ \A a \in DOMAIN i.program :
         i.program[a] \in Nat /\ Encodes(i.program[a], i.listing[a])

Listed ==
  INSTANCE Assembly WITH
    Listings <- {i.listing : i \in Image},
    listing <- loaded.listing,
    register <- rfmem,
    at <- bus.pc,
    done <- status = "done"

\* The units on their buses do to the registers and to the program counter what
\* the listing in the comments of the .ibits files says, one instruction a tick.
ImplementsAssembly == Listed!Spec
=============================================================================
