----------------------------- MODULE Subpython ------------------------------
(***************************************************************************)
(* The Subpython interpreter of lab04 (eval.c and repl.c) on its memory    *)
(* pool.  The interpreter is sequential: a step reads one statement of the *)
(* source and evaluates it, with all the collections that its allocations  *)
(* cause.                                                                  *)
(*                                                                         *)
(* The evaluator runs on a machine m: the pool; vars, the references of    *)
(* the named globals; temps, those of the temporary ones, which are added  *)
(* and removed like a stack; and error, whether error() was called.  An    *)
(* operator of the evaluator gives the machine it leaves and, as ref, its  *)
(* result.                                                                 *)
(***************************************************************************)
EXTENDS Pool

LOCAL INSTANCE Numbers

CONSTANTS
  Name,        \* the names that statements use for variables
  Source,      \* the sources: statements that may be read, memory for the pool
  InitialSize, \* INITIAL_SIZE, the first size of the reference table
  IntLimit     \* an int is from -IntLimit to IntLimit - 1: 2^31 in C

VARIABLES pool, globals, source

vars == <<pool, globals, source>>

\* The singletons, the first three values (eval_init).
NoneRef == 0
TrueRef == 1
FalseRef == 2
BoolRef(b) == IF b THEN TrueRef ELSE FalseRef

InitialPool(memory_size) ==
  FoldLeft(LAMBDA p, v : MmMalloc(p, v, {}), EmptyPool(memory_size, InitialSize),
           <<NoneValue, BoolValue, BoolValue>>)

ASSUME PoolAssumption ==
  /\ InitialSize \in Nat \ {0}
  /\ IntLimit \in Nat \ {0}
  /\ \A s \in Source : s.memory_size \in Nat /\ InitialPool(s.memory_size).fault = "none"

Init ==
  /\ source \in Source
  /\ pool = InitialPool(source.memory_size)
  /\ globals = <<>>

\* The int that the exact result n is kept as.
Wrapped(n) == ((n + IntLimit) % (2 * IntLimit)) - IntLimit

----------------------------------------------------------------------------
(***************************************************************************)
(* Parts of the evaluator that do not evaluate nodes                       *)
(***************************************************************************)
Running(m) == m.pool.fault = "none" /\ ~m.error

Result(m, r) == [m |-> m, ref |-> r]
Error(m) == Result([m EXCEPT !.error = TRUE], NullRef)
Fault(m, f) == Result([m EXCEPT !.pool.fault = f], NullRef)

\* Go on with result r, unless the statement was abandoned.
Then(r, GoOn(_, _)) == IF Running(r.m) THEN GoOn(r.m, r.ref) ELSE r

Type(m, r) == Deref(m.pool, r).type

\* deref asserts that a reference has a value: this is what comes of it.
NoValue(m) == Fault(m, "assertion")

\* The globals, of which the singletons are the first.
Roots(m) == {NoneRef, TrueRef, FalseRef}
            \cup {m.vars[x] : x \in DOMAIN m.vars}
            \cup {m.temps[i] : i \in DOMAIN m.temps}

\* make_reference_*: a new value.
Made(m, p) ==
  Result([m EXCEPT !.pool = p], IF p.fault = "none" THEN Newest(p) ELSE NullRef)

New(m, v) == Made(m, MmMalloc(m.pool, v, Roots(m)))

\* Mutant: the temporary globals are not removed.
UnrootNothing(r, k) == r

\* add_temporary_global and, for the last k of them, remove_temporary_global.
Root(m, r) == [m EXCEPT !.temps = Append(@, r)]
Unroot(r, k) ==
  IF Running(r.m)
  THEN [r EXCEPT !.m.temps = SubSeq(@, 1, Len(@) - k)]
  ELSE r

\* Set the value or the next field of a node.
SetValue(m, node, v) == [m EXCEPT !.pool.mem[m.pool.table[node]].value = v]
SetKey(m, node, k) == [m EXCEPT !.pool.mem[m.pool.table[node]].key = k]
SetNext(m, node, n) == [m EXCEPT !.pool.mem[m.pool.table[node]].next = n]

\* The nodes of a list or a dictionary, from node r on.
RECURSIVE Chain(_, _)
Chain(p, r) == IF r = NullRef THEN <<>>
               ELSE <<r>> \o Chain(p, Deref(p, r).next)

\* The nodes after the dummy node.
Items(m, obj) == Chain(m.pool, Deref(m.pool, obj).next)

\* The code asserts that a list or a dictionary starts with a dummy node.
IsDummy(v) == v.key = NullRef /\ v.value = NullRef

Numeric(v) == v.type \in {"int", "float"}

\* coerce_ref_to_int of idx, and then the position it stands for.  A double that
\* is no int becomes the least one, which no length makes good.
Position(m, obj, idx) ==
  LET v == Deref(m.pool, idx)
      n == Whole(v)
  IN IF Infinite(v) THEN -1 ELSE IF n < 0 THEN n + Len(Items(m, obj)) ELSE n

\* strcmp.
RECURSIVE TextOrder(_, _)
TextOrder(s, t) ==
  IF s = <<>> \/ t = <<>> THEN Len(s) - Len(t)
  ELSE IF Head(s) = Head(t) THEN TextOrder(Tail(s), Tail(t))
  ELSE Head(s) - Head(t)

AsNumber(n) == [num |-> n, den |-> 1]
YesNo(b) == IF b THEN "yes" ELSE "no"

\* Mutant: the end of the right list is not looked at.
AtTheEndLeft(op, l, r) ==
  CASE op = "==" -> l = r
    [] op = "<" -> l = <<>>
    [] op = ">" -> l # <<>>
    [] op = "<=" -> l = <<>>
    [] op = ">=" -> r = <<>>

\* eval_generic_comp_list where one of the lists is at its end.
AtTheEnd(op, l, r) ==
  CASE op = "==" -> l = r
    [] op = "<" -> l = <<>> /\ r # <<>>
    [] op = ">" -> l # <<>>
    [] op = "<=" -> l = <<>>
    [] op = ">=" -> r = <<>>

\* eval_generic_comp for op, inside the comparisons seen.  Numbers compare by
\* their value, other values of two types never do, and two singletons or
\* dictionaries are an error.  Lists are equal if all their items are; in any
\* other comparison the first item that holds decides.  The recursion on a list
\* that contains itself does not end.
RECURSIVE Compare(_, _, _, _, _), CompareItems(_, _, _, _, _)
Compare(p, op, l, r, seen) ==
  LET a == Deref(p, l)
      b == Deref(p, r)
  IN IF ~Valid(p, l) \/ ~Valid(p, r) THEN "assertion"
     ELSE IF <<l, r>> \in seen THEN "stack overflow"
     ELSE IF Numeric(a) /\ Numeric(b) THEN YesNo(Holds(op, a, b))
     ELSE IF a.type # b.type THEN "no"
     ELSE IF a.type = "str"
     THEN YesNo(Holds(op, AsNumber(TextOrder(a.text, b.text)), AsNumber(0)))
     ELSE IF a.type = "list"
     THEN CompareItems(p, op, Chain(p, a.next), Chain(p, b.next), seen \cup {<<l, r>>})
     ELSE "error"

CompareItems(p, op, s, t, seen) ==
  IF s = <<>> \/ t = <<>> THEN YesNo(AtTheEnd(op, s, t))
  ELSE LET first == Compare(p, op, Deref(p, Head(s)).value, Deref(p, Head(t)).value, seen)
       IN IF first = IF op = "==" THEN "yes" ELSE "no"
          THEN CompareItems(p, op, Tail(s), Tail(t), seen) ELSE first

\* What the comparison c makes of the statement, unless it has an outcome.
Failed(m, c) == IF c = "error" THEN Error(m) ELSE Fault(m, c)

----------------------------------------------------------------------------
(***************************************************************************)
(* Lists and dictionaries                                                  *)
(***************************************************************************)

\* Mutant: the dummy node is counted.
FindElemFromDummy(m, list, idx) ==
  IF ~Valid(m.pool, idx) THEN NoValue(m)
  ELSE IF ~Numeric(Deref(m.pool, idx)) \/ Position(m, list, idx) < 0 THEN Error(m)
  ELSE IF ~IsDummy(Deref(m.pool, list)) THEN Fault(m, "assertion")
  ELSE IF Position(m, list, idx) >= Len(Items(m, list)) THEN Error(m)
  ELSE Result(m, (<<list>> \o Items(m, list))[Position(m, list, idx) + 1])

\* list_get_elem at index idx: the node.
FindElem(m, list, idx) ==
  IF ~Valid(m.pool, idx) THEN NoValue(m)
  ELSE IF ~Numeric(Deref(m.pool, idx)) \/ Position(m, list, idx) < 0 THEN Error(m)
  ELSE IF ~IsDummy(Deref(m.pool, list)) THEN Fault(m, "assertion")
  ELSE IF Position(m, list, idx) >= Len(Items(m, list)) THEN Error(m)
  ELSE Result(m, Items(m, list)[Position(m, list, idx) + 1])

\* The comparison of each entry of a dictionary with key, the first one that is
\* not "no" (0 if there is none), and what it is.
Compared(m, dict, key) ==
  [i \in DOMAIN Items(m, dict) |->
     Compare(m.pool, "==", Deref(m.pool, Items(m, dict)[i]).key, key, {})]

Entry(m, dict, key) == SelectInSeq(Compared(m, dict, key), LAMBDA c : c # "no")

Search(m, dict, key) ==
  IF ~IsDummy(Deref(m.pool, dict)) THEN "assertion"
  ELSE IF Entry(m, dict, key) = 0 THEN "no"
  ELSE Compared(m, dict, key)[Entry(m, dict, key)]

\* A new entry after the last node.  The code holds the address of that node
\* over the allocation: when a collection moved it, the link is written where
\* the node was, and the model ends there.
NewEntry(m, dict, key) ==
  LET nodes == <<dict>> \o Items(m, dict)
      prev == nodes[Len(nodes)]
      new == New(m, DictNode(key, NullRef))
  IN IF ~Running(new.m) THEN new
     ELSE IF new.m.pool.table[prev] # m.pool.table[prev]
     THEN Fault(new.m, "stale pointer")
     ELSE Result(SetNext(new.m, prev, new.ref), new.ref)

\* dict_get_entry.
FindEntry(m, dict, key, create) ==
  LET found == Search(m, dict, key)
  IN CASE found = "yes" -> Result(m, Items(m, dict)[Entry(m, dict, key)])
       [] found = "no" -> IF create THEN NewEntry(m, dict, key) ELSE Error(m)
       [] OTHER -> Failed(m, found)

\* Unlink the i-th node after the dummy.
Unlink(m, obj, i) ==
  LET nodes == <<obj>> \o Items(m, obj)
  IN SetNext(m, nodes[i], Deref(m.pool, nodes[i + 1]).next)

\* list_delete_elem and dict_delete_entry.
DeleteElem(m, list, idx) ==
  LET found == FindElem(m, list, idx)
  IN IF ~Running(found.m) THEN found
     ELSE Result(Unlink(m, list, Position(m, list, idx) + 1), NullRef)

DeleteEntry(m, dict, key) ==
  LET found == Search(m, dict, key)
  IN CASE found = "yes" -> Result(Unlink(m, dict, Entry(m, dict, key)), NullRef)
       [] found = "no" -> Error(m)
       [] OTHER -> Failed(m, found)

----------------------------------------------------------------------------
(***************************************************************************)
(* Evaluation.  A node is a record whose form tells its other fields.      *)
(***************************************************************************)

\* What an lvalue points to: a global or the value field of a node.
Variable(x) == [kind |-> "variable", at |-> x]
Field(node) == [kind |-> "field", at |-> node]
Content(m, place) ==
  IF place.kind = "variable" THEN m.vars[place.at]
  ELSE Deref(m.pool, place.at).value
Store(m, place, v) ==
  IF place.kind = "variable" THEN [m EXCEPT !.vars[place.at] = v]
  ELSE SetValue(m, place.at, v)

\* The item of obj for index idx.
Item(m, obj, idx, create) ==
  CASE ~Valid(m.pool, obj) -> NoValue(m)
    [] Type(m, obj) = "list" -> FindElem(m, obj, idx)
    [] Type(m, obj) = "dict" -> FindEntry(m, obj, idx, create)
    [] OTHER -> Error(m)

Truth(m, r) ==
  LET v == Deref(m.pool, r)
  IN CASE v.type = "none" -> FALSE
       [] v.type = "bool" -> r = TrueRef
       [] v.type \in {"int", "float"} -> v.num # 0 \/ v.den = 0
       [] v.type = "str" -> v.text # <<>>
       [] OTHER -> v.next # NullRef

\* Printing dereferences all that a value is made of.
Printable(m, r) == \A q \in Marked(m.pool, {r}) : Valid(m.pool, q)

\* The item of a string: a string of one character.  What lies before the string
\* in the pool is read for an index that is too low; the model ends there.
Character(m, str, idx) ==
  LET text == Deref(m.pool, str).text
      v == Deref(m.pool, idx)
      at == IF Whole(v) < 0 THEN Whole(v) + Len(text) ELSE Whole(v)
  IN CASE ~Valid(m.pool, idx) -> NoValue(m)
       [] ~Numeric(v) -> Error(m)
       [] Infinite(v) \/ at < 0 -> Fault(m, "stray read")
       [] at >= Len(text) -> Error(m)
       [] OTHER -> New(m, StringValue(<<text[at + 1]>>))

\* eval_builtin_len: a string is as long as its data.
Length(m, r) ==
  LET v == Deref(m.pool, r)
  IN CASE ~Valid(m.pool, r) -> NoValue(m)
       [] v.type = "str" -> New(m, IntValue(Wrapped(DataSize(v))))
       [] v.type \in {"list", "dict"} -> New(m, IntValue(Wrapped(Len(Items(m, r)))))
       [] OTHER -> Error(m)

\* The builtin functions.
Call(m, func, args) ==
  CASE func = "gc" /\ args = <<>> ->
         LET p == Collect(m.pool, Roots(m))
         IN Result([m EXCEPT !.pool = p], NoneRef)
    [] func = "mem" /\ args = <<>> -> Result(m, NoneRef)
    [] func = "len" /\ Len(args) = 1 -> Length(m, args[1])
    [] func = "print" ->
         IF \A i \in DOMAIN args : Printable(m, args[i])
         THEN Result(m, NoneRef) ELSE Fault(m, "assertion")
    [] func = "exit" /\ Len(args) <= 1 ->
         IF \A i \in DOMAIN args : Printable(m, args[i])
         THEN Fault(m, "exit") ELSE Fault(m, "assertion")
    [] OTHER -> Error(m)

\* make_reference_string_concat.  The code holds the addresses of both strings
\* over the allocation, and the right one is not a root: when a collection moved
\* or dropped one of them, the characters are read from where it was, and the
\* model ends there.
Concatenated(m, l, r) ==
  LET new == New(m, StringValue(Deref(m.pool, l).text \o Deref(m.pool, r).text))
  IN IF ~Running(new.m) THEN new
     ELSE IF \E q \in {l, r} : new.m.pool.table[q] # m.pool.table[q]
     THEN Fault(new.m, "stale pointer")
     ELSE new

Comparisons == {"==", "<", ">", "<=", ">="}

\* The binary operators on two values.  An int is promoted for a float, and for a
\* division; the remainder of a division of ints by zero stops the process.
Binary(m, op, l, r) ==
  LET a == Deref(m.pool, l)
      b == Deref(m.pool, r)
      c == Compare(m.pool, op, l, r, {})
  IN CASE ~Valid(m.pool, l) \/ ~Valid(m.pool, r) -> NoValue(m)
       [] op \in Comparisons ->
            IF c \in {"yes", "no"} THEN Result(m, BoolRef(c = "yes")) ELSE Failed(m, c)
       [] op = "+" /\ a.type = "str" /\ b.type = "str" -> Concatenated(m, l, r)
       [] ~Numeric(a) \/ ~Numeric(b) -> Error(m)
       [] a.type = "float" \/ b.type = "float" \/ op = "/" ->
            New(m, FloatValue(FloatResult(op, a, b)))
       [] op = "%" /\ b.num = 0 -> Fault(m, "division by zero")
       [] OTHER -> New(m, IntValue(Wrapped(IntResult(op, a.num, b.num))))

\* The unary operators on a value.
Unary(m, op, r) ==
  LET v == Deref(m.pool, r)
  IN CASE ~Valid(m.pool, r) -> NoValue(m)
       [] op = "not" -> Result(m, BoolRef(~Truth(m, r)))
       [] ~Numeric(v) -> Error(m)
       [] op = "+" -> Result(m, r)
       [] v.type = "float" -> New(m, FloatValue(Opposite(v)))
       [] OTHER -> New(m, IntValue(Wrapped(-v.num)))

RECURSIVE Eval(_, _), EvalItems(_, _, _), EvalPairs(_, _, _),
          EvalArgs(_, _, _), Target(_, _, _)

\* eval_expr.  The list or dictionary that is built, the left operand, the
\* index and the arguments are temporary globals while the rest is evaluated.
Eval(e, m) ==
  CASE e.form = "int" -> New(m, IntValue(e.num))
    [] e.form = "float" -> New(m, FloatValue(Fraction(e.num, e.den)))
    [] e.form = "str" -> New(m, StringValue(e.text))
    [] e.form = "singleton" -> Result(m, e.ref)
    [] e.form = "name" ->
         IF e.name \in DOMAIN m.vars THEN Result(m, m.vars[e.name]) ELSE Error(m)
    [] e.form = "list" ->
         Then(New(m, ListNode(NullRef)), LAMBDA m1, l :
           Unroot(Then(EvalItems(e.items, Root(m1, l), l), LAMBDA m2, t :
                    Result(m2, l)), 1))
    [] e.form = "dict" ->
         Then(New(m, DictNode(NullRef, NullRef)), LAMBDA m1, d :
           Unroot(Then(EvalPairs(e.pairs, Root(m1, d), d), LAMBDA m2, t :
                    Result(m2, d)), 1))
    [] e.form \in {"or", "and"} ->
         Then(Eval(e.left, m), LAMBDA m1, l :
           IF ~Valid(m1.pool, l) THEN NoValue(m1)
           ELSE IF Truth(m1, l) = (e.form = "or") THEN Result(m1, l)
           ELSE Eval(e.right, m1))
    [] e.form = "unary" ->
         Then(Eval(e.arg, m), LAMBDA m1, r : Unary(m1, e.op, r))
    [] e.form = "binary" ->
         Then(Eval(e.left, m), LAMBDA m1, l :
           Unroot(Then(Eval(e.right, Root(m1, l)), LAMBDA m2, r :
                    Binary(m2, e.op, l, r)), 1))
    [] e.form = "subscript" ->
         Then(Eval(e.index, m), LAMBDA m1, i :
           Unroot(Then(Eval(e.obj, Root(m1, i)), LAMBDA m2, o :
                    IF Valid(m2.pool, o) /\ Type(m2, o) = "str"
                    THEN Character(m2, o, i)
                    ELSE Then(Item(m2, o, i, FALSE), LAMBDA m3, node :
                           Result(m3, Deref(m3.pool, node).value))), 1))
    [] e.form = "call" ->
         Unroot(Then(EvalArgs(e.args, m, <<>>), LAMBDA m1, args :
                  Call(m1, e.func, args)), Len(e.args))

\* The nodes of a list literal are linked in before their values are evaluated.
EvalItems(items, m, tail) ==
  IF items = <<>> THEN Result(m, tail)
  ELSE Then(New(m, ListNode(NoneRef)), LAMBDA m1, node :
         Then(Eval(Head(items), SetNext(m1, tail, node)), LAMBDA m2, v :
           EvalItems(Tail(items), SetValue(m2, node, v), node)))

\* In a dictionary literal the value is evaluated before the key, and is not a
\* temporary global meanwhile.
EvalPairs(pairs, m, tail) ==
  IF pairs = <<>> THEN Result(m, tail)
  ELSE Then(New(m, DictNode(NoneRef, NoneRef)), LAMBDA m1, node :
         Then(Eval(Head(pairs).value, SetNext(m1, tail, node)), LAMBDA m2, v :
           Then(Eval(Head(pairs).key, m2), LAMBDA m3, k :
             IF ~Valid(m3.pool, k) THEN NoValue(m3)
             ELSE IF Type(m3, k) \in {"list", "dict"} THEN Error(m3)
             ELSE EvalPairs(Tail(pairs), SetValue(SetKey(m3, node, k), node, v),
                            node))))

EvalArgs(args, m, refs) ==
  IF args = <<>> THEN Result(m, refs)
  ELSE Then(Eval(Head(args), m), LAMBDA m1, r :
         EvalArgs(Tail(args), Root(m1, r), Append(refs, r)))

\* eval_expr_lval: the place that e stands for, which is created if it may be.
Target(e, m, create) ==
  CASE e.form = "name" ->
         IF e.name \in DOMAIN m.vars THEN Result(m, Variable(e.name))
         ELSE IF create
         THEN Result([m EXCEPT !.vars = (e.name :> NullRef) @@ @], Variable(e.name))
         ELSE Error(m)
    [] e.form = "subscript" ->
         Then(Eval(e.index, m), LAMBDA m1, i :
           Unroot(Then(Target(e.obj, Root(m1, i), FALSE), LAMBDA m2, place :
                    Then(Item(m2, Content(m2, place), i, create), LAMBDA m3, node :
                      Result(m3, Field(node)))), 1))
    [] OTHER -> Error(m)

\* eval_main for an assignment: the value is evaluated before the target, and
\* is not a temporary global meanwhile.
Assign(s, m) ==
  Then(Eval(s.value, m), LAMBDA m1, v :
    Then(Target(s.target, m1, TRUE), LAMBDA m2, place :
      Result(Store(m2, place, v), NullRef)))

\* eval_del.  The index is not a temporary global while the rest is evaluated.
Delete(s, m) ==
  CASE s.target.form = "name" ->
         LET x == s.target.name
         IN IF x \in DOMAIN m.vars
            THEN Result([m EXCEPT !.vars = [y \in DOMAIN @ \ {x} |-> @[y]]], NullRef)
            ELSE Error(m)
    [] s.target.form = "subscript" ->
         Then(Eval(s.target.index, m), LAMBDA m1, i :
           Then(Target(s.target.obj, m1, FALSE), LAMBDA m2, place :
             LET obj == Content(m2, place)
             IN CASE ~Valid(m2.pool, obj) -> NoValue(m2)
                  [] Type(m2, obj) = "list" -> DeleteElem(m2, obj, i)
                  [] Type(m2, obj) = "dict" -> DeleteEntry(m2, obj, i)
                  [] OTHER -> Error(m2)))
    [] OTHER -> Error(m)

\* An expression as a statement: its value is printed unless it is None.
Evaluate(s, m) ==
  Then(Eval(s.value, m), LAMBDA m1, r :
    IF r = NullRef THEN Error(m1)
    ELSE IF r = NoneRef \/ Printable(m1, r) THEN Result(m1, r)
    ELSE Fault(m1, "assertion"))

RECURSIVE Execute(_, _)

\* eval_main.  The statements of a block, and the turns of a loop, follow each
\* other until one of them is abandoned.
Execute(s, m) ==
  CASE s.form = "assign" -> Assign(s, m)
    [] s.form = "del" -> Delete(s, m)
    [] s.form = "expression" -> Evaluate(s, m)
    [] s.form = "sequence" ->
         IF s.statements = <<>> THEN Result(m, NullRef)
         ELSE Then(Execute(Head(s.statements), m), LAMBDA m1, r :
                Execute([s EXCEPT !.statements = Tail(@)], m1))
    [] s.form = "if" ->
         Then(Eval(s.cond, m), LAMBDA m1, c :
           IF ~Valid(m1.pool, c) THEN NoValue(m1)
           ELSE Execute(IF Truth(m1, c) THEN s.left ELSE s.right, m1))
    [] s.form = "while" ->
         Then(Eval(s.cond, m), LAMBDA m1, c :
           IF ~Valid(m1.pool, c) THEN NoValue(m1)
           ELSE IF Truth(m1, c)
           THEN Then(Execute(s.body, m1), LAMBDA m2, r : Execute(s, m2))
           ELSE Result(m1, NullRef))

\* The machine that a statement leaves when it is read in machine m.
Executed(s, m) == Execute(s, m).m

----------------------------------------------------------------------------
Machine == [pool |-> pool, vars |-> globals, temps |-> <<>>, error |-> FALSE]

\* One turn of read_eval_print_loop: the statement, and after it, also when an
\* error abandoned it, the temporary globals are cleared.
Leaves(m) == pool' = m.pool /\ globals' = m.vars /\ UNCHANGED source
Run(s) == Leaves(Executed(s, Machine))

\* The statements that may be read: none after a fault, which ends the process.
Readable == IF pool.fault = "none" THEN source.statements ELSE {}

Next == \E s \in Readable : Run(s)

Spec == Init /\ [][Next]_vars

\* The programs that never ask the evaluator to hold a new value over another
\* allocation: what is stored in a list or a dictionary has a name, and so has
\* the key or the value of each pair, and the index of what is deleted.
Named(e) == e.form \in {"name", "singleton"}

RECURSIVE CarefulNode(_)
CarefulNode(e) ==
  CASE e.form = "list" -> \A i \in DOMAIN e.items : CarefulNode(e.items[i])
    [] e.form = "dict" ->
         \A i \in DOMAIN e.pairs :
           /\ CarefulNode(e.pairs[i].key) /\ CarefulNode(e.pairs[i].value)
           /\ Named(e.pairs[i].key) \/ Named(e.pairs[i].value)
    [] e.form \in {"or", "and", "binary"} -> CarefulNode(e.left) /\ CarefulNode(e.right)
    [] e.form = "unary" -> CarefulNode(e.arg)
    [] e.form = "subscript" -> CarefulNode(e.index) /\ CarefulNode(e.obj)
    [] e.form = "call" -> \A i \in DOMAIN e.args : CarefulNode(e.args[i])
    [] OTHER -> TRUE

RECURSIVE Careful(_)
Careful(s) ==
  CASE s.form = "expression" -> CarefulNode(s.value)
    [] s.form = "assign" ->
         /\ CarefulNode(s.value) /\ CarefulNode(s.target)
         /\ s.target.form = "name" \/ Named(s.value)
    [] s.form = "del" ->
         /\ CarefulNode(s.target)
         /\ s.target.form = "subscript" =>
              Named(s.target.index) \/ s.target.obj.form = "name"
    [] s.form = "sequence" -> \A i \in DOMAIN s.statements : Careful(s.statements[i])
    [] s.form = "if" -> CarefulNode(s.cond) /\ Careful(s.left) /\ Careful(s.right)
    [] s.form = "while" -> CarefulNode(s.cond) /\ Careful(s.body)

CarefulSpec == Init /\ [][\E s \in Readable : Careful(s) /\ Run(s)]_vars

----------------------------------------------------------------------------
(***************************************************************************)
(* Properties                                                              *)
(***************************************************************************)
Refs == DOMAIN pool.table
RefOrNull == Refs \cup {NullRef}
Blocks == [ref : Refs, type : ValueType, num : Int, den : Nat, text : Seq(Nat),
           key : RefOrNull, value : RefOrNull, next : RefOrNull]

\* The pool and the globals have the types of the code's variables.
TypeOK ==
  /\ DOMAIN pool.mem \subseteq 0..(pool.size - 1)
  /\ \A a \in DOMAIN pool.mem :
       /\ pool.mem[a] \in Blocks
       /\ pool.mem[a].type = "int" => pool.mem[a].num \in (-IntLimit)..(IntLimit - 1)
  /\ pool.free \in 0..pool.size
  /\ pool.size = source.memory_size
  /\ Refs = 0..(Cardinality(Refs) - 1)
  /\ \A r \in Refs : pool.table[r] \in DOMAIN pool.mem \cup {NoAddress}
  /\ pool.count \in 0..(Cardinality(Refs) + 1)
  /\ DOMAIN globals \subseteq Name
  /\ \A x \in DOMAIN globals : globals[x] \in Refs
  /\ source \in Source

\* The pool is sound, whatever statements and collections changed in it
\* (alloc.c:57-61, 407-490).
PoolSound == pool.fault = "none" => Sound(pool)

\* What the globals refer to is whole: a variable, an item or a key is a scalar
\* or the dummy node of a list or a dictionary, and the other nodes are
\* reached along next only, from one node each.  The code asserts it at each
\* use (eval.c:197, 228, 280, 332), and no dereference fails its assertion: "Make
\* sure the reference refers to a valid entry" (alloc.c:265).
StructuresSound ==
  LET used == Marked(pool, Roots(Machine))
      node(r) == Deref(pool, r)
      pair == {"list", "dict"}
      inner(r) == node(r).type \in pair /\ node(r).value # NullRef
      targets == (Roots(Machine) \cup UNION {{node(r).key, node(r).value} : r \in used})
                 \ {NullRef}
  IN /\ pool.fault # "assertion"
     /\ pool.fault = "none" =>
          /\ \A r \in used : Valid(pool, r)
          /\ \A r \in targets : ~inner(r)
          /\ \A r \in used : node(r).next # NullRef =>
               /\ inner(node(r).next)
               /\ node(node(r).next).type = node(r).type
          /\ \A q, r \in used : node(q).next = node(r).next /\ q # r => node(q).next = NullRef

\* "we can always compute the size of a Value by the expression sizeof(Value) +
\* value->data_size" (types.h:94-96): also while the pool is compacted.
SizesReadable == pool.fault # "pool corrupt"

\* num_refs counts the entries of a table of max_refs (alloc.c:57-64): the code
\* never looks for a slot outside of it.
TableCoversRefs == pool.fault # "table overrun"

MirrorOf == [op \in Comparisons |->
  CASE op = "<" -> ">" [] op = ">" -> "<" [] op = "<=" -> ">=" [] op = ">=" -> "<="
    [] OTHER -> op]

\* Of the lists a and b, a comes first in lexicographical order.
Precedes(a, b) ==
  LET values(r) == [n \in DOMAIN Chain(pool, Deref(pool, r).next) |->
                      Deref(pool, Chain(pool, Deref(pool, r).next)[n]).value]
      s == values(a)
      t == values(b)
  IN \E n \in DOMAIN t :
       /\ n <= Len(s) + 1
       /\ \A j \in 1..(n - 1) : Compare(pool, "==", s[j], t[j], {}) = "yes"
       /\ n = Len(s) + 1 \/ Compare(pool, "<", s[n], t[n], {}) = "yes"

\* A comparison and its mirror image have the same outcome, what is equal is at
\* most and at least each other, and of two lists the one that comes first "in
\* accordance to lexicographical sorting" (eval.c:633-634) is less: of all values
\* that variables have, numbers of both kinds with NaN, strings, and lists in
\* lists (eval.c:534-698).  Not only that one is less, against the words of the
\* comment: eval.c:639-646 goes on to later items, so [0, -1] and [-1, 0] are each
\* less than the other one.  The property says nothing of these outcomes.
ComparisonsAgree ==
  pool.fault = "none" =>
    \A a, b \in {globals[x] : x \in DOMAIN globals} :
      LET outcome(op, l, r) == Compare(pool, op, l, r, {})
          lists == Deref(pool, a).type = "list" /\ Deref(pool, b).type = "list"
      IN /\ \A op \in Comparisons : outcome(op, a, b) = outcome(MirrorOf[op], b, a)
         /\ outcome("==", a, b) = "yes" =>
              outcome("<=", a, b) = "yes" /\ outcome(">=", a, b) = "yes"
         /\ lists /\ Precedes(a, b) =>
              outcome("<", a, b) = "yes" /\ outcome("<=", a, b) = "yes"

\* What print shows of a value; MAX_DEPTH levels of it.
MaxDepth == 4

RECURSIVE Shown(_, _, _)
Shown(p, r, depth) ==
  LET v == Deref(p, r)
      inside(q, d) == IF d = 0 THEN <<"...">> ELSE Shown(p, q, d - 1)
      nodes == Chain(p, v.next)
  IN CASE v.type = "none" -> <<"None">>
       [] v.type = "bool" -> <<"bool", r = TrueRef>>
       [] v.type \in {"int", "float"} -> <<v.type, v.num, v.den>>
       [] v.type = "str" -> <<"str", v.text>>
       [] v.type = "list" ->
            <<"list", [i \in DOMAIN nodes |-> inside(Deref(p, nodes[i]).value, depth)]>>
       [] v.type = "dict" ->
            <<"dict", [i \in DOMAIN nodes |->
                         <<Shown(p, Deref(p, nodes[i]).key, 0),
                           inside(Deref(p, nodes[i]).value, depth)>>]>>

Meaning(m) == [x \in DOMAIN m.vars |-> Shown(m.pool, m.vars[x], MaxDepth)]

\* The same machine with so much room that it collects only when asked to.
Plenty == 32
Roomy ==
  LET max == Cardinality(Refs)
  IN [Machine EXCEPT
        !.pool.size = @ + 32 * Plenty,
        !.pool.table = @ @@ [i \in max..(max + Plenty - 1) |-> NoAddress],
        !.pool.count = max + Plenty]

\* The statement gc().
Gc == [form |-> "expression",
       value |-> [form |-> "call", func |-> "gc", args |-> <<>>]]

SameMeaning(m, n) ==
  m.pool.fault = "none" /\ n.pool.fault = "none" =>
    m.error = n.error /\ Meaning(m) = Meaning(n)

\* Programs cannot tell when garbage is collected: gc() leaves every variable
\* as it was, and a statement has the effect that it has in a pool where its
\* allocations collect nothing (alloc.c:148-150, eval.c:693-695, 1309-1311).
CollectionInvisible ==
  pool.fault = "none" =>
    \A s \in {t \in source.statements : Careful(t)} \cup {Gc} :
      SameMeaning(Executed(s, Machine),
                  IF s = Gc THEN Machine ELSE Executed(s, Roomy))

\* The pool of n holds what its globals reach.
Lean(n) ==
  Running(n) => {n.pool.mem[a].ref : a \in DOMAIN n.pool.mem}
                  = Marked(n.pool, Roots([n EXCEPT !.temps = <<>>]))
LeanAfterGc(m) == Running(m) => Lean(Executed(Gc, m))

\* gc() keeps nothing that the globals do not reach, and the statement before
\* it left no temporary global behind that would keep more (eval.c:1576-1582).
GarbageReclaimed ==
  pool.fault = "none" =>
    \A s \in {t \in source.statements : Careful(t)} : LeanAfterGc(Executed(s, Machine))
=============================================================================
