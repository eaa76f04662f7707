---------------------------- MODULE MCSubpython -----------------------------
(* Instances of Subpython for TLC. *)
EXTENDS Subpython

Num(n) == [form |-> "int", num |-> n]
Var(x) == [form |-> "name", name |-> x]
None == [form |-> "singleton", ref |-> NoneRef]
List(items) == [form |-> "list", items |-> items]
Dict(k, v) == [form |-> "dict", pairs |-> <<[key |-> k, value |-> v]>>]
Item_(o, i) == [form |-> "subscript", obj |-> o, index |-> i]
Binary_(l, op, r) == [form |-> "binary", op |-> op, left |-> l, right |-> r]
Unary_(op, e) == [form |-> "unary", op |-> op, arg |-> e]
Plus(l, r) == Binary_(l, "+", r)
Equals(l, r) == Binary_(l, "==", r)
Or(l, r) == [form |-> "or", left |-> l, right |-> r]
And(l, r) == [form |-> "and", left |-> l, right |-> r]
Text(t) == [form |-> "str", text |-> t]
Func(f, args) == [form |-> "call", func |-> f, args |-> args]

Set(t, v) == [form |-> "assign", target |-> t, value |-> v]
Del(t) == [form |-> "del", target |-> t]
Do(e) == [form |-> "expression", value |-> e]
Block(s) == [form |-> "sequence", statements |-> s]
If(c, s, t) == [form |-> "if", cond |-> c, left |-> s, right |-> t]
While(c, s) == [form |-> "while", cond |-> c, body |-> s]

x == Var("x")
y == Var("y")
k == Var("k")

\* Lists that are shared, contain each other and lose their items; indexes from
\* the end and beyond it.
ListProgram ==
  {Set(k, Num(0)), Set(k, Plus(k, Num(-1))),
   Set(x, List(<<k, y>>)), Set(y, List(<<Num(-1)>>)),
   Set(x, y), Set(y, Item_(x, k)), Do(Or(x, y)),
   Set(Item_(x, k), y), Set(Item_(x, Num(0)), x),
   Del(x), Del(y), Del(Item_(x, k)), Del(Item_(Item_(x, Num(0)), k)),
   Do(Func("gc", <<>>)), Do(Func("len", <<x>>)), Do(Func("print", <<x, y>>)),
   Do(Equals(x, y))}

\* Numbers of both kinds with infinities and NaN, and lists of them.
NumberProgram ==
  {Set(k, Num(0)), Set(k, Plus(k, Num(-1))), Set(y, Binary_(k, "/", k)),
   Set(y, Binary_(k, "/", Plus(k, Num(-1)))), Set(y, Unary_("-", y)),
   Set(x, List(<<k, y>>)), Set(x, List(<<y, k>>)), Set(y, x),
   Do(Binary_(y, "%", k)), Do(Binary_(k, "*", y)), Do(Binary_(x, "-", Unary_("+", y))),
   Do(Binary_(x, "<", y)), Do(Item_(x, y)), Do(Unary_("not", x)),
   While(k, Set(k, Plus(k, Num(-1))))}

\* Strings that grow and are taken apart, in branches and loops.  They are long,
\* so that few of them fit.
Long == Text([i \in 1..20 |-> IF i = 1 THEN 2 ELSE 1])

TextProgram ==
  {Set(x, Long), Set(y, Item_(x, k)), Set(x, Plus(y, x)), Set(k, Num(-1)),
   Set(y, Dict(x, k)), Do(Func("mem", <<>>)), Do(Func("exit", <<y>>)),
   While(And(y, Equals(Item_(y, x), k)), Block(<<Del(Item_(y, x)), Do(Func("len", <<x>>))>>)),
   If(Binary_(x, ">=", y), Del(y), Block(<<>>))}

\* Lists and dictionaries that share their items and become garbage.
SharingProgram ==
  {Set(k, Num(0)), Set(k, Plus(k, Num(-1))), Set(k, None),
   Set(x, List(<<k, y>>)), Set(y, List(<<Num(-1)>>)), Set(x, Dict(k, None)),
   Set(x, y), Set(y, Item_(x, k)), Set(Item_(x, k), y),
   Del(x), Del(Item_(x, k)), Do(Func("gc", <<>>)), Do(Func("print", <<x, y>>)), Do(Equals(x, y))}

\* Any two of some lists, in a pool with room for both: they differ in one item or
\* two, have ints, floats, NaN or lists as items, and one begins another.
Divided(l, r) == Binary_(Num(l), "/", Num(r))
Listed ==
  <<List(<<Num(0), Num(-1)>>), List(<<Num(-1), Num(0)>>), List(<<Num(-1)>>),
    List(<<Divided(0, 0), Num(0)>>), List(<<Divided(0, -1), Num(0)>>),
    List(<<List(<<Num(-1)>>), Num(0)>>)>>
OrderProgram ==
  UNION {{Block(<<Set(x, None), Set(y, None), Do(Func("gc", <<>>)),
                  Set(x, Listed[i]), Set(y, Listed[j]), Do(Binary_(x, "<", y))>>) :
            j \in 1..i} : i \in DOMAIN Listed}

Small(statements) == [statements |-> statements, memory_size |-> 144]
Large(statements) == [statements |-> statements, memory_size |-> 512]
MainSource ==
  {Small(ListProgram), Small(SharingProgram), Small(NumberProgram), Small(TextProgram),
   Large(OrderProgram)}

AllocatingSource ==
  {[statements |-> ListProgram \cup SharingProgram, memory_size |-> 136]}
=============================================================================
