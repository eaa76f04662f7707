------------------------------ MODULE Grammar -------------------------------
(***************************************************************************)
(* The grammar of Subpython (lab04): the productions of grammar.y.c with   *)
(* what is done when one is reduced, and the automaton that its tables     *)
(* encode.  A state of the automaton is its kernel, a set of items: an     *)
(* item <<r, d>> is rule r with the symbols up to d behind it.             *)
(***************************************************************************)
EXTENDS Integers, Sequences, FiniteSets, SequencesExt

\* What a reduction makes of the values of the right side, which parts names by
\* their position: one of them, nothing, a node, a new list of them, the first
\* one with the second at its end; or the end of the parse.
Action(do, node, content, parts) ==
  [do |-> do, node |-> node, text |-> content, parts |-> parts]
Take(i) == Action("take", "", "", <<i>>)
Nothing == Action("nothing", "", "", <<>>)
Node(node, parts) == Action("node", node, "", parts)
Builtin(op, parts) == Action("node", "EXPR_BUILTIN", op, parts)
Singleton(s) == Action("node", "EXPR_LITERAL_SINGLETON", s, <<>>)
Collect(parts) == Action("list", "NodeList", "", parts)
Extend(i, j) == Action("extend", "", "", <<i, j>>)
Accept(parts) == Action("accept", "", "", parts)
Quit == Action("quit", "", "", <<>>)

Rule(left, right, action) == [left |-> left, right |-> right, action |-> action]
Unit(left, symbol) == Rule(left, <<symbol>>, Take(1))

\* Mutant: an operator does not chain with others of its kind.
InfixOnce(left, first, operator, last, op) ==
  Rule(left, <<last, operator, last>>, Builtin(op, <<1, 3>>))

Infix(left, first, operator, last, op) ==
  Rule(left, <<first, operator, last>>, Builtin(op, <<1, 3>>))

InputRules == <<
  Rule("input", <<"START_SINGLE", "single_input">>, Accept(<<2>>)),
  Rule("input", <<"START_FILE", "INPUT_END">>, Accept(<<>>)),
  Rule("input", <<"START_FILE", "statement_seq", "INPUT_END">>, Accept(<<2>>)),
  Rule("single_input", <<"LINE_END">>, Nothing),
  Rule("single_input", <<"INPUT_END">>, Quit),
  Unit("single_input", "simple_statement"),
  Rule("single_input", <<"compound_statement", "LINE_END">>, Take(1)) >>

StatementRules == <<
  Rule("statement_seq", <<"statement_seq_list">>, Node("STMT_SEQUENCE", <<1>>)),
  Rule("statement_seq_list", <<"statement">>, Collect(<<1>>)),
  Rule("statement_seq_list", <<"statement_seq_list", "statement">>, Extend(1, 2)),
  Unit("statement", "simple_statement"),
  Unit("statement", "compound_statement"),
  Rule("simple_statement", <<"simple_statement_list", "LINE_END">>,
       Node("STMT_SEQUENCE", <<1>>)),
  Rule("simple_statement", <<"simple_statement_list", "SEMICOLON", "LINE_END">>,
       Node("STMT_SEQUENCE", <<1>>)),
  Rule("simple_statement_list", <<"small_statement">>, Collect(<<1>>)),
  Rule("simple_statement_list",
       <<"simple_statement_list", "SEMICOLON", "small_statement">>, Extend(1, 3)),
  Unit("small_statement", "expr_statement"),
  Unit("small_statement", "delete_statement"),
  Unit("compound_statement", "if_statement"),
  Unit("compound_statement", "while_statement"),
  Unit("suite", "simple_statement"),
  Rule("suite", <<"LINE_END", "INDENT", "statement_seq", "DEDENT">>, Take(3)),
  Unit("expr_statement", "or_test"),
  Rule("expr_statement", <<"or_test", "ASSIGN", "or_test">>,
       Node("STMT_ASSIGN", <<1, 3>>)),
  Rule("delete_statement", <<"DEL", "or_test">>, Node("STMT_DEL", <<2>>)),
  Rule("if_statement", <<"IF", "or_test", "COLON", "suite", "elif_statement">>,
       Node("STMT_IF", <<2, 4, 5>>)),
  Rule("elif_statement", <<"ELIF", "or_test", "COLON", "suite", "elif_statement">>,
       Node("STMT_IF", <<2, 4, 5>>)),
  Rule("elif_statement", <<"ELSE", "COLON", "suite">>, Take(3)),
  Rule("elif_statement", <<>>, Nothing),
  Rule("while_statement", <<"WHILE", "or_test", "COLON", "suite">>,
       Node("STMT_WHILE", <<2, 4>>)) >>

ExpressionRules == <<
  Unit("or_test", "and_test"),
  Infix("or_test", "or_test", "OR", "and_test", "OP_OR"),
  Unit("and_test", "not_test"),
  Infix("and_test", "and_test", "AND", "not_test", "OP_AND"),
  Unit("not_test", "comparison"),
  Rule("not_test", <<"NOT", "not_test">>, Builtin("UOP_NOT", <<2>>)),
  Unit("comparison", "expr_arith"),
  Infix("comparison", "expr_arith", "EQUALS", "expr_arith", "COMP_EQUALS"),
  Infix("comparison", "expr_arith", "LT", "expr_arith", "COMP_LT"),
  Infix("comparison", "expr_arith", "GT", "expr_arith", "COMP_GT"),
  Infix("comparison", "expr_arith", "LE", "expr_arith", "COMP_LE"),
  Infix("comparison", "expr_arith", "GE", "expr_arith", "COMP_GE"),
  Unit("expr_arith", "expr_term"),
  Infix("expr_arith", "expr_arith", "PLUS", "expr_term", "OP_ADD"),
  Infix("expr_arith", "expr_arith", "MINUS", "expr_term", "OP_SUBTRACT"),
  Unit("expr_term", "expr_factor"),
  Infix("expr_term", "expr_term", "ASTERISK", "expr_factor", "OP_MULTIPLY"),
  Infix("expr_term", "expr_term", "FSLASH", "expr_factor", "OP_DIVIDE"),
  Infix("expr_term", "expr_term", "PERCENT", "expr_factor", "OP_MODULO"),
  Unit("expr_factor", "expr_atom"),
  Rule("expr_factor", <<"PLUS", "expr_factor">>, Builtin("UOP_IDENTITY", <<2>>)),
  Rule("expr_factor", <<"MINUS", "expr_factor">>, Builtin("UOP_NEGATE", <<2>>)) >>

AtomRules == <<
  Unit("expr_atom", "atom"),
  Rule("expr_atom", <<"expr_atom", "LPAREN", "RPAREN">>, Node("EXPR_CALL", <<1>>)),
  Rule("expr_atom", <<"expr_atom", "LPAREN", "arguments", "RPAREN">>,
       Node("EXPR_CALL", <<1, 3>>)),
  Rule("expr_atom", <<"expr_atom", "LBRACKET", "or_test", "RBRACKET">>,
       Node("EXPR_SUBSCRIPT", <<1, 3>>)),
  Rule("atom", <<"IDENT">>, Node("EXPR_IDENTIFIER", <<>>)),
  Unit("atom", "literal"),
  Rule("atom", <<"LPAREN", "or_test", "RPAREN">>, Take(2)),
  Rule("arguments", <<"or_test">>, Collect(<<1>>)),
  Rule("arguments", <<"arguments", "COMMA", "or_test">>, Extend(1, 3)),
  Rule("pair_arguments", <<"pair">>, Collect(<<1>>)),
  Rule("pair_arguments", <<"pair_arguments", "COMMA", "pair">>, Extend(1, 3)),
  Rule("pair", <<"or_test", "COLON", "or_test">>, Node("EXPR_LITERAL_PAIR", <<1, 3>>)),
  Rule("literal", <<"STRING">>, Node("EXPR_LITERAL_STRING", <<>>)),
  Rule("literal", <<"INTEGER">>, Node("EXPR_LITERAL_INTEGER", <<>>)),
  Rule("literal", <<"FLOAT">>, Node("EXPR_LITERAL_FLOAT", <<>>)),
  Rule("literal", <<"NONE">>, Singleton("S_NONE")),
  Rule("literal", <<"TRUE">>, Singleton("S_TRUE")),
  Rule("literal", <<"FALSE">>, Singleton("S_FALSE")),
  Rule("literal", <<"literal_list">>, Node("EXPR_LITERAL_LIST", <<1>>)),
  Rule("literal", <<"literal_dict">>, Node("EXPR_LITERAL_DICT", <<1>>)),
  Rule("literal_list", <<"LBRACKET", "RBRACKET">>, Collect(<<>>)),
  Rule("literal_list", <<"LBRACKET", "arguments", "RBRACKET">>, Take(2)),
  Rule("literal_dict", <<"LBRACE", "RBRACE">>, Collect(<<>>)),
  Rule("literal_dict", <<"LBRACE", "pair_arguments", "RBRACE">>, Take(2)) >>

Rules == InputRules \o StatementRules \o ExpressionRules \o AtomRules

----------------------------------------------------------------------------
(***************************************************************************)
(* The automaton                                                           *)
(***************************************************************************)
\* Pairs <<a, b>>: what stands for symbol a may start with symbol b.
FirstSymbols ==
  {<<Rules[r].left, Head(Rules[r].right)>> : r \in {q \in DOMAIN Rules : Rules[q].right # <<>>}}

Nonterminals == {Rules[r].left : r \in DOMAIN Rules}

Starts ==
  LET reached[i \in 0..Cardinality(Nonterminals)] ==
        IF i = 0 THEN {<<a, a>> : a \in Nonterminals}
        ELSE LET before == reached[i - 1]
             IN before \cup UNION {{<<p[1], q[2]>> : q \in {f \in FirstSymbols : f[1] = p[2]}} :
                                   p \in before}
  IN reached[Cardinality(Nonterminals)]

\* The symbol after the dot of an item, if there is one.
NextSymbol(item) ==
  LET right == Rules[item[1]].right
  IN IF item[2] < Len(right) THEN {right[item[2] + 1]} ELSE {}

\* What a state needs to know of the symbols after its dots: where the rules start
\* that such a symbol may start with.
Expansion ==
  [a \in Nonterminals |->
     {<<r, 0>> : r \in {q \in DOMAIN Rules : <<a, Rules[q].left>> \in Starts}}]

\* The items of a state.
Items(kernel) ==
  kernel \cup UNION {Expansion[a] : a \in Nonterminals \cap UNION {NextSymbol(i) : i \in kernel}}

\* Where symbol leads from a state: the empty set if it is no part of a program
\* there (yytable, yypgoto).
Goto(kernel, symbol) ==
  {<<item[1], item[2] + 1>> : item \in {i \in Items(kernel) : symbol \in NextSymbol(i)}}

\* The rules whose right side is complete in a state: one at most.
Complete(kernel) ==
  {item[1] : item \in {i \in Items(kernel) : NextSymbol(i) = {}}}

\* Mutant: a token is asked for in every state.
DecidedNever(kernel) == FALSE

\* A state with nothing but a complete rule reduces it without asking for a
\* token (yydefault); in other states the rule is for all tokens that do not
\* lead on.
Decided(kernel) == Complete(kernel) # {} /\ Cardinality(Items(kernel)) = 1

START == {<<r, 0>> : r \in {q \in DOMAIN Rules : Rules[q].left = "input"}}
=============================================================================
