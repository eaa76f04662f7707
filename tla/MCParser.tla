------------------------------ MODULE MCParser ------------------------------
(* Instances of Parser for TLC. *)
EXTENDS Parser

Marks(kinds) == {Mark(k) : k \in kinds}
Ident(name, length) == Lexeme("IDENT", name, length)
x == Ident("x", 1)

Column(n) == [i \in 1..n |-> "space"]

\* Blocks in blocks, deeper than there is room for.
Nesting ==
  [lexemes |-> {x} \cup Marks({"WHILE", "COLON"}),
   blanks |-> {Column(0), Column(1), Column(2), <<"space", "tab">>, <<"tab", "space">>},
   lines |-> 5, length |-> 3]

\* The parts of an if statement, each with a block.
Branching ==
  [lexemes |-> {x} \cup Marks({"IF", "ELIF", "ELSE", "COLON"}),
   blanks |-> {Column(0), Column(1)}, lines |-> 5, length |-> 3]

\* Blocks in the line of their statement.
Suites ==
  [lexemes |-> {x} \cup Marks({"IF", "ELSE", "WHILE", "COLON", "SEMICOLON"}),
   blanks |-> {Column(0), Column(1)}, lines |-> 3, length |-> 4]

\* Expressions and simple statements.
Operations ==
  [lexemes |-> {x} \cup
     Marks({"OR", "AND", "NOT", "LT", "PLUS", "MINUS", "ASTERISK", "ASSIGN", "DEL",
            "SEMICOLON"}),
   blanks |-> {Column(0)}, lines |-> 1, length |-> 5]

\* Brackets of all kinds.
Brackets ==
  [lexemes |-> {x} \cup
     Marks({"LPAREN", "RPAREN", "LBRACKET", "RBRACKET", "LBRACE", "RBRACE", "COMMA", "COLON"}),
   blanks |-> {Column(0)}, lines |-> 1, length |-> 5]

\* Names and strings, some longer than a page of the tree pool.
Names ==
  [lexemes |-> {x, Ident("a_long_name", 70), Lexeme("STRING", "a_string", 9)} \cup
     Marks({"SEMICOLON", "TRUE"}),
   blanks |-> {Column(0)}, lines |-> 1, length |-> 5]

\* More signs than the stack of the parser has room for.
Signs ==
  [lexemes |-> Marks({"MINUS"}), blanks |-> {Column(0)}, lines |-> 1, length |-> 25]

MCInputs == {Nesting, Branching, Suites, Operations, Brackets, Names, Signs}

----------------------------------------------------------------------------
LOCAL INSTANCE Reading

\* The lines of the text with their levels.
Lines == [i \in DOMAIN text |-> [level |-> Level(text[i].blanks),
                                lexemes |-> text[i].lexemes, end |-> text[i].end]]

Read(lines) == IF interactive THEN ReadTyped(lines) ELSE ReadFile(lines)
Program(lines) == Read(lines).result # 1
AllPassedOn == text # <<>> /\ Last(text).lexemes # <<>>
MayBeProgram == \E lines \in Completions(Lines, interactive) : Program(lines)

\* A text is accepted exactly if it is a program, as the one that it is: blocks
\* by their indentation, operators by how they bind, and every name and string
\* as it was typed, although the parser keeps only its address until the node is
\* made (grammar.l.c:1196-1208, grammar.y.c:1937, 1979).  Where a text is rejected
\* before its end, no program begins as it does, and the parser has gone on only
\* as long as one does.
ParsesAsWritten ==
  /\ result \in {0, 3} => [result |-> result, tree |-> tree] = Read(Lines)
  /\ result = 1 => tree = NULL /\ ~MayBeProgram
  /\ Running /\ token = NoToken /\ AllPassedOn => MayBeProgram
=============================================================================
