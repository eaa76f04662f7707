------------------------------ MODULE Reading -------------------------------
(***************************************************************************)
(* What Subpython (lab04) should read in a text: a definition that knows   *)
(* nothing of tokens for blocks, of states or of a stack.  A block is the  *)
(* lines that are deeper than the one before it, and an expression is      *)
(* split at its last operator that binds least.                            *)
(***************************************************************************)
EXTENDS Integers, Sequences, FiniteSets, SequencesExt

LOCAL Leaf(node, content) == [node |-> node, text |-> content, children |-> <<>>]
LOCAL Absent == Leaf("NULL", "")

\* What is no program has no reading, nor has anything with it as a part.
NoReading == Leaf("none", "")
LOCAL Built(node, content, children) ==
  IF NoReading \in ToSet(children) THEN NoReading
  ELSE [node |-> node, text |-> content, children |-> children]
LOCAL Branch(node, children) == Built(node, "", children)
LOCAL ListOf(nodes) == Branch("NodeList", nodes)

----------------------------------------------------------------------------
(***************************************************************************)
(* Lexemes                                                                 *)
(***************************************************************************)
LOCAL ClosingOf == [LPAREN |-> "RPAREN", LBRACKET |-> "RBRACKET", LBRACE |-> "RBRACE"]
LOCAL Opening == DOMAIN ClosingOf
LOCAL Closing == {ClosingOf[o] : o \in Opening}

LOCAL Is(s, i, kinds) == i \in DOMAIN s /\ s[i].token \in kinds
LOCAL Count(s, i, kinds) == Cardinality({j \in 1..i : s[j].token \in kinds})
LOCAL Before(s, i) == SubSeq(s, 1, i - 1)
LOCAL Behind(s, i) == SubSeq(s, i + 1, Len(s))
LOCAL Inside(s, i, j) == SubSeq(s, i + 1, j - 1)

\* The places of some lexemes outside of all brackets.
LOCAL Places(s, kinds) ==
  {i \in DOMAIN s : /\ s[i].token \in kinds
                    /\ Count(s, i - 1, Opening) = Count(s, i - 1, Closing)}
LOCAL FirstOf(S) == CHOOSE i \in S : \A j \in S : i <= j
LOCAL LastOf(S) == CHOOSE i \in S : \A j \in S : j <= i

\* The pieces of s between separators.
LOCAL CutAt(s, cuts) == [i \in 1..(Len(cuts) - 1) |-> Inside(s, cuts[i], cuts[i + 1])]
LOCAL Pieces(s, separator) ==
  CutAt(s, SetToSortSeq(Places(s, {separator}) \cup {0, Len(s) + 1}, LAMBDA i, j : i < j))

----------------------------------------------------------------------------
(***************************************************************************)
(* Expressions                                                             *)
(***************************************************************************)
LOCAL Operators == <<
  [OR |-> "OP_OR"],
  [AND |-> "OP_AND"],
  [NOT |-> "UOP_NOT"],
  [EQUALS |-> "COMP_EQUALS", LT |-> "COMP_LT", GT |-> "COMP_GT", LE |-> "COMP_LE",
   GE |-> "COMP_GE"],
  [PLUS |-> "OP_ADD", MINUS |-> "OP_SUBTRACT"],
  [ASTERISK |-> "OP_MULTIPLY", FSLASH |-> "OP_DIVIDE", PERCENT |-> "OP_MODULO"],
  [PLUS |-> "UOP_IDENTITY", MINUS |-> "UOP_NEGATE"] >>
LOCAL Prefix == {3, 7}
LOCAL Comparing == 4
LOCAL Closest == Len(Operators) + 1

LOCAL Operand == {"IDENT", "STRING", "INTEGER", "FLOAT", "NONE", "TRUE", "FALSE"} \cup Closing

\* The operators of a level that stand between two operands.
LOCAL Splits(s, level) ==
  {i \in Places(s, DOMAIN Operators[level]) : Is(s, i - 1, Operand)}

LOCAL Literals ==
  [IDENT |-> "EXPR_IDENTIFIER", STRING |-> "EXPR_LITERAL_STRING",
   INTEGER |-> "EXPR_LITERAL_INTEGER", FLOAT |-> "EXPR_LITERAL_FLOAT"]
LOCAL Singletons == [NONE |-> "S_NONE", TRUE |-> "S_TRUE", FALSE |-> "S_FALSE"]
LOCAL Single(lexeme) ==
  CASE lexeme.token \in DOMAIN Literals -> Leaf(Literals[lexeme.token], lexeme.text)
    [] lexeme.token \in DOMAIN Singletons ->
         Leaf("EXPR_LITERAL_SINGLETON", Singletons[lexeme.token])
    [] OTHER -> NoReading

\* s as an expression whose operators bind as those of the level or more.
RECURSIVE Expression(_, _)

LOCAL Sides(s, i, left, right) == <<Expression(Before(s, i), left), Expression(Behind(s, i), right)>>

LOCAL Pair(s) ==
  IF Cardinality(Places(s, {"COLON"})) # 1 THEN NoReading
  ELSE Branch("EXPR_LITERAL_PAIR", Sides(s, FirstOf(Places(s, {"COLON"})), 1, 1))

\* What stands between commas: all of it expressions, or all of it pairs.
LOCAL Item(s, pairs) == IF pairs THEN Pair(s) ELSE Expression(s, 1)
LOCAL ItemsOf(pieces, pairs) == ListOf([i \in DOMAIN pieces |-> Item(pieces[i], pairs)])
LOCAL Listing(s, pairs) ==
  IF s = <<>> THEN ListOf(<<>>) ELSE ItemsOf(Pieces(s, "COMMA"), pairs)

\* What a pair of brackets at the end of an expression makes of what is inside
\* of it and of what stands before it.
LOCAL Bracketed(open, before, inner) ==
  CASE open = "LPAREN" /\ before = <<>> -> Expression(inner, 1)
    [] open = "LBRACKET" /\ before = <<>> ->
         Branch("EXPR_LITERAL_LIST", <<Listing(inner, FALSE)>>)
    [] open = "LBRACE" /\ before = <<>> ->
         Branch("EXPR_LITERAL_DICT", <<Listing(inner, TRUE)>>)
    [] open = "LPAREN" /\ before # <<>> ->
         Branch("EXPR_CALL", <<Expression(before, Closest)>> \o
                             (IF inner = <<>> THEN <<>> ELSE <<Listing(inner, FALSE)>>))
    [] open = "LBRACKET" /\ before # <<>> ->
         Branch("EXPR_SUBSCRIPT", <<Expression(before, Closest), Expression(inner, 1)>>)
    [] open = "LBRACE" /\ before # <<>> -> NoReading

LOCAL ClosedFrom(s, i) ==
  IF Last(s).token = ClosingOf[s[i].token]
  THEN Bracketed(s[i].token, Before(s, i), Inside(s, i, Len(s))) ELSE NoReading
LOCAL Closed(s) ==
  IF Places(s, Opening) = {} THEN NoReading ELSE ClosedFrom(s, LastOf(Places(s, Opening)))

LOCAL Split(s, i, level) ==
  Built("EXPR_BUILTIN", Operators[level][s[i].token],
        Sides(s, i, IF level = Comparing THEN level + 1 ELSE level, level + 1))

Expression(s, level) ==
  CASE s = <<>> -> NoReading
    [] s # <<>> /\ level = Closest -> IF Len(s) = 1 THEN Single(s[1]) ELSE Closed(s)
    [] s # <<>> /\ level \in Prefix ->
         IF Is(s, 1, DOMAIN Operators[level])
         THEN Built("EXPR_BUILTIN", Operators[level][s[1].token], <<Expression(Tail(s), level)>>)
         ELSE Expression(s, level + 1)
    [] s # <<>> /\ level \notin Prefix \cup {Closest} ->
         IF Splits(s, level) = {} THEN Expression(s, level + 1)
         ELSE Split(s, LastOf(Splits(s, level)), level)

----------------------------------------------------------------------------
(***************************************************************************)
(* Statements: sequences of lines, each with its level                     *)
(***************************************************************************)
LOCAL Small(s) ==
  CASE Is(s, 1, {"DEL"}) -> Branch("STMT_DEL", <<Expression(Tail(s), 1)>>)
    [] ~Is(s, 1, {"DEL"}) /\ Places(s, {"ASSIGN"}) = {} -> Expression(s, 1)
    [] ~Is(s, 1, {"DEL"}) /\ Places(s, {"ASSIGN"}) # {} ->
         Branch("STMT_ASSIGN", Sides(s, FirstOf(Places(s, {"ASSIGN"})), 1, 1))

\* The statements of one line; a semicolon may end it.
LOCAL Smalls(pieces) ==
  Branch("STMT_SEQUENCE", <<ListOf([i \in DOMAIN pieces |-> Small(pieces[i])])>>)
LOCAL Simple(s) ==
  Smalls(Pieces(IF Len(s) > 1 /\ Is(s, Len(s), {"SEMICOLON"}) THEN Front(s) ELSE s, "SEMICOLON"))

\* How many lines after the first one are deeper, and the lines after them.
LOCAL Deeper(lines) ==
  FirstOf({i \in 2..Len(lines) : lines[i].level <= lines[1].level} \cup {Len(lines) + 1}) - 2
LOCAL After(lines) == SubSeq(lines, Deeper(lines) + 2, Len(lines))

\* The readings of lines, all of one level.
RECURSIVE Statements(_, _)

LOCAL Block(lines) ==
  IF lines = <<>> THEN NoReading
  ELSE Branch("STMT_SEQUENCE", <<ListOf(Statements(lines, lines[1].level))>>)

\* What a statement governs: the rest of its line, or the block below it.
LOCAL SuiteOf(rest, block) ==
  CASE rest = <<>> -> Block(block)
    [] rest # <<>> /\ block = <<>> -> Simple(rest)
    [] rest # <<>> /\ block # <<>> -> NoReading

\* The condition of a statement, whose colon is at i, and what it governs.
LOCAL Governed(s, i, block) == <<Expression(Inside(s, 1, i), 1), SuiteOf(Behind(s, i), block)>>
LOCAL Parts(s, block) ==
  IF Places(s, {"COLON"}) = {} THEN <<NoReading>>
  ELSE Governed(s, FirstOf(Places(s, {"COLON"})), block)

\* The first statement of lines and the lines after it; others is what an if
\* statement goes on with.
RECURSIVE Compound(_)

LOCAL Goes(lines, rest) ==
  /\ Is(lines[1].lexemes, 1, {"IF", "ELIF"})
  /\ rest # <<>> /\ rest[1].level = lines[1].level /\ Is(rest[1].lexemes, 1, {"ELIF", "ELSE"})
LOCAL Others(lines, rest) ==
  IF Goes(lines, rest) THEN Compound(rest) ELSE [node |-> Absent, rest |-> rest]

LOCAL Whole(s, block, others) ==
  [rest |-> others.rest,
   node |-> CASE s[1].token = "ELSE" ->
                   IF Is(s, 2, {"COLON"}) THEN SuiteOf(Behind(s, 2), block) ELSE NoReading
              [] s[1].token = "WHILE" -> Branch("STMT_WHILE", Parts(s, block))
              [] s[1].token \in {"IF", "ELIF"} ->
                   Branch("STMT_IF", Parts(s, block) \o <<others.node>>)]

Compound(lines) ==
  Whole(lines[1].lexemes, SubSeq(lines, 2, Deeper(lines) + 1), Others(lines, After(lines)))

LOCAL IsCompound(line) == Is(line.lexemes, 1, {"IF", "WHILE"})
LOCAL Followed(first, level) == <<first.node>> \o Statements(first.rest, level)

Statements(lines, level) ==
  CASE lines = <<>> -> <<>>
    [] lines # <<>> /\ lines[1].level # level -> <<NoReading>>
    [] lines # <<>> /\ lines[1].level = level ->
         Followed(IF IsCompound(lines[1]) THEN Compound(lines)
                  ELSE [node |-> Simple(lines[1].lexemes), rest |-> Tail(lines)], level)

----------------------------------------------------------------------------
(***************************************************************************)
(* Inputs                                                                  *)
(***************************************************************************)
LOCAL Outcome(status, node) ==
  IF node = NoReading THEN [result |-> 1, tree |-> Absent] ELSE [result |-> status, tree |-> node]

LOCAL Whitespace(line, end) == line.lexemes = <<>> /\ line.level = 0 /\ line.end = end

\* A file: nothing, or statements in lines that all have an end.
ReadFile(lines) ==
  Outcome(0, CASE ~Whitespace(Last(lines), "INPUT_END") -> NoReading
               [] Whitespace(Last(lines), "INPUT_END") /\ Len(lines) = 1 -> Absent
               [] Whitespace(Last(lines), "INPUT_END") /\ Len(lines) > 1 ->
                    Branch("STMT_SEQUENCE", <<ListOf(Statements(Front(lines), 0))>>))

\* A line that is typed: nothing, the end of all, or simple statements.
LOCAL ReadLine(line) ==
  CASE Whitespace(line, "LINE_END") -> Outcome(0, Absent)
    [] line.end = "INPUT_END" -> Outcome(3, Absent)
    [] line.lexemes # <<>> /\ line.end = "LINE_END" ->
         Outcome(0, IF line.level = 0 THEN Simple(line.lexemes) ELSE NoReading)
    [] OTHER -> Outcome(0, NoReading)

\* A compound statement that is typed needs an empty line after it.
LOCAL OnlyOne(statements) == IF Len(statements) = 1 THEN statements[1] ELSE NoReading
ReadTyped(lines) ==
  IF Len(lines) = 1 THEN ReadLine(lines[1])
  ELSE Outcome(0, IF IsCompound(lines[1]) /\ Whitespace(Last(lines), "LINE_END")
                  THEN OnlyOne(Statements(Front(lines), 0)) ELSE NoReading)

----------------------------------------------------------------------------
(***************************************************************************)
(* Completions                                                             *)
(***************************************************************************)
LOCAL Plain(kind) == [token |-> kind, text |-> kind, length |-> 1]
LOCAL AnOperand == Plain("IDENT")

\* The brackets that are open at the end of s, the innermost one first.
LOCAL Open(s) ==
  FoldLeft(LAMBDA open, c : CASE c.token \in Opening -> <<c.token>> \o open
                              [] c.token \in Closing /\ open # <<>> -> Tail(open)
                              [] OTHER -> open,
           <<>>, s)

\* What may close one of them; in a dictionary a value may be missing.
LOCAL Closers(open) ==
  {<<Plain(ClosingOf[open])>>} \cup
  (IF open = "LBRACE" THEN {<<Plain("COLON"), AnOperand, Plain("RBRACE")>>} ELSE {})

\* How a line that begins with s may go on: with the operand that an operator waits
\* for, what closes the brackets, and what a statement governs.
LOCAL Endings(s) ==
  LET closing == FoldLeft(LAMBDA S, open : {c \o d : c \in S, d \in Closers(open)}, {<<>>}, Open(s))
  IN {c \o d \o e : c \in {<<>>, <<AnOperand>>}, d \in closing,
                    e \in {<<>>, <<Plain("COLON"), AnOperand>>}}

LOCAL LineAt(level, lexemes, end) == [level |-> level, lexemes |-> lexemes, end |-> end]

\* The lines after the last one: a block for it or none, and the end.
LOCAL Rests(level, typed) ==
  LET end == <<LineAt(0, <<>>, IF typed THEN "LINE_END" ELSE "INPUT_END")>>
  IN {end, <<LineAt(level + 1, <<AnOperand>>, "LINE_END")>> \o end}
     \cup (IF typed THEN {<<>>} ELSE {})

\* Texts that begin with lines, the last of which may be open, and go on in the
\* shortest ways: one of them is a program if any text that begins so is one.
Completions(lines, typed) ==
  LET last == Last(lines)
      ended == IF last.end # "open" THEN {lines}
               ELSE {Append(Front(lines), LineAt(last.level, last.lexemes \o e, "LINE_END")) :
                       e \in Endings(last.lexemes)}
  IN IF last.end = "INPUT_END" THEN {lines}
     ELSE {e \o r : e \in ended, r \in Rests(last.level, typed)}
=============================================================================
