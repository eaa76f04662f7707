------------------------------ MODULE Scanner -------------------------------
(***************************************************************************)
(* The scanner of the Subpython parser (lab04): yylex of grammar.l.c and   *)
(* the private data of grammar.y.c that it works on.  A line is read as    *)
(* its leading blanks and a sequence of lexemes, characters that one rule  *)
(* of the scanner matches; what is typed is chosen as it is read.  The     *)
(* leading blanks become INDENT and DEDENT tokens, which wait in a queue.  *)
(***************************************************************************)
EXTENDS Integers, Sequences, SequencesExt

CONSTANTS
  Inputs,            \* bounds of what may be typed
  INDENT_STACK_MAX,  \* room of the indentation stack
  TOKEN_QUEUE_MAX    \* room of the token queue

ASSUME InputAssumption ==
  \A i \in Inputs :
    /\ i.blanks \subseteq Seq({"space", "tab"})
    /\ i.lexemes \subseteq [token : STRING, text : STRING, length : Nat]
    /\ i.lines \in Nat /\ i.length \in Nat

\* A token for each level and the one after them find room in the queue.
ASSUME RoomAssumption ==
  /\ INDENT_STACK_MAX \in Nat \ {0} /\ TOKEN_QUEUE_MAX \in Nat
  /\ INDENT_STACK_MAX <= TOKEN_QUEUE_MAX

VARIABLES
  interactive,   \* lines are typed at a prompt; else they are those of a file
  input,         \* the bounds in use: blanks, lexemes, and the number of both
  start,         \* YY_START
  indent_stack,  \* the levels of the open blocks, the current one last
  token_queue,   \* its tokens, and how many of them were returned
  next,          \* what the scanner looked at, but did not match
  yytext,        \* what was matched last
  token,         \* yychar: the token that the parser has not used yet
  text,          \* all lines of this turn
  aborted        \* an assertion failed

scannerVars == <<interactive, input, start, indent_stack, token_queue, next, yytext,
                 token, text, aborted>>

Lexeme(kind, characters, length) ==
  [token |-> kind, text |-> characters, length |-> length]
Mark(kind) == Lexeme(kind, kind, 1)
NoToken == Mark("YYEMPTY")
NewLine == Mark("LINE_END")
EndOfFile == Mark("INPUT_END")

EmptyQueue == [tokens |-> <<>>, pos |-> 0]

\* subpy_udata_init and yylex_init, for each turn.
ScannerStart ==
  /\ start = "INITIAL" /\ indent_stack = <<0>> /\ token_queue = EmptyQueue
  /\ next = <<>> /\ yytext = "" /\ token = NoToken /\ text = <<>> /\ aborted = FALSE

ScannerRestart ==
  /\ start' = "INITIAL" /\ indent_stack' = <<0>> /\ token_queue' = EmptyQueue
  /\ next' = <<>> /\ yytext' = "" /\ token' = NoToken /\ text' = <<>>
  /\ UNCHANGED <<interactive, input, aborted>>

\* The columns of leading blanks: a tab leads to the next multiple of 8.
SUBPY_INDENT_SIZE == 8
Level(blanks) ==
  LET column[i \in 0..Len(blanks)] ==
        IF i = 0 THEN 0
        ELSE IF blanks[i] = "tab"
             THEN (column[i - 1] \div SUBPY_INDENT_SIZE + 1) * SUBPY_INDENT_SIZE
             ELSE column[i - 1] + 1
  IN column[Len(blanks)]

----------------------------------------------------------------------------
(***************************************************************************)
(* The token queue and the indentation stack                               *)
(***************************************************************************)
Drained == token_queue.pos = Len(token_queue.tokens)

\* Mutant: a queue whose tokens were all returned is not emptied.
RestartedNever(queue) == queue

\* The queue that tokens are pushed to: one that was drained starts anew.
Restarted(queue) == IF queue.pos = Len(queue.tokens) THEN EmptyQueue ELSE queue

\* How many levels stay when those above level are popped.
Kept(stack, level) ==
  CHOOSE k \in DOMAIN stack :
    stack[k] <= level /\ \A i \in DOMAIN stack : i > k => stack[i] > level

\* SUBPY_CHECK_INDENT, and the tokens pushed after it if level fits.
CheckIndent(level, more) ==
  LET deeper == Last(indent_stack) < level
      kept == Kept(indent_stack, level)
      levels == IF deeper THEN Append(indent_stack, level) ELSE SubSeq(indent_stack, 1, kept)
      fits == Last(levels) = level
      dedents == [i \in 1..(Len(indent_stack) - kept) |-> "DEDENT"]
      pushed == (IF deeper THEN <<"INDENT">> ELSE dedents) \o (IF fits THEN more ELSE <<>>)
      queue == [Restarted(token_queue) EXCEPT !.tokens = @ \o pushed]
  IN IF Len(levels) > INDENT_STACK_MAX \/ Len(queue.tokens) >= TOKEN_QUEUE_MAX
     THEN aborted' = TRUE /\ UNCHANGED <<indent_stack, token_queue, token>>
     ELSE /\ indent_stack' = levels
          /\ token_queue' = queue
          /\ token' = IF fits THEN NoToken ELSE Mark("INDENT_ERROR")
          /\ UNCHANGED aborted

----------------------------------------------------------------------------
(***************************************************************************)
(* The rules.  yylex goes on matching until there is a token to return.    *)
(***************************************************************************)
\* What may come next in a line; a line that is typed ends with a newline.
Ends == IF interactive THEN {NewLine} ELSE {NewLine, EndOfFile}
Following(line) ==
  Ends \cup (IF Len(line) < input.length THEN input.lexemes ELSE {})

Line(blanks) == [blanks |-> blanks, lexemes |-> <<>>, end |-> "open"]
LastLine(change(_)) == text' = [text EXCEPT ![Len(text)] = change(@)]

\* The first token only says how the input is to be parsed.
EnterStart ==
  /\ start = "INITIAL"
  /\ start' = "START"
  /\ token' = Mark(IF interactive THEN "START_SINGLE" ELSE "START_FILE")
  /\ UNCHANGED <<interactive, input, indent_stack, token_queue, next, yytext, text, aborted>>

ReturnQueued ==
  /\ ~Drained
  /\ token' = Mark(token_queue.tokens[token_queue.pos + 1])
  /\ token_queue' = [token_queue EXCEPT !.pos = @ + 1]
  /\ UNCHANGED <<interactive, input, start, indent_stack, next, yytext, text, aborted>>

AtStart == start = "START" /\ Drained
NewLineAllowed == Len(text) < input.lines

\* The leading blanks of a line with something else in it.  In a line of blanks
\* only, the last of them is something else.
LeadingBlanks ==
  /\ AtStart /\ NewLineAllowed
  /\ \E blanks \in input.blanks : \E c \in Following(<<>>) :
       LET empty == c \in Ends
       IN /\ empty => blanks # <<>>
          /\ CheckIndent(Level(IF empty THEN Front(blanks) ELSE blanks), <<>>)
          /\ text' = Append(text, Line(IF empty THEN Front(blanks) ELSE blanks))
          /\ next' = <<c>>
  /\ start' = IF token' = NoToken THEN "INNER" ELSE start
  /\ yytext' = "blanks"
  /\ UNCHANGED <<interactive, input>>

\* An empty line ends all blocks, but only at a prompt.
EmptyLine ==
  /\ AtStart /\ NewLineAllowed
  /\ IF interactive THEN CheckIndent(0, <<"LINE_END">>)
     ELSE UNCHANGED <<indent_stack, token_queue, token, aborted>>
  /\ text' = IF interactive THEN Append(text, [Line(<<>>) EXCEPT !.end = "LINE_END"])
             ELSE text
  /\ yytext' = "newline"
  /\ UNCHANGED <<interactive, input, start, next>>

\* The end of the file, or of what is typed, at the start of a line.
EndAtStart ==
  /\ AtStart
  /\ CheckIndent(0, <<"INPUT_END">>)
  /\ text' = Append(text, [Line(<<>>) EXCEPT !.end = "INPUT_END"])
  /\ UNCHANGED <<interactive, input, start, next, yytext>>

InLine == start = "INNER" /\ Drained
Upcoming ==
  IF next # <<>> THEN {Head(next)} ELSE Following(Last(text).lexemes)

\* Keywords, operators, literals and names.
MatchLexeme ==
  /\ InLine
  /\ \E c \in Upcoming \ Ends :
       /\ token' = c
       /\ yytext' = c.text
       /\ LastLine(LAMBDA line : [line EXCEPT !.lexemes = Append(@, c)])
  /\ next' = <<>>
  /\ token_queue' = Restarted(token_queue)
  /\ UNCHANGED <<interactive, input, start, indent_stack, aborted>>

\* The end of a line.  At the end of a file no block is ended here.
MatchEnd ==
  /\ InLine
  /\ \E c \in Upcoming \cap Ends :
       /\ token' = c
       /\ yytext' = IF c = NewLine THEN "newline" ELSE yytext
       /\ LastLine(LAMBDA line : [line EXCEPT !.end = c.token])
  /\ start' = "START"
  /\ next' = <<>>
  /\ token_queue' = Restarted(token_queue)
  /\ UNCHANGED <<interactive, input, indent_stack, aborted>>

yylex == \/ EnterStart \/ ReturnQueued \/ LeadingBlanks \/ EmptyLine \/ EndAtStart
         \/ MatchLexeme \/ MatchEnd
=============================================================================
