------------------------------- MODULE Parser -------------------------------
(***************************************************************************)
(* The parser of Subpython (lab04): yyparse of grammar.y.c, the scanner it *)
(* asks for tokens, the pool of its tree, and the loop of repl.c that      *)
(* takes one parse after the other to the evaluator.                       *)
(*                                                                         *)
(* A node of the tree is a record of its type, its text and its children;  *)
(* a list of nodes is one too.                                             *)
(***************************************************************************)
EXTENDS Scanner, Grammar, AstPool

CONSTANT YYMAXDEPTH  \* how many states the stack has room for

ASSUME DepthAssumption == YYMAXDEPTH \in Nat /\ YYMAXDEPTH > 1

VARIABLES
  stack,  \* the states of yyparse, each with the value of its symbol
  pages,  \* the pool of the tree
  result, \* what yyparse returned, or Parsing
  tree    \* udata.tree

vars == <<scannerVars, stack, pages, result, tree>>

Parsing == -1
Tree(node, content, children) == [node |-> node, text |-> content, children |-> children]
NULL == Tree("NULL", "", <<>>)
Entry(state, value) == [state |-> state, value |-> value, length |-> 0]

Modes == {TRUE, FALSE}

Init ==
  /\ interactive \in Modes /\ input \in Inputs /\ ScannerStart
  /\ stack = <<Entry(START, NULL)>> /\ pages = EmptyPages /\ result = Parsing /\ tree = NULL

----------------------------------------------------------------------------
State == Last(stack).state
Running == result = Parsing /\ ~aborted

\* A new state on the stack; a full stack ends the parse.
Push(below, entry) ==
  /\ stack' = Append(below, entry)
  /\ result' = IF Len(below) + 1 >= YYMAXDEPTH THEN 2 ELSE Parsing

\* A token is asked for only when the state needs one.
Lex ==
  /\ Running /\ token = NoToken /\ ~Decided(State)
  /\ yylex
  /\ UNCHANGED <<stack, pages, result, tree>>

Leads == token # NoToken /\ Goto(State, token.token) # {}

\* The value of a name or a string is the address of the scanner's text.
Shift ==
  /\ Running /\ ~Decided(State) /\ Leads
  /\ Push(stack, [Entry(Goto(State, token.token), Tree(token.token, token.text, <<>>))
                  EXCEPT !.length = token.length])
  /\ token' = NoToken
  /\ UNCHANGED <<interactive, input, start, indent_stack, token_queue, next, yytext,
                 text, aborted, pages, tree>>

\* The text of a value, which must not have been scanned over.
TextOf(node, value) ==
  IF node \in Named /\ value.text # yytext THEN "stale" ELSE value.text

\* A literal or a name has its text from the token.
Textual(action) == action.do = "node" /\ action.text = "" /\ action.parts = <<>>

\* A name or a string is copied from where the scanner left it.
Copies(action) == Textual(action) /\ action.node \in Named

\* What action makes of the entries of the right side, and what it allocates.
Value(action, right) ==
  LET part(i) == right[action.parts[i]].value
      children == [i \in DOMAIN action.parts |-> part(i)]
  IN CASE action.do = "take" -> part(1)
       [] action.do = "nothing" -> NULL
       [] Textual(action) -> Tree(action.node, TextOf(action.node, right[1].value), <<>>)
       [] action.do \in {"node", "list"} /\ ~Textual(action) ->
            Tree(action.node, action.text, children)
       [] action.do = "extend" ->
            [part(1) EXCEPT !.children = Append(@, part(2))]

Allocations(action, right) ==
  CASE action.do = "node" ->
         SizesOfNode(action.node, IF Textual(action) THEN right[1].length ELSE 0)
    [] action.do = "list" -> <<ListSize>> \o [i \in DOMAIN action.parts |-> EntrySize]
    [] action.do = "extend" -> <<EntrySize>>
    [] OTHER -> <<>>

\* The rule that is complete is reduced when the state asks for no token, or the
\* token leads nowhere.
Reducible(r) ==
  /\ Running
  /\ Decided(State) \/ (token # NoToken /\ ~Leads)

Reduce(r) ==
  LET action == Rules[r].action
      depth == Len(stack) - Len(Rules[r].right)
      right == SubSeq(stack, depth + 1, Len(stack))
      below == SubSeq(stack, 1, depth)
  IN /\ Reducible(r)
     /\ action.do \notin {"accept", "quit"}
     /\ pages' = AllocatedAll(pages, Allocations(action, right))
     /\ Push(below, Entry(Goto(Last(below).state, Rules[r].left), Value(action, right)))
     /\ UNCHANGED <<scannerVars, tree>>

\* The rules for the whole input.  The end of what is typed, first thing in a
\* turn, ends the loop.
Finish(r) ==
  LET action == Rules[r].action
  IN /\ Reducible(r)
     /\ action.do \in {"accept", "quit"}
     /\ result' = IF action.do = "quit" THEN 3 ELSE 0
     /\ tree' = IF action.parts = <<>> THEN NULL
                ELSE stack[Len(stack) - Len(Rules[r].right) + action.parts[1]].value
     /\ UNCHANGED <<scannerVars, stack, pages>>

\* No rule of the grammar recovers from an error.
SyntaxError ==
  /\ Running /\ token # NoToken /\ ~Leads /\ Complete(State) = {}
  /\ result' = 1
  /\ UNCHANGED <<scannerVars, stack, pages, tree>>

\* yyparse.
yyparse ==
  \/ Lex
  \/ Shift
  \/ \E r \in Complete(State) : Reduce(r)
  \/ \E r \in Complete(State) : Finish(r)
  \/ SyntaxError

\* The loop goes on at a prompt, also after an error, with everything but the
\* evaluator's state as new: what was typed after the error is lost.
NextTurn ==
  /\ result \in {0, 1} /\ ~aborted /\ interactive
  /\ ScannerRestart
  /\ stack' = <<Entry(START, NULL)>> /\ pages' = EmptyPages /\ result' = Parsing
  /\ tree' = NULL

Next == yyparse \/ NextTurn

Spec == Init /\ [][Next]_vars

----------------------------------------------------------------------------
(***************************************************************************)
(* Properties                                                              *)
(***************************************************************************)

\* A name or a string that is about to be copied is what the scanner matched last:
\* no other token was asked for since (grammar.l.c:1196-1208, grammar.y.c:1937, 1979).
TextAtHand ==
  \A r \in Complete(State) : Copies(Rules[r].action) => Last(stack).value.text = yytext

\* No allocation goes beyond the end of its page (ast.c:31-60).
PagesHold == \A i \in DOMAIN pages : pages[i].offset <= pages[i].room

\* The stacks and the queue stay within their arrays, the levels of open blocks
\* grow from 0, and the assertions on the queue and the levels stop the process
\* only when as many blocks are open as there is room for, however many came and
\* went before (grammar.y.c:281, 378).
LimitsHold ==
  /\ Len(stack) \in 1..YYMAXDEPTH
  /\ \A i \in DOMAIN stack : stack[i].state # {}
  /\ token_queue.pos <= Len(token_queue.tokens) /\ Len(token_queue.tokens) < TOKEN_QUEUE_MAX
  /\ Len(indent_stack) <= INDENT_STACK_MAX /\ Head(indent_stack) = 0
  /\ \A i \in 2..Len(indent_stack) : indent_stack[i - 1] < indent_stack[i]
  /\ aborted => Len(indent_stack) = INDENT_STACK_MAX
=============================================================================
