SPECIFICATION Spec
CONSTANTS
  Inputs <- MCInputs
  INDENT_STACK_MAX = 4
  TOKEN_QUEUE_MAX = 4
  AST_POOL_PGSIZE = 64
  YYMAXDEPTH = 24
INVARIANTS ParsesAsWritten TextAtHand PagesHold LimitsHold
CHECK_DEADLOCK FALSE
