SPECIFICATION Spec
CONSTANTS
  Thread = {t1, t2, t3}
  NULL = NULL
  Job = {j1}
PROPERTIES NoOvertaking ReadyThreadRuns ImplementsScheduler
