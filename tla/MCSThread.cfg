\* Four threads: the smallest number with a thread in the middle of the blocked
\* queue while another one runs.
SPECIFICATION SafetySpec
CONSTANTS
  Thread = {t1, t2, t3, t4}
  NULL = NULL
  Job = {j1, j2}
SYMMETRY ThreadSymmetry
INVARIANTS TypeOK OneRunning QueuesWellFormed ContextPreserved ExitIsHonest
