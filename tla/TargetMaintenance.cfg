\* A stage and three applies by two processes, two backups, three failures or deaths.
CONSTANTS
  Invocation = {p1, p2}
  Run = {r1, r2}
  Nonce = {n1, n2}
  web = web
  runtime = runtime
  Service <- MCService
  Database = postgres
  None = None
  MaxCommands = 4
  MaxFaults = 3
SPECIFICATION Spec
SYMMETRY Symmetry
INVARIANTS
  ReleasedMeansServing
  ReceiptsTrue
  AttemptOnce
  ColdCopy
  BackupUndisturbed
\* Commands and runs are bounded, and a guard may stay.
CHECK_DEADLOCK FALSE
