\* Processes die anywhere, recoverers included; disks fail, pids are reused, waits
\* end.
SPECIFICATION FairSpec
CONSTANTS
  Proc = {p1, p2, p3}
  NoFile = NoFile
  MaxAttempts = 1
  MaxCrashes = 2
  CrashPoints <- Anywhere
  Faults = {"io", "pidReuse", "deadline"}
PROPERTIES RefinesMutex Served
CHECK_DEADLOCK FALSE
