\* Two of three processes may die, one of them masked; files fail; one request is hasty.
SPECIFICATION FairSpec
CONSTANTS
  r1 = r1 r2 = r2 r3 = r3 o1 = o1 p1 = p1 p2 = p2 p3 = p3
  Req = {r1, r2, r3}
  Older = {o1}
  Proc = {p1, p2, p3}
  ProcOf <- TwoProcesses
  HostOf <- OneHost
  None = None
  MaxTickets = 2
  MaxSequence = 3
  Mortal = {p1, p2}
  Masked = {p2}
  Hasty = {r1}
  DiskFaults = TRUE
INVARIANTS MutualExclusion OneLeaderWhileMarked NoLiveEviction QueueKept
PROPERTY Served
CHECK_DEADLOCK FALSE
