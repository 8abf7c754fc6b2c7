\* Two processes die, one of them while it cleans up after the other.
SPECIFICATION Spec
CONSTANTS
  Proc = {p1, p2, p3, p4}
  NoFile = NoFile
  MaxAttempts = 1
  MaxCrashes = 2
  CrashPoints <- Anywhere
  Faults = {}
SYMMETRY ProcSymmetry
INVARIANT RecoverySerialized
CHECK_DEADLOCK FALSE
