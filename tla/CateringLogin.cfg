\* Three attempts from three peers meet one change of the role, in two windows.
SPECIFICATION Spec
CONSTANTS
  Attempt = {a1, a2, a3}
  Source = {s1, s2}
  Fallback = none
  Pin = {p1}
  Role = {r1,r2}
  AccountLimit = 2
  SourceLimit = 1
  KdfLimit = 2
  MaxBuckets = 1
  Window = 1
  LockTime = 1
  MaxTime = 1
  MaxChanges = 1
SYMMETRY Symmetric
CHECK_DEADLOCK FALSE
INVARIANTS SessionsCurrent GuessesBounded
PROPERTIES LockStands LoginsAreCurrent FailuresCounted
