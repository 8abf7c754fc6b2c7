SPECIFICATION Spec
CONSTANTS
  Worker = {w1}
  d1 = d1
  d2 = d2
  d3 = d3
  Draft = {d1, d2}
  Original <- Continues
  Stamp = {t1}
  None = None
  OlderRelease = {}
  LateUpdates = FALSE
  LateInserts = {}
SYMMETRY Symmetry
INVARIANTS
  ShowsApproval
