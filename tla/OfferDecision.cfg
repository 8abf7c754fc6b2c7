SPECIFICATION Spec
CONSTANTS
  Worker = {w1}
  d1 = d1
  d2 = d2
  d3 = d3
  Draft = {d1, d2, d3}
  Original <- Continues
  Stamp = {t1, t2}
  None = None
  OlderRelease = {d1}
  LateUpdates = TRUE
  LateInserts = {d1}
SYMMETRY Symmetry
INVARIANTS
  OkMeansDone
  EvidenceOrder
  StaleLinkRepairable
  HandoffRedoable
  LinearHistory
  DecisionPublishable
PROPERTY LinksCurrentOnly
