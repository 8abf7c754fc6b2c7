SPECIFICATION Spec
CONSTANTS
  Worker = {w1, w2}
  Drafts = 3
  Stamp = {t1, t2}
  None = None
  MaxFaults = 2
SYMMETRY Symmetry
INVARIANTS
  ResultsBacked
  SuccessStands
  DecidedStays
PROPERTY
  NoRevival
