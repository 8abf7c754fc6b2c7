SPECIFICATION FairSpec
CONSTANTS
  t1 = t1
  t2 = t2
  t3 = t3
  Target = {t1, t2, t3}
  Rank <- Ranks
  Call = {c1, c2, c3}
  Impatient = {c3}
INVARIANTS Isolation NoCircle
PROPERTIES Served
