\* Two requests at once, three drafts in a row, two reviews of one card.
SPECIFICATION Spec
CONSTANTS
  Worker = {w1, w2}
  Card = {k1}
  Command = {c1}
  Verdict = {"fits"}
  None = None
  MaxRevision = 2
  MaxReviews = 2
SYMMETRY Workers
INVARIANTS OneHistory ReviewsKept Redoable
