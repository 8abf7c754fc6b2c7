SPECIFICATION Spec
CONSTANTS
  r1 = r1 r2 = r2 s1 = s1 s2 = s2 s3 = s3
  Request = {r1, r2}
  EventSpec = {s1, s2, s3}
  OwnSpec <- Names
  Lineage <- Sources
  Asked = s3
  Named <- Few
  Text = {a}
  Stored <- Beginnings
  Absent = Absent
  MaxCalls = 3
  MaxFaults = 2
CHECK_DEADLOCK FALSE
INVARIANTS MarksBacked EvidenceKept AnsweredReached
PROPERTIES ArchiveStands RetryAccepted
