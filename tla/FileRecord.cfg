SPECIFICATION Spec
CONSTANTS
  v1 = v1 v1x = v1x v2 = v2
  Client = {c1, c2}
  Value = {v1, v1x, v2}
  VersionOf <- Versions
  NoRecord = NoRecord
PROPERTY RefinesAtomic
