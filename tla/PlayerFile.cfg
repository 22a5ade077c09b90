CONSTANTS
  r1 = r1
  r2 = r2
  n1 = n1
  n2 = n2
  None = None
  Request = {r1, r2}
  Name = {n1, n2}
  Owner = n1
  Channel = 2
  Ttl = 1
  Retry = 1
  Resync = 2
  Loads <- MCLoads
SPECIFICATION FairSpec
INVARIANTS NoHalfFile EditsRecorded
PROPERTIES ReplacesWhatItRead OnlineCatchesUp
CHECK_DEADLOCK FALSE
