SPECIFICATION Spec
CONSTANTS
  None = None
  Text <- LineText
  Viewer = {}
  Capacity = 2
  Channel = 1
  FileId = {f1, f2}
  LineSize = 2
  ColdStart = 2
  MaxChunk = 3
  MaxFile = 4
  MaxGen = 2
  MaxFaults = 1
INVARIANT RetriesSameOffset

