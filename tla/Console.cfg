SPECIFICATION ConsoleSpec
CONSTANTS
  None = None
  Text <- LineText
  Viewer = {v1}
  Capacity = 2
  Channel = 1
  FileId = {f1, f2}
  LineSize = 2
  ColdStart = 2
  MaxChunk = 3
  MaxFile = 4
  MaxGen = 2
  MaxFaults = 1
  Caller = {p1, p2}
  NoCaller = NoCaller
  MaxSkipped = 1
INVARIANTS StreamIsLog TailIsFile OwnReply LeftoversHarmless
PROPERTIES LinesArrive CallsEnd
