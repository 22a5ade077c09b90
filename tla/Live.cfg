SPECIFICATION LiveSpec
CONSTANTS
  Null = Null
  Group = {}
  p1 = p1
  o1 = o1
  o2 = o2
  u1 = u1
  a1 = a1
  r1 = r1
  r2 = r2
  None = None
  Worlds <- MCWorlds
  User = {u1}
  Poll = {p1}
  OptionsOf <- OnePoll
  Choices <- TwoOptions
  Req = {r1, r2}
  Adm = {a1}
  Audiences = {{}, {"everyone"}}
  Durations <- Never
  Extensions = {1}
  Horizon = 0
INVARIANT RightPicture
PROPERTIES VotesAnswered PictureArrives
CHECK_DEADLOCK FALSE
