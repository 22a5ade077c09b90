SPECIFICATION Spec
CONSTANTS
  Null = Null
  Group = {}
  p1 = p1
  o1 = o1
  o2 = o2
  User = {u1}
  Poll = {p1}
  OptionsOf <- OnePoll
  Choices <- TwoOptions
  Req = {r1}
  Adm = {a1}
  Audiences = {{"everyone"}}
  Durations <- OneTick
  Extensions = {1}
  Horizon = 2
PROPERTY ClosedTakesNoVotes
