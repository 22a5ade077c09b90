SPECIFICATION PartsSpec
CONSTANTS
  Null = Null
  p1 = p1
  p2 = p2
  o1 = o1
  o2 = o2
  o3 = o3
  u1 = u1
  u2 = u2
  u3 = u3
  r1 = r1
  r2 = r2
  r3 = r3
  a1 = a1
  a2 = a2
  a3 = a3
  Group = {"members"}
  User = {u1, u2, u3}
  Poll = {p1, p2}
  OptionsOf <- TwoPolls
  Choices <- Attempts
  Req = {r1, r2, r3}
  Adm = {a1, a2, a3}
  Audiences = {{"members"}, {"everyone"}}
  Durations <- TickOrNever
  Extensions = {1}
  Horizon = 2
SYMMETRY Symmetry
INVARIANTS SingleAnswer OnlyEntitledBallots
PROPERTIES BallotsReplacedWhole ExtensionsCountOnce BoardSpec
