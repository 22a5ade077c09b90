SPECIFICATION ViewsSpec
CONSTANTS
  None = None
  Junk = Junk
  s1 = s1
  s2 = s2
  op = op
  q1 = q1
  q2 = q2
  m1 = m1
  m2 = m2
  alex = alex
  steve = steve
  stan = stan
  LivePaths <- MCPaths
  ModNamespaces <- MCMods
  FirstKit <- MCKit
  CreativeKit <- MCSpare
  Cells <- MCCells
  Moves <- MCMoves
  Relic <- MCRelic
  Mutes <- MCMutes
  MaxTime <- MCTime
  MaxLogins <- MCLogins
  Loads <- MCLoads
  Figures <- MCFigures
  Request = {q1, q2}
  Viewer = {"viewer"}
  Keeps <- FewLines
  Channel = 1
  MaxLog = 2
  MaxCommands = 2
  MaxTroubles = 1
SYMMETRY Symmetric
INVARIANTS LiveIsTrue SavedIsWhole RosterIsTrue FiguresAreTrue CommandsAreFew ActionsShow FeedIsTrue
