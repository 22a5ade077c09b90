SPECIFICATION WebSpec
CONSTANTS
  p1 = p1
  p2 = p2
  p3 = p3
  Null = Null
  u1 = u1
  u2 = u2
  tea = tea
  mate = mate
  Requests = {p1, p2}
  MaxProjects = 1
  MaxBytes = 2
  Loads <- ProjectLoads
  KeyRequests = {p1, p2, p3}
  Users = {"u"}
  FreeLimit = 2
  MaxRequests = 2
  Window = 1
  MaxTime = 4
  KeyLoads <- KeyUses
  SiteRequests = {p1, p2}
  Columns <- UserColumns
  Renames <- UserRenames
  Adds <- LateColumns
  Indexes <- UserIndexes
  Seeds <- FirstComponents
  SiteLoads <- Databases
  Group = {"members"}
  User <- Readers
  Poll <- Listed
  Option <- Drinks
  Worlds <- AllWorlds
  PageSize = 2
  PastLimit = 2
  MaxChanges = 1
SYMMETRY Symmetric
INVARIANTS LimitsNear ListedIsStored KeysNearLimit EndedWasAnnounced AnswersAreTrue
PROPERTY StartsServe
CHECK_DEADLOCK FALSE
