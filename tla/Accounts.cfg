CONSTANTS
  p1 = p1
  p2 = p2
  a = a
  b = b
  hw = hw
  t1 = t1
  g1 = g1
  g2 = g2
  m1 = m1
  Requests = {p1, p2}
  Devices = {hw}
  Mails = {m1}
  MailOf <- MCMailOf
  Loads <- AllLoads
  BanTypes = {"temp", "poison"}
  Names = {a, b}
  Tokens = {t1}
  Subjects = {g1, g2}
  MaxAccounts = 2
  MaxBans = 2
SPECIFICATION FairSpec
INVARIANTS SpentTokenDead
PROPERTIES PoisonStays RosterWritesOneEntry ExpiredBansGo
CHECK_DEADLOCK FALSE
