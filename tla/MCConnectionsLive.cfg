CONSTANTS
  Conns = {c1, c2}
  Accounts = {a1}
  MaxIds = 1
  NoAccount = NoAccount
SPECIFICATION FairSpec
PROPERTIES
  ClosedIsReclaimed
