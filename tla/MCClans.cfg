CONSTANTS
  Accounts = {p1, p2, p3}
  Offline = Offline
  MaxMembers = 2
  MaxClans = 2
  MaxContribution = 1
  MaxTotal = 2
  MaxRequests = 2
  MaxOnline = 2
  MaxQueue = 2
SYMMETRY Symmetry
SPECIFICATION Spec
INVARIANTS
  TypeOK
  ClansCoherent
  ContributionCovered
PROPERTIES
  FoundedAfresh
