SYMMETRY Symmetry
CONSTANTS
  a1 = a1  a2 = a2  b1 = b1
  A = A  B = B
  Sessions <- MCSessions
  Clans <- MCClans
  ClanOf <- MCClanOf
  NoSession = NoSession
  NoParty = NoParty
  PlayersPerRoom = 3
  MaxObservers = 0
  MaxRooms = 1
  MaxNumber = 1
  MaxJoined = 0
  MaxParties = 1
  Sizes = {1, 2}
  DefaultSize = 2
  MaxRegistered = 2
SPECIFICATION PartiesSpec
INVARIANTS
  PartiesTypeOK
  PartyMembership
PROPERTIES
  ReturnKeepsParties
  DepartureLeavesParty
CONSTRAINT Bounded
