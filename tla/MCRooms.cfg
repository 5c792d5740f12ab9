CONSTANTS
  Sessions = {s1, s2, s3}
  NoSession = NoSession
  Clanned = {}
  PlayersPerRoom = 3
  MaxObservers = 0
  MaxRooms = 1
  MaxNumber = 1
  MaxJoined = 0
  MaxTangle = 2
  MaxDead = 1
CONSTRAINT Bounded
SYMMETRY RoomsSymmetry
SPECIFICATION NumberedSpec
INVARIANTS
  TypeOK
PROPERTIES
  HostStaysInMatch
