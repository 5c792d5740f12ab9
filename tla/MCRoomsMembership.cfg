CONSTANTS
  Sessions = {s1, s2}
  NoSession = NoSession
  Clanned = {s1}
  PlayersPerRoom = 2
  MaxObservers = 1
  MaxRooms = 2
  MaxNumber = 2
  MaxJoined = 1
  MaxTangle = 2
  MaxDead = 0
CONSTRAINT Bounded
SYMMETRY RoomsSymmetry
SPECIFICATION NumberedSpec
INVARIANTS
  OneRoomPerSession
  NumbersUnique
PROPERTIES
  RemovalLeavesNoGhost
