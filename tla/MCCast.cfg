SPECIFICATION Spec
CONSTANTS
  c1 = c1  c2 = c2  c3 = c3
  a1 = a1
  r1 = r1  r2 = r2
  Conns <- MCConns
  Accounts <- MCAccounts
  Rooms <- MCRooms
  NoAccount = NoAccount
  NoConn = NoConn
  NoRoom = NoRoom
  MaxId = 2
SYMMETRY Symmetry
INVARIANTS
  TypeOK
  SlotCoherent
CONSTRAINT Bound
CHECK_DEADLOCK FALSE
