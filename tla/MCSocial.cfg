CONSTANTS
  p = p
  q = q
  nobody = nobody
  Accounts = {p, q, nobody}
  Users = {p, q}
  MaxFriends = 1
  MaxMailbox = 1
  MaxRows = 2
  MaxQueue = 2
  s1 = s1
  s2 = s2
  Seconds = {s1, s2}
  MaxGifts = 1
  MaxLoad = 4
  MaxTorn = 1
SPECIFICATION Spec
SYMMETRY Symmetric
CONSTRAINT Bounded
CHECK_DEADLOCK FALSE
INVARIANTS
  TypeOK
  FriendsMirrorRows
  MailsKept
  GiftsOpenedOnce
PROPERTIES
  BlocksHonoured
