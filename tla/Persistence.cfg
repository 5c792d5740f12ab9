CONSTANTS
  Accounts = {a1, a2}
  Keys = {rt, mp}
  SnapshotKeys = {mp}
  Leaving = {a2}
  MaxUpdates = 3
SPECIFICATION FairSpec
INVARIANTS
  TypeOK
  SettledColumn
PROPERTIES
  ImplementsWriteBehind
  EventuallyWritten
