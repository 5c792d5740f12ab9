CONSTANTS
  Conns = {c1, c2, c3}
  Accounts = {a1}
  MaxIds = 2
  NoAccount = NoAccount
SYMMETRY ConnSymmetry
SPECIFICATION Spec
INVARIANTS
  TypeOK
  PoolPartition
  RegistryCoherent
PROPERTIES
  CloseDeregisters
