SPECIFICATION Spec
CONSTANTS
  Ids <- MCIds
  Types <- MCTypes
  TypeOf <- MCTypeOf
  SetParts <- MCSetParts
  SetType = "set"
  NoType = "none"
  Chars = {c1, c2}
  NoChar = NoChar
  Lists <- MCLists
  Stocked = {"pill"}
  Boxes = {"box"}
  Stock = 2
  MaxEnergy = 1
  Space = 3
  MaxNumber = 3
  MaxQueue = 2
SYMMETRY MCSymmetry
CHECK_DEADLOCK FALSE
INVARIANTS
  TypeOK
  RowsMirrorItems
  WornCounted
  SetExclusive
