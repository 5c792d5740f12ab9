CONSTANTS
  Players = {p, q}
  Items = {x, y, z}
  NoPlayer = NoPlayer
  Space = 2
  MaxOffer = 1
  MpWrap = 6
  MaxNumber = 2
SYMMETRY TradeSymmetry
SPECIFICATION TradeSpec
INVARIANTS
  TradeTypeOK
PROPERTIES
  ExchangeExact
  MovesOnlyByTrade
