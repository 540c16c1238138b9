SPECIFICATION BookSpec
CONSTANTS
  o1 = o1
  o2 = o2
  o3 = o3
  OrderId <- MCOrderId
  Price <- MCPrice
  Size <- MCSize
  VolMod <- MCVolMod
  NO_BID <- MCNoBid
  NO_ASK <- MCNoAsk
SYMMETRY MCSymmetry
INVARIANTS
  BookTypeOK
  IndexConsistent
  NoEmptyLimit
  RemoveNeverFaults
  VolumeIsSum
  BestPriceIsBest
