SPECIFICATION SpecUnique
CONSTANTS
  o1 = o1
  o2 = o2
  o3 = o3
  OrderId <- MCOrderId3
  Price <- MCPrice
  Size <- MCSize
  VolMod <- MCVolMod
  NO_BID <- MCNoBid
  NO_ASK <- MCNoAsk
INVARIANTS
  BookMirrorsIndex
PROPERTIES
  ImplementsLiveOrders
