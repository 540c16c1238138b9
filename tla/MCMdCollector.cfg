SPECIFICATION Spec
CONSTANTS
  x = x
  y = y
  z = z
  o1 = o1
  o2 = o2
  NO_SYM = NO_SYM
  NO_ID = NO_ID
  Symbol <- MCSymbol
  OtherSymbol <- MCOther
  OrderId <- MCOrderId
  EmptyHash = o1
  Price <- MCPrice
  Size <- MCSize
  VolMod <- MCVolMod
  NO_BID <- MCNoBid
  NO_ASK <- MCNoAsk
  Quoted = {x}
  Stray <- MCStray
  NewReplaces = TRUE
  AssertsOn = FALSE
  MaxChannel = 2
  MaxEntries = 2
  MaxTold = 3
CHECK_DEADLOCK FALSE
INVARIANTS
  TypeOK
  BooksWellFormed
  BooksFollowVenue
  PublishedIsTop
