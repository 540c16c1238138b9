SPECIFICATION Spec
CONSTANTS
  Scripts <- MCScripts
  MaxRead = 25
  MAX_ATTEMPTS = 2
CHECK_DEADLOCK FALSE
INVARIANTS
  DeliveredInOrder
  PublishedIsCurrent
  MixedIsMended
PROPERTIES
  EverythingDelivered
  BrokenIsRetried
