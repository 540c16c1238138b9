SPECIFICATION Spec
CONSTANTS
  s1 = s1
  s2 = s2
  o1 = o1
  o2 = o2
  b = b
  NO_SID = NO_SID
  NO_OID = NO_OID
  NO_BODY = NO_BODY
  Strategy <- MCStrategy
  OrderId <- MCOrderId
  ReportBody <- MCReportBody
  Request <- MCRequests
  AdminType <- MCAdmin
  AssertsOn = FALSE
  FileStore = TRUE
  MaxRoute = 2
  MaxPending = 1
  MaxFrames = 2
  MaxReports = 1
  MaxCrashes = 1
CHECK_DEADLOCK FALSE
INVARIANTS
  TypeOK
  OnlyTheOwnerIsTold
  RouteFileCurrent
PROPERTY LookupFindsOwner
