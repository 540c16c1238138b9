SPECIFICATION FlowSpec
CONSTANTS
  s1 = s1
  o1 = o1
  o2 = o2
  o3 = o3
  e1 = e1
  NO_SID = NO_SID
  NO_OID = NO_OID
  NO_BODY = NO_BODY
  Strategy <- MCStrategy
  OrderId <- MCOrderId
  Exec <- MCExec
  ReportBody <- FlowBody
  Request <- MCReplace
  AdminType <- MCNoAdmin
  AssertsOn = FALSE
  FileStore = FALSE
  MaxRoute = 1
  MaxPending = 1
  MaxFrames = 0
  MaxReports = 2
  MaxCrashes = 1
  MaxSqlErrors = 1
  MaxAborts = 1
CHECK_DEADLOCK FALSE
INVARIANTS
  NoFalseTrades
  ReplacementRecordedFirst
