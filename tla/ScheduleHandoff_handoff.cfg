SPECIFICATION Spec
CONSTANTS
  Jobs <- ScanAndReport
  MaxRequests = 2
INVARIANTS
  TypeOK
  NotificationFollows
PROPERTIES
  ImplementsCell
CHECK_DEADLOCK FALSE
