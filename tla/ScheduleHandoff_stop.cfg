SPECIFICATION Spec
CONSTANTS
  Jobs <- JustScan
  MaxRequests = 1
PROPERTIES
  StopReleasesExecutors
CHECK_DEADLOCK FALSE
