SPECIFICATION Spec
CONSTANTS
  Newest <- MCNewest
  HomeOf <- MCHomeOf
  Homes <- MCHomes
  Launched = "B"
  Requests <- MCRequests
  NoSession = "none"
  MaxKeys = 2
PROPERTIES WatchedStays ListCatchesUp
CHECK_DEADLOCK FALSE
