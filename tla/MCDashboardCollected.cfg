SPECIFICATION Spec
CONSTANTS
  Newest <- MCNewest
  HomeOf <- MCHomeOf
  Homes <- MCHomes
  Launched = "B"
  Requests <- MCRequests
  NoSession = "none"
  MaxKeys = 1
PROPERTY CollectedDropsOut
CHECK_DEADLOCK FALSE
