SPECIFICATION PartSpec
CONSTANTS
  MaxRetries = 2
  Clients = {"c1"}
  Timeout = 2
  Cap = 2
  MaxBeats = 2
  MaxSweeps = 2
  ListenAttempts = 2
  Sessions = {s1, s2}
  Records = 2
  MaxFollows = 2
  MaxFailures = 1
INVARIANTS NoManifestIsMissed HandshakeMeets CallsAreTrue ListenSurvivesCleanups ShowsOneLog
PROPERTIES CreateSettles CallsAndCloseEnd FrameCatchesUp
CHECK_DEADLOCK FALSE
