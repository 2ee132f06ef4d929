CONSTANTS
  Runs <- MCRuns
  EchoPrefix <- MCEchoPrefix
  MaxControl = 7
  Inputs <- MCLongInputs
SPECIFICATION FeedSpec
INVARIANT CutsDoNotMatter
CHECK_DEADLOCK FALSE
