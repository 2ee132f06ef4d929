SPECIFICATION RendererSpec
CONSTANTS
  Requests = {"watch", "shot"}
  Kind <- MCKind
  Key <- MCKey
  WebKeys = {"web"}
  Impatient = {"watch"}
  MaxSeq = 1
  MaxFailures = 0
INVARIANT ShutdownLeavesNoRenderer
CHECK_DEADLOCK FALSE
