SPECIFICATION Spec
CONSTANTS
  Calls = {c1, c2}
  NoCall = NoCall
  Sizes = {1, 3}
  StopBytes = 2
  ExitBytes = 1
  MaxBytes = 9
  MaxEntries = 6
  ReserveBytes = 3
  ReserveEntries = 2
  InitialLogs <- MCInitialLogs
  Commands = {p1}
  Operations = {"destroy", "force", "reconcile", "gc"}
  Runs = {r1}
  EchoPrefix <- MCEchoPrefix
  MaxControl = 4
  Prints <- MCPrints
  MaxPrints = 2
PROPERTIES AppendsSettle SessionSettles WaitsSettle
CHECK_DEADLOCK FALSE
