SPECIFICATION RecordsSpec
CONSTANTS
  Calls = {a1, a2, a3, a4}
  NoCall = NoCall
  Sizes = {1, 3}
  StopBytes = 2
  ExitBytes = 1
  MaxBytes = 9
  MaxEntries = 6
  ReserveBytes = 3
  ReserveEntries = 2
  InitialLogs <- MCInitialLogs
  Captures = {c1, c2, c3}
  Exports = {e1, e2, e3}
  Bytes = {b1, b2}
  Large = {b2}
  NoBytes = NoBytes
  Nobody = Nobody
  MaxVariants = 2
  Runs <- MCRuns
  EchoPrefix <- MCEchoPrefix
  MaxControl = 7
  Inputs <- MCInputs
  Plans <- MCPlans
  MaxOutputs = 1
  MayFail = TRUE
  MayStop = TRUE
SYMMETRY Symmetry
INVARIANTS
  FileIsWellFormed AckedIsDurable WithinLimits DropIsExplained ExitIsStored
  CapturesAreKept ExportsAreListed CutsDoNotMatter BatchReportIsTrue
PROPERTIES
  DurableEventsAreStable
  ImplementsContract
CHECK_DEADLOCK FALSE
