SPECIFICATION BatchSpec
CONSTANTS
  Plans <- MCPlans
  MaxOutputs = 1
  MayFail = FALSE
  MayStop = FALSE
INVARIANT NoWaitMatchesTooEarly
CHECK_DEADLOCK FALSE
