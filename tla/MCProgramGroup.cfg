SPECIFICATION Spec
CONSTANTS
  Pids = {1, 2, 3}
  Program = 1
  MaxForks = 2
  StopAttempts = 2
  GcJudgements = 2
  FrozenJudgements = 2
INVARIANTS KillsHitTheProgram GoneIsGone
PROPERTY FreezingLeavesNoTrace
CHECK_DEADLOCK FALSE
