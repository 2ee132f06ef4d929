CONSTANTS
  Runs = {r1, r2}
  EchoPrefix <- MCEchoPrefix
  MaxControl = 4
  Prints <- MCPrints
  MaxPrints = 3
SPECIFICATION SafeSpec
INVARIANTS LogHoldsTheOutput CompletionsAreTrue CompletionKeepsItsPlace
CONSTRAINT Bounded
CHECK_DEADLOCK FALSE
SYMMETRY Symmetry
