\* Four functions, batches of six tokens, no fault.
CONSTANTS
  Functions <- MCFunctions
  PhaseOf <- MCPhaseOf
  DependsOn <- MCDependsOn
  MaxCalls <- MCMaxCalls
  Outcomes <- MCOutcomes
  Tokens <- MCTokens
  CalleeTokens <- MCCalleeTokens
  TargetTokens = 6
  MaxFunctions = 4
  MaxFaults = 0
SPECIFICATION Spec
INVARIANT PlansAgain
CHECK_DEADLOCK FALSE
