\* Four functions, batches of six tokens, two faults.
CONSTANTS
  Functions <- MCFunctions
  PhaseOf <- MCPhaseOf
  DependsOn <- MCDependsOn
  MaxCalls <- MCMaxCalls
  Outcomes <- MCOutcomes
  Tokens <- MCTokens
  CalleeTokens <- MCCalleeTokens
  TargetTokens = 6
  MaxFunctions = 4
  MaxFaults = 2
SPECIFICATION Spec
INVARIANTS TypeOK CallerFirst VerifiedAfterSpecified OneOwner NeverBlocked
PROPERTY PlanStaysGood
CHECK_DEADLOCK FALSE
