\* Two analyses, a kill or a loss at any point, a reported failure.
CONSTANTS
  Plan <- MCPlan
  Cleanup <- MCCleanup
  Reads <- MCReads
  Stamped <- MCStamped
  WithJobs <- MCWithJobs
  MaxCommits = 2
  None = None
  MaxTrees = 2
  MaxKills = 2
  MaxFailures = 1
SPECIFICATION Spec
INVARIANTS TypeOK PassedHasOutputs OfficialIsComplete
PROPERTIES PassedIsSealed BaselineIsOfficial Ends
CHECK_DEADLOCK FALSE
