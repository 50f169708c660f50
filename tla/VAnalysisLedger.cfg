\* A worktree lost when a job has succeeded.
CONSTANTS
  Plan <- MCPlan
  Cleanup <- MCCleanup
  Reads <- MCReads
  Stamped <- MCStamped
  WithJobs <- MCWithJobs
  MaxCommits = 2
  None = None
  MaxTrees = 2
  MaxKills = 2
  MaxFailures = 1
SPECIFICATION Spec
INVARIANT LedgerMatches
CHECK_DEADLOCK FALSE
