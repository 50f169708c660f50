\* A rebuilt worktree, another checkpoint, and an interruption.
CONSTANTS
  Plan <- MCPlan
  Cleanup <- MCCleanup
  Reads <- MCReads
  Stamped <- MCStamped
  WithJobs <- MCWithJobs
  MaxCommits = 2
  None = None
  MaxTrees = 2
  MaxKills = 2
  MaxFailures = 1
SPECIFICATION Spec
INVARIANT DispatchContinues
CHECK_DEADLOCK FALSE
