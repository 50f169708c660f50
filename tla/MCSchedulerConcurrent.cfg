SPECIFICATION Spec
CONSTANTS
  a = a
  b = b
  c = c
  x = x
  y = y
  v = v
  p1 = p1
  p2 = p2
  NoJob = NoJob
  Jobs = {a}
  Deps <- NoDeps
  Types <- BatchOrBug
  TypeCap <- CapOfOne
  GlobalCap = 1
  MaxAttempts <- Twice
  MaxNegative <- Twice
  Artifacts = {x, y}
  Assigned <- AllOutputs
  Valid = {v}
  Procs = {p1, p2}
  MaxClaims = 2
SYMMETRY Alike
INVARIANTS NoDoubleClaim RunIsLatestClaim SucceededHasReceipt OneReceiptPerAttempt
  NoMemberLost BugBudgetKept
