SPECIFICATION Spec
CONSTANTS
  a = a
  b = b
  c = c
  x = x
  y = y
  v = v
  p1 = p1
  p2 = p2
  NoJob = NoJob
  Jobs = {a, b, c}
  Deps <- ChainDeps
  Types <- TwoTypes
  TypeCap <- CapOfOne
  GlobalCap = 2
  MaxAttempts <- Twice
  MaxNegative <- Twice
  Artifacts = {}
  Assigned <- NoOutputs
  Valid = {v}
  Procs = {p1}
  MaxClaims = 2
INVARIANTS TypeOK RunningHasLease RemainingAccurate WithinCapacity
PROPERTIES ImplementsLifecycle
