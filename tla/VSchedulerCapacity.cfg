SPECIFICATION Spec
CONSTANTS
  a = a
  b = b
  c = c
  x = x
  y = y
  v = v
  p1 = p1
  p2 = p2
  NoJob = NoJob
  Jobs = {a, c}
  Deps <- NoDeps
  Types <- TwoTypes
  TypeCap <- CapOfOne
  GlobalCap = 1
  MaxAttempts <- Twice
  MaxNegative <- Twice
  Artifacts = {}
  Assigned <- NoOutputs
  Valid = {v}
  Procs = {p1, p2}
  MaxClaims = 1
SYMMETRY Alike
INVARIANTS WithinCapacity
