SPECIFICATION Spec
CONSTANTS
  a = a
  b = b
  c = c
  x = x
  y = y
  v = v
  p1 = p1
  p2 = p2
  NoJob = NoJob
  Jobs = {a}
  Deps <- NoDeps
  Types <- TwoTypes
  TypeCap <- CapOfOne
  GlobalCap = 1
  MaxAttempts <- Twice
  MaxNegative <- Twice
  Artifacts = {x}
  Assigned <- AllOutputs
  Valid = {v}
  Procs = {p1}
  MaxClaims = 2
PROPERTIES RecoverAcceptsValid
