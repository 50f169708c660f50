SPECIFICATION Spec
CONSTANTS
  verification = verification
  verify_affected = verify_affected
  finalize = finalize
  c1 = c1
  c2 = c2
  Missing = Missing
  Phases = {verification, verify_affected}
  ManifestFile <- SharedFile
  Contents = {c1, c2}
  Overlap = FALSE
  MaxRows = 3
SYMMETRY ContentsAlike
INVARIANTS ManifestAgrees
