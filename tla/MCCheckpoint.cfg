SPECIFICATION Spec
CONSTANTS
  verification = verification
  verify_affected = verify_affected
  finalize = finalize
  c1 = c1
  c2 = c2
  Missing = Missing
  Phases = {verification, finalize}
  ManifestFile <- FilePerPhase
  Contents = {c1, c2}
  Overlap = FALSE
  MaxRows = 3
SYMMETRY ContentsAlike
INVARIANTS TypeOK NothingSkipped RepairedMirror ManifestAgrees PublishedIsTaken
PROPERTIES ImplementsStore
