\* A resume saves what it loaded before the analysis completed.
CONSTANTS
  s1 = s1
  s2 = s2
  Sessions = {s1, s2}
  First = s1
  Typed = {"dispatch", "resume", "take_over"}
  NoOne = NoOne
  MaxFaults = 1
SPECIFICATION Spec
PROPERTY CompletedStays
CHECK_DEADLOCK FALSE
