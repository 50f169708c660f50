\* A checkpoint takes a given-up ticket away.
CONSTANTS
  s1 = s1
  s2 = s2
  Sessions = {s1, s2}
  First = s1
  Typed = {"dispatch", "resume", "take_over"}
  NoOne = NoOne
  MaxFaults = 0
SPECIFICATION Spec
PROPERTY GivenUpStays
CHECK_DEADLOCK FALSE
