\* A checkpoint takes the ticket of a live supervisor away.
CONSTANTS
  s1 = s1
  s2 = s2
  Sessions = {s1, s2}
  First = s1
  Typed = {"dispatch", "resume", "take_over"}
  NoOne = NoOne
  MaxFaults = 0
SPECIFICATION Spec
INVARIANT SupervisorAlone
CHECK_DEADLOCK FALSE
