\* Two commands may overlap; nobody takes over.
CONSTANTS
  s1 = s1
  s2 = s2
  Sessions = {s1, s2}
  First = s1
  Typed = {"resume"}
  NoOne = NoOne
  MaxFaults = 1
SPECIFICATION Spec
INVARIANT OneCoordinator
CHECK_DEADLOCK FALSE
