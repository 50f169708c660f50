\* Two sessions and one fault.
CONSTANTS
  s1 = s1
  s2 = s2
  Sessions = {s1, s2}
  First = s1
  Typed = {"dispatch", "resume", "take_over"}
  NoOne = NoOne
  MaxFaults = 1
SPECIFICATION Spec
INVARIANTS TypeOK OneSupervisor
PROPERTIES NotRelaunched HandedOver Completes
CHECK_DEADLOCK FALSE
