\* Two sessions and two faults; without the liveness property.
CONSTANTS
  s1 = s1
  s2 = s2
  Sessions = {s1, s2}
  First = s1
  Typed = {"dispatch", "resume", "take_over"}
  NoOne = NoOne
  MaxFaults = 2
SPECIFICATION Spec
INVARIANTS TypeOK OneSupervisor
PROPERTIES NotRelaunched HandedOver
CHECK_DEADLOCK FALSE
