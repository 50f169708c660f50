\* Three sessions without faults.
CONSTANTS
  s1 = s1
  s2 = s2
  s3 = s3
  Sessions = {s1, s2, s3}
  First = s1
  Typed = {"dispatch", "resume", "take_over"}
  NoOne = NoOne
  MaxFaults = 0
SPECIFICATION Spec
INVARIANTS TypeOK OneSupervisor
PROPERTIES NotRelaunched HandedOver Completes
CHECK_DEADLOCK FALSE
