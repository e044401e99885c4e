\* As history.cfg, with one edit and no fault.
CONSTANTS
  a = a
  b = b
  big = big
  Content = {a, b, big}
  Oversize = {big}
  Absent = Absent
  OutCapacity = 1
  MaxEdits = 1
  MaxRuns = 2
  MaxFaults = 0
SPECIFICATION Spec
INVARIANTS
  FullCurrentState
CHECK_DEADLOCK FALSE
