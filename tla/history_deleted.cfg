\* As history.cfg, with no fault.
CONSTANTS
  a = a
  b = b
  big = big
  Content = {a, b, big}
  Oversize = {big}
  Absent = Absent
  OutCapacity = 1
  MaxEdits = 3
  MaxRuns = 2
  MaxFaults = 0
SPECIFICATION FairSpec
PROPERTIES
  RecordSettles
CHECK_DEADLOCK FALSE
