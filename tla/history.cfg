\* A channel of one event, so that the debounce task has to wait.
CONSTANTS
  a = a
  b = b
  big = big
  Content = {a, b, big}
  Oversize = {big}
  Absent = Absent
  OutCapacity = 1
  MaxEdits = 3
  MaxRuns = 2
  MaxFaults = 1
SPECIFICATION FairSpec
INVARIANTS
  TypeOK
  Linked
  KnownReadable
PROPERTIES
  Settles
CHECK_DEADLOCK FALSE
