\* Two names for branches, one of them taken, two versions of a base branch that is not the default
\* branch, one fault.
SPECIFICATION Spec
CONSTANTS
  w1 = w1
  w2 = w2
  ev1 = ev1
  ev2 = ev2
  f1 = f1
  f2 = f2
  Workflow = {w1, w2}
  Event = {ev1, ev2}
  EventOf <- MCEventOf
  File = {f1, f2}
  FileOf <- MCFileOf
  Deletes = {w2}
  Branch = {b1, b2}
  Taken = {b2}
  BaseIsDefault = FALSE
  Other = Other
  MaxUpstream = 1
  MaxFaults = 1
  None = None
INVARIANTS
  TypeOK
  OwnChange
  Truthful
PROPERTIES
  ImplementsPullRequests
  Settles
CHECK_DEADLOCK FALSE
