\* One fault, a ring of one event and a channel of one message.
SPECIFICATION Spec
CONSTANTS
  e0 = e0
  e1 = e1
  e2 = e2
  c1 = c1
  Event = {e0, e1, e2}
  File = {"file"}
  FileOf <- MCFileOf
  HasContent = {e0, e1}
  Old <- MCOld
  OldPrev <- MCOldPrev
  Instance = {i1, i2}
  Listening = {i1}
  Client = {c1}
  Balanced = {i1, i2}
  Wanted <- MCWanted
  RingSize = 1
  Capacity = 1
  MaxFaults = 1
  None = None
INVARIANTS
  TypeOK
  NothingLost
  FaithfulFeed
  OnceEach
  Chained
PROPERTY Reaches
CHECK_DEADLOCK FALSE
