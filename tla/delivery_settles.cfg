\* One attempt, so that entries are marked failed, and a refused event.
CONSTANTS
  e1 = e1
  e2 = e2
  e3 = e3
  e4 = e4
  k1 = k1
  k2 = k2
  Event = {e1, e2, e3, e4}
  Key = {k1, k2}
  KeyOf <- SharedKey
  Initial = {e4}
  Refused = {e2}
  NoEvent = NoEvent
  MaxRetries = 1
  MaxRuns = 2
  MaxFaults = 1
SPECIFICATION FairSpec
PROPERTIES
  EntryFate
  RestartDelivers
  LoopReturns
CHECK_DEADLOCK FALSE
