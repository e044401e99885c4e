\* As delivery.cfg.
CONSTANTS
  e1 = e1
  e2 = e2
  e3 = e3
  e4 = e4
  k1 = k1
  k2 = k2
  Event = {e1, e2, e3, e4}
  Key = {k1, k2}
  KeyOf <- SharedKey
  Initial = {e4}
  Refused = {}
  NoEvent = NoEvent
  MaxRetries = 5
  MaxRuns = 2
  MaxFaults = 2
SPECIFICATION FairSpec
PROPERTIES
  PublishRetried
CHECK_DEADLOCK FALSE
