\* Two connections, one fault, a channel of one message.
SPECIFICATION Spec
CONSTANTS
  q1 = q1
  d1 = d1
  FileQuery = {q1}
  KindOf <- MCKindOf
  Diff = {d1}
  FormatOf <- MCFormatOf
  PathOf <- MCPathOf
  Capacity = 1
  CacheSize = 1
  MaxConn = 2
  MaxFaults = 1
  None = None
INVARIANTS
  TypeOK
  RegistrySound
  Routed
  DiffSound
PROPERTIES
  ImplementsQuestions
  Ends
CHECK_DEADLOCK FALSE
