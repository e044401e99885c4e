\* Files of up to four lines, up to four changes, one line of context.
SPECIFICATION Spec
CONSTANTS
  MaxLines = 4
  MaxChanges = 4
  ContextLines = 1
INVARIANTS
  TypeOK
  ReadsBoth
  ChangesShown
  HunksRight
  ViewKeeps
CHECK_DEADLOCK FALSE
