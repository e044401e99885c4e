\* One operator, two forms sent, two requests, two decisions, one fault.
SPECIFICATION Spec
CONSTANTS
  u1 = u1
  User = {u1}
  MaxSession = 2
  MaxRequest = 2
  MaxAdmin = 2
  MaxFaults = 1
INVARIANTS
  TypeOK
  Revoked
  Tokened
PROPERTIES
  OnlyApproved
  RejectionHolds
  SignInEnds
CHECK_DEADLOCK FALSE
