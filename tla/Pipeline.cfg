\* Three concurrent sends of one identity, one script, one failed call or restart.
SPECIFICATION FairSpec
CONSTANTS
  Request = {r1, r2, r3}
  Script = script
  MaxOutOfBand = 1
  MaxFaults = 1
INVARIANTS
  TypeOK
  GapsAreHeld
PROPERTIES
  ImplementsSend
  WaitsOnlyBehindAbandoned
CHECK_DEADLOCK FALSE
