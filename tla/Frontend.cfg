SPECIFICATION Spec
CONSTANTS
  anson = anson
  beatrice = beatrice
  admin = admin
  MaxAmount = 1
  MaxRequests = 4
  MaxFaults = 1
INVARIANTS
  BusyIsExact
  NeverToSelf
  ScreenIsCurrent
CHECK_DEADLOCK FALSE
