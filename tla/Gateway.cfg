\* Two calls, three polls each, two restarts or lost answers.
SPECIFICATION FairSpec
CONSTANTS
  Call = {c1, c2}
  MaxTries = 3
  MaxFaults = 2
INVARIANTS
  ReceiptsAgree
PROPERTIES
  ImplementsSend
  EveryCallEnds
CHECK_DEADLOCK FALSE
