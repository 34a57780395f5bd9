\* Two concurrent sends of one identity and nothing else.
SPECIFICATION FairSpec
CONSTANTS
  Request = {r1, r2}
  Script = script
  MaxOutOfBand = 0
  MaxFaults = 0
PROPERTIES
  EverySendSettles
CHECK_DEADLOCK FALSE
