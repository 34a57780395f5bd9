\* Two seeds, one compose down, one failure, one mint of the page, both transports.
SPECIFICATION Spec
CONSTANTS
  anson = anson
  beatrice = beatrice
  EarlierFile <- MCEarlierFile
  MaxSeeds = 2
  MaxDowns = 1
  MaxMints = 1
  MaxFaults = 1
INVARIANTS
  TypeOK
  FileNamesASuite
  SeedIsHonest
  ReseedingWorks
CHECK_DEADLOCK FALSE
