\* A document of two blocks, three scripts, one misbehaviour of mmdc.
SPECIFICATION Spec
CONSTANTS
  flow = flow
  fixed = fixed
  chart = chart
  Codes <- MCCodes
  Refused <- MCRefused
  Kind <- MCKind
  Blocks = 2
  Names = {"diagram", "fig"}
  Titles <- MCTitles
  Short <- MCShort
  Guides <- MCGuides
  TopMatches = 3
  MaxRuns = 3
  MaxFaults = 1
INVARIANTS
  ImagesShowTheirCode
  SuccessIsReal
  ReferencesResolve
  AdviceIsBest
CHECK_DEADLOCK FALSE
