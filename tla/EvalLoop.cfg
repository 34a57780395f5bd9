\* Three tasks on two workers, two rounds, one fault.
SPECIFICATION FairSpec
CONSTANTS
  q1 = q1
  q2 = q2
  n1 = n1
  NumWorkers = 2
  RunsPerQuery = 1
  Threshold = 50
  MaxFaults = 1
  Query = {q1, q2, n1}
  EvalSets <- MCEvalSets
  Holdout = 50
  MaxIterations = 2
  Reports = {TRUE}
  Folder <- MCFolder
INVARIANTS
  VerdictsAreEarned
  FilesAreOwned
  TestStaysUnseen
  BestIsShipped
PROPERTIES
  LoopEnds
CHECK_DEADLOCK FALSE
