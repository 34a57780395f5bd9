\* One wanted query, one round, nothing held out.
SPECIFICATION Spec
CONSTANTS
  q1 = q1
  q2 = q2
  n1 = n1
  NumWorkers = 2
  RunsPerQuery = 1
  Threshold = 50
  MaxFaults = 0
  Query = {q1, q2, n1}
  EvalSets <- MCEvalSets
  Holdout = 0
  MaxIterations = 1
  Reports = {TRUE, FALSE}
  Folder <- MCFolder
INVARIANTS
  NoReportFailure
CHECK_DEADLOCK FALSE
