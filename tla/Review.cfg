\* Two evals of two configurations; two iterations of two runs, two edits.
SPECIFICATION Spec
CONSTANTS
  Evals = {0, 1}
  NumConfigs = 2
  RunNumbers = {1}
  Rates = {0, 1}
  MaxRegrades = 1
  Runs = {1, 2}
  Texts = {"", "late"}
  MaxEdits = 2
  MaxLaunches = 2
  MaxPosts = 3
  MaxFaults = 1
INVARIANTS
  NumbersAreHonest
  CompleteMeansSaved
CHECK_DEADLOCK FALSE
