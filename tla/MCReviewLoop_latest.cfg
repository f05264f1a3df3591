SPECIFICATION Spec
CONSTANTS
  NumCands = 2
  Approved = {1, 2}
  Verdicts = {"accept", "revise", "reject"}
  Marks = {m1}
  SlotCount = 1
  MaxBuilds = 1
  MaxImports = 3
  MaxExams = 0
  MaxCrashes = 0
INVARIANT LatestReviewBlocks
CHECK_DEADLOCK FALSE
