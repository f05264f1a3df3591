SPECIFICATION Spec
CONSTANTS
  NumCands = 2
  Approved = {1, 2}
  Verdicts = {"accept", "reject"}
  Marks = {m1}
  SlotCount = 1
  MaxBuilds = 2
  MaxImports = 2
  MaxExams = 1
  MaxCrashes = 1
INVARIANT CopiesAgree
INVARIANT ExamVerdictsReachPool
INVARIANT NoRejectedInExam
INVARIANT ManifestIsLast
PROPERTY HistoryGrows
CHECK_DEADLOCK FALSE
