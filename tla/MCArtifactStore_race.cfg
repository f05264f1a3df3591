SPECIFICATION FairSpec
CONSTANTS
  Procs = {p1, p2}
  Ids = {a1, a2}
  MaxCrashes = 1
  MaxLosses = 1
INVARIANT TypeOK
INVARIANT RowsAreReadable
INVARIANT LoadsReturnWholeFiles
INVARIANT PromisedIsIndexed
PROPERTY IndexConverges
