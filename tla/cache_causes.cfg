CONSTANTS
  r1 = r1
  r2 = r2
  r3 = r3
  k1 = k1
  k2 = k2
  c1 = c1
  c2 = c2
  NoRow = NoRow
  Absent = Absent
  List = List
  Invalid = Invalid
  Requests <- MCRequests
  Keys <- MCKeys
  Contents <- MCContents
  Jobs <- MCJobs
  UnsplitJobs <- MCUnsplitJobs
  Rewritten <- MCRewritten
SPECIFICATION FairSpec
CHECK_DEADLOCK FALSE
INVARIANTS TypeOK StaleHasCause
PROPERTY EventuallyFresh
