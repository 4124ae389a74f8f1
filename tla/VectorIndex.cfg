\* Both scripts over two successive files.
SPECIFICATION FairSpec
CONSTANTS
  a1 = a1
  a2 = a2
  Bad = Bad
  Ids <- MCIds
  Sources <- MCSources
  BatchSize = 2
  LoadBatchSize = 1
  MaxAttempts = 2
  MaxGen = 2
INVARIANTS
  ReportExact
  IndexAgreesWithTable
PROPERTIES
  ResumeKeepsDense
  BuildsEnd
