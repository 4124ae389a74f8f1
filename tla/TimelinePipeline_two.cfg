\* Two requests that interleave on the issue table, with little data each.
SPECIFICATION Spec
CONSTANTS
  Runs = {r1, r2}
  Topics = {t1, t2}
  Articles <- MCArticles2
  Archived <- MCArchived
  Dates <- MCOneDay
  ServiceDate <- MCServiceDate
  Year <- MCYear
  MaxRounds = 1
  MaxChainDepth = 1
  MaxClarifications = 1
  SearchTopK = 1
  MaxScore = 1
  MaxMerged = 1
PROPERTIES
  ImplementsCatalogue
