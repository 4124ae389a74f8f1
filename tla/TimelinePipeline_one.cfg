\* One request after the other, with all the rounds, periods and answers,
\* and the dialogue to its end.
SPECIFICATION FairSpec
CONSTANTS
  Runs = {r1}
  Topics = {t1}
  Articles <- MCArticles4
  Archived <- MCArchived
  Dates <- MCTwoDays
  ServiceDate <- MCServiceDate
  Year <- MCYear
  MaxRounds = 3
  MaxChainDepth = 2
  MaxClarifications = 2
  SearchTopK = 2
  MaxScore = 1
  MaxMerged = 1
INVARIANTS
  CitationsStored
  CitationsSelected
  EveryShownArticleJudged
  RejectedNotShownAgain
  CandidatesInPeriod
  LoopExitHasReason
  ConvergenceExact
  RejectedAllAfterNextSearch
  QuestionsBounded
PROPERTIES
  EvidenceOnlyGrows
  DialoguesSettle
