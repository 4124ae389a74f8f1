\* Two exchanges, with tags split over chunks in many ways.
SPECIFICATION FairSpec
CONSTANTS
  Questions = {q1}
  Chunks <- MCChunks
  Tools = {search}
  MaxExchanges = 2
  MaxChunks <- MCMaxChunks
  MaxCalls = 1
INVARIANTS
  AnswerFollowsTags
PROPERTIES
  HistoryHoldsExchanges
  QuestionsEnd
\* After MaxExchanges exchanges nothing more is asked.
CHECK_DEADLOCK FALSE
