\* One answer whose second paragraph has no tag.
SPECIFICATION Spec
CONSTANTS
  Questions = {q1}
  Chunks <- MCChunks
  Tools = {search}
  MaxExchanges = 1
  MaxChunks <- MCOneAnswer
  MaxCalls = 1
INVARIANTS
  UnmarkedIsGeneral
\* After MaxExchanges exchanges nothing more is asked.
CHECK_DEADLOCK FALSE
