\* Two requests of one page and the streams below.
SPECIFICATION FairSpec
CONSTANTS
  Streams = {s1, s2}
  Outcomes <- MCOutcomes
  MaxStages = 1
  Topics = {t1, t2}
  MaxClarifications = 1
INVARIANTS
  PageShowsOutcome
  PendingExact
  AnswersStayInDialogue
  NeverOvercounted
PROPERTIES
  PageSettles
  ImplementsContract
  OutcomeHeard
CHECK_DEADLOCK FALSE
