\* A user who retries as soon as the error is shown.
SPECIFICATION Spec
CONSTANTS
  Streams = {s1, s2, s3, s4}
  Outcomes <- MCTransient
  MaxStages = 0
  Topics = {t1, t2}
  MaxClarifications = 1
INVARIANTS
  AnswersKeepTheirTopic
SYMMETRY MCSymmetry
CHECK_DEADLOCK FALSE
