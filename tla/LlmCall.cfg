\* The limits of core/config.py.
SPECIFICATION Spec
CONSTANTS
  RateLimitAttempts = 2
  ServiceAttempts = 4
INVARIANTS
  BudgetsSpentExactly
  SecondCallHasReason
  SuccessRestsOnLastAnswer
