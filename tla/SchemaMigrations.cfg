\* Two runners, four starts, the bootstrap and two migrations, two edits of a
\* file.  The counters of starts and edits run out: the model then stops.
SPECIFICATION FairSpec
CONSTANTS
  Runners = {r1, r2}
  Last = 2
  Checksums = {x1, x2}
  MaxStarts = 4
  MaxEdits = 2
CHECK_DEADLOCK FALSE
INVARIANTS
  LedgerExact
  DoneMeansCurrent
PROPERTIES
  RunnersEnd
