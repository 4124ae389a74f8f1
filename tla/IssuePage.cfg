\* Two stored issues and a number that is not stored, two exports, three
\* addresses in turn; a Notion page takes two requests.
SPECIFICATION FairSpec
CONSTANTS
  Calls = {c1, c2}
  Issues = {i1, i2, i3}
  Stored = {i1, i2}
  Batches = 2
  None = None
  MaxVisits = 2
\* Once the calls and visits of the bounds are used up, the model stops.
CHECK_DEADLOCK FALSE
INVARIANTS
  ResultsHold
  AgreesUnlessLate
PROPERTIES
  ExportsEnd
