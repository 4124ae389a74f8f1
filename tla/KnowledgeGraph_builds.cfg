\* Two builders of an issue whose three events have two representatives, and the
\* loader.
SPECIFICATION FairSpec
CONSTANTS
  a1 = a1
  a2 = a2
  e1 = e1
  e2 = e2
  Builders = {b1, b2}
  Articles <- MCArticles
  Extractions <- MCExtractions
  Reps <- MCReps
  MaxBuilds = 1
  MaxVersion = 2
CHECK_DEADLOCK FALSE
INVARIANTS
  StaleOnlyByOverlap
  FinishedMeansExtracted
PROPERTIES
  BuildsEnd
  ImplementsCatalogue
