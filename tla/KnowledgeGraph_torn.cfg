\* A builder reads a graph that another one replaces.
SPECIFICATION Spec
CONSTANTS
  a1 = a1
  a2 = a2
  e1 = e1
  e2 = e2
  Builders = {b1, b2}
  Articles <- MCArticle
  Extractions <- MCExtractions
  Reps <- MCRepsOne
  MaxBuilds = 1
  MaxVersion = 2
CHECK_DEADLOCK FALSE
INVARIANTS
  ReadGraphJoined
