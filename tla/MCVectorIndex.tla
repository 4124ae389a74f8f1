--------------------------- MODULE MCVectorIndex ---------------------------
(***************************************************************************)
(* Instances of VectorIndex.  One file repeats an article within a batch   *)
(* of two, one in a later batch; one has fewer articles than the others.   *)
(***************************************************************************)
EXTENDS VectorIndex

CONSTANTS a1, a2

MCIds == {a1, a2}

MCSources == {<<a1, a2, a1>>, <<a1, a1, Bad, a2>>, <<a2>>}
=============================================================================
