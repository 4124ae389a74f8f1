-------------------------- MODULE MCKnowledgeGraph --------------------------
(***************************************************************************)
(* Instances of KnowledgeGraph.  The model draws nothing, or two entities  *)
(* and a relation between them; an issue has two or three events, of which *)
(* two have the same representative.                                       *)
(***************************************************************************)
EXTENDS KnowledgeGraph

CONSTANTS a1, a2, e1, e2

MCArticles == {a1, a2}

MCArticle == {a1}

MCExtractions ==
  {[entities |-> {}, relations |-> {}],
   [entities |-> {e1, e2}, relations |-> {<<e1, e2>>}]}

MCRepsOne == [b \in Builders |-> <<a1, a1>>]

MCReps == [b \in Builders |-> <<a1, a2, a1>>]
=============================================================================
