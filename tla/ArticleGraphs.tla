--------------------------- MODULE ArticleGraphs ---------------------------
(***************************************************************************)
(* What the store promises about the knowledge graphs of articles: each    *)
(* article has the rows of one extraction or none, a new extraction takes  *)
(* the place of all earlier rows in one step and marks the article, and    *)
(* loading an article removes the mark but no row.                         *)
(***************************************************************************)
EXTENDS Integers, FiniteSets

CONSTANTS
  Articles,
  Extractions  \* [entities, relations] a language model can draw from an article

VARIABLES
  graph,   \* article -> [entities, relations], the rows of the two tables
  marked,  \* articles with entities_extracted_at
  serial   \* extractions saved so far: rows of different ones have different keys

vars == <<graph, marked, serial>>

\* Rows get keys from identity columns; n stands for those of one extraction.
RowsOf(x, n) ==
  [entities  |-> {<<n, e>> : e \in x.entities},
   relations |-> {<<<<n, r[1]>>, <<n, r[2]>>>> : r \in x.relations}]

NoRows == [entities |-> {}, relations |-> {}]

Init ==
  /\ graph = [a \in Articles |-> NoRows]
  /\ marked = {}
  /\ serial = 0

Replace(a, x) ==
  /\ graph' = [graph EXCEPT ![a] = RowsOf(x, serial + 1)]
  /\ marked' = marked \cup {a}
  /\ serial' = serial + 1

Load(A) ==
  /\ marked' = marked \ A
  /\ UNCHANGED <<graph, serial>>

Next ==
  \/ \E a \in Articles, x \in Extractions : Replace(a, x)
  \/ \E A \in SUBSET Articles : Load(A)

Spec == Init /\ [][Next]_vars
=============================================================================
