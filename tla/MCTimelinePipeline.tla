------------------------ MODULE MCTimelinePipeline ------------------------
(***************************************************************************)
(* Instances of TimelinePipeline.  Dates are day numbers, each in a year   *)
(* of its own.  Article 1 is in the index but was never loaded into        *)
(* MS-SQL; it stands for an id invented by the model, too.                 *)
(***************************************************************************)
EXTENDS TimelinePipeline

MCOneDay == 1..1
MCTwoDays == 1..2

MCArticles2 == 1..2
MCArticles3 == 1..3
MCArticles4 == 1..4

MCArchived == Articles \ {1}

MCServiceDate == [a \in Articles |-> IF a - 1 \in Dates THEN a - 1 ELSE 1]

MCYear == [d \in Dates |-> 2020 + d]
=============================================================================
