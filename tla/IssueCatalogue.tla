--------------------------- MODULE IssueCatalogue ---------------------------
(***************************************************************************)
(* What timeline generation promises to its clients, without any of its    *)
(* machinery: a growing catalogue of issues, at most one per topic, each   *)
(* resting on stored articles, and an answer for every request that names  *)
(* an issue of the catalogue about the requested topic, or none at all.    *)
(***************************************************************************)
EXTENDS Naturals, Sequences

CONSTANTS
  Runs,      \* request threads
  Topics,
  Archived,  \* articles that can be cited
  Dates

None == "none"

VARIABLES
  catalogue,  \* the issues in the order of their ids
  wanted,     \* the topic each thread was last asked for
  reply       \* what it was answered

cvars == <<catalogue, wanted, reply>>

\* Every event of an issue cites at least one stored article.
Evidence == (SUBSET [date : Dates, cites : (SUBSET Archived) \ {{}}]) \ {{}}

Issue == [topic : Topics, events : Evidence]

Covered == {catalogue[i].topic : i \in DOMAIN catalogue}

Answer(r, status, issue) == reply' = [reply EXCEPT ![r] = [status |-> status, issue |-> issue]]

Working(r) == reply[r].status = "working"

Ask(r) ==
  /\ ~Working(r)
  /\ \E t \in Topics : wanted' = [wanted EXCEPT ![r] = t]
  /\ Answer(r, "working", 0)
  /\ UNCHANGED catalogue

Add(r) ==
  /\ wanted[r] \notin Covered
  /\ \E issue \in Issue :
       /\ issue.topic = wanted[r]
       /\ catalogue' = Append(catalogue, issue)

\* A new issue, announced to the requester.
Publish(r) ==
  /\ Working(r)
  /\ Add(r)
  /\ Answer(r, "answered", Len(catalogue) + 1)
  /\ UNCHANGED wanted

\* A new issue whose requester does not learn of it.
PublishUnheard(r) ==
  /\ Working(r)
  /\ Add(r)
  /\ Answer(r, "declined", 0)
  /\ UNCHANGED wanted

PointTo(r) ==
  /\ Working(r)
  /\ \E i \in DOMAIN catalogue :
       /\ catalogue[i].topic = wanted[r]
       /\ Answer(r, "answered", i)
  /\ UNCHANGED <<catalogue, wanted>>

Decline(r) ==
  /\ Working(r)
  /\ Answer(r, "declined", 0)
  /\ UNCHANGED <<catalogue, wanted>>

\* All requests in progress are lost at once.
Forget ==
  /\ reply' = [r \in Runs |-> IF Working(r) THEN [status |-> "declined", issue |-> 0] ELSE reply[r]]
  /\ UNCHANGED <<catalogue, wanted>>

Init ==
  /\ catalogue = <<>>
  /\ wanted = [r \in Runs |-> None]
  /\ reply = [r \in Runs |-> [status |-> "silent", issue |-> 0]]

Next ==
  \/ \E r \in Runs :
       Ask(r) \/ Publish(r) \/ PublishUnheard(r) \/ PointTo(r) \/ Decline(r)
  \/ Forget

Spec == Init /\ [][Next]_cvars
=============================================================================
