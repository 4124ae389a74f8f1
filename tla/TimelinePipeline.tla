-------------------------- MODULE TimelinePipeline --------------------------
(***************************************************************************)
(* The timeline generation pipeline (app/pipeline.py) together with the    *)
(* issue table it shares (infra/repository.py) and the dialogue of the     *)
(* client that drives it (web IssueListView.vue, api/routes/issues.py).    *)
(*                                                                         *)
(* A run is one request thread executing TimelinePipeline.generate.  Runs  *)
(* interleave between their blocking calls: one action stands for the code *)
(* from the answer of one language-model call, search or transaction to    *)
(* the issue of the next one.  What the language model and the search      *)
(* index answer is chosen nondeterministically within what the response    *)
(* models (core/models.py) let through.                                    *)
(***************************************************************************)
EXTENDS Integers, Sequences, FiniteSets

CONSTANTS
  Runs,               \* request threads
  Topics,             \* normalised, non-empty topics
  Articles,           \* article ids known to the index or invented by the model
  Archived,           \* the ids that get_articles can restore from MS-SQL
  Dates,              \* calendar dates, as integers
  ServiceDate,        \* article -> service_date
  Year,               \* date -> calendar year
  MaxRounds,          \* TIMELINE_MAX_ROUNDS
  MaxChainDepth,      \* TIMELINE_MAX_CHAIN_DEPTH
  MaxClarifications,  \* TIMELINE_MAX_CLARIFICATIONS
  SearchTopK,         \* TIMELINE_SEARCH_TOP_K
  MaxScore,           \* relevance scores are ranked 1..MaxScore
  MaxMerged           \* bound: events in one answer of P8

ASSUME DataAssumption ==
  /\ Topics # {}
  /\ Archived \subseteq Articles
  /\ Dates \subseteq Int
  /\ Dates # {}
  /\ ServiceDate \in [Articles -> Dates]
  /\ Year \in [Dates -> Int]

\* core/config.py _positive_int: every limit is at least 1.
ASSUME LimitAssumption ==
  /\ MaxRounds \in Nat \ {0}
  /\ MaxChainDepth \in Nat \ {0}
  /\ MaxClarifications \in Nat \ {0}
  /\ SearchTopK \in Nat \ {0}
  /\ MaxScore \in Nat \ {0}
  /\ MaxMerged \in Nat \ {0}

None == "none"

Windows == {w \in [from : Dates, to : Dates] : w.from <= w.to}

Stages == {"idle", "lookup", "intent", "hypothetical", "search", "fallback",
           "select", "reselect", "expand", "sufficiency", "hypothesize",
           "merge", "save", "over"}

Active == Stages \ {"idle", "over"}

Terminations ==
  {"sufficiency_passed", "converged", "depth_limit", "round_limit", "cached"}

\* GenerationStatus, plus the two ways generate can raise.
Outcomes == {"completed", "reused", "needs_clarification", "search_no_hits",
             "selection_rejected_all", "failed", "invariant_error"}

\* An event of a timeline: its date and the articles it cites.
Events == [date : Dates, cites : SUBSET Articles]

Row == [topic : Topics, events : SUBSET Events]

VARIABLES
  issues,  \* the issue table in issue_id order, events and links included
  run      \* run[r]: the request and the local variables of generate

vars == <<issues, run>>

RunState ==
  [stage       : Stages,
   topic       : Topics,
   asked       : Nat,                       \* clarification_count
   userDate    : BOOLEAN,                   \* user_specified_date
   window      : Windows,                   \* date_from, date_to
   round       : Nat,
   score       : [Articles -> 0..MaxScore], \* selected_by_id, 0: absent
   rejected    : SUBSET Articles,           \* ids of rejected_history
   candidates  : SUBSET Articles,           \* candidate_ids
   shown       : SUBSET Articles,           \* keys of articles_by_id
   previous    : SUBSET Articles,           \* previous_selected_ids
   chosen      : SUBSET Articles,           \* ids of round_selected
   depth       : Nat,                       \* chain_depth
   termination : Terminations \cup {None},
   events      : SUBSET Events,             \* the validated IssueCreate
   outcome     : Outcomes \cup {None},
   issueId     : Nat,                       \* 0: no issue_id
   before      : SUBSET Articles]           \* history: selected when the round began

\* No request: the topic and the window mean nothing here.
Blank ==
  [stage |-> "idle", topic |-> CHOOSE t \in Topics : TRUE, asked |-> 0,
   userDate |-> FALSE, window |-> CHOOSE w \in Windows : TRUE,
   round |-> 0, score |-> [a \in Articles |-> 0], rejected |-> {}, candidates |-> {},
   shown |-> {}, previous |-> {}, chosen |-> {}, depth |-> 0,
   termination |-> None, events |-> {}, outcome |-> None, issueId |-> 0,
   before |-> {}]

Selected(s) == {a \in Articles : s.score[a] > 0}

Inside(w) == {a \in Articles : w.from <= ServiceDate[a] /\ ServiceDate[a] <= w.to}

StoredTopics == {issues[i].topic : i \in DOMAIN issues}

-----------------------------------------------------------------------------
(***************************************************************************)
(* Leaving generate, and leaving the collection loop                       *)
(***************************************************************************)

\* generate returns or raises: the request and the outcome remain.
Over(s, outcome) ==
  [Blank EXCEPT !.stage = "over", !.topic = s.topic, !.asked = s.asked, !.outcome = outcome]

\* TimelineGenerationResult of a run that got through the search.
Result(s, outcome) ==
  [Over(s, outcome) EXCEPT !.round = s.round, !.termination = s.termination]

\* The code behind the loop: nothing selected, no reason, or on to P8.
LeaveLoop(s, reason) ==
  LET t == [s EXCEPT !.termination = reason] IN
  IF Selected(s) = {} THEN Result(t, "selection_rejected_all")
  ELSE IF reason = None THEN Over(t, "invariant_error")
  ELSE [t EXCEPT !.stage = "merge", !.candidates = {}, !.chosen = {}]

\* The next iteration of `for round_number in range(1, max_rounds + 1)`.
NextRound(s) ==
  IF s.round < MaxRounds
  THEN [s EXCEPT !.stage = "search", !.round = s.round + 1,
                 !.candidates = {}, !.chosen = {}, !.before = Selected(s)]
  ELSE LeaveLoop(s, None)

-----------------------------------------------------------------------------
(***************************************************************************)
(* generate: reuse, P1, P2                                                 *)
(***************************************************************************)

Move(r, s) == run' = [run EXCEPT ![r] = s]

Reuse(r) ==
  /\ run[r].stage = "lookup"
  /\ \E i \in DOMAIN issues :
       /\ issues[i].topic = run[r].topic
       /\ Move(r, [Over(run[r], "reused") EXCEPT !.termination = "cached", !.issueId = i])
  /\ UNCHANGED issues

Miss(r) ==
  /\ run[r].stage = "lookup"
  /\ run[r].topic \notin StoredTopics
  /\ Move(r, [run[r] EXCEPT !.stage = "intent"])
  /\ UNCHANGED issues

\* Mutant of MayAsk: off by one.
MayAskOnceMore(s) == s.asked <= MaxClarifications

MayAsk(s) == s.asked < MaxClarifications

InterpretIntent(r) ==
  /\ run[r].stage = "intent"
  /\ \E needsClarification, userDate \in BOOLEAN :
       Move(r, IF needsClarification /\ MayAsk(run[r])
               THEN Over(run[r], "needs_clarification")
               ELSE [run[r] EXCEPT !.stage = "hypothetical", !.userDate = userDate])
  /\ UNCHANGED issues

BuildHypotheticalTimeline(r) ==
  /\ run[r].stage = "hypothetical"
  /\ \E w \in Windows :
       Move(r, [run[r] EXCEPT !.stage = "search", !.window = w, !.round = 1])
  /\ UNCHANGED issues

-----------------------------------------------------------------------------
(***************************************************************************)
(* P3 and the search                                                       *)
(***************************************************************************)

\* Mutant of Bounded: a draft outside of the period is taken as it is.
BoundedUnlessDisjoint(draft, w) ==
  LET from == IF draft.from > w.from THEN draft.from ELSE w.from
      to   == IF draft.to < w.to THEN draft.to ELSE w.to
  IN  IF from > to THEN draft ELSE [from |-> from, to |-> to]

\* The period of the draft, cut to the current period; a draft that lies
\* outside of it is replaced by the whole current period.
Bounded(draft, w) ==
  LET from == IF draft.from > w.from THEN draft.from ELSE w.from
      to   == IF draft.to < w.to THEN draft.to ELSE w.to
  IN  IF from > to THEN w ELSE [from |-> from, to |-> to]

AppliesPeriod(s) == s.userDate \/ s.round > 1

\* What the index may return for a draft of P3: at most top_k articles.
Hits(s, draft) ==
  {h \in SUBSET (IF AppliesPeriod(s) THEN Inside(Bounded(draft, s.window)) ELSE Articles) :
     Cardinality(h) <= SearchTopK}

AsksPeriod(s, found) ==
  /\ s.round = 1
  /\ ~s.userDate
  /\ \E a, b \in found : Year[ServiceDate[a]] # Year[ServiceDate[b]]
  /\ MayAsk(s)

\* Mutant of NothingNew: gives up in the first round already.
NothingNewAtOnce(s) == IF s.round >= 1 THEN LeaveLoop(s, "converged") ELSE NextRound(s)

\* A round without candidates, or without a selected one, ends the loop from
\* the second round on; after the first round the search is tried once more.
NothingNew(s) == IF s.round >= 2 THEN LeaveLoop(s, "converged") ELSE NextRound(s)

\* The code between the search and P4.
WithCandidates(s, found) ==
  IF AsksPeriod(s, found) THEN Over(s, "needs_clarification")
  ELSE IF found = {} THEN NothingNew(s)
  ELSE [s EXCEPT !.stage = "select", !.candidates = found, !.shown = @ \cup found]

\* Mutant of Restored: rejected articles come up again.
RestoredUnfiltered(s, hits) == hits \cap Archived

Restored(s, hits) == (hits \ s.rejected) \cap Archived

Search(r) ==
  /\ run[r].stage = "search"
  /\ \E draft \in Windows : \E hits \in Hits(run[r], draft) :
       LET found == Restored(run[r], hits) IN
       Move(r, IF run[r].round = 1 /\ found = {}
               THEN [run[r] EXCEPT !.stage = "fallback"]
               ELSE WithCandidates(run[r], found))
  /\ UNCHANGED issues

\* Hybrid search for the topic itself, without a period and unfiltered.
FallbackSearch(r) ==
  /\ run[r].stage = "fallback"
  /\ \E hits \in SUBSET Articles :
       /\ Cardinality(hits) <= SearchTopK
       /\ Move(r, IF hits \cap Archived = {}
                  THEN Result(run[r], "search_no_hits")
                  ELSE WithCandidates(run[r], hits \cap Archived))
  /\ UNCHANGED issues

-----------------------------------------------------------------------------
(***************************************************************************)
(* P4: selection                                                           *)
(***************************************************************************)

\* An ArticleSelection: the best score given to each id it selects, the ids
\* it rejects, and whether it names an id twice in one of the two lists.
Answers == [score : [Articles -> 0..MaxScore], rejected : SUBSET Articles, repeats : BOOLEAN]

Picked(answer) == {a \in Articles : answer.score[a] > 0}

Classified(answer) == Picked(answer) \cup answer.rejected

IsComplete(answer, candidates) ==
  /\ ~answer.repeats
  /\ Picked(answer) \cap answer.rejected = {}
  /\ Classified(answer) = candidates

\* Mutant of Rejections: candidates that the answer leaves out are forgotten.
RejectionsGivenOnly(answer, candidates) == (answer.rejected \cap candidates) \ Picked(answer)

\* _selection_details drops ids that were not asked about; a candidate the
\* answer leaves out counts as rejected.
Rejections(answer, candidates) ==
  ((answer.rejected \cap candidates) \ Picked(answer))
    \cup (candidates \ Classified(answer))

\* Mutants of MergedScore: ids that were not asked about are selected; every
\* round starts from nothing.
MergedScoreUnfiltered(s, answer) ==
  [a \in Articles |-> IF answer.score[a] > s.score[a] THEN answer.score[a] ELSE s.score[a]]

MergedScoreFresh(s, answer) ==
  [a \in Articles |-> IF a \in s.candidates THEN answer.score[a] ELSE 0]

\* selected_by_id keeps the higher score of an article selected twice.
MergedScore(s, answer) ==
  [a \in Articles |-> IF a \in s.candidates /\ answer.score[a] > s.score[a]
                      THEN answer.score[a] ELSE s.score[a]]

Accept(s, answer) ==
  LET chosen == Picked(answer) \cap s.candidates
      t == [s EXCEPT !.score = MergedScore(s, answer),
                     !.rejected = @ \cup Rejections(answer, s.candidates)]
  IN  IF chosen # {} THEN [t EXCEPT !.stage = "expand", !.chosen = chosen, !.candidates = {}]
      ELSE NothingNew(t)

SelectArticles(r) ==
  /\ run[r].stage = "select"
  /\ \E answer \in Answers :
       Move(r, IF /\ IsComplete(answer, run[r].candidates)
                  /\ Picked(answer) \cap run[r].candidates # {}
               THEN Accept(run[r], answer)
               ELSE [run[r] EXCEPT !.stage = "reselect"])
  /\ UNCHANGED issues

\* The single correction: its answer replaces the first one whatever it says.
ReselectArticles(r) ==
  /\ run[r].stage = "reselect"
  /\ \E answer \in Answers : Move(r, Accept(run[r], answer))
  /\ UNCHANGED issues

-----------------------------------------------------------------------------
(***************************************************************************)
(* P5, P6, P7                                                              *)
(***************************************************************************)

\* Related events survive when they come from an article chosen in this
\* round and fall into the current period.
Related(s, answer) ==
  {e \in answer : /\ e.source \in s.chosen
                  /\ s.window.from <= e.date
                  /\ e.date <= s.window.to}

ExtractRelatedEvents(r) ==
  /\ run[r].stage = "expand"
  /\ \E answer \in SUBSET [source : Articles, date : Dates] :
       Move(r, [run[r] EXCEPT !.stage = "sufficiency", !.chosen = {},
                              !.depth = IF Related(run[r], answer) # {} THEN @ + 1 ELSE @])
  /\ UNCHANGED issues

NewIds(s) == Selected(s) \ s.previous

Converges(s) == s.round >= 2 /\ NewIds(s) = {}

\* Mutant of Verdict: off by one at the round limit.
VerdictLate(s, sufficient) ==
  IF sufficient THEN "sufficiency_passed"
  ELSE IF Converges(s) THEN "converged"
  ELSE IF s.depth >= MaxChainDepth THEN "depth_limit"
  ELSE IF s.round > MaxRounds THEN "round_limit"
  ELSE None

\* The first reason that applies, in the order of the code.
Verdict(s, sufficient) ==
  IF sufficient THEN "sufficiency_passed"
  ELSE IF Converges(s) THEN "converged"
  ELSE IF s.depth >= MaxChainDepth THEN "depth_limit"
  ELSE IF s.round >= MaxRounds THEN "round_limit"
  ELSE None

ReviewSufficiency(r) ==
  /\ run[r].stage = "sufficiency"
  /\ \E sufficient \in BOOLEAN, w \in Windows :  \* w = window: no update
       LET s == [run[r] EXCEPT !.window = w]
           t == Verdict(s, sufficient)
       IN  Move(r, IF t # None THEN LeaveLoop(s, t) ELSE [s EXCEPT !.stage = "hypothesize"])
  /\ UNCHANGED issues

\* Mutant of GenerateHypotheses: what was selected so far is not remembered.
GenerateHypothesesForgetful(r) ==
  /\ run[r].stage = "hypothesize"
  /\ Move(r, NextRound(run[r]))
  /\ UNCHANGED issues

GenerateHypotheses(r) ==
  /\ run[r].stage = "hypothesize"
  /\ Move(r, NextRound([run[r] EXCEPT !.previous = Selected(run[r])]))
  /\ UNCHANGED issues

-----------------------------------------------------------------------------
(***************************************************************************)
(* P8, citation check, save                                                *)
(***************************************************************************)

\* Mutant of Validated: events that lost all their citations are kept.
ValidatedWithEmpty(s, merged) ==
  {[date |-> merged[i].date, cites |-> merged[i].cites \cap Archived \cap Selected(s)] :
     i \in DOMAIN merged}

\* _validated_issue: citations that are stored and selected survive, events
\* left without one are dropped, equal (date, articles) events are one.
Validated(s, merged) ==
  LET kept(m) == [date |-> m.date, cites |-> m.cites \cap Archived \cap Selected(s)]
  IN  {e \in {kept(merged[i]) : i \in DOMAIN merged} : e.cites # {}}

\* MergedTimeline.events; an event without a citation is no valid answer.
Merges == UNION {[1..n -> {e \in Events : e.cites # {}}] : n \in 0..MaxMerged}

\* Mutant of MergeTimeline: an issue without events goes on to the save.
MergeTimelineUnchecked(r) ==
  /\ run[r].stage = "merge"
  /\ \E merged \in Merges :
       Move(r, [run[r] EXCEPT !.stage = "save", !.events = Validated(run[r], merged)])
  /\ UNCHANGED issues

MergeTimeline(r) ==
  /\ run[r].stage = "merge"
  /\ \E merged \in Merges :
       LET events == Validated(run[r], merged) IN
       Move(r, IF events = {} THEN Over(run[r], "failed")
               ELSE [run[r] EXCEPT !.stage = "save", !.events = events])
  /\ UNCHANGED issues

NewRow(s) == [topic |-> s.topic, events |-> s.events]

\* One transaction; the UNIQUE constraint on topic refuses a second issue.
SaveIssue(r) ==
  /\ run[r].stage = "save"
  /\ IF run[r].topic \in StoredTopics
     THEN /\ Move(r, Over(run[r], "failed"))
          /\ UNCHANGED issues
     ELSE /\ issues' = Append(issues, NewRow(run[r]))
          /\ Move(r, [Result(run[r], "completed") EXCEPT !.issueId = Len(issues) + 1])

\* The transaction commits but the connection breaks before commit returns.
SaveUnacknowledged(r) ==
  /\ run[r].stage = "save"
  /\ run[r].topic \notin StoredTopics
  /\ issues' = Append(issues, NewRow(run[r]))
  /\ Move(r, Over(run[r], "failed"))

\* A model, search or database call raises.
CallFails(r) ==
  /\ run[r].stage \in Active
  /\ Move(r, Over(run[r], "failed"))
  /\ UNCHANGED issues

-----------------------------------------------------------------------------
(***************************************************************************)
(* The client and the process                                              *)
(***************************************************************************)

Settled(s) == s.stage = "idle" \/ (s.stage = "over" /\ s.outcome # "needs_clarification")

Request(topic, asked) ==
  [Blank EXCEPT !.stage = "lookup", !.topic = topic, !.asked = asked]

\* submitTopic: a new dialogue, also instead of the answer to a question.
SubmitTopic(r) ==
  /\ run[r].stage \notin Active
  /\ \E t \in Topics : Move(r, Request(t, 0))
  /\ UNCHANGED issues

\* Mutant of SubmitClarification: every answer counts as the first one.
SubmitClarificationUncounted(r) ==
  /\ run[r].stage = "over"
  /\ run[r].outcome = "needs_clarification"
  /\ Move(r, Request(run[r].topic, 1))
  /\ UNCHANGED issues

\* submitClarification: the same topic again, with the attempt number that
\* came with the question.
SubmitClarification(r) ==
  /\ run[r].stage = "over"
  /\ run[r].outcome = "needs_clarification"
  /\ Move(r, Request(run[r].topic, run[r].asked + 1))
  /\ UNCHANGED issues

\* retryGeneration: the last request unchanged.
RetryGeneration(r) ==
  /\ run[r].stage = "over"
  /\ run[r].outcome \in {"failed", "invariant_error"}
  /\ Move(r, Request(run[r].topic, run[r].asked))
  /\ UNCHANGED issues

\* The API process dies: the request threads are lost, the table is not.  The
\* page sees its stream break and offers a retry.
Restart ==
  /\ \E r \in Runs : run[r].stage \in Active
  /\ run' = [r \in Runs |-> IF run[r].stage \in Active THEN Over(run[r], "failed") ELSE run[r]]
  /\ UNCHANGED issues

-----------------------------------------------------------------------------
Init ==
  /\ issues = <<>>
  /\ run = [r \in Runs |-> Blank]

Generate(r) ==
  \/ Reuse(r)
  \/ Miss(r)
  \/ InterpretIntent(r)
  \/ BuildHypotheticalTimeline(r)
  \/ Search(r)
  \/ FallbackSearch(r)
  \/ SelectArticles(r)
  \/ ReselectArticles(r)
  \/ ExtractRelatedEvents(r)
  \/ ReviewSufficiency(r)
  \/ GenerateHypotheses(r)
  \/ MergeTimeline(r)
  \/ SaveIssue(r)
  \/ SaveUnacknowledged(r)
  \/ CallFails(r)

Client(r) ==
  \/ SubmitTopic(r)
  \/ SubmitClarification(r)
  \/ RetryGeneration(r)

Next ==
  \/ \E r \in Runs : Generate(r) \/ Client(r)
  \/ Restart

Spec == Init /\ [][Next]_vars

\* A request thread keeps running: every external call returns or raises.
\* A user who was asked a question answers it.
Fairness ==
  \A r \in Runs :
    /\ WF_vars(Generate(r))
    /\ WF_vars(SubmitClarification(r))

FairSpec == Spec /\ Fairness

-----------------------------------------------------------------------------
(***************************************************************************)
(* Properties                                                              *)
(***************************************************************************)

\* The variables keep their types.
TypeOK ==
  /\ issues \in Seq(Row)
  /\ run \in [Runs -> RunState]

\* Two requests may look a topic up before either of them has saved it (the
\* lookup and the save are separate transactions, minutes apart): still, one
\* topic never gets two issues.
UniqueTopics ==
  \A i, j \in DOMAIN issues : issues[i].topic = issues[j].topic => i = j

\* A completed or reused result names an existing issue about its own topic.
ResultsNameTheirIssue ==
  \A r \in Runs : run[r].outcome \in {"completed", "reused"} =>
    /\ run[r].issueId \in DOMAIN issues
    /\ issues[run[r].issueId].topic = run[r].topic

\* What is saved is non-empty, and each event cites stored articles only.
CitationsStored ==
  \A i \in DOMAIN issues :
    /\ issues[i].events # {}
    /\ \A e \in issues[i].events : e.cites # {} /\ e.cites \subseteq Archived

\* What is about to be saved cites only articles that P4 selected in this
\* run, and P4 selected only articles that a search of this run brought up:
\* an id invented in P4 or in P8 never becomes evidence.
CitationsSelected ==
  \A r \in Runs :
    /\ \A e \in run[r].events : e.cites # {} /\ e.cites \subseteq Selected(run[r])
    /\ Selected(run[r]) \subseteq run[r].shown
    /\ run[r].shown \subseteq Archived

\* No article falls between the rounds: whatever was shown to P4 so far has
\* been selected or has been rejected, whatever P4 answered, except for the
\* candidates P4 is looking at.
EveryShownArticleJudged ==
  \A r \in Runs :
    run[r].shown = Selected(run[r]) \cup run[r].rejected \cup run[r].candidates

\* An article that was rejected in one round is not shown to P4 in a later one.
RejectedNotShownAgain ==
  \A r \in Runs : run[r].candidates \cap run[r].rejected = {}

\* From the second round on the candidates lie in the period as P6 left it,
\* whatever period the draft of P3 names.
CandidatesInPeriod ==
  \A r \in Runs : run[r].round > 1 => run[r].candidates \subseteq Inside(run[r].window)

\* The internal error "the loop ended without a reason" cannot occur, and
\* the issue is built only once the loop has given one.
LoopExitHasReason ==
  \A r \in Runs :
    /\ run[r].outcome # "invariant_error"
    /\ run[r].stage \in {"merge", "save"} => run[r].termination # None

\* "converged" is given exactly when a second or later round brought no new
\* article: never after a round that did, and the loop goes on after P6 only
\* with news and below both limits.
ConvergenceExact ==
  \A r \in Runs :
    LET s == run[r] IN
    /\ s.termination = "converged" => s.round >= 2
    /\ s.termination = "converged" /\ s.stage \in {"merge", "save"} => Selected(s) = s.before
    /\ s.stage = "hypothesize" =>
         /\ s.round >= 2 => Selected(s) # s.before
         /\ s.round < MaxRounds
         /\ s.depth < MaxChainDepth

\* EX-02: a topic is given up for lack of selected articles only after the
\* correction of P4 and a further search.
RejectedAllAfterNextSearch ==
  \A r \in Runs : run[r].outcome = "selection_rejected_all" => run[r].round >= 2

\* The questions of P1 and the question about the period share one budget:
\* a dialogue is asked at most MaxClarifications of them.
QuestionsBounded ==
  \A r \in Runs : run[r].asked <= MaxClarifications

(***************************************************************************)
(* The inductive invariant behind them, run by run                         *)
(***************************************************************************)

Searching == {"search", "fallback", "select", "reselect"}
Looping == Searching \cup {"expand", "sufficiency", "hypothesize"}
Closing == {"merge", "save"}

\* What the run has seen, selected, rejected and is about to cite fits together.
SoundEvidence(s) ==
  /\ s.shown \subseteq Archived
  /\ s.shown = Selected(s) \cup s.rejected \cup s.candidates
  /\ s.candidates \cap s.rejected = {}
  /\ s.candidates # {} => s.stage \in {"select", "reselect"}
  /\ s.round > 1 => s.candidates \subseteq Inside(s.window)
  /\ s.events # {} <=> s.stage = "save"
  /\ \A e \in s.events : e.cites # {} /\ e.cites \subseteq Selected(s)

\* The counters, the reason and the bookkeeping of convergence agree with the
\* place the loop has reached.
SoundLoop(s) ==
  /\ s.stage \notin Looping \cup Closing => Selected(s) = {}
  /\ s.stage \in {"lookup", "intent", "hypothetical"} =>
       s.previous = {} /\ s.before = {} /\ s.rejected = {} /\ s.round = 0
  /\ s.stage \in Looping =>
       s.round \in 1..MaxRounds /\ s.previous = s.before /\ s.before \subseteq Selected(s)
  /\ s.stage \in Searching => Selected(s) = s.before
  /\ s.stage \in Searching /\ s.round = 1 => Selected(s) = {} /\ s.rejected = {}
  /\ s.stage = "fallback" => s.round = 1
  /\ s.stage = "hypothesize" =>
       s.round < MaxRounds /\ s.depth < MaxChainDepth /\ (s.round >= 2 => NewIds(s) # {})
  /\ s.stage \in Closing => s.termination # None
  /\ s.stage \notin Closing \cup {"over"} => s.termination = None
  /\ s.termination = "converged" => s.round >= 2
  /\ s.termination = "converged" /\ s.stage \in Closing => Selected(s) = s.before

SoundDialogue(s) ==
  /\ s.asked <= MaxClarifications
  /\ s.outcome # None => s.stage = "over"
  /\ s.outcome # "invariant_error"
  /\ s.outcome = "needs_clarification" => s.asked < MaxClarifications

\* Every run is sound on its own, and the table is sound with the results
\* that refer to it.
Inductive ==
  /\ \A r \in Runs : SoundEvidence(run[r]) /\ SoundLoop(run[r]) /\ SoundDialogue(run[r])
  /\ UniqueTopics
  /\ ResultsNameTheirIssue
  /\ CitationsStored

Grows(s, t) ==
  /\ \A a \in Articles : s.score[a] <= t.score[a]
  /\ s.rejected \subseteq t.rejected
  /\ s.shown \subseteq t.shown
  /\ s.round <= t.round
  /\ s.depth <= t.depth

\* Within one generation nothing that was established is taken back: scores
\* never drop, rejections stay, rounds and the chain depth only grow.
EvidenceOnlyGrows ==
  [][\A r \in Runs : run[r].stage \in Active /\ run'[r].stage \in Active =>
       Grows(run[r], run'[r])]_vars

\* A dialogue whose user answers every question comes to a result, an error
\* or a refusal, unless the user turns to another topic.
DialoguesSettle ==
  \A r \in Runs :
    run[r].stage \in Active ~>
      \/ Settled(run[r])
      \/ run[r].stage = "lookup" /\ run[r].asked = 0

\* What a client knows of the catalogue of issues.
Wanted == [r \in Runs |-> IF run[r].stage = "idle" THEN None ELSE run[r].topic]

Answered(s) == s.outcome \in {"completed", "reused"}

Reply ==
  [r \in Runs |->
    [status |-> IF run[r].stage = "idle" THEN "silent"
                ELSE IF run[r].stage \in Active THEN "working"
                ELSE IF Answered(run[r]) THEN "answered" ELSE "declined",
     issue  |-> IF Answered(run[r]) THEN run[r].issueId ELSE 0]]

Catalogue == INSTANCE IssueCatalogue WITH catalogue <- issues, wanted <- Wanted, reply <- Reply

\* Seen from outside, every step adds one grounded issue about a new topic,
\* answers a request with an issue about its topic, or declines it.
ImplementsCatalogue == Catalogue!Spec
=============================================================================
