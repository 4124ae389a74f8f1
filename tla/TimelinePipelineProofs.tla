----------------------- MODULE TimelinePipelineProofs -----------------------
(***************************************************************************)
(* Proofs about TimelinePipeline for any number of runs, topics, articles  *)
(* and dates and any limits.  The first part follows the operators that    *)
(* compute the next state of one run, the second one the actions.          *)
(***************************************************************************)
EXTENDS TimelinePipeline, TLAPS

-----------------------------------------------------------------------------
(***************************************************************************)
(* Types of the run operators                                              *)
(***************************************************************************)

LEMMA WindowExists == (CHOOSE w \in Windows : TRUE) \in Windows
<1>1. PICK d \in Dates : TRUE
  BY DataAssumption
<1>2. [from |-> d, to |-> d] \in Windows
  BY <1>1, DataAssumption DEF Windows
<1> QED
  BY <1>2

LEMMA BlankType == Blank \in RunState
<1>1. (CHOOSE t \in Topics : TRUE) \in Topics
  BY DataAssumption
<1>2. [a \in Articles |-> 0] \in [Articles -> 0..MaxScore]
  BY LimitAssumption
<1> QED
  BY <1>1, <1>2, WindowExists DEF Blank, RunState, Stages

LEMMA OverType ==
  ASSUME NEW s \in RunState, NEW o \in Outcomes
  PROVE  Over(s, o) \in RunState
BY BlankType DEF Over, RunState, Stages

LEMMA ResultType ==
  ASSUME NEW s \in RunState, NEW o \in Outcomes
  PROVE  Result(s, o) \in RunState
BY OverType DEF Result, RunState

LEMMA SelectedType ==
  ASSUME NEW s \in RunState
  PROVE  Selected(s) \subseteq Articles
BY DEF Selected

LEMMA LeaveLoopType ==
  ASSUME NEW s \in RunState, NEW t \in Terminations \cup {None}
  PROVE  LeaveLoop(s, t) \in RunState
<1> DEFINE u == [s EXCEPT !.termination = t]
<1>1. u \in RunState
  BY DEF RunState
<1>2. Result(u, "selection_rejected_all") \in RunState /\ Over(u, "invariant_error") \in RunState
  BY <1>1, OverType, ResultType DEF Outcomes
<1>3. [u EXCEPT !.stage = "merge", !.candidates = {}, !.chosen = {}] \in RunState
  BY <1>1 DEF RunState, Stages
<1> QED
  BY <1>2, <1>3 DEF LeaveLoop

LEMMA NextRoundType ==
  ASSUME NEW s \in RunState
  PROVE  NextRound(s) \in RunState
<1>1. LeaveLoop(s, None) \in RunState
  BY LeaveLoopType
<1>2. [s EXCEPT !.stage = "search", !.round = s.round + 1,
                !.candidates = {}, !.chosen = {}, !.before = Selected(s)] \in RunState
  <2>1. s.round + 1 \in Nat
    BY DEF RunState
  <2> QED
    BY <2>1, SelectedType DEF RunState, Stages
<1> QED
  BY <1>1, <1>2 DEF NextRound

LEMMA NothingNewType ==
  ASSUME NEW s \in RunState
  PROVE  NothingNew(s) \in RunState
BY NextRoundType, LeaveLoopType DEF NothingNew, Terminations

LEMMA WithCandidatesType ==
  ASSUME NEW s \in RunState, NEW found \in SUBSET Articles
  PROVE  WithCandidates(s, found) \in RunState
<1>1. Over(s, "needs_clarification") \in RunState /\ NothingNew(s) \in RunState
  BY OverType, NothingNewType DEF Outcomes
<1>2. [s EXCEPT !.stage = "select", !.candidates = found, !.shown = @ \cup found] \in RunState
  BY DEF RunState, Stages
<1> QED
  BY <1>1, <1>2 DEF WithCandidates

LEMMA AcceptType ==
  ASSUME NEW s \in RunState, NEW answer \in Answers
  PROVE  Accept(s, answer) \in RunState
<1> DEFINE chosen == Picked(answer) \cap s.candidates
           t == [s EXCEPT !.score = MergedScore(s, answer),
                          !.rejected = @ \cup Rejections(answer, s.candidates)]
<1>1. MergedScore(s, answer) \in [Articles -> 0..MaxScore]
  BY DEF MergedScore, RunState, Answers
<1>2. Rejections(answer, s.candidates) \subseteq Articles
  BY DEF Rejections, RunState
<1>3. t \in RunState
  BY <1>1, <1>2 DEF RunState
<1>4. chosen \subseteq Articles
  BY DEF Picked
<1>5. [t EXCEPT !.stage = "expand", !.chosen = chosen, !.candidates = {}] \in RunState
  BY <1>3, <1>4 DEF RunState, Stages
<1>6. NothingNew(t) \in RunState
  BY <1>3, NothingNewType
<1> QED
  BY <1>5, <1>6 DEF Accept

LEMMA ValidatedType ==
  ASSUME NEW s \in RunState, NEW merged \in Merges
  PROVE  Validated(s, merged) \in SUBSET Events
<1>1. PICK n \in 0..MaxMerged : merged \in [1..n -> {e \in Events : e.cites # {}}]
  BY DEF Merges
<1>2. ASSUME NEW i \in DOMAIN merged
      PROVE  [date |-> merged[i].date,
              cites |-> merged[i].cites \cap Archived \cap Selected(s)] \in Events
  BY <1>1, SelectedType DEF Events
<1> QED
  BY <1>2 DEF Validated

LEMMA RequestType ==
  ASSUME NEW topic \in Topics, NEW asked \in Nat
  PROVE  Request(topic, asked) \in RunState
BY BlankType DEF Request, RunState, Stages

-----------------------------------------------------------------------------
(***************************************************************************)
(* Type correctness                                                        *)
(***************************************************************************)

LEMMA MoveType ==
  ASSUME TypeOK, NEW r \in Runs, NEW s \in RunState, Move(r, s)
  PROVE  run' \in [Runs -> RunState]
BY DEF TypeOK, Move

LEMMA GenerateType ==
  ASSUME TypeOK, NEW r \in Runs, Generate(r)
  PROVE  TypeOK'
<1> USE DEF TypeOK
<1>1. run[r] \in RunState
  OBVIOUS
<1>2. CASE Reuse(r)
  <2>1. PICK i \in DOMAIN issues :
          Move(r, [Over(run[r], "reused") EXCEPT !.termination = "cached", !.issueId = i])
    BY <1>2 DEF Reuse
  <2>2. [Over(run[r], "reused") EXCEPT !.termination = "cached", !.issueId = i] \in RunState
    <3>1. i \in Nat
      BY <2>1
    <3>2. Over(run[r], "reused") \in RunState
      BY <1>1, OverType DEF Outcomes
    <3> QED
      BY <3>1, <3>2 DEF RunState, Terminations
  <2> QED
    BY <1>2, <2>1, <2>2, MoveType DEF Reuse
<1>3. CASE Miss(r)
  <2>1. [run[r] EXCEPT !.stage = "intent"] \in RunState
    BY <1>1 DEF RunState, Stages
  <2> QED
    BY <1>3, <2>1, MoveType DEF Miss
<1>4. CASE InterpretIntent(r)
  <2>1. Over(run[r], "needs_clarification") \in RunState
    BY <1>1, OverType DEF Outcomes
  <2>2. \A d \in BOOLEAN : [run[r] EXCEPT !.stage = "hypothetical", !.userDate = d] \in RunState
    BY <1>1 DEF RunState, Stages
  <2> QED
    BY <1>4, <2>1, <2>2, MoveType DEF InterpretIntent
<1>5. CASE BuildHypotheticalTimeline(r)
  <2>1. \A w \in Windows : [run[r] EXCEPT !.stage = "search", !.window = w, !.round = 1] \in RunState
    BY <1>1 DEF RunState, Stages
  <2> QED
    BY <1>5, <2>1, MoveType DEF BuildHypotheticalTimeline
<1>6. CASE Search(r)
  <2>0. PICK draft \in Windows : \E hits \in Hits(run[r], draft) :
          Move(r, IF run[r].round = 1 /\ Restored(run[r], hits) = {}
                  THEN [run[r] EXCEPT !.stage = "fallback"]
                  ELSE WithCandidates(run[r], Restored(run[r], hits)))
    BY <1>6 DEF Search
  <2>1. PICK hits \in Hits(run[r], draft) :
          Move(r, IF run[r].round = 1 /\ Restored(run[r], hits) = {}
                  THEN [run[r] EXCEPT !.stage = "fallback"]
                  ELSE WithCandidates(run[r], Restored(run[r], hits)))
    BY <2>0
  <2>2. Restored(run[r], hits) \in SUBSET Articles
    BY DataAssumption DEF Restored
  <2>3. [run[r] EXCEPT !.stage = "fallback"] \in RunState
    BY <1>1 DEF RunState, Stages
  <2>4. WithCandidates(run[r], Restored(run[r], hits)) \in RunState
    BY <1>1, <2>2, WithCandidatesType
  <2> QED
    BY <1>6, <2>1, <2>3, <2>4, MoveType DEF Search
<1>7. CASE FallbackSearch(r)
  <2>1. PICK hits \in SUBSET Articles :
          Move(r, IF hits \cap Archived = {}
                  THEN Result(run[r], "search_no_hits")
                  ELSE WithCandidates(run[r], hits \cap Archived))
    BY <1>7 DEF FallbackSearch
  <2>2. Result(run[r], "search_no_hits") \in RunState
    BY <1>1, ResultType DEF Outcomes
  <2>3. WithCandidates(run[r], hits \cap Archived) \in RunState
    BY <1>1, WithCandidatesType
  <2> QED
    BY <1>7, <2>1, <2>2, <2>3, MoveType DEF FallbackSearch
<1>8. CASE SelectArticles(r)
  <2>1. \A answer \in Answers : Accept(run[r], answer) \in RunState
    BY <1>1, AcceptType
  <2>2. [run[r] EXCEPT !.stage = "reselect"] \in RunState
    BY <1>1 DEF RunState, Stages
  <2> QED
    BY <1>8, <2>1, <2>2, MoveType DEF SelectArticles
<1>9. CASE ReselectArticles(r)
  BY <1>1, <1>9, AcceptType, MoveType DEF ReselectArticles
<1>10. CASE ExtractRelatedEvents(r)
  <2>1. \A b \in BOOLEAN :
          [run[r] EXCEPT !.stage = "sufficiency", !.chosen = {},
                         !.depth = IF b THEN @ + 1 ELSE @] \in RunState
    <3>1. run[r].depth + 1 \in Nat
      BY <1>1 DEF RunState
    <3> QED
      BY <1>1, <3>1 DEF RunState, Stages
  <2> QED
    BY <1>10, <2>1, MoveType DEF ExtractRelatedEvents
<1>11. CASE ReviewSufficiency(r)
  <2>1. PICK sufficient \in BOOLEAN, w \in Windows :
          Move(r, IF Verdict([run[r] EXCEPT !.window = w], sufficient) # None
                  THEN LeaveLoop([run[r] EXCEPT !.window = w],
                                 Verdict([run[r] EXCEPT !.window = w], sufficient))
                  ELSE [[run[r] EXCEPT !.window = w] EXCEPT !.stage = "hypothesize"])
    BY <1>11 DEF ReviewSufficiency
  <2> DEFINE s == [run[r] EXCEPT !.window = w]
  <2>2. s \in RunState
    BY <1>1 DEF RunState
  <2>3. Verdict(s, sufficient) \in Terminations \cup {None}
    BY DEF Verdict, Terminations
  <2>4. LeaveLoop(s, Verdict(s, sufficient)) \in RunState
    BY <2>2, <2>3, LeaveLoopType
  <2>5. [s EXCEPT !.stage = "hypothesize"] \in RunState
    BY <2>2 DEF RunState, Stages
  <2> QED
    BY <1>11, <2>1, <2>4, <2>5, MoveType DEF ReviewSufficiency
<1>12. CASE GenerateHypotheses(r)
  <2>1. [run[r] EXCEPT !.previous = Selected(run[r])] \in RunState
    BY <1>1, SelectedType DEF RunState
  <2> QED
    BY <1>12, <2>1, NextRoundType, MoveType DEF GenerateHypotheses
<1>13. CASE MergeTimeline(r)
  <2>1. PICK merged \in Merges :
          Move(r, IF Validated(run[r], merged) = {} THEN Over(run[r], "failed")
                  ELSE [run[r] EXCEPT !.stage = "save", !.events = Validated(run[r], merged)])
    BY <1>13 DEF MergeTimeline
  <2>2. [run[r] EXCEPT !.stage = "save", !.events = Validated(run[r], merged)] \in RunState
    BY <1>1, ValidatedType DEF RunState, Stages
  <2>3. Over(run[r], "failed") \in RunState
    BY <1>1, OverType DEF Outcomes
  <2> QED
    BY <1>13, <2>1, <2>2, <2>3, MoveType DEF MergeTimeline
<1>14. Over(run[r], "failed") \in RunState
  BY <1>1, OverType DEF Outcomes
<1>15. Append(issues, NewRow(run[r])) \in Seq(Row)
  BY <1>1 DEF NewRow, Row, RunState
<1>16. CASE SaveIssue(r)
  <2>1. [Result(run[r], "completed") EXCEPT !.issueId = Len(issues) + 1] \in RunState
    <3>1. Result(run[r], "completed") \in RunState
      BY <1>1, ResultType DEF Outcomes
    <3>2. Len(issues) + 1 \in Nat
      OBVIOUS
    <3> QED
      BY <3>1, <3>2 DEF RunState
  <2> QED
    BY <1>14, <1>15, <1>16, <2>1, MoveType DEF SaveIssue
<1>17. CASE SaveUnacknowledged(r)
  BY <1>14, <1>15, <1>17, MoveType DEF SaveUnacknowledged
<1>18. CASE CallFails(r)
  BY <1>14, <1>18, MoveType DEF CallFails
<1> QED
  BY <1>2, <1>3, <1>4, <1>5, <1>6, <1>7, <1>8, <1>9, <1>10, <1>11, <1>12, <1>13,
     <1>16, <1>17, <1>18 DEF Generate

LEMMA ClientType ==
  ASSUME TypeOK, NEW r \in Runs, Client(r)
  PROVE  TypeOK'
<1>1. run[r] \in RunState /\ run[r].asked \in Nat /\ run[r].topic \in Topics
  BY DEF TypeOK, RunState
<1>2. CASE SubmitTopic(r)
  BY <1>2, RequestType, MoveType DEF SubmitTopic, TypeOK
<1>3. CASE SubmitClarification(r)
  BY <1>1, <1>3, RequestType, MoveType DEF SubmitClarification, TypeOK
<1>4. CASE RetryGeneration(r)
  BY <1>1, <1>4, RequestType, MoveType DEF RetryGeneration, TypeOK
<1> QED
  BY <1>2, <1>3, <1>4 DEF Client

LEMMA RestartType ==
  ASSUME TypeOK, Restart
  PROVE  TypeOK'
<1>1. \A r \in Runs : Over(run[r], "failed") \in RunState
  BY OverType DEF TypeOK, Outcomes
<1> QED
  BY <1>1 DEF Restart, TypeOK

\* The variables keep their types, for every value of the constants.
THEOREM TypeCorrect == Spec => []TypeOK
<1>1. Init => TypeOK
  BY BlankType DEF Init, TypeOK
<1>2. TypeOK /\ [Next]_vars => TypeOK'
  <2> SUFFICES ASSUME TypeOK, [Next]_vars PROVE TypeOK'
    OBVIOUS
  <2>1. CASE UNCHANGED vars
    BY <2>1 DEF TypeOK, vars
  <2>2. CASE Next
    BY <2>2, GenerateType, ClientType, RestartType DEF Next
  <2> QED
    BY <2>1, <2>2
<1> QED
  BY <1>1, <1>2, PTL DEF Spec

-----------------------------------------------------------------------------
(***************************************************************************)
(* Soundness of the run operators                                          *)
(***************************************************************************)

Sound(s) == SoundEvidence(s) /\ SoundLoop(s) /\ SoundDialogue(s)

\* A run between two rounds, or between the loop and what follows it: all it
\* was shown has been judged.
Collected(s) ==
  /\ s.shown \subseteq Archived
  /\ s.shown = Selected(s) \cup s.rejected
  /\ s.events = {}
  /\ s.asked <= MaxClarifications
  /\ s.outcome = None

LEMMA SelectedSame ==
  ASSUME NEW s, NEW t, s.score = t.score
  PROVE  Selected(s) = Selected(t)
BY DEF Selected

LEMMA BlankSound == Sound(Blank)
<1>1. Selected(Blank) = {}
  BY DEF Selected, Blank
<1> QED
  BY <1>1, LimitAssumption
  DEF Sound, SoundEvidence, SoundLoop, SoundDialogue, Blank, Looping, Searching, Closing, None

LEMMA RequestSound ==
  ASSUME NEW topic \in Topics, NEW asked \in Nat, asked <= MaxClarifications
  PROVE  Sound(Request(topic, asked))
<1>1. Selected(Request(topic, asked)) = {}
  BY DEF Selected, Request, Blank
<1> QED
  BY <1>1
  DEF Sound, SoundEvidence, SoundLoop, SoundDialogue, Request, Blank, Looping, Searching,
      Closing, None

LEMMA OverSound ==
  ASSUME NEW s \in RunState, s.asked <= MaxClarifications,
         NEW o \in Outcomes, o # "invariant_error",
         o = "needs_clarification" => MayAsk(s)
  PROVE  Sound(Over(s, o)) /\ Selected(Over(s, o)) = {}
<1>1. Selected(Over(s, o)) = {}
  BY DEF Selected, Over, Blank
<1> QED
  BY <1>1
  DEF Sound, SoundEvidence, SoundLoop, SoundDialogue, Over, Blank, Looping, Searching,
      Closing, None, MayAsk

LEMMA ResultSound ==
  ASSUME NEW s \in RunState, s.asked <= MaxClarifications,
         NEW o \in Outcomes, o # "invariant_error", o # "needs_clarification",
         s.termination = "converged" => s.round >= 2
  PROVE  Sound(Result(s, o)) /\ Selected(Result(s, o)) = {}
<1>1. Selected(Result(s, o)) = {}
  BY DEF Selected, Result, Over, Blank
<1> QED
  BY <1>1
  DEF Sound, SoundEvidence, SoundLoop, SoundDialogue, Result, Over, Blank, Looping, Searching,
      Closing, None

\* The loop is left soundly if a missing reason means that nothing was
\* selected and "converged" means that nothing was added.
LEMMA LeaveLoopSound ==
  ASSUME NEW s \in RunState, Collected(s), NEW t \in Terminations \cup {None},
         t = None => Selected(s) = {},
         t = "converged" => s.round >= 2 /\ Selected(s) = s.before
  PROVE  Sound(LeaveLoop(s, t))
<1> DEFINE u == [s EXCEPT !.termination = t]
           m == [u EXCEPT !.stage = "merge", !.candidates = {}, !.chosen = {}]
<1>1. u \in RunState /\ u.termination = t /\ u.round = s.round /\ u.asked = s.asked
  BY DEF RunState
<1>2. Selected(u) = Selected(s)
  BY SelectedSame DEF RunState
<1>3. CASE Selected(s) = {}
  <2>1. Sound(Result(u, "selection_rejected_all"))
    BY <1>1, ResultSound DEF Collected, Outcomes
  <2> QED
    BY <1>2, <1>3, <2>1 DEF LeaveLoop
<1>4. CASE Selected(s) # {}
  <2>1. LeaveLoop(s, t) = m
    BY <1>2, <1>4 DEF LeaveLoop
  <2>2. Selected(m) = Selected(s)
    BY SelectedSame DEF RunState
  <2>3. SoundEvidence(m)
    BY <2>2 DEF SoundEvidence, Collected, RunState
  <2>4. SoundLoop(m)
    BY <1>4, <2>2 DEF SoundLoop, RunState, Looping, Searching, Closing, Collected
  <2>5. SoundDialogue(m)
    BY DEF SoundDialogue, RunState, Collected, None
  <2> QED
    BY <2>1, <2>3, <2>4, <2>5 DEF Sound
<1> QED
  BY <1>3, <1>4

LEMMA NextRoundSound ==
  ASSUME NEW s \in RunState, Collected(s), s.termination = None, s.round \in 1..MaxRounds,
         s.previous = Selected(s),
         s.round = MaxRounds => Selected(s) = {}
  PROVE  Sound(NextRound(s))
<1> DEFINE n == [s EXCEPT !.stage = "search", !.round = s.round + 1,
                          !.candidates = {}, !.chosen = {}, !.before = Selected(s)]
<1>1. CASE s.round < MaxRounds
  <2>1. NextRound(s) = n
    BY <1>1 DEF NextRound
  <2>2. Selected(n) = Selected(s)
    BY SelectedSame DEF RunState
  <2>3. SoundEvidence(n)
    BY <2>2 DEF SoundEvidence, Collected, RunState
  <2>4. SoundLoop(n)
    <3>1. s.round + 1 \in 1..MaxRounds /\ s.round + 1 # 1
      BY <1>1, LimitAssumption
    <3> QED
      BY <2>2, <3>1 DEF SoundLoop, RunState, Looping, Searching, Closing, Collected, None
  <2>5. SoundDialogue(n)
    BY DEF SoundDialogue, RunState, Collected, None
  <2> QED
    BY <2>1, <2>3, <2>4, <2>5 DEF Sound
<1>2. CASE ~(s.round < MaxRounds)
  <2>1. Selected(s) = {}
    BY <1>2, LimitAssumption
  <2>2. Sound(LeaveLoop(s, None))
    BY <2>1, LeaveLoopSound DEF None
  <2> QED
    BY <1>2, <2>2 DEF NextRound
<1> QED
  BY <1>1, <1>2

LEMMA NothingNewSound ==
  ASSUME NEW s \in RunState, Collected(s), s.termination = None, s.round \in 1..MaxRounds,
         s.previous = Selected(s), s.before = Selected(s),
         s.round = 1 => Selected(s) = {}
  PROVE  Sound(NothingNew(s))
<1>1. CASE s.round >= 2
  <2>1. Sound(LeaveLoop(s, "converged"))
    BY <1>1, LeaveLoopSound DEF Terminations, None
  <2> QED
    BY <1>1, <2>1 DEF NothingNew
<1>2. CASE ~(s.round >= 2)
  <2>1. Selected(s) = {}
    BY <1>2, LimitAssumption
  <2> QED
    BY <1>2, <2>1, NextRoundSound DEF NothingNew
<1> QED
  BY <1>1, <1>2

\* While the loop searches, everything seen in earlier rounds has been judged.
LEMMA SearchingCollected ==
  ASSUME NEW s \in RunState, Sound(s), s.stage \in {"search", "fallback"}
  PROVE  /\ Collected(s) /\ s.termination = None /\ s.round \in 1..MaxRounds
         /\ s.previous = Selected(s) /\ s.before = Selected(s)
         /\ s.round = 1 => Selected(s) = {}
BY DEF Sound, SoundEvidence, SoundLoop, SoundDialogue, Collected, Looping, Searching, Closing

LEMMA WithCandidatesSound ==
  ASSUME NEW s \in RunState, Sound(s), s.stage \in {"search", "fallback"},
         NEW found \in SUBSET Articles,
         found \subseteq Archived, found \cap s.rejected = {},
         s.round > 1 => found \subseteq Inside(s.window)
  PROVE  Sound(WithCandidates(s, found))
<1> DEFINE n == [s EXCEPT !.stage = "select", !.candidates = found, !.shown = @ \cup found]
<1>1. CASE AsksPeriod(s, found)
  <2>1. s.asked <= MaxClarifications /\ MayAsk(s)
    BY <1>1 DEF Sound, SoundDialogue, AsksPeriod
  <2>2. Sound(Over(s, "needs_clarification"))
    BY <2>1, OverSound DEF Outcomes
  <2> QED
    BY <1>1, <2>2 DEF WithCandidates
<1>2. CASE ~AsksPeriod(s, found) /\ found = {}
  BY <1>2, SearchingCollected, NothingNewSound DEF WithCandidates
<1>3. CASE ~AsksPeriod(s, found) /\ found # {}
  <2>1. WithCandidates(s, found) = n
    BY <1>3 DEF WithCandidates
  <2>2. Selected(n) = Selected(s)
    BY SelectedSame DEF RunState
  <2>3. Inside(n.window) = Inside(s.window)
    BY DEF RunState
  <2>4. SoundEvidence(n)
    BY <2>2, <2>3, SearchingCollected DEF SoundEvidence, Collected, RunState
  <2>5. SoundLoop(n)
    <3>1. s.round = 1 => s.rejected = {}
      BY DEF Sound, SoundLoop, Searching
    <3> QED
      BY <2>2, <3>1, SearchingCollected
      DEF SoundLoop, RunState, Looping, Searching, Closing, None
  <2>6. SoundDialogue(n)
    BY DEF Sound, SoundDialogue, RunState, None
  <2> QED
    BY <2>1, <2>4, <2>5, <2>6 DEF Sound
<1> QED
  BY <1>1, <1>2, <1>3

\* An answer of P4 adds exactly the chosen candidates to what is selected.
LEMMA MergedSelected ==
  ASSUME NEW s \in RunState, NEW answer \in Answers, NEW t \in RunState,
         t.score = MergedScore(s, answer)
  PROVE  Selected(t) = Selected(s) \cup (Picked(answer) \cap s.candidates)
<1>1. s.score \in [Articles -> 0..MaxScore] /\ answer.score \in [Articles -> 0..MaxScore]
  BY DEF RunState, Answers
<1>2. ASSUME NEW a \in Articles
      PROVE  t.score[a] > 0 <=>
               s.score[a] > 0 \/ (a \in s.candidates /\ answer.score[a] > 0)
  <2>1. s.score[a] \in 0..MaxScore /\ answer.score[a] \in 0..MaxScore
    BY <1>1
  <2>2. t.score[a] = IF a \in s.candidates /\ answer.score[a] > s.score[a]
                     THEN answer.score[a] ELSE s.score[a]
    BY DEF MergedScore
  <2> QED
    BY <2>1, <2>2, LimitAssumption
<1> QED
  BY <1>2 DEF Selected, Picked

\* Whatever P4 answers, each candidate is either chosen or rejected.
LEMMA EachCandidateJudged ==
  ASSUME NEW answer, NEW candidates \in SUBSET Articles
  PROVE  candidates = (Picked(answer) \cap candidates) \cup Rejections(answer, candidates)
BY DEF Rejections, Classified

LEMMA AcceptSound ==
  ASSUME NEW s \in RunState, Sound(s), s.stage \in {"select", "reselect"},
         NEW answer \in Answers
  PROVE  Sound(Accept(s, answer))
<1> DEFINE chosen == Picked(answer) \cap s.candidates
           t == [s EXCEPT !.score = MergedScore(s, answer),
                          !.rejected = @ \cup Rejections(answer, s.candidates)]
           e == [t EXCEPT !.stage = "expand", !.chosen = chosen, !.candidates = {}]
<1>1. MergedScore(s, answer) \in [Articles -> 0..MaxScore] /\ s.candidates \subseteq Articles
  BY DEF MergedScore, RunState, Answers
<1>2. Rejections(answer, s.candidates) \subseteq Articles
  BY <1>1 DEF Rejections
<1>3. t \in RunState
  BY <1>1, <1>2 DEF RunState
<1>4. Selected(t) = Selected(s) \cup chosen
  BY <1>3, MergedSelected DEF RunState
<1>5. s.candidates = chosen \cup Rejections(answer, s.candidates)
  BY <1>1, EachCandidateJudged
<1>6. /\ s.termination = None /\ s.round \in 1..MaxRounds
      /\ s.previous = Selected(s) /\ s.before = Selected(s)
      /\ s.round = 1 => Selected(s) = {}
      /\ s.shown \subseteq Archived
      /\ s.shown = Selected(s) \cup s.rejected \cup s.candidates
      /\ s.events = {} /\ s.asked <= MaxClarifications /\ s.outcome = None
  BY DEF Sound, SoundEvidence, SoundLoop, SoundDialogue, Looping, Searching, Closing
<1>7. /\ t.rejected = s.rejected \cup Rejections(answer, s.candidates)
      /\ t.stage = s.stage /\ t.shown = s.shown /\ t.termination = s.termination
      /\ t.round = s.round /\ t.previous = s.previous /\ t.before = s.before
      /\ t.events = s.events /\ t.asked = s.asked /\ t.outcome = s.outcome
  BY DEF RunState
<1>8. Collected(t)
  BY <1>4, <1>5, <1>6, <1>7 DEF Collected
<1>9. CASE chosen = {}
  <2>1. Sound(NothingNew(t))
    BY <1>3, <1>4, <1>6, <1>7, <1>8, <1>9, NothingNewSound
  <2> QED
    BY <1>9, <2>1 DEF Accept
<1>10. CASE chosen # {}
  <2>1. Accept(s, answer) = e
    BY <1>10 DEF Accept
  <2>2. Selected(e) = Selected(t)
    BY <1>3, SelectedSame DEF RunState
  <2>3. /\ e.stage = "expand" /\ e.candidates = {}
        /\ e.rejected = t.rejected /\ e.shown = t.shown /\ e.termination = t.termination
        /\ e.round = t.round /\ e.previous = t.previous /\ e.before = t.before
        /\ e.events = t.events /\ e.asked = t.asked /\ e.outcome = t.outcome
    BY <1>3 DEF RunState
  <2>4. SoundEvidence(e)
    BY <1>8, <2>2, <2>3 DEF SoundEvidence, Collected
  <2>5. SoundLoop(e)
    BY <1>4, <1>6, <1>7, <2>2, <2>3 DEF SoundLoop, Looping, Searching, Closing, None
  <2>6. SoundDialogue(e)
    BY <1>8, <2>3 DEF SoundDialogue, Collected, None
  <2> QED
    BY <2>1, <2>4, <2>5, <2>6 DEF Sound
<1> QED
  BY <1>9, <1>10

LEMMA ReviewSound ==
  ASSUME NEW q \in RunState, Sound(q), q.stage = "sufficiency",
         NEW w \in Windows, NEW sufficient \in BOOLEAN,
         NEW s, s = [q EXCEPT !.window = w]
  PROVE  Sound(IF Verdict(s, sufficient) # None THEN LeaveLoop(s, Verdict(s, sufficient))
               ELSE [s EXCEPT !.stage = "hypothesize"])
<1> DEFINE t == Verdict(s, sufficient)
           h == [s EXCEPT !.stage = "hypothesize"]
<1>1. s \in RunState /\ Selected(s) = Selected(q)
  BY SelectedSame DEF RunState
<1>2. /\ s.stage = "sufficiency" /\ s.candidates = {}
      /\ s.shown = q.shown /\ s.rejected = q.rejected /\ s.events = q.events
      /\ s.asked = q.asked /\ s.outcome = q.outcome /\ s.round = q.round
      /\ s.previous = q.previous /\ s.before = q.before /\ s.termination = q.termination
      /\ s.depth \in Nat
  BY DEF RunState, Sound, SoundEvidence
<1>3. /\ Collected(s) /\ s.termination = None /\ s.round \in 1..MaxRounds
      /\ s.previous = s.before /\ s.before \subseteq Selected(s)
  BY <1>1, <1>2
  DEF Collected, Sound, SoundEvidence, SoundLoop, SoundDialogue, Looping, Searching, Closing
<1>4. t \in Terminations \cup {None}
  BY DEF Verdict, Terminations
<1>5. CASE t # None
  <2>1. t = "converged" => s.round >= 2 /\ Selected(s) = s.before
    BY <1>3 DEF Verdict, Converges, NewIds, None
  <2>2. Sound(LeaveLoop(s, t))
    BY <1>1, <1>3, <1>4, <1>5, <2>1, LeaveLoopSound
  <2> QED
    BY <1>5, <2>2
<1>6. CASE t = None
  <2>1. /\ s.round < MaxRounds /\ s.depth < MaxChainDepth /\ (s.round >= 2 => NewIds(s) # {})
    BY <1>2, <1>3, <1>6, LimitAssumption DEF Verdict, Converges, None
  <2>2. Selected(h) = Selected(s)
    BY <1>1, SelectedSame DEF RunState
  <2>3. /\ h.stage = "hypothesize" /\ h.candidates = s.candidates
        /\ h.shown = s.shown /\ h.rejected = s.rejected /\ h.events = s.events
        /\ h.asked = s.asked /\ h.outcome = s.outcome /\ h.round = s.round
        /\ h.previous = s.previous /\ h.before = s.before /\ h.termination = s.termination
        /\ h.depth = s.depth
    BY <1>1 DEF RunState
  <2>4. NewIds(h) = NewIds(s)
    BY <2>2, <2>3 DEF NewIds
  <2>5. SoundEvidence(h)
    BY <1>2, <1>3, <2>2, <2>3 DEF SoundEvidence, Collected
  <2>6. SoundLoop(h)
    BY <1>3, <2>1, <2>2, <2>3, <2>4 DEF SoundLoop, Looping, Searching, Closing, None
  <2>7. SoundDialogue(h)
    BY <1>3, <2>3 DEF SoundDialogue, Collected, None
  <2> QED
    BY <1>6, <2>5, <2>6, <2>7 DEF Sound
<1> QED
  BY <1>5, <1>6

LEMMA ValidatedSound ==
  ASSUME NEW s \in RunState, NEW merged \in Merges
  PROVE  \A e \in Validated(s, merged) :
           e.cites # {} /\ e.cites \subseteq Archived /\ e.cites \subseteq Selected(s)
<1>1. PICK n \in 0..MaxMerged : merged \in [1..n -> {e \in Events : e.cites # {}}]
  BY DEF Merges
<1>2. ASSUME NEW e \in Validated(s, merged)
      PROVE  e.cites # {} /\ e.cites \subseteq Archived /\ e.cites \subseteq Selected(s)
  <2>1. PICK i \in DOMAIN merged :
          e = [date |-> merged[i].date,
               cites |-> merged[i].cites \cap Archived \cap Selected(s)]
    BY <1>2 DEF Validated
  <2> QED
    BY <1>2, <2>1 DEF Validated
<1> QED
  BY <1>2

-----------------------------------------------------------------------------
(***************************************************************************)
(* Soundness is inductive                                                  *)
(***************************************************************************)

\* Most steps of a run lead to a sound state that answers nothing yet.
Quiet(s) == s \in RunState /\ Sound(s) /\ s.outcome \notin {"completed", "reused"}

Progress(r) == \E s : Quiet(s) /\ Move(r, s) /\ UNCHANGED issues

LEMMA LoopOutcomes ==
  ASSUME NEW s \in RunState, s.outcome = None
  PROVE  /\ \A t : LeaveLoop(s, t).outcome \notin {"completed", "reused"}
         /\ NextRound(s).outcome \notin {"completed", "reused"}
         /\ NothingNew(s).outcome \notin {"completed", "reused"}
<1>1. ASSUME NEW t PROVE LeaveLoop(s, t).outcome \notin {"completed", "reused"}
  BY DEF LeaveLoop, Result, Over, Blank, RunState, None
<1>2. NextRound(s).outcome \notin {"completed", "reused"}
  BY <1>1 DEF NextRound, RunState, None
<1> QED
  BY <1>1, <1>2 DEF NothingNew

LEMMA WithCandidatesQuiet ==
  ASSUME NEW s \in RunState, Sound(s), s.stage \in {"search", "fallback"},
         NEW found \in SUBSET Articles,
         found \subseteq Archived, found \cap s.rejected = {},
         s.round > 1 => found \subseteq Inside(s.window)
  PROVE  Quiet(WithCandidates(s, found))
<1>1. s.outcome = None
  BY SearchingCollected DEF Collected
<1>2. WithCandidates(s, found).outcome \notin {"completed", "reused"}
  BY <1>1, LoopOutcomes DEF WithCandidates, Over, Blank, RunState, None
<1> QED
  BY <1>2, WithCandidatesType, WithCandidatesSound DEF Quiet

LEMMA AcceptQuiet ==
  ASSUME NEW s \in RunState, Sound(s), s.stage \in {"select", "reselect"},
         NEW answer \in Answers
  PROVE  Quiet(Accept(s, answer))
<1> DEFINE chosen == Picked(answer) \cap s.candidates
           t == [s EXCEPT !.score = MergedScore(s, answer),
                          !.rejected = @ \cup Rejections(answer, s.candidates)]
<1>1. MergedScore(s, answer) \in [Articles -> 0..MaxScore]
  BY DEF MergedScore, RunState, Answers
<1>2. Rejections(answer, s.candidates) \subseteq Articles
  BY DEF Rejections, RunState
<1>3. t \in RunState /\ t.outcome = None
  BY <1>1, <1>2 DEF RunState, Sound, SoundDialogue
<1>4. NothingNew(t).outcome \notin {"completed", "reused"}
  BY <1>3, LoopOutcomes
<1>5. [t EXCEPT !.stage = "expand", !.chosen = chosen, !.candidates = {}].outcome = None
  BY <1>3 DEF RunState
<1>6. Accept(s, answer).outcome \notin {"completed", "reused"}
  BY <1>4, <1>5 DEF Accept, None
<1> QED
  BY <1>6, AcceptType, AcceptSound DEF Quiet

LEMMA OverQuiet ==
  ASSUME NEW s \in RunState, Sound(s), NEW o \in {"failed", "needs_clarification"},
         o = "needs_clarification" => MayAsk(s)
  PROVE  Quiet(Over(s, o))
<1>1. s.asked <= MaxClarifications /\ o \in Outcomes
  BY DEF Sound, SoundDialogue, Outcomes
<1>2. Over(s, o).outcome = o
  BY DEF Over, Blank
<1> QED
  BY <1>1, <1>2, OverType, OverSound DEF Quiet

\* Advancing within generate before the loop, or to the fallback search,
\* changes nothing that soundness relates.
LEMMA AdvanceQuiet ==
  ASSUME NEW s \in RunState, Sound(s), NEW n \in RunState, n.score = s.score,
         n.rejected = s.rejected, n.candidates = s.candidates, n.shown = s.shown,
         n.previous = s.previous, n.before = s.before, n.events = s.events,
         n.asked = s.asked, n.outcome = s.outcome, n.termination = s.termination,
         \/ s.stage = "lookup" /\ n.stage = "intent" /\ n.round = s.round
         \/ s.stage = "intent" /\ n.stage = "hypothetical" /\ n.round = s.round
         \/ s.stage = "hypothetical" /\ n.stage = "search" /\ n.round = 1
         \/ s.stage = "search" /\ n.stage = "fallback" /\ s.round = 1 /\ n.round = 1
  PROVE  Quiet(n)
<1>1. Selected(n) = Selected(s)
  BY SelectedSame
<1>2. SoundEvidence(n)
  BY <1>1 DEF Sound, SoundEvidence
<1>3. SoundLoop(n)
  <2>1. n.stage \in {"intent", "hypothetical", "search", "fallback"} /\ s.termination = None
    BY DEF Sound, SoundLoop, Looping, Searching, Closing
  <2>2. Selected(s) = {} \/ s.stage = "search"
    BY DEF Sound, SoundLoop, Looping, Searching, Closing
  <2> QED
    BY <1>1, <2>1, <2>2, LimitAssumption
    DEF Sound, SoundLoop, Looping, Searching, Closing, None
<1>4. SoundDialogue(n) /\ n.outcome = None
  BY DEF Sound, SoundDialogue, None
<1> QED
  BY <1>2, <1>3, <1>4 DEF Quiet, Sound, None

LEMMA SearchProgress ==
  ASSUME TypeOK, NEW r \in Runs, Sound(run[r]), Search(r)
  PROVE  Progress(r)
<1>1. run[r] \in RunState /\ run[r].stage = "search"
  BY DEF TypeOK, Search
<1>2. PICK draft \in Windows : \E hits \in Hits(run[r], draft) :
        Move(r, IF run[r].round = 1 /\ Restored(run[r], hits) = {}
                THEN [run[r] EXCEPT !.stage = "fallback"]
                ELSE WithCandidates(run[r], Restored(run[r], hits)))
  BY DEF Search
<1>3. PICK hits \in Hits(run[r], draft) :
        Move(r, IF run[r].round = 1 /\ Restored(run[r], hits) = {}
                THEN [run[r] EXCEPT !.stage = "fallback"]
                ELSE WithCandidates(run[r], Restored(run[r], hits)))
  BY <1>2
<1> DEFINE found == Restored(run[r], hits)
<1>4. found \subseteq Archived /\ found \in SUBSET Articles /\ found \cap run[r].rejected = {}
  BY DataAssumption DEF Restored
<1>5. Inside(Bounded(draft, run[r].window)) \subseteq Inside(run[r].window)
  <2>1. draft.from \in Int /\ draft.to \in Int
    BY DataAssumption DEF Windows
  <2>2. run[r].window.from \in Int /\ run[r].window.to \in Int
    BY <1>1, DataAssumption DEF RunState, Windows
  <2>3. \A a \in Articles : ServiceDate[a] \in Int
    BY DataAssumption
  <2> QED
    BY <2>1, <2>2, <2>3 DEF Inside, Bounded
<1>6. run[r].round > 1 => found \subseteq Inside(run[r].window)
  <2>1. run[r].round > 1 => hits \subseteq Inside(Bounded(draft, run[r].window))
    BY DEF Hits, AppliesPeriod
  <2> QED
    BY <1>5, <2>1 DEF Restored
<1>7. Quiet(WithCandidates(run[r], found))
  BY <1>1, <1>4, <1>6, WithCandidatesQuiet
<1>8. ASSUME run[r].round = 1 PROVE Quiet([run[r] EXCEPT !.stage = "fallback"])
  <2>1. [run[r] EXCEPT !.stage = "fallback"] \in RunState
    BY <1>1 DEF RunState, Stages
  <2> QED
    BY <1>1, <1>8, <2>1, AdvanceQuiet DEF RunState
<1> QED
  BY <1>3, <1>7, <1>8 DEF Progress, Search

LEMMA FallbackProgress ==
  ASSUME TypeOK, NEW r \in Runs, Sound(run[r]), FallbackSearch(r)
  PROVE  Progress(r)
<1>1. run[r] \in RunState /\ run[r].stage = "fallback"
  BY DEF TypeOK, FallbackSearch
<1>2. PICK hits \in SUBSET Articles :
        Move(r, IF hits \cap Archived = {}
                THEN Result(run[r], "search_no_hits")
                ELSE WithCandidates(run[r], hits \cap Archived))
  BY DEF FallbackSearch
<1>3. run[r].round = 1 /\ run[r].rejected = {} /\ run[r].termination = None
      /\ run[r].asked <= MaxClarifications
  BY <1>1 DEF Sound, SoundLoop, SoundDialogue, Searching, Looping, Closing
<1>4. Quiet(WithCandidates(run[r], hits \cap Archived))
  BY <1>1, <1>3, WithCandidatesQuiet
<1>5. Quiet(Result(run[r], "search_no_hits"))
  <2>1. Sound(Result(run[r], "search_no_hits"))
    BY <1>1, <1>3, ResultSound DEF Outcomes, None
  <2>2. Result(run[r], "search_no_hits").outcome = "search_no_hits"
    BY DEF Result, Over, Blank
  <2> QED
    BY <1>1, <2>1, <2>2, ResultType DEF Quiet, Outcomes
<1> QED
  BY <1>2, <1>4, <1>5 DEF Progress, FallbackSearch

LEMMA SelectProgress ==
  ASSUME TypeOK, NEW r \in Runs, Sound(run[r]), SelectArticles(r) \/ ReselectArticles(r)
  PROVE  Progress(r)
<1>1. run[r] \in RunState /\ run[r].stage \in {"select", "reselect"} /\ UNCHANGED issues
  BY DEF TypeOK, SelectArticles, ReselectArticles
<1>2. \A answer \in Answers : Quiet(Accept(run[r], answer))
  BY <1>1, AcceptQuiet
<1> DEFINE n == [run[r] EXCEPT !.stage = "reselect"]
<1>3. ASSUME run[r].stage = "select" PROVE Quiet(n)
  <2>1. n \in RunState /\ Selected(n) = Selected(run[r])
    BY <1>1, SelectedSame DEF RunState, Stages
  <2>2. SoundEvidence(n)
    BY <1>1, <2>1 DEF Sound, SoundEvidence, RunState
  <2>3. SoundLoop(n)
    BY <1>1, <1>3, <2>1 DEF Sound, SoundLoop, RunState, Looping, Searching, Closing
  <2>4. SoundDialogue(n) /\ n.outcome = None
    BY <1>1, <1>3 DEF Sound, SoundDialogue, RunState, None
  <2> QED
    BY <2>1, <2>2, <2>3, <2>4 DEF Quiet, Sound, None
<1> QED
  BY <1>1, <1>2, <1>3 DEF Progress, SelectArticles, ReselectArticles

LEMMA ExtractProgress ==
  ASSUME TypeOK, NEW r \in Runs, Sound(run[r]), ExtractRelatedEvents(r)
  PROVE  Progress(r)
<1> DEFINE q == run[r]
           n(d) == [q EXCEPT !.stage = "sufficiency", !.chosen = {}, !.depth = d]
<1>1. q \in RunState /\ q.stage = "expand" /\ q.depth \in Nat /\ q.depth + 1 \in Nat
  BY DEF TypeOK, ExtractRelatedEvents, RunState
<1>2. ASSUME NEW d \in Nat PROVE Quiet(n(d))
  <2>1. n(d) \in RunState /\ Selected(n(d)) = Selected(q)
    <3>1. n(d) \in RunState /\ n(d).score = q.score
      BY <1>1 DEF RunState, Stages
    <3> QED
      BY <3>1, SelectedSame
  <2>2. SoundEvidence(n(d))
    BY <1>1, <2>1 DEF Sound, SoundEvidence, RunState
  <2>3. SoundLoop(n(d))
    BY <1>1, <2>1 DEF Sound, SoundLoop, RunState, Looping, Searching, Closing
  <2>4. SoundDialogue(n(d)) /\ n(d).outcome = None
    BY <1>1 DEF Sound, SoundDialogue, RunState, None
  <2> QED
    BY <2>1, <2>2, <2>3, <2>4 DEF Quiet, Sound, None
<1>3. PICK answer \in SUBSET [source : Articles, date : Dates] :
        Move(r, n(IF Related(q, answer) # {} THEN q.depth + 1 ELSE q.depth))
  BY DEF ExtractRelatedEvents
<1> QED
  BY <1>1, <1>2, <1>3 DEF Progress, ExtractRelatedEvents

LEMMA ReviewProgress ==
  ASSUME TypeOK, NEW r \in Runs, Sound(run[r]), ReviewSufficiency(r)
  PROVE  Progress(r)
<1> DEFINE s(w) == [run[r] EXCEPT !.window = w]
           n(w, b) == IF Verdict(s(w), b) # None THEN LeaveLoop(s(w), Verdict(s(w), b))
                      ELSE [s(w) EXCEPT !.stage = "hypothesize"]
<1>1. run[r] \in RunState /\ run[r].stage = "sufficiency"
  BY DEF TypeOK, ReviewSufficiency
<1>2. PICK b \in BOOLEAN, w \in Windows : Move(r, n(w, b))
  BY DEF ReviewSufficiency
<1>3. s(w) \in RunState /\ s(w).outcome = None
  BY <1>1 DEF RunState, Sound, SoundDialogue
<1>4. Verdict(s(w), b) \in Terminations \cup {None}
  BY DEF Verdict, Terminations
<1>5. [s(w) EXCEPT !.stage = "hypothesize"] \in RunState
      /\ [s(w) EXCEPT !.stage = "hypothesize"].outcome = None
  BY <1>3 DEF RunState, Stages
<1>6. n(w, b) \in RunState
  BY <1>3, <1>4, <1>5, LeaveLoopType
<1>7. n(w, b).outcome \notin {"completed", "reused"}
  BY <1>3, <1>5, LoopOutcomes DEF None
<1>8. Sound(n(w, b))
  BY <1>1, ReviewSound
<1> QED
  BY <1>2, <1>6, <1>7, <1>8 DEF Progress, Quiet, ReviewSufficiency

LEMMA HypothesesProgress ==
  ASSUME TypeOK, NEW r \in Runs, Sound(run[r]), GenerateHypotheses(r)
  PROVE  Progress(r)
<1> DEFINE q == run[r]
           s == [q EXCEPT !.previous = Selected(q)]
<1>1. q \in RunState /\ q.stage = "hypothesize"
  BY DEF TypeOK, GenerateHypotheses
<1>2. s \in RunState /\ Selected(s) = Selected(q)
  BY <1>1, SelectedType, SelectedSame DEF RunState
<1>3. /\ s.shown = q.shown /\ s.rejected = q.rejected /\ s.events = q.events
      /\ s.asked = q.asked /\ s.outcome = q.outcome /\ s.round = q.round
      /\ s.previous = Selected(q) /\ s.termination = q.termination
  BY <1>1, SelectedType DEF RunState
<1>4. /\ q.candidates = {} /\ q.termination = None /\ q.round \in 1..MaxRounds
      /\ q.round < MaxRounds /\ q.outcome = None
  BY <1>1 DEF Sound, SoundEvidence, SoundLoop, SoundDialogue, Looping, Searching, Closing
<1>5. Collected(s)
  BY <1>1, <1>2, <1>3, <1>4 DEF Sound, SoundEvidence, SoundDialogue, Collected
<1>6. Sound(NextRound(s))
  <2>1. s.round # MaxRounds
    BY <1>3, <1>4, LimitAssumption
  <2>2. s.termination = None /\ s.round \in 1..MaxRounds /\ s.previous = Selected(s)
    BY <1>2, <1>3, <1>4
  <2> QED
    BY <1>2, <1>5, <2>1, <2>2, NextRoundSound
<1>7. NextRound(s).outcome \notin {"completed", "reused"}
  BY <1>2, <1>3, <1>4, LoopOutcomes
<1> QED
  BY <1>2, <1>6, <1>7, NextRoundType DEF Progress, Quiet, GenerateHypotheses

LEMMA MergeProgress ==
  ASSUME TypeOK, NEW r \in Runs, Sound(run[r]), MergeTimeline(r)
  PROVE  Progress(r)
<1> DEFINE q == run[r]
<1>1. q \in RunState /\ q.stage = "merge"
  BY DEF TypeOK, MergeTimeline
<1>2. PICK merged \in Merges :
        Move(r, IF Validated(q, merged) = {} THEN Over(q, "failed")
                ELSE [q EXCEPT !.stage = "save", !.events = Validated(q, merged)])
  BY DEF MergeTimeline
<1> DEFINE n == [q EXCEPT !.stage = "save", !.events = Validated(q, merged)]
<1>3. ASSUME Validated(q, merged) # {} PROVE Quiet(n)
  <2>1. Validated(q, merged) \in SUBSET Events
    BY <1>1, ValidatedType
  <2>2. n \in RunState /\ Selected(n) = Selected(q) /\ n.events = Validated(q, merged)
    <3>1. n \in RunState /\ n.score = q.score /\ n.events = Validated(q, merged)
      BY <1>1, <2>1 DEF RunState, Stages
    <3> QED
      BY <3>1, SelectedSame
  <2>3. \A e \in n.events : e.cites # {} /\ e.cites \subseteq Selected(n)
    BY <1>1, <2>2, ValidatedSound
  <2>4. SoundEvidence(n)
    BY <1>1, <1>3, <2>2, <2>3 DEF Sound, SoundEvidence, RunState
  <2>5. SoundLoop(n)
    BY <1>1, <2>2 DEF Sound, SoundLoop, RunState, Looping, Searching, Closing
  <2>6. SoundDialogue(n) /\ n.outcome = None
    BY <1>1 DEF Sound, SoundDialogue, RunState, None
  <2> QED
    BY <2>2, <2>4, <2>5, <2>6 DEF Quiet, Sound, None
<1>4. Quiet(Over(q, "failed"))
  BY <1>1, OverQuiet
<1> QED
  BY <1>2, <1>3, <1>4 DEF Progress, MergeTimeline

LEMMA OpeningProgress ==
  ASSUME TypeOK, NEW r \in Runs, Sound(run[r]),
         Miss(r) \/ InterpretIntent(r) \/ BuildHypotheticalTimeline(r)
  PROVE  Progress(r)
<1> DEFINE q == run[r]
<1>1. q \in RunState
  BY DEF TypeOK
<1>2. CASE Miss(r)
  <2>1. Quiet([q EXCEPT !.stage = "intent"])
    <3>1. [q EXCEPT !.stage = "intent"] \in RunState
      BY <1>1 DEF RunState, Stages
    <3> QED
      BY <1>1, <1>2, <3>1, AdvanceQuiet DEF RunState, Miss
  <2> QED
    BY <1>2, <2>1 DEF Progress, Miss
<1>3. CASE InterpretIntent(r)
  <2>1. ASSUME NEW d \in BOOLEAN
        PROVE  Quiet([q EXCEPT !.stage = "hypothetical", !.userDate = d])
    <3>1. [q EXCEPT !.stage = "hypothetical", !.userDate = d] \in RunState
      BY <1>1 DEF RunState, Stages
    <3> QED
      BY <1>1, <1>3, <3>1, AdvanceQuiet DEF RunState, InterpretIntent
  <2>2. MayAsk(q) => Quiet(Over(q, "needs_clarification"))
    BY <1>1, OverQuiet
  <2> QED
    BY <1>3, <2>1, <2>2 DEF Progress, InterpretIntent
<1>4. CASE BuildHypotheticalTimeline(r)
  <2>1. ASSUME NEW w \in Windows
        PROVE  Quiet([q EXCEPT !.stage = "search", !.window = w, !.round = 1])
    <3>1. [q EXCEPT !.stage = "search", !.window = w, !.round = 1] \in RunState
      BY <1>1 DEF RunState, Stages
    <3> QED
      BY <1>1, <1>4, <3>1, AdvanceQuiet DEF RunState, BuildHypotheticalTimeline
  <2> QED
    BY <1>4, <2>1 DEF Progress, BuildHypotheticalTimeline
<1> QED
  BY <1>2, <1>3, <1>4

LEMMA FailureProgress ==
  ASSUME TypeOK, NEW r \in Runs, Sound(run[r]), CallFails(r)
  PROVE  Progress(r)
BY OverQuiet DEF TypeOK, CallFails, Progress

LEMMA ClientProgress ==
  ASSUME TypeOK, NEW r \in Runs, Sound(run[r]), Client(r)
  PROVE  Progress(r)
<1>1. run[r].topic \in Topics /\ run[r].asked \in Nat /\ run[r].asked <= MaxClarifications
  BY DEF TypeOK, RunState, Sound, SoundDialogue
<1>2. ASSUME NEW t \in Topics, NEW n \in Nat, n <= MaxClarifications
      PROVE  Quiet(Request(t, n))
  BY <1>2, RequestType, RequestSound DEF Quiet, Request, Blank, None
<1>3. CASE SubmitTopic(r)
  BY <1>2, <1>3, LimitAssumption DEF SubmitTopic, Progress
<1>4. CASE SubmitClarification(r)
  <2>1. run[r].asked + 1 \in Nat /\ run[r].asked + 1 <= MaxClarifications
    BY <1>1, <1>4, LimitAssumption DEF SubmitClarification, Sound, SoundDialogue
  <2> QED
    BY <1>1, <1>2, <1>4, <2>1 DEF SubmitClarification, Progress
<1>5. CASE RetryGeneration(r)
  BY <1>1, <1>2, <1>5 DEF RetryGeneration, Progress
<1> QED
  BY <1>3, <1>4, <1>5 DEF Client

-----------------------------------------------------------------------------
(***************************************************************************)
(* The issue table                                                         *)
(***************************************************************************)

AllSound == \A r \in Runs : Sound(run[r])

LEMMA InductiveParts ==
  Inductive <=> AllSound /\ UniqueTopics /\ ResultsNameTheirIssue /\ CitationsStored
BY DEF Inductive, AllSound, Sound

LEMMA AppendKeepsRows ==
  ASSUME TypeOK, NEW row \in Row, issues' = Append(issues, row)
  PROVE  /\ DOMAIN issues' = DOMAIN issues \cup {Len(issues) + 1}
         /\ \A i \in DOMAIN issues : i # Len(issues) + 1 /\ issues'[i] = issues[i]
         /\ issues'[Len(issues) + 1] = row
<1>1. issues \in Seq(Row) /\ Len(issues) \in Nat /\ DOMAIN issues = 1..Len(issues)
  BY DEF TypeOK
<1>2. Len(issues') = Len(issues) + 1 /\ DOMAIN issues' = 1..(Len(issues) + 1)
  BY <1>1
<1> QED
  BY <1>1, <1>2

\* A grounded issue about a new topic keeps the table sound, and the results
\* that name older issues right.
LEMMA AppendSound ==
  ASSUME TypeOK, UniqueTopics, CitationsStored, NEW row \in Row,
         row.topic \notin StoredTopics, row.events # {},
         \A e \in row.events : e.cites # {} /\ e.cites \subseteq Archived,
         issues' = Append(issues, row)
  PROVE  UniqueTopics' /\ CitationsStored'
<1>1. UniqueTopics'
  BY AppendKeepsRows DEF UniqueTopics, StoredTopics
<1>2. CitationsStored'
  BY AppendKeepsRows DEF CitationsStored
<1> QED
  BY <1>1, <1>2

\* What a run that reached the save is about to store.
LEMMA NewRowSound ==
  ASSUME TypeOK, NEW r \in Runs, Sound(run[r]), run[r].stage = "save"
  PROVE  /\ NewRow(run[r]) \in Row /\ NewRow(run[r]).topic = run[r].topic
         /\ NewRow(run[r]).events # {}
         /\ \A e \in NewRow(run[r]).events : e.cites # {} /\ e.cites \subseteq Archived
<1>1. NewRow(run[r]) \in Row
  BY DEF TypeOK, NewRow, Row, RunState
<1>2. Selected(run[r]) \subseteq Archived
  BY DEF Sound, SoundEvidence
<1> QED
  BY <1>1, <1>2 DEF NewRow, Sound, SoundEvidence

LEMMA ProgressInductive ==
  ASSUME TypeOK, Inductive, NEW r \in Runs, Progress(r)
  PROVE  Inductive'
<1>1. PICK s : Quiet(s) /\ Move(r, s) /\ UNCHANGED issues
  BY DEF Progress
<1>2. run' = [run EXCEPT ![r] = s] /\ run \in [Runs -> RunState]
  BY <1>1 DEF Move, TypeOK
<1>3. AllSound'
  BY <1>1, <1>2, InductiveParts DEF AllSound, Quiet
<1>4. UniqueTopics' /\ CitationsStored'
  BY <1>1, InductiveParts DEF UniqueTopics, CitationsStored
<1>5. ResultsNameTheirIssue'
  BY <1>1, <1>2, InductiveParts DEF ResultsNameTheirIssue, Quiet
<1> QED
  BY <1>3, <1>4, <1>5, InductiveParts, PTL

LEMMA ReuseInductive ==
  ASSUME TypeOK, Inductive, NEW r \in Runs, Reuse(r)
  PROVE  Inductive'
<1>1. PICK i \in DOMAIN issues :
        /\ issues[i].topic = run[r].topic
        /\ Move(r, [Over(run[r], "reused") EXCEPT !.termination = "cached", !.issueId = i])
  BY DEF Reuse
<1> DEFINE o == Over(run[r], "reused")
           s == [o EXCEPT !.termination = "cached", !.issueId = i]
<1>2. run[r] \in RunState /\ run[r].asked <= MaxClarifications /\ Sound(run[r])
  BY InductiveParts DEF TypeOK, AllSound, Sound, SoundDialogue
<1>3. o \in RunState /\ Selected(o) = {} /\ Sound(o)
  BY <1>2, OverType, OverSound DEF Outcomes
<1>4. /\ o.stage = "over" /\ o.outcome = "reused" /\ o.topic = run[r].topic
      /\ o.candidates = {} /\ o.events = {}
  BY DEF Over, Blank
<1>5. /\ s.score = o.score /\ s.stage = o.stage /\ s.outcome = o.outcome
      /\ s.topic = o.topic /\ s.termination = "cached" /\ s.issueId = i
      /\ s.shown = o.shown /\ s.rejected = o.rejected /\ s.candidates = o.candidates
      /\ s.events = o.events /\ s.asked = o.asked
  BY <1>3 DEF RunState
<1>6. Sound(s)
  <2>1. Selected(s) = {}
    BY <1>3, <1>5, SelectedSame
  <2> QED
    BY <1>3, <1>4, <1>5, <2>1
    DEF Sound, SoundEvidence, SoundLoop, SoundDialogue, Looping, Searching, Closing
<1>7. run' = [run EXCEPT ![r] = s] /\ run \in [Runs -> RunState] /\ UNCHANGED issues
  BY <1>1 DEF Move, TypeOK, Reuse
<1>8. AllSound'
  BY <1>6, <1>7, InductiveParts DEF AllSound
<1>9. UniqueTopics' /\ CitationsStored'
  BY <1>7, InductiveParts DEF UniqueTopics, CitationsStored
<1>10. ResultsNameTheirIssue'
  BY <1>1, <1>4, <1>5, <1>7, InductiveParts DEF ResultsNameTheirIssue
<1> QED
  BY <1>8, <1>9, <1>10, InductiveParts, PTL

LEMMA SaveInductive ==
  ASSUME TypeOK, Inductive, NEW r \in Runs, SaveIssue(r)
  PROVE  Inductive'
<1>1. run[r] \in RunState /\ Sound(run[r]) /\ run[r].stage = "save"
  BY InductiveParts DEF TypeOK, AllSound, SaveIssue
<1>2. CASE run[r].topic \in StoredTopics
  <2>1. Progress(r)
    BY <1>1, <1>2, OverQuiet DEF SaveIssue, Progress
  <2> QED
    BY <2>1, ProgressInductive
<1>3. CASE run[r].topic \notin StoredTopics
  <2> DEFINE o == Result(run[r], "completed")
             s == [o EXCEPT !.issueId = Len(issues) + 1]
  <2>1. issues' = Append(issues, NewRow(run[r])) /\ Move(r, s)
    BY <1>3 DEF SaveIssue
  <2>2. UniqueTopics' /\ CitationsStored'
    BY <1>1, <1>3, <2>1, NewRowSound, AppendSound, InductiveParts
  <2>3. o \in RunState /\ Selected(o) = {} /\ Sound(o)
    <3>1. run[r].asked <= MaxClarifications
          /\ (run[r].termination = "converged" => run[r].round >= 2)
      BY <1>1 DEF Sound, SoundLoop, SoundDialogue
    <3> QED
      BY <1>1, <3>1, ResultType, ResultSound DEF Outcomes
  <2>4. /\ o.stage = "over" /\ o.outcome = "completed" /\ o.topic = run[r].topic
        /\ o.candidates = {} /\ o.events = {}
    BY DEF Result, Over, Blank
  <2>5. /\ s.score = o.score /\ s.stage = o.stage /\ s.outcome = o.outcome
        /\ s.topic = o.topic /\ s.termination = o.termination /\ s.round = o.round
        /\ s.issueId = Len(issues) + 1
        /\ s.shown = o.shown /\ s.rejected = o.rejected /\ s.candidates = o.candidates
        /\ s.events = o.events /\ s.asked = o.asked
    BY <2>3 DEF RunState
  <2>6. Sound(s)
    <3>1. Selected(s) = {}
      BY <2>3, <2>5, SelectedSame
    <3> QED
      BY <2>3, <2>4, <2>5, <3>1
      DEF Sound, SoundEvidence, SoundLoop, SoundDialogue, Looping, Searching, Closing
  <2>7. run' = [run EXCEPT ![r] = s] /\ run \in [Runs -> RunState]
    BY <2>1 DEF Move, TypeOK
  <2>8. AllSound'
    BY <2>6, <2>7, InductiveParts DEF AllSound
  <2>9. ResultsNameTheirIssue'
    <3>1. NewRow(run[r]) \in Row /\ NewRow(run[r]).topic = run[r].topic
      BY <1>1, NewRowSound
    <3>2. /\ DOMAIN issues' = DOMAIN issues \cup {Len(issues) + 1}
          /\ \A i \in DOMAIN issues : issues'[i] = issues[i]
          /\ issues'[Len(issues) + 1] = NewRow(run[r])
      BY <2>1, <3>1, AppendKeepsRows
    <3> QED
      BY <2>4, <2>5, <2>7, <3>1, <3>2, InductiveParts DEF ResultsNameTheirIssue
  <2> QED
    BY <2>2, <2>8, <2>9, InductiveParts, PTL
<1> QED
  BY <1>2, <1>3

LEMMA SaveUnacknowledgedInductive ==
  ASSUME TypeOK, Inductive, NEW r \in Runs, SaveUnacknowledged(r)
  PROVE  Inductive'
<1>1. run[r] \in RunState /\ Sound(run[r]) /\ run[r].stage = "save"
  BY InductiveParts DEF TypeOK, AllSound, SaveUnacknowledged
<1>2. UniqueTopics' /\ CitationsStored'
  BY <1>1, NewRowSound, AppendSound, InductiveParts DEF SaveUnacknowledged
<1>3. Quiet(Over(run[r], "failed"))
  BY <1>1, OverQuiet
<1>4. run' = [run EXCEPT ![r] = Over(run[r], "failed")] /\ run \in [Runs -> RunState]
  BY DEF SaveUnacknowledged, Move, TypeOK
<1>5. AllSound'
  BY <1>3, <1>4, InductiveParts DEF AllSound, Quiet
<1>6. ResultsNameTheirIssue'
  <2>1. NewRow(run[r]) \in Row
    BY <1>1, NewRowSound
  <2>2. /\ DOMAIN issues' = DOMAIN issues \cup {Len(issues) + 1}
        /\ \A i \in DOMAIN issues : issues'[i] = issues[i]
    BY <2>1, AppendKeepsRows DEF SaveUnacknowledged
  <2> QED
    BY <1>3, <1>4, <2>2, InductiveParts DEF ResultsNameTheirIssue, Quiet
<1> QED
  BY <1>2, <1>5, <1>6, InductiveParts, PTL

LEMMA RestartInductive ==
  ASSUME TypeOK, Inductive, Restart
  PROVE  Inductive'
<1>1. \A r \in Runs : Quiet(Over(run[r], "failed"))
  BY OverQuiet, InductiveParts DEF TypeOK, AllSound
<1>2. /\ run' = [r \in Runs |-> IF run[r].stage \in Active THEN Over(run[r], "failed") ELSE run[r]]
      /\ UNCHANGED issues
  BY DEF Restart
<1>3. AllSound'
  BY <1>1, <1>2, InductiveParts DEF AllSound, Quiet
<1>4. UniqueTopics' /\ CitationsStored'
  BY <1>2, InductiveParts DEF UniqueTopics, CitationsStored
<1>5. ResultsNameTheirIssue'
  BY <1>1, <1>2, InductiveParts DEF ResultsNameTheirIssue, Quiet
<1> QED
  BY <1>3, <1>4, <1>5, InductiveParts, PTL

-----------------------------------------------------------------------------
(***************************************************************************)
(* Theorems                                                                *)
(***************************************************************************)

LEMMA InitInductive == Init => Inductive
<1> SUFFICES ASSUME Init PROVE Inductive
  OBVIOUS
<1>1. issues = <<>> /\ DOMAIN issues = {} /\ \A r \in Runs : run[r] = Blank
  BY DEF Init
<1>2. AllSound
  BY <1>1, BlankSound DEF AllSound
<1>3. UniqueTopics /\ CitationsStored
  BY <1>1 DEF UniqueTopics, CitationsStored
<1>4. ResultsNameTheirIssue
  <2>1. Blank.outcome \notin {"completed", "reused"}
    BY DEF Blank, None
  <2> QED
    BY <1>1, <2>1 DEF ResultsNameTheirIssue
<1> QED
  BY <1>2, <1>3, <1>4, InductiveParts

LEMMA GenerateInductive ==
  ASSUME TypeOK, Inductive, NEW r \in Runs, Generate(r)
  PROVE  Inductive'
<1>1. Sound(run[r])
  BY InductiveParts DEF AllSound
<1>2. CASE \/ Miss(r) \/ InterpretIntent(r) \/ BuildHypotheticalTimeline(r)
           \/ Search(r) \/ FallbackSearch(r) \/ SelectArticles(r) \/ ReselectArticles(r)
           \/ ExtractRelatedEvents(r) \/ ReviewSufficiency(r) \/ GenerateHypotheses(r)
           \/ MergeTimeline(r) \/ CallFails(r)
  <2>1. Progress(r)
    BY <1>1, <1>2, OpeningProgress, SearchProgress, FallbackProgress, SelectProgress,
       ExtractProgress, ReviewProgress, HypothesesProgress, MergeProgress, FailureProgress
  <2> QED
    BY <2>1, ProgressInductive
<1> QED
  BY <1>2, ReuseInductive, SaveInductive, SaveUnacknowledgedInductive DEF Generate

\* Every reachable state is sound: the inductive invariant of the pipeline.
THEOREM Soundness == Spec => [](TypeOK /\ Inductive)
<1>1. Init => Inductive
  BY InitInductive
<1>2. TypeOK /\ Inductive /\ [Next]_vars => Inductive'
  <2> SUFFICES ASSUME TypeOK, Inductive, [Next]_vars PROVE Inductive'
    OBVIOUS
  <2>1. CASE UNCHANGED vars
    <3>1. issues' = issues /\ run' = run
      BY <2>1 DEF vars
    <3> QED
      BY <3>1 DEF Inductive, UniqueTopics, ResultsNameTheirIssue, CitationsStored
  <2>2. CASE \E r \in Runs : Generate(r)
    BY <2>2, GenerateInductive
  <2>3. CASE \E r \in Runs : Client(r)
    <3>1. PICK r \in Runs : Client(r)
      BY <2>3
    <3>2. Sound(run[r])
      BY InductiveParts DEF AllSound
    <3> QED
      BY <3>1, <3>2, ClientProgress, ProgressInductive
  <2>4. CASE Restart
    BY <2>4, RestartInductive
  <2> QED
    BY <2>1, <2>2, <2>3, <2>4 DEF Next
<1> QED
  BY <1>1, <1>2, TypeCorrect, PTL DEF Spec

\* However the lookups and the saves of any number of requests interleave,
\* one topic has at most one issue.
THEOREM OneIssuePerTopic == Spec => []UniqueTopics
<1>1. Inductive => UniqueTopics
  BY DEF Inductive
<1> QED
  BY <1>1, Soundness, PTL

\* A completed or reused result names an issue of the table about its topic.
THEOREM ResultsRight == Spec => []ResultsNameTheirIssue
<1>1. Inductive => ResultsNameTheirIssue
  BY DEF Inductive
<1> QED
  BY <1>1, Soundness, PTL

\* No issue is stored without events, and no event without stored articles.
THEOREM IssuesGrounded == Spec => []CitationsStored
<1>1. Inductive => CitationsStored
  BY DEF Inductive
<1> QED
  BY <1>1, Soundness, PTL

\* What a run cites it has selected, what it has selected it has been shown,
\* and that was archived: invented ids never become evidence.
THEOREM EvidenceTraceable == Spec => []CitationsSelected
<1>1. Inductive => CitationsSelected
  BY DEF Inductive, SoundEvidence, CitationsSelected
<1> QED
  BY <1>1, Soundness, PTL

\* No article shown to P4 is ever left without a judgement.
THEOREM NoArticleLost == Spec => []EveryShownArticleJudged
<1>1. Inductive => EveryShownArticleJudged
  BY DEF Inductive, SoundEvidence, EveryShownArticleJudged
<1> QED
  BY <1>1, Soundness, PTL

\* A rejected article stays out of the candidates of later rounds.
THEOREM CandidatesFiltered == Spec => []RejectedNotShownAgain
<1>1. Inductive => RejectedNotShownAgain
  BY DEF Inductive, SoundEvidence, RejectedNotShownAgain
<1> QED
  BY <1>1, Soundness, PTL

\* From the second round on the candidates lie in the period as it was last updated,
\* whatever period a draft asks for.
THEOREM PeriodRespected == Spec => []CandidatesInPeriod
<1>1. Inductive => CandidatesInPeriod
  BY DEF Inductive, SoundEvidence, CandidatesInPeriod
<1> QED
  BY <1>1, Soundness, PTL

\* The internal error behind the loop is unreachable for any limits.
THEOREM LoopAlwaysHasReason == Spec => []LoopExitHasReason
<1>1. Inductive => LoopExitHasReason
  BY DEF Inductive, SoundLoop, SoundDialogue, Closing, LoopExitHasReason
<1> QED
  BY <1>1, Soundness, PTL

\* "converged" is neither given too early nor missed.
THEOREM ConvergesExactly == Spec => []ConvergenceExact
<1>1. Inductive => ConvergenceExact
  <2> SUFFICES ASSUME Inductive, NEW r \in Runs
               PROVE  /\ run[r].termination = "converged" => run[r].round >= 2
                      /\ run[r].termination = "converged" /\ run[r].stage \in {"merge", "save"} =>
                           Selected(run[r]) = run[r].before
                      /\ run[r].stage = "hypothesize" =>
                           /\ run[r].round >= 2 => Selected(run[r]) # run[r].before
                           /\ run[r].round < MaxRounds
                           /\ run[r].depth < MaxChainDepth
    BY DEF ConvergenceExact
  <2>1. SoundLoop(run[r])
    BY DEF Inductive
  <2> QED
    BY <2>1 DEF SoundLoop, Looping, Searching, Closing, NewIds
<1> QED
  BY <1>1, Soundness, PTL

\* No dialogue exceeds its budget of questions.
THEOREM QuestionsStayBounded == Spec => []QuestionsBounded
<1>1. Inductive => QuestionsBounded
  BY DEF Inductive, SoundDialogue, QuestionsBounded
<1> QED
  BY <1>1, Soundness, PTL

-----------------------------------------------------------------------------
(***************************************************************************)
(* The pipeline implements the catalogue                                   *)
(***************************************************************************)

\* A run goes on about its topic, or is over.
GoesOn(s, n) == n.topic = s.topic /\ n.stage \in Active \cup {"over"}

LEMMA OverGoesOn ==
  ASSUME NEW s, NEW o
  PROVE  GoesOn(s, Over(s, o)) /\ GoesOn(s, Result(s, o))
BY DEF GoesOn, Over, Result, Blank

LEMMA LoopGoesOn ==
  ASSUME NEW s \in RunState
  PROVE  /\ \A t : GoesOn(s, LeaveLoop(s, t))
         /\ GoesOn(s, NextRound(s)) /\ GoesOn(s, NothingNew(s))
<1>1. ASSUME NEW t PROVE GoesOn(s, LeaveLoop(s, t))
  BY OverGoesOn DEF LeaveLoop, GoesOn, RunState, Active, Stages
<1>2. GoesOn(s, NextRound(s))
  BY <1>1 DEF NextRound, GoesOn, RunState, Active, Stages
<1> QED
  BY <1>1, <1>2 DEF NothingNew

LEMMA EvidenceGoesOn ==
  ASSUME NEW s \in RunState
  PROVE  /\ \A found : GoesOn(s, WithCandidates(s, found))
         /\ \A answer \in Answers : GoesOn(s, Accept(s, answer))
<1>1. ASSUME NEW found PROVE GoesOn(s, WithCandidates(s, found))
  BY OverGoesOn, LoopGoesOn DEF WithCandidates, GoesOn, RunState, Active, Stages
<1>2. ASSUME NEW answer \in Answers PROVE GoesOn(s, Accept(s, answer))
  <2> DEFINE chosen == Picked(answer) \cap s.candidates
             t == [s EXCEPT !.score = MergedScore(s, answer),
                            !.rejected = @ \cup Rejections(answer, s.candidates)]
  <2>1. MergedScore(s, answer) \in [Articles -> 0..MaxScore]
    BY DEF MergedScore, RunState, Answers
  <2>2. Rejections(answer, s.candidates) \subseteq Articles
    BY DEF Rejections, RunState
  <2>3. t \in RunState /\ t.topic = s.topic
    BY <2>1, <2>2 DEF RunState
  <2>4. GoesOn(s, NothingNew(t))
    BY <2>3, LoopGoesOn DEF GoesOn
  <2>5. GoesOn(s, [t EXCEPT !.stage = "expand", !.chosen = chosen, !.candidates = {}])
    BY <2>3 DEF GoesOn, RunState, Active, Stages
  <2> QED
    BY <2>4, <2>5 DEF Accept
<1> QED
  BY <1>1, <1>2

LEMMA GenerateGoesOn ==
  ASSUME TypeOK, NEW r \in Runs, Generate(r)
  PROVE  \E n : GoesOn(run[r], n) /\ Move(r, n)
<1> DEFINE q == run[r]
<1>1. q \in RunState
  BY DEF TypeOK
<1>2. CASE Reuse(r)
  <2>1. PICK i \in DOMAIN issues :
          Move(r, [Over(q, "reused") EXCEPT !.termination = "cached", !.issueId = i])
    BY <1>2 DEF Reuse
  <2>2. GoesOn(q, [Over(q, "reused") EXCEPT !.termination = "cached", !.issueId = i])
    BY DEF GoesOn, Over, Blank
  <2> QED
    BY <2>1, <2>2
<1>3. CASE Miss(r)
  BY <1>1, <1>3 DEF Miss, GoesOn, RunState, Active, Stages
<1>4. CASE InterpretIntent(r)
  <2>1. \A d \in BOOLEAN : GoesOn(q, [q EXCEPT !.stage = "hypothetical", !.userDate = d])
    BY <1>1 DEF GoesOn, RunState, Active, Stages
  <2> QED
    BY <1>4, <2>1, OverGoesOn DEF InterpretIntent
<1>5. CASE BuildHypotheticalTimeline(r)
  <2>1. \A w \in Windows :
          GoesOn(q, [q EXCEPT !.stage = "search", !.window = w, !.round = 1])
    BY <1>1 DEF GoesOn, RunState, Active, Stages
  <2> QED
    BY <1>5, <2>1 DEF BuildHypotheticalTimeline
<1>6. CASE Search(r)
  <2>1. GoesOn(q, [q EXCEPT !.stage = "fallback"])
    BY <1>1 DEF GoesOn, RunState, Active, Stages
  <2>2. \A found : GoesOn(q, WithCandidates(q, found))
    BY <1>1, EvidenceGoesOn
  <2> QED
    BY <1>6, <2>1, <2>2 DEF Search
<1>7. CASE FallbackSearch(r)
  <2>1. \A found : GoesOn(q, WithCandidates(q, found))
    BY <1>1, EvidenceGoesOn
  <2> QED
    BY <1>7, <2>1, OverGoesOn DEF FallbackSearch
<1>8. CASE SelectArticles(r) \/ ReselectArticles(r)
  <2>1. GoesOn(q, [q EXCEPT !.stage = "reselect"])
    BY <1>1 DEF GoesOn, RunState, Active, Stages
  <2>2. \A answer \in Answers : GoesOn(q, Accept(q, answer))
    BY <1>1, EvidenceGoesOn
  <2> QED
    BY <1>8, <2>1, <2>2 DEF SelectArticles, ReselectArticles
<1>9. CASE ExtractRelatedEvents(r)
  <2> DEFINE n(d) == [q EXCEPT !.stage = "sufficiency", !.chosen = {}, !.depth = d]
  <2>1. \A d : GoesOn(q, n(d))
    BY <1>1 DEF GoesOn, RunState, Active, Stages
  <2>2. PICK answer \in SUBSET [source : Articles, date : Dates] :
          Move(r, n(IF Related(q, answer) # {} THEN q.depth + 1 ELSE q.depth))
    BY <1>9 DEF ExtractRelatedEvents
  <2> HIDE DEF n
  <2> QED
    BY <2>1, <2>2
<1>10. CASE ReviewSufficiency(r)
  <2> DEFINE s(w) == [q EXCEPT !.window = w]
  <2>1. \A w \in Windows : s(w) \in RunState /\ s(w).topic = q.topic
    BY <1>1 DEF RunState
  <2>2. ASSUME NEW w \in Windows, NEW t PROVE GoesOn(q, LeaveLoop(s(w), t))
    <3>1. GoesOn(s(w), LeaveLoop(s(w), t))
      BY <2>1, LoopGoesOn
    <3> QED
      BY <2>1, <3>1 DEF GoesOn
  <2>3. \A w \in Windows : GoesOn(q, [s(w) EXCEPT !.stage = "hypothesize"])
    BY <2>1 DEF GoesOn, RunState, Active, Stages
  <2> QED
    BY <1>10, <2>2, <2>3 DEF ReviewSufficiency
<1>11. CASE GenerateHypotheses(r)
  <2> DEFINE s == [q EXCEPT !.previous = Selected(q)]
  <2>1. s \in RunState /\ s.topic = q.topic
    BY <1>1, SelectedType DEF RunState
  <2>2. GoesOn(q, NextRound(s))
    BY <2>1, LoopGoesOn DEF GoesOn
  <2> QED
    BY <1>11, <2>2 DEF GenerateHypotheses
<1>12. CASE MergeTimeline(r)
  <2> DEFINE n(e) == [q EXCEPT !.stage = "save", !.events = e]
  <2>1. \A e : GoesOn(q, n(e))
    BY <1>1 DEF GoesOn, RunState, Active, Stages
  <2>2. Move(r, Over(q, "failed")) \/ \E e : Move(r, n(e))
    BY <1>12 DEF MergeTimeline
  <2> QED
    BY <2>1, <2>2, OverGoesOn
<1>13. CASE SaveIssue(r)
  <2>1. GoesOn(q, [Result(q, "completed") EXCEPT !.issueId = Len(issues) + 1])
    BY DEF GoesOn, Result, Over, Blank
  <2> QED
    BY <1>13, <2>1, OverGoesOn DEF SaveIssue
<1>14. CASE SaveUnacknowledged(r)
  BY <1>14, OverGoesOn DEF SaveUnacknowledged
<1>15. CASE CallFails(r)
  BY <1>15, OverGoesOn DEF CallFails
<1> QED
  BY <1>2, <1>3, <1>4, <1>5, <1>6, <1>7, <1>8, <1>9, <1>10, <1>11, <1>12, <1>13,
     <1>14, <1>15 DEF Generate

LEMMA ClientAsks ==
  ASSUME TypeOK, NEW r \in Runs, Client(r)
  PROVE  Catalogue!Ask(r)
<1>1. PICK t \in Topics, n \in Nat : Move(r, Request(t, n))
  <2>1. run[r].topic \in Topics /\ run[r].asked \in Nat /\ run[r].asked + 1 \in Nat
    BY DEF TypeOK, RunState
  <2> QED
    BY <2>1 DEF Client, SubmitTopic, SubmitClarification, RetryGeneration
<1>2. run[r].stage \notin Active /\ UNCHANGED issues
  BY DEF Client, SubmitTopic, SubmitClarification, RetryGeneration, Active
<1>3. /\ Request(t, n).stage = "lookup" /\ Request(t, n).topic = t
      /\ ~Answered(Request(t, n))
  BY DEF Request, Blank, Answered, None
<1>4. run' = [run EXCEPT ![r] = Request(t, n)] /\ run \in [Runs -> RunState]
  BY <1>1 DEF Move, TypeOK
<1>5. Wanted' = [Wanted EXCEPT ![r] = t]
  BY <1>3, <1>4 DEF Wanted
<1>6. Reply' = [Reply EXCEPT ![r] = [status |-> "working", issue |-> 0]]
  BY <1>3, <1>4 DEF Reply, Active, Stages
<1>7. ~Catalogue!Working(r)
  BY <1>2 DEF Catalogue!Working, Reply
<1> QED
  BY <1>2, <1>5, <1>6, <1>7 DEF Catalogue!Ask, Catalogue!Answer

\* How a step of one run looks from outside.
LEMMA SeenFromOutside ==
  ASSUME TypeOK, NEW r \in Runs, run[r].stage \in Active, run[r].outcome = None,
         NEW n, GoesOn(run[r], n), n.stage \in Active => ~Answered(n), Move(r, n)
  PROVE  /\ Wanted' = Wanted
         /\ Catalogue!Working(r)
         /\ n.stage \in Active => Reply' = Reply
         /\ n.stage = "over" =>
              Reply' = [Reply EXCEPT ![r] =
                          [status |-> IF Answered(n) THEN "answered" ELSE "declined",
                           issue  |-> IF Answered(n) THEN n.issueId ELSE 0]]
<1>1. run' = [run EXCEPT ![r] = n] /\ run \in [Runs -> RunState]
  BY DEF Move, TypeOK
<1>2. n.topic = run[r].topic /\ n.stage # "idle" /\ run[r].stage # "idle"
  BY DEF GoesOn, Active
<1>3. Wanted' = Wanted
  BY <1>1, <1>2 DEF Wanted
<1>4. Reply[r] = [status |-> "working", issue |-> 0]
  BY <1>2 DEF Reply, Answered, None
<1>5. Catalogue!Working(r)
  BY <1>4 DEF Catalogue!Working
<1>6. ASSUME n.stage \in Active PROVE Reply' = Reply
  <2>1. ~Answered(n) /\ ~Answered(run[r])
    BY <1>6 DEF Answered, None
  <2> QED
    BY <1>1, <1>2, <1>6, <2>1 DEF Reply
<1>7. ASSUME n.stage = "over"
      PROVE  Reply' = [Reply EXCEPT ![r] =
                         [status |-> IF Answered(n) THEN "answered" ELSE "declined",
                          issue  |-> IF Answered(n) THEN n.issueId ELSE 0]]
  <2>1. n.stage \notin Active
    BY <1>7 DEF Active
  <2> QED
    BY <1>1, <1>7, <2>1 DEF Reply
<1> QED
  BY <1>3, <1>5, <1>6, <1>7

\* Progress without an answer is invisible or declines the request.
LEMMA ProgressSeen ==
  ASSUME TypeOK, NEW r \in Runs, run[r].stage \in Active, run[r].outcome = None,
         Progress(r), \E n : GoesOn(run[r], n) /\ Move(r, n)
  PROVE  Catalogue!Decline(r) \/ (issues' = issues /\ Wanted' = Wanted /\ Reply' = Reply)
<1>1. PICK n : GoesOn(run[r], n) /\ Move(r, n)
  OBVIOUS
<1>2. ~Answered(n) /\ UNCHANGED issues
  <2>1. PICK s : Quiet(s) /\ Move(r, s) /\ UNCHANGED issues
    BY DEF Progress
  <2>2. s = n
    BY <1>1, <2>1 DEF Move, TypeOK
  <2> QED
    BY <2>1, <2>2 DEF Quiet, Answered
<1>3. n.stage \in Active \/ n.stage = "over"
  BY <1>1 DEF GoesOn
<1> QED
  BY <1>1, <1>2, <1>3, SeenFromOutside DEF Catalogue!Decline, Catalogue!Answer

LEMMA AddsIssue ==
  ASSUME TypeOK, NEW r \in Runs, Sound(run[r]), run[r].stage = "save",
         run[r].topic \notin StoredTopics, issues' = Append(issues, NewRow(run[r]))
  PROVE  Catalogue!Add(r)
<1> DEFINE row == NewRow(run[r])
<1>1. /\ row \in Row /\ row.topic = run[r].topic /\ row.events # {}
      /\ \A e \in row.events : e.cites # {} /\ e.cites \subseteq Archived
  BY NewRowSound
<1>2. row = [topic |-> row.topic, events |-> row.events]
      /\ row.topic \in Topics /\ row.events \subseteq Events
  BY <1>1 DEF Row
<1>3. row.events \in Catalogue!Evidence
  <2>1. \A e \in row.events : e \in [date : Dates, cites : (SUBSET Archived) \ {{}}]
    BY <1>1, <1>2 DEF Events
  <2> QED
    BY <1>1, <2>1 DEF Catalogue!Evidence
<1>4. row \in Catalogue!Issue
  BY <1>2, <1>3 DEF Catalogue!Issue
<1>5. Wanted[r] = run[r].topic
  BY DEF Wanted
<1>6. Wanted[r] \notin Catalogue!Covered
  BY <1>5 DEF Catalogue!Covered, StoredTopics
<1> QED
  BY <1>1, <1>4, <1>5, <1>6 DEF Catalogue!Add

LEMMA ActiveUnanswered ==
  ASSUME TypeOK, Inductive, NEW r \in Runs, Generate(r)
  PROVE  run[r].stage \in Active /\ run[r].outcome = None /\ Sound(run[r])
<1>1. Sound(run[r])
  BY InductiveParts DEF AllSound
<1>2. run[r].stage \in Active
  BY DEF Generate, Reuse, Miss, InterpretIntent, BuildHypotheticalTimeline, Search,
     FallbackSearch, SelectArticles, ReselectArticles, ExtractRelatedEvents,
     ReviewSufficiency, GenerateHypotheses, MergeTimeline, SaveIssue, SaveUnacknowledged,
     CallFails, Active, Stages
<1> QED
  BY <1>1, <1>2 DEF Sound, SoundDialogue, Active

LEMMA GenerateSeen ==
  ASSUME TypeOK, Inductive, NEW r \in Runs, Generate(r)
  PROVE  \/ Catalogue!Publish(r) \/ Catalogue!PublishUnheard(r)
         \/ Catalogue!PointTo(r) \/ Catalogue!Decline(r)
         \/ issues' = issues /\ Wanted' = Wanted /\ Reply' = Reply
<1> DEFINE q == run[r]
<1>1. q \in RunState /\ q.stage \in Active /\ q.outcome = None /\ Sound(q)
  BY ActiveUnanswered DEF TypeOK
<1>2. CASE Progress(r)
  BY <1>1, <1>2, GenerateGoesOn, ProgressSeen
<1>3. CASE Reuse(r)
  <2>1. PICK i \in DOMAIN issues :
          /\ issues[i].topic = q.topic
          /\ Move(r, [Over(q, "reused") EXCEPT !.termination = "cached", !.issueId = i])
    BY <1>3 DEF Reuse
  <2> DEFINE n == [Over(q, "reused") EXCEPT !.termination = "cached", !.issueId = i]
  <2>2. n.stage = "over" /\ n.topic = q.topic /\ n.issueId = i /\ Answered(n)
    BY DEF Over, Blank, Answered
  <2>3. /\ Wanted' = Wanted /\ Catalogue!Working(r)
        /\ Reply' = [Reply EXCEPT ![r] = [status |-> "answered", issue |-> i]]
    BY <1>1, <2>1, <2>2, SeenFromOutside DEF GoesOn, Active
  <2>4. Wanted[r] = q.topic
    BY <1>1 DEF Wanted, Active
  <2> QED
    BY <1>3, <2>1, <2>3, <2>4 DEF Reuse, Catalogue!PointTo, Catalogue!Answer
<1>4. CASE SaveIssue(r) /\ q.topic \in StoredTopics
  <2>1. Progress(r)
    BY <1>1, <1>4, OverQuiet DEF SaveIssue, Progress
  <2> QED
    BY <1>2, <2>1
<1>5. CASE SaveIssue(r) /\ q.topic \notin StoredTopics
  <2> DEFINE n == [Result(q, "completed") EXCEPT !.issueId = Len(issues) + 1]
  <2>1. Move(r, n) /\ issues' = Append(issues, NewRow(q)) /\ q.stage = "save"
    BY <1>5 DEF SaveIssue
  <2>2. n.stage = "over" /\ n.topic = q.topic /\ n.issueId = Len(issues) + 1 /\ Answered(n)
    BY DEF Result, Over, Blank, Answered
  <2>3. /\ Wanted' = Wanted /\ Catalogue!Working(r)
        /\ Reply' = [Reply EXCEPT ![r] = [status |-> "answered", issue |-> Len(issues) + 1]]
    BY <1>1, <2>1, <2>2, SeenFromOutside DEF GoesOn, Active
  <2>4. Catalogue!Add(r)
    BY <1>1, <1>5, <2>1, AddsIssue
  <2> QED
    BY <2>3, <2>4 DEF Catalogue!Publish, Catalogue!Answer
<1>6. CASE SaveUnacknowledged(r)
  <2> DEFINE n == Over(q, "failed")
  <2>1. n.stage = "over" /\ n.topic = q.topic /\ ~Answered(n)
    BY DEF Over, Blank, Answered
  <2>2. /\ Wanted' = Wanted /\ Catalogue!Working(r)
        /\ Reply' = [Reply EXCEPT ![r] = [status |-> "declined", issue |-> 0]]
    BY <1>1, <1>6, <2>1, SeenFromOutside DEF SaveUnacknowledged, GoesOn, Active
  <2>3. Catalogue!Add(r)
    BY <1>1, <1>6, AddsIssue DEF SaveUnacknowledged
  <2> QED
    BY <2>2, <2>3 DEF Catalogue!PublishUnheard, Catalogue!Answer
<1>7. CASE \/ Miss(r) \/ InterpretIntent(r) \/ BuildHypotheticalTimeline(r)
           \/ Search(r) \/ FallbackSearch(r) \/ SelectArticles(r) \/ ReselectArticles(r)
           \/ ExtractRelatedEvents(r) \/ ReviewSufficiency(r) \/ GenerateHypotheses(r)
           \/ MergeTimeline(r) \/ CallFails(r)
  <2>1. Progress(r)
    BY <1>1, <1>7, OpeningProgress, SearchProgress, FallbackProgress, SelectProgress,
       ExtractProgress, ReviewProgress, HypothesesProgress, MergeProgress, FailureProgress
  <2> QED
    BY <1>2, <2>1
<1> QED
  BY <1>3, <1>4, <1>5, <1>6, <1>7 DEF Generate

LEMMA RestartSeen ==
  ASSUME TypeOK, Inductive, Restart
  PROVE  Catalogue!Forget
<1>1. /\ run' = [r \in Runs |-> IF run[r].stage \in Active THEN Over(run[r], "failed") ELSE run[r]]
      /\ issues' = issues
  BY DEF Restart
<1>2. \A r \in Runs : /\ Over(run[r], "failed").stage = "over"
                      /\ Over(run[r], "failed").topic = run[r].topic
                      /\ ~Answered(Over(run[r], "failed"))
  BY DEF Over, Blank, Answered
<1>3. Wanted' = Wanted
  BY <1>1, <1>2 DEF Wanted, Active
<1>4. \A r \in Runs : Catalogue!Working(r) <=> run[r].stage \in Active
  BY DEF Catalogue!Working, Reply, Active
<1>5. Reply' = [r \in Runs |-> IF Catalogue!Working(r) THEN [status |-> "declined", issue |-> 0]
                               ELSE Reply[r]]
  <2>1. \A r \in Runs :
          run'[r] = IF run[r].stage \in Active THEN Over(run[r], "failed") ELSE run[r]
    BY <1>1
  <2> QED
    BY <1>2, <1>4, <2>1 DEF Reply, Active
<1> QED
  BY <1>1, <1>3, <1>5 DEF Catalogue!Forget

\* The pipeline, run by any number of threads, is a catalogue that grows by
\* one grounded issue about a new topic at a time and answers truthfully.
THEOREM PipelineImplementsCatalogue == Spec => ImplementsCatalogue
<1>1. Init => Catalogue!Init
  <2>1. Blank.stage = "idle" /\ ~Answered(Blank)
    BY DEF Blank, Answered, None
  <2>2. ASSUME Init PROVE Wanted = [r \in Runs |-> Catalogue!None]
    BY <2>1, <2>2 DEF Init, Wanted, None, Catalogue!None
  <2>3. ASSUME Init PROVE Reply = [r \in Runs |-> [status |-> "silent", issue |-> 0]]
    BY <2>1, <2>3 DEF Init, Reply
  <2> QED
    BY <2>2, <2>3 DEF Init, Catalogue!Init
<1>2. TypeOK /\ Inductive /\ [Next]_vars => [Catalogue!Next]_(Catalogue!cvars)
  <2> SUFFICES ASSUME TypeOK, Inductive, [Next]_vars
               PROVE  [Catalogue!Next]_(Catalogue!cvars)
    OBVIOUS
  <2>1. CASE UNCHANGED vars
    BY <2>1 DEF vars, Catalogue!cvars, Wanted, Reply
  <2>2. CASE \E r \in Runs : Generate(r)
    BY <2>2, GenerateSeen DEF Catalogue!Next, Catalogue!cvars
  <2>3. CASE \E r \in Runs : Client(r)
    BY <2>3, ClientAsks DEF Catalogue!Next
  <2>4. CASE Restart
    BY <2>4, RestartSeen DEF Catalogue!Next
  <2> QED
    BY <2>1, <2>2, <2>3, <2>4 DEF Next
<1> QED
  BY <1>1, <1>2, Soundness, PTL DEF Spec, ImplementsCatalogue, Catalogue!Spec

-----------------------------------------------------------------------------
(***************************************************************************)
(* Nothing established is taken back                                       *)
(***************************************************************************)

\* A step of generate that stays within generate loses nothing.
GrowsWhileActive(s, n) == n.stage \in Active => Grows(s, n)

LEMMA SameEvidenceGrows ==
  ASSUME NEW s \in RunState, NEW n, n.score = s.score, n.rejected = s.rejected,
         n.shown = s.shown, n.round \in Nat, s.round <= n.round,
         n.depth \in Nat, s.depth <= n.depth
  PROVE  GrowsWhileActive(s, n)
<1>1. \A a \in Articles : s.score[a] <= n.score[a]
  <2>1. \A a \in Articles : s.score[a] \in 0..MaxScore
    BY DEF RunState
  <2> QED
    BY <2>1, LimitAssumption
<1> QED
  BY <1>1 DEF GrowsWhileActive, Grows

LEMMA OverGrows ==
  ASSUME NEW s, NEW o
  PROVE  /\ \A t : GrowsWhileActive(t, Over(s, o))
         /\ \A t : GrowsWhileActive(t, Result(s, o))
BY DEF GrowsWhileActive, Over, Result, Blank, Active

LEMMA LoopGrows ==
  ASSUME NEW s \in RunState
  PROVE  /\ \A t : GrowsWhileActive(s, LeaveLoop(s, t))
         /\ GrowsWhileActive(s, NextRound(s))
         /\ GrowsWhileActive(s, NothingNew(s))
<1>1. s.round \in Nat /\ s.depth \in Nat /\ s.round <= s.round /\ s.depth <= s.depth
      /\ s.round + 1 \in Nat /\ s.round <= s.round + 1
  BY DEF RunState
<1>2. ASSUME NEW t PROVE GrowsWhileActive(s, LeaveLoop(s, t))
  <2> DEFINE u == [s EXCEPT !.termination = t]
             m == [u EXCEPT !.stage = "merge", !.candidates = {}, !.chosen = {}]
  <2>1. m.score = s.score /\ m.rejected = s.rejected /\ m.shown = s.shown
        /\ m.round = s.round /\ m.depth = s.depth
    BY DEF RunState
  <2>2. GrowsWhileActive(s, m)
    BY <1>1, <2>1, SameEvidenceGrows
  <2> QED
    BY <2>2, OverGrows DEF LeaveLoop
<1>3. GrowsWhileActive(s, NextRound(s))
  <2> DEFINE n == [s EXCEPT !.stage = "search", !.round = s.round + 1,
                            !.candidates = {}, !.chosen = {}, !.before = Selected(s)]
  <2>1. n.score = s.score /\ n.rejected = s.rejected /\ n.shown = s.shown
        /\ n.round = s.round + 1 /\ n.depth = s.depth
    BY DEF RunState
  <2>2. GrowsWhileActive(s, n)
    BY <1>1, <2>1, SameEvidenceGrows
  <2> QED
    BY <1>2, <2>2 DEF NextRound
<1> QED
  BY <1>2, <1>3 DEF NothingNew

LEMMA WithCandidatesGrows ==
  ASSUME NEW s \in RunState, NEW found \in SUBSET Articles
  PROVE  GrowsWhileActive(s, WithCandidates(s, found))
<1> DEFINE n == [s EXCEPT !.stage = "select", !.candidates = found, !.shown = @ \cup found]
<1>1. n.score = s.score /\ n.rejected = s.rejected /\ s.shown \subseteq n.shown
      /\ n.round = s.round /\ n.depth = s.depth
  BY DEF RunState
<1>2. \A a \in Articles : s.score[a] <= s.score[a]
  <2>1. \A a \in Articles : s.score[a] \in 0..MaxScore
    BY DEF RunState
  <2> QED
    BY <2>1, LimitAssumption
<1>3. s.round <= s.round /\ s.depth <= s.depth
  BY DEF RunState
<1>4. GrowsWhileActive(s, n)
  BY <1>1, <1>2, <1>3 DEF GrowsWhileActive, Grows
<1> QED
  BY <1>4, OverGrows, LoopGrows DEF WithCandidates

LEMMA AcceptGrows ==
  ASSUME NEW s \in RunState, NEW answer \in Answers
  PROVE  GrowsWhileActive(s, Accept(s, answer))
<1> DEFINE chosen == Picked(answer) \cap s.candidates
           t == [s EXCEPT !.score = MergedScore(s, answer),
                          !.rejected = @ \cup Rejections(answer, s.candidates)]
           e == [t EXCEPT !.stage = "expand", !.chosen = chosen, !.candidates = {}]
<1>1. MergedScore(s, answer) \in [Articles -> 0..MaxScore]
  BY DEF MergedScore, RunState, Answers
<1>2. Rejections(answer, s.candidates) \subseteq Articles
  BY DEF Rejections, RunState
<1>3. /\ t \in RunState /\ t.score = MergedScore(s, answer)
      /\ s.rejected \subseteq t.rejected
      /\ t.shown = s.shown /\ t.round = s.round /\ t.depth = s.depth
  BY <1>1, <1>2 DEF RunState
<1>4. \A a \in Articles : s.score[a] <= MergedScore(s, answer)[a]
  <2>1. ASSUME NEW a \in Articles PROVE s.score[a] <= MergedScore(s, answer)[a]
    <3>1. s.score[a] \in 0..MaxScore /\ answer.score[a] \in 0..MaxScore
      BY DEF RunState, Answers
    <3> QED
      BY <3>1, LimitAssumption DEF MergedScore
  <2> QED
    BY <2>1
<1>5. s.round \in Nat /\ s.depth \in Nat
  BY DEF RunState
<1>6. ASSUME NEW n, GrowsWhileActive(t, n), n.stage \in Active =>
               n.score = t.score /\ n.rejected = t.rejected /\ n.shown = t.shown
      PROVE  GrowsWhileActive(s, n)
  BY <1>3, <1>4, <1>5, <1>6 DEF GrowsWhileActive, Grows
<1>7. GrowsWhileActive(s, e)
  <2>1. e.score = t.score /\ e.rejected = t.rejected /\ e.shown = t.shown
        /\ e.round = t.round /\ e.depth = t.depth
    BY <1>3 DEF RunState
  <2> QED
    BY <1>3, <1>4, <1>5, <2>1 DEF GrowsWhileActive, Grows
<1>8. GrowsWhileActive(s, NothingNew(t))
  <2>1. NothingNew(t).stage \in Active =>
          /\ NothingNew(t).score = t.score
          /\ NothingNew(t).rejected = t.rejected
          /\ NothingNew(t).shown = t.shown
    <3>1. \A x : LeaveLoop(t, x).stage \in Active =>
            /\ LeaveLoop(t, x).score = t.score
            /\ LeaveLoop(t, x).rejected = t.rejected
            /\ LeaveLoop(t, x).shown = t.shown
      BY <1>3 DEF LeaveLoop, Result, Over, Blank, RunState, Active
    <3>2. NextRound(t).stage \in Active =>
            /\ NextRound(t).score = t.score
            /\ NextRound(t).rejected = t.rejected
            /\ NextRound(t).shown = t.shown
      BY <1>3, <3>1 DEF NextRound, RunState
    <3> QED
      BY <3>1, <3>2 DEF NothingNew
  <2>2. GrowsWhileActive(t, NothingNew(t))
    BY <1>3, LoopGrows
  <2> QED
    BY <1>6, <2>1, <2>2
<1> QED
  BY <1>7, <1>8 DEF Accept

LEMMA GenerateGrows ==
  ASSUME TypeOK, NEW r \in Runs, Sound(run[r]), Generate(r)
  PROVE  \E n : GrowsWhileActive(run[r], n) /\ Move(r, n)
<1> DEFINE q == run[r]
<1>1. /\ q \in RunState /\ q.round \in Nat /\ q.depth \in Nat
      /\ q.round <= q.round /\ q.depth <= q.depth /\ q.depth <= q.depth + 1
      /\ q.depth + 1 \in Nat
  BY DEF TypeOK, RunState
<1>2. CASE Reuse(r)
  <2>1. PICK i \in DOMAIN issues :
          Move(r, [Over(q, "reused") EXCEPT !.termination = "cached", !.issueId = i])
    BY <1>2 DEF Reuse
  <2>2. GrowsWhileActive(q, [Over(q, "reused") EXCEPT !.termination = "cached", !.issueId = i])
    BY DEF GrowsWhileActive, Over, Blank, Active
  <2> QED
    BY <2>1, <2>2
<1>3. CASE Miss(r)
  <2> DEFINE n == [q EXCEPT !.stage = "intent"]
  <2>1. n.score = q.score /\ n.rejected = q.rejected /\ n.shown = q.shown
        /\ n.round = q.round /\ n.depth = q.depth
    BY <1>1 DEF RunState
  <2>2. GrowsWhileActive(q, n)
    BY <1>1, <2>1, SameEvidenceGrows
  <2> QED
    BY <1>3, <2>2 DEF Miss
<1>4. CASE InterpretIntent(r)
  <2> DEFINE n(d) == [q EXCEPT !.stage = "hypothetical", !.userDate = d]
  <2>1. ASSUME NEW d PROVE GrowsWhileActive(q, n(d))
    <3>1. n(d).score = q.score /\ n(d).rejected = q.rejected /\ n(d).shown = q.shown
          /\ n(d).round = q.round /\ n(d).depth = q.depth
      BY <1>1 DEF RunState
    <3> QED
      BY <1>1, <3>1, SameEvidenceGrows
  <2>2. Move(r, Over(q, "needs_clarification")) \/ \E d \in BOOLEAN : Move(r, n(d))
    BY <1>4 DEF InterpretIntent
  <2> QED
    BY <2>1, <2>2, OverGrows
<1>5. CASE BuildHypotheticalTimeline(r)
  <2> DEFINE n(w) == [q EXCEPT !.stage = "search", !.window = w, !.round = 1]
  <2>1. q.round = 0
    BY <1>5 DEF Sound, SoundLoop, BuildHypotheticalTimeline
  <2>2. ASSUME NEW w PROVE GrowsWhileActive(q, n(w))
    <3>1. n(w).score = q.score /\ n(w).rejected = q.rejected /\ n(w).shown = q.shown
          /\ n(w).round = 1 /\ n(w).depth = q.depth
      BY <1>1 DEF RunState
    <3>2. q.round <= n(w).round /\ n(w).round \in Nat
      BY <2>1, <3>1
    <3> QED
      BY <1>1, <3>1, <3>2, SameEvidenceGrows
  <2>3. \E w \in Windows : Move(r, n(w))
    BY <1>5 DEF BuildHypotheticalTimeline
  <2> QED
    BY <2>2, <2>3
<1>6. CASE Search(r)
  <2> DEFINE n == [q EXCEPT !.stage = "fallback"]
  <2>1. n.score = q.score /\ n.rejected = q.rejected /\ n.shown = q.shown
        /\ n.round = q.round /\ n.depth = q.depth
    BY <1>1 DEF RunState
  <2>2. GrowsWhileActive(q, n)
    BY <1>1, <2>1, SameEvidenceGrows
  <2>3. \A h : GrowsWhileActive(q, WithCandidates(q, Restored(q, h)))
    BY <1>1, WithCandidatesGrows, DataAssumption DEF Restored
  <2> QED
    BY <1>6, <2>2, <2>3 DEF Search
<1>7. CASE FallbackSearch(r)
  <2>1. \A h \in SUBSET Articles : GrowsWhileActive(q, WithCandidates(q, h \cap Archived))
    BY <1>1, WithCandidatesGrows
  <2> QED
    BY <1>7, <2>1, OverGrows DEF FallbackSearch
<1>8. CASE SelectArticles(r) \/ ReselectArticles(r)
  <2> DEFINE n == [q EXCEPT !.stage = "reselect"]
  <2>1. n.score = q.score /\ n.rejected = q.rejected /\ n.shown = q.shown
        /\ n.round = q.round /\ n.depth = q.depth
    BY <1>1 DEF RunState
  <2>2. GrowsWhileActive(q, n)
    BY <1>1, <2>1, SameEvidenceGrows
  <2>3. \A answer \in Answers : GrowsWhileActive(q, Accept(q, answer))
    BY <1>1, AcceptGrows
  <2> QED
    BY <1>8, <2>2, <2>3 DEF SelectArticles, ReselectArticles
<1>9. CASE ExtractRelatedEvents(r)
  <2> DEFINE n(d) == [q EXCEPT !.stage = "sufficiency", !.chosen = {}, !.depth = d]
  <2>1. ASSUME NEW d \in {q.depth, q.depth + 1} PROVE GrowsWhileActive(q, n(d))
    <3>1. n(d).score = q.score /\ n(d).rejected = q.rejected /\ n(d).shown = q.shown
          /\ n(d).round = q.round /\ n(d).depth = d
      BY <1>1 DEF RunState
    <3> QED
      BY <1>1, <3>1, SameEvidenceGrows
  <2>2. PICK answer \in SUBSET [source : Articles, date : Dates] :
          Move(r, n(IF Related(q, answer) # {} THEN q.depth + 1 ELSE q.depth))
    BY <1>9 DEF ExtractRelatedEvents
  <2> HIDE DEF n
  <2> QED
    BY <2>1, <2>2
<1>10. CASE ReviewSufficiency(r)
  <2> DEFINE s(w) == [q EXCEPT !.window = w]
             h(w) == [s(w) EXCEPT !.stage = "hypothesize"]
  <2>1. ASSUME NEW w \in Windows, NEW t PROVE GrowsWhileActive(q, LeaveLoop(s(w), t))
    <3>1. s(w) \in RunState /\ s(w).score = q.score /\ s(w).rejected = q.rejected
          /\ s(w).shown = q.shown /\ s(w).round = q.round /\ s(w).depth = q.depth
      BY <1>1 DEF RunState
    <3>2. GrowsWhileActive(s(w), LeaveLoop(s(w), t))
      BY <3>1, LoopGrows
    <3> QED
      BY <3>1, <3>2 DEF GrowsWhileActive, Grows
  <2>2. ASSUME NEW w \in Windows PROVE GrowsWhileActive(q, h(w))
    <3>1. h(w).score = q.score /\ h(w).rejected = q.rejected /\ h(w).shown = q.shown
          /\ h(w).round = q.round /\ h(w).depth = q.depth
      BY <1>1 DEF RunState
    <3> QED
      BY <1>1, <3>1, SameEvidenceGrows
  <2> QED
    BY <1>10, <2>1, <2>2 DEF ReviewSufficiency
<1>11. CASE GenerateHypotheses(r)
  <2> DEFINE s == [q EXCEPT !.previous = Selected(q)]
  <2>1. s \in RunState /\ s.score = q.score /\ s.rejected = q.rejected
        /\ s.shown = q.shown /\ s.round = q.round /\ s.depth = q.depth
    BY <1>1, SelectedType DEF RunState
  <2>2. GrowsWhileActive(s, NextRound(s))
    BY <2>1, LoopGrows
  <2>3. GrowsWhileActive(q, NextRound(s))
    BY <2>1, <2>2 DEF GrowsWhileActive, Grows
  <2> QED
    BY <1>11, <2>3 DEF GenerateHypotheses
<1>12. CASE MergeTimeline(r)
  <2> DEFINE n(e) == [q EXCEPT !.stage = "save", !.events = e]
  <2>1. ASSUME NEW e PROVE GrowsWhileActive(q, n(e))
    <3>1. n(e).score = q.score /\ n(e).rejected = q.rejected /\ n(e).shown = q.shown
          /\ n(e).round = q.round /\ n(e).depth = q.depth
      BY <1>1 DEF RunState
    <3> QED
      BY <1>1, <3>1, SameEvidenceGrows
  <2>2. Move(r, Over(q, "failed")) \/ \E e : Move(r, n(e))
    BY <1>12 DEF MergeTimeline
  <2> QED
    BY <2>1, <2>2, OverGrows
<1>13. CASE SaveIssue(r)
  <2>1. GrowsWhileActive(q, [Result(q, "completed") EXCEPT !.issueId = Len(issues) + 1])
    BY DEF GrowsWhileActive, Result, Over, Blank, Active
  <2> QED
    BY <1>13, <2>1, OverGrows DEF SaveIssue
<1>14. CASE SaveUnacknowledged(r)
  BY <1>14, OverGrows DEF SaveUnacknowledged
<1>15. CASE CallFails(r)
  BY <1>15, OverGrows DEF CallFails
<1> QED
  BY <1>2, <1>3, <1>4, <1>5, <1>6, <1>7, <1>8, <1>9, <1>10, <1>11, <1>12, <1>13,
     <1>14, <1>15 DEF Generate

LEMMA UnmovedGrows ==
  ASSUME TypeOK, NEW r \in Runs
  PROVE  Grows(run[r], run[r])
<1>1. run[r] \in RunState
  BY DEF TypeOK
<1>2. \A a \in Articles : run[r].score[a] \in 0..MaxScore
  BY <1>1 DEF RunState
<1>3. run[r].round \in Nat /\ run[r].depth \in Nat
  BY <1>1 DEF RunState
<1> QED
  BY <1>2, <1>3, LimitAssumption DEF Grows

\* No step of any request, nor of another one, takes evidence back.
THEOREM EvidenceMonotone == Spec => EvidenceOnlyGrows
<1>1. TypeOK /\ Inductive /\ [Next]_vars =>
        [\A r \in Runs : run[r].stage \in Active /\ run'[r].stage \in Active =>
           Grows(run[r], run'[r])]_vars
  <2> SUFFICES ASSUME TypeOK, Inductive, Next, NEW q \in Runs,
                      run[q].stage \in Active, run'[q].stage \in Active
               PROVE  Grows(run[q], run'[q])
    OBVIOUS
  <2>1. Grows(run[q], run[q])
    BY UnmovedGrows
  <2>2. CASE \E r \in Runs : Generate(r)
    <3>1. PICK r \in Runs : Generate(r)
      BY <2>2
    <3>2. Sound(run[r])
      BY InductiveParts DEF AllSound
    <3>3. PICK n : GrowsWhileActive(run[r], n) /\ Move(r, n)
      BY <3>1, <3>2, GenerateGrows
    <3> QED
      BY <2>1, <3>3 DEF Move, TypeOK, GrowsWhileActive
  <2>3. CASE \E r \in Runs : Client(r)
    <3>1. PICK r \in Runs : Client(r)
      BY <2>3
    <3>2. run[r].stage \notin Active /\ \E n : Move(r, n)
      BY <3>1 DEF Client, SubmitTopic, SubmitClarification, RetryGeneration, Active
    <3> QED
      BY <2>1, <3>2 DEF Move, TypeOK
  <2>4. CASE Restart
    <3>1. run'[q] = Over(run[q], "failed")
      BY <2>4 DEF Restart
    <3> QED
      BY <3>1 DEF Over, Blank, Active
  <2> QED
    BY <2>2, <2>3, <2>4 DEF Next
<1> QED
  BY <1>1, Soundness, PTL DEF Spec, EvidenceOnlyGrows

-----------------------------------------------------------------------------
(***************************************************************************)
(* A topic is given up after a second search only                          *)
(***************************************************************************)

\* Behind P4 something is selected; a refusal for lack of it names its round.
Judged(s) ==
  /\ s.stage \in {"expand", "sufficiency", "hypothesize"} => Selected(s) # {}
  /\ s.outcome = "selection_rejected_all" => s.round >= 2

LEMMA OtherJudged ==
  ASSUME NEW n, n.stage \notin {"expand", "sufficiency", "hypothesize"},
         n.outcome # "selection_rejected_all"
  PROVE  Judged(n)
BY DEF Judged

LEMMA OverJudged ==
  ASSUME NEW s, NEW o, o # "selection_rejected_all"
  PROVE  Judged(Over(s, o)) /\ Judged(Result(s, o))
BY DEF Judged, Over, Result, Blank

\* With two rounds, the round limit is no refusal in the first one.
LEMMA LoopJudged ==
  ASSUME MaxRounds >= 2, NEW s \in RunState, s.outcome = None
  PROVE  /\ \A t : s.round >= 2 \/ Selected(s) # {} => Judged(LeaveLoop(s, t))
         /\ Judged(NextRound(s))
         /\ Judged(NothingNew(s))
<1>1. ASSUME NEW t, s.round >= 2 \/ Selected(s) # {} PROVE Judged(LeaveLoop(s, t))
  <2> DEFINE u == [s EXCEPT !.termination = t]
             m == [u EXCEPT !.stage = "merge", !.candidates = {}, !.chosen = {}]
  <2>1. Judged(m)
    BY OtherJudged DEF RunState, None
  <2>2. Judged(Over(u, "invariant_error"))
    BY OverJudged
  <2>3. ASSUME Selected(s) = {} PROVE Judged(Result(u, "selection_rejected_all"))
    BY <1>1, <2>3 DEF Judged, Result, Over, Blank, RunState
  <2> QED
    BY <2>1, <2>2, <2>3 DEF LeaveLoop
<1>2. Judged(NextRound(s))
  <2> DEFINE n == [s EXCEPT !.stage = "search", !.round = s.round + 1,
                            !.candidates = {}, !.chosen = {}, !.before = Selected(s)]
  <2>1. Judged(n)
    BY OtherJudged DEF RunState, None
  <2>2. s.round \in Nat /\ (~(s.round < MaxRounds) => s.round >= 2)
    BY LimitAssumption DEF RunState
  <2> QED
    BY <1>1, <2>1, <2>2 DEF NextRound
<1> QED
  BY <1>1, <1>2 DEF NothingNew

LEMMA WithCandidatesJudged ==
  ASSUME MaxRounds >= 2, NEW s \in RunState, s.outcome = None, NEW found
  PROVE  Judged(WithCandidates(s, found))
<1> DEFINE n == [s EXCEPT !.stage = "select", !.candidates = found, !.shown = @ \cup found]
<1>1. Judged(n)
  BY OtherJudged DEF RunState, None
<1> QED
  BY <1>1, LoopJudged, OverJudged DEF WithCandidates

LEMMA AcceptJudged ==
  ASSUME MaxRounds >= 2, NEW s \in RunState, s.outcome = None, NEW answer \in Answers
  PROVE  Judged(Accept(s, answer))
<1> DEFINE chosen == Picked(answer) \cap s.candidates
           t == [s EXCEPT !.score = MergedScore(s, answer),
                          !.rejected = @ \cup Rejections(answer, s.candidates)]
           e == [t EXCEPT !.stage = "expand", !.chosen = chosen, !.candidates = {}]
<1>1. MergedScore(s, answer) \in [Articles -> 0..MaxScore]
  BY DEF MergedScore, RunState, Answers
<1>2. Rejections(answer, s.candidates) \subseteq Articles
  BY DEF Rejections, RunState
<1>3. t \in RunState /\ t.outcome = None /\ t.score = MergedScore(s, answer)
  BY <1>1, <1>2 DEF RunState
<1>4. Judged(NothingNew(t))
  BY <1>3, LoopJudged
<1>5. ASSUME chosen # {} PROVE Judged(e)
  <2>1. PICK a \in Articles : a \in s.candidates /\ answer.score[a] > 0
    BY <1>5 DEF Picked
  <2>2. s.score[a] \in 0..MaxScore /\ answer.score[a] \in 0..MaxScore
    BY DEF RunState, Answers
  <2>3. MergedScore(s, answer)[a] > 0
    BY <2>1, <2>2, LimitAssumption DEF MergedScore
  <2>4. e.score = MergedScore(s, answer) /\ e.outcome = None
    BY <1>3 DEF RunState
  <2>5. Selected(e) # {}
    BY <2>3, <2>4 DEF Selected
  <2> QED
    BY <2>4, <2>5 DEF Judged, None
<1> QED
  BY <1>4, <1>5 DEF Accept

\* A step that leaves the scores alone keeps a run that has something selected.
LEMMA StillJudged ==
  ASSUME NEW s, NEW n, Selected(s) # {}, n.score = s.score, n.outcome = None
  PROVE  Judged(n)
BY DEF Judged, Selected, None

LEMMA GenerateJudged ==
  ASSUME MaxRounds >= 2, TypeOK, NEW r \in Runs, Sound(run[r]), Judged(run[r]), Generate(r)
  PROVE  \E n : Judged(n) /\ Move(r, n)
<1> DEFINE q == run[r]
<1>1. q \in RunState
  BY DEF TypeOK
<1>2. q.stage # "over" => q.outcome = None
  BY DEF Sound, SoundDialogue
<1>3. CASE Reuse(r)
  <2>1. PICK i \in DOMAIN issues :
          Move(r, [Over(q, "reused") EXCEPT !.termination = "cached", !.issueId = i])
    BY <1>3 DEF Reuse
  <2>2. Judged([Over(q, "reused") EXCEPT !.termination = "cached", !.issueId = i])
    BY DEF Judged, Over, Blank
  <2> QED
    BY <2>1, <2>2
<1>4. CASE Miss(r) \/ InterpretIntent(r) \/ BuildHypotheticalTimeline(r)
  <2>1. q.outcome = None
    BY <1>2, <1>4 DEF Miss, InterpretIntent, BuildHypotheticalTimeline
  <2>2. /\ Judged([q EXCEPT !.stage = "intent"])
        /\ \A d : Judged([q EXCEPT !.stage = "hypothetical", !.userDate = d])
        /\ \A w : Judged([q EXCEPT !.stage = "search", !.window = w, !.round = 1])
    BY <1>1, <2>1, OtherJudged DEF RunState, None
  <2> QED
    BY <1>4, <2>2, OverJudged DEF Miss, InterpretIntent, BuildHypotheticalTimeline
<1>5. CASE Search(r) \/ FallbackSearch(r)
  <2>1. q.outcome = None
    BY <1>2, <1>5 DEF Search, FallbackSearch
  <2>2. Judged([q EXCEPT !.stage = "fallback"])
    BY <1>1, <2>1, OtherJudged DEF RunState, None
  <2>3. \A found : Judged(WithCandidates(q, found))
    BY <1>1, <2>1, WithCandidatesJudged
  <2> QED
    BY <1>5, <2>2, <2>3, OverJudged DEF Search, FallbackSearch
<1>6. CASE SelectArticles(r) \/ ReselectArticles(r)
  <2>1. q.outcome = None
    BY <1>2, <1>6 DEF SelectArticles, ReselectArticles
  <2>2. Judged([q EXCEPT !.stage = "reselect"])
    BY <1>1, <2>1, OtherJudged DEF RunState, None
  <2>3. \A answer \in Answers : Judged(Accept(q, answer))
    BY <1>1, <2>1, AcceptJudged
  <2> QED
    BY <1>6, <2>2, <2>3 DEF SelectArticles, ReselectArticles
<1>7. CASE ExtractRelatedEvents(r)
  <2> DEFINE n(d) == [q EXCEPT !.stage = "sufficiency", !.chosen = {}, !.depth = d]
  <2>1. q.outcome = None /\ Selected(q) # {}
    BY <1>2, <1>7 DEF ExtractRelatedEvents, Judged
  <2>2. ASSUME NEW d PROVE Judged(n(d))
    <3>1. n(d).score = q.score /\ n(d).outcome = None
      BY <1>1, <2>1 DEF RunState
    <3> QED
      BY <2>1, <3>1, StillJudged
  <2>3. PICK answer \in SUBSET [source : Articles, date : Dates] :
          Move(r, n(IF Related(q, answer) # {} THEN q.depth + 1 ELSE q.depth))
    BY <1>7 DEF ExtractRelatedEvents
  <2> HIDE DEF n
  <2> QED
    BY <2>2, <2>3
<1>8. CASE ReviewSufficiency(r)
  <2> DEFINE s(w) == [q EXCEPT !.window = w]
             h(w) == [s(w) EXCEPT !.stage = "hypothesize"]
  <2>1. q.outcome = None /\ Selected(q) # {}
    BY <1>2, <1>8 DEF ReviewSufficiency, Judged
  <2>2. ASSUME NEW w \in Windows, NEW t PROVE Judged(LeaveLoop(s(w), t))
    <3>1. s(w) \in RunState /\ s(w).score = q.score /\ s(w).outcome = None
      BY <1>1, <2>1 DEF RunState
    <3>2. Selected(s(w)) # {}
      BY <2>1, <3>1 DEF Selected
    <3> QED
      BY <3>1, <3>2, LoopJudged
  <2>3. ASSUME NEW w \in Windows PROVE Judged(h(w))
    <3>1. h(w).score = q.score /\ h(w).outcome = None
      BY <1>1, <2>1 DEF RunState
    <3> QED
      BY <2>1, <3>1, StillJudged
  <2> QED
    BY <1>8, <2>2, <2>3 DEF ReviewSufficiency
<1>9. CASE GenerateHypotheses(r)
  <2> DEFINE s == [q EXCEPT !.previous = Selected(q)]
  <2>1. s \in RunState /\ s.outcome = None
    BY <1>1, <1>2, <1>9, SelectedType DEF RunState, GenerateHypotheses
  <2>2. Judged(NextRound(s))
    BY <2>1, LoopJudged
  <2> QED
    BY <1>9, <2>2 DEF GenerateHypotheses
<1>10. CASE MergeTimeline(r)
  <2>1. q.outcome = None
    BY <1>2, <1>10 DEF MergeTimeline
  <2>2. \A e : Judged([q EXCEPT !.stage = "save", !.events = e])
    BY <1>1, <2>1, OtherJudged DEF RunState, None
  <2> QED
    BY <1>10, <2>2, OverJudged DEF MergeTimeline
<1>11. CASE SaveIssue(r)
  <2>1. Judged([Result(q, "completed") EXCEPT !.issueId = Len(issues) + 1])
    BY DEF Judged, Result, Over, Blank
  <2> QED
    BY <1>11, <2>1, OverJudged DEF SaveIssue
<1>12. CASE SaveUnacknowledged(r) \/ CallFails(r)
  BY <1>12, OverJudged DEF SaveUnacknowledged, CallFails
<1> QED
  BY <1>3, <1>4, <1>5, <1>6, <1>7, <1>8, <1>9, <1>10, <1>11, <1>12 DEF Generate

\* Where at least two rounds are allowed, a topic is refused for lack of
\* selected articles only after a second search (EX-02); with one round it is
\* refused after the first, and the theorem does not hold.
THEOREM RejectedAfterSecondSearch ==
  ASSUME MaxRounds >= 2
  PROVE  Spec => []RejectedAllAfterNextSearch
<1> DEFINE J == \A r \in Runs : Judged(run[r])
<1>1. Init => J
  BY OtherJudged DEF Init, Blank, None
<1>2. TypeOK /\ Inductive /\ J /\ [Next]_vars => J'
  <2> SUFFICES ASSUME TypeOK, Inductive, J, [Next]_vars, NEW q \in Runs
               PROVE  Judged(run[q])'
    OBVIOUS
  <2>1. ASSUME NEW r \in Runs, NEW n, Judged(n), Move(r, n) PROVE Judged(run'[q])
    BY <2>1 DEF Move, TypeOK
  <2>2. CASE UNCHANGED vars
    BY <2>2 DEF vars, Judged, Selected
  <2>3. CASE \E r \in Runs : Generate(r)
    <3>1. PICK r \in Runs : Generate(r)
      BY <2>3
    <3>2. Sound(run[r]) /\ Judged(run[r])
      BY InductiveParts DEF AllSound
    <3>3. PICK n : Judged(n) /\ Move(r, n)
      BY <3>1, <3>2, GenerateJudged
    <3> QED
      BY <2>1, <3>3 DEF Judged, Selected
  <2>4. CASE \E r \in Runs : Client(r)
    <3>1. PICK r \in Runs : Client(r)
      BY <2>4
    <3>2. \A t, k : Judged(Request(t, k))
      BY OtherJudged DEF Request, Blank, None
    <3>3. \E n : Judged(n) /\ Move(r, n)
      BY <3>1, <3>2 DEF Client, SubmitTopic, SubmitClarification, RetryGeneration
    <3> QED
      BY <2>1, <3>3 DEF Judged, Selected
  <2>5. CASE Restart
    <3>1. run'[q] = Over(run[q], "failed") \/ run'[q] = run[q]
      BY <2>5 DEF Restart
    <3>2. Judged(run'[q])
      BY <3>1, OverJudged
    <3> QED
      BY <3>2 DEF Judged, Selected
  <2> QED
    BY <2>2, <2>3, <2>4, <2>5 DEF Next
<1>3. J => RejectedAllAfterNextSearch
  BY DEF Judged, RejectedAllAfterNextSearch
<1> QED
  BY <1>1, <1>2, <1>3, Soundness, PTL DEF Spec
=============================================================================
