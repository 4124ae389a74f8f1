--------------------------- MODULE GenerationPage ---------------------------
(***************************************************************************)
(* The page on which timelines are requested (web IssueListView.vue), on   *)
(* top of the streams it opens.  Handlers of one stream run to their end   *)
(* one after the other; between any two of them the user may act, and an   *)
(* older stream may still be open.                                         *)
(*                                                                         *)
(* One visit of the page: `done` leads to the detail view and ends it.     *)
(***************************************************************************)
EXTENDS EventStream

CONSTANTS
  Topics,
  MaxClarifications   \* limit of the pipeline, see TimelinePipeline

Failures ==
  {"search_no_hits", "selection_rejected_all", "model_configuration",
   "rate_limit", "service_unavailable", "output_validation",
   "generation_error", "unexpected"}

ASSUME PageAssumption ==
  /\ Outcomes \subseteq Failures \cup {"done", "needs_clarification"}
  /\ MaxClarifications \in Nat

VARIABLES
  page,      \* the refs of the page
  request    \* stream -> GenerationRequest it was opened with

vars == <<streamVars, page, request>>

NoTopic == "none"

\* `about`, `received` and `overlapped` are histories: the topic of the question
\* answered, the questions received since the topic was submitted, and whether the
\* request belongs to an overlapped dialogue.
Request ==
  [topic : Topics, count : Nat, answered : BOOLEAN,
   about : Topics \cup {NoTopic}, received : Nat, overlapped : BOOLEAN]

NoRequest ==
  [topic |-> NoTopic, count |-> 0, answered |-> FALSE, about |-> NoTopic, received |-> 0,
   overlapped |-> FALSE]

Page ==
  [pending  : BOOLEAN,
   progress : BOOLEAN,                        \* progress is shown
   failed   : BOOLEAN,                        \* generationError is shown
   action   : {"retry", "edit_topic", "none"},  \* generationErrorAction
   question : BOOLEAN,                        \* clarificationQuestion is shown
   attempt  : Nat,                            \* clarificationAttempt
   topic    : Topics \cup {NoTopic},          \* activeTopic
   last     : Request \cup {NoRequest},       \* lastRequest
   arrived  : BOOLEAN,                        \* the router has left the page
   current  : Streams \cup {NoTopic},         \* history: stream opened last
   about    : Topics \cup {NoTopic},          \* history: topic of the question
   received : Nat,                            \* history: questions for this topic
   overlapped : BOOLEAN]                      \* history: see RetryGeneration

PageTypeOK ==
  /\ TypeOK
  /\ page \in Page
  /\ request \in [Streams -> Request \cup {NoRequest}]

Init ==
  /\ StreamInit
  /\ page = [pending |-> FALSE, progress |-> FALSE, failed |-> FALSE, action |-> "none",
             question |-> FALSE, attempt |-> 0, topic |-> NoTopic, last |-> NoRequest,
             arrived |-> FALSE, current |-> NoTopic, about |-> NoTopic, received |-> 0,
             overlapped |-> FALSE]
  /\ request = [s \in Streams |-> NoRequest]

-----------------------------------------------------------------------------
(* What the user does.                                                     *)

\* A response has not come to its end yet.
Busy == \E s \in Streams : link[s] = "open"

\* A request of the dialogue that page p shows.
Of(p, q) == [q EXCEPT !.overlapped = p.overlapped]

\* runGeneration, up to the open stream.
RunGeneration(s, p, q) ==
  /\ Open(s)
  /\ page' = [p EXCEPT !.pending = TRUE, !.progress = TRUE, !.failed = FALSE,
                       !.action = "none", !.question = FALSE, !.last = Of(p, q),
                       !.current = s]
  /\ request' = [request EXCEPT ![s] = Of(p, q)]

\* Mutant of SubmitTopic: the dialogue about the topic before is not reset.
SubmitTopicOnTop(s, t) ==
  /\ ~ page.arrived /\ ~ page.pending
  /\ RunGeneration(s, [page EXCEPT !.topic = t, !.received = 0,
                                   !.overlapped = @ /\ Busy],
                   [NoRequest EXCEPT !.topic = t, !.count = page.attempt])

\* A new dialogue, which is not overlapped if no response of an earlier one is still
\* to come.
SubmitTopic(s, t) ==
  /\ ~ page.arrived /\ ~ page.pending
  /\ RunGeneration(s, [page EXCEPT !.topic = t, !.attempt = 0, !.received = 0,
                                   !.overlapped = @ /\ Busy],
                   [NoRequest EXCEPT !.topic = t])

\* Mutant of SubmitClarification: the topic is read from the form again.
SubmitClarificationTyped(s) ==
  /\ ~ page.arrived /\ ~ page.pending
  /\ page.question
  /\ \E t \in Topics :
       RunGeneration(s, [page EXCEPT !.topic = t],
                     [topic |-> t, count |-> page.attempt, answered |-> TRUE,
                      about |-> page.about, received |-> page.received,
                      overlapped |-> page.overlapped])

SubmitClarification(s) ==
  /\ ~ page.arrived /\ ~ page.pending
  /\ page.question
  /\ RunGeneration(s, page,
                   [topic |-> page.topic, count |-> page.attempt, answered |-> TRUE,
                    about |-> page.about, received |-> page.received,
                    overlapped |-> page.overlapped])

\* The button is there as soon as the error event was heard, and the handler does not
\* look at pending: a retry may come before the end of the response that failed.  From
\* then on the dialogue is overlapped.
RetryGeneration(s) ==
  /\ ~ page.arrived /\ page.action = "retry"
  /\ RunGeneration(s, [page EXCEPT !.overlapped = @ \/ Busy],
                   [page.last EXCEPT !.received = page.received])

EditTopic ==
  /\ ~ page.arrived /\ page.action = "edit_topic"
  /\ page' = [page EXCEPT !.failed = FALSE, !.action = "none"]
  /\ UNCHANGED <<streamVars, request>>

-----------------------------------------------------------------------------
(* Outcomes, as the route words them and the page presents them.           *)

\* P1 asks within its limit only (TimelinePipeline!QuestionsBounded).
PipelineEnds(s, o) ==
  /\ o = "needs_clarification" => request[s].count < MaxClarifications
  /\ Return(s, o)
  /\ UNCHANGED <<page, request>>

EventOf(o) ==
  CASE o = "done" -> "done"
    [] o = "needs_clarification" -> "clarify"
    [] OTHER -> "error"

Reason(o) ==
  CASE o \in {"model_configuration", "service_unavailable"} -> "model_unavailable"
    [] o \in {"generation_error", "unexpected"} -> "generation_failed"
    [] OTHER -> o

\* Mutant of Retryable: both kinds of an unavailable model are treated alike.
RetryableModel(o) ==
  o \notin {"search_no_hits", "selection_rejected_all"}

Retryable(o) ==
  o \notin {"search_no_hits", "selection_rejected_all", "model_configuration"}

\* presentStreamError
PresentedAction(o) ==
  IF Reason(o) \in {"search_no_hits", "selection_rejected_all"} THEN "edit_topic"
  ELSE IF Retryable(o) THEN "retry" ELSE "none"

\* The clarify event carries the number of the question.
Attempt(s) == request[s].count + 1

HearStage(s) ==
  /\ Hear(s)
  /\ Head(wire[s]).event = "stage"
  /\ page' = IF page.arrived THEN page ELSE [page EXCEPT !.progress = TRUE]
  /\ UNCHANGED request

Clarified(s) ==
  [page EXCEPT !.question = TRUE, !.attempt = Attempt(s), !.progress = FALSE,
               !.about = request[s].topic, !.received = page.received + 1]

\* Mutant of Failed: an error frees the form before the response has ended.
FailedFreely(action) ==
  [page EXCEPT !.failed = TRUE, !.action = action, !.progress = FALSE,
               !.pending = FALSE]

Failed(action) ==
  [page EXCEPT !.failed = TRUE, !.action = action, !.progress = FALSE]

HearTerminal(s) ==
  /\ Hear(s)
  /\ Head(wire[s]).event = "terminal"
  /\ LET o == Head(wire[s]).outcome
     IN  page' = IF page.arrived THEN page
                 ELSE CASE EventOf(o) = "clarify" -> Clarified(s)
                        [] EventOf(o) = "done" -> [page EXCEPT !.arrived = TRUE]
                        [] OTHER -> Failed(PresentedAction(o))
  /\ UNCHANGED request

\* Mutant of Settled: the page becomes usable only by an answer or an error.
SettledNever(p) == [p EXCEPT !.pending = p.arrived]

\* finally
Settled(p) == [p EXCEPT !.pending = FALSE]

EndOfStream(s) ==
  /\ End(s)
  /\ page' = Settled(page)
  /\ UNCHANGED request

\* catch and finally
ConnectionLost(s) ==
  /\ Break(s)
  /\ page' = Settled(IF page.arrived THEN page ELSE Failed("retry"))
  /\ UNCHANGED request

-----------------------------------------------------------------------------

UserStep(s) ==
  \/ \E t \in Topics : SubmitTopic(s, t)
  \/ SubmitClarification(s)
  \/ RetryGeneration(s)

Delivery(s) == HearStage(s) \/ HearTerminal(s) \/ EndOfStream(s)

Behind(s) == ServerStep(s) /\ UNCHANGED <<page, request>>

Next ==
  \/ \E s \in Streams :
       \/ UserStep(s) \/ Delivery(s) \/ Behind(s) \/ ConnectionLost(s)
       \/ \E o \in Outcomes : PipelineEnds(s, o)
  \/ EditTopic
  \/ Restart /\ UNCHANGED <<page, request>>

Spec == Init /\ [][Next]_vars

\* As in EventStream; and the end of the process is noticed by the reader.
Fairness ==
  \A s \in Streams :
    /\ WF_vars(\E o \in Outcomes : PipelineEnds(s, o))
    /\ WF_vars(Behind(s))
    /\ WF_vars(Delivery(s))
    /\ WF_vars(generator[s] = "stopped" /\ ConnectionLost(s))

FairSpec == Spec /\ Fairness

-----------------------------------------------------------------------------
(* Properties.                                                             *)

\* The form is disabled only while the response to the last request is to come, and, as
\* long as no retry has overlapped it, while any is: nothing else frees it
\* (IssueListView.vue 51-87, 108-110).
PendingExact ==
  /\ page.pending => page.current \in Streams /\ link[page.current] = "open"
  /\ ~ page.overlapped => (Busy => page.pending)

\* What docs/product/screens.md 4.1 advises after an outcome.
Advice(o) ==
  CASE o \in {"search_no_hits", "selection_rejected_all"} -> "edit_topic"
    [] o = "model_configuration" -> "none"
    [] OTHER -> "retry"

\* What the page shows of the outcome a stream has ended with ...
ShowsOutcome(s) ==
  LET o == result[s]
  IN  /\ o # "done"
      /\ o = "needs_clarification" =>
           page.question /\ ~ page.failed /\ page.attempt = Attempt(s)
      /\ o \in Failures =>
           IF page.failed THEN page.action = Advice(o) ELSE Advice(o) = "edit_topic"

\* ... and of a stream that broke.
ShowsBreak == page.failed /\ page.action = "retry"

\* When nothing is under way, the page shows what became of the last request: the
\* detail view, the question, or an error with the advice that fits it; and no
\* progress indicator runs on, unless a retry has overlapped the dialogue
\* (IssueListView.vue 60-87, streamErrors.ts 10-34).
PageShowsOutcome ==
  LET c == page.current
  IN  c # NoTopic /\ ~ page.pending /\ ~ page.arrived /\ ~ page.overlapped =>
        /\ ~ page.progress
        /\ link[c] = "broken" => ShowsBreak
        /\ link[c] = "ended" => ShowsOutcome(c)

\* The answer to a question goes on with the topic the question was about, whatever
\* the user did in between (docs/requirements/timeline.md:24, AC-023).
AnswersKeepTheirTopic ==
  \A s \in Streams : request[s].answered => request[s].topic = request[s].about

\* It does in every dialogue that no retry has overlapped, also after one that was
\* (IssueListView.vue 89-110).
AnswersStayInDialogue ==
  \A s \in Streams :
    request[s].answered /\ ~ request[s].overlapped => request[s].topic = request[s].about

\* A request never counts more questions than were received before it: no user is
\* denied a question, unless a retry has overlapped the dialogue
\* (IssueListView.vue 70, 89-110; docs/contracts/http-api.md 111).
\* It may count less, when a connection breaks behind a question and the old
\* request is repeated.
NeverOvercounted ==
  \A s \in Streams : ~ request[s].overlapped => request[s].count <= request[s].received

\* Whatever is awaited or shown, or can be sent again, comes from a request that was sent.
Started ==
  \/ page.last \in Request /\ page.topic \in Topics
  \/ page.action # "retry" /\ ~ page.question /\ \A s \in Streams : link[s] = "none"

\* The answers under way belong to the dialogue shown.
Current ==
  \A s \in Streams :
    link[s] = "open" =>
      /\ s = page.current
      /\ request[s] \in Request
      /\ request[s].topic = page.topic
      /\ request[s].received <= page.received
      /\ ~ request[s].overlapped

\* So does what the page can send.
Remembered ==
  /\ page.last.topic = page.topic
  /\ page.last.answered => page.last.topic = page.last.about
  /\ page.last.count <= page.received
  /\ page.attempt <= page.received
  /\ page.question => page.about = page.topic

\* The reader was told the outcome of a stream.
Told(s) == heard[s] # <<>> /\ heard[s][Len(heard[s])].event = "terminal"

\* From the end of a stream, or from its last event on, the page shows what became of
\* it; until then it shows no error.  Again in dialogues that are not overlapped.
Reflected ==
  LET c == page.current
  IN  c # NoTopic /\ ~ page.arrived /\ ~ page.overlapped =>
        /\ link[c] \in {"open", "ended", "broken"}
        /\ link[c] = "open" /\ ~ Told(c) => ~ page.failed
        /\ (link[c] = "open" /\ Told(c)) \/ link[c] = "ended" =>
             ~ page.progress /\ ShowsOutcome(c)
        /\ link[c] = "broken" => ~ page.progress /\ ShowsBreak

\* The inductive invariant of GenerationPageProofs.
Inductive ==
  /\ PageTypeOK /\ PendingExact /\ Started
  /\ ~ page.overlapped => Current /\ Remembered
  /\ AnswersStayInDialogue /\ NeverOvercounted

\* The form is not disabled for ever.
PageSettles == page.pending ~> ~ page.pending
=============================================================================
