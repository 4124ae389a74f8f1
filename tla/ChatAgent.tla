----------------------------- MODULE ChatAgent -----------------------------
(***************************************************************************)
(* The conversation about an issue: the panel (web ChatPanel.vue), the     *)
(* route that answers it (api/routes/chat.py) and the agent behind it      *)
(* (app/agent.py), which streams the model's text between its tool calls.  *)
(*                                                                         *)
(* The server keeps no session: the panel sends its history with every     *)
(* question.  The language model and the MCP tools are the environment.    *)
(***************************************************************************)
EXTENDS SourceTags, FiniteSets

CONSTANTS
  Questions,
  Chunks,        \* texts the model may hand over at once
  Tools,         \* names of tools
  MaxExchanges,  \* bound: exchanges in a history
  MaxChunks,     \* bound: chunks of an answer, by the place of its question
  MaxCalls       \* bound: tool calls for one answer

ASSUME ChatAssumption ==
  /\ Chunks \subseteq Texts \ {<<>>}
  /\ MaxExchanges \in Nat /\ MaxCalls \in Nat
  /\ MaxChunks \in [1..MaxExchanges -> Nat]

VARIABLES
  panel,   \* what ChatPanel.vue keeps
  answer,  \* the request under way, as the server sees it
  wire     \* events sent and not yet heard

vars == <<panel, answer, wire>>

NoQuestion == "none"

Exchange == [question : Questions, text : Texts]

Failures == {"refused", "missing", "data_unavailable", "generation_failed", "lost"}

\* What a tool call may bring: articles, an export, or the word that the storage is
\* unavailable.  Other payloads have no consequence.
Results == {"articles", "export", "unavailable"}

Panel ==
  [input    : Questions \cup {NoQuestion},
   pending  : BOOLEAN,
   question : Questions \cup {NoQuestion},   \* question of the last sendMessage
   done     : BOOLEAN,                       \* completed
   results  : SUBSET Results,                \* articleIds, exports
   segments : Tokens,
   error    : Failures \cup {"none"},
   history  : Seq(Exchange)]

\* said, chunks, calls and sent are histories: the text of each message of the
\* model, how many chunks and tool calls it took, and all the tokens yielded.
Answer ==
  [phase    : {"idle", "received", "talking", "done", "failed"},
   given    : Seq(Exchange),     \* the request's history
   streams  : BOOLEAN,           \* whether the model hands over its text in chunks
   parser   : Parsers,           \* source_parser
   streamed : BOOLEAN,           \* streamed_text
   emitted  : SUBSET Tools,      \* emitted_tools
   results  : SUBSET Results,
   calls    : Nat,
   chunks   : Nat,
   said     : Seq(Texts),
   sent     : Tokens]

Events ==
  [event : {"tool"}, name : Tools]
    \cup [event : {"token"}, token : [source : Sources, text : Texts]]
    \cup [event : {"done"}, results : SUBSET Results]
    \cup [event : {"error"}, reason : Failures]

TypeOK ==
  /\ panel \in Panel
  /\ answer \in Answer
  /\ wire \in Seq(Events)

NoAnswer ==
  [phase |-> "idle", given |-> <<>>, streams |-> FALSE, parser |-> NewParser,
   streamed |-> FALSE, emitted |-> {}, results |-> {}, calls |-> 0, chunks |-> 0,
   said |-> <<>>, sent |-> <<>>]

Init ==
  /\ panel = [input |-> NoQuestion, pending |-> FALSE, question |-> NoQuestion,
              done |-> FALSE, results |-> {}, segments |-> <<>>,
              error |-> "none", history |-> <<>>]
  /\ answer = NoAnswer
  /\ wire = <<>>

TextOf(tokens) == FlattenSeq([k \in DOMAIN tokens |-> tokens[k].text])

-----------------------------------------------------------------------------
(* The panel asks.                                                         *)

\* The input is disabled while an answer is awaited.
Type(q) ==
  /\ ~ panel.pending
  /\ Len(panel.history) < MaxExchanges
  /\ panel' = [panel EXCEPT !.input = q]
  /\ UNCHANGED <<answer, wire>>

SendMessage ==
  /\ panel.input # NoQuestion /\ ~ panel.pending
  /\ panel' = [panel EXCEPT !.question = panel.input, !.input = NoQuestion,
                            !.pending = TRUE, !.done = FALSE, !.results = {},
                            !.segments = <<>>, !.error = "none"]
  /\ answer' = [NoAnswer EXCEPT !.phase = "received", !.given = panel.history]
  /\ UNCHANGED wire

-----------------------------------------------------------------------------
(* The route and the agent answer.                                         *)

\* Mutant of Settled: the input is given back by an answer only.
SettledByAnswer(p) == [p EXCEPT !.pending = p.error # "none"]

\* finally: the question comes back into the input if it failed.
Settled(p) ==
  [p EXCEPT !.pending = FALSE,
            !.input = IF p.error # "none" THEN p.question ELSE @]

\* catch: the response is no stream, or the stream breaks.
Caught(reason) == Settled([panel EXCEPT !.error = reason])

\* ChatMessage wants a content of at least one character.
Acceptable(exchanges) == \A k \in DOMAIN exchanges : exchanges[k].text # <<>>

Refuse ==
  /\ answer.phase = "received" /\ ~ Acceptable(answer.given)
  /\ panel' = Caught("refused")
  /\ answer' = NoAnswer
  /\ UNCHANGED wire

IssueMissing ==
  /\ answer.phase = "received" /\ Acceptable(answer.given)
  /\ panel' = Caught("missing")
  /\ answer' = NoAnswer
  /\ UNCHANGED wire

\* The answer goes on as a, its next events are those given.
Yield(a, events) ==
  /\ answer' = a
  /\ wire' = wire \o events
  /\ UNCHANGED panel

Fail(a, reason) ==
  Yield([a EXCEPT !.phase = "failed"], <<[event |-> "error", reason |-> reason]>>)

\* get_issue, or the list of tools, is not to be had.
DataUnavailable ==
  /\ answer.phase = "received" /\ Acceptable(answer.given)
  /\ Fail(answer, "data_unavailable")

StartGraph ==
  /\ answer.phase = "received" /\ Acceptable(answer.given)
  /\ \E streams \in BOOLEAN :
       Yield([answer EXCEPT !.phase = "talking", !.streams = streams, !.said = <<(<<>>)>>],
             <<>>)

TokenEvents(tokens) == [k \in DOMAIN tokens |-> [event |-> "token", token |-> tokens[k]]]

\* The model says more of its current message.
Say(c) ==
  LET a == [answer EXCEPT !.said[Len(answer.said)] = @ \o c, !.chunks = @ + 1]
      fed == Feed(answer.parser, c)
  IN  /\ answer.phase = "talking"
      /\ answer.chunks < MaxChunks[Len(answer.given) + 1]
      /\ IF answer.streams
         THEN Yield([a EXCEPT !.streamed = TRUE, !.parser = fed.parser,
                              !.sent = @ \o fed.out],
                    TokenEvents(fed.out))
         ELSE Yield(a, <<>>)

\* Its message ends with a tool call; it is told the result and goes on.  A tool is
\* announced once per answer.
CallTool(t, brought) ==
  /\ answer.phase = "talking" /\ answer.calls < MaxCalls
  /\ Yield([answer EXCEPT !.calls = @ + 1, !.emitted = @ \cup {t},
                          !.results = @ \cup brought, !.said = Append(@, <<>>)],
           IF t \in answer.emitted THEN <<>> ELSE <<[event |-> "tool", name |-> t]>>)

\* An MCP call that fails raises through the graph.
ToolRaises ==
  /\ answer.phase = "talking" /\ answer.calls < MaxCalls
  /\ Fail(answer, "data_unavailable")

AgentFails ==
  /\ answer.phase = "talking"
  /\ Fail(answer, "generation_failed")

\* _last_answer_text: the last message of the conversation with a text, which may
\* be one of the history.
LastText(given, said) ==
  LET texts == [k \in DOMAIN given |-> given[k].text] \o said
      spoken == {k \in DOMAIN texts : texts[k] # <<>>}
  IN  IF spoken = {} THEN <<>> ELSE texts[Max(spoken)]

\* What is yielded behind the last chunk: the text held back, or the whole text if
\* nothing was streamed.
Closing(a) ==
  IF a.streamed THEN Flush(a.parser)
  ELSE LET fed == Feed(NewParser, LastText(a.given, a.said))
       IN  fed.out \o Flush(fed.parser)

\* _collect_tool_results
Finish ==
  /\ answer.phase = "talking"
  /\ LET tokens == Closing(answer)
         lost == "unavailable" \in answer.results
     IN  Yield([answer EXCEPT !.phase = IF lost THEN "failed" ELSE "done",
                              !.sent = @ \o tokens],
               Append(TokenEvents(tokens),
                      IF lost THEN [event |-> "error", reason |-> "data_unavailable"]
                      ELSE [event |-> "done", results |-> answer.results]))

-----------------------------------------------------------------------------
(* The panel hears.                                                        *)

\* appendToken
WithToken(p, token) ==
  LET shown == p.segments
  IN  [p EXCEPT !.segments =
                  IF shown # <<>> /\ Last(shown).source = token.source
                  THEN [shown EXCEPT ![Len(shown)].text = @ \o token.text]
                  ELSE Append(shown, token)]

Heard(event) ==
  CASE event.event = "tool"  -> panel
    [] event.event = "token" -> WithToken(panel, event.token)
    [] event.event = "done"  -> [panel EXCEPT !.done = TRUE, !.results = event.results]
    [] event.event = "error" -> [panel EXCEPT !.error = event.reason]

Hear ==
  /\ wire # <<>>
  /\ panel' = Heard(Head(wire))
  /\ wire' = Tail(wire)
  /\ UNCHANGED answer

\* Mutant of Remembered: an error that follows the tokens is overlooked.
RememberedAnyway(p) ==
  IF p.segments # <<>>
  THEN [p EXCEPT !.history =
          Append(@, [question |-> p.question, text |-> TextOf(p.segments)])]
  ELSE p

\* The exchange joins the history only if it was answered.
Remembered(p) ==
  IF p.done /\ p.error = "none"
  THEN [p EXCEPT !.history =
          Append(@, [question |-> p.question, text |-> TextOf(p.segments)])]
  ELSE p

EndOfResponse ==
  /\ answer.phase \in {"done", "failed"} /\ wire = <<>>
  /\ panel' = Settled(Remembered(panel))
  /\ answer' = NoAnswer
  /\ UNCHANGED wire

\* The connection breaks; what is on the way is lost, and the server stops
\* the generator.
ConnectionLost ==
  /\ answer.phase # "idle"
  /\ panel' = Caught("lost")
  /\ answer' = NoAnswer
  /\ wire' = <<>>

-----------------------------------------------------------------------------

Server ==
  \/ Refuse \/ IssueMissing \/ DataUnavailable \/ StartGraph
  \/ \E c \in Chunks : Say(c)
  \/ \E t \in Tools, brought \in SUBSET Results :
       Cardinality(brought) <= 1 /\ CallTool(t, brought)
  \/ ToolRaises \/ AgentFails \/ Finish

Next ==
  \/ \E q \in Questions : Type(q)
  \/ SendMessage
  \/ Server
  \/ Hear \/ EndOfResponse \/ ConnectionLost

Spec == Init /\ [][Next]_vars

\* The model and the tools answer, and what is sent is heard.
Fairness == WF_vars(Server) /\ WF_vars(Hear) /\ WF_vars(EndOfResponse)

FairSpec == Spec /\ Fairness

-----------------------------------------------------------------------------
(* Properties.                                                             *)

\* The text an answer consists of.  The agent reads all messages of the model with one
\* parser, as one text: what is said behind a tool call goes on where the message
\* before it stopped, and a tag that opens it counts only behind an empty line.
\* Where nothing was streamed it is the last text of the conversation.
Spoken(a) == IF a.streamed THEN FlattenSeq(a.said) ELSE LastText(a.given, a.said)

\* However that one text is cut into chunks and messages, every symbol of it is shown
\* once, in order and under the source of the last tag before it, no part of what is a
\* tag in it is shown, and nothing that was shown is taken back (agent.py 95-128,
\* 149-225).  A tag that opens a message but is glued to the one before it is none here,
\* and is shown as it stands: against docs/ai/specification.md 328-329, as
\* UnmarkedIsGeneral, which reads message by message, tells of its source.
AnswerFollowsTags ==
  /\ answer.phase = "talking" => IsPrefix(Shown(answer.sent), Reading(Spoken(answer)))
  /\ answer.phase = "done" => Shown(answer.sent) = Reading(Spoken(answer))

\* A paragraph of a message is shown as taken from an article only if it is tagged so,
\* not if it has no tag or the other one
\* (docs/ai/specification.md 328-330).
UnmarkedIsGeneral ==
  LET shown == SelectSeq(Shown(answer.sent), LAMBDA c : c.symbol = Letter)
      tagged == FlattenSeq([m \in DOMAIN answer.said |-> ByParagraph(answer.said[m])])
  IN  answer.phase = "done" /\ answer.streamed =>
        \A k \in DOMAIN shown : shown[k].source = "article" => tagged[k] = "article"

\* A history holds whole exchanges only: it grows by the last question together
\* with all of the text the agent sent for it, and only when that answer was
\* completed, with the storage at hand (ChatPanel.vue 106-125, agent.py 139).
HistoryHoldsExchanges ==
  [][panel'.history # panel.history =>
       /\ answer.phase = "done" /\ panel.error = "none"
       /\ "unavailable" \notin answer.results
       /\ panel.results = answer.results
       /\ panel'.history =
            Append(panel.history,
                   [question |-> panel.question, text |-> TextOf(answer.sent)])]_vars

\* Every question comes to an end that gives the input back; a refusal is one.
QuestionsEnd == panel.pending ~> ~ panel.pending
=============================================================================
