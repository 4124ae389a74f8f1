--------------------------- MODULE BriefingExport ---------------------------
(***************************************************************************)
(* One briefing export, from the tool call to what it leaves behind:       *)
(* infra/mcp_client.py starts an MCP server process for every call and     *)
(* waits 30 seconds for its answer; in that process mcp_server/tools runs  *)
(* app/exporting.py, which writes a PDF through infra/pdf.py or a page     *)
(* through infra/notion.py.                                                *)
(*                                                                         *)
(* The contents of a briefing are abstracted: a file is absent, half       *)
(* written or whole, a Notion page is the number of requests that reached  *)
(* it (Batches of them make the whole page).  Two exports of one issue     *)
(* have one file name, because it is made of the issue's number and title. *)
(* External: the termination of the server process by the MCP library, and *)
(* Notion, which may carry out a request whose answer is lost.             *)
(***************************************************************************)
EXTENDS Naturals

CONSTANTS
  Calls,    \* export_briefing calls, each made at most once
  Issues,   \* the issue numbers that are asked for
  Stored,   \* those of them the issue table holds
  Batches,  \* the requests it takes to publish one briefing in Notion
  None      \* no issue, no call

ASSUME ExportAssumption ==
  /\ Stored \subseteq Issues
  /\ Batches \in Nat \ {0}
  /\ None \notin Calls \cup Issues

VARIABLES
  request,  \* what each call asks for
  step,     \* where its server process is
  answer,   \* what the caller of call_tool is told
  file,     \* the PDF of each issue in the download directory
  temp,     \* the temporary file of each call
  pages     \* the requests that reached the Notion page of each call

exportVars == <<request, step, answer, file, temp, pages>>

Formats == {"pdf", "notion"}
Requests == [issue : Issues \cup {None}, format : Formats]
Running == {"asked", "rendering", "publishing"}
Over == {"ended", "dead"}
Written == {"none", "partial", "whole"}
Answers == {"none", "ok", "not_configured", "issue_not_found", "failed", "unavailable"}

ExportTypeOK ==
  /\ request \in [Calls -> Requests]
  /\ step \in [Calls -> Running \cup Over \cup {"idle"}]
  /\ answer \in [Calls -> Answers]
  /\ file \in [Issues -> Written]
  /\ temp \in [Calls -> Written]
  /\ pages \in [Calls -> 0 .. Batches]

ExportInit ==
  /\ request = [c \in Calls |-> [issue |-> None, format |-> "pdf"]]
  /\ step = [c \in Calls |-> "idle"]
  /\ answer = [c \in Calls |-> "none"]
  /\ file = [i \in Issues |-> "none"]
  /\ temp = [c \in Calls |-> "none"]
  /\ pages = [c \in Calls |-> 0]

-----------------------------------------------------------------------------
(* The caller is told the first thing that happens to its call: an answer   *)
(* that comes after the time limit is dropped with the session.             *)
Tell(c, a) == answer' = [answer EXCEPT ![c] = IF @ = "none" THEN a ELSE @]

\* The server process answers a and ends.
End(c, a) == step' = [step EXCEPT ![c] = "ended"] /\ Tell(c, a)

Ask(c, i, f) ==
  /\ step[c] = "idle"
  /\ request' = [request EXCEPT ![c] = [issue |-> i, format |-> f]]
  /\ step' = [step EXCEPT ![c] = "asked"]
  /\ UNCHANGED <<answer, file, temp, pages>>

\* What may keep an export of issue i from starting: no session, nothing
\* configured, the issue table failing or not holding the issue.
Refusals(i) ==
  {"unavailable", "not_configured", "failed"}
    \cup (IF i \in Stored THEN {} ELSE {"issue_not_found"})

Refuse(c) ==
  /\ step[c] = "asked"
  /\ \E a \in Refusals(request[c].issue) : End(c, a)
  /\ UNCHANGED <<request, file, temp, pages>>

Start(c) ==
  /\ step[c] = "asked"
  /\ request[c].issue \in Stored
  /\ step' = [step EXCEPT ![c] = IF request[c].format = "pdf"
                                 THEN "rendering" ELSE "publishing"]
  /\ UNCHANGED <<request, answer, file, temp, pages>>

\* Mutant of Write: pdf.output writes to the destination itself.
WriteInPlace(c) ==
  /\ step[c] = "rendering"
  /\ \/ temp[c] = "none" /\ temp' = [temp EXCEPT ![c] = "partial"]
     \/ temp[c] = "partial" /\ temp' = [temp EXCEPT ![c] = "whole"]
  /\ file' = [file EXCEPT ![request[c].issue] = temp'[c]]
  /\ UNCHANGED <<request, step, answer, pages>>

\* pdf.output opens the temporary file, then completes it.
Write(c) ==
  /\ step[c] = "rendering"
  /\ \/ temp[c] = "none" /\ temp' = [temp EXCEPT ![c] = "partial"]
     \/ temp[c] = "partial" /\ temp' = [temp EXCEPT ![c] = "whole"]
  /\ UNCHANGED <<request, step, answer, file, pages>>

\* os.replace is one step; the unlink that follows it finds nothing.
Replace(c) ==
  /\ step[c] = "rendering"
  /\ temp[c] = "whole"
  /\ file' = [file EXCEPT ![request[c].issue] = temp[c]]
  /\ temp' = [temp EXCEPT ![c] = "none"]
  /\ End(c, "ok")
  /\ UNCHANGED <<request, pages>>

RenderFails(c) ==
  /\ step[c] = "rendering"
  /\ temp' = [temp EXCEPT ![c] = "none"]
  /\ End(c, "failed")
  /\ UNCHANGED <<request, file, pages>>

\* pages.create with the first blocks, then one append per further batch.
Publish(c) ==
  /\ step[c] = "publishing"
  /\ pages' = [pages EXCEPT ![c] = @ + 1]
  /\ IF pages[c] + 1 = Batches THEN End(c, "ok") ELSE UNCHANGED <<step, answer>>
  /\ UNCHANGED <<request, file, temp>>

\* A request fails in the client; Notion may have carried it out.
PublishFails(c) ==
  /\ step[c] = "publishing"
  /\ \E n \in {pages[c], pages[c] + 1} : pages' = [pages EXCEPT ![c] = n]
  /\ End(c, "failed")
  /\ UNCHANGED <<request, file, temp>>

\* Mutant of TimeOut: the limit guards only the opening of the session.
TimeOutOpening(c) ==
  /\ step[c] = "asked"
  /\ answer[c] = "none"
  /\ Tell(c, "unavailable")
  /\ UNCHANGED <<request, step, file, temp, pages>>

\* The read limit of the session: the caller gives up, the process does not
\* know.
TimeOut(c) ==
  /\ step[c] \in Running
  /\ answer[c] = "none"
  /\ Tell(c, "unavailable")
  /\ UNCHANGED <<request, step, file, temp, pages>>

\* The process dies, by itself or because the session that is left kills it;
\* no finally block runs.
Die(c) ==
  /\ step[c] \in Running
  /\ step' = [step EXCEPT ![c] = "dead"]
  /\ Tell(c, "unavailable")
  /\ UNCHANGED <<request, file, temp, pages>>

\* Leaving the session of a call that ran out of time.
Abandon(c) == answer[c] = "unavailable" /\ Die(c)

ServerStep(c) ==
  \/ Refuse(c) \/ Start(c)
  \/ Write(c) \/ Replace(c) \/ RenderFails(c)
  \/ Publish(c) \/ PublishFails(c)
  \/ TimeOut(c) \/ Die(c)

-----------------------------------------------------------------------------
(* What an export answered with "ok" promises: the file it names is whole,  *)
(* and the page it links has every block.                                   *)
Holds(c) ==
  IF request[c].format = "pdf"
  THEN file[request[c].issue] = "whole"
  ELSE pages[c] = Batches

(* Every export that was answered with "ok" stays good: no later export of  *)
(* the same issue, whatever fails, dies or times out in it, leaves the file *)
(* that the first one links half written or gone (pdf.py:41-44), and a page *)
(* is never announced before its last batch (notion.py:41-43).              *)
ResultsHold == \A c \in Calls : answer[c] = "ok" => Holds(c)
=============================================================================
