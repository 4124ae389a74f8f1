----------------------------- MODULE IssuePage ------------------------------
(***************************************************************************)
(* The issue page of the web client (views/IssueDetailView.vue) and the    *)
(* export menu on it (components/ExportMenu.vue), over the exports of      *)
(* BriefingExport.                                                         *)
(*                                                                         *)
(* The page component stays mounted when the address changes from one      *)
(* issue to another, and loadIssue cancels nothing: the answers of earlier *)
(* loads still arrive, in any order.  The menu lives as long as the page   *)
(* shows an issue; an answer for another issue changes its issueId without *)
(* making a new menu.  The agent of the chat may ask for exports too.      *)
(***************************************************************************)
EXTENDS BriefingExport

CONSTANT MaxVisits  \* bound of this model: changes of the address

ASSUME VisitAssumption == MaxVisits \in Nat

VARIABLES
  view,    \* the refs of the page: address, issue shown, loading, error
  loads,   \* getIssue requests in flight, per issue
  menu,    \* the refs of the menu: export pending, result shown, error
  late,    \* history: since the last change of the address, an answer for
           \* another address has come
  visits   \* changes of the address so far

pageVars == <<view, loads, menu, late, visits>>
vars == <<exportVars, pageVars>>

Views == [at : Issues \cup {None}, shown : Issues \cup {None},
          loading : BOOLEAN, error : BOOLEAN]
Menus == [pending : Calls \cup {None}, result : Calls \cup {None}, error : BOOLEAN]

\* The types of all variables.
TypeOK ==
  /\ ExportTypeOK
  /\ view \in Views
  /\ loads \in [Issues -> Nat]
  /\ menu \in Menus
  /\ late \in BOOLEAN
  /\ visits \in 0 .. MaxVisits

FreshMenu == [pending |-> None, result |-> None, error |-> FALSE]
NoView == [at |-> None, shown |-> None, loading |-> FALSE, error |-> FALSE]
Mounted == ~view.loading /\ ~view.error /\ view.shown # None

Init ==
  /\ ExportInit
  /\ view = NoView
  /\ loads = [i \in Issues |-> 0]
  /\ menu = FreshMenu
  /\ late = FALSE
  /\ visits = 0

-----------------------------------------------------------------------------
(* The page.                                                                *)

\* Mutant of Visit: the page keeps its issue, and its menu, while the next one loads.
VisitKeeping(i) ==
  /\ visits < MaxVisits
  /\ view.at # i
  /\ view' = [at |-> i, shown |-> view.shown, loading |-> FALSE, error |-> FALSE]
  /\ loads' = [loads EXCEPT ![i] = @ + 1]
  /\ late' = FALSE
  /\ visits' = visits + 1
  /\ UNCHANGED <<exportVars, menu>>

\* The address names issue i: loadIssue empties the page and asks for it.
Visit(i) ==
  /\ visits < MaxVisits
  /\ view.at # i
  /\ view' = [at |-> i, shown |-> None, loading |-> TRUE, error |-> FALSE]
  /\ loads' = [loads EXCEPT ![i] = @ + 1]
  /\ menu' = FreshMenu
  /\ late' = FALSE
  /\ visits' = visits + 1
  /\ UNCHANGED exportVars

\* The address names no issue: an error at once, and no request.
VisitNothing ==
  /\ visits < MaxVisits
  /\ view' = [at |-> None, shown |-> None, loading |-> FALSE, error |-> TRUE]
  /\ menu' = FreshMenu
  /\ late' = FALSE
  /\ visits' = visits + 1
  /\ UNCHANGED <<exportVars, loads>>

\* Another route: the component goes, and nobody hears its requests.
Leave ==
  /\ view # NoView
  /\ view' = NoView
  /\ loads' = [i \in Issues |-> 0]
  /\ menu' = FreshMenu
  /\ late' = FALSE
  /\ UNCHANGED <<exportVars, visits>>

\* An answer of getIssue, of whichever load: it replaces the issue and ends
\* the loading; the error of another load stays.
Loaded(i) ==
  /\ loads[i] > 0
  /\ i \in Stored
  /\ loads' = [loads EXCEPT ![i] = @ - 1]
  /\ view' = [at |-> view.at, shown |-> i, loading |-> FALSE, error |-> view.error]
  /\ late' = (late \/ i # view.at)
  /\ UNCHANGED <<exportVars, menu, visits>>

\* A load fails; the error takes the place of the page, and of its menu.
LoadFails(i) ==
  /\ loads[i] > 0
  /\ loads' = [loads EXCEPT ![i] = @ - 1]
  /\ view' = [at |-> view.at, shown |-> view.shown, loading |-> FALSE, error |-> TRUE]
  /\ menu' = FreshMenu
  /\ late' = (late \/ i # view.at)
  /\ UNCHANGED <<exportVars, visits>>

-----------------------------------------------------------------------------
(* The menu.                                                                *)

RunExport(c, f) ==
  /\ Mounted
  /\ menu.pending = None
  /\ Ask(c, view.shown, f)
  /\ menu' = [pending |-> c, result |-> None, error |-> FALSE]
  /\ UNCHANGED <<view, loads, late, visits>>

\* The response comes when the session is left, and that is when the server
\* process is over.
Hear(c) ==
  /\ menu.pending = c
  /\ step[c] \in Over
  /\ menu' = [pending |-> None,
              result  |-> IF answer[c] = "ok" THEN c ELSE None,
              error   |-> answer[c] # "ok"]
  /\ UNCHANGED <<exportVars, view, loads, late, visits>>

\* The connection breaks before that; the export goes on.
ConnectionLost ==
  /\ menu.pending # None
  /\ menu' = [pending |-> None, result |-> menu.result, error |-> TRUE]
  /\ UNCHANGED <<exportVars, view, loads, late, visits>>

-----------------------------------------------------------------------------
\* The agent's tool call, for any issue.
AgentExports(c, i, f) == Ask(c, i, f) /\ UNCHANGED pageVars

Export(c) == ServerStep(c) /\ UNCHANGED pageVars

Next ==
  \/ \E i \in Issues : Visit(i) \/ Loaded(i) \/ LoadFails(i)
  \/ VisitNothing
  \/ Leave
  \/ \E c \in Calls, f \in Formats : RunExport(c, f)
  \/ \E c \in Calls, i \in Issues, f \in Formats : AgentExports(c, i, f)
  \/ \E c \in Calls : Hear(c) \/ Export(c)
  \/ ConnectionLost

Spec == Init /\ [][Next]_vars

(* Fairness: the limit of a session runs out, a session that is left kills  *)
(* its process, and a response arrives.  Nothing is assumed of the export   *)
(* itself, which may hang in the database, the renderer or Notion.          *)
Fairness ==
  /\ \A c \in Calls : WF_vars(TimeOut(c) /\ UNCHANGED pageVars)
  /\ \A c \in Calls : WF_vars(Abandon(c) /\ UNCHANGED pageVars)
  /\ \A c \in Calls : WF_vars(Hear(c))

FairSpec == Spec /\ Fairness

-----------------------------------------------------------------------------
(* The page shows the issue of its address, and the menu the exports of the *)
(* issue shown, as long as no answer for an earlier address comes in: an    *)
(* export that outlives its page is never heard by the page of another      *)
(* issue (IssueDetailView.vue:30-47, ExportMenu.vue:19-36).  A late answer  *)
(* does break this, and nothing else.                                       *)
AgreesUnlessLate ==
  ~late =>
    /\ view.shown \in {None, view.at}
    /\ \A c \in {menu.pending, menu.result} \ {None} :
         request[c].issue = view.shown

(* The menu becomes usable again after every export, however the export     *)
(* goes: pendingFormat disables both buttons until then.                    *)
ExportsEnd == \A c \in Calls : menu.pending = c ~> menu.pending # c
=============================================================================
