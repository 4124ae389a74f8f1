--------------------------- MODULE IssuePageProofs --------------------------
(***************************************************************************)
(* Proofs about BriefingExport and IssuePage, for any calls, issues, sizes *)
(* of a briefing and numbers of visits.                                    *)
(***************************************************************************)
EXTENDS IssuePage, TLAPS

\* What is known of a call: an answer "ok" is the last of it and holds, and what
\* the server process does fits what was asked.
CallFits(c) ==
  /\ answer[c] = "ok" => step[c] = "ended" /\ Holds(c)
  /\ step[c] \in {"idle", "asked"} => pages[c] = 0
  /\ step[c] = "rendering" => request[c].format = "pdf" /\ request[c].issue \in Stored
  /\ step[c] = "publishing" => request[c].format = "notion" /\ pages[c] < Batches

ExportInv == ExportTypeOK /\ \A c \in Calls : CallFits(c)

\* The menu has something to show only on a page that is shown, and only calls
\* that were made.
MenuFits ==
  /\ menu = FreshMenu \/ Mounted
  /\ \A c \in {menu.pending, menu.result} \ {None} : step[c] # "idle"

Inv == TypeOK /\ ExportInv /\ MenuFits /\ AgreesUnlessLate

-----------------------------------------------------------------------------
(* The exports.                                                             *)

\* Calls that were made keep their request, and stay made.
CallsGoOn ==
  \A d \in Calls : step[d] # "idle" => step'[d] # "idle" /\ request'[d] = request[d]

LEMMA AskKeeps ==
  ASSUME ExportInv, NEW c \in Calls, NEW i \in Issues, NEW f \in Formats, Ask(c, i, f)
  PROVE  ExportInv' /\ CallsGoOn /\ step'[c] # "idle" /\ request'[c].issue = i
<1>1. ExportTypeOK
  BY DEF ExportInv
<1>2. ExportTypeOK'
  BY <1>1, SMT DEF ExportTypeOK, Ask, Requests, Running, Over
<1>3. /\ step[c] = "idle" /\ step'[c] = "asked"
      /\ request'[c] = [issue |-> i, format |-> f]
      /\ \A d \in Calls \ {c} : step'[d] = step[d] /\ request'[d] = request[d]
      /\ UNCHANGED <<answer, file, temp, pages>>
  BY <1>1, SMT DEF ExportTypeOK, Ask
<1>4. \A d \in Calls : CallFits(d)'
  BY <1>3, SMT DEF ExportInv, CallFits, Holds
<1> QED
  BY <1>2, <1>3, <1>4, SMT DEF ExportInv, CallsGoOn

\* A step that leaves the PDF files and the pages alone, ends in a step that
\* is fit for the request, and tells no "ok".
LEMMA PlainStep ==
  ASSUME ExportInv, NEW c \in Calls, ExportTypeOK',
         UNCHANGED <<request, file, pages>>,
         step[c] \in Running,
         \A d \in Calls \ {c} : step'[d] = step[d] /\ answer'[d] = answer[d],
         answer'[c] # "ok",
         step'[c] \in Over \/ step'[c] = step[c]
  PROVE  ExportInv' /\ CallsGoOn
<1>1. \A d \in Calls : CallFits(d)'
  BY SMT DEF ExportInv, CallFits, Holds, Over
<1> QED
  BY <1>1, SMT DEF ExportInv, CallsGoOn, Running, Over

LEMMA NotYetOk ==
  ASSUME ExportInv, NEW c \in Calls, step[c] \in Running
  PROVE  answer[c] # "ok"
BY SMT DEF ExportInv, CallFits, Running

LEMMA RefuseKeeps ==
  ASSUME ExportInv, NEW c \in Calls, Refuse(c)
  PROVE  ExportInv' /\ CallsGoOn
<1>1. ExportTypeOK /\ step[c] \in Running /\ UNCHANGED <<request, file, temp, pages>>
  BY SMT DEF ExportInv, Refuse, Running
<1>2. PICK a \in Refusals(request[c].issue) : End(c, a)
  BY DEF Refuse
<1>3. a \in {"unavailable", "not_configured", "failed", "issue_not_found"}
  <2>1. CASE request[c].issue \in Stored
    BY <1>2, <2>1, SMT DEF Refusals
  <2>2. CASE request[c].issue \notin Stored
    BY <1>2, <2>2, SMT DEF Refusals
  <2> QED
    BY <2>1, <2>2
<1>4. /\ step' = [step EXCEPT ![c] = "ended"]
      /\ answer' = [answer EXCEPT ![c] = IF answer[c] = "none" THEN a ELSE answer[c]]
  BY <1>2, Zenon DEF End, Tell
<1>5. ExportTypeOK'
  BY <1>1, <1>3, <1>4, SMT DEF ExportTypeOK, Over, Answers
<1>6. answer'[c] # "ok" /\ step'[c] \in Over
  BY <1>1, <1>3, <1>4, NotYetOk, SMT DEF ExportTypeOK, Over
<1>7. \A d \in Calls \ {c} : step'[d] = step[d] /\ answer'[d] = answer[d]
  BY <1>1, <1>4, SMT DEF ExportTypeOK
<1> QED
  BY <1>1, <1>5, <1>6, <1>7, PlainStep

LEMMA StartKeeps ==
  ASSUME ExportInv, NEW c \in Calls, Start(c)
  PROVE  ExportInv' /\ CallsGoOn
<1>1. ExportTypeOK
  BY DEF ExportInv
<1>2. /\ step[c] = "asked" /\ request[c].issue \in Stored
      /\ step' = [step EXCEPT ![c] = IF request[c].format = "pdf"
                                     THEN "rendering" ELSE "publishing"]
      /\ UNCHANGED <<request, answer, file, temp, pages>>
  BY DEF Start
<1>3. ExportTypeOK'
  BY <1>1, <1>2, SMT DEF ExportTypeOK, Running
<1>4. /\ \A d \in Calls \ {c} : step'[d] = step[d]
      /\ step'[c] = (IF request[c].format = "pdf" THEN "rendering" ELSE "publishing")
      /\ request[c].format # "pdf" => request[c].format = "notion"
  BY <1>1, <1>2, SMT DEF ExportTypeOK, Requests, Formats
<1>5. \A d \in Calls : CallFits(d)'
  BY <1>2, <1>4, ExportAssumption, SMT DEF ExportInv, CallFits, Holds
<1> QED
  BY <1>2, <1>3, <1>4, <1>5, SMT DEF ExportInv, CallsGoOn

LEMMA WriteKeeps ==
  ASSUME ExportInv, NEW c \in Calls, Write(c)
  PROVE  ExportInv' /\ CallsGoOn
<1>1. ExportTypeOK
  BY DEF ExportInv
<1>2. PICK w \in Written : temp' = [temp EXCEPT ![c] = w]
  BY SMT DEF Write, Written
<1>3. UNCHANGED <<request, step, answer, file, pages>>
  BY DEF Write
<1>4. ExportTypeOK'
  BY <1>1, <1>2, <1>3, SMT DEF ExportTypeOK
<1> QED
  BY <1>3, <1>4, SMT DEF ExportInv, CallFits, Holds, CallsGoOn

LEMMA ReplaceKeeps ==
  ASSUME ExportInv, NEW c \in Calls, Replace(c)
  PROVE  ExportInv' /\ CallsGoOn
<1>1. ExportTypeOK /\ CallFits(c)
  BY DEF ExportInv
<1>2. /\ step[c] = "rendering" /\ request[c].issue \in Issues
      /\ request[c].format = "pdf"
  BY <1>1, ExportAssumption, SMT DEF Replace, CallFits
<1>3. /\ file' = [file EXCEPT ![request[c].issue] = "whole"]
      /\ temp' = [temp EXCEPT ![c] = "none"]
      /\ step' = [step EXCEPT ![c] = "ended"]
      /\ answer' = [answer EXCEPT ![c] = IF answer[c] = "none" THEN "ok" ELSE answer[c]]
      /\ UNCHANGED <<request, pages>>
  BY SMT DEF Replace, End, Tell
<1>4. ExportTypeOK'
  BY <1>1, <1>2, <1>3, SMT DEF ExportTypeOK, Written, Over, Answers
<1>5. /\ step'[c] = "ended"
      /\ \A d \in Calls \ {c} : step'[d] = step[d] /\ answer'[d] = answer[d]
      /\ \A i \in Issues : file'[i] = IF i = request[c].issue THEN "whole" ELSE file[i]
  BY <1>1, <1>2, <1>3, SMT DEF ExportTypeOK
<1>6. CallFits(c)'
  BY <1>2, <1>3, <1>5, SMT DEF CallFits, Holds
<1>7. ASSUME NEW d \in Calls \ {c}
      PROVE  CallFits(d)'
  <2>1. CallFits(d)
    BY DEF ExportInv
  <2>2. Holds(d) => Holds(d)'
    <3>1. request[d].issue \in Issues \cup {None}
      BY <1>1, SMT DEF ExportTypeOK, Requests
    <3>2. file[request[d].issue] = "whole" => file'[request[d].issue] = "whole"
      <4>1. CASE request[d].issue = request[c].issue
        BY <1>2, <1>5, <4>1, SMT
      <4>2. CASE request[d].issue # request[c].issue
        BY <1>1, <1>2, <1>3, <4>2, SMT DEF ExportTypeOK
      <4> QED
        BY <4>1, <4>2
    <3> QED
      BY <3>2, <1>3, SMT DEF Holds
  <2> QED
    BY <2>1, <2>2, <1>3, <1>5, SMT DEF CallFits
<1> QED
  BY <1>2, <1>3, <1>4, <1>5, <1>6, <1>7, SMT DEF ExportInv, CallsGoOn

LEMMA RenderFailsKeeps ==
  ASSUME ExportInv, NEW c \in Calls, RenderFails(c)
  PROVE  ExportInv' /\ CallsGoOn
<1>1. ExportTypeOK /\ step[c] \in Running
  BY SMT DEF ExportInv, RenderFails, Running
<1>2. /\ temp' = [temp EXCEPT ![c] = "none"]
      /\ step' = [step EXCEPT ![c] = "ended"]
      /\ answer' = [answer EXCEPT ![c] = IF answer[c] = "none" THEN "failed" ELSE answer[c]]
      /\ UNCHANGED <<request, file, pages>>
  BY SMT DEF RenderFails, End, Tell
<1>3. ExportTypeOK'
  BY <1>1, <1>2, SMT DEF ExportTypeOK, Written, Over, Answers
<1>4. answer'[c] # "ok" /\ step'[c] \in Over
  BY <1>1, <1>2, NotYetOk, SMT DEF ExportTypeOK, Over
<1>5. \A d \in Calls \ {c} : step'[d] = step[d] /\ answer'[d] = answer[d]
  BY <1>1, <1>2, SMT DEF ExportTypeOK
<1> QED
  BY <1>1, <1>2, <1>3, <1>4, <1>5, PlainStep

\* One more request reaches the page of call c, and its publication goes on,
\* or ends with answer a.
LEMMA PageStep ==
  ASSUME ExportInv, NEW c \in Calls, step[c] = "publishing",
         NEW n \in {pages[c], pages[c] + 1}, pages' = [pages EXCEPT ![c] = n],
         NEW s \in {"publishing", "ended"}, step' = [step EXCEPT ![c] = s],
         NEW a \in {"none", "ok", "failed"},
         answer' = [answer EXCEPT ![c] = IF answer[c] = "none" THEN a ELSE answer[c]],
         a = "ok" => s = "ended" /\ n = Batches,
         s = "publishing" => n # Batches,
         UNCHANGED <<request, file, temp>>
  PROVE  ExportInv' /\ CallsGoOn
<1>1. ExportTypeOK /\ CallFits(c)
  BY DEF ExportInv
<1>2. request[c].format = "notion" /\ pages[c] \in Nat /\ pages[c] < Batches /\ answer[c] # "ok"
  BY <1>1, ExportAssumption, SMT DEF CallFits, ExportTypeOK
<1>3. n \in 0 .. Batches
  BY <1>2, ExportAssumption, SMT
<1>4. ExportTypeOK'
  BY <1>1, <1>3, SMT DEF ExportTypeOK, Running, Over, Answers
<1>5. /\ step'[c] = s /\ pages'[c] = n
      /\ answer'[c] = (IF answer[c] = "none" THEN a ELSE answer[c])
      /\ \A d \in Calls \ {c} : step'[d] = step[d] /\ pages'[d] = pages[d] /\ answer'[d] = answer[d]
  BY <1>1, SMT DEF ExportTypeOK
<1>6. CallFits(c)'
  BY <1>2, <1>3, <1>5, ExportAssumption, SMT DEF CallFits, Holds
<1>7. \A d \in Calls \ {c} : CallFits(d)'
  BY <1>5, SMT DEF ExportInv, CallFits, Holds
<1> QED
  BY <1>4, <1>5, <1>6, <1>7, SMT DEF ExportInv, CallsGoOn

LEMMA PublishKeeps ==
  ASSUME ExportInv, NEW c \in Calls, Publish(c)
  PROVE  ExportInv' /\ CallsGoOn
<1>1. /\ step[c] = "publishing" /\ pages' = [pages EXCEPT ![c] = pages[c] + 1]
      /\ UNCHANGED <<request, file, temp>> /\ ExportTypeOK
  BY DEF Publish, ExportInv
<1>2. CASE pages[c] + 1 = Batches
  <2>1. /\ step' = [step EXCEPT ![c] = "ended"]
        /\ answer' = [answer EXCEPT ![c] = IF answer[c] = "none" THEN "ok" ELSE answer[c]]
    BY <1>2, SMT DEF Publish, End, Tell
  <2> QED
    BY <1>1, <1>2, <2>1, PageStep
<1>3. CASE pages[c] + 1 # Batches
  <2>1. /\ step' = [step EXCEPT ![c] = "publishing"]
        /\ answer' = [answer EXCEPT ![c] = IF answer[c] = "none" THEN "none" ELSE answer[c]]
    BY <1>1, <1>3, SMT DEF Publish, ExportTypeOK
  <2> QED
    BY <1>1, <1>3, <2>1, PageStep
<1> QED
  BY <1>2, <1>3

LEMMA PublishFailsKeeps ==
  ASSUME ExportInv, NEW c \in Calls, PublishFails(c)
  PROVE  ExportInv' /\ CallsGoOn
<1>1. PICK n \in {pages[c], pages[c] + 1} : pages' = [pages EXCEPT ![c] = n]
  BY DEF PublishFails
<1>2. /\ step[c] = "publishing"
      /\ step' = [step EXCEPT ![c] = "ended"]
      /\ answer' = [answer EXCEPT ![c] = IF answer[c] = "none" THEN "failed" ELSE answer[c]]
      /\ UNCHANGED <<request, file, temp>>
  BY SMT DEF PublishFails, End, Tell
<1> QED
  BY <1>1, <1>2, PageStep

LEMMA TimeOutKeeps ==
  ASSUME ExportInv, NEW c \in Calls, TimeOut(c)
  PROVE  ExportInv' /\ CallsGoOn
<1>1. /\ step[c] \in Running /\ answer[c] = "none"
      /\ answer' = [answer EXCEPT ![c] = "unavailable"]
      /\ UNCHANGED <<request, step, file, temp, pages>> /\ ExportTypeOK
  BY SMT DEF TimeOut, Tell, ExportInv
<1>2. ExportTypeOK'
  BY <1>1, SMT DEF ExportTypeOK, Answers
<1>3. /\ answer'[c] # "ok"
      /\ \A d \in Calls \ {c} : step'[d] = step[d] /\ answer'[d] = answer[d]
  BY <1>1, SMT DEF ExportTypeOK
<1> QED
  BY <1>1, <1>2, <1>3, PlainStep

LEMMA DieKeeps ==
  ASSUME ExportInv, NEW c \in Calls, Die(c)
  PROVE  ExportInv' /\ CallsGoOn
<1>1. /\ step[c] \in Running
      /\ step' = [step EXCEPT ![c] = "dead"]
      /\ answer' = [answer EXCEPT ![c] = IF answer[c] = "none" THEN "unavailable" ELSE answer[c]]
      /\ UNCHANGED <<request, file, temp, pages>> /\ ExportTypeOK
  BY SMT DEF Die, Tell, ExportInv
<1>2. ExportTypeOK'
  BY <1>1, SMT DEF ExportTypeOK, Answers, Over
<1>3. answer'[c] # "ok" /\ step'[c] \in Over
  BY <1>1, NotYetOk, SMT DEF ExportTypeOK, Over
<1>4. \A d \in Calls \ {c} : step'[d] = step[d] /\ answer'[d] = answer[d]
  BY <1>1, SMT DEF ExportTypeOK
<1> QED
  BY <1>1, <1>2, <1>3, <1>4, PlainStep

LEMMA ServerStepKeeps ==
  ASSUME ExportInv, NEW c \in Calls, ServerStep(c)
  PROVE  ExportInv' /\ CallsGoOn
BY RefuseKeeps, StartKeeps, WriteKeeps, ReplaceKeeps, RenderFailsKeeps, PublishKeeps,
   PublishFailsKeeps, TimeOutKeeps, DieKeeps, Zenon DEF ServerStep

-----------------------------------------------------------------------------
(* The page and its menu.                                                   *)

LEMMA ViewsAndMenus ==
  /\ \A a, s \in Issues \cup {None}, l, e \in BOOLEAN :
       [at |-> a, shown |-> s, loading |-> l, error |-> e] \in Views
  /\ \A p, q \in Calls \cup {None}, e \in BOOLEAN :
       [pending |-> p, result |-> q, error |-> e] \in Menus
  /\ \A v \in Views : /\ v.at \in Issues \cup {None} /\ v.shown \in Issues \cup {None}
                      /\ v.loading \in BOOLEAN /\ v.error \in BOOLEAN
  /\ \A m \in Menus : /\ m.pending \in Calls \cup {None} /\ m.result \in Calls \cup {None}
                      /\ m.error \in BOOLEAN
  /\ NoView \in Views /\ FreshMenu \in Menus
<1>1. /\ \A a, s \in Issues \cup {None}, l, e \in BOOLEAN :
           [at |-> a, shown |-> s, loading |-> l, error |-> e] \in Views
      /\ \A p, q \in Calls \cup {None}, e \in BOOLEAN :
           [pending |-> p, result |-> q, error |-> e] \in Menus
  BY SMT DEF Views, Menus
<1>2. /\ \A v \in Views : /\ v.at \in Issues \cup {None} /\ v.shown \in Issues \cup {None}
                          /\ v.loading \in BOOLEAN /\ v.error \in BOOLEAN
      /\ \A m \in Menus : /\ m.pending \in Calls \cup {None} /\ m.result \in Calls \cup {None}
                          /\ m.error \in BOOLEAN
  BY SMT DEF Views, Menus
<1>3. NoView \in Views /\ FreshMenu \in Menus
  BY <1>1, SMT DEF NoView, FreshMenu, Views, Menus
<1> QED
  BY <1>1, <1>2, <1>3

\* A step that leaves the exports alone.
LEMMA SameExports ==
  ASSUME ExportInv, UNCHANGED exportVars
  PROVE  ExportInv' /\ ExportTypeOK' /\ CallsGoOn
<1>1. UNCHANGED <<request, step, answer, file, temp, pages>>
  BY DEF exportVars
<1> QED
  BY <1>1, Zenon DEF ExportInv, ExportTypeOK, CallFits, Holds, CallsGoOn

LEMMA InitInv == Init => Inv
<1> SUFFICES ASSUME Init PROVE Inv
  OBVIOUS
<1>1. ExportTypeOK
  <2>1. /\ [issue |-> None, format |-> "pdf"] \in Requests
        /\ "idle" \in Running \cup Over \cup {"idle"}
        /\ "none" \in Answers /\ "none" \in Written /\ 0 \in 0 .. Batches
    BY ExportAssumption, SMT DEF Requests, Formats, Answers, Written
  <2> QED
    BY <2>1, Zenon DEF Init, ExportInit, ExportTypeOK
<1>2. \A c \in Calls : CallFits(c)
  <2>1. \A c \in Calls : step[c] = "idle" /\ answer[c] = "none" /\ pages[c] = 0
    BY DEF Init, ExportInit
  <2>2. "none" # "ok" /\ "idle" # "rendering" /\ "idle" # "publishing"
    OBVIOUS
  <2> QED
    BY <2>1, <2>2, Zenon DEF CallFits
<1>3. TypeOK
  <2>1. /\ NoView \in Views /\ FreshMenu \in Menus
        /\ [i \in Issues |-> 0] \in [Issues -> Nat] /\ 0 \in 0 .. MaxVisits
    BY VisitAssumption, SMT DEF NoView, FreshMenu, Views, Menus
  <2> QED
    BY <1>1, <2>1, Zenon DEF Init, TypeOK
<1>4. MenuFits /\ AgreesUnlessLate
  BY SMT DEF Init, MenuFits, FreshMenu, NoView, AgreesUnlessLate
<1> QED
  BY <1>1, <1>2, <1>3, <1>4 DEF Inv, ExportInv

\* Steps of the page that start with an empty menu.
LEMMA EmptyMenu ==
  ASSUME Inv, UNCHANGED exportVars, TypeOK', menu' = FreshMenu,
         ~late' => view'.shown \in {None, view'.at}
  PROVE  Inv'
<1>1. ExportInv'
  BY SameExports DEF Inv
<1>2. MenuFits' /\ AgreesUnlessLate'
  BY SMT DEF MenuFits, AgreesUnlessLate, FreshMenu
<1> QED
  BY <1>1, <1>2 DEF Inv

LEMMA VisitKeeps ==
  ASSUME Inv, NEW i \in Issues, Visit(i)
  PROVE  Inv'
<1>1. TypeOK'
  <2>1. TypeOK /\ ExportTypeOK'
    BY SameExports DEF Inv, Visit
  <2>2. view' \in Views /\ menu' \in Menus /\ late' \in BOOLEAN
    BY <2>1, ViewsAndMenus, Zenon DEF TypeOK, Visit
  <2>3. loads' \in [Issues -> Nat] /\ visits' \in 0 .. MaxVisits
    BY <2>1, VisitAssumption, SMT DEF TypeOK, Visit
  <2> QED
    BY <2>1, <2>2, <2>3 DEF TypeOK
<1>2. view'.shown = None /\ menu' = FreshMenu /\ UNCHANGED exportVars
  BY SMT DEF Visit
<1> QED
  BY <1>1, <1>2, EmptyMenu

LEMMA VisitNothingKeeps ==
  ASSUME Inv, VisitNothing
  PROVE  Inv'
<1>1. TypeOK'
  <2>1. TypeOK /\ ExportTypeOK'
    BY SameExports DEF Inv, VisitNothing
  <2>2. view' \in Views /\ menu' \in Menus /\ late' \in BOOLEAN
    BY <2>1, ViewsAndMenus, Zenon DEF TypeOK, VisitNothing
  <2>3. loads' \in [Issues -> Nat] /\ visits' \in 0 .. MaxVisits
    BY <2>1, VisitAssumption, SMT DEF TypeOK, VisitNothing
  <2> QED
    BY <2>1, <2>2, <2>3 DEF TypeOK
<1>2. view'.shown = None /\ menu' = FreshMenu /\ UNCHANGED exportVars
  BY SMT DEF VisitNothing
<1> QED
  BY <1>1, <1>2, EmptyMenu

LEMMA LeaveKeeps ==
  ASSUME Inv, Leave
  PROVE  Inv'
<1>1. TypeOK'
  <2>1. TypeOK /\ ExportTypeOK'
    BY SameExports DEF Inv, Leave
  <2>2. view' \in Views /\ menu' \in Menus /\ late' \in BOOLEAN
    BY <2>1, ViewsAndMenus, Zenon DEF TypeOK, Leave
  <2>3. loads' \in [Issues -> Nat] /\ visits' \in 0 .. MaxVisits
    BY <2>1, SMT DEF TypeOK, Leave
  <2> QED
    BY <2>1, <2>2, <2>3 DEF TypeOK
<1>2. view'.shown = None /\ menu' = FreshMenu /\ UNCHANGED exportVars
  BY SMT DEF Leave, NoView
<1> QED
  BY <1>1, <1>2, EmptyMenu

LEMMA LoadFailsKeeps ==
  ASSUME Inv, NEW i \in Issues, LoadFails(i)
  PROVE  Inv'
<1>1. TypeOK'
  <2>1. TypeOK /\ ExportTypeOK'
    BY SameExports DEF Inv, LoadFails
  <2>2. view' \in Views /\ menu' \in Menus /\ late' \in BOOLEAN
    BY <2>1, ViewsAndMenus, Zenon DEF TypeOK, LoadFails
  <2>3. loads' \in [Issues -> Nat] /\ visits' \in 0 .. MaxVisits
    BY <2>1, SMT DEF TypeOK, LoadFails
  <2> QED
    BY <2>1, <2>2, <2>3 DEF TypeOK
<1>2. /\ menu' = FreshMenu /\ UNCHANGED exportVars /\ (~late' => ~late)
      /\ view'.shown = view.shown /\ view'.at = view.at
  BY SMT DEF LoadFails, Inv, TypeOK, Views
<1> QED
  BY <1>1, <1>2, EmptyMenu, SMT DEF Inv, AgreesUnlessLate

LEMMA LoadedKeeps ==
  ASSUME Inv, NEW i \in Issues, Loaded(i)
  PROVE  Inv'
<1>1. /\ TypeOK /\ ExportInv /\ MenuFits /\ AgreesUnlessLate
  BY DEF Inv
<1>2. TypeOK'
  <2>1. ExportTypeOK'
    BY <1>1, SameExports DEF Loaded
  <2>2. view' \in Views /\ late' \in BOOLEAN
    BY <1>1, ViewsAndMenus, Zenon DEF TypeOK, Loaded
  <2>3. loads' \in [Issues -> Nat]
    BY <1>1, SMT DEF TypeOK, Loaded
  <2> QED
    BY <1>1, <2>1, <2>2, <2>3 DEF TypeOK, Loaded
<1>3. ExportInv'
  BY <1>1, SameExports DEF Loaded
<1>4. /\ view'.at = view.at /\ view'.shown = i /\ ~view'.loading /\ view'.error = view.error
      /\ i # None /\ UNCHANGED <<menu, step, request>>
      /\ late' = (late \/ i # view.at)
  BY <1>1, ExportAssumption, SMT DEF Loaded, TypeOK, Views, exportVars
<1>5. MenuFits'
  BY <1>1, <1>4, SMT DEF MenuFits, Mounted
<1>6. AgreesUnlessLate'
  <2> SUFFICES ASSUME ~late'
               PROVE  /\ view'.shown \in {None, view'.at}
                      /\ \A c \in {menu'.pending, menu'.result} \ {None} :
                           request'[c].issue = view'.shown
    BY DEF AgreesUnlessLate
  <2>1. ~late /\ i = view.at
    BY <1>4, Zenon
  <2>2. CASE menu = FreshMenu
    BY <1>4, <2>1, <2>2, SMT DEF FreshMenu
  <2>3. CASE Mounted
    BY <1>1, <1>4, <2>1, <2>3, SMT DEF Mounted, AgreesUnlessLate
  <2> QED
    BY <1>1, <2>2, <2>3 DEF MenuFits
<1> QED
  BY <1>2, <1>3, <1>5, <1>6 DEF Inv

\* A step of the exports that leaves the page as it is.
LEMMA PageWaits ==
  ASSUME Inv, ExportInv', CallsGoOn, UNCHANGED pageVars
  PROVE  Inv'
<1>1. /\ TypeOK /\ MenuFits /\ AgreesUnlessLate
  BY DEF Inv
<1>2. UNCHANGED <<view, loads, menu, late, visits>>
  BY DEF pageVars
<1>3. TypeOK'
  BY <1>1, <1>2, SMT DEF TypeOK, ExportInv
<1>4. \A c \in {menu.pending, menu.result} \ {None} :
        c \in Calls /\ step[c] # "idle"
  BY <1>1, SMT DEF MenuFits, TypeOK, Menus
<1>5. MenuFits'
  BY <1>1, <1>2, <1>4, SMT DEF MenuFits, Mounted, CallsGoOn
<1>6. AgreesUnlessLate'
  BY <1>1, <1>2, <1>4, SMT DEF AgreesUnlessLate, CallsGoOn
<1> QED
  BY <1>3, <1>5, <1>6 DEF Inv

LEMMA RunExportKeeps ==
  ASSUME Inv, NEW c \in Calls, NEW f \in Formats, RunExport(c, f)
  PROVE  Inv'
<1>1. /\ TypeOK /\ ExportInv /\ MenuFits /\ AgreesUnlessLate
  BY DEF Inv
<1>2. /\ Mounted /\ view.shown \in Issues /\ Ask(c, view.shown, f)
      /\ menu' = [pending |-> c, result |-> None, error |-> FALSE]
      /\ UNCHANGED <<view, loads, late, visits>>
  BY <1>1, SMT DEF RunExport, Mounted, TypeOK, Views
<1>3. ExportInv' /\ step'[c] # "idle" /\ request'[c].issue = view.shown
  BY <1>1, <1>2, AskKeeps
<1>4. TypeOK'
  BY <1>1, <1>2, <1>3, SMT DEF TypeOK, ExportInv, Menus
<1>5. MenuFits'
  BY <1>2, <1>3, SMT DEF MenuFits, Mounted
<1>6. AgreesUnlessLate'
  BY <1>1, <1>2, <1>3, SMT DEF AgreesUnlessLate
<1> QED
  BY <1>3, <1>4, <1>5, <1>6 DEF Inv

\* The pending export is heard, or not: the menu shows it or nothing.
LEMMA HeardKeeps ==
  ASSUME Inv, UNCHANGED <<exportVars, view, loads, late, visits>>,
         menu.pending # None, menu' \in Menus, menu'.pending = None,
         menu'.result \in {None, menu.pending, menu.result}
  PROVE  Inv'
<1>1. /\ TypeOK /\ MenuFits /\ AgreesUnlessLate
  BY DEF Inv
<1>2. TypeOK'
  BY <1>1, SameExports, SMT DEF Inv, TypeOK
<1>3. ExportInv'
  BY SameExports DEF Inv
<1>4. Mounted
  BY <1>1, SMT DEF MenuFits, FreshMenu
<1>5. MenuFits'
  BY <1>1, <1>4, SMT DEF MenuFits, Mounted, exportVars
<1>6. AgreesUnlessLate'
  BY <1>1, SMT DEF AgreesUnlessLate, exportVars
<1> QED
  BY <1>2, <1>3, <1>5, <1>6 DEF Inv

LEMMA HearKeeps ==
  ASSUME Inv, NEW c \in Calls, Hear(c)
  PROVE  Inv'
<1>1. menu.pending = c /\ c # None /\ UNCHANGED <<exportVars, view, loads, late, visits>>
  BY ExportAssumption, SMT DEF Hear
<1>2. /\ menu' \in Menus /\ menu'.pending = None
      /\ menu'.result \in {None, menu.pending, menu.result}
  BY <1>1, SMT DEF Hear, Menus
<1> QED
  BY <1>1, <1>2, HeardKeeps

LEMMA ConnectionLostKeeps ==
  ASSUME Inv, ConnectionLost
  PROVE  Inv'
<1>1. menu.pending # None /\ UNCHANGED <<exportVars, view, loads, late, visits>>
  BY DEF ConnectionLost
<1>2. /\ menu' \in Menus /\ menu'.pending = None
      /\ menu'.result \in {None, menu.pending, menu.result}
  <2>1. menu.result \in Calls \cup {None} /\ None \in Calls \cup {None}
    BY ViewsAndMenus DEF Inv, TypeOK
  <2>2. menu' = [pending |-> None, result |-> menu.result, error |-> TRUE]
    BY DEF ConnectionLost
  <2> QED
    BY <2>1, <2>2, ViewsAndMenus, Zenon
<1> QED
  BY <1>1, <1>2, HeardKeeps

LEMMA StepKeeps == Inv /\ [Next]_vars => Inv'
<1> SUFFICES ASSUME Inv, [Next]_vars PROVE Inv'
  OBVIOUS
<1>1. CASE UNCHANGED vars
  <2>1. UNCHANGED exportVars /\ UNCHANGED pageVars
    BY <1>1 DEF vars
  <2>2. ExportInv' /\ CallsGoOn
    BY <2>1, SameExports DEF Inv
  <2> QED
    BY <2>1, <2>2, PageWaits
<1>2. ASSUME NEW i \in Issues, Visit(i) \/ Loaded(i) \/ LoadFails(i) PROVE Inv'
  BY <1>2, VisitKeeps, LoadedKeeps, LoadFailsKeeps
<1>3. CASE VisitNothing \/ Leave \/ ConnectionLost
  BY <1>3, VisitNothingKeeps, LeaveKeeps, ConnectionLostKeeps
<1>4. ASSUME NEW c \in Calls, NEW f \in Formats, RunExport(c, f) PROVE Inv'
  BY <1>4, RunExportKeeps
<1>5. ASSUME NEW c \in Calls, NEW i \in Issues, NEW f \in Formats, AgentExports(c, i, f)
      PROVE  Inv'
  <2>1. ExportInv' /\ CallsGoOn
    BY <1>5, AskKeeps DEF AgentExports, Inv
  <2> QED
    BY <1>5, <2>1, PageWaits DEF AgentExports
<1>6. ASSUME NEW c \in Calls, Hear(c) PROVE Inv'
  BY <1>6, HearKeeps
<1>7. ASSUME NEW c \in Calls, Export(c) PROVE Inv'
  <2>1. ExportInv' /\ CallsGoOn
    BY <1>7, ServerStepKeeps DEF Export, Inv
  <2> QED
    BY <1>7, <2>1, PageWaits DEF Export
<1> QED
  BY <1>1, <1>2, <1>3, <1>4, <1>5, <1>6, <1>7, Zenon DEF Next

-----------------------------------------------------------------------------
(* The inductive invariant.                                                 *)
THEOREM Invariance == Spec => []Inv
<1>1. Init => Inv
  BY InitInv
<1>2. Inv /\ [Next]_vars => Inv'
  BY StepKeeps
<1> QED
  BY <1>1, <1>2, PTL DEF Spec

(* An export answered with "ok" stays whole, whatever other exports of its  *)
(* issue do (pdf.py:41-44, notion.py:41-43).                                *)
THEOREM OkResultsHold == Spec => []ResultsHold
<1>1. Inv => ResultsHold
  BY DEF Inv, ExportInv, CallFits, ResultsHold
<1> QED
  BY <1>1, Invariance, PTL

(* Without a late answer the page shows the issue of its address, and the   *)
(* menu that issue's exports (IssueDetailView.vue:30-47).                   *)
THEOREM PageAgrees == Spec => []AgreesUnlessLate
<1>1. Inv => AgreesUnlessLate
  BY DEF Inv
<1> QED
  BY <1>1, Invariance, PTL
=============================================================================
